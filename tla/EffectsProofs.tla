---------------------------- MODULE EffectsProofs ------------------------------
(***************************************************************************)
(* For any elements, any number of calls, from callbacks too, and any      *)
(* durations: the queue of an element never gets stuck, it runs one thing  *)
(* at a time, and a promise for elements is open as long as it should be.  *)
(* The theorems are at the end, with the invariant that they rest on.      *)
(***************************************************************************)
EXTENDS Effects, DataLemmas, SequenceTheorems

--------------------------------------------------------------------------------
(* The types                                                                *)

Ops == {"dequeue", "animate", "run", "tick", "unqueue", "animated", "ticked",
        "stop", "halt", "splice"}

IsDo(x) == x = Do(x.op, x.e, x.a, x.i, x.how, x.items)

\* Something on the agenda with animations "made": whom it is about, and where a loop over
\* the timers is.
ThingIn(x, made) ==
  /\ IsDo(x) /\ x.op \in Ops
  /\ x.op = "dequeue" => x = DequeueDo(x.e)
  /\ x.op # "tick" => x.e \in Elements
  /\ x.op \in {"unqueue", "animated", "ticked", "splice"} =>
       x.a \in DOMAIN made /\ made[x.a].e = x.e
  /\ x.op \in {"tick", "ticked", "splice"} => x.i \in Nat \ {0}
  /\ x.op = "halt" => x.i \in Nat
  /\ x.op = "stop" => x.how \in {"rejected", "resolved"}
  /\ x.op \in {"halt", "splice"} => x.how \in {"rejected", "resolved", "finish"} /\ IsSeq(x.items)

ThingOK(x) == ThingIn(x, animations)

AnimFields == {"e", "queued", "moves", "shows", "end", "orig", "saved", "left", "stopped",
               "fresh", "state"}

AnimationOK(a) ==
  /\ DOMAIN a = AnimFields
  /\ a.e \in Elements /\ a.queued \in BOOLEAN /\ a.stopped \in BOOLEAN
  /\ a.state \in {"pending", "resolved", "rejected"}

\* Only what is first in a queue can be in progress.
QueueOK(q) ==
  /\ IsSeq(q)
  /\ \A j \in 1..Len(q) : \/ j = 1 /\ q[j] = Inprogress
                          \/ q[j].is \in {"animation", "function"}
                          \/ q[j].is = "delay" /\ q[j].id \in Nat

Hooks == [stop : Nat, unqueued : Int, waiting : SUBSET Nat]

Types ==
  /\ IsSeq(agenda) /\ \A x \in Items(agenda) : ThingOK(x)
  /\ IsSeq(animations) /\ \A n \in DOMAIN animations : AnimationOK(animations[n])
  /\ IsSeq(timers) /\ Items(timers) \subseteq DOMAIN animations
  /\ DOMAIN queue = Elements /\ \A e \in Elements : QueueOK(queue[e])
  /\ DOMAIN hooks = Elements
  /\ \A e \in Elements : hooks[e] # <<>> => hooks[e] = <<hooks[e][1]>> /\ hooks[e][1] \in Hooks
  /\ finish \subseteq Elements
  /\ timeouts \subseteq Nat \X Elements
  /\ IsSeq(promises) /\ calls \in Nat
  /\ DOMAIN fate = {"wronged", "manual", "forgotten", "overlapped", "shifted"}
  /\ fate.wronged \in BOOLEAN

--------------------------------------------------------------------------------
(* The invariant                                                            *)

\* The numbers of delays in the queue of an element, running, or told to its hooks.
Ids(e) ==
  {q.id : q \in {y \in Items(queue[e]) : y.is = "delay"}} \cup {t[1] : t \in DelaysOf(e)}
  \cup ({HooksOf(e).stop} \ {0})

\* A delay is one of one element.
IdsOwn ==
  \A e \in Elements : /\ Ids(e) \subseteq 1..calls
                      /\ \A f \in Elements : e # f => Ids(e) \cap Ids(f) = {}

\* What of the agenda is about an element.
Of(e) == {x \in Items(agenda) : x.e = e /\ x.op # "tick"}

\* What will call dequeue() for its element.
MovesOn(x) ==
  \/ x.op = "dequeue"
  \/ x.op = "animate" /\ x.how = "queued"
  \/ x.op \in {"stop", "halt", "splice"} /\ x.how = "rejected"
  \/ x.op \in {"halt", "splice"} /\ x.how = "resolved" /\ x.items # <<>>

\* The delay that stop() would end.
Delayed(e) == \E t \in DelaysOf(e) : hooks[e] # <<>> /\ t[1] = HooksOf(e).stop

\* When there is something in the queue, or hooks that nothing outside of the queue
\* keeps, something goes on or will that moves the queue on.
Wants(e) == queue[e] # <<>> \/ (hooks[e] # <<>> /\ HooksOf(e).unqueued <= 0)
Goes(e) == QueuedOf(e) # {} \/ Delayed(e) \/ \E x \in Of(e) : MovesOn(x)
Moving(e) == Wants(e) => Goes(e)

--------------------------------------------------------------------------------
(* What is on the agenda                                                    *)

LEMMA RestFacts ==
  ASSUME Types, agenda # <<>>
  PROVE  /\ IsSeq(Rest) /\ agenda = Cons(Todo, Rest) /\ Todo \in Items(agenda)
         /\ Items(agenda) = {Todo} \cup Items(Rest)
         /\ ThingOK(Todo) /\ \A x \in Items(Rest) : ThingOK(x)
  <1>1. IsSeq(agenda) /\ \A x \in Items(agenda) : ThingOK(x)
    BY DEF Types
  <1>2. /\ IsSeq(Rest) /\ Todo \in Items(agenda) /\ Items(agenda) = {Todo} \cup Items(Rest)
        /\ Len(Rest) = Len(agenda) - 1 /\ Todo = agenda[1] /\ Len(agenda) >= 1
        /\ \A j \in 1..Len(Rest) : Rest[j] = agenda[j + 1]
    BY <1>1, TailIsSeq DEF Todo, Rest
  <1>3. agenda = Cons(Todo, Rest)
    <2> PICK c : c = Cons(Todo, Rest)
      OBVIOUS
    <2> PICK t : t = Todo
      OBVIOUS
    <2> PICK r : r = Rest
      OBVIOUS
    <2>1. /\ IsSeq(c) /\ Len(c) = Len(r) + 1 /\ c[1] = t
          /\ \A j \in 1..Len(r) : c[j + 1] = r[j]
      BY <1>2, ConsFacts
    <2>2. Len(r) \in Nat /\ Len(agenda) \in Nat /\ Len(c) = Len(agenda)
      BY <1>1, <1>2, <2>1, IsSeqFacts
    <2>3. \A j \in 1..Len(agenda) : c[j] = agenda[j]
      <3> SUFFICES ASSUME NEW j \in 1..Len(agenda) PROVE c[j] = agenda[j]
        OBVIOUS
      <3>1. CASE j = 1
        BY <1>2, <2>1, <3>1
      <3>2. CASE j # 1
        <4>1. j - 1 \in 1..Len(r) /\ (j - 1) + 1 = j
          BY <2>1, <2>2, <3>2
        <4>2. c[(j - 1) + 1] = r[j - 1] /\ r[j - 1] = agenda[(j - 1) + 1]
          BY <1>2, <2>1, <4>1
        <4> QED
          BY <4>1, <4>2
      <3> QED
        BY <3>1, <3>2
    <2>4. c \in [1..Len(agenda) -> Items(c)] /\ agenda \in [1..Len(agenda) -> Items(agenda)]
      BY <1>1, <2>1, <2>2, LenProperties DEF IsSeq
    <2> QED
      BY <2>3, <2>4
  <1> QED
    BY <1>1, <1>2, <1>3

LEMMA DoFields ==
  ASSUME NEW op, NEW e, NEW a, NEW i, NEW how, NEW items
  PROVE  LET x == Do(op, e, a, i, how, items)
         IN  /\ x.op = op /\ x.e = e /\ x.a = a /\ x.i = i /\ x.how = how /\ x.items = items
             /\ IsDo(x)
  BY DEF Do, IsDo

\* The things that the code puts on the agenda.
LEMMA SimpleThings ==
  ASSUME NEW e, NEW n, NEW i
  PROVE  /\ DequeueDo(e).op = "dequeue" /\ DequeueDo(e).e = e /\ IsDo(DequeueDo(e))
         /\ Run(e).op = "run" /\ Run(e).e = e /\ IsDo(Run(e))
         /\ TickAt(i).op = "tick" /\ TickAt(i).i = i /\ IsDo(TickAt(i))
         /\ UnqueueDo(e, n).op = "unqueue" /\ UnqueueDo(e, n).e = e /\ UnqueueDo(e, n).a = n
         /\ IsDo(UnqueueDo(e, n))
         /\ TickedDo(e, n, i).op = "ticked" /\ TickedDo(e, n, i).e = e
         /\ TickedDo(e, n, i).a = n /\ TickedDo(e, n, i).i = i /\ IsDo(TickedDo(e, n, i))
  <1>1. ASSUME NEW x, NEW none, NEW o, NEW op, NEW a, NEW k, x = Do(op, o, a, k, none, <<>>)
        PROVE  x.op = op /\ x.e = o /\ x.a = a /\ x.i = k /\ IsDo(x)
    BY <1>1, DoFields
  <1>2. PICK none : /\ DequeueDo(e) = Do("dequeue", e, 0, 0, none, <<>>)
                    /\ Run(e) = Do("run", e, 0, 0, none, <<>>)
                    /\ TickAt(i) = Do("tick", 0, 0, i, none, <<>>)
                    /\ UnqueueDo(e, n) = Do("unqueue", e, n, 0, none, <<>>)
                    /\ TickedDo(e, n, i) = Do("ticked", e, n, i, none, <<>>)
    BY Zenon DEF DequeueDo, Run, TickAt, UnqueueDo, TickedDo
  <1>3. DequeueDo(e).op = "dequeue" /\ DequeueDo(e).e = e /\ IsDo(DequeueDo(e))
    BY <1>1, <1>2
  <1>4. Run(e).op = "run" /\ Run(e).e = e /\ IsDo(Run(e))
    BY <1>1, <1>2
  <1>5. TickAt(i).op = "tick" /\ TickAt(i).i = i /\ IsDo(TickAt(i))
    BY <1>1, <1>2
  <1>6. /\ UnqueueDo(e, n).op = "unqueue" /\ UnqueueDo(e, n).e = e /\ UnqueueDo(e, n).a = n
        /\ IsDo(UnqueueDo(e, n))
    BY <1>1, <1>2
  <1>7. /\ TickedDo(e, n, i).op = "ticked" /\ TickedDo(e, n, i).e = e
        /\ TickedDo(e, n, i).a = n /\ TickedDo(e, n, i).i = i /\ IsDo(TickedDo(e, n, i))
    BY <1>1, <1>2
  <1> QED
    BY <1>3, <1>4, <1>5, <1>6, <1>7

LEMMA AnimateThings ==
  ASSUME NEW e, NEW item, NEW how
  PROVE  LET x == AnimateDo(e, item, how)
         IN  x.op = "animate" /\ x.e = e /\ x.how = how /\ IsDo(x)
  BY DoFields DEF AnimateDo

LEMMA HaltThings ==
  ASSUME NEW e, NEW i, NEW how, NEW items
  PROVE  LET x == HaltAt(e, i, how, items)
         IN  /\ x.op = "halt" /\ x.e = e /\ x.i = i /\ x.how = how /\ x.items = items /\ x.a = 0
             /\ IsDo(x)
  BY DoFields DEF HaltAt

\* A thing with some fields changed.
LEMMA FieldsOf ==
  ASSUME NEW x, IsDo(x)
  PROVE  \E op, e, a, j, how, old :
           /\ x = [op |-> op, e |-> e, a |-> a, i |-> j, how |-> how, items |-> old]
           /\ op = x.op /\ e = x.e /\ a = x.a /\ j = x.i /\ how = x.how /\ old = x.items
  BY DEF IsDo, Do

LEMMA ToSplice ==
  ASSUME NEW x, IsDo(x), NEW n
  PROVE  [x EXCEPT !.op = "splice", !.a = n] = Do("splice", x.e, n, x.i, x.how, x.items)
  <1>1. PICK op, e, a, j, how, old :
          /\ x = [op |-> op, e |-> e, a |-> a, i |-> j, how |-> how, items |-> old]
          /\ op = x.op /\ e = x.e /\ a = x.a /\ j = x.i /\ how = x.how /\ old = x.items
    BY FieldsOf, Zenon
  <1>2. PICK y : y = [x EXCEPT !.op = "splice", !.a = n]
    OBVIOUS
  <1>3. /\ DOMAIN y = DOMAIN x /\ y.op = "splice" /\ y.e = e /\ y.a = n /\ y.i = j /\ y.how = how
        /\ y.items = old
    BY <1>1, <1>2
  <1> QED
    BY <1>1, <1>2, <1>3 DEF Do

LEMMA ToHalt ==
  ASSUME NEW x, IsDo(x), NEW i
  PROVE  [x EXCEPT !.op = "halt", !.i = i] = Do("halt", x.e, x.a, i, x.how, x.items)
  <1>1. PICK op, e, a, j, how, old :
          /\ x = [op |-> op, e |-> e, a |-> a, i |-> j, how |-> how, items |-> old]
          /\ op = x.op /\ e = x.e /\ a = x.a /\ j = x.i /\ how = x.how /\ old = x.items
    BY FieldsOf, Zenon
  <1>2. PICK y : y = [x EXCEPT !.op = "halt", !.i = i]
    OBVIOUS
  <1>3. /\ DOMAIN y = DOMAIN x /\ y.op = "halt" /\ y.e = e /\ y.a = a /\ y.i = i /\ y.how = how
        /\ y.items = old
    BY <1>1, <1>2
  <1> QED
    BY <1>1, <1>2, <1>3 DEF Do

LEMMA ToNextPlace ==
  ASSUME NEW x, IsDo(x), NEW i
  PROVE  [x EXCEPT !.i = i] = Do(x.op, x.e, x.a, i, x.how, x.items)
  BY FieldsOf DEF Do

LEMMA ToRestOfItems ==
  ASSUME NEW x, IsDo(x), NEW items
  PROVE  [x EXCEPT !.items = items] = Do(x.op, x.e, x.a, x.i, x.how, items)
  BY FieldsOf DEF Do

\* What settling an animation puts before the rest.
LEMMA FollowsCons ==
  ASSUME NEW n, NEW a, NEW how, NEW s, IsSeq(s), a.queued \in BOOLEAN
  PROVE  /\ IsSeq(Follows(n, a, how))
         /\ Follows(n, a, how) \o s =
              IF how = "resolved"
              THEN Cons(Run(a.e), Cons(IF a.queued THEN DequeueDo(a.e) ELSE UnqueueDo(a.e, n), s))
              ELSE IF a.queued THEN s ELSE Cons(UnqueueDo(a.e, n), s)
  <1>1. IsSeq(<<>>) /\ \A x : IsSeq(<<x>>)
    BY ShortIsSeq
  <1>2. ASSUME NEW x, NEW y PROVE IsSeq(<<x, y>>) /\ <<x>> \o <<y>> = <<x, y>>
    <2>1. IsSeq(<<x, y>>)
      BY ShortIsSeq
    <2>2. Cons(x, <<y>>) = <<x, y>>
      BY TwoIsCons, Zenon
    <2> QED
      BY <2>1, <2>2, Zenon DEF Cons
  <1>3. \A x, y : PutTwo(x, y, s)
    BY ConsTwo, Zenon
  <1>5. CASE how = "resolved" /\ a.queued
    <2>1. Follows(n, a, how) = (<<Run(a.e)>> \o <<DequeueDo(a.e)>>) \o <<>>
      BY <1>5, Zenon DEF Follows
    <2>2. Follows(n, a, how) = <<Run(a.e), DequeueDo(a.e)>> /\ IsSeq(<<Run(a.e), DequeueDo(a.e)>>)
      BY <1>2, <2>1, NothingBehind, Zenon
    <2>3. <<Run(a.e), DequeueDo(a.e)>> \o s = Cons(Run(a.e), Cons(DequeueDo(a.e), s))
      BY <1>3, Zenon DEF PutTwo
    <2> QED
      BY <1>5, <2>2, <2>3, Zenon
  <1>6. CASE how = "resolved" /\ ~a.queued
    <2>1. Follows(n, a, how) = (<<Run(a.e)>> \o <<>>) \o <<UnqueueDo(a.e, n)>>
      BY <1>6, Zenon DEF Follows
    <2>2. <<Run(a.e)>> \o <<>> = <<Run(a.e)>>
      BY <1>1, NothingBehind, Zenon
    <2>3. /\ Follows(n, a, how) = <<Run(a.e), UnqueueDo(a.e, n)>>
          /\ IsSeq(<<Run(a.e), UnqueueDo(a.e, n)>>)
      BY <1>2, <2>1, <2>2, Zenon
    <2>4. <<Run(a.e), UnqueueDo(a.e, n)>> \o s = Cons(Run(a.e), Cons(UnqueueDo(a.e, n), s))
      BY <1>3, Zenon DEF PutTwo
    <2> QED
      BY <1>6, <2>3, <2>4, Zenon
  <1>7. CASE how # "resolved" /\ a.queued
    <2>1. Follows(n, a, how) = <<>> \o <<>>
      BY <1>7, Zenon DEF Follows
    <2>2. Follows(n, a, how) = <<>>
      BY <1>1, <2>1, NothingBehind, Zenon
    <2>3. <<>> \o s = s
      BY NothingBefore
    <2> QED
      BY <1>1, <1>7, <2>2, <2>3, Zenon
  <1>8. CASE how # "resolved" /\ ~a.queued
    <2>1. Follows(n, a, how) = <<>> \o <<UnqueueDo(a.e, n)>>
      BY <1>8, Zenon DEF Follows
    <2>2. Follows(n, a, how) = <<UnqueueDo(a.e, n)>>
      BY <1>1, <2>1, NothingBefore, Zenon
    <2> QED
      BY <1>1, <1>8, <2>2, Zenon DEF Cons
  <1> QED
    BY <1>5, <1>6, <1>7, <1>8

\* The same in the other order.
PutReversed(n, a, s) ==
  /\ Reverse(Follows(n, a, "resolved")) \o s = Cons(UnqueueDo(a.e, n), Cons(Run(a.e), s))
  /\ IsSeq(Reverse(Follows(n, a, "resolved")))

LEMMA FollowsReversed ==
  ASSUME NEW n, NEW a, NEW s, IsSeq(s), a.queued = FALSE
  PROVE  PutReversed(n, a, s)
  <1> PICK run : run = Run(a.e)
    OBVIOUS
  <1> PICK unq : unq = UnqueueDo(a.e, n)
    OBVIOUS
  <1>1. Follows(n, a, "resolved") = <<run, unq>>
    <2>1. IsSeq(<<>>)
      BY ShortIsSeq
    <2>2. Follows(n, a, "resolved") \o <<>> = Cons(run, Cons(unq, <<>>)) /\ IsSeq(Follows(n, a, "resolved"))
      BY <2>1, FollowsCons, Zenon
    <2>3. Follows(n, a, "resolved") \o <<>> = Follows(n, a, "resolved")
      BY <2>2, NothingBehind, Zenon
    <2>4. Cons(unq, <<>>) = <<unq>>
      BY OneIsSeq, NothingBehind, Zenon DEF Cons
    <2>5. Cons(run, <<unq>>) = <<run, unq>>
      BY TwoIsCons, Zenon
    <2> QED
      BY <2>2, <2>3, <2>4, <2>5, Zenon
  <1>2. Reverse(<<run, unq>>) = <<unq, run>>
    <2> PICK f : f = <<run, unq>>
      OBVIOUS
    <2>1. Len(f) = 2 /\ f[1] = run /\ f[2] = unq
      OBVIOUS
    <2>2. Reverse(f) = [j \in 1..Len(f) |-> f[(Len(f) - j) + 1]]
      BY DEF Reverse
    <2>3. [j \in 1..Len(f) |-> f[(Len(f) - j) + 1]] = <<unq, run>>
      BY <2>1
    <2> QED
      BY <2>2, <2>3
  <1>3. <<unq, run>> \o s = Cons(unq, Cons(run, s))
    <2>1. PutTwo(unq, run, s)
      BY ConsTwo, Zenon
    <2> QED
      BY <2>1, Zenon DEF PutTwo
  <1>4. IsSeq(<<unq, run>>)
    BY ShortIsSeq
  <1> QED
    BY <1>1, <1>2, <1>3, <1>4, Zenon DEF PutReversed

--------------------------------------------------------------------------------
(* What the steps do                                                        *)

\* The hooks of an element.
LEMMA HooksFacts ==
  ASSUME Types, NEW e \in Elements
  PROVE  /\ HooksOf(e) \in Hooks
         /\ hooks[e] = <<>> => HooksOf(e) = NewHooks /\ HooksOf(e).stop = 0 /\ HooksOf(e).unqueued = 0
                               /\ HooksOf(e).waiting = {}
         /\ hooks[e] # <<>> => hooks[e] = <<HooksOf(e)>>
  <1>1. NewHooks \in Hooks /\ NewHooks.stop = 0 /\ NewHooks.unqueued = 0 /\ NewHooks.waiting = {}
    BY DEF NewHooks, Hooks
  <1> QED
    BY <1>1 DEF HooksOf, Types

LEMMA HooksAfter ==
  ASSUME NEW e \in Elements
  PROVE  /\ hooks'[e] = <<>> => HooksOf(e)' = NewHooks /\ HooksOf(e)'.stop = 0
                                /\ HooksOf(e)'.unqueued = 0 /\ HooksOf(e)'.waiting = {}
         /\ \A h : hooks'[e] = <<h>> => hooks'[e] # <<>> /\ HooksOf(e)' = h
  <1>1. NewHooks.stop = 0 /\ NewHooks.unqueued = 0 /\ NewHooks.waiting = {}
    BY DEF NewHooks
  <1>2. ASSUME NEW h, hooks'[e] = <<h>> PROVE hooks'[e] # <<>> /\ HooksOf(e)' = h
    <2>1. <<h>> # <<>> /\ <<h>>[1] = h
      OBVIOUS
    <2> QED
      BY <1>2, <2>1 DEF HooksOf
  <1> QED
    BY <1>1, <1>2 DEF HooksOf

\* What hooks.empty.fire() does with hooks h.
Emptied(e, h) ==
  \/ h.unqueued > 0 /\ hooks'[e] = <<h>> /\ promises' = promises
  \/ /\ h.unqueued <= 0 /\ hooks'[e] = <<>>
     /\ promises' = [p \in DOMAIN promises |-> IF p \in h.waiting THEN promises[p] - 1 ELSE promises[p]]

LEMMA EmptyFireFacts ==
  ASSUME Types, NEW e \in Elements, NEW h \in Hooks, EmptyFire(e, h)
  PROVE  Emptied(e, h) /\ DOMAIN hooks' = Elements /\ \A f \in Elements \ {e} : hooks'[f] = hooks[f]
  <1>1. DOMAIN hooks = Elements /\ h.unqueued \in Int
    BY DEF Types, Hooks
  <1>2. CASE h.unqueued > 0
    BY <1>1, <1>2 DEF EmptyFire, Emptied
  <1>3. CASE ~(h.unqueued > 0)
    BY <1>1, <1>3 DEF EmptyFire, Emptied
  <1> QED
    BY <1>2, <1>3

LEMMA ItemFacts ==
  /\ Inprogress.is = "inprogress"
  /\ FunctionItem.is = "function"
  /\ \A id : DelayItem(id).is = "delay" /\ DelayItem(id).id = id
  /\ \A goal, duration : Item("animation", goal, duration, 0).is = "animation"
  <1>1. ASSUME NEW is, NEW goal, NEW duration, NEW id
        PROVE  Item(is, goal, duration, id).is = is /\ Item(is, goal, duration, id).id = id
    BY DEF Item
  <1>2. PICK none : /\ Inprogress = Item("inprogress", none, 0, 0)
                    /\ FunctionItem = Item("function", none, 0, 0)
                    /\ \A id : DelayItem(id) = Item("delay", none, 0, id)
    BY Zenon DEF Inprogress, FunctionItem, DelayItem
  <1>3. Inprogress.is = "inprogress" /\ FunctionItem.is = "function"
    BY <1>1, <1>2
  <1>4. \A id : DelayItem(id).is = "delay" /\ DelayItem(id).id = id
    BY <1>1, <1>2
  <1>5. \A goal, duration : Item("animation", goal, duration, 0).is = "animation"
    BY <1>1
  <1> QED
    BY <1>3, <1>4, <1>5

\* What is left of a queue when the thing in progress has ended.
Left(q) == IF q # <<>> /\ Head(q) = Inprogress THEN Tail(q) ELSE q

ItemOK(y) == y.is \in {"animation", "function"} \/ (y.is = "delay" /\ y.id \in Nat)

\* What queue() and delay() put into a queue.
LEMMA QueuedItems ==
  ASSUME Types
  PROVE  ItemOK(FunctionItem) /\ ItemOK(DelayItem(calls + 1))
  <1> PICK item : item = DelayItem(calls + 1)
    OBVIOUS
  <1>1. item.is = "delay" /\ item.id = calls + 1 /\ calls + 1 \in Nat
    BY ItemFacts DEF Types
  <1> QED
    BY <1>1, ItemFacts DEF ItemOK

LEMMA LeftFacts ==
  ASSUME NEW q, QueueOK(q)
  PROVE  /\ IsSeq(Left(q)) /\ Items(Left(q)) \subseteq Items(q)
         /\ \A y \in Items(Left(q)) : ItemOK(y)
  <1>1. IsSeq(q) /\ \A j \in 1..Len(q) : (j = 1 /\ q[j] = Inprogress) \/ ItemOK(q[j])
    BY DEF QueueOK, ItemOK
  <1>2. CASE q # <<>> /\ Head(q) = Inprogress
    <2>1. Left(q) = Tail(q)
      BY <1>2 DEF Left
    <2>2. /\ IsSeq(Tail(q)) /\ Len(Tail(q)) = Len(q) - 1 /\ Len(q) \in Nat
          /\ \A j \in 1..Len(Tail(q)) : Tail(q)[j] = q[j + 1]
          /\ Items(q) = {Head(q)} \cup Items(Tail(q))
      BY <1>1, <1>2, TailIsSeq, IsSeqFacts
    <2>3. ASSUME NEW j \in 1..Len(Tail(q)) PROVE ItemOK(Tail(q)[j])
      <3>1. j + 1 \in 1..Len(q) /\ j + 1 # 1
        BY <2>2
      <3> QED
        BY <1>1, <2>2, <3>1
    <2> QED
      BY <2>1, <2>2, <2>3 DEF Items
  <1>3. CASE ~(q # <<>> /\ Head(q) = Inprogress)
    <2>1. Left(q) = q
      BY <1>3 DEF Left
    <2>2. ASSUME NEW j \in 1..Len(q) PROVE ItemOK(q[j])
      <3>1. q # <<>> /\ Head(q) = q[1]
        BY <1>1, TailIsSeq, IsSeqFacts
      <3>2. Head(q) # Inprogress
        BY <1>3, <3>1
      <3> QED
        BY <1>1, <3>1, <3>2
    <2> QED
      BY <1>1, <2>1, <2>2 DEF Items
  <1> QED
    BY <1>2, <1>3

\* A queue in which the next has begun.
LEMMA NextBegins ==
  ASSUME NEW q, IsSeq(q), q # <<>>, \A y \in Items(q) : ItemOK(y)
  PROVE  LET r == <<Inprogress>> \o Tail(q)
         IN  /\ QueueOK(r) /\ r # <<>> /\ Head(r) = Inprogress
             /\ Items(r) \subseteq {Inprogress} \cup Items(q)
             /\ Tail(r) = Tail(q) /\ Items(Tail(r)) \subseteq Items(q)
  <1>1. /\ IsSeq(Tail(q)) /\ Items(q) = {Head(q)} \cup Items(Tail(q))
    BY TailIsSeq
  <1> PICK r : r = Cons(Inprogress, Tail(q))
    OBVIOUS
  <1>2. r = <<Inprogress>> \o Tail(q)
    BY Zenon DEF Cons
  <1>3. /\ IsSeq(r) /\ Items(r) = {Inprogress} \cup Items(Tail(q))
        /\ Len(r) = Len(Tail(q)) + 1 /\ r[1] = Inprogress
        /\ \A j \in 1..Len(Tail(q)) : r[j + 1] = Tail(q)[j]
        /\ r # <<>> /\ Head(r) = Inprogress /\ Tail(r) = Tail(q)
    <2>1. IsSeq(r) /\ Items(r) = {Inprogress} \cup Items(Tail(q))
      BY <1>1, ConsIs
    <2>2. Len(r) = Len(Tail(q)) + 1 /\ r[1] = Inprogress
      BY <1>1, ConsIs
    <2>3. r # <<>> /\ Head(r) = Inprogress
      BY <1>1, ConsIs
    <2>4. Tail(r) = Tail(q)
      BY <1>1, ConsIs
    <2>5. \A j \in 1..Len(Tail(q)) : r[j + 1] = Tail(q)[j]
      <3>1. \A j \in 1..Len(Tail(r)) : Tail(r)[j] = r[j + 1]
        BY <2>1, <2>3, TailIsSeq
      <3> QED
        BY <2>4, <3>1
    <2> QED
      BY <2>1, <2>2, <2>3, <2>4, <2>5
  <1>4. ASSUME NEW j \in 1..Len(r) PROVE (j = 1 /\ r[j] = Inprogress) \/ ItemOK(r[j])
    <2>1. CASE j = 1
      BY <1>3, <2>1
    <2>2. CASE j # 1
      <3>1. Len(Tail(q)) \in Nat
        BY <1>1, IsSeqFacts
      <3>2. j - 1 \in 1..Len(Tail(q)) /\ (j - 1) + 1 = j
        BY <1>3, <2>2, <3>1
      <3>3. r[j] = Tail(q)[j - 1] /\ Tail(q)[j - 1] \in Items(q)
        BY <1>1, <1>3, <3>2 DEF Items
      <3> QED
        BY <3>3
    <2> QED
      BY <2>1, <2>2
  <1>5. QueueOK(r)
    BY <1>3, <1>4 DEF QueueOK, ItemOK
  <1> QED
    BY <1>1, <1>2, <1>3, <1>5, Zenon

--------------------------------------------------------------------------------

\* Nothing but what is about element e changes in the queues and hooks.
OnlyOf(e) ==
  /\ DOMAIN queue' = Elements /\ DOMAIN hooks' = Elements
  /\ \A f \in Elements \ {e} : queue'[f] = queue[f] /\ hooks'[f] = hooks[f]

DequeueEmpty(e) ==
  queue'[e] = <<>> /\ Emptied(e, HooksOf(e)) /\ agenda' = Rest /\ timeouts' = timeouts

DequeueNext(e, fn) ==
  /\ fn \in Items(queue[e]) /\ ItemOK(fn)
  /\ QueueOK(queue'[e]) /\ queue'[e] # <<>> /\ Head(queue'[e]) = Inprogress
  /\ Items(queue'[e]) \subseteq {Inprogress} \cup Items(queue[e])
  /\ \E h \in Hooks : /\ hooks'[e] = <<h>> /\ h.unqueued = HooksOf(e).unqueued
                      /\ h.waiting = HooksOf(e).waiting
                      /\ h.stop = IF fn.is = "delay" THEN fn.id ELSE 0
  /\ promises' = promises
  /\ \/ /\ fn.is = "animation" /\ timeouts' = timeouts
        /\ agenda' = Cons(AnimateDo(e, fn, "queued"), Rest)
     \/ /\ fn.is = "function" /\ timeouts' = timeouts
        /\ agenda' = Cons(Run(e), Cons(DequeueDo(e), Rest))
     \/ /\ fn.is = "delay" /\ timeouts' = timeouts \cup {<<fn.id, e>>}
        /\ agenda' = Rest

LEMMA DequeueFacts ==
  ASSUME Types, Dequeue, NEW e, e = Todo.e
  PROVE  /\ e \in Elements /\ agenda # <<>> /\ Todo.op = "dequeue" /\ OnlyOf(e)
         /\ DequeueEmpty(e) \/ \E fn : DequeueNext(e, fn)
  <1>1. agenda # <<>> /\ Todo.op = "dequeue"
    BY DEF Dequeue, IsNext
  <1>2. e \in Elements /\ IsSeq(Rest)
    BY <1>1, RestFacts DEF ThingOK, ThingIn
  <1>3. QueueOK(queue[e]) /\ DOMAIN queue = Elements /\ DOMAIN hooks = Elements
    BY <1>2 DEF Types
  <1> PICK left : left = Left(queue[e])
    OBVIOUS
  <1>4. IsSeq(left) /\ Items(left) \subseteq Items(queue[e]) /\ \A y \in Items(left) : ItemOK(y)
    BY <1>3, LeftFacts
  <1>5. CASE left = <<>>
    <2>1. /\ queue' = [queue EXCEPT ![e] = <<>>] /\ EmptyFire(e, HooksOf(e))
          /\ agenda' = Rest /\ timeouts' = timeouts
      BY <1>5, Zenon DEF Dequeue, Left
    <2>2. HooksOf(e) \in Hooks
      BY <1>2, HooksFacts
    <2>3. Emptied(e, HooksOf(e)) /\ DOMAIN hooks' = Elements /\ \A f \in Elements \ {e} : hooks'[f] = hooks[f]
      BY <1>2, <2>1, <2>2, EmptyFireFacts
    <2>4. DOMAIN queue' = Elements /\ queue'[e] = <<>> /\ \A f \in Elements \ {e} : queue'[f] = queue[f]
      BY <1>2, <1>3, <2>1
    <2> QED
      BY <1>1, <1>2, <2>1, <2>3, <2>4 DEF OnlyOf, DequeueEmpty
  <1>6. CASE left # <<>>
    <2> PICK fn : fn = Head(left)
      OBVIOUS
    <2>1. /\ queue' = [queue EXCEPT ![e] = <<Inprogress>> \o Tail(left)]
          /\ hooks' = [hooks EXCEPT ![e] =
                         <<[HooksOf(e) EXCEPT !.stop = IF fn.is = "delay" THEN fn.id ELSE 0]>>]
          /\ timeouts' = IF fn.is = "delay" THEN timeouts \cup {<<fn.id, e>>} ELSE timeouts
          /\ agenda' = (IF fn.is = "animation" THEN <<AnimateDo(e, fn, "queued")>>
                        ELSE IF fn.is = "function" THEN <<Run(e), DequeueDo(e)>>
                        ELSE <<>>) \o Rest
          /\ promises' = promises
      BY <1>6, Zenon DEF Dequeue, Left
    <2>2. fn \in Items(left) /\ fn \in Items(queue[e]) /\ ItemOK(fn)
      BY <1>4, <1>6, TailIsSeq
    <2>3. /\ QueueOK(queue'[e]) /\ queue'[e] # <<>> /\ Head(queue'[e]) = Inprogress
          /\ Items(queue'[e]) \subseteq {Inprogress} \cup Items(left)
          /\ DOMAIN queue' = Elements /\ \A f \in Elements \ {e} : queue'[f] = queue[f]
      <3> PICK r : r = <<Inprogress>> \o Tail(left)
        OBVIOUS
      <3>1. QueueOK(r) /\ r # <<>> /\ Head(r) = Inprogress /\ Items(r) \subseteq {Inprogress} \cup Items(left)
        BY <1>4, <1>6, NextBegins, Zenon
      <3>2. queue' = [queue EXCEPT ![e] = r]
        BY <2>1
      <3> QED
        BY <1>2, <1>3, <3>1, <3>2
    <2>4. DOMAIN hooks' = Elements /\ \A f \in Elements \ {e} : hooks'[f] = hooks[f]
      BY <1>2, <1>3, <2>1
    <2>5. \E h \in Hooks : /\ hooks'[e] = <<h>> /\ h.unqueued = HooksOf(e).unqueued
                           /\ h.waiting = HooksOf(e).waiting
                           /\ h.stop = IF fn.is = "delay" THEN fn.id ELSE 0
      <3> PICK i : i = IF fn.is = "delay" THEN fn.id ELSE 0
        OBVIOUS
      <3>1. i \in Nat
        BY <2>2 DEF ItemOK
      <3> PICK h : h = [HooksOf(e) EXCEPT !.stop = i]
        OBVIOUS
      <3>2. HooksOf(e) \in Hooks
        BY <1>2, HooksFacts
      <3>3. h \in Hooks /\ h.unqueued = HooksOf(e).unqueued /\ h.waiting = HooksOf(e).waiting /\ h.stop = i
        BY <3>1, <3>2 DEF Hooks
      <3>4. hooks'[e] = <<h>>
        BY <1>2, <1>3, <2>1
      <3> QED
        BY <3>3, <3>4
    <2>6. CASE fn.is = "animation"
      <3>1. agenda' = <<AnimateDo(e, fn, "queued")>> \o Rest /\ timeouts' = timeouts
        BY <2>1, <2>6
      <3>2. agenda' = Cons(AnimateDo(e, fn, "queued"), Rest)
        BY <3>1, Zenon DEF Cons
      <3> QED
        BY <1>1, <1>2, <1>4, <2>1, <2>2, <2>3, <2>4, <2>5, <2>6, <3>1, <3>2 DEF OnlyOf, DequeueNext
    <2>7. CASE fn.is = "function"
      <3>1. agenda' = <<Run(e), DequeueDo(e)>> \o Rest /\ timeouts' = timeouts
        BY <2>1, <2>7
      <3>2. PutTwo(Run(e), DequeueDo(e), Rest)
        BY <1>2, ConsTwo, Zenon
      <3>3. agenda' = Cons(Run(e), Cons(DequeueDo(e), Rest))
        BY <3>1, <3>2, Zenon DEF PutTwo
      <3> QED
        BY <1>1, <1>2, <1>4, <2>1, <2>2, <2>3, <2>4, <2>5, <2>7, <3>1, <3>3 DEF OnlyOf, DequeueNext
    <2>8. CASE fn.is = "delay"
      <3>1. agenda' = <<>> \o Rest /\ timeouts' = timeouts \cup {<<fn.id, e>>}
        BY <2>1, <2>8
      <3>2. agenda' = Rest
        BY <1>2, <3>1, NothingBefore, Zenon
      <3> QED
        BY <1>1, <1>2, <1>4, <2>1, <2>2, <2>3, <2>4, <2>5, <2>8, <3>1, <3>2 DEF OnlyOf, DequeueNext
    <2> QED
      BY <2>2, <2>6, <2>7, <2>8 DEF ItemOK
  <1> QED
    BY <1>5, <1>6

FateKeeps == DOMAIN fate' = DOMAIN fate /\ fate'.wronged = fate.wronged
             /\ fate'.manual = fate.manual /\ fate'.forgotten = fate.forgotten

AnimatedDo(e, n, goal) == Do("animated", e, n, 0, goal, <<>>)

\* A new animation of element e has number n.
AnimationBegins(e, n, a) ==
  /\ n = Len(animations) + 1 /\ n \notin DOMAIN animations
  /\ IsSeq(animations') /\ DOMAIN animations' = DOMAIN animations \cup {n}
  /\ (\A k \in DOMAIN animations : animations'[k] = animations[k]) /\ animations'[n] = a
  /\ AnimationOK(a) /\ a.e = e /\ (a.queued <=> Todo.how = "queued") /\ ~a.stopped
  /\ \E goal :
       \/ /\ a.state = "pending" /\ timers' = Append(timers, n)
          /\ agenda' = Cons(AnimatedDo(e, n, goal), Rest)
       \/ /\ a.state = "resolved" /\ timers' = timers /\ a.queued
          /\ agenda' = Cons(Run(e), Cons(DequeueDo(e), Cons(AnimatedDo(e, n, goal), Rest)))
       \/ /\ a.state = "resolved" /\ timers' = timers /\ ~a.queued
          /\ agenda' = Cons(UnqueueDo(e, n), Cons(Run(e), Cons(AnimatedDo(e, n, goal), Rest)))

AnimateHooks(e, queued) ==
  \/ queued /\ hooks' = hooks
  \/ ~queued /\ \E h \in Hooks : /\ hooks'[e] = <<h>> /\ h.unqueued = HooksOf(e).unqueued + 1
                                 /\ h.waiting = HooksOf(e).waiting /\ h.stop = HooksOf(e).stop

\* The record of a new animation.
NewAnimation(e, queued, plan, left, saved, fresh, state) ==
  [e |-> e, queued |-> queued, moves |-> plan.moves, shows |-> plan.shows,
   end |-> plan.end, orig |-> plan.orig, saved |-> saved,
   left |-> left, stopped |-> FALSE, fresh |-> fresh, state |-> state]

\* What the first tick of an animation puts before the rest.
PutFirst(n, a, x, s) ==
  /\ (<<>> \o <<x>>) \o s = Cons(x, s)
  /\ a.queued => (Follows(n, a, "resolved") \o <<x>>) \o s
                   = Cons(Run(a.e), Cons(DequeueDo(a.e), Cons(x, s)))
  /\ ~a.queued => (Reverse(Follows(n, a, "resolved")) \o <<x>>) \o s
                    = Cons(UnqueueDo(a.e, n), Cons(Run(a.e), Cons(x, s)))

LEMMA FirstTick ==
  ASSUME NEW n, NEW a, a.queued \in BOOLEAN, NEW x, NEW s, IsSeq(s)
  PROVE  PutFirst(n, a, x, s)
  <1>1. PICK one : one = <<x>>
    OBVIOUS
  <1>2. IsSeq(one) /\ one \o s = Cons(x, s)
    BY <1>1, OneIsSeq, Zenon DEF Cons
  <1>3. PICK r : r = Cons(x, s)
    OBVIOUS
  <1>4. IsSeq(r) /\ one \o s = r
    BY <1>2, <1>3, Chains
  <1>5. (<<>> \o one) \o s = r
    BY <1>2, <1>4, NothingBefore, Zenon
  <1>6. ASSUME NEW t, IsSeq(t) PROVE (t \o one) \o s = t \o r
    <2>1. IsSeq(one)
      BY <1>2
    <2>2. (t \o one) \o s = t \o (one \o s)
      BY <1>6, <2>1, ConcatAssoc
    <2> QED
      BY <1>4, <2>2, Zenon
  <1>7. IsSeq(r)
    BY <1>4
  <1>8. ASSUME a.queued
        PROVE  (Follows(n, a, "resolved") \o one) \o s = Cons(Run(a.e), Cons(DequeueDo(a.e), r))
    <2>1. IsSeq(Follows(n, a, "resolved"))
      BY <1>4, FollowsCons, Zenon
    <2>2. (Follows(n, a, "resolved") \o one) \o s = Follows(n, a, "resolved") \o r
      BY <1>6, <2>1, Zenon
    <2>3. Follows(n, a, "resolved") \o r = Cons(Run(a.e), Cons(DequeueDo(a.e), r))
      <3>1. Follows(n, a, "resolved") \o r
              = Cons(Run(a.e), Cons(IF a.queued THEN DequeueDo(a.e) ELSE UnqueueDo(a.e, n), r))
        BY <1>7, FollowsCons
      <3> QED
        BY <1>8, <3>1, Zenon
    <2> QED
      BY <2>2, <2>3, Zenon
  <1>9. ASSUME ~a.queued
        PROVE  (Reverse(Follows(n, a, "resolved")) \o one) \o s = Cons(UnqueueDo(a.e, n), Cons(Run(a.e), r))
    <2>1. a.queued = FALSE
      BY <1>9
    <2>2. PutReversed(n, a, r)
      BY <1>7, <2>1, FollowsReversed
    <2>3. IsSeq(Reverse(Follows(n, a, "resolved")))
      BY <2>2, Zenon DEF PutReversed
    <2>4. (Reverse(Follows(n, a, "resolved")) \o one) \o s = Reverse(Follows(n, a, "resolved")) \o r
      BY <1>6, <2>3, Zenon
    <2>5. Reverse(Follows(n, a, "resolved")) \o r = Cons(UnqueueDo(a.e, n), Cons(Run(a.e), r))
      BY <2>2, Zenon DEF PutReversed
    <2> QED
      BY <2>4, <2>5, Zenon
  <1> QED
    BY <1>1, <1>3, <1>5, <1>8, <1>9, Zenon DEF PutFirst

LEMMA AnimateFacts ==
  ASSUME Types, Animate, NEW e, e = Todo.e
  PROVE  /\ e \in Elements /\ agenda # <<>> /\ Todo.op = "animate"
         /\ DOMAIN hooks' = Elements /\ \A f \in Elements \ {e} : hooks'[f] = hooks[f]
         /\ AnimateHooks(e, Todo.how = "queued") /\ FateKeeps
         /\ \E n, a : AnimationBegins(e, n, a)
  <1>1. agenda # <<>> /\ Todo.op = "animate"
    BY DEF Animate, IsNext
  <1>2. e \in Elements /\ IsSeq(Rest)
    BY <1>1, RestFacts DEF ThingOK, ThingIn
  <1>3. IsSeq(animations) /\ DOMAIN hooks = Elements
    BY DEF Types
  <1>4. /\ DOMAIN fate = {"wronged", "manual", "forgotten", "overlapped", "shifted"}
        /\ fate' = [fate EXCEPT !.overlapped = IF Begun(e) # {} THEN @ \cup {e} ELSE @]
    BY Zenon DEF Animate, Types
  <1>5. FateKeeps
    BY <1>4 DEF FateKeeps
  <1>11. PICK item : item = Todo.items[1]
    OBVIOUS
  <1>12. PICK queued : queued = (Todo.how = "queued")
    OBVIOUS
  <1>13. PICK plan : plan = Plan(style[e], item.goal)
    OBVIOUS
  <1>14. PICK n : n = Len(animations) + 1
    OBVIOUS
  <1>15. PICK atOnce : atOnce = (~plan.moves \/ item.duration = 0)
    OBVIOUS
  <1>16. PICK state : state = IF atOnce THEN "resolved" ELSE "pending"
    OBVIOUS
  <1>17. PICK fresh : fresh = \E i \in DOMAIN agenda : agenda[i].op = "tick"
    OBVIOUS
  <1>18. PICK a : a = NewAnimation(e, queued, plan, IF atOnce THEN 0 ELSE item.duration,
                                   Saved(style[e], item.goal), fresh, state)
    OBVIOUS
  <1>19. PICK x : x = AnimatedDo(e, n, item.goal)
    OBVIOUS
  <1>21. /\ animations' = Append(animations, a)
         /\ timers' = IF atOnce THEN timers ELSE Append(timers, n)
         /\ hooks' = IF queued THEN hooks
                     ELSE [hooks EXCEPT ![e] = <<[HooksOf(e) EXCEPT !.unqueued = @ + 1]>>]
         /\ agenda' = ((IF ~atOnce THEN <<>>
                        ELSE IF queued THEN Follows(n, a, "resolved")
                        ELSE Reverse(Follows(n, a, "resolved")))
                       \o <<x>>) \o Rest
    BY <1>11, <1>12, <1>13, <1>14, <1>15, <1>16, <1>17, <1>18, <1>19, Zenon
       DEF Animate, NewAnimation, AnimatedDo
  <1>22. queued \in BOOLEAN /\ atOnce \in BOOLEAN /\ state \in {"pending", "resolved"}
    BY <1>12, <1>15, <1>16
  <1>23. AnimationOK(a) /\ a.e = e /\ a.queued = queued /\ a.stopped = FALSE /\ a.state = state
    <2>1. e \in Elements /\ queued \in BOOLEAN /\ state \in {"pending", "resolved"}
      BY <1>2, <1>22
    <2>2. AnimationOK(a)
      BY <2>1, <1>18 DEF NewAnimation, AnimationOK, AnimFields
    <2>3. a.e = e /\ a.queued = queued /\ a.stopped = FALSE /\ a.state = state
      BY <1>18 DEF NewAnimation
    <2> QED
      BY <2>2, <2>3
  <1>24. a.queued \in BOOLEAN
    BY <1>22, <1>23
  <1>25. PutFirst(n, a, x, Rest)
    BY <1>2, <1>24, FirstTick
  <1>27. /\ n \notin DOMAIN animations
         /\ IsSeq(animations') /\ DOMAIN animations' = DOMAIN animations \cup {n}
         /\ (\A k \in DOMAIN animations : animations'[k] = animations[k]) /\ animations'[n] = a
    BY <1>3, <1>14, <1>21, Appended
  <1>28. AnimateHooks(e, queued)
    <2>1. CASE queued
      BY <1>21, <2>1 DEF AnimateHooks
    <2>2. CASE ~queued
      <3>1. HooksOf(e) \in Hooks
        BY <1>2, HooksFacts
      <3>2. PICK h : h = [HooksOf(e) EXCEPT !.unqueued = HooksOf(e).unqueued + 1]
        OBVIOUS
      <3>3. /\ h \in Hooks /\ h.unqueued = HooksOf(e).unqueued + 1
            /\ h.waiting = HooksOf(e).waiting /\ h.stop = HooksOf(e).stop
        BY <3>1, <3>2 DEF Hooks
      <3>4. hooks'[e] = <<h>>
        BY <1>2, <1>3, <1>21, <2>2, <3>1, <3>2
      <3> QED
        BY <2>2, <3>3, <3>4 DEF AnimateHooks
    <2> QED
      BY <2>1, <2>2
  <1>29. DOMAIN hooks' = Elements /\ \A f \in Elements \ {e} : hooks'[f] = hooks[f]
    BY <1>2, <1>3, <1>21
  <1>30. \/ /\ a.state = "pending" /\ timers' = Append(timers, n)
            /\ agenda' = Cons(x, Rest)
         \/ /\ a.state = "resolved" /\ timers' = timers /\ a.queued
            /\ agenda' = Cons(Run(e), Cons(DequeueDo(e), Cons(x, Rest)))
         \/ /\ a.state = "resolved" /\ timers' = timers /\ ~a.queued
            /\ agenda' = Cons(UnqueueDo(e, n), Cons(Run(e), Cons(x, Rest)))
    <2>1. CASE ~atOnce
      <3>1. agenda' = (<<>> \o <<x>>) \o Rest
        BY <1>21, <2>1, Zenon
      <3>2. agenda' = Cons(x, Rest)
        BY <1>25, <3>1, Zenon DEF PutFirst
      <3> QED
        BY <1>16, <1>21, <1>23, <2>1, <3>2
    <2>2. CASE atOnce /\ queued
      <3>1. agenda' = (Follows(n, a, "resolved") \o <<x>>) \o Rest /\ a.queued
        BY <1>21, <1>23, <2>2, Zenon
      <3>2. agenda' = Cons(Run(a.e), Cons(DequeueDo(a.e), Cons(x, Rest)))
        BY <1>23, <1>25, <3>1, Zenon DEF PutFirst
      <3> QED
        BY <1>16, <1>21, <1>23, <2>2, <3>2
    <2>3. CASE atOnce /\ ~queued
      <3>1. agenda' = (Reverse(Follows(n, a, "resolved")) \o <<x>>) \o Rest /\ ~a.queued
        BY <1>21, <1>23, <2>3, Zenon
      <3>2. agenda' = Cons(UnqueueDo(a.e, n), Cons(Run(a.e), Cons(x, Rest)))
        BY <1>23, <1>25, <3>1, Zenon DEF PutFirst
      <3> QED
        BY <1>16, <1>21, <1>23, <2>3, <3>2
    <2> QED
      BY <1>22, <2>1, <2>2, <2>3
  <1>31. AnimationBegins(e, n, a)
    BY <1>12, <1>14, <1>19, <1>23, <1>27, <1>30 DEF AnimationBegins
  <1>32. AnimateHooks(e, Todo.how = "queued")
    BY <1>12, <1>28
  <1> QED
    BY <1>1, <1>2, <1>5, <1>29, <1>31, <1>32, Zenon

--------------------------------------------------------------------------------
(* Animations that are settled                                              *)

\* All animations are of the same element and kind as before.
AnimationsKeep ==
  /\ IsSeq(animations') /\ DOMAIN animations' = DOMAIN animations
  /\ \A k \in DOMAIN animations :
       /\ AnimationOK(animations'[k]) /\ animations'[k].e = animations[k].e
       /\ animations'[k].queued = animations[k].queued

\* And they are in the same state.
StatesKeep ==
  /\ AnimationsKeep
  /\ \A k \in DOMAIN animations : /\ animations'[k].state = animations[k].state
                                  /\ animations'[k].stopped = animations[k].stopped

\* Animation n is settled.
Settled(n, how) ==
  /\ AnimationsKeep /\ n \in DOMAIN animations /\ animations'[n].state = how
  /\ \A k \in DOMAIN animations \ {n} : /\ animations'[k].state = animations[k].state
                                        /\ animations'[k].stopped = animations[k].stopped

AfterSettled(n, how, s) ==
  agenda' = IF how = "resolved"
            THEN Cons(Run(animations[n].e),
                      Cons(IF animations[n].queued THEN DequeueDo(animations[n].e)
                           ELSE UnqueueDo(animations[n].e, n), s))
            ELSE IF animations[n].queued THEN s ELSE Cons(UnqueueDo(animations[n].e, n), s)

LEMMA StopAnimationFacts ==
  ASSUME Types, NEW n \in DOMAIN animations, NEW how \in {"resolved", "rejected"}, NEW s, IsSeq(s),
         StopAnimation(n, how, s)
  PROVE  Settled(n, how) /\ AfterSettled(n, how, s)
  <1>1. IsSeq(animations) /\ \A k \in DOMAIN animations : AnimationOK(animations[k])
    BY DEF Types
  <1>2. /\ animations' = [animations EXCEPT ![n].stopped = TRUE, ![n].state = how]
        /\ agenda' = Follows(n, animations[n], how) \o s
    BY Zenon DEF StopAnimation
  <1>3. AfterSettled(n, how, s)
    <2>1. animations[n].queued \in BOOLEAN
      BY <1>1 DEF AnimationOK
    <2>2. Follows(n, animations[n], how) \o s =
            IF how = "resolved"
            THEN Cons(Run(animations[n].e),
                      Cons(IF animations[n].queued THEN DequeueDo(animations[n].e)
                           ELSE UnqueueDo(animations[n].e, n), s))
            ELSE IF animations[n].queued THEN s ELSE Cons(UnqueueDo(animations[n].e, n), s)
      BY <2>1, FollowsCons
    <2> QED
      BY <1>2, <2>2, Zenon DEF AfterSettled
  <1>4. PICK b : b = [[animations[n] EXCEPT !.stopped = TRUE] EXCEPT !.state = how]
    OBVIOUS
  <1>5. animations' = [animations EXCEPT ![n] = b]
    BY <1>2, <1>4
  <1>6. /\ DOMAIN b = AnimFields /\ b.e = animations[n].e /\ b.queued = animations[n].queued
        /\ b.state = how /\ b.stopped = TRUE
    BY <1>1, <1>4 DEF AnimationOK, AnimFields
  <1>7. AnimationOK(b)
    BY <1>1, <1>6 DEF AnimationOK
  <1>8. /\ DOMAIN animations' = DOMAIN animations /\ animations'[n] = b
        /\ \A k \in DOMAIN animations \ {n} : animations'[k] = animations[k]
    BY <1>5
  <1>9. IsSeq(animations')
    <2>1. DOMAIN animations = 1..Len(animations) /\ Len(animations) \in Nat
      BY <1>1, IsSeqFacts
    <2>2. animations' \in [1..Len(animations) -> {animations'[k] : k \in DOMAIN animations}]
      BY <1>5, <1>8, <2>1
    <2> QED
      BY <2>1, <2>2, FunctionIsSeq, SeqIsSeq
  <1> QED
    BY <1>1, <1>3, <1>6, <1>7, <1>8, <1>9 DEF Settled, AnimationsKeep

LEMMA SameAnimations ==
  ASSUME Types, animations' = animations
  PROVE  StatesKeep
  BY DEF Types, StatesKeep, AnimationsKeep

LEMMA AnimatedFacts ==
  ASSUME Types, Animated
  PROVE  /\ agenda # <<>> /\ Todo.op = "animated"
         /\ \/ /\ Pending(Todo.a) /\ Settled(Todo.a, "resolved") /\ AfterSettled(Todo.a, "resolved", Rest)
               /\ animations[Todo.a].e = Todo.e
            \/ /\ ~(Pending(Todo.a) /\ Todo.e \in finish)
               /\ animations' = animations /\ agenda' = Rest
         /\ FateKeeps
  <1>1. agenda # <<>> /\ Todo.op = "animated"
    BY DEF Animated, IsNext
  <1>2. IsSeq(Rest) /\ Todo.a \in DOMAIN animations /\ animations[Todo.a].e = Todo.e
    BY <1>1, RestFacts DEF ThingOK, ThingIn
  <1>3. FateKeeps
    <2>1. DOMAIN fate = {"wronged", "manual", "forgotten", "overlapped", "shifted"}
      BY DEF Types
    <2>2. \/ fate' = fate
          \/ \E shifted : fate' = [fate EXCEPT !.shifted = shifted]
      BY Zenon DEF Animated
    <2> QED
      BY <2>1, <2>2 DEF FateKeeps
  <1>4. CASE Pending(Todo.a) /\ (Todo.how = "empty" \/ Todo.e \in finish)
    <2>1. StopAnimation(Todo.a, "resolved", Rest)
      BY <1>4, Zenon DEF Animated
    <2>2. Settled(Todo.a, "resolved") /\ AfterSettled(Todo.a, "resolved", Rest)
      BY <1>2, <2>1, StopAnimationFacts
    <2> QED
      BY <1>1, <1>2, <1>3, <1>4, <2>2
  <1>5. CASE ~(Pending(Todo.a) /\ (Todo.how = "empty" \/ Todo.e \in finish))
    <2>1. agenda' = Rest /\ animations' = animations
      BY <1>5, Zenon DEF Animated
    <2> QED
      BY <1>1, <1>3, <1>5, <2>1
  <1> QED
    BY <1>4, <1>5

--------------------------------------------------------------------------------

TimerStopped(i) ==
  /\ animations[timers[i]].stopped /\ timers' = RemoveAt(timers, i)
  /\ agenda' = Cons(TickAt(i), Rest) /\ StatesKeep

TimerGoesOn(i) ==
  timers' = timers /\ agenda' = Cons(TickAt(i + 1), Rest) /\ StatesKeep

TimerEnds(i) ==
  LET n == timers[i]
      s == Cons(TickedDo(animations[n].e, n, i), Rest)
  IN  /\ timers' = timers /\ Settled(n, "resolved") /\ ~animations[n].stopped
      /\ animations'[n].stopped = animations[n].stopped
      /\ \/ Pending(n) /\ AfterSettled(n, "resolved", s)
         \/ ~Pending(n) /\ agenda' = s

LEMMA TickTimerFacts ==
  ASSUME Types, TickTimer, NEW i, i = Todo.i
  PROVE  /\ agenda # <<>> /\ Todo.op = "tick" /\ i \in 1..Len(timers)
         /\ timers[i] \in DOMAIN animations /\ timers[i] \in Items(timers)
         /\ TimerStopped(i) \/ TimerGoesOn(i) \/ TimerEnds(i)
  <1>1. agenda # <<>> /\ Todo.op = "tick" /\ i <= Len(timers)
    BY DEF TickTimer, IsNext
  <1>2. IsSeq(Rest) /\ i \in Nat \ {0}
    BY <1>1, RestFacts DEF ThingOK, ThingIn
  <1>3. IsSeq(timers) /\ Items(timers) \subseteq DOMAIN animations
    BY DEF Types
  <1>4. Len(timers) \in Nat /\ i \in 1..Len(timers)
    BY <1>1, <1>2, <1>3, IsSeqFacts
  <1>5. PICK n : n = timers[i]
    OBVIOUS
  <1>6. n \in Items(timers) /\ n \in DOMAIN animations
    BY <1>3, <1>4, <1>5 DEF Items
  <1>7. IsSeq(animations) /\ \A k \in DOMAIN animations : AnimationOK(animations[k])
    BY DEF Types
  \* The record of an animation that the tick moves on.
  <1>8. ASSUME NEW left, NEW state \in {"pending", "resolved", "rejected"},
               animations' = [animations EXCEPT ![n].left = left, ![n].state = state]
        PROVE  /\ AnimationsKeep /\ animations'[n].state = state
               /\ animations'[n].stopped = animations[n].stopped
               /\ \A k \in DOMAIN animations \ {n} : animations'[k] = animations[k]
    <2>1. PICK b : b = [[animations[n] EXCEPT !.left = left] EXCEPT !.state = state]
      OBVIOUS
    <2>2. animations' = [animations EXCEPT ![n] = b]
      BY <1>8, <2>1
    <2>3. /\ DOMAIN b = AnimFields /\ b.e = animations[n].e /\ b.queued = animations[n].queued
          /\ b.state = state /\ b.stopped = animations[n].stopped
      BY <1>6, <1>7, <2>1 DEF AnimationOK, AnimFields
    <2>4. AnimationOK(b)
      BY <1>6, <1>7, <2>3 DEF AnimationOK
    <2>5. /\ DOMAIN animations' = DOMAIN animations /\ animations'[n] = b
          /\ \A k \in DOMAIN animations \ {n} : animations'[k] = animations[k]
      BY <1>6, <2>2
    <2>6. IsSeq(animations')
      <3>1. DOMAIN animations = 1..Len(animations) /\ Len(animations) \in Nat
        BY <1>7, IsSeqFacts
      <3>2. animations' \in [1..Len(animations) -> {animations'[k] : k \in DOMAIN animations}]
        BY <2>2, <2>5, <3>1
      <3> QED
        BY <3>1, <3>2, FunctionIsSeq, SeqIsSeq
    <2> QED
      BY <1>7, <2>3, <2>4, <2>5, <2>6 DEF AnimationsKeep
  <1>9. PICK t : t = TickedDo(animations[n].e, n, i)
    OBVIOUS
  <1>10. \/ /\ animations[n].stopped /\ timers' = RemoveAt(timers, i)
            /\ agenda' = <<TickAt(i)>> \o Rest /\ animations' = animations
         \/ /\ agenda' = <<TickAt(i + 1)>> \o Rest /\ timers' = timers /\ animations' = animations
         \/ /\ animations' = [animations EXCEPT ![n].left = animations[n].left - 1,
                                                ![n].state = animations[n].state]
            /\ agenda' = <<TickAt(i + 1)>> \o Rest /\ timers' = timers
         \/ /\ ~animations[n].stopped
            /\ animations' = [animations EXCEPT ![n].left = 0, ![n].state = "resolved"]
            /\ agenda' = ((IF Pending(n) THEN Follows(n, animations[n], "resolved") ELSE <<>>)
                          \o <<t>>) \o Rest
            /\ timers' = timers
    BY <1>5, <1>9, Zenon DEF TickTimer
  <1>11. CASE /\ animations[n].stopped /\ timers' = RemoveAt(timers, i)
              /\ agenda' = <<TickAt(i)>> \o Rest /\ animations' = animations
    <2>1. StatesKeep
      BY <1>11, SameAnimations
    <2>2. agenda' = Cons(TickAt(i), Rest)
      BY <1>11, PutOne, Zenon
    <2> QED
      BY <1>1, <1>4, <1>5, <1>6, <1>11, <2>1, <2>2 DEF TimerStopped
  <1>12. CASE agenda' = <<TickAt(i + 1)>> \o Rest /\ timers' = timers /\ animations' = animations
    <2>1. StatesKeep
      BY <1>12, SameAnimations
    <2>2. agenda' = Cons(TickAt(i + 1), Rest)
      BY <1>12, PutOne, Zenon
    <2> QED
      BY <1>1, <1>4, <1>5, <1>6, <1>12, <2>1, <2>2 DEF TimerGoesOn
  <1>13. CASE /\ animations' = [animations EXCEPT ![n].left = animations[n].left - 1,
                                                  ![n].state = animations[n].state]
              /\ agenda' = <<TickAt(i + 1)>> \o Rest /\ timers' = timers
    <2>1. animations[n].state \in {"pending", "resolved", "rejected"}
      BY <1>6, <1>7 DEF AnimationOK
    <2>2. /\ AnimationsKeep /\ animations'[n].state = animations[n].state
          /\ animations'[n].stopped = animations[n].stopped
          /\ \A k \in DOMAIN animations \ {n} : animations'[k] = animations[k]
      BY <1>8, <1>13, <2>1
    <2>3. StatesKeep
      BY <2>2 DEF StatesKeep
    <2>4. agenda' = Cons(TickAt(i + 1), Rest)
      BY <1>13, PutOne, Zenon
    <2> QED
      BY <1>1, <1>4, <1>5, <1>6, <1>13, <2>3, <2>4 DEF TimerGoesOn
  <1>14. CASE /\ ~animations[n].stopped
              /\ animations' = [animations EXCEPT ![n].left = 0, ![n].state = "resolved"]
              /\ agenda' = ((IF Pending(n) THEN Follows(n, animations[n], "resolved") ELSE <<>>)
                            \o <<t>>) \o Rest
              /\ timers' = timers
    <2>1. /\ AnimationsKeep /\ animations'[n].state = "resolved"
          /\ animations'[n].stopped = animations[n].stopped
          /\ \A k \in DOMAIN animations \ {n} : animations'[k] = animations[k]
      BY <1>8, <1>14
    <2>2. Settled(n, "resolved")
      BY <1>6, <2>1 DEF Settled
    <2>3. PICK s : s = Cons(t, Rest)
      OBVIOUS
    <2>4. IsSeq(s) /\ <<t>> \o Rest = s /\ IsSeq(<<t>>)
      BY <1>2, <2>3, Chains, PutOne, OneIsSeq
    <2>5. CASE Pending(n)
      <3>1. animations[n].queued \in BOOLEAN
        BY <1>6, <1>7 DEF AnimationOK
      <3>2. IsSeq(s) /\ IsSeq(<<t>>)
        BY <2>4
      <3>3. /\ IsSeq(Follows(n, animations[n], "resolved"))
            /\ Follows(n, animations[n], "resolved") \o s =
                 IF "resolved" = "resolved"
                 THEN Cons(Run(animations[n].e),
                           Cons(IF animations[n].queued THEN DequeueDo(animations[n].e)
                                ELSE UnqueueDo(animations[n].e, n), s))
                 ELSE IF animations[n].queued THEN s ELSE Cons(UnqueueDo(animations[n].e, n), s)
        BY <3>1, <3>2, FollowsCons
      <3>4. IsSeq(Follows(n, animations[n], "resolved"))
        BY <3>3
      <3>5. agenda' = (Follows(n, animations[n], "resolved") \o <<t>>) \o Rest
        BY <1>14, <2>5, Zenon
      <3>6. (Follows(n, animations[n], "resolved") \o <<t>>) \o Rest
              = Follows(n, animations[n], "resolved") \o (<<t>> \o Rest)
        BY <1>2, <3>2, <3>4, ConcatAssoc
      <3>7. agenda' = Follows(n, animations[n], "resolved") \o s
        BY <2>4, <3>5, <3>6, Zenon
      <3>8. AfterSettled(n, "resolved", s)
        BY <3>3, <3>7, Zenon DEF AfterSettled
      <3> QED
        BY <1>1, <1>4, <1>5, <1>6, <1>9, <1>14, <2>1, <2>2, <2>3, <2>5, <3>8 DEF TimerEnds
    <2>6. CASE ~Pending(n)
      <3>1. agenda' = (<<>> \o <<t>>) \o Rest
        BY <1>14, <2>6, Zenon
      <3>2. <<>> \o <<t>> = <<t>>
        BY <2>4, NothingBefore, Zenon
      <3>3. agenda' = s
        BY <2>4, <3>1, <3>2, Zenon
      <3> QED
        BY <1>1, <1>4, <1>5, <1>6, <1>9, <1>14, <2>1, <2>2, <2>3, <2>6, <3>3 DEF TimerEnds
    <2> QED
      BY <2>5, <2>6
  <1> QED
    BY <1>10, <1>11, <1>12, <1>13, <1>14, Zenon

LEMMA SameFate ==
  ASSUME Types, fate' = fate
  PROVE  FateKeeps
  BY DEF FateKeeps

LEMMA TickedFacts ==
  ASSUME Types, Ticked, NEW i, i = Todo.i
  PROVE  /\ agenda # <<>> /\ Todo.op = "ticked" /\ FateKeeps /\ i \in Nat \ {0}
         /\ \/ /\ i \in 1..Len(timers) /\ timers[i] = Todo.a /\ timers' = RemoveAt(timers, i)
               /\ agenda' = Cons(TickAt(i), Rest)
            \/ timers' = timers /\ agenda' = Cons(TickAt(i + 1), Rest)
  <1>1. agenda # <<>> /\ Todo.op = "ticked"
    BY DEF Ticked, IsNext
  <1>2. i \in Nat \ {0}
    BY <1>1, RestFacts DEF ThingOK, ThingIn
  <1>3. /\ DOMAIN fate = {"wronged", "manual", "forgotten", "overlapped", "shifted"}
    BY DEF Types
  <1>4. Len(timers) \in Nat
    BY IsSeqFacts DEF Types
  <1>5. fate' = [fate EXCEPT !.shifted = fate'.shifted]
    <2>1. \E s : fate' = [fate EXCEPT !.shifted = s]
      BY Zenon DEF Ticked
    <2> QED
      BY <1>3, <2>1
  <1>6. FateKeeps
    BY <1>3, <1>5 DEF FateKeeps
  <1>7. CASE i <= Len(timers) /\ timers[i] = Todo.a
    <2>1. timers' = RemoveAt(timers, i) /\ agenda' = <<TickAt(i)>> \o Rest
      BY <1>7, Zenon DEF Ticked
    <2>2. agenda' = Cons(TickAt(i), Rest)
      BY <2>1, PutOne, Zenon
    <2> QED
      BY <1>1, <1>2, <1>4, <1>6, <1>7, <2>1, <2>2
  <1>8. CASE ~(i <= Len(timers) /\ timers[i] = Todo.a)
    <2>1. timers' = timers /\ agenda' = <<TickAt(i + 1)>> \o Rest
      BY <1>8, Zenon DEF Ticked
    <2>2. agenda' = Cons(TickAt(i + 1), Rest)
      BY <2>1, PutOne, Zenon
    <2> QED
      BY <1>1, <1>2, <1>6, <2>1, <2>2
  <1> QED
    BY <1>7, <1>8

LEMMA TickEndsFacts ==
  ASSUME Types, TickEnds
  PROVE  agenda # <<>> /\ Todo.op = "tick" /\ StatesKeep /\ agenda' = Rest
  <1>1. agenda # <<>> /\ Todo.op = "tick" /\ agenda' = Rest
    BY DEF TickEnds, IsNext
  <1>2. IsSeq(animations) /\ \A k \in DOMAIN animations : AnimationOK(animations[k])
    BY DEF Types
  <1>3. animations' = [n \in DOMAIN animations |-> [animations[n] EXCEPT !.fresh = FALSE]]
    BY DEF TickEnds
  <1>4. ASSUME NEW k \in DOMAIN animations
        PROVE  /\ AnimationOK(animations'[k]) /\ animations'[k].e = animations[k].e
               /\ animations'[k].queued = animations[k].queued
               /\ animations'[k].state = animations[k].state
               /\ animations'[k].stopped = animations[k].stopped
    <2>1. animations'[k] = [animations[k] EXCEPT !.fresh = FALSE]
      BY <1>3
    <2> QED
      BY <1>2, <2>1 DEF AnimationOK, AnimFields
  <1>5. IsSeq(animations')
    <2>1. DOMAIN animations = 1..Len(animations) /\ Len(animations) \in Nat
      BY <1>2, IsSeqFacts
    <2>2. animations' \in [1..Len(animations) -> {animations'[k] : k \in DOMAIN animations}]
      BY <1>3, <2>1
    <2> QED
      BY <2>1, <2>2, FunctionIsSeq, SeqIsSeq
  <1>6. DOMAIN animations' = DOMAIN animations
    BY <1>3
  <1>7. AnimationsKeep
    BY <1>4, <1>5, <1>6 DEF AnimationsKeep
  <1> QED
    BY <1>1, <1>4, <1>7 DEF StatesKeep

LEMMA TickFacts ==
  ASSUME Types, Tick
  PROVE  agenda = <<>> /\ agenda' = Cons(TickAt(1), agenda)
  <1>1. agenda = <<>> /\ agenda' = <<TickAt(1)>>
    BY DEF Tick, Idle
  <1>2. IsSeq(<<TickAt(1)>>)
    BY OneIsSeq
  <1>3. Cons(TickAt(1), <<>>) = <<TickAt(1)>>
    BY <1>2, NothingBehind, Zenon DEF Cons
  <1> QED
    BY <1>1, <1>3, Zenon

LEMMA TimeoutFacts ==
  ASSUME Types, TimeoutFires
  PROVE  /\ agenda = <<>>
         /\ \E e \in Elements, t \in timeouts :
              /\ t[2] = e /\ t \in DelaysOf(e) /\ timeouts' = timeouts \ {t}
              /\ agenda' = Cons(DequeueDo(e), agenda)
  <1>1. agenda = <<>>
    BY DEF TimeoutFires, Idle
  <1>2. PICK t \in timeouts : timeouts' = timeouts \ {t} /\ agenda' = <<DequeueDo(t[2])>>
    BY DEF TimeoutFires
  <1>3. t[2] \in Elements
    BY <1>2 DEF Types
  <1>4. PICK e : e = t[2]
    OBVIOUS
  <1>5. IsSeq(<<DequeueDo(e)>>)
    BY OneIsSeq
  <1>6. Cons(DequeueDo(e), <<>>) = <<DequeueDo(e)>>
    BY <1>5, NothingBehind, Zenon DEF Cons
  <1>7. agenda' = Cons(DequeueDo(e), agenda)
    BY <1>1, <1>2, <1>4, <1>6, Zenon
  <1>8. t \in DelaysOf(e)
    BY <1>2, <1>4 DEF DelaysOf
  <1> QED
    BY <1>1, <1>2, <1>3, <1>4, <1>7, <1>8

UnqueueAfter(e, h) ==
  /\ h \in Hooks /\ h.unqueued = HooksOf(e).unqueued - 1
  /\ h.stop = HooksOf(e).stop /\ h.waiting = HooksOf(e).waiting
  /\ \/ queue[e] = <<>> /\ Emptied(e, h)
     \/ queue[e] # <<>> /\ hooks'[e] = <<h>> /\ promises' = promises

LEMMA UnqueueFacts ==
  ASSUME Types, Unqueue, NEW e, e = Todo.e
  PROVE  /\ e \in Elements /\ agenda # <<>> /\ Todo.op = "unqueue" /\ agenda' = Rest
         /\ DOMAIN hooks' = Elements /\ \A f \in Elements \ {e} : hooks'[f] = hooks[f]
         /\ \E h : UnqueueAfter(e, h)
  <1>1. agenda # <<>> /\ Todo.op = "unqueue" /\ agenda' = Rest
    BY DEF Unqueue, IsNext
  <1>2. e \in Elements
    BY <1>1, RestFacts DEF ThingOK, ThingIn
  <1>3. PICK h : h = [HooksOf(e) EXCEPT !.unqueued = HooksOf(e).unqueued - 1]
    OBVIOUS
  <1>4. IF queue[e] = <<>> THEN EmptyFire(e, h)
        ELSE hooks' = [hooks EXCEPT ![e] = <<h>>] /\ promises' = promises
    BY <1>3, Zenon DEF Unqueue
  <1>5. HooksOf(e) \in Hooks
    BY <1>2, HooksFacts
  <1>6. /\ h \in Hooks /\ h.unqueued = HooksOf(e).unqueued - 1
        /\ h.stop = HooksOf(e).stop /\ h.waiting = HooksOf(e).waiting
    BY <1>3, <1>5 DEF Hooks
  <1>7. DOMAIN hooks = Elements
    BY DEF Types
  <1>8. CASE queue[e] = <<>>
    <2>1. Emptied(e, h) /\ DOMAIN hooks' = Elements /\ \A f \in Elements \ {e} : hooks'[f] = hooks[f]
      BY <1>2, <1>4, <1>6, <1>8, EmptyFireFacts
    <2>2. UnqueueAfter(e, h)
      BY <1>6, <1>8, <2>1 DEF UnqueueAfter
    <2> QED
      BY <1>1, <1>2, <2>1, <2>2
  <1>9. CASE queue[e] # <<>>
    <2>1. /\ hooks'[e] = <<h>> /\ promises' = promises
          /\ DOMAIN hooks' = Elements /\ \A f \in Elements \ {e} : hooks'[f] = hooks[f]
      BY <1>2, <1>4, <1>7, <1>9
    <2>2. UnqueueAfter(e, h)
      BY <1>6, <1>9, <2>1 DEF UnqueueAfter
    <2> QED
      BY <1>1, <1>2, <2>1, <2>2
  <1> QED
    BY <1>8, <1>9

Mine(e) == {t \in timeouts : hooks[e] # <<>> /\ t[1] = hooks[e][1].stop}

LEMMA StopBeginsFacts ==
  ASSUME Types, StopBegins, NEW e, e = Todo.e
  PROVE  /\ e \in Elements /\ agenda # <<>> /\ Todo.op = "stop" /\ Todo.how \in {"rejected", "resolved"}
         /\ DOMAIN hooks' = Elements /\ \A f \in Elements \ {e} : hooks'[f] = hooks[f]
         /\ timeouts' = timeouts \ Mine(e)
         /\ \/ hooks[e] = <<>> /\ hooks'[e] = <<>>
            \/ hooks[e] # <<>> /\ \E h \in Hooks : /\ hooks'[e] = <<h>> /\ h.stop = 0
                                                   /\ h.unqueued = HooksOf(e).unqueued
                                                   /\ h.waiting = HooksOf(e).waiting
         /\ \E items : /\ IsSeq(items) /\ (items = <<>> <=> Mine(e) = {})
                       /\ agenda' = Cons(HaltAt(e, Len(timers), Todo.how, items), Rest)
  <1>1. agenda # <<>> /\ Todo.op = "stop"
    BY DEF StopBegins, IsNext
  <1>2. e \in Elements /\ Todo.how \in {"rejected", "resolved"}
    BY <1>1, RestFacts DEF ThingOK, ThingIn
  <1>3. DOMAIN hooks = Elements
    BY DEF Types
  <1>4. PICK items : items = IF Mine(e) = {} THEN <<>> ELSE <<Inprogress>>
    OBVIOUS
  <1>5. /\ timeouts' = timeouts \ Mine(e)
        /\ hooks' = IF hooks[e] = <<>> THEN hooks
                    ELSE [hooks EXCEPT ![e] = <<[hooks[e][1] EXCEPT !.stop = 0]>>]
        /\ agenda' = <<HaltAt(e, Len(timers), Todo.how, items)>> \o Rest
    BY <1>4, Zenon DEF StopBegins, Mine
  <1>6. agenda' = Cons(HaltAt(e, Len(timers), Todo.how, items), Rest)
    BY <1>5, PutOne, Zenon
  <1>7. IsSeq(items) /\ (items = <<>> <=> Mine(e) = {})
    <2>1. IsSeq(<<>>) /\ IsSeq(<<Inprogress>>) /\ <<Inprogress>> # <<>>
      BY ShortIsSeq
    <2> QED
      BY <1>4, <2>1
  <1>8. DOMAIN hooks' = Elements /\ \A f \in Elements \ {e} : hooks'[f] = hooks[f]
    BY <1>3, <1>5
  <1>9. \/ hooks[e] = <<>> /\ hooks'[e] = <<>>
        \/ hooks[e] # <<>> /\ \E h \in Hooks : /\ hooks'[e] = <<h>> /\ h.stop = 0
                                               /\ h.unqueued = HooksOf(e).unqueued
                                               /\ h.waiting = HooksOf(e).waiting
    <2>1. CASE hooks[e] = <<>>
      BY <1>5, <2>1
    <2>2. CASE hooks[e] # <<>>
      <3>1. HooksOf(e) \in Hooks /\ HooksOf(e) = hooks[e][1]
        BY <1>2, <2>2, HooksFacts DEF HooksOf
      <3>2. PICK h : h = [HooksOf(e) EXCEPT !.stop = 0]
        OBVIOUS
      <3>3. h \in Hooks /\ h.stop = 0 /\ h.unqueued = HooksOf(e).unqueued /\ h.waiting = HooksOf(e).waiting
        BY <3>1, <3>2 DEF Hooks
      <3>4. hooks'[e] = <<h>>
        BY <1>2, <1>3, <1>5, <2>2, <3>1, <3>2
      <3> QED
        BY <2>2, <3>3, <3>4
    <2> QED
      BY <2>1, <2>2
  <1> QED
    BY <1>1, <1>2, <1>5, <1>6, <1>7, <1>8, <1>9

\* The loop goes wrong.
HaltFails ==
  agenda' = <<>> /\ animations' = animations
  /\ DOMAIN fate' = DOMAIN fate /\ fate'.wronged = TRUE

HaltStops(x, i, n, how) ==
  /\ i \in 1..Len(timers) /\ n = timers[i] /\ n \in DOMAIN animations
  /\ animations[n].e = x.e /\ Pending(n) /\ (x.how = "finish" => animations[n].queued)
  /\ Settled(n, how) /\ FateKeeps
  /\ how = IF x.how = "rejected" THEN "rejected" ELSE "resolved"
  /\ AfterSettled(n, how, Cons(Do("splice", x.e, n, i, x.how, x.items), Rest))

HaltPasses(x, i) ==
  /\ i \in 1..Len(timers) /\ animations' = animations /\ FateKeeps
  /\ ~(/\ animations[timers[i]].e = x.e /\ Pending(timers[i])
       /\ (x.how = "finish" => animations[timers[i]].queued))
  /\ agenda' = Cons(Do("halt", x.e, x.a, i - 1, x.how, x.items), Rest)

LEMMA HaltTimerFacts ==
  ASSUME Types, HaltTimer, NEW x, x = Todo, NEW i, i = Todo.i
  PROVE  /\ agenda # <<>> /\ x.op = "halt" /\ x.e \in Elements /\ i > 0
         /\ HaltFails \/ HaltPasses(x, i) \/ \E n, how : HaltStops(x, i, n, how)
  <1>1. agenda # <<>> /\ x.op = "halt" /\ i > 0
    BY DEF HaltTimer, IsNext
  <1>2. x.e \in Elements /\ IsSeq(Rest) /\ IsDo(x) /\ i \in Nat /\ x.i = i
    BY <1>1, RestFacts DEF ThingOK, ThingIn
  <1>3. IsSeq(timers) /\ Items(timers) \subseteq DOMAIN animations /\ Len(timers) \in Nat
    BY IsSeqFacts DEF Types
  <1>4. PICK n : n = timers[i]
    OBVIOUS
  <1>5. PICK how : how = IF x.how = "rejected" THEN "rejected" ELSE "resolved"
    OBVIOUS
  <1>6. DOMAIN fate = {"wronged", "manual", "forgotten", "overlapped", "shifted"}
    BY DEF Types
  <1>7. CASE i > Len(timers)
    <2>1. agenda' = <<>> /\ fate' = [fate EXCEPT !.wronged = TRUE] /\ animations' = animations
      BY <1>7, Zenon DEF HaltTimer
    <2> QED
      BY <1>1, <1>2, <1>6, <2>1 DEF HaltFails
  <1>8. CASE ~(i > Len(timers)) /\ Matches(n)
    <2>1. i \in 1..Len(timers)
      BY <1>1, <1>2, <1>3, <1>8
    <2>2. n \in DOMAIN animations
      BY <1>3, <1>4, <2>1 DEF Items
    <2>3. StopAnimation(n, how, <<[x EXCEPT !.op = "splice", !.a = n]>> \o Rest) /\ fate' = fate
      BY <1>4, <1>5, <1>8, Zenon DEF HaltTimer
    <2>4. PICK s : s = <<[x EXCEPT !.op = "splice", !.a = n]>> \o Rest
      OBVIOUS
    <2>5. [x EXCEPT !.op = "splice", !.a = n] = Do("splice", x.e, n, i, x.how, x.items)
      BY <1>2, ToSplice
    <2>6. s = Cons(Do("splice", x.e, n, i, x.how, x.items), Rest)
      BY <2>4, <2>5, PutOne, Zenon
    <2>7. IsSeq(s)
      BY <1>2, <2>6, Chains
    <2>8. StopAnimation(n, how, s)
      BY <2>3, <2>4, Zenon
    <2>9. how \in {"resolved", "rejected"}
      BY <1>5
    <2>10. Settled(n, how) /\ AfterSettled(n, how, s)
      BY <2>2, <2>7, <2>8, <2>9, StopAnimationFacts
    <2>11. FateKeeps
      BY <2>3, SameFate
    <2>12. animations[n].e = x.e /\ Pending(n) /\ (x.how = "finish" => animations[n].queued)
      BY <1>8 DEF Matches
    <2>13. AfterSettled(n, how, Cons(Do("splice", x.e, n, i, x.how, x.items), Rest))
      BY <2>6, <2>10, Zenon
    <2>14. HaltStops(x, i, n, how)
      BY <1>4, <1>5, <2>1, <2>2, <2>10, <2>11, <2>12, <2>13 DEF HaltStops
    <2> QED
      BY <1>1, <1>2, <2>14
  <1>9. CASE ~(i > Len(timers)) /\ ~Matches(n)
    <2>1. i \in 1..Len(timers)
      BY <1>1, <1>2, <1>3, <1>9
    <2>2. agenda' = <<[x EXCEPT !.i = i - 1]>> \o Rest /\ animations' = animations /\ fate' = fate
      BY <1>4, <1>9, Zenon DEF HaltTimer
    <2>3. [x EXCEPT !.i = i - 1] = Do("halt", x.e, x.a, i - 1, x.how, x.items)
      <3>1. [x EXCEPT !.i = i - 1] = Do(x.op, x.e, x.a, i - 1, x.how, x.items)
        BY <1>2, ToNextPlace
      <3> QED
        BY <1>1, <3>1
    <2>4. agenda' = Cons(Do("halt", x.e, x.a, i - 1, x.how, x.items), Rest)
      BY <2>2, <2>3, PutOne, Zenon
    <2>5. FateKeeps
      BY <2>2, SameFate
    <2>6. ~(/\ animations[n].e = x.e /\ Pending(n)
            /\ (x.how = "finish" => animations[n].queued))
      BY <1>9 DEF Matches
    <2>7. HaltPasses(x, i)
      BY <1>4, <2>1, <2>2, <2>4, <2>5, <2>6 DEF HaltPasses
    <2> QED
      BY <1>1, <1>2, <2>7
  <1> QED
    BY <1>7, <1>8, <1>9

LEMMA SpliceFacts ==
  ASSUME Types, Splice, NEW x, x = Todo, NEW i, i = Todo.i
  PROVE  /\ agenda # <<>> /\ x.op = "splice" /\ x.e \in Elements /\ i \in Nat \ {0}
         /\ agenda' = Cons(Do("halt", x.e, x.a, i - 1, x.how, x.items), Rest)
         /\ \/ i \in 1..Len(timers) /\ timers' = RemoveAt(timers, i)
            \/ i > Len(timers) /\ timers' = timers
         /\ DOMAIN fate' = DOMAIN fate /\ fate'.manual = fate.manual /\ fate'.forgotten = fate.forgotten
         /\ fate'.wronged \in BOOLEAN
         /\ ~fate'.wronged => /\ ~fate.wronged
                              /\ i \in 1..Len(timers) => timers[i] = x.a \/ ~Pending(timers[i])
  <1>1. agenda # <<>> /\ x.op = "splice"
    BY DEF Splice, IsNext
  <1>2. x.e \in Elements /\ IsDo(x) /\ i \in Nat \ {0} /\ x.i = i
    BY <1>1, RestFacts DEF ThingOK, ThingIn
  <1>3. Len(timers) \in Nat /\ fate.wronged \in BOOLEAN
        /\ DOMAIN fate = {"wronged", "manual", "forgotten", "overlapped", "shifted"}
    BY IsSeqFacts DEF Types
  <1>4. /\ timers' = IF i <= Len(timers) THEN RemoveAt(timers, i) ELSE timers
        /\ fate' = [fate EXCEPT !.wronged =
                      fate.wronged \/ (i <= Len(timers) /\ timers[i] # x.a /\ Pending(timers[i]))]
        /\ agenda' = <<[x EXCEPT !.op = "halt", !.i = i - 1]>> \o Rest
    BY Zenon DEF Splice
  <1>5. agenda' = Cons(Do("halt", x.e, x.a, i - 1, x.how, x.items), Rest)
    <2>1. PICK y : y = [x EXCEPT !.op = "halt", !.i = i - 1]
      OBVIOUS
    <2>2. y = Do("halt", x.e, x.a, i - 1, x.how, x.items)
      BY <1>2, <2>1, ToHalt
    <2>3. agenda' = Cons(y, Rest)
      BY <1>4, <2>1, PutOne, Zenon
    <2> QED
      BY <2>2, <2>3
  <1>6. \/ i \in 1..Len(timers) /\ timers' = RemoveAt(timers, i)
        \/ i > Len(timers) /\ timers' = timers
    BY <1>2, <1>3, <1>4
  <1>7. /\ DOMAIN fate' = DOMAIN fate /\ fate'.manual = fate.manual /\ fate'.forgotten = fate.forgotten
        /\ fate'.wronged = (fate.wronged \/ (i <= Len(timers) /\ timers[i] # x.a /\ Pending(timers[i])))
    BY <1>3, <1>4
  <1>8. fate'.wronged \in BOOLEAN
    BY <1>7
  <1>9. ASSUME ~fate'.wronged
        PROVE  /\ ~fate.wronged
               /\ i \in 1..Len(timers) => timers[i] = x.a \/ ~Pending(timers[i])
    <2>1. ~fate.wronged /\ ~(i <= Len(timers) /\ timers[i] # x.a /\ Pending(timers[i]))
      BY <1>7, <1>9, Zenon
    <2>2. i \in 1..Len(timers) => i <= Len(timers)
      BY <1>2, <1>3
    <2> QED
      BY <2>1, <2>2
  <1> QED
    BY <1>1, <1>2, <1>5, <1>6, <1>7, <1>8, <1>9

LEMMA StopEndsFacts ==
  ASSUME Types, StopEnds, NEW x, x = Todo
  PROVE  /\ agenda # <<>> /\ x.op = "halt" /\ x.e \in Elements /\ x.i = 0
         /\ x.how \in {"rejected", "resolved"}
         /\ DOMAIN fate' = DOMAIN fate /\ fate'.wronged = fate.wronged /\ fate'.manual = fate.manual
         /\ \/ /\ x.a = 0 \/ x.how = "rejected"
               /\ fate'.forgotten = fate.forgotten /\ agenda' = Cons(DequeueDo(x.e), Rest)
            \/ /\ x.a # 0 /\ x.how = "resolved" /\ agenda' = Rest
               /\ fate'.forgotten = IF x.items # <<>> THEN fate.forgotten \cup {x.e} ELSE fate.forgotten
  <1>1. agenda # <<>> /\ x.op = "halt" /\ x.i = 0 /\ x.how # "finish"
    BY DEF StopEnds, IsNext
  <1>2. x.e \in Elements /\ x.how \in {"rejected", "resolved"} /\ IsSeq(Rest)
    BY <1>1, RestFacts DEF ThingOK, ThingIn
  <1>3. DOMAIN fate = {"wronged", "manual", "forgotten", "overlapped", "shifted"}
    BY DEF Types
  <1>4. PICK dequeue : dequeue = (x.a = 0 \/ x.how = "rejected")
    OBVIOUS
  <1>5. /\ agenda' = (IF dequeue THEN <<DequeueDo(x.e)>> ELSE <<>>) \o Rest
        /\ fate' = [fate EXCEPT !.forgotten =
                      IF ~dequeue /\ x.items # <<>> THEN @ \cup {x.e} ELSE @]
    BY <1>4, Zenon DEF StopEnds
  <1>6. CASE dequeue
    <2>1. agenda' = Cons(DequeueDo(x.e), Rest)
      BY <1>5, <1>6, PutOne, Zenon
    <2>2. DOMAIN fate' = DOMAIN fate /\ fate'.wronged = fate.wronged /\ fate'.manual = fate.manual
          /\ fate'.forgotten = fate.forgotten
      BY <1>3, <1>5, <1>6
    <2> QED
      BY <1>1, <1>2, <1>4, <1>6, <2>1, <2>2
  <1>7. CASE ~dequeue
    <2>1. agenda' = Rest
      BY <1>2, <1>5, <1>7, NothingBefore, Zenon
    <2>2. DOMAIN fate' = DOMAIN fate /\ fate'.wronged = fate.wronged /\ fate'.manual = fate.manual
          /\ fate'.forgotten = IF x.items # <<>> THEN fate.forgotten \cup {x.e} ELSE fate.forgotten
      BY <1>3, <1>5, <1>7
    <2> QED
      BY <1>1, <1>2, <1>4, <1>7, <2>1, <2>2
  <1> QED
    BY <1>6, <1>7

LEMMA FinishQueueFacts ==
  ASSUME Types, FinishQueue, NEW x, x = Todo
  PROVE  /\ agenda # <<>> /\ x.op = "halt" /\ x.e \in Elements /\ x.i = 0 /\ x.how = "finish"
         /\ \E items : /\ IsSeq(items)
                       /\ LET y == Do("halt", x.e, x.a, 0, "finish", items)
                          IN  \/ agenda' = Cons(y, Rest)
                              \/ \E item : agenda' = Cons(AnimateDo(x.e, item, "queued"), Cons(y, Rest))
  <1>1. agenda # <<>> /\ x.op = "halt" /\ x.i = 0 /\ x.how = "finish" /\ x.items # <<>>
    BY DEF FinishQueue, IsNext
  <1>2. x.e \in Elements /\ IsSeq(Rest) /\ IsDo(x) /\ IsSeq(x.items)
    BY <1>1, RestFacts DEF ThingOK, ThingIn
  <1>3. PICK items : items = Tail(x.items)
    OBVIOUS
  <1>4. IsSeq(items)
    BY <1>1, <1>2, <1>3, TailIsSeq
  <1>5. PICK y : y = Do("halt", x.e, x.a, 0, "finish", items)
    OBVIOUS
  <1>6. [x EXCEPT !.items = items] = y
    <2>1. [x EXCEPT !.items = items] = Do(x.op, x.e, x.a, x.i, x.how, items)
      BY <1>2, ToRestOfItems
    <2> QED
      BY <1>1, <1>5, <2>1
  <1>7. PICK item : item = Head(x.items)
    OBVIOUS
  <1>8. agenda' = ((IF item.is = "animation" THEN <<AnimateDo(x.e, item, "queued")>> ELSE <<>>)
                   \o <<y>>) \o Rest
    <2>1. agenda' = ((IF item.is = "animation" THEN <<AnimateDo(x.e, item, "queued")>> ELSE <<>>)
                     \o <<[x EXCEPT !.items = Tail(x.items)]>>) \o Rest
      BY <1>7, Zenon DEF FinishQueue
    <2> QED
      BY <1>3, <1>6, <2>1, Zenon
  <1>9. CASE item.is = "animation"
    <2>1. PICK z : z = AnimateDo(x.e, item, "queued")
      OBVIOUS
    <2>2. agenda' = (<<z>> \o <<y>>) \o Rest
      BY <1>8, <1>9, <2>1, Zenon
    <2>3. <<z>> \o <<y>> = <<z, y>>
      BY TwoIsCons, Zenon DEF Cons
    <2>4. PutTwo(z, y, Rest)
      BY <1>2, ConsTwo, Zenon
    <2>5. agenda' = Cons(z, Cons(y, Rest))
      BY <2>2, <2>3, <2>4, Zenon DEF PutTwo
    <2> QED
      BY <1>1, <1>2, <1>4, <1>5, <2>1, <2>5
  <1>10. CASE item.is # "animation"
    <2>1. agenda' = (<<>> \o <<y>>) \o Rest
      BY <1>8, <1>10, Zenon
    <2>2. IsSeq(<<y>>)
      BY OneIsSeq
    <2>3. <<>> \o <<y>> = <<y>>
      BY <2>2, NothingBefore, Zenon
    <2>4. agenda' = Cons(y, Rest)
      BY <2>1, <2>3, Zenon DEF Cons
    <2> QED
      BY <1>1, <1>2, <1>4, <1>5, <2>4
  <1> QED
    BY <1>9, <1>10

Called == calls' = calls + 1 /\ (agenda = <<>> \/ Todo.op = "run")

\* What a call does to the history.
FateMoves(e, manual) ==
  /\ DOMAIN fate' = DOMAIN fate /\ fate'.wronged = fate.wronged /\ fate'.forgotten = fate.forgotten
  /\ fate'.manual = IF manual THEN fate.manual \cup {e} ELSE fate.manual

LEMMA CallsFacts ==
  ASSUME Types, NEW things, Calls(things)
  PROVE  Called /\ agenda' = things \o agenda /\ IsSeq(agenda)
  BY DEF Calls, Called, Idle, IsNext, Types

LEMMA ToSetIsItems ==
  ASSUME Types
  PROVE  ToSet(agenda) = Items(agenda)
  <1>1. DOMAIN agenda = 1..Len(agenda)
    BY IsSeqFacts DEF Types
  <1> QED
    BY <1>1 DEF ToSet, Items

QueueStarts(e) == queue[e] = <<>> \/ Head(queue[e]) # Inprogress

CallQueueAfter(e, item) ==
  /\ Called /\ OnlyOf(e)
  /\ QueueOK(queue'[e]) /\ queue'[e] # <<>> /\ Items(queue'[e]) = Items(queue[e]) \cup {item}
  /\ queue[e] # <<>> => Head(queue'[e]) = Head(queue[e])
  /\ hooks'[e] = <<HooksOf(e)>> /\ promises' = promises
  /\ FateMoves(e, QueueStarts(e) /\ DequeueDo(e) \in Items(agenda))
  /\ agenda' = IF QueueStarts(e) THEN Cons(DequeueDo(e), agenda) ELSE agenda

LEMMA CallQueueFacts ==
  ASSUME Types, NEW e \in Elements, NEW item, ItemOK(item), CallQueue(e, item)
  PROVE  CallQueueAfter(e, item)
  <1>1. QueueOK(queue[e]) /\ DOMAIN queue = Elements /\ DOMAIN hooks = Elements
        /\ DOMAIN fate = {"wronged", "manual", "forgotten", "overlapped", "shifted"}
    BY DEF Types
  <1>2. /\ queue' = [queue EXCEPT ![e] = Append(queue[e], item)]
        /\ hooks' = [hooks EXCEPT ![e] = <<HooksOf(e)>>]
        /\ Calls(IF QueueStarts(e) THEN <<DequeueDo(e)>> ELSE <<>>)
        /\ fate' = [fate EXCEPT !.manual =
                      IF QueueStarts(e) /\ DequeueDo(e) \in ToSet(agenda) THEN @ \cup {e} ELSE @]
        /\ promises' = promises
    BY Zenon DEF CallQueue, QueueStarts
  <1>3. FateMoves(e, QueueStarts(e) /\ DequeueDo(e) \in Items(agenda))
    BY <1>1, <1>2, ToSetIsItems DEF FateMoves
  <1>4. Called /\ agenda' = (IF QueueStarts(e) THEN <<DequeueDo(e)>> ELSE <<>>) \o agenda /\ IsSeq(agenda)
    <2>1. PICK things : things = IF QueueStarts(e) THEN <<DequeueDo(e)>> ELSE <<>>
      OBVIOUS
    <2>2. Calls(things)
      BY <1>2, <2>1, Zenon
    <2>3. Called /\ agenda' = things \o agenda /\ IsSeq(agenda)
      BY <2>2, CallsFacts
    <2> QED
      BY <2>1, <2>3, Zenon
  <1>5. agenda' = IF QueueStarts(e) THEN Cons(DequeueDo(e), agenda) ELSE agenda
    <2>1. CASE QueueStarts(e)
      BY <1>4, <2>1, Zenon DEF Cons
    <2>2. CASE ~QueueStarts(e)
      <3>1. agenda' = <<>> \o agenda
        BY <1>4, <2>2, Zenon
      <3>2. agenda' = agenda
        BY <1>4, <3>1, NothingBefore, Zenon
      <3> QED
        BY <2>2, <3>2
    <2> QED
      BY <2>1, <2>2
  <1>6. PICK q : q = queue[e]
    OBVIOUS
  <1>7. PICK r : r = Append(q, item)
    OBVIOUS
  <1>8. IsSeq(q) /\ \A j \in 1..Len(q) : (j = 1 /\ q[j] = Inprogress) \/ ItemOK(q[j])
    BY <1>1, <1>6 DEF QueueOK, ItemOK
  <1>9. /\ IsSeq(r) /\ Len(q) \in Nat /\ Len(r) = Len(q) + 1 /\ Items(r) = Items(q) \cup {item}
        /\ DOMAIN q = 1..Len(q) /\ (\A k \in DOMAIN q : r[k] = q[k]) /\ r[Len(q) + 1] = item
    BY <1>7, <1>8, Appended, IsSeqFacts
  <1>10. ASSUME NEW j \in 1..Len(r) PROVE (j = 1 /\ r[j] = Inprogress) \/ ItemOK(r[j])
    <2>1. CASE j \in 1..Len(q)
      BY <1>8, <1>9, <2>1
    <2>2. CASE j \notin 1..Len(q)
      <3>1. j = Len(q) + 1
        BY <1>9, <2>2
      <3> QED
        BY <1>9, <3>1
    <2> QED
      BY <2>1, <2>2
  <1>11. QueueOK(r)
    BY <1>9, <1>10 DEF QueueOK, ItemOK
  <1>12. r # <<>>
    BY <1>9, IsSeqFacts
  <1>13. q # <<>> => Head(r) = Head(q)
    <2>1. ASSUME q # <<>> PROVE Head(r) = Head(q)
      <3>1. Head(q) = q[1] /\ Len(q) >= 1
        BY <1>8, <2>1, TailIsSeq
      <3>2. Head(r) = r[1]
        BY <1>9, <1>12, TailIsSeq
      <3>3. 1 \in DOMAIN q
        BY <1>9, <3>1
      <3> QED
        BY <1>9, <3>1, <3>2, <3>3
    <2> QED
      BY <2>1
  <1>14. queue'[e] = r
    BY <1>1, <1>2, <1>6, <1>7
  <1>15. OnlyOf(e) /\ hooks'[e] = <<HooksOf(e)>>
    BY <1>1, <1>2 DEF OnlyOf
  <1> QED
    BY <1>2, <1>3, <1>4, <1>5, <1>6, <1>9, <1>11, <1>12, <1>13, <1>14, <1>15 DEF CallQueueAfter

LEMMA CallAnimateFacts ==
  ASSUME Types, NEW e \in Elements, NEW goal, NEW duration, NEW queued \in BOOLEAN,
         CallAnimate(e, goal, duration, queued)
  PROVE  \/ \E item : ItemOK(item) /\ item.is = "animation" /\ CallQueue(e, item)
         \/ /\ Called /\ UNCHANGED <<data, style, animations, clock, promises>>
            /\ FateMoves(e, queued)
            /\ \E item, how : /\ agenda' = Cons(AnimateDo(e, item, how), agenda)
                              /\ how = "queued" <=> queued
  <1>1. PICK item : item = Item("animation", goal, IF goal = "empty" THEN 0 ELSE duration, 0)
    OBVIOUS
  <1>2. item.is = "animation"
    BY <1>1, ItemFacts, Zenon
  <1>3. CASE queued /\ goal # "empty"
    <2>1. CallQueue(e, item)
      BY <1>1, <1>3, Zenon DEF CallAnimate
    <2> QED
      BY <1>2, <2>1 DEF ItemOK
  <1>4. CASE ~(queued /\ goal # "empty")
    <2>1. PICK how : how = IF queued THEN "queued" ELSE "unqueued"
      OBVIOUS
    <2>2. /\ Calls(<<AnimateDo(e, item, how)>>)
          /\ fate' = [fate EXCEPT !.manual = IF queued THEN @ \cup {e} ELSE @]
          /\ UNCHANGED <<data, style, animations, clock, promises>>
      BY <1>1, <1>4, <2>1, Zenon DEF CallAnimate
    <2>3. Called /\ agenda' = <<AnimateDo(e, item, how)>> \o agenda
      BY <2>2, CallsFacts, Zenon
    <2>4. agenda' = Cons(AnimateDo(e, item, how), agenda)
      BY <2>3, PutOne, Zenon
    <2>5. DOMAIN fate = {"wronged", "manual", "forgotten", "overlapped", "shifted"}
      BY DEF Types
    <2>6. FateMoves(e, queued)
      BY <2>2, <2>5 DEF FateMoves
    <2>7. how = "queued" <=> queued
      BY <2>1
    <2> QED
      BY <2>2, <2>3, <2>4, <2>6, <2>7, Zenon
  <1> QED
    BY <1>3, <1>4

LEMMA CallDequeueFacts ==
  ASSUME Types, NEW e \in Elements, NEW clear \in BOOLEAN, CallDequeue(e, clear)
  PROVE  /\ Called /\ agenda' = Cons(DequeueDo(e), agenda)
         /\ DOMAIN queue' = Elements /\ \A f \in Elements \ {e} : queue'[f] = queue[f]
         /\ queue'[e] = IF clear THEN <<>> ELSE queue[e]
         /\ FateMoves(e, TRUE)
  <1>1. DOMAIN queue = Elements
        /\ DOMAIN fate = {"wronged", "manual", "forgotten", "overlapped", "shifted"}
    BY DEF Types
  <1>2. /\ Calls(<<DequeueDo(e)>>)
        /\ queue' = IF clear THEN [queue EXCEPT ![e] = <<>>] ELSE queue
        /\ fate' = [fate EXCEPT !.manual = @ \cup {e}]
    BY Zenon DEF CallDequeue
  <1>3. Called /\ agenda' = <<DequeueDo(e)>> \o agenda
    BY <1>2, CallsFacts, Zenon
  <1>4. agenda' = Cons(DequeueDo(e), agenda)
    BY <1>3, PutOne, Zenon
  <1>5. FateMoves(e, TRUE)
    BY <1>1, <1>2 DEF FateMoves
  <1>6. DOMAIN queue' = Elements /\ \A f \in Elements \ {e} : queue'[f] = queue[f]
    BY <1>1, <1>2
  <1>7. queue'[e] = IF clear THEN <<>> ELSE queue[e]
    BY <1>1, <1>2
  <1> QED
    BY <1>3, <1>4, <1>5, <1>6, <1>7

StopDo(e, how) == Do("stop", e, 0, 0, how, <<>>)

LEMMA CallStopFacts ==
  ASSUME Types, NEW e \in Elements, NEW clear \in BOOLEAN, NEW gotoEnd, CallStop(e, clear, gotoEnd)
  PROVE  /\ Called
         /\ \E how \in {"resolved", "rejected"} :
              agenda' = IF clear THEN Cons(DequeueDo(e), Cons(StopDo(e, how), agenda))
                        ELSE Cons(StopDo(e, how), agenda)
         /\ DOMAIN queue' = Elements /\ \A f \in Elements \ {e} : queue'[f] = queue[f]
         /\ queue'[e] = IF clear THEN <<>> ELSE queue[e]
         /\ FateMoves(e, clear \/ DequeueDo(e) \in Items(agenda))
  <1>1. DOMAIN queue = Elements
        /\ DOMAIN fate = {"wronged", "manual", "forgotten", "overlapped", "shifted"}
    BY DEF Types
  <1>2. PICK how \in {"resolved", "rejected"} : how = IF gotoEnd THEN "resolved" ELSE "rejected"
    OBVIOUS
  <1>3. PICK stop : stop = StopDo(e, how)
    OBVIOUS
  <1>4. /\ Calls((IF clear THEN <<DequeueDo(e)>> ELSE <<>>) \o <<stop>>)
        /\ queue' = IF clear THEN [queue EXCEPT ![e] = <<>>] ELSE queue
        /\ fate' = [fate EXCEPT !.manual =
                      IF clear \/ DequeueDo(e) \in ToSet(agenda) THEN @ \cup {e} ELSE @]
    BY <1>2, <1>3, Zenon DEF CallStop, StopDo
  <1>5. /\ Called /\ agenda' = ((IF clear THEN <<DequeueDo(e)>> ELSE <<>>) \o <<stop>>) \o agenda
        /\ IsSeq(agenda)
    BY <1>4, CallsFacts, Zenon
  <1>6. agenda' = IF clear THEN Cons(DequeueDo(e), Cons(stop, agenda)) ELSE Cons(stop, agenda)
    <2>1. CASE clear
      <3>1. agenda' = (<<DequeueDo(e)>> \o <<stop>>) \o agenda
        BY <1>5, <2>1, Zenon
      <3>2. <<DequeueDo(e)>> \o <<stop>> = <<DequeueDo(e), stop>>
        BY TwoIsCons, Zenon DEF Cons
      <3>3. PutTwo(DequeueDo(e), stop, agenda)
        BY <1>5, ConsTwo, Zenon
      <3>4. agenda' = Cons(DequeueDo(e), Cons(stop, agenda))
        BY <3>1, <3>2, <3>3, Zenon DEF PutTwo
      <3> QED
        BY <2>1, <3>4
    <2>2. CASE ~clear
      <3>1. agenda' = (<<>> \o <<stop>>) \o agenda
        BY <1>5, <2>2, Zenon
      <3>2. IsSeq(<<stop>>)
        BY OneIsSeq
      <3>3. <<>> \o <<stop>> = <<stop>>
        BY <3>2, NothingBefore, Zenon
      <3>4. agenda' = Cons(stop, agenda)
        BY <3>1, <3>3, Zenon DEF Cons
      <3> QED
        BY <2>2, <3>4
    <2> QED
      BY <2>1, <2>2
  <1>7. FateMoves(e, clear \/ DequeueDo(e) \in Items(agenda))
    BY <1>1, <1>4, ToSetIsItems DEF FateMoves
  <1>8. DOMAIN queue' = Elements /\ \A f \in Elements \ {e} : queue'[f] = queue[f]
    BY <1>1, <1>4
  <1>9. queue'[e] = IF clear THEN <<>> ELSE queue[e]
    BY <1>1, <1>4
  <1> QED
    BY <1>3, <1>5, <1>6, <1>7, <1>8, <1>9

LEMMA CallFinishFacts ==
  ASSUME Types, NEW e \in Elements, CallFinish(e)
  PROVE  /\ Called /\ agenda' = Cons(HaltAt(e, Len(timers), "finish", queue[e]), agenda)
         /\ DOMAIN queue' = Elements /\ \A f \in Elements \ {e} : queue'[f] = queue[f]
         /\ queue'[e] = <<>> /\ finish' = finish \cup {e}
         /\ timeouts' = {t \in timeouts : hooks[e] = <<>> \/ t[1] # hooks[e][1].stop}
         /\ DOMAIN fate' = DOMAIN fate /\ fate'.wronged = fate.wronged
         /\ fate'.forgotten = IF timeouts' # timeouts THEN fate.forgotten \cup {e} ELSE fate.forgotten
         /\ fate'.manual = IF DequeueDo(e) \in Items(agenda) THEN fate.manual \cup {e} ELSE fate.manual
  <1>1. DOMAIN queue = Elements
        /\ DOMAIN fate = {"wronged", "manual", "forgotten", "overlapped", "shifted"}
    BY DEF Types
  <1>2. /\ Calls(<<HaltAt(e, Len(timers), "finish", queue[e])>>)
        /\ finish' = finish \cup {e}
        /\ queue' = [queue EXCEPT ![e] = <<>>]
        /\ timeouts' = {t \in timeouts : hooks[e] = <<>> \/ t[1] # hooks[e][1].stop}
        /\ fate' = [fate EXCEPT !.forgotten = IF timeouts' # timeouts THEN @ \cup {e} ELSE @,
                          !.manual = IF DequeueDo(e) \in ToSet(agenda) THEN @ \cup {e} ELSE @]
    BY Zenon DEF CallFinish
  <1>3. Called /\ agenda' = <<HaltAt(e, Len(timers), "finish", queue[e])>> \o agenda
    BY <1>2, CallsFacts, Zenon
  <1>4. agenda' = Cons(HaltAt(e, Len(timers), "finish", queue[e]), agenda)
    BY <1>3, PutOne, Zenon
  <1>5. DOMAIN queue' = Elements /\ queue'[e] = <<>> /\ \A f \in Elements \ {e} : queue'[f] = queue[f]
    BY <1>1, <1>2
  <1>6. /\ DOMAIN fate' = DOMAIN fate /\ fate'.wronged = fate.wronged
        /\ fate'.forgotten = IF timeouts' # timeouts THEN fate.forgotten \cup {e} ELSE fate.forgotten
        /\ fate'.manual = IF DequeueDo(e) \in Items(agenda) THEN fate.manual \cup {e} ELSE fate.manual
    <2>1. PICK forgotten : forgotten = IF timeouts' # timeouts THEN fate.forgotten \cup {e} ELSE fate.forgotten
      OBVIOUS
    <2>2. PICK manual : manual = IF DequeueDo(e) \in Items(agenda) THEN fate.manual \cup {e} ELSE fate.manual
      OBVIOUS
    <2>3. fate' = [fate EXCEPT !.forgotten = forgotten, !.manual = manual]
      BY <1>2, <2>1, <2>2, ToSetIsItems
    <2>4. DOMAIN fate' = DOMAIN fate /\ fate'.wronged = fate.wronged
          /\ fate'.forgotten = forgotten /\ fate'.manual = manual
      BY <1>1, <2>3
    <2> QED
      BY <2>1, <2>2, <2>4
  <1> QED
    BY <1>2, <1>3, <1>4, <1>5, <1>6

Busy == {e \in Elements : hooks[e] # <<>>}

LEMMA CallPromiseFacts ==
  ASSUME Types, CallPromise, NEW p, p = Len(promises) + 1
  PROVE  /\ Called /\ agenda' = agenda
         /\ promises' = Append(promises, Cardinality(Busy))
         /\ DOMAIN hooks' = Elements
         /\ \A e \in Elements :
              \/ hooks[e] = <<>> /\ hooks'[e] = <<>>
              \/ hooks[e] # <<>> /\ \E h \in Hooks : /\ hooks'[e] = <<h>> /\ h.stop = HooksOf(e).stop
                                                     /\ h.unqueued = HooksOf(e).unqueued
                                                     /\ h.waiting = HooksOf(e).waiting \cup {p}
  <1>1. p \in Nat
    BY IsSeqFacts DEF Types
  <1>2. /\ Calls(<<>>)
        /\ promises' = Append(promises, Cardinality(Busy))
        /\ hooks' = [e \in Elements |-> IF e \in Busy THEN <<[hooks[e][1] EXCEPT !.waiting = @ \cup {p}]>>
                                        ELSE <<>>]
    BY Zenon DEF CallPromise, Busy
  <1>3. Called /\ agenda' = <<>> \o agenda /\ IsSeq(agenda)
    BY <1>2, CallsFacts, Zenon
  <1>4. agenda' = agenda
    BY <1>3, NothingBefore, Zenon
  <1>5. ASSUME NEW e \in Elements
        PROVE  \/ hooks[e] = <<>> /\ hooks'[e] = <<>>
               \/ hooks[e] # <<>> /\ \E h \in Hooks : /\ hooks'[e] = <<h>> /\ h.stop = HooksOf(e).stop
                                                      /\ h.unqueued = HooksOf(e).unqueued
                                                      /\ h.waiting = HooksOf(e).waiting \cup {p}
    <2>1. CASE hooks[e] = <<>>
      BY <1>2, <2>1 DEF Busy
    <2>2. CASE hooks[e] # <<>>
      <3>1. HooksOf(e) \in Hooks /\ HooksOf(e) = hooks[e][1]
        BY <2>2, HooksFacts DEF HooksOf
      <3>2. PICK h : h = [HooksOf(e) EXCEPT !.waiting = HooksOf(e).waiting \cup {p}]
        OBVIOUS
      <3>3. /\ h \in Hooks /\ h.stop = HooksOf(e).stop /\ h.unqueued = HooksOf(e).unqueued
            /\ h.waiting = HooksOf(e).waiting \cup {p}
        BY <1>1, <3>1, <3>2 DEF Hooks
      <3>4. hooks'[e] = <<h>>
        BY <1>2, <2>2, <3>1, <3>2 DEF Busy
      <3> QED
        BY <2>2, <3>3, <3>4
    <2> QED
      BY <2>1, <2>2
  <1>6. DOMAIN hooks' = Elements
    BY <1>2
  <1> QED
    BY <1>2, <1>3, <1>4, <1>5, <1>6

--------------------------------------------------------------------------------
(* The types are kept                                                       *)

ListOK(s, made) == IsSeq(s) /\ \A x \in Items(s) : ThingIn(x, made)

AnimationsAge ==
  \A n \in DOMAIN animations : /\ n \in DOMAIN animations' /\ animations'[n].e = animations[n].e
                               /\ animations'[n].queued = animations[n].queued

LEMMA ListCons ==
  ASSUME NEW s, NEW made, ListOK(s, made), NEW x, ThingIn(x, made)
  PROVE  ListOK(Cons(x, s), made)
  <1>1. IsSeq(s) /\ \A y \in Items(s) : ThingIn(y, made)
    BY DEF ListOK
  <1>2. IsSeq(Cons(x, s)) /\ Items(Cons(x, s)) = {x} \cup Items(s)
    BY <1>1, ConsFacts
  <1> QED
    BY <1>1, <1>2 DEF ListOK

LEMMA ThingsAge ==
  ASSUME AnimationsAge, NEW x, ThingIn(x, animations)
  PROVE  ThingIn(x, animations')
  BY DEF AnimationsAge, ThingIn

LEMMA AgendaAges ==
  ASSUME Types, AnimationsAge
  PROVE  ListOK(agenda, animations') /\ (agenda # <<>> => ListOK(Rest, animations'))
  <1>1. IsSeq(agenda) /\ \A x \in Items(agenda) : ThingIn(x, animations')
    BY ThingsAge DEF Types, ThingOK
  <1>2. ASSUME agenda # <<>> PROVE ListOK(Rest, animations')
    <2>1. IsSeq(Rest) /\ Items(Rest) \subseteq Items(agenda)
      BY <1>2, RestFacts
    <2> QED
      BY <1>1, <2>1 DEF ListOK
  <1> QED
    BY <1>1, <1>2 DEF ListOK

LEMMA ThingsMade ==
  ASSUME NEW made, NEW e \in Elements, NEW n, NEW i
  PROVE  /\ ThingIn(DequeueDo(e), made) /\ ThingIn(Run(e), made)
         /\ i \in Nat \ {0} => ThingIn(TickAt(i), made)
         /\ n \in DOMAIN made /\ made[n].e = e =>
              ThingIn(UnqueueDo(e, n), made) /\ (i \in Nat \ {0} => ThingIn(TickedDo(e, n, i), made))
  <1>1. DequeueDo(e).op = "dequeue" /\ DequeueDo(e).e = e /\ IsDo(DequeueDo(e))
    BY SimpleThings
  <1>2. ThingIn(DequeueDo(e), made)
    <2>1. PICK x : x = DequeueDo(e)
      OBVIOUS
    <2>2. x.op = "dequeue" /\ x.e = e /\ IsDo(x) /\ x = DequeueDo(x.e)
      BY <1>1, <2>1
    <2>3. ThingIn(x, made)
      BY <2>2 DEF ThingIn, Ops
    <2> QED
      BY <2>1, <2>3
  <1>3. ThingIn(Run(e), made)
    <2>1. Run(e).op = "run" /\ Run(e).e = e /\ IsDo(Run(e))
      BY SimpleThings
    <2> QED
      BY <2>1 DEF ThingIn, Ops
  <1>4. ASSUME i \in Nat \ {0} PROVE ThingIn(TickAt(i), made)
    <2>1. TickAt(i).op = "tick" /\ TickAt(i).i = i /\ IsDo(TickAt(i))
      BY SimpleThings
    <2> QED
      BY <1>4, <2>1 DEF ThingIn, Ops
  <1>5. ASSUME n \in DOMAIN made, made[n].e = e PROVE ThingIn(UnqueueDo(e, n), made)
    <2>1. UnqueueDo(e, n).op = "unqueue" /\ UnqueueDo(e, n).e = e /\ UnqueueDo(e, n).a = n
          /\ IsDo(UnqueueDo(e, n))
      BY SimpleThings
    <2> QED
      BY <1>5, <2>1 DEF ThingIn, Ops
  <1>6. ASSUME n \in DOMAIN made, made[n].e = e, i \in Nat \ {0} PROVE ThingIn(TickedDo(e, n, i), made)
    <2>1. TickedDo(e, n, i).op = "ticked" /\ TickedDo(e, n, i).e = e
          /\ TickedDo(e, n, i).a = n /\ TickedDo(e, n, i).i = i /\ IsDo(TickedDo(e, n, i))
      BY SimpleThings
    <2> QED
      BY <1>6, <2>1 DEF ThingIn, Ops
  <1> QED
    BY <1>2, <1>3, <1>4, <1>5, <1>6

LEMMA AnimateMade ==
  ASSUME NEW made, NEW e \in Elements, NEW item, NEW how
  PROVE  ThingIn(AnimateDo(e, item, how), made)
  <1>1. PICK x : x = AnimateDo(e, item, how)
    OBVIOUS
  <1>2. x.op = "animate" /\ x.e = e /\ IsDo(x)
    BY <1>1, AnimateThings
  <1>3. ThingIn(x, made)
    BY <1>2 DEF ThingIn, Ops
  <1> QED
    BY <1>1, <1>3

\* The same for the others.
LEMMA DoMade ==
  ASSUME NEW made, NEW op, NEW e \in Elements, NEW a, NEW i, NEW how, NEW items,
         \/ op = "animated" /\ a \in DOMAIN made /\ made[a].e = e
         \/ op = "stop" /\ how \in {"rejected", "resolved"}
         \/ op = "halt" /\ i \in Nat /\ how \in {"rejected", "resolved", "finish"} /\ IsSeq(items)
         \/ /\ op = "splice" /\ a \in DOMAIN made /\ made[a].e = e
            /\ i \in Nat \ {0} /\ how \in {"rejected", "resolved", "finish"} /\ IsSeq(items)
  PROVE  ThingIn(Do(op, e, a, i, how, items), made)
  <1>1. PICK x : x = Do(op, e, a, i, how, items)
    OBVIOUS
  <1>2. x.op = op /\ x.e = e /\ x.a = a /\ x.i = i /\ x.how = how /\ x.items = items /\ IsDo(x)
    BY <1>1, DoFields
  <1>3. ThingIn(x, made)
    BY <1>2 DEF ThingIn, Ops
  <1> QED
    BY <1>1, <1>3

\* What is put on the agenda when an animation is settled.
LEMMA SettledMade ==
  ASSUME Types, NEW n, NEW how, Settled(n, how), NEW s, ListOK(s, animations'), AfterSettled(n, how, s)
  PROVE  ListOK(agenda', animations')
  <1>1. /\ n \in DOMAIN animations /\ animations[n].e \in Elements
        /\ n \in DOMAIN animations' /\ animations'[n].e = animations[n].e
    BY DEF Settled, AnimationsKeep, Types, AnimationOK
  <1>2. PICK e : e = animations[n].e
    OBVIOUS
  <1>3. ThingIn(DequeueDo(e), animations') /\ ThingIn(Run(e), animations')
        /\ ThingIn(UnqueueDo(e, n), animations')
    BY <1>1, <1>2, ThingsMade
  <1>4. CASE how = "resolved" /\ animations[n].queued
    <2>1. agenda' = Cons(Run(e), Cons(DequeueDo(e), s))
      BY <1>2, <1>4 DEF AfterSettled
    <2>2. ListOK(Cons(DequeueDo(e), s), animations')
      BY <1>3, ListCons
    <2>3. ListOK(Cons(Run(e), Cons(DequeueDo(e), s)), animations')
      BY <1>3, <2>2, ListCons
    <2> QED
      BY <2>1, <2>3
  <1>5. CASE how = "resolved" /\ ~animations[n].queued
    <2>1. agenda' = Cons(Run(e), Cons(UnqueueDo(e, n), s))
      BY <1>2, <1>5 DEF AfterSettled
    <2>2. ListOK(Cons(UnqueueDo(e, n), s), animations')
      BY <1>3, ListCons
    <2>3. ListOK(Cons(Run(e), Cons(UnqueueDo(e, n), s)), animations')
      BY <1>3, <2>2, ListCons
    <2> QED
      BY <2>1, <2>3
  <1>6. CASE how # "resolved" /\ animations[n].queued
    BY <1>6 DEF AfterSettled
  <1>7. CASE how # "resolved" /\ ~animations[n].queued
    <2>1. agenda' = Cons(UnqueueDo(e, n), s)
      BY <1>2, <1>7 DEF AfterSettled
    <2> QED
      BY <1>3, <2>1, ListCons
  <1> QED
    BY <1>4, <1>5, <1>6, <1>7

AnimationsOK ==
  /\ IsSeq(animations) /\ (\A n \in DOMAIN animations : AnimationOK(animations[n]))
  /\ IsSeq(timers) /\ Items(timers) \subseteq DOMAIN animations

HooksOK(e) == hooks[e] # <<>> => hooks[e] = <<hooks[e][1]>> /\ hooks[e][1] \in Hooks

QueuesOK ==
  /\ DOMAIN queue = Elements /\ DOMAIN hooks = Elements
  /\ \A e \in Elements : QueueOK(queue[e]) /\ HooksOK(e)
  /\ finish \subseteq Elements /\ timeouts \subseteq Nat \X Elements

OthersOK ==
  /\ IsSeq(promises) /\ calls \in Nat
  /\ DOMAIN fate = {"wronged", "manual", "forgotten", "overlapped", "shifted"}
  /\ fate.wronged \in BOOLEAN

LEMMA TypesParts ==
  /\ Types <=> ListOK(agenda, animations) /\ AnimationsOK /\ QueuesOK /\ OthersOK
  /\ Types' <=> ListOK(agenda', animations') /\ AnimationsOK' /\ QueuesOK' /\ OthersOK'
  <1>1. Types <=> ListOK(agenda, animations) /\ AnimationsOK /\ QueuesOK /\ OthersOK
    BY DEF Types, ListOK, AnimationsOK, QueuesOK, OthersOK, HooksOK, ThingOK
  <1>2. Types' <=> ListOK(agenda', animations') /\ AnimationsOK' /\ QueuesOK' /\ OthersOK'
    BY DEF Types, ListOK, AnimationsOK, QueuesOK, OthersOK, HooksOK, ThingOK
  <1> QED
    BY <1>1, <1>2

LEMMA HooksOKAfter ==
  ASSUME NEW e, \/ hooks'[e] = <<>>
                \/ \E h \in Hooks : hooks'[e] = <<h>>
                \/ HooksOK(e) /\ hooks'[e] = hooks[e]
  PROVE  HooksOK(e)'
  <1>1. CASE hooks'[e] = <<>>
    BY <1>1 DEF HooksOK
  <1>2. CASE \E h \in Hooks : hooks'[e] = <<h>>
    <2>1. PICK h \in Hooks : hooks'[e] = <<h>>
      BY <1>2
    <2>2. hooks'[e][1] = h
      BY <2>1
    <2> QED
      BY <2>1, <2>2 DEF HooksOK
  <1>3. CASE HooksOK(e) /\ hooks'[e] = hooks[e]
    BY <1>3 DEF HooksOK
  <1> QED
    BY <1>1, <1>2, <1>3

LEMMA AnimationsStay ==
  ASSUME Types, animations' = animations, timers' = timers
  PROVE  AnimationsOK' /\ AnimationsAge
  <1>1. AnimationsOK'
    BY TypesParts DEF AnimationsOK
  <1> QED
    BY <1>1 DEF AnimationsAge

LEMMA AnimationsKept ==
  ASSUME Types, AnimationsKeep
  PROVE  /\ AnimationsAge
         /\ timers' = timers => AnimationsOK'
         /\ \A i \in 1..Len(timers) : timers' = RemoveAt(timers, i) => AnimationsOK'
  <1>1. AnimationsAge /\ DOMAIN animations' = DOMAIN animations
    BY DEF AnimationsKeep, AnimationsAge
  <1>2. timers' = timers => AnimationsOK'
    BY <1>1, TypesParts DEF AnimationsOK, AnimationsKeep
  <1>3. ASSUME NEW i \in 1..Len(timers), timers' = RemoveAt(timers, i) PROVE AnimationsOK'
    <2>1. IsSeq(timers) /\ Items(timers) \subseteq DOMAIN animations
      BY TypesParts DEF AnimationsOK
    <2>2. IsSeq(timers') /\ Items(timers') \subseteq Items(timers)
      BY <1>3, <2>1, Removed
    <2> QED
      BY <1>1, <2>1, <2>2, TypesParts DEF AnimationsOK, AnimationsKeep
  <1> QED
    BY <1>1, <1>2, <1>3

LEMMA QueuesStay ==
  ASSUME Types, UNCHANGED <<queue, hooks, finish, timeouts>>
  PROVE  QueuesOK'
  BY TypesParts DEF QueuesOK, HooksOK

LEMMA OthersStay ==
  ASSUME Types, promises' = promises, calls' = calls \/ calls' = calls + 1,
         DOMAIN fate' = DOMAIN fate, fate'.wronged \in BOOLEAN
  PROVE  OthersOK'
  BY TypesParts DEF OthersOK

\* When a promise counts down.
LEMMA PromisesAfter ==
  ASSUME Types, NEW h, \/ promises' = promises
                       \/ promises' = [p \in DOMAIN promises |->
                                         IF p \in h.waiting THEN promises[p] - 1 ELSE promises[p]]
  PROVE  IsSeq(promises') /\ DOMAIN promises' = DOMAIN promises
  <1>1. IsSeq(promises) /\ DOMAIN promises = 1..Len(promises) /\ Len(promises) \in Nat
    BY IsSeqFacts DEF Types
  <1>2. CASE promises' = promises
    BY <1>1, <1>2
  <1>3. CASE promises' = [p \in DOMAIN promises |->
                            IF p \in h.waiting THEN promises[p] - 1 ELSE promises[p]]
    <2>1. PICK S : promises' \in [1..Len(promises) -> S]
      <3>1. promises' \in [1..Len(promises) -> {promises'[p] : p \in 1..Len(promises)}]
        BY <1>1, <1>3
      <3> QED
        BY <3>1
    <2>2. promises' \in Seq(S)
      BY <1>1, <2>1, FunctionIsSeq
    <2>3. IsSeq(promises')
      BY <2>2, SeqIsSeq
    <2> QED
      BY <1>1, <1>3, <2>3
  <1> QED
    BY <1>2, <1>3

LEMMA DequeueTypes ==
  ASSUME Types, Dequeue
  PROVE  Types'
  <1>1. PICK e : e = Todo.e
    OBVIOUS
  <1>2. e \in Elements /\ agenda # <<>> /\ OnlyOf(e)
        /\ (DequeueEmpty(e) \/ \E fn : DequeueNext(e, fn))
    BY <1>1, DequeueFacts
  <1>3. UNCHANGED <<finish, animations, timers, calls, fate>>
    BY DEF Dequeue
  <1>4. AnimationsOK' /\ AnimationsAge
    BY <1>3, AnimationsStay
  <1>5. ListOK(Rest, animations')
    BY <1>2, <1>4, AgendaAges
  <1>6. QueuesOK /\ OthersOK
    BY TypesParts
  <1>7. HooksOf(e) \in Hooks
    BY <1>2, HooksFacts
  <1>8. \A f \in Elements \ {e} : QueueOK(queue'[f]) /\ HooksOK(f)'
    BY <1>2, <1>6, HooksOKAfter DEF OnlyOf, QueuesOK
  <1>9. CASE DequeueEmpty(e)
    <2>1. queue'[e] = <<>> /\ Emptied(e, HooksOf(e)) /\ agenda' = Rest /\ timeouts' = timeouts
      BY <1>9 DEF DequeueEmpty
    <2>2. HooksOK(e)'
      BY <1>7, <2>1, HooksOKAfter DEF Emptied
    <2>3. QueueOK(<<>>)
      BY ShortIsSeq DEF QueueOK
    <2>4. QueuesOK'
      BY <1>2, <1>3, <1>6, <1>8, <2>1, <2>2, <2>3 DEF QueuesOK, OnlyOf
    <2>5. IsSeq(promises')
      BY <2>1, PromisesAfter DEF Emptied
    <2>6. OthersOK'
      BY <1>3, <1>6, <2>5 DEF OthersOK
    <2> QED
      BY <1>4, <1>5, <2>1, <2>4, <2>6, TypesParts
  <1>10. CASE \E fn : DequeueNext(e, fn)
    <2>1. PICK fn : DequeueNext(e, fn)
      BY <1>10
    <2>2. HooksOK(e)' /\ QueueOK(queue'[e]) /\ promises' = promises
      BY <2>1, HooksOKAfter DEF DequeueNext
    <2>3. timeouts' \subseteq Nat \X Elements
      BY <1>2, <1>6, <2>1 DEF DequeueNext, QueuesOK, ItemOK
    <2>4. QueuesOK'
      BY <1>2, <1>3, <1>6, <1>8, <2>2, <2>3 DEF QueuesOK, OnlyOf
    <2>5. OthersOK'
      BY <1>3, <1>6, <2>2 DEF OthersOK
    <2>6. ListOK(agenda', animations')
      <3>1. ThingIn(AnimateDo(e, fn, "queued"), animations')
        BY <1>2, AnimateMade
      <3>2. ThingIn(Run(e), animations') /\ ThingIn(DequeueDo(e), animations')
        BY <1>2, ThingsMade
      <3>3. ListOK(Cons(AnimateDo(e, fn, "queued"), Rest), animations')
        BY <1>5, <3>1, ListCons
      <3>4. ListOK(Cons(DequeueDo(e), Rest), animations')
        BY <1>5, <3>2, ListCons
      <3>5. ListOK(Cons(Run(e), Cons(DequeueDo(e), Rest)), animations')
        BY <3>2, <3>4, ListCons
      <3>6. \/ agenda' = Cons(AnimateDo(e, fn, "queued"), Rest)
            \/ agenda' = Cons(Run(e), Cons(DequeueDo(e), Rest))
            \/ agenda' = Rest
        BY <2>1 DEF DequeueNext
      <3> QED
        BY <1>5, <3>3, <3>5, <3>6
    <2> QED
      BY <1>4, <2>4, <2>5, <2>6, TypesParts
  <1> QED
    BY <1>2, <1>9, <1>10

LEMMA UnqueueTypes ==
  ASSUME Types, Unqueue
  PROVE  Types'
  <1>1. PICK e : e = Todo.e
    OBVIOUS
  <1>2. /\ e \in Elements /\ agenda # <<>> /\ agenda' = Rest
        /\ DOMAIN hooks' = Elements /\ \A f \in Elements \ {e} : hooks'[f] = hooks[f]
        /\ \E h : UnqueueAfter(e, h)
    BY <1>1, UnqueueFacts
  <1>3. UNCHANGED <<queue, finish, animations, timers, timeouts, calls, fate>>
    BY DEF Unqueue, clock
  <1>4. AnimationsOK' /\ AnimationsAge
    BY <1>3, AnimationsStay
  <1>5. ListOK(agenda', animations')
    BY <1>2, <1>4, AgendaAges
  <1>6. QueuesOK /\ OthersOK
    BY TypesParts
  <1>7. PICK h : UnqueueAfter(e, h)
    BY <1>2
  <1>8. HooksOK(e)' /\ (Emptied(e, h) \/ promises' = promises)
    BY <1>7, HooksOKAfter DEF UnqueueAfter, Emptied
  <1>9. \A f \in Elements \ {e} : HooksOK(f)'
    BY <1>2, <1>6, HooksOKAfter DEF QueuesOK
  <1>10. QueuesOK'
    BY <1>2, <1>3, <1>6, <1>8, <1>9 DEF QueuesOK
  <1>11. IsSeq(promises')
    BY <1>8, PromisesAfter DEF Emptied
  <1>12. OthersOK'
    BY <1>3, <1>6, <1>11 DEF OthersOK
  <1> QED
    BY <1>4, <1>5, <1>10, <1>12, TypesParts

LEMMA AnimateTypes ==
  ASSUME Types, Animate
  PROVE  Types'
  <1>1. PICK e : e = Todo.e
    OBVIOUS
  <1>2. /\ e \in Elements /\ agenda # <<>>
        /\ DOMAIN hooks' = Elements /\ (\A f \in Elements \ {e} : hooks'[f] = hooks[f])
        /\ AnimateHooks(e, Todo.how = "queued") /\ FateKeeps
        /\ \E n, a : AnimationBegins(e, n, a)
    BY <1>1, AnimateFacts
  <1>3. UNCHANGED <<queue, finish, timeouts, promises, calls>>
    BY Zenon DEF Animate
  <1>4. PICK n, a : AnimationBegins(e, n, a)
    BY <1>2
  <1>5. QueuesOK /\ OthersOK /\ AnimationsOK
    BY TypesParts
  <1>6. AnimationsAge /\ n \in DOMAIN animations' /\ animations'[n].e = e
    BY <1>4 DEF AnimationsAge, AnimationBegins
  <1>7. AnimationsOK'
    <2>1. IsSeq(Append(timers, n)) /\ Items(Append(timers, n)) = Items(timers) \cup {n}
      BY <1>5, AppendIsSeq DEF AnimationsOK
    <2>2. IsSeq(timers') /\ Items(timers') \subseteq Items(timers) \cup {n}
      BY <1>4, <1>5, <2>1 DEF AnimationBegins, AnimationsOK
    <2> QED
      BY <1>4, <1>5, <2>2 DEF AnimationBegins, AnimationsOK
  <1>8. QueuesOK'
    <2>1. HooksOK(e)'
      BY <1>2, <1>5, HooksOKAfter DEF AnimateHooks, QueuesOK
    <2>2. \A f \in Elements \ {e} : HooksOK(f)'
      BY <1>2, <1>5, HooksOKAfter DEF QueuesOK
    <2> QED
      BY <1>2, <1>3, <1>5, <2>1, <2>2 DEF QueuesOK
  <1>9. OthersOK'
    BY <1>2, <1>3, <1>5 DEF OthersOK, FateKeeps
  <1>10. ListOK(Rest, animations')
    BY <1>2, <1>6, AgendaAges
  <1>11. ListOK(agenda', animations')
    <2>1. PICK goal :
            \/ agenda' = Cons(AnimatedDo(e, n, goal), Rest)
            \/ agenda' = Cons(Run(e), Cons(DequeueDo(e), Cons(AnimatedDo(e, n, goal), Rest)))
            \/ agenda' = Cons(UnqueueDo(e, n), Cons(Run(e), Cons(AnimatedDo(e, n, goal), Rest)))
      BY <1>4 DEF AnimationBegins
    <2>2. ThingIn(AnimatedDo(e, n, goal), animations')
      BY <1>2, <1>6, DoMade DEF AnimatedDo
    <2>3. ThingIn(Run(e), animations') /\ ThingIn(DequeueDo(e), animations')
          /\ ThingIn(UnqueueDo(e, n), animations')
      BY <1>2, <1>6, ThingsMade
    <2>4. PICK s : s = Cons(AnimatedDo(e, n, goal), Rest)
      OBVIOUS
    <2>5. ListOK(s, animations')
      BY <1>10, <2>2, <2>4, ListCons
    <2>6. ListOK(Cons(DequeueDo(e), s), animations') /\ ListOK(Cons(Run(e), s), animations')
      BY <2>3, <2>5, ListCons
    <2>7. ListOK(Cons(Run(e), Cons(DequeueDo(e), s)), animations')
      BY <2>3, <2>6, ListCons
    <2>8. ListOK(Cons(UnqueueDo(e, n), Cons(Run(e), s)), animations')
      BY <2>3, <2>6, ListCons
    <2> QED
      BY <2>1, <2>4, <2>5, <2>7, <2>8
  <1> QED
    BY <1>7, <1>8, <1>9, <1>11, TypesParts

LEMMA FateStays ==
  ASSUME Types, FateKeeps, promises' = promises, calls' = calls
  PROVE  OthersOK'
  BY OthersStay DEF FateKeeps, Types

LEMMA AnimatedTypes ==
  ASSUME Types, Animated
  PROVE  Types'
  <1>1. UNCHANGED <<queue, hooks, finish, timeouts, timers, promises, calls>>
    BY Zenon DEF Animated, data, clock
  <1>2. QueuesOK' /\ OthersOK'
    BY <1>1, QueuesStay, AnimatedFacts, FateStays
  <1>3. /\ agenda # <<>>
        /\ \/ Settled(Todo.a, "resolved") /\ AfterSettled(Todo.a, "resolved", Rest)
           \/ animations' = animations /\ agenda' = Rest
    BY AnimatedFacts
  <1>4. CASE Settled(Todo.a, "resolved") /\ AfterSettled(Todo.a, "resolved", Rest)
    <2>1. AnimationsKeep
      BY <1>4 DEF Settled
    <2>2. AnimationsAge /\ AnimationsOK'
      BY <1>1, <2>1, AnimationsKept
    <2>3. ListOK(Rest, animations')
      BY <1>3, <2>2, AgendaAges
    <2>4. ListOK(agenda', animations')
      BY <1>4, <2>3, SettledMade
    <2> QED
      BY <1>2, <2>2, <2>4, TypesParts
  <1>5. CASE animations' = animations /\ agenda' = Rest
    <2>1. AnimationsAge /\ AnimationsOK'
      BY <1>1, <1>5, AnimationsStay
    <2>2. ListOK(agenda', animations')
      BY <1>3, <1>5, <2>1, AgendaAges
    <2> QED
      BY <1>2, <2>1, <2>2, TypesParts
  <1> QED
    BY <1>3, <1>4, <1>5

LEMMA TickTimerTypes ==
  ASSUME Types, TickTimer
  PROVE  Types'
  <1>1. UNCHANGED <<queue, hooks, finish, timeouts, promises, calls, fate>>
    BY Zenon DEF TickTimer, data
  <1>2. QueuesOK' /\ OthersOK'
    BY <1>1, QueuesStay, SameFate, FateStays
  <1>3. PICK i : i = Todo.i
    OBVIOUS
  <1>4. /\ agenda # <<>> /\ i \in 1..Len(timers)
        /\ timers[i] \in DOMAIN animations
        /\ TimerStopped(i) \/ TimerGoesOn(i) \/ TimerEnds(i)
    BY <1>3, TickTimerFacts
  <1>5. i \in Nat \ {0} /\ i + 1 \in Nat \ {0}
    BY <1>4
  <1>6. AnimationsKeep
    BY <1>4 DEF TimerStopped, TimerGoesOn, TimerEnds, StatesKeep, Settled
  <1>7. AnimationsAge /\ AnimationsOK'
    BY <1>4, <1>6, AnimationsKept DEF TimerStopped, TimerGoesOn, TimerEnds
  <1>8. ListOK(Rest, animations')
    BY <1>4, <1>7, AgendaAges
  <1>9. PICK n : n = timers[i]
    OBVIOUS
  <1>10. animations[n].e \in Elements /\ n \in DOMAIN animations' /\ animations'[n].e = animations[n].e
    BY <1>4, <1>7, <1>9 DEF AnimationsAge, Types, AnimationOK
  <1>11. ListOK(agenda', animations')
    <2>1. PICK e : e = animations[n].e
      OBVIOUS
    <2>2. ThingIn(TickAt(i), animations') /\ ThingIn(TickedDo(e, n, i), animations')
      BY <1>5, <1>10, <2>1, ThingsMade
    <2>3. ThingIn(TickAt(i + 1), animations')
      BY <1>5, <1>10, ThingsMade
    <2>4. CASE TimerStopped(i) \/ TimerGoesOn(i)
      <3>1. agenda' = Cons(TickAt(i), Rest) \/ agenda' = Cons(TickAt(i + 1), Rest)
        BY <2>4 DEF TimerStopped, TimerGoesOn
      <3>2. ListOK(Cons(TickAt(i), Rest), animations') /\ ListOK(Cons(TickAt(i + 1), Rest), animations')
        BY <1>8, <2>2, <2>3, ListCons
      <3> QED
        BY <3>1, <3>2
    <2>5. CASE TimerEnds(i)
      <3>1. PICK s : s = Cons(TickedDo(e, n, i), Rest)
        OBVIOUS
      <3>2. ListOK(s, animations')
        BY <1>8, <2>2, <3>1, ListCons
      <3>3. Settled(n, "resolved") /\ (AfterSettled(n, "resolved", s) \/ agenda' = s)
        BY <1>9, <2>1, <2>5, <3>1 DEF TimerEnds
      <3> QED
        BY <3>2, <3>3, SettledMade
    <2> QED
      BY <1>4, <2>4, <2>5
  <1> QED
    BY <1>2, <1>7, <1>11, TypesParts

LEMMA TickedTypes ==
  ASSUME Types, Ticked
  PROVE  Types'
  <1>1. UNCHANGED <<queue, hooks, finish, animations, timeouts, promises, calls>>
    BY Zenon DEF Ticked, data
  <1>2. PICK i : i = Todo.i
    OBVIOUS
  <1>3. /\ agenda # <<>> /\ FateKeeps /\ i \in Nat \ {0}
        /\ \/ /\ i \in 1..Len(timers) /\ timers' = RemoveAt(timers, i)
              /\ agenda' = Cons(TickAt(i), Rest)
           \/ timers' = timers /\ agenda' = Cons(TickAt(i + 1), Rest)
    BY <1>2, TickedFacts
  <1>4. QueuesOK' /\ OthersOK'
    BY <1>1, <1>3, QueuesStay, FateStays
  <1>5. AnimationsKeep
    BY <1>1, SameAnimations DEF StatesKeep
  <1>6. AnimationsAge /\ AnimationsOK'
    BY <1>3, <1>5, AnimationsKept
  <1>7. ListOK(Rest, animations')
    BY <1>3, <1>6, AgendaAges
  <1>8. \A e \in Elements, j \in Nat \ {0} : ThingIn(TickAt(j), animations')
    BY ThingsMade
  <1>9. \E e : e \in Elements
    BY <1>3, RestFacts, TickedFacts DEF ThingOK, ThingIn
  <1>10. ThingIn(TickAt(i), animations') /\ ThingIn(TickAt(i + 1), animations')
    BY <1>3, <1>8, <1>9
  <1>11. ListOK(Cons(TickAt(i), Rest), animations') /\ ListOK(Cons(TickAt(i + 1), Rest), animations')
    BY <1>7, <1>10, ListCons
  <1> QED
    BY <1>3, <1>4, <1>6, <1>11, TypesParts

LEMMA TickTypes ==
  ASSUME Types, Tick \/ TickEnds \/ Return \/ FinishEnds
  PROVE  Types'
  <1>1. UNCHANGED <<queue, hooks, timeouts, timers, promises, calls, fate>> /\ finish' \subseteq finish
    <2>1. CASE Tick
      BY <2>1, Zenon DEF Tick, data, clock
    <2>2. CASE TickEnds
      BY <2>2, Zenon DEF TickEnds, data
    <2>3. CASE Return
      BY <2>3, Zenon DEF Return, data, clock
    <2>4. CASE FinishEnds
      <3>1. finish' = finish \ {Todo.e} /\ UNCHANGED <<queue, hooks, clock, promises, calls, fate>>
        BY <2>4, Zenon DEF FinishEnds
      <3> QED
        BY <3>1 DEF clock
    <2> QED
      BY <2>1, <2>2, <2>3, <2>4
  <1>2. QueuesOK'
    BY <1>1, TypesParts DEF QueuesOK, HooksOK
  <1>3. OthersOK'
    BY <1>1, SameFate, FateStays
  <1>4. AnimationsKeep
    <2>1. CASE TickEnds
      BY <2>1, TickEndsFacts DEF StatesKeep
    <2>2. CASE ~TickEnds
      <3>1. animations' = animations
        BY <2>2, Zenon DEF Tick, Return, FinishEnds
      <3> QED
        BY <3>1, SameAnimations DEF StatesKeep
    <2> QED
      BY <2>1, <2>2
  <1>5. AnimationsAge /\ AnimationsOK'
    BY <1>1, <1>4, AnimationsKept
  <1>6. CASE Tick
    <2>1. agenda' = Cons(TickAt(1), agenda)
      BY <1>6, TickFacts
    <2>2. ThingIn(TickAt(1), animations')
      BY SimpleThings DEF ThingIn, Ops
    <2>3. ListOK(agenda, animations')
      BY <1>5, AgendaAges
    <2>4. ListOK(agenda', animations')
      BY <2>1, <2>2, <2>3, ListCons
    <2> QED
      BY <1>2, <1>3, <1>5, <2>4, TypesParts
  <1>7. CASE TickEnds \/ Return \/ FinishEnds
    <2>1. agenda # <<>> /\ agenda' = Rest
      BY <1>7 DEF TickEnds, Return, FinishEnds, IsNext
    <2>2. ListOK(agenda', animations')
      BY <1>5, <2>1, AgendaAges
    <2> QED
      BY <1>2, <1>3, <1>5, <2>2, TypesParts
  <1> QED
    BY <1>6, <1>7

LEMMA TimeoutTypes ==
  ASSUME Types, TimeoutFires
  PROVE  Types'
  <1>1. UNCHANGED <<queue, hooks, finish, animations, timers, promises, calls, fate>>
    BY Zenon DEF TimeoutFires, data
  <1>2. PICK e \in Elements, t \in timeouts : timeouts' = timeouts \ {t} /\ agenda' = Cons(DequeueDo(e), agenda)
    BY TimeoutFacts
  <1>3. QueuesOK'
    BY <1>1, <1>2, TypesParts DEF QueuesOK, HooksOK
  <1>4. OthersOK'
    BY <1>1, SameFate, FateStays
  <1>5. AnimationsAge /\ AnimationsOK'
    BY <1>1, AnimationsStay
  <1>6. ListOK(agenda, animations')
    BY <1>5, AgendaAges
  <1>7. ThingIn(DequeueDo(e), animations')
    BY ThingsMade
  <1>8. ListOK(agenda', animations')
    BY <1>2, <1>6, <1>7, ListCons
  <1> QED
    BY <1>3, <1>4, <1>5, <1>8, TypesParts

LEMMA StopBeginsTypes ==
  ASSUME Types, StopBegins
  PROVE  Types'
  <1>1. UNCHANGED <<queue, finish, animations, timers, promises, calls, fate>>
    BY Zenon DEF StopBegins
  <1>2. PICK e : e = Todo.e
    OBVIOUS
  <1>3. /\ e \in Elements /\ agenda # <<>> /\ Todo.how \in {"rejected", "resolved"}
        /\ DOMAIN hooks' = Elements /\ (\A f \in Elements \ {e} : hooks'[f] = hooks[f])
        /\ timeouts' = timeouts \ Mine(e)
        /\ hooks'[e] = <<>> \/ \E h \in Hooks : hooks'[e] = <<h>>
        /\ \E items : /\ IsSeq(items)
                      /\ agenda' = Cons(HaltAt(e, Len(timers), Todo.how, items), Rest)
    <2>1. e \in Elements /\ agenda # <<>> /\ Todo.how \in {"rejected", "resolved"}
      BY <1>2, StopBeginsFacts
    <2>2. DOMAIN hooks' = Elements /\ \A f \in Elements \ {e} : hooks'[f] = hooks[f]
      BY <1>2, StopBeginsFacts
    <2>3. timeouts' = timeouts \ Mine(e)
      BY <1>2, StopBeginsFacts
    <2>4. hooks'[e] = <<>> \/ \E h \in Hooks : hooks'[e] = <<h>>
      BY <1>2, StopBeginsFacts
    <2>5. \E items : /\ IsSeq(items)
                     /\ agenda' = Cons(HaltAt(e, Len(timers), Todo.how, items), Rest)
      BY <1>2, StopBeginsFacts
    <2> QED
      BY <2>1, <2>2, <2>3, <2>4, <2>5
  <1>4. QueuesOK
    BY TypesParts
  <1>5. QueuesOK'
    <2>1. HooksOK(e)' /\ \A f \in Elements \ {e} : HooksOK(f)'
      BY <1>3, <1>4, HooksOKAfter DEF QueuesOK
    <2> QED
      BY <1>1, <1>3, <1>4, <2>1 DEF QueuesOK
  <1>6. OthersOK'
    BY <1>1, SameFate, FateStays
  <1>7. AnimationsAge /\ AnimationsOK'
    BY <1>1, AnimationsStay
  <1>8. ListOK(Rest, animations')
    BY <1>3, <1>7, AgendaAges
  <1>9. PICK items : IsSeq(items) /\ agenda' = Cons(HaltAt(e, Len(timers), Todo.how, items), Rest)
    BY <1>3
  <1>10. ThingIn(HaltAt(e, Len(timers), Todo.how, items), animations')
    <2>1. Len(timers) \in Nat
      BY IsSeqFacts DEF Types
    <2>2. PICK how : how = Todo.how
      OBVIOUS
    <2>3. ThingIn(Do("halt", e, 0, Len(timers), how, items), animations')
      BY <1>3, <1>9, <2>1, <2>2, DoMade
    <2> QED
      BY <2>2, <2>3 DEF HaltAt
  <1>11. ListOK(agenda', animations')
    BY <1>8, <1>9, <1>10, ListCons
  <1> QED
    BY <1>5, <1>6, <1>7, <1>11, TypesParts

\* What is on the agenda of a loop.
LEMMA LoopOK ==
  ASSUME Types, agenda # <<>>, NEW x, x = Todo, x.op \in {"halt", "splice"}
  PROVE  /\ x.e \in Elements /\ x.how \in {"rejected", "resolved", "finish"} /\ IsSeq(x.items)
         /\ x.i \in Nat /\ (x.op = "splice" => x.a \in DOMAIN animations /\ animations[x.a].e = x.e)
  BY RestFacts DEF ThingOK, ThingIn

LEMMA HaltTimerTypes ==
  ASSUME Types, HaltTimer
  PROVE  Types'
  <1>1. UNCHANGED <<queue, hooks, finish, timeouts, timers, promises, calls>>
    BY Zenon DEF HaltTimer, data, clock
  <1>2. QueuesOK'
    BY <1>1, QueuesStay
  <1>3. PICK x : x = Todo
    OBVIOUS
  <1>4. PICK i : i = Todo.i
    OBVIOUS
  <1>5. /\ agenda # <<>> /\ x.op = "halt" /\ x.e \in Elements /\ i > 0
        /\ HaltFails \/ HaltPasses(x, i) \/ \E n, how : HaltStops(x, i, n, how)
    BY <1>3, <1>4, HaltTimerFacts
  <1>6. x.how \in {"rejected", "resolved", "finish"} /\ IsSeq(x.items) /\ i \in Nat
    BY <1>3, <1>4, <1>5, LoopOK
  <1>7. CASE HaltFails
    <2>1. AnimationsAge /\ AnimationsOK'
      BY <1>1, <1>7, AnimationsStay DEF HaltFails
    <2>2. ListOK(<<>>, animations')
      BY ShortIsSeq DEF ListOK
    <2>3. OthersOK'
      BY <1>1, <1>7, OthersStay DEF HaltFails
    <2> QED
      BY <1>2, <1>7, <2>1, <2>2, <2>3, TypesParts DEF HaltFails
  <1>8. CASE HaltPasses(x, i)
    <2>1. /\ i \in 1..Len(timers) /\ animations' = animations /\ FateKeeps
          /\ agenda' = Cons(Do("halt", x.e, x.a, i - 1, x.how, x.items), Rest)
      BY <1>8 DEF HaltPasses
    <2>2. AnimationsAge /\ AnimationsOK'
      BY <1>1, <2>1, AnimationsStay
    <2>3. OthersOK'
      BY <1>1, <2>1, FateStays
    <2>4. ListOK(Rest, animations')
      BY <1>5, <2>2, AgendaAges
    <2>5. i - 1 \in Nat
      BY <2>1
    <2>6. ThingIn(Do("halt", x.e, x.a, i - 1, x.how, x.items), animations')
      BY <1>5, <1>6, <2>5, DoMade
    <2>7. ListOK(agenda', animations')
      BY <2>1, <2>4, <2>6, ListCons
    <2> QED
      BY <1>2, <2>2, <2>3, <2>7, TypesParts
  <1>9. CASE \E n, how : HaltStops(x, i, n, how)
    <2>1. PICK n, how : HaltStops(x, i, n, how)
      BY <1>9
    <2>2. /\ i \in 1..Len(timers) /\ n \in DOMAIN animations /\ animations[n].e = x.e
          /\ Settled(n, how) /\ FateKeeps
      BY <2>1 DEF HaltStops
    <2>3. PICK s : s = Cons(Do("splice", x.e, n, i, x.how, x.items), Rest)
      OBVIOUS
    <2>4. AfterSettled(n, how, s)
      BY <2>1, <2>3 DEF HaltStops
    <2>5. AnimationsKeep
      BY <2>2 DEF Settled
    <2>6. AnimationsAge /\ AnimationsOK'
      BY <1>1, <2>5, AnimationsKept
    <2>7. OthersOK'
      BY <1>1, <2>2, FateStays
    <2>8. ListOK(Rest, animations')
      BY <1>5, <2>6, AgendaAges
    <2>9. n \in DOMAIN animations' /\ animations'[n].e = x.e /\ i \in Nat \ {0}
      BY <1>5, <1>6, <2>2, <2>6 DEF AnimationsAge
    <2>10. ThingIn(Do("splice", x.e, n, i, x.how, x.items), animations')
      BY <1>5, <1>6, <2>9, DoMade
    <2>11. ListOK(s, animations')
      BY <2>3, <2>8, <2>10, ListCons
    <2>12. ListOK(agenda', animations')
      BY <2>2, <2>4, <2>11, SettledMade
    <2> QED
      BY <1>2, <2>6, <2>7, <2>12, TypesParts
  <1> QED
    BY <1>5, <1>7, <1>8, <1>9

LEMMA SpliceTypes ==
  ASSUME Types, Splice
  PROVE  Types'
  <1>1. UNCHANGED <<queue, hooks, finish, animations, timeouts, promises, calls>>
    BY Zenon DEF Splice, data
  <1>2. QueuesOK'
    BY <1>1, QueuesStay
  <1>3. PICK x : x = Todo
    OBVIOUS
  <1>4. PICK i : i = Todo.i
    OBVIOUS
  <1>5. /\ agenda # <<>> /\ x.op = "splice" /\ x.e \in Elements /\ i \in Nat \ {0}
        /\ agenda' = Cons(Do("halt", x.e, x.a, i - 1, x.how, x.items), Rest)
    BY <1>3, <1>4, SpliceFacts
  <1>6. \/ i \in 1..Len(timers) /\ timers' = RemoveAt(timers, i)
        \/ timers' = timers
    BY <1>3, <1>4, SpliceFacts
  <1>7. DOMAIN fate' = DOMAIN fate /\ fate'.wronged \in BOOLEAN
    BY <1>3, <1>4, SpliceFacts
  <1>8. x.how \in {"rejected", "resolved", "finish"} /\ IsSeq(x.items)
    BY <1>3, <1>5, LoopOK
  <1>9. AnimationsKeep
    BY <1>1, SameAnimations DEF StatesKeep
  <1>10. AnimationsAge /\ AnimationsOK'
    BY <1>6, <1>9, AnimationsKept
  <1>11. OthersOK'
    BY <1>1, <1>7, OthersStay
  <1>12. ListOK(Rest, animations')
    BY <1>5, <1>10, AgendaAges
  <1>13. i - 1 \in Nat
    BY <1>5
  <1>14. ThingIn(Do("halt", x.e, x.a, i - 1, x.how, x.items), animations')
    BY <1>5, <1>8, <1>13, DoMade
  <1>15. ListOK(agenda', animations')
    BY <1>5, <1>12, <1>14, ListCons
  <1> QED
    BY <1>2, <1>10, <1>11, <1>15, TypesParts

LEMMA StopEndsTypes ==
  ASSUME Types, StopEnds
  PROVE  Types'
  <1>1. UNCHANGED <<queue, hooks, finish, animations, timeouts, timers, promises, calls>>
    BY Zenon DEF StopEnds, data, clock
  <1>2. QueuesOK'
    BY <1>1, QueuesStay
  <1>3. PICK x : x = Todo
    OBVIOUS
  <1>4. /\ agenda # <<>> /\ x.e \in Elements
        /\ DOMAIN fate' = DOMAIN fate /\ fate'.wronged = fate.wronged
    BY <1>3, StopEndsFacts
  <1>5. agenda' = Cons(DequeueDo(x.e), Rest) \/ agenda' = Rest
    BY <1>3, StopEndsFacts
  <1>6. AnimationsAge /\ AnimationsOK'
    BY <1>1, AnimationsStay
  <1>7. OthersOK'
    BY <1>1, <1>4, OthersStay DEF Types
  <1>8. ListOK(Rest, animations')
    BY <1>4, <1>6, AgendaAges
  <1>9. ThingIn(DequeueDo(x.e), animations')
    BY <1>4, ThingsMade
  <1>10. ListOK(agenda', animations')
    BY <1>5, <1>8, <1>9, ListCons
  <1> QED
    BY <1>2, <1>6, <1>7, <1>10, TypesParts

LEMMA FinishQueueTypes ==
  ASSUME Types, FinishQueue
  PROVE  Types'
  <1>1. UNCHANGED <<queue, hooks, finish, animations, timeouts, timers, promises, calls, fate>>
    BY Zenon DEF FinishQueue, data, clock
  <1>2. QueuesOK' /\ OthersOK'
    BY <1>1, QueuesStay, SameFate, FateStays
  <1>3. PICK x : x = Todo
    OBVIOUS
  <1>4. agenda # <<>> /\ x.e \in Elements
    BY <1>3, FinishQueueFacts
  <1>5. PICK items, item : /\ IsSeq(items)
                           /\ LET y == Do("halt", x.e, x.a, 0, "finish", items)
                              IN  \/ agenda' = Cons(y, Rest)
                                  \/ agenda' = Cons(AnimateDo(x.e, item, "queued"), Cons(y, Rest))
    BY <1>3, FinishQueueFacts
  <1>6. PICK y : y = Do("halt", x.e, x.a, 0, "finish", items)
    OBVIOUS
  <1>7. AnimationsAge /\ AnimationsOK'
    BY <1>1, AnimationsStay
  <1>8. ListOK(Rest, animations')
    BY <1>4, <1>7, AgendaAges
  <1>9. ThingIn(y, animations')
    <2>1. 0 \in Nat /\ "finish" \in {"rejected", "resolved", "finish"}
      OBVIOUS
    <2>2. ThingIn(Do("halt", x.e, x.a, 0, "finish", items), animations')
      BY <1>4, <1>5, <2>1, DoMade
    <2> QED
      BY <1>6, <2>2
  <1>10. ThingIn(AnimateDo(x.e, item, "queued"), animations')
    BY <1>4, AnimateMade
  <1>11. ListOK(Cons(y, Rest), animations')
    BY <1>8, <1>9, ListCons
  <1>12. ListOK(Cons(AnimateDo(x.e, item, "queued"), Cons(y, Rest)), animations')
    BY <1>10, <1>11, ListCons
  <1>13. ListOK(agenda', animations')
    BY <1>5, <1>6, <1>11, <1>12
  <1> QED
    BY <1>2, <1>7, <1>13, TypesParts

LEMMA CallQueueTypes ==
  ASSUME Types, NEW e \in Elements, NEW item, ItemOK(item), CallQueue(e, item)
  PROVE  Types'
  <1>1. UNCHANGED <<finish, animations, timers, timeouts, promises>>
    BY Zenon DEF CallQueue, clock
  <1>2. CallQueueAfter(e, item)
    BY CallQueueFacts
  <1>3. /\ Called /\ OnlyOf(e) /\ QueueOK(queue'[e]) /\ hooks'[e] = <<HooksOf(e)>>
        /\ DOMAIN fate' = DOMAIN fate /\ fate'.wronged = fate.wronged
    BY <1>2 DEF CallQueueAfter, FateMoves
  <1>4. agenda' = Cons(DequeueDo(e), agenda) \/ agenda' = agenda
    BY <1>2 DEF CallQueueAfter
  <1>5. QueuesOK /\ HooksOf(e) \in Hooks
    BY TypesParts, HooksFacts
  <1>6. HooksOK(e)' /\ \A f \in Elements \ {e} : HooksOK(f)'
    BY <1>3, <1>5, HooksOKAfter DEF QueuesOK, OnlyOf
  <1>7. QueuesOK'
    BY <1>1, <1>3, <1>5, <1>6 DEF QueuesOK, OnlyOf
  <1>8. OthersOK'
    BY <1>1, <1>3, OthersStay DEF Types, Called
  <1>9. AnimationsAge /\ AnimationsOK'
    BY <1>1, AnimationsStay
  <1>10. ListOK(agenda, animations') /\ ThingIn(DequeueDo(e), animations')
    BY <1>9, AgendaAges, ThingsMade
  <1>11. ListOK(Cons(DequeueDo(e), agenda), animations')
    BY <1>10, ListCons
  <1>12. ListOK(agenda', animations')
    BY <1>4, <1>10, <1>11
  <1> QED
    BY <1>7, <1>8, <1>9, <1>12, TypesParts

\* The calls that leave the hooks alone.
LEMMA CallTypes ==
  ASSUME Types, NEW e \in Elements, Called, UNCHANGED <<hooks, animations, timers, promises>>,
         finish' \subseteq finish \cup {e}, timeouts' \subseteq timeouts,
         DOMAIN queue' = Elements, \A f \in Elements \ {e} : queue'[f] = queue[f],
         queue'[e] = <<>> \/ queue'[e] = queue[e],
         DOMAIN fate' = DOMAIN fate, fate'.wronged = fate.wronged,
         ListOK(agenda', animations')
  PROVE  Types'
  <1>1. QueuesOK
    BY TypesParts
  <1>2. QueueOK(<<>>)
    BY ShortIsSeq DEF QueueOK
  <1>3. QueuesOK'
    BY <1>1, <1>2 DEF QueuesOK, HooksOK
  <1>4. OthersOK'
    BY OthersStay DEF Types, Called
  <1>5. AnimationsOK'
    BY AnimationsStay
  <1> QED
    BY <1>3, <1>4, <1>5, TypesParts

LEMMA UserTypes ==
  ASSUME Types, User
  PROVE  Types'
  <1>1. ASSUME animations' = animations, timers' = timers
        PROVE  ListOK(agenda, animations')
    BY <1>1, AnimationsStay, AgendaAges
  <1>2. ASSUME NEW e \in Elements, NEW goal, NEW duration, NEW queued \in BOOLEAN,
               CallAnimate(e, goal, duration, queued)
        PROVE  Types'
    <2>1. CASE \E item : ItemOK(item) /\ item.is = "animation" /\ CallQueue(e, item)
      BY <2>1, CallQueueTypes
    <2>2. CASE /\ Called /\ UNCHANGED <<data, style, animations, clock, promises>>
               /\ FateMoves(e, queued)
               /\ \E item, how : /\ agenda' = Cons(AnimateDo(e, item, how), agenda)
                                 /\ how = "queued" <=> queued
      <3>1. PICK item, how : agenda' = Cons(AnimateDo(e, item, how), agenda)
        BY <2>2
      <3>2. UNCHANGED <<queue, hooks, finish, animations, timers, timeouts, promises>>
        BY <2>2 DEF data, clock
      <3>3. ListOK(agenda, animations') /\ ThingIn(AnimateDo(e, item, how), animations')
        BY <1>1, <3>2, AnimateMade
      <3>4. ListOK(agenda', animations')
        BY <3>1, <3>3, ListCons
      <3>5. DOMAIN queue = Elements
        BY DEF Types
      <3> QED
        BY <2>2, <3>2, <3>4, <3>5, CallTypes DEF FateMoves
    <2> QED
      BY <1>2, <2>1, <2>2, CallAnimateFacts
  <1>3. ASSUME NEW e \in Elements, NEW clear \in BOOLEAN, CallDequeue(e, clear)
        PROVE  Types'
    <2>1. UNCHANGED <<hooks, finish, animations, timers, timeouts, promises>>
      BY <1>3, Zenon DEF CallDequeue, clock
    <2>2. /\ Called /\ agenda' = Cons(DequeueDo(e), agenda)
          /\ DOMAIN queue' = Elements /\ (\A f \in Elements \ {e} : queue'[f] = queue[f])
          /\ queue'[e] = (IF clear THEN <<>> ELSE queue[e])
          /\ FateMoves(e, TRUE)
      BY <1>3, CallDequeueFacts
    <2>3. ListOK(agenda, animations') /\ ThingIn(DequeueDo(e), animations')
      BY <1>1, <2>1, ThingsMade
    <2>4. ListOK(agenda', animations')
      BY <2>2, <2>3, ListCons
    <2> QED
      BY <2>1, <2>2, <2>4, CallTypes DEF FateMoves
  <1>4. ASSUME NEW e \in Elements, NEW clear \in BOOLEAN, NEW gotoEnd, CallStop(e, clear, gotoEnd)
        PROVE  Types'
    <2>1. UNCHANGED <<hooks, finish, animations, timers, timeouts, promises>>
      BY <1>4, Zenon DEF CallStop, clock
    <2>2. /\ Called
          /\ DOMAIN queue' = Elements /\ (\A f \in Elements \ {e} : queue'[f] = queue[f])
          /\ queue'[e] = (IF clear THEN <<>> ELSE queue[e])
          /\ DOMAIN fate' = DOMAIN fate /\ fate'.wronged = fate.wronged
      BY <1>4, CallStopFacts DEF FateMoves
    <2>3. PICK how \in {"resolved", "rejected"} :
              agenda' = IF clear THEN Cons(DequeueDo(e), Cons(StopDo(e, how), agenda))
                        ELSE Cons(StopDo(e, how), agenda)
      BY <1>4, CallStopFacts
    <2>4. ListOK(agenda, animations') /\ ThingIn(DequeueDo(e), animations')
      BY <1>1, <2>1, ThingsMade
    <2>5. ThingIn(StopDo(e, how), animations')
      <3>1. \A i, a, items : ThingIn(Do("stop", e, a, i, how, items), animations')
        BY DoMade
      <3> QED
        BY <3>1, Zenon DEF StopDo
    <2>6. ListOK(Cons(StopDo(e, how), agenda), animations')
      BY <2>4, <2>5, ListCons
    <2>7. ListOK(Cons(DequeueDo(e), Cons(StopDo(e, how), agenda)), animations')
      BY <2>4, <2>6, ListCons
    <2>8. ListOK(agenda', animations')
      BY <2>3, <2>6, <2>7
    <2> QED
      BY <2>1, <2>2, <2>8, CallTypes
  <1>5. ASSUME NEW e \in Elements, CallFinish(e)
        PROVE  Types'
    <2>1. UNCHANGED <<hooks, animations, timers, promises>>
      BY <1>5, Zenon DEF CallFinish
    <2>2. /\ Called /\ agenda' = Cons(HaltAt(e, Len(timers), "finish", queue[e]), agenda)
          /\ DOMAIN queue' = Elements /\ (\A f \in Elements \ {e} : queue'[f] = queue[f])
          /\ queue'[e] = <<>> /\ finish' = finish \cup {e}
          /\ timeouts' \subseteq timeouts
          /\ DOMAIN fate' = DOMAIN fate /\ fate'.wronged = fate.wronged
      <3>1. Called /\ agenda' = Cons(HaltAt(e, Len(timers), "finish", queue[e]), agenda)
        BY <1>5, CallFinishFacts
      <3>2. /\ DOMAIN queue' = Elements /\ (\A f \in Elements \ {e} : queue'[f] = queue[f])
            /\ queue'[e] = <<>> /\ finish' = finish \cup {e}
        BY <1>5, CallFinishFacts
      <3>3. timeouts' = {t \in timeouts : hooks[e] = <<>> \/ t[1] # hooks[e][1].stop}
        BY <1>5, CallFinishFacts
      <3>4. DOMAIN fate' = DOMAIN fate /\ fate'.wronged = fate.wronged
        BY <1>5, CallFinishFacts
      <3> QED
        BY <3>1, <3>2, <3>3, <3>4
    <2>3. ListOK(agenda, animations')
      BY <1>1, <2>1
    <2>4. ThingIn(HaltAt(e, Len(timers), "finish", queue[e]), animations')
      <3>1. Len(timers) \in Nat /\ IsSeq(queue[e]) /\ "finish" \in {"rejected", "resolved", "finish"}
        BY IsSeqFacts DEF Types, QueueOK
      <3>2. ThingIn(Do("halt", e, 0, Len(timers), "finish", queue[e]), animations')
        BY <3>1, DoMade
      <3> QED
        BY <3>2 DEF HaltAt
    <2>5. ListOK(agenda', animations')
      BY <2>2, <2>3, <2>4, ListCons
    <2> QED
      BY <2>1, <2>2, <2>5, CallTypes
  <1>6. ASSUME CallPromise
        PROVE  Types'
    <2>1. UNCHANGED <<queue, finish, animations, timers, timeouts, fate>>
      BY <1>6, Zenon DEF CallPromise, clock
    <2>2. PICK p : p = Len(promises) + 1
      OBVIOUS
    <2>3. Called /\ agenda' = agenda /\ promises' = Append(promises, Cardinality(Busy))
      BY <1>6, <2>2, CallPromiseFacts
    <2>4. DOMAIN hooks' = Elements
      BY <1>6, <2>2, CallPromiseFacts
    <2>5. \A e \in Elements : hooks'[e] = <<>> \/ \E h \in Hooks : hooks'[e] = <<h>>
      BY <1>6, <2>2, CallPromiseFacts
    <2>6. \A e \in Elements : HooksOK(e)'
      BY <2>5, HooksOKAfter
    <2>7. QueuesOK'
      BY <2>1, <2>4, <2>6, TypesParts DEF QueuesOK
    <2>8. OthersOK'
      <3>1. IsSeq(promises)
        BY DEF Types
      <3>2. IsSeq(promises')
        BY <2>3, <3>1, AppendIsSeq
      <3> QED
        BY <2>1, <2>3, <3>2, TypesParts DEF OthersOK, Called
    <2>9. AnimationsOK' /\ ListOK(agenda', animations')
      BY <1>1, <2>1, <2>3, AnimationsStay
    <2> QED
      BY <2>7, <2>8, <2>9, TypesParts
  <1>7. ASSUME NEW e \in Elements, CallQueue(e, FunctionItem) \/ CallQueue(e, DelayItem(calls + 1))
        PROVE  Types'
    <2>1. calls + 1 \in Nat
      BY DEF Types
    <2>2. ItemOK(FunctionItem) /\ ItemOK(DelayItem(calls + 1))
      BY <2>1, ItemFacts DEF ItemOK
    <2> QED
      BY <1>7, <2>2, CallQueueTypes
  <1> QED
    BY <1>2, <1>3, <1>4, <1>5, <1>6, <1>7 DEF User

LEMMA TypesStep ==
  ASSUME Types, [Next]_vars
  PROVE  Types'
  <1>1. CASE UNCHANGED vars
    <2>1. UNCHANGED <<queue, hooks, finish, animations, timers, timeouts, promises, agenda, calls, fate>>
      BY <1>1, Zenon DEF vars, data, clock
    <2> QED
      BY <2>1 DEF Types, ThingOK
  <1>2. CASE Program
    BY <1>2, DequeueTypes, UnqueueTypes, AnimateTypes, AnimatedTypes, TickTimerTypes, TickedTypes,
       TickTypes, StopBeginsTypes, HaltTimerTypes, SpliceTypes, StopEndsTypes, FinishQueueTypes
       DEF Program
  <1>3. CASE Tick
    BY <1>3, TickTypes
  <1>4. CASE TimeoutFires
    BY <1>4, TimeoutTypes
  <1>5. CASE User
    BY <1>5, UserTypes
  <1> QED
    BY <1>1, <1>2, <1>3, <1>4, <1>5 DEF Next, Wait

--------------------------------------------------------------------------------
(* Delays have numbers of their own                                         *)

LEMMA IdsParts ==
  ASSUME NEW f
  PROVE  /\ \A y \in Items(queue[f]) : y.is = "delay" => y.id \in Ids(f)
         /\ \A t \in DelaysOf(f) : t[1] \in Ids(f)
         /\ HooksOf(f).stop # 0 => HooksOf(f).stop \in Ids(f)
  BY DEF Ids

LEMMA IdsShrink ==
  ASSUME NEW f, NEW more,
         \A y \in Items(queue'[f]) : y.is = "delay" => y.id \in Ids(f) \cup more,
         \A t \in DelaysOf(f)' : t[1] \in Ids(f) \cup more,
         HooksOf(f)'.stop # 0 => HooksOf(f)'.stop \in Ids(f) \cup more
  PROVE  Ids(f)' \subseteq Ids(f) \cup more
  <1> DEFINE old == Ids(f) \cup more
  <1>1. /\ \A y \in Items(queue'[f]) : y.is = "delay" => y.id \in old
        /\ \A t \in DelaysOf(f)' : t[1] \in old
        /\ HooksOf(f)'.stop # 0 => HooksOf(f)'.stop \in old
    OBVIOUS
  <1>2. Ids(f)' = {q.id : q \in {y \in Items(queue'[f]) : y.is = "delay"}}
                  \cup {t[1] : t \in DelaysOf(f)'} \cup ({HooksOf(f)'.stop} \ {0})
    BY DEF Ids
  <1> HIDE DEF old
  <1>3. Ids(f)' \subseteq old
    BY <1>1, <1>2
  <1> QED
    BY <1>3 DEF old

\* The same queue and hooks, and no delay that begins.
SameIds(f) == queue'[f] = queue[f] /\ hooks'[f] = hooks[f] /\ DelaysOf(f)' \subseteq DelaysOf(f)

LEMMA SameIdsFacts ==
  ASSUME NEW f, SameIds(f)
  PROVE  Ids(f)' \subseteq Ids(f)
  <1>1. /\ \A y \in Items(queue[f]) : y.is = "delay" => y.id \in Ids(f)
        /\ \A t \in DelaysOf(f) : t[1] \in Ids(f)
        /\ HooksOf(f).stop # 0 => HooksOf(f).stop \in Ids(f)
    BY IdsParts
  <1>2. HooksOf(f)' = HooksOf(f)
    BY DEF HooksOf, SameIds, NewHooks
  <1>3. Ids(f)' \subseteq Ids(f) \cup {}
    BY <1>1, <1>2, IdsShrink DEF SameIds
  <1> QED
    BY <1>3

LEMMA IdsOwnShrinks ==
  ASSUME Types, IdsOwn, calls' = calls \/ calls' = calls + 1,
         \A f \in Elements : Ids(f)' \subseteq Ids(f)
  PROVE  IdsOwn'
  <1>1. 1..calls \subseteq 1..calls'
    BY DEF Types
  <1> QED
    BY <1>1 DEF IdsOwn

LEMMA IdsOwnGrows ==
  ASSUME Types, IdsOwn, calls' = calls + 1, NEW e \in Elements,
         Ids(e)' \subseteq Ids(e) \cup {calls + 1},
         \A f \in Elements \ {e} : Ids(f)' \subseteq Ids(f)
  PROVE  IdsOwn'
  <1>1. 1..calls' = 1..calls \cup {calls + 1} /\ calls + 1 \notin 1..calls
    BY DEF Types
  <1>2. \A f \in Elements : Ids(f) \subseteq 1..calls
    BY DEF IdsOwn
  <1>3. ASSUME NEW f \in Elements PROVE Ids(f)' \subseteq 1..calls'
    BY <1>1, <1>2
  <1>4. ASSUME NEW f \in Elements, NEW g \in Elements, f # g PROVE Ids(f)' \cap Ids(g)' = {}
    <2>1. Ids(f) \cap Ids(g) = {}
      BY <1>4 DEF IdsOwn
    <2>2. CASE f = e
      BY <1>1, <1>2, <1>4, <2>1, <2>2
    <2>3. CASE g = e
      BY <1>1, <1>2, <1>4, <2>1, <2>3
    <2>4. CASE f # e /\ g # e
      BY <2>1, <2>4
    <2> QED
      BY <2>2, <2>3, <2>4
  <1> QED
    BY <1>3, <1>4 DEF IdsOwn

LEMMA IdsOwnStays ==
  ASSUME Types, IdsOwn, calls' = calls \/ calls' = calls + 1,
         UNCHANGED <<queue, hooks>>, timeouts' \subseteq timeouts
  PROVE  IdsOwn'
  <1>1. ASSUME NEW f \in Elements PROVE Ids(f)' \subseteq Ids(f)
    <2>1. SameIds(f)
      BY DEF SameIds, DelaysOf
    <2> QED
      BY <2>1, SameIdsFacts
  <1> QED
    BY <1>1, IdsOwnShrinks

LEMMA DequeueIds ==
  ASSUME Types, IdsOwn, Dequeue
  PROVE  IdsOwn'
  <1> PICK e : e = Todo.e
    OBVIOUS
  <1>1. /\ e \in Elements /\ OnlyOf(e)
        /\ DequeueEmpty(e) \/ \E fn : DequeueNext(e, fn)
    BY DequeueFacts
  <1>2. calls' = calls
    BY DEF Dequeue
  <1>3. /\ \A y \in Items(queue[e]) : y.is = "delay" => y.id \in Ids(e)
        /\ \A t \in DelaysOf(e) : t[1] \in Ids(e)
        /\ HooksOf(e).stop # 0 => HooksOf(e).stop \in Ids(e)
    BY IdsParts
  <1>4. ASSUME NEW f \in Elements \ {e}, timeouts' = timeouts \/ \E id : timeouts' = timeouts \cup {<<id, e>>}
        PROVE  Ids(f)' \subseteq Ids(f)
    <2>1. DelaysOf(f)' \subseteq DelaysOf(f)
      BY <1>4 DEF DelaysOf
    <2>2. SameIds(f)
      BY <1>1, <2>1 DEF SameIds, OnlyOf
    <2> QED
      BY <2>2, SameIdsFacts
  <1>5. CASE DequeueEmpty(e)
    <2>1. DelaysOf(e)' = DelaysOf(e) /\ queue'[e] = <<>> /\ Items(queue'[e]) = {}
      BY <1>5, ShortIsSeq DEF DequeueEmpty, DelaysOf
    <2>2. HooksOf(e)'.stop = HooksOf(e).stop \/ HooksOf(e)'.stop = 0
      BY <1>1, <1>5, HooksAfter DEF DequeueEmpty, Emptied
    <2>3. /\ \A y \in Items(queue'[e]) : y.is = "delay" => y.id \in Ids(e) \cup {}
          /\ \A t \in DelaysOf(e)' : t[1] \in Ids(e) \cup {}
          /\ HooksOf(e)'.stop # 0 => HooksOf(e)'.stop \in Ids(e) \cup {}
      BY <1>3, <2>1, <2>2
    <2>4. Ids(e)' \subseteq Ids(e) \cup {}
      BY <2>3, IdsShrink
    <2>5. \A f \in Elements \ {e} : Ids(f)' \subseteq Ids(f)
      BY <1>4, <1>5 DEF DequeueEmpty
    <2> QED
      BY <1>2, <2>4, <2>5, IdsOwnShrinks
  <1>6. ASSUME NEW fn, DequeueNext(e, fn) PROVE IdsOwn'
    <2>1. /\ fn \in Items(queue[e]) /\ Items(queue'[e]) \subseteq {Inprogress} \cup Items(queue[e])
          /\ \E h \in Hooks : /\ hooks'[e] = <<h>>
                              /\ h.stop = IF fn.is = "delay" THEN fn.id ELSE 0
          /\ timeouts' = timeouts \/ (fn.is = "delay" /\ timeouts' = timeouts \cup {<<fn.id, e>>})
      BY <1>6 DEF DequeueNext
    <2>2. HooksOf(e)'.stop = IF fn.is = "delay" THEN fn.id ELSE 0
      BY <1>1, <2>1, HooksAfter
    <2>3. Inprogress.is # "delay"
      BY ItemFacts
    <2>4. \A y \in Items(queue'[e]) : y.is = "delay" => y.id \in Ids(e) \cup {}
      BY <1>3, <2>1, <2>3
    <2>5. fn.is = "delay" => fn.id \in Ids(e)
      BY <1>3, <2>1
    <2>6. \A t \in DelaysOf(e)' : t \in DelaysOf(e) \/ (fn.is = "delay" /\ t[1] = fn.id)
      BY <2>1 DEF DelaysOf
    <2>7. \A t \in DelaysOf(e)' : t[1] \in Ids(e) \cup {}
      BY <1>3, <2>5, <2>6
    <2>8. HooksOf(e)'.stop # 0 => HooksOf(e)'.stop \in Ids(e) \cup {}
      BY <2>2, <2>5
    <2>9. Ids(e)' \subseteq Ids(e) \cup {}
      BY <2>4, <2>7, <2>8, IdsShrink
    <2>10. \A f \in Elements \ {e} : Ids(f)' \subseteq Ids(f)
      BY <1>4, <2>1
    <2> QED
      BY <1>2, <2>9, <2>10, IdsOwnShrinks
  <1> QED
    BY <1>1, <1>5, <1>6

\* The hooks of one element change, but not what stop() ends.
LEMMA HookIds ==
  ASSUME Types, IdsOwn, NEW e \in Elements, queue' = queue, timeouts' \subseteq timeouts, calls' = calls,
         \A f \in Elements \ {e} : hooks'[f] = hooks[f],
         HooksOf(e)'.stop = HooksOf(e).stop \/ HooksOf(e)'.stop = 0
  PROVE  IdsOwn'
  <1>1. ASSUME NEW f \in Elements \ {e} PROVE Ids(f)' \subseteq Ids(f)
    <2>1. SameIds(f)
      BY DEF SameIds, DelaysOf
    <2> QED
      BY <2>1, SameIdsFacts
  <1>2. Ids(e)' \subseteq Ids(e) \cup {}
    <2>1. /\ \A y \in Items(queue[e]) : y.is = "delay" => y.id \in Ids(e)
          /\ \A t \in DelaysOf(e) : t[1] \in Ids(e)
          /\ HooksOf(e).stop # 0 => HooksOf(e).stop \in Ids(e)
      BY IdsParts
    <2>2. DelaysOf(e)' \subseteq DelaysOf(e)
      BY DEF DelaysOf
    <2> QED
      BY <2>1, <2>2, IdsShrink
  <1> QED
    BY <1>1, <1>2, IdsOwnShrinks

LEMMA UnqueueIds ==
  ASSUME Types, IdsOwn, Unqueue
  PROVE  IdsOwn'
  <1> PICK e : e = Todo.e
    OBVIOUS
  <1>1. /\ e \in Elements /\ \A f \in Elements \ {e} : hooks'[f] = hooks[f]
        /\ \E h : UnqueueAfter(e, h)
    BY UnqueueFacts
  <1>2. HooksOf(e)'.stop = HooksOf(e).stop \/ HooksOf(e)'.stop = 0
    BY <1>1, HooksAfter DEF UnqueueAfter, Emptied
  <1>3. queue' = queue /\ timeouts' = timeouts /\ calls' = calls
    BY DEF Unqueue, clock
  <1> QED
    BY <1>1, <1>2, <1>3, HookIds

LEMMA AnimateIds ==
  ASSUME Types, IdsOwn, Animate
  PROVE  IdsOwn'
  <1> PICK e : e = Todo.e
    OBVIOUS
  <1>1. /\ e \in Elements /\ \A f \in Elements \ {e} : hooks'[f] = hooks[f]
        /\ AnimateHooks(e, Todo.how = "queued")
    BY AnimateFacts
  <1>2. HooksOf(e)'.stop = HooksOf(e).stop
    <2>1. CASE hooks' = hooks
      BY <2>1 DEF HooksOf, NewHooks
    <2>2. CASE hooks' # hooks
      BY <1>1, <2>2, HooksAfter DEF AnimateHooks
    <2> QED
      BY <2>1, <2>2
  <1>3. queue' = queue /\ timeouts' = timeouts /\ calls' = calls
    BY DEF Animate
  <1> QED
    BY <1>1, <1>2, <1>3, HookIds

LEMMA StopBeginsIds ==
  ASSUME Types, IdsOwn, StopBegins
  PROVE  IdsOwn'
  <1> PICK e : e = Todo.e
    OBVIOUS
  <1>1. /\ e \in Elements /\ \A f \in Elements \ {e} : hooks'[f] = hooks[f]
        /\ timeouts' = timeouts \ Mine(e)
        /\ \/ hooks[e] = <<>> /\ hooks'[e] = <<>>
           \/ hooks[e] # <<>> /\ \E h \in Hooks : hooks'[e] = <<h>> /\ h.stop = 0
    BY StopBeginsFacts
  <1>2. HooksOf(e)'.stop = 0
    BY <1>1, HooksAfter
  <1>3. queue' = queue /\ timeouts' \subseteq timeouts /\ calls' = calls
    BY <1>1 DEF StopBegins
  <1> QED
    BY <1>1, <1>2, <1>3, HookIds

LEMMA CallQueueIds ==
  ASSUME Types, IdsOwn, NEW e \in Elements, NEW item, ItemOK(item), CallQueue(e, item),
         item.is = "delay" => item.id = calls + 1
  PROVE  IdsOwn'
  <1>1. CallQueueAfter(e, item)
    BY CallQueueFacts
  <1>2. timeouts' = timeouts /\ calls' = calls + 1
    BY <1>1 DEF CallQueue, CallQueueAfter, Called, clock
  <1>3. OnlyOf(e) /\ Items(queue'[e]) = Items(queue[e]) \cup {item} /\ hooks'[e] = <<HooksOf(e)>>
    BY <1>1 DEF CallQueueAfter
  <1>4. HooksOf(e)' = HooksOf(e)
    BY <1>3, HooksAfter
  <1>5. /\ \A y \in Items(queue[e]) : y.is = "delay" => y.id \in Ids(e)
        /\ \A t \in DelaysOf(e) : t[1] \in Ids(e)
        /\ HooksOf(e).stop # 0 => HooksOf(e).stop \in Ids(e)
    BY IdsParts
  <1>6. DelaysOf(e)' = DelaysOf(e)
    BY <1>2 DEF DelaysOf
  <1>7. \A y \in Items(queue'[e]) : y.is = "delay" => y.id \in Ids(e) \cup {calls + 1}
    BY <1>3, <1>5
  <1>8. Ids(e)' \subseteq Ids(e) \cup {calls + 1}
    <2>1. /\ \A t \in DelaysOf(e)' : t[1] \in Ids(e) \cup {calls + 1}
          /\ HooksOf(e)'.stop # 0 => HooksOf(e)'.stop \in Ids(e) \cup {calls + 1}
      BY <1>4, <1>5, <1>6
    <2> QED
      BY <1>7, <2>1, IdsShrink
  <1>9. ASSUME NEW f \in Elements \ {e} PROVE Ids(f)' \subseteq Ids(f)
    <2>1. SameIds(f)
      BY <1>2, <1>3 DEF SameIds, DelaysOf, OnlyOf
    <2> QED
      BY <2>1, SameIdsFacts
  <1> QED
    BY <1>2, <1>8, <1>9, IdsOwnGrows

\* The calls that at most empty the queue or end a delay.
LEMMA CallIds ==
  ASSUME Types, IdsOwn, NEW e \in Elements, calls' = calls + 1, hooks' = hooks,
         timeouts' \subseteq timeouts, \A f \in Elements \ {e} : queue'[f] = queue[f],
         queue'[e] = <<>> \/ queue'[e] = queue[e]
  PROVE  IdsOwn'
  <1>1. ASSUME NEW f \in Elements PROVE Ids(f)' \subseteq Ids(f) \cup {}
    <2>1. /\ \A y \in Items(queue[f]) : y.is = "delay" => y.id \in Ids(f)
          /\ \A t \in DelaysOf(f) : t[1] \in Ids(f)
          /\ HooksOf(f).stop # 0 => HooksOf(f).stop \in Ids(f)
      BY IdsParts
    <2>2. DelaysOf(f)' \subseteq DelaysOf(f) /\ HooksOf(f)' = HooksOf(f)
      BY DEF DelaysOf, HooksOf, NewHooks
    <2>3. Items(queue'[f]) \subseteq Items(queue[f])
      BY ShortIsSeq
    <2> QED
      BY <2>1, <2>2, <2>3, IdsShrink
  <1> QED
    BY <1>1, IdsOwnShrinks

LEMMA CallPromiseIds ==
  ASSUME Types, IdsOwn, CallPromise
  PROVE  IdsOwn'
  <1> PICK p : p = Len(promises) + 1
    OBVIOUS
  <1>1. /\ calls' = calls + 1
        /\ \A e \in Elements :
             \/ hooks[e] = <<>> /\ hooks'[e] = <<>>
             \/ hooks[e] # <<>> /\ \E h \in Hooks : hooks'[e] = <<h>> /\ h.stop = HooksOf(e).stop
    BY CallPromiseFacts DEF Called
  <1>2. queue' = queue /\ timeouts' = timeouts
    BY DEF CallPromise, clock
  <1>3. ASSUME NEW f \in Elements PROVE Ids(f)' \subseteq Ids(f) \cup {}
    <2>1. /\ \A y \in Items(queue[f]) : y.is = "delay" => y.id \in Ids(f)
          /\ \A t \in DelaysOf(f) : t[1] \in Ids(f)
          /\ HooksOf(f).stop # 0 => HooksOf(f).stop \in Ids(f)
      BY IdsParts
    <2>2. DelaysOf(f)' = DelaysOf(f)
      BY <1>2 DEF DelaysOf
    <2>3. HooksOf(f)'.stop = HooksOf(f).stop \/ HooksOf(f)'.stop = 0
      BY <1>1, HooksAfter
    <2>4. /\ \A y \in Items(queue'[f]) : y.is = "delay" => y.id \in Ids(f) \cup {}
          /\ \A t \in DelaysOf(f)' : t[1] \in Ids(f) \cup {}
          /\ HooksOf(f)'.stop # 0 => HooksOf(f)'.stop \in Ids(f) \cup {}
      BY <1>2, <2>1, <2>2, <2>3
    <2> QED
      BY <2>4, IdsShrink
  <1> QED
    BY <1>1, <1>3, IdsOwnShrinks

LEMMA UserIds ==
  ASSUME Types, IdsOwn, User
  PROVE  IdsOwn'
  <1>1. CASE CallPromise
    BY <1>1, CallPromiseIds
  <1>2. ASSUME NEW e \in Elements, NEW goal, NEW duration, NEW queued \in BOOLEAN,
               CallAnimate(e, goal, duration, queued)
        PROVE  IdsOwn'
    <2>1. \/ \E item : ItemOK(item) /\ item.is = "animation" /\ CallQueue(e, item)
          \/ Called /\ UNCHANGED <<data, style, animations, clock, promises>>
      BY <1>2, CallAnimateFacts
    <2>2. ASSUME NEW item, ItemOK(item), item.is = "animation", CallQueue(e, item) PROVE IdsOwn'
      BY <2>2, CallQueueIds
    <2>3. CASE Called /\ UNCHANGED <<data, style, animations, clock, promises>>
      BY <2>3, IdsOwnStays DEF Called, data, clock
    <2> QED
      BY <2>1, <2>2, <2>3
  <1>3. ASSUME NEW e \in Elements, CallQueue(e, FunctionItem) PROVE IdsOwn'
    <2>1. FunctionItem.is = "function" /\ ItemOK(FunctionItem)
      BY ItemFacts DEF ItemOK
    <2> QED
      BY <1>3, <2>1, CallQueueIds
  <1>4. ASSUME NEW e \in Elements, CallQueue(e, DelayItem(calls + 1)) PROVE IdsOwn'
    <2> PICK item : item = DelayItem(calls + 1)
      OBVIOUS
    <2>1. item.is = "delay" /\ item.id = calls + 1 /\ calls + 1 \in Nat
      BY ItemFacts DEF Types
    <2>2. ItemOK(item)
      BY <2>1 DEF ItemOK
    <2> QED
      BY <1>4, <2>1, <2>2, CallQueueIds
  <1>5. ASSUME NEW e \in Elements, NEW clear \in BOOLEAN, CallDequeue(e, clear) PROVE IdsOwn'
    <2>1. /\ calls' = calls + 1 /\ \A f \in Elements \ {e} : queue'[f] = queue[f]
          /\ queue'[e] = <<>> \/ queue'[e] = queue[e]
      BY <1>5, CallDequeueFacts DEF Called
    <2>2. hooks' = hooks /\ timeouts' = timeouts
      BY <1>5 DEF CallDequeue, clock
    <2> QED
      BY <2>1, <2>2, CallIds
  <1>6. ASSUME NEW e \in Elements, NEW clear \in BOOLEAN, NEW gotoEnd, CallStop(e, clear, gotoEnd)
        PROVE  IdsOwn'
    <2>1. /\ calls' = calls + 1 /\ \A f \in Elements \ {e} : queue'[f] = queue[f]
          /\ queue'[e] = <<>> \/ queue'[e] = queue[e]
      BY <1>6, CallStopFacts DEF Called
    <2>2. hooks' = hooks /\ timeouts' = timeouts
      BY <1>6 DEF CallStop, clock
    <2> QED
      BY <2>1, <2>2, CallIds
  <1>7. ASSUME NEW e \in Elements, CallFinish(e) PROVE IdsOwn'
    <2>1. /\ calls' = calls + 1 /\ \A f \in Elements \ {e} : queue'[f] = queue[f]
          /\ queue'[e] = <<>> /\ timeouts' \subseteq timeouts
      BY <1>7, CallFinishFacts DEF Called
    <2>2. hooks' = hooks
      BY <1>7 DEF CallFinish
    <2> QED
      BY <2>1, <2>2, CallIds
  <1> QED
    BY <1>1, <1>2, <1>3, <1>4, <1>5, <1>6, <1>7 DEF User

LEMMA IdsOwnStep ==
  ASSUME Types, IdsOwn, [Next]_vars
  PROVE  IdsOwn'
  <1>1. CASE Dequeue
    BY <1>1, DequeueIds
  <1>2. CASE Unqueue
    BY <1>2, UnqueueIds
  <1>3. CASE Animate
    BY <1>3, AnimateIds
  <1>4. CASE StopBegins
    BY <1>4, StopBeginsIds
  <1>5. CASE User
    BY <1>5, UserIds
  <1>6. CASE Animated \/ TickTimer \/ Ticked \/ TickEnds
    BY <1>6, IdsOwnStays DEF Animated, TickTimer, Ticked, TickEnds, data, clock
  <1>7. CASE HaltTimer \/ Splice \/ StopEnds
    BY <1>7, IdsOwnStays DEF HaltTimer, Splice, StopEnds, data, clock
  <1>8. CASE FinishQueue \/ FinishEnds \/ Return \/ Tick
    BY <1>8, IdsOwnStays DEF FinishQueue, FinishEnds, Return, Tick, data, clock
  <1>9. CASE TimeoutFires
    <2>1. timeouts' \subseteq timeouts /\ queue' = queue /\ hooks' = hooks /\ calls' = calls
      BY <1>9 DEF TimeoutFires, data
    <2> QED
      BY <2>1, IdsOwnStays
  <1>10. CASE UNCHANGED vars
    BY <1>10, IdsOwnStays DEF vars, data, clock
  <1> QED
    BY <1>1, <1>2, <1>3, <1>4, <1>5, <1>6, <1>7, <1>8, <1>9, <1>10 DEF Next, Program, Wait

--------------------------------------------------------------------------------
(* The queues move on                                                       *)

\* What would make element f get stuck does not happen.
KeepsGoing(f) ==
  /\ QueuedOf(f) \subseteq QueuedOf(f)'
  /\ Delayed(f) => Delayed(f)'
  /\ \A x \in Of(f) : MovesOn(x) => x \in Items(agenda')

LEMMA KeepsMoving ==
  ASSUME NEW f, Moving(f), KeepsGoing(f), Wants(f)' => Wants(f)
  PROVE  Moving(f)'
  <1> SUFFICES ASSUME Wants(f)' PROVE Goes(f)'
    BY DEF Moving
  <1>1. Goes(f)
    BY DEF Moving
  <1>2. CASE QueuedOf(f) # {}
    BY <1>2 DEF KeepsGoing, Goes
  <1>3. CASE Delayed(f)
    BY <1>3 DEF KeepsGoing, Goes
  <1>4. CASE \E x \in Of(f) : MovesOn(x)
    <2> PICK x \in Of(f) : MovesOn(x)
      BY <1>4
    <2>1. x \in Of(f)'
      BY DEF KeepsGoing, Of
    <2> QED
      BY <2>1 DEF Goes
  <1> QED
    BY <1>1, <1>2, <1>3, <1>4 DEF Goes

LEMMA ThingMoves ==
  ASSUME NEW x \in Items(agenda'), MovesOn(x)
  PROVE  Moving(x.e)'
  <1>1. x.op # "tick"
    BY DEF MovesOn
  <1>2. x \in Of(x.e)'
    BY <1>1 DEF Of
  <1> QED
    BY <1>2 DEF Moving, Goes

\* The queue and the hooks of f are as before but for what waits, and its delays go on.
SameWants(f) ==
  /\ queue'[f] = queue[f] /\ (hooks'[f] = <<>> <=> hooks[f] = <<>>)
  /\ HooksOf(f)'.stop = HooksOf(f).stop /\ HooksOf(f)'.unqueued = HooksOf(f).unqueued
  /\ DelaysOf(f) \subseteq DelaysOf(f)'

LEMMA SameWantsFacts ==
  ASSUME NEW f, SameWants(f)
  PROVE  /\ Wants(f)' => Wants(f)
         /\ Delayed(f) => Delayed(f)'
  BY DEF SameWants, Wants, Delayed

LEMMA WantsStay ==
  ASSUME NEW f, queue'[f] = queue[f], hooks'[f] = hooks[f], DelaysOf(f) \subseteq DelaysOf(f)'
  PROVE  SameWants(f)
  BY DEF SameWants, HooksOf, NewHooks

\* What is taken from the agenda does not move on the queue of f.
Spares(f) == agenda # <<>> => Todo.op = "tick" \/ Todo.e # f \/ ~MovesOn(Todo)

LEMMA SparesFacts ==
  ASSUME Types, NEW f, Spares(f),
         Items(agenda) \subseteq Items(agenda') \/ (agenda # <<>> /\ Items(Rest) \subseteq Items(agenda'))
  PROVE  \A x \in Of(f) : MovesOn(x) => x \in Items(agenda')
  <1> SUFFICES ASSUME NEW x \in Of(f), MovesOn(x) PROVE x \in Items(agenda')
    OBVIOUS
  <1>1. x \in Items(agenda) /\ x.e = f /\ x.op # "tick"
    BY DEF Of
  <1>2. CASE agenda # <<>> /\ Items(Rest) \subseteq Items(agenda')
    <2>1. x # Todo
      BY <1>1, <1>2 DEF Spares
    <2>2. x \in Items(Rest)
      BY <1>1, <1>2, <2>1, RestFacts
    <2> QED
      BY <1>2, <2>2
  <1> QED
    BY <1>1, <1>2

\* The animations that go on.
LEMMA StatesKeepQueued ==
  ASSUME StatesKeep, NEW f
  PROVE  QueuedOf(f)' = QueuedOf(f)
  BY DEF StatesKeep, AnimationsKeep, QueuedOf, Begun, Pending

LEMMA SettledQueued ==
  ASSUME NEW n, NEW how \in {"resolved", "rejected"}, Settled(n, how), NEW f
  PROVE  QueuedOf(f)' = QueuedOf(f) \ {n}
  <1>1. \A k \in DOMAIN animations \ {n} :
          /\ animations'[k].e = animations[k].e /\ animations'[k].queued = animations[k].queued
          /\ animations'[k].state = animations[k].state
    BY DEF Settled, AnimationsKeep
  <1>2. DOMAIN animations' = DOMAIN animations /\ animations'[n].state # "pending"
    BY DEF Settled, AnimationsKeep
  <1> QED
    BY <1>1, <1>2 DEF QueuedOf, Begun, Pending

LEMMA BeginsQueued ==
  ASSUME NEW e, NEW n, NEW a, AnimationBegins(e, n, a), NEW f
  PROVE  /\ QueuedOf(f) \subseteq QueuedOf(f)'
         /\ a.state = "pending" /\ a.queued => n \in QueuedOf(e)'
  <1>1. /\ DOMAIN animations' = DOMAIN animations \cup {n} /\ a.e = e
        /\ (\A k \in DOMAIN animations : animations'[k] = animations[k]) /\ animations'[n] = a
    BY DEF AnimationBegins
  <1> QED
    BY <1>1 DEF QueuedOf, Begun, Pending

\* What settling puts on the agenda.
LEMMA SettledItems ==
  ASSUME NEW n, NEW how, NEW s, IsSeq(s), AfterSettled(n, how, s)
  PROVE  /\ Items(s) \subseteq Items(agenda')
         /\ how = "resolved" /\ animations[n].queued => DequeueDo(animations[n].e) \in Items(agenda')
  BY Chains DEF AfterSettled

LEMMA DequeueMoves ==
  ASSUME NEW e, DequeueDo(e) \in Items(agenda')
  PROVE  Moving(e)'
  <1> PICK x : x = DequeueDo(e)
    OBVIOUS
  <1>1. x.op = "dequeue" /\ x.e = e
    BY SimpleThings
  <1>2. Moving(x.e)'
    BY <1>1, ThingMoves DEF MovesOn
  <1> QED
    BY <1>1, <1>2

\* An animation is settled.
LEMMA SettledMoving ==
  ASSUME Types, NEW n, NEW how \in {"resolved", "rejected"}, Settled(n, how), NEW f, Moving(f), SameWants(f),
         \A x \in Of(f) : MovesOn(x) => x \in Items(agenda'),
         n \in QueuedOf(f) => Moving(f)'
  PROVE  Moving(f)'
  <1>1. CASE n \notin QueuedOf(f)
    <2>1. QueuedOf(f)' = QueuedOf(f)
      BY <1>1, SettledQueued
    <2>2. KeepsGoing(f)
      BY <2>1, SameWantsFacts DEF KeepsGoing
    <2> QED
      BY <2>2, SameWantsFacts, KeepsMoving
  <1> QED
    BY <1>1

LEMMA DequeueMoving ==
  ASSUME Types, Dequeue, NEW f \in Elements, Moving(f)
  PROVE  Moving(f)'
  <1> PICK e : e = Todo.e
    OBVIOUS
  <1>1. /\ e \in Elements /\ agenda # <<>> /\ Todo.op = "dequeue" /\ OnlyOf(e)
        /\ DequeueEmpty(e) \/ \E fn : DequeueNext(e, fn)
    BY DequeueFacts
  <1>2. animations' = animations
    BY DEF Dequeue
  <1>3. IsSeq(Rest)
    BY <1>1, RestFacts
  <1>4. CASE DequeueEmpty(e) /\ f = e
    <2>1. /\ queue'[f] = <<>>
          /\ hooks'[f] = <<>> \/ (HooksOf(f).unqueued > 0 /\ hooks'[f] = <<HooksOf(f)>>)
      BY <1>4 DEF DequeueEmpty, Emptied
    <2>2. HooksOf(f).unqueued \in Int
      BY HooksFacts DEF Hooks
    <2>3. hooks'[f] # <<>> => HooksOf(f)' = HooksOf(f) /\ ~(HooksOf(f).unqueued <= 0)
      BY <2>1, <2>2, HooksAfter
    <2>4. ~Wants(f)'
      BY <2>1, <2>3 DEF Wants
    <2> QED
      BY <2>4 DEF Moving
  <1>5. ASSUME f # e, timeouts \subseteq timeouts', Items(Rest) \subseteq Items(agenda')
        PROVE  Moving(f)'
    <2>1. queue'[f] = queue[f] /\ hooks'[f] = hooks[f]
      BY <1>1, <1>5 DEF OnlyOf
    <2>2. DelaysOf(f) \subseteq DelaysOf(f)'
      BY <1>5 DEF DelaysOf
    <2>3. SameWants(f)
      BY <2>1, <2>2, WantsStay
    <2>4. QueuedOf(f)' = QueuedOf(f)
      BY <1>2, SameAnimations, StatesKeepQueued
    <2>5. \A x \in Of(f) : MovesOn(x) => x \in Items(agenda')
      BY <1>1, <1>5, SparesFacts DEF Spares
    <2>6. KeepsGoing(f)
      BY <2>3, <2>4, <2>5, SameWantsFacts DEF KeepsGoing
    <2> QED
      BY <2>3, <2>6, SameWantsFacts, KeepsMoving
  <1>6. CASE DequeueEmpty(e) /\ f # e
    BY <1>5, <1>6 DEF DequeueEmpty
  <1>7. ASSUME NEW fn, DequeueNext(e, fn) PROVE Moving(f)'
    <2>1. \/ /\ fn.is = "animation" /\ timeouts' = timeouts
             /\ agenda' = Cons(AnimateDo(e, fn, "queued"), Rest)
          \/ /\ fn.is = "function" /\ timeouts' = timeouts
             /\ agenda' = Cons(Run(e), Cons(DequeueDo(e), Rest))
          \/ /\ fn.is = "delay" /\ timeouts' = timeouts \cup {<<fn.id, e>>}
             /\ agenda' = Rest
      BY <1>7 DEF DequeueNext
    <2>2. CASE f # e
      <3>1. Items(Rest) \subseteq Items(agenda')
        <4>1. CASE agenda' = Cons(AnimateDo(e, fn, "queued"), Rest)
          BY <1>3, <4>1, BehindOne
        <4>2. CASE agenda' = Cons(Run(e), Cons(DequeueDo(e), Rest))
          BY <1>3, <4>2, BehindTwo
        <4> QED
          BY <2>1, <4>1, <4>2
      <3> QED
        BY <1>5, <2>1, <2>2, <3>1
    <2>3. CASE fn.is = "animation" /\ f = e
      <3> PICK x : x = AnimateDo(e, fn, "queued")
        OBVIOUS
      <3>1. x.op = "animate" /\ x.e = e /\ x.how = "queued"
        BY AnimateThings
      <3>2. agenda' = Cons(x, Rest)
        BY <2>1, <2>3
      <3>3. x \in Items(agenda')
        BY <1>3, <3>2, Chains
      <3>4. Moving(x.e)'
        BY <3>1, <3>3, ThingMoves DEF MovesOn
      <3> QED
        BY <2>3, <3>1, <3>4
    <2>4. CASE fn.is = "function" /\ f = e
      <3>1. DequeueDo(e) \in Items(agenda')
        BY <1>3, <2>1, <2>4, Chains
      <3> QED
        BY <2>4, <3>1, DequeueMoves
    <2>5. CASE fn.is = "delay" /\ f = e
      <3>1. timeouts' = timeouts \cup {<<fn.id, e>>}
        BY <2>1, <2>5
      <3> PICK t : t = <<fn.id, e>>
        OBVIOUS
      <3>2. t \in DelaysOf(e)' /\ t[1] = fn.id
        BY <3>1 DEF DelaysOf
      <3>3. \E h \in Hooks : hooks'[e] = <<h>> /\ h.stop = fn.id
        BY <1>7, <2>5 DEF DequeueNext
      <3>4. hooks'[e] # <<>> /\ HooksOf(e)'.stop = fn.id
        BY <1>1, <3>3, HooksAfter
      <3>5. Delayed(e)'
        BY <3>2, <3>4 DEF Delayed
      <3> QED
        BY <2>5, <3>5 DEF Moving, Goes
    <2> QED
      BY <2>1, <2>2, <2>3, <2>4, <2>5
  <1> QED
    BY <1>1, <1>4, <1>6, <1>7

LEMMA UnqueueMoving ==
  ASSUME Types, Unqueue, NEW f \in Elements, Moving(f)
  PROVE  Moving(f)'
  <1> PICK e : e = Todo.e
    OBVIOUS
  <1>1. /\ e \in Elements /\ agenda # <<>> /\ Todo.op = "unqueue" /\ agenda' = Rest
        /\ \A g \in Elements \ {e} : hooks'[g] = hooks[g]
        /\ \E h : UnqueueAfter(e, h)
    BY UnqueueFacts
  <1>2. queue' = queue /\ animations' = animations /\ timeouts' = timeouts
    BY DEF Unqueue, clock
  <1>3. QueuedOf(f)' = QueuedOf(f)
    BY <1>2, SameAnimations, StatesKeepQueued
  <1>4. \A x \in Of(f) : MovesOn(x) => x \in Items(agenda')
    BY <1>1, SparesFacts DEF Spares, MovesOn
  <1>5. DelaysOf(f)' = DelaysOf(f)
    BY <1>2 DEF DelaysOf
  <1>6. CASE f # e
    <2>1. SameWants(f)
      BY <1>1, <1>2, <1>5, <1>6, WantsStay
    <2>2. KeepsGoing(f)
      BY <1>3, <1>4, <2>1, SameWantsFacts DEF KeepsGoing
    <2> QED
      BY <2>1, <2>2, SameWantsFacts, KeepsMoving
  <1>7. ASSUME NEW h, UnqueueAfter(e, h), f = e PROVE Moving(f)'
    <2>1. h \in Hooks /\ h.stop = HooksOf(e).stop
      BY <1>7 DEF UnqueueAfter
    <2>2. CASE queue[e] = <<>>
      <3>1. hooks'[e] = <<>> \/ (h.unqueued > 0 /\ hooks'[e] = <<h>>)
        BY <1>7, <2>2 DEF UnqueueAfter, Emptied
      <3>2. hooks'[e] # <<>> => HooksOf(e)' = h /\ ~(h.unqueued <= 0)
        BY <1>1, <2>1, <3>1, HooksAfter DEF Hooks
      <3>3. ~Wants(e)'
        BY <1>2, <2>2, <3>2 DEF Wants
      <3> QED
        BY <1>7, <3>3 DEF Moving
    <2>3. CASE queue[e] # <<>>
      <3>1. hooks'[e] = <<h>>
        BY <1>7, <2>3 DEF UnqueueAfter
      <3>2. hooks'[e] # <<>> /\ HooksOf(e)' = h
        BY <1>1, <3>1, HooksAfter
      <3>3. Wants(e)
        BY <2>3 DEF Wants
      <3>4. Delayed(e) => Delayed(e)'
        BY <1>5, <1>7, <2>1, <3>2 DEF Delayed
      <3>5. KeepsGoing(e)
        BY <1>3, <1>4, <1>7, <3>4 DEF KeepsGoing
      <3> QED
        BY <1>7, <3>3, <3>5, KeepsMoving
    <2> QED
      BY <2>2, <2>3
  <1> QED
    BY <1>1, <1>6, <1>7

LEMMA AnimateMoving ==
  ASSUME Types, Animate, NEW f \in Elements, Moving(f)
  PROVE  Moving(f)'
  <1> PICK e : e = Todo.e
    OBVIOUS
  <1>1. /\ e \in Elements /\ agenda # <<>> /\ Todo.op = "animate"
        /\ \A g \in Elements \ {e} : hooks'[g] = hooks[g]
        /\ AnimateHooks(e, Todo.how = "queued")
    BY AnimateFacts
  <1>2. PICK n, a : AnimationBegins(e, n, a)
    BY AnimateFacts
  <1>3. queue' = queue /\ timeouts' = timeouts
    BY DEF Animate
  <1>4. QueuedOf(f) \subseteq QueuedOf(f)' /\ (a.state = "pending" /\ a.queued => n \in QueuedOf(e)')
    BY <1>2, BeginsQueued
  <1>5. DelaysOf(f)' = DelaysOf(f)
    BY <1>3 DEF DelaysOf
  <1>6. IsSeq(Rest)
    BY <1>1, RestFacts
  <1>7. PICK goal :
       \/ /\ a.state = "pending" /\ agenda' = Cons(AnimatedDo(e, n, goal), Rest)
       \/ /\ a.state = "resolved" /\ a.queued
          /\ agenda' = Cons(Run(e), Cons(DequeueDo(e), Cons(AnimatedDo(e, n, goal), Rest)))
       \/ /\ a.state = "resolved" /\ ~a.queued
          /\ agenda' = Cons(UnqueueDo(e, n), Cons(Run(e), Cons(AnimatedDo(e, n, goal), Rest)))
    BY <1>2 DEF AnimationBegins
  <1>8. Items(Rest) \subseteq Items(agenda') /\ (a.state = "resolved" /\ a.queued => DequeueDo(e) \in Items(agenda'))
    <2>1. CASE a.state = "pending"
      <3>1. agenda' = Cons(AnimatedDo(e, n, goal), Rest)
        BY <1>7, <2>1
      <3>2. Items(Rest) \subseteq Items(agenda')
        BY <1>6, <3>1, BehindOne
      <3> QED
        BY <2>1, <3>2
    <2>2. CASE a.state = "resolved" /\ a.queued
      <3>1. agenda' = Cons(Run(e), Cons(DequeueDo(e), Cons(AnimatedDo(e, n, goal), Rest)))
        BY <1>7, <2>2
      <3> QED
        BY <1>6, <3>1, BehindThree
    <2>3. CASE a.state = "resolved" /\ ~a.queued
      <3>1. agenda' = Cons(UnqueueDo(e, n), Cons(Run(e), Cons(AnimatedDo(e, n, goal), Rest)))
        BY <1>7, <2>3
      <3>2. Items(Rest) \subseteq Items(agenda')
        BY <1>6, <3>1, BehindThree
      <3> QED
        BY <2>3, <3>2
    <2> QED
      BY <1>7, <2>1, <2>2, <2>3
  <1>9. a.queued <=> Todo.how = "queued"
    BY <1>2 DEF AnimationBegins
  <1>10. CASE f = e /\ a.queued
    <2>1. CASE a.state = "resolved"
      BY <1>8, <1>10, <2>1, DequeueMoves
    <2>2. CASE a.state # "resolved"
      <3>1. n \in QueuedOf(e)'
        BY <1>4, <1>7, <1>10, <2>2
      <3> QED
        BY <1>10, <3>1 DEF Moving, Goes
    <2> QED
      BY <2>1, <2>2
  <1>11. CASE f # e \/ ~a.queued
    <2>1. \A x \in Of(f) : MovesOn(x) => x \in Items(agenda')
      BY <1>1, <1>8, <1>9, <1>11, SparesFacts DEF Spares, MovesOn
    <2>2. CASE f # e
      <3>1. SameWants(f)
        BY <1>1, <1>3, <1>5, <2>2, WantsStay
      <3>2. KeepsGoing(f)
        BY <1>4, <2>1, <3>1, SameWantsFacts DEF KeepsGoing
      <3> QED
        BY <3>1, <3>2, SameWantsFacts, KeepsMoving
    <2>3. CASE f = e /\ ~a.queued
      <3>1. PICK h \in Hooks : /\ hooks'[e] = <<h>> /\ h.unqueued = HooksOf(e).unqueued + 1
                               /\ h.stop = HooksOf(e).stop
        BY <1>1, <1>9, <2>3 DEF AnimateHooks
      <3>2. hooks'[e] # <<>> /\ HooksOf(e)' = h
        BY <1>1, <3>1, HooksAfter
      <3>3. Delayed(e) => Delayed(e)'
        BY <1>5, <2>3, <3>1, <3>2 DEF Delayed
      <3>4. HooksOf(e).unqueued \in Int /\ (hooks[e] = <<>> => HooksOf(e).unqueued = 0)
        BY <1>1, HooksFacts DEF Hooks
      <3>5. Wants(e)' => Wants(e)
        BY <1>3, <3>1, <3>2, <3>4 DEF Wants
      <3>6. KeepsGoing(e)
        BY <1>4, <2>1, <2>3, <3>3 DEF KeepsGoing
      <3> QED
        BY <2>3, <3>5, <3>6, KeepsMoving
    <2> QED
      BY <1>11, <2>2, <2>3
  <1> QED
    BY <1>10, <1>11

\* When no queue changes.
LEMMA QueuesSpared ==
  ASSUME NEW f, UNCHANGED <<queue, hooks>>, timeouts \subseteq timeouts'
  PROVE  SameWants(f)
  <1>1. DelaysOf(f) \subseteq DelaysOf(f)'
    BY DEF DelaysOf
  <1> QED
    BY <1>1, WantsStay

\* When no animation ends either.
LEMMA AllSpared ==
  ASSUME Types, NEW f, Moving(f), UNCHANGED <<queue, hooks>>, timeouts \subseteq timeouts', StatesKeep,
         \A x \in Of(f) : MovesOn(x) => x \in Items(agenda')
  PROVE  Moving(f)'
  <1>1. SameWants(f)
    BY QueuesSpared
  <1>2. KeepsGoing(f)
    BY <1>1, StatesKeepQueued, SameWantsFacts DEF KeepsGoing
  <1> QED
    BY <1>1, <1>2, SameWantsFacts, KeepsMoving

\* When something is taken from the agenda that moves on no queue.
LEMMA Passing ==
  ASSUME Types, NEW f, Moving(f), UNCHANGED <<queue, hooks>>, timeouts \subseteq timeouts', StatesKeep,
         agenda # <<>>, Todo.op = "tick" \/ ~MovesOn(Todo), Items(Rest) \subseteq Items(agenda')
  PROVE  Moving(f)'
  <1>1. \A x \in Of(f) : MovesOn(x) => x \in Items(agenda')
    BY SparesFacts DEF Spares
  <1> QED
    BY <1>1, AllSpared

\* An animation ends with which the queue goes on, and nothing else is taken away.
LEMMA Resolving ==
  ASSUME Types, NEW n, Settled(n, "resolved"), NEW f, Moving(f),
         UNCHANGED <<queue, hooks>>, timeouts \subseteq timeouts',
         agenda # <<>>, Todo.op = "tick" \/ ~MovesOn(Todo), Items(Rest) \subseteq Items(agenda'),
         animations[n].queued => DequeueDo(animations[n].e) \in Items(agenda')
  PROVE  Moving(f)'
  <1>1. SameWants(f)
    BY QueuesSpared
  <1>2. \A x \in Of(f) : MovesOn(x) => x \in Items(agenda')
    BY SparesFacts DEF Spares
  <1>3. ASSUME n \in QueuedOf(f) PROVE Moving(f)'
    <2>1. animations[n].queued /\ animations[n].e = f
      BY <1>3 DEF QueuedOf, Begun
    <2> QED
      BY <2>1, DequeueMoves
  <1> QED
    BY <1>1, <1>2, <1>3, SettledMoving

LEMMA AnimatedMoving ==
  ASSUME Types, Animated, NEW f \in Elements, Moving(f)
  PROVE  Moving(f)'
  <1>1. /\ agenda # <<>> /\ Todo.op = "animated"
        /\ \/ Settled(Todo.a, "resolved") /\ AfterSettled(Todo.a, "resolved", Rest)
           \/ animations' = animations /\ agenda' = Rest
    BY AnimatedFacts
  <1>2. queue' = queue /\ hooks' = hooks /\ timeouts' = timeouts
    BY DEF Animated, data, clock
  <1>3. IsSeq(Rest) /\ ~MovesOn(Todo)
    BY <1>1, RestFacts DEF MovesOn
  <1>4. CASE animations' = animations /\ agenda' = Rest
    BY <1>1, <1>2, <1>3, <1>4, SameAnimations, Passing
  <1>5. CASE Settled(Todo.a, "resolved") /\ AfterSettled(Todo.a, "resolved", Rest)
    <2> PICK n : n = Todo.a
      OBVIOUS
    <2>1. /\ Items(Rest) \subseteq Items(agenda')
          /\ animations[n].queued => DequeueDo(animations[n].e) \in Items(agenda')
      BY <1>3, <1>5, SettledItems
    <2> QED
      BY <1>1, <1>2, <1>3, <1>5, <2>1, Resolving
  <1> QED
    BY <1>1, <1>4, <1>5

LEMMA TickTimerMoving ==
  ASSUME Types, TickTimer, NEW f \in Elements, Moving(f)
  PROVE  Moving(f)'
  <1> PICK i : i = Todo.i
    OBVIOUS
  <1>1. /\ agenda # <<>> /\ Todo.op = "tick" /\ timers[i] \in DOMAIN animations
        /\ TimerStopped(i) \/ TimerGoesOn(i) \/ TimerEnds(i)
    BY TickTimerFacts
  <1>2. queue' = queue /\ hooks' = hooks /\ timeouts' = timeouts
    BY DEF TickTimer, data
  <1>3. IsSeq(Rest)
    BY <1>1, RestFacts
  <1>4. CASE TimerStopped(i) \/ TimerGoesOn(i)
    <2>1. StatesKeep /\ \E k : agenda' = Cons(TickAt(k), Rest)
      BY <1>4 DEF TimerStopped, TimerGoesOn
    <2>2. Items(Rest) \subseteq Items(agenda')
      BY <1>3, <2>1, BehindOne
    <2> QED
      BY <1>1, <1>2, <2>1, <2>2, Passing
  <1>5. CASE TimerEnds(i)
    <2> PICK n : n = timers[i]
      OBVIOUS
    <2> PICK s : s = Cons(TickedDo(animations[n].e, n, i), Rest)
      OBVIOUS
    <2>1. /\ Settled(n, "resolved")
          /\ \/ Pending(n) /\ AfterSettled(n, "resolved", s)
             \/ ~Pending(n) /\ agenda' = s
      BY <1>5 DEF TimerEnds
    <2>2. IsSeq(s) /\ Items(Rest) \subseteq Items(s)
      BY <1>3, ConsFacts
    <2>3. Items(Rest) \subseteq Items(agenda')
      BY <2>1, <2>2, SettledItems
    <2>4. CASE Pending(n) /\ AfterSettled(n, "resolved", s)
      <3>1. animations[n].queued => DequeueDo(animations[n].e) \in Items(agenda')
        BY <2>2, <2>4, SettledItems
      <3> QED
        BY <1>1, <1>2, <2>1, <2>3, <3>1, Resolving
    <2>5. CASE ~Pending(n)
      <3>1. n \notin QueuedOf(f)
        BY <2>5 DEF QueuedOf, Begun
      <3>2. \A x \in Of(f) : MovesOn(x) => x \in Items(agenda')
        BY <1>1, <2>3, SparesFacts DEF Spares
      <3>3. SameWants(f)
        BY <1>2, QueuesSpared
      <3> QED
        BY <2>1, <3>1, <3>2, <3>3, SettledMoving
    <2> QED
      BY <2>1, <2>4, <2>5
  <1> QED
    BY <1>1, <1>4, <1>5

\* What neither a queue nor an animation comes to an end with.
LEMMA QuietMoving ==
  ASSUME Types, Ticked \/ TickEnds \/ Tick \/ Return \/ FinishEnds \/ FinishQueue, NEW f \in Elements, Moving(f)
  PROVE  Moving(f)'
  <1>1. CASE Ticked
    <2> PICK i : i = Todo.i
      OBVIOUS
    <2>1. /\ agenda # <<>> /\ Todo.op = "ticked" /\ \E k : agenda' = Cons(TickAt(k), Rest)
      BY <1>1, TickedFacts
    <2>2. queue' = queue /\ hooks' = hooks /\ timeouts' = timeouts /\ animations' = animations
      BY <1>1 DEF Ticked, data
    <2>3. Items(Rest) \subseteq Items(agenda') /\ ~MovesOn(Todo)
      BY <2>1, RestFacts, BehindOne DEF MovesOn
    <2> QED
      BY <2>1, <2>2, <2>3, SameAnimations, Passing
  <1>2. CASE TickEnds
    <2>1. agenda # <<>> /\ Todo.op = "tick" /\ StatesKeep /\ agenda' = Rest
      BY <1>2, TickEndsFacts
    <2>2. queue' = queue /\ hooks' = hooks /\ timeouts' = timeouts
      BY <1>2 DEF TickEnds, data
    <2> QED
      BY <2>1, <2>2, Passing
  <1>3. CASE Tick
    <2>1. agenda = <<>> /\ agenda' = Cons(TickAt(1), agenda) /\ IsSeq(agenda)
      BY <1>3, TickFacts DEF Types
    <2>2. queue' = queue /\ hooks' = hooks /\ timeouts' = timeouts /\ animations' = animations
      BY <1>3 DEF Tick, data, clock
    <2>3. Items(agenda) \subseteq Items(agenda')
      BY <2>1, BehindOne
    <2>4. \A x \in Of(f) : MovesOn(x) => x \in Items(agenda')
      BY <2>3 DEF Of
    <2> QED
      BY <2>2, <2>4, SameAnimations, AllSpared
  <1>4. CASE Return \/ FinishEnds
    <2>1. agenda # <<>> /\ Todo.op \in {"run", "halt"} /\ (Todo.op = "halt" => Todo.how = "finish") /\ agenda' = Rest
      BY <1>4 DEF Return, FinishEnds, IsNext
    <2>2. queue' = queue /\ hooks' = hooks /\ timeouts' = timeouts /\ animations' = animations
      BY <1>4 DEF Return, FinishEnds, data, clock
    <2>3. ~MovesOn(Todo)
      BY <2>1 DEF MovesOn
    <2> QED
      BY <2>1, <2>2, <2>3, SameAnimations, Passing
  <1>5. CASE FinishQueue
    <2> PICK x : x = Todo
      OBVIOUS
    <2>1. /\ agenda # <<>> /\ x.op = "halt" /\ x.how = "finish"
          /\ \E y : \/ agenda' = Cons(y, Rest)
                    \/ \E z : agenda' = Cons(z, Cons(y, Rest))
      BY <1>5, FinishQueueFacts
    <2>2. queue' = queue /\ hooks' = hooks /\ timeouts' = timeouts /\ animations' = animations
      BY <1>5 DEF FinishQueue, data, clock
    <2>3. ~MovesOn(Todo)
      BY <2>1 DEF MovesOn
    <2>4. IsSeq(Rest)
      BY <2>1, RestFacts
    <2>5. Items(Rest) \subseteq Items(agenda')
      BY <2>1, <2>4, BehindOne, BehindTwo
    <2> QED
      BY <2>1, <2>2, <2>3, <2>5, SameAnimations, Passing
  <1> QED
    BY <1>1, <1>2, <1>3, <1>4, <1>5

LEMMA TimeoutMoving ==
  ASSUME Types, TimeoutFires, NEW f \in Elements, Moving(f)
  PROVE  Moving(f)'
  <1>1. agenda = <<>> /\ IsSeq(agenda)
    BY TimeoutFacts DEF Types
  <1>2. PICK e \in Elements, t \in timeouts : /\ t[2] = e /\ timeouts' = timeouts \ {t}
                                               /\ agenda' = Cons(DequeueDo(e), agenda)
    BY TimeoutFacts
  <1>3. queue' = queue /\ hooks' = hooks /\ animations' = animations
    BY DEF TimeoutFires, data
  <1>4. Items(agenda) \subseteq Items(agenda') /\ DequeueDo(e) \in Items(agenda')
    BY <1>1, <1>2, BehindOne
  <1>5. CASE f = e
    BY <1>4, <1>5, DequeueMoves
  <1>6. CASE f # e
    <2>1. DelaysOf(f) \subseteq DelaysOf(f)'
      BY <1>2, <1>6 DEF DelaysOf
    <2>2. SameWants(f)
      BY <1>3, <2>1, WantsStay
    <2>3. \A x \in Of(f) : MovesOn(x) => x \in Items(agenda')
      BY <1>4 DEF Of
    <2>4. KeepsGoing(f)
      BY <1>3, <2>2, <2>3, SameAnimations, StatesKeepQueued, SameWantsFacts DEF KeepsGoing
    <2> QED
      BY <2>2, <2>4, SameWantsFacts, KeepsMoving
  <1> QED
    BY <1>5, <1>6

\* A delay that another element tells its hooks is none of this one.
LEMMA OthersDelays ==
  ASSUME Types, IdsOwn, NEW e \in Elements, NEW f \in Elements, e # f, NEW t \in DelaysOf(f)
  PROVE  t[1] # HooksOf(e).stop
  <1>1. t[1] \in Ids(f) /\ (HooksOf(e).stop # 0 => HooksOf(e).stop \in Ids(e))
    BY IdsParts
  <1>2. Ids(f) \subseteq 1..calls /\ Ids(e) \cap Ids(f) = {}
    BY DEF IdsOwn
  <1>3. t[1] # 0
    BY <1>1, <1>2
  <1> QED
    BY <1>1, <1>2, <1>3

LEMMA StopBeginsMoving ==
  ASSUME Types, IdsOwn, StopBegins, NEW f \in Elements, Moving(f)
  PROVE  Moving(f)'
  <1> PICK e : e = Todo.e
    OBVIOUS
  <1>1. /\ e \in Elements /\ agenda # <<>> /\ Todo.op = "stop" /\ Todo.how \in {"rejected", "resolved"}
        /\ \A g \in Elements \ {e} : hooks'[g] = hooks[g]
        /\ timeouts' = timeouts \ Mine(e)
        /\ \/ hooks[e] = <<>> /\ hooks'[e] = <<>>
           \/ hooks[e] # <<>> /\ \E h \in Hooks : /\ hooks'[e] = <<h>> /\ h.stop = 0
                                                  /\ h.unqueued = HooksOf(e).unqueued
    BY StopBeginsFacts
  <1>2. PICK items : /\ (items = <<>> <=> Mine(e) = {})
                     /\ agenda' = Cons(HaltAt(e, Len(timers), Todo.how, items), Rest)
    BY StopBeginsFacts
  <1> PICK y : y = HaltAt(e, Len(timers), Todo.how, items)
    OBVIOUS
  <1>3. y.op = "halt" /\ y.e = e /\ y.how = Todo.how /\ y.items = items
    BY HaltThings
  <1>4. Items(Rest) \subseteq Items(agenda') /\ y \in Items(agenda')
    BY <1>1, <1>2, RestFacts, BehindOne
  <1>5. queue' = queue /\ animations' = animations
    BY DEF StopBegins
  <1>6. QueuedOf(f)' = QueuedOf(f)
    BY <1>5, SameAnimations, StatesKeepQueued
  <1>7. hooks[e] # <<>> => hooks[e][1] = HooksOf(e)
    BY DEF HooksOf
  <1>8. CASE f # e
    <2>1. \A x \in Of(f) : MovesOn(x) => x \in Items(agenda')
      BY <1>1, <1>4, <1>8, SparesFacts DEF Spares
    <2>2. \A t \in DelaysOf(f) : t \notin Mine(e)
      BY <1>1, <1>7, <1>8, OthersDelays DEF Mine
    <2>3. DelaysOf(f) \subseteq DelaysOf(f)'
      BY <1>1, <2>2 DEF DelaysOf
    <2>4. SameWants(f)
      BY <1>1, <1>5, <1>8, <2>3, WantsStay
    <2>5. KeepsGoing(f)
      BY <1>6, <2>1, <2>4, SameWantsFacts DEF KeepsGoing
    <2> QED
      BY <2>4, <2>5, SameWantsFacts, KeepsMoving
  <1>9. CASE f = e /\ MovesOn(y)
    BY <1>3, <1>4, <1>9, ThingMoves
  <1>10. CASE f = e /\ ~MovesOn(y)
    <2>1. Todo.how = "resolved" /\ items = <<>>
      BY <1>1, <1>3, <1>10 DEF MovesOn
    <2>2. \A x \in Of(e) : MovesOn(x) => x \in Items(agenda')
      BY <1>1, <1>4, <2>1, SparesFacts DEF Spares, MovesOn
    <2>3. ~Delayed(e)
      BY <1>2, <1>7, <2>1 DEF Delayed, Mine, DelaysOf
    <2>4. KeepsGoing(e)
      BY <1>6, <1>10, <2>2, <2>3 DEF KeepsGoing
    <2>5. Wants(e)' => Wants(e)
      <3>1. CASE hooks[e] = <<>>
        BY <1>1, <1>5, <3>1 DEF Wants
      <3>2. CASE hooks[e] # <<>>
        <4>1. PICK h : hooks'[e] = <<h>> /\ h.unqueued = HooksOf(e).unqueued
          BY <1>1, <3>2
        <4>2. HooksOf(e)'.unqueued = HooksOf(e).unqueued
          BY <1>1, <4>1, HooksAfter
        <4> QED
          BY <1>5, <3>2, <4>2 DEF Wants
      <3> QED
        BY <3>1, <3>2
    <2> QED
      BY <1>10, <2>4, <2>5, KeepsMoving
  <1> QED
    BY <1>8, <1>9, <1>10

\* The next step of a loop moves the queue on when the step before does.
LEMMA LoopMoves ==
  ASSUME NEW x, NEW y, y.op \in {"halt", "splice"}, y.how = x.how, y.items = x.items,
         x.op \in {"halt", "splice"}, MovesOn(x)
  PROVE  MovesOn(y)
  BY DEF MovesOn

LEMMA HaltTimerMoving ==
  ASSUME Types, HaltTimer, ~fate'.wronged, NEW f \in Elements, Moving(f)
  PROVE  Moving(f)'
  <1> PICK x : x = Todo
    OBVIOUS
  <1> PICK i : i = Todo.i
    OBVIOUS
  <1>1. /\ agenda # <<>> /\ x.op = "halt" /\ x.e \in Elements /\ i > 0
        /\ HaltFails \/ HaltPasses(x, i) \/ \E n, how : HaltStops(x, i, n, how)
    BY HaltTimerFacts
  <1>2. queue' = queue /\ hooks' = hooks /\ timeouts' = timeouts
    BY DEF HaltTimer, data, clock
  <1>3. IsSeq(Rest)
    BY <1>1, RestFacts
  <1>4. SameWants(f)
    BY <1>2, QueuesSpared
  <1>5. ~HaltFails
    BY DEF HaltFails
  <1>6. CASE HaltPasses(x, i)
    <2> PICK y : y = Do("halt", x.e, x.a, i - 1, x.how, x.items)
      OBVIOUS
    <2>1. y.op = "halt" /\ y.e = x.e /\ y.how = x.how /\ y.items = x.items
      BY DoFields
    <2>2. animations' = animations /\ agenda' = Cons(y, Rest)
      BY <1>6 DEF HaltPasses
    <2>3. Items(Rest) \subseteq Items(agenda') /\ y \in Items(agenda')
      BY <1>3, <2>2, BehindOne
    <2>4. CASE f = x.e /\ MovesOn(x)
      <3>1. MovesOn(y)
        BY <1>1, <2>1, <2>4, LoopMoves
      <3> QED
        BY <2>1, <2>3, <2>4, <3>1, ThingMoves
    <2>5. CASE f # x.e \/ ~MovesOn(x)
      <3>1. \A z \in Of(f) : MovesOn(z) => z \in Items(agenda')
        BY <1>1, <2>3, <2>5, SparesFacts DEF Spares
      <3> QED
        BY <1>2, <2>2, <3>1, SameAnimations, AllSpared
    <2> QED
      BY <2>4, <2>5
  <1>7. ASSUME NEW n, NEW how, HaltStops(x, i, n, how) PROVE Moving(f)'
    <2> PICK y : y = Do("splice", x.e, n, i, x.how, x.items)
      OBVIOUS
    <2>1. y.op = "splice" /\ y.e = x.e /\ y.how = x.how /\ y.items = x.items
      BY DoFields
    <2> PICK s : s = Cons(y, Rest)
      OBVIOUS
    <2>2. IsSeq(s) /\ Items(Rest) \subseteq Items(s) /\ y \in Items(s)
      BY <1>3, ConsFacts
    <2>3. /\ animations[n].e = x.e /\ Settled(n, how) /\ AfterSettled(n, how, s)
          /\ how = IF x.how = "rejected" THEN "rejected" ELSE "resolved"
      BY <1>7 DEF HaltStops
    <2>4. Items(Rest) \subseteq Items(agenda') /\ y \in Items(agenda')
      BY <2>2, <2>3, SettledItems
    <2>5. CASE f = x.e /\ MovesOn(x)
      <3>1. MovesOn(y)
        BY <1>1, <2>1, <2>5, LoopMoves
      <3> QED
        BY <2>1, <2>4, <2>5, <3>1, ThingMoves
    <2>6. CASE f # x.e
      <3>1. \A z \in Of(f) : MovesOn(z) => z \in Items(agenda')
        BY <1>1, <2>4, <2>6, SparesFacts DEF Spares
      <3>2. n \notin QueuedOf(f)
        BY <2>3, <2>6 DEF QueuedOf, Begun
      <3> QED
        BY <1>4, <2>3, <3>1, <3>2, SettledMoving
    <2>7. CASE ~MovesOn(x)
      <3>1. how = "resolved"
        BY <1>1, <2>3, <2>7 DEF MovesOn
      <3>2. animations[n].queued => DequeueDo(animations[n].e) \in Items(agenda')
        BY <2>2, <2>3, <3>1, SettledItems
      <3>3. Settled(n, "resolved")
        BY <2>3, <3>1
      <3> QED
        BY <1>1, <1>2, <2>4, <2>7, <3>2, <3>3, Resolving
    <2> QED
      BY <2>5, <2>6, <2>7
  <1> QED
    BY <1>1, <1>5, <1>6, <1>7

LEMMA SpliceMoving ==
  ASSUME Types, Splice, NEW f \in Elements, Moving(f)
  PROVE  Moving(f)'
  <1> PICK x : x = Todo
    OBVIOUS
  <1> PICK i : i = Todo.i
    OBVIOUS
  <1>1. /\ agenda # <<>> /\ x.op = "splice" /\ x.e \in Elements
        /\ agenda' = Cons(Do("halt", x.e, x.a, i - 1, x.how, x.items), Rest)
    BY SpliceFacts
  <1>2. queue' = queue /\ hooks' = hooks /\ timeouts' = timeouts /\ animations' = animations
    BY DEF Splice, data
  <1> PICK y : y = Do("halt", x.e, x.a, i - 1, x.how, x.items)
    OBVIOUS
  <1>3. y.op = "halt" /\ y.e = x.e /\ y.how = x.how /\ y.items = x.items
    BY DoFields
  <1>4. Items(Rest) \subseteq Items(agenda') /\ y \in Items(agenda')
    BY <1>1, RestFacts, BehindOne
  <1>5. CASE f = x.e /\ MovesOn(x)
    <2>1. MovesOn(y)
      BY <1>1, <1>3, <1>5, LoopMoves
    <2> QED
      BY <1>3, <1>4, <1>5, <2>1, ThingMoves
  <1>6. CASE f # x.e \/ ~MovesOn(x)
    <2>1. \A z \in Of(f) : MovesOn(z) => z \in Items(agenda')
      BY <1>1, <1>4, <1>6, SparesFacts DEF Spares
    <2> QED
      BY <1>2, <2>1, SameAnimations, AllSpared
  <1> QED
    BY <1>5, <1>6

LEMMA StopEndsMoving ==
  ASSUME Types, StopEnds, NEW f \in Elements, Moving(f), f \notin fate'.forgotten
  PROVE  Moving(f)'
  <1> PICK x : x = Todo
    OBVIOUS
  <1>1. /\ agenda # <<>> /\ x.op = "halt" /\ x.e \in Elements
        /\ x.how \in {"rejected", "resolved"}
        /\ \/ agenda' = Cons(DequeueDo(x.e), Rest)
           \/ /\ x.how = "resolved" /\ agenda' = Rest
              /\ fate'.forgotten = IF x.items # <<>> THEN fate.forgotten \cup {x.e} ELSE fate.forgotten
    BY StopEndsFacts
  <1>2. queue' = queue /\ hooks' = hooks /\ timeouts' = timeouts /\ animations' = animations
    BY DEF StopEnds, data, clock
  <1>3. Items(Rest) \subseteq Items(agenda')
    BY <1>1, RestFacts, BehindOne
  <1>4. CASE f # x.e \/ ~MovesOn(x)
    <2>1. \A z \in Of(f) : MovesOn(z) => z \in Items(agenda')
      BY <1>1, <1>3, <1>4, SparesFacts DEF Spares
    <2> QED
      BY <1>2, <2>1, SameAnimations, AllSpared
  <1>5. CASE f = x.e /\ MovesOn(x)
    <2>1. agenda' = Cons(DequeueDo(x.e), Rest)
      BY <1>1, <1>5 DEF MovesOn
    <2>2. DequeueDo(x.e) \in Items(agenda')
      BY <1>1, <2>1, RestFacts, BehindOne
    <2> QED
      BY <1>5, <2>2, DequeueMoves
  <1> QED
    BY <1>4, <1>5

LEMMA CallQueueMoving ==
  ASSUME Types, NEW e \in Elements, NEW item, ItemOK(item), CallQueue(e, item), NEW f \in Elements, Moving(f)
  PROVE  Moving(f)'
  <1>1. /\ OnlyOf(e) /\ queue'[e] # <<>> /\ hooks'[e] = <<HooksOf(e)>>
        /\ agenda' = IF QueueStarts(e) THEN Cons(DequeueDo(e), agenda) ELSE agenda
    BY CallQueueFacts DEF CallQueueAfter
  <1>2. animations' = animations /\ timeouts' = timeouts
    BY DEF CallQueue, clock
  <1>3. IsSeq(agenda)
    BY DEF Types
  <1>4. Items(agenda) \subseteq Items(agenda') /\ (QueueStarts(e) => DequeueDo(e) \in Items(agenda'))
    BY <1>1, <1>3, BehindOne
  <1>5. \A x \in Of(f) : MovesOn(x) => x \in Items(agenda')
    BY <1>4 DEF Of
  <1>6. QueuedOf(f)' = QueuedOf(f) /\ DelaysOf(f)' = DelaysOf(f)
    BY <1>2, SameAnimations, StatesKeepQueued DEF DelaysOf
  <1>7. CASE f # e
    <2>1. SameWants(f)
      BY <1>1, <1>6, <1>7, WantsStay DEF OnlyOf
    <2>2. KeepsGoing(f)
      BY <1>5, <1>6, <2>1, SameWantsFacts DEF KeepsGoing
    <2> QED
      BY <2>1, <2>2, SameWantsFacts, KeepsMoving
  <1>8. CASE f = e /\ QueueStarts(e)
    BY <1>4, <1>8, DequeueMoves
  <1>9. CASE f = e /\ ~QueueStarts(e)
    <2>1. Wants(e)
      BY <1>9 DEF QueueStarts, Wants
    <2>2. hooks'[e] # <<>> /\ HooksOf(e)' = HooksOf(e)
      BY <1>1, HooksAfter
    <2>3. Delayed(e) => Delayed(e)'
      BY <1>6, <1>9, <2>2 DEF Delayed
    <2>4. KeepsGoing(e)
      BY <1>5, <1>6, <1>9, <2>3 DEF KeepsGoing
    <2> QED
      BY <1>9, <2>1, <2>4, KeepsMoving
  <1> QED
    BY <1>7, <1>8, <1>9

\* A call about e that leaves the hooks alone, and ends no delay.
LEMMA CallMoving ==
  ASSUME Types, NEW e \in Elements, UNCHANGED <<hooks, animations, timeouts>>,
         Items(agenda) \subseteq Items(agenda'),
         \A g \in Elements \ {e} : queue'[g] = queue[g],
         queue'[e] = <<>> \/ queue'[e] = queue[e], NEW f \in Elements, Moving(f)
  PROVE  Moving(f)'
  <1>1. \A x \in Of(f) : MovesOn(x) => x \in Items(agenda')
    BY DEF Of
  <1>2. QueuedOf(f)' = QueuedOf(f) /\ DelaysOf(f)' = DelaysOf(f)
    BY SameAnimations, StatesKeepQueued DEF DelaysOf
  <1>3. HooksOf(f)' = HooksOf(f)
    BY DEF HooksOf, NewHooks
  <1>4. Wants(f)' => Wants(f)
    BY <1>3 DEF Wants
  <1>5. Delayed(f) => Delayed(f)'
    BY <1>2, <1>3 DEF Delayed
  <1>6. KeepsGoing(f)
    BY <1>1, <1>2, <1>5 DEF KeepsGoing
  <1> QED
    BY <1>4, <1>6, KeepsMoving

LEMMA CallFinishMoving ==
  ASSUME Types, IdsOwn, NEW e \in Elements, CallFinish(e), NEW f \in Elements, Moving(f), f \notin fate'.forgotten
  PROVE  Moving(f)'
  <1>1. /\ agenda' = Cons(HaltAt(e, Len(timers), "finish", queue[e]), agenda)
        /\ \A g \in Elements \ {e} : queue'[g] = queue[g]
        /\ queue'[e] = <<>>
        /\ timeouts' = {t \in timeouts : hooks[e] = <<>> \/ t[1] # hooks[e][1].stop}
        /\ fate'.forgotten = IF timeouts' # timeouts THEN fate.forgotten \cup {e} ELSE fate.forgotten
    BY CallFinishFacts
  <1>2. hooks' = hooks /\ animations' = animations
    BY DEF CallFinish
  <1>3. Items(agenda) \subseteq Items(agenda')
    BY <1>1, BehindOne DEF Types
  <1>4. CASE timeouts' = timeouts
    BY <1>1, <1>2, <1>3, <1>4, CallMoving
  <1>5. CASE timeouts' # timeouts
    <2>1. f # e
      BY <1>1, <1>5
    <2>2. hooks[e] # <<>> => hooks[e][1] = HooksOf(e)
      BY DEF HooksOf
    <2>3. \A t \in DelaysOf(f) : hooks[e] = <<>> \/ t[1] # hooks[e][1].stop
      BY <2>1, <2>2, OthersDelays
    <2>4. DelaysOf(f) \subseteq DelaysOf(f)'
      BY <1>1, <2>3 DEF DelaysOf
    <2>5. SameWants(f)
      BY <1>1, <1>2, <2>1, <2>4, WantsStay
    <2>6. \A x \in Of(f) : MovesOn(x) => x \in Items(agenda')
      BY <1>3 DEF Of
    <2>7. KeepsGoing(f)
      BY <1>2, <2>5, <2>6, SameAnimations, StatesKeepQueued, SameWantsFacts DEF KeepsGoing
    <2> QED
      BY <2>5, <2>7, SameWantsFacts, KeepsMoving
  <1> QED
    BY <1>4, <1>5

LEMMA CallPromiseMoving ==
  ASSUME Types, CallPromise, NEW f \in Elements, Moving(f)
  PROVE  Moving(f)'
  <1> PICK p : p = Len(promises) + 1
    OBVIOUS
  <1>1. /\ agenda' = agenda
        /\ \A e \in Elements :
             \/ hooks[e] = <<>> /\ hooks'[e] = <<>>
             \/ hooks[e] # <<>> /\ \E h \in Hooks : /\ hooks'[e] = <<h>> /\ h.stop = HooksOf(e).stop
                                                    /\ h.unqueued = HooksOf(e).unqueued
    BY CallPromiseFacts
  <1>2. queue' = queue /\ animations' = animations /\ timeouts' = timeouts
    BY DEF CallPromise, clock
  <1>3. /\ hooks'[f] = <<>> <=> hooks[f] = <<>>
        /\ HooksOf(f)'.stop = HooksOf(f).stop /\ HooksOf(f)'.unqueued = HooksOf(f).unqueued
    <2>1. CASE hooks[f] = <<>>
      BY <1>1, <2>1, HooksAfter, HooksFacts
    <2>2. CASE hooks[f] # <<>>
      BY <1>1, <2>2, HooksAfter
    <2> QED
      BY <2>1, <2>2
  <1>4. DelaysOf(f)' = DelaysOf(f)
    BY <1>2 DEF DelaysOf
  <1>5. SameWants(f)
    BY <1>2, <1>3, <1>4 DEF SameWants
  <1>6. KeepsGoing(f)
    BY <1>1, <1>2, <1>5, SameAnimations, StatesKeepQueued, SameWantsFacts DEF KeepsGoing, Of
  <1> QED
    BY <1>5, <1>6, SameWantsFacts, KeepsMoving

LEMMA UserMoving ==
  ASSUME Types, IdsOwn, User, NEW f \in Elements, Moving(f), f \notin fate'.forgotten
  PROVE  Moving(f)'
  <1>1. CASE CallPromise
    BY <1>1, CallPromiseMoving
  <1>2. IsSeq(agenda)
    BY DEF Types
  <1>3. ASSUME NEW e \in Elements, NEW goal, NEW duration, NEW queued \in BOOLEAN,
               CallAnimate(e, goal, duration, queued)
        PROVE  Moving(f)'
    <2>1. \/ \E item : ItemOK(item) /\ CallQueue(e, item)
          \/ /\ UNCHANGED <<data, style, animations, clock, promises>>
             /\ \E x : agenda' = Cons(x, agenda)
      BY <1>3, CallAnimateFacts
    <2>2. ASSUME NEW item, ItemOK(item), CallQueue(e, item) PROVE Moving(f)'
      BY <2>2, CallQueueMoving
    <2>3. ASSUME UNCHANGED <<data, style, animations, clock, promises>>, NEW x, agenda' = Cons(x, agenda)
          PROVE  Moving(f)'
      <3>1. Items(agenda) \subseteq Items(agenda')
        BY <1>2, <2>3, BehindOne
      <3> QED
        BY <2>3, <3>1, CallMoving DEF data, clock
    <2> QED
      BY <2>1, <2>2, <2>3
  <1>4. ASSUME NEW e \in Elements, CallQueue(e, FunctionItem) PROVE Moving(f)'
    BY <1>4, QueuedItems, CallQueueMoving
  <1>5. ASSUME NEW e \in Elements, CallQueue(e, DelayItem(calls + 1)) PROVE Moving(f)'
    BY <1>5, QueuedItems, CallQueueMoving
  <1>6. ASSUME NEW e \in Elements, NEW clear \in BOOLEAN, CallDequeue(e, clear) PROVE Moving(f)'
    <2>1. /\ agenda' = Cons(DequeueDo(e), agenda) /\ \A g \in Elements \ {e} : queue'[g] = queue[g]
          /\ queue'[e] = <<>> \/ queue'[e] = queue[e]
      BY <1>6, CallDequeueFacts
    <2>2. Items(agenda) \subseteq Items(agenda')
      BY <1>2, <2>1, BehindOne
    <2>3. UNCHANGED <<hooks, animations, timeouts>>
      BY <1>6 DEF CallDequeue, clock
    <2> QED
      BY <2>1, <2>2, <2>3, CallMoving
  <1>7. ASSUME NEW e \in Elements, NEW clear \in BOOLEAN, NEW gotoEnd, CallStop(e, clear, gotoEnd)
        PROVE  Moving(f)'
    <2>1. /\ \E x, y : agenda' = Cons(x, agenda) \/ agenda' = Cons(x, Cons(y, agenda))
          /\ \A g \in Elements \ {e} : queue'[g] = queue[g]
          /\ queue'[e] = <<>> \/ queue'[e] = queue[e]
      BY <1>7, CallStopFacts
    <2>2. Items(agenda) \subseteq Items(agenda')
      BY <1>2, <2>1, BehindOne, BehindTwo
    <2>3. UNCHANGED <<hooks, animations, timeouts>>
      BY <1>7 DEF CallStop, clock
    <2> QED
      BY <2>1, <2>2, <2>3, CallMoving
  <1>8. ASSUME NEW e \in Elements, CallFinish(e) PROVE Moving(f)'
    BY <1>8, CallFinishMoving
  <1> QED
    BY <1>1, <1>3, <1>4, <1>5, <1>6, <1>7, <1>8 DEF User

\* The history only grows.
FateGrows ==
  /\ fate.forgotten \subseteq fate'.forgotten /\ fate.manual \subseteq fate'.manual
  /\ fate.wronged => fate'.wronged

LEMMA FateStep ==
  ASSUME Types, [Next]_vars
  PROVE  FateGrows
  <1>1. CASE fate' = fate
    BY <1>1 DEF FateGrows
  <1>2. CASE Animate \/ Animated \/ Ticked
    <2>1. FateKeeps
      BY <1>2, AnimateFacts, AnimatedFacts, TickedFacts
    <2> QED
      BY <2>1 DEF FateKeeps, FateGrows
  <1>3. CASE HaltTimer
    <2>1. HaltFails \/ FateKeeps
      BY <1>3, HaltTimerFacts DEF HaltPasses, HaltStops
    <2>2. fate' = [fate EXCEPT !.wronged = TRUE] \/ fate' = fate
      BY <1>3 DEF HaltTimer
    <2>3. fate'.forgotten = fate.forgotten /\ fate'.manual = fate.manual
      BY <2>2 DEF Types
    <2> QED
      BY <2>1, <2>3 DEF FateGrows, HaltFails, FateKeeps
  <1>4. CASE Splice
    <2>1. /\ fate'.forgotten = fate.forgotten /\ fate'.manual = fate.manual
          /\ fate'.wronged \in BOOLEAN /\ (~fate'.wronged => ~fate.wronged)
      BY <1>4, SpliceFacts
    <2> QED
      BY <2>1 DEF FateGrows
  <1>5. CASE StopEnds
    <2>1. /\ fate'.wronged = fate.wronged /\ fate'.manual = fate.manual
          /\ fate.forgotten \subseteq fate'.forgotten
      BY <1>5, StopEndsFacts
    <2> QED
      BY <2>1 DEF FateGrows
  <1>6. ASSUME NEW e \in Elements, NEW manual, FateMoves(e, manual) PROVE FateGrows
    BY <1>6 DEF FateMoves, FateGrows
  <1>7. ASSUME NEW e \in Elements, NEW item, ItemOK(item), CallQueue(e, item) PROVE FateGrows
    BY <1>6, <1>7, CallQueueFacts DEF CallQueueAfter
  <1>8. ASSUME NEW e \in Elements, NEW goal, NEW duration, NEW queued \in BOOLEAN,
               CallAnimate(e, goal, duration, queued)
        PROVE  FateGrows
    BY <1>6, <1>7, <1>8, CallAnimateFacts
  <1>9. ASSUME NEW e \in Elements, CallQueue(e, FunctionItem) PROVE FateGrows
    BY <1>7, <1>9, ItemFacts DEF ItemOK
  <1>10. ASSUME NEW e \in Elements, CallQueue(e, DelayItem(calls + 1)) PROVE FateGrows
    BY <1>7, <1>10, QueuedItems
  <1>11. ASSUME NEW e \in Elements, NEW clear \in BOOLEAN, CallDequeue(e, clear) PROVE FateGrows
    BY <1>6, <1>11, CallDequeueFacts
  <1>12. ASSUME NEW e \in Elements, NEW clear \in BOOLEAN, NEW gotoEnd, CallStop(e, clear, gotoEnd)
         PROVE  FateGrows
    <2>1. FateMoves(e, clear \/ DequeueDo(e) \in Items(agenda))
      BY <1>12, CallStopFacts
    <2> QED
      BY <2>1 DEF FateMoves, FateGrows
  <1>13. ASSUME NEW e \in Elements, CallFinish(e) PROVE FateGrows
    <2>1. /\ fate'.wronged = fate.wronged /\ fate.manual \subseteq fate'.manual
          /\ fate.forgotten \subseteq fate'.forgotten
      BY <1>13, CallFinishFacts
    <2> QED
      BY <2>1 DEF FateGrows
  <1>14. CASE User
    <2>1. CASE CallPromise
      BY <1>1, <2>1 DEF CallPromise
    <2> QED
      BY <1>8, <1>9, <1>10, <1>11, <1>12, <1>13, <1>14, <2>1 DEF User
  <1>15. CASE Dequeue \/ Unqueue \/ TickTimer \/ TickEnds \/ StopBegins
    BY <1>1, <1>15 DEF Dequeue, Unqueue, TickTimer, TickEnds, StopBegins
  <1>16. CASE FinishQueue \/ FinishEnds \/ Return \/ Tick \/ TimeoutFires \/ UNCHANGED vars
    BY <1>1, <1>16 DEF FinishQueue, FinishEnds, Return, Tick, TimeoutFires, vars
  <1> QED
    BY <1>2, <1>3, <1>4, <1>5, <1>14, <1>15, <1>16 DEF Next, Program, Wait

LEMMA MovingStep ==
  ASSUME Types, IdsOwn, [Next]_vars, ~fate'.wronged,
         NEW f \in Elements, Moving(f), f \notin fate'.forgotten
  PROVE  Moving(f)'
  <1>1. CASE Dequeue
    BY <1>1, DequeueMoving
  <1>2. CASE Unqueue
    BY <1>2, UnqueueMoving
  <1>3. CASE Animate
    BY <1>3, AnimateMoving
  <1>4. CASE Animated
    BY <1>4, AnimatedMoving
  <1>5. CASE TickTimer
    BY <1>5, TickTimerMoving
  <1>6. CASE Ticked \/ TickEnds \/ Tick \/ Return \/ FinishEnds \/ FinishQueue
    BY <1>6, QuietMoving
  <1>7. CASE TimeoutFires
    BY <1>7, TimeoutMoving
  <1>8. CASE StopBegins
    BY <1>8, StopBeginsMoving
  <1>9. CASE HaltTimer
    BY <1>9, HaltTimerMoving
  <1>10. CASE Splice
    BY <1>10, SpliceMoving
  <1>11. CASE StopEnds
    BY <1>11, StopEndsMoving
  <1>12. CASE User
    BY <1>12, UserMoving
  <1>13. CASE UNCHANGED vars
    BY <1>13 DEF vars, data, clock, Moving, Wants, Goes, QueuedOf, Begun, Pending, Delayed, DelaysOf,
                 HooksOf, NewHooks, Of
  <1> QED
    BY <1>1, <1>2, <1>3, <1>4, <1>5, <1>6, <1>7, <1>8, <1>9, <1>10, <1>11, <1>12, <1>13
       DEF Next, Program, Wait

\* A queue that wants something goes on.
QueueInv ==
  /\ Types /\ IdsOwn
  /\ ~fate.wronged => \A e \in Elements \ fate.forgotten : Moving(e)

LEMMA InitTypes ==
  ASSUME Init
  PROVE  Types /\ IdsOwn /\ \A e \in Elements : ~Wants(e)
  <1>1. IsSeq(<<>>) /\ Items(<<>>) = {} /\ Len(<<>>) = 0
    BY ShortIsSeq
  <1>2. QueueOK(<<>>)
    BY <1>1 DEF QueueOK
  <1>3. DOMAIN <<>> = {}
    BY <1>1, IsSeqFacts
  <1>4. Types
    BY <1>1, <1>2, <1>3 DEF Init, Types
  <1>5. ASSUME NEW e \in Elements PROVE Ids(e) = {} /\ ~Wants(e)
    <2>1. /\ Items(queue[e]) = {} /\ DelaysOf(e) = {} /\ hooks[e] = <<>> /\ queue[e] = <<>>
      BY <1>1 DEF Init, DelaysOf
    <2>2. HooksOf(e).stop = 0
      BY <2>1 DEF HooksOf, NewHooks
    <2> QED
      BY <2>1, <2>2 DEF Ids, Wants
  <1>6. IdsOwn
    BY <1>5 DEF IdsOwn
  <1> QED
    BY <1>4, <1>5, <1>6

LEMMA QueueInvStep ==
  ASSUME QueueInv, [Next]_vars
  PROVE  QueueInv'
  <1>1. Types /\ IdsOwn
    BY DEF QueueInv
  <1>2. Types' /\ IdsOwn'
    BY <1>1, TypesStep, IdsOwnStep
  <1>3. FateGrows
    BY <1>1, FateStep
  <1>4. ASSUME ~fate'.wronged, NEW e \in Elements \ fate'.forgotten PROVE Moving(e)'
    <2>1. Moving(e)
      BY <1>3, <1>4 DEF FateGrows, QueueInv
    <2> QED
      BY <1>1, <1>4, <2>1, MovingStep
  <1> QED
    BY <1>2, <1>4 DEF QueueInv

--------------------------------------------------------------------------------
(* Promises count the elements they wait for                                *)

\* The elements whose hooks hold promise p.
Holding(p) == {e \in Elements : p \in HooksOf(e).waiting}

\* A promise counts the elements that it still waits for.
Waits ==
  /\ \A e \in Elements : HooksOf(e).waiting \subseteq DOMAIN promises
  /\ \A p \in DOMAIN promises : promises[p] = Cardinality(Holding(p))

LEMMA HoldingFinite ==
  ASSUME NEW p
  PROVE  IsFiniteSet(Holding(p)) /\ Holding(p) \subseteq Elements
  BY EffectsAssumption, FS_Subset DEF Holding

LEMMA WaitsSame ==
  ASSUME Waits, promises' = promises, \A e \in Elements : HooksOf(e)'.waiting = HooksOf(e).waiting
  PROVE  Waits'
  <1>1. \A p : Holding(p)' = Holding(p)
    BY DEF Holding
  <1> QED
    BY <1>1 DEF Waits

\* What changes for promises when the hooks of e are emptied.
WaitsNoMore(e, h) ==
  promises' = [p \in DOMAIN promises |-> IF p \in h.waiting THEN promises[p] - 1 ELSE promises[p]]

LEMMA WaitsCount ==
  ASSUME Waits, NEW e \in Elements, NEW h, h.waiting = HooksOf(e).waiting, WaitsNoMore(e, h),
         HooksOf(e)'.waiting = {}, \A f \in Elements \ {e} : HooksOf(f)'.waiting = HooksOf(f).waiting
  PROVE  Waits'
  <1>1. DOMAIN promises' = DOMAIN promises
    BY DEF WaitsNoMore
  <1>2. ASSUME NEW f \in Elements PROVE HooksOf(f)'.waiting \subseteq DOMAIN promises'
    BY <1>1 DEF Waits
  <1>3. ASSUME NEW p \in DOMAIN promises PROVE promises'[p] = Cardinality(Holding(p)')
    <2>1. Holding(p)' = Holding(p) \ {e} /\ IsFiniteSet(Holding(p)) /\ (e \in Holding(p) <=> p \in h.waiting)
      BY HoldingFinite DEF Holding
    <2>2. Cardinality(Holding(p) \ {e}) = IF e \in Holding(p) THEN Cardinality(Holding(p)) - 1
                                          ELSE Cardinality(Holding(p))
      BY <2>1, FS_RemoveElement
    <2>3. promises[p] = Cardinality(Holding(p))
      BY DEF Waits
    <2> QED
      BY <2>1, <2>2, <2>3 DEF WaitsNoMore
  <1> QED
    BY <1>1, <1>2, <1>3 DEF Waits

LEMMA WaitsEmptied ==
  ASSUME Waits, NEW e \in Elements, NEW h \in Hooks, h.waiting = HooksOf(e).waiting, Emptied(e, h),
         \A f \in Elements \ {e} : hooks'[f] = hooks[f]
  PROVE  Waits'
  <1>1. \A f \in Elements \ {e} : HooksOf(f)'.waiting = HooksOf(f).waiting
    BY DEF HooksOf, NewHooks
  <1>2. CASE hooks'[e] = <<h>> /\ promises' = promises
    <2>1. HooksOf(e)' = h
      BY <1>2, HooksAfter
    <2> QED
      BY <1>1, <1>2, <2>1, WaitsSame
  <1>3. CASE hooks'[e] = <<>> /\ WaitsNoMore(e, h)
    <2>1. HooksOf(e)'.waiting = {}
      BY <1>3, HooksAfter
    <2> QED
      BY <1>1, <1>3, <2>1, WaitsCount
  <1> QED
    BY <1>2, <1>3 DEF Emptied, WaitsNoMore

LEMMA DequeueWaits ==
  ASSUME Types, Waits, Dequeue
  PROVE  Waits'
  <1> PICK e : e = Todo.e
    OBVIOUS
  <1>1. /\ e \in Elements /\ OnlyOf(e)
        /\ DequeueEmpty(e) \/ \E fn : DequeueNext(e, fn)
    BY DequeueFacts
  <1>2. \A f \in Elements \ {e} : hooks'[f] = hooks[f]
    BY <1>1 DEF OnlyOf
  <1>3. CASE DequeueEmpty(e)
    <2>1. HooksOf(e) \in Hooks
      BY <1>1, HooksFacts
    <2> QED
      BY <1>1, <1>2, <1>3, <2>1, WaitsEmptied DEF DequeueEmpty
  <1>4. ASSUME NEW fn, DequeueNext(e, fn) PROVE Waits'
    <2>1. promises' = promises /\ \E h \in Hooks : hooks'[e] = <<h>> /\ h.waiting = HooksOf(e).waiting
      BY <1>4 DEF DequeueNext
    <2>2. HooksOf(e)'.waiting = HooksOf(e).waiting
      BY <1>1, <2>1, HooksAfter
    <2>3. \A f \in Elements : HooksOf(f)'.waiting = HooksOf(f).waiting
      BY <1>2, <2>2 DEF HooksOf, NewHooks
    <2> QED
      BY <2>1, <2>3, WaitsSame
  <1> QED
    BY <1>1, <1>3, <1>4

LEMMA UnqueueWaits ==
  ASSUME Types, Waits, Unqueue
  PROVE  Waits'
  <1> PICK e : e = Todo.e
    OBVIOUS
  <1>1. e \in Elements /\ \A f \in Elements \ {e} : hooks'[f] = hooks[f]
    BY UnqueueFacts
  <1>2. PICK h : UnqueueAfter(e, h)
    BY UnqueueFacts
  <1>3. h \in Hooks /\ h.waiting = HooksOf(e).waiting
    BY <1>2 DEF UnqueueAfter
  <1>4. CASE Emptied(e, h)
    BY <1>1, <1>3, <1>4, WaitsEmptied
  <1>5. CASE hooks'[e] = <<h>> /\ promises' = promises
    <2>1. HooksOf(e)' = h
      BY <1>1, <1>5, HooksAfter
    <2>2. \A f \in Elements : HooksOf(f)'.waiting = HooksOf(f).waiting
      BY <1>1, <1>3, <2>1 DEF HooksOf, NewHooks
    <2> QED
      BY <1>5, <2>2, WaitsSame
  <1> QED
    BY <1>2, <1>4, <1>5 DEF UnqueueAfter

\* The hooks of one element change, but not the promises in it.
LEMMA HookWaits ==
  ASSUME Waits, promises' = promises, NEW e \in Elements, \A f \in Elements \ {e} : hooks'[f] = hooks[f],
         HooksOf(e)'.waiting = HooksOf(e).waiting
  PROVE  Waits'
  <1>1. \A f \in Elements : HooksOf(f)'.waiting = HooksOf(f).waiting
    BY DEF HooksOf, NewHooks
  <1> QED
    BY <1>1, WaitsSame

LEMMA AnimateWaits ==
  ASSUME Types, Waits, Animate
  PROVE  Waits'
  <1> PICK e : e = Todo.e
    OBVIOUS
  <1>1. /\ e \in Elements /\ \A f \in Elements \ {e} : hooks'[f] = hooks[f]
        /\ AnimateHooks(e, Todo.how = "queued")
    BY AnimateFacts
  <1>2. HooksOf(e)'.waiting = HooksOf(e).waiting
    <2>1. CASE hooks' = hooks
      BY <2>1 DEF HooksOf, NewHooks
    <2>2. CASE hooks' # hooks
      BY <1>1, <2>2, HooksAfter DEF AnimateHooks
    <2> QED
      BY <2>1, <2>2
  <1>3. promises' = promises
    BY DEF Animate
  <1> QED
    BY <1>1, <1>2, <1>3, HookWaits

LEMMA StopBeginsWaits ==
  ASSUME Types, Waits, StopBegins
  PROVE  Waits'
  <1> PICK e : e = Todo.e
    OBVIOUS
  <1>1. /\ e \in Elements /\ \A f \in Elements \ {e} : hooks'[f] = hooks[f]
        /\ \/ hooks[e] = <<>> /\ hooks'[e] = <<>>
           \/ hooks[e] # <<>> /\ \E h \in Hooks : hooks'[e] = <<h>> /\ h.waiting = HooksOf(e).waiting
    BY StopBeginsFacts
  <1>2. HooksOf(e)'.waiting = HooksOf(e).waiting
    <2>1. CASE hooks[e] = <<>>
      BY <1>1, <2>1, HooksAfter, HooksFacts
    <2>2. CASE hooks[e] # <<>>
      BY <1>1, <2>2, HooksAfter
    <2> QED
      BY <2>1, <2>2
  <1>3. promises' = promises
    BY DEF StopBegins
  <1> QED
    BY <1>1, <1>2, <1>3, HookWaits

LEMMA CallQueueWaits ==
  ASSUME Types, Waits, NEW e \in Elements, NEW item, ItemOK(item), CallQueue(e, item)
  PROVE  Waits'
  <1>1. OnlyOf(e) /\ hooks'[e] = <<HooksOf(e)>> /\ promises' = promises
    BY CallQueueFacts DEF CallQueueAfter
  <1>2. HooksOf(e)' = HooksOf(e)
    BY <1>1, HooksAfter
  <1> QED
    BY <1>1, <1>2, HookWaits DEF OnlyOf

LEMMA CallPromiseWaits ==
  ASSUME Types, Waits, CallPromise
  PROVE  Waits'
  <1> PICK p : p = Len(promises) + 1
    OBVIOUS
  <1>1. /\ promises' = Append(promises, Cardinality(Busy))
        /\ \A e \in Elements :
             \/ hooks[e] = <<>> /\ hooks'[e] = <<>>
             \/ hooks[e] # <<>> /\ \E h \in Hooks : hooks'[e] = <<h>> /\ h.waiting = HooksOf(e).waiting \cup {p}
    BY CallPromiseFacts
  <1>2. /\ p \notin DOMAIN promises /\ DOMAIN promises' = DOMAIN promises \cup {p}
        /\ (\A k \in DOMAIN promises : promises'[k] = promises[k]) /\ promises'[p] = Cardinality(Busy)
    BY <1>1, Appended DEF Types
  <1>3. ASSUME NEW e \in Elements
        PROVE  HooksOf(e)'.waiting = IF e \in Busy THEN HooksOf(e).waiting \cup {p} ELSE HooksOf(e).waiting
    <2>1. CASE hooks[e] = <<>>
      BY <1>1, <2>1, HooksAfter, HooksFacts DEF Busy
    <2>2. CASE hooks[e] # <<>>
      BY <1>1, <2>2, HooksAfter DEF Busy
    <2> QED
      BY <2>1, <2>2
  <1>4. \A e \in Elements : HooksOf(e).waiting \subseteq DOMAIN promises
    BY DEF Waits
  <1>5. \A k \in DOMAIN promises : Holding(k)' = Holding(k)
    BY <1>2, <1>3 DEF Holding
  <1>6. Holding(p)' = Busy
    <2>1. Busy \subseteq Elements
      BY DEF Busy
    <2> QED
      BY <1>2, <1>3, <1>4, <2>1 DEF Holding
  <1>7. \A e \in Elements : HooksOf(e)'.waiting \subseteq DOMAIN promises'
    BY <1>2, <1>3, <1>4
  <1>8. \A k \in DOMAIN promises' : promises'[k] = Cardinality(Holding(k)')
    BY <1>2, <1>5, <1>6 DEF Waits
  <1> QED
    BY <1>7, <1>8 DEF Waits

LEMMA WaitsStep ==
  ASSUME Types, Waits, [Next]_vars
  PROVE  Waits'
  <1>1. CASE hooks' = hooks /\ promises' = promises
    <2>1. \A e \in Elements : HooksOf(e)'.waiting = HooksOf(e).waiting
      BY <1>1 DEF HooksOf, NewHooks
    <2> QED
      BY <1>1, <2>1, WaitsSame
  <1>2. CASE Dequeue \/ Unqueue \/ Animate \/ StopBegins
    BY <1>2, DequeueWaits, UnqueueWaits, AnimateWaits, StopBeginsWaits
  <1>3. ASSUME NEW e \in Elements, NEW goal, NEW duration, NEW queued \in BOOLEAN,
               CallAnimate(e, goal, duration, queued)
        PROVE  Waits'
    <2>1. \/ \E item : ItemOK(item) /\ CallQueue(e, item)
          \/ hooks' = hooks /\ promises' = promises
      BY <1>3, CallAnimateFacts DEF data
    <2> QED
      BY <1>1, <2>1, CallQueueWaits
  <1>4. ASSUME NEW e \in Elements, CallQueue(e, FunctionItem) PROVE Waits'
    BY <1>4, QueuedItems, CallQueueWaits
  <1>5. ASSUME NEW e \in Elements, CallQueue(e, DelayItem(calls + 1)) PROVE Waits'
    BY <1>5, QueuedItems, CallQueueWaits
  <1>6. CASE User
    <2>1. CASE CallPromise
      BY <2>1, CallPromiseWaits
    <2>2. ASSUME NEW e \in Elements,
                 \/ \E clear \in BOOLEAN : CallDequeue(e, clear)
                 \/ \E clear, gotoEnd \in BOOLEAN : CallStop(e, clear, gotoEnd)
                 \/ CallFinish(e)
          PROVE  Waits'
      BY <1>1, <2>2 DEF CallDequeue, CallStop, CallFinish
    <2> QED
      BY <1>3, <1>4, <1>5, <1>6, <2>1, <2>2 DEF User
  <1>7. CASE Animated \/ TickTimer \/ Ticked \/ TickEnds \/ HaltTimer \/ Splice \/ StopEnds
    BY <1>1, <1>7 DEF Animated, TickTimer, Ticked, TickEnds, HaltTimer, Splice, StopEnds, data
  <1>8. CASE FinishQueue \/ FinishEnds \/ Return \/ Tick \/ TimeoutFires \/ UNCHANGED vars
    BY <1>1, <1>8 DEF FinishQueue, FinishEnds, Return, Tick, TimeoutFires, vars, data
  <1> QED
    BY <1>2, <1>6, <1>7, <1>8 DEF Next, Program, Wait

--------------------------------------------------------------------------------
(* An animation starts before anything else is done                         *)

\* An animation starts before anything else is done.
Clear(s) == IsSeq(s) /\ \A x \in Items(s) : x.op # "animate"
FirstOnly == agenda # <<>> => Clear(Rest)

LEMMA ClearCons ==
  ASSUME NEW s, Clear(s), NEW x, x.op # "animate"
  PROVE  Clear(Cons(x, s))
  BY ConsFacts DEF Clear

LEMMA ClearFirst ==
  ASSUME NEW s, Clear(s), NEW x, agenda' = Cons(x, s)
  PROVE  FirstOnly'
  <1>1. IsSeq(s) /\ Tail(Cons(x, s)) = s
    BY ConsFacts DEF Clear
  <1>2. Rest' = s
    BY <1>1 DEF Rest
  <1> QED
    BY <1>2 DEF FirstOnly

LEMMA ClearRest ==
  ASSUME NEW s, Clear(s), agenda' = s
  PROVE  FirstOnly'
  <1> SUFFICES ASSUME s # <<>> PROVE Clear(Tail(s))
    BY DEF FirstOnly, Rest
  <1>1. IsSeq(s)
    BY DEF Clear
  <1>2. IsSeq(Tail(s)) /\ Items(s) = {Head(s)} \cup Items(Tail(s))
    BY <1>1, TailIsSeq
  <1> QED
    BY <1>2 DEF Clear

\* The rest is clear, and so is all when nothing starts.
LEMMA ClearNow ==
  ASSUME Types, FirstOnly
  PROVE  /\ agenda # <<>> => Clear(Rest)
         /\ agenda = <<>> \/ Todo.op # "animate" => Clear(agenda)
  <1>1. agenda # <<>> => Clear(Rest)
    BY DEF FirstOnly
  <1>2. CASE agenda = <<>>
    BY <1>2, ShortIsSeq DEF Clear
  <1>3. CASE agenda # <<>>
    <2>1. IsSeq(agenda) /\ Items(agenda) = {Todo} \cup Items(Rest)
      BY <1>3, RestFacts DEF Types
    <2> QED
      BY <1>1, <1>3, <2>1 DEF Clear
  <1> QED
    BY <1>1, <1>2, <1>3

LEMMA OpsOfThings ==
  /\ \A e : DequeueDo(e).op = "dequeue" /\ Run(e).op = "run"
  /\ \A i : TickAt(i).op = "tick"
  /\ \A e, n : UnqueueDo(e, n).op = "unqueue"
  /\ \A e, n, i : TickedDo(e, n, i).op = "ticked"
  /\ \A e, n, goal : AnimatedDo(e, n, goal).op = "animated"
  /\ \A e, how : StopDo(e, how).op = "stop"
  <1>1. /\ \A e : DequeueDo(e).op = "dequeue" /\ Run(e).op = "run"
        /\ \A i : TickAt(i).op = "tick"
        /\ \A e, n : UnqueueDo(e, n).op = "unqueue"
        /\ \A e, n, i : TickedDo(e, n, i).op = "ticked"
    BY SimpleThings
  <1>2. ASSUME NEW e, NEW n, NEW goal PROVE AnimatedDo(e, n, goal).op = "animated"
    BY DoFields DEF AnimatedDo
  <1>3. ASSUME NEW e, NEW how PROVE StopDo(e, how).op = "stop"
    BY DoFields DEF StopDo
  <1> QED
    BY <1>1, <1>2, <1>3

LEMMA SettledFirst ==
  ASSUME NEW n, NEW how, NEW s, Clear(s), AfterSettled(n, how, s)
  PROVE  FirstOnly'
  <1>1. CASE how = "resolved"
    <2> PICK y : y = IF animations[n].queued THEN DequeueDo(animations[n].e)
                     ELSE UnqueueDo(animations[n].e, n)
      OBVIOUS
    <2>1. y.op # "animate"
      BY OpsOfThings
    <2>2. agenda' = Cons(Run(animations[n].e), Cons(y, s))
      BY <1>1 DEF AfterSettled
    <2> QED
      BY <2>1, <2>2, ClearCons, ClearFirst
  <1>2. CASE how # "resolved"
    BY <1>2, ClearFirst, ClearRest DEF AfterSettled
  <1> QED
    BY <1>1, <1>2

LEMMA FirstByQueue ==
  ASSUME Types, FirstOnly, Dequeue \/ Unqueue \/ Animate
  PROVE  FirstOnly'
  <1> PICK e : e = Todo.e
    OBVIOUS
  <1>1. CASE Dequeue
    <2>1. agenda # <<>> /\ (DequeueEmpty(e) \/ \E fn : DequeueNext(e, fn))
      BY <1>1, DequeueFacts
    <2>2. Clear(Rest)
      BY <2>1, ClearNow
    <2>3. \/ agenda' = Rest
          \/ \E x : agenda' = Cons(x, Rest)
          \/ agenda' = Cons(Run(e), Cons(DequeueDo(e), Rest))
      BY <2>1 DEF DequeueEmpty, DequeueNext
    <2>4. Clear(Cons(DequeueDo(e), Rest))
      BY <2>2, OpsOfThings, ClearCons
    <2> QED
      BY <2>2, <2>3, <2>4, ClearRest, ClearFirst
  <1>2. CASE Unqueue
    <2>1. agenda # <<>> /\ agenda' = Rest
      BY <1>2, UnqueueFacts
    <2> QED
      BY <2>1, ClearNow, ClearRest
  <1>3. CASE Animate
    <2>1. agenda # <<>>
      BY <1>3, AnimateFacts
    <2>2. PICK n, a : AnimationBegins(e, n, a)
      BY <1>3, AnimateFacts
    <2>3. Clear(Rest)
      BY <2>1, ClearNow
    <2>4. PICK goal :
             \/ agenda' = Cons(AnimatedDo(e, n, goal), Rest)
             \/ agenda' = Cons(Run(e), Cons(DequeueDo(e), Cons(AnimatedDo(e, n, goal), Rest)))
             \/ agenda' = Cons(UnqueueDo(e, n), Cons(Run(e), Cons(AnimatedDo(e, n, goal), Rest)))
      BY <2>2 DEF AnimationBegins
    <2>5. Clear(Cons(AnimatedDo(e, n, goal), Rest))
      BY <2>3, OpsOfThings, ClearCons
    <2>6. /\ Clear(Cons(DequeueDo(e), Cons(AnimatedDo(e, n, goal), Rest)))
          /\ Clear(Cons(Run(e), Cons(AnimatedDo(e, n, goal), Rest)))
      BY <2>5, OpsOfThings, ClearCons
    <2> QED
      BY <2>3, <2>4, <2>6, ClearFirst
  <1> QED
    BY <1>1, <1>2, <1>3

LEMMA FirstByTick ==
  ASSUME Types, FirstOnly, Animated \/ TickTimer \/ Ticked \/ TickEnds \/ Tick \/ TimeoutFires
  PROVE  FirstOnly'
  <1>1. CASE Animated
    <2>1. /\ agenda # <<>>
          /\ AfterSettled(Todo.a, "resolved", Rest) \/ agenda' = Rest
      BY <1>1, AnimatedFacts
    <2> QED
      BY <2>1, ClearNow, ClearRest, SettledFirst
  <1>2. CASE TickTimer
    <2> PICK i : i = Todo.i
      OBVIOUS
    <2>1. agenda # <<>> /\ (TimerStopped(i) \/ TimerGoesOn(i) \/ TimerEnds(i))
      BY <1>2, TickTimerFacts
    <2>2. Clear(Rest)
      BY <2>1, ClearNow
    <2> PICK n : n = timers[i]
      OBVIOUS
    <2> PICK s : s = Cons(TickedDo(animations[n].e, n, i), Rest)
      OBVIOUS
    <2>3. Clear(s)
      BY <2>2, OpsOfThings, ClearCons
    <2>4. \/ \E x : agenda' = Cons(x, Rest)
          \/ agenda' = s
          \/ AfterSettled(n, "resolved", s)
      BY <2>1 DEF TimerStopped, TimerGoesOn, TimerEnds
    <2> QED
      BY <2>2, <2>3, <2>4, ClearFirst, ClearRest, SettledFirst
  <1>3. CASE Ticked
    <2> PICK i : i = Todo.i
      OBVIOUS
    <2>1. agenda # <<>> /\ \E x : agenda' = Cons(x, Rest)
      BY <1>3, TickedFacts
    <2> QED
      BY <2>1, ClearNow, ClearFirst
  <1>4. CASE TickEnds
    <2>1. agenda # <<>> /\ agenda' = Rest
      BY <1>4, TickEndsFacts
    <2> QED
      BY <2>1, ClearNow, ClearRest
  <1>5. CASE Tick \/ TimeoutFires
    <2>1. agenda = <<>> /\ \E x : agenda' = Cons(x, agenda)
      BY <1>5, TickFacts, TimeoutFacts
    <2> QED
      BY <2>1, ClearNow, ClearFirst
  <1> QED
    BY <1>1, <1>2, <1>3, <1>4, <1>5

LEMMA FirstByLoop ==
  ASSUME Types, FirstOnly,
         StopBegins \/ HaltTimer \/ Splice \/ StopEnds \/ FinishQueue \/ FinishEnds \/ Return
  PROVE  FirstOnly'
  <1> PICK x : x = Todo
    OBVIOUS
  <1> PICK e : e = Todo.e
    OBVIOUS
  <1> PICK i : i = Todo.i
    OBVIOUS
  <1>1. CASE StopBegins
    <2>1. agenda # <<>> /\ \E y : agenda' = Cons(y, Rest)
      BY <1>1, StopBeginsFacts
    <2> QED
      BY <2>1, ClearNow, ClearFirst
  <1>2. CASE HaltTimer
    <2>1. agenda # <<>> /\ (HaltFails \/ HaltPasses(x, i) \/ \E n, how : HaltStops(x, i, n, how))
      BY <1>2, HaltTimerFacts
    <2>2. Clear(Rest)
      BY <2>1, ClearNow
    <2>3. CASE HaltFails
      BY <2>3 DEF HaltFails, FirstOnly
    <2>4. CASE HaltPasses(x, i)
      BY <2>2, <2>4, ClearFirst DEF HaltPasses
    <2>5. ASSUME NEW n, NEW how, HaltStops(x, i, n, how) PROVE FirstOnly'
      <3> PICK y : y = Do("splice", x.e, n, i, x.how, x.items)
        OBVIOUS
      <3>1. y.op # "animate"
        BY DoFields
      <3>2. Clear(Cons(y, Rest))
        BY <2>2, <3>1, ClearCons
      <3>3. AfterSettled(n, how, Cons(y, Rest))
        BY <2>5 DEF HaltStops
      <3> QED
        BY <3>2, <3>3, SettledFirst
    <2> QED
      BY <2>1, <2>3, <2>4, <2>5
  <1>3. CASE Splice
    <2>1. agenda # <<>> /\ \E y : agenda' = Cons(y, Rest)
      BY <1>3, SpliceFacts
    <2> QED
      BY <2>1, ClearNow, ClearFirst
  <1>4. CASE StopEnds
    <2>1. agenda # <<>> /\ (agenda' = Rest \/ \E y : agenda' = Cons(y, Rest))
      BY <1>4, StopEndsFacts
    <2> QED
      BY <2>1, ClearNow, ClearFirst, ClearRest
  <1>5. CASE FinishQueue
    <2>1. /\ agenda # <<>> /\ x.op = "halt"
          /\ \E y : /\ y.op = "halt"
                    /\ agenda' = Cons(y, Rest) \/ \E z : agenda' = Cons(z, Cons(y, Rest))
      <3>1. /\ agenda # <<>> /\ x.op = "halt"
            /\ \E items : LET y == Do("halt", x.e, x.a, 0, "finish", items)
                          IN  agenda' = Cons(y, Rest) \/ \E z : agenda' = Cons(z, Cons(y, Rest))
        BY <1>5, FinishQueueFacts
      <3>2. PICK items, y : /\ y = Do("halt", x.e, x.a, 0, "finish", items)
                            /\ agenda' = Cons(y, Rest) \/ \E z : agenda' = Cons(z, Cons(y, Rest))
        BY <3>1
      <3>3. y.op = "halt"
        BY <3>2, DoFields
      <3> QED
        BY <3>1, <3>2, <3>3
    <2>2. Clear(Rest)
      BY <2>1, ClearNow
    <2> QED
      BY <2>1, <2>2, ClearCons, ClearFirst
  <1>6. CASE FinishEnds \/ Return
    <2>1. agenda # <<>> /\ agenda' = Rest
      BY <1>6 DEF FinishEnds, Return, IsNext
    <2> QED
      BY <2>1, ClearNow, ClearRest
  <1> QED
    BY <1>1, <1>2, <1>3, <1>4, <1>5, <1>6

\* What calls put on the agenda: nothing, one thing, or a dequeue() and one thing.
CallOps == {"dequeue", "animate", "stop", "halt"}
CallsOne == \E x : x.op \in CallOps /\ agenda' = Cons(x, agenda)
CallsTwo == \E x, y : x.op = "dequeue" /\ y.op = "stop" /\ agenda' = Cons(x, Cons(y, agenda))

LEMMA CallsAgenda ==
  ASSUME Types, User
  PROVE  /\ agenda = <<>> \/ Todo.op = "run"
         /\ agenda' = agenda \/ CallsOne \/ CallsTwo
         /\ animations' = animations /\ timers' = timers
  <1>1. CASE CallPromise
    BY <1>1, CallPromiseFacts DEF Called, CallPromise, clock
  <1>2. ASSUME NEW e \in Elements, NEW item, ItemOK(item), CallQueue(e, item)
        PROVE  /\ agenda = <<>> \/ Todo.op = "run"
               /\ agenda' = agenda \/ CallsOne
               /\ animations' = animations /\ timers' = timers
    <2>1. Called /\ agenda' = IF QueueStarts(e) THEN Cons(DequeueDo(e), agenda) ELSE agenda
      BY <1>2, CallQueueFacts DEF CallQueueAfter
    <2>2. DequeueDo(e).op = "dequeue"
      BY OpsOfThings
    <2>3. agenda' = agenda \/ CallsOne
      BY <2>1, <2>2 DEF CallsOne, CallOps
    <2> QED
      BY <1>2, <2>1, <2>3 DEF Called, CallQueue, clock
  <1>3. ASSUME NEW e \in Elements, NEW goal, NEW duration, NEW queued \in BOOLEAN,
               CallAnimate(e, goal, duration, queued)
        PROVE  /\ agenda = <<>> \/ Todo.op = "run"
               /\ agenda' = agenda \/ CallsOne
               /\ animations' = animations /\ timers' = timers
    <2>1. CASE \E item : ItemOK(item) /\ CallQueue(e, item)
      BY <1>2, <2>1
    <2>2. CASE /\ Called /\ UNCHANGED <<data, style, animations, clock, promises>>
               /\ \E item, how : agenda' = Cons(AnimateDo(e, item, how), agenda)
      <3>1. PICK item, how : agenda' = Cons(AnimateDo(e, item, how), agenda)
        BY <2>2
      <3>2. AnimateDo(e, item, how).op = "animate"
        BY AnimateThings
      <3>3. CallsOne
        BY <3>1, <3>2 DEF CallsOne, CallOps
      <3> QED
        BY <2>2, <3>3 DEF Called, clock
    <2> QED
      BY <1>3, <2>1, <2>2, CallAnimateFacts
  <1>4. ASSUME NEW e \in Elements, CallQueue(e, FunctionItem)
        PROVE  /\ agenda = <<>> \/ Todo.op = "run"
               /\ agenda' = agenda \/ CallsOne
               /\ animations' = animations /\ timers' = timers
    BY <1>2, <1>4, QueuedItems
  <1>5. ASSUME NEW e \in Elements, CallQueue(e, DelayItem(calls + 1))
        PROVE  /\ agenda = <<>> \/ Todo.op = "run"
               /\ agenda' = agenda \/ CallsOne
               /\ animations' = animations /\ timers' = timers
    BY <1>2, <1>5, QueuedItems
  <1>6. ASSUME NEW e \in Elements, NEW clear \in BOOLEAN, CallDequeue(e, clear)
        PROVE  /\ agenda = <<>> \/ Todo.op = "run"
               /\ CallsOne
               /\ animations' = animations /\ timers' = timers
    <2>1. Called /\ agenda' = Cons(DequeueDo(e), agenda) /\ DequeueDo(e).op = "dequeue"
      BY <1>6, CallDequeueFacts, OpsOfThings
    <2>2. CallsOne
      BY <2>1 DEF CallsOne, CallOps
    <2> QED
      BY <1>6, <2>1, <2>2 DEF Called, CallDequeue, clock
  <1>7. ASSUME NEW e \in Elements, NEW clear \in BOOLEAN, NEW gotoEnd, CallStop(e, clear, gotoEnd)
        PROVE  /\ agenda = <<>> \/ Todo.op = "run"
               /\ CallsOne \/ CallsTwo
               /\ animations' = animations /\ timers' = timers
    <2>1. PICK how : agenda' = IF clear THEN Cons(DequeueDo(e), Cons(StopDo(e, how), agenda))
                               ELSE Cons(StopDo(e, how), agenda)
      BY <1>7, CallStopFacts
    <2>2. DequeueDo(e).op = "dequeue" /\ StopDo(e, how).op = "stop"
      BY OpsOfThings
    <2>3. CallsOne \/ CallsTwo
      BY <2>1, <2>2 DEF CallsOne, CallsTwo, CallOps
    <2>4. Called
      BY <1>7, CallStopFacts
    <2> QED
      BY <1>7, <2>3, <2>4 DEF Called, CallStop, clock
  <1>8. ASSUME NEW e \in Elements, CallFinish(e)
        PROVE  /\ agenda = <<>> \/ Todo.op = "run"
               /\ CallsOne
               /\ animations' = animations /\ timers' = timers
    <2>1. Called /\ agenda' = Cons(HaltAt(e, Len(timers), "finish", queue[e]), agenda)
      BY <1>8, CallFinishFacts
    <2>2. HaltAt(e, Len(timers), "finish", queue[e]).op = "halt"
      BY HaltThings
    <2>3. CallsOne
      BY <2>1, <2>2 DEF CallsOne, CallOps
    <2> QED
      BY <1>8, <2>1, <2>3 DEF Called, CallFinish
  <1> QED
    BY <1>1, <1>3, <1>4, <1>5, <1>6, <1>7, <1>8 DEF User

LEMMA FirstStep ==
  ASSUME Types, FirstOnly, [Next]_vars
  PROVE  FirstOnly'
  <1>1. CASE User
    <2>1. Clear(agenda)
      BY <1>1, CallsAgenda, ClearNow
    <2>2. \A y : y.op = "stop" => Clear(Cons(y, agenda))
      BY <2>1, ClearCons
    <2> QED
      BY <1>1, <2>1, <2>2, CallsAgenda, ClearFirst, ClearRest DEF CallsOne, CallsTwo
  <1>2. CASE UNCHANGED vars
    BY <1>2 DEF vars, FirstOnly, Rest
  <1> QED
    BY <1>1, <1>2, FirstByQueue, FirstByTick, FirstByLoop DEF Next, Program, Wait

--------------------------------------------------------------------------------
(* Animations and their timers                                              *)

\* What is left to do after an animation has ended.
Over(x, made) ==
  /\ x.op \in {"ticked", "splice", "unqueue"} => made[x.a].state # "pending"
  /\ x.op = "unqueue" => ~made[x.a].queued
AllOver(s, made) == \A x \in Items(s) : Over(x, made)

\* A timer that goes on is in the list, and one that has been stopped does not go on.
Timed ==
  /\ \A n \in DOMAIN animations : /\ Pending(n) => n \in Items(timers)
                                  /\ animations[n].stopped => ~Pending(n)
  /\ AllOver(agenda, animations)

\* No animation goes on again.
StatesAge ==
  /\ AnimationsAge
  /\ \A n \in DOMAIN animations : animations'[n].state = "pending" => animations[n].state = "pending"

LEMMA OverAges ==
  ASSUME StatesAge, NEW s, ListOK(s, animations), AllOver(s, animations)
  PROVE  AllOver(s, animations')
  <1> SUFFICES ASSUME NEW x \in Items(s) PROVE Over(x, animations')
    BY DEF AllOver
  <1>1. ThingIn(x, animations) /\ Over(x, animations)
    BY DEF ListOK, AllOver
  <1>2. x.op \in {"ticked", "splice", "unqueue"} => x.a \in DOMAIN animations
    BY <1>1 DEF ThingIn
  <1> QED
    BY <1>1, <1>2 DEF Over, StatesAge, AnimationsAge

LEMMA OverCons ==
  ASSUME NEW s, IsSeq(s), NEW made, AllOver(s, made), NEW x, Over(x, made)
  PROVE  AllOver(Cons(x, s), made)
  BY ConsFacts DEF AllOver

\* The things that say nothing of animations.
LEMMA OverPlain ==
  ASSUME NEW made, NEW x, x.op \notin {"ticked", "splice", "unqueue"}
  PROVE  Over(x, made)
  BY DEF Over

LEMMA TimedParts ==
  ASSUME Types, Timed
  PROVE  /\ ListOK(agenda, animations) /\ AllOver(agenda, animations)
         /\ agenda # <<>> => /\ ListOK(Rest, animations) /\ AllOver(Rest, animations)
                             /\ IsSeq(Rest) /\ Over(Todo, animations)
  <1>1. ListOK(agenda, animations)
    BY DEF Types, ListOK, ThingOK
  <1>2. ASSUME agenda # <<>>
        PROVE  /\ ListOK(Rest, animations) /\ AllOver(Rest, animations)
               /\ IsSeq(Rest) /\ Over(Todo, animations)
    <2>1. IsSeq(Rest) /\ Todo \in Items(agenda) /\ Items(agenda) = {Todo} \cup Items(Rest)
      BY <1>2, RestFacts
    <2> QED
      BY <1>1, <2>1 DEF ListOK, Timed, AllOver
  <1> QED
    BY <1>1, <1>2 DEF Timed

LEMMA SettledAges ==
  ASSUME Types, NEW n, NEW how \in {"resolved", "rejected"}, Settled(n, how)
  PROVE  StatesAge /\ animations'[n].state # "pending" /\ animations'[n].queued = animations[n].queued
  BY DEF Settled, AnimationsKeep, StatesAge, AnimationsAge

LEMMA StatesKeepAge ==
  ASSUME StatesKeep
  PROVE  StatesAge
  BY DEF StatesKeep, AnimationsKeep, StatesAge, AnimationsAge

\* What is put on the agenda when an animation is settled.
LEMMA SettledOver ==
  ASSUME Types, NEW n, NEW how \in {"resolved", "rejected"}, Settled(n, how),
         NEW s, IsSeq(s), AllOver(s, animations'), AfterSettled(n, how, s)
  PROVE  AllOver(agenda', animations')
  <1> PICK e : e = animations[n].e
    OBVIOUS
  <1>1. animations'[n].state # "pending" /\ animations'[n].queued = animations[n].queued
    BY SettledAges
  <1>2. Over(Run(e), animations') /\ Over(DequeueDo(e), animations')
    BY OpsOfThings, OverPlain
  <1> PICK u : u = UnqueueDo(e, n)
    OBVIOUS
  <1>3. ~animations[n].queued => Over(u, animations')
    <2>1. u.op = "unqueue" /\ u.a = n
      BY SimpleThings
    <2> QED
      BY <1>1, <2>1 DEF Over
  <1> PICK y : y = IF animations[n].queued THEN DequeueDo(e) ELSE u
    OBVIOUS
  <1>4. Over(y, animations')
    BY <1>2, <1>3
  <1>5. IsSeq(Cons(y, s)) /\ AllOver(Cons(y, s), animations')
    BY <1>4, OverCons, ConsFacts
  <1>6. CASE how = "resolved"
    <2>1. agenda' = Cons(Run(e), Cons(y, s))
      BY <1>6 DEF AfterSettled
    <2> QED
      BY <1>2, <1>5, <2>1, OverCons
  <1>7. CASE how # "resolved"
    <2>1. agenda' = IF animations[n].queued THEN s ELSE Cons(y, s)
      BY <1>7 DEF AfterSettled
    <2> QED
      BY <1>5, <2>1
  <1> QED
    BY <1>6, <1>7

\* The timers when no animation begins: none that goes on is taken from the list.
TimersKeep == \A k \in Items(timers) : k \in Items(timers') \/ animations'[k].state # "pending"

LEMMA TimedKept ==
  ASSUME Types, Timed, AnimationsKeep, TimersKeep,
         \A k \in DOMAIN animations :
           /\ animations'[k].state = "pending" => animations[k].state = "pending"
           /\ animations'[k].stopped => animations[k].stopped \/ animations'[k].state # "pending",
         AllOver(agenda', animations')
  PROVE  Timed'
  <1>1. DOMAIN animations' = DOMAIN animations
    BY DEF AnimationsKeep
  <1>2. ASSUME NEW k \in DOMAIN animations
        PROVE  /\ animations'[k].state = "pending" => k \in Items(timers')
               /\ animations'[k].stopped => animations'[k].state # "pending"
    <2>1. /\ animations[k].state = "pending" => k \in Items(timers)
          /\ animations[k].stopped => animations[k].state # "pending"
      BY DEF Timed, Pending
    <2> QED
      BY <2>1 DEF TimersKeep
  <1> QED
    BY <1>1, <1>2 DEF Timed, Pending

LEMMA TimedSettled ==
  ASSUME Types, Timed, NEW n, NEW how \in {"resolved", "rejected"}, Settled(n, how), timers' = timers,
         NEW s, IsSeq(s), AllOver(s, animations'), AfterSettled(n, how, s) \/ agenda' = s
  PROVE  Timed'
  <1>1. AllOver(agenda', animations')
    BY SettledOver
  <1>2. \A k \in DOMAIN animations :
           /\ animations'[k].state = "pending" => animations[k].state = "pending"
           /\ animations'[k].stopped => animations[k].stopped \/ animations'[k].state # "pending"
    BY DEF Settled
  <1>3. AnimationsKeep /\ TimersKeep
    BY DEF Settled, TimersKeep
  <1> QED
    BY <1>1, <1>2, <1>3, TimedKept

LEMMA TimedStates ==
  ASSUME Types, Timed, StatesKeep, TimersKeep, AllOver(agenda', animations')
  PROVE  Timed'
  <1>1. \A k \in DOMAIN animations :
           /\ animations'[k].state = "pending" => animations[k].state = "pending"
           /\ animations'[k].stopped => animations[k].stopped \/ animations'[k].state # "pending"
    BY DEF StatesKeep
  <1> QED
    BY <1>1, TimedKept DEF StatesKeep

\* When no animation and no timer changes.
LEMMA TimedStays ==
  ASSUME Types, Timed, animations' = animations, timers' = timers, AllOver(agenda', animations)
  PROVE  Timed'
  BY DEF Timed, Pending

LEMMA RemovedKeep ==
  ASSUME Types, NEW i \in 1..Len(timers), timers' = RemoveAt(timers, i), StatesKeep, ~Pending(timers[i])
  PROVE  TimersKeep
  <1>1. \A j \in 1..Len(timers) : j # i => timers[j] \in Items(timers')
    BY Removed DEF Types
  <1>2. timers[i] \in DOMAIN animations
    BY DEF Types, Items
  <1>3. animations'[timers[i]].state # "pending"
    BY <1>2 DEF Pending, StatesKeep
  <1> QED
    BY <1>1, <1>3 DEF TimersKeep, Items

LEMMA TimedByQueue ==
  ASSUME Types, Timed, Dequeue \/ Unqueue
  PROVE  Timed'
  <1> PICK e : e = Todo.e
    OBVIOUS
  <1>1. CASE Dequeue
    <2>1. agenda # <<>> /\ (DequeueEmpty(e) \/ \E fn : DequeueNext(e, fn))
      BY <1>1, DequeueFacts
    <2>2. AllOver(Rest, animations) /\ IsSeq(Rest)
      BY <2>1, TimedParts
    <2>3. \/ agenda' = Rest
          \/ \E fn : agenda' = Cons(AnimateDo(e, fn, "queued"), Rest)
          \/ agenda' = Cons(Run(e), Cons(DequeueDo(e), Rest))
      BY <2>1 DEF DequeueEmpty, DequeueNext
    <2>4. Over(Run(e), animations) /\ Over(DequeueDo(e), animations)
      BY OpsOfThings, OverPlain
    <2>5. ASSUME NEW fn PROVE Over(AnimateDo(e, fn, "queued"), animations)
      <3> PICK x : x = AnimateDo(e, fn, "queued")
        OBVIOUS
      <3>1. x.op = "animate"
        BY AnimateThings
      <3> QED
        BY <3>1, OverPlain
    <2>6. IsSeq(Cons(DequeueDo(e), Rest)) /\ AllOver(Cons(DequeueDo(e), Rest), animations)
      BY <2>2, <2>4, OverCons, ConsFacts
    <2>7. AllOver(agenda', animations)
      BY <2>2, <2>3, <2>4, <2>5, <2>6, OverCons
    <2>8. animations' = animations /\ timers' = timers
      BY <1>1 DEF Dequeue
    <2> QED
      BY <2>7, <2>8, TimedStays
  <1>2. CASE Unqueue
    <2>1. agenda # <<>> /\ agenda' = Rest
      BY <1>2, UnqueueFacts
    <2>2. AllOver(agenda', animations)
      BY <2>1, TimedParts
    <2>3. animations' = animations /\ timers' = timers
      BY <1>2 DEF Unqueue, clock
    <2> QED
      BY <2>2, <2>3, TimedStays
  <1> QED
    BY <1>1, <1>2

LEMMA TimedByAnimate ==
  ASSUME Types, Timed, Animate
  PROVE  Timed'
  <1> PICK e : e = Todo.e
    OBVIOUS
  <1>1. agenda # <<>>
    BY AnimateFacts
  <1>2. PICK n, a : AnimationBegins(e, n, a)
    BY AnimateFacts
  <1>3. /\ n \notin DOMAIN animations /\ DOMAIN animations' = DOMAIN animations \cup {n}
        /\ (\A k \in DOMAIN animations : animations'[k] = animations[k]) /\ animations'[n] = a
        /\ ~a.stopped
    BY <1>2 DEF AnimationBegins
  <1>4. StatesAge
    BY <1>3 DEF StatesAge, AnimationsAge
  <1>5. IsSeq(Rest) /\ AllOver(Rest, animations')
    BY <1>1, <1>4, TimedParts, OverAges
  <1>6. PICK goal :
       \/ /\ a.state = "pending" /\ timers' = Append(timers, n)
          /\ agenda' = Cons(AnimatedDo(e, n, goal), Rest)
       \/ /\ a.state = "resolved" /\ timers' = timers /\ a.queued
          /\ agenda' = Cons(Run(e), Cons(DequeueDo(e), Cons(AnimatedDo(e, n, goal), Rest)))
       \/ /\ a.state = "resolved" /\ timers' = timers /\ ~a.queued
          /\ agenda' = Cons(UnqueueDo(e, n), Cons(Run(e), Cons(AnimatedDo(e, n, goal), Rest)))
    BY <1>2 DEF AnimationBegins
  <1> PICK s : s = Cons(AnimatedDo(e, n, goal), Rest)
    OBVIOUS
  <1>7. IsSeq(s) /\ AllOver(s, animations')
    BY <1>5, OpsOfThings, OverPlain, OverCons, ConsFacts
  <1>8. AllOver(agenda', animations')
    <2>1. Over(Run(e), animations') /\ Over(DequeueDo(e), animations')
      BY OpsOfThings, OverPlain
    <2>2. CASE a.state = "pending"
      BY <1>6, <1>7, <2>2
    <2>3. CASE a.state = "resolved" /\ a.queued
      <3>1. IsSeq(Cons(DequeueDo(e), s)) /\ AllOver(Cons(DequeueDo(e), s), animations')
        BY <1>7, <2>1, OverCons, ConsFacts
      <3>2. agenda' = Cons(Run(e), Cons(DequeueDo(e), s))
        BY <1>6, <2>3
      <3> QED
        BY <2>1, <3>1, <3>2, OverCons
    <2>4. CASE a.state = "resolved" /\ ~a.queued
      <3>1. IsSeq(Cons(Run(e), s)) /\ AllOver(Cons(Run(e), s), animations')
        BY <1>7, <2>1, OverCons, ConsFacts
      <3>2. agenda' = Cons(UnqueueDo(e, n), Cons(Run(e), s))
        BY <1>6, <2>4
      <3> PICK u : u = UnqueueDo(e, n)
        OBVIOUS
      <3>3. u.op = "unqueue" /\ u.a = n
        BY SimpleThings
      <3>4. Over(u, animations')
        BY <1>3, <2>4, <3>3 DEF Over
      <3> QED
        BY <3>1, <3>2, <3>4, OverCons
    <2> QED
      BY <1>6, <2>2, <2>3, <2>4
  <1>9. Items(timers) \subseteq Items(timers') /\ (a.state = "pending" => n \in Items(timers'))
    <2>1. CASE timers' = Append(timers, n)
      BY <2>1, Appended DEF Types
    <2>2. CASE timers' = timers /\ a.state = "resolved"
      BY <2>2
    <2> QED
      BY <1>6, <2>1, <2>2
  <1>10. \A k \in DOMAIN animations : /\ animations[k].state = "pending" => k \in Items(timers)
                                      /\ animations[k].stopped => animations[k].state # "pending"
    BY DEF Timed, Pending
  <1>11. \A k \in DOMAIN animations' : /\ animations'[k].state = "pending" => k \in Items(timers')
                                       /\ animations'[k].stopped => animations'[k].state # "pending"
    BY <1>3, <1>9, <1>10
  <1> QED
    BY <1>8, <1>11 DEF Timed, Pending

LEMMA TimedByTick ==
  ASSUME Types, Timed, Animated \/ TickTimer \/ Ticked \/ TickEnds
  PROVE  Timed'
  <1>1. CASE Animated
    <2>1. /\ agenda # <<>>
          /\ \/ Settled(Todo.a, "resolved") /\ AfterSettled(Todo.a, "resolved", Rest)
             \/ animations' = animations /\ agenda' = Rest
      BY <1>1, AnimatedFacts
    <2>2. timers' = timers
      BY <1>1 DEF Animated, clock
    <2>3. ListOK(Rest, animations) /\ AllOver(Rest, animations) /\ IsSeq(Rest)
      BY <2>1, TimedParts
    <2>4. CASE Settled(Todo.a, "resolved") /\ AfterSettled(Todo.a, "resolved", Rest)
      <3>1. AllOver(Rest, animations')
        BY <2>3, <2>4, SettledAges, OverAges
      <3> QED
        BY <2>2, <2>3, <2>4, <3>1, TimedSettled
    <2> QED
      BY <2>1, <2>2, <2>3, <2>4, TimedStays
  <1>2. CASE TickTimer
    <2> PICK i : i = Todo.i
      OBVIOUS
    <2>1. /\ agenda # <<>> /\ i \in 1..Len(timers) /\ timers[i] \in DOMAIN animations
          /\ TimerStopped(i) \/ TimerGoesOn(i) \/ TimerEnds(i)
      BY <1>2, TickTimerFacts
    <2>2. ListOK(Rest, animations) /\ AllOver(Rest, animations) /\ IsSeq(Rest)
      BY <2>1, TimedParts
    <2>3. CASE TimerStopped(i) \/ TimerGoesOn(i)
      <3>1. StatesKeep /\ \E k : agenda' = Cons(TickAt(k), Rest)
        BY <2>3 DEF TimerStopped, TimerGoesOn
      <3>2. AllOver(Rest, animations')
        BY <2>2, <3>1, StatesKeepAge, OverAges
      <3>3. AllOver(agenda', animations')
        BY <2>2, <3>1, <3>2, OpsOfThings, OverPlain, OverCons
      <3>4. TimersKeep
        <4>1. CASE TimerStopped(i)
          <5>1. ~Pending(timers[i])
            BY <2>1, <4>1 DEF TimerStopped, Timed
          <5> QED
            BY <2>1, <3>1, <4>1, <5>1, RemovedKeep DEF TimerStopped
        <4>2. CASE TimerGoesOn(i)
          BY <4>2 DEF TimerGoesOn, TimersKeep
        <4> QED
          BY <2>3, <4>1, <4>2
      <3> QED
        BY <3>1, <3>3, <3>4, TimedStates
    <2>4. CASE TimerEnds(i)
      <3> PICK n : n = timers[i]
        OBVIOUS
      <3> PICK x : x = TickedDo(animations[n].e, n, i)
        OBVIOUS
      <3> PICK s : s = Cons(x, Rest)
        OBVIOUS
      <3>1. /\ timers' = timers /\ Settled(n, "resolved")
            /\ AfterSettled(n, "resolved", s) \/ agenda' = s
        BY <2>4 DEF TimerEnds
      <3>2. AllOver(Rest, animations')
        BY <2>2, <3>1, SettledAges, OverAges
      <3>3. x.op = "ticked" /\ x.a = n /\ animations'[n].state # "pending"
        BY <3>1, SimpleThings, SettledAges
      <3>4. Over(x, animations')
        BY <3>3 DEF Over
      <3>5. IsSeq(s) /\ AllOver(s, animations')
        BY <2>2, <3>2, <3>4, OverCons, ConsFacts
      <3> QED
        BY <3>1, <3>5, TimedSettled
    <2> QED
      BY <2>1, <2>3, <2>4
  <1>3. CASE Ticked
    <2> PICK i : i = Todo.i
      OBVIOUS
    <2>1. /\ agenda # <<>> /\ Todo.op = "ticked"
          /\ \/ /\ i \in 1..Len(timers) /\ timers[i] = Todo.a /\ timers' = RemoveAt(timers, i)
             \/ timers' = timers
          /\ \E k : agenda' = Cons(TickAt(k), Rest)
      BY <1>3, TickedFacts
    <2>2. AllOver(Rest, animations) /\ IsSeq(Rest) /\ Over(Todo, animations)
      BY <2>1, TimedParts
    <2>3. animations' = animations
      BY <1>3 DEF Ticked
    <2>4. AllOver(agenda', animations')
      BY <2>1, <2>2, <2>3, OpsOfThings, OverPlain, OverCons
    <2>5. ~Pending(Todo.a)
      BY <2>1, <2>2 DEF Over, Pending
    <2>6. StatesKeep
      BY <2>3, SameAnimations
    <2>7. TimersKeep
      <3>1. CASE timers' = timers
        BY <3>1 DEF TimersKeep
      <3>2. CASE i \in 1..Len(timers) /\ timers[i] = Todo.a /\ timers' = RemoveAt(timers, i)
        BY <2>5, <2>6, <3>2, RemovedKeep
      <3> QED
        BY <2>1, <3>1, <3>2
    <2> QED
      BY <2>4, <2>6, <2>7, TimedStates
  <1>4. CASE TickEnds
    <2>1. agenda # <<>> /\ StatesKeep /\ agenda' = Rest
      BY <1>4, TickEndsFacts
    <2>2. timers' = timers
      BY <1>4 DEF TickEnds
    <2>3. AllOver(agenda', animations')
      BY <2>1, TimedParts, StatesKeepAge, OverAges
    <2>4. TimersKeep
      BY <2>2 DEF TimersKeep
    <2> QED
      BY <2>1, <2>3, <2>4, TimedStates
  <1> QED
    BY <1>1, <1>2, <1>3, <1>4

LEMMA TimedByLoop ==
  ASSUME Types, Timed, HaltTimer \/ Splice, ~fate'.wronged
  PROVE  Timed'
  <1> PICK x : x = Todo
    OBVIOUS
  <1> PICK i : i = Todo.i
    OBVIOUS
  <1>1. CASE HaltTimer
    <2>1. agenda # <<>> /\ (HaltFails \/ HaltPasses(x, i) \/ \E n, how : HaltStops(x, i, n, how))
      BY <1>1, HaltTimerFacts
    <2>2. ListOK(Rest, animations) /\ AllOver(Rest, animations) /\ IsSeq(Rest)
      BY <2>1, TimedParts
    <2>3. timers' = timers
      BY <1>1 DEF HaltTimer, clock
    <2>4. ~HaltFails
      BY DEF HaltFails
    <2>5. CASE HaltPasses(x, i)
      <3> PICK y : y = Do("halt", x.e, x.a, i - 1, x.how, x.items)
        OBVIOUS
      <3>1. y.op = "halt"
        BY DoFields
      <3>2. animations' = animations /\ agenda' = Cons(y, Rest)
        BY <2>5 DEF HaltPasses
      <3>3. AllOver(agenda', animations)
        BY <2>2, <3>1, <3>2, OverPlain, OverCons
      <3> QED
        BY <2>3, <3>2, <3>3, TimedStays
    <2>6. ASSUME NEW n, NEW how, HaltStops(x, i, n, how) PROVE Timed'
      <3> PICK y : y = Do("splice", x.e, n, i, x.how, x.items)
        OBVIOUS
      <3> PICK s : s = Cons(y, Rest)
        OBVIOUS
      <3>1. y.op = "splice" /\ y.a = n
        BY DoFields
      <3>2. Settled(n, how) /\ AfterSettled(n, how, s) /\ how \in {"resolved", "rejected"}
        BY <2>6 DEF HaltStops
      <3>3. AllOver(Rest, animations') /\ animations'[n].state # "pending"
        BY <2>2, <3>2, SettledAges, OverAges
      <3>4. Over(y, animations')
        BY <3>1, <3>3 DEF Over
      <3>5. IsSeq(s) /\ AllOver(s, animations')
        BY <2>2, <3>3, <3>4, OverCons, ConsFacts
      <3> QED
        BY <2>3, <3>2, <3>5, TimedSettled
    <2> QED
      BY <2>1, <2>4, <2>5, <2>6
  <1>2. CASE Splice
    <2>1. /\ agenda # <<>> /\ x.op = "splice"
          /\ agenda' = Cons(Do("halt", x.e, x.a, i - 1, x.how, x.items), Rest)
          /\ \/ i \in 1..Len(timers) /\ timers' = RemoveAt(timers, i)
             \/ i > Len(timers) /\ timers' = timers
          /\ i \in 1..Len(timers) => timers[i] = x.a \/ ~Pending(timers[i])
      BY <1>2, SpliceFacts
    <2>2. AllOver(Rest, animations) /\ IsSeq(Rest) /\ Over(x, animations)
      BY <2>1, TimedParts
    <2>3. animations' = animations
      BY <1>2 DEF Splice
    <2> PICK y : y = Do("halt", x.e, x.a, i - 1, x.how, x.items)
      OBVIOUS
    <2>4. y.op = "halt"
      BY DoFields
    <2>5. AllOver(agenda', animations')
      BY <2>1, <2>2, <2>3, <2>4, OverPlain, OverCons
    <2>6. ~Pending(x.a)
      BY <2>1, <2>2 DEF Over, Pending
    <2>7. StatesKeep
      BY <2>3, SameAnimations
    <2>8. TimersKeep
      <3>1. CASE timers' = timers
        BY <3>1 DEF TimersKeep
      <3>2. CASE i \in 1..Len(timers) /\ timers' = RemoveAt(timers, i)
        BY <2>1, <2>6, <2>7, <3>2, RemovedKeep
      <3> QED
        BY <2>1, <3>1, <3>2
    <2> QED
      BY <2>5, <2>7, <2>8, TimedStates
  <1> QED
    BY <1>1, <1>2

\* The rest changes no animation and no timer.
LEMMA TimedByOthers ==
  ASSUME Types, Timed,
         \/ StopBegins \/ StopEnds \/ FinishQueue \/ FinishEnds \/ Return
         \/ Tick \/ TimeoutFires
  PROVE  Timed'
  <1> PICK x : x = Todo
    OBVIOUS
  <1> PICK e : e = Todo.e
    OBVIOUS
  <1>1. animations' = animations /\ timers' = timers
    BY DEF StopBegins, StopEnds, FinishQueue, FinishEnds, Return, Tick, TimeoutFires, clock
  <1>2. AllOver(agenda, animations) /\ IsSeq(agenda)
    BY DEF Timed, Types
  <1>3. agenda # <<>> => AllOver(Rest, animations) /\ IsSeq(Rest)
    BY TimedParts
  <1>4. ASSUME NEW y, y.op \notin {"ticked", "splice", "unqueue"},
               \/ agenda' = Cons(y, agenda)
               \/ agenda # <<>> /\ agenda' = Cons(y, Rest)
               \/ agenda # <<>> /\ \E z : /\ z.op \notin {"ticked", "splice", "unqueue"}
                                          /\ agenda' = Cons(z, Cons(y, Rest))
        PROVE  AllOver(agenda', animations)
    <2>1. Over(y, animations)
      BY <1>4, OverPlain
    <2>2. CASE agenda' = Cons(y, agenda)
      BY <1>2, <2>1, <2>2, OverCons
    <2>3. CASE agenda # <<>>
      <3>1. IsSeq(Cons(y, Rest)) /\ AllOver(Cons(y, Rest), animations)
        BY <1>3, <2>1, <2>3, OverCons, ConsFacts
      <3> QED
        BY <1>4, <2>2, <3>1, OverPlain, OverCons
    <2> QED
      BY <1>4, <2>2, <2>3
  <1>5. AllOver(agenda', animations)
    <2>1. CASE StopBegins
      <3>1. agenda # <<>> /\ \E items : agenda' = Cons(HaltAt(e, Len(timers), Todo.how, items), Rest)
        BY <2>1, StopBeginsFacts
      <3>2. PICK items, y : y = HaltAt(e, Len(timers), Todo.how, items) /\ agenda' = Cons(y, Rest)
        BY <3>1
      <3>3. y.op = "halt"
        BY <3>2, HaltThings
      <3> QED
        BY <1>4, <3>1, <3>2, <3>3
    <2>2. CASE StopEnds
      <3>1. agenda # <<>> /\ (agenda' = Rest \/ agenda' = Cons(DequeueDo(x.e), Rest))
        BY <2>2, StopEndsFacts
      <3>2. DequeueDo(x.e).op = "dequeue"
        BY OpsOfThings
      <3> QED
        BY <1>3, <1>4, <3>1, <3>2
    <2>3. CASE FinishQueue
      <3>1. /\ agenda # <<>>
            /\ \E items : LET y == Do("halt", x.e, x.a, 0, "finish", items)
                          IN  \/ agenda' = Cons(y, Rest)
                              \/ \E item : agenda' = Cons(AnimateDo(x.e, item, "queued"), Cons(y, Rest))
        BY <2>3, FinishQueueFacts
      <3>2. PICK items, y : /\ y = Do("halt", x.e, x.a, 0, "finish", items)
                            /\ \/ agenda' = Cons(y, Rest)
                               \/ \E item : agenda' = Cons(AnimateDo(x.e, item, "queued"), Cons(y, Rest))
        BY <3>1
      <3>3. y.op = "halt"
        BY <3>2, DoFields
      <3>4. \A item : AnimateDo(x.e, item, "queued").op = "animate"
        BY AnimateThings
      <3> QED
        BY <1>4, <3>1, <3>2, <3>3, <3>4
    <2>4. CASE FinishEnds \/ Return
      <3>1. agenda # <<>> /\ agenda' = Rest
        BY <2>4 DEF FinishEnds, Return, IsNext
      <3> QED
        BY <1>3, <3>1
    <2>5. CASE Tick
      <3>1. agenda' = Cons(TickAt(1), agenda) /\ TickAt(1).op = "tick"
        BY <2>5, TickFacts, OpsOfThings
      <3> QED
        BY <1>4, <3>1
    <2>6. CASE TimeoutFires
      <3>1. PICK f : agenda' = Cons(DequeueDo(f), agenda)
        BY <2>6, TimeoutFacts
      <3>2. DequeueDo(f).op = "dequeue"
        BY OpsOfThings
      <3> QED
        BY <1>4, <3>1, <3>2
    <2> QED
      BY <2>1, <2>2, <2>3, <2>4, <2>5, <2>6
  <1> QED
    BY <1>1, <1>5, TimedStays

LEMMA TimedByCalls ==
  ASSUME Types, Timed, User
  PROVE  Timed'
  <1>1. /\ agenda' = agenda \/ CallsOne \/ CallsTwo
        /\ animations' = animations /\ timers' = timers
    BY CallsAgenda
  <1>2. AllOver(agenda, animations) /\ IsSeq(agenda)
    BY DEF Timed, Types
  <1>3. CASE CallsOne
    <2>1. PICK x : x.op \in CallOps /\ agenda' = Cons(x, agenda)
      BY <1>3 DEF CallsOne
    <2>2. Over(x, animations)
      BY <2>1, OverPlain DEF CallOps
    <2>3. AllOver(agenda', animations)
      BY <1>2, <2>1, <2>2, OverCons
    <2> QED
      BY <1>1, <2>3, TimedStays
  <1>4. CASE CallsTwo
    <2>1. PICK x, y : x.op = "dequeue" /\ y.op = "stop" /\ agenda' = Cons(x, Cons(y, agenda))
      BY <1>4 DEF CallsTwo
    <2>2. Over(x, animations) /\ Over(y, animations)
      BY <2>1, OverPlain
    <2>3. IsSeq(Cons(y, agenda)) /\ AllOver(Cons(y, agenda), animations)
      BY <1>2, <2>2, OverCons, ConsFacts
    <2>4. AllOver(agenda', animations)
      BY <2>1, <2>2, <2>3, OverCons
    <2> QED
      BY <1>1, <2>4, TimedStays
  <1>5. CASE agenda' = agenda
    BY <1>1, <1>2, <1>5, TimedStays
  <1> QED
    BY <1>1, <1>3, <1>4, <1>5

LEMMA TimedStep ==
  ASSUME Types, Timed, [Next]_vars, ~fate'.wronged
  PROVE  Timed'
  <1>1. CASE UNCHANGED vars
    <2>1. agenda' = agenda /\ animations' = animations /\ timers' = timers
      BY <1>1 DEF vars, clock
    <2> QED
      BY <2>1, TimedStays DEF Timed
  <1> QED
    BY <1>1, TimedByQueue, TimedByAnimate, TimedByTick, TimedByLoop, TimedByOthers, TimedByCalls
       DEF Next, Program, Wait

--------------------------------------------------------------------------------
(* Queues that are empty                                                    *)

\* Loops of finish().
Finishing(x) == x.op \in {"halt", "splice"} /\ x.how = "finish"

\* An empty queue with hooks that nothing outside of it keeps will be moved on, or a loop
\* of finish() comes to an animation of it.
Pushes(x) == MovesOn(x) /\ x.op # "animate"
Comes(x, e) == Finishing(x) /\ \E j \in 1..Len(timers) : j <= x.i /\ timers[j] \in QueuedOf(e)
Open(e) == queue[e] = <<>> /\ hooks[e] # <<>> /\ HooksOf(e).unqueued <= 0
Closes(e) == \E x \in Of(e) : Pushes(x) \/ Comes(x, e)
Closing(e) == Open(e) => Closes(e)

\* The animations of the queue that go on have not moved up in the list.
StaysNear(f) ==
  \A j \in 1..Len(timers) : timers[j] \in QueuedOf(f) =>
    \E k \in 1..Len(timers') : k <= j /\ timers'[k] \in QueuedOf(f)'

LEMMA ComesStill ==
  ASSUME NEW f, StaysNear(f), NEW x, Comes(x, f), NEW y, Finishing(y), y.i = x.i, x.i \in Nat
  PROVE  Comes(y, f)'
  <1>1. PICK j \in 1..Len(timers) : j <= x.i /\ timers[j] \in QueuedOf(f)
    BY DEF Comes
  <1>2. PICK k \in 1..Len(timers') : k <= j /\ timers'[k] \in QueuedOf(f)'
    BY <1>1 DEF StaysNear
  <1>3. k \in Int /\ j \in Int
    OBVIOUS
  <1>4. k <= y.i
    BY <1>1, <1>2, <1>3
  <1> QED
    BY <1>2, <1>4 DEF Comes

LEMMA ClosingKept ==
  ASSUME Types, NEW f, Closing(f), Open(f)' => Open(f), StaysNear(f),
         \A x \in Of(f) : Pushes(x) \/ Comes(x, f) => x \in Items(agenda')
  PROVE  Closing(f)'
  <1> SUFFICES ASSUME Open(f)' PROVE Closes(f)'
    BY DEF Closing
  <1>1. PICK x \in Of(f) : Pushes(x) \/ Comes(x, f)
    BY DEF Closing, Closes
  <1>2. x \in Of(f)'
    BY <1>1 DEF Of
  <1>3. CASE Pushes(x)
    BY <1>2, <1>3 DEF Closes
  <1>4. CASE Comes(x, f)
    <2>1. ThingOK(x) /\ Finishing(x)
      BY <1>4 DEF Types, Of, Comes
    <2>2. x.i \in Nat
      BY <2>1 DEF ThingOK, ThingIn, Finishing
    <2>3. Comes(x, f)'
      BY <1>4, <2>1, <2>2, ComesStill
    <2> QED
      BY <1>2, <2>3 DEF Closes
  <1> QED
    BY <1>1, <1>3, <1>4

LEMMA ClosingPushed ==
  ASSUME NEW x \in Items(agenda'), Pushes(x)
  PROVE  Closing(x.e)'
  <1>1. x.op # "tick"
    BY DEF Pushes, MovesOn
  <1>2. x \in Of(x.e)'
    BY <1>1 DEF Of
  <1> QED
    BY <1>2 DEF Closing, Closes

LEMMA ClosingDequeued ==
  ASSUME NEW e, DequeueDo(e) \in Items(agenda')
  PROVE  Closing(e)'
  <1> PICK x : x = DequeueDo(e)
    OBVIOUS
  <1>1. x.op = "dequeue" /\ x.e = e
    BY SimpleThings
  <1>2. Closing(x.e)'
    BY <1>1, ClosingPushed DEF Pushes, MovesOn
  <1> QED
    BY <1>1, <1>2

LEMMA ClosingComes ==
  ASSUME NEW x \in Items(agenda'), Comes(x, x.e)'
  PROVE  Closing(x.e)'
  <1>1. x.op # "tick"
    BY DEF Comes, Finishing
  <1>2. x \in Of(x.e)'
    BY <1>1 DEF Of
  <1> QED
    BY <1>2 DEF Closing, Closes

LEMMA OpenSame ==
  ASSUME NEW f, queue'[f] = queue[f], hooks'[f] = hooks[f]
  PROVE  Open(f)' => Open(f)
  BY DEF Open, HooksOf, NewHooks

\* What of the agenda stays.
LEMMA ClosingSpared ==
  ASSUME Types, NEW f,
         \/ Items(agenda) \subseteq Items(agenda')
         \/ /\ agenda # <<>> /\ Items(Rest) \subseteq Items(agenda')
            /\ Todo.op = "tick" \/ Todo.e # f \/ ~(Pushes(Todo) \/ Comes(Todo, f))
  PROVE  \A x \in Of(f) : Pushes(x) \/ Comes(x, f) => x \in Items(agenda')
  <1> SUFFICES ASSUME NEW x \in Of(f), Pushes(x) \/ Comes(x, f) PROVE x \in Items(agenda')
    OBVIOUS
  <1>1. x \in Items(agenda) /\ x.e = f /\ x.op # "tick"
    BY DEF Of
  <1>2. CASE agenda # <<>> /\ Items(Rest) \subseteq Items(agenda') /\ x # Todo
    <2>1. x \in Items(Rest)
      BY <1>1, <1>2, RestFacts
    <2> QED
      BY <1>2, <2>1
  <1> QED
    BY <1>1, <1>2

\* The timers stay, or one is taken away that does not go on.
LEMMA NearSame ==
  ASSUME Types, NEW f, timers' = timers, QueuedOf(f) \subseteq QueuedOf(f)'
  PROVE  StaysNear(f)
  <1> SUFFICES ASSUME NEW j \in 1..Len(timers), timers[j] \in QueuedOf(f)
               PROVE  \E k \in 1..Len(timers') : k <= j /\ timers'[k] \in QueuedOf(f)'
    BY DEF StaysNear
  <1>1. j <= j
    OBVIOUS
  <1> QED
    BY <1>1

LEMMA NearRemoved ==
  ASSUME Types, NEW f, NEW i \in 1..Len(timers), timers' = RemoveAt(timers, i), ~Pending(timers[i]),
         QueuedOf(f) \subseteq QueuedOf(f)'
  PROVE  StaysNear(f)
  <1> SUFFICES ASSUME NEW j \in 1..Len(timers), timers[j] \in QueuedOf(f)
               PROVE  \E k \in 1..Len(timers') : k <= j /\ timers'[k] \in QueuedOf(f)'
    BY DEF StaysNear
  <1>1. /\ Len(timers) \in Nat /\ Len(timers') = Len(timers) - 1
        /\ \A k \in 1..Len(timers') : timers'[k] = IF k < i THEN timers[k] ELSE timers[k + 1]
    BY Removed DEF Types
  <1>2. j # i
    BY DEF QueuedOf, Begun
  <1>3. CASE j < i
    <2>1. j \in 1..Len(timers') /\ timers'[j] = timers[j] /\ j <= j
      BY <1>1, <1>3
    <2> QED
      BY <2>1
  <1>4. CASE j > i
    <2>1. j - 1 \in 1..Len(timers') /\ timers'[j - 1] = timers[j] /\ j - 1 <= j
      BY <1>1, <1>4
    <2> QED
      BY <2>1
  <1> QED
    BY <1>2, <1>3, <1>4

\* When neither a queue nor a timer changes, and no animation ends.
LEMMA ClosingQuiet ==
  ASSUME Types, NEW f, Closing(f), UNCHANGED <<queue, hooks, timers>>, StatesKeep,
         \/ Items(agenda) \subseteq Items(agenda')
         \/ /\ agenda # <<>> /\ Items(Rest) \subseteq Items(agenda')
            /\ Todo.op = "tick" \/ Todo.e # f \/ ~(Pushes(Todo) \/ Comes(Todo, f))
  PROVE  Closing(f)'
  <1>1. StaysNear(f)
    BY StatesKeepQueued, NearSame
  <1>2. \A x \in Of(f) : Pushes(x) \/ Comes(x, f) => x \in Items(agenda')
    BY ClosingSpared
  <1> QED
    BY <1>1, <1>2, OpenSame, ClosingKept

LEMMA NotClosing ==
  ASSUME NEW x, x.op \in {"unqueue", "run", "animate", "animated", "ticked"}
  PROVE  \A f : ~(Pushes(x) \/ Comes(x, f))
  BY DEF Pushes, MovesOn, Comes, Finishing

\* An animation ends; when it is one of the queue, dequeue() follows.
LEMMA ClosingResolved ==
  ASSUME Types, NEW n, Settled(n, "resolved"), NEW f, Closing(f), UNCHANGED <<queue, hooks, timers>>,
         \A x \in Of(f) : Pushes(x) \/ Comes(x, f) => x \in Items(agenda'),
         n \in QueuedOf(f) => DequeueDo(f) \in Items(agenda')
  PROVE  Closing(f)'
  <1>1. CASE n \in QueuedOf(f)
    BY <1>1, ClosingDequeued
  <1>2. CASE n \notin QueuedOf(f)
    <2>1. QueuedOf(f)' = QueuedOf(f)
      BY <1>2, SettledQueued
    <2>2. StaysNear(f)
      BY <2>1, NearSame
    <2> QED
      BY <2>2, OpenSame, ClosingKept
  <1> QED
    BY <1>1, <1>2

LEMMA DequeueClosing ==
  ASSUME Types, Dequeue, NEW f \in Elements, Closing(f)
  PROVE  Closing(f)'
  <1> PICK e : e = Todo.e
    OBVIOUS
  <1>1. /\ e \in Elements /\ agenda # <<>> /\ Todo.op = "dequeue" /\ OnlyOf(e)
        /\ DequeueEmpty(e) \/ \E fn : DequeueNext(e, fn)
    BY DequeueFacts
  <1>2. timers' = timers /\ animations' = animations
    BY DEF Dequeue
  <1>3. IsSeq(Rest)
    BY <1>1, RestFacts
  <1>4. CASE f # e
    <2>1. \/ agenda' = Rest \/ \E x : agenda' = Cons(x, Rest)
          \/ \E x, y : agenda' = Cons(x, Cons(y, Rest))
      BY <1>1 DEF DequeueEmpty, DequeueNext
    <2>2. Items(Rest) \subseteq Items(agenda')
      BY <1>3, <2>1, BehindOne, BehindTwo
    <2>3. \A x \in Of(f) : Pushes(x) \/ Comes(x, f) => x \in Items(agenda')
      BY <1>1, <1>4, <2>2, ClosingSpared
    <2>4. StaysNear(f)
      BY <1>2, SameAnimations, StatesKeepQueued, NearSame
    <2>5. Open(f)' => Open(f)
      BY <1>1, <1>4, OpenSame DEF OnlyOf
    <2> QED
      BY <2>3, <2>4, <2>5, ClosingKept
  <1>5. CASE f = e
    <2>1. ~Open(e)'
      <3>1. CASE hooks'[e] = <<>> \/ queue'[e] # <<>>
        BY <3>1 DEF Open
      <3>2. CASE hooks'[e] = <<HooksOf(e)>> /\ HooksOf(e).unqueued > 0
        <4>1. HooksOf(e)' = HooksOf(e) /\ HooksOf(e) \in Hooks
          BY <1>1, <3>2, HooksAfter, HooksFacts
        <4> QED
          BY <3>2, <4>1 DEF Open, Hooks
      <3> QED
        BY <1>1, <3>1, <3>2 DEF DequeueEmpty, DequeueNext, Emptied
    <2> QED
      BY <1>5, <2>1 DEF Closing
  <1> QED
    BY <1>4, <1>5

LEMMA UnqueueClosing ==
  ASSUME Types, Unqueue, NEW f \in Elements, Closing(f)
  PROVE  Closing(f)'
  <1> PICK e : e = Todo.e
    OBVIOUS
  <1>1. /\ e \in Elements /\ agenda # <<>> /\ Todo.op = "unqueue" /\ agenda' = Rest
        /\ \A g \in Elements \ {e} : hooks'[g] = hooks[g]
    BY UnqueueFacts
  <1>2. queue' = queue /\ timers' = timers /\ animations' = animations
    BY DEF Unqueue, clock
  <1>3. CASE f # e
    <2>1. \A x \in Of(f) : Pushes(x) \/ Comes(x, f) => x \in Items(agenda')
      BY <1>1, <1>3, ClosingSpared
    <2>2. StaysNear(f)
      BY <1>2, SameAnimations, StatesKeepQueued, NearSame
    <2>3. Open(f)' => Open(f)
      BY <1>1, <1>2, <1>3, OpenSame
    <2> QED
      BY <2>1, <2>2, <2>3, ClosingKept
  <1>4. CASE f = e
    <2>1. PICK h : UnqueueAfter(e, h)
      BY UnqueueFacts
    <2>2. ~Open(e)'
      <3>1. CASE hooks'[e] = <<>> \/ queue[e] # <<>>
        BY <1>2, <3>1 DEF Open
      <3>2. CASE hooks'[e] = <<h>> /\ h.unqueued > 0
        <4>1. HooksOf(e)' = h /\ h \in Hooks
          BY <1>1, <2>1, <3>2, HooksAfter DEF UnqueueAfter
        <4> QED
          BY <3>2, <4>1 DEF Open, Hooks
      <3> QED
        BY <2>1, <3>1, <3>2 DEF UnqueueAfter, Emptied
    <2> QED
      BY <1>4, <2>2 DEF Closing
  <1> QED
    BY <1>3, <1>4

LEMMA AnimateClosing ==
  ASSUME Types, Animate, NEW f \in Elements, Closing(f)
  PROVE  Closing(f)'
  <1> PICK e : e = Todo.e
    OBVIOUS
  <1>1. /\ e \in Elements /\ agenda # <<>> /\ Todo.op = "animate"
        /\ \A g \in Elements \ {e} : hooks'[g] = hooks[g]
        /\ AnimateHooks(e, Todo.how = "queued")
    BY AnimateFacts
  <1>2. PICK n, a : AnimationBegins(e, n, a)
    BY AnimateFacts
  <1>3. queue' = queue
    BY DEF Animate
  <1>4. IsSeq(Rest)
    BY <1>1, RestFacts
  <1>5. Items(Rest) \subseteq Items(agenda')
    <2>1. \/ \E x : agenda' = Cons(x, Rest)
          \/ \E x, y, z : agenda' = Cons(x, Cons(y, Cons(z, Rest)))
      BY <1>2 DEF AnimationBegins
    <2> QED
      BY <1>4, <2>1, BehindOne, BehindThree
  <1>6. \A x \in Of(f) : Pushes(x) \/ Comes(x, f) => x \in Items(agenda')
    BY <1>1, <1>5, NotClosing, ClosingSpared
  <1>7. QueuedOf(f) \subseteq QueuedOf(f)'
    BY <1>2, BeginsQueued
  <1>8. StaysNear(f)
    <2>1. CASE timers' = timers
      BY <1>7, <2>1, NearSame
    <2>2. CASE timers' = Append(timers, n)
      <3>1. Len(timers) \in Nat /\ Len(timers') = Len(timers) + 1
            /\ \A k \in DOMAIN timers : timers'[k] = timers[k]
        BY <2>2, Appended DEF Types
      <3>2. \A j \in 1..Len(timers) : j \in 1..Len(timers') /\ timers'[j] = timers[j] /\ j <= j
        BY <3>1, IsSeqFacts DEF Types
      <3> QED
        BY <1>7, <3>2 DEF StaysNear
    <2> QED
      BY <1>2, <2>1, <2>2 DEF AnimationBegins
  <1>9. Open(f)' => Open(f)
    <2>1. CASE f # e \/ hooks' = hooks
      BY <1>1, <1>3, <2>1, OpenSame
    <2>2. CASE f = e /\ hooks' # hooks
      <3>1. PICK h \in Hooks : hooks'[e] = <<h>> /\ h.unqueued = HooksOf(e).unqueued + 1
        BY <1>1, <2>2 DEF AnimateHooks
      <3>2. HooksOf(e)' = h
        BY <1>1, <3>1, HooksAfter
      <3>3. HooksOf(e) \in Hooks /\ (hooks[e] = <<>> => HooksOf(e).unqueued = 0)
        BY <1>1, HooksFacts
      <3> QED
        BY <1>3, <2>2, <3>1, <3>2, <3>3 DEF Open, Hooks
    <2> QED
      BY <2>1, <2>2
  <1> QED
    BY <1>6, <1>8, <1>9, ClosingKept

LEMMA AnimatedClosing ==
  ASSUME Types, Animated, NEW f \in Elements, Closing(f)
  PROVE  Closing(f)'
  <1>1. /\ agenda # <<>> /\ Todo.op = "animated"
        /\ \/ Settled(Todo.a, "resolved") /\ AfterSettled(Todo.a, "resolved", Rest)
           \/ animations' = animations /\ agenda' = Rest
    BY AnimatedFacts
  <1>2. queue' = queue /\ hooks' = hooks /\ timers' = timers
    BY DEF Animated, data, clock
  <1>3. IsSeq(Rest) /\ ~(Pushes(Todo) \/ Comes(Todo, f))
    BY <1>1, RestFacts, NotClosing
  <1>4. CASE animations' = animations /\ agenda' = Rest
    BY <1>1, <1>2, <1>3, <1>4, SameAnimations, ClosingQuiet
  <1>5. CASE Settled(Todo.a, "resolved") /\ AfterSettled(Todo.a, "resolved", Rest)
    <2> PICK n : n = Todo.a
      OBVIOUS
    <2>1. /\ Items(Rest) \subseteq Items(agenda')
          /\ animations[n].queued => DequeueDo(animations[n].e) \in Items(agenda')
      BY <1>3, <1>5, SettledItems
    <2>2. \A x \in Of(f) : Pushes(x) \/ Comes(x, f) => x \in Items(agenda')
      BY <1>1, <1>3, <2>1, ClosingSpared
    <2>3. n \in QueuedOf(f) => DequeueDo(f) \in Items(agenda')
      BY <2>1 DEF QueuedOf, Begun
    <2> QED
      BY <1>2, <1>5, <2>2, <2>3, ClosingResolved
  <1> QED
    BY <1>1, <1>4, <1>5

LEMMA TickTimerClosing ==
  ASSUME Types, Timed, TickTimer, NEW f \in Elements, Closing(f)
  PROVE  Closing(f)'
  <1> PICK i : i = Todo.i
    OBVIOUS
  <1>1. /\ agenda # <<>> /\ Todo.op = "tick" /\ i \in 1..Len(timers) /\ timers[i] \in DOMAIN animations
        /\ TimerStopped(i) \/ TimerGoesOn(i) \/ TimerEnds(i)
    BY TickTimerFacts
  <1>2. queue' = queue /\ hooks' = hooks
    BY DEF TickTimer, data
  <1>3. IsSeq(Rest)
    BY <1>1, RestFacts
  <1>4. CASE TimerStopped(i)
    <2>1. Items(Rest) \subseteq Items(agenda')
      BY <1>3, <1>4, BehindOne DEF TimerStopped
    <2>2. \A x \in Of(f) : Pushes(x) \/ Comes(x, f) => x \in Items(agenda')
      BY <1>1, <2>1, ClosingSpared
    <2>3. ~Pending(timers[i]) /\ timers' = RemoveAt(timers, i) /\ StatesKeep
      BY <1>1, <1>4 DEF TimerStopped, Timed
    <2>4. StaysNear(f)
      BY <1>1, <2>3, StatesKeepQueued, NearRemoved
    <2> QED
      BY <1>2, <2>2, <2>4, OpenSame, ClosingKept
  <1>5. CASE TimerGoesOn(i)
    <2>1. Items(Rest) \subseteq Items(agenda')
      BY <1>3, <1>5, BehindOne DEF TimerGoesOn
    <2> QED
      BY <1>1, <1>2, <1>5, <2>1, ClosingQuiet DEF TimerGoesOn
  <1>6. CASE TimerEnds(i)
    <2> PICK n : n = timers[i]
      OBVIOUS
    <2> PICK s : s = Cons(TickedDo(animations[n].e, n, i), Rest)
      OBVIOUS
    <2>1. /\ Settled(n, "resolved") /\ timers' = timers
          /\ \/ Pending(n) /\ AfterSettled(n, "resolved", s)
             \/ ~Pending(n) /\ agenda' = s
      BY <1>6 DEF TimerEnds
    <2>2. IsSeq(s) /\ Items(Rest) \subseteq Items(s)
      BY <1>3, ConsFacts
    <2>3. Items(Rest) \subseteq Items(agenda')
      BY <2>1, <2>2, SettledItems
    <2>4. \A x \in Of(f) : Pushes(x) \/ Comes(x, f) => x \in Items(agenda')
      BY <1>1, <2>3, ClosingSpared
    <2>5. n \in QueuedOf(f) => DequeueDo(f) \in Items(agenda')
      <3> SUFFICES ASSUME n \in QueuedOf(f) PROVE DequeueDo(f) \in Items(agenda')
        OBVIOUS
      <3>1. Pending(n) /\ animations[n].queued /\ animations[n].e = f
        BY DEF QueuedOf, Begun
      <3> QED
        BY <2>1, <2>2, <3>1, SettledItems
    <2> QED
      BY <1>2, <2>1, <2>4, <2>5, ClosingResolved
  <1> QED
    BY <1>1, <1>4, <1>5, <1>6

LEMMA TickedClosing ==
  ASSUME Types, Timed, Ticked, NEW f \in Elements, Closing(f)
  PROVE  Closing(f)'
  <1> PICK i : i = Todo.i
    OBVIOUS
  <1>1. /\ agenda # <<>> /\ Todo.op = "ticked"
        /\ \/ /\ i \in 1..Len(timers) /\ timers[i] = Todo.a /\ timers' = RemoveAt(timers, i)
           \/ timers' = timers
        /\ \E k : agenda' = Cons(TickAt(k), Rest)
    BY TickedFacts
  <1>2. queue' = queue /\ hooks' = hooks /\ animations' = animations
    BY DEF Ticked, data
  <1>3. Items(Rest) \subseteq Items(agenda') /\ ~(Pushes(Todo) \/ Comes(Todo, f))
    BY <1>1, RestFacts, BehindOne, NotClosing
  <1>4. Over(Todo, animations)
    BY <1>1, TimedParts
  <1>5. ~Pending(Todo.a)
    BY <1>1, <1>4 DEF Over, Pending
  <1>6. QueuedOf(f)' = QueuedOf(f)
    BY <1>2, SameAnimations, StatesKeepQueued
  <1>7. StaysNear(f)
    <2>1. CASE timers' = timers
      BY <1>6, <2>1, NearSame
    <2>2. CASE i \in 1..Len(timers) /\ timers[i] = Todo.a /\ timers' = RemoveAt(timers, i)
      BY <1>5, <1>6, <2>2, NearRemoved
    <2> QED
      BY <1>1, <2>1, <2>2
  <1>8. \A x \in Of(f) : Pushes(x) \/ Comes(x, f) => x \in Items(agenda')
    BY <1>1, <1>3, ClosingSpared
  <1> QED
    BY <1>2, <1>7, <1>8, OpenSame, ClosingKept

LEMMA QuietClosing ==
  ASSUME Types, TickEnds \/ Tick \/ TimeoutFires \/ Return \/ FinishEnds \/ FinishQueue,
         NEW f \in Elements, Closing(f)
  PROVE  Closing(f)'
  <1>1. CASE TickEnds
    <2>1. agenda # <<>> /\ Todo.op = "tick" /\ StatesKeep /\ agenda' = Rest
      BY <1>1, TickEndsFacts
    <2>2. queue' = queue /\ hooks' = hooks /\ timers' = timers
      BY <1>1 DEF TickEnds, data
    <2> QED
      BY <2>1, <2>2, ClosingQuiet
  <1>2. CASE Tick \/ TimeoutFires
    <2>1. agenda = <<>> /\ (\E x : agenda' = Cons(x, agenda)) /\ IsSeq(agenda)
      BY <1>2, TickFacts, TimeoutFacts DEF Types
    <2>2. queue' = queue /\ hooks' = hooks /\ timers' = timers /\ animations' = animations
      BY <1>2 DEF Tick, TimeoutFires, data, clock
    <2>3. Items(agenda) \subseteq Items(agenda')
      BY <2>1, BehindOne
    <2> QED
      BY <2>2, <2>3, SameAnimations, ClosingQuiet
  <1>3. CASE Return
    <2>1. agenda # <<>> /\ Todo.op = "run" /\ agenda' = Rest
      BY <1>3 DEF Return, IsNext
    <2>2. queue' = queue /\ hooks' = hooks /\ timers' = timers /\ animations' = animations
      BY <1>3 DEF Return, data, clock
    <2>3. ~(Pushes(Todo) \/ Comes(Todo, f))
      BY <2>1, NotClosing
    <2> QED
      BY <2>1, <2>2, <2>3, SameAnimations, ClosingQuiet
  <1>4. CASE FinishEnds
    <2>1. agenda # <<>> /\ Todo.op = "halt" /\ Todo.how = "finish" /\ Todo.i = 0 /\ agenda' = Rest
      BY <1>4 DEF FinishEnds, IsNext
    <2>2. queue' = queue /\ hooks' = hooks /\ timers' = timers /\ animations' = animations
      BY <1>4 DEF FinishEnds, data, clock
    <2>3. ~(Pushes(Todo) \/ Comes(Todo, f))
      BY <2>1 DEF Pushes, MovesOn, Comes
    <2> QED
      BY <2>1, <2>2, <2>3, SameAnimations, ClosingQuiet
  <1>5. CASE FinishQueue
    <2> PICK x : x = Todo
      OBVIOUS
    <2>1. /\ agenda # <<>> /\ x.op = "halt" /\ x.how = "finish" /\ x.i = 0
          /\ \E y : \/ agenda' = Cons(y, Rest)
                    \/ \E z : agenda' = Cons(z, Cons(y, Rest))
      BY <1>5, FinishQueueFacts
    <2>2. queue' = queue /\ hooks' = hooks /\ timers' = timers /\ animations' = animations
      BY <1>5 DEF FinishQueue, data, clock
    <2>3. ~(Pushes(Todo) \/ Comes(Todo, f))
      BY <2>1 DEF Pushes, MovesOn, Comes
    <2>4. IsSeq(Rest)
      BY <2>1, RestFacts
    <2>5. Items(Rest) \subseteq Items(agenda')
      BY <2>1, <2>4, BehindOne, BehindTwo
    <2> QED
      BY <2>1, <2>2, <2>3, <2>5, SameAnimations, ClosingQuiet
  <1> QED
    BY <1>1, <1>2, <1>3, <1>4, <1>5

LEMMA StopBeginsClosing ==
  ASSUME Types, StopBegins, NEW f \in Elements, Closing(f)
  PROVE  Closing(f)'
  <1> PICK e : e = Todo.e
    OBVIOUS
  <1>1. /\ e \in Elements /\ agenda # <<>> /\ Todo.op = "stop" /\ Todo.how \in {"rejected", "resolved"}
        /\ \A g \in Elements \ {e} : hooks'[g] = hooks[g]
        /\ \/ hooks[e] = <<>> /\ hooks'[e] = <<>>
           \/ hooks[e] # <<>> /\ \E h \in Hooks : /\ hooks'[e] = <<h>> /\ h.stop = 0
                                                  /\ h.unqueued = HooksOf(e).unqueued
    BY StopBeginsFacts
  <1>2. PICK items : agenda' = Cons(HaltAt(e, Len(timers), Todo.how, items), Rest)
    BY StopBeginsFacts
  <1> PICK y : y = HaltAt(e, Len(timers), Todo.how, items)
    OBVIOUS
  <1>3. y.op = "halt" /\ y.e = e /\ y.how = Todo.how
    BY HaltThings
  <1>4. Items(Rest) \subseteq Items(agenda') /\ y \in Items(agenda')
    BY <1>1, <1>2, RestFacts, BehindOne
  <1>5. queue' = queue /\ animations' = animations /\ timers' = timers
    BY DEF StopBegins
  <1>6. CASE f = e /\ Todo.how = "rejected"
    <2>1. Pushes(y)
      BY <1>3, <1>6 DEF Pushes, MovesOn
    <2> QED
      BY <1>3, <1>4, <1>6, <2>1, ClosingPushed
  <1>7. CASE f # e \/ Todo.how # "rejected"
    <2>1. Todo.e # f \/ ~(Pushes(Todo) \/ Comes(Todo, f))
      BY <1>1, <1>7 DEF Pushes, MovesOn, Comes, Finishing
    <2>2. \A x \in Of(f) : Pushes(x) \/ Comes(x, f) => x \in Items(agenda')
      BY <1>1, <1>4, <2>1, ClosingSpared
    <2>3. StaysNear(f)
      BY <1>5, SameAnimations, StatesKeepQueued, NearSame
    <2>4. Open(f)' => Open(f)
      <3>1. CASE f # e \/ (hooks[e] = <<>> /\ hooks'[e] = <<>>)
        BY <1>1, <1>5, <3>1, OpenSame
      <3>2. CASE f = e /\ hooks[e] # <<>>
        <4>1. PICK h : hooks'[e] = <<h>> /\ h.unqueued = HooksOf(e).unqueued
          BY <1>1, <3>2
        <4>2. HooksOf(e)'.unqueued = HooksOf(e).unqueued
          BY <1>1, <4>1, HooksAfter
        <4> QED
          BY <1>5, <3>2, <4>2 DEF Open
      <3> QED
        BY <1>1, <3>1, <3>2
    <2> QED
      BY <2>2, <2>3, <2>4, ClosingKept
  <1> QED
    BY <1>1, <1>6, <1>7

\* The next step of a loop pushes when the step before does.
LEMMA LoopPushes ==
  ASSUME NEW x, NEW y, y.op \in {"halt", "splice"}, y.how = x.how, y.items = x.items,
         x.op \in {"halt", "splice"}, Pushes(x)
  PROVE  Pushes(y)
  BY LoopMoves DEF Pushes

LEMMA HaltTimerClosing ==
  ASSUME Types, HaltTimer, ~fate'.wronged, NEW f \in Elements, Closing(f)
  PROVE  Closing(f)'
  <1> PICK x : x = Todo
    OBVIOUS
  <1> PICK i : i = Todo.i
    OBVIOUS
  <1>1. /\ agenda # <<>> /\ x.op = "halt" /\ x.e \in Elements /\ i > 0
        /\ HaltFails \/ HaltPasses(x, i) \/ \E n, how : HaltStops(x, i, n, how)
    BY HaltTimerFacts
  <1>2. queue' = queue /\ hooks' = hooks /\ timers' = timers
    BY DEF HaltTimer, data, clock
  <1>3. IsSeq(Rest) /\ i \in Nat
    BY <1>1, RestFacts, LoopOK
  <1>4. ~HaltFails
    BY DEF HaltFails
  <1>5. CASE HaltPasses(x, i)
    <2> PICK y : y = Do("halt", x.e, x.a, i - 1, x.how, x.items)
      OBVIOUS
    <2>1. y.op = "halt" /\ y.e = x.e /\ y.how = x.how /\ y.items = x.items /\ y.i = i - 1
      BY DoFields
    <2>2. animations' = animations /\ agenda' = Cons(y, Rest)
          /\ i \in 1..Len(timers)
          /\ ~(/\ animations[timers[i]].e = x.e /\ Pending(timers[i])
               /\ (x.how = "finish" => animations[timers[i]].queued))
      BY <1>5 DEF HaltPasses
    <2>3. Items(Rest) \subseteq Items(agenda') /\ y \in Items(agenda')
      BY <1>3, <2>2, BehindOne
    <2>4. CASE f = x.e /\ Pushes(x)
      <3>1. Pushes(y)
        BY <1>1, <2>1, <2>4, LoopPushes
      <3> QED
        BY <2>1, <2>3, <2>4, <3>1, ClosingPushed
    <2>5. CASE f = x.e /\ Comes(x, f)
      <3>1. PICK j \in 1..Len(timers) : j <= x.i /\ timers[j] \in QueuedOf(f)
        BY <2>5 DEF Comes
      <3>2. timers[i] \notin QueuedOf(f)
        BY <2>2, <2>5 DEF QueuedOf, Begun
      <3>3. j \in Int /\ j # i /\ x.i = i
        BY <3>1, <3>2
      <3>4. j <= y.i
        BY <1>3, <2>1, <3>1, <3>3
      <3>5. QueuedOf(f)' = QueuedOf(f)
        BY <2>2, SameAnimations, StatesKeepQueued
      <3>6. Finishing(y)
        BY <2>1, <2>5 DEF Comes, Finishing
      <3>7. timers' = timers
        BY <1>2
      <3>8. Comes(y, f)'
        BY <3>1, <3>4, <3>5, <3>6, <3>7 DEF Comes
      <3> QED
        BY <2>1, <2>3, <2>5, <3>8, ClosingComes
    <2>6. CASE f # x.e \/ ~(Pushes(x) \/ Comes(x, f))
      BY <1>1, <1>2, <2>2, <2>3, <2>6, SameAnimations, ClosingQuiet
    <2> QED
      BY <2>4, <2>5, <2>6
  <1>6. ASSUME NEW n, NEW how, HaltStops(x, i, n, how) PROVE Closing(f)'
    <2> PICK y : y = Do("splice", x.e, n, i, x.how, x.items)
      OBVIOUS
    <2>1. y.op = "splice" /\ y.e = x.e /\ y.how = x.how /\ y.items = x.items /\ y.i = i
      BY DoFields
    <2> PICK s : s = Cons(y, Rest)
      OBVIOUS
    <2>2. IsSeq(s) /\ Items(Rest) \subseteq Items(s) /\ y \in Items(s)
      BY <1>3, ConsFacts
    <2>3. /\ animations[n].e = x.e /\ Settled(n, how) /\ AfterSettled(n, how, s)
          /\ how = IF x.how = "rejected" THEN "rejected" ELSE "resolved"
      BY <1>6 DEF HaltStops
    <2>4. Items(Rest) \subseteq Items(agenda') /\ y \in Items(agenda')
      BY <2>2, <2>3, SettledItems
    <2>5. CASE f = x.e /\ Pushes(x)
      <3>1. Pushes(y)
        BY <1>1, <2>1, <2>5, LoopPushes
      <3> QED
        BY <2>1, <2>4, <2>5, <3>1, ClosingPushed
    <2>6. CASE n \in QueuedOf(f) /\ how = "resolved"
      <3>1. animations[n].queued /\ animations[n].e = f
        BY <2>6 DEF QueuedOf, Begun
      <3> QED
        BY <2>2, <2>3, <2>6, <3>1, SettledItems, ClosingDequeued
    <2>7. CASE n \notin QueuedOf(f) /\ ~(f = x.e /\ Pushes(x))
      <3>1. how \in {"resolved", "rejected"}
        BY <2>3
      <3>2. QueuedOf(f)' = QueuedOf(f)
        BY <2>3, <2>7, <3>1, SettledQueued
      <3>3. StaysNear(f)
        BY <1>2, <3>2, NearSame
      <3>4. CASE f = x.e /\ Comes(x, f)
        <4>1. Finishing(y) /\ y.i = x.i /\ x.i \in Nat
          BY <1>3, <2>1, <3>4 DEF Comes, Finishing
        <4>2. Comes(y, f)'
          BY <3>3, <3>4, <4>1, ComesStill
        <4> QED
          BY <2>1, <2>4, <3>4, <4>2, ClosingComes
      <3>5. CASE f # x.e \/ ~Comes(x, f)
        <4>1. \A z \in Of(f) : Pushes(z) \/ Comes(z, f) => z \in Items(agenda')
          BY <1>1, <2>4, <2>7, <3>5, ClosingSpared
        <4> QED
          BY <1>2, <3>3, <4>1, OpenSame, ClosingKept
      <3> QED
        BY <3>4, <3>5
    <2>8. CASE n \in QueuedOf(f) /\ how = "rejected"
      <3>1. f = x.e /\ Pushes(x)
        BY <1>1, <2>3, <2>8 DEF QueuedOf, Begun, Pushes, MovesOn
      <3> QED
        BY <2>5, <3>1
    <2> QED
      BY <2>3, <2>5, <2>6, <2>7, <2>8
  <1> QED
    BY <1>1, <1>4, <1>5, <1>6

LEMMA SpliceClosing ==
  ASSUME Types, Timed, Splice, ~fate'.wronged, NEW f \in Elements, Closing(f)
  PROVE  Closing(f)'
  <1> PICK x : x = Todo
    OBVIOUS
  <1> PICK i : i = Todo.i
    OBVIOUS
  <1>1. /\ agenda # <<>> /\ x.op = "splice" /\ x.e \in Elements /\ i \in Nat \ {0}
        /\ agenda' = Cons(Do("halt", x.e, x.a, i - 1, x.how, x.items), Rest)
        /\ \/ i \in 1..Len(timers) /\ timers' = RemoveAt(timers, i)
           \/ i > Len(timers) /\ timers' = timers
        /\ i \in 1..Len(timers) => timers[i] = x.a \/ ~Pending(timers[i])
    BY SpliceFacts
  <1>2. queue' = queue /\ hooks' = hooks /\ animations' = animations
    BY DEF Splice, data
  <1> PICK y : y = Do("halt", x.e, x.a, i - 1, x.how, x.items)
    OBVIOUS
  <1>3. y.op = "halt" /\ y.e = x.e /\ y.how = x.how /\ y.items = x.items /\ y.i = i - 1
    BY DoFields
  <1>4. Items(Rest) \subseteq Items(agenda') /\ y \in Items(agenda')
    BY <1>1, RestFacts, BehindOne
  <1>5. Over(x, animations)
    BY <1>1, TimedParts
  <1>6. i \in 1..Len(timers) => ~Pending(timers[i])
    BY <1>1, <1>5 DEF Over, Pending
  <1>7. QueuedOf(f)' = QueuedOf(f)
    BY <1>2, SameAnimations, StatesKeepQueued
  <1>8. CASE f = x.e /\ Pushes(x)
    <2>1. Pushes(y)
      BY <1>1, <1>3, <1>8, LoopPushes
    <2> QED
      BY <1>3, <1>4, <1>8, <2>1, ClosingPushed
  <1>9. CASE f = x.e /\ Comes(x, f)
    <2>1. PICK j \in 1..Len(timers) : j <= x.i /\ timers[j] \in QueuedOf(f)
      BY <1>9 DEF Comes
    <2>2. j # i
      BY <1>6, <2>1 DEF QueuedOf, Begun
    <2>3. j < i /\ j <= y.i
      BY <1>1, <1>3, <2>1, <2>2
    <2>4. j \in 1..Len(timers') /\ timers'[j] = timers[j]
      <3>1. CASE timers' = timers
        BY <3>1
      <3>2. CASE i \in 1..Len(timers) /\ timers' = RemoveAt(timers, i)
        <4>1. /\ Len(timers) \in Nat /\ Len(timers') = Len(timers) - 1
              /\ \A k \in 1..Len(timers') : timers'[k] = IF k < i THEN timers[k] ELSE timers[k + 1]
          BY <3>2, Removed DEF Types
        <4> QED
          BY <2>3, <3>2, <4>1
      <3> QED
        BY <1>1, <3>1, <3>2
    <2>5. Finishing(y)
      BY <1>3, <1>9 DEF Comes, Finishing
    <2>6. timers'[j] \in QueuedOf(f)'
      BY <1>7, <2>1, <2>4
    <2>7. Comes(y, f)'
      BY <2>3, <2>4, <2>5, <2>6 DEF Comes
    <2> QED
      BY <1>3, <1>4, <1>9, <2>7, ClosingComes
  <1>10. CASE f # x.e \/ ~(Pushes(x) \/ Comes(x, f))
    <2>1. StaysNear(f)
      BY <1>1, <1>6, <1>7, NearSame, NearRemoved
    <2>2. \A z \in Of(f) : Pushes(z) \/ Comes(z, f) => z \in Items(agenda')
      BY <1>1, <1>4, <1>10, ClosingSpared
    <2> QED
      BY <1>2, <2>1, <2>2, OpenSame, ClosingKept
  <1> QED
    BY <1>8, <1>9, <1>10

LEMMA StopEndsClosing ==
  ASSUME Types, StopEnds, NEW f \in Elements, Closing(f), f \notin fate'.forgotten
  PROVE  Closing(f)'
  <1> PICK x : x = Todo
    OBVIOUS
  <1>1. /\ agenda # <<>> /\ x.op = "halt" /\ x.e \in Elements
        /\ x.how \in {"rejected", "resolved"}
        /\ \/ agenda' = Cons(DequeueDo(x.e), Rest)
           \/ /\ x.how = "resolved" /\ agenda' = Rest
              /\ fate'.forgotten = IF x.items # <<>> THEN fate.forgotten \cup {x.e} ELSE fate.forgotten
    BY StopEndsFacts
  <1>2. queue' = queue /\ hooks' = hooks /\ timers' = timers /\ animations' = animations
    BY DEF StopEnds, data, clock
  <1>3. IsSeq(Rest)
    BY <1>1, RestFacts
  <1>4. Items(Rest) \subseteq Items(agenda')
    BY <1>1, <1>3, BehindOne
  <1>5. CASE f # x.e \/ ~Pushes(x)
    <2>1. Todo.e # f \/ ~(Pushes(Todo) \/ Comes(Todo, f))
      BY <1>1, <1>5 DEF Comes, Finishing
    <2> QED
      BY <1>1, <1>2, <1>4, <2>1, SameAnimations, ClosingQuiet
  <1>6. CASE f = x.e /\ Pushes(x)
    <2>1. agenda' = Cons(DequeueDo(x.e), Rest)
      BY <1>1, <1>6 DEF Pushes, MovesOn
    <2>2. DequeueDo(x.e) \in Items(agenda')
      BY <1>3, <2>1, BehindOne
    <2> QED
      BY <1>6, <2>2, ClosingDequeued
  <1> QED
    BY <1>5, <1>6

\* A call about e that leaves the hooks alone.
LEMMA CallClosing ==
  ASSUME Types, NEW e \in Elements, UNCHANGED <<hooks, animations, timers>>,
         Items(agenda) \subseteq Items(agenda'),
         \A g \in Elements \ {e} : queue'[g] = queue[g],
         queue'[e] = queue[e] \/ Closing(e)', NEW f \in Elements, Closing(f)
  PROVE  Closing(f)'
  <1>1. CASE f # e \/ queue'[e] = queue[e]
    <2>1. queue'[f] = queue[f] /\ hooks'[f] = hooks[f]
      BY <1>1
    <2>2. StaysNear(f)
      BY SameAnimations, StatesKeepQueued, NearSame
    <2>3. \A x \in Of(f) : Pushes(x) \/ Comes(x, f) => x \in Items(agenda')
      BY ClosingSpared
    <2> QED
      BY <2>1, <2>2, <2>3, OpenSame, ClosingKept
  <1>2. CASE f = e /\ Closing(e)'
    BY <1>2
  <1> QED
    BY <1>1, <1>2

LEMMA CallQueueClosing ==
  ASSUME Types, NEW e \in Elements, NEW item, ItemOK(item), CallQueue(e, item), NEW f \in Elements, Closing(f)
  PROVE  Closing(f)'
  <1>1. /\ OnlyOf(e) /\ queue'[e] # <<>>
        /\ agenda' = IF QueueStarts(e) THEN Cons(DequeueDo(e), agenda) ELSE agenda
    BY CallQueueFacts DEF CallQueueAfter
  <1>2. animations' = animations /\ timers' = timers
    BY DEF CallQueue, clock
  <1>3. IsSeq(agenda)
    BY DEF Types
  <1>4. Items(agenda) \subseteq Items(agenda')
    BY <1>1, <1>3, BehindOne
  <1>5. CASE f # e
    <2>1. Open(f)' => Open(f)
      BY <1>1, <1>5, OpenSame DEF OnlyOf
    <2>2. StaysNear(f)
      BY <1>2, SameAnimations, StatesKeepQueued, NearSame
    <2>3. \A x \in Of(f) : Pushes(x) \/ Comes(x, f) => x \in Items(agenda')
      BY <1>4, ClosingSpared
    <2> QED
      BY <2>1, <2>2, <2>3, ClosingKept
  <1>6. CASE f = e
    BY <1>1, <1>6 DEF Closing, Open
  <1> QED
    BY <1>5, <1>6

LEMMA CallFinishClosing ==
  ASSUME Types, IdsOwn, Timed, FirstOnly, NEW e \in Elements, CallFinish(e), Moving(e), e \notin fate'.forgotten
  PROVE  Closing(e)'
  <1>1. /\ agenda' = Cons(HaltAt(e, Len(timers), "finish", queue[e]), agenda)
        /\ timeouts' = {t \in timeouts : hooks[e] = <<>> \/ t[1] # hooks[e][1].stop}
        /\ fate'.forgotten = IF timeouts' # timeouts THEN fate.forgotten \cup {e} ELSE fate.forgotten
        /\ Called
    BY CallFinishFacts
  <1>2. hooks' = hooks /\ animations' = animations /\ timers' = timers
    BY DEF CallFinish
  <1>3. SUFFICES ASSUME Open(e)' PROVE Closes(e)'
    BY DEF Closing
  <1>4. hooks[e] # <<>> /\ HooksOf(e).unqueued <= 0
    BY <1>2, <1>3 DEF Open, HooksOf, NewHooks
  <1>5. Goes(e)
    BY <1>4 DEF Moving, Wants
  <1> PICK y : y = HaltAt(e, Len(timers), "finish", queue[e])
    OBVIOUS
  <1>6. y.op = "halt" /\ y.e = e /\ y.how = "finish" /\ y.i = Len(timers)
    BY HaltThings
  <1>7. IsSeq(agenda)
    BY DEF Types
  <1>8. Items(agenda) \subseteq Items(agenda') /\ y \in Items(agenda')
    BY <1>1, <1>7, BehindOne
  <1>9. CASE QueuedOf(e) # {}
    <2>1. PICK n : n \in QueuedOf(e)
      BY <1>9
    <2>2. n \in Items(timers)
      BY <2>1 DEF QueuedOf, Begun, Timed
    <2>3. PICK j \in 1..Len(timers) : timers[j] = n
      BY <2>2 DEF Items
    <2>4. Len(timers) \in Nat
      BY IsSeqFacts DEF Types
    <2>5. j <= y.i
      BY <1>6, <2>4
    <2>6. QueuedOf(e)' = QueuedOf(e)
      BY <1>2, SameAnimations, StatesKeepQueued
    <2>7. Comes(y, e)'
      BY <1>2, <1>6, <2>1, <2>3, <2>5, <2>6 DEF Comes, Finishing
    <2> QED
      BY <1>6, <1>8, <2>7 DEF Closes, Of
  <1>10. ~Delayed(e)
    <2>1. hooks[e][1] = HooksOf(e) /\ timeouts' = timeouts
      BY <1>1, <1>4 DEF HooksOf
    <2> QED
      BY <1>1, <1>4, <2>1 DEF Delayed, DelaysOf
  <1>11. CASE \E x \in Of(e) : MovesOn(x)
    <2>1. PICK x \in Of(e) : MovesOn(x)
      BY <1>11
    <2>2. x \in Items(agenda)
      BY <2>1 DEF Of
    <2>3. agenda # <<>> /\ Todo.op = "run"
      <3>1. Items(<<>>) = {}
        BY ShortIsSeq
      <3> QED
        BY <1>1, <2>2, <3>1 DEF Called
    <2>4. x.op # "animate"
      <3>1. Clear(agenda)
        BY <2>3, ClearNow
      <3> QED
        BY <2>2, <3>1 DEF Clear
    <2>5. x \in Of(e)'
      BY <1>8, <2>1 DEF Of
    <2> QED
      BY <2>1, <2>4, <2>5 DEF Closes, Pushes
  <1> QED
    BY <1>5, <1>9, <1>10, <1>11 DEF Goes

LEMMA CallPromiseClosing ==
  ASSUME Types, CallPromise, NEW f \in Elements, Closing(f)
  PROVE  Closing(f)'
  <1> PICK p : p = Len(promises) + 1
    OBVIOUS
  <1>1. /\ agenda' = agenda
        /\ \A e \in Elements :
             \/ hooks[e] = <<>> /\ hooks'[e] = <<>>
             \/ hooks[e] # <<>> /\ \E h \in Hooks : /\ hooks'[e] = <<h>> /\ h.stop = HooksOf(e).stop
                                                    /\ h.unqueued = HooksOf(e).unqueued
    BY CallPromiseFacts
  <1>2. queue' = queue /\ animations' = animations /\ timers' = timers
    BY DEF CallPromise, clock
  <1>3. Open(f)' => Open(f)
    <2>1. CASE hooks[f] = <<>>
      BY <1>1, <2>1 DEF Open
    <2>2. CASE hooks[f] # <<>>
      <3>1. HooksOf(f)'.unqueued = HooksOf(f).unqueued
        BY <1>1, <2>2, HooksAfter
      <3> QED
        BY <1>2, <2>2, <3>1 DEF Open
    <2> QED
      BY <2>1, <2>2
  <1>4. StaysNear(f)
    BY <1>2, SameAnimations, StatesKeepQueued, NearSame
  <1>5. \A x \in Of(f) : Pushes(x) \/ Comes(x, f) => x \in Items(agenda')
    BY <1>1, ClosingSpared
  <1> QED
    BY <1>3, <1>4, <1>5, ClosingKept

LEMMA UserClosing ==
  ASSUME Types, IdsOwn, Timed, FirstOnly, User, NEW f \in Elements, Moving(f), Closing(f),
         f \notin fate'.forgotten
  PROVE  Closing(f)'
  <1>1. CASE CallPromise
    BY <1>1, CallPromiseClosing
  <1>2. IsSeq(agenda)
    BY DEF Types
  <1>3. ASSUME NEW e \in Elements, NEW goal, NEW duration, NEW queued \in BOOLEAN,
               CallAnimate(e, goal, duration, queued)
        PROVE  Closing(f)'
    <2>1. \/ \E item : ItemOK(item) /\ CallQueue(e, item)
          \/ /\ UNCHANGED <<data, style, animations, clock, promises>>
             /\ \E x : agenda' = Cons(x, agenda)
      BY <1>3, CallAnimateFacts
    <2>2. ASSUME NEW item, ItemOK(item), CallQueue(e, item) PROVE Closing(f)'
      BY <2>2, CallQueueClosing
    <2>3. ASSUME UNCHANGED <<data, style, animations, clock, promises>>, NEW x, agenda' = Cons(x, agenda)
          PROVE  Closing(f)'
      <3>1. Items(agenda) \subseteq Items(agenda')
        BY <1>2, <2>3, BehindOne
      <3>2. UNCHANGED <<queue, hooks, animations, timers>>
        BY <2>3 DEF data, clock
      <3> QED
        BY <3>1, <3>2, CallClosing
    <2> QED
      BY <2>1, <2>2, <2>3
  <1>4. ASSUME NEW e \in Elements, CallQueue(e, FunctionItem) PROVE Closing(f)'
    BY <1>4, QueuedItems, CallQueueClosing
  <1>5. ASSUME NEW e \in Elements, CallQueue(e, DelayItem(calls + 1)) PROVE Closing(f)'
    BY <1>5, QueuedItems, CallQueueClosing
  <1>6. ASSUME NEW e \in Elements, NEW clear \in BOOLEAN, CallDequeue(e, clear) PROVE Closing(f)'
    <2>1. agenda' = Cons(DequeueDo(e), agenda) /\ \A g \in Elements \ {e} : queue'[g] = queue[g]
      BY <1>6, CallDequeueFacts
    <2>2. Items(agenda) \subseteq Items(agenda') /\ DequeueDo(e) \in Items(agenda')
      BY <1>2, <2>1, BehindOne
    <2>3. UNCHANGED <<hooks, animations, timers>>
      BY <1>6 DEF CallDequeue, clock
    <2>4. Closing(e)'
      BY <2>2, ClosingDequeued
    <2> QED
      BY <2>1, <2>2, <2>3, <2>4, CallClosing
  <1>7. ASSUME NEW e \in Elements, NEW clear \in BOOLEAN, NEW gotoEnd, CallStop(e, clear, gotoEnd)
        PROVE  Closing(f)'
    <2>1. /\ \E x : agenda' = IF clear THEN Cons(DequeueDo(e), Cons(x, agenda)) ELSE Cons(x, agenda)
          /\ \A g \in Elements \ {e} : queue'[g] = queue[g]
          /\ queue'[e] = IF clear THEN <<>> ELSE queue[e]
      BY <1>7, CallStopFacts
    <2>2. Items(agenda) \subseteq Items(agenda') /\ (clear => DequeueDo(e) \in Items(agenda'))
      <3>1. CASE clear
        BY <1>2, <2>1, <3>1, BehindTwo
      <3>2. CASE ~clear
        BY <1>2, <2>1, <3>2, BehindOne
      <3> QED
        BY <3>1, <3>2
    <2>3. UNCHANGED <<hooks, animations, timers>>
      BY <1>7 DEF CallStop, clock
    <2>4. queue'[e] = queue[e] \/ Closing(e)'
      BY <2>1, <2>2, ClosingDequeued
    <2> QED
      BY <2>1, <2>2, <2>3, <2>4, CallClosing
  <1>8. ASSUME NEW e \in Elements, CallFinish(e) PROVE Closing(f)'
    <2>1. /\ agenda' = Cons(HaltAt(e, Len(timers), "finish", queue[e]), agenda)
          /\ \A g \in Elements \ {e} : queue'[g] = queue[g]
      BY <1>8, CallFinishFacts
    <2>2. UNCHANGED <<hooks, animations, timers>>
      BY <1>8 DEF CallFinish
    <2>3. Items(agenda) \subseteq Items(agenda')
      BY <1>2, <2>1, BehindOne
    <2>4. CASE f = e
      BY <1>8, <2>4, CallFinishClosing
    <2>5. CASE f # e
      <3>1. queue'[f] = queue[f] /\ hooks'[f] = hooks[f]
        BY <2>1, <2>2, <2>5
      <3>2. StaysNear(f)
        BY <2>2, SameAnimations, StatesKeepQueued, NearSame
      <3>3. \A x \in Of(f) : Pushes(x) \/ Comes(x, f) => x \in Items(agenda')
        BY <2>3, ClosingSpared
      <3> QED
        BY <3>1, <3>2, <3>3, OpenSame, ClosingKept
    <2> QED
      BY <2>4, <2>5
  <1> QED
    BY <1>1, <1>3, <1>4, <1>5, <1>6, <1>7, <1>8 DEF User

LEMMA ClosingStep ==
  ASSUME Types, IdsOwn, Timed, FirstOnly, [Next]_vars, ~fate'.wronged,
         NEW f \in Elements, Moving(f), Closing(f), f \notin fate'.forgotten
  PROVE  Closing(f)'
  <1>1. CASE UNCHANGED vars
    BY <1>1 DEF vars, data, clock, Closing, Open, Closes, Comes, QueuedOf, Begun, Pending,
                HooksOf, NewHooks, Of
  <1>2. CASE Dequeue \/ Unqueue \/ Animate \/ Animated
    BY <1>2, DequeueClosing, UnqueueClosing, AnimateClosing, AnimatedClosing
  <1>3. CASE TickTimer \/ Ticked \/ TickEnds \/ Tick \/ TimeoutFires \/ Return
    BY <1>3, TickTimerClosing, TickedClosing, QuietClosing
  <1>4. CASE StopBegins \/ HaltTimer \/ Splice \/ StopEnds \/ FinishQueue \/ FinishEnds
    BY <1>4, StopBeginsClosing, HaltTimerClosing, SpliceClosing, StopEndsClosing, QuietClosing
  <1>5. CASE User
    BY <1>5, UserClosing
  <1> QED
    BY <1>1, <1>2, <1>3, <1>4, <1>5 DEF Next, Program, Wait

--------------------------------------------------------------------------------
(* Animations outside of the queues                                         *)

\* The end of an animation outside of the queue is told to the hooks once.
Once(s) ==
  \A j, k \in 1..Len(s) : j < k /\ s[j].op = "unqueue" /\ s[k].op = "unqueue" => s[j].a # s[k].a

LEMMA OnceCons ==
  ASSUME NEW s, IsSeq(s), Once(s), NEW x,
         x.op = "unqueue" => \A y \in Items(s) : y.op = "unqueue" => y.a # x.a
  PROVE  Once(Cons(x, s))
  <1> PICK c : c = Cons(x, s)
    OBVIOUS
  <1>1. /\ Len(c) = Len(s) + 1 /\ c[1] = x /\ \A j \in 1..Len(s) : c[j + 1] = s[j]
        /\ Len(s) \in Nat
    BY ConsFacts, IsSeqFacts
  <1>2. \A k \in 1..Len(c) : k > 1 => /\ k - 1 \in 1..Len(s) /\ c[k] = s[k - 1] /\ s[k - 1] \in Items(s)
    <2> SUFFICES ASSUME NEW k \in 1..Len(c), k > 1
                 PROVE  k - 1 \in 1..Len(s) /\ c[k] = s[k - 1] /\ s[k - 1] \in Items(s)
      OBVIOUS
    <2>1. k - 1 \in 1..Len(s) /\ (k - 1) + 1 = k
      BY <1>1
    <2> QED
      BY <1>1, <2>1 DEF Items
  <1>3. Once(c)
    <2> SUFFICES ASSUME NEW j \in 1..Len(c), NEW k \in 1..Len(c), j < k,
                        c[j].op = "unqueue", c[k].op = "unqueue"
                 PROVE  c[j].a # c[k].a
      BY DEF Once
    <2>1. CASE j = 1
      BY <1>1, <1>2, <2>1
    <2>2. CASE j > 1
      <3>1. k > 1 /\ j - 1 < k - 1
        BY <2>2
      <3> QED
        BY <1>2, <2>2, <3>1 DEF Once
    <2> QED
      BY <2>1, <2>2
  <1> QED
    BY <1>3

LEMMA OnceRest ==
  ASSUME Types, agenda # <<>>, Once(agenda)
  PROVE  /\ Once(Rest)
         /\ Todo.op = "unqueue" => \A y \in Items(Rest) : y.op = "unqueue" => y.a # Todo.a
  <1>1. /\ Len(agenda) = Len(Rest) + 1 /\ agenda[1] = Todo /\ \A j \in 1..Len(Rest) : agenda[j + 1] = Rest[j]
        /\ Len(Rest) \in Nat
    <2>1. agenda = Cons(Todo, Rest) /\ IsSeq(Rest)
      BY RestFacts
    <2> QED
      BY <2>1, ConsIs, IsSeqFacts
  <1>2. \A j, k \in 1..Len(Rest) : j < k => /\ j + 1 \in 1..Len(agenda) /\ k + 1 \in 1..Len(agenda)
                                            /\ j + 1 < k + 1
    BY <1>1
  <1>3. Once(Rest)
    BY <1>1, <1>2 DEF Once
  <1>4. ASSUME Todo.op = "unqueue", NEW y \in Items(Rest), y.op = "unqueue" PROVE y.a # Todo.a
    <2>1. PICK k \in 1..Len(Rest) : Rest[k] = y
      BY <1>4 DEF Items
    <2>2. 1 \in 1..Len(agenda) /\ k + 1 \in 1..Len(agenda) /\ 1 < k + 1
      BY <1>1
    <2> QED
      BY <1>1, <1>4, <2>1, <2>2 DEF Once
  <1> QED
    BY <1>3, <1>4

\* A list which has its "unqueue" from the agenda.
OnceOf(s) == IsSeq(s) /\ Once(s) /\ \A y \in Items(s) : y.op = "unqueue" => y \in Items(agenda)

\* Each step puts an "unqueue" on the agenda only for an animation that went on.
OnceNow == Once(agenda') /\ \A y \in Items(agenda') : y.op = "unqueue" => y \in Items(agenda) \/ Pending(y.a)

LEMMA OnceOfAgenda ==
  ASSUME Types, Once(agenda)
  PROVE  /\ OnceOf(agenda)
         /\ agenda # <<>> => OnceOf(Rest)
  <1>1. OnceOf(agenda)
    BY DEF OnceOf, Types
  <1>2. agenda # <<>> => IsSeq(Rest) /\ Once(Rest) /\ Items(Rest) \subseteq Items(agenda)
    BY RestFacts, OnceRest
  <1> QED
    BY <1>1, <1>2 DEF OnceOf

LEMMA OnceOfCons ==
  ASSUME NEW s, OnceOf(s), NEW x, x.op # "unqueue"
  PROVE  OnceOf(Cons(x, s))
  <1>1. IsSeq(Cons(x, s)) /\ Items(Cons(x, s)) = {x} \cup Items(s)
    BY ConsFacts DEF OnceOf
  <1>2. Once(Cons(x, s))
    BY OnceCons DEF OnceOf
  <1> QED
    BY <1>1, <1>2 DEF OnceOf

LEMMA OncePlain ==
  ASSUME NEW s, OnceOf(s), agenda' = s
  PROVE  OnceNow
  BY DEF OnceOf, OnceNow

LEMMA OnceMore ==
  ASSUME NEW s, OnceOf(s), NEW x, x.op # "unqueue", agenda' = Cons(x, s)
  PROVE  OnceNow
  BY OnceOfCons, OncePlain

LEMMA OnceSettled ==
  ASSUME Types, Timed, NEW n, Pending(n), NEW how, NEW s, OnceOf(s), AfterSettled(n, how, s)
  PROVE  OnceNow
  <1> PICK e : e = animations[n].e
    OBVIOUS
  <1> PICK u : u = UnqueueDo(e, n)
    OBVIOUS
  <1>1. u.op = "unqueue" /\ u.a = n
    BY SimpleThings
  <1>2. Run(e).op # "unqueue" /\ DequeueDo(e).op # "unqueue"
    BY OpsOfThings
  <1>3. \A y \in Items(s) : y.op = "unqueue" => y \in Items(agenda) /\ y.a # n
    BY DEF OnceOf, Timed, AllOver, Over, Pending
  <1>4. IsSeq(Cons(u, s)) /\ Items(Cons(u, s)) = {u} \cup Items(s)
    BY ConsFacts DEF OnceOf
  <1>5. Once(Cons(u, s))
    BY <1>1, <1>3, OnceCons DEF OnceOf
  <1>6. CASE how = "resolved" /\ animations[n].queued
    <2>1. agenda' = Cons(Run(e), Cons(DequeueDo(e), s))
      BY <1>6 DEF AfterSettled
    <2>2. OnceOf(Cons(DequeueDo(e), s))
      BY <1>2, OnceOfCons
    <2> QED
      BY <1>2, <2>1, <2>2, OnceMore
  <1>7. CASE how = "resolved" /\ ~animations[n].queued
    <2>1. agenda' = Cons(Run(e), Cons(u, s))
      BY <1>7 DEF AfterSettled
    <2>2. Items(agenda') = {Run(e)} \cup {u} \cup Items(s)
      BY <1>4, <2>1, ConsFacts
    <2>3. Once(agenda')
      BY <1>2, <1>4, <1>5, <2>1, OnceCons
    <2> QED
      BY <1>1, <1>2, <1>3, <2>2, <2>3 DEF OnceNow
  <1>8. CASE how # "resolved" /\ animations[n].queued
    BY <1>8, OncePlain DEF AfterSettled
  <1>9. CASE how # "resolved" /\ ~animations[n].queued
    <2>1. agenda' = Cons(u, s)
      BY <1>9 DEF AfterSettled
    <2> QED
      BY <1>1, <1>3, <1>4, <1>5, <2>1 DEF OnceNow
  <1> QED
    BY <1>6, <1>7, <1>8, <1>9

LEMMA OnceByQueue ==
  ASSUME Types, Once(agenda), Dequeue \/ Unqueue
  PROVE  OnceNow
  <1> PICK e : e = Todo.e
    OBVIOUS
  <1>1. CASE Dequeue
    <2>1. agenda # <<>> /\ (DequeueEmpty(e) \/ \E fn : DequeueNext(e, fn))
      BY <1>1, DequeueFacts
    <2>2. OnceOf(Rest)
      BY <2>1, OnceOfAgenda
    <2>3. \/ agenda' = Rest
          \/ \E fn : agenda' = Cons(AnimateDo(e, fn, "queued"), Rest)
          \/ agenda' = Cons(Run(e), Cons(DequeueDo(e), Rest))
      BY <2>1 DEF DequeueEmpty, DequeueNext
    <2>4. OnceOf(Cons(DequeueDo(e), Rest))
      BY <2>2, OpsOfThings, OnceOfCons
    <2>5. \A fn : AnimateDo(e, fn, "queued").op # "unqueue"
      BY AnimateThings
    <2>6. Run(e).op # "unqueue"
      BY OpsOfThings
    <2> QED
      BY <2>2, <2>3, <2>4, <2>5, <2>6, OncePlain, OnceMore
  <1>2. CASE Unqueue
    <2>1. agenda # <<>> /\ agenda' = Rest
      BY <1>2, UnqueueFacts
    <2> QED
      BY <2>1, OnceOfAgenda, OncePlain
  <1> QED
    BY <1>1, <1>2

LEMMA OnceByTick ==
  ASSUME Types, Timed, Once(agenda), Animated \/ TickTimer \/ Ticked \/ TickEnds \/ Tick \/ TimeoutFires
  PROVE  OnceNow
  <1>1. CASE Animated
    <2>1. /\ agenda # <<>>
          /\ (Pending(Todo.a) /\ AfterSettled(Todo.a, "resolved", Rest)) \/ agenda' = Rest
      BY <1>1, AnimatedFacts
    <2> QED
      BY <2>1, OnceOfAgenda, OncePlain, OnceSettled
  <1>2. CASE TickTimer
    <2> PICK i : i = Todo.i
      OBVIOUS
    <2>1. agenda # <<>> /\ (TimerStopped(i) \/ TimerGoesOn(i) \/ TimerEnds(i))
      BY <1>2, TickTimerFacts
    <2>2. OnceOf(Rest)
      BY <2>1, OnceOfAgenda
    <2> PICK n : n = timers[i]
      OBVIOUS
    <2> PICK s : s = Cons(TickedDo(animations[n].e, n, i), Rest)
      OBVIOUS
    <2>3. OnceOf(s)
      BY <2>2, OpsOfThings, OnceOfCons
    <2>4. \/ \E k : agenda' = Cons(TickAt(k), Rest)
          \/ agenda' = s
          \/ Pending(n) /\ AfterSettled(n, "resolved", s)
      BY <2>1 DEF TimerStopped, TimerGoesOn, TimerEnds
    <2>5. \A k : TickAt(k).op # "unqueue"
      BY OpsOfThings
    <2> QED
      BY <2>2, <2>3, <2>4, <2>5, OnceMore, OncePlain, OnceSettled
  <1>3. CASE Ticked
    <2> PICK i : i = Todo.i
      OBVIOUS
    <2>1. agenda # <<>> /\ \E k : agenda' = Cons(TickAt(k), Rest)
      BY <1>3, TickedFacts
    <2>2. \A k : TickAt(k).op # "unqueue"
      BY OpsOfThings
    <2> QED
      BY <2>1, <2>2, OnceOfAgenda, OnceMore
  <1>4. CASE TickEnds
    <2>1. agenda # <<>> /\ agenda' = Rest
      BY <1>4, TickEndsFacts
    <2> QED
      BY <2>1, OnceOfAgenda, OncePlain
  <1>5. CASE Tick
    <2>1. agenda' = Cons(TickAt(1), agenda) /\ TickAt(1).op # "unqueue"
      BY <1>5, TickFacts, OpsOfThings
    <2> QED
      BY <2>1, OnceOfAgenda, OnceMore
  <1>6. CASE TimeoutFires
    <2>1. PICK e : agenda' = Cons(DequeueDo(e), agenda)
      BY <1>6, TimeoutFacts
    <2>2. DequeueDo(e).op # "unqueue"
      BY OpsOfThings
    <2> QED
      BY <2>1, <2>2, OnceOfAgenda, OnceMore
  <1> QED
    BY <1>1, <1>2, <1>3, <1>4, <1>5, <1>6

LEMMA OnceByLoop ==
  ASSUME Types, Timed, Once(agenda),
         StopBegins \/ HaltTimer \/ Splice \/ StopEnds \/ FinishQueue \/ FinishEnds \/ Return
  PROVE  OnceNow
  <1> PICK x : x = Todo
    OBVIOUS
  <1> PICK e : e = Todo.e
    OBVIOUS
  <1> PICK i : i = Todo.i
    OBVIOUS
  <1>1. CASE StopBegins
    <2>1. agenda # <<>> /\ \E items : agenda' = Cons(HaltAt(e, Len(timers), Todo.how, items), Rest)
      BY <1>1, StopBeginsFacts
    <2>2. PICK items, y : y = HaltAt(e, Len(timers), Todo.how, items) /\ agenda' = Cons(y, Rest)
      BY <2>1
    <2>3. y.op # "unqueue"
      BY <2>2, HaltThings
    <2> QED
      BY <2>1, <2>2, <2>3, OnceOfAgenda, OnceMore
  <1>2. CASE HaltTimer
    <2>1. agenda # <<>> /\ (HaltFails \/ HaltPasses(x, i) \/ \E n, how : HaltStops(x, i, n, how))
      BY <1>2, HaltTimerFacts
    <2>2. OnceOf(Rest)
      BY <2>1, OnceOfAgenda
    <2>3. CASE HaltFails
      <3>1. agenda' = <<>> /\ Len(<<>>) = 0 /\ Items(<<>>) = {}
        BY <2>3, ShortIsSeq DEF HaltFails
      <3> QED
        BY <3>1 DEF OnceNow, Once
    <2>4. CASE HaltPasses(x, i)
      <3> PICK y : y = Do("halt", x.e, x.a, i - 1, x.how, x.items)
        OBVIOUS
      <3>1. y.op # "unqueue" /\ agenda' = Cons(y, Rest)
        BY <2>4, DoFields DEF HaltPasses
      <3> QED
        BY <2>2, <3>1, OnceMore
    <2>5. ASSUME NEW n, NEW how, HaltStops(x, i, n, how) PROVE OnceNow
      <3> PICK y : y = Do("splice", x.e, n, i, x.how, x.items)
        OBVIOUS
      <3>1. y.op # "unqueue"
        BY DoFields
      <3>2. OnceOf(Cons(y, Rest))
        BY <2>2, <3>1, OnceOfCons
      <3>3. AfterSettled(n, how, Cons(y, Rest)) /\ Pending(n)
        BY <2>5 DEF HaltStops
      <3> QED
        BY <3>2, <3>3, OnceSettled
    <2> QED
      BY <2>1, <2>3, <2>4, <2>5
  <1>3. CASE Splice
    <2>1. agenda # <<>> /\ agenda' = Cons(Do("halt", x.e, x.a, i - 1, x.how, x.items), Rest)
      BY <1>3, SpliceFacts
    <2>2. Do("halt", x.e, x.a, i - 1, x.how, x.items).op # "unqueue"
      BY DoFields
    <2> QED
      BY <2>1, <2>2, OnceOfAgenda, OnceMore
  <1>4. CASE StopEnds
    <2>1. agenda # <<>> /\ (agenda' = Rest \/ agenda' = Cons(DequeueDo(x.e), Rest))
      BY <1>4, StopEndsFacts
    <2>2. DequeueDo(x.e).op # "unqueue"
      BY OpsOfThings
    <2> QED
      BY <2>1, <2>2, OnceOfAgenda, OnceMore, OncePlain
  <1>5. CASE FinishQueue
    <2>1. /\ agenda # <<>>
          /\ \E items : LET y == Do("halt", x.e, x.a, 0, "finish", items)
                        IN  \/ agenda' = Cons(y, Rest)
                            \/ \E item : agenda' = Cons(AnimateDo(x.e, item, "queued"), Cons(y, Rest))
      BY <1>5, FinishQueueFacts
    <2>2. PICK items, y : /\ y = Do("halt", x.e, x.a, 0, "finish", items)
                          /\ \/ agenda' = Cons(y, Rest)
                             \/ \E item : agenda' = Cons(AnimateDo(x.e, item, "queued"), Cons(y, Rest))
      BY <2>1
    <2>3. y.op # "unqueue"
      BY <2>2, DoFields
    <2>4. OnceOf(Cons(y, Rest))
      BY <2>1, <2>3, OnceOfAgenda, OnceOfCons
    <2>5. \A item : AnimateDo(x.e, item, "queued").op # "unqueue"
      BY AnimateThings
    <2> QED
      BY <2>2, <2>4, <2>5, OncePlain, OnceMore
  <1>6. CASE FinishEnds \/ Return
    <2>1. agenda # <<>> /\ agenda' = Rest
      BY <1>6 DEF FinishEnds, Return, IsNext
    <2> QED
      BY <2>1, OnceOfAgenda, OncePlain
  <1> QED
    BY <1>1, <1>2, <1>3, <1>4, <1>5, <1>6

LEMMA OnceByCalls ==
  ASSUME Types, Once(agenda), User
  PROVE  OnceNow
  <1>1. OnceOf(agenda)
    BY OnceOfAgenda
  <1>2. CASE agenda' = agenda
    BY <1>1, <1>2, OncePlain
  <1>3. CASE CallsOne
    <2>1. PICK x : x.op \in CallOps /\ agenda' = Cons(x, agenda)
      BY <1>3 DEF CallsOne
    <2> QED
      BY <1>1, <2>1, OnceMore DEF CallOps
  <1>4. CASE CallsTwo
    <2>1. PICK x, y : x.op = "dequeue" /\ y.op = "stop" /\ agenda' = Cons(x, Cons(y, agenda))
      BY <1>4 DEF CallsTwo
    <2>2. OnceOf(Cons(y, agenda))
      BY <1>1, <2>1, OnceOfCons
    <2> QED
      BY <2>1, <2>2, OnceMore
  <1> QED
    BY <1>2, <1>3, <1>4, CallsAgenda

LEMMA OnceNext ==
  ASSUME Types, Timed, Once(agenda), [Next]_vars, ~Animate
  PROVE  OnceNow
  <1>1. CASE UNCHANGED vars
    <2>1. agenda' = agenda
      BY <1>1 DEF vars
    <2> QED
      BY <2>1, OnceOfAgenda, OncePlain
  <1> QED
    BY <1>1, OnceByQueue, OnceByTick, OnceByLoop, OnceByCalls DEF Next, Program, Wait

\* The animations outside of the queue that the hooks still count.
Owes(n) == Pending(n) \/ \E x \in Items(agenda) : x.op = "unqueue" /\ x.a = n
Owed(e) == {n \in DOMAIN animations : animations[n].e = e /\ ~animations[n].queued /\ Owes(n)}
Counted(e) == HooksOf(e).unqueued >= Cardinality(Owed(e))

LEMMA OwedFinite ==
  ASSUME Types, NEW f
  PROVE  IsFiniteSet(Owed(f)) /\ Cardinality(Owed(f)) \in Nat
  <1>1. DOMAIN animations = 1..Len(animations) /\ Len(animations) \in Nat
    BY IsSeqFacts DEF Types
  <1>2. IsFiniteSet(1..Len(animations))
    BY <1>1, FS_Interval
  <1>3. Owed(f) \subseteq 1..Len(animations)
    BY <1>1 DEF Owed
  <1> QED
    BY <1>2, <1>3, FS_Subset, FS_CardinalityType

\* When none begins, none is owed that was not.
LEMMA OwedShrinks ==
  ASSUME OnceNow, StatesAge, DOMAIN animations' = DOMAIN animations, NEW f
  PROVE  Owed(f)' \subseteq Owed(f)
  <1> SUFFICES ASSUME NEW n \in Owed(f)' PROVE n \in Owed(f)
    OBVIOUS
  <1>1. n \in DOMAIN animations /\ animations[n].e = f /\ ~animations[n].queued
    BY DEF Owed, StatesAge, AnimationsAge
  <1>2. Owes(n)
    BY <1>1 DEF Owed, Owes, OnceNow, StatesAge, Pending
  <1> QED
    BY <1>1, <1>2 DEF Owed

LEMMA CountedKept ==
  ASSUME Types, NEW f \in Elements, Counted(f), Owed(f)' \subseteq Owed(f),
         HooksOf(f)'.unqueued = HooksOf(f).unqueued
  PROVE  Counted(f)'
  <1> PICK s : s = Owed(f)
    OBVIOUS
  <1> PICK t : t = Owed(f)'
    OBVIOUS
  <1>1. IsFiniteSet(s) /\ Cardinality(s) \in Nat /\ HooksOf(f).unqueued \in Int
    BY OwedFinite, HooksFacts DEF Hooks
  <1>2. Cardinality(t) <= Cardinality(s) /\ Cardinality(t) \in Nat
    BY <1>1, FS_Subset, FS_CardinalityType
  <1> QED
    BY <1>1, <1>2 DEF Counted

\* No animation begins, and none goes on again.
LEMMA StatesStep ==
  ASSUME Types, [Next]_vars, ~Animate
  PROVE  StatesAge /\ DOMAIN animations' = DOMAIN animations
  <1>1. ASSUME animations' = animations PROVE StatesAge /\ DOMAIN animations' = DOMAIN animations
    BY <1>1 DEF StatesAge, AnimationsAge
  <1>2. ASSUME StatesKeep PROVE StatesAge /\ DOMAIN animations' = DOMAIN animations
    BY <1>2, StatesKeepAge DEF StatesKeep, AnimationsKeep
  <1>3. ASSUME NEW n, NEW how \in {"resolved", "rejected"}, Settled(n, how)
        PROVE  StatesAge /\ DOMAIN animations' = DOMAIN animations
    BY <1>3, SettledAges DEF Settled, AnimationsKeep
  <1>4. CASE Animated
    BY <1>1, <1>3, <1>4, AnimatedFacts
  <1>5. CASE TickTimer
    <2> PICK i : i = Todo.i
      OBVIOUS
    <2> PICK n : n = timers[i]
      OBVIOUS
    <2>1. TimerStopped(i) \/ TimerGoesOn(i) \/ TimerEnds(i)
      BY <1>5, TickTimerFacts
    <2>2. StatesKeep \/ Settled(n, "resolved")
      BY <2>1 DEF TimerStopped, TimerGoesOn, TimerEnds
    <2> QED
      BY <1>2, <1>3, <2>2
  <1>6. CASE HaltTimer
    <2> PICK x : x = Todo
      OBVIOUS
    <2> PICK i : i = Todo.i
      OBVIOUS
    <2>1. HaltFails \/ HaltPasses(x, i) \/ \E n, how : HaltStops(x, i, n, how)
      BY <1>6, HaltTimerFacts
    <2>2. ASSUME NEW n, NEW how, HaltStops(x, i, n, how)
          PROVE  Settled(n, how) /\ how \in {"resolved", "rejected"}
      BY <2>2 DEF HaltStops
    <2> QED
      BY <1>1, <1>3, <2>1, <2>2 DEF HaltFails, HaltPasses
  <1>7. CASE TickEnds
    BY <1>2, <1>7, TickEndsFacts
  <1>8. CASE User
    BY <1>1, <1>8, CallsAgenda
  <1>9. CASE UNCHANGED vars
    BY <1>1, <1>9 DEF vars
  <1>10. CASE Dequeue \/ Unqueue \/ Ticked \/ StopBegins \/ Splice \/ StopEnds \/ FinishQueue \/ FinishEnds
    BY <1>1, <1>10 DEF Dequeue, Unqueue, Ticked, StopBegins, Splice, StopEnds, FinishQueue, FinishEnds
  <1>11. CASE Return \/ Tick \/ TimeoutFires
    BY <1>1, <1>11 DEF Return, Tick, TimeoutFires
  <1> QED
    BY <1>4, <1>5, <1>6, <1>7, <1>8, <1>9, <1>10, <1>11 DEF Next, Program, Wait

\* Only these steps change what the hooks count.
LEMMA CountsStay ==
  ASSUME Types, [Next]_vars, ~Dequeue, ~Unqueue, ~Animate, NEW f \in Elements
  PROVE  HooksOf(f)'.unqueued = HooksOf(f).unqueued
  <1>1. ASSUME hooks'[f] = hooks[f] PROVE HooksOf(f)'.unqueued = HooksOf(f).unqueued
    BY <1>1 DEF HooksOf, NewHooks
  <1>2. ASSUME hooks[f] # <<>>, \E h : hooks'[f] = <<h>> /\ h.unqueued = HooksOf(f).unqueued
        PROVE  HooksOf(f)'.unqueued = HooksOf(f).unqueued
    BY <1>2, HooksAfter
  <1>3. CASE StopBegins
    <2> PICK e : e = Todo.e
      OBVIOUS
    <2>1. /\ e \in Elements
          /\ \A g \in Elements \ {e} : hooks'[g] = hooks[g]
          /\ \/ hooks[e] = <<>> /\ hooks'[e] = <<>>
             \/ hooks[e] # <<>> /\ \E h : hooks'[e] = <<h>> /\ h.unqueued = HooksOf(e).unqueued
      BY <1>3, StopBeginsFacts
    <2> QED
      BY <1>1, <1>2, <2>1
  <1>4. CASE CallPromise
    <2> PICK p : p = Len(promises) + 1
      OBVIOUS
    <2>1. \/ hooks[f] = <<>> /\ hooks'[f] = <<>>
          \/ hooks[f] # <<>> /\ \E h \in Hooks : hooks'[f] = <<h>> /\ h.unqueued = HooksOf(f).unqueued
      BY <1>4, CallPromiseFacts
    <2> QED
      BY <1>1, <1>2, <2>1
  <1>5. ASSUME NEW e \in Elements, NEW item, ItemOK(item), CallQueue(e, item)
        PROVE  HooksOf(f)'.unqueued = HooksOf(f).unqueued
    <2>1. OnlyOf(e) /\ hooks'[e] = <<HooksOf(e)>>
      BY <1>5, CallQueueFacts DEF CallQueueAfter
    <2>2. CASE f = e
      BY <2>1, <2>2, HooksAfter
    <2>3. CASE f # e
      BY <1>1, <2>1, <2>3 DEF OnlyOf
    <2> QED
      BY <2>2, <2>3
  <1>6. ASSUME NEW e \in Elements, NEW goal, NEW duration, NEW queued \in BOOLEAN,
               CallAnimate(e, goal, duration, queued)
        PROVE  HooksOf(f)'.unqueued = HooksOf(f).unqueued
    <2>1. \/ \E item : ItemOK(item) /\ CallQueue(e, item)
          \/ hooks' = hooks
      BY <1>6, CallAnimateFacts DEF data
    <2> QED
      BY <1>1, <1>5, <2>1
  <1>7. ASSUME NEW e \in Elements, CallQueue(e, FunctionItem)
        PROVE  HooksOf(f)'.unqueued = HooksOf(f).unqueued
    BY <1>5, <1>7, QueuedItems
  <1>8. ASSUME NEW e \in Elements, CallQueue(e, DelayItem(calls + 1))
        PROVE  HooksOf(f)'.unqueued = HooksOf(f).unqueued
    BY <1>5, <1>8, QueuedItems
  <1>9. ASSUME NEW e \in Elements, NEW clear \in BOOLEAN, CallDequeue(e, clear)
        PROVE  HooksOf(f)'.unqueued = HooksOf(f).unqueued
    BY <1>1, <1>9 DEF CallDequeue
  <1>10. ASSUME NEW e \in Elements, NEW clear \in BOOLEAN, NEW gotoEnd, CallStop(e, clear, gotoEnd)
         PROVE  HooksOf(f)'.unqueued = HooksOf(f).unqueued
    BY <1>1, <1>10 DEF CallStop
  <1>11. ASSUME NEW e \in Elements, CallFinish(e)
         PROVE  HooksOf(f)'.unqueued = HooksOf(f).unqueued
    BY <1>1, <1>11 DEF CallFinish
  <1>12. CASE User
    BY <1>4, <1>6, <1>7, <1>8, <1>9, <1>10, <1>11, <1>12 DEF User
  <1>13. CASE Animated \/ TickTimer \/ Ticked \/ TickEnds \/ HaltTimer \/ Splice
    BY <1>1, <1>13 DEF Animated, TickTimer, Ticked, TickEnds, HaltTimer, Splice, data
  <1>14. CASE StopEnds \/ FinishQueue \/ FinishEnds \/ Return \/ Tick \/ TimeoutFires \/ UNCHANGED vars
    BY <1>1, <1>14 DEF StopEnds, FinishQueue, FinishEnds, Return, Tick, TimeoutFires, vars, data
  <1> QED
    BY <1>3, <1>12, <1>13, <1>14 DEF Next, Program, Wait

LEMMA DequeueCounted ==
  ASSUME Types, Timed, Once(agenda), Dequeue, NEW f \in Elements, Counted(f)
  PROVE  Counted(f)'
  <1> PICK e : e = Todo.e
    OBVIOUS
  <1>1. e \in Elements /\ OnlyOf(e) /\ (DequeueEmpty(e) \/ \E fn : DequeueNext(e, fn))
    BY DequeueFacts
  <1>2. OnceNow
    BY OnceByQueue
  <1>3. animations' = animations
    BY DEF Dequeue
  <1>4. Owed(f)' \subseteq Owed(f)
    BY <1>2, <1>3, OwedShrinks DEF StatesAge, AnimationsAge
  <1>5. CASE f # e
    <2>1. HooksOf(f)'.unqueued = HooksOf(f).unqueued
      BY <1>1, <1>5 DEF OnlyOf, HooksOf, NewHooks
    <2> QED
      BY <1>4, <2>1, CountedKept
  <1>6. CASE f = e /\ \E h : hooks'[e] = <<h>> /\ h.unqueued = HooksOf(e).unqueued
    <2>1. HooksOf(f)'.unqueued = HooksOf(f).unqueued
      BY <1>1, <1>6, HooksAfter
    <2> QED
      BY <1>4, <2>1, CountedKept
  <1>7. CASE f = e /\ HooksOf(e).unqueued <= 0 /\ hooks'[e] = <<>>
    <2>1. HooksOf(e)'.unqueued = 0
      BY <1>1, <1>7, HooksAfter
    <2>2. Cardinality(Owed(f)) \in Nat /\ IsFiniteSet(Owed(f)) /\ HooksOf(f).unqueued \in Int
      BY OwedFinite, HooksFacts DEF Hooks
    <2>3. Cardinality(Owed(f)) = 0
      BY <1>7, <2>2 DEF Counted
    <2>4. Owed(f) = {}
      BY <2>2, <2>3, FS_EmptySet
    <2>5. Owed(f)' = {}
      BY <1>4, <2>4
    <2>6. Cardinality(Owed(f)') = 0
      BY <2>5, FS_EmptySet
    <2> QED
      BY <1>7, <2>1, <2>6 DEF Counted
  <1>8. CASE f = e /\ hooks'[e] = <<HooksOf(e)>>
    BY <1>6, <1>8
  <1> QED
    BY <1>1, <1>5, <1>6, <1>7, <1>8 DEF DequeueEmpty, DequeueNext, Emptied

LEMMA UnqueueCounted ==
  ASSUME Types, Timed, Once(agenda), Unqueue, NEW f \in Elements, Counted(f)
  PROVE  Counted(f)'
  <1> PICK e : e = Todo.e
    OBVIOUS
  <1> PICK n : n = Todo.a
    OBVIOUS
  <1>1. /\ e \in Elements /\ agenda # <<>> /\ Todo.op = "unqueue" /\ agenda' = Rest
        /\ \A g \in Elements \ {e} : hooks'[g] = hooks[g]
    BY UnqueueFacts
  <1>2. OnceNow
    BY OnceByQueue
  <1>3. animations' = animations
    BY DEF Unqueue
  <1>4. Owed(f)' \subseteq Owed(f)
    BY <1>2, <1>3, OwedShrinks DEF StatesAge, AnimationsAge
  <1>5. CASE f # e
    <2>1. HooksOf(f)'.unqueued = HooksOf(f).unqueued
      BY <1>1, <1>5 DEF HooksOf, NewHooks
    <2> QED
      BY <1>4, <2>1, CountedKept
  <1>6. CASE f = e
    <2>1. Over(Todo, animations) /\ ThingOK(Todo) /\ Todo \in Items(agenda)
      BY <1>1, TimedParts, RestFacts
    <2>2. n \in DOMAIN animations /\ animations[n].e = e /\ ~animations[n].queued /\ ~Pending(n)
      BY <1>1, <2>1 DEF Over, Pending, ThingOK, ThingIn
    <2>3. n \in Owed(e)
      BY <1>1, <2>1, <2>2 DEF Owed, Owes
    <2>4. \A y \in Items(Rest) : y.op = "unqueue" => y.a # n
      BY <1>1, OnceRest
    <2>5. ~Owes(n)'
      BY <1>1, <1>3, <2>2, <2>4 DEF Owes, Pending
    <2>6. Owed(e)' \subseteq Owed(e) \ {n}
      BY <1>4, <1>6, <2>5 DEF Owed
    <2> PICK s : s = Owed(e)
      OBVIOUS
    <2> PICK t : t = Owed(e)'
      OBVIOUS
    <2>7. IsFiniteSet(s) /\ Cardinality(s) \in Nat /\ HooksOf(e).unqueued \in Int
      BY <1>1, OwedFinite, HooksFacts DEF Hooks
    <2>8. Cardinality(s \ {n}) = Cardinality(s) - 1 /\ IsFiniteSet(s \ {n})
      BY <2>3, <2>7, FS_RemoveElement
    <2>9. Cardinality(t) <= Cardinality(s) - 1 /\ Cardinality(t) \in Nat
      BY <2>6, <2>8, FS_Subset, FS_CardinalityType
    <2>10. HooksOf(e).unqueued >= Cardinality(s)
      BY <1>6 DEF Counted
    <2>11. PICK h : UnqueueAfter(e, h)
      BY UnqueueFacts
    <2>12. h.unqueued = HooksOf(e).unqueued - 1 /\ (hooks'[e] = <<h>> \/ (h.unqueued <= 0 /\ hooks'[e] = <<>>))
      BY <2>11 DEF UnqueueAfter, Emptied
    <2>13. HooksOf(e)'.unqueued >= Cardinality(t)
      <3>1. CASE hooks'[e] = <<h>>
        <4>1. HooksOf(e)' = h
          BY <1>1, <3>1, HooksAfter
        <4> QED
          BY <2>7, <2>9, <2>10, <2>12, <4>1
      <3>2. CASE h.unqueued <= 0 /\ hooks'[e] = <<>>
        <4>1. HooksOf(e)'.unqueued = 0
          BY <1>1, <3>2, HooksAfter
        <4> QED
          BY <2>7, <2>9, <2>10, <2>12, <3>2, <4>1
      <3> QED
        BY <2>12, <3>1, <3>2
    <2> QED
      BY <1>6, <2>13 DEF Counted
  <1> QED
    BY <1>5, <1>6

LEMMA AnimateOnce ==
  ASSUME Types, Once(agenda), NEW e, NEW n, NEW a, AnimationBegins(e, n, a), agenda # <<>>
  PROVE  /\ Once(agenda')
         /\ \A y \in Items(agenda') : y.op = "unqueue" => y \in Items(agenda) \/ y.a = n
  <1>1. OnceOf(Rest)
    BY OnceOfAgenda
  <1>2. \A y \in Items(Rest) : y.op = "unqueue" => y.a # n
    <2>1. \A y \in Items(Rest) : ThingOK(y)
      BY RestFacts
    <2>2. n \notin DOMAIN animations
      BY DEF AnimationBegins
    <2> QED
      BY <2>1, <2>2 DEF ThingOK, ThingIn
  <1>3. PICK goal :
             \/ agenda' = Cons(AnimatedDo(e, n, goal), Rest)
             \/ agenda' = Cons(Run(e), Cons(DequeueDo(e), Cons(AnimatedDo(e, n, goal), Rest)))
             \/ agenda' = Cons(UnqueueDo(e, n), Cons(Run(e), Cons(AnimatedDo(e, n, goal), Rest)))
    BY DEF AnimationBegins
  <1> PICK z : z = AnimatedDo(e, n, goal)
    OBVIOUS
  <1> PICK s : s = Cons(z, Rest)
    OBVIOUS
  <1>4. OnceOf(s) /\ Items(s) = {z} \cup Items(Rest) /\ z.op # "unqueue"
    BY <1>1, OpsOfThings, OnceOfCons, ConsFacts DEF OnceOf
  <1>5. CASE agenda' = s
    BY <1>4, <1>5 DEF OnceOf
  <1>6. CASE agenda' = Cons(Run(e), Cons(DequeueDo(e), s))
    <2>1. OnceOf(Cons(DequeueDo(e), s))
      BY <1>4, OpsOfThings, OnceOfCons
    <2>2. OnceOf(Cons(Run(e), Cons(DequeueDo(e), s)))
      BY <2>1, OpsOfThings, OnceOfCons
    <2> QED
      BY <1>6, <2>2 DEF OnceOf
  <1>7. CASE agenda' = Cons(UnqueueDo(e, n), Cons(Run(e), s))
    <2> PICK u : u = UnqueueDo(e, n)
      OBVIOUS
    <2> PICK t : t = Cons(Run(e), s)
      OBVIOUS
    <2>1. u.op = "unqueue" /\ u.a = n
      BY SimpleThings
    <2>2. OnceOf(t) /\ Items(t) = {Run(e)} \cup Items(s) /\ Run(e).op # "unqueue"
      BY <1>4, OpsOfThings, OnceOfCons, ConsFacts DEF OnceOf
    <2>3. \A y \in Items(t) : y.op = "unqueue" => y.a # u.a
      BY <1>2, <1>4, <2>1, <2>2
    <2>4. Once(Cons(u, t)) /\ Items(Cons(u, t)) = {u} \cup Items(t)
      BY <2>2, <2>3, OnceCons, ConsFacts DEF OnceOf
    <2> QED
      BY <1>7, <2>1, <2>2, <2>4 DEF OnceOf
  <1> QED
    BY <1>3, <1>5, <1>6, <1>7

LEMMA AnimateCounted ==
  ASSUME Types, Once(agenda), Animate, NEW f \in Elements, Counted(f)
  PROVE  Once(agenda') /\ Counted(f)'
  <1> PICK e : e = Todo.e
    OBVIOUS
  <1>1. /\ e \in Elements /\ agenda # <<>>
        /\ \A g \in Elements \ {e} : hooks'[g] = hooks[g]
        /\ AnimateHooks(e, Todo.how = "queued")
    BY AnimateFacts
  <1>2. PICK n, a : AnimationBegins(e, n, a)
    BY AnimateFacts
  <1>3. Once(agenda') /\ \A y \in Items(agenda') : y.op = "unqueue" => y \in Items(agenda) \/ y.a = n
    BY <1>1, <1>2, AnimateOnce
  <1>4. /\ n \notin DOMAIN animations /\ DOMAIN animations' = DOMAIN animations \cup {n}
        /\ (\A k \in DOMAIN animations : animations'[k] = animations[k]) /\ animations'[n] = a
        /\ a.e = e /\ (a.queued <=> Todo.how = "queued")
    BY <1>2 DEF AnimationBegins
  <1>5. Owed(f)' \subseteq Owed(f) \cup {n}
    <2> SUFFICES ASSUME NEW k \in Owed(f)', k # n PROVE k \in Owed(f)
      OBVIOUS
    <2>1. k \in DOMAIN animations /\ animations'[k] = animations[k]
      BY <1>4 DEF Owed
    <2>2. Owes(k)
      BY <1>3, <2>1 DEF Owed, Owes, Pending
    <2> QED
      BY <2>1, <2>2 DEF Owed
  <1>6. CASE n \notin Owed(f)' /\ HooksOf(f)'.unqueued = HooksOf(f).unqueued
    <2>1. Owed(f)' \subseteq Owed(f)
      BY <1>5, <1>6
    <2> QED
      BY <1>3, <1>6, <2>1, CountedKept
  <1>7. CASE f # e
    <2>1. n \notin Owed(f)'
      BY <1>4, <1>7 DEF Owed
    <2>2. HooksOf(f)'.unqueued = HooksOf(f).unqueued
      BY <1>1, <1>7 DEF HooksOf, NewHooks
    <2> QED
      BY <1>6, <2>1, <2>2
  <1>8. CASE f = e /\ Todo.how = "queued"
    <2>1. n \notin Owed(f)'
      BY <1>4, <1>8 DEF Owed
    <2>2. HooksOf(f)'.unqueued = HooksOf(f).unqueued
      BY <1>1, <1>8 DEF AnimateHooks, HooksOf, NewHooks
    <2> QED
      BY <1>6, <2>1, <2>2
  <1>9. CASE f = e /\ Todo.how # "queued"
    <2>1. PICK h \in Hooks : hooks'[e] = <<h>> /\ h.unqueued = HooksOf(e).unqueued + 1
      BY <1>1, <1>9 DEF AnimateHooks
    <2>2. HooksOf(e)' = h
      BY <1>1, <2>1, HooksAfter
    <2> PICK s : s = Owed(f)
      OBVIOUS
    <2> PICK t : t = Owed(f)'
      OBVIOUS
    <2>3. IsFiniteSet(s) /\ Cardinality(s) \in Nat /\ HooksOf(f).unqueued \in Int
      BY OwedFinite, HooksFacts DEF Hooks
    <2>4. n \notin s
      BY <1>4 DEF Owed
    <2>5. IsFiniteSet(s \cup {n}) /\ Cardinality(s \cup {n}) = Cardinality(s) + 1
      BY <2>3, <2>4, FS_AddElement
    <2>6. Cardinality(t) <= Cardinality(s) + 1 /\ Cardinality(t) \in Nat
      BY <1>5, <2>5, FS_Subset, FS_CardinalityType
    <2>7. HooksOf(f).unqueued >= Cardinality(s)
      BY DEF Counted
    <2>8. HooksOf(f)'.unqueued >= Cardinality(t)
      BY <1>9, <2>1, <2>2, <2>3, <2>6, <2>7
    <2> QED
      BY <1>3, <2>8 DEF Counted
  <1> QED
    BY <1>7, <1>8, <1>9

LEMMA CountedStep ==
  ASSUME Types, Timed, Once(agenda), [Next]_vars, NEW f \in Elements, Counted(f)
  PROVE  Counted(f)'
  <1>1. CASE Dequeue
    BY <1>1, DequeueCounted
  <1>2. CASE Unqueue
    BY <1>2, UnqueueCounted
  <1>3. CASE Animate
    BY <1>3, AnimateCounted
  <1>4. CASE ~Dequeue /\ ~Unqueue /\ ~Animate
    <2>1. Owed(f)' \subseteq Owed(f)
      BY <1>4, OnceNext, StatesStep, OwedShrinks
    <2> QED
      BY <1>4, <2>1, CountsStay, CountedKept
  <1> QED
    BY <1>1, <1>2, <1>3, <1>4

LEMMA OnceStep ==
  ASSUME Types, Timed, Once(agenda), [Next]_vars
  PROVE  Once(agenda')
  <1>1. CASE Animate
    <2>1. agenda # <<>> /\ \E e, n, a : AnimationBegins(e, n, a)
      BY <1>1, AnimateFacts
    <2> QED
      BY <2>1, AnimateOnce
  <1>2. CASE ~Animate
    BY <1>2, OnceNext DEF OnceNow
  <1> QED
    BY <1>1, <1>2

--------------------------------------------------------------------------------
(* One thing at a time                                                      *)

\* The elements whose queue was left to itself.
Free == Elements \ fate.manual

\* The start of an animation of the queue, a loop of stop() that ends with dequeue(), and
\* the rest of an animation of the queue.
Begins(x) == x.op = "animate" /\ x.how = "queued"
Stopping(x) ==
  \/ x.op = "stop"
  \/ x.op \in {"halt", "splice"} /\ (x.how = "rejected" \/ (x.how = "resolved" /\ x.a = 0))
Ends(x, made) == x.op = "animated" /\ made[x.a].queued

\* What of the agenda decides about the queue of element f.
Mover(x, f) == x.e = f /\ (x.op = "dequeue" \/ Finishing(x) \/ Stopping(x) \/ Begins(x))
Going(f) == QueuedOf(f) # {} \/ DelaysOf(f) # {}
Dequeues(f) == \E x \in Items(agenda) : x.op = "dequeue" /\ x.e = f
Finishes(f) == \E x \in Items(agenda) : Finishing(x) /\ x.e = f
Animates(f) == \E x \in Items(agenda) : Begins(x) /\ x.e = f

\* No animation of the queue is among the timers behind place i.
Past(f, i) == \A j \in 1..Len(timers) : j > i => timers[j] \notin QueuedOf(f)

\* One thing of the queue goes on, or will.
Single(f) ==
  /\ \A n, m \in QueuedOf(f) : n = m
  /\ \A s, t \in DelaysOf(f) : s = t
  /\ QueuedOf(f) = {} \/ DelaysOf(f) = {}
  /\ \A t \in DelaysOf(f) : hooks[f] # <<>> /\ t[1] = HooksOf(f).stop
  /\ Going(f) => ~Dequeues(f) /\ ~Animates(f)
  /\ Animates(f) => ~Dequeues(f)

\* It is in progress, or finish() runs it.
InProgress(f) == queue[f] # <<>> /\ Head(queue[f]) = Inprogress /\ hooks[f] # <<>>
AtFinish(f) ==
  /\ agenda # <<>> /\ Todo.e = f
  /\ \/ Finishing(Todo) /\ Past(f, Todo.i)
     \/ Todo.op = "animated" /\ Todo.a \in QueuedOf(f)
Progress(f) ==
  /\ (Going(f) \/ Animates(f)) /\ ~Finishes(f) => InProgress(f)
  /\ Finishes(f) => /\ queue[f] = <<>> /\ DelaysOf(f) = {} /\ f \in finish
                    /\ QueuedOf(f) # {} => AtFinish(f)

\* While stop() goes on nothing else moves the queue on.
Stopped(f) ==
  \A x \in Items(agenda) : Stopping(x) /\ x.e = f =>
    /\ ~Dequeues(f)
    /\ x.op # "stop" => DelaysOf(f) = {} /\ Past(f, x.i)

\* Of two things on the agenda: what there is once, and what the first must be.  Before a
\* loop of finish(), and the rest of an animation of the queue, stands what moves the queue
\* on.
Apart(x, y, f) ==
  /\ y.op = "dequeue" /\ y.e = f => ~(x.e = f /\ (x.op = "dequeue" \/ Finishing(x)))
  /\ Finishing(y) /\ y.e = f => ~(x.e = f /\ Finishing(x))
  /\ Stopping(y) /\ y.e = f => x.op = "unqueue"
Trails(y, f, made) == y.e = f /\ (Finishing(y) \/ Ends(y, made))
Leads(x, f, made) == x.e = f /\ (x.op = "dequeue" \/ Begins(x) \/ Ends(x, made))
Orderly(s, f, made) ==
  /\ \A j, k \in 1..Len(s) : j < k => Apart(s[j], s[k], f)
  /\ \A k \in 1..Len(s) : k > 1 /\ Trails(s[k], f, made) => Leads(s[k - 1], f, made)

Tidy(f) == Single(f) /\ Progress(f) /\ Stopped(f) /\ Orderly(agenda, f, animations)

LEMMA OrderlyCons ==
  ASSUME NEW s, IsSeq(s), NEW f, NEW made, Orderly(s, f, made), NEW x,
         \A y \in Items(s) : Apart(x, y, f), s # <<>> /\ Trails(s[1], f, made) => Leads(x, f, made)
  PROVE  Orderly(Cons(x, s), f, made)
  <1> PICK c : c = Cons(x, s)
    OBVIOUS
  <1>1. /\ Len(c) = Len(s) + 1 /\ c[1] = x /\ \A j \in 1..Len(s) : c[j + 1] = s[j]
    BY ConsIs
  <1>2. Len(s) \in Nat /\ (s = <<>> <=> Len(s) = 0)
    BY IsSeqFacts
  <1>3. ASSUME NEW j \in 1..Len(c), NEW k \in 1..Len(c), j < k PROVE Apart(c[j], c[k], f)
    <2>1. k - 1 \in 1..Len(s) /\ c[k] = s[k - 1] /\ s[k - 1] \in Items(s)
      <3>1. k - 1 \in 1..Len(s)
        BY <1>1, <1>2, <1>3
      <3> QED
        BY <1>1, <3>1 DEF Items
    <2>2. CASE j = 1
      BY <1>1, <2>1, <2>2
    <2>3. CASE j # 1
      <3>1. j - 1 \in 1..Len(s) /\ j - 1 < k - 1
        BY <1>1, <1>2, <1>3, <2>3
      <3>2. c[j] = s[j - 1]
        BY <1>1, <3>1
      <3> QED
        BY <2>1, <3>1, <3>2 DEF Orderly
    <2> QED
      BY <2>2, <2>3
  <1>4. ASSUME NEW k \in 1..Len(c), k > 1, Trails(c[k], f, made) PROVE Leads(c[k - 1], f, made)
    <2>1. k - 1 \in 1..Len(s)
      BY <1>1, <1>2, <1>4
    <2>2. c[k] = s[k - 1]
      BY <1>1, <2>1
    <2>3. CASE k = 2
      BY <1>1, <1>2, <1>4, <2>1, <2>2, <2>3
    <2>4. CASE k # 2
      <3>1. k - 2 \in 1..Len(s) /\ k - 1 > 1 /\ (k - 1) - 1 = k - 2
        BY <1>1, <1>2, <1>4, <2>4
      <3>2. c[k - 1] = s[k - 2]
        BY <1>1, <3>1
      <3> QED
        BY <1>4, <2>1, <2>2, <3>1, <3>2 DEF Orderly
    <2> QED
      BY <2>3, <2>4
  <1> QED
    BY <1>3, <1>4 DEF Orderly

\* What the first on the agenda says of the rest.
LEMMA OrderlyRest ==
  ASSUME Types, agenda # <<>>, NEW f, NEW made, Orderly(agenda, f, made)
  PROVE  /\ IsSeq(Rest) /\ Orderly(Rest, f, made)
         /\ \A y \in Items(Rest) : Apart(Todo, y, f)
         /\ Rest # <<>> /\ Trails(Rest[1], f, made) => Leads(Todo, f, made)
  <1> PICK s : s = agenda
    OBVIOUS
  <1> PICK r : r = Rest
    OBVIOUS
  <1>1. IsSeq(r) /\ IsSeq(s)
    BY RestFacts DEF Types
  <1>2. /\ Len(r) = Len(s) - 1 /\ Len(s) >= 1 /\ Todo = s[1]
        /\ \A j \in 1..Len(r) : r[j] = s[j + 1]
    <2>1. IsSeq(s) /\ s # <<>> /\ Todo = Head(s) /\ r = Tail(s)
      BY <1>1 DEF Todo, Rest
    <2> QED
      BY <2>1, TailIsSeq
  <1>3. Len(r) \in Nat /\ Len(s) \in Nat /\ (r = <<>> <=> Len(r) = 0)
    BY <1>1, IsSeqFacts
  <1>4. ASSUME NEW j \in 1..Len(r), NEW k \in 1..Len(r), j < k PROVE Apart(r[j], r[k], f)
    <2>1. j + 1 \in 1..Len(s) /\ k + 1 \in 1..Len(s) /\ j + 1 < k + 1
      BY <1>2, <1>3, <1>4
    <2> QED
      BY <1>2, <2>1 DEF Orderly
  <1>5. ASSUME NEW k \in 1..Len(r), k > 1, Trails(r[k], f, made) PROVE Leads(r[k - 1], f, made)
    <2>1. k - 1 \in 1..Len(r) /\ k + 1 \in 1..Len(s) /\ k + 1 > 1 /\ (k + 1) - 1 = (k - 1) + 1
      BY <1>2, <1>3, <1>5
    <2>2. r[k] = s[k + 1] /\ r[k - 1] = s[(k + 1) - 1]
      BY <1>2, <2>1
    <2> QED
      BY <1>5, <2>1, <2>2 DEF Orderly
  <1>6. ASSUME NEW y \in Items(r) PROVE Apart(Todo, y, f)
    <2>1. PICK j \in 1..Len(r) : y = r[j]
      BY <1>6 DEF Items
    <2>2. j + 1 \in 1..Len(s) /\ 1 \in 1..Len(s) /\ 1 < j + 1
      BY <1>2, <1>3
    <2> QED
      BY <1>2, <2>1, <2>2 DEF Orderly
  <1>7. ASSUME r # <<>>, Trails(r[1], f, made) PROVE Leads(Todo, f, made)
    <2>1. 1 \in 1..Len(r) /\ 2 \in 1..Len(s) /\ r[1] = s[2]
      <3>1. 1 \in 1..Len(r) /\ 2 \in 1..Len(s)
        BY <1>2, <1>3, <1>7
      <3>2. r[1] = s[1 + 1]
        BY <1>2, <3>1
      <3> QED
        BY <3>1, <3>2
    <2>2. 2 - 1 = 1 /\ 2 > 1
      OBVIOUS
    <2>3. Leads(s[2 - 1], f, made)
      BY <1>7, <2>1, <2>2 DEF Orderly
    <2> QED
      BY <1>2, <2>2, <2>3
  <1>8. Orderly(r, f, made)
    BY <1>4, <1>5 DEF Orderly
  <1> QED
    BY <1>1, <1>6, <1>7, <1>8

\* Whether an animation is one of the queue does not change.
LEMMA OrderlyAges ==
  ASSUME AnimationsAge, NEW s, ListOK(s, animations), NEW f, Orderly(s, f, animations)
  PROVE  Orderly(s, f, animations')
  <1>1. ASSUME NEW j \in 1..Len(s), s[j].op = "animated"
        PROVE  animations'[s[j].a].queued = animations[s[j].a].queued
    <2>1. s[j] \in Items(s)
      BY DEF Items
    <2>2. s[j].a \in DOMAIN animations
      BY <1>1, <2>1 DEF ListOK, ThingIn
    <2> QED
      BY <2>2 DEF AnimationsAge
  <1>2. ASSUME NEW k \in 1..Len(s), k > 1, Trails(s[k], f, animations')
        PROVE  Leads(s[k - 1], f, animations')
    <2>1. Len(s) \in Nat
      BY IsSeqFacts DEF ListOK
    <2>2. k - 1 \in 1..Len(s)
      BY <1>2, <2>1
    <2>3. Trails(s[k], f, animations)
      BY <1>1, <1>2 DEF Trails, Ends
    <2>4. Leads(s[k - 1], f, animations)
      BY <1>2, <2>3 DEF Orderly
    <2> QED
      BY <1>1, <2>2, <2>4 DEF Leads, Ends
  <1> QED
    BY <1>2 DEF Orderly

\* While a callback runs, what finish() has to go on with stands behind a dequeue().
LEMMA FinishGuarded ==
  ASSUME Types, FirstOnly, agenda # <<>>, NEW f, Orderly(agenda, f, animations),
         Todo.op \notin {"animate", "animated"}, ~Finishing(Todo), Finishes(f)
  PROVE  Dequeues(f)
  <1> PICK s : s = agenda
    OBVIOUS
  <1>1. IsSeq(s) /\ Len(s) \in Nat /\ s # <<>> /\ Len(s) # 0 /\ Todo = s[1]
    <2>1. IsSeq(s) /\ s # <<>> /\ Todo = Head(s)
      BY DEF Types, Todo
    <2> QED
      BY <2>1, IsSeqFacts, TailIsSeq
  <1>2. PICK z \in Items(s) : Finishing(z) /\ z.e = f
    BY DEF Finishes
  <1>3. PICK n \in 1..Len(s) : s[n] = z
    BY <1>2 DEF Items
  <1> SUFFICES ASSUME ~Dequeues(f) PROVE FALSE
    OBVIOUS
  <1> DEFINE Good == {k \in Nat : k < n => Trails(s[n - k], f, animations)}
  <1>4. 0 \in Good
    <2>1. n - 0 = n /\ 0 \in Nat
      BY <1>1
    <2>2. Trails(s[n], f, animations)
      BY <1>2, <1>3 DEF Trails
    <2> QED
      BY <2>1, <2>2
  <1>5. ASSUME NEW k \in Nat, k < n, k \in Good PROVE k + 1 \in Good
    <2> SUFFICES ASSUME k + 1 < n PROVE Trails(s[n - (k + 1)], f, animations)
      OBVIOUS
    <2>1. /\ n - k \in 1..Len(s) /\ n - k > 1 /\ n - (k + 1) = (n - k) - 1
          /\ n - (k + 1) \in 1..Len(s) /\ n - (k + 1) >= 1
      BY <1>1
    <2>2. Leads(s[n - (k + 1)], f, animations)
      BY <1>5, <2>1 DEF Orderly
    <2>3. s[n - (k + 1)] \in Items(s)
      BY <2>1 DEF Items
    <2>4. s[n - (k + 1)].op # "animate"
      BY <2>3, <1>1, ClearNow DEF Clear
    <2> QED
      BY <2>2, <2>3, <2>4 DEF Leads, Trails, Begins, Dequeues
  <1>6. n - 1 \in Nat /\ n - 1 < n /\ n - (n - 1) = 1
    BY <1>1
  <1>7. n - 1 \in Good
    <2>1. n \in Nat
      BY <1>1
    <2> HIDE DEF Good
    <2>2. \A k \in 0..n : k \in Good
      BY <2>1, <1>4, <1>5, UpToInduction
    <2> QED
      BY <1>6, <2>1, <2>2
  <1>8. Trails(s[1], f, animations)
    BY <1>6, <1>7
  <1> QED
    BY <1>1, <1>8 DEF Trails, Ends

\* What has nothing to do with the queue of f.
Aside(x, f, made) == ~Mover(x, f) /\ ~(x.e = f /\ Ends(x, made))

LEMMA AsideThings ==
  ASSUME NEW x, NEW f, x.e # f \/ x.op \in {"run", "unqueue", "ticked", "tick"}
  PROVE  \A made : Aside(x, f, made)
  BY DEF Aside, Mover, Ends, Finishing, Stopping, Begins

\* A list with the same of the queue of f as the agenda, behind other things.
CalmOf(s, f) ==
  /\ IsSeq(s) /\ Orderly(s, f, animations')
  /\ s # <<>> => ~Trails(s[1], f, animations')
  /\ \A x \in Items(s) : ~(Stopping(x) /\ x.e = f)
  /\ \A x \in Items(s) : Mover(x, f) => x \in Items(agenda)
  /\ \A x \in Items(agenda) : Mover(x, f) => x \in Items(s)

LEMMA AgendaOrderly ==
  ASSUME Types, AnimationsAge, NEW f, Orderly(agenda, f, animations)
  PROVE  Orderly(agenda, f, animations')
  <1>1. ListOK(agenda, animations)
    BY DEF Types, ListOK, ThingOK
  <1> QED
    BY <1>1, OrderlyAges

LEMMA CalmRest ==
  ASSUME Types, AnimationsAge, NEW f, Orderly(agenda, f, animations), agenda # <<>>,
         Todo.op # "unqueue", Aside(Todo, f, animations')
  PROVE  CalmOf(Rest, f)
  <1>1. /\ IsSeq(Rest) /\ Orderly(Rest, f, animations')
        /\ \A y \in Items(Rest) : Apart(Todo, y, f)
        /\ Rest # <<>> /\ Trails(Rest[1], f, animations') => Leads(Todo, f, animations')
    BY AgendaOrderly, OrderlyRest
  <1>2. ~Leads(Todo, f, animations')
    BY DEF Leads, Aside, Mover
  <1>3. Items(agenda) = {Todo} \cup Items(Rest)
    BY RestFacts
  <1>4. \A x \in Items(Rest) : ~(Stopping(x) /\ x.e = f)
    BY <1>1 DEF Apart
  <1>5. ~Mover(Todo, f)
    BY DEF Aside
  <1>6. \A x \in Items(agenda) : Mover(x, f) => x \in Items(Rest)
    BY <1>3, <1>5
  <1>7. \A x \in Items(Rest) : x \in Items(agenda)
    BY <1>3
  <1> QED
    BY <1>1, <1>2, <1>4, <1>6, <1>7 DEF CalmOf

LEMMA CalmAgenda ==
  ASSUME Types, AnimationsAge, NEW f, Orderly(agenda, f, animations), agenda = <<>> \/ Todo.op = "run"
  PROVE  CalmOf(agenda, f)
  <1>1. IsSeq(agenda) /\ Orderly(agenda, f, animations')
    BY AgendaOrderly DEF Types
  <1>2. CASE agenda = <<>>
    <2>1. Items(agenda) = {}
      BY <1>2, ShortIsSeq
    <2> QED
      BY <1>1, <1>2, <2>1 DEF CalmOf
  <1>3. CASE agenda # <<>>
    <2>1. Items(agenda) = {Todo} \cup Items(Rest) /\ Todo.op = "run"
      BY <1>3, RestFacts
    <2>2. \A y \in Items(Rest) : Apart(Todo, y, f)
      BY <1>3, OrderlyRest
    <2>3. Todo = agenda[1]
      BY <1>1, <1>3, TailIsSeq DEF Todo
    <2>4. ~Trails(Todo, f, animations') /\ ~Stopping(Todo)
      BY <2>1 DEF Trails, Ends, Finishing, Stopping
    <2>5. \A x \in Items(agenda) : ~(Stopping(x) /\ x.e = f)
      BY <2>1, <2>2, <2>4 DEF Apart
    <2> QED
      BY <1>1, <2>3, <2>4, <2>5 DEF CalmOf
  <1> QED
    BY <1>2, <1>3

LEMMA CalmCons ==
  ASSUME NEW f, NEW s, CalmOf(s, f), NEW x, Aside(x, f, animations')
  PROVE  CalmOf(Cons(x, s), f)
  <1> PICK c : c = Cons(x, s)
    OBVIOUS
  <1>1. IsSeq(s) /\ IsSeq(c) /\ Items(c) = {x} \cup Items(s) /\ c[1] = x
    BY ConsIs DEF CalmOf
  <1>2. ~Mover(x, f) /\ ~(x.e = f /\ Ends(x, animations'))
    BY DEF Aside
  <1>3. \A y \in Items(s) : Apart(x, y, f)
    BY <1>2 DEF CalmOf, Apart, Mover
  <1>4. Orderly(c, f, animations')
    BY <1>1, <1>3, OrderlyCons DEF CalmOf
  <1>5. ~Trails(x, f, animations') /\ ~(Stopping(x) /\ x.e = f)
    BY <1>2 DEF Trails, Mover
  <1> QED
    BY <1>1, <1>2, <1>4, <1>5 DEF CalmOf

\* What settling an animation of another element, or outside of the queue, puts before a
\* list.
LEMMA CalmSettled ==
  ASSUME NEW f, NEW s, CalmOf(s, f), NEW n, NEW how, AfterSettled(n, how, s),
         animations[n].e # f \/ ~animations[n].queued
  PROVE  CalmOf(agenda', f)
  <1> PICK e : e = animations[n].e
    OBVIOUS
  <1> PICK x : x = UnqueueDo(e, n)
    OBVIOUS
  <1> PICK y : y = DequeueDo(e)
    OBVIOUS
  <1> PICK z : z = Run(e)
    OBVIOUS
  <1>1. /\ x.op = "unqueue" /\ y.op = "dequeue" /\ z.op = "run" /\ x.e = e /\ y.e = e /\ z.e = e
    BY SimpleThings
  <1>2. Aside(x, f, animations') /\ Aside(z, f, animations')
    BY <1>1, AsideThings
  <1>3. animations[n].queued => Aside(y, f, animations')
    BY <1>1, AsideThings
  <1>4. CalmOf(Cons(x, s), f) /\ (animations[n].queued => CalmOf(Cons(y, s), f))
    BY <1>2, <1>3, CalmCons
  <1>5. CalmOf(Cons(z, Cons(x, s)), f) /\ (animations[n].queued => CalmOf(Cons(z, Cons(y, s)), f))
    BY <1>2, <1>4, CalmCons
  <1>6. CASE how = "resolved" /\ animations[n].queued
    <2>1. agenda' = Cons(z, Cons(y, s))
      BY <1>6 DEF AfterSettled
    <2> QED
      BY <1>5, <1>6, <2>1
  <1>7. CASE how = "resolved" /\ ~animations[n].queued
    <2>1. agenda' = Cons(z, Cons(x, s))
      BY <1>7 DEF AfterSettled
    <2> QED
      BY <1>5, <2>1
  <1>8. CASE how # "resolved" /\ animations[n].queued
    BY <1>8 DEF AfterSettled
  <1>9. CASE how # "resolved" /\ ~animations[n].queued
    <2>1. agenda' = Cons(x, s)
      BY <1>9 DEF AfterSettled
    <2> QED
      BY <1>4, <2>1
  <1> QED
    BY <1>6, <1>7, <1>8, <1>9

--------------------------------------------------------------------------------
(* When a queue stays tidy                                                  *)

LEMMA TidyKept ==
  ASSUME NEW f, Single(f), Progress(f),
         QueuedOf(f)' \subseteq QueuedOf(f), DelaysOf(f)' \subseteq DelaysOf(f),
         Dequeues(f)' => Dequeues(f), Animates(f)' => Animates(f), Finishes(f)' <=> Finishes(f),
         InProgress(f) => InProgress(f)', queue[f] = <<>> => queue'[f] = <<>>,
         DelaysOf(f)' # {} => HooksOf(f)'.stop = HooksOf(f).stop,
         f \in finish => f \in finish',
         Finishes(f) /\ AtFinish(f) => QueuedOf(f)' = {} \/ AtFinish(f)'
  PROVE  Single(f)' /\ Progress(f)'
  <1>1. Going(f)' => Going(f)
    BY DEF Going
  <1>2. ASSUME NEW t \in DelaysOf(f)' PROVE hooks'[f] # <<>> /\ t[1] = HooksOf(f)'.stop
    <2>1. t \in DelaysOf(f)
      BY <1>2
    <2>2. ~Finishes(f) /\ Going(f)
      BY <2>1 DEF Progress, Going
    <2>3. hooks'[f] # <<>>
      BY <2>2 DEF Progress, InProgress
    <2> QED
      BY <1>2, <2>1, <2>3 DEF Single
  <1>3. Single(f)'
    BY <1>1, <1>2 DEF Single
  <1>4. Progress(f)'
    BY <1>1 DEF Progress
  <1> QED
    BY <1>3, <1>4

\* The same on the agenda.
LEMMA ThingsSame ==
  ASSUME NEW f, \A x \in Items(agenda') : Mover(x, f) => x \in Items(agenda),
         \A x \in Items(agenda) : Mover(x, f) => x \in Items(agenda')
  PROVE  /\ Dequeues(f)' <=> Dequeues(f)
         /\ Animates(f)' <=> Animates(f)
         /\ Finishes(f)' <=> Finishes(f)
  BY DEF Dequeues, Animates, Finishes, Mover

LEMMA AsideNotAt ==
  ASSUME NEW f, agenda # <<>> => Aside(Todo, f, animations)
  PROVE  ~AtFinish(f)
  BY DEF AtFinish, Aside, Mover, Ends, QueuedOf

\* What f has of the queue stays, or its animation or delay ends outside of it.
LEMMA TidyCalm ==
  ASSUME NEW f, Tidy(f), CalmOf(agenda', f), ~AtFinish(f),
         QueuedOf(f)' \subseteq QueuedOf(f), DelaysOf(f)' \subseteq DelaysOf(f),
         InProgress(f) => InProgress(f)', queue[f] = <<>> => queue'[f] = <<>>,
         DelaysOf(f)' # {} => HooksOf(f)'.stop = HooksOf(f).stop,
         f \in finish => f \in finish'
  PROVE  Tidy(f)'
  <1>1. /\ Dequeues(f)' <=> Dequeues(f)
        /\ Animates(f)' <=> Animates(f)
        /\ Finishes(f)' <=> Finishes(f)
    BY ThingsSame DEF CalmOf
  <1>2. Single(f)' /\ Progress(f)'
    BY <1>1, TidyKept DEF Tidy
  <1>3. Stopped(f)'
    BY DEF CalmOf, Stopped
  <1> QED
    BY <1>2, <1>3 DEF Tidy, CalmOf

\* Nothing of the queue goes on.
LEMMA TidyResting ==
  ASSUME NEW f, QueuedOf(f)' = {}, DelaysOf(f)' = {}, ~Animates(f)',
         Finishes(f)' => queue'[f] = <<>> /\ f \in finish',
         Stopped(f)', Orderly(agenda', f, animations')
  PROVE  Tidy(f)'
  BY DEF Tidy, Single, Progress, Going

\* A list in which nothing moves the queue of f on but a loop of finish().
Bare(s, f) ==
  /\ IsSeq(s)
  /\ \A x \in Items(s) : x.e = f => x.op # "dequeue" /\ ~Stopping(x) /\ ~Begins(x)

\* The loops of finish() in a list are such as they should be.
FinishRight(s, f) ==
  \A x \in Items(s) : Finishing(x) /\ x.e = f => queue'[f] = <<>> /\ f \in finish'

LEMMA BareTidy ==
  ASSUME NEW f, NEW s, Bare(s, f), Orderly(s, f, animations'), FinishRight(s, f), agenda' = s,
         QueuedOf(f)' = {}, DelaysOf(f)' = {}
  PROVE  Tidy(f)'
  <1>1. ~Animates(f)' /\ Stopped(f)'
    BY DEF Bare, Animates, Stopped
  <1>2. Finishes(f)' => queue'[f] = <<>> /\ f \in finish'
    BY DEF FinishRight, Finishes
  <1> QED
    BY <1>1, <1>2, TidyResting

\* Now dequeue() follows.
LEMMA DequeuePushed ==
  ASSUME NEW f, NEW s, Bare(s, f), Orderly(s, f, animations'), FinishRight(s, f),
         agenda' = Cons(DequeueDo(f), s) \/ agenda' = Cons(Run(f), Cons(DequeueDo(f), s)),
         QueuedOf(f)' = {}, DelaysOf(f)' = {}
  PROVE  Tidy(f)'
  <1> PICK x : x = DequeueDo(f)
    OBVIOUS
  <1> PICK y : y = Run(f)
    OBVIOUS
  <1> PICK c : c = Cons(x, s)
    OBVIOUS
  <1> PICK d : d = Cons(y, c)
    OBVIOUS
  <1>1. x.op = "dequeue" /\ x.e = f /\ y.op = "run" /\ y.e = f
    BY SimpleThings
  <1>2. ~Finishing(x) /\ ~Stopping(x) /\ ~Begins(x) /\ ~Finishing(y) /\ ~Stopping(y) /\ ~Begins(y)
    BY <1>1 DEF Finishing, Stopping, Begins
  <1>3. /\ IsSeq(s) /\ IsSeq(c) /\ Items(c) = {x} \cup Items(s) /\ c[1] = x
    BY ConsIs DEF Bare
  <1>4. Items(d) = {y} \cup Items(c)
    BY <1>3, ConsIs
  <1>5. Orderly(c, f, animations')
    <2>1. \A z \in Items(s) : Apart(x, z, f)
      BY <1>2 DEF Bare, Apart
    <2>2. Leads(x, f, animations')
      BY <1>1 DEF Leads
    <2> QED
      BY <1>3, <2>1, <2>2, OrderlyCons
  <1>6. Orderly(d, f, animations')
    <2>1. \A z \in Items(c) : Apart(y, z, f)
      BY <1>1, <1>2, <1>3 DEF Bare, Apart
    <2>2. ~Trails(c[1], f, animations')
      BY <1>1, <1>2, <1>3 DEF Trails, Ends
    <2> QED
      BY <1>3, <1>5, <2>1, <2>2, OrderlyCons
  <1>7. agenda' = c \/ agenda' = d
    OBVIOUS
  <1>8. Orderly(agenda', f, animations')
    BY <1>5, <1>6, <1>7
  <1>9. \A z \in Items(agenda') : z = x \/ z = y \/ z \in Items(s)
    BY <1>3, <1>4, <1>7
  <1>10. ~Animates(f)' /\ Stopped(f)'
    BY <1>2, <1>9 DEF Bare, Animates, Stopped
  <1>11. Finishes(f)' => queue'[f] = <<>> /\ f \in finish'
    BY <1>2, <1>9 DEF FinishRight, Finishes
  <1> QED
    BY <1>8, <1>10, <1>11, TidyResting

LEMMA SameQueue ==
  ASSUME NEW f, queue'[f] = queue[f], hooks'[f] = hooks[f]
  PROVE  /\ InProgress(f) => InProgress(f)'
         /\ queue[f] = <<>> => queue'[f] = <<>>
         /\ HooksOf(f)'.stop = HooksOf(f).stop
  BY DEF InProgress, HooksOf, NewHooks

\* The rest when a dequeue() is first on the agenda.
LEMMA RestOfDequeue ==
  ASSUME Types, FirstOnly, NEW f, Tidy(f), agenda # <<>>, Todo.op = "dequeue", Todo.e = f,
         animations' = animations
  PROVE  /\ Bare(Rest, f) /\ Orderly(Rest, f, animations')
         /\ QueuedOf(f)' = {} /\ DelaysOf(f) = {}
         /\ \A x \in Items(Rest) : Finishing(x) /\ x.e = f => queue[f] = <<>> /\ f \in finish
  <1>1. /\ IsSeq(Rest) /\ Orderly(Rest, f, animations)
        /\ \A y \in Items(Rest) : Apart(Todo, y, f)
    BY OrderlyRest DEF Tidy
  <1>2. Items(agenda) = {Todo} \cup Items(Rest) /\ Clear(Rest)
    BY RestFacts, ClearNow
  <1>3. Bare(Rest, f)
    BY <1>1, <1>2 DEF Bare, Apart, Clear, Begins
  <1>4. Dequeues(f)
    BY <1>2 DEF Dequeues
  <1>5. QueuedOf(f) = {} /\ DelaysOf(f) = {}
    BY <1>4 DEF Tidy, Single, Going
  <1>6. QueuedOf(f)' = QueuedOf(f)
    BY SameAnimations, StatesKeepQueued
  <1>7. \A x \in Items(Rest) : Finishing(x) /\ x.e = f => Finishes(f)
    BY <1>2 DEF Finishes
  <1> QED
    BY <1>1, <1>3, <1>5, <1>6, <1>7 DEF Tidy, Progress

LEMMA DequeueNextTidy ==
  ASSUME Types, FirstOnly, Dequeue, NEW f \in Elements, f = Todo.e, Tidy(f), NEW fn, DequeueNext(f, fn)
  PROVE  Tidy(f)'
  <1>1. agenda # <<>> /\ Todo.op = "dequeue"
    BY DequeueFacts
  <1>2. animations' = animations /\ finish' = finish
    BY DEF Dequeue
  <1>3. /\ Bare(Rest, f) /\ Orderly(Rest, f, animations')
        /\ QueuedOf(f)' = {} /\ DelaysOf(f) = {}
        /\ \A x \in Items(Rest) : Finishing(x) /\ x.e = f => queue[f] = <<>> /\ f \in finish
    BY <1>1, <1>2, RestOfDequeue
  <1>4. queue[f] # <<>>
    BY ShortIsSeq DEF DequeueNext
  <1>5. \A x \in Items(Rest) : x.e = f => ~Mover(x, f)
    BY <1>3, <1>4 DEF Mover, Bare
  <1>6. FinishRight(Rest, f)
    BY <1>5 DEF FinishRight, Mover
  <1>7. PICK h \in Hooks : /\ hooks'[f] = <<h>> /\ h.unqueued = HooksOf(f).unqueued
                           /\ h.waiting = HooksOf(f).waiting
                           /\ h.stop = IF fn.is = "delay" THEN fn.id ELSE 0
    BY DEF DequeueNext
  <1>8. hooks'[f] # <<>> /\ HooksOf(f)' = h
    BY <1>7, HooksAfter
  <1>9. InProgress(f)'
    BY <1>8 DEF DequeueNext, InProgress
  <1>10. CASE /\ fn.is = "animation" /\ timeouts' = timeouts
              /\ agenda' = Cons(AnimateDo(f, fn, "queued"), Rest)
    <2> PICK x : x = AnimateDo(f, fn, "queued")
      OBVIOUS
    <2>1. x.op = "animate" /\ x.how = "queued" /\ x.e = f
      BY AnimateThings
    <2>2. Items(agenda') = {x} \cup Items(Rest)
      BY <1>3, <1>10, ConsIs DEF Bare
    <2>3. DelaysOf(f)' = {}
      BY <1>3, <1>10 DEF DelaysOf
    <2>4. ~Dequeues(f)' /\ ~Finishes(f)' /\ Stopped(f)'
      BY <1>5, <2>1, <2>2 DEF Dequeues, Finishes, Stopped, Mover, Finishing, Stopping
    <2>5. Orderly(agenda', f, animations')
      <3>1. \A y \in Items(Rest) : Apart(x, y, f)
        BY <1>5 DEF Apart, Mover
      <3>2. Leads(x, f, animations')
        BY <2>1 DEF Leads, Begins
      <3> QED
        BY <1>3, <1>10, <3>1, <3>2, OrderlyCons DEF Bare
    <2>6. Single(f)' /\ Progress(f)'
      BY <1>3, <1>9, <2>3, <2>4 DEF Single, Progress, Going
    <2> QED
      BY <2>4, <2>5, <2>6 DEF Tidy
  <1>11. CASE /\ fn.is = "function" /\ timeouts' = timeouts
              /\ agenda' = Cons(Run(f), Cons(DequeueDo(f), Rest))
    <2>1. DelaysOf(f)' = {}
      BY <1>3, <1>11 DEF DelaysOf
    <2> QED
      BY <1>3, <1>6, <1>11, <2>1, DequeuePushed
  <1>12. CASE /\ fn.is = "delay" /\ timeouts' = timeouts \cup {<<fn.id, f>>}
              /\ agenda' = Rest
    <2>1. DelaysOf(f)' = {<<fn.id, f>>}
      <3>1. \A t \in timeouts : t[2] # f
        BY <1>3 DEF DelaysOf
      <3> QED
        BY <1>12, <3>1 DEF DelaysOf
    <2>2. ~Dequeues(f)' /\ ~Animates(f)' /\ ~Finishes(f)' /\ Stopped(f)'
      BY <1>5, <1>12 DEF Dequeues, Finishes, Animates, Stopped, Mover
    <2>3. \A t \in DelaysOf(f)' : hooks'[f] # <<>> /\ t[1] = HooksOf(f)'.stop
      BY <1>7, <1>8, <1>12, <2>1
    <2>4. Single(f)'
      BY <1>3, <2>1, <2>2, <2>3 DEF Single
    <2>5. Progress(f)'
      BY <1>9, <2>2 DEF Progress
    <2> QED
      BY <1>3, <1>12, <2>2, <2>4, <2>5 DEF Tidy
  <1> QED
    BY <1>10, <1>11, <1>12 DEF DequeueNext

LEMMA DequeueTidy ==
  ASSUME Types, FirstOnly, Dequeue, NEW f \in Elements, Tidy(f)
  PROVE  Tidy(f)'
  <1> PICK e : e = Todo.e
    OBVIOUS
  <1>1. /\ e \in Elements /\ agenda # <<>> /\ Todo.op = "dequeue" /\ OnlyOf(e)
        /\ DequeueEmpty(e) \/ \E fn : DequeueNext(e, fn)
    BY DequeueFacts
  <1>2. animations' = animations /\ finish' = finish
    BY DEF Dequeue
  <1>3. CASE f # e
    <2>1. queue'[f] = queue[f] /\ hooks'[f] = hooks[f]
      BY <1>1, <1>3 DEF OnlyOf
    <2>2. QueuedOf(f)' = QueuedOf(f) /\ AnimationsAge
      BY <1>2, SameAnimations, StatesKeepQueued DEF AnimationsAge
    <2>3. DelaysOf(f)' = DelaysOf(f)
      <3>1. timeouts' = timeouts \/ \E id : timeouts' = timeouts \cup {<<id, e>>}
        BY <1>1 DEF DequeueEmpty, DequeueNext
      <3> QED
        BY <1>3, <3>1 DEF DelaysOf
    <2>4. Aside(Todo, f, animations) /\ Aside(Todo, f, animations')
      BY <1>3, AsideThings
    <2>5. ~AtFinish(f)
      BY <2>4, AsideNotAt
    <2>6. CalmOf(Rest, f)
      BY <1>1, <2>2, <2>4, CalmRest DEF Tidy
    <2>7. CalmOf(agenda', f)
      <3>1. ASSUME NEW fn, agenda' = Cons(AnimateDo(e, fn, "queued"), Rest) PROVE CalmOf(agenda', f)
        <4>1. AnimateDo(e, fn, "queued").e # f
          BY <1>3, AnimateThings
        <4> QED
          BY <2>6, <3>1, <4>1, AsideThings, CalmCons
      <3>2. ASSUME agenda' = Cons(Run(e), Cons(DequeueDo(e), Rest)) PROVE CalmOf(agenda', f)
        <4>1. Run(e).e # f /\ DequeueDo(e).e # f
          BY <1>3, SimpleThings
        <4>2. CalmOf(Cons(DequeueDo(e), Rest), f)
          BY <2>6, <4>1, AsideThings, CalmCons
        <4> QED
          BY <3>2, <4>1, <4>2, AsideThings, CalmCons
      <3> QED
        BY <1>1, <2>6, <3>1, <3>2 DEF DequeueEmpty, DequeueNext
    <2> QED
      BY <1>2, <2>1, <2>2, <2>3, <2>5, <2>7, SameQueue, TidyCalm
  <1>4. CASE f = e /\ DequeueEmpty(e)
    <2>1. /\ Bare(Rest, f) /\ Orderly(Rest, f, animations')
          /\ QueuedOf(f)' = {} /\ DelaysOf(f) = {}
          /\ \A x \in Items(Rest) : Finishing(x) /\ x.e = f => queue[f] = <<>> /\ f \in finish
      BY <1>1, <1>2, <1>4, RestOfDequeue
    <2>2. agenda' = Rest /\ queue'[f] = <<>> /\ timeouts' = timeouts
      BY <1>4 DEF DequeueEmpty
    <2>3. FinishRight(Rest, f) /\ DelaysOf(f)' = {}
      BY <1>2, <2>1, <2>2 DEF FinishRight, DelaysOf
    <2> QED
      BY <2>1, <2>2, <2>3, BareTidy
  <1>5. CASE f = e /\ \E fn : DequeueNext(e, fn)
    BY <1>5, DequeueNextTidy
  <1> QED
    BY <1>1, <1>3, <1>4, <1>5

LEMMA UnqueueTidy ==
  ASSUME Types, Unqueue, NEW f \in Elements, Tidy(f)
  PROVE  Tidy(f)'
  <1> PICK e : e = Todo.e
    OBVIOUS
  <1>1. /\ e \in Elements /\ agenda # <<>> /\ Todo.op = "unqueue" /\ agenda' = Rest
        /\ \A g \in Elements \ {e} : hooks'[g] = hooks[g]
    BY UnqueueFacts
  <1>2. /\ queue' = queue /\ timers' = timers /\ animations' = animations /\ finish' = finish
        /\ timeouts' = timeouts
    BY DEF Unqueue, clock
  <1>3. Items(agenda) = {Todo} \cup Items(Rest)
    BY <1>1, RestFacts
  <1>4. Aside(Todo, f, animations)
    BY <1>1, AsideThings
  <1>5. ~AtFinish(f) /\ ~Mover(Todo, f)
    BY <1>4, AsideNotAt DEF Aside
  <1>6. /\ Dequeues(f)' <=> Dequeues(f)
        /\ Animates(f)' <=> Animates(f)
        /\ Finishes(f)' <=> Finishes(f)
    BY <1>1, <1>3, <1>5, ThingsSame
  <1>7. QueuedOf(f)' = QueuedOf(f) /\ DelaysOf(f)' = DelaysOf(f)
    BY <1>2, SameAnimations, StatesKeepQueued DEF DelaysOf
  <1>8. /\ InProgress(f) => InProgress(f)'
        /\ DelaysOf(f) # {} => HooksOf(f)'.stop = HooksOf(f).stop
    <2>1. CASE f # e
      BY <1>1, <1>2, <2>1, SameQueue
    <2>2. CASE f = e
      <3>1. PICK h : UnqueueAfter(e, h)
        BY UnqueueFacts
      <3>2. queue[f] # <<>> => hooks'[f] # <<>> /\ HooksOf(f)' = h /\ h.stop = HooksOf(f).stop
        BY <1>1, <2>2, <3>1, HooksAfter DEF UnqueueAfter
      <3>3. DelaysOf(f) # {} => InProgress(f)
        BY DEF Tidy, Progress, Going
      <3> QED
        BY <1>2, <3>2, <3>3 DEF InProgress
    <2> QED
      BY <2>1, <2>2
  <1>9. Single(f)' /\ Progress(f)'
    BY <1>2, <1>5, <1>6, <1>7, <1>8, TidyKept DEF Tidy
  <1>10. Orderly(agenda', f, animations')
    BY <1>1, <1>2, OrderlyRest DEF Tidy
  <1>11. Stopped(f)'
    <2>1. Stopped(f) /\ \A x \in Items(agenda') : x \in Items(agenda)
      BY <1>1, <1>3 DEF Tidy
    <2>2. \A i : Past(f, i) => Past(f, i)'
      BY <1>2, <1>7 DEF Past
    <2> QED
      BY <1>6, <1>7, <2>1, <2>2 DEF Stopped
  <1> QED
    BY <1>9, <1>10, <1>11 DEF Tidy

LEMMA BeginsAge ==
  ASSUME NEW e, NEW n, NEW a, AnimationBegins(e, n, a)
  PROVE  /\ AnimationsAge
         /\ \A f : /\ f # e \/ ~a.queued \/ a.state # "pending" => QueuedOf(f)' = QueuedOf(f)
                   /\ f = e /\ a.queued /\ a.state = "pending" => QueuedOf(f)' = QueuedOf(f) \cup {n}
  <1>1. /\ DOMAIN animations' = DOMAIN animations \cup {n} /\ a.e = e /\ n \notin DOMAIN animations
        /\ (\A k \in DOMAIN animations : animations'[k] = animations[k]) /\ animations'[n] = a
    BY DEF AnimationBegins
  <1>2. AnimationsAge
    BY <1>1 DEF AnimationsAge
  <1>3. ASSUME NEW f PROVE QueuedOf(f)' = QueuedOf(f) \cup
                             IF f = e /\ a.queued /\ a.state = "pending" THEN {n} ELSE {}
    BY <1>1 DEF QueuedOf, Begun, Pending
  <1> QED
    BY <1>2, <1>3

\* An animation begins of another element, or outside of the queue.
LEMMA AnimateAside ==
  ASSUME Types, Animate, NEW f \in Elements, Tidy(f), NEW e, e = Todo.e, NEW n, NEW a,
         AnimationBegins(e, n, a), f # e \/ ~a.queued
  PROVE  Tidy(f)'
  <1>1. /\ e \in Elements /\ agenda # <<>> /\ Todo.op = "animate"
        /\ \A g \in Elements \ {e} : hooks'[g] = hooks[g]
        /\ AnimateHooks(e, Todo.how = "queued")
    BY AnimateFacts
  <1>2. queue' = queue /\ finish' = finish /\ timeouts' = timeouts
    BY DEF Animate
  <1>3. AnimationsAge /\ QueuedOf(f)' = QueuedOf(f)
    BY BeginsAge
  <1>4. a.queued <=> Todo.how = "queued"
    BY DEF AnimationBegins
  <1>5. \A made : Aside(Todo, f, made)
    BY <1>1, <1>4 DEF Aside, Mover, Finishing, Stopping, Begins, Ends
  <1>6. CalmOf(Rest, f) /\ ~AtFinish(f)
    BY <1>1, <1>3, <1>5, CalmRest, AsideNotAt DEF Tidy
  <1>7. ASSUME NEW goal PROVE CalmOf(Cons(AnimatedDo(e, n, goal), Rest), f)
    <2> PICK x : x = AnimatedDo(e, n, goal)
      OBVIOUS
    <2>1. x.op = "animated" /\ x.e = e /\ x.a = n
      BY DoFields DEF AnimatedDo
    <2>2. animations'[n].queued = a.queued
      BY DEF AnimationBegins
    <2>3. Aside(x, f, animations')
      BY <2>1, <2>2 DEF Aside, Mover, Finishing, Stopping, Begins, Ends
    <2> QED
      BY <1>6, <2>3, CalmCons
  <1>8. /\ \A made : Aside(Run(e), f, made) /\ Aside(UnqueueDo(e, n), f, made)
        /\ f # e => \A made : Aside(DequeueDo(e), f, made)
    BY SimpleThings, AsideThings
  <1>9. CalmOf(agenda', f)
    <2>1. PICK goal :
       \/ agenda' = Cons(AnimatedDo(e, n, goal), Rest)
       \/ a.queued /\ agenda' = Cons(Run(e), Cons(DequeueDo(e), Cons(AnimatedDo(e, n, goal), Rest)))
       \/ agenda' = Cons(UnqueueDo(e, n), Cons(Run(e), Cons(AnimatedDo(e, n, goal), Rest)))
      BY DEF AnimationBegins
    <2> PICK s : s = Cons(AnimatedDo(e, n, goal), Rest)
      OBVIOUS
    <2>2. CalmOf(s, f)
      BY <1>7
    <2>3. CASE agenda' = s
      BY <2>2, <2>3
    <2>4. CASE f # e /\ agenda' = Cons(Run(e), Cons(DequeueDo(e), s))
      <3>1. CalmOf(Cons(DequeueDo(e), s), f)
        BY <1>8, <2>2, <2>4, CalmCons
      <3> QED
        BY <1>8, <2>4, <3>1, CalmCons
    <2>5. CASE agenda' = Cons(UnqueueDo(e, n), Cons(Run(e), s))
      <3>1. CalmOf(Cons(Run(e), s), f)
        BY <1>8, <2>2, CalmCons
      <3> QED
        BY <1>8, <2>5, <3>1, CalmCons
    <2> QED
      BY <2>1, <2>3, <2>4, <2>5
  <1>10. /\ InProgress(f) => InProgress(f)'
         /\ HooksOf(f)'.stop = HooksOf(f).stop
    <2>1. CASE hooks'[f] = hooks[f]
      BY <1>2, <2>1, SameQueue
    <2>2. CASE \E h \in Hooks : hooks'[f] = <<h>> /\ h.stop = HooksOf(f).stop
      <3>1. hooks'[f] # <<>> /\ HooksOf(f)'.stop = HooksOf(f).stop
        BY <2>2, HooksAfter
      <3> QED
        BY <1>2, <3>1 DEF InProgress
    <2> QED
      BY <1>1, <2>1, <2>2 DEF AnimateHooks
  <1>11. DelaysOf(f)' = DelaysOf(f)
    BY <1>2 DEF DelaysOf
  <1> QED
    BY <1>2, <1>3, <1>6, <1>9, <1>10, <1>11, TidyCalm

LEMMA AnimateQueued ==
  ASSUME Types, FirstOnly, Animate, NEW f \in Elements, Tidy(f), f = Todo.e, NEW n, NEW a,
         AnimationBegins(f, n, a), a.queued
  PROVE  Tidy(f)'
  <1>1. /\ agenda # <<>> /\ Todo.op = "animate"
        /\ AnimateHooks(f, Todo.how = "queued")
    BY AnimateFacts
  <1>2. queue' = queue /\ finish' = finish /\ timeouts' = timeouts
    BY DEF Animate
  <1>3. Todo.how = "queued" /\ animations'[n].queued
    BY DEF AnimationBegins
  <1>4. Begins(Todo) /\ Items(agenda) = {Todo} \cup Items(Rest) /\ Clear(Rest)
    BY <1>1, <1>3, RestFacts, ClearNow DEF Begins
  <1>5. Animates(f)
    BY <1>4 DEF Animates
  <1>6. QueuedOf(f) = {} /\ DelaysOf(f) = {} /\ ~Dequeues(f)
    BY <1>5 DEF Tidy, Single, Going
  <1>7. AnimationsAge
    BY BeginsAge
  <1>8. /\ IsSeq(Rest) /\ Orderly(Rest, f, animations')
        /\ \A y \in Items(Rest) : Apart(Todo, y, f)
    BY <1>1, <1>7, AgendaOrderly, OrderlyRest DEF Tidy
  <1>9. Bare(Rest, f)
    BY <1>1, <1>4, <1>6, <1>8 DEF Bare, Apart, Clear, Begins, Dequeues
  <1>10. PICK goal :
       \/ a.state = "pending" /\ agenda' = Cons(AnimatedDo(f, n, goal), Rest)
       \/ a.state = "resolved" /\ agenda' = Cons(Run(f), Cons(DequeueDo(f), Cons(AnimatedDo(f, n, goal), Rest)))
    BY DEF AnimationBegins
  <1> PICK x : x = AnimatedDo(f, n, goal)
    OBVIOUS
  <1> PICK s : s = Cons(x, Rest)
    OBVIOUS
  <1>11. x.op = "animated" /\ x.e = f /\ x.a = n
    BY DoFields DEF AnimatedDo
  <1>12. IsSeq(s) /\ Items(s) = {x} \cup Items(Rest) /\ s # <<>> /\ Head(s) = x
    BY <1>8, ConsIs
  <1>13. ~Stopping(x) /\ ~Finishing(x) /\ ~Begins(x)
    BY <1>11 DEF Stopping, Finishing, Begins
  <1>14. Bare(s, f)
    BY <1>9, <1>11, <1>12, <1>13 DEF Bare
  <1>15. Orderly(s, f, animations')
    <2>1. \A y \in Items(Rest) : Apart(x, y, f)
      BY <1>9, <1>11, <1>13 DEF Apart, Bare
    <2>2. Leads(x, f, animations')
      BY <1>3, <1>11 DEF Leads, Ends
    <2> QED
      BY <1>8, <2>1, <2>2, OrderlyCons
  <1>16. (\E y \in Items(s) : Finishing(y) /\ y.e = f) => Finishes(f)
    BY <1>4, <1>12, <1>13 DEF Finishes
  <1>17. DelaysOf(f)' = {}
    BY <1>2, <1>6 DEF DelaysOf
  <1>18. CASE agenda' = s /\ a.state = "pending"
    <2>1. QueuedOf(f)' = {n}
      BY <1>6, <1>18, BeginsAge
    <2>2. ~Dequeues(f)' /\ ~Animates(f)' /\ Stopped(f)'
      BY <1>14, <1>18 DEF Bare, Dequeues, Animates, Stopped
    <2>3. Single(f)'
      BY <1>17, <2>1, <2>2 DEF Single
    <2>4. Finishes(f)' <=> Finishes(f)
      BY <1>4, <1>12, <1>13, <1>18, <1>1 DEF Finishes, Finishing
    <2>5. hooks' = hooks
      BY <1>1, <1>3 DEF AnimateHooks
    <2>6. ~Finishes(f)' => InProgress(f)'
      BY <1>2, <1>5, <2>4, <2>5 DEF Tidy, Progress, InProgress
    <2>7. AtFinish(f)'
      BY <1>11, <1>12, <1>18, <2>1 DEF AtFinish, Todo
    <2>8. Finishes(f)' => queue'[f] = <<>> /\ f \in finish'
      BY <1>2, <2>4 DEF Tidy, Progress
    <2>9. Progress(f)'
      BY <1>17, <2>6, <2>7, <2>8 DEF Progress
    <2> QED
      BY <1>15, <1>18, <2>2, <2>3, <2>9 DEF Tidy
  <1>19. CASE agenda' = Cons(Run(f), Cons(DequeueDo(f), s)) /\ a.state = "resolved"
    <2>1. QueuedOf(f)' = {}
      BY <1>6, <1>19, BeginsAge
    <2>2. FinishRight(s, f)
      BY <1>2, <1>16 DEF FinishRight, Tidy, Progress
    <2> QED
      BY <1>14, <1>15, <1>17, <1>19, <2>1, <2>2, DequeuePushed
  <1> QED
    BY <1>10, <1>18, <1>19

LEMMA AnimateTidy ==
  ASSUME Types, FirstOnly, Animate, NEW f \in Elements, Tidy(f)
  PROVE  Tidy(f)'
  <1> PICK e : e = Todo.e
    OBVIOUS
  <1>1. PICK n, a : AnimationBegins(e, n, a)
    BY AnimateFacts
  <1>2. CASE f # e \/ ~a.queued
    BY <1>1, <1>2, AnimateAside
  <1>3. CASE f = e /\ a.queued
    BY <1>1, <1>3, AnimateQueued
  <1> QED
    BY <1>2, <1>3

\* The animation of the queue comes to its end, and dequeue() follows.
LEMMA SettledResolved ==
  ASSUME NEW f, Single(f), NEW n \in QueuedOf(f), Settled(n, "resolved"), timeouts' = timeouts,
         NEW s, Bare(s, f), Orderly(s, f, animations'), FinishRight(s, f), AfterSettled(n, "resolved", s)
  PROVE  Tidy(f)'
  <1>1. animations[n].e = f /\ animations[n].queued
    BY DEF QueuedOf, Begun
  <1>2. QueuedOf(f)' = QueuedOf(f) \ {n}
    BY SettledQueued
  <1>3. QueuedOf(f)' = {}
    BY <1>2 DEF Single
  <1>4. DelaysOf(f)' = {}
    BY DEF DelaysOf, Single
  <1>5. agenda' = Cons(Run(f), Cons(DequeueDo(f), s))
    BY <1>1 DEF AfterSettled
  <1> QED
    BY <1>3, <1>4, <1>5, DequeuePushed

\* What does not change when an animation is settled.
QueuesStill == UNCHANGED <<queue, hooks, timeouts>>

\* Nothing of the queue of f is taken from the agenda.
LEMMA CalmTidy ==
  ASSUME NEW f, Tidy(f), CalmOf(agenda', f), ~AtFinish(f), QueuesStill, f \in finish => f \in finish',
         QueuedOf(f)' \subseteq QueuedOf(f)
  PROVE  Tidy(f)'
  <1>1. DelaysOf(f)' = DelaysOf(f)
    BY DEF DelaysOf, QueuesStill
  <1>2. queue'[f] = queue[f] /\ hooks'[f] = hooks[f]
    BY DEF QueuesStill
  <1> QED
    BY <1>1, <1>2, SameQueue, TidyCalm

\* The same when an animation ends, of any element.
LEMMA CalmResolved ==
  ASSUME Types, NEW f, Tidy(f), NEW n, Pending(n), Settled(n, "resolved"), QueuesStill, finish' = finish,
         NEW s, CalmOf(s, f), AfterSettled(n, "resolved", s), ~AtFinish(f)
  PROVE  Tidy(f)'
  <1>1. QueuedOf(f)' = QueuedOf(f) \ {n}
    BY SettledQueued
  <1>2. CASE n \notin QueuedOf(f)
    <2>1. animations[n].e # f \/ ~animations[n].queued
      BY <1>2 DEF QueuedOf, Begun, Settled
    <2>2. CalmOf(agenda', f)
      BY <2>1, CalmSettled
    <2> QED
      BY <1>1, <2>2, CalmTidy
  <1>3. CASE n \in QueuedOf(f)
    <2>1. Going(f) /\ ~Dequeues(f) /\ ~Animates(f)
      BY <1>3 DEF Tidy, Single, Going
    <2>2. Bare(s, f)
      BY <2>1 DEF CalmOf, Bare, Mover, Dequeues, Animates
    <2>3. FinishRight(s, f)
      BY DEF CalmOf, Mover, FinishRight, Finishes, Tidy, Progress, QueuesStill
    <2> QED
      BY <1>3, <2>2, <2>3, SettledResolved DEF CalmOf, Tidy, QueuesStill
  <1> QED
    BY <1>2, <1>3

LEMMA KeepsAge ==
  ASSUME AnimationsKeep
  PROVE  AnimationsAge
  BY DEF AnimationsKeep, AnimationsAge

LEMMA AnimatedTidy ==
  ASSUME Types, FirstOnly, Animated, NEW f \in Elements, Tidy(f)
  PROVE  Tidy(f)'
  <1> PICK e : e = Todo.e
    OBVIOUS
  <1> PICK n : n = Todo.a
    OBVIOUS
  <1>1. /\ agenda # <<>> /\ Todo.op = "animated"
        /\ \/ /\ Pending(n) /\ Settled(n, "resolved") /\ AfterSettled(n, "resolved", Rest)
              /\ animations[n].e = e
           \/ /\ ~(Pending(n) /\ e \in finish)
              /\ animations' = animations /\ agenda' = Rest
    BY AnimatedFacts
  <1>2. QueuesStill /\ finish' = finish /\ timers' = timers
    BY DEF Animated, data, clock, QueuesStill
  <1>3. Items(agenda) = {Todo} \cup Items(Rest) /\ Clear(Rest)
    BY <1>1, RestFacts, ClearNow
  <1>4. ~Mover(Todo, f)
    BY <1>1 DEF Mover, Finishing, Stopping, Begins
  <1>5. CASE Pending(n) /\ Settled(n, "resolved") /\ AfterSettled(n, "resolved", Rest) /\ animations[n].e = e
    <2>1. AnimationsAge /\ animations'[n].queued = animations[n].queued
      BY <1>5, KeepsAge DEF Settled, AnimationsKeep
    <2>2. CASE n \in QueuedOf(f)
      <3>1. Going(f) /\ ~Dequeues(f)
        BY <2>2 DEF Tidy, Single, Going
      <3>2. /\ IsSeq(Rest) /\ Orderly(Rest, f, animations')
            /\ \A y \in Items(Rest) : Apart(Todo, y, f)
        BY <1>1, <2>1, AgendaOrderly, OrderlyRest DEF Tidy
      <3>3. Bare(Rest, f)
        BY <1>1, <1>3, <3>1, <3>2 DEF Bare, Apart, Clear, Begins, Dequeues
      <3>4. FinishRight(Rest, f)
        BY <1>2, <1>3 DEF FinishRight, Finishes, Tidy, Progress, QueuesStill
      <3> QED
        BY <1>2, <1>5, <2>2, <3>2, <3>3, <3>4, SettledResolved DEF Tidy, QueuesStill
    <2>3. CASE n \notin QueuedOf(f)
      <3>1. f # e \/ ~animations[n].queued
        BY <1>5, <2>3 DEF QueuedOf, Begun, Settled
      <3>2. Aside(Todo, f, animations) /\ Aside(Todo, f, animations')
        BY <1>4, <2>1, <3>1 DEF Aside, Ends
      <3>3. CalmOf(Rest, f) /\ ~AtFinish(f)
        BY <1>1, <2>1, <3>2, CalmRest, AsideNotAt DEF Tidy
      <3> QED
        BY <1>2, <1>5, <3>3, CalmResolved
    <2> QED
      BY <2>2, <2>3
  <1>6. CASE ~(Pending(n) /\ e \in finish) /\ animations' = animations /\ agenda' = Rest
    <2>1. QueuedOf(f)' = QueuedOf(f) /\ DelaysOf(f)' = DelaysOf(f)
      BY <1>2, <1>6, SameAnimations, StatesKeepQueued DEF DelaysOf, QueuesStill
    <2>2. /\ Dequeues(f)' <=> Dequeues(f)
          /\ Animates(f)' <=> Animates(f)
          /\ Finishes(f)' <=> Finishes(f)
      BY <1>3, <1>4, <1>6, ThingsSame
    <2>3. Finishes(f) => ~AtFinish(f)
      BY <1>1, <1>6 DEF AtFinish, Tidy, Progress, QueuedOf, Begun, Finishing
    <2>4. queue'[f] = queue[f] /\ hooks'[f] = hooks[f]
      BY <1>2 DEF QueuesStill
    <2>5. Single(f)' /\ Progress(f)'
      BY <1>2, <2>1, <2>2, <2>3, <2>4, SameQueue, TidyKept DEF Tidy
    <2>6. /\ Orderly(Rest, f, animations)
          /\ \A y \in Items(Rest) : Apart(Todo, y, f)
      BY <1>1, OrderlyRest DEF Tidy
    <2>7. Stopped(f)'
      BY <1>1, <1>6, <2>6 DEF Stopped, Apart
    <2> QED
      BY <1>6, <2>5, <2>6, <2>7 DEF Tidy
  <1> QED
    BY <1>1, <1>5, <1>6

LEMMA TickTimerTidy ==
  ASSUME Types, TickTimer, NEW f \in Elements, Tidy(f)
  PROVE  Tidy(f)'
  <1> PICK i : i = Todo.i
    OBVIOUS
  <1> PICK n : n = timers[i]
    OBVIOUS
  <1> PICK x : x = TickedDo(animations[n].e, n, i)
    OBVIOUS
  <1>1. /\ agenda # <<>> /\ Todo.op = "tick"
        /\ TimerStopped(i) \/ TimerGoesOn(i) \/ TimerEnds(i)
    BY TickTimerFacts
  <1>2. QueuesStill /\ finish' = finish
    BY DEF TickTimer, data, QueuesStill
  <1>3. AnimationsAge
    BY <1>1, KeepsAge DEF TimerStopped, TimerGoesOn, TimerEnds, StatesKeep, Settled
  <1>4. \A made : Aside(Todo, f, made)
    BY <1>1, AsideThings
  <1>5. CalmOf(Rest, f) /\ ~AtFinish(f)
    BY <1>1, <1>3, <1>4, CalmRest, AsideNotAt DEF Tidy
  <1>6. /\ \A j : CalmOf(Cons(TickAt(j), Rest), f)
        /\ CalmOf(Cons(x, Rest), f)
    <2>1. x.op = "ticked" /\ \A j : TickAt(j).op = "tick"
      BY SimpleThings
    <2> QED
      BY <1>5, <2>1, AsideThings, CalmCons
  <1>7. CASE TimerStopped(i) \/ TimerGoesOn(i)
    <2>1. StatesKeep /\ CalmOf(agenda', f)
      BY <1>6, <1>7 DEF TimerStopped, TimerGoesOn
    <2> QED
      BY <1>2, <1>5, <2>1, StatesKeepQueued, CalmTidy
  <1>8. CASE TimerEnds(i)
    <2>1. /\ Settled(n, "resolved")
          /\ \/ Pending(n) /\ AfterSettled(n, "resolved", Cons(x, Rest))
             \/ agenda' = Cons(x, Rest)
      BY <1>8 DEF TimerEnds
    <2>2. CASE Pending(n) /\ AfterSettled(n, "resolved", Cons(x, Rest))
      BY <1>2, <1>5, <1>6, <2>1, <2>2, CalmResolved
    <2>3. CASE agenda' = Cons(x, Rest)
      <3>1. QueuedOf(f)' \subseteq QueuedOf(f)
        BY <2>1, SettledQueued
      <3> QED
        BY <1>2, <1>5, <1>6, <2>3, <3>1, CalmTidy
    <2> QED
      BY <2>1, <2>2, <2>3
  <1> QED
    BY <1>1, <1>7, <1>8

LEMMA QuietTidy ==
  ASSUME Types, Ticked \/ TickEnds \/ Tick \/ Return, NEW f \in Elements, Tidy(f)
  PROVE  Tidy(f)'
  <1>1. QueuesStill /\ finish' = finish
    BY DEF Ticked, TickEnds, Tick, Return, data, clock, QueuesStill
  <1>2. StatesKeep
    <2>1. CASE Ticked \/ Tick \/ Return
      BY <2>1, SameAnimations DEF Ticked, Tick, Return
    <2>2. CASE TickEnds
      BY <2>2, TickEndsFacts
    <2> QED
      BY <2>1, <2>2
  <1>3. AnimationsAge /\ QueuedOf(f)' = QueuedOf(f)
    BY <1>2, KeepsAge, StatesKeepQueued DEF StatesKeep
  <1>4. \A j : TickAt(j).op = "tick"
    BY SimpleThings
  <1>5. CASE Ticked \/ TickEnds \/ Return
    <2>1. /\ agenda # <<>> /\ Todo.op \in {"ticked", "tick", "run"}
          /\ agenda' = Rest \/ \E j : agenda' = Cons(TickAt(j), Rest)
      <3>1. CASE Ticked
        BY <3>1, TickedFacts
      <3>2. CASE TickEnds
        BY <3>2, TickEndsFacts
      <3>3. CASE Return
        BY <3>3 DEF Return, IsNext
      <3> QED
        BY <1>5, <3>1, <3>2, <3>3
    <2>2. \A made : Aside(Todo, f, made)
      BY <2>1, AsideThings
    <2>3. CalmOf(Rest, f) /\ ~AtFinish(f)
      BY <1>3, <2>1, <2>2, CalmRest, AsideNotAt DEF Tidy
    <2>4. \A j : CalmOf(Cons(TickAt(j), Rest), f)
      BY <1>4, <2>3, AsideThings, CalmCons
    <2>5. CalmOf(agenda', f)
      BY <2>1, <2>3, <2>4
    <2> QED
      BY <1>1, <1>3, <2>3, <2>5, CalmTidy
  <1>6. CASE Tick
    <2>1. agenda = <<>> /\ agenda' = Cons(TickAt(1), agenda)
      BY <1>6, TickFacts
    <2>2. CalmOf(agenda, f) /\ ~AtFinish(f)
      BY <1>3, <2>1, CalmAgenda, AsideNotAt DEF Tidy
    <2>3. CalmOf(agenda', f)
      BY <1>4, <2>1, <2>2, AsideThings, CalmCons
    <2> QED
      BY <1>1, <1>3, <2>2, <2>3, CalmTidy
  <1> QED
    BY <1>5, <1>6

LEMMA TimeoutTidy ==
  ASSUME Types, TimeoutFires, NEW f \in Elements, Tidy(f)
  PROVE  Tidy(f)'
  <1>1. agenda = <<>>
    BY TimeoutFacts
  <1>2. PICK e \in Elements, t \in timeouts :
          /\ t[2] = e /\ t \in DelaysOf(e) /\ timeouts' = timeouts \ {t}
          /\ agenda' = Cons(DequeueDo(e), agenda)
    BY TimeoutFacts
  <1>3. /\ queue' = queue /\ hooks' = hooks /\ finish' = finish /\ animations' = animations
    BY DEF TimeoutFires, data
  <1>4. AnimationsAge /\ QueuedOf(f)' = QueuedOf(f)
    BY <1>3, SameAnimations, StatesKeepQueued DEF AnimationsAge
  <1>5. CalmOf(agenda, f) /\ ~AtFinish(f)
    BY <1>1, <1>4, CalmAgenda, AsideNotAt DEF Tidy
  <1>6. Items(agenda) = {}
    BY <1>1, ShortIsSeq
  <1>7. CASE f # e
    <2>1. DequeueDo(e).e # f
      BY <1>7, SimpleThings
    <2>2. CalmOf(agenda', f)
      BY <1>2, <1>5, <2>1, AsideThings, CalmCons
    <2>3. DelaysOf(f)' \subseteq DelaysOf(f)
      BY <1>2 DEF DelaysOf
    <2> QED
      BY <1>3, <1>4, <1>5, <2>2, <2>3, SameQueue, TidyCalm
  <1>8. CASE f = e
    <2>1. QueuedOf(f) = {} /\ \A s \in DelaysOf(f) : s = t
      BY <1>2, <1>8 DEF Tidy, Single
    <2>2. DelaysOf(f)' = {}
      BY <1>2, <2>1 DEF DelaysOf
    <2>3. Bare(agenda, f) /\ FinishRight(agenda, f) /\ Orderly(agenda, f, animations')
      BY <1>5, <1>6 DEF Bare, FinishRight, CalmOf
    <2> QED
      BY <1>2, <1>4, <1>8, <2>1, <2>2, <2>3, DequeuePushed
  <1> QED
    BY <1>7, <1>8

\* A loop of stop() or finish() of f, at its next step y.
LEMMA LoopRest ==
  ASSUME Types, AnimationsAge, NEW f, Orderly(agenda, f, animations), agenda # <<>>,
         Todo.op \in {"stop", "halt", "splice"}
  PROVE  /\ IsSeq(Rest) /\ Items(agenda) = {Todo} \cup Items(Rest)
         /\ Orderly(Rest, f, animations')
         /\ \A z \in Items(Rest) : Apart(Todo, z, f) /\ ~(Stopping(z) /\ z.e = f)
         /\ Rest # <<>> => ~Trails(Rest[1], f, animations')
  <1>1. /\ IsSeq(Rest) /\ Orderly(Rest, f, animations')
        /\ \A z \in Items(Rest) : Apart(Todo, z, f)
        /\ Rest # <<>> /\ Trails(Rest[1], f, animations') => Leads(Todo, f, animations')
    BY AgendaOrderly, OrderlyRest
  <1>2. ~Leads(Todo, f, animations')
    BY DEF Leads, Begins, Ends
  <1>3. \A z \in Items(Rest) : ~(Stopping(z) /\ z.e = f)
    BY <1>1 DEF Apart
  <1> QED
    BY <1>1, <1>2, <1>3, RestFacts

LEMMA LoopOrderly ==
  ASSUME Types, AnimationsAge, NEW f, Orderly(agenda, f, animations), agenda # <<>>,
         Todo.op \in {"stop", "halt", "splice"}, Todo.e = f,
         NEW y, y.e = f, y.op \in {"halt", "splice"}, Finishing(y) => Finishing(Todo)
  PROVE  /\ IsSeq(Cons(y, Rest)) /\ Items(Cons(y, Rest)) = {y} \cup Items(Rest)
         /\ Cons(y, Rest)[1] = y
         /\ Orderly(Cons(y, Rest), f, animations')
  <1>1. /\ IsSeq(Rest) /\ Orderly(Rest, f, animations')
        /\ \A z \in Items(Rest) : Apart(Todo, z, f) /\ ~(Stopping(z) /\ z.e = f)
        /\ Rest # <<>> => ~Trails(Rest[1], f, animations')
    BY LoopRest
  <1>2. \A z \in Items(Rest) : Apart(y, z, f)
    BY <1>1 DEF Apart
  <1>3. Orderly(Cons(y, Rest), f, animations')
    BY <1>1, <1>2, OrderlyCons
  <1> QED
    BY <1>1, <1>3, ConsFacts

LEMMA LoopKept ==
  ASSUME NEW f, Tidy(f), agenda # <<>>, Todo.e = f, Todo.op \in {"stop", "halt", "splice"},
         Items(agenda) = {Todo} \cup Items(Rest),
         \A z \in Items(Rest) : ~(Stopping(z) /\ z.e = f),
         NEW y, y.e = f, y.op \in {"halt", "splice"}, Finishing(y) <=> Finishing(Todo),
         y \in Items(agenda'), Items(Rest) \subseteq Items(agenda'),
         \A z \in Items(agenda') : z = y \/ z \in Items(Rest) \/ z.op \in {"run", "unqueue"},
         Stopping(y) => Stopping(Todo) /\ DelaysOf(f)' = {} /\ Past(f, y.i)',
         Orderly(agenda', f, animations'),
         QueuedOf(f)' \subseteq QueuedOf(f), DelaysOf(f)' \subseteq DelaysOf(f),
         InProgress(f) => InProgress(f)', queue[f] = <<>> => queue'[f] = <<>>,
         DelaysOf(f)' # {} => HooksOf(f)'.stop = HooksOf(f).stop,
         finish' = finish, Finishes(f) /\ AtFinish(f) => QueuedOf(f)' = {} \/ AtFinish(f)'
  PROVE  Tidy(f)'
  <1>1. ~Begins(y) /\ \A z : z.op \in {"run", "unqueue"} => ~Mover(z, f)
    BY DEF Begins, Mover, Finishing, Stopping
  <1>2. (Dequeues(f)' => Dequeues(f)) /\ (Animates(f)' => Animates(f))
    BY <1>1 DEF Dequeues, Animates, Mover
  <1>3. Finishes(f)' <=> Finishes(f)
    BY <1>1 DEF Finishes, Mover
  <1>4. Single(f)' /\ Progress(f)'
    BY <1>2, <1>3, TidyKept DEF Tidy
  <1>5. ASSUME NEW z \in Items(agenda'), Stopping(z), z.e = f
        PROVE  ~Dequeues(f)' /\ (z.op # "stop" => DelaysOf(f)' = {} /\ Past(f, z.i)')
    <2>1. z = y
      BY <1>1, <1>5 DEF Mover
    <2>2. ~Dequeues(f)
      BY <1>5, <2>1 DEF Tidy, Stopped
    <2> QED
      BY <1>2, <1>5, <2>1, <2>2
  <1>6. Stopped(f)'
    BY <1>5 DEF Stopped
  <1> QED
    BY <1>4, <1>6 DEF Tidy

LEMMA StopBeginsTidy ==
  ASSUME Types, StopBegins, NEW f \in Elements, Tidy(f)
  PROVE  Tidy(f)'
  <1> PICK e : e = Todo.e
    OBVIOUS
  <1>1. /\ e \in Elements /\ agenda # <<>> /\ Todo.op = "stop" /\ Todo.how \in {"rejected", "resolved"}
        /\ \A g \in Elements \ {e} : hooks'[g] = hooks[g]
        /\ timeouts' = timeouts \ Mine(e)
        /\ \/ hooks[e] = <<>> /\ hooks'[e] = <<>>
           \/ hooks[e] # <<>> /\ \E h \in Hooks : hooks'[e] = <<h>>
    BY StopBeginsFacts
  <1>2. PICK items : agenda' = Cons(HaltAt(e, Len(timers), Todo.how, items), Rest)
    BY StopBeginsFacts
  <1> PICK y : y = HaltAt(e, Len(timers), Todo.how, items)
    OBVIOUS
  <1>3. y.op = "halt" /\ y.e = e /\ y.how = Todo.how /\ y.i = Len(timers)
    BY HaltThings
  <1>4. queue' = queue /\ animations' = animations /\ finish' = finish /\ timers' = timers
    BY DEF StopBegins
  <1>5. QueuedOf(f)' = QueuedOf(f) /\ AnimationsAge
    BY <1>4, SameAnimations, StatesKeepQueued DEF AnimationsAge
  <1>6. DelaysOf(f)' \subseteq DelaysOf(f)
    BY <1>1 DEF DelaysOf
  <1>7. CASE f # e
    <2>1. Aside(Todo, f, animations) /\ Aside(Todo, f, animations') /\ Aside(y, f, animations')
      BY <1>3, <1>7, AsideThings
    <2>2. ~AtFinish(f)
      BY <2>1, AsideNotAt
    <2>3. CalmOf(Rest, f)
      BY <1>1, <1>5, <2>1, CalmRest DEF Tidy
    <2>4. CalmOf(agenda', f)
      BY <1>2, <2>1, <2>3, CalmCons
    <2>5. queue'[f] = queue[f] /\ hooks'[f] = hooks[f]
      BY <1>1, <1>4, <1>7
    <2> QED
      BY <1>4, <1>5, <1>6, <2>2, <2>4, <2>5, SameQueue, TidyCalm
  <1>8. CASE f = e
    <2>1. DelaysOf(f)' = {}
      <3>1. ASSUME NEW t \in DelaysOf(f) PROVE t \in Mine(f)
        <4>1. hooks[f] # <<>> /\ t[1] = HooksOf(f).stop /\ t \in timeouts
          BY <3>1 DEF Tidy, Single, DelaysOf
        <4> QED
          BY <4>1 DEF Mine, HooksOf
      <3> QED
        BY <1>1, <1>6, <1>8, <3>1 DEF DelaysOf
    <2>2. InProgress(f) => InProgress(f)'
      BY <1>1, <1>4, <1>8, HooksAfter DEF InProgress
    <2>3. ~Finishing(y) /\ ~Finishing(Todo) /\ Stopping(Todo)
      BY <1>1, <1>3 DEF Finishing, Stopping
    <2>4. ~AtFinish(f)
      BY <1>1, <2>3 DEF AtFinish
    <2>5. Past(f, y.i)'
      <3>1. Len(timers) \in Nat
        BY IsSeqFacts DEF Types
      <3> QED
        BY <1>3, <1>4, <3>1 DEF Past
    <2>6. /\ IsSeq(Rest) /\ Items(agenda) = {Todo} \cup Items(Rest)
          /\ \A z \in Items(Rest) : ~(Stopping(z) /\ z.e = f)
      BY <1>1, <1>5, LoopRest DEF Tidy
    <2>7. /\ Items(agenda') = {y} \cup Items(Rest)
          /\ Orderly(agenda', f, animations')
      BY <1>1, <1>2, <1>3, <1>5, <1>8, <2>3, LoopOrderly DEF Tidy
    <2>8. queue'[f] = queue[f]
      BY <1>4
    <2> QED
      BY <1>1, <1>3, <1>4, <1>5, <1>6, <1>8, <2>1, <2>2, <2>3, <2>4, <2>5, <2>6, <2>7, <2>8, LoopKept
  <1> QED
    BY <1>7, <1>8

\* What settling an animation puts before a list moves a queue on only if the animation
\* was of it.
LEMMA SettledUnqueued ==
  ASSUME NEW f, NEW s, IsSeq(s), Orderly(s, f, animations'), s # <<>> => ~Trails(s[1], f, animations'),
         NEW n, NEW how, AfterSettled(n, how, s), ~animations[n].queued,
         how = "rejected" \/ \A x \in Items(s) : ~(Stopping(x) /\ x.e = f)
  PROVE  /\ Orderly(agenda', f, animations') /\ Items(s) \subseteq Items(agenda')
         /\ \A z \in Items(agenda') : z \in Items(s) \/ z.op \in {"run", "unqueue"}
  <1> PICK e : e = animations[n].e
    OBVIOUS
  <1> PICK x : x = UnqueueDo(e, n)
    OBVIOUS
  <1> PICK z : z = Run(e)
    OBVIOUS
  <1> PICK c : c = Cons(x, s)
    OBVIOUS
  <1> PICK d : d = Cons(z, c)
    OBVIOUS
  <1>1. /\ x.op = "unqueue" /\ z.op = "run"
    BY SimpleThings
  <1>2. ~Mover(x, f) /\ ~Mover(z, f) /\ ~Ends(x, animations')
    BY <1>1 DEF Mover, Finishing, Stopping, Begins, Ends
  <1>3. /\ IsSeq(c) /\ Items(c) = {x} \cup Items(s) /\ c[1] = x
    BY ConsIs
  <1>4. Items(d) = {z} \cup Items(c)
    BY <1>3, ConsIs
  <1>5. Orderly(c, f, animations')
    <2>1. \A y \in Items(s) : Apart(x, y, f)
      BY <1>1, <1>2 DEF Apart, Mover
    <2> QED
      BY <2>1, OrderlyCons
  <1>6. CASE how = "rejected"
    <2>1. agenda' = c
      BY <1>6 DEF AfterSettled
    <2> QED
      BY <1>1, <1>3, <1>5, <2>1
  <1>7. CASE how # "rejected" /\ how # "resolved"
    <2>1. agenda' = c
      BY <1>7 DEF AfterSettled
    <2> QED
      BY <1>1, <1>3, <1>5, <2>1
  <1>8. CASE how = "resolved"
    <2>1. agenda' = d
      BY <1>8 DEF AfterSettled
    <2>2. \A y \in Items(c) : Apart(z, y, f)
      BY <1>2, <1>3, <1>8 DEF Apart, Mover
    <2>3. ~Trails(c[1], f, animations')
      BY <1>2, <1>3 DEF Trails, Mover
    <2>4. Orderly(d, f, animations')
      BY <1>3, <1>5, <2>2, <2>3, OrderlyCons
    <2> QED
      BY <1>1, <1>3, <1>4, <2>1, <2>4
  <1> QED
    BY <1>6, <1>7, <1>8

LEMMA AtFinishNext ==
  ASSUME NEW f, NEW s, IsSeq(s), NEW y, agenda' = Cons(y, s), y.e = f, Finishing(y), Past(f, y.i)'
  PROVE  AtFinish(f)'
  <1>1. agenda' # <<>> /\ Head(agenda') = y
    BY ConsIs
  <1> QED
    BY <1>1 DEF AtFinish, Todo

\* A loop passes on, or ends an animation, that has nothing to do with the queue of f.
LEMMA HaltAsideTidy ==
  ASSUME Types, HaltTimer, ~fate'.wronged, NEW f \in Elements, Tidy(f), ~Mover(Todo, f)
  PROVE  Tidy(f)'
  <1> PICK x : x = Todo
    OBVIOUS
  <1> PICK i : i = Todo.i
    OBVIOUS
  <1>1. /\ agenda # <<>> /\ x.op = "halt" /\ x.e \in Elements /\ i > 0
        /\ HaltPasses(x, i) \/ \E n, how : HaltStops(x, i, n, how)
    BY HaltTimerFacts DEF HaltFails
  <1>2. QueuesStill /\ finish' = finish
    BY DEF HaltTimer, data, clock, QueuesStill
  <1>3. x.e # f \/ (x.how = "resolved" /\ x.a # 0)
    <2>1. x.how \in {"rejected", "resolved", "finish"}
      BY <1>1, LoopOK
    <2> QED
      BY <1>1, <2>1 DEF Mover, Finishing, Stopping
  <1>4. ~Ends(x, animations) /\ ~Ends(x, animations')
    BY <1>1 DEF Ends
  <1>5. Aside(x, f, animations) /\ Aside(x, f, animations')
    BY <1>4 DEF Aside
  <1>6. ~AtFinish(f)
    BY <1>5, AsideNotAt
  <1>7. ASSUME NEW y, y.e = x.e, y.op \in {"halt", "splice"}, y.how = x.how, x.a # 0 => y.a # 0
        PROVE  Aside(y, f, animations')
    BY <1>3, <1>7 DEF Aside, Mover, Finishing, Stopping, Begins, Ends
  <1>8. CASE HaltPasses(x, i)
    <2> PICK y : y = Do("halt", x.e, x.a, i - 1, x.how, x.items)
      OBVIOUS
    <2>1. y.op = "halt" /\ y.e = x.e /\ y.how = x.how /\ y.a = x.a
      BY DoFields
    <2>2. animations' = animations /\ agenda' = Cons(y, Rest)
      BY <1>8 DEF HaltPasses
    <2>3. AnimationsAge /\ QueuedOf(f)' = QueuedOf(f)
      BY <2>2, SameAnimations, StatesKeepQueued DEF AnimationsAge
    <2>4. CalmOf(Rest, f)
      BY <1>1, <1>5, <2>3, CalmRest DEF Tidy
    <2>5. CalmOf(agenda', f)
      BY <1>7, <2>1, <2>2, <2>4, CalmCons
    <2> QED
      BY <1>2, <1>6, <2>3, <2>5, CalmTidy
  <1>9. ASSUME NEW n, NEW how, HaltStops(x, i, n, how) PROVE Tidy(f)'
    <2> PICK y : y = Do("splice", x.e, n, i, x.how, x.items)
      OBVIOUS
    <2>1. y.op = "splice" /\ y.e = x.e /\ y.how = x.how /\ y.a = n
      BY DoFields
    <2> PICK s : s = Cons(y, Rest)
      OBVIOUS
    <2>2. /\ animations[n].e = x.e /\ Pending(n) /\ Settled(n, how) /\ AfterSettled(n, how, s)
          /\ how = IF x.how = "rejected" THEN "rejected" ELSE "resolved"
          /\ n \in DOMAIN animations
      BY <1>9 DEF HaltStops
    <2>3. AnimationsAge
      BY <2>2, KeepsAge DEF Settled
    <2>4. n # 0
      BY <2>2, IsSeqFacts DEF Types
    <2>5. CalmOf(Rest, f)
      BY <1>1, <1>5, <2>3, CalmRest DEF Tidy
    <2>6. CalmOf(s, f)
      BY <1>7, <2>1, <2>4, <2>5, CalmCons
    <2>7. CASE how = "resolved"
      BY <1>2, <1>6, <2>2, <2>6, <2>7, CalmResolved
    <2>8. CASE how = "rejected"
      <3>1. x.e # f
        BY <1>3, <2>2, <2>8
      <3>2. QueuedOf(f)' \subseteq QueuedOf(f)
        BY <2>2, <2>8, SettledQueued
      <3>3. CalmOf(agenda', f)
        BY <2>2, <2>6, <3>1, CalmSettled
      <3> QED
        BY <1>2, <1>6, <3>2, <3>3, CalmTidy
    <2> QED
      BY <2>2, <2>7, <2>8
  <1> QED
    BY <1>1, <1>8, <1>9

LEMMA HaltPassesTidy ==
  ASSUME Types, HaltTimer, NEW f \in Elements, Tidy(f), Mover(Todo, f), HaltPasses(Todo, Todo.i)
  PROVE  Tidy(f)'
  <1> PICK x : x = Todo
    OBVIOUS
  <1> PICK i : i = Todo.i
    OBVIOUS
  <1> PICK y : y = Do("halt", x.e, x.a, i - 1, x.how, x.items)
    OBVIOUS
  <1>1. agenda # <<>> /\ x.op = "halt" /\ i > 0 /\ x.e = f
    BY HaltTimerFacts DEF Mover
  <1>2. y.op = "halt" /\ y.e = x.e /\ y.how = x.how /\ y.a = x.a /\ y.i = i - 1
    BY DoFields
  <1>3. /\ i \in 1..Len(timers) /\ animations' = animations /\ agenda' = Cons(y, Rest)
        /\ ~(/\ animations[timers[i]].e = f /\ Pending(timers[i])
             /\ (x.how = "finish" => animations[timers[i]].queued))
    BY <1>1 DEF HaltPasses
  <1>4. QueuesStill /\ finish' = finish /\ timers' = timers
    BY DEF HaltTimer, data, clock, QueuesStill
  <1>5. AnimationsAge /\ QueuedOf(f)' = QueuedOf(f) /\ DelaysOf(f)' = DelaysOf(f)
    BY <1>3, <1>4, SameAnimations, StatesKeepQueued DEF AnimationsAge, QueuesStill, DelaysOf
  <1>6. (Finishing(y) <=> Finishing(x)) /\ (Stopping(y) <=> Stopping(x))
    BY <1>1, <1>2 DEF Finishing, Stopping
  <1>7. timers[i] \notin QueuedOf(f)
    BY <1>3 DEF QueuedOf, Begun
  <1>8. Past(f, i) => Past(f, y.i)'
    <2> SUFFICES ASSUME Past(f, i), NEW j \in 1..Len(timers), j > i - 1 PROVE timers[j] \notin QueuedOf(f)
      BY <1>2, <1>4, <1>5 DEF Past
    <2>1. j = i \/ j > i
      BY <1>3
    <2> QED
      BY <1>7, <2>1 DEF Past
  <1>9. /\ IsSeq(Rest) /\ Items(agenda) = {Todo} \cup Items(Rest)
        /\ \A z \in Items(Rest) : ~(Stopping(z) /\ z.e = f)
    BY <1>1, <1>5, LoopRest DEF Tidy
  <1>10. /\ Items(agenda') = {y} \cup Items(Rest)
         /\ Orderly(agenda', f, animations')
    BY <1>1, <1>2, <1>3, <1>5, <1>6, LoopOrderly DEF Tidy
  <1>11. Stopping(y) => Stopping(Todo) /\ DelaysOf(f)' = {} /\ Past(f, y.i)'
    BY <1>1, <1>5, <1>6, <1>8, <1>9 DEF Tidy, Stopped
  <1>12. Finishes(f) /\ AtFinish(f) => AtFinish(f)'
    <2> SUFFICES ASSUME AtFinish(f) PROVE AtFinish(f)'
      OBVIOUS
    <2>1. Finishing(y) /\ Past(f, i)
      BY <1>1, <1>6 DEF AtFinish
    <2> QED
      BY <1>1, <1>2, <1>3, <1>8, <1>9, <2>1, AtFinishNext
  <1>13. queue'[f] = queue[f] /\ hooks'[f] = hooks[f]
    BY <1>4 DEF QueuesStill
  <1>14. /\ InProgress(f) => InProgress(f)'
         /\ queue[f] = <<>> => queue'[f] = <<>>
         /\ HooksOf(f)'.stop = HooksOf(f).stop
    BY <1>13, SameQueue
  <1> QED
    BY <1>1, <1>2, <1>4, <1>5, <1>6, <1>9, <1>10, <1>11, <1>12, <1>14, LoopKept

LEMMA HaltStopsTidy ==
  ASSUME Types, HaltTimer, NEW f \in Elements, Tidy(f), Mover(Todo, f),
         NEW n, NEW how, HaltStops(Todo, Todo.i, n, how)
  PROVE  Tidy(f)'
  <1> PICK x : x = Todo
    OBVIOUS
  <1> PICK i : i = Todo.i
    OBVIOUS
  <1> PICK y : y = Do("splice", x.e, n, i, x.how, x.items)
    OBVIOUS
  <1> PICK s : s = Cons(y, Rest)
    OBVIOUS
  <1>1. agenda # <<>> /\ x.op = "halt" /\ i > 0 /\ x.e = f
    BY HaltTimerFacts DEF Mover
  <1>2. y.op = "splice" /\ y.e = f /\ y.how = x.how /\ y.a = n /\ y.i = i
    BY <1>1, DoFields
  <1>3. /\ n \in DOMAIN animations /\ animations[n].e = f /\ Pending(n)
        /\ (x.how = "finish" => animations[n].queued)
        /\ Settled(n, how) /\ AfterSettled(n, how, s)
        /\ how = IF x.how = "rejected" THEN "rejected" ELSE "resolved"
    BY <1>1 DEF HaltStops
  <1>4. QueuesStill /\ finish' = finish /\ timers' = timers
    BY DEF HaltTimer, data, clock, QueuesStill
  <1>5. AnimationsAge /\ DelaysOf(f)' = DelaysOf(f)
    BY <1>3, <1>4, KeepsAge DEF Settled, QueuesStill, DelaysOf
  <1>6. QueuedOf(f)' = QueuedOf(f) \ {n}
    BY <1>3, SettledQueued
  <1>7. n # 0
    BY <1>3, IsSeqFacts DEF Types
  <1>8. x.how \in {"rejected", "resolved", "finish"}
    BY <1>1, LoopOK
  <1>9. /\ Finishing(y) <=> Finishing(x)
        /\ Stopping(y) <=> how = "rejected"
        /\ Stopping(y) => Stopping(x)
    BY <1>1, <1>2, <1>3, <1>7, <1>8 DEF Finishing, Stopping
  <1>10. /\ IsSeq(Rest) /\ Items(agenda) = {Todo} \cup Items(Rest)
         /\ \A z \in Items(Rest) : ~(Stopping(z) /\ z.e = f)
    BY <1>1, <1>5, LoopRest DEF Tidy
  <1>11. /\ IsSeq(s) /\ Items(s) = {y} \cup Items(Rest) /\ s[1] = y
         /\ Orderly(s, f, animations')
    BY <1>1, <1>2, <1>5, <1>9, LoopOrderly DEF Tidy
  <1>12. Stopping(x) => ~Dequeues(f) /\ DelaysOf(f) = {} /\ Past(f, i)
    BY <1>1, <1>10 DEF Tidy, Stopped
  <1>13. CASE animations[n].queued
    <2>1. n \in QueuedOf(f)
      BY <1>3, <1>13 DEF QueuedOf, Begun
    <2>2. Going(f) /\ ~Dequeues(f) /\ ~Animates(f)
      BY <2>1 DEF Tidy, Single, Going
    <2>3. y.op # "dequeue" /\ ~Begins(y)
      BY <1>2 DEF Begins
    <2>4. FinishRight(s, f)
      <3> SUFFICES ASSUME NEW z \in Items(s), Finishing(z), z.e = f PROVE queue'[f] = <<>> /\ f \in finish'
        BY DEF FinishRight
      <3>1. Finishes(f)
        BY <1>1, <1>9, <1>10, <1>11 DEF Finishes
      <3> QED
        BY <1>4, <3>1 DEF Tidy, Progress, QueuesStill
    <2>5. CASE how = "resolved"
      <3>1. Bare(s, f)
        BY <1>9, <1>10, <1>11, <2>2, <2>3, <2>5 DEF Bare, Dequeues, Animates
      <3> QED
        BY <1>3, <1>4, <1>11, <2>1, <2>4, <2>5, <3>1, SettledResolved DEF Tidy, QueuesStill
    <2>6. CASE how = "rejected"
      <3>1. agenda' = s
        BY <1>3, <1>13, <2>6 DEF AfterSettled
      <3>2. QueuedOf(f)' = {}
        BY <1>6, <2>1 DEF Tidy, Single
      <3>3. DelaysOf(f)' = {} /\ ~Dequeues(f)' /\ ~Animates(f)'
        BY <1>5, <1>9, <1>10, <1>11, <1>12, <2>2, <2>3, <2>6, <3>1 DEF Dequeues, Animates
      <3>4. Stopped(f)'
        BY <3>2, <3>3 DEF Stopped, Past
      <3>5. Finishes(f)' => queue'[f] = <<>> /\ f \in finish'
        BY <2>4, <3>1 DEF Finishes, FinishRight
      <3> QED
        BY <1>11, <3>1, <3>2, <3>3, <3>4, <3>5, TidyResting
    <2> QED
      BY <1>3, <2>5, <2>6
  <1>14. CASE ~animations[n].queued
    <2>1. ~Finishing(x) /\ ~Finishing(y)
      BY <1>3, <1>9, <1>14 DEF Finishing
    <2>2. ~AtFinish(f)
      BY <1>1, <2>1 DEF AtFinish
    <2>3. QueuedOf(f)' = QueuedOf(f)
      BY <1>6, <1>14 DEF QueuedOf
    <2>4. ~Trails(s[1], f, animations')
      BY <1>2, <1>11, <2>1 DEF Trails, Ends
    <2>5. how = "rejected" \/ \A z \in Items(s) : ~(Stopping(z) /\ z.e = f)
      BY <1>9, <1>10, <1>11
    <2>6. /\ Orderly(agenda', f, animations') /\ Items(s) \subseteq Items(agenda')
          /\ \A z \in Items(agenda') : z \in Items(s) \/ z.op \in {"run", "unqueue"}
      BY <1>3, <1>11, <1>14, <2>4, <2>5, SettledUnqueued
    <2>7. Stopping(y) => Stopping(Todo) /\ DelaysOf(f)' = {} /\ Past(f, y.i)'
      BY <1>2, <1>4, <1>5, <1>9, <1>12, <2>3 DEF Past
    <2>8. queue'[f] = queue[f] /\ hooks'[f] = hooks[f]
      BY <1>4 DEF QueuesStill
    <2>9. /\ InProgress(f) => InProgress(f)'
          /\ queue[f] = <<>> => queue'[f] = <<>>
          /\ HooksOf(f)'.stop = HooksOf(f).stop
      BY <2>8, SameQueue
    <2>10. /\ y \in Items(agenda') /\ Items(Rest) \subseteq Items(agenda')
           /\ \A z \in Items(agenda') : z = y \/ z \in Items(Rest) \/ z.op \in {"run", "unqueue"}
      BY <1>11, <2>6
    <2> QED
      BY <1>1, <1>2, <1>4, <1>5, <1>9, <1>10, <2>2, <2>3, <2>6, <2>7, <2>9, <2>10, LoopKept
  <1> QED
    BY <1>13, <1>14

LEMMA HaltTimerTidy ==
  ASSUME Types, HaltTimer, ~fate'.wronged, NEW f \in Elements, Tidy(f)
  PROVE  Tidy(f)'
  <1>1. HaltPasses(Todo, Todo.i) \/ \E n, how : HaltStops(Todo, Todo.i, n, how)
    BY HaltTimerFacts DEF HaltFails
  <1> QED
    BY <1>1, HaltAsideTidy, HaltPassesTidy, HaltStopsTidy

\* The list without a timer at place i.
LEMMA PastSpliced ==
  ASSUME Types, NEW f, NEW i \in Nat \ {0}, QueuedOf(f)' = QueuedOf(f), Past(f, i),
         \/ i \in 1..Len(timers) /\ timers' = RemoveAt(timers, i)
         \/ i > Len(timers) /\ timers' = timers
  PROVE  \A k : k = i - 1 => Past(f, k)'
  <1>1. IsSeq(timers) /\ Len(timers) \in Nat
    BY IsSeqFacts DEF Types
  <1> SUFFICES ASSUME NEW j \in 1..Len(timers'), j > i - 1 PROVE timers'[j] \notin QueuedOf(f)
    BY DEF Past
  <1>2. CASE i \in 1..Len(timers) /\ timers' = RemoveAt(timers, i)
    <2>1. /\ Len(timers') = Len(timers) - 1
          /\ timers'[j] = IF j < i THEN timers[j] ELSE timers[j + 1]
      BY <1>1, <1>2, Removed
    <2>2. j + 1 \in 1..Len(timers) /\ j + 1 > i /\ ~(j < i)
      BY <1>1, <1>2, <2>1
    <2> QED
      BY <2>1, <2>2 DEF Past
  <1>3. CASE i > Len(timers) /\ timers' = timers
    <2>1. FALSE
      BY <1>1, <1>3
    <2> QED
      BY <2>1
  <1> QED
    BY <1>2, <1>3

LEMMA SpliceTidy ==
  ASSUME Types, Splice, NEW f \in Elements, Tidy(f)
  PROVE  Tidy(f)'
  <1> PICK x : x = Todo
    OBVIOUS
  <1> PICK i : i = Todo.i
    OBVIOUS
  <1> PICK y : y = Do("halt", x.e, x.a, i - 1, x.how, x.items)
    OBVIOUS
  <1>1. /\ agenda # <<>> /\ x.op = "splice" /\ i \in Nat \ {0}
        /\ agenda' = Cons(y, Rest)
        /\ \/ i \in 1..Len(timers) /\ timers' = RemoveAt(timers, i)
           \/ i > Len(timers) /\ timers' = timers
    BY SpliceFacts
  <1>2. y.op = "halt" /\ y.e = x.e /\ y.how = x.how /\ y.a = x.a /\ y.i = i - 1
    BY DoFields
  <1>3. QueuesStill /\ finish' = finish /\ animations' = animations
    BY DEF Splice, data, QueuesStill
  <1>4. AnimationsAge /\ QueuedOf(f)' = QueuedOf(f) /\ DelaysOf(f)' = DelaysOf(f)
    BY <1>3, SameAnimations, StatesKeepQueued DEF AnimationsAge, QueuesStill, DelaysOf
  <1>5. (Finishing(y) <=> Finishing(x)) /\ (Stopping(y) <=> Stopping(x))
    BY <1>1, <1>2 DEF Finishing, Stopping
  <1>6. CASE ~Mover(x, f)
    <2>1. Aside(x, f, animations) /\ Aside(x, f, animations')
      BY <1>1, <1>6 DEF Aside, Ends
    <2>2. ~AtFinish(f)
      BY <2>1, AsideNotAt
    <2>3. CalmOf(Rest, f)
      BY <1>1, <1>4, <2>1, CalmRest DEF Tidy
    <2>4. Aside(y, f, animations')
      BY <1>1, <1>2, <1>5, <1>6 DEF Aside, Mover, Begins, Ends
    <2>5. CalmOf(agenda', f)
      BY <1>1, <2>3, <2>4, CalmCons
    <2> QED
      BY <1>3, <1>4, <2>2, <2>5, CalmTidy
  <1>7. CASE Mover(x, f)
    <2>1. x.e = f
      BY <1>7 DEF Mover
    <2>2. Past(f, i) => Past(f, y.i)'
      BY <1>1, <1>2, <1>4, PastSpliced
    <2>3. /\ IsSeq(Rest) /\ Items(agenda) = {Todo} \cup Items(Rest)
          /\ \A z \in Items(Rest) : ~(Stopping(z) /\ z.e = f)
      BY <1>1, <1>4, LoopRest DEF Tidy
    <2>4. /\ Items(agenda') = {y} \cup Items(Rest)
          /\ Orderly(agenda', f, animations')
      BY <1>1, <1>2, <1>4, <1>5, <2>1, LoopOrderly DEF Tidy
    <2>5. Stopping(y) => Stopping(Todo) /\ DelaysOf(f)' = {} /\ Past(f, y.i)'
      BY <1>1, <1>4, <1>5, <2>1, <2>2, <2>3 DEF Tidy, Stopped
    <2>6. Finishes(f) /\ AtFinish(f) => AtFinish(f)'
      <3> SUFFICES ASSUME AtFinish(f) PROVE AtFinish(f)'
        OBVIOUS
      <3>1. Finishing(y) /\ Past(f, i)
        BY <1>1, <1>5 DEF AtFinish
      <3> QED
        BY <1>1, <1>2, <2>1, <2>2, <2>3, <3>1, AtFinishNext
    <2>7. queue'[f] = queue[f] /\ hooks'[f] = hooks[f]
      BY <1>3 DEF QueuesStill
    <2>8. /\ InProgress(f) => InProgress(f)'
          /\ queue[f] = <<>> => queue'[f] = <<>>
          /\ HooksOf(f)'.stop = HooksOf(f).stop
      BY <2>7, SameQueue
    <2> QED
      BY <1>1, <1>2, <1>3, <1>4, <1>5, <2>1, <2>3, <2>4, <2>5, <2>6, <2>8, LoopKept
  <1> QED
    BY <1>6, <1>7

\* A loop that has come to the end of the list has left no animation of the queue.
LEMMA PastAll ==
  ASSUME Types, Timed, NEW f, Past(f, 0)
  PROVE  QueuedOf(f) = {}
  <1> SUFFICES ASSUME NEW n \in QueuedOf(f) PROVE FALSE
    OBVIOUS
  <1>1. n \in Items(timers)
    BY DEF QueuedOf, Begun, Timed
  <1>2. PICK j \in 1..Len(timers) : timers[j] = n
    BY <1>1 DEF Items
  <1>3. j > 0
    OBVIOUS
  <1> QED
    BY <1>2, <1>3 DEF Past

LEMMA StopEndsTidy ==
  ASSUME Types, Timed, FirstOnly, StopEnds, NEW f \in Elements, Tidy(f)
  PROVE  Tidy(f)'
  <1> PICK x : x = Todo
    OBVIOUS
  <1>1. /\ agenda # <<>> /\ x.op = "halt" /\ x.i = 0 /\ x.how \in {"rejected", "resolved"}
        /\ \/ /\ x.a = 0 \/ x.how = "rejected"
              /\ agenda' = Cons(DequeueDo(x.e), Rest)
           \/ x.a # 0 /\ x.how = "resolved" /\ agenda' = Rest
    BY StopEndsFacts
  <1>2. QueuesStill /\ finish' = finish /\ animations' = animations
    BY DEF StopEnds, data, clock, QueuesStill
  <1>3. AnimationsAge /\ QueuedOf(f)' = QueuedOf(f) /\ DelaysOf(f)' = DelaysOf(f)
    BY <1>2, SameAnimations, StatesKeepQueued DEF AnimationsAge, QueuesStill, DelaysOf
  <1>4. CASE ~Mover(x, f)
    <2>1. Aside(x, f, animations) /\ Aside(x, f, animations')
      BY <1>1, <1>4 DEF Aside, Ends
    <2>2. ~AtFinish(f)
      BY <2>1, AsideNotAt
    <2>3. CalmOf(Rest, f)
      BY <1>1, <1>3, <2>1, CalmRest DEF Tidy
    <2>4. CalmOf(agenda', f)
      <3>1. CASE agenda' = Rest
        BY <2>3, <3>1
      <3>2. CASE agenda' # Rest
        <4>1. x.e # f /\ agenda' = Cons(DequeueDo(x.e), Rest)
          BY <1>1, <1>4, <3>2 DEF Mover, Stopping
        <4>2. Aside(DequeueDo(x.e), f, animations')
          BY <4>1, SimpleThings, AsideThings
        <4> QED
          BY <2>3, <4>1, <4>2, CalmCons
      <3> QED
        BY <3>1, <3>2
    <2> QED
      BY <1>2, <1>3, <2>2, <2>4, CalmTidy
  <1>5. CASE Mover(x, f)
    <2>1. x.e = f /\ Stopping(x)
      BY <1>1, <1>5 DEF Mover, Finishing, Begins
    <2>2. agenda' = Cons(DequeueDo(f), Rest)
      BY <1>1, <2>1 DEF Stopping
    <2>3. /\ IsSeq(Rest) /\ Items(agenda) = {Todo} \cup Items(Rest) /\ Orderly(Rest, f, animations')
          /\ \A z \in Items(Rest) : ~(Stopping(z) /\ z.e = f)
      BY <1>1, <1>3, LoopRest DEF Tidy
    <2>4. ~Dequeues(f) /\ DelaysOf(f) = {} /\ Past(f, 0)
      BY <1>1, <2>1, <2>3 DEF Tidy, Stopped
    <2>5. QueuedOf(f) = {}
      BY <2>4, PastAll
    <2>6. Clear(Rest)
      BY <1>1, ClearNow
    <2>7. Bare(Rest, f)
      BY <2>3, <2>4, <2>6 DEF Bare, Dequeues, Clear, Begins
    <2>8. FinishRight(Rest, f)
      BY <1>2, <2>3 DEF FinishRight, Finishes, Tidy, Progress, QueuesStill
    <2> QED
      BY <1>3, <2>2, <2>3, <2>4, <2>5, <2>7, <2>8, DequeuePushed
  <1> QED
    BY <1>4, <1>5

\* What a loop of finish() of f says when it has come to the end of the list.
LEMMA FinishAtEnd ==
  ASSUME Types, Timed, FirstOnly, NEW f, Tidy(f), agenda # <<>>, Finishing(Todo), Todo.e = f, Todo.i = 0
  PROVE  /\ QueuedOf(f) = {} /\ DelaysOf(f) = {} /\ queue[f] = <<>> /\ f \in finish
         /\ \A z \in Items(Rest) : z.e = f => z.op # "dequeue" /\ ~Finishing(z) /\ ~Begins(z)
  <1>1. Items(agenda) = {Todo} \cup Items(Rest) /\ Clear(Rest)
    BY RestFacts, ClearNow
  <1>2. Finishes(f)
    BY <1>1 DEF Finishes
  <1>3. QueuedOf(f) = {}
    <2> SUFFICES ASSUME QueuedOf(f) # {} PROVE FALSE
      OBVIOUS
    <2>1. AtFinish(f)
      BY <1>2 DEF Tidy, Progress
    <2>2. Past(f, 0)
      BY <2>1 DEF AtFinish, Finishing
    <2> QED
      BY <2>2, PastAll
  <1>4. \A z \in Items(Rest) : Apart(Todo, z, f)
    BY OrderlyRest DEF Tidy
  <1> QED
    BY <1>1, <1>2, <1>3, <1>4 DEF Tidy, Progress, Apart, Clear, Begins

LEMMA FinishQueueTidy ==
  ASSUME Types, Timed, FirstOnly, FinishQueue, NEW f \in Elements, Tidy(f)
  PROVE  Tidy(f)'
  <1> PICK x : x = Todo
    OBVIOUS
  <1>1. agenda # <<>> /\ x.op = "halt" /\ x.i = 0 /\ x.how = "finish"
    BY FinishQueueFacts
  <1>2. PICK items : LET z == Do("halt", x.e, x.a, 0, "finish", items)
                     IN  \/ agenda' = Cons(z, Rest)
                         \/ \E item : agenda' = Cons(AnimateDo(x.e, item, "queued"), Cons(z, Rest))
    BY FinishQueueFacts
  <1> PICK y : y = Do("halt", x.e, x.a, 0, "finish", items)
    OBVIOUS
  <1>3. y.op = "halt" /\ y.e = x.e /\ y.how = "finish" /\ y.i = 0
    BY DoFields
  <1>4. \/ agenda' = Cons(y, Rest)
        \/ \E item : agenda' = Cons(AnimateDo(x.e, item, "queued"), Cons(y, Rest))
    BY <1>2
  <1>5. QueuesStill /\ finish' = finish /\ animations' = animations
    BY DEF FinishQueue, data, clock, QueuesStill
  <1>6. AnimationsAge /\ QueuedOf(f)' = QueuedOf(f) /\ DelaysOf(f)' = DelaysOf(f)
    BY <1>5, SameAnimations, StatesKeepQueued DEF AnimationsAge, QueuesStill, DelaysOf
  <1>7. Finishing(x) /\ Finishing(y) /\ ~Stopping(x) /\ ~Stopping(y)
    BY <1>1, <1>3 DEF Finishing, Stopping
  <1>8. CASE x.e # f
    <2>1. Aside(x, f, animations) /\ Aside(x, f, animations') /\ Aside(y, f, animations')
      BY <1>3, <1>8, AsideThings
    <2>2. ~AtFinish(f)
      BY <2>1, AsideNotAt
    <2>3. CalmOf(Rest, f)
      BY <1>1, <1>6, <2>1, CalmRest DEF Tidy
    <2>4. CalmOf(Cons(y, Rest), f)
      BY <2>1, <2>3, CalmCons
    <2>5. ASSUME NEW item, agenda' = Cons(AnimateDo(x.e, item, "queued"), Cons(y, Rest))
          PROVE  CalmOf(agenda', f)
      <3>1. Aside(AnimateDo(x.e, item, "queued"), f, animations')
        BY <1>8, AnimateThings, AsideThings
      <3> QED
        BY <2>4, <2>5, <3>1, CalmCons
    <2>6. CalmOf(agenda', f)
      BY <1>4, <2>4, <2>5
    <2> QED
      BY <1>5, <1>6, <2>2, <2>6, CalmTidy
  <1>9. CASE x.e = f
    <2>1. /\ QueuedOf(f) = {} /\ DelaysOf(f) = {} /\ queue[f] = <<>> /\ f \in finish
          /\ \A z \in Items(Rest) : z.e = f => z.op # "dequeue" /\ ~Finishing(z) /\ ~Begins(z)
      BY <1>1, <1>7, <1>9, FinishAtEnd
    <2>2. \A z \in Items(Rest) : ~(Stopping(z) /\ z.e = f)
      BY <1>1, <1>6, LoopRest DEF Tidy
    <2> PICK s : s = Cons(y, Rest)
      OBVIOUS
    <2>3. /\ IsSeq(s) /\ Items(s) = {y} \cup Items(Rest) /\ s[1] = y
          /\ Orderly(s, f, animations')
      BY <1>1, <1>3, <1>6, <1>7, <1>9, LoopOrderly DEF Tidy
    <2>4. \A z \in Items(s) : z.e = f => z.op # "dequeue" /\ ~Begins(z) /\ ~Stopping(z)
      BY <1>3, <1>7, <2>1, <2>2, <2>3 DEF Begins
    <2>5. queue'[f] = <<>> /\ f \in finish'
      BY <1>5, <2>1 DEF QueuesStill
    <2>6. CASE agenda' = s
      <3>1. Bare(s, f) /\ FinishRight(s, f)
        BY <2>3, <2>4, <2>5 DEF Bare, FinishRight
      <3> QED
        BY <1>6, <2>1, <2>3, <2>6, <3>1, BareTidy
    <2>7. ASSUME NEW item, agenda' = Cons(AnimateDo(x.e, item, "queued"), s)
          PROVE  Tidy(f)'
      <3> PICK z : z = AnimateDo(x.e, item, "queued")
        OBVIOUS
      <3>1. z.op = "animate" /\ z.e = f /\ z.how = "queued"
        BY <1>9, AnimateThings
      <3>2. Items(agenda') = {z} \cup Items(s)
        BY <2>3, <2>7, ConsIs
      <3>3. /\ ~Dequeues(f)' /\ Stopped(f)' /\ Finishes(f)'
        BY <1>3, <1>7, <1>9, <2>3, <2>4, <3>1, <3>2 DEF Dequeues, Stopped, Finishes, Stopping
      <3>4. Single(f)' /\ Progress(f)'
        BY <1>6, <2>1, <2>5, <3>3 DEF Single, Progress, Going
      <3>5. \A w \in Items(s) : Apart(z, w, f)
        BY <2>4, <3>1 DEF Apart, Finishing
      <3>6. Leads(z, f, animations')
        BY <3>1 DEF Leads, Begins
      <3>7. Orderly(agenda', f, animations')
        BY <2>3, <2>7, <3>5, <3>6, OrderlyCons
      <3> QED
        BY <3>3, <3>4, <3>7 DEF Tidy
    <2> QED
      BY <1>4, <2>6, <2>7
  <1> QED
    BY <1>8, <1>9

LEMMA FinishEndsTidy ==
  ASSUME Types, Timed, FirstOnly, FinishEnds, NEW f \in Elements, Tidy(f)
  PROVE  Tidy(f)'
  <1> PICK x : x = Todo
    OBVIOUS
  <1>1. /\ agenda # <<>> /\ x.op = "halt" /\ x.i = 0 /\ x.how = "finish"
        /\ finish' = finish \ {x.e} /\ agenda' = Rest
    BY DEF FinishEnds, IsNext
  <1>2. QueuesStill /\ animations' = animations
    BY DEF FinishEnds, clock, QueuesStill
  <1>3. AnimationsAge /\ QueuedOf(f)' = QueuedOf(f) /\ DelaysOf(f)' = DelaysOf(f)
    BY <1>2, SameAnimations, StatesKeepQueued DEF AnimationsAge, QueuesStill, DelaysOf
  <1>4. CASE x.e # f
    <2>1. Aside(x, f, animations) /\ Aside(x, f, animations')
      BY <1>4, AsideThings
    <2>2. ~AtFinish(f)
      BY <2>1, AsideNotAt
    <2>3. CalmOf(Rest, f)
      BY <1>1, <1>3, <2>1, CalmRest DEF Tidy
    <2> QED
      BY <1>1, <1>2, <1>3, <1>4, <2>2, <2>3, CalmTidy
  <1>5. CASE x.e = f
    <2>1. Finishing(x)
      BY <1>1 DEF Finishing
    <2>2. /\ QueuedOf(f) = {} /\ DelaysOf(f) = {}
          /\ \A z \in Items(Rest) : z.e = f => z.op # "dequeue" /\ ~Finishing(z) /\ ~Begins(z)
      BY <1>1, <1>5, <2>1, FinishAtEnd
    <2>3. /\ IsSeq(Rest) /\ Orderly(Rest, f, animations')
          /\ \A z \in Items(Rest) : ~(Stopping(z) /\ z.e = f)
      BY <1>1, <1>3, LoopRest DEF Tidy
    <2>4. Bare(Rest, f) /\ FinishRight(Rest, f)
      BY <2>2, <2>3 DEF Bare, FinishRight
    <2> QED
      BY <1>1, <1>3, <2>2, <2>3, <2>4, BareTidy
  <1> QED
    BY <1>4, <1>5

\* What a callback, or a task of the event loop, finds of the queue of f.
LEMMA CalledCalm ==
  ASSUME Types, Called, NEW f, Tidy(f), animations' = animations
  PROVE  /\ CalmOf(agenda, f) /\ ~AtFinish(f) /\ QueuedOf(f)' = QueuedOf(f)
         /\ IsSeq(agenda) /\ Orderly(agenda, f, animations')
         /\ \A x \in Items(agenda) : ~(Stopping(x) /\ x.e = f)
         /\ agenda # <<>> => ~Trails(agenda[1], f, animations')
  <1>1. QueuedOf(f)' = QueuedOf(f) /\ AnimationsAge
    BY SameAnimations, StatesKeepQueued DEF AnimationsAge
  <1>2. CalmOf(agenda, f)
    BY <1>1, CalmAgenda DEF Called, Tidy
  <1>3. ~AtFinish(f)
    BY AsideThings, AsideNotAt DEF Called
  <1> QED
    BY <1>1, <1>2, <1>3 DEF CalmOf

\* A call when no dequeue() is to come.
LEMMA CalledNoDequeue ==
  ASSUME Types, FirstOnly, Called, NEW f \in Elements, Tidy(f), DequeueDo(f) \notin Items(agenda)
  PROVE  ~Dequeues(f) /\ ~Finishes(f)
  <1>1. ~Dequeues(f)
    BY DEF Dequeues, Types, ThingOK, ThingIn
  <1>2. CASE agenda = <<>>
    BY <1>1, <1>2, ShortIsSeq DEF Finishes
  <1>3. CASE agenda # <<>>
    <2>1. Todo.op = "run"
      BY <1>3 DEF Called
    <2>2. ~Finishing(Todo)
      BY <2>1 DEF Finishing
    <2>3. Orderly(agenda, f, animations)
      BY DEF Tidy
    <2> QED
      BY <1>1, <1>3, <2>1, <2>2, <2>3, FinishGuarded
  <1> QED
    BY <1>1, <1>2, <1>3

\* A call that leaves the queue of f and its hooks alone.
LEMMA CallAsideTidy ==
  ASSUME Types, Called, NEW f \in Elements, Tidy(f), animations' = animations,
         CalmOf(agenda, f) => CalmOf(agenda', f),
         queue'[f] = queue[f], hooks'[f] = hooks[f], timeouts' \subseteq timeouts, finish \subseteq finish'
  PROVE  Tidy(f)'
  <1>1. CalmOf(agenda', f) /\ ~AtFinish(f) /\ QueuedOf(f)' = QueuedOf(f)
    BY CalledCalm
  <1>2. DelaysOf(f)' \subseteq DelaysOf(f)
    BY DEF DelaysOf
  <1>3. /\ InProgress(f) => InProgress(f)'
        /\ queue[f] = <<>> => queue'[f] = <<>>
        /\ HooksOf(f)'.stop = HooksOf(f).stop
    BY SameQueue
  <1> QED
    BY <1>1, <1>2, <1>3, TidyCalm

LEMMA CallQueueTidy ==
  ASSUME Types, FirstOnly, NEW e \in Elements, NEW item, ItemOK(item), CallQueue(e, item),
         NEW f \in Elements, f \notin fate'.manual, Tidy(f)
  PROVE  Tidy(f)'
  <1>1. /\ Called /\ OnlyOf(e)
        /\ queue'[e] # <<>> /\ (queue[e] # <<>> => Head(queue'[e]) = Head(queue[e]))
        /\ hooks'[e] = <<HooksOf(e)>>
        /\ FateMoves(e, QueueStarts(e) /\ DequeueDo(e) \in Items(agenda))
        /\ agenda' = IF QueueStarts(e) THEN Cons(DequeueDo(e), agenda) ELSE agenda
    BY CallQueueFacts DEF CallQueueAfter
  <1>2. animations' = animations /\ timeouts' = timeouts /\ finish' = finish
    BY DEF CallQueue, clock
  <1>3. /\ CalmOf(agenda, f) /\ ~AtFinish(f) /\ QueuedOf(f)' = QueuedOf(f)
        /\ IsSeq(agenda) /\ Orderly(agenda, f, animations')
        /\ \A x \in Items(agenda) : ~(Stopping(x) /\ x.e = f)
    BY <1>1, <1>2, CalledCalm
  <1>4. DelaysOf(f)' = DelaysOf(f)
    BY <1>2 DEF DelaysOf
  <1>5. CASE f # e
    <2>1. Aside(DequeueDo(e), f, animations')
      BY <1>5, SimpleThings, AsideThings
    <2>2. CalmOf(agenda', f)
      BY <1>1, <1>3, <2>1, CalmCons
    <2>3. queue'[f] = queue[f] /\ hooks'[f] = hooks[f]
      BY <1>1, <1>5 DEF OnlyOf
    <2> QED
      BY <1>1, <1>2, <2>2, <2>3, CallAsideTidy
  <1>6. CASE f = e /\ ~QueueStarts(e)
    <2>1. queue[f] # <<>> /\ agenda' = agenda
      BY <1>1, <1>6 DEF QueueStarts
    <2>2. hooks'[f] # <<>> /\ HooksOf(f)' = HooksOf(f)
      BY <1>1, <1>6, HooksAfter
    <2>3. InProgress(f) => InProgress(f)'
      BY <1>1, <1>6, <2>1, <2>2 DEF InProgress
    <2> QED
      BY <1>2, <1>3, <1>4, <2>1, <2>2, <2>3, TidyCalm
  <1>7. CASE f = e /\ QueueStarts(e)
    <2>1. DequeueDo(f) \notin Items(agenda)
      BY <1>1, <1>7 DEF FateMoves
    <2>2. ~Dequeues(f) /\ ~Finishes(f)
      BY <1>1, <2>1, CalledNoDequeue
    <2>3. ~InProgress(f)
      BY <1>7 DEF QueueStarts, InProgress
    <2>4. ~Going(f) /\ ~Animates(f)
      BY <2>2, <2>3 DEF Tidy, Progress
    <2>5. QueuedOf(f)' = {} /\ DelaysOf(f)' = {}
      BY <1>3, <1>4, <2>4 DEF Going
    <2>6. Bare(agenda, f) /\ FinishRight(agenda, f)
      BY <1>3, <2>2, <2>4 DEF Bare, FinishRight, Dequeues, Finishes, Animates
    <2>7. agenda' = Cons(DequeueDo(f), agenda)
      BY <1>1, <1>7
    <2> QED
      BY <1>3, <2>5, <2>6, <2>7, DequeuePushed
  <1> QED
    BY <1>5, <1>6, <1>7

LEMMA CallAnimateTidy ==
  ASSUME Types, FirstOnly, NEW e \in Elements, NEW goal, NEW duration, NEW queued \in BOOLEAN,
         CallAnimate(e, goal, duration, queued), NEW f \in Elements, f \notin fate'.manual, Tidy(f)
  PROVE  Tidy(f)'
  <1>1. \/ \E item : ItemOK(item) /\ CallQueue(e, item)
        \/ /\ Called /\ UNCHANGED <<data, style, animations, clock, promises>>
           /\ FateMoves(e, queued)
           /\ \E item, how : /\ agenda' = Cons(AnimateDo(e, item, how), agenda)
                             /\ how = "queued" <=> queued
    BY CallAnimateFacts
  <1>2. ASSUME NEW item, ItemOK(item), CallQueue(e, item) PROVE Tidy(f)'
    BY <1>2, CallQueueTidy
  <1>3. ASSUME Called, UNCHANGED <<data, style, animations, clock, promises>>, FateMoves(e, queued),
               NEW item, NEW how, agenda' = Cons(AnimateDo(e, item, how), agenda), how = "queued" <=> queued
        PROVE  Tidy(f)'
    <2> PICK x : x = AnimateDo(e, item, how)
      OBVIOUS
    <2>1. x.op = "animate" /\ x.e = e /\ x.how = how
      BY AnimateThings
    <2>2. x.e # f \/ ~Begins(x)
      BY <1>3, <2>1 DEF FateMoves, Begins
    <2>3. Aside(x, f, animations')
      BY <2>1, <2>2 DEF Aside, Mover, Finishing, Stopping, Begins, Ends
    <2>4. CalmOf(agenda, f) => CalmOf(agenda', f)
      BY <1>3, <2>3, CalmCons
    <2> QED
      BY <1>3, <2>4, CallAsideTidy DEF data, clock
  <1> QED
    BY <1>1, <1>2, <1>3

LEMMA CallDequeueTidy ==
  ASSUME Types, NEW e \in Elements, NEW clear \in BOOLEAN, CallDequeue(e, clear),
         NEW f \in Elements, f \notin fate'.manual, Tidy(f)
  PROVE  Tidy(f)'
  <1>1. /\ Called /\ agenda' = Cons(DequeueDo(e), agenda)
        /\ \A g \in Elements \ {e} : queue'[g] = queue[g]
        /\ FateMoves(e, TRUE)
    BY CallDequeueFacts
  <1>2. animations' = animations /\ timeouts' = timeouts /\ finish' = finish /\ hooks' = hooks
    BY DEF CallDequeue, clock
  <1>3. f # e
    BY <1>1 DEF FateMoves
  <1>4. Aside(DequeueDo(e), f, animations')
    BY <1>3, SimpleThings, AsideThings
  <1>5. CalmOf(agenda, f) => CalmOf(agenda', f)
    BY <1>1, <1>4, CalmCons
  <1>6. queue'[f] = queue[f]
    BY <1>1, <1>3
  <1> QED
    BY <1>1, <1>2, <1>5, <1>6, CallAsideTidy

LEMMA CallStopTidy ==
  ASSUME Types, FirstOnly, NEW e \in Elements, NEW clear \in BOOLEAN, NEW gotoEnd, CallStop(e, clear, gotoEnd),
         NEW f \in Elements, f \notin fate'.manual, Tidy(f)
  PROVE  Tidy(f)'
  <1>1. PICK how : agenda' = IF clear THEN Cons(DequeueDo(e), Cons(StopDo(e, how), agenda))
                             ELSE Cons(StopDo(e, how), agenda)
    BY CallStopFacts
  <1>2. /\ Called /\ \A g \in Elements \ {e} : queue'[g] = queue[g]
        /\ queue'[e] = IF clear THEN <<>> ELSE queue[e]
        /\ FateMoves(e, clear \/ DequeueDo(e) \in Items(agenda))
    BY CallStopFacts
  <1>3. animations' = animations /\ timeouts' = timeouts /\ finish' = finish /\ hooks' = hooks
    BY DEF CallStop, clock
  <1> PICK y : y = StopDo(e, how)
    OBVIOUS
  <1>4. y.op = "stop" /\ y.e = e
    BY DoFields DEF StopDo
  <1>5. CASE f # e
    <2>1. Aside(DequeueDo(e), f, animations') /\ Aside(y, f, animations')
      BY <1>4, <1>5, SimpleThings, AsideThings
    <2>2. CalmOf(agenda, f) => CalmOf(Cons(y, agenda), f)
      BY <2>1, CalmCons
    <2>3. CalmOf(agenda, f) => CalmOf(Cons(DequeueDo(e), Cons(y, agenda)), f)
      BY <2>1, <2>2, CalmCons
    <2>4. CalmOf(agenda, f) => CalmOf(agenda', f)
      BY <1>1, <2>2, <2>3
    <2>5. queue'[f] = queue[f]
      BY <1>2, <1>5
    <2> QED
      BY <1>2, <1>3, <2>4, <2>5, CallAsideTidy
  <1>6. CASE f = e
    <2>1. ~clear /\ DequeueDo(f) \notin Items(agenda)
      BY <1>2, <1>6 DEF FateMoves
    <2>2. agenda' = Cons(y, agenda) /\ queue'[f] = queue[f]
      BY <1>1, <1>2, <1>6, <2>1
    <2>3. ~Dequeues(f)
      BY <1>2, <2>1, CalledNoDequeue
    <2>4. /\ ~AtFinish(f) /\ QueuedOf(f)' = QueuedOf(f)
          /\ IsSeq(agenda) /\ Orderly(agenda, f, animations')
          /\ \A x \in Items(agenda) : ~(Stopping(x) /\ x.e = f)
          /\ agenda # <<>> => ~Trails(agenda[1], f, animations')
      BY <1>2, <1>3, CalledCalm
    <2>5. DelaysOf(f)' = DelaysOf(f)
      BY <1>3 DEF DelaysOf
    <2>6. Items(agenda') = {y} \cup Items(agenda)
      BY <2>2, <2>4, ConsIs
    <2>7. ~Finishing(y) /\ ~Begins(y)
      BY <1>4 DEF Finishing, Begins
    <2>8. /\ Dequeues(f)' <=> Dequeues(f)
          /\ Animates(f)' <=> Animates(f)
          /\ Finishes(f)' <=> Finishes(f)
      BY <1>4, <2>6, <2>7 DEF Dequeues, Animates, Finishes
    <2>9. /\ InProgress(f) => InProgress(f)'
          /\ queue[f] = <<>> => queue'[f] = <<>>
          /\ HooksOf(f)'.stop = HooksOf(f).stop
      BY <1>3, <2>2, SameQueue
    <2>10. Single(f)' /\ Progress(f)'
      BY <1>3, <2>4, <2>5, <2>8, <2>9, TidyKept DEF Tidy
    <2>11. Stopped(f)'
      BY <1>4, <2>3, <2>4, <2>6, <2>8 DEF Stopped
    <2>12. Orderly(agenda', f, animations')
      <3>1. \A z \in Items(agenda) : Apart(y, z, f)
        BY <1>4, <2>4, <2>7 DEF Apart
      <3> QED
        BY <2>2, <2>4, <3>1, OrderlyCons
    <2> QED
      BY <2>10, <2>11, <2>12 DEF Tidy
  <1> QED
    BY <1>5, <1>6

LEMMA CallFinishTidy ==
  ASSUME Types, FirstOnly, NEW e \in Elements, CallFinish(e), NEW f \in Elements, f \notin fate'.manual, Tidy(f)
  PROVE  Tidy(f)'
  <1> PICK y : y = HaltAt(e, Len(timers), "finish", queue[e])
    OBVIOUS
  <1>1. /\ Called /\ agenda' = Cons(y, agenda)
        /\ \A g \in Elements \ {e} : queue'[g] = queue[g]
        /\ queue'[e] = <<>> /\ finish' = finish \cup {e}
        /\ timeouts' = {t \in timeouts : hooks[e] = <<>> \/ t[1] # hooks[e][1].stop}
        /\ fate'.manual = IF DequeueDo(e) \in Items(agenda) THEN fate.manual \cup {e} ELSE fate.manual
    BY CallFinishFacts
  <1>2. hooks' = hooks /\ animations' = animations /\ timers' = timers
    BY DEF CallFinish
  <1>3. y.op = "halt" /\ y.e = e /\ y.how = "finish" /\ y.i = Len(timers)
    BY HaltThings
  <1>4. CASE f # e
    <2>1. Aside(y, f, animations')
      BY <1>3, <1>4, AsideThings
    <2>2. CalmOf(agenda, f) => CalmOf(agenda', f)
      BY <1>1, <2>1, CalmCons
    <2>3. queue'[f] = queue[f] /\ timeouts' \subseteq timeouts /\ finish \subseteq finish'
      BY <1>1, <1>4
    <2> QED
      BY <1>1, <1>2, <2>2, <2>3, CallAsideTidy
  <1>5. CASE f = e
    <2>1. ~Dequeues(f) /\ ~Finishes(f)
      BY <1>1, <1>5, CalledNoDequeue
    <2>2. /\ QueuedOf(f)' = QueuedOf(f)
          /\ IsSeq(agenda) /\ Orderly(agenda, f, animations')
          /\ \A x \in Items(agenda) : ~(Stopping(x) /\ x.e = f)
          /\ agenda # <<>> => ~Trails(agenda[1], f, animations')
      BY <1>1, <1>2, CalledCalm
    <2>3. DelaysOf(f)' = {}
      <3>1. \A t \in DelaysOf(f) : hooks[f] # <<>> /\ t[1] = hooks[f][1].stop
        BY DEF Tidy, Single, HooksOf
      <3>2. DelaysOf(f)' \subseteq DelaysOf(f)
        BY <1>1 DEF DelaysOf
      <3> QED
        BY <1>1, <1>5, <3>1, <3>2 DEF DelaysOf
    <2>4. Items(agenda') = {y} \cup Items(agenda)
      BY <1>1, <2>2, ConsIs
    <2>5. Finishing(y) /\ ~Stopping(y) /\ ~Begins(y)
      BY <1>3 DEF Finishing, Stopping, Begins
    <2>6. ~Dequeues(f)' /\ (Animates(f)' => Animates(f))
      BY <1>3, <2>1, <2>4, <2>5 DEF Dequeues, Animates
    <2>7. Stopped(f)'
      BY <2>2, <2>4, <2>5 DEF Stopped
    <2>8. Single(f)'
      BY <2>2, <2>3, <2>6 DEF Tidy, Single, Going
    <2>9. Past(f, y.i)'
      <3>1. Len(timers) \in Nat
        BY IsSeqFacts DEF Types
      <3> QED
        BY <1>2, <1>3, <3>1 DEF Past
    <2>10. AtFinish(f)'
      BY <1>1, <1>3, <1>5, <2>2, <2>5, <2>9, AtFinishNext
    <2>11. Finishes(f)'
      BY <1>3, <1>5, <2>4, <2>5 DEF Finishes
    <2>12. Progress(f)'
      BY <1>1, <1>5, <2>3, <2>10, <2>11 DEF Progress
    <2>13. \A z \in Items(agenda) : Apart(y, z, f)
      BY <2>1, <2>2 DEF Apart, Dequeues, Finishes
    <2>14. Orderly(agenda', f, animations')
      BY <1>1, <2>2, <2>13, OrderlyCons
    <2> QED
      BY <2>7, <2>8, <2>12, <2>14 DEF Tidy
  <1> QED
    BY <1>4, <1>5

LEMMA CallPromiseTidy ==
  ASSUME Types, CallPromise, NEW f \in Elements, Tidy(f)
  PROVE  Tidy(f)'
  <1> PICK p : p = Len(promises) + 1
    OBVIOUS
  <1>1. /\ Called /\ agenda' = agenda
        /\ \A e \in Elements :
             \/ hooks[e] = <<>> /\ hooks'[e] = <<>>
             \/ hooks[e] # <<>> /\ \E h \in Hooks : hooks'[e] = <<h>> /\ h.stop = HooksOf(e).stop
    BY CallPromiseFacts
  <1>2. queue' = queue /\ animations' = animations /\ timeouts' = timeouts /\ finish' = finish
    BY DEF CallPromise, clock
  <1>3. /\ CalmOf(agenda', f) /\ ~AtFinish(f) /\ QueuedOf(f)' = QueuedOf(f)
    BY <1>1, <1>2, CalledCalm
  <1>4. DelaysOf(f)' = DelaysOf(f)
    BY <1>2 DEF DelaysOf
  <1>5. /\ hooks'[f] = <<>> <=> hooks[f] = <<>>
        /\ HooksOf(f)'.stop = HooksOf(f).stop
    <2>1. CASE hooks[f] = <<>>
      BY <1>1, <2>1, HooksAfter, HooksFacts
    <2>2. CASE hooks[f] # <<>>
      BY <1>1, <2>2, HooksAfter
    <2> QED
      BY <2>1, <2>2
  <1>6. InProgress(f) => InProgress(f)'
    BY <1>2, <1>5 DEF InProgress
  <1> QED
    BY <1>2, <1>3, <1>4, <1>5, <1>6, TidyCalm

LEMMA UserTidy ==
  ASSUME Types, FirstOnly, User, NEW f \in Elements, f \notin fate'.manual, Tidy(f)
  PROVE  Tidy(f)'
  <1>1. ASSUME NEW e \in Elements, CallQueue(e, FunctionItem) PROVE Tidy(f)'
    BY <1>1, QueuedItems, CallQueueTidy
  <1>2. ASSUME NEW e \in Elements, CallQueue(e, DelayItem(calls + 1)) PROVE Tidy(f)'
    BY <1>2, QueuedItems, CallQueueTidy
  <1> QED
    BY <1>1, <1>2, CallAnimateTidy, CallDequeueTidy, CallStopTidy, CallFinishTidy, CallPromiseTidy DEF User

LEMMA TidyStep ==
  ASSUME Types, Timed, FirstOnly, [Next]_vars, ~fate'.wronged,
         NEW f \in Elements, f \notin fate'.manual, Tidy(f)
  PROVE  Tidy(f)'
  <1>1. CASE Dequeue \/ Unqueue \/ Animate \/ Animated
    BY <1>1, DequeueTidy, UnqueueTidy, AnimateTidy, AnimatedTidy
  <1>2. CASE TickTimer \/ TimeoutFires
    BY <1>2, TickTimerTidy, TimeoutTidy
  <1>3. CASE Ticked \/ TickEnds \/ Tick \/ Return
    BY <1>3, QuietTidy
  <1>4. CASE StopBegins \/ HaltTimer \/ Splice
    BY <1>4, StopBeginsTidy, HaltTimerTidy, SpliceTidy
  <1>5. CASE StopEnds \/ FinishQueue \/ FinishEnds
    BY <1>5, StopEndsTidy, FinishQueueTidy, FinishEndsTidy
  <1>6. CASE User
    BY <1>6, UserTidy
  <1>7. CASE UNCHANGED vars
    BY <1>7 DEF vars, data, clock, Tidy, Single, Progress, InProgress, AtFinish, Stopped, Past, Going,
                Dequeues, Finishes, Animates, QueuedOf, Begun, Pending, DelaysOf, HooksOf, NewHooks, Todo
  <1> QED
    BY <1>1, <1>2, <1>3, <1>4, <1>5, <1>6, <1>7 DEF Next, Program, Wait

--------------------------------------------------------------------------------
(* The invariant and the theorems                                           *)

\* What holds as long as no loop has gone wrong.
Right ==
  /\ Timed /\ Once(agenda)
  /\ \A e \in Elements : Counted(e)
  /\ \A e \in Elements \ fate.forgotten : Closing(e)
  /\ \A e \in Free : Tidy(e)

EffectsInv == QueueInv /\ Waits /\ FirstOnly /\ (~fate.wronged => Right)

LEMMA InitRight ==
  ASSUME Init
  PROVE  Waits /\ FirstOnly /\ Right
  <1>1. Types /\ agenda = <<>> /\ animations = <<>> /\ promises = <<>> /\ timeouts = {}
    BY InitTypes DEF Init
  <1>2. Items(<<>>) = {} /\ Len(<<>>) = 0 /\ IsSeq(<<>>)
    BY ShortIsSeq
  <1>3. DOMAIN <<>> = {}
    BY <1>2, IsSeqFacts
  <1>4. \A e \in Elements : /\ hooks[e] = <<>> /\ HooksOf(e).waiting = {} /\ HooksOf(e).unqueued = 0
                            /\ QueuedOf(e) = {} /\ DelaysOf(e) = {} /\ Owed(e) = {}
    <2> SUFFICES ASSUME NEW e \in Elements
                 PROVE  /\ hooks[e] = <<>> /\ HooksOf(e).waiting = {} /\ HooksOf(e).unqueued = 0
                        /\ QueuedOf(e) = {} /\ DelaysOf(e) = {} /\ Owed(e) = {}
      OBVIOUS
    <2>1. hooks[e] = <<>>
      BY DEF Init
    <2> QED
      BY <1>1, <1>3, <2>1, HooksFacts DEF QueuedOf, Begun, DelaysOf, Owed
  <1>5. Waits /\ FirstOnly
    BY <1>1, <1>3, <1>4 DEF Waits, FirstOnly
  <1>6. Timed
    BY <1>1, <1>2, <1>3 DEF Timed, AllOver
  <1>7. Once(agenda)
    BY <1>1, <1>2 DEF Once
  <1>8. ASSUME NEW e \in Elements PROVE Counted(e) /\ Closing(e)
    <2>1. Cardinality(Owed(e)) = 0
      BY <1>4, FS_EmptySet
    <2> QED
      BY <1>4, <2>1 DEF Counted, Closing, Open
  <1>9. ASSUME NEW e \in Free PROVE Tidy(e)
    <2>1. e \in Elements /\ QueuedOf(e) = {} /\ DelaysOf(e) = {}
      BY <1>4, <1>9 DEF Free
    <2>2. ~Animates(e) /\ ~Finishes(e) /\ Stopped(e)
      BY <1>1, <1>2 DEF Animates, Finishes, Stopped
    <2>3. Orderly(agenda, e, animations)
      BY <1>1, <1>2 DEF Orderly
    <2> QED
      BY <2>1, <2>2, <2>3 DEF Tidy, Single, Progress, Going
  <1> QED
    BY <1>5, <1>6, <1>7, <1>8, <1>9 DEF Right

LEMMA RightStep ==
  ASSUME QueueInv, FirstOnly, ~fate.wronged, Right, [Next]_vars, ~fate'.wronged
  PROVE  Right'
  <1>1. Types /\ IdsOwn /\ Timed /\ Once(agenda) /\ FateGrows
    BY FateStep DEF QueueInv, Right
  <1>2. Timed' /\ Once(agenda')
    BY <1>1, TimedStep, OnceStep
  <1>3. \A e \in Elements : Counted(e)'
    BY <1>1, CountedStep DEF Right
  <1>4. ASSUME NEW e \in Elements \ fate'.forgotten PROVE Closing(e)'
    <2>1. Moving(e) /\ Closing(e)
      BY <1>1, <1>4 DEF FateGrows, QueueInv, Right
    <2> QED
      BY <1>1, <1>4, <2>1, ClosingStep
  <1>5. ASSUME NEW e \in Elements \ fate'.manual PROVE Tidy(e)'
    <2>1. Tidy(e)
      BY <1>1, <1>5 DEF FateGrows, Free, Right
    <2> QED
      BY <1>1, <1>5, <2>1, TidyStep
  <1> QED
    BY <1>2, <1>3, <1>4, <1>5 DEF Right, Free

\* The invariant of the effects, jquery-l.js:3921-4045, 9098-9558: what is on the agenda and
\* in the queues fits together whatever stop(), finish() and the callbacks do.
THEOREM EffectsInvariant == Spec => []EffectsInv
  <1>1. Init => EffectsInv
    BY InitTypes, InitRight DEF EffectsInv, QueueInv, Moving
  <1>2. EffectsInv /\ [Next]_vars => EffectsInv'
    <2> SUFFICES ASSUME EffectsInv, [Next]_vars PROVE EffectsInv'
      OBVIOUS
    <2>1. Types /\ FirstOnly /\ Waits /\ QueueInv
      BY DEF EffectsInv, QueueInv
    <2>2. QueueInv'
      BY <2>1, QueueInvStep
    <2>3. Waits' /\ FirstOnly'
      BY <2>1, WaitsStep, FirstStep
    <2>4. ASSUME ~fate'.wronged PROVE Right'
      <3>1. ~fate.wronged
        BY <2>1, <2>4, FateStep DEF FateGrows
      <3> QED
        BY <2>1, <2>4, <3>1, RightStep DEF EffectsInv
    <2> QED
      BY <2>2, <2>3, <2>4 DEF EffectsInv
  <1> QED
    BY <1>1, <1>2, PTL DEF Spec

\* jquery-l.js:3921-3954, 9334-9366: for any elements and number of calls no queue gets stuck:
\* one that is not empty when the event loop is free has an animation or a delay that will
\* move it on.
THEOREM QueuesMove == Spec => []QueueMoves
  <1>1. EffectsInv => QueueMoves
    <2> SUFFICES ASSUME EffectsInv, Idle, ~fate.wronged, NEW e \in Elements \ fate.forgotten, queue[e] # <<>>
                 PROVE  QueuedOf(e) # {} \/ DelaysOf(e) # {}
      BY DEF QueueMoves
    <2>1. Goes(e)
      BY DEF EffectsInv, QueueInv, Moving, Wants
    <2>2. Of(e) = {}
      BY ShortIsSeq DEF Idle, Of
    <2> QED
      BY <2>1, <2>2 DEF Goes, Delayed
  <1> QED
    BY <1>1, EffectsInvariant, PTL

\* jquery-l.js:3940-3944: for any elements, animations and number of calls the queue runs one
\* thing at a time.
THEOREM OneThingAtATime == Spec => []OneAtATime
  <1>1. EffectsInv => OneAtATime
    <2> SUFFICES ASSUME EffectsInv, ~fate.wronged, NEW e \in Elements \ fate.manual
                 PROVE  Cardinality(QueuedOf(e)) + Cardinality(DelaysOf(e)) <= 1
      BY DEF OneAtATime
    <2>1. Single(e)
      BY DEF EffectsInv, Right, Free, Tidy
    <2>2. ASSUME NEW S, \A x, y \in S : x = y
          PROVE  Cardinality(S) \in {0, 1} /\ (S = {} => Cardinality(S) = 0)
      <3>1. CASE S = {}
        BY <3>1, FS_EmptySet
      <3>2. CASE S # {}
        <4>1. PICK x \in S : TRUE
          BY <3>2
        <4>2. S = {x}
          BY <2>2, <4>1
        <4> QED
          BY <3>2, <4>2, FS_Singleton
      <3> QED
        BY <3>1, <3>2
    <2>3. /\ Cardinality(QueuedOf(e)) \in {0, 1} /\ (QueuedOf(e) = {} => Cardinality(QueuedOf(e)) = 0)
          /\ Cardinality(DelaysOf(e)) \in {0, 1} /\ (DelaysOf(e) = {} => Cardinality(DelaysOf(e)) = 0)
      BY <2>1, <2>2 DEF Single
    <2> QED
      BY <2>1, <2>3 DEF Single
  <1> QED
    BY <1>1, EffectsInvariant, PTL

\* jquery-l.js:3956-3965, 4018-4045, 9072-9096, 9489-9508: for any elements and number of
\* calls a promise is open exactly as long as it should be.
THEOREM PromisesOpen == Spec => []PromiseOpen
  <1>1. EffectsInv /\ Idle => PromiseOpen
    <2> SUFFICES ASSUME EffectsInv, Idle PROVE PromiseOpen
      OBVIOUS
    <2>1. Types /\ Waits /\ Items(agenda) = {} /\ \A e : Of(e) = {}
      BY ShortIsSeq DEF EffectsInv, QueueInv, Idle, Of
    <2>2. \A e \in Elements : hooks[e] # <<>> => hooks[e][1] = HooksOf(e)
      BY DEF HooksOf
    <2>3. \A e \in Elements : hooks[e] = <<>> => HooksOf(e).waiting = {} /\ HooksOf(e).unqueued = 0
      BY <2>1, HooksFacts
    <2>4. \A p : Holding(p) = {e \in Elements : hooks[e] # <<>> /\ p \in hooks[e][1].waiting}
      BY <2>2, <2>3 DEF Holding
    <2>5. \A p \in DOMAIN promises :
            promises[p] = Cardinality({e \in Elements : hooks[e] # <<>> /\ p \in hooks[e][1].waiting})
      BY <2>1, <2>4 DEF Waits
    <2>6. ASSUME ~fate.wronged, NEW e \in Elements \ fate.forgotten, hooks[e] # <<>>
          PROVE  queue[e] # <<>> \/ hooks[e][1].unqueued > 0
      <3>1. ~Open(e)
        BY <2>1, <2>6 DEF EffectsInv, Right, Closing, Closes
      <3>2. HooksOf(e).unqueued \in Int
        BY <2>1, HooksFacts DEF Hooks
      <3> QED
        BY <2>2, <2>6, <3>1, <3>2 DEF Open
    <2>7. ASSUME ~fate.wronged, NEW e \in Elements \ fate.manual, Begun(e) # {} \/ DelaysOf(e) # {}
          PROVE  hooks[e] # <<>>
      <3>1. CASE Going(e)
        <4>1. ~Finishes(e)
          BY <2>1 DEF Finishes
        <4> QED
          BY <2>7, <3>1, <4>1 DEF EffectsInv, Right, Free, Tidy, Progress, InProgress
      <3>2. CASE ~Going(e)
        <4>1. PICK n \in Begun(e) : ~animations[n].queued
          BY <2>7, <3>2 DEF Going, QueuedOf
        <4>2. n \in Owed(e)
          BY <4>1 DEF Owed, Owes, Begun
        <4>3. Cardinality(Owed(e)) # 0 /\ Cardinality(Owed(e)) \in Nat
          BY <2>1, <4>2, OwedFinite, FS_EmptySet
        <4>4. HooksOf(e).unqueued >= Cardinality(Owed(e))
          BY <2>7 DEF EffectsInv, Right, Counted
        <4> QED
          BY <2>3, <4>3, <4>4
      <3> QED
        BY <3>1, <3>2
    <2> QED
      BY <2>5, <2>6, <2>7 DEF PromiseOpen
  <1>2. ~Idle => PromiseOpen
    BY DEF PromiseOpen
  <1> QED
    BY <1>1, <1>2, EffectsInvariant, PTL

================================================================================
