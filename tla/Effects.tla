-------------------------------- MODULE Effects --------------------------------
(***************************************************************************)
(* jQuery's queue "fx" and its animations: what an element still has to    *)
(* do, the animations that the one interval timer moves on, the delays,    *)
(* and what stop() and finish() do to them, also from within the callbacks *)
(* of animations.  An animation is of the height of its element, towards   *)
(* show, hide or toggle, or is empty.  Time is counted in ticks of the     *)
(* interval.  "agenda" is as in module Deferred; callbacks do not throw.   *)
(***************************************************************************)
EXTENDS Integers, Sequences, FiniteSets, SequencesExt

CONSTANTS Elements,
          Goals,      \* subset of "show", "hide", "toggle", "empty"
          Durations,  \* in ticks
          MaxCalls    \* bound on operations the user calls

ASSUME EffectsAssumption ==
  /\ IsFiniteSet(Elements)
  /\ Goals \subseteq {"show", "hide", "toggle", "empty"}
  /\ Durations \subseteq Nat
  /\ MaxCalls \in Nat

VARIABLES
  queue,       \* the fx queue of each element
  hooks,       \* its queue hooks: empty, or one record
  finish,      \* the elements with the flag that finish() sets
  style,       \* display, height and overflow of each element, and its data fxshow
  animations,  \* all animations so far
  timers,      \* jQuery.timers: numbers of animations
  ticking,     \* the interval timer runs
  timeouts,    \* delays that are running: their numbers and elements
  promises,    \* for each promise() the count of its closure
  agenda,      \* what is left to do before the event loop is free
  calls,       \* operations called by the user
  fate         \* history: what exempts an element from a property, see there

data == <<queue, hooks, finish>>
clock == <<timers, ticking, timeouts>>
vars == <<data, style, animations, clock, promises, agenda, calls, fate>>

Full == 3
Half == 2
Least == 1

Item(is, goal, duration, id) == [is |-> is, goal |-> goal, duration |-> duration, id |-> id]
Inprogress == Item("inprogress", "", 0, 0)
FunctionItem == Item("function", "", 0, 0)
DelayItem(id) == Item("delay", "", 0, id)

Init ==
  /\ queue = [e \in Elements |-> <<>>] /\ hooks = [e \in Elements |-> <<>>] /\ finish = {}
  /\ style = [e \in Elements |-> [hidden |-> FALSE, height |-> Full, overflow |-> "own", fxshow |-> <<>>]]
  /\ animations = <<>> /\ timers = <<>> /\ ticking = FALSE /\ timeouts = {}
  /\ promises = <<>> /\ agenda = <<>> /\ calls = 0
  /\ fate = [wronged |-> FALSE, manual |-> {}, forgotten |-> {}, overlapped |-> {},
             shifted |-> {}]

-------------------------------------------------------------------------------
(* What is on the agenda.                                                     *)

Do(op, e, a, i, how, items) == [op |-> op, e |-> e, a |-> a, i |-> i, how |-> how, items |-> items]
DequeueDo(e) == Do("dequeue", e, 0, 0, "", <<>>)
AnimateDo(e, item, how) == Do("animate", e, 0, 0, how, <<item>>)
UnqueueDo(e, n) == Do("unqueue", e, n, 0, "", <<>>)
Run(e) == Do("run", e, 0, 0, "", <<>>)
TickAt(i) == Do("tick", 0, 0, i, "", <<>>)
TickedDo(e, n, i) == Do("ticked", e, n, i, "", <<>>)

Todo == Head(agenda)
Rest == Tail(agenda)
IsNext(op) == agenda # <<>> /\ Todo.op = op
Idle == agenda = <<>>

-------------------------------------------------------------------------------
(* The queue.                                                                 *)

NewHooks == [stop |-> 0, unqueued |-> 0, waiting |-> {}]
HooksOf(e) == IF hooks[e] = <<>> THEN NewHooks ELSE hooks[e][1]

\* Mutant: not waiting for animations outside of the queue.
EmptyFireEarly(e, h) ==
  /\ hooks' = [hooks EXCEPT ![e] = <<>>]
  /\ promises' = [p \in DOMAIN promises |->
                    IF p \in h.waiting THEN promises[p] - 1 ELSE promises[p]]

\* hooks.empty.fire(): unless animations outside of the queue go on, the data of the
\* queue is removed and the promises that wait for it count down.
EmptyFire(e, h) ==
  IF h.unqueued > 0 THEN hooks' = [hooks EXCEPT ![e] = <<h>>] /\ UNCHANGED promises
  ELSE /\ hooks' = [hooks EXCEPT ![e] = <<>>]
       /\ promises' = [p \in DOMAIN promises |->
                         IF p \in h.waiting THEN promises[p] - 1 ELSE promises[p]]

\* dequeue(e, "fx")
Dequeue ==
  /\ IsNext("dequeue")
  /\ LET e == Todo.e
         left == IF queue[e] # <<>> /\ Head(queue[e]) = Inprogress THEN Tail(queue[e]) ELSE queue[e]
     IN IF left = <<>>
        THEN /\ queue' = [queue EXCEPT ![e] = <<>>]
             /\ EmptyFire(e, HooksOf(e))
             /\ agenda' = Rest
             /\ UNCHANGED timeouts
        ELSE LET fn == Head(left)
             IN /\ queue' = [queue EXCEPT ![e] = <<Inprogress>> \o Tail(left)]
                /\ hooks' = [hooks EXCEPT ![e] =
                               <<[HooksOf(e) EXCEPT !.stop = IF fn.is = "delay" THEN fn.id ELSE 0]>>]
                /\ timeouts' = IF fn.is = "delay" THEN timeouts \cup {<<fn.id, e>>} ELSE timeouts
                /\ agenda' = (IF fn.is = "animation" THEN <<AnimateDo(e, fn, "queued")>>
                              ELSE IF fn.is = "function" THEN <<Run(e), DequeueDo(e)>>
                              ELSE <<>>) \o Rest
                /\ UNCHANGED promises
  /\ UNCHANGED <<finish, style, animations, timers, ticking, calls, fate>>

\* The timeout of a delay calls next().
TimeoutFires ==
  /\ Idle
  /\ \E t \in timeouts :
       /\ timeouts' = timeouts \ {t}
       /\ agenda' = <<DequeueDo(t[2])>>
  /\ UNCHANGED <<data, style, animations, timers, ticking, promises, calls, fate>>

-------------------------------------------------------------------------------
(* An animation.                                                              *)

\* Mutant: the data of an animation that was stopped is not looked at.
PlanAnew(s, goal) ==
  [moves |-> goal # "empty" /\ goal # (IF s.hidden THEN "hide" ELSE "show"),
   shows |-> s.hidden,
   start |-> IF s.hidden THEN Least ELSE s.height,
   end |-> IF s.hidden THEN s.height ELSE 0,
   orig |-> s.height,
   fxshow |-> <<[height |-> s.height, hidden |-> ""]>>]

\* What defaultPrefilter() makes of the goal: whether there is something to move, the
\* way, the height to start and to end with and the one to put back at the end.
Plan(s, goal) ==
  LET stored == s.fxshow # <<>>
      hidden == IF stored /\ s.fxshow[1].hidden # "" THEN s.fxshow[1].hidden = "yes" ELSE s.hidden
      own == IF stored THEN s.fxshow[1].height ELSE s.height
  IN [moves |-> goal # "empty" /\ goal # (IF s.hidden THEN "hide" ELSE "show"),
      shows |-> hidden,
      start |-> IF hidden /\ ~stored THEN Least ELSE s.height,
      end |-> IF hidden THEN own ELSE 0,
      orig |-> IF own # 0 THEN own ELSE s.height,
      fxshow |-> <<[height |-> own,
                    hidden |-> IF goal = "toggle" THEN IF hidden THEN "no" ELSE "yes"
                               ELSE IF stored THEN s.fxshow[1].hidden ELSE ""]>>]

\* The element at the start of an animation: its overflow is hidden, and it is shown
\* when there is something to show.
Started(s, goal, plan) ==
  LET clipped == [s EXCEPT !.overflow = IF goal = "empty" THEN @ ELSE "hidden"]
  IN IF ~plan.moves THEN clipped
     ELSE [clipped EXCEPT !.hidden = IF plan.shows THEN FALSE ELSE @, !.height = plan.start,
                          !.fxshow = plan.fxshow]

\* The element when the callbacks of the prefilter have run at the end of animation a.
Ended(s, a, how) ==
  LET unclipped == [s EXCEPT !.overflow = IF a.saved = "" THEN @ ELSE a.saved]
  IN IF how = "resolved" /\ a.moves
     THEN [unclipped EXCEPT !.hidden = IF a.shows THEN @ ELSE TRUE, !.height = a.orig,
                            !.fxshow = <<>>]
     ELSE unclipped

Pending(a) == animations[a].state = "pending"
Begun(e) == {a \in DOMAIN animations : animations[a].e = e /\ Pending(a)}

\* What settling animation n calls after that: complete, which goes on with the
\* queue, and the end of an animation outside of the queue.
Follows(n, a, how) ==
  (IF how = "resolved" THEN <<Run(a.e)>> \o (IF a.queued THEN <<DequeueDo(a.e)>> ELSE <<>>) ELSE <<>>)
  \o (IF a.queued THEN <<>> ELSE <<UnqueueDo(a.e, n)>>)

Unqueue ==
  /\ IsNext("unqueue")
  /\ LET e == Todo.e
         h == [HooksOf(e) EXCEPT !.unqueued = @ - 1]
     IN IF queue[e] = <<>> THEN EmptyFire(e, h)
        ELSE hooks' = [hooks EXCEPT ![e] = <<h>>] /\ UNCHANGED promises
  /\ agenda' = Rest
  /\ UNCHANGED <<queue, finish, style, animations, clock, calls, fate>>

\* The overflow that an animation of the height puts back.
Saved(s, goal) == IF goal = "empty" THEN "" ELSE s.overflow

\* doAnimation: Animation() with its first tick.  An animation that ends with it has
\* no complete callback yet; that is called when it is attached.
Animate ==
  /\ IsNext("animate")
  /\ LET e == Todo.e
         item == Todo.items[1]
         queued == Todo.how = "queued"
         plan == Plan(style[e], item.goal)
         n == Len(animations) + 1
         atOnce == ~plan.moves \/ item.duration = 0
         a == [e |-> e, queued |-> queued, moves |-> plan.moves, shows |-> plan.shows,
               end |-> plan.end, orig |-> plan.orig,
               saved |-> Saved(style[e], item.goal),
               left |-> IF atOnce THEN 0 ELSE item.duration, stopped |-> FALSE,
               fresh |-> \E i \in DOMAIN agenda : agenda[i].op = "tick",
               state |-> IF atOnce THEN "resolved" ELSE "pending"]
         after == <<Do("animated", e, n, 0, item.goal, <<>>)>>
         started == Started(style[e], item.goal, plan)
     IN /\ animations' = Append(animations, a)
        /\ style' = [style EXCEPT ![e] = IF atOnce THEN Ended(started, a, "resolved") ELSE started]
        /\ timers' = IF atOnce THEN timers ELSE Append(timers, n)
        /\ ticking' = (ticking \/ ~atOnce)
        /\ hooks' = IF queued THEN hooks
                    ELSE [hooks EXCEPT ![e] = <<[HooksOf(e) EXCEPT !.unqueued = @ + 1]>>]
        /\ agenda' = (IF ~atOnce THEN <<>>
                      ELSE IF queued THEN Follows(n, a, "resolved")
                      ELSE Reverse(Follows(n, a, "resolved"))) \o after \o Rest
        /\ fate' = [fate EXCEPT !.overlapped = IF Begun(e) # {} THEN @ \cup {e} ELSE @]
  /\ UNCHANGED <<queue, finish, timeouts, promises, calls>>

\* stop(gotoEnd) of an animation that has not been stopped, then the rest.
StopAnimation(n, how, rest) ==
  LET a == animations[n]
      last == IF how = "resolved" /\ a.moves THEN [style[a.e] EXCEPT !.height = a.end] ELSE style[a.e]
  IN /\ animations' = [animations EXCEPT ![n].stopped = TRUE, ![n].state = how]
     /\ style' = [style EXCEPT ![a.e] = Ended(last, a, how)]
     /\ agenda' = Follows(n, a, how) \o rest

\* "Empty animations, or finishing resolves immediately".  One that was over with its first
\* tick has not been stopped: its tweens are run at their end again, behind the callbacks that
\* put things back.  Nobody asks again whether it was stopped, it has no timer.
Animated ==
  /\ IsNext("animated")
  /\ LET n == Todo.a
         a == animations[n]
     IN IF Todo.how # "empty" /\ Todo.e \notin finish
        THEN agenda' = Rest /\ UNCHANGED <<animations, style, fate>>
        ELSE IF Pending(n) THEN StopAnimation(n, "resolved", Rest) /\ UNCHANGED fate
        ELSE /\ style' = IF a.moves THEN [style EXCEPT ![a.e].height = a.end] ELSE style
             /\ fate' = [fate EXCEPT !.shifted = IF a.moves /\ a.end # a.orig THEN @ \cup {a.e} ELSE @]
             /\ agenda' = Rest /\ UNCHANGED animations
  /\ UNCHANGED <<data, clock, promises, calls>>

\* tween.run(): the height with so many ticks left.
HeightAt(a, left) == IF left = 0 THEN a.end ELSE Half

-------------------------------------------------------------------------------
(* The interval.                                                              *)

Tick ==
  /\ Idle /\ ticking
  /\ agenda' = <<TickAt(1)>>
  /\ UNCHANGED <<data, style, animations, clock, promises, calls, fate>>

\* jQuery.fx.tick() comes to timer i: it has been stopped, it goes on, or it ends.
TickTimer ==
  /\ IsNext("tick") /\ Todo.i <= Len(timers)
  /\ LET i == Todo.i
         n == timers[i]
         a == animations[n]
         Go(left, state) ==
           LET moved == [style[a.e] EXCEPT !.height = HeightAt(a, left)]
           IN /\ animations' = [animations EXCEPT ![n].left = left, ![n].state = state]
              /\ style' = [style EXCEPT ![a.e] = IF state = a.state THEN moved ELSE Ended(moved, a, state)]
     IN \/ /\ a.stopped
           /\ timers' = RemoveAt(timers, i)
           /\ agenda' = <<TickAt(i)>> \o Rest
           /\ UNCHANGED <<animations, style>>
        \/ /\ ~a.stopped /\ a.fresh
           /\ agenda' = <<TickAt(i + 1)>> \o Rest
           /\ UNCHANGED <<animations, style, timers>>
        \/ /\ ~a.stopped /\ ~a.fresh /\ a.left > 1
           /\ Go(a.left - 1, a.state)
           /\ agenda' = <<TickAt(i + 1)>> \o Rest
           /\ UNCHANGED timers
        \/ /\ ~a.stopped /\ ~a.fresh /\ a.left <= 1
           /\ Go(0, "resolved")
           /\ agenda' = (IF Pending(n) THEN Follows(n, a, "resolved") ELSE <<>>)
                        \o <<TickedDo(a.e, n, i)>> \o Rest
           /\ UNCHANGED timers
  /\ UNCHANGED <<data, ticking, timeouts, promises, calls, fate>>

\* "Checks the timer has not already been removed"
Ticked ==
  /\ IsNext("ticked")
  /\ LET i == Todo.i
         there == i <= Len(timers) /\ timers[i] = Todo.a
     IN /\ timers' = IF there THEN RemoveAt(timers, i) ELSE timers
        /\ agenda' = <<TickAt(IF there THEN i ELSE i + 1)>> \o Rest
        /\ fate' = [fate EXCEPT !.shifted =
                      IF ~there /\ Todo.a \in ToSet(timers) THEN @ \cup {Todo.e} ELSE @]
  /\ UNCHANGED <<data, style, animations, ticking, timeouts, promises, calls>>

\* Mutant: the interval ends with one timer left.
TickEndsEarly ==
  /\ IsNext("tick") /\ Todo.i > Len(timers)
  /\ ticking' = (Len(timers) > 1)
  /\ animations' = [n \in DOMAIN animations |-> [animations[n] EXCEPT !.fresh = FALSE]]
  /\ agenda' = Rest
  /\ UNCHANGED <<data, style, timers, timeouts, promises, calls, fate>>

TickEnds ==
  /\ IsNext("tick") /\ Todo.i > Len(timers)
  /\ ticking' = (timers # <<>>)
  /\ animations' = [n \in DOMAIN animations |-> [animations[n] EXCEPT !.fresh = FALSE]]
  /\ agenda' = Rest
  /\ UNCHANGED <<data, style, timers, timeouts, promises, calls, fate>>

-------------------------------------------------------------------------------
(* stop() and finish(), which go through the timers from the end.  "how" says *)
(* what becomes of animations; "a" is the animation just stopped.             *)

HaltAt(e, i, how, items) == Do("halt", e, 0, i, how, items)

\* stop(), after it has cleared the queue if asked to: a delay of the element ends.
StopBegins ==
  /\ IsNext("stop")
  /\ LET e == Todo.e
         mine == {t \in timeouts : hooks[e] # <<>> /\ t[1] = hooks[e][1].stop}
     IN /\ timeouts' = timeouts \ mine
        /\ hooks' = IF hooks[e] = <<>> THEN hooks
                    ELSE [hooks EXCEPT ![e] = <<[hooks[e][1] EXCEPT !.stop = 0]>>]
        /\ agenda' = <<HaltAt(e, Len(timers), Todo.how,
                              IF mine = {} THEN <<>> ELSE <<Inprogress>>)>> \o Rest
  /\ UNCHANGED <<queue, finish, style, animations, timers, ticking, promises, calls, fate>>

\* Timer i is one of the element's (finish() takes only those of the queue).
Matches(n) ==
  /\ animations[n].e = Todo.e /\ Pending(n)
  /\ Todo.how = "finish" => animations[n].queued

HaltTimer ==
  /\ IsNext("halt") /\ Todo.i > 0
  /\ LET i == Todo.i
         n == timers[i]
         how == IF Todo.how = "rejected" THEN "rejected" ELSE "resolved"
     IN IF i > Len(timers)                  \* timers[ index ] is undefined: TypeError
        THEN /\ agenda' = <<>>
             /\ fate' = [fate EXCEPT !.wronged = TRUE]
             /\ UNCHANGED <<animations, style>>
        ELSE IF Matches(n)
        THEN /\ StopAnimation(n, how, <<[Todo EXCEPT !.op = "splice", !.a = n]>> \o Rest)
             /\ UNCHANGED fate
        ELSE /\ agenda' = <<[Todo EXCEPT !.i = i - 1]>> \o Rest
             /\ UNCHANGED <<animations, style, fate>>
  /\ UNCHANGED <<data, clock, promises, calls>>

\* timers.splice( index, 1 ), whatever is there by now.
Splice ==
  /\ IsNext("splice")
  /\ LET i == Todo.i
     IN /\ timers' = IF i <= Len(timers) THEN RemoveAt(timers, i) ELSE timers
        /\ fate' = [fate EXCEPT !.wronged =
                      @ \/ (i <= Len(timers) /\ timers[i] # Todo.a /\ Pending(timers[i]))]
        /\ agenda' = <<[Todo EXCEPT !.op = "halt", !.i = i - 1]>> \o Rest
  /\ UNCHANGED <<data, style, animations, ticking, timeouts, promises, calls>>

\* Mutant: stop() never starts the next in the queue after it has stopped something.
StopEndsThere ==
  /\ IsNext("halt") /\ Todo.i = 0 /\ Todo.how # "finish"
  /\ agenda' = (IF Todo.a = 0 THEN <<DequeueDo(Todo.e)>> ELSE <<>>) \o Rest
  /\ UNCHANGED <<data, style, animations, clock, promises, calls, fate>>

\* stop() starts the next in the queue, "if the last step wasn't forced".
StopEnds ==
  /\ IsNext("halt") /\ Todo.i = 0 /\ Todo.how # "finish"
  /\ LET dequeue == Todo.a = 0 \/ Todo.how = "rejected"
     IN /\ agenda' = (IF dequeue THEN <<DequeueDo(Todo.e)>> ELSE <<>>) \o Rest
        /\ fate' = [fate EXCEPT !.forgotten =
                      IF ~dequeue /\ Todo.items # <<>> THEN @ \cup {Todo.e} ELSE @]
  /\ UNCHANGED <<data, style, animations, clock, promises, calls>>

\* finish() goes on with what was in the queue: it runs the animations.
FinishQueue ==
  /\ IsNext("halt") /\ Todo.i = 0 /\ Todo.how = "finish" /\ Todo.items # <<>>
  /\ LET item == Head(Todo.items)
     IN agenda' = (IF item.is = "animation" THEN <<AnimateDo(Todo.e, item, "queued")>> ELSE <<>>)
                  \o <<[Todo EXCEPT !.items = Tail(@)]>> \o Rest
  /\ UNCHANGED <<data, style, animations, clock, promises, calls, fate>>

FinishEnds ==
  /\ IsNext("halt") /\ Todo.i = 0 /\ Todo.how = "finish" /\ Todo.items = <<>>
  /\ finish' = finish \ {Todo.e}
  /\ agenda' = Rest
  /\ UNCHANGED <<queue, hooks, style, animations, clock, promises, calls, fate>>

-------------------------------------------------------------------------------
(* The user's code: in tasks of the event loop, in complete callbacks and in  *)
(* functions of the queue, which call next() at their end.                    *)

Calls(things) ==
  /\ Idle \/ IsNext("run")
  /\ calls < MaxCalls
  /\ calls' = calls + 1
  /\ agenda' = things \o agenda

\* Mutant: queue(fn) starts the queue whatever is in progress.
CallQueueAtOnce(e, item) ==
  /\ queue' = [queue EXCEPT ![e] = Append(@, item)]
  /\ hooks' = [hooks EXCEPT ![e] = <<HooksOf(e)>>]
  /\ Calls(<<DequeueDo(e)>>)
  /\ UNCHANGED <<finish, style, animations, clock, promises, fate>>

\* queue(fn): a queue in which nothing is in progress starts.
CallQueue(e, item) ==
  LET starts == queue[e] = <<>> \/ Head(queue[e]) # Inprogress
  IN /\ queue' = [queue EXCEPT ![e] = Append(@, item)]
     /\ hooks' = [hooks EXCEPT ![e] = <<HooksOf(e)>>]
     /\ Calls(IF starts THEN <<DequeueDo(e)>> ELSE <<>>)
     /\ fate' = [fate EXCEPT !.manual =
                   IF starts /\ DequeueDo(e) \in ToSet(agenda) THEN @ \cup {e} ELSE @]
     /\ UNCHANGED <<finish, style, animations, clock, promises>>

\* animate(); an empty animation is over at once, however long it should take.
CallAnimate(e, goal, duration, queued) ==
  LET item == Item("animation", goal, IF goal = "empty" THEN 0 ELSE duration, 0)
  IN IF queued /\ goal # "empty" THEN CallQueue(e, item)
     ELSE /\ Calls(<<AnimateDo(e, item, IF queued THEN "queued" ELSE "unqueued")>>)
          /\ fate' = [fate EXCEPT !.manual = IF queued THEN @ \cup {e} ELSE @]
          /\ UNCHANGED <<data, style, animations, clock, promises>>

\* dequeue() and clearQueue() by the user, whatever is in progress.
CallDequeue(e, clear) ==
  /\ Calls(<<DequeueDo(e)>>)
  /\ queue' = IF clear THEN [queue EXCEPT ![e] = <<>>] ELSE queue
  /\ fate' = [fate EXCEPT !.manual = @ \cup {e}]
  /\ UNCHANGED <<hooks, finish, style, animations, clock, promises>>

\* stop(clearQueue, gotoEnd)
CallStop(e, clear, gotoEnd) ==
  /\ Calls((IF clear THEN <<DequeueDo(e)>> ELSE <<>>) \o
           <<Do("stop", e, 0, 0, IF gotoEnd THEN "resolved" ELSE "rejected", <<>>)>>)
  /\ queue' = IF clear THEN [queue EXCEPT ![e] = <<>>] ELSE queue
  /\ fate' = [fate EXCEPT !.manual =
                IF clear \/ DequeueDo(e) \in ToSet(agenda) THEN @ \cup {e} ELSE @]
  /\ UNCHANGED <<hooks, finish, style, animations, clock, promises>>

\* finish() empties the queue and ends a delay at once.
CallFinish(e) ==
  /\ Calls(<<HaltAt(e, Len(timers), "finish", queue[e])>>)
  /\ finish' = finish \cup {e}
  /\ queue' = [queue EXCEPT ![e] = <<>>]
  /\ timeouts' = {t \in timeouts : hooks[e] = <<>> \/ t[1] # hooks[e][1].stop}
  /\ fate' = [fate EXCEPT !.forgotten = IF timeouts' # timeouts THEN @ \cup {e} ELSE @,
                          !.manual = IF DequeueDo(e) \in ToSet(agenda) THEN @ \cup {e} ELSE @]
  /\ UNCHANGED <<hooks, style, animations, timers, ticking, promises>>

\* promise() of all the elements counts those with a queue; one more while it counts.
CallPromise ==
  LET busy == {e \in Elements : hooks[e] # <<>>}
      p == Len(promises) + 1
  IN /\ Calls(<<>>)
     /\ promises' = Append(promises, Cardinality(busy))
     /\ hooks' = [e \in Elements |-> IF e \in busy THEN <<[hooks[e][1] EXCEPT !.waiting = @ \cup {p}]>>
                                     ELSE <<>>]
     /\ UNCHANGED <<queue, finish, style, animations, clock, fate>>

Return ==
  /\ IsNext("run")
  /\ agenda' = Rest
  /\ UNCHANGED <<data, style, animations, clock, promises, calls, fate>>

User ==
  \/ \E e \in Elements :
       \/ \E goal \in Goals, duration \in Durations, queued \in BOOLEAN :
            CallAnimate(e, goal, duration, queued)
       \/ CallQueue(e, FunctionItem)
       \/ CallQueue(e, DelayItem(calls + 1))
       \/ \E clear \in BOOLEAN : CallDequeue(e, clear)
       \/ \E clear, gotoEnd \in BOOLEAN : CallStop(e, clear, gotoEnd)
       \/ CallFinish(e)
  \/ CallPromise

\* The event loop waits.
Wait == Idle /\ UNCHANGED vars

Program ==
  \/ Dequeue \/ Unqueue \/ Animate \/ Animated
  \/ TickTimer \/ Ticked \/ TickEnds
  \/ StopBegins \/ HaltTimer \/ Splice \/ StopEnds \/ FinishQueue \/ FinishEnds
  \/ Return

Next == Program \/ Tick \/ TimeoutFires \/ User \/ Wait

\* The interval and the timeouts go on firing, and code that runs comes to its end.
Spec == Init /\ [][Next]_vars /\ WF_vars(Program) /\ WF_vars(Tick) /\ WF_vars(TimeoutFires)

-------------------------------------------------------------------------------
(* Properties.  Some elements are exempt from some of them.  "manual": the    *)
(* queue was emptied or moved on by the user himself, which a callback that   *)
(* calls stop() or finish() does too, since the queue moves on after it       *)
(* anyway, and an empty animation, which does not wait in the queue.          *)
(* "overlapped": an animation began while another one went on.  The rest are  *)
(* ways in which the code itself goes wrong: stop() or finish() from a        *)
(* callback makes the loop of an outer one remove the timer of another        *)
(* animation, or fail ("wronged"); a finished animation sets its last value   *)
(* once more, when tick() leaves it in the list, as a stop() or finish() from *)
(* a callback makes it do, or when finish() stops one that was over with its  *)
(* first tick ("shifted"); and nobody moves the queue on when finish() ends a *)
(* delay, or stop(false, true) a delay and an animation outside of the queue  *)
(* ("forgotten").                                                             *)

QueuedOf(e) == {n \in Begun(e) : animations[n].queued}
DelaysOf(e) == {t \in timeouts : t[2] = e}

\* jquery-l.js:3921-3954, 9334-9366: a queue never gets stuck: when the event loop is
\* free and a queue is not empty, an animation or a delay is on its way to move it on.
QueueMoves ==
  Idle /\ ~fate.wronged =>
    \A e \in Elements \ fate.forgotten :
      queue[e] # <<>> => QueuedOf(e) # {} \/ DelaysOf(e) # {}

\* jquery-l.js:3940-3944: the queue runs one thing at a time.
OneAtATime ==
  ~fate.wronged =>
    \A e \in Elements \ fate.manual : Cardinality(QueuedOf(e)) + Cardinality(DelaysOf(e)) <= 1

\* jquery-l.js:3956-3965, 4018-4045, 9072-9096, 9489-9508: a promise for elements is open
\* exactly as long as one of them that was busy has something in its queue, or outside of
\* it; an element in which something goes on has the hooks by which promises wait for it.
PromiseOpen ==
  Idle =>
    /\ \A p \in DOMAIN promises :
         LET busy == {e \in Elements : hooks[e] # <<>> /\ p \in hooks[e][1].waiting}
         IN /\ promises[p] = Cardinality(busy)
            /\ ~fate.wronged =>
                 \A e \in busy \ fate.forgotten : queue[e] # <<>> \/ hooks[e][1].unqueued > 0
    /\ ~fate.wronged =>
         \A e \in Elements \ fate.manual : Begun(e) # {} \/ DelaysOf(e) # {} => hooks[e] # <<>>

\* jquery-l.js:9122-9186, 9489-9508: when the last thing an element did was to be shown
\* or hidden to the end, it is shown or hidden, with the height it had at first and with
\* its own overflow.  Not so when two animations had the element at a time ("overlapped"), or
\* one set its last value once more ("shifted").
RestoredAtEnd ==
  Idle /\ ~fate.wronged =>
    \A e \in Elements \ (fate.overlapped \cup fate.shifted) :
      LET moved == {n \in DOMAIN animations : animations[n].e = e /\ animations[n].moves}
          last == CHOOSE n \in moved : \A k \in moved : k <= n
      IN Begun(e) = {} =>
           /\ style[e].overflow = "own"
           /\ moved # {} /\ animations[last].state = "resolved" =>
                style[e] = [hidden |-> ~animations[last].shows, height |-> Full,
                            overflow |-> "own", fxshow |-> <<>>]

\* jquery-l.js:9489-9527, 4018-4045: every promise for elements is resolved in the end:
\* animations and delays come to their end, each moves the queue on, and the last one
\* of an element counts the promise down.
PromisesResolved ==
  \A p \in 1..MaxCalls :
    p \in DOMAIN promises ~>
      (fate.wronged \/ fate.forgotten # {} \/ (p \in DOMAIN promises /\ promises[p] = 0))

===============================================================================
