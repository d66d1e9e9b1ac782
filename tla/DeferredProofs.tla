---------------------------- MODULE DeferredProofs -----------------------------
(***************************************************************************)
(* A deferred is what Promise promises: for any number of deferreds and    *)
(* calls, whatever the user's functions call, return or throw meanwhile.   *)
(* First what each operation does to a list, and a list by itself, which   *)
(* has any of the options and any calls made to it while it fires.         *)
(***************************************************************************)
EXTENDS Deferred, DataLemmas

--------------------------------------------------------------------------------
(* What the operations on a list do to its fields                          *)

IsList(cb) ==
  cb \in [options : SUBSET Options, list : {cb.list}, disabled : BOOLEAN, open : BOOLEAN,
          stack : {cb.stack}, memory : {cb.memory}, fired : BOOLEAN, firing : BOOLEAN,
          firingLength : {cb.firingLength}, firingIndex : {cb.firingIndex}]

LEMMA NewCallbacksFields ==
  ASSUME NEW options \in SUBSET Options
  PROVE  LET new == NewCallbacks(options)
         IN  /\ IsList(new)
             /\ new.options = options /\ new.list = <<>> /\ ~new.disabled
             /\ (new.open <=> "once" \notin options)
             /\ new.stack = <<>> /\ new.memory = <<>> /\ ~new.fired /\ ~new.firing
             /\ new.firingLength = 0 /\ new.firingIndex = 0
  BY DEF NewCallbacks, IsList

LEMMA StartFireFields ==
  ASSUME NEW cb, IsList(cb), NEW data, NEW start
  PROVE  LET new == StartFire(cb, data, start)
         IN  /\ IsList(new)
             /\ new.options = cb.options /\ new.list = cb.list /\ (new.disabled <=> cb.disabled)
             /\ (new.open <=> cb.open) /\ new.stack = cb.stack
             /\ new.memory = IF "memory" \in cb.options THEN <<data>> ELSE <<>>
             /\ new.fired /\ new.firing
             /\ new.firingLength = Len(cb.list) /\ new.firingIndex = start
  BY DEF StartFire, IsList

LEMMA DisableFields ==
  ASSUME NEW cb, IsList(cb)
  PROVE  LET new == Disable(cb)
         IN  /\ IsList(new)
             /\ new.options = cb.options /\ new.list = <<>> /\ new.disabled
             /\ ~new.open /\ new.stack = <<>> /\ new.memory = <<>>
             /\ (new.fired <=> cb.fired) /\ (new.firing <=> cb.firing)
             /\ new.firingLength = cb.firingLength /\ new.firingIndex = cb.firingIndex
  BY DEF Disable, IsList

LEMMA PushFields ==
  ASSUME NEW cb, IsList(cb), NEW f
  PROVE  LET new == Push(cb, f)
         IN  /\ IsList(new)
             /\ new.options = cb.options /\ (new.disabled <=> cb.disabled)
             /\ new.list = IF "unique" \in cb.options /\ f \in ToSet(cb.list)
                           THEN cb.list ELSE Append(cb.list, f)
             /\ (new.open <=> cb.open) /\ new.stack = cb.stack /\ new.memory = cb.memory
             /\ (new.fired <=> cb.fired) /\ (new.firing <=> cb.firing)
             /\ new.firingLength = cb.firingLength /\ new.firingIndex = cb.firingIndex
  BY DEF Push, IsList

LEMMA AddFields ==
  ASSUME NEW cb, IsList(cb), NEW f
  PROVE  LET new == Add(cb, f)
             longer == IF "unique" \in cb.options /\ f \in ToSet(cb.list)
                       THEN cb.list ELSE Append(cb.list, f)
         IN  /\ IsList(new)
             /\ new.options = cb.options /\ (new.disabled <=> cb.disabled)
             /\ new.list = IF cb.disabled THEN cb.list ELSE longer
             /\ (new.open <=> cb.open) /\ new.stack = cb.stack
             /\ ~FiresOnAdd(cb) => /\ new.memory = cb.memory
                                   /\ (new.fired <=> cb.fired) /\ (new.firing <=> cb.firing)
                                   /\ new.firingIndex = cb.firingIndex
                                   /\ new.firingLength = IF cb.firing /\ ~cb.disabled
                                                         THEN Len(longer) ELSE cb.firingLength
             /\ FiresOnAdd(cb) => /\ new.memory = IF "memory" \in cb.options
                                                  THEN <<cb.memory[1]>> ELSE <<>>
                                  /\ new.fired /\ new.firing
                                  /\ new.firingIndex = Len(cb.list)
                                  /\ new.firingLength = Len(longer)
  <1> DEFINE pushed == Push(cb, f)
             longer == IF "unique" \in cb.options /\ f \in ToSet(cb.list)
                       THEN cb.list ELSE Append(cb.list, f)
  <1>1. /\ IsList(pushed)
        /\ pushed.options = cb.options /\ (pushed.disabled <=> cb.disabled)
        /\ pushed.list = longer
        /\ (pushed.open <=> cb.open) /\ pushed.stack = cb.stack /\ pushed.memory = cb.memory
        /\ (pushed.fired <=> cb.fired) /\ (pushed.firing <=> cb.firing)
        /\ pushed.firingLength = cb.firingLength /\ pushed.firingIndex = cb.firingIndex
    BY PushFields
  <1> HIDE DEF pushed, longer
  <1>2. CASE cb.disabled
    BY <1>2 DEF Add, FiresOnAdd, longer
  <1>3. CASE ~cb.disabled /\ cb.firing
    <2>1. Add(cb, f) = [pushed EXCEPT !.firingLength = Len(pushed.list)]
      BY <1>3 DEF Add, pushed
    <2> QED
      BY <1>1, <1>3, <2>1 DEF FiresOnAdd, IsList, longer
  <1>4. CASE ~cb.disabled /\ ~cb.firing /\ FiresOnAdd(cb)
    <2> DEFINE started == StartFire(pushed, cb.memory[1], Len(cb.list))
    <2>1. Add(cb, f) = started
      BY <1>4 DEF Add, pushed
    <2>2. /\ IsList(started)
          /\ started.options = cb.options /\ started.list = longer
          /\ (started.disabled <=> cb.disabled)
          /\ (started.open <=> cb.open) /\ started.stack = cb.stack
          /\ started.memory = IF "memory" \in cb.options THEN <<cb.memory[1]>> ELSE <<>>
          /\ started.fired /\ started.firing
          /\ started.firingLength = Len(longer) /\ started.firingIndex = Len(cb.list)
      BY <1>1, StartFireFields
    <2> HIDE DEF started
    <2> QED
      BY <1>4, <2>1, <2>2 DEF longer
  <1>5. CASE ~cb.disabled /\ ~cb.firing /\ ~FiresOnAdd(cb)
    <2>1. Add(cb, f) = pushed
      BY <1>5 DEF Add, pushed
    <2> QED
      BY <1>1, <1>5, <2>1 DEF longer
  <1> QED
    BY <1>2, <1>3, <1>4, <1>5 DEF IsList

LEMMA LockFields ==
  ASSUME NEW cb, IsList(cb)
  PROVE  LET new == Lock(cb)
         IN  /\ IsList(new)
             /\ new.options = cb.options
             /\ new.list = IF cb.memory = <<>> THEN <<>> ELSE cb.list
             /\ (new.disabled <=> cb.disabled \/ cb.memory = <<>>)
             /\ ~new.open /\ new.stack = <<>> /\ new.memory = cb.memory
             /\ (new.fired <=> cb.fired) /\ (new.firing <=> cb.firing)
             /\ new.firingLength = cb.firingLength /\ new.firingIndex = cb.firingIndex
  BY DEF Lock, Disable, IsList

LEMMA FireWithFields ==
  ASSUME NEW cb, IsList(cb), NEW data
  PROVE  LET new == FireWith(cb, data)
         IN  /\ IsList(new)
             /\ new.options = cb.options /\ new.list = cb.list /\ (new.disabled <=> cb.disabled)
             /\ (new.open <=> cb.open)
             /\ ~(Accepts(cb) /\ cb.firing) => new.stack = cb.stack
             /\ ~Starts(cb) => /\ new.memory = cb.memory /\ (new.fired <=> cb.fired)
                               /\ (new.firing <=> cb.firing)
                               /\ new.firingIndex = cb.firingIndex
                               /\ new.firingLength = cb.firingLength
             /\ Starts(cb) => /\ "memory" \in cb.options => new.memory = <<data>>
                              /\ new.fired /\ new.firing
                              /\ new.firingIndex = 0 /\ new.firingLength = Len(cb.list)
  <1>1. CASE ~Accepts(cb)
    BY <1>1 DEF FireWith, Starts
  <1>2. CASE Accepts(cb) /\ cb.firing
    BY <1>2 DEF FireWith, Starts, IsList
  <1>3. CASE Accepts(cb) /\ ~cb.firing
    <2> DEFINE started == StartFire(cb, data, 0)
    <2>1. FireWith(cb, data) = started /\ Starts(cb)
      BY <1>3 DEF FireWith, Starts
    <2>2. /\ IsList(started)
          /\ started.options = cb.options /\ started.list = cb.list
          /\ (started.disabled <=> cb.disabled) /\ (started.open <=> cb.open)
          /\ started.stack = cb.stack
          /\ started.memory = IF "memory" \in cb.options THEN <<data>> ELSE <<>>
          /\ started.fired /\ started.firing
          /\ started.firingLength = Len(cb.list) /\ started.firingIndex = 0
      BY StartFireFields
    <2> HIDE DEF started
    <2> QED
      BY <1>3, <2>1, <2>2
  <1> QED
    BY <1>1, <1>2, <1>3 DEF IsList

LEMMA EndFireFields ==
  ASSUME NEW cb, IsList(cb)
  PROVE  LET new == EndFire(cb)
         IN  /\ IsList(new)
             /\ new.options = cb.options /\ (new.fired <=> cb.fired \/ FiresAgain(cb))
             /\ (new.firing <=> FiresAgain(cb))
             /\ FiresAgain(cb) => /\ new.list = cb.list /\ ~new.disabled /\ new.open
                                  /\ new.stack = Tail(cb.stack)
                                  /\ new.memory = IF "memory" \in cb.options
                                                  THEN <<Head(cb.stack)>> ELSE <<>>
                                  /\ new.firingIndex = 0 /\ new.firingLength = Len(cb.list)
             /\ ~FiresAgain(cb) =>
                  /\ new.firingLength = cb.firingLength /\ new.firingIndex = cb.firingIndex
                  /\ new.memory = cb.memory
                  /\ (new.open <=> cb.open)
                  /\ cb.stack = <<>> => new.stack = <<>>
                  /\ cb.disabled \/ cb.open => /\ new.list = cb.list /\ (new.disabled <=> cb.disabled)
                                               /\ new.stack = cb.stack
                  /\ ~cb.disabled /\ ~cb.open => /\ new.list = <<>>
                                                 /\ (new.disabled <=> cb.memory = <<>>)
  <1>1. CASE cb.disabled
    BY <1>1 DEF EndFire, FiresAgain, IsList
  <1>2. CASE FiresAgain(cb)
    <2> DEFINE popped == [cb EXCEPT !.stack = Tail(@)]
    <2>1. /\ IsList(popped)
          /\ popped.options = cb.options /\ popped.list = cb.list /\ (popped.disabled <=> cb.disabled)
          /\ (popped.open <=> cb.open) /\ popped.stack = Tail(cb.stack)
      BY DEF IsList
    <2>2. EndFire(cb) = StartFire(popped, Head(cb.stack), 0)
      BY <1>2 DEF EndFire, FiresAgain
    <2> HIDE DEF popped
    <2> QED
      BY <1>2, <2>1, <2>2, StartFireFields DEF FiresAgain
  <1>3. CASE ~cb.disabled /\ ~FiresAgain(cb) /\ cb.open
    BY <1>3 DEF EndFire, IsList
  <1>4. CASE ~cb.disabled /\ ~FiresAgain(cb) /\ ~cb.open /\ cb.memory # <<>>
    BY <1>4 DEF EndFire, IsList
  <1>5. CASE ~cb.disabled /\ ~FiresAgain(cb) /\ ~cb.open /\ cb.memory = <<>>
    <2> DEFINE stopped == [cb EXCEPT !.firing = FALSE]
    <2>1. /\ IsList(stopped)
          /\ stopped.options = cb.options /\ ~stopped.firing /\ (stopped.fired <=> cb.fired)
          /\ stopped.firingLength = cb.firingLength /\ stopped.firingIndex = cb.firingIndex
      BY DEF IsList
    <2>2. EndFire(cb) = Disable(stopped)
      BY <1>5 DEF EndFire
    <2> HIDE DEF stopped
    <2> QED
      BY <1>5, <2>1, <2>2, DisableFields
  <1> QED
    BY <1>1, <1>2, <1>3, <1>4, <1>5 DEF IsList

--------------------------------------------------------------------------------
(* The agenda: the loops in it                                             *)

LoopItems(s, l) == {x \in Items(s) : x.op = "loop" /\ x.list = l}

\* A list has at most one loop.
UniqueLoops(s) ==
  \A j, k \in 1..Len(s) :
     s[j].op = "loop" /\ s[k].op = "loop" /\ s[j].list = s[k].list => j = k

NoLoops(s) == \A x \in Items(s) : x.op # "loop"

\* The head is taken off.
LEMMA PopLoops ==
  ASSUME NEW s, IsSeq(s), s # <<>>, UniqueLoops(s)
  PROVE  /\ UniqueLoops(Tail(s))
         /\ \A l : LoopItems(Tail(s), l) = IF Head(s).op = "loop" /\ Head(s).list = l
                                           THEN {} ELSE LoopItems(s, l)
  <1>1. /\ IsSeq(Tail(s))
        /\ Len(Tail(s)) = Len(s) - 1 /\ Len(s) >= 1 /\ Len(s) \in Nat
        /\ \A j \in 1..Len(Tail(s)) : Tail(s)[j] = s[j + 1]
        /\ Head(s) = s[1]
        /\ Items(s) = {Head(s)} \cup Items(Tail(s))
    BY TailIsSeq, IsSeqFacts
  <1>2. \A j \in 1..Len(Tail(s)) : j + 1 \in 1..Len(s) /\ j + 1 # 1 /\ 1 \in 1..Len(s)
    BY <1>1
  <1>3. UniqueLoops(Tail(s))
    <2> SUFFICES ASSUME NEW j \in 1..Len(Tail(s)), NEW k \in 1..Len(Tail(s)),
                        Tail(s)[j].op = "loop", Tail(s)[k].op = "loop",
                        Tail(s)[j].list = Tail(s)[k].list
                 PROVE  j = k
      BY DEF UniqueLoops
    <2>1. j + 1 = k + 1
      BY <1>1, <1>2 DEF UniqueLoops
    <2> QED
      BY <1>1, <2>1
  <1>4. ASSUME NEW l, Head(s).op = "loop", Head(s).list = l
        PROVE  LoopItems(Tail(s), l) = {}
    <2> SUFFICES ASSUME NEW j \in 1..Len(Tail(s)), Tail(s)[j].op = "loop", Tail(s)[j].list = l
                 PROVE  FALSE
      BY DEF LoopItems, Items
    <2> QED
      BY <1>1, <1>2, <1>4 DEF UniqueLoops
  <1>5. ASSUME NEW l, ~(Head(s).op = "loop" /\ Head(s).list = l)
        PROVE  LoopItems(Tail(s), l) = LoopItems(s, l)
    BY <1>1, <1>5 DEF LoopItems
  <1> QED
    BY <1>3, <1>4, <1>5

\* Something is put in front: no loop, or the one loop of its list.
LEMMA PushLoops ==
  ASSUME NEW s, IsSeq(s), UniqueLoops(s), NEW things, IsSeq(things), UniqueLoops(things),
         \A x \in Items(things) : x.op = "loop" => LoopItems(s, x.list) = {}
  PROVE  /\ UniqueLoops(things \o s)
         /\ \A l : LoopItems(things \o s, l) = LoopItems(things, l) \cup LoopItems(s, l)
  <1> DEFINE n == Len(things)
             u == things \o s
  <1>1. /\ IsSeq(u) /\ Len(u) = n + Len(s) /\ n \in Nat /\ Len(s) \in Nat
        /\ \A j \in 1..Len(u) : u[j] = IF j <= n THEN things[j] ELSE s[j - n]
        /\ Items(u) = Items(things) \cup Items(s)
    BY ConcatIsSeq, IsSeqFacts
  <1> HIDE DEF n, u
  <1>2. \A j \in 1..Len(u) : \/ j <= n /\ j \in 1..n /\ u[j] = things[j] /\ u[j] \in Items(things)
                             \/ ~(j <= n) /\ j - n \in 1..Len(s) /\ u[j] = s[j - n] /\ u[j] \in Items(s)
    <2> SUFFICES ASSUME NEW j \in 1..Len(u)
                 PROVE  \/ j <= n /\ j \in 1..n /\ u[j] = things[j] /\ u[j] \in Items(things)
                        \/ ~(j <= n) /\ j - n \in 1..Len(s) /\ u[j] = s[j - n] /\ u[j] \in Items(s)
      OBVIOUS
    <2>1. j <= n => j \in 1..n /\ u[j] = things[j]
      BY <1>1
    <2>2. ~(j <= n) => j - n \in 1..Len(s) /\ u[j] = s[j - n]
      BY <1>1
    <2> QED
      BY <2>1, <2>2 DEF Items, n
  <1>3. \A l : \A x \in LoopItems(things, l) : LoopItems(s, l) = {}
    BY DEF LoopItems
  <1>4. UniqueLoops(u)
    <2> SUFFICES ASSUME NEW j \in 1..Len(u), NEW k \in 1..Len(u),
                        u[j].op = "loop", u[k].op = "loop", u[j].list = u[k].list
                 PROVE  j = k
      BY DEF UniqueLoops
    <2>1. CASE j <= n /\ k <= n
      BY <1>2, <2>1 DEF UniqueLoops, n
    <2>2. CASE ~(j <= n) /\ ~(k <= n)
      <3>1. j - n = k - n
        BY <1>2, <2>2 DEF UniqueLoops
      <3> QED
        BY <1>1, <3>1
    <2>3. CASE j <= n /\ ~(k <= n)
      BY <1>2, <1>3, <2>3 DEF LoopItems
    <2>4. CASE ~(j <= n) /\ k <= n
      BY <1>2, <1>3, <2>4 DEF LoopItems
    <2> QED
      BY <2>1, <2>2, <2>3, <2>4
  <1>5. \A l : LoopItems(u, l) = LoopItems(things, l) \cup LoopItems(s, l)
    BY <1>1 DEF LoopItems
  <1> QED
    BY <1>4, <1>5 DEF u

\* A function put at the end.
LEMMA LongerList ==
  ASSUME NEW list, IsSeq(list), NEW f
  PROVE  LET longer == Append(list, f)
         IN  /\ IsSeq(longer) /\ Len(longer) = Len(list) + 1 /\ longer # <<>>
             /\ longer[Len(list) + 1] = f
             /\ \A k \in 1..Len(list) : longer[k] = list[k]
             /\ \A k \in 1..Len(longer) : k \in 1..Len(list) \/ k = Len(list) + 1
  <1> DEFINE longer == Append(list, f)
             S == Items(list) \cup {f}
  <1>1. Len(list) \in Nat
    BY IsSeqFacts
  <1>2. list \in Seq(S) /\ f \in S
    <2>1. list \in [1..Len(list) -> Items(list)]
      BY LenProperties DEF IsSeq
    <2>2. list \in [1..Len(list) -> S]
      BY <2>1
    <2> QED
      BY <1>1, <2>2, FunctionIsSeq
  <1> HIDE DEF S
  <1>3. /\ longer \in Seq(S) /\ Len(longer) = Len(list) + 1 /\ longer[Len(list) + 1] = f
        /\ \A k \in 1..Len(list) : longer[k] = list[k]
    BY <1>2, AppendProperties
  <1>4. IsSeq(longer)
    BY <1>3, SeqIsSeq
  <1> HIDE DEF longer
  <1>5. longer # <<>>
    BY <1>1, <1>3, <1>4, IsSeqFacts
  <1> QED
    BY <1>1, <1>3, <1>4, <1>5 DEF longer

--------------------------------------------------------------------------------
(* The list by itself                                                      *)

\* An element of a set that is listed upwards has as many up to it as its place says.
LEMMA Rank ==
  ASSUME NEW S \in SUBSET Int, IsFiniteSet(S), NEW c \in Nat, c = Cardinality(S),
         NEW s \in [1..c -> S], \A j, k \in 1..c : j < k => s[j] < s[k], NEW i \in 1..c
  PROVE  Cardinality({x \in S : x <= s[i]}) = i
  <1> DEFINE low == {x \in S : x <= s[i]}
             g == [j \in 1..i |-> s[j]]
  <1>1. /\ IsFiniteSet(1..c) /\ Cardinality(1..c) = c
        /\ IsFiniteSet(1..i) /\ Cardinality(1..i) = i
    <2>1. 1 \in Int /\ c \in Int /\ i \in Int /\ i >= 1 /\ i <= c
      OBVIOUS
    <2> QED
      BY <2>1, FS_Interval
  <1>2. \A j, k \in 1..c : s[j] = s[k] => j = k
    <2> SUFFICES ASSUME NEW j \in 1..c, NEW k \in 1..c, j # k PROVE s[j] # s[k]
      OBVIOUS
    <2>1. j < k \/ k < j
      OBVIOUS
    <2>2. s[j] \in Int /\ s[k] \in Int
      OBVIOUS
    <2> QED
      BY <2>1, <2>2
  <1>3. s \in Injection(1..c, S)
    BY <1>2 DEF Injection, IsInjective
  <1>4. \A x \in S : \E j \in 1..c : s[j] = x
    <2>1. s \in Surjection(1..c, S)
      BY <1>1, <1>3, FS_Injection
    <2> QED
      BY <2>1 DEF Surjection
  <1>5. \A j \in 1..i : j \in 1..c /\ s[j] \in low
    <2> SUFFICES ASSUME NEW j \in 1..i PROVE j \in 1..c /\ s[j] \in low
      OBVIOUS
    <2>1. j \in 1..c /\ (j < i \/ j = i)
      OBVIOUS
    <2>2. s[j] \in Int /\ s[i] \in Int /\ s[j] \in S
      BY <2>1
    <2> QED
      BY <2>1, <2>2
  <1>6. \A x \in low : \E j \in 1..i : s[j] = x
    <2> SUFFICES ASSUME NEW x \in low PROVE \E j \in 1..i : s[j] = x
      OBVIOUS
    <2>1. PICK j \in 1..c : s[j] = x
      BY <1>4
    <2>2. ~(i < j)
      <3>1. s[j] <= s[i] /\ s[j] \in Int /\ s[i] \in Int
        BY <2>1
      <3> QED
        BY <3>1
    <2> QED
      BY <2>1, <2>2
  <1> HIDE DEF low
  <1>7. g \in Bijection(1..i, low)
    <2>1. g \in [1..i -> low] /\ \A j \in 1..i : g[j] = s[j]
      BY <1>5
    <2> HIDE DEF g
    <2>2. g \in Injection(1..i, low)
      BY <1>2, <1>5, <2>1 DEF Injection, IsInjective
    <2>3. g \in Surjection(1..i, low)
      BY <1>6, <2>1 DEF Surjection
    <2> QED
      BY <2>2, <2>3 DEF Bijection
  <1> QED
    BY <1>1, <1>7, FS_Bijection DEF ExistsBijection, low

\* Two elements with as many up to each of them are the same.
LEMMA SameRank ==
  ASSUME NEW S \in SUBSET Int, IsFiniteSet(S), NEW x \in S, NEW y \in S,
         Cardinality({z \in S : z <= x}) = Cardinality({z \in S : z <= y})
  PROVE  x = y
  <1>1. ASSUME NEW p \in S, NEW q \in S, p < q,
               Cardinality({z \in S : z <= p}) = Cardinality({z \in S : z <= q})
        PROVE  FALSE
    <2> DEFINE P == {z \in S : z <= p}
               Q == {z \in S : z <= q}
    <2>1. P \subseteq Q /\ Q \subseteq S
      <3>1. \A z \in S : z \in Int /\ (z <= p => z <= q)
        BY <1>1
      <3> QED
        BY <3>1
    <2>2. q \in Q /\ q \notin P
      BY <1>1
    <2>3. Cardinality(Q) = Cardinality(P)
      BY <1>1
    <2> HIDE DEF P, Q
    <2>4. IsFiniteSet(Q)
      BY <2>1, FS_Subset
    <2>5. Q = P
      BY <2>1, <2>3, <2>4, FS_Subset
    <2> QED
      BY <2>2, <2>5
  <1>2. x < y \/ y < x \/ x = y
    OBVIOUS
  <1> QED
    BY <1>1, <1>2

LEMMA Shifted ==
  ASSUME NEW T \in SUBSET Int, IsFiniteSet(T), NEW a \in Int
  PROVE  IsFiniteSet({a + x : x \in T}) /\ Cardinality({a + x : x \in T}) = Cardinality(T)
  <1> DEFINE U == {a + x : x \in T}
             f == [x \in T |-> a + x]
  <1>1. f \in [T -> U] /\ \A x \in T : f[x] = a + x
    OBVIOUS
  <1>2. \A x, y \in T : a + x = a + y => x = y
    OBVIOUS
  <1>3. \A u \in U : \E x \in T : u = a + x
    OBVIOUS
  <1> HIDE DEF U, f
  <1>4. f \in Injection(T, U)
    BY <1>1, <1>2 DEF Injection, IsInjective
  <1>5. f \in Surjection(T, U)
    BY <1>1, <1>3 DEF Surjection
  <1>6. ExistsBijection(T, U)
    BY <1>4, <1>5 DEF Bijection, ExistsBijection
  <1> QED
    BY <1>6, FS_Bijection DEF U

\* The places of 1..n that are left, those past a that are not, counted from a, and how
\* many places of a set are not past y.
Left(n, gone) == (1..n) \ gone
LostBehind(n, a, gone) == {k \in 1..(n - a) : a + k \in gone}
UpTo(S, y) == Cardinality({x \in S : x <= y})

\* What is left of 1..n, seen from the place a.
LeftBehindIs(a, b, left, behind) ==
  /\ IsFiniteSet(left) /\ IsFiniteSet(behind) /\ b \in Nat /\ b <= a
  /\ Cardinality(left) = (a - b) + Cardinality(behind)
  /\ \A y \in behind : a + y \in left /\ UpTo(left, a + y) = (a - b) + UpTo(behind, y)

LEMMA LeftBehind ==
  ASSUME NEW n \in Nat, NEW a \in 0..n, NEW gone \in SUBSET (1..n)
  PROVE  LeftBehindIs(a, UpTo(gone, a), Left(n, gone), Left(n - a, LostBehind(n, a, gone)))
  <1> DEFINE left == (1..n) \ gone
             behind == (1..(n - a)) \ {k \in 1..(n - a) : a + k \in gone}
             lost == {k \in gone : k <= a}
             before == (1..a) \ lost
  <1>1. n \in Int /\ a \in Int /\ n - a \in Int /\ 1 \in Int /\ a >= 0 /\ n >= a
    OBVIOUS
  <1>2. /\ IsFiniteSet(1..n) /\ IsFiniteSet(1..(n - a)) /\ IsFiniteSet(1..a)
        /\ Cardinality(1..a) = a
    <2>1. IsFiniteSet(1..n) /\ IsFiniteSet(1..(n - a)) /\ IsFiniteSet(1..a)
      BY <1>1, FS_Interval
    <2>2. Cardinality(1..a) = IF 1 > a THEN 0 ELSE a - 1 + 1
      BY <1>1, FS_Interval
    <2> QED
      BY <1>1, <2>1, <2>2
  <1>3. IsFiniteSet(left) /\ IsFiniteSet(behind) /\ IsFiniteSet(before)
    BY <1>2, FS_Subset
  <1>4. lost \subseteq 1..a
    <2> SUFFICES ASSUME NEW k \in lost PROVE k \in 1..a
      OBVIOUS
    <2>1. k \in 1..n /\ k <= a
      OBVIOUS
    <2> QED
      BY <1>1, <2>1
  <1>5. IsFiniteSet(lost) /\ Cardinality(lost) \in Nat /\ Cardinality(lost) <= a
    BY <1>2, <1>4, FS_Subset, FS_CardinalityType
  <1>6. Cardinality(before) = a - Cardinality(lost)
    <2>1. (1..a) \cap lost = lost
      BY <1>4
    <2> HIDE DEF lost
    <2>2. Cardinality(before) = Cardinality(1..a) - Cardinality((1..a) \cap lost)
      BY <1>2, FS_Difference
    <2> QED
      BY <1>2, <2>1, <2>2
  <1>7. \A y \in behind : y \in Int /\ y >= 1 /\ a + y \in left /\ a + y > a
    BY <1>1
  <1>8. \A x \in left : x \in Int /\ (x <= a => x \in before) /\ (x > a => x - a \in behind)
    <2> SUFFICES ASSUME NEW x \in left
                 PROVE  x \in Int /\ (x <= a => x \in before) /\ (x > a => x - a \in behind)
      OBVIOUS
    <2>1. x \in Int /\ 1 <= x /\ x <= n /\ x \notin gone
      BY <1>1
    <2>2. ASSUME x > a PROVE x - a \in behind
      <3>1. x - a \in 1..(n - a) /\ a + (x - a) = x
        BY <1>1, <2>1, <2>2
      <3> QED
        BY <2>1, <3>1
    <2>3. ASSUME x <= a PROVE x \in before
      BY <1>1, <2>1, <2>3
    <2> QED
      BY <2>1, <2>2, <2>3
  <1>9. \A x \in before : x \in left /\ x \in Int /\ x <= a
    <2> SUFFICES ASSUME NEW x \in before PROVE x \in left /\ x \in Int /\ x <= a
      OBVIOUS
    <2>1. x \in Int /\ 1 <= x /\ x <= a /\ x <= n
      BY <1>1
    <2>2. x \notin gone
      BY <2>1
    <2> QED
      BY <1>1, <2>1, <2>2
  <1> HIDE DEF left, behind, before, lost
  \* What is left up to some place past a: what is left up to a, and more.
  <1>10. ASSUME NEW T \in SUBSET behind, NEW L \in SUBSET left, before \subseteq L,
                \A x \in left : x > a => (x \in L <=> x - a \in T)
         PROVE  Cardinality(L) = (a - Cardinality(lost)) + Cardinality(T)
    <2> DEFINE U == {a + x : x \in T}
    <2>1. T \in SUBSET Int /\ IsFiniteSet(T)
      BY <1>3, <1>7, <1>10, FS_Subset
    <2>2. IsFiniteSet(U) /\ Cardinality(U) = Cardinality(T)
      BY <1>1, <2>1, Shifted
    <2>3. before \cap U = {}
      BY <1>7, <1>9, <1>10
    <2>4. L = before \cup U
      <3>1. \A x \in L : x \in before \/ x \in U
        <4> SUFFICES ASSUME NEW x \in L PROVE x \in before \/ x \in U
          OBVIOUS
        <4>1. x \in left /\ x \in Int /\ (x <= a => x \in before)
          BY <1>8, <1>10
        <4>2. x > a => x - a \in T /\ a + (x - a) = x
          BY <1>1, <1>10, <4>1
        <4> QED
          BY <1>1, <4>1, <4>2
      <3>2. \A x \in T : a + x \in L
        <4> SUFFICES ASSUME NEW x \in T PROVE a + x \in L
          OBVIOUS
        <4>1. x \in Int /\ a + x \in left /\ a + x > a
          BY <1>7, <1>10
        <4>2. (a + x) - a = x
          BY <1>1, <4>1
        <4> QED
          BY <1>10, <4>1, <4>2
      <3> QED
        BY <1>10, <3>1, <3>2
    <2> HIDE DEF U
    <2>5. Cardinality(L) = Cardinality(before) + Cardinality(U) - Cardinality({})
      BY <1>3, <2>2, <2>3, <2>4, FS_Union
    <2>6. Cardinality({}) = 0 /\ Cardinality(T) \in Nat
      BY <2>1, FS_EmptySet, FS_CardinalityType
    <2> QED
      BY <1>1, <1>5, <1>6, <2>2, <2>5, <2>6
  <1>11. Cardinality(left) = (a - Cardinality(lost)) + Cardinality(behind)
    <2>1. before \subseteq left /\ \A x \in left : x > a => (x \in left <=> x - a \in behind)
      BY <1>8, <1>9
    <2> QED
      BY <1>10, <2>1
  <1>12. ASSUME NEW y \in behind
         PROVE  Cardinality({x \in left : x <= a + y})
                  = (a - Cardinality(lost)) + Cardinality({x \in behind : x <= y})
    <2> DEFINE L == {x \in left : x <= a + y}
               T == {x \in behind : x <= y}
    <2>1. y \in Int /\ y >= 1
      BY <1>7
    <2>2. before \subseteq L
      BY <1>1, <1>9, <2>1
    <2>3. \A x \in left : x > a => (x \in L <=> x - a \in T)
      <3> SUFFICES ASSUME NEW x \in left, x > a PROVE x \in L <=> x - a \in T
        OBVIOUS
      <3>1. x \in Int /\ x - a \in behind /\ (x <= a + y <=> x - a <= y)
        BY <1>1, <1>8, <2>1
      <3> QED
        BY <3>1
    <2>4. L \in SUBSET left /\ T \in SUBSET behind
      OBVIOUS
    <2> HIDE DEF L, T
    <2>5. Cardinality(L) = (a - Cardinality(lost)) + Cardinality(T)
      BY <1>10, <2>2, <2>3, <2>4
    <2> QED
      BY <2>5 DEF L, T
  <1>13. \A y \in behind : a + y \in left
    BY <1>7
  <1>14. /\ IsFiniteSet(left) /\ IsFiniteSet(behind)
         /\ Cardinality(lost) \in Nat /\ Cardinality(lost) <= a
         /\ Cardinality(left) = (a - Cardinality(lost)) + Cardinality(behind)
         /\ \A y \in behind :
              /\ a + y \in left
              /\ Cardinality({x \in left : x <= a + y})
                   = (a - Cardinality(lost)) + Cardinality({x \in behind : x <= y})
    BY <1>3, <1>5, <1>11, <1>12, <1>13
  <1>15. LeftBehindIs(a, Cardinality(lost), left, behind)
    BY <1>14 DEF LeftBehindIs, UpTo
  <1> QED
    BY <1>15 DEF left, behind, lost, UpTo, Left, LostBehind

\* The positions of a list that are left stay in their order.
KeptAre(list, left, rest) ==
  \E kept \in [1..Cardinality(left) -> left] :
    /\ \A j, k \in 1..Cardinality(left) : j < k => kept[j] < kept[k]
    /\ rest = [j \in 1..Cardinality(left) |-> list[kept[j]]]

\* What is left of a list keeps its order; here it matters what is in it, and how much.
LEMMA WithoutFacts ==
  ASSUME NEW list, IsSeq(list), NEW gone \in SUBSET (1..Len(list))
  PROVE  /\ IsSeq(Without(list, gone))
         /\ Items(Without(list, gone)) \subseteq Items(list)
         /\ Cardinality(gone) \in Nat
         /\ Len(Without(list, gone)) = Len(list) - Cardinality(gone)
         /\ KeptAre(list, (1..Len(list)) \ gone, Without(list, gone))
  <1> DEFINE n == Len(list)
             left == (1..n) \ gone
             R == {p \in (1..n) \X (1..n) : p[1] < p[2]}
             c == Cardinality(left)
             Kept == {s \in [1..c -> left] : \A j, k \in DOMAIN s : j < k => s[j] < s[k]}
             kept == CHOOSE s \in [1..c -> left] : \A j, k \in DOMAIN s : j < k => s[j] < s[k]
  <1>1. n \in Nat /\ DOMAIN list = 1..n
    BY IsSeqFacts
  <1>2. IsFiniteSet(1..n) /\ Cardinality(1..n) = n
    <2>1. n \in Int /\ 1 \in Int /\ (1 > n => n = 0) /\ (n - 1) + 1 = n
      BY <1>1
    <2> HIDE DEF n
    <2>2. /\ IsFiniteSet(1..n)
          /\ Cardinality(1..n) = IF 1 > n THEN 0 ELSE (n - 1) + 1
      BY <2>1, FS_Interval
    <2> QED
      BY <2>1, <2>2
  <1>3. /\ IsFiniteSet(left) /\ IsFiniteSet(gone)
    BY <1>2, FS_Subset
  <1>4. Cardinality(gone) \in Nat /\ c \in Nat
    BY <1>3, FS_CardinalityType
  <1>5. c = n - Cardinality(gone)
    <2>1. Cardinality((1..n) \ gone) = Cardinality(1..n) - Cardinality((1..n) \cap gone)
      BY <1>2, FS_Difference
    <2>2. (1..n) \cap gone = gone
      OBVIOUS
    <2> QED
      BY <1>2, <2>1, <2>2
  <1>6. InLine(left, R)
    <2>1. \A j \in left : j \in 1..n /\ j \in Int
      BY <1>1
    <2>2. \A j, k \in left : <<j, k>> \in R <=> j < k
      <3> SUFFICES ASSUME NEW j \in left, NEW k \in left PROVE <<j, k>> \in R <=> j < k
        OBVIOUS
      <3>1. <<j, k>> \in (1..n) \X (1..n) /\ <<j, k>>[1] = j /\ <<j, k>>[2] = k
        BY <2>1
      <3> QED
        BY <3>1
    <2> HIDE DEF left, R
    <2>3. \A j, k \in left : j # k => <<j, k>> \in R \/ <<k, j>> \in R
      BY <2>1, <2>2
    <2>4. \A j, k, i \in left : <<j, k>> \in R /\ <<k, i>> \in R => <<j, i>> \in R
      BY <2>1, <2>2
    <2>5. \A j \in left : <<j, j>> \notin R
      BY <2>1, <2>2
    <2> QED
      BY <2>3, <2>4, <2>5 DEF InLine
  <1>7. Listing(left, R) # {}
    <2> HIDE DEF left, R
    <2> QED
      BY <1>3, <1>6, ListingExists
  <1>8. Kept # {}
    <2>1. PICK s \in Listing(left, R) : TRUE
      BY <1>7
    <2>2. s \in [1..c -> left] /\ \A j, k \in 1..c : j < k => s[j] < s[k]
      BY <2>1 DEF Listing
    <2> QED
      BY <2>2
  <1>9. kept \in [1..c -> left] /\ \A j, k \in 1..c : j < k => kept[j] < kept[k]
    BY <1>8
  <1> DEFINE rest == [j \in DOMAIN kept |-> list[kept[j]]]
  <1>10. Without(list, gone) = rest
    BY <1>1 DEF Without
  <1>15. KeptAre(list, left, rest)
    <2>1. rest = [j \in 1..c |-> list[kept[j]]]
      BY <1>9
    <2> HIDE DEF kept, rest
    <2> QED
      BY <1>9, <2>1 DEF KeptAre
  <1> HIDE DEF kept, c
  <1>16. KeptAre(list, (1..Len(list)) \ gone, rest)
    BY <1>15
  <1> HIDE DEF left
  <1>11. \A j \in 1..c : kept[j] \in 1..n
    BY <1>9 DEF left
  <1>12. rest \in [1..c -> Items(list)]
    BY <1>9, <1>11 DEF Items
  <1> HIDE DEF rest
  <1>13. rest \in Seq(Items(list)) /\ Len(rest) = c
    BY <1>4, <1>12, FunctionIsSeq
  <1>14. IsSeq(rest) /\ Items(rest) \subseteq Items(list)
    BY <1>13, SeqIsSeq
  <1> QED
    BY <1>4, <1>5, <1>10, <1>13, <1>14, <1>16

\* What stands behind the place a in a list is without these what stands behind the
\* place that a then is.
LEMMA WithoutBehind ==
  ASSUME NEW list, IsSeq(list), NEW a \in 0..Len(list), NEW gone \in SUBSET (1..Len(list))
  PROVE  LET n == Len(list)
             b == UpTo(gone, a)
             rest == Without(list, gone)
         IN  /\ b \in Nat /\ a - b \in 0..Len(rest)
             /\ Without(SubSeq(list, a + 1, n), LostBehind(n, a, gone))
                  = SubSeq(rest, (a - b) + 1, Len(rest))
  <1> DEFINE n == Len(list)
             b == UpTo(gone, a)
             rest == Without(list, gone)
             tail == SubSeq(list, a + 1, n)
             lost == LostBehind(n, a, gone)
             after == Without(tail, lost)
             left == Left(n, gone)
             behind == Left(n - a, lost)
             c == Cardinality(left)
             d == Cardinality(behind)
  <1>1. n \in Nat /\ a \in Nat /\ a <= n /\ n - a \in Nat
    BY IsSeqFacts
  <1>2. IsSeq(tail) /\ Len(tail) = n - a /\ \A k \in 1..(n - a) : tail[k] = list[a + k]
    <2>1. \A i \in (a + 1)..n : list[i] \in Items(list)
      BY <1>1 DEF Items
    <2>2. /\ tail \in Seq(Items(list))
          /\ Len(tail) = IF a + 1 <= n THEN n - (a + 1) + 1 ELSE 0
          /\ \A k \in 1..(n - (a + 1) + 1) : tail[k] = list[(a + 1) + k - 1]
      BY <1>1, <2>1, SubSeqProperties
    <2>3. Len(tail) = n - a /\ n - (a + 1) + 1 = n - a
      BY <1>1, <2>2
    <2>4. \A k \in 1..(n - a) : (a + 1) + k - 1 = a + k
      BY <1>1
    <2> HIDE DEF tail, n
    <2> QED
      BY <2>2, <2>3, <2>4, SeqIsSeq
  <1>3. IsSeq(rest) /\ KeptAre(list, left, rest)
    BY WithoutFacts DEF Left
  <1>4. IsSeq(after) /\ KeptAre(tail, behind, after)
    <2>1. lost \in SUBSET (1..Len(tail))
      BY <1>2 DEF LostBehind
    <2> HIDE DEF tail, lost
    <2>2. IsSeq(after) /\ KeptAre(tail, (1..Len(tail)) \ lost, after)
      BY <1>2, <2>1, WithoutFacts
    <2> QED
      BY <1>2, <2>2 DEF Left
  <1>5. /\ IsFiniteSet(left) /\ IsFiniteSet(behind) /\ b \in Nat /\ b <= a
        /\ c = (a - b) + d
        /\ \A y \in behind :
             /\ a + y \in left
             /\ Cardinality({x \in left : x <= a + y}) = (a - b) + Cardinality({x \in behind : x <= y})
    <2>1. LeftBehindIs(a, b, left, behind)
      BY <1>1, LeftBehind
    <2> HIDE DEF b, left, behind, n
    <2> QED
      BY <2>1 DEF LeftBehindIs, UpTo
  <1>6. c \in Nat /\ d \in Nat
    BY <1>5, FS_CardinalityType
  <1>7. left \in SUBSET Int /\ behind \in SUBSET Int /\ \A y \in behind : y \in 1..(n - a)
    BY DEF Left
  <1> HIDE DEF b, rest, tail, lost, after, left, behind, n
  <1>8. PICK kept \in [1..c -> left] :
          /\ \A j, k \in 1..c : j < k => kept[j] < kept[k]
          /\ rest = [j \in 1..c |-> list[kept[j]]]
    BY <1>3 DEF KeptAre
  <1>9. PICK more \in [1..d -> behind] :
          /\ \A j, k \in 1..d : j < k => more[j] < more[k]
          /\ after = [j \in 1..d |-> tail[more[j]]]
    BY <1>4 DEF KeptAre
  <1> DEFINE r == a - b
  <1>10. r \in Nat /\ c = r + d
    BY <1>1, <1>5, <1>6
  <1>11. Len(rest) = c /\ Len(after) = d
    <2>1. DOMAIN rest = 1..c /\ DOMAIN after = 1..d
      BY <1>8, <1>9
    <2>2. DOMAIN rest = 1..Len(rest) /\ DOMAIN after = 1..Len(after)
          /\ Len(rest) \in Nat /\ Len(after) \in Nat
      BY <1>3, <1>4, IsSeqFacts
    <2> HIDE DEF c, d
    <2> QED
      BY <1>6, <2>1, <2>2
  <1>12. ASSUME NEW j \in 1..d
         PROVE  r + j \in 1..c /\ rest[r + j] = after[j]
    <2>1. r + j \in 1..c /\ j \in Nat
      BY <1>6, <1>10
    <2> DEFINE y == more[j]
               x == kept[r + j]
    <2>2. y \in behind /\ x \in left /\ a + y \in left
      BY <1>5, <1>8, <1>9, <2>1
    <2>3. Cardinality({z \in behind : z <= y}) = j
      <3> HIDE DEF y
      <3> QED
        BY <1>5, <1>6, <1>7, <1>9, Rank DEF y
    <2>4. Cardinality({z \in left : z <= x}) = r + j
      <3> DEFINE p == r + j
      <3>1. p \in 1..c
        BY <2>1
      <3> HIDE DEF p
      <3>2. Cardinality({z \in left : z <= kept[p]}) = p
        BY <1>5, <1>6, <1>7, <1>8, <3>1, Rank
      <3> QED
        BY <3>2 DEF p
    <2> HIDE DEF x, y, c, d
    <2>5. Cardinality({z \in left : z <= a + y}) = r + j
      BY <1>5, <2>2, <2>3
    <2>6. x = a + y
      <3> DEFINE w == a + y
      <3>1. left \in SUBSET Int /\ IsFiniteSet(left) /\ x \in left /\ w \in left
        BY <1>5, <1>7, <2>2
      <3>2. Cardinality({z \in left : z <= x}) = Cardinality({z \in left : z <= w})
        BY <2>4, <2>5
      <3> HIDE DEF w
      <3>3. x = w
        BY <3>1, <3>2, SameRank
      <3> QED
        BY <3>3 DEF w
    <2>7. rest[r + j] = list[x] /\ after[j] = tail[y]
      BY <1>8, <1>9, <2>1 DEF x, y
    <2>8. tail[y] = list[a + y]
      BY <1>2, <1>7, <2>2
    <2> QED
      BY <2>1, <2>6, <2>7, <2>8
  <1> DEFINE sub == SubSeq(rest, r + 1, c)
  <1>13. sub \in Seq(Items(rest)) /\ Len(sub) = d /\ \A j \in 1..d : sub[j] = rest[r + j]
    <2> HIDE DEF r, c, d
    <2>1. \A i \in (r + 1)..c : rest[i] \in Items(rest)
      BY <1>6, <1>10, <1>11 DEF Items
    <2>2. /\ sub \in Seq(Items(rest))
          /\ Len(sub) = IF r + 1 <= c THEN c - (r + 1) + 1 ELSE 0
          /\ \A j \in 1..(c - (r + 1) + 1) : sub[j] = rest[(r + 1) + j - 1]
      BY <1>6, <1>10, <2>1, SubSeqProperties
    <2>3. c - (r + 1) + 1 = d
      BY <1>6, <1>10
    <2>4. \A j \in 1..d : (r + 1) + j - 1 = r + j
      BY <1>6, <1>10
    <2>5. Len(sub) = d
      BY <1>6, <1>10, <2>2
    <2> HIDE DEF sub
    <2> QED
      BY <2>2, <2>3, <2>4, <2>5
  <1> HIDE DEF sub, r, c, d
  <1>14. after = sub
    <2>1. sub = [j \in 1..d |-> sub[j]]
      BY <1>13, LenProperties
    <2>2. after = [j \in 1..d |-> after[j]]
      BY <1>9
    <2> QED
      BY <1>12, <1>13, <2>1, <2>2
  <1>15. b \in Nat /\ r \in 0..Len(rest) /\ after = SubSeq(rest, r + 1, Len(rest))
    <2>1. r \in 0..c
      BY <1>6, <1>10
    <2> QED
      BY <1>5, <1>11, <1>14, <2>1 DEF sub
  <1> QED
    BY <1>15 DEF r, rest, after, tail, lost, n, b

\* The list, whatever its options: a loop goes over the whole of it.
PlainOK(cb) ==
  /\ IsList(cb) /\ IsSeq(cb.list)
  /\ \A f \in Items(cb.list) : f.is = "user"
  /\ cb.firing => cb.fired
  /\ cb.firingIndex \in Int /\ cb.firingIndex >= -1 /\ cb.firingLength \in Nat
  /\ cb.firing /\ ~cb.disabled => cb.firingLength = Len(cb.list)
  /\ cb.disabled => cb.list = <<>>

LEMMA PlainNew ==
  ASSUME NEW options \in SUBSET Options
  PROVE  PlainOK(NewCallbacks(options))
  BY NewCallbacksFields, ShortIsSeq DEF PlainOK

LEMMA PlainAdd ==
  ASSUME NEW cb, PlainOK(cb), NEW f, f.is = "user"
  PROVE  /\ PlainOK(Add(cb, f))
         /\ FiresOnAdd(cb) => Add(cb, f).firingIndex >= 0
         /\ cb.firing \/ FiresOnAdd(cb) => Add(cb, f).firing
  <1> DEFINE new == Add(cb, f)
             longer == IF "unique" \in cb.options /\ f \in ToSet(cb.list)
                       THEN cb.list ELSE Append(cb.list, f)
  <1>1. IsList(cb) /\ IsSeq(cb.list) /\ Len(cb.list) \in Nat
    BY IsSeqFacts DEF PlainOK
  <1>2. /\ IsList(new)
        /\ new.options = cb.options /\ (new.disabled <=> cb.disabled)
        /\ new.list = IF cb.disabled THEN cb.list ELSE longer
        /\ ~FiresOnAdd(cb) => /\ (new.fired <=> cb.fired) /\ (new.firing <=> cb.firing)
                              /\ new.firingIndex = cb.firingIndex
                              /\ new.firingLength = IF cb.firing /\ ~cb.disabled
                                                    THEN Len(longer) ELSE cb.firingLength
        /\ FiresOnAdd(cb) => /\ new.fired /\ new.firing
                             /\ new.firingIndex = Len(cb.list)
                             /\ new.firingLength = Len(longer)
    BY <1>1, AddFields
  <1>3. /\ IsSeq(longer) /\ Len(longer) \in Nat
        /\ \A g \in Items(longer) : g.is = "user"
    <2>1. CASE "unique" \in cb.options /\ f \in ToSet(cb.list)
      BY <1>1, <2>1 DEF PlainOK
    <2>2. CASE ~("unique" \in cb.options /\ f \in ToSet(cb.list))
      <3> DEFINE more == Append(cb.list, f)
                 size == Len(cb.list)
      <3>1. /\ IsSeq(more) /\ Len(more) = size + 1 /\ more[size + 1] = f
            /\ \A k \in 1..size : more[k] = cb.list[k]
            /\ \A k \in 1..Len(more) : k \in 1..size \/ k = size + 1
        BY <1>1, LongerList
      <3>2. longer = more
        BY <2>2
      <3>3. \A k \in 1..size : cb.list[k].is = "user"
        BY DEF PlainOK, Items
      <3> HIDE DEF more, longer, size
      <3>4. \A k \in 1..Len(more) : more[k].is = "user"
        BY <3>1, <3>3
      <3>5. Len(more) \in Nat
        BY <1>1, <3>1 DEF size
      <3> QED
        BY <3>1, <3>2, <3>4, <3>5 DEF Items
    <2> QED
      BY <2>1, <2>2
  <1> HIDE DEF new, longer
  <1>4. CASE cb.disabled
    <2>1. ~FiresOnAdd(cb)
      BY <1>4 DEF FiresOnAdd
    <2>2. PlainOK(new)
      BY <1>2, <1>4, <2>1 DEF PlainOK
    <2> QED
      BY <1>2, <2>1, <2>2 DEF new
  <1>5. CASE ~cb.disabled /\ FiresOnAdd(cb)
    <2>1. PlainOK(new)
      BY <1>1, <1>2, <1>3, <1>5 DEF PlainOK
    <2> QED
      BY <1>1, <1>2, <1>5, <2>1 DEF new
  <1>6. CASE ~cb.disabled /\ ~FiresOnAdd(cb)
    <2>1. PlainOK(new)
      BY <1>1, <1>2, <1>3, <1>6 DEF PlainOK
    <2> QED
      BY <1>2, <1>6, <2>1 DEF new
  <1> QED
    BY <1>4, <1>5, <1>6

LEMMA PlainFire ==
  ASSUME NEW cb, PlainOK(cb), NEW data
  PROVE  /\ PlainOK(FireWith(cb, data))
         /\ Starts(cb) => FireWith(cb, data).firingIndex >= 0
         /\ cb.firing \/ Starts(cb) => FireWith(cb, data).firing
  <1> DEFINE new == FireWith(cb, data)
  <1>1. IsList(cb) /\ IsSeq(cb.list) /\ Len(cb.list) \in Nat
    BY IsSeqFacts DEF PlainOK
  <1>2. /\ IsList(new)
        /\ new.list = cb.list /\ (new.disabled <=> cb.disabled)
        /\ ~Starts(cb) => /\ (new.fired <=> cb.fired) /\ (new.firing <=> cb.firing)
                          /\ new.firingIndex = cb.firingIndex /\ new.firingLength = cb.firingLength
        /\ Starts(cb) => /\ new.fired /\ new.firing
                         /\ new.firingIndex = 0 /\ new.firingLength = Len(cb.list)
    BY <1>1, FireWithFields
  <1> HIDE DEF new
  <1>3. CASE Starts(cb)
    <2>1. PlainOK(new)
      BY <1>1, <1>2, <1>3 DEF PlainOK
    <2> QED
      BY <1>2, <1>3, <2>1 DEF new
  <1>4. CASE ~Starts(cb)
    <2>1. PlainOK(new)
      BY <1>2, <1>4 DEF PlainOK
    <2> QED
      BY <1>2, <1>4, <2>1 DEF new
  <1> QED
    BY <1>3, <1>4

LEMMA PlainDisable ==
  ASSUME NEW cb, PlainOK(cb)
  PROVE  PlainOK(Disable(cb)) /\ (Disable(cb).firing <=> cb.firing)
  <1> DEFINE new == Disable(cb)
  <1>1. /\ IsList(new)
        /\ new.list = <<>> /\ new.disabled
        /\ (new.fired <=> cb.fired) /\ (new.firing <=> cb.firing)
        /\ new.firingLength = cb.firingLength /\ new.firingIndex = cb.firingIndex
    BY DisableFields DEF PlainOK
  <1> HIDE DEF new
  <1>2. IsSeq(new.list) /\ Items(new.list) = {}
    BY <1>1, ShortIsSeq
  <1>3. PlainOK(new)
    BY <1>1, <1>2 DEF PlainOK
  <1> QED
    BY <1>1, <1>3 DEF new

LEMMA PlainLock ==
  ASSUME NEW cb, PlainOK(cb)
  PROVE  PlainOK(Lock(cb)) /\ (Lock(cb).firing <=> cb.firing)
  <1> DEFINE new == Lock(cb)
  <1>1. /\ IsList(new)
        /\ new.list = IF cb.memory = <<>> THEN <<>> ELSE cb.list
        /\ (new.disabled <=> cb.disabled \/ cb.memory = <<>>)
        /\ (new.fired <=> cb.fired) /\ (new.firing <=> cb.firing)
        /\ new.firingLength = cb.firingLength /\ new.firingIndex = cb.firingIndex
    BY LockFields DEF PlainOK
  <1> HIDE DEF new
  <1>2. IsSeq(<<>>) /\ Items(<<>>) = {}
    BY ShortIsSeq
  <1>3. CASE cb.memory = <<>>
    <2>1. IsSeq(new.list) /\ Items(new.list) = {} /\ new.list = <<>> /\ new.disabled
      BY <1>1, <1>2, <1>3
    <2>2. PlainOK(new)
      BY <1>1, <2>1 DEF PlainOK
    <2> QED
      BY <1>1, <2>2 DEF new
  <1>4. CASE cb.memory # <<>>
    <2>1. PlainOK(new)
      BY <1>1, <1>4 DEF PlainOK
    <2> QED
      BY <1>1, <2>1 DEF new
  <1> QED
    BY <1>3, <1>4

LEMMA PlainEmpty ==
  ASSUME NEW cb, PlainOK(cb)
  PROVE  PlainOK(Empty(cb)) /\ (Empty(cb).firing <=> cb.firing)
  <1> DEFINE new == Empty(cb)
  <1>1. /\ IsList(new)
        /\ new.list = <<>> /\ ~new.disabled
        /\ (new.fired <=> cb.fired) /\ (new.firing <=> cb.firing)
        /\ new.firingLength = 0 /\ new.firingIndex = cb.firingIndex
    BY DEF Empty, PlainOK, IsList
  <1> HIDE DEF new
  <1>2. IsSeq(new.list) /\ Items(new.list) = {} /\ Len(new.list) = 0
    BY <1>1, ShortIsSeq
  <1>3. PlainOK(new)
    BY <1>1, <1>2 DEF PlainOK
  <1> QED
    BY <1>1, <1>3 DEF new

\* remove(fn): a loop stays on the list.
LEMMA PlainRemove ==
  ASSUME NEW cb, PlainOK(cb), NEW f
  PROVE  PlainOK(RemoveFn(cb, f)) /\ (RemoveFn(cb, f).firing <=> cb.firing)
  <1> DEFINE n == Len(cb.list)
             gone == {k \in DOMAIN cb.list : cb.list[k] = f}
             Below(i) == {k \in gone : k - 1 <= i}
             new == RemoveFn(cb, f)
             kept == Without(cb.list, gone)
  <1>1. IsList(cb) /\ IsSeq(cb.list) /\ n \in Nat /\ DOMAIN cb.list = 1..n
    BY IsSeqFacts DEF PlainOK
  <1>2. gone \in SUBSET (1..n)
    BY <1>1
  <1>3. /\ IsSeq(kept) /\ Items(kept) \subseteq Items(cb.list)
        /\ Cardinality(gone) \in Nat /\ Len(kept) = n - Cardinality(gone)
    <2> DEFINE list == cb.list
    <2> HIDE DEF gone
    <2>1. IsSeq(list) /\ gone \in SUBSET (1..Len(list))
      BY <1>1, <1>2
    <2> HIDE DEF list
    <2>2. /\ IsSeq(Without(list, gone)) /\ Items(Without(list, gone)) \subseteq Items(list)
          /\ Cardinality(gone) \in Nat /\ Len(Without(list, gone)) = Len(list) - Cardinality(gone)
      BY <2>1, WithoutFacts
    <2> QED
      BY <2>2 DEF list
  <1>4. /\ IsList(new) /\ new.list = kept /\ (new.disabled <=> cb.disabled)
        /\ (new.fired <=> cb.fired) /\ (new.firing <=> cb.firing)
        /\ ~cb.firing => /\ new.firingIndex = cb.firingIndex
                         /\ new.firingLength = cb.firingLength
        /\ cb.firing =>
             /\ new.firingIndex = cb.firingIndex - Cardinality(Below(cb.firingIndex))
             /\ new.firingLength = cb.firingLength - Cardinality(Below(cb.firingLength))
    <2> HIDE DEF gone
    <2>1. RemoveFn(cb, f) =
            [cb EXCEPT !.list = kept,
                       !.firingLength = IF cb.firing THEN @ - Cardinality(Below(@)) ELSE @,
                       !.firingIndex = IF cb.firing THEN @ - Cardinality(Below(@)) ELSE @]
      BY DEF RemoveFn, gone
    <2> HIDE DEF kept, Below
    <2> QED
      BY <1>1, <2>1 DEF IsList
  <1> HIDE DEF new, gone, kept
  <1>5. cb.disabled => kept = <<>> /\ cb.list = <<>> /\ gone = {}
    <2> SUFFICES ASSUME cb.disabled PROVE kept = <<>> /\ cb.list = <<>> /\ gone = {}
      OBVIOUS
    <2>1. cb.list = <<>> /\ n = 0
      BY ShortIsSeq DEF PlainOK
    <2>2. gone = {}
      BY <1>2, <2>1
    <2>3. Len(kept) = 0
      BY <1>3, <2>1, <2>2, FS_EmptySet
    <2> QED
      BY <1>3, <2>1, <2>2, <2>3, IsSeqFacts
  <1>6. IsFiniteSet(1..n) /\ IsFiniteSet(gone)
    <2>1. IsFiniteSet(1..n)
      BY <1>1, FS_Interval, 1 \in Int, n \in Int
    <2> QED
      BY <1>2, <2>1, FS_Subset
  \* As many as there can be at or below the index.
  <1>7. ASSUME cb.firing
        PROVE  new.firingIndex \in Int /\ new.firingIndex >= -1
    <2> DEFINE i == cb.firingIndex
    <2>1. i \in Int /\ i >= -1
      BY DEF PlainOK
    <2>2. Below(i) \subseteq 1..(i + 1)
      <3>1. \A k \in gone : k \in Int /\ k >= 1
        BY <1>1, <1>2
      <3> QED
        BY <2>1, <3>1
    <2>3. IsFiniteSet(1..(i + 1)) /\ Cardinality(1..(i + 1)) = i + 1
      <3>1. IsFiniteSet(1..(i + 1))
        BY <2>1, FS_Interval, 1 \in Int, i + 1 \in Int
      <3>2. CASE i = -1
        <4>1. 1..(i + 1) = {}
          BY <3>2
        <4> QED
          BY <3>1, <3>2, <4>1, FS_EmptySet
      <3>3. CASE i >= 0
        <4>1. 1 <= i + 1 /\ ((i + 1) - 1) + 1 = i + 1
          BY <2>1, <3>3
        <4> QED
          BY <2>1, <3>1, <3>3, <4>1, FS_Interval, 1 \in Int, i + 1 \in Int
      <3> QED
        BY <2>1, <3>2, <3>3
    <2> HIDE DEF Below, i
    <2>4. Cardinality(Below(i)) <= i + 1
      BY <2>2, <2>3, FS_Subset
    <2>5. IsFiniteSet(Below(i))
      BY <2>2, <2>3, FS_Subset
    <2>6. Cardinality(Below(i)) \in Nat
      BY <2>5, FS_CardinalityType
    <2> QED
      BY <1>4, <1>7, <2>1, <2>4, <2>6 DEF i
  <1>8. ASSUME cb.firing, ~cb.disabled
        PROVE  new.firingLength = Len(kept) /\ new.firingLength \in Nat
    <2>1. cb.firingLength = n
      BY <1>8 DEF PlainOK
    <2>2. Below(n) = gone
      <3>1. \A k \in gone : k - 1 <= n
        BY <1>1, <1>2
      <3> QED
        BY <3>1
    <2>3. Len(kept) \in Nat
      BY <1>3, IsSeqFacts
    <2> QED
      BY <1>3, <1>4, <1>8, <2>1, <2>2, <2>3
  <1>9. ASSUME cb.firing, cb.disabled
        PROVE  new.firingLength = cb.firingLength
    <2>1. Below(cb.firingLength) = {} /\ cb.firingLength \in Nat
      BY <1>5, <1>9 DEF PlainOK
    <2> HIDE DEF Below
    <2> QED
      BY <1>4, <1>9, <2>1, FS_EmptySet
  <1>10. new.firingIndex \in Int /\ new.firingIndex >= -1 /\ new.firingLength \in Nat
    BY <1>4, <1>7, <1>8, <1>9 DEF PlainOK
  <1>11. PlainOK(new)
    <2>1. \A g \in Items(kept) : g.is = "user"
      BY <1>3 DEF PlainOK
    <2> QED
      BY <1>3, <1>4, <1>5, <1>8, <1>10, <2>1 DEF PlainOK
  <1> QED
    BY <1>4, <1>11 DEF new

LEMMA PlainEnd ==
  ASSUME NEW cb, PlainOK(cb)
  PROVE  /\ PlainOK(EndFire(cb))
         /\ FiresAgain(cb) => EndFire(cb).firing /\ EndFire(cb).firingIndex = 0
  <1> DEFINE new == EndFire(cb)
             again == FiresAgain(cb)
  <1>1. IsList(cb) /\ IsSeq(cb.list) /\ Len(cb.list) \in Nat
    BY IsSeqFacts DEF PlainOK
  <1>2. /\ IsList(new)
        /\ (new.firing <=> again) /\ (new.fired <=> cb.fired \/ again)
        /\ again => /\ new.list = cb.list /\ ~new.disabled
                    /\ new.firingIndex = 0 /\ new.firingLength = Len(cb.list)
        /\ ~again => /\ new.firingLength = cb.firingLength /\ new.firingIndex = cb.firingIndex
                     /\ cb.disabled \/ cb.open => new.list = cb.list /\ (new.disabled <=> cb.disabled)
                     /\ ~cb.disabled /\ ~cb.open => new.list = <<>>
    BY <1>1, EndFireFields
  <1>3. IsSeq(<<>>) /\ Items(<<>>) = {}
    BY ShortIsSeq
  <1> HIDE DEF new, again
  <1>4. CASE again
    <2>1. PlainOK(new)
      BY <1>1, <1>2, <1>4 DEF PlainOK
    <2> QED
      BY <1>2, <1>4, <2>1 DEF new, again
  <1>5. CASE ~again
    <2>1. CASE cb.disabled \/ cb.open
      <3>1. new.list = cb.list /\ (new.disabled <=> cb.disabled)
        BY <1>2, <1>5, <2>1
      <3> QED
        BY <1>2, <1>5, <3>1 DEF PlainOK, new, again
    <2>2. CASE ~cb.disabled /\ ~cb.open
      <3>1. new.list = <<>> /\ IsSeq(new.list) /\ Items(new.list) = {}
        BY <1>2, <1>3, <1>5, <2>2
      <3> QED
        BY <1>2, <1>5, <3>1 DEF PlainOK, new, again
    <2> QED
      BY <2>1, <2>2
  <1> QED
    BY <1>4, <1>5

--------------------------------------------------------------------------------
(* The invariant, with a list by itself                                    *)

PlainItem(x) ==
  /\ x \in [op : {"add", "fire", "loop", "run"}, list : {x.list}, fns : {x.fns}, data : {x.data},
            on : {x.on}]
  /\ x.op # "run" => x.list = Plain
  /\ x.op = "add" => x.fns[1].is = "user"
  /\ x.op = "loop" => x.on \in {"first", "next", "stop"}

PlainAgenda(s) == IsSeq(s) /\ UniqueLoops(s) /\ \A x \in Items(s) : PlainItem(x)

\* A loop that is at its first round is the next thing to do.
Begun(s) == \A x \in Items(s) : x.op = "loop" => x.on # "first"

PlainShape ==
  /\ lists = [l \in {Plain} |-> lists[Plain]]
  /\ state = <<>> /\ masters = <<>> /\ calls \in 0..MaxPlainCalls
  /\ latest = <<>> /\ waiting = [l \in (1..MaxDeferreds) \X Ways |-> <<>>]
  /\ due \in [fns : {due.fns}, emptied : BOOLEAN]

\* The list cb is firing when it has a loop on the agenda s.
PlainGoing(s, cb) ==
  /\ LoopItems(s, Plain) # {} => cb.firing
  /\ s # <<>> => Begun(Tail(s))
  /\ s # <<>> /\ Head(s).op = "loop" /\ Head(s).on = "first" => cb.firingIndex >= 0

PInv ==
  PlainShape /\ PlainOK(lists[Plain]) /\ PlainAgenda(agenda) /\ PlainGoing(agenda, lists[Plain])

\* One thing is put in front.
LEMMA PlainPut ==
  ASSUME NEW s, PlainAgenda(s), Begun(s), NEW x, PlainItem(x),
         x.op = "loop" => LoopItems(s, Plain) = {}
  PROVE  /\ PlainAgenda(<<x>> \o s) /\ <<x>> \o s # <<>>
         /\ Head(<<x>> \o s) = x /\ Tail(<<x>> \o s) = s
         /\ LoopItems(<<x>> \o s, Plain) = {y \in {x} : y.op = "loop"} \cup LoopItems(s, Plain)
         /\ x.op # "loop" \/ x.on # "first" => Begun(<<x>> \o s)
  <1> DEFINE t == <<x>>
             u == t \o s
  <1>1. IsSeq(t) /\ Items(t) = {x} /\ Len(t) = 1 /\ t[1] = x
    BY ShortIsSeq
  <1>2. IsSeq(s) /\ UniqueLoops(s) /\ Len(s) \in Nat
    BY IsSeqFacts DEF PlainAgenda
  <1>3. UniqueLoops(t)
    BY <1>1 DEF UniqueLoops
  <1> HIDE DEF t
  <1>4. \A y \in Items(t) : y.op = "loop" => LoopItems(s, y.list) = {}
    BY <1>1 DEF PlainItem
  <1>5. UniqueLoops(u) /\ LoopItems(u, Plain) = LoopItems(t, Plain) \cup LoopItems(s, Plain)
    BY <1>1, <1>2, <1>3, <1>4, PushLoops
  <1>6. IsSeq(u) /\ Items(u) = {x} \cup Items(s) /\ Len(u) = 1 + Len(s) /\ u[1] = x
        /\ \A j \in 1..Len(s) : u[1 + j] = s[j]
    <2>1. /\ IsSeq(u) /\ Len(u) = Len(t) + Len(s) /\ Items(u) = Items(t) \cup Items(s)
          /\ \A j \in 1..Len(t) : u[j] = t[j]
          /\ \A j \in 1..Len(s) : u[Len(t) + j] = s[j]
      <3>1. IsSeq(t) /\ IsSeq(s)
        BY <1>1, <1>2
      <3> QED
        BY <3>1, ConcatIsSeq
    <2>2. 1 \in 1..Len(t)
      BY <1>1
    <2> HIDE DEF u
    <2> QED
      BY <1>1, <2>1, <2>2
  <1> HIDE DEF u
  <1>7. u # <<>>
    BY <1>2, <1>6, IsSeqFacts
  <1>8. Head(u) = x /\ IsSeq(Tail(u)) /\ Len(Tail(u)) = Len(s)
        /\ \A j \in 1..Len(s) : Tail(u)[j] = s[j]
    <2>1. /\ IsSeq(Tail(u)) /\ Len(Tail(u)) = Len(u) - 1
          /\ \A j \in 1..Len(Tail(u)) : Tail(u)[j] = u[j + 1]
          /\ Head(u) = u[1]
      BY <1>6, <1>7, TailIsSeq
    <2>2. \A j \in 1..Len(s) : j + 1 = 1 + j
      BY <1>2
    <2> QED
      BY <1>2, <1>6, <2>1, <2>2
  <1>9. Tail(u) = s
    <2>1. DOMAIN s = 1..Len(s) /\ s = [j \in 1..Len(s) |-> s[j]]
      BY <1>2, LenProperties DEF IsSeq
    <2>2. Tail(u) = [j \in 1..Len(s) |-> Tail(u)[j]]
      BY <1>8, LenProperties DEF IsSeq
    <2> QED
      BY <1>8, <2>1, <2>2
  <1>10. LoopItems(t, Plain) = {y \in {x} : y.op = "loop"}
    <2>1. x.op = "loop" => x.list = Plain
      BY DEF PlainItem
    <2> QED
      BY <1>1, <2>1 DEF LoopItems
  <1>11. PlainAgenda(u)
    BY <1>5, <1>6 DEF PlainAgenda
  <1>12. x.op # "loop" \/ x.on # "first" => Begun(u)
    BY <1>6 DEF Begun
  <1> QED
    BY <1>5, <1>7, <1>8, <1>9, <1>10, <1>11, <1>12 DEF t, u

\* The next thing is taken off.
LEMMA PlainPop ==
  ASSUME PInv, agenda # <<>>
  PROVE  /\ PlainAgenda(Rest) /\ Begun(Rest) /\ PlainItem(Todo)
         /\ Todo.op = "loop" => LoopItems(Rest, Plain) = {}
         /\ Todo.op # "loop" => LoopItems(Rest, Plain) = LoopItems(agenda, Plain)
         /\ Todo.op = "loop" => lists[Plain].firing
  <1>1. IsSeq(agenda) /\ UniqueLoops(agenda) /\ \A x \in Items(agenda) : PlainItem(x)
    BY DEF PInv, PlainAgenda
  <1>2. /\ IsSeq(Tail(agenda)) /\ Head(agenda) \in Items(agenda)
        /\ Items(agenda) = {Head(agenda)} \cup Items(Tail(agenda))
    BY <1>1, TailIsSeq
  <1>3. /\ UniqueLoops(Tail(agenda))
        /\ \A l : LoopItems(Tail(agenda), l) = IF Head(agenda).op = "loop" /\ Head(agenda).list = l
                                               THEN {} ELSE LoopItems(agenda, l)
    BY <1>1, PopLoops
  <1>4. PlainItem(Todo) /\ PlainAgenda(Rest)
    BY <1>1, <1>2, <1>3 DEF PlainAgenda, Todo, Rest
  <1>5. Todo.op = "loop" => Todo.list = Plain
    BY <1>4 DEF PlainItem
  <1>6. Todo.op = "loop" => Todo \in LoopItems(agenda, Plain)
    BY <1>2, <1>5 DEF LoopItems, Todo
  <1>7. Todo.op = "loop" => lists[Plain].firing
    BY <1>6 DEF PInv, PlainGoing
  <1>8. Begun(Rest)
    BY DEF PInv, PlainGoing, Rest
  <1> QED
    BY <1>3, <1>4, <1>5, <1>7, <1>8 DEF Todo, Rest

\* The agenda after a step: what is left, or that with one thing in front.
LEMMA PlainSettled ==
  ASSUME NEW s, PlainAgenda(s), Begun(s), NEW cb, LoopItems(s, Plain) # {} => cb.firing
  PROVE  PlainGoing(s, cb)
  <1> SUFFICES ASSUME s # <<>>
               PROVE  Begun(Tail(s)) /\ ~(Head(s).op = "loop" /\ Head(s).on = "first")
    BY DEF PlainGoing
  <1>1. Items(s) = {Head(s)} \cup Items(Tail(s))
    BY TailIsSeq DEF PlainAgenda
  <1> QED
    BY <1>1 DEF Begun

LEMMA PlainFirst ==
  ASSUME NEW s, PlainAgenda(s), Begun(s), LoopItems(s, Plain) = {}, NEW data,
         NEW cb, cb.firing, cb.firingIndex >= 0
  PROVE  /\ PlainAgenda(<<Loop(Plain, data, "first")>> \o s)
         /\ PlainGoing(<<Loop(Plain, data, "first")>> \o s, cb)
  <1> DEFINE x == Loop(Plain, data, "first")
             u == <<x>> \o s
  <1>1. PlainItem(x) /\ x.op = "loop"
    BY DEF PlainItem, Loop, Do
  <1> HIDE DEF x
  <1>2. PlainAgenda(u) /\ Tail(u) = s
    BY <1>1, PlainPut
  <1> HIDE DEF u
  <1>3. PlainGoing(u, cb)
    BY <1>2 DEF PlainGoing
  <1> QED
    BY <1>2, <1>3 DEF u, x

--------------------------------------------------------------------------------
(* The steps of a list by itself                                           *)

\* What a step leaves alone, and the list it leaves behind.
PlainLeaves(cb) ==
  /\ lists' = [lists EXCEPT ![Plain] = cb]
  /\ state' = state /\ masters' = masters /\ waiting' = waiting /\ latest' = latest
  /\ calls' \in 0..MaxPlainCalls
  /\ due' \in [fns : {due'.fns}, emptied : BOOLEAN]

LEMMA PlainKept ==
  ASSUME PInv, NEW cb, PlainLeaves(cb), PlainOK(cb), PlainAgenda(agenda'),
         PlainGoing(agenda', cb)
  PROVE  PInv' /\ PlainShape'
  <1>1. lists = [l \in {Plain} |-> lists[Plain]]
    BY DEF PInv, PlainShape
  <1>2. lists' = [l \in {Plain} |-> cb] /\ lists'[Plain] = cb
    BY <1>1 DEF PlainLeaves
  <1>3. lists' = [l \in {Plain} |-> lists'[Plain]]
    BY <1>2
  <1>4. PlainShape'
    BY <1>3 DEF PInv, PlainShape, PlainLeaves
  <1>5. PlainOK(lists'[Plain]) /\ PlainGoing(agenda', lists'[Plain])
    BY <1>2
  <1> QED
    BY <1>4, <1>5 DEF PInv

\* The list is as it was.
LEMMA PlainSame ==
  ASSUME PInv, lists' = lists, state' = state, masters' = masters, waiting' = waiting,
         latest' = latest, calls' \in 0..MaxPlainCalls,
         due' \in [fns : {due'.fns}, emptied : BOOLEAN]
  PROVE  PlainLeaves(lists[Plain])
  <1>1. lists = [l \in {Plain} |-> lists[Plain]]
    BY DEF PInv, PlainShape
  <1>2. lists = [lists EXCEPT ![Plain] = lists[Plain]]
    BY <1>1
  <1> QED
    BY <1>2 DEF PlainLeaves

LEMMA DueStays ==
  ASSUME PInv
  PROVE  /\ due \in [fns : {due.fns}, emptied : BOOLEAN]
         /\ \A fns : LET new == [due EXCEPT !.fns = fns]
                     IN new \in [fns : {new.fns}, emptied : BOOLEAN]
         /\ \A l, cb : LET new == DueOf(l, cb) IN new \in [fns : {new.fns}, emptied : BOOLEAN]
         /\ calls \in 0..MaxPlainCalls
  <1>1. due \in [fns : {due.fns}, emptied : BOOLEAN] /\ calls \in 0..MaxPlainCalls
    BY DEF PInv, PlainShape
  <1> QED
    BY <1>1 DEF DueOf

\* A step that may start the loop of the list.
LEMMA PlainLoop ==
  ASSUME NEW s, PlainAgenda(s), Begun(s), NEW memory, NEW starts \in BOOLEAN, NEW cb,
         starts => LoopItems(s, Plain) = {} /\ cb.firing /\ cb.firingIndex >= 0,
         LoopItems(s, Plain) # {} => cb.firing
  PROVE  /\ PlainAgenda(LoopOf(Plain, memory, starts) \o s)
         /\ PlainGoing(LoopOf(Plain, memory, starts) \o s, cb)
  <1>1. CASE starts
    <2> DEFINE data == memory[1]
    <2>1. LoopOf(Plain, memory, starts) = <<Loop(Plain, data, "first")>>
      BY <1>1 DEF LoopOf
    <2> HIDE DEF data
    <2>2. LoopItems(s, Plain) = {} /\ cb.firing /\ cb.firingIndex >= 0
      BY <1>1
    <2>3. /\ PlainAgenda(<<Loop(Plain, data, "first")>> \o s)
          /\ PlainGoing(<<Loop(Plain, data, "first")>> \o s, cb)
      BY <2>2, PlainFirst
    <2> QED
      BY <2>1, <2>3
  <1>2. CASE ~starts
    <2>1. LoopOf(Plain, memory, starts) = <<>>
      BY <1>2 DEF LoopOf
    <2>2. <<>> \o s = s
      BY ConcatEmptySeq DEF PlainAgenda, IsSeq
    <2>3. PlainGoing(s, cb)
      BY PlainSettled
    <2> QED
      BY <2>1, <2>2, <2>3
  <1> QED
    BY <1>1, <1>2

LEMMA PlainAddStep ==
  ASSUME PInv, DoAdd
  PROVE  PInv' /\ PlainShape'
  <1> DEFINE cb == lists[Plain]
             fn == Todo.fns[1]
             new == Add(cb, fn)
             starts == FiresOnAdd(cb)
             more == SubSeq(new.list, Len(cb.list) + 1, Len(new.list))
             s == Rest
             memory == cb.memory
  <1>1. agenda # <<>> /\ Todo.op = "add" /\ ~(Todo.op = "loop") /\ Todo.op # "run"
    BY DEF DoAdd, IsNext
  <1>2. /\ PlainAgenda(s) /\ Begun(s) /\ PlainItem(Todo)
        /\ LoopItems(s, Plain) = LoopItems(agenda, Plain)
    BY <1>1, PlainPop
  <1>3. Todo.list = Plain /\ fn.is = "user"
    BY <1>1, <1>2 DEF PlainItem
  <1>4. /\ lists' = [lists EXCEPT ![Plain] = new]
        /\ agenda' = LoopOf(Plain, memory, starts) \o s
        /\ due' = IF starts THEN DueOf(Plain, new)
                  ELSE IF new.firing THEN [due EXCEPT !.fns = @ \o more] ELSE due
        /\ waiting' = waiting /\ latest' = latest
        /\ state' = state /\ masters' = masters /\ calls' = calls
    BY <1>3 DEF DoAdd
  <1>5. PlainOK(cb) /\ (LoopItems(agenda, Plain) # {} => cb.firing)
    BY DEF PInv, PlainGoing
  <1>6. starts \in BOOLEAN /\ (starts => ~cb.firing)
    BY DEF FiresOnAdd
  <1> HIDE DEF cb, fn, memory, s
  <1>7. /\ PlainOK(new)
        /\ starts => new.firingIndex >= 0
        /\ cb.firing \/ starts => new.firing
    BY <1>3, <1>5, PlainAdd
  <1> HIDE DEF new, more, starts
  <1>8. due' \in [fns : {due'.fns}, emptied : BOOLEAN] /\ calls' \in 0..MaxPlainCalls
    BY <1>4, DueStays
  <1>9. PlainLeaves(new)
    BY <1>4, <1>8 DEF PlainLeaves
  <1>10. /\ starts => LoopItems(s, Plain) = {} /\ new.firing /\ new.firingIndex >= 0
         /\ LoopItems(s, Plain) # {} => new.firing
    BY <1>2, <1>5, <1>6, <1>7
  <1>11. PlainAgenda(agenda') /\ PlainGoing(agenda', new)
    <2>1. /\ PlainAgenda(LoopOf(Plain, memory, starts) \o s)
          /\ PlainGoing(LoopOf(Plain, memory, starts) \o s, new)
      BY <1>2, <1>6, <1>10, PlainLoop
    <2> QED
      BY <1>4, <2>1
  <1> QED
    BY <1>7, <1>9, <1>11, PlainKept

LEMMA PlainFireStep ==
  ASSUME PInv, DoFire
  PROVE  PInv' /\ PlainShape'
  <1> DEFINE cb == lists[Plain]
             data == Todo.data
             new == FireWith(cb, data)
             starts == Starts(cb)
             s == Rest
             memory == <<data>>
  <1>1. agenda # <<>> /\ Todo.op = "fire" /\ ~(Todo.op = "loop") /\ Todo.op # "run"
    BY DEF DoFire, IsNext
  <1>2. /\ PlainAgenda(s) /\ Begun(s) /\ PlainItem(Todo)
        /\ LoopItems(s, Plain) = LoopItems(agenda, Plain)
    BY <1>1, PlainPop
  <1>3. Todo.list = Plain
    BY <1>1, <1>2 DEF PlainItem
  <1>4. /\ lists' = [lists EXCEPT ![Plain] = new]
        /\ agenda' = LoopOf(Plain, memory, starts) \o s
        /\ due' = IF starts THEN DueOf(Plain, new) ELSE due
        /\ waiting' = waiting /\ latest' = latest
        /\ state' = state /\ masters' = masters /\ calls' = calls
    BY <1>3 DEF DoFire, userCalls
  <1>5. PlainOK(cb) /\ (LoopItems(agenda, Plain) # {} => cb.firing)
    BY DEF PInv, PlainGoing
  <1>6. starts \in BOOLEAN /\ (starts => ~cb.firing)
    BY DEF Starts, Accepts
  <1> HIDE DEF cb, data, memory, s
  <1>7. /\ PlainOK(new)
        /\ starts => new.firingIndex >= 0
        /\ cb.firing \/ starts => new.firing
    BY <1>5, PlainFire
  <1> HIDE DEF new, starts
  <1>8. due' \in [fns : {due'.fns}, emptied : BOOLEAN] /\ calls' \in 0..MaxPlainCalls
    BY <1>4, DueStays
  <1>9. PlainLeaves(new)
    BY <1>4, <1>8 DEF PlainLeaves
  <1>10. /\ starts => LoopItems(s, Plain) = {} /\ new.firing /\ new.firingIndex >= 0
         /\ LoopItems(s, Plain) # {} => new.firing
    BY <1>2, <1>5, <1>6, <1>7
  <1>11. PlainAgenda(agenda') /\ PlainGoing(agenda', new)
    <2>1. /\ PlainAgenda(LoopOf(Plain, memory, starts) \o s)
          /\ PlainGoing(LoopOf(Plain, memory, starts) \o s, new)
      BY <1>2, <1>6, <1>10, PlainLoop
    <2> QED
      BY <1>4, <2>1
  <1> QED
    BY <1>7, <1>9, <1>11, PlainKept

\* The list as the loop finds it, and the callback it comes to.
LEMMA PlainLooping ==
  ASSUME PInv, IsNext("loop")
  PROVE  /\ Todo.list = Plain /\ Todo.on \in {"first", "next", "stop"}
         /\ PlainOK(Looping) /\ Looping.firing
         /\ Todo.on # "stop" /\ GoesOn(Looping) => Callee.is = "user"
         /\ PlainAgenda(Rest) /\ Begun(Rest) /\ LoopItems(Rest, Plain) = {}
  <1> DEFINE cb == lists[Plain]
             new == Looping
  <1>1. agenda # <<>> /\ Todo.op = "loop"
    BY DEF IsNext
  <1>2. /\ PlainAgenda(Rest) /\ Begun(Rest) /\ PlainItem(Todo)
        /\ LoopItems(Rest, Plain) = {} /\ cb.firing
    BY <1>1, PlainPop
  <1>3. Todo.list = Plain /\ Todo.on \in {"first", "next", "stop"}
    BY <1>1, <1>2 DEF PlainItem
  <1>4. PlainOK(cb) /\ (Todo.on = "first" => cb.firingIndex >= 0)
    BY <1>1 DEF PInv, PlainGoing, Todo
  <1>5. new = IF Todo.on = "next" THEN [cb EXCEPT !.firingIndex = @ + 1]
              ELSE IF Todo.on = "stop" THEN [cb EXCEPT !.memory = <<>>]
              ELSE cb
    BY <1>3 DEF Looping
  <1> HIDE DEF cb, new
  <1>6. /\ IsList(new) /\ new.list = cb.list
        /\ (new.fired <=> cb.fired) /\ (new.firing <=> cb.firing) /\ (new.disabled <=> cb.disabled)
        /\ new.firingLength = cb.firingLength
        /\ Todo.on = "next" => new.firingIndex = cb.firingIndex + 1
        /\ Todo.on # "next" => new.firingIndex = cb.firingIndex
    BY <1>3, <1>4, <1>5 DEF PlainOK, IsList
  <1>7. PlainOK(new)
    BY <1>3, <1>4, <1>6 DEF PlainOK
  <1>8. new.firing
    BY <1>2, <1>6
  <1>9. ASSUME Todo.on # "stop", GoesOn(new)
        PROVE  Current(new).is = "user"
    <2>1. new.firingIndex \in Nat
      BY <1>3, <1>4, <1>6, <1>9 DEF PlainOK
    <2>2. ~new.disabled /\ new.firingIndex < new.firingLength
      BY <1>9 DEF GoesOn
    <2>3. new.firingLength = Len(new.list) /\ Len(new.list) \in Nat
      BY <1>7, <1>8, <2>2, IsSeqFacts DEF PlainOK
    <2>4. new.firingIndex + 1 \in 1..Len(new.list)
      BY <2>1, <2>2, <2>3
    <2> QED
      BY <1>7, <2>4 DEF PlainOK, Items, Current
  <1> QED
    BY <1>2, <1>3, <1>7, <1>8, <1>9 DEF Callee, new

LEMMA PlainEndsStep ==
  ASSUME PInv, LoopEnds
  PROVE  PInv' /\ PlainShape'
  <1> DEFINE cb == Looping
             new == EndFire(cb)
             again == FiresAgain(cb)
             s == Rest
             memory == SubSeq(cb.stack, 1, 1)
  <1>1. IsNext("loop")
    BY DEF LoopEnds
  <1>2. /\ Todo.list = Plain /\ PlainOK(cb)
        /\ PlainAgenda(s) /\ Begun(s) /\ LoopItems(s, Plain) = {}
    BY <1>1, PlainLooping
  <1>3. /\ lists' = [lists EXCEPT ![Plain] = new]
        /\ agenda' = LoopOf(Plain, memory, again) \o s
        /\ due' = IF again THEN DueOf(Plain, new)
                  ELSE IF Todo.on = "stop" THEN [due EXCEPT !.fns = <<>>] ELSE due
        /\ waiting' = waiting /\ latest' = latest
        /\ state' = state /\ masters' = masters /\ calls' = calls
    BY <1>2 DEF LoopEnds, userCalls
  <1>4. again \in BOOLEAN
    BY DEF FiresAgain
  <1> HIDE DEF cb, s, memory
  <1>5. PlainOK(new) /\ (again => new.firing /\ new.firingIndex = 0)
    BY <1>2, PlainEnd
  <1> HIDE DEF new, again
  <1>6. due' \in [fns : {due'.fns}, emptied : BOOLEAN] /\ calls' \in 0..MaxPlainCalls
    BY <1>3, DueStays
  <1>7. PlainLeaves(new)
    BY <1>3, <1>6 DEF PlainLeaves
  <1>8. /\ again => LoopItems(s, Plain) = {} /\ new.firing /\ new.firingIndex >= 0
        /\ LoopItems(s, Plain) # {} => new.firing
    BY <1>2, <1>5
  <1>9. PlainAgenda(agenda') /\ PlainGoing(agenda', new)
    <2>1. /\ PlainAgenda(LoopOf(Plain, memory, again) \o s)
          /\ PlainGoing(LoopOf(Plain, memory, again) \o s, new)
      BY <1>2, <1>4, <1>8, PlainLoop
    <2> QED
      BY <1>3, <2>1
  <1> QED
    BY <1>5, <1>7, <1>9, PlainKept

LEMMA PlainUserStep ==
  ASSUME PInv, CallUser
  PROVE  PInv' /\ PlainShape'
  <1> DEFINE cb == Looping
             s == Rest
             loop == Loop(Plain, Todo.data, "next")
             run == Run(Callee, Todo.data)
             u == <<loop>> \o s
  <1>1. IsNext("loop")
    BY DEF CallUser, Comes
  <1>2. /\ Todo.list = Plain /\ PlainOK(cb) /\ cb.firing
        /\ PlainAgenda(s) /\ Begun(s) /\ LoopItems(s, Plain) = {}
    BY <1>1, PlainLooping
  <1>3. Plain \notin DOMAIN waiting
    BY DEF PInv, PlainShape, Plain
  <1>4. /\ lists' = [lists EXCEPT ![Plain] = cb]
        /\ agenda' = <<run>> \o <<loop>> \o s
        /\ waiting' = waiting /\ latest' = latest
        /\ state' = state /\ masters' = masters /\ calls' = calls
    BY <1>2, <1>3 DEF CallUser, CallsIt, userCalls
  <1>5. \E fns : due' = [due EXCEPT !.fns = fns]
    BY <1>2 DEF CallUser
  <1>6. due' \in [fns : {due'.fns}, emptied : BOOLEAN] /\ calls' \in 0..MaxPlainCalls
    BY <1>4, <1>5, DueStays
  <1>7. PlainItem(loop) /\ loop.op = "loop" /\ loop.on = "next" /\ PlainItem(run) /\ run.op = "run"
    BY DEF PlainItem, Loop, Run, Do
  <1> HIDE DEF cb, s, loop, run
  <1>8. PlainLeaves(cb)
    BY <1>4, <1>6 DEF PlainLeaves
  <1>9. agenda' = <<run>> \o u
    <2> DEFINE r == <<run>>
               k == <<loop>>
    <2>1. IsSeq(r) /\ IsSeq(k) /\ IsSeq(s)
      BY <1>2, ShortIsSeq DEF PlainAgenda
    <2> HIDE DEF r, k
    <2>2. (r \o k) \o s = r \o (k \o s)
      BY <2>1, ConcatAssoc
    <2> QED
      BY <1>4, <2>2 DEF r, k
  <1>10. PlainAgenda(u) /\ Begun(u)
    BY <1>2, <1>7, PlainPut
  <1> HIDE DEF u
  <1>11. PlainAgenda(agenda') /\ Begun(agenda')
    <2>1. PlainAgenda(<<run>> \o u) /\ Begun(<<run>> \o u)
      BY <1>7, <1>10, PlainPut
    <2> QED
      BY <1>9, <2>1
  <1>12. PlainGoing(agenda', cb)
    BY <1>2, <1>11, PlainSettled
  <1> QED
    BY <1>2, <1>8, <1>11, <1>12, PlainKept

\* The user may call something.
LEMMA PlainFree ==
  ASSUME PInv, agenda = <<>> \/ IsNext("run")
  PROVE  Begun(agenda) /\ (LoopItems(agenda, Plain) # {} => lists[Plain].firing)
  <1>1. CASE agenda = <<>>
    BY <1>1, ShortIsSeq DEF Begun, PInv, PlainGoing
  <1>2. CASE agenda # <<>> /\ IsNext("run")
    <2>1. Items(agenda) = {Todo} \cup Items(Rest)
      BY <1>2, TailIsSeq DEF PInv, PlainAgenda, Todo, Rest
    <2>2. Begun(Rest) /\ Todo.op = "run"
      BY <1>2 DEF PInv, PlainGoing, Rest, IsNext
    <2>3. Begun(agenda)
      BY <2>1, <2>2 DEF Begun
    <2> QED
      BY <2>3 DEF PInv, PlainGoing
  <1> QED
    BY <1>1, <1>2 DEF IsNext

\* An operation that changes the list at once.
LEMMA PlainChange ==
  ASSUME PInv, agenda = <<>> \/ IsNext("run"), agenda' = agenda,
         NEW cb, PlainLeaves(cb), PlainOK(cb), cb.firing <=> lists[Plain].firing
  PROVE  PInv' /\ PlainShape'
  <1>1. Begun(agenda) /\ PlainAgenda(agenda) /\ (LoopItems(agenda, Plain) # {} => cb.firing)
    BY PlainFree DEF PInv
  <1>2. PlainGoing(agenda, cb)
    BY <1>1, PlainSettled
  <1> QED
    BY <1>1, <1>2, PlainKept

\* An operation that waits for its turn.
LEMMA PlainAsks ==
  ASSUME PInv, agenda = <<>> \/ IsNext("run"), NEW x, PlainItem(x), x.op # "loop",
         agenda' = <<x>> \o agenda, PlainLeaves(lists[Plain])
  PROVE  PInv' /\ PlainShape'
  <1> DEFINE s == agenda
             u == <<x>> \o s
  <1>1. Begun(s) /\ PlainAgenda(s) /\ (LoopItems(s, Plain) # {} => lists[Plain].firing)
    BY PlainFree DEF PInv
  <1> HIDE DEF s
  <1>2. /\ PlainAgenda(u) /\ Begun(u)
        /\ LoopItems(u, Plain) = {y \in {x} : y.op = "loop"} \cup LoopItems(s, Plain)
    BY <1>1, PlainPut
  <1> HIDE DEF u
  <1>3. PlainGoing(u, lists[Plain])
    BY <1>1, <1>2, PlainSettled
  <1>4. PlainOK(lists[Plain]) /\ agenda' = u
    BY DEF PInv, s, u
  <1> QED
    BY <1>2, <1>3, <1>4, PlainKept

LEMMA PlainCallStep ==
  ASSUME PInv, CallPlain
  PROVE  PInv' /\ PlainShape'
  <1> DEFINE cb == lists[Plain]
             Changed(new) == /\ lists' = [lists EXCEPT ![Plain] = new]
                             /\ \E fns : \/ due' = [due EXCEPT !.fns = fns]
                                         \/ due' = [fns |-> fns, emptied |-> TRUE]
                                         \/ due' = due
                             /\ agenda' = <<>> \o agenda
  <1>1. agenda = <<>> \/ IsNext("run")
    BY DEF CallPlain
  <1>2. /\ state' = state /\ masters' = masters /\ waiting' = waiting /\ latest' = latest
    BY DEF CallPlain, userCalls
  <1>3. calls' \in 0..MaxPlainCalls
    <2>1. calls \in 0..MaxPlainCalls /\ calls < MaxPlainCalls /\ MaxPlainCalls \in Nat
      BY DeferredAssumption, DueStays DEF CallPlain
    <2>2. calls' = calls + 1
      BY DEF CallPlain, Calls
    <2> QED
      BY <2>1, <2>2
  <1>4. PlainOK(cb)
    BY DEF PInv
  <1>5. agenda' = <<>> \o agenda => agenda' = agenda
    <2>1. <<>> \o agenda = agenda
      BY ConcatEmptySeq DEF PInv, PlainAgenda, IsSeq
    <2> QED
      BY <2>1
  <1>6. ASSUME NEW new, Changed(new)
        PROVE  PlainLeaves(new) /\ agenda' = agenda
    <2>1. due' \in [fns : {due'.fns}, emptied : BOOLEAN]
      <3>1. PICK fns : \/ due' = [due EXCEPT !.fns = fns]
                       \/ due' = [fns |-> fns, emptied |-> TRUE]
                       \/ due' = due
        BY <1>6
      <3>2. CASE due' = [due EXCEPT !.fns = fns]
        BY <3>2, DueStays
      <3>3. CASE due' = [fns |-> fns, emptied |-> TRUE]
        BY <3>3
      <3>4. CASE due' = due
        BY <3>4, DueStays
      <3> QED
        BY <3>1, <3>2, <3>3, <3>4
    <2> QED
      BY <1>2, <1>3, <1>5, <1>6, <2>1 DEF PlainLeaves
  <1>7. ASSUME NEW new, Changed(new), PlainOK(new), new.firing <=> cb.firing
        PROVE  PInv' /\ PlainShape'
    <2>1. PlainLeaves(new) /\ agenda' = agenda
      BY <1>6, <1>7
    <2> HIDE DEF Changed
    <2> QED
      BY <1>1, <1>7, <2>1, PlainChange
  <1>8. ASSUME NEW x, PlainItem(x), x.op # "loop", agenda' = <<x>> \o agenda,
               lists' = lists, due' = due
        PROVE  PInv' /\ PlainShape'
    <2>1. due' \in [fns : {due'.fns}, emptied : BOOLEAN]
      BY <1>8, DueStays
    <2>2. PlainLeaves(cb)
      BY <1>2, <1>3, <1>8, <2>1, PlainSame
    <2> QED
      BY <1>1, <1>8, <2>2, PlainAsks
  <1>9. ASSUME NEW f, agenda' = <<AddDo(Plain, User(f))>> \o agenda, lists' = lists, due' = due
        PROVE  PInv' /\ PlainShape'
    <2>1. PlainItem(AddDo(Plain, User(f))) /\ AddDo(Plain, User(f)).op # "loop"
      BY DEF PlainItem, AddDo, Do, User, Fn
    <2> QED
      BY <1>8, <1>9, <2>1
  <1>10. ASSUME NEW data, agenda' = <<FireDo(Plain, data)>> \o agenda, lists' = lists, due' = due
         PROVE  PInv' /\ PlainShape'
    <2>1. PlainItem(FireDo(Plain, data)) /\ FireDo(Plain, data).op # "loop"
      BY DEF PlainItem, FireDo, Do
    <2> QED
      BY <1>8, <1>10, <2>1
  <1>11. ASSUME NEW f, Changed(RemoveFn(cb, User(f)))
         PROVE  PInv' /\ PlainShape'
    <2> DEFINE new == RemoveFn(cb, User(f))
    <2> HIDE DEF cb
    <2>1. PlainOK(new) /\ (new.firing <=> cb.firing)
      BY <1>4, PlainRemove
    <2> HIDE DEF new, Changed
    <2>2. Changed(new)
      BY <1>11 DEF new
    <2> QED
      BY <1>7, <2>1, <2>2
  <1>12. ASSUME \E new \in {Empty(cb), Disable(cb), Lock(cb)} : Changed(new)
         PROVE  PInv' /\ PlainShape'
    <2> HIDE DEF cb, Changed
    <2>1. PlainOK(Empty(cb)) /\ (Empty(cb).firing <=> cb.firing)
      BY <1>4, PlainEmpty
    <2>2. PlainOK(Disable(cb)) /\ (Disable(cb).firing <=> cb.firing)
      BY <1>4, PlainDisable
    <2>3. PlainOK(Lock(cb)) /\ (Lock(cb).firing <=> cb.firing)
      BY <1>4, PlainLock
    <2> QED
      BY <1>7, <1>12, <2>1, <2>2, <2>3
  <1>13. \/ \E f : agenda' = <<AddDo(Plain, User(f))>> \o agenda /\ lists' = lists /\ due' = due
         \/ agenda' = <<FireDo(Plain, <<Fresh>>)>> \o agenda /\ lists' = lists /\ due' = due
         \/ \E f : Changed(RemoveFn(cb, User(f)))
         \/ \E new \in {Empty(cb), Disable(cb), Lock(cb)} : Changed(new)
    BY DEF CallPlain, Calls
  <1> HIDE DEF Changed, cb
  <1> QED
    BY <1>9, <1>10, <1>11, <1>12, <1>13

LEMMA PlainReturnStep ==
  ASSUME PInv, Return
  PROVE  PInv' /\ PlainShape'
  <1> DEFINE cb == lists[Plain]
             s == Rest
  <1>1. agenda # <<>> /\ Todo.op # "loop"
    BY DEF Return, IsNext
  <1>2. PlainAgenda(s) /\ Begun(s) /\ LoopItems(s, Plain) = LoopItems(agenda, Plain)
    BY <1>1, PlainPop
  <1>3. PlainOK(cb) /\ (LoopItems(agenda, Plain) # {} => cb.firing)
    BY DEF PInv, PlainGoing
  <1>4. /\ agenda' = s /\ lists' = lists /\ due' = due
        /\ waiting' = waiting /\ latest' = latest
        /\ state' = state /\ masters' = masters /\ calls' = calls
    BY DEF Return, history, userCalls
  <1>5. PlainLeaves(cb)
    <2>1. due' \in [fns : {due'.fns}, emptied : BOOLEAN] /\ calls' \in 0..MaxPlainCalls
      BY <1>4, DueStays
    <2> QED
      BY <1>4, <2>1, PlainSame
  <1> HIDE DEF cb, s
  <1>6. PlainGoing(s, cb)
    BY <1>2, <1>3, PlainSettled
  <1> QED
    BY <1>2, <1>3, <1>4, <1>5, <1>6, PlainKept DEF cb

\* The loop that is next stops.
LEMMA PlainStopStep ==
  ASSUME PInv, ReturnFalse
  PROVE  PInv' /\ PlainShape'
  <1> DEFINE cb == lists[Plain]
             s == Rest
             n == Len(s)
             u == [s EXCEPT ![1].on = "stop"]
  <1>1. agenda # <<>> /\ Todo.op # "loop" /\ s # <<>> /\ Head(s).op = "loop"
    BY DEF ReturnFalse, IsNext, Caller
  <1>2. PlainAgenda(s) /\ Begun(s) /\ LoopItems(s, Plain) = LoopItems(agenda, Plain)
    BY <1>1, PlainPop
  <1>3. PlainOK(cb) /\ (LoopItems(agenda, Plain) # {} => cb.firing)
    BY DEF PInv, PlainGoing
  <1>4. /\ agenda' = u /\ lists' = lists /\ due' = due
        /\ waiting' = waiting /\ latest' = latest
        /\ state' = state /\ masters' = masters /\ calls' = calls
    BY DEF ReturnFalse, history, userCalls
  <1>5. PlainLeaves(cb)
    <2>1. due' \in [fns : {due'.fns}, emptied : BOOLEAN] /\ calls' \in 0..MaxPlainCalls
      BY <1>4, DueStays
    <2> QED
      BY <1>4, <2>1, PlainSame
  <1> HIDE DEF s
  <1>6. IsSeq(s) /\ UniqueLoops(s) /\ n \in Nat /\ n >= 1 /\ DOMAIN s = 1..n
        /\ s = [j \in 1..n |-> s[j]] /\ \A j \in 1..n : PlainItem(s[j])
    <2>1. IsSeq(s) /\ UniqueLoops(s) /\ \A x \in Items(s) : PlainItem(x)
      BY <1>2 DEF PlainAgenda
    <2>2. n \in Nat /\ DOMAIN s = 1..n /\ n >= 1
      BY <1>1, <2>1, IsSeqFacts, TailIsSeq
    <2>3. s = [j \in 1..n |-> s[j]]
      BY <2>1, LenProperties DEF IsSeq
    <2> QED
      BY <2>1, <2>2, <2>3 DEF Items
  <1>7. s[1].op = "loop" /\ 1 \in 1..n /\ s[1] \in Items(s)
    <2>1. Head(s) = s[1]
      BY <1>1, <1>6, TailIsSeq
    <2> QED
      BY <1>1, <1>6, <2>1 DEF Items
  <1> HIDE DEF n, cb
  <1>8. /\ u = [j \in 1..n |-> IF j = 1 THEN [s[1] EXCEPT !.on = "stop"] ELSE s[j]]
        /\ PlainItem(s[1])
    BY <1>6, <1>7
  <1> HIDE DEF u
  <1>9. u[1].op = "loop" /\ u[1].list = s[1].list /\ u[1].on = "stop" /\ PlainItem(u[1])
    <2> DEFINE x == s[1]
               y == [x EXCEPT !.on = "stop"]
    <2>1. u[1] = y
      BY <1>7, <1>8
    <2>2. PlainItem(x) /\ x.op = "loop"
      BY <1>7, <1>8
    <2> HIDE DEF x
    <2>3. y.op = "loop" /\ y.list = x.list /\ y.on = "stop" /\ PlainItem(y)
      BY <2>2 DEF PlainItem
    <2> QED
      BY <2>1, <2>3 DEF x
  <1>10. /\ \A j \in 1..n : j # 1 => u[j] = s[j]
         /\ \A j \in 1..n : u[j].op = s[j].op /\ u[j].list = s[j].list /\ PlainItem(u[j])
    <2>1. \A j \in 1..n : j # 1 => u[j] = s[j]
      BY <1>8
    <2> QED
      BY <1>6, <1>7, <1>9, <2>1
  <1>11. IsSeq(u) /\ Len(u) = n
    <2> DEFINE S == {u[j] : j \in 1..n}
    <2>1. u \in [1..n -> S]
      BY <1>8
    <2> HIDE DEF S
    <2>2. u \in Seq(S) /\ Len(u) = n
      BY <1>6, <2>1, FunctionIsSeq
    <2> QED
      BY <2>2, SeqIsSeq
  <1>12. PlainAgenda(u)
    <2>1. UniqueLoops(u)
      BY <1>6, <1>10, <1>11 DEF UniqueLoops, n
    <2>2. \A x \in Items(u) : PlainItem(x)
      BY <1>10, <1>11 DEF Items
    <2> QED
      BY <1>11, <2>1, <2>2 DEF PlainAgenda
  <1>13. Begun(u)
    <2>1. \A j \in 1..n : s[j].op = "loop" => s[j].on # "first"
      BY <1>2 DEF Begun, Items, n
    <2>2. \A j \in 1..n : u[j].op = "loop" => u[j].on # "first"
      BY <1>9, <1>10, <2>1
    <2> QED
      BY <1>11, <2>2 DEF Begun, Items
  <1>14. cb.firing
    <2>1. s[1] \in LoopItems(s, Plain)
      BY <1>7, <1>8 DEF LoopItems, PlainItem
    <2> QED
      BY <1>2, <1>3, <2>1
  <1>15. PlainGoing(u, cb)
    BY <1>12, <1>13, <1>14, PlainSettled
  <1> QED
    BY <1>3, <1>4, <1>5, <1>12, <1>15, PlainKept DEF cb

LEMMA PlainThrowStep ==
  ASSUME PInv, Throw
  PROVE  PInv' /\ PlainShape'
  <1>1. /\ agenda' = <<>> /\ lists' = lists /\ due' = [due EXCEPT !.fns = <<>>]
        /\ waiting' = waiting /\ latest' = latest
        /\ state' = state /\ masters' = masters /\ calls' = calls
    BY DEF Throw, userCalls
  <1>2. PlainLeaves(lists[Plain])
    <2>1. due' \in [fns : {due'.fns}, emptied : BOOLEAN] /\ calls' \in 0..MaxPlainCalls
      BY <1>1, DueStays
    <2> QED
      BY <1>1, <2>1, PlainSame
  <1>3. PlainAgenda(agenda') /\ LoopItems(agenda', Plain) = {}
    BY <1>1, ShortIsSeq DEF PlainAgenda, UniqueLoops, LoopItems
  <1>4. PlainGoing(agenda', lists[Plain])
    BY <1>1, <1>3 DEF PlainGoing
  <1> QED
    BY <1>2, <1>3, <1>4, PlainKept DEF PInv

\* Nothing of deferreds can happen.
LEMMA PlainOnly ==
  ASSUME PInv
  PROVE  /\ ~CallSettling /\ ~CallFire /\ ~CallForward /\ ~CallUpdate /\ ~WhenReady
         /\ Existing = {} /\ ~ReturnValue
  <1>1. \A is : Comes(is) => is = "user"
    BY PlainLooping DEF Comes, Callee
  <1>2. ~WhenReady
    BY PlainPop DEF WhenReady, IsNext, PlainItem
  <1>3. Existing = {}
    BY DEF Existing, PInv, PlainShape
  <1>4. ~ReturnValue
    <2> SUFFICES ASSUME ReturnValue PROVE FALSE
      OBVIOUS
    <2>1. agenda # <<>> /\ Rest # <<>> /\ Head(Rest).op = "forwarded"
      BY DEF ReturnValue, IsNext, Caller
    <2>2. PlainAgenda(Rest)
      BY <2>1, PlainPop
    <2>3. Head(Rest) \in Items(Rest)
      BY <2>1, <2>2, TailIsSeq DEF PlainAgenda
    <2> QED
      BY <2>1, <2>2, <2>3 DEF PlainAgenda, PlainItem
  <1> QED
    BY <1>1, <1>2, <1>3, <1>4 DEF CallSettling, CallFire, CallForward, CallUpdate

\* Every step keeps the invariant.
LEMMA PlainStep ==
  ASSUME PInv, [Next]_vars
  PROVE  PInv' /\ PlainShape'
  <1>1. CASE UNCHANGED vars
    <2>1. PInv'
      BY <1>1 DEF vars, program, history, userCalls, PInv, PlainShape, PlainOK, PlainAgenda,
                  PlainGoing
    <2> QED
      BY <2>1 DEF PInv
  <1>2. CASE DoAdd
    BY <1>2, PlainAddStep
  <1>3. CASE DoFire
    BY <1>3, PlainFireStep
  <1>4. CASE LoopEnds
    BY <1>4, PlainEndsStep
  <1>5. CASE CallUser
    BY <1>5, PlainUserStep
  <1>6. CASE UserNext
    <2>1. CASE CallPlain
      BY <2>1, PlainCallStep
    <2>2. CASE Return
      BY <2>2, PlainReturnStep
    <2>3. CASE ReturnFalse
      BY <2>3, PlainStopStep
    <2>4. CASE Throw
      BY <2>4, PlainThrowStep
    <2> QED
      BY <1>6, <2>1, <2>2, <2>3, <2>4, PlainOnly DEF UserNext
  <1>7. CASE Wait
    BY <1>1, <1>7 DEF Wait
  <1> QED
    BY <1>1, <1>2, <1>3, <1>4, <1>5, <1>6, <1>7, PlainOnly DEF Next

LEMMA PlainInit ==
  ASSUME Init, Plain \in DOMAIN lists
  PROVE  PInv
  <1>1. PICK options \in PlainOptions : lists = [l \in {Plain} |-> NewCallbacks(options)]
    <2>1. Plain \notin (1..UserDeferreds) \X Kinds
      BY DEF Plain
    <2> QED
      BY <2>1 DEF Init
  <1>2. lists[Plain] = NewCallbacks(options) /\ options \in SUBSET Options
    BY <1>1, DeferredAssumption
  <1>3. PlainOK(lists[Plain])
    BY <1>2, PlainNew
  <1>4. PlainShape
    <2>1. 0 \in 0..MaxPlainCalls
      BY DeferredAssumption
    <2>2. lists = [l \in {Plain} |-> lists[Plain]]
      BY <1>1
    <2> QED
      BY <2>1, <2>2 DEF Init, PlainShape
  <1>5. PlainAgenda(agenda) /\ PlainGoing(agenda, lists[Plain])
    <2>1. agenda = <<>>
      BY DEF Init
    <2> QED
      BY <2>1, ShortIsSeq DEF PlainAgenda, PlainGoing, UniqueLoops, LoopItems
  <1> QED
    BY <1>3, <1>4, <1>5 DEF PInv

--------------------------------------------------------------------------------
(* The callbacks in a list and those that wait                             *)

\* The user's functions in the list past this position are those that wait, in order.
Matches(w, list, from) ==
  \E p \in [1..Len(w) -> 1..Len(list)] :
    /\ \A j, k \in 1..Len(w) : j < k => p[j] < p[k]
    /\ \A j \in 1..Len(w) : /\ p[j] > from
                            /\ list[p[j]].is = "user" /\ list[p[j]].of = w[j]
    /\ \A k \in 1..Len(list) :
         k > from /\ list[k].is = "user" => \E j \in 1..Len(w) : p[j] = k

LEMMA MatchesNothing ==
  ASSUME NEW list, \A k \in 1..Len(list) : k > 0 => list[k].is # "user"
  PROVE  Matches(<<>>, list, 0)
  <1>1. Len(<<>>) = 0
    OBVIOUS
  <1>2. 1..0 = {}
    OBVIOUS
  <1> DEFINE p == [j \in 1..0 |-> 1]
  <1>3. p \in [1..0 -> 1..Len(list)]
    BY <1>2
  <1> QED
    BY <1>1, <1>2, <1>3 DEF Matches

LEMMA MatchesNil ==
  ASSUME NEW w \in Seq(Nat), NEW list, NEW from \in Nat, Len(list) \in Nat, from >= Len(list),
         Matches(w, list, from)
  PROVE  w = <<>>
  <1>1. PICK p \in [1..Len(w) -> 1..Len(list)] : \A j \in 1..Len(w) : p[j] > from
    BY DEF Matches
  <1>2. Len(w) \in Nat
    BY LenProperties
  <1>3. ASSUME Len(w) > 0 PROVE FALSE
    <2>1. 1 \in 1..Len(w)
      BY <1>2, <1>3
    <2>2. p[1] > from /\ p[1] \in 1..Len(list)
      BY <1>1, <2>1
    <2> QED
      BY <2>2
  <1> QED
    BY <1>2, <1>3, EmptySeq

\* A function is added: of the user's, or another.
LEMMA MatchesAppend ==
  ASSUME NEW w \in Seq(Nat), NEW list, IsSeq(list), NEW from \in Nat, from <= Len(list),
         NEW f, Matches(w, list, from)
  PROVE  /\ f.is # "user" => Matches(w, Append(list, f), from)
         /\ f.is = "user" /\ f.of \in Nat => Matches(Append(w, f.of), Append(list, f), from)
  <1> DEFINE n == Len(list)
             longer == Append(list, f)
             v == Append(w, f.of)
  <1>1. n \in Nat /\ Len(w) \in Nat /\ from <= n
    BY IsSeqFacts, LenProperties
  <1>2. Len(longer) = n + 1 /\ longer[n + 1] = f /\ \A k \in 1..n : longer[k] = list[k]
    <2>1. list \in Seq(Items(list) \cup {f}) /\ f \in Items(list) \cup {f}
      <3>1. list \in [1..Len(list) -> Items(list) \cup {f}]
        <4>1. list \in [1..Len(list) -> Items(list)]
          BY LenProperties DEF IsSeq
        <4> QED
          BY <4>1
      <3> QED
        BY <1>1, <3>1, FunctionIsSeq
    <2> QED
      BY <2>1, AppendProperties
  <1> HIDE DEF n, longer
  <1>3. PICK p \in [1..Len(w) -> 1..n] :
          /\ \A j, k \in 1..Len(w) : j < k => p[j] < p[k]
          /\ \A j \in 1..Len(w) : p[j] > from /\ list[p[j]].is = "user" /\ list[p[j]].of = w[j]
          /\ \A k \in 1..n :
               k > from /\ list[k].is = "user" => \E j \in 1..Len(w) : p[j] = k
    BY DEF Matches, n
  <1>4. \A j \in 1..Len(w) : p[j] \in 1..n /\ p[j] \in 1..Len(longer) /\ p[j] < n + 1
    <2>1. \A j \in 1..Len(w) : p[j] \in 1..n
      BY <1>3
    <2>2. \A k \in 1..n : k \in 1..Len(longer) /\ k < n + 1
      BY <1>1, <1>2
    <2> QED
      BY <2>1, <2>2
  <1>5. \A k \in 1..Len(longer) : k \in 1..n \/ k = n + 1
    BY <1>1, <1>2
  <1>6. ASSUME f.is # "user" PROVE Matches(w, longer, from)
    <2>1. p \in [1..Len(w) -> 1..Len(longer)]
      BY <1>3, <1>4
    <2>2. \A j \in 1..Len(w) : p[j] > from /\ longer[p[j]].is = "user" /\ longer[p[j]].of = w[j]
      BY <1>2, <1>3, <1>4
    <2>3. \A k \in 1..Len(longer) :
            k > from /\ longer[k].is = "user" => \E j \in 1..Len(w) : p[j] = k
      BY <1>2, <1>3, <1>5, <1>6
    <2> QED
      BY <1>3, <2>1, <2>2, <2>3 DEF Matches
  <1>7. ASSUME f.is = "user", f.of \in Nat PROVE Matches(v, longer, from)
    <2> DEFINE q == [j \in 1..Len(v) |-> IF j = Len(v) THEN n + 1 ELSE p[j]]
    <2>1. /\ Len(v) = Len(w) + 1 /\ v[Len(v)] = f.of
          /\ \A j \in 1..Len(w) : v[j] = w[j]
      BY <1>7, AppendProperties
    <2> HIDE DEF v
    <2>2. \A j \in 1..Len(v) : \/ j \in 1..Len(w) /\ j # Len(v) /\ q[j] = p[j]
                               \/ j = Len(v) /\ q[j] = n + 1
      BY <1>1, <2>1
    <2>3. n + 1 \in 1..Len(longer) /\ n + 1 > from /\ Len(v) \in 1..Len(v)
      BY <1>1, <1>2, <2>1
    <2>4. q \in [1..Len(v) -> 1..Len(longer)]
      BY <1>4, <2>2, <2>3
    <2>5. \A j \in 1..Len(w) : j \in 1..Len(v) /\ q[j] = p[j]
      BY <1>1, <2>1
    <2>6. q[Len(v)] = n + 1
      BY <2>3
    <2> HIDE DEF q
    <2>7. ASSUME NEW j \in 1..Len(v), NEW k \in 1..Len(v), j < k PROVE q[j] < q[k]
      <3>1. j \in 1..Len(w)
        BY <1>1, <2>1, <2>7
      <3>2. CASE k \in 1..Len(w)
        BY <1>3, <2>5, <2>7, <3>1, <3>2
      <3>3. CASE k = Len(v)
        BY <1>4, <2>5, <2>6, <3>1, <3>3
      <3> QED
        BY <2>2, <3>2, <3>3
    <2>8. ASSUME NEW j \in 1..Len(v)
          PROVE  q[j] > from /\ longer[q[j]].is = "user" /\ longer[q[j]].of = v[j]
      <3>1. CASE j \in 1..Len(w)
        <4>1. p[j] > from /\ list[p[j]].is = "user" /\ list[p[j]].of = w[j]
          BY <1>3, <3>1
        <4>2. q[j] = p[j] /\ v[j] = w[j] /\ longer[p[j]] = list[p[j]]
          BY <1>2, <1>4, <2>1, <2>5, <3>1
        <4> QED
          BY <4>1, <4>2
      <3>2. CASE j = Len(v)
        BY <1>2, <1>7, <2>1, <2>3, <2>6, <3>2
      <3> QED
        BY <2>2, <3>1, <3>2
    <2>9. ASSUME NEW k \in 1..Len(longer), k > from, longer[k].is = "user"
          PROVE  \E j \in 1..Len(v) : q[j] = k
      <3>1. CASE k \in 1..n
        <4>1. list[k].is = "user"
          BY <1>2, <2>9, <3>1
        <4>2. PICK j \in 1..Len(w) : p[j] = k
          BY <1>3, <2>9, <3>1, <4>1
        <4> QED
          BY <2>5, <4>2
      <3>2. CASE k = n + 1
        BY <2>3, <2>6, <3>2
      <3> QED
        BY <1>5, <3>1, <3>2
    <2> QED
      BY <2>4, <2>7, <2>8, <2>9 DEF Matches
  <1> QED
    BY <1>6, <1>7 DEF longer

\* The loop comes to the next function: of the user's, or another.
LEMMA MatchesNext ==
  ASSUME NEW w \in Seq(Nat), NEW list, Len(list) \in Nat, NEW from \in Nat, from < Len(list),
         Matches(w, list, from)
  PROVE  /\ list[from + 1].is # "user" => Matches(w, list, from + 1)
         /\ list[from + 1].is = "user" =>
              w # <<>> /\ Head(w) = list[from + 1].of /\ Matches(Tail(w), list, from + 1)
  <1>1. Len(w) \in Nat /\ from + 1 \in 1..Len(list)
    BY LenProperties
  <1>2. PICK p \in [1..Len(w) -> 1..Len(list)] :
          /\ \A j, k \in 1..Len(w) : j < k => p[j] < p[k]
          /\ \A j \in 1..Len(w) : p[j] > from /\ list[p[j]].is = "user" /\ list[p[j]].of = w[j]
          /\ \A k \in 1..Len(list) :
               k > from /\ list[k].is = "user" => \E j \in 1..Len(w) : p[j] = k
    BY DEF Matches
  <1>3. ASSUME list[from + 1].is # "user" PROVE Matches(w, list, from + 1)
    <2>1. \A j \in 1..Len(w) : p[j] \in 1..Len(list) /\ p[j] > from /\ p[j] # from + 1
      BY <1>2, <1>3
    <2>2. \A j \in 1..Len(w) : p[j] > from + 1
      BY <2>1
    <2>3. \A k \in 1..Len(list) : k > from + 1 => k > from
      OBVIOUS
    <2> QED
      BY <1>2, <2>2, <2>3 DEF Matches
  <1>4. ASSUME list[from + 1].is = "user"
        PROVE  w # <<>> /\ Head(w) = list[from + 1].of /\ Matches(Tail(w), list, from + 1)
    <2>1. PICK i \in 1..Len(w) : p[i] = from + 1
      <3>1. from + 1 > from
        OBVIOUS
      <3> QED
        BY <1>1, <1>2, <1>4, <3>1
    <2>2. w # <<>>
      <3>1. Len(w) # 0
        BY <1>1, <2>1
      <3> QED
        BY <3>1, EmptySeq
    <2>3. /\ Head(w) = w[1] /\ Tail(w) \in Seq(Nat) /\ Len(Tail(w)) = Len(w) - 1
          /\ \A j \in 1..Len(Tail(w)) : Tail(w)[j] = w[j + 1]
      BY <2>2, HeadTailProperties
    <2>4. i = 1
      <3> SUFFICES ASSUME i # 1 PROVE FALSE
        OBVIOUS
      <3>1. 1 \in 1..Len(w) /\ 1 < i
        BY <1>1, <2>1
      <3>2. p[1] < p[i] /\ p[1] > from /\ p[1] \in 1..Len(list)
        BY <1>2, <2>1, <3>1
      <3> QED
        BY <2>1, <3>2
    <2>5. Head(w) = list[from + 1].of
      BY <1>2, <2>1, <2>3, <2>4
    <2> DEFINE v == Tail(w)
               q == [j \in 1..Len(v) |-> p[j + 1]]
    <2>6. \A j \in 1..Len(v) : j + 1 \in 1..Len(w) /\ 1 < j + 1 /\ 1 \in 1..Len(w) /\ v[j] = w[j + 1]
      BY <1>1, <2>3
    <2>7. \A j \in 1..Len(v) : q[j] = p[j + 1]
      OBVIOUS
    <2>8. q \in [1..Len(v) -> 1..Len(list)]
      BY <1>2, <2>6
    <2> HIDE DEF v, q
    <2>9. ASSUME NEW j \in 1..Len(v), NEW k \in 1..Len(v), j < k PROVE q[j] < q[k]
      <3>1. j + 1 < k + 1
        BY <2>9
      <3> QED
        BY <1>2, <2>6, <2>7, <3>1
    <2>10. ASSUME NEW j \in 1..Len(v)
           PROVE  q[j] > from + 1 /\ list[q[j]].is = "user" /\ list[q[j]].of = v[j]
      <3>1. p[1] < p[j + 1] /\ p[j + 1] \in 1..Len(list)
        BY <1>2, <2>6
      <3>2. q[j] > from + 1
        BY <2>1, <2>4, <2>7, <3>1
      <3>3. list[p[j + 1]].is = "user" /\ list[p[j + 1]].of = w[j + 1]
        BY <1>2, <2>6
      <3>4. q[j] = p[j + 1] /\ v[j] = w[j + 1]
        BY <2>6, <2>7
      <3> QED
        BY <3>2, <3>3, <3>4
    <2>11. ASSUME NEW k \in 1..Len(list), k > from + 1, list[k].is = "user"
           PROVE  \E j \in 1..Len(v) : q[j] = k
      <3>1. k > from /\ k # from + 1
        BY <2>11
      <3>2. PICK j \in 1..Len(w) : p[j] = k
        BY <1>2, <2>11, <3>1
      <3>3. j # 1
        BY <2>1, <2>4, <3>1, <3>2
      <3>4. j - 1 \in 1..Len(v) /\ (j - 1) + 1 = j
        BY <1>1, <2>3, <3>2, <3>3 DEF v
      <3> QED
        BY <2>7, <3>2, <3>4
    <2>12. Matches(v, list, from + 1)
      BY <2>8, <2>9, <2>10, <2>11 DEF Matches
    <2> QED
      BY <2>2, <2>5, <2>12 DEF v
  <1> QED
    BY <1>3, <1>4

--------------------------------------------------------------------------------
(* The invariant, with deferreds                                           *)

ListsOf(n) == (1..n) \X Kinds
WaysOf(n) == (1..n) \X Ways

\* A function that a list may hold, when there are n deferreds and m masters.
KnownFn(f, n, m) ==
  /\ f.is \in {"user", "settle", "fire", "forward", "update"}
  /\ f.is = "user" => f.of \in Nat
  /\ f.is \in {"fire", "forward"} => f.list \in ListsOf(n)
  /\ f.is = "update" => f.of \in 1..m

KnownItem(x, n, m) ==
  /\ x.op \in {"add", "fire", "loop", "run", "forwarded", "when"}
  /\ x.op \in {"add", "fire", "loop", "forwarded"} => x.list \in ListsOf(n)
  /\ x.op = "add" => KnownFn(x.fns[1], n, m) /\ x.fns[1].is # "settle"
  /\ x.op = "loop" => x.on \in {"first", "next"}
  /\ x.op = "when" => x.list[1] \in 1..m

Outcomes == {"pending", "resolved", "rejected"}

Shape ==
  /\ Plain \notin DOMAIN lists
  /\ state \in Seq(Outcomes) /\ Len(state) \in 1..MaxDeferreds
  /\ lists = [l \in ListsOf(Len(state)) |-> lists[l]]

MastersOK ==
  /\ IsSeq(masters)
  /\ \A m \in 1..Len(masters) :
       LET master == masters[m]
       IN master \in [deferred : 1..Len(state), of : {master.of}, remaining : {master.remaining},
                      values : {master.values}, progress : {master.progress}]

HistoryOK ==
  /\ attached \in Nat /\ calls \in 0..MaxCalls
  /\ waiting \in [(1..MaxDeferreds) \X Ways -> Seq(Nat)]
  /\ \A l \in DOMAIN waiting : l \notin ListsOf(Len(state)) => waiting[l] = <<>>
  /\ due \in [fns : {due.fns}, emptied : BOOLEAN]

AllKnown(s, n, m) == \A x \in Items(s) : KnownItem(x, n, m)

AgendaIs(s, n, m) == IsSeq(s) /\ UniqueLoops(s) /\ AllKnown(s, n, m)

AgendaOK == AgendaIs(agenda, Len(state), Len(masters))

\* What holds of any list, with the loops it has on the agenda.
ListOK(l, cb, loops, n, m) ==
  /\ IsList(cb) /\ IsSeq(cb.list)
  /\ \A j \in 1..Len(cb.list) : KnownFn(cb.list[j], n, m)
  /\ cb.options = IF l[2] = "progress" THEN {"memory"} ELSE {"once", "memory"}
  /\ cb.firing => cb.fired
  /\ loops # {} => cb.firing
  /\ cb.firingIndex \in Nat /\ cb.firingLength \in Nat
  /\ cb.firing /\ ~cb.disabled => cb.firingLength = Len(cb.list)
  /\ \A j \in 1..Len(cb.list) :
       cb.list[j].is = "settle" =>
         j = 1 /\ l[2] # "progress" /\ cb.list[j].of = l[1] /\ cb.list[j].list = l

\* Where a loop takes up.
From(cb, x) == IF x.on = "next" THEN cb.firingIndex + 1 ELSE cb.firingIndex

\* What holds of the list of a way, with the callbacks that wait.
WayOK(l, cb, w, loops, hurt) ==
  /\ ~cb.open /\ cb.stack = <<>>
  /\ cb.disabled => ~cb.fired
  /\ ~cb.fired => cb.memory = <<>>
  /\ ~cb.fired /\ ~cb.disabled =>
       cb.list # <<>> /\ cb.list[1].is = "settle" /\ Matches(w, cb.list, 0)
  /\ cb.fired => cb.memory # <<>> /\ cb.memory = <<cb.memory[1]>>
  /\ cb.fired /\ ~cb.firing => cb.list = <<>> /\ w = <<>>
  /\ cb.firing => l \in hurt \/ loops # {}
  /\ \A x \in loops : /\ x.data = cb.memory[1]
                      /\ From(cb, x) <= Len(cb.list)
                      /\ Matches(w, cb.list, From(cb, x))

\* The loop of this list is about to call the functions that settle its deferred.
Settling(l) ==
  /\ IsNext("loop") /\ Todo.list = l /\ Todo.on = "first"
  /\ lists[l].firingIndex = 0
  /\ lists[l].list # <<>> /\ lists[l].list[1].is = "settle"

\* A deferred goes one way only.
OneWay(d, w) ==
  lists[<<d, w>>].fired =>
    /\ ~lists[<<d, OtherWay(w)>>].fired
    /\ lists[<<d, OtherWay(w)>>].disabled \/ Settling(<<d, w>>)

ListsOK ==
  /\ \A l \in ListsOf(Len(state)) :
       ListOK(l, lists[l], LoopItems(agenda, l), Len(state), Len(masters))
  /\ \A l \in WaysOf(Len(state)) :
       WayOK(l, lists[l], waiting[l], LoopItems(agenda, l), broken)

OneWays == \A d \in 1..Len(state), w \in Ways : OneWay(d, w)

DInv == Shape /\ MastersOK /\ HistoryOK /\ AgendaOK /\ ListsOK /\ OneWays

--------------------------------------------------------------------------------
(* The operations keep a list as it should be                              *)

LEMMA KnownMore ==
  ASSUME NEW n \in Nat, NEW m \in Nat, NEW more \in Nat, NEW most \in Nat, n <= more, m <= most
  PROVE  /\ \A f : KnownFn(f, n, m) => KnownFn(f, more, most)
         /\ \A x : KnownItem(x, n, m) => KnownItem(x, more, most)
         /\ ListsOf(n) \subseteq ListsOf(more)
  <1>1. 1..n \subseteq 1..more /\ 1..m \subseteq 1..most
    OBVIOUS
  <1>2. ListsOf(n) \subseteq ListsOf(more)
    BY <1>1 DEF ListsOf
  <1>3. \A f : KnownFn(f, n, m) => KnownFn(f, more, most)
    BY <1>1, <1>2 DEF KnownFn
  <1> QED
    BY <1>1, <1>2, <1>3 DEF KnownItem

LEMMA AddLonger ==
  ASSUME NEW cb, IsList(cb), "unique" \notin cb.options, NEW f
  PROVE  LET new == Add(cb, f)
             longer == Append(cb.list, f)
         IN  /\ IsList(new)
             /\ new.options = cb.options /\ (new.disabled <=> cb.disabled)
             /\ cb.disabled => new.list = cb.list
             /\ ~cb.disabled => new.list = longer
             /\ (new.open <=> cb.open) /\ new.stack = cb.stack
             /\ ~FiresOnAdd(cb) => /\ new.memory = cb.memory
                                   /\ (new.fired <=> cb.fired) /\ (new.firing <=> cb.firing)
                                   /\ new.firingIndex = cb.firingIndex
                                   /\ cb.firing /\ ~cb.disabled => new.firingLength = Len(longer)
                                   /\ ~(cb.firing /\ ~cb.disabled) =>
                                        new.firingLength = cb.firingLength
             /\ FiresOnAdd(cb) => /\ "memory" \in cb.options => new.memory = <<cb.memory[1]>>
                                  /\ new.fired /\ new.firing
                                  /\ new.firingIndex = Len(cb.list)
                                  /\ new.firingLength = Len(longer)
  <1> DEFINE new == Add(cb, f)
             longer == IF "unique" \in cb.options /\ f \in ToSet(cb.list)
                       THEN cb.list ELSE Append(cb.list, f)
  <1>1. /\ IsList(new)
        /\ new.options = cb.options /\ (new.disabled <=> cb.disabled)
        /\ new.list = IF cb.disabled THEN cb.list ELSE longer
        /\ (new.open <=> cb.open) /\ new.stack = cb.stack
        /\ ~FiresOnAdd(cb) => /\ new.memory = cb.memory
                              /\ (new.fired <=> cb.fired) /\ (new.firing <=> cb.firing)
                              /\ new.firingIndex = cb.firingIndex
                              /\ new.firingLength = IF cb.firing /\ ~cb.disabled
                                                    THEN Len(longer) ELSE cb.firingLength
        /\ FiresOnAdd(cb) => /\ new.memory = IF "memory" \in cb.options
                                             THEN <<cb.memory[1]>> ELSE <<>>
                             /\ new.fired /\ new.firing
                             /\ new.firingIndex = Len(cb.list)
                             /\ new.firingLength = Len(longer)
    BY AddFields
  <1>2. longer = Append(cb.list, f)
    OBVIOUS
  <1> HIDE DEF new, longer
  <1> QED
    BY <1>1, <1>2 DEF new

LEMMA AddKeepsList ==
  ASSUME NEW l, NEW cb, NEW loops, NEW n, NEW m, ListOK(l, cb, loops, n, m),
         NEW f, KnownFn(f, n, m), f.is # "settle", NEW data
  PROVE  ListOK(l, Add(cb, f), IF FiresOnAdd(cb) THEN {Loop(l, data, "first")} ELSE loops, n, m)
  <1> DEFINE new == Add(cb, f)
             longer == Append(cb.list, f)
             size == Len(cb.list)
  <1>1. IsList(cb) /\ IsSeq(cb.list) /\ "unique" \notin cb.options
    BY DEF ListOK
  <1>2. /\ IsList(new)
        /\ new.options = cb.options /\ (new.disabled <=> cb.disabled)
        /\ new.list = IF cb.disabled THEN cb.list ELSE longer
        /\ ~FiresOnAdd(cb) => /\ (new.fired <=> cb.fired) /\ (new.firing <=> cb.firing)
                              /\ new.firingIndex = cb.firingIndex
                              /\ new.firingLength = IF cb.firing /\ ~cb.disabled
                                                    THEN Len(longer) ELSE cb.firingLength
        /\ FiresOnAdd(cb) => /\ new.fired /\ new.firing
                             /\ new.firingIndex = size /\ new.firingLength = Len(longer)
    BY <1>1, AddLonger
  <1>3. /\ IsSeq(longer) /\ Len(longer) = size + 1 /\ longer[size + 1] = f
        /\ \A k \in 1..size : longer[k] = cb.list[k]
        /\ \A k \in 1..Len(longer) : k \in 1..size \/ k = size + 1
    BY <1>1, LongerList
  <1>4. size \in Nat
    BY <1>1, IsSeqFacts
  <1> HIDE DEF new, longer, size
  <1>5. \A k \in 1..Len(longer) :
          /\ KnownFn(longer[k], n, m)
          /\ longer[k].is = "settle" =>
               k = 1 /\ l[2] # "progress" /\ longer[k].of = l[1] /\ longer[k].list = l
    <2> SUFFICES ASSUME NEW k \in 1..Len(longer)
                 PROVE  /\ KnownFn(longer[k], n, m)
                        /\ longer[k].is = "settle" =>
                             k = 1 /\ l[2] # "progress" /\ longer[k].of = l[1] /\ longer[k].list = l
      OBVIOUS
    <2>1. CASE k \in 1..size
      BY <1>3, <2>1 DEF ListOK, size
    <2>2. CASE k = size + 1
      BY <1>3, <2>2
    <2> QED
      BY <1>3, <2>1, <2>2
  <1>6. CASE cb.disabled
    <2>1. ~FiresOnAdd(cb)
      BY <1>6 DEF FiresOnAdd
    <2> QED
      BY <1>2, <1>6, <2>1 DEF ListOK, new
  <1>7. CASE ~cb.disabled /\ FiresOnAdd(cb)
    BY <1>2, <1>3, <1>4, <1>5, <1>7 DEF ListOK, new
  <1>8. CASE ~cb.disabled /\ ~FiresOnAdd(cb)
    BY <1>2, <1>3, <1>4, <1>5, <1>8 DEF ListOK, new
  <1> QED
    BY <1>6, <1>7, <1>8

LEMMA AddKeepsWay ==
  ASSUME NEW l, NEW cb, NEW loops, NEW n, NEW m, ListOK(l, cb, loops, n, m),
         l[2] # "progress", NEW w \in Seq(Nat), NEW b, WayOK(l, cb, w, loops, b),
         NEW f, KnownFn(f, n, m)
  PROVE  /\ WayOK(l, Add(cb, f), IF f.is = "user" THEN Append(w, f.of) ELSE w,
                  IF FiresOnAdd(cb) THEN {Loop(l, cb.memory[1], "first")} ELSE loops, b)
         /\ (Add(cb, f).fired <=> cb.fired) /\ (Add(cb, f).disabled <=> cb.disabled)
         /\ cb.fired => Add(cb, f).memory = cb.memory
  <1> DEFINE new == Add(cb, f)
             longer == Append(cb.list, f)
             size == Len(cb.list)
             v == IF f.is = "user" THEN Append(w, f.of) ELSE w
  <1>1. IsList(cb) /\ IsSeq(cb.list) /\ "unique" \notin cb.options /\ "memory" \in cb.options
    BY DEF ListOK
  <1>2. /\ (new.disabled <=> cb.disabled) /\ (new.open <=> cb.open) /\ new.stack = cb.stack
        /\ new.list = IF cb.disabled THEN cb.list ELSE longer
        /\ ~FiresOnAdd(cb) => /\ new.memory = cb.memory
                              /\ (new.fired <=> cb.fired) /\ (new.firing <=> cb.firing)
                              /\ new.firingIndex = cb.firingIndex
        /\ FiresOnAdd(cb) => /\ new.memory = <<cb.memory[1]>> /\ new.fired /\ new.firing
                             /\ new.firingIndex = size
    BY <1>1, AddLonger
  <1>3. /\ IsSeq(longer) /\ Len(longer) = size + 1 /\ longer # <<>>
        /\ \A k \in 1..size : longer[k] = cb.list[k]
    BY <1>1, LongerList
  <1>4. size \in Nat /\ (cb.list = <<>> <=> size = 0)
    BY <1>1, IsSeqFacts
  <1>5. \A from \in Nat : from <= size /\ Matches(w, cb.list, from) => Matches(v, longer, from)
    <2> SUFFICES ASSUME NEW from \in Nat, from <= size, Matches(w, cb.list, from)
                 PROVE  Matches(v, longer, from)
      OBVIOUS
    <2>1. f.is = "user" => f.of \in Nat
      BY DEF KnownFn
    <2> QED
      BY <1>1, <2>1, MatchesAppend
  <1> HIDE DEF new, longer, size, v
  <1>6. CASE cb.disabled
    <2>1. ~FiresOnAdd(cb) /\ ~cb.fired /\ ~cb.firing /\ loops = {}
      BY <1>6 DEF FiresOnAdd, WayOK, ListOK
    <2> QED
      BY <1>2, <1>6, <2>1 DEF WayOK, new, v
  <1>7. CASE ~cb.disabled /\ ~cb.fired
    <2>1. ~FiresOnAdd(cb) /\ ~cb.firing /\ loops = {}
      BY <1>7 DEF FiresOnAdd, WayOK, ListOK
    <2>2. cb.list # <<>> /\ cb.list[1].is = "settle" /\ Matches(w, cb.list, 0)
      BY <1>7 DEF WayOK
    <2>3. longer[1] = cb.list[1] /\ Matches(v, longer, 0)
      BY <1>3, <1>4, <1>5, <2>2
    <2> QED
      BY <1>2, <1>3, <1>7, <2>1, <2>2, <2>3 DEF WayOK, new, v
  <1>8. CASE ~cb.disabled /\ cb.fired /\ ~cb.firing
    <2>1. FiresOnAdd(cb) /\ cb.list = <<>> /\ w = <<>> /\ size = 0
          /\ cb.memory = <<cb.memory[1]>> /\ cb.memory # <<>>
      BY <1>4, <1>8 DEF FiresOnAdd, WayOK
    <2>2. Matches(w, cb.list, 0)
      <3>1. \A k \in 1..Len(cb.list) : k > 0 => cb.list[k].is # "user"
        BY <2>1 DEF size
      <3> QED
        BY <2>1, <3>1, MatchesNothing
    <2>3. Matches(v, longer, 0)
      BY <1>5, <2>1, <2>2
    <2> DEFINE x == Loop(l, cb.memory[1], "first")
    <2>4. x.data = cb.memory[1] /\ From(new, x) = 0
      BY <1>2, <2>1 DEF Loop, Do, From
    <2> HIDE DEF x
    <2>5. WayOK(l, new, v, {x}, b)
      BY <1>2, <1>3, <1>8, <2>1, <2>3, <2>4 DEF WayOK
    <2> QED
      BY <1>2, <1>8, <2>1, <2>5 DEF new, v, x
  <1>9. CASE ~cb.disabled /\ cb.fired /\ cb.firing
    <2>1. ~FiresOnAdd(cb)
      BY <1>9 DEF FiresOnAdd
    <2>2. \A x \in loops : /\ From(new, x) = From(cb, x) /\ From(cb, x) \in Nat
                           /\ From(cb, x) <= size /\ Matches(w, cb.list, From(cb, x))
      <3>1. cb.firingIndex \in Nat
        BY DEF ListOK
      <3> QED
        BY <1>2, <2>1, <3>1 DEF From, WayOK, size
    <2>3. \A x \in loops : From(new, x) <= Len(longer) /\ Matches(v, longer, From(new, x))
      BY <1>3, <1>4, <1>5, <2>2
    <2>4. WayOK(l, new, v, loops, b)
      BY <1>2, <1>3, <1>9, <2>1, <2>3 DEF WayOK
    <2> QED
      BY <1>2, <2>1, <2>4 DEF new, v
  <1> QED
    BY <1>6, <1>7, <1>8, <1>9

LEMMA FireKeepsList ==
  ASSUME NEW l, NEW cb, NEW loops, NEW n, NEW m, ListOK(l, cb, loops, n, m), NEW data, NEW first
  PROVE  ListOK(l, FireWith(cb, data), IF Starts(cb) THEN {Loop(l, first, "first")} ELSE loops, n, m)
  <1> DEFINE new == FireWith(cb, data)
  <1>1. IsList(cb) /\ IsSeq(cb.list)
    BY DEF ListOK
  <1>2. /\ IsList(new)
        /\ new.options = cb.options /\ new.list = cb.list /\ (new.disabled <=> cb.disabled)
        /\ ~Starts(cb) => /\ (new.fired <=> cb.fired) /\ (new.firing <=> cb.firing)
                          /\ new.firingIndex = cb.firingIndex /\ new.firingLength = cb.firingLength
        /\ Starts(cb) => /\ new.fired /\ new.firing
                         /\ new.firingIndex = 0 /\ new.firingLength = Len(cb.list)
    BY <1>1, FireWithFields
  <1>3. Len(cb.list) \in Nat
    BY <1>1, IsSeqFacts
  <1> HIDE DEF new
  <1>4. CASE Starts(cb)
    BY <1>2, <1>3, <1>4 DEF ListOK, new
  <1>5. CASE ~Starts(cb)
    BY <1>2, <1>5 DEF ListOK, new
  <1> QED
    BY <1>4, <1>5

LEMMA FireKeepsWay ==
  ASSUME NEW l, NEW cb, NEW loops, NEW n, NEW m, ListOK(l, cb, loops, n, m),
         l[2] # "progress", NEW w \in Seq(Nat), NEW b, WayOK(l, cb, w, loops, b), NEW data
  PROVE  LET new == FireWith(cb, data)
         IN  /\ Starts(cb) => WayOK(l, new, w, {Loop(l, data, "first")}, b)
             /\ ~Starts(cb) => WayOK(l, new, w, loops, b)
             /\ (new.disabled <=> cb.disabled) /\ new.list = cb.list
             /\ ~Starts(cb) => (new.fired <=> cb.fired) /\ new.memory = cb.memory
             /\ Starts(cb) => /\ ~cb.fired /\ ~cb.disabled
                              /\ new.fired /\ new.memory = <<data>> /\ new.firingIndex = 0
                              /\ new.list # <<>> /\ new.list[1].is = "settle"
  <1> DEFINE new == FireWith(cb, data)
  <1>1. IsList(cb) /\ "memory" \in cb.options /\ ~cb.open /\ IsSeq(cb.list)
    BY DEF ListOK, WayOK
  <1>2. /\ new.list = cb.list /\ (new.disabled <=> cb.disabled) /\ (new.open <=> cb.open)
        /\ ~(Accepts(cb) /\ cb.firing) => new.stack = cb.stack
        /\ ~Starts(cb) => /\ new.memory = cb.memory /\ (new.fired <=> cb.fired)
                          /\ (new.firing <=> cb.firing) /\ new.firingIndex = cb.firingIndex
        /\ Starts(cb) => /\ new.memory = <<data>> /\ new.fired /\ new.firing
                         /\ new.firingIndex = 0
    BY <1>1, FireWithFields
  <1>3. cb.firing => ~Accepts(cb)
    BY <1>1 DEF Accepts, ListOK
  <1> HIDE DEF new
  <1>4. CASE Starts(cb)
    <2>1. ~cb.fired /\ ~cb.disabled /\ ~cb.firing
      BY <1>1, <1>4 DEF Starts, Accepts
    <2>2. cb.list # <<>> /\ cb.list[1].is = "settle" /\ Matches(w, cb.list, 0)
      BY <2>1 DEF WayOK
    <2> DEFINE x == Loop(l, data, "first")
    <2>3. x.data = data /\ From(new, x) = 0
      BY <1>2, <1>4 DEF Loop, Do, From
    <2>4. <<data>> # <<>> /\ <<data>>[1] = data /\ 0 <= Len(cb.list)
      BY <1>1, IsSeqFacts
    <2> HIDE DEF x
    <2>5. WayOK(l, new, w, {x}, b)
      BY <1>1, <1>2, <1>3, <1>4, <2>1, <2>2, <2>3, <2>4 DEF WayOK
    <2> QED
      BY <1>2, <1>4, <2>1, <2>2, <2>5 DEF new, x
  <1>5. CASE ~Starts(cb)
    <2>1. \A x : From(new, x) = From(cb, x)
      BY <1>2, <1>5 DEF From
    <2>2. WayOK(l, new, w, loops, b)
      BY <1>2, <1>3, <1>5, <2>1 DEF WayOK
    <2> QED
      BY <1>2, <1>5, <2>2 DEF new
  <1> QED
    BY <1>4, <1>5

\* The list as the loop "x" finds it.
Reached(cb, x) == IF x.on = "next" THEN [cb EXCEPT !.firingIndex = @ + 1] ELSE cb

LEMMA ReachedFields ==
  ASSUME NEW cb, IsList(cb), NEW x
  PROVE  LET new == Reached(cb, x)
         IN  /\ IsList(new)
             /\ new.options = cb.options /\ new.list = cb.list /\ (new.disabled <=> cb.disabled)
             /\ (new.open <=> cb.open) /\ new.stack = cb.stack /\ new.memory = cb.memory
             /\ (new.fired <=> cb.fired) /\ (new.firing <=> cb.firing)
             /\ new.firingLength = cb.firingLength /\ new.firingIndex = From(cb, x)
  BY DEF Reached, IsList, From

\* The loop goes on: it comes to a function of the list.
LEMMA ComesToFn ==
  ASSUME NEW l, NEW cb, NEW loops, NEW n, NEW m, ListOK(l, cb, loops, n, m),
         NEW x \in loops, GoesOn(Reached(cb, x))
  PROVE  LET from == From(cb, x)
             fn == Current(Reached(cb, x))
         IN  /\ from \in Nat /\ from < Len(cb.list) /\ ~cb.disabled
             /\ from + 1 \in 1..Len(cb.list) /\ fn = cb.list[from + 1]
             /\ KnownFn(fn, n, m)
             /\ fn.is = "settle" => /\ from = 0 /\ l[2] # "progress"
                                    /\ fn.of = l[1] /\ fn.list = l
  <1> DEFINE new == Reached(cb, x)
             from == From(cb, x)
  <1>1. IsList(cb) /\ IsSeq(cb.list) /\ cb.firing /\ cb.firingIndex \in Nat /\ cb.firingLength \in Nat
    BY DEF ListOK
  <1>2. /\ new.list = cb.list /\ (new.disabled <=> cb.disabled)
        /\ new.firingLength = cb.firingLength /\ new.firingIndex = from
    BY <1>1, ReachedFields
  <1>3. from \in Nat
    BY <1>1 DEF From
  <1>4. GoesOn(new)
    OBVIOUS
  <1> HIDE DEF new, from
  <1>5. ~cb.disabled /\ from < Len(cb.list)
    BY <1>1, <1>2, <1>4 DEF GoesOn, ListOK
  <1>6. from + 1 \in 1..Len(cb.list)
    BY <1>1, <1>3, <1>5, IsSeqFacts
  <1>7. Current(new) = cb.list[from + 1]
    BY <1>2 DEF Current
  <1>8. /\ KnownFn(cb.list[from + 1], n, m)
        /\ cb.list[from + 1].is = "settle" =>
             /\ from + 1 = 1 /\ l[2] # "progress"
             /\ cb.list[from + 1].of = l[1] /\ cb.list[from + 1].list = l
    BY <1>6 DEF ListOK
  <1>9. from + 1 = 1 => from = 0
    BY <1>3
  <1> QED
    BY <1>3, <1>5, <1>6, <1>7, <1>8, <1>9 DEF new, from

LEMMA CallKeepsList ==
  ASSUME NEW l, NEW cb, NEW loops, NEW n, NEW m, ListOK(l, cb, loops, n, m),
         NEW x \in loops, NEW next
  PROVE  ListOK(l, Reached(cb, x), {next}, n, m)
  <1> DEFINE new == Reached(cb, x)
             from == From(cb, x)
  <1>1. IsList(cb) /\ cb.firing /\ cb.firingIndex \in Nat
    BY DEF ListOK
  <1>2. /\ IsList(new)
        /\ new.options = cb.options /\ new.list = cb.list /\ (new.disabled <=> cb.disabled)
        /\ (new.fired <=> cb.fired) /\ (new.firing <=> cb.firing)
        /\ new.firingLength = cb.firingLength /\ new.firingIndex = from
    BY <1>1, ReachedFields
  <1>3. from \in Nat
    BY <1>1 DEF From
  <1> HIDE DEF new, from
  <1>4. ListOK(l, new, {next}, n, m)
    BY <1>1, <1>2, <1>3 DEF ListOK
  <1> QED
    BY <1>4 DEF new

LEMMA CallKeepsWay ==
  ASSUME NEW l, NEW cb, NEW loops, NEW n, NEW m, ListOK(l, cb, loops, n, m),
         NEW w \in Seq(Nat), NEW b, WayOK(l, cb, w, loops, b),
         NEW x \in loops, GoesOn(Reached(cb, x))
  PROVE  LET new == Reached(cb, x)
             next == {Loop(l, x.data, "next")}
         IN  /\ Current(new).is # "user" => WayOK(l, new, w, next, b)
             /\ Current(new).is = "user" => /\ w # <<>> /\ Head(w) = Current(new).of
                                            /\ WayOK(l, new, Tail(w), next, b)
             /\ cb.fired /\ cb.memory = <<x.data>> /\ new.fired /\ new.memory = cb.memory
             /\ (new.disabled <=> cb.disabled)
  <1> DEFINE new == Reached(cb, x)
             from == From(cb, x)
             y == Loop(l, x.data, "next")
  <1>1. IsList(cb) /\ IsSeq(cb.list) /\ cb.firing /\ cb.fired
    BY DEF ListOK
  <1>2. /\ IsList(new)
        /\ new.list = cb.list /\ (new.disabled <=> cb.disabled)
        /\ (new.open <=> cb.open) /\ new.stack = cb.stack /\ new.memory = cb.memory
        /\ (new.fired <=> cb.fired) /\ (new.firing <=> cb.firing)
        /\ new.firingIndex = from
    BY <1>1, ReachedFields
  <1>3. from \in Nat /\ from < Len(cb.list) /\ ~cb.disabled /\ Current(new) = cb.list[from + 1]
    BY ComesToFn
  <1>4. x.data = cb.memory[1] /\ Matches(w, cb.list, from) /\ cb.memory = <<cb.memory[1]>>
    BY <1>1 DEF WayOK
  <1>5. y.data = x.data /\ From(new, y) = from + 1
    BY <1>2 DEF Loop, Do, From
  <1> HIDE DEF new, from, y
  <1>6. from + 1 <= Len(cb.list) /\ Len(cb.list) \in Nat
    BY <1>1, <1>3, IsSeqFacts
  <1>7. ASSUME NEW v, Matches(v, cb.list, from + 1) PROVE WayOK(l, new, v, {y}, b)
    BY <1>1, <1>2, <1>3, <1>4, <1>5, <1>6, <1>7 DEF WayOK
  <1>8. Current(new).is # "user" => Matches(w, cb.list, from + 1)
    BY <1>3, <1>4, <1>6, MatchesNext
  <1>9. Current(new).is = "user" =>
          w # <<>> /\ Head(w) = Current(new).of /\ Matches(Tail(w), cb.list, from + 1)
    BY <1>3, <1>4, <1>6, MatchesNext
  <1> QED
    BY <1>1, <1>2, <1>4, <1>7, <1>8, <1>9 DEF new, y

\* The loop ends.
LEMMA EndKeepsList ==
  ASSUME NEW l, NEW cb, NEW loops, NEW n, NEW m, ListOK(l, cb, loops, n, m),
         NEW x \in loops, NEW first
  PROVE  LET met == Reached(cb, x)
         IN  ListOK(l, EndFire(met), IF FiresAgain(met) THEN {first} ELSE {}, n, m)
  <1> DEFINE met == Reached(cb, x)
             new == EndFire(met)
  <1>1. IsList(cb) /\ IsSeq(cb.list) /\ cb.firing /\ cb.fired /\ cb.firingIndex \in Nat
        /\ cb.firingLength \in Nat /\ Len(cb.list) \in Nat
    BY IsSeqFacts DEF ListOK
  <1>2. /\ IsList(met)
        /\ met.options = cb.options /\ met.list = cb.list
        /\ (met.fired <=> cb.fired)
        /\ met.firingLength = cb.firingLength /\ met.firingIndex = From(cb, x)
    BY <1>1, ReachedFields
  <1>3. From(cb, x) \in Nat
    BY <1>1 DEF From
  <1>4. /\ IsList(new)
        /\ new.options = met.options /\ (new.fired <=> met.fired \/ FiresAgain(met))
        /\ (new.firing <=> FiresAgain(met))
        /\ FiresAgain(met) => /\ new.list = met.list
                              /\ new.firingIndex = 0 /\ new.firingLength = Len(met.list)
        /\ ~FiresAgain(met) =>
             /\ new.firingLength = met.firingLength /\ new.firingIndex = met.firingIndex
             /\ met.disabled \/ met.open => new.list = met.list
             /\ ~met.disabled /\ ~met.open => new.list = <<>>
    <2> HIDE DEF met
    <2> QED
      BY <1>2, EndFireFields
  <1> HIDE DEF met, new
  <1>5. CASE FiresAgain(met)
    <2>1. ListOK(l, new, {first}, n, m)
      BY <1>1, <1>2, <1>4, <1>5 DEF ListOK
    <2> QED
      BY <1>5, <2>1 DEF met, new
  <1>6. CASE ~FiresAgain(met) /\ new.list = cb.list
    <2>1. ListOK(l, new, {}, n, m)
      BY <1>1, <1>2, <1>3, <1>4, <1>6 DEF ListOK
    <2> QED
      BY <1>6, <2>1 DEF met, new
  <1>7. CASE ~FiresAgain(met) /\ new.list = <<>>
    <2>1. 1..Len(new.list) = {} /\ IsSeq(new.list)
      BY <1>7, ShortIsSeq
    <2>2. ListOK(l, new, {}, n, m)
      BY <1>1, <1>2, <1>3, <1>4, <1>7, <2>1 DEF ListOK
    <2> QED
      BY <1>7, <2>2 DEF met, new
  <1>8. FiresAgain(met) \/ new.list = cb.list \/ new.list = <<>>
    BY <1>2, <1>4
  <1> QED
    BY <1>5, <1>6, <1>7, <1>8

LEMMA EndKeepsWay ==
  ASSUME NEW l, NEW cb, NEW loops, NEW n, NEW m, ListOK(l, cb, loops, n, m),
         NEW w \in Seq(Nat), NEW b, WayOK(l, cb, w, loops, b),
         NEW x \in loops, ~GoesOn(Reached(cb, x))
  PROVE  LET met == Reached(cb, x)
             new == EndFire(met)
         IN  /\ ~FiresAgain(met) /\ WayOK(l, new, w, {}, b)
             /\ cb.fired /\ new.fired /\ new.memory = cb.memory /\ ~cb.disabled
  <1> DEFINE met == Reached(cb, x)
             new == EndFire(met)
             from == From(cb, x)
  <1>1. /\ IsList(cb) /\ IsSeq(cb.list) /\ cb.firing /\ cb.fired /\ cb.firingIndex \in Nat
        /\ ~cb.disabled /\ ~cb.open /\ cb.stack = <<>>
        /\ cb.firingLength = Len(cb.list) /\ cb.memory # <<>> /\ cb.memory = <<cb.memory[1]>>
    BY DEF ListOK, WayOK
  <1>2. /\ IsList(met)
        /\ met.list = cb.list /\ (met.disabled <=> cb.disabled)
        /\ (met.open <=> cb.open) /\ met.stack = cb.stack /\ met.memory = cb.memory
        /\ (met.fired <=> cb.fired)
        /\ met.firingLength = cb.firingLength /\ met.firingIndex = from
    BY <1>1, ReachedFields
  <1>3. from \in Nat /\ Matches(w, cb.list, from) /\ Len(cb.list) \in Nat
    BY <1>1, IsSeqFacts DEF From, WayOK
  <1>4. ~GoesOn(met)
    OBVIOUS
  <1> HIDE DEF met, from
  <1>5. ~FiresAgain(met)
    BY <1>1, <1>2 DEF FiresAgain
  <1>6. /\ (new.fired <=> met.fired \/ FiresAgain(met))
        /\ (new.firing <=> FiresAgain(met))
        /\ ~FiresAgain(met) =>
             /\ new.memory = met.memory
             /\ (new.open <=> met.open)
             /\ met.stack = <<>> => new.stack = <<>>
             /\ ~met.disabled /\ ~met.open => /\ new.list = <<>>
                                              /\ (new.disabled <=> met.memory = <<>>)
    BY <1>2, EndFireFields
  <1> HIDE DEF new
  <1>7. from >= Len(cb.list)
    BY <1>1, <1>2, <1>3, <1>4 DEF GoesOn
  <1>8. w = <<>>
    BY <1>3, <1>7, MatchesNil
  <1>9. WayOK(l, new, w, {}, b)
    BY <1>1, <1>2, <1>5, <1>6, <1>8 DEF WayOK
  <1> QED
    BY <1>1, <1>2, <1>5, <1>6, <1>9 DEF met, new

\* Its deferred goes the other way.
LEMMA DisableKeeps ==
  ASSUME NEW l, NEW cb, NEW loops, NEW n, NEW m, ListOK(l, cb, loops, n, m),
         NEW w, NEW b, WayOK(l, cb, w, loops, b), ~cb.fired
  PROVE  LET new == Disable(cb)
         IN  /\ ListOK(l, new, loops, n, m) /\ WayOK(l, new, w, loops, b)
             /\ ~new.fired /\ new.disabled
  <1> DEFINE new == Disable(cb)
  <1>1. IsList(cb) /\ ~cb.firing /\ loops = {} /\ cb.firingIndex \in Nat /\ cb.firingLength \in Nat
    BY DEF ListOK
  <1>2. /\ IsList(new)
        /\ new.options = cb.options /\ new.list = <<>> /\ new.disabled
        /\ ~new.open /\ new.stack = <<>> /\ new.memory = <<>>
        /\ (new.fired <=> cb.fired) /\ (new.firing <=> cb.firing)
        /\ new.firingLength = cb.firingLength /\ new.firingIndex = cb.firingIndex
    BY <1>1, DisableFields
  <1> HIDE DEF new
  <1>3. 1..Len(new.list) = {} /\ IsSeq(new.list)
    BY <1>2, ShortIsSeq
  <1>4. ListOK(l, new, loops, n, m)
    BY <1>1, <1>2, <1>3 DEF ListOK
  <1>5. WayOK(l, new, w, loops, b)
    BY <1>1, <1>2 DEF WayOK
  <1> QED
    BY <1>2, <1>4, <1>5 DEF new

\* Its deferred is settled: a list of progress is locked.
LEMMA LockKeeps ==
  ASSUME NEW l, NEW cb, NEW loops, NEW n, NEW m, ListOK(l, cb, loops, n, m)
  PROVE  ListOK(l, Lock(cb), loops, n, m)
  <1> DEFINE new == Lock(cb)
  <1>1. IsList(cb) /\ IsSeq(cb.list) /\ cb.firingIndex \in Nat /\ cb.firingLength \in Nat
    BY DEF ListOK
  <1>2. /\ IsList(new)
        /\ new.options = cb.options
        /\ new.list = IF cb.memory = <<>> THEN <<>> ELSE cb.list
        /\ (new.disabled <=> cb.disabled \/ cb.memory = <<>>)
        /\ (new.fired <=> cb.fired) /\ (new.firing <=> cb.firing)
        /\ new.firingLength = cb.firingLength /\ new.firingIndex = cb.firingIndex
    BY <1>1, LockFields
  <1> HIDE DEF new
  <1>3. CASE cb.memory = <<>>
    <2>1. 1..Len(new.list) = {} /\ IsSeq(new.list)
      BY <1>2, <1>3, ShortIsSeq
    <2>2. ListOK(l, new, loops, n, m)
      BY <1>1, <1>2, <1>3, <2>1 DEF ListOK
    <2> QED
      BY <2>2 DEF new
  <1>4. CASE cb.memory # <<>>
    <2>1. ListOK(l, new, loops, n, m)
      BY <1>1, <1>2, <1>4 DEF ListOK
    <2> QED
      BY <2>1 DEF new
  <1> QED
    BY <1>3, <1>4

LEMMA NewListOK ==
  ASSUME NEW n, NEW m, NEW l \in ListsOf(n)
  PROVE  /\ ListOK(l, NewList(l), {}, n, m)
         /\ l[2] \in Ways => \A b : WayOK(l, NewList(l), <<>>, {}, b)
         /\ ~NewList(l).fired
  <1> DEFINE f == Fn("settle", l[1], l, 0)
             empty == NewCallbacks({"once", "memory"})
             longer == Append(<<>>, f)
             new == Add(empty, f)
             plain == NewCallbacks({"memory"})
  <1>1. CASE l[2] = "progress"
    <2>1. NewList(l) = plain /\ l[2] \notin Ways
      BY <1>1 DEF NewList, Ways
    <2>2. {"memory"} \in SUBSET Options
      BY DEF Options
    <2>3. /\ IsList(plain)
          /\ plain.options = {"memory"} /\ plain.list = <<>>
          /\ ~plain.fired /\ ~plain.firing
          /\ plain.firingLength = 0 /\ plain.firingIndex = 0
      BY <2>2, NewCallbacksFields
    <2> HIDE DEF plain
    <2>4. 1..Len(plain.list) = {} /\ IsSeq(plain.list)
      BY <2>3, ShortIsSeq
    <2>5. ListOK(l, plain, {}, n, m)
      BY <1>1, <2>3, <2>4 DEF ListOK
    <2> QED
      BY <2>1, <2>3, <2>5
  <1>2. CASE l[2] # "progress"
    <2>1. NewList(l) = new
      BY <1>2 DEF NewList
    <2>2. {"once", "memory"} \in SUBSET Options
      BY DEF Options
    <2>3. /\ IsList(empty)
          /\ empty.options = {"once", "memory"} /\ empty.list = <<>> /\ ~empty.disabled
          /\ (empty.open <=> "once" \notin {"once", "memory"})
          /\ empty.stack = <<>> /\ empty.memory = <<>> /\ ~empty.fired /\ ~empty.firing
          /\ empty.firingLength = 0 /\ empty.firingIndex = 0
      BY <2>2, NewCallbacksFields
    <2> HIDE DEF empty
    <2>4. ~FiresOnAdd(empty)
      BY <2>3 DEF FiresOnAdd
    <2>5. /\ IsList(new)
          /\ new.options = empty.options /\ (new.disabled <=> empty.disabled)
          /\ ~empty.disabled => new.list = Append(empty.list, f)
          /\ (new.open <=> empty.open) /\ new.stack = empty.stack
          /\ ~FiresOnAdd(empty) =>
               /\ new.memory = empty.memory
               /\ (new.fired <=> empty.fired) /\ (new.firing <=> empty.firing)
               /\ new.firingIndex = empty.firingIndex
               /\ ~(empty.firing /\ ~empty.disabled) => new.firingLength = empty.firingLength
      <3>1. IsList(empty) /\ "unique" \notin empty.options
        BY <2>3
      <3> HIDE DEF f
      <3> QED
        BY <3>1, AddLonger
    <2> HIDE DEF new
    <2>6. /\ IsSeq(longer) /\ Len(longer) = Len(<<>>) + 1 /\ longer # <<>>
          /\ longer[Len(<<>>) + 1] = f
      BY ShortIsSeq, LongerList
    <2>7. Len(longer) = 1 /\ longer[1] = f
      BY <2>6
    <2>8. f.is = "settle" /\ f.of = l[1] /\ f.list = l
      BY DEF Fn
    <2> HIDE DEF longer, f
    <2>9. /\ new.options = {"once", "memory"} /\ ~new.disabled /\ new.list = longer /\ ~new.open
          /\ new.stack = <<>> /\ new.memory = <<>> /\ ~new.fired /\ ~new.firing
          /\ new.firingIndex = 0 /\ new.firingLength = 0
      BY <2>3, <2>4, <2>5 DEF longer
    <2>10. \A k \in 1..Len(longer) : k = 1 /\ longer[k] = f
      BY <2>7
    <2>11. KnownFn(f, n, m)
      BY <2>8 DEF KnownFn
    <2>12. ListOK(l, new, {}, n, m)
      <3>1. \A k \in 1..Len(new.list) :
              /\ KnownFn(new.list[k], n, m)
              /\ new.list[k].is = "settle" =>
                   k = 1 /\ l[2] # "progress" /\ new.list[k].of = l[1] /\ new.list[k].list = l
        BY <1>2, <2>8, <2>9, <2>10, <2>11
      <3> QED
        BY <1>2, <2>5, <2>6, <2>9, <3>1 DEF ListOK
    <2>13. Matches(<<>>, longer, 0)
      <3>1. \A k \in 1..Len(longer) : k > 0 => longer[k].is # "user"
        BY <2>8, <2>10
      <3> QED
        BY <3>1, MatchesNothing
    <2>14. \A b : WayOK(l, new, <<>>, {}, b)
      BY <2>6, <2>7, <2>8, <2>9, <2>13 DEF WayOK
    <2> QED
      BY <2>1, <2>9, <2>12, <2>14
  <1> QED
    BY <1>1, <1>2

--------------------------------------------------------------------------------
(* What a step puts on the agenda                                          *)

\* Two agendas with the same loops; one with no loop of this list; and an agenda in
\* which x is the only loop of its list, while the others are as they were.
SameLoops(s, t) == \A l : LoopItems(s, l) = LoopItems(t, l)
NoLoopOf(s, l) == LoopItems(s, l) = {}
LoopsExcept(s, t, l, loops) ==
  LoopItems(s, l) = loops /\ \A k : k # l => LoopItems(s, k) = LoopItems(t, k)

Put(things, s) == things \o s

\* What is left of an agenda when no loop is taken from it.
LEMMA TailKeeps ==
  ASSUME NEW s, NEW n, NEW m, AgendaIs(s, n, m), s # <<>>, Head(s).op # "loop"
  PROVE  AgendaIs(Tail(s), n, m) /\ SameLoops(Tail(s), s)
  <1>1. IsSeq(s) /\ UniqueLoops(s) /\ \A x \in Items(s) : KnownItem(x, n, m)
    BY DEF AgendaIs, AllKnown
  <1>2. IsSeq(Tail(s)) /\ Items(Tail(s)) \subseteq Items(s)
    BY <1>1, TailIsSeq
  <1>3. UniqueLoops(Tail(s)) /\ \A l : LoopItems(Tail(s), l) = LoopItems(s, l)
    BY <1>1, PopLoops
  <1> QED
    BY <1>1, <1>2, <1>3 DEF AgendaIs, AllKnown, SameLoops

LEMMA TailLosesLoop ==
  ASSUME NEW s, NEW n, NEW m, AgendaIs(s, n, m), s # <<>>, Head(s).op = "loop"
  PROVE  /\ AgendaIs(Tail(s), n, m) /\ LoopsExcept(Tail(s), s, Head(s).list, {})
         /\ Head(s).list \in ListsOf(n) /\ Head(s).on \in {"first", "next"}
         /\ LoopItems(s, Head(s).list) = {Head(s)}
  <1>1. IsSeq(s) /\ UniqueLoops(s) /\ \A x \in Items(s) : KnownItem(x, n, m)
    BY DEF AgendaIs, AllKnown
  <1>2. /\ IsSeq(Tail(s)) /\ Head(s) \in Items(s)
        /\ Items(s) = {Head(s)} \cup Items(Tail(s))
    BY <1>1, TailIsSeq
  <1>3. /\ UniqueLoops(Tail(s))
        /\ \A k : LoopItems(Tail(s), k) = IF Head(s).op = "loop" /\ Head(s).list = k
                                          THEN {} ELSE LoopItems(s, k)
    BY <1>1, PopLoops
  <1>4. LoopItems(Tail(s), Head(s).list) = {}
        /\ \A k : k # Head(s).list => LoopItems(Tail(s), k) = LoopItems(s, k)
    BY <1>3
  <1>5. LoopItems(s, Head(s).list) = {Head(s)}
    BY <1>2, <1>4 DEF LoopItems
  <1>6. Head(s).list \in ListsOf(n) /\ Head(s).on \in {"first", "next"}
    BY <1>1, <1>2 DEF KnownItem
  <1> QED
    BY <1>1, <1>2, <1>3, <1>4, <1>5, <1>6 DEF AgendaIs, AllKnown, LoopsExcept

\* Things that are no loops come in front.
LEMMA PutQuiet ==
  ASSUME NEW s, NEW n, NEW m, AgendaIs(s, n, m),
         NEW things, IsSeq(things), NoLoops(things), AllKnown(things, n, m)
  PROVE  AgendaIs(Put(things, s), n, m) /\ SameLoops(Put(things, s), s)
  <1>1. IsSeq(s) /\ UniqueLoops(s) /\ \A x \in Items(s) : KnownItem(x, n, m)
    BY DEF AgendaIs, AllKnown
  <1>2. UniqueLoops(things) /\ \A l : LoopItems(things, l) = {}
    BY DEF UniqueLoops, LoopItems, NoLoops, Items
  <1>3. IsSeq(things \o s) /\ Items(things \o s) = Items(things) \cup Items(s)
    BY <1>1, ConcatIsSeq
  <1>4. /\ UniqueLoops(things \o s)
        /\ \A l : LoopItems(things \o s, l) = LoopItems(things, l) \cup LoopItems(s, l)
    BY <1>1, <1>2, PushLoops DEF NoLoops
  <1>5. \A x \in Items(things \o s) : KnownItem(x, n, m)
    BY <1>1, <1>3 DEF AllKnown
  <1> QED
    BY <1>1, <1>2, <1>3, <1>4, <1>5 DEF AgendaIs, AllKnown, SameLoops, Put

\* A loop comes in front: it begins or goes on.
LEMMA PutLoop ==
  ASSUME NEW s, NEW n, NEW m, AgendaIs(s, n, m),
         NEW x, KnownItem(x, n, m), x.op = "loop", NoLoopOf(s, x.list)
  PROVE  /\ AgendaIs(Put(<<x>>, s), n, m) /\ LoopsExcept(Put(<<x>>, s), s, x.list, {x})
         /\ Put(<<x>>, s) # <<>> /\ Head(Put(<<x>>, s)) = x
  <1> DEFINE one == <<x>>
             u == one \o s
  <1>1. IsSeq(s) /\ UniqueLoops(s) /\ \A y \in Items(s) : KnownItem(y, n, m)
    BY DEF AgendaIs, AllKnown
  <1>2. IsSeq(one) /\ Items(one) = {x} /\ Len(one) = 1 /\ one[1] = x
    BY ShortIsSeq
  <1> HIDE DEF one
  <1>3. UniqueLoops(one) /\ \A k : LoopItems(one, k) = IF k = x.list THEN {x} ELSE {}
    <2>1. \A j \in 1..1 : j = 1
      OBVIOUS
    <2> QED
      BY <1>2, <2>1 DEF UniqueLoops, LoopItems
  <1>4. /\ IsSeq(u) /\ Items(u) = Items(one) \cup Items(s)
        /\ Len(u) = Len(one) + Len(s)
        /\ \A j \in 1..Len(one) : u[j] = one[j]
    BY <1>1, <1>2, ConcatIsSeq
  <1>5. /\ UniqueLoops(u)
        /\ \A k : LoopItems(u, k) = LoopItems(one, k) \cup LoopItems(s, k)
    <2>1. \A y \in Items(one) : y.op = "loop" => LoopItems(s, y.list) = {}
      BY <1>2 DEF NoLoopOf
    <2> QED
      BY <1>1, <1>2, <1>3, <2>1, PushLoops
  <1>6. \A y \in Items(u) : KnownItem(y, n, m)
    BY <1>1, <1>2, <1>4
  <1> HIDE DEF u
  <1>7. u # <<>> /\ Head(u) = x
    <2>1. Len(s) \in Nat
      BY <1>1, IsSeqFacts
    <2>2. Len(u) # 0 /\ 1 \in 1..Len(one)
      BY <1>2, <1>4, <2>1
    <2>3. u # <<>>
      BY <1>4, <2>2, IsSeqFacts
    <2>4. Head(u) = u[1]
      BY <1>4, <2>3, TailIsSeq
    <2> QED
      BY <1>2, <1>4, <2>2, <2>3, <2>4
  <1>8. LoopItems(u, x.list) = {x} /\ \A k : k # x.list => LoopItems(u, k) = LoopItems(s, k)
    BY <1>3, <1>5 DEF NoLoopOf
  <1>9. Put(<<x>>, s) = u
    BY DEF Put, u, one
  <1> QED
    BY <1>4, <1>5, <1>6, <1>7, <1>8, <1>9 DEF AgendaIs, AllKnown, LoopsExcept

LEMMA LoopFields ==
  ASSUME NEW l, NEW data, NEW on
  PROVE  /\ Loop(l, data, on).op = "loop" /\ Loop(l, data, on).list = l
         /\ Loop(l, data, on).on = on /\ Loop(l, data, on).data = data
         /\ \A n, m : l \in ListsOf(n) /\ on \in {"first", "next"} => KnownItem(Loop(l, data, on), n, m)
  BY DEF Loop, Do, KnownItem

\* The loop at the head calls something, after which it goes on.
LEMMA PutCall ==
  ASSUME NEW s, NEW n, NEW m, AgendaIs(s, n, m), s # <<>>, Head(s).op = "loop",
         NEW x, KnownItem(x, n, m), x.op = "loop", x.list = Head(s).list,
         NEW things, IsSeq(things), NoLoops(things), AllKnown(things, n, m)
  PROVE  LET new == things \o <<x>> \o Tail(s)
         IN  AgendaIs(new, n, m) /\ LoopsExcept(new, s, x.list, {x})
  <1> DEFINE base == Tail(s)
             t == Put(<<x>>, base)
             u == Put(things, t)
  <1>1. AgendaIs(base, n, m) /\ LoopsExcept(base, s, x.list, {})
    BY TailLosesLoop
  <1>2. NoLoopOf(base, x.list)
    BY <1>1 DEF NoLoopOf, LoopsExcept
  <1> HIDE DEF base
  <1>3. AgendaIs(t, n, m) /\ LoopsExcept(t, base, x.list, {x})
    BY <1>1, <1>2, PutLoop
  <1> HIDE DEF t
  <1>4. AgendaIs(u, n, m) /\ SameLoops(u, t)
    BY <1>3, PutQuiet
  <1>5. LoopsExcept(u, s, x.list, {x})
    BY <1>1, <1>3, <1>4 DEF LoopsExcept, SameLoops
  <1>6. things \o <<x>> \o base = u
    <2> DEFINE one == <<x>>
    <2>1. IsSeq(one) /\ IsSeq(base)
      BY <1>1, ShortIsSeq DEF AgendaIs
    <2> HIDE DEF one
    <2>2. (things \o one) \o base = things \o (one \o base)
      BY <2>1, ConcatAssoc
    <2>3. u = things \o (one \o base)
      BY DEF u, t, Put, one
    <2> QED
      BY <2>2, <2>3 DEF one
  <1> HIDE DEF u
  <1> QED
    BY <1>4, <1>5, <1>6 DEF base

--------------------------------------------------------------------------------
(* What a step does to the lists                                           *)

\* As far as the promise can tell, the lists are as before.
SameWays ==
  \A l \in WaysOf(Len(state')) :
    /\ l \in WaysOf(Len(state)) => /\ (lists'[l].fired <=> lists[l].fired)
                                   /\ lists[l].fired => lists'[l].memory = lists[l].memory
                                   /\ lists[l].disabled => lists'[l].disabled
    /\ l \notin WaysOf(Len(state)) => ~lists'[l].fired

LEMMA WayFacts ==
  /\ \A n : WaysOf(n) \subseteq ListsOf(n)
  /\ \A n : \A l \in ListsOf(n) : l[2] # "progress" => l \in WaysOf(n)
  /\ \A n : \A l \in WaysOf(n) : l[2] # "progress" /\ l[2] \in Ways
                                 /\ <<l[1], OtherWay(l[2])>> \in WaysOf(n)
                                 /\ <<l[1], OtherWay(l[2])>> # l
                                 /\ OtherWay(OtherWay(l[2])) = l[2] /\ l = <<l[1], l[2]>>
  /\ \A n : \A d \in 1..n, w \in Ways : <<d, w>> \in WaysOf(n)
  /\ \A n : Plain \notin ListsOf(n)
  BY DEF WaysOf, ListsOf, Kinds, Ways, OtherWay, Plain

LEMMA Basics ==
  ASSUME DInv
  PROVE  /\ Len(state) \in Nat /\ DOMAIN state = 1..Len(state) /\ Len(masters) \in Nat
         /\ DOMAIN lists = ListsOf(Len(state))
         /\ \A l \in WaysOf(Len(state)) : l \in DOMAIN waiting /\ waiting[l] \in Seq(Nat)
         /\ \A l \in ListsOf(Len(state)) : l \in DOMAIN waiting => l \in WaysOf(Len(state))
         /\ IsSeq(agenda) /\ UniqueLoops(agenda)
  <1>1. Len(state) \in Nat /\ DOMAIN state = 1..Len(state) /\ Len(masters) \in Nat
    BY IsSeqFacts, LenProperties DEF DInv, Shape, MastersOK
  <1>2. DOMAIN lists = ListsOf(Len(state)) /\ Len(state) <= MaxDeferreds /\ MaxDeferreds \in Nat
    BY DeferredAssumption DEF DInv, Shape
  <1>3. WaysOf(Len(state)) \subseteq (1..MaxDeferreds) \X Ways
    BY <1>1, <1>2 DEF WaysOf
  <1>4. waiting \in [(1..MaxDeferreds) \X Ways -> Seq(Nat)]
    BY DEF DInv, HistoryOK
  <1>5. \A l \in ListsOf(Len(state)) : l \in DOMAIN waiting => l \in WaysOf(Len(state))
    <2> SUFFICES ASSUME NEW l \in ListsOf(Len(state)), l \in DOMAIN waiting
                 PROVE  l \in WaysOf(Len(state))
      OBVIOUS
    <2>1. l \in (1..MaxDeferreds) \X Ways
      BY <1>4
    <2> QED
      BY <2>1 DEF WaysOf, ListsOf
  <1> QED
    BY <1>1, <1>2, <1>3, <1>4, <1>5 DEF DInv, AgendaOK, AgendaIs

LEMMA OneWaysKept ==
  ASSUME DInv, SameWays, \A l : ~Settling(l)
  PROVE  OneWays'
  <1> SUFFICES ASSUME NEW d \in 1..Len(state'), NEW w \in Ways, lists'[<<d, w>>].fired
               PROVE  /\ ~lists'[<<d, OtherWay(w)>>].fired
                      /\ lists'[<<d, OtherWay(w)>>].disabled
    BY DEF OneWays, OneWay
  <1> DEFINE l == <<d, w>>
             o == <<d, OtherWay(w)>>
  <1>1. OtherWay(w) \in Ways
    BY DEF OtherWay, Ways
  <1>2. l \in WaysOf(Len(state')) /\ o \in WaysOf(Len(state'))
    BY <1>1, WayFacts
  <1>3. l \in WaysOf(Len(state)) /\ lists[l].fired
    BY <1>2 DEF SameWays
  <1>4. d \in 1..Len(state)
    BY <1>3 DEF WaysOf
  <1>5. OneWay(d, w)
    BY <1>4 DEF DInv, OneWays
  <1>6. ~lists[o].fired /\ lists[o].disabled
    BY <1>3, <1>5 DEF OneWay
  <1>7. o \in WaysOf(Len(state))
    BY <1>1, <1>4, WayFacts
  <1> QED
    BY <1>2, <1>6, <1>7 DEF SameWays

\* No list changes, or one.
LEMMA ListsCalm ==
  ASSUME DInv, lists' = lists, waiting' = waiting, broken' = broken,
         state' = state, Len(masters') = Len(masters), SameLoops(agenda', agenda)
  PROVE  ListsOK' /\ SameWays
  <1>1. \A l : LoopItems(agenda', l) = LoopItems(agenda, l)
    BY DEF SameLoops
  <1>2. ListsOK'
    BY <1>1 DEF DInv, ListsOK
  <1> QED
    BY <1>2 DEF SameWays

LEMMA ListsButOne ==
  ASSUME DInv, NEW l \in ListsOf(Len(state)), NEW cb, lists' = [lists EXCEPT ![l] = cb],
         Len(state') = Len(state), Len(masters') = Len(masters), broken' = broken, NEW loops,
         LoopsExcept(agenda', agenda, l, loops),
         \A k \in WaysOf(Len(state)) : k # l => waiting'[k] = waiting[k],
         ListOK(l, cb, loops, Len(state), Len(masters)),
         l[2] # "progress" => WayOK(l, cb, waiting'[l], loops, broken)
  PROVE  /\ ListsOK'
         /\ lists'[l] = cb /\ \A k \in ListsOf(Len(state)) : k # l => lists'[k] = lists[k]
         /\ lists' = [k \in ListsOf(Len(state)) |-> lists'[k]]
  <1>1. lists = [k \in ListsOf(Len(state)) |-> lists[k]]
    BY DEF DInv, Shape
  <1>2. lists'[l] = cb /\ \A k \in ListsOf(Len(state)) : k # l => lists'[k] = lists[k]
    BY <1>1
  <1>3. lists' = [k \in ListsOf(Len(state)) |-> lists'[k]]
    BY <1>1
  <1>4. LoopItems(agenda', l) = loops
        /\ \A k : k # l => LoopItems(agenda', k) = LoopItems(agenda, k)
    BY DEF LoopsExcept
  <1>5. \A k \in ListsOf(Len(state)) :
          ListOK(k, lists'[k], LoopItems(agenda', k), Len(state), Len(masters))
    <2> SUFFICES ASSUME NEW k \in ListsOf(Len(state))
                 PROVE  ListOK(k, lists'[k], LoopItems(agenda', k), Len(state), Len(masters))
      OBVIOUS
    <2>1. ListOK(k, lists[k], LoopItems(agenda, k), Len(state), Len(masters))
      BY DEF DInv, ListsOK
    <2>2. CASE k = l
      BY <1>2, <1>4, <2>2
    <2>3. CASE k # l
      BY <1>2, <1>4, <2>1, <2>3
    <2> QED
      BY <2>2, <2>3
  <1>6. \A k \in WaysOf(Len(state)) :
          WayOK(k, lists'[k], waiting'[k], LoopItems(agenda', k), broken)
    <2> SUFFICES ASSUME NEW k \in WaysOf(Len(state))
                 PROVE  WayOK(k, lists'[k], waiting'[k], LoopItems(agenda', k), broken)
      OBVIOUS
    <2>1. WayOK(k, lists[k], waiting[k], LoopItems(agenda, k), broken)
      BY DEF DInv, ListsOK
    <2>2. CASE k = l
      <3>1. l[2] # "progress"
        BY <2>2, WayFacts
      <3> QED
        BY <1>2, <1>4, <2>2, <3>1
    <2>3. CASE k # l
      <3>1. k \in ListsOf(Len(state))
        BY WayFacts
      <3>2. waiting'[k] = waiting[k]
        BY <2>3
      <3> QED
        BY <1>2, <1>4, <2>1, <2>3, <3>1, <3>2
    <2> QED
      BY <2>2, <2>3
  <1> QED
    BY <1>2, <1>3, <1>5, <1>6 DEF ListsOK

--------------------------------------------------------------------------------
(* The loop calls a function                                               *)

LEMMA LoopFacts ==
  ASSUME DInv, IsNext("loop")
  PROVE  LET l == Todo.list
         IN  /\ agenda # <<>> /\ Todo.op = "loop" /\ l \in ListsOf(Len(state))
             /\ Todo.on \in {"first", "next"} /\ Todo.on # "stop"
             /\ Looping = Reached(lists[l], Todo)
             /\ LoopItems(agenda, l) = {Todo}
             /\ AgendaIs(agenda, Len(state), Len(masters))
             /\ ListOK(l, lists[l], {Todo}, Len(state), Len(masters))
             /\ l \in WaysOf(Len(state)) => WayOK(l, lists[l], waiting[l], {Todo}, broken)
  <1>1. agenda # <<>> /\ Todo.op = "loop" /\ Todo = Head(agenda)
    BY DEF IsNext, Todo
  <1>2. AgendaIs(agenda, Len(state), Len(masters))
    BY DEF DInv, AgendaOK
  <1>3. /\ Todo.list \in ListsOf(Len(state)) /\ Todo.on \in {"first", "next"}
        /\ LoopItems(agenda, Todo.list) = {Todo}
    BY <1>1, <1>2, TailLosesLoop
  <1>4. Looping = Reached(lists[Todo.list], Todo)
    BY <1>3 DEF Looping, Reached
  <1>5. ListOK(Todo.list, lists[Todo.list], {Todo}, Len(state), Len(masters))
    BY <1>3 DEF DInv, ListsOK
  <1>6. Todo.list \in WaysOf(Len(state)) =>
          WayOK(Todo.list, lists[Todo.list], waiting[Todo.list], {Todo}, broken)
    BY <1>3 DEF DInv, ListsOK
  <1> QED
    BY <1>1, <1>2, <1>3, <1>4, <1>5, <1>6

LEMMA SettlingComes ==
  ASSUME DInv, NEW l, Settling(l)
  PROVE  GoesOn(Looping) /\ Current(Looping).is = "settle"
  <1> DEFINE cb == lists[l]
  <1>1. /\ IsNext("loop") /\ Todo.list = l /\ Todo.on = "first"
        /\ cb.firingIndex = 0 /\ cb.list # <<>> /\ cb.list[1].is = "settle"
    BY DEF Settling
  <1>2. /\ l \in ListsOf(Len(state)) /\ Looping = Reached(cb, Todo)
        /\ ListOK(l, cb, {Todo}, Len(state), Len(masters))
        /\ l \in WaysOf(Len(state)) => WayOK(l, cb, waiting[l], {Todo}, broken)
    BY <1>1, LoopFacts
  <1> HIDE DEF cb
  <1>3. Looping = cb
    BY <1>1, <1>2 DEF Reached
  <1>4. Len(cb.list) \in Nat /\ Len(cb.list) # 0
    BY <1>1, <1>2, IsSeqFacts DEF ListOK
  <1>5. 1 \in 1..Len(cb.list)
    BY <1>4
  <1>6. l[2] # "progress" /\ cb.firing /\ cb.fired
    BY <1>1, <1>2, <1>5 DEF ListOK
  <1>7. WayOK(l, cb, waiting[l], {Todo}, broken)
    BY <1>2, <1>6, WayFacts
  <1>8. ~cb.disabled
    BY <1>6, <1>7 DEF WayOK
  <1>9. cb.firingLength = Len(cb.list)
    BY <1>2, <1>6, <1>8 DEF ListOK
  <1> QED
    BY <1>1, <1>3, <1>4, <1>8, <1>9 DEF GoesOn, Current

\* What the loop calls does not settle the deferred.
LEMMA LoopCalls ==
  ASSUME DInv, IsNext("loop"), GoesOn(Looping), Current(Looping).is # "settle",
         NEW things, IsSeq(things), NoLoops(things), AllKnown(things, Len(state), Len(masters)),
         CallsIt(things), state' = state, Len(masters') = Len(masters), broken' = broken,
         \A k \in WaysOf(Len(state)) : k # Todo.list => waiting'[k] = waiting[k],
         Todo.list \in WaysOf(Len(state)) =>
           /\ Callee.is = "user" => waiting'[Todo.list] = Tail(waiting[Todo.list])
           /\ Callee.is # "user" => waiting'[Todo.list] = waiting[Todo.list]
  PROVE  Shape' /\ AgendaOK' /\ ListsOK' /\ OneWays' /\ SameWays
  <1> DEFINE l == Todo.list
             x == Loop(l, Todo.data, "next")
             N == Len(state)
             M == Len(masters)
             cb == lists[l]
  <1>1. /\ agenda # <<>> /\ Todo.op = "loop" /\ l \in ListsOf(N)
        /\ Looping = Reached(cb, Todo)
        /\ AgendaIs(agenda, N, M)
        /\ ListOK(l, cb, {Todo}, N, M)
        /\ l \in WaysOf(N) => WayOK(l, cb, waiting[l], {Todo}, broken)
    BY LoopFacts
  <1>2. x.op = "loop" /\ x.list = l /\ KnownItem(x, N, M)
    BY <1>1, LoopFields
  <1>3. lists' = [lists EXCEPT ![l] = Looping] /\ agenda' = things \o <<x>> \o Rest
    BY DEF CallsIt
  <1>4. /\ Todo = Head(agenda) /\ Rest = Tail(agenda)
        /\ \A k \in WaysOf(N) : k # l => waiting'[k] = waiting[k]
        /\ l \in WaysOf(N) => /\ Current(Looping).is = "user" => waiting'[l] = Tail(waiting[l])
                              /\ Current(Looping).is # "user" => waiting'[l] = waiting[l]
    BY DEF Todo, Rest, Callee
  <1> HIDE DEF x
  <1>5. AgendaIs(agenda', N, M) /\ LoopsExcept(agenda', agenda, l, {x})
    BY <1>1, <1>2, <1>3, <1>4, PutCall
  <1>6. ListOK(l, Looping, {x}, N, M)
    BY <1>1, CallKeepsList
  <1>7. ASSUME l \in WaysOf(N)
        PROVE  /\ WayOK(l, Looping, waiting'[l], {x}, broken)
               /\ (Looping.fired <=> cb.fired) /\ Looping.memory = cb.memory
               /\ (Looping.disabled <=> cb.disabled)
    <2>1. waiting[l] \in Seq(Nat)
      BY <1>7, Basics
    <2>2. /\ Current(Looping).is # "user" => WayOK(l, Looping, waiting[l], {x}, broken)
          /\ Current(Looping).is = "user" => WayOK(l, Looping, Tail(waiting[l]), {x}, broken)
          /\ cb.fired /\ Looping.fired /\ Looping.memory = cb.memory
          /\ (Looping.disabled <=> cb.disabled)
      <3> DEFINE w == waiting[l]
                 at == Todo
                 hurt == broken
                 met == Reached(cb, at)
                 next == {Loop(l, at.data, "next")}
      <3>1. ListOK(l, cb, {at}, N, M) /\ WayOK(l, cb, w, {at}, hurt) /\ GoesOn(met)
            /\ at \in {at} /\ w \in Seq(Nat)
        BY <1>1, <1>7, <2>1
      <3>2. Looping = met /\ IsList(cb)
        BY <1>1 DEF ListOK
      <3> HIDE DEF at, hurt, cb, w, l, N, M
      <3>3. met.memory = cb.memory
        BY <3>2, ReachedFields
      <3> HIDE DEF met, next
      <3>4. met = Reached(cb, at) /\ next = {Loop(l, at.data, "next")}
        BY DEF met, next
      <3>5. /\ Current(met).is # "user" => WayOK(l, met, w, next, hurt)
            /\ Current(met).is = "user" => WayOK(l, met, Tail(w), next, hurt)
            /\ cb.fired /\ met.fired /\ (met.disabled <=> cb.disabled)
        BY <3>1, <3>4, CallKeepsWay
      <3> QED
        BY <3>2, <3>3, <3>5 DEF at, hurt, w, next, x
    <2> QED
      BY <1>4, <1>7, <2>2
  <1>8. l[2] # "progress" => l \in WaysOf(N)
    BY <1>1, WayFacts
  <1>9. /\ ListsOK'
        /\ lists'[l] = Looping /\ \A k \in ListsOf(N) : k # l => lists'[k] = lists[k]
        /\ lists' = [k \in ListsOf(N) |-> lists'[k]]
    BY <1>1, <1>3, <1>4, <1>5, <1>6, <1>7, <1>8, ListsButOne
  <1>10. Shape'
    BY <1>9 DEF DInv, Shape
  <1>11. AgendaOK'
    BY <1>5 DEF AgendaOK
  <1>12. SameWays
    <2> SUFFICES ASSUME NEW k \in WaysOf(N)
                 PROVE  /\ (lists'[k].fired <=> lists[k].fired)
                        /\ lists'[k].memory = lists[k].memory
                        /\ lists[k].disabled => lists'[k].disabled
      BY DEF SameWays
    <2>1. k \in ListsOf(N)
      BY WayFacts
    <2>2. CASE k = l
      BY <1>7, <1>9, <2>2
    <2>3. CASE k # l
      BY <1>9, <2>1, <2>3
    <2> QED
      BY <2>2, <2>3
  <1>13. \A k : ~Settling(k)
    BY SettlingComes
  <1>14. OneWays'
    BY <1>12, <1>13, OneWaysKept
  <1> QED
    BY <1>9, <1>10, <1>11, <1>12, <1>14

--------------------------------------------------------------------------------
(* The steps                                                               *)

\* What a step is to the promise: nothing; a callback is attached; the deferred of l is
\* settled; or a callback is called.
Still == SameWays /\ waiting' = waiting /\ latest' = latest

Attaches(l) ==
  /\ SameWays /\ latest' = latest /\ l \in WaysOf(Len(state))
  /\ \E n \in Nat : waiting' = [waiting EXCEPT ![l] = Append(@, n)]

Settles(l) ==
  /\ waiting' = waiting /\ latest' = latest /\ Len(state') = Len(state)
  /\ l \in WaysOf(Len(state))
  /\ ~lists[l].fired /\ ~lists[<<l[1], OtherWay(l[2])>>].fired /\ lists'[l].fired
  /\ \A k \in WaysOf(Len(state)) : k # l => lists'[k] = lists[k]

CallsOne(l) ==
  /\ SameWays /\ l \in WaysOf(Len(state))
  /\ lists[l].fired /\ waiting[l] # <<>>
  /\ latest' = <<Head(waiting[l]), lists[l].memory[1]>>
  /\ waiting' = [waiting EXCEPT ![l] = Tail(@)]

PromiseStep == Still \/ \E l : Attaches(l) \/ Settles(l) \/ CallsOne(l)

\* Things for the agenda that are no loops.
Quiet(things, n, m) == IsSeq(things) /\ NoLoops(things) /\ AllKnown(things, n, m)

\* A thing that is no loop.
Plainly(x, n, m) == x.op # "loop" /\ KnownItem(x, n, m)

LEMMA QuietThings ==
  ASSUME NEW n, NEW m
  PROVE  /\ Quiet(<<>>, n, m)
         /\ \A x : Plainly(x, n, m) => Quiet(<<x>>, n, m)
         /\ \A x, y : Plainly(x, n, m) /\ Plainly(y, n, m) => Quiet(<<x, y>>, n, m)
         /\ \A x, y, z : Plainly(x, n, m) /\ Plainly(y, n, m) /\ Plainly(z, n, m) =>
                            Quiet(<<x, y, z>>, n, m)
  <1>1. ASSUME NEW s, IsSeq(s), \A x \in Items(s) : Plainly(x, n, m)
        PROVE  Quiet(s, n, m)
    BY <1>1 DEF Quiet, NoLoops, AllKnown, Plainly
  <1>2. Quiet(<<>>, n, m)
    BY <1>1, ShortIsSeq
  <1>3. ASSUME NEW x, Plainly(x, n, m)
        PROVE  Quiet(<<x>>, n, m)
    <2>1. IsSeq(<<x>>) /\ Items(<<x>>) = {x}
      BY ShortIsSeq
    <2> QED
      BY <1>1, <1>3, <2>1
  <1>4. ASSUME NEW x, NEW y, Plainly(x, n, m), Plainly(y, n, m)
        PROVE  Quiet(<<x, y>>, n, m)
    <2>1. IsSeq(<<x, y>>) /\ Items(<<x, y>>) = {x, y}
      BY ShortIsSeq
    <2> QED
      BY <1>1, <1>4, <2>1
  <1>5. ASSUME NEW x, NEW y, NEW z, Plainly(x, n, m), Plainly(y, n, m), Plainly(z, n, m)
        PROVE  Quiet(<<x, y, z>>, n, m)
    <2>1. IsSeq(<<x, y, z>>) /\ Items(<<x, y, z>>) = {x, y, z}
      BY ShortIsSeq
    <2> QED
      BY <1>1, <1>5, <2>1
  <1> QED
    BY <1>2, <1>3, <1>4, <1>5

LEMMA QuietConcat ==
  ASSUME NEW n, NEW m, NEW s, NEW t, Quiet(s, n, m), Quiet(t, n, m)
  PROVE  Quiet(s \o t, n, m)
  <1>1. IsSeq(s) /\ IsSeq(t)
    BY DEF Quiet
  <1>2. IsSeq(s \o t) /\ Items(s \o t) = Items(s) \cup Items(t)
    BY <1>1, ConcatIsSeq
  <1> QED
    BY <1>2 DEF Quiet, NoLoops, AllKnown

LEMMA Things ==
  ASSUME NEW n, NEW m
  PROVE  /\ \A data : \A l \in ListsOf(n) : Plainly(FireDo(l, data), n, m)
         /\ \A fn : \A l \in ListsOf(n) :
              KnownFn(fn, n, m) /\ fn.is # "settle" => Plainly(AddDo(l, fn), n, m)
         /\ \A fn, data : Plainly(Run(fn, data), n, m)
         /\ \A fn : \A l \in ListsOf(n) : Plainly(Do("forwarded", l, <<fn>>, <<>>, ""), n, m)
         /\ \A k \in 1..m : Plainly(Do("when", <<k, "">>, <<>>, <<>>, ""), n, m)
  BY DEF FireDo, AddDo, Run, Do, KnownItem, Plainly

LEMMA Calm ==
  ASSUME DInv, ~IsNext("loop"), lists' = lists, state' = state, MastersOK',
         Len(masters') = Len(masters), HistoryOK', waiting' = waiting, latest' = latest,
         broken' = broken, AgendaOK', SameLoops(agenda', agenda)
  PROVE  DInv' /\ PromiseStep
  <1>1. ListsOK' /\ SameWays
    BY ListsCalm
  <1>2. Shape'
    BY DEF DInv, Shape
  <1>3. OneWays'
    BY <1>1, OneWaysKept DEF Settling
  <1> QED
    BY <1>1, <1>2, <1>3 DEF DInv, PromiseStep, Still

\* Some steps do not touch the history the promise is about.
LEMMA HistoryStays ==
  ASSUME DInv, attached' = attached, calls' \in 0..MaxCalls, waiting' = waiting, due' = due,
         Len(state') = Len(state)
  PROVE  HistoryOK'
  BY DEF DInv, HistoryOK

\* Something is put before the agenda.
LEMMA CalmPut ==
  ASSUME DInv, ~IsNext("loop"), lists' = lists, state' = state, masters' = masters,
         attached' = attached, calls' \in 0..MaxCalls, waiting' = waiting, latest' = latest,
         broken' = broken, due' = due,
         NEW things, Quiet(things, Len(state), Len(masters)), NEW base,
         AgendaIs(base, Len(state), Len(masters)), SameLoops(base, agenda),
         agenda' = things \o base
  PROVE  DInv' /\ PromiseStep
  <1>1. IsSeq(things) /\ NoLoops(things) /\ AllKnown(things, Len(state), Len(masters))
    BY DEF Quiet
  <1>2. agenda' = Put(things, base)
    BY DEF Put
  <1>3. AgendaIs(agenda', Len(state), Len(masters)) /\ SameLoops(agenda', base)
    BY <1>1, <1>2, PutQuiet
  <1>4. SameLoops(agenda', agenda)
    BY <1>3 DEF SameLoops
  <1>5. AgendaOK'
    BY <1>3 DEF AgendaOK
  <1>6. HistoryOK'
    BY HistoryStays
  <1>7. MastersOK'
    BY DEF DInv, MastersOK
  <1> QED
    BY <1>4, <1>5, <1>6, <1>7, Calm

\* The user calls an operation.
LEMMA CallsThings ==
  ASSUME DInv, Runs, NEW things, Quiet(things, Len(state), Len(masters)), Calls(things),
         lists' = lists, state' = state, masters' = masters, history' = history
  PROVE  DInv' /\ PromiseStep
  <1>1. ~IsNext("loop")
    BY DEF Runs, IsNext
  <1>2. calls' \in 0..MaxCalls /\ agenda' = things \o agenda
    <2>1. calls \in 0..MaxCalls /\ calls < MaxCalls /\ MaxCalls \in Nat
      BY DeferredAssumption DEF DInv, HistoryOK, Runs
    <2> QED
      BY <2>1 DEF Calls
  <1>3. /\ attached' = attached /\ waiting' = waiting /\ latest' = latest
        /\ broken' = broken /\ due' = due
    BY DEF history, userCalls
  <1>4. AgendaIs(agenda, Len(state), Len(masters)) /\ SameLoops(agenda, agenda)
    BY DEF DInv, AgendaOK, SameLoops
  <1> QED
    BY <1>1, <1>2, <1>3, <1>4, CalmPut

LEMMA ExistingFacts ==
  ASSUME DInv, NEW d \in Existing
  PROVE  /\ d \in 1..Len(state) /\ \A kind \in Kinds : <<d, kind>> \in ListsOf(Len(state))
         /\ \A n, m : KnownFn(User(0), n, m) /\ User(0).is # "settle"
  <1>1. d \in 1..Len(state)
    BY Basics DEF Existing, DInv, Shape
  <1>2. \A n, m : KnownFn(User(0), n, m) /\ User(0).is # "settle"
    BY DEF User, Fn, KnownFn
  <1> QED
    BY <1>1, <1>2 DEF ListsOf

LEMMA CallAddStep ==
  ASSUME DInv, NEW d \in Existing, NEW kind \in Kinds, CallAdd(d, kind)
  PROVE  DInv' /\ PromiseStep
  <1>1. <<d, kind>> \in ListsOf(Len(state)) /\ KnownFn(User(0), Len(state), Len(masters))
        /\ User(0).is # "settle"
    BY ExistingFacts
  <1>2. Quiet(<<AddDo(<<d, kind>>, User(0))>>, Len(state), Len(masters))
    BY <1>1, Things, QuietThings
  <1> QED
    BY <1>2, CallsThings DEF CallAdd

LEMMA CallAlwaysStep ==
  ASSUME DInv, NEW d \in Existing, CallAlways(d)
  PROVE  DInv' /\ PromiseStep
  <1>1. <<d, "done">> \in ListsOf(Len(state)) /\ <<d, "fail">> \in ListsOf(Len(state))
        /\ KnownFn(User(0), Len(state), Len(masters)) /\ User(0).is # "settle"
    BY ExistingFacts DEF Kinds, Ways
  <1>2. Quiet(<<AddDo(<<d, "done">>, User(0)), AddDo(<<d, "fail">>, User(0))>>,
              Len(state), Len(masters))
    BY <1>1, Things, QuietThings
  <1> QED
    BY <1>2, CallsThings DEF CallAlways

LEMMA CallSettleStep ==
  ASSUME DInv, NEW d \in Existing, NEW kind \in Kinds, CallSettle(d, kind)
  PROVE  DInv' /\ PromiseStep
  <1>1. <<d, kind>> \in ListsOf(Len(state))
    BY ExistingFacts
  <1>2. Quiet(<<FireDo(<<d, kind>>, <<Fresh>>)>>, Len(state), Len(masters))
    BY <1>1, Things, QuietThings
  <1> QED
    BY <1>2, CallsThings DEF CallSettle

\* The head of the agenda, when it is no loop.
LEMMA HeadFacts ==
  ASSUME DInv, agenda # <<>>, Todo.op # "loop"
  PROVE  /\ KnownItem(Todo, Len(state), Len(masters))
         /\ AgendaIs(Rest, Len(state), Len(masters)) /\ SameLoops(Rest, agenda)
         /\ ~IsNext("loop")
  <1>1. AgendaIs(agenda, Len(state), Len(masters))
    BY DEF DInv, AgendaOK
  <1>2. Head(agenda) \in Items(agenda)
    BY <1>1, TailIsSeq DEF AgendaIs
  <1>3. KnownItem(Todo, Len(state), Len(masters))
    BY <1>1, <1>2 DEF AgendaIs, AllKnown, Todo
  <1>4. AgendaIs(Rest, Len(state), Len(masters)) /\ SameLoops(Rest, agenda)
    BY <1>1, TailKeeps DEF Todo, Rest
  <1> QED
    BY <1>3, <1>4 DEF IsNext

LEMMA EmptyBefore ==
  ASSUME NEW s, NEW n, NEW m, AgendaIs(s, n, m)
  PROVE  <<>> \o s = s
  BY ConcatEmptySeq DEF AgendaIs, IsSeq

LEMMA ReturnStep ==
  ASSUME DInv, Return
  PROVE  DInv' /\ PromiseStep
  <1>1. agenda # <<>> /\ Todo.op # "loop"
    BY DEF Return, IsNext
  <1>2. AgendaIs(Rest, Len(state), Len(masters)) /\ SameLoops(Rest, agenda) /\ ~IsNext("loop")
    BY <1>1, HeadFacts
  <1>3. agenda' = <<>> \o Rest
    BY <1>2, EmptyBefore DEF Return
  <1>4. calls' \in 0..MaxCalls
    BY DEF Return, DInv, HistoryOK
  <1>5. Quiet(<<>>, Len(state), Len(masters))
    BY QuietThings
  <1> QED
    BY <1>2, <1>3, <1>4, <1>5, CalmPut DEF Return, history, userCalls

LEMMA ReturnFalseNever ==
  ASSUME DInv
  PROVE  ~ReturnFalse
  <1> SUFFICES ASSUME ReturnFalse
               PROVE  FALSE
    OBVIOUS
  <1>1. agenda # <<>> /\ Todo.op # "loop" /\ Rest # <<>> /\ Head(Rest).op = "loop"
    BY DEF ReturnFalse, IsNext, Caller
  <1>2. AgendaIs(Rest, Len(state), Len(masters))
    BY <1>1, HeadFacts
  <1>3. Head(Rest).list \in ListsOf(Len(state))
    BY <1>1, <1>2, TailLosesLoop
  <1>4. "stopOnFalse" \notin lists[Head(Rest).list].options
    BY <1>3 DEF DInv, ListsOK, ListOK
  <1> QED
    BY <1>4 DEF ReturnFalse

\* What follows a function given to then(), and what it returns.
LEMMA ForwardedFacts ==
  ASSUME DInv, IsNext("run"), Caller = "forwarded"
  PROVE  /\ ~IsNext("loop")
         /\ Head(Rest).list \in ListsOf(Len(state)) /\ Head(Rest).list[1] \in 1..Len(state)
         /\ AgendaIs(Tail(Rest), Len(state), Len(masters)) /\ SameLoops(Tail(Rest), agenda)
  <1>1. agenda # <<>> /\ Todo.op # "loop" /\ Rest # <<>> /\ Head(Rest).op = "forwarded"
    BY DEF IsNext, Caller
  <1>2. AgendaIs(Rest, Len(state), Len(masters)) /\ SameLoops(Rest, agenda) /\ ~IsNext("loop")
    BY <1>1, HeadFacts
  <1>3. Head(Rest) \in Items(Rest)
    BY <1>1, <1>2, TailIsSeq DEF AgendaIs
  <1>4. KnownItem(Head(Rest), Len(state), Len(masters))
    BY <1>2, <1>3 DEF AgendaIs, AllKnown
  <1>5. Head(Rest).list \in ListsOf(Len(state)) /\ Head(Rest).op # "loop"
    BY <1>1, <1>4 DEF KnownItem
  <1>6. AgendaIs(Tail(Rest), Len(state), Len(masters)) /\ SameLoops(Tail(Rest), Rest)
    BY <1>1, <1>2, <1>5, TailKeeps
  <1>7. SameLoops(Tail(Rest), agenda)
    BY <1>2, <1>6 DEF SameLoops
  <1>8. Head(Rest).list[1] \in 1..Len(state)
    BY <1>5 DEF ListsOf
  <1> QED
    BY <1>2, <1>5, <1>6, <1>7, <1>8

LEMMA ReturnValueStep ==
  ASSUME DInv, ReturnValue
  PROVE  DInv' /\ PromiseStep
  <1>1. /\ ~IsNext("loop") /\ Head(Rest).list \in ListsOf(Len(state))
        /\ AgendaIs(Tail(Rest), Len(state), Len(masters)) /\ SameLoops(Tail(Rest), agenda)
    BY ForwardedFacts DEF ReturnValue
  <1>2. Quiet(<<FireDo(Head(Rest).list, <<Fresh>>)>>, Len(state), Len(masters))
    BY <1>1, Things, QuietThings
  <1>3. calls' \in 0..MaxCalls
    BY DEF ReturnValue, DInv, HistoryOK
  <1>4. agenda' = <<FireDo(Head(Rest).list, <<Fresh>>)>> \o Tail(Rest)
    BY DEF ReturnValue
  <1> QED
    BY <1>1, <1>2, <1>3, <1>4, CalmPut DEF ReturnValue, userCalls

LEMMA ReturnPromiseStep ==
  ASSUME DInv, NEW p \in Existing, ReturnPromise(p)
  PROVE  DInv' /\ PromiseStep
  <1> DEFINE new == Head(Rest).list[1]
             Adds(kind) == AddDo(<<p, kind>>, FireOf(<<new, kind>>))
             things == <<Adds("done"), Adds("fail"), Adds("progress")>>
  <1>1. /\ ~IsNext("loop") /\ new \in 1..Len(state)
        /\ AgendaIs(Tail(Rest), Len(state), Len(masters)) /\ SameLoops(Tail(Rest), agenda)
    BY ForwardedFacts DEF ReturnPromise
  <1>2. agenda' = things \o Tail(Rest)
    BY DEF ReturnPromise
  <1> HIDE DEF new
  <1>3. ASSUME NEW kind \in Kinds
        PROVE  Plainly(Adds(kind), Len(state), Len(masters))
    <2>1. <<p, kind>> \in ListsOf(Len(state)) /\ <<new, kind>> \in ListsOf(Len(state))
      BY <1>1, ExistingFacts DEF ListsOf
    <2>2. KnownFn(FireOf(<<new, kind>>), Len(state), Len(masters))
          /\ FireOf(<<new, kind>>).is # "settle"
      BY <2>1 DEF KnownFn, FireOf, Fn
    <2> QED
      BY <2>1, <2>2, Things
  <1>4. Quiet(things, Len(state), Len(masters))
    <2>1. "done" \in Kinds /\ "fail" \in Kinds /\ "progress" \in Kinds
      BY DEF Kinds, Ways
    <2> HIDE DEF Adds
    <2> QED
      BY <1>3, <2>1, QuietThings
  <1>5. calls' \in 0..MaxCalls
    BY DEF ReturnPromise, DInv, HistoryOK
  <1> HIDE DEF things
  <1> QED
    BY <1>1, <1>2, <1>4, <1>5, CalmPut DEF ReturnPromise, userCalls

\* Something of the master changes.
LEMMA MasterKept ==
  ASSUME DInv, NEW m \in 1..Len(masters), NEW new, masters' = [masters EXCEPT ![m] = new],
         Len(state') = Len(state),
         new \in [deferred : 1..Len(state), of : {new.of}, remaining : {new.remaining},
                 values : {new.values}, progress : {new.progress}]
  PROVE  MastersOK' /\ Len(masters') = Len(masters)
  <1> DEFINE n == Len(state)
             S == {masters'[k] : k \in 1..Len(masters)}
  <1>1. IsSeq(masters) /\ Len(masters) \in Nat /\ DOMAIN masters = 1..Len(masters)
    BY IsSeqFacts DEF DInv, MastersOK
  <1>2. \A k \in 1..Len(masters) :
          masters[k] \in [deferred : 1..n, of : {masters[k].of}, remaining : {masters[k].remaining},
                          values : {masters[k].values}, progress : {masters[k].progress}]
    BY DEF DInv, MastersOK
  <1>3. masters' \in [1..Len(masters) -> S]
    BY <1>1
  <1>4. masters' \in Seq(S) /\ Len(masters') = Len(masters)
    <2> DEFINE t == masters'
               size == Len(masters)
    <2>1. t \in [1..size -> S] /\ size \in Nat
      BY <1>1, <1>3
    <2> HIDE DEF t, S, size
    <2>2. t \in Seq(S) /\ Len(t) = size
      BY <2>1, FunctionIsSeq
    <2> QED
      BY <2>2 DEF t, size
  <1>5. IsSeq(masters')
    BY <1>4, SeqIsSeq
  <1>6. masters'[m] = new /\ \A k \in 1..Len(masters) : k # m => masters'[k] = masters[k]
    BY <1>1
  <1> QED
    BY <1>2, <1>4, <1>5, <1>6 DEF MastersOK

LEMMA MasterFacts ==
  ASSUME DInv, NEW m \in 1..Len(masters)
  PROVE  /\ masters[m].deferred \in 1..Len(state)
         /\ masters[m] \in [deferred : 1..Len(state), of : {masters[m].of},
                            remaining : {masters[m].remaining},
                            values : {masters[m].values}, progress : {masters[m].progress}]
         /\ \A kind \in Kinds : <<masters[m].deferred, kind>> \in ListsOf(Len(state))
         /\ DOMAIN masters = 1..Len(masters)
  <1>1. masters[m] \in [deferred : 1..Len(state), of : {masters[m].of},
                        remaining : {masters[m].remaining},
                        values : {masters[m].values}, progress : {masters[m].progress}]
    BY DEF DInv, MastersOK
  <1>2. masters[m].deferred \in 1..Len(state)
    BY <1>1
  <1>3. DOMAIN masters = 1..Len(masters)
    BY IsSeqFacts DEF DInv, MastersOK
  <1> QED
    BY <1>1, <1>2, <1>3 DEF ListsOf

LEMMA WhenReadyStep ==
  ASSUME DInv, WhenReady
  PROVE  DInv' /\ PromiseStep
  <1> DEFINE m == Todo.list[1]
             master == masters[m]
             left == master.remaining - (IF master.of[2] = 0 THEN 1 ELSE 0)
             n == Len(state)
  <1>1. agenda # <<>> /\ Todo.op = "when" /\ Todo.op # "loop"
    BY DEF WhenReady, IsNext
  <1>2. /\ AgendaIs(Rest, n, Len(masters)) /\ SameLoops(Rest, agenda) /\ ~IsNext("loop")
        /\ KnownItem(Todo, n, Len(masters))
    BY <1>1, HeadFacts
  <1>3. m \in 1..Len(masters)
    BY <1>1, <1>2 DEF KnownItem
  <1>4. /\ masters' = [masters EXCEPT ![m].remaining = left]
        /\ agenda' = IF left = 0 THEN <<FireDo(<<master.deferred, "done">>, master.values)>> \o Rest
                     ELSE Rest
        /\ lists' = lists /\ state' = state /\ calls' = calls /\ history' = history
    BY DEF WhenReady
  <1> HIDE DEF left
  <1>5. MastersOK' /\ Len(masters') = Len(masters)
    <2> DEFINE new == [master EXCEPT !.remaining = left]
    <2>1. new \in [deferred : 1..n, of : {new.of}, remaining : {new.remaining},
                   values : {new.values}, progress : {new.progress}]
      BY <1>3, MasterFacts
    <2>2. masters' = [masters EXCEPT ![m] = new]
      BY <1>3, <1>4, MasterFacts
    <2> HIDE DEF new, m
    <2> QED
      BY <1>3, <1>4, <2>1, <2>2, MasterKept
  <1>6. <<master.deferred, "done">> \in ListsOf(n)
    BY <1>3, MasterFacts DEF Kinds, Ways
  <1> DEFINE things == IF left = 0 THEN <<FireDo(<<master.deferred, "done">>, master.values)>>
                       ELSE <<>>
  <1>7. Quiet(things, n, Len(masters))
    BY <1>6, Things, QuietThings
  <1>8. agenda' = things \o Rest
    <2>1. <<>> \o Rest = Rest
      BY <1>2, EmptyBefore
    <2> QED
      BY <1>4, <2>1
  <1> HIDE DEF things
  <1>9. AgendaIs(agenda', n, Len(masters)) /\ SameLoops(agenda', Rest)
    BY <1>2, <1>7, <1>8, PutQuiet DEF Quiet, Put
  <1>10. AgendaOK' /\ SameLoops(agenda', agenda)
    BY <1>2, <1>4, <1>5, <1>9 DEF AgendaOK, SameLoops
  <1>11. HistoryOK'
    BY <1>4, HistoryStays DEF history, userCalls, DInv, HistoryOK
  <1> QED
    BY <1>2, <1>4, <1>5, <1>10, <1>11, Calm DEF history, userCalls

LEMMA LoopComesTo ==
  ASSUME DInv, NEW is, Comes(is)
  PROVE  /\ IsNext("loop") /\ GoesOn(Looping) /\ Current(Looping) = Callee /\ Callee.is = is
         /\ KnownFn(Callee, Len(state), Len(masters))
         /\ Callee.is = "settle" => Todo.list[2] # "progress" /\ Callee.of = Todo.list[1]
                                    /\ Callee.list = Todo.list
         /\ Todo.list \in ListsOf(Len(state)) /\ Todo.list # Plain
         /\ ~IsNext("add") /\ agenda # <<>>
  <1> DEFINE l == Todo.list
             at == Todo
             n == Len(state)
             m == Len(masters)
             cb == lists[l]
             fn == Current(Reached(cb, at))
  <1>1. IsNext("loop") /\ GoesOn(Looping) /\ Callee.is = is /\ Callee = Current(Looping)
    BY DEF Comes, Callee
  <1>2. /\ Looping = Reached(cb, at) /\ ListOK(l, cb, {at}, n, m) /\ l \in ListsOf(n)
        /\ agenda # <<>> /\ at.op = "loop"
    BY <1>1, LoopFacts
  <1>3. GoesOn(Reached(cb, at)) /\ at \in {at} /\ Callee = fn
    BY <1>1, <1>2
  <1>4. ~IsNext("add") /\ l # Plain
    BY <1>2, WayFacts DEF IsNext
  <1> HIDE DEF l, at, n, m, cb
  <1>5. /\ KnownFn(fn, n, m)
        /\ fn.is = "settle" => l[2] # "progress" /\ fn.of = l[1] /\ fn.list = l
    BY <1>2, <1>3, ComesToFn
  <1> HIDE DEF fn
  <1> QED
    BY <1>1, <1>2, <1>3, <1>4, <1>5 DEF l, n, m, at

\* The loop calls something that calls no callback of the user's.
LEMMA LoopCallsOther ==
  ASSUME DInv, NEW is, Comes(is), is # "settle", is # "user",
         NEW things, Quiet(things, Len(state), Len(masters)), CallsIt(things),
         state' = state, MastersOK', Len(masters') = Len(masters), calls' = calls,
         history' = history
  PROVE  DInv' /\ PromiseStep
  <1>1. IsNext("loop") /\ GoesOn(Looping) /\ Current(Looping) = Callee /\ Callee.is = is
    BY LoopComesTo
  <1>2. IsSeq(things) /\ NoLoops(things) /\ AllKnown(things, Len(state), Len(masters))
    BY DEF Quiet
  <1>3. /\ attached' = attached /\ waiting' = waiting /\ latest' = latest
        /\ broken' = broken /\ due' = due
    BY DEF history, userCalls
  <1>4. Shape' /\ AgendaOK' /\ ListsOK' /\ OneWays' /\ SameWays
    BY <1>1, <1>2, <1>3, LoopCalls
  <1>5. HistoryOK'
    BY <1>3, HistoryStays DEF DInv, HistoryOK
  <1> QED
    BY <1>3, <1>4, <1>5 DEF DInv, PromiseStep, Still

LEMMA CallFireStep ==
  ASSUME DInv, CallFire
  PROVE  DInv' /\ PromiseStep
  <1>1. Comes("fire") /\ CallsIt(<<FireDo(Callee.list, Todo.data)>>)
    BY DEF CallFire
  <1>2. KnownFn(Callee, Len(state), Len(masters)) /\ Callee.is = "fire"
    BY <1>1, LoopComesTo
  <1>3. Callee.list \in ListsOf(Len(state))
    BY <1>2 DEF KnownFn
  <1>4. Quiet(<<FireDo(Callee.list, Todo.data)>>, Len(state), Len(masters))
    BY <1>3, Things, QuietThings
  <1>5. MastersOK'
    BY DEF CallFire, DInv, MastersOK
  <1> QED
    BY <1>1, <1>4, <1>5, LoopCallsOther DEF CallFire

LEMMA CallForwardStep ==
  ASSUME DInv, CallForward
  PROVE  DInv' /\ PromiseStep
  <1> DEFINE asks == <<Run(Callee, Todo.data), Do("forwarded", Callee.list, <<Callee>>, <<>>, "")>>
             passes == <<FireDo(Callee.list, Todo.data)>>
             things == IF Callee.of = 1 THEN asks ELSE passes
  <1>1. Comes("forward") /\ CallsIt(things)
    BY DEF CallForward
  <1>2. KnownFn(Callee, Len(state), Len(masters)) /\ Callee.is = "forward"
    BY <1>1, LoopComesTo
  <1>3. Callee.list \in ListsOf(Len(state))
    BY <1>2 DEF KnownFn
  <1>4. Quiet(asks, Len(state), Len(masters)) /\ Quiet(passes, Len(state), Len(masters))
    BY <1>3, Things, QuietThings
  <1> HIDE DEF asks, passes
  <1>5. Quiet(things, Len(state), Len(masters))
    BY <1>4
  <1>6. MastersOK'
    BY DEF CallForward, DInv, MastersOK
  <1> HIDE DEF things
  <1> QED
    BY <1>1, <1>5, <1>6, LoopCallsOther DEF CallForward

LEMMA CallUpdateStep ==
  ASSUME DInv, CallUpdate
  PROVE  DInv' /\ PromiseStep
  <1> DEFINE m == Callee.of
             n == Len(state)
             master == masters[m]
             With(values) == [values EXCEPT ![Callee.i] = ValueOf(Todo.data)]
             telling == <<FireDo(<<master.deferred, "progress">>, With(master.progress))>>
             ending == <<FireDo(<<master.deferred, "done">>, With(master.values))>>
             told == [master EXCEPT !.progress = With(@)]
             updated == [master EXCEPT !.values = With(@), !.remaining = @ - 1]
  <1>1. Comes("update") /\ state' = state /\ calls' = calls /\ history' = history
    BY DEF CallUpdate
  <1>2. KnownFn(Callee, n, Len(masters)) /\ Callee.is = "update"
    BY <1>1, LoopComesTo
  <1>3. m \in 1..Len(masters)
    BY <1>2 DEF KnownFn
  <1>4. /\ <<master.deferred, "progress">> \in ListsOf(n)
        /\ <<master.deferred, "done">> \in ListsOf(n)
    BY <1>3, MasterFacts DEF Kinds, Ways
  <1>5. Quiet(telling, n, Len(masters)) /\ Quiet(ending, n, Len(masters))
        /\ Quiet(<<>>, n, Len(masters))
    BY <1>4, Things, QuietThings
  <1>6. \/ masters' = [masters EXCEPT ![m].progress = With(@)] /\ CallsIt(telling)
        \/ /\ masters' = [masters EXCEPT ![m].values = With(@), ![m].remaining = @ - 1]
           /\ CallsIt(<<>>) \/ CallsIt(ending)
    BY DEF CallUpdate
  <1> HIDE DEF telling, ending, With
  <1>7. \/ masters' = [masters EXCEPT ![m] = told] /\ CallsIt(telling)
        \/ masters' = [masters EXCEPT ![m] = updated] /\ (CallsIt(<<>>) \/ CallsIt(ending))
    BY <1>3, <1>6, MasterFacts
  <1>8. told \in [deferred : 1..n, of : {told.of}, remaining : {told.remaining},
                  values : {told.values}, progress : {told.progress}]
    BY <1>3, MasterFacts
  <1>9. updated \in [deferred : 1..n, of : {updated.of}, remaining : {updated.remaining},
                     values : {updated.values}, progress : {updated.progress}]
    BY <1>3, MasterFacts
  <1> HIDE DEF told, updated, m
  <1>10. MastersOK' /\ Len(masters') = Len(masters)
    BY <1>1, <1>3, <1>7, <1>8, <1>9, MasterKept
  <1> QED
    BY <1>1, <1>5, <1>7, <1>10, LoopCallsOther

LEMMA CallUserStep ==
  ASSUME DInv, CallUser
  PROVE  DInv' /\ PromiseStep
  <1> DEFINE l == Todo.list
             n == Len(state)
             things == <<Run(Callee, Todo.data)>>
  <1>1. Comes("user") /\ CallsIt(things)
        /\ state' = state /\ masters' = masters /\ calls' = calls /\ attached' = attached
        /\ broken' = broken
    BY DEF CallUser
  <1>2. /\ IsNext("loop") /\ GoesOn(Looping) /\ Current(Looping) = Callee /\ Callee.is = "user"
        /\ l \in ListsOf(n) /\ l # Plain
    BY <1>1, LoopComesTo
  <1>3. due' = due
    BY <1>2 DEF CallUser
  <1>4. Quiet(things, n, Len(masters))
    BY Things, QuietThings
  <1>5. IsSeq(things) /\ NoLoops(things) /\ AllKnown(things, n, Len(masters))
    BY <1>4 DEF Quiet
  <1> HIDE DEF things
  <1>6. MastersOK'
    BY <1>1 DEF DInv, MastersOK
  <1>7. CASE l \in DOMAIN waiting
    <2>1. l \in WaysOf(n) /\ waiting[l] \in Seq(Nat)
      BY <1>2, <1>7, Basics
    <2>2. waiting[l] # <<>> /\ Head(waiting[l]) = Callee.of
          /\ lists[l].fired /\ lists[l].memory = <<Todo.data>>
      <3> DEFINE at == Todo
                 cb == lists[l]
                 w == waiting[l]
                 hurt == broken
                 met == Reached(cb, at)
                 m == Len(masters)
      <3>1. /\ Looping = met /\ ListOK(l, cb, {at}, n, m)
            /\ WayOK(l, cb, w, {at}, hurt) /\ at \in {at} /\ w \in Seq(Nat)
        BY <1>2, <2>1, LoopFacts
      <3>2. GoesOn(met) /\ Current(met) = Callee /\ Callee.is = "user"
        BY <1>2, <3>1
      <3> HIDE DEF at, hurt, cb, w, l, n, m
      <3>3. w # <<>> /\ Head(w) = Current(met).of /\ cb.fired /\ cb.memory = <<at.data>>
        BY <3>1, <3>2, CallKeepsWay
      <3> HIDE DEF met
      <3> QED
        BY <3>2, <3>3 DEF at, cb, w
    <2>3. waiting' = [waiting EXCEPT ![l] = Tail(@)] /\ latest' = <<Callee.of, Todo.data>>
      BY <1>7, <2>2 DEF CallUser
    <2>4. waiting'[l] = Tail(waiting[l])
          /\ \A k \in WaysOf(n) : k # l => waiting'[k] = waiting[k]
      BY <1>7, <2>3, Basics
    <2>5. Shape' /\ AgendaOK' /\ ListsOK' /\ OneWays' /\ SameWays
      BY <1>1, <1>2, <1>5, <2>4, LoopCalls
    <2>6. HistoryOK'
      <3>1. Tail(waiting[l]) \in Seq(Nat)
        BY <2>1, <2>2, HeadTailProperties
      <3>2. waiting' \in [(1..MaxDeferreds) \X Ways -> Seq(Nat)]
        BY <2>3, <3>1 DEF DInv, HistoryOK
      <3>3. \A k \in DOMAIN waiting : k # l => waiting'[k] = waiting[k]
        BY <2>3
      <3>4. DOMAIN waiting' = DOMAIN waiting
        BY <2>3
      <3> QED
        BY <1>1, <1>2, <1>3, <3>2, <3>3, <3>4 DEF DInv, HistoryOK
    <2>7. CallsOne(l)
      <3>1. lists[l].memory[1] = Todo.data
        BY <2>2
      <3> QED
        BY <2>1, <2>2, <2>3, <2>5, <3>1 DEF CallsOne
    <2> QED
      BY <1>6, <2>5, <2>6, <2>7 DEF DInv, PromiseStep
  <1>8. CASE l \notin DOMAIN waiting
    <2>1. waiting' = waiting /\ latest' = latest
      BY <1>8 DEF CallUser, userCalls
    <2>2. l \notin WaysOf(n)
      BY <1>8, Basics
    <2>3. Shape' /\ AgendaOK' /\ ListsOK' /\ OneWays' /\ SameWays
      BY <1>1, <1>2, <1>5, <2>1, <2>2, LoopCalls
    <2>4. HistoryOK'
      BY <1>1, <1>3, <2>1, HistoryStays DEF DInv, HistoryOK
    <2> QED
      BY <1>6, <2>1, <2>3, <2>4 DEF DInv, PromiseStep, Still
  <1> QED
    BY <1>7, <1>8

\* The loop calls the functions that settle its deferred.
LEMMA CallSettlingStep ==
  ASSUME DInv, CallSettling
  PROVE  DInv' /\ PromiseStep
  <1> DEFINE l == Todo.list
             d == l[1]
             way == l[2]
             o == <<d, OtherWay(way)>>
             p == <<d, "progress">>
             x == Loop(l, Todo.data, "next")
             N == Len(state)
             M == Len(masters)
             cb == lists[l]
  <1>1. Comes("settle") /\ calls' = calls /\ masters' = masters /\ history' = history
    BY DEF CallSettling
  <1>2. /\ IsNext("loop") /\ GoesOn(Looping) /\ Current(Looping) = Callee /\ Callee.is = "settle"
        /\ l[2] # "progress" /\ Callee.of = d /\ Callee.list = l /\ l \in ListsOf(N)
    BY <1>1, LoopComesTo
  <1>3. /\ agenda # <<>> /\ Todo.op = "loop" /\ Looping = Reached(cb, Todo)
        /\ AgendaIs(agenda, N, M)
        /\ ListOK(l, cb, {Todo}, N, M)
        /\ WayOK(l, cb, waiting[l], {Todo}, broken)
        /\ LoopItems(agenda, l) = {Todo}
        /\ l \in WaysOf(N) /\ way \in Ways
    BY <1>2, LoopFacts, WayFacts
  <1>4. /\ l = <<d, way>> /\ o # l /\ p # l /\ p # o /\ o \in WaysOf(N) /\ o \in ListsOf(N)
        /\ p \in ListsOf(N) /\ d \in 1..N /\ p \notin WaysOf(N) /\ o[2] # "progress"
    BY <1>3 DEF WaysOf, ListsOf, Ways, Kinds, OtherWay
  <1>5. cb.fired /\ ~lists[o].fired
    <2>1. cb.fired
      BY <1>3 DEF ListOK
    <2>2. OneWay(d, way)
      BY <1>3, <1>4 DEF DInv, OneWays
    <2> QED
      BY <1>4, <2>1, <2>2 DEF OneWay
  <1>6. /\ state' = [state EXCEPT ![d] = Final(way)]
        /\ lists' = [lists EXCEPT ![l] = Looping, ![o] = Disable(@), ![p] = Lock(@)]
        /\ agenda' = <<x>> \o Rest
    BY <1>2, <1>4 DEF CallSettling
  <1>7. /\ lists = [k \in ListsOf(N) |-> lists[k]]
        /\ state \in Seq(Outcomes) /\ N \in 1..MaxDeferreds
    BY DEF DInv, Shape
  <1>8. /\ lists'[l] = Looping /\ lists'[o] = Disable(lists[o]) /\ lists'[p] = Lock(lists[p])
        /\ \A k \in ListsOf(N) : k # l /\ k # o /\ k # p => lists'[k] = lists[k]
        /\ lists' = [k \in ListsOf(N) |-> lists'[k]]
    <2> HIDE DEF l, o, p, d, way, N
    <2> QED
      BY <1>2, <1>4, <1>6, <1>7
  <1>9. state' \in Seq(Outcomes) /\ Len(state') = N
    <2>1. Final(way) \in Outcomes
      BY <1>3 DEF Final, Outcomes
    <2>2. state \in [1..N -> Outcomes] /\ N \in Nat
      BY <1>7, LenProperties
    <2>3. state' \in [1..N -> Outcomes]
      BY <1>6, <2>1, <2>2
    <2> HIDE DEF N
    <2> QED
      BY <2>2, <2>3, FunctionIsSeq
  <1>10. Shape'
    BY <1>7, <1>8, <1>9, WayFacts DEF Shape
  <1>11. x.op = "loop" /\ x.list = l /\ x.data = Todo.data /\ KnownItem(x, N, M)
    BY <1>2, LoopFields
  <1>12. AgendaIs(agenda', N, M) /\ LoopsExcept(agenda', agenda, l, {x})
    <2> DEFINE rest == Tail(agenda)
    <2>1. AgendaIs(rest, N, M) /\ LoopsExcept(rest, agenda, l, {})
      BY <1>3, TailLosesLoop DEF Todo
    <2>2. agenda' = Put(<<x>>, rest)
      BY <1>6 DEF Put, Rest
    <2> HIDE DEF rest, x, l, N, M
    <2>3. NoLoopOf(rest, x.list)
      BY <1>11, <2>1 DEF NoLoopOf, LoopsExcept
    <2>4. AgendaIs(agenda', N, M) /\ LoopsExcept(agenda', rest, l, {x})
      BY <1>11, <2>1, <2>2, <2>3, PutLoop
    <2> QED
      BY <2>1, <2>4 DEF LoopsExcept
  <1>13. MastersOK' /\ Len(masters') = M
    BY <1>1, <1>9 DEF DInv, MastersOK
  <1>14. AgendaOK'
    BY <1>9, <1>12, <1>13 DEF AgendaOK
  <1>15. /\ attached' = attached /\ waiting' = waiting /\ latest' = latest
         /\ broken' = broken /\ due' = due
    BY <1>1 DEF history, userCalls
  <1>16. HistoryOK'
    BY <1>1, <1>9, <1>15, HistoryStays DEF DInv, HistoryOK
  <1>17. LoopItems(agenda', l) = {x} /\ \A k : k # l => LoopItems(agenda', k) = LoopItems(agenda, k)
    BY <1>12 DEF LoopsExcept
  \* The three lists.
  <1>18. /\ ListOK(l, lists'[l], {x}, N, M) /\ WayOK(l, lists'[l], waiting[l], {x}, broken)
         /\ lists'[l].fired /\ lists'[l].memory = cb.memory /\ (lists'[l].disabled <=> cb.disabled)
    <2> DEFINE w == waiting[l]
               at == Todo
               hurt == broken
               met == Reached(cb, at)
               next == {Loop(l, at.data, "next")}
    <2>1. w \in Seq(Nat)
      BY <1>3, Basics
    <2>2. /\ ListOK(l, cb, {at}, N, M) /\ WayOK(l, cb, w, {at}, hurt) /\ at \in {at}
          /\ Looping = met
      BY <1>3
    <2>3. GoesOn(met) /\ Current(met).is # "user" /\ IsList(cb)
      BY <1>2, <2>2 DEF ListOK
    <2>4. ListOK(l, met, {x}, N, M)
      BY <2>2, CallKeepsList
    <2> HIDE DEF at, hurt, cb, w, l, N, M
    <2>5. met.memory = cb.memory
      BY <2>3, ReachedFields
    <2> HIDE DEF met, next
    <2>6. met = Reached(cb, at) /\ next = {Loop(l, at.data, "next")}
      BY DEF met, next
    <2>7. WayOK(l, met, w, next, hurt) /\ met.fired /\ (met.disabled <=> cb.disabled)
      BY <2>1, <2>2, <2>3, <2>6, CallKeepsWay
    <2> QED
      BY <1>8, <2>2, <2>4, <2>5, <2>7 DEF at, hurt, w, next
  <1>19. /\ ListOK(o, lists'[o], LoopItems(agenda', o), N, M)
         /\ WayOK(o, lists'[o], waiting[o], LoopItems(agenda', o), broken)
         /\ ~lists'[o].fired /\ lists'[o].disabled
    <2> DEFINE loops == LoopItems(agenda, o)
               other == lists[o]
               w == waiting[o]
               hurt == broken
    <2>1. ListOK(o, other, loops, N, M) /\ WayOK(o, other, w, loops, hurt) /\ ~other.fired
      BY <1>4, <1>5 DEF DInv, ListsOK
    <2>2. LoopItems(agenda', o) = loops /\ lists'[o] = Disable(other)
      BY <1>4, <1>8, <1>17
    <2> HIDE DEF loops, other, w, hurt, o, N, M
    <2>3. /\ ListOK(o, Disable(other), loops, N, M) /\ WayOK(o, Disable(other), w, loops, hurt)
          /\ ~Disable(other).fired /\ Disable(other).disabled
      BY <2>1, DisableKeeps
    <2> QED
      BY <2>2, <2>3 DEF w, hurt
  <1>20. ListOK(p, lists'[p], LoopItems(agenda', p), N, M)
    <2>1. ListOK(p, lists[p], LoopItems(agenda, p), N, M)
      BY <1>4 DEF DInv, ListsOK
    <2>2. ListOK(p, Lock(lists[p]), LoopItems(agenda, p), N, M)
      BY <2>1, LockKeeps
    <2> QED
      BY <1>4, <1>8, <1>17, <2>2
  <1>21. ListsOK'
    <2>1. ASSUME NEW k \in ListsOf(N)
          PROVE  ListOK(k, lists'[k], LoopItems(agenda', k), N, M)
      <3>1. CASE k = l
        BY <1>17, <1>18, <3>1
      <3>2. CASE k = o
        BY <1>19, <3>2
      <3>3. CASE k = p
        BY <1>20, <3>3
      <3>4. CASE k # l /\ k # o /\ k # p
        <4>1. ListOK(k, lists[k], LoopItems(agenda, k), N, M)
          BY DEF DInv, ListsOK
        <4> QED
          BY <1>8, <1>17, <3>4, <4>1
      <3> QED
        BY <3>1, <3>2, <3>3, <3>4
    <2>2. ASSUME NEW k \in WaysOf(N)
          PROVE  WayOK(k, lists'[k], waiting[k], LoopItems(agenda', k), broken)
      <3>1. CASE k = l
        BY <1>17, <1>18, <3>1
      <3>2. CASE k = o
        BY <1>19, <3>2
      <3>3. CASE k # l /\ k # o
        <4>1. WayOK(k, lists[k], waiting[k], LoopItems(agenda, k), broken)
          BY DEF DInv, ListsOK
        <4>2. k \in ListsOf(N) /\ k # p
          BY <1>4, WayFacts
        <4> QED
          BY <1>8, <1>17, <3>3, <4>1, <4>2
      <3> QED
        BY <3>1, <3>2, <3>3
    <2> QED
      BY <1>9, <1>13, <1>15, <2>1, <2>2 DEF ListsOK
  <1>22. SameWays
    <2> SUFFICES ASSUME NEW k \in WaysOf(N)
                 PROVE  /\ (lists'[k].fired <=> lists[k].fired)
                        /\ lists[k].fired => lists'[k].memory = lists[k].memory
                        /\ lists[k].disabled => lists'[k].disabled
      BY <1>9 DEF SameWays
    <2>1. CASE k = l
      BY <1>5, <1>18, <2>1
    <2>2. CASE k = o
      BY <1>5, <1>19, <2>2
    <2>3. CASE k # l /\ k # o
      <3>1. k \in ListsOf(N) /\ k # p
        BY <1>4, WayFacts
      <3> QED
        BY <1>8, <2>3, <3>1
    <2> QED
      BY <2>1, <2>2, <2>3
  <1>23. OneWays'
    <2> SUFFICES ASSUME NEW e \in 1..N, NEW w \in Ways, lists'[<<e, w>>].fired
                 PROVE  /\ ~lists'[<<e, OtherWay(w)>>].fired
                        /\ lists'[<<e, OtherWay(w)>>].disabled
      BY <1>9 DEF OneWays, OneWay
    <2> DEFINE k == <<e, w>>
               j == <<e, OtherWay(w)>>
    <2>1. k \in WaysOf(N) /\ j \in WaysOf(N)
      BY DEF WaysOf, OtherWay, Ways
    <2>2. lists[k].fired
      BY <1>9, <1>22, <2>1 DEF SameWays
    <2>3. CASE k = l
      <3>1. j = o
        BY <1>4, <2>3
      <3> QED
        BY <1>19, <3>1
    <2>4. CASE k # l
      <3>1. ~lists[j].fired /\ (lists[j].disabled \/ Settling(k))
        BY <2>2 DEF DInv, OneWays, OneWay
      <3>2. ~Settling(k)
        BY <2>4 DEF Settling
      <3> QED
        BY <1>9, <1>22, <2>1, <3>1, <3>2 DEF SameWays
    <2> QED
      BY <2>3, <2>4
  <1> QED
    BY <1>10, <1>13, <1>14, <1>15, <1>16, <1>21, <1>22, <1>23 DEF DInv, PromiseStep, Still

\* A loop starts, in front of what is left; or none does.
LEMMA LoopStarts ==
  ASSUME NEW s, NEW n, NEW m, NEW base, AgendaIs(base, n, m), NEW l \in ListsOf(n),
         LoopsExcept(base, s, l, {}), NEW memory
  PROVE  LET x == Loop(l, memory[1], "first")
             new == <<x>> \o base
         IN  /\ AgendaIs(new, n, m) /\ LoopsExcept(new, s, l, {x})
             /\ new # <<>> /\ Head(new) = x
  <1> DEFINE x == Loop(l, memory[1], "first")
             new == <<x>> \o base
  <1>1. x.op = "loop" /\ x.list = l /\ KnownItem(x, n, m)
    BY LoopFields
  <1>2. new = Put(<<x>>, base)
    BY DEF Put
  <1>3. NoLoopOf(base, l)
    BY DEF NoLoopOf, LoopsExcept
  <1> HIDE DEF x, new
  <1>4. /\ AgendaIs(new, n, m) /\ LoopsExcept(new, base, l, {x})
        /\ new # <<>> /\ Head(new) = x
    BY <1>1, <1>2, <1>3, PutLoop
  <1>5. LoopsExcept(new, s, l, {x})
    BY <1>4 DEF LoopsExcept
  <1> QED
    BY <1>4, <1>5 DEF new, x

LEMMA LoopOfFacts ==
  ASSUME NEW l, NEW memory
  PROVE  /\ LoopOf(l, memory, TRUE) = <<Loop(l, memory[1], "first")>>
         /\ LoopOf(l, memory, FALSE) = <<>>
  BY DEF LoopOf

\* The loop ends.
LEMMA LoopEndsStep ==
  ASSUME DInv, LoopEnds
  PROVE  DInv' /\ PromiseStep
  <1> DEFINE l == Todo.list
             at == Todo
             N == Len(state)
             M == Len(masters)
             cb == lists[l]
             ended == EndFire(Looping)
             again == FiresAgain(Looping)
             queue == SubSeq(Looping.stack, 1, 1)
             first == Loop(l, queue[1], "first")
  <1>1. /\ IsNext("loop") /\ lists' = [lists EXCEPT ![l] = ended]
        /\ state' = state /\ masters' = masters /\ calls' = calls /\ attached' = attached
        /\ waiting' = waiting /\ latest' = latest /\ broken' = broken
    BY DEF LoopEnds, userCalls
  <1>2. /\ agenda # <<>> /\ Todo.op = "loop" /\ l \in ListsOf(N) /\ Todo.on # "stop"
        /\ Looping = Reached(cb, at) /\ AgendaIs(agenda, N, M)
        /\ ListOK(l, cb, {at}, N, M)
        /\ l \in WaysOf(N) => WayOK(l, cb, waiting[l], {at}, broken)
    BY <1>1, LoopFacts
  <1>3. ~GoesOn(Looping)
    BY <1>2 DEF LoopEnds
  <1>4. AgendaIs(Rest, N, M) /\ LoopsExcept(Rest, agenda, l, {})
    BY <1>2, TailLosesLoop DEF Todo, Rest
  <1>5. due' = due
    <2>1. l # Plain
      BY <1>2, WayFacts
    <2> QED
      BY <1>2, <2>1 DEF LoopEnds, DueOf
  <1>6. \/ again /\ agenda' = <<first>> \o Rest
        \/ ~again /\ agenda' = Rest
    <2>1. CASE again
      BY <2>1 DEF LoopEnds, LoopOf
    <2>2. CASE ~again
      <3>1. agenda' = <<>> \o Rest
        BY <2>2 DEF LoopEnds, LoopOf
      <3> QED
        BY <1>4, <2>2, <3>1, EmptyBefore
    <2> QED
      BY <2>1, <2>2
  <1>7. ListOK(l, ended, IF again THEN {first} ELSE {}, N, M)
    <2> HIDE DEF first, at, cb, l, N, M
    <2>1. at \in {at}
      OBVIOUS
    <2> QED
      BY <1>2, <2>1, EndKeepsList
  <1>8. ASSUME l \in WaysOf(N)
        PROVE  /\ ~again /\ WayOK(l, ended, waiting[l], {}, broken)
               /\ cb.fired /\ ended.fired /\ ended.memory = cb.memory /\ ~cb.disabled
    <2> DEFINE w == waiting[l]
               hurt == broken
    <2>1. w \in Seq(Nat) /\ WayOK(l, cb, w, {at}, hurt) /\ at \in {at}
      BY <1>2, <1>8, Basics
    <2> HIDE DEF at, hurt, cb, w, l, N, M
    <2>2. /\ ~again /\ WayOK(l, ended, w, {}, hurt)
          /\ cb.fired /\ ended.fired /\ ended.memory = cb.memory /\ ~cb.disabled
      BY <1>2, <1>3, <2>1, EndKeepsWay
    <2> QED
      BY <2>2 DEF w, hurt
  <1> HIDE DEF ended, again, first
  <1>9. \E loops : /\ AgendaIs(agenda', N, M) /\ LoopsExcept(agenda', agenda, l, loops)
                   /\ ListOK(l, ended, loops, N, M)
                   /\ l \in WaysOf(N) => WayOK(l, ended, waiting[l], loops, broken)
    <2>1. CASE again
      <3>1. AgendaIs(agenda', N, M) /\ LoopsExcept(agenda', agenda, l, {first})
        <4> DEFINE x == Loop(l, queue[1], "first")
                   new == <<x>> \o Rest
        <4>1. AgendaIs(Rest, N, M) /\ LoopsExcept(Rest, agenda, l, {}) /\ l \in ListsOf(N)
          BY <1>2, <1>4
        <4> HIDE DEF queue, l, N, M
        <4>2. AgendaIs(new, N, M) /\ LoopsExcept(new, agenda, l, {x})
          BY <4>1, LoopStarts
        <4> QED
          BY <1>6, <2>1, <4>2 DEF first
      <3>2. ListOK(l, ended, {first}, N, M)
        BY <1>7, <2>1
      <3> QED
        BY <1>8, <2>1, <3>1, <3>2
    <2>2. CASE ~again
      <3>1. ListOK(l, ended, {}, N, M)
        BY <1>7, <2>2
      <3> QED
        BY <1>4, <1>6, <1>8, <2>2, <3>1
    <2> QED
      BY <2>1, <2>2
  <1>10. PICK loops : /\ AgendaIs(agenda', N, M) /\ LoopsExcept(agenda', agenda, l, loops)
                      /\ ListOK(l, ended, loops, N, M)
                      /\ l \in WaysOf(N) => WayOK(l, ended, waiting[l], loops, broken)
    BY <1>9
  <1>11. /\ ListsOK'
         /\ lists'[l] = ended /\ \A k \in ListsOf(N) : k # l => lists'[k] = lists[k]
         /\ lists' = [k \in ListsOf(N) |-> lists'[k]]
    <2>1. l[2] # "progress" => l \in WaysOf(N)
      BY <1>2, WayFacts
    <2> QED
      BY <1>1, <1>2, <1>10, <2>1, ListsButOne
  <1>12. Shape' /\ MastersOK' /\ AgendaOK' /\ HistoryOK'
    <2>1. Shape'
      BY <1>1, <1>11 DEF DInv, Shape
    <2>2. MastersOK'
      BY <1>1 DEF DInv, MastersOK
    <2>3. AgendaOK'
      BY <1>1, <1>10 DEF AgendaOK
    <2>4. HistoryOK'
      BY <1>1, <1>5, HistoryStays DEF DInv, HistoryOK
    <2> QED
      BY <2>1, <2>2, <2>3, <2>4
  <1>13. SameWays
    <2> SUFFICES ASSUME NEW k \in WaysOf(N)
                 PROVE  /\ (lists'[k].fired <=> lists[k].fired)
                        /\ lists[k].fired => lists'[k].memory = lists[k].memory
                        /\ lists[k].disabled => lists'[k].disabled
      BY <1>1 DEF SameWays
    <2>1. k \in ListsOf(N)
      BY WayFacts
    <2>2. CASE k = l
      BY <1>8, <1>11, <2>2
    <2>3. CASE k # l
      BY <1>11, <2>1, <2>3
    <2> QED
      BY <2>2, <2>3
  <1>14. \A k : ~Settling(k)
    BY <1>3, SettlingComes
  <1>15. OneWays'
    BY <1>13, <1>14, OneWaysKept
  <1> QED
    BY <1>1, <1>11, <1>12, <1>13, <1>15 DEF DInv, PromiseStep, Still

\* add(fn)
LEMMA DoAddStep ==
  ASSUME DInv, DoAdd
  PROVE  DInv' /\ PromiseStep
  <1> DEFINE l == Todo.list
             N == Len(state)
             M == Len(masters)
             cb == lists[l]
             asked == Todo.fns[1]
             numbered == asked.is = "user" /\ l # Plain
             fn == IF numbered THEN User(attached + 1) ELSE asked
             new == Add(cb, fn)
             starts == FiresOnAdd(cb)
             first == Loop(l, cb.memory[1], "first")
  <1>1. /\ IsNext("add") /\ lists' = [lists EXCEPT ![l] = new]
        /\ state' = state /\ masters' = masters /\ calls' = calls /\ latest' = latest
        /\ broken' = broken
    BY DEF DoAdd
  <1>2. agenda # <<>> /\ Todo.op = "add" /\ Todo.op # "loop"
    BY <1>1 DEF IsNext
  <1>3. /\ AgendaIs(Rest, N, M) /\ SameLoops(Rest, agenda) /\ ~IsNext("loop")
        /\ KnownItem(Todo, N, M)
    BY <1>2, HeadFacts
  <1>4. l \in ListsOf(N) /\ KnownFn(asked, N, M) /\ asked.is # "settle" /\ l # Plain
    BY <1>2, <1>3, WayFacts DEF KnownItem
  <1>5. attached \in Nat /\ attached + 1 \in Nat
    BY DEF DInv, HistoryOK
  <1>6. /\ KnownFn(fn, N, M) /\ fn.is # "settle" /\ (fn.is = "user" <=> numbered)
        /\ numbered => fn.of = attached + 1
    <2>1. /\ User(attached + 1).is = "user" /\ User(attached + 1).of = attached + 1
          /\ KnownFn(User(attached + 1), N, M)
      BY <1>5 DEF User, Fn, KnownFn
    <2> QED
      BY <1>4, <2>1
  <1>7. due' = due
    BY <1>4 DEF DoAdd, DueOf
  <1>8. /\ attached' \in Nat
        /\ numbered /\ l \in DOMAIN waiting =>
             waiting' = [waiting EXCEPT ![l] = Append(@, attached + 1)]
        /\ ~(numbered /\ l \in DOMAIN waiting) => waiting' = waiting
    BY <1>5 DEF DoAdd
  <1>9. \/ starts /\ agenda' = <<first>> \o Rest
        \/ ~starts /\ agenda' = Rest
    <2>1. CASE starts
      BY <2>1 DEF DoAdd, LoopOf
    <2>2. CASE ~starts
      <3>1. agenda' = <<>> \o Rest
        BY <2>2 DEF DoAdd, LoopOf
      <3> QED
        BY <1>3, <2>2, <3>1, EmptyBefore
    <2> QED
      BY <2>1, <2>2
  <1>10. /\ l \in DOMAIN waiting <=> l \in WaysOf(N)
         /\ l \in WaysOf(N) => waiting[l] \in Seq(Nat)
    BY <1>4, Basics
  <1> HIDE DEF fn, numbered, new, starts, first
  \* What becomes of the list.
  <1> DEFINE before == LoopItems(agenda, l)
             loops == IF starts THEN {first} ELSE before
  <1>11. ListOK(l, cb, before, N, M)
    BY <1>4 DEF DInv, ListsOK
  <1>12. ListOK(l, new, loops, N, M)
    <2> HIDE DEF l, N, M, cb, before
    <2> QED
      BY <1>6, <1>11, AddKeepsList DEF new, starts, first
  <1>13. ASSUME l \in WaysOf(N)
         PROVE  /\ WayOK(l, new, waiting'[l], loops, broken)
                /\ (new.fired <=> cb.fired) /\ (new.disabled <=> cb.disabled)
                /\ cb.fired => new.memory = cb.memory
    <2> DEFINE w == waiting[l]
               hurt == broken
    <2>1. l[2] # "progress" /\ w \in Seq(Nat) /\ WayOK(l, cb, w, before, hurt)
      BY <1>10, <1>13, WayFacts DEF DInv, ListsOK
    <2>2. waiting'[l] = IF fn.is = "user" THEN Append(w, fn.of) ELSE w
      <3>1. l \in DOMAIN waiting
        BY <1>10, <1>13
      <3> QED
        BY <1>6, <1>8, <3>1
    <2> HIDE DEF w, hurt, l, N, M, cb, before
    <2>3. /\ WayOK(l, new, IF fn.is = "user" THEN Append(w, fn.of) ELSE w,
                   IF starts THEN {Loop(l, cb.memory[1], "first")} ELSE before, hurt)
          /\ (new.fired <=> cb.fired) /\ (new.disabled <=> cb.disabled)
          /\ cb.fired => new.memory = cb.memory
      BY <1>6, <1>11, <2>1, AddKeepsWay DEF new, starts
    <2> QED
      BY <2>2, <2>3 DEF hurt, first
  <1>14. AgendaIs(agenda', N, M) /\ LoopsExcept(agenda', agenda, l, loops)
    <2>1. LoopsExcept(Rest, agenda, l, before)
      BY <1>3 DEF SameLoops, LoopsExcept
    <2>2. CASE starts
      <3>1. before = {}
        <4>1. ~cb.firing
          BY <2>2 DEF starts, FiresOnAdd
        <4> QED
          BY <1>11, <4>1 DEF ListOK
      <3> DEFINE memory == cb.memory
                 x == Loop(l, memory[1], "first")
                 put == <<x>> \o Rest
      <3>2. AgendaIs(Rest, N, M) /\ LoopsExcept(Rest, agenda, l, {}) /\ l \in ListsOf(N)
        BY <1>3, <1>4, <2>1, <3>1
      <3> HIDE DEF l, N, M, memory
      <3>3. AgendaIs(put, N, M) /\ LoopsExcept(put, agenda, l, {x})
        BY <3>2, LoopStarts
      <3> QED
        BY <1>9, <2>2, <3>3 DEF first, memory
    <2>3. CASE ~starts
      BY <1>3, <1>9, <2>1, <2>3
    <2> QED
      BY <2>2, <2>3
  <1> HIDE DEF loops
  <1>15. /\ ListsOK'
         /\ lists'[l] = new /\ \A k \in ListsOf(N) : k # l => lists'[k] = lists[k]
         /\ lists' = [k \in ListsOf(N) |-> lists'[k]]
    <2>1. l[2] # "progress" => l \in WaysOf(N)
      BY <1>4, WayFacts
    <2>2. \A k \in WaysOf(N) : k # l => waiting'[k] = waiting[k]
      <3>1. \A k \in WaysOf(N) : k \in DOMAIN waiting
        BY Basics
      <3> HIDE DEF l, N
      <3> QED
        BY <1>8, <3>1
    <2> QED
      BY <1>1, <1>4, <1>12, <1>13, <1>14, <2>1, <2>2, ListsButOne
  <1>16. Shape' /\ MastersOK' /\ AgendaOK'
    <2>1. Shape'
      BY <1>1, <1>15 DEF DInv, Shape
    <2>2. MastersOK'
      BY <1>1 DEF DInv, MastersOK
    <2>3. AgendaOK'
      BY <1>1, <1>14 DEF AgendaOK
    <2> QED
      BY <2>1, <2>2, <2>3
  <1>17. HistoryOK'
    <2>1. /\ waiting' \in [(1..MaxDeferreds) \X Ways -> Seq(Nat)]
          /\ \A k \in DOMAIN waiting' : k \notin ListsOf(N) => waiting'[k] = <<>>
      <3>1. /\ waiting \in [(1..MaxDeferreds) \X Ways -> Seq(Nat)]
            /\ \A k \in DOMAIN waiting : k \notin ListsOf(N) => waiting[k] = <<>>
        BY DEF DInv, HistoryOK
      <3>2. CASE numbered /\ l \in DOMAIN waiting
        <4>1. Append(waiting[l], attached + 1) \in Seq(Nat)
          BY <1>5, <1>10, <3>2, AppendProperties
        <4> HIDE DEF l, N
        <4> QED
          BY <1>4, <1>8, <3>1, <3>2, <4>1
      <3>3. CASE ~(numbered /\ l \in DOMAIN waiting)
        BY <1>8, <3>1, <3>3
      <3> QED
        BY <3>2, <3>3
    <2> QED
      BY <1>1, <1>7, <1>8, <2>1 DEF DInv, HistoryOK
  <1>18. SameWays
    <2> SUFFICES ASSUME NEW k \in WaysOf(N)
                 PROVE  /\ (lists'[k].fired <=> lists[k].fired)
                        /\ lists[k].fired => lists'[k].memory = lists[k].memory
                        /\ lists[k].disabled => lists'[k].disabled
      BY <1>1 DEF SameWays
    <2>1. k \in ListsOf(N)
      BY WayFacts
    <2>2. CASE k = l
      BY <1>13, <1>15, <2>2
    <2>3. CASE k # l
      BY <1>15, <2>1, <2>3
    <2> QED
      BY <2>2, <2>3
  <1>19. OneWays'
    BY <1>3, <1>18, OneWaysKept DEF Settling
  <1>20. PromiseStep
    <2>1. CASE numbered /\ l \in DOMAIN waiting
      <3>1. Attaches(l)
        BY <1>1, <1>5, <1>8, <1>10, <1>18, <2>1 DEF Attaches
      <3> QED
        BY <3>1 DEF PromiseStep
    <2>2. CASE ~(numbered /\ l \in DOMAIN waiting)
      BY <1>1, <1>8, <1>18, <2>2 DEF PromiseStep, Still
    <2> QED
      BY <2>1, <2>2
  <1> QED
    BY <1>15, <1>16, <1>17, <1>19, <1>20 DEF DInv

\* fire(data)
LEMMA DoFireStep ==
  ASSUME DInv, DoFire
  PROVE  DInv' /\ PromiseStep
  <1> DEFINE l == Todo.list
             N == Len(state)
             M == Len(masters)
             cb == lists[l]
             data == Todo.data
             new == FireWith(cb, data)
             starts == Starts(cb)
             first == Loop(l, data, "first")
  <1>1. /\ IsNext("fire") /\ lists' = [lists EXCEPT ![l] = new]
        /\ state' = state /\ masters' = masters /\ calls' = calls /\ attached' = attached
        /\ waiting' = waiting /\ latest' = latest /\ broken' = broken
    BY DEF DoFire, userCalls
  <1>2. agenda # <<>> /\ Todo.op = "fire" /\ Todo.op # "loop"
    BY <1>1 DEF IsNext
  <1>3. /\ AgendaIs(Rest, N, M) /\ SameLoops(Rest, agenda) /\ ~IsNext("loop")
        /\ KnownItem(Todo, N, M)
    BY <1>2, HeadFacts
  <1>4. l \in ListsOf(N) /\ l # Plain
    BY <1>2, <1>3, WayFacts DEF KnownItem
  <1>5. due' = due
    BY <1>4 DEF DoFire, DueOf
  <1>6. \/ starts /\ agenda' = <<first>> \o Rest
        \/ ~starts /\ agenda' = Rest
    <2>1. CASE starts
      <3>1. <<data>>[1] = data
        OBVIOUS
      <3> QED
        BY <2>1, <3>1 DEF DoFire, LoopOf
    <2>2. CASE ~starts
      <3>1. agenda' = <<>> \o Rest
        BY <2>2 DEF DoFire, LoopOf
      <3> QED
        BY <1>3, <2>2, <3>1, EmptyBefore
    <2> QED
      BY <2>1, <2>2
  <1> HIDE DEF new, starts, first
  <1> DEFINE before == LoopItems(agenda, l)
             loops == IF starts THEN {first} ELSE before
  <1>7. ListOK(l, cb, before, N, M)
    BY <1>4 DEF DInv, ListsOK
  <1>8. ListOK(l, new, loops, N, M)
    <2> HIDE DEF l, N, M, cb, before, data
    <2> QED
      BY <1>7, FireKeepsList DEF new, starts, first
  <1>9. ASSUME l \in WaysOf(N)
        PROVE  /\ WayOK(l, new, waiting'[l], loops, broken)
               /\ (new.disabled <=> cb.disabled)
               /\ ~starts => (new.fired <=> cb.fired) /\ new.memory = cb.memory
               /\ starts => /\ ~cb.fired /\ ~cb.disabled
                            /\ new.fired /\ new.firingIndex = 0
                            /\ new.list # <<>> /\ new.list[1].is = "settle"
    <2> DEFINE w == waiting[l]
               hurt == broken
    <2>1. l[2] # "progress" /\ w \in Seq(Nat) /\ WayOK(l, cb, w, before, hurt)
      BY <1>9, Basics, WayFacts DEF DInv, ListsOK
    <2> HIDE DEF w, hurt, l, N, M, cb, before, data
    <2>2. /\ starts => WayOK(l, new, w, {Loop(l, data, "first")}, hurt)
          /\ ~starts => WayOK(l, new, w, before, hurt)
          /\ (new.disabled <=> cb.disabled) /\ new.list = cb.list
          /\ ~starts => (new.fired <=> cb.fired)
          /\ starts => /\ ~cb.fired /\ ~cb.disabled
                       /\ new.fired /\ new.firingIndex = 0
                       /\ new.list # <<>> /\ new.list[1].is = "settle"
      <3> DEFINE fired == FireWith(cb, data)
      <3>1. Starts(cb) => WayOK(l, fired, w, {Loop(l, data, "first")}, hurt)
        BY <1>7, <2>1, FireKeepsWay
      <3>2. ~Starts(cb) => WayOK(l, fired, w, before, hurt)
        BY <1>7, <2>1, FireKeepsWay
      <3>3. fired.disabled <=> cb.disabled
        BY <1>7, <2>1, FireKeepsWay
      <3>4. fired.list = cb.list
        BY <1>7, <2>1, FireKeepsWay
      <3>5. ~Starts(cb) => (fired.fired <=> cb.fired)
        BY <1>7, <2>1, FireKeepsWay
      <3>6. Starts(cb) => ~cb.fired /\ ~cb.disabled
        BY <1>7, <2>1, FireKeepsWay
      <3>7. Starts(cb) => fired.fired /\ fired.firingIndex = 0
        BY <1>7, <2>1, FireKeepsWay
      <3>8. Starts(cb) => fired.list # <<>> /\ fired.list[1].is = "settle"
        BY <1>7, <2>1, FireKeepsWay
      <3> HIDE DEF fired
      <3> QED
        BY <3>1, <3>2, <3>3, <3>4, <3>5, <3>6, <3>7, <3>8 DEF new, starts, fired
    <2>4. ~starts => new.memory = cb.memory
      <3>1. IsList(cb)
        BY <1>7 DEF ListOK
      <3> QED
        BY <3>1, FireWithFields DEF new, starts
    <2>3. waiting'[l] = w
      BY <1>1 DEF w
    <2> QED
      BY <2>2, <2>3, <2>4 DEF hurt, first
  <1>10. /\ AgendaIs(agenda', N, M) /\ LoopsExcept(agenda', agenda, l, loops)
         /\ starts => agenda' # <<>> /\ Head(agenda') = first
    <2>1. LoopsExcept(Rest, agenda, l, before)
      BY <1>3 DEF SameLoops, LoopsExcept
    <2>2. CASE starts
      <3>1. before = {}
        <4>1. ~cb.firing
          BY <2>2 DEF starts, Starts
        <4> QED
          BY <1>7, <4>1 DEF ListOK
      <3> DEFINE memory == <<data>>
                 x == Loop(l, memory[1], "first")
                 put == <<x>> \o Rest
      <3>2. AgendaIs(Rest, N, M) /\ LoopsExcept(Rest, agenda, l, {}) /\ l \in ListsOf(N)
        BY <1>3, <1>4, <2>1, <3>1
      <3>3. memory[1] = data
        OBVIOUS
      <3> HIDE DEF l, N, M, memory, data
      <3>4. AgendaIs(put, N, M) /\ LoopsExcept(put, agenda, l, {x}) /\ put # <<>> /\ Head(put) = x
        BY <3>2, LoopStarts
      <3> QED
        BY <1>6, <2>2, <3>3, <3>4 DEF first
    <2>3. CASE ~starts
      BY <1>3, <1>6, <2>1, <2>3
    <2> QED
      BY <2>2, <2>3
  <1> HIDE DEF loops
  <1>11. /\ ListsOK'
         /\ lists'[l] = new /\ \A k \in ListsOf(N) : k # l => lists'[k] = lists[k]
         /\ lists' = [k \in ListsOf(N) |-> lists'[k]]
    <2>1. l[2] # "progress" => l \in WaysOf(N)
      BY <1>4, WayFacts
    <2> QED
      BY <1>1, <1>4, <1>8, <1>9, <1>10, <2>1, ListsButOne
  <1>12. Shape' /\ MastersOK' /\ AgendaOK' /\ HistoryOK'
    <2>1. Shape'
      BY <1>1, <1>11 DEF DInv, Shape
    <2>2. MastersOK'
      BY <1>1 DEF DInv, MastersOK
    <2>3. AgendaOK'
      BY <1>1, <1>10 DEF AgendaOK
    <2>4. HistoryOK'
      BY <1>1, <1>5, HistoryStays DEF DInv, HistoryOK
    <2> QED
      BY <2>1, <2>2, <2>3, <2>4
  <1>13. CASE ~(starts /\ l \in WaysOf(N))
    <2>1. SameWays
      <3> SUFFICES ASSUME NEW k \in WaysOf(N)
                   PROVE  /\ (lists'[k].fired <=> lists[k].fired)
                          /\ lists[k].fired => lists'[k].memory = lists[k].memory
                          /\ lists[k].disabled => lists'[k].disabled
        BY <1>1 DEF SameWays
      <3>1. k \in ListsOf(N)
        BY WayFacts
      <3>2. CASE k = l
        BY <1>9, <1>11, <1>13, <3>2
      <3>3. CASE k # l
        BY <1>11, <3>1, <3>3
      <3> QED
        BY <3>2, <3>3
    <2>2. OneWays'
      BY <1>3, <2>1, OneWaysKept DEF Settling
    <2> QED
      BY <1>1, <1>11, <1>12, <2>1, <2>2 DEF DInv, PromiseStep, Still
  <1>14. CASE starts /\ l \in WaysOf(N)
    <2> DEFINE o == <<l[1], OtherWay(l[2])>>
    <2>1. /\ o \in WaysOf(N) /\ o # l /\ l = <<l[1], l[2]>> /\ l[1] \in 1..N /\ l[2] \in Ways
          /\ o \in ListsOf(N)
      BY <1>14, WayFacts DEF WaysOf
    <2>2. ~lists[l].fired /\ ~lists[l].disabled /\ lists'[l].fired
      BY <1>9, <1>11, <1>14
    <2>3. \A k : ~Settling(k)
      BY <1>3 DEF Settling
    <2>4. ~lists[o].fired
      <3>1. OneWay(l[1], OtherWay(l[2])) /\ OtherWay(OtherWay(l[2])) = l[2]
        BY <2>1, WayFacts DEF DInv, OneWays, WaysOf
      <3> QED
        BY <2>1, <2>2, <2>3, <3>1 DEF OneWay
    <2>5. \A k \in WaysOf(N) : k # l => lists'[k] = lists[k]
      BY <1>11, WayFacts
    <2>6. Settles(l)
      BY <1>1, <1>14, <2>2, <2>4, <2>5 DEF Settles
    <2>7. ASSUME NEW k, k = l PROVE Settling(k)'
      <3>1. agenda' # <<>> /\ Head(agenda') = first
        BY <1>10, <1>14
      <3>2. first.op = "loop" /\ first.list = l /\ first.on = "first"
        BY LoopFields DEF first
      <3>3. /\ lists'[l].firingIndex = 0
            /\ lists'[l].list # <<>> /\ lists'[l].list[1].is = "settle"
        BY <1>9, <1>11, <1>14
      <3> QED
        BY <2>7, <3>1, <3>2, <3>3 DEF Settling, IsNext, Todo
    <2>8. OneWays'
      <3> SUFFICES ASSUME NEW e \in 1..N, NEW w \in Ways, lists'[<<e, w>>].fired
                   PROVE  /\ ~lists'[<<e, OtherWay(w)>>].fired
                          /\ lists'[<<e, OtherWay(w)>>].disabled \/ Settling(<<e, w>>)'
        BY <1>1 DEF OneWays, OneWay
      <3> DEFINE k == <<e, w>>
                 j == <<e, OtherWay(w)>>
      <3>1. k \in WaysOf(N) /\ j \in WaysOf(N)
        BY DEF WaysOf, OtherWay, Ways
      <3>2. CASE k = l
        <4>1. j = o
          BY <2>1, <3>2
        <4> QED
          BY <2>1, <2>4, <2>5, <2>7, <3>2, <4>1
      <3>3. CASE k # l
        <4>1. lists[k].fired
          BY <2>5, <3>1, <3>3
        <4>2. ~lists[j].fired /\ lists[j].disabled
          BY <2>3, <4>1 DEF DInv, OneWays, OneWay
        <4>3. j # l
          BY <2>2, <4>2
        <4> QED
          BY <2>5, <3>1, <4>2, <4>3
      <3> QED
        BY <3>2, <3>3
    <2> QED
      BY <1>11, <1>12, <2>6, <2>8 DEF DInv, PromiseStep
  <1> QED
    BY <1>13, <1>14

\* then() and when() make a deferred.
LEMMA NewDeferredKeeps ==
  ASSUME DInv, Len(state) + 1 <= MaxDeferreds, ~IsNext("loop"),
         lists' = NewDeferred(Len(state) + 1), state' = Append(state, "pending"),
         NEW more \in Nat, Len(masters') = more, Len(masters) <= more,
         waiting' = waiting, broken' = broken, SameLoops(agenda', agenda)
  PROVE  Shape' /\ ListsOK' /\ OneWays' /\ SameWays /\ Len(state') = Len(state) + 1
  <1> DEFINE N == Len(state)
             M == Len(masters)
             P == Len(state) + 1
  <1>1. N \in Nat /\ M \in Nat /\ DOMAIN lists = ListsOf(N)
    BY Basics
  <1>2. ListsOf(P) = ListsOf(N) \cup ({P} \X Kinds) /\ WaysOf(N) \subseteq WaysOf(P)
        /\ \A k \in ListsOf(P) : k \notin ListsOf(N) => k \in {P} \X Kinds
    <2>1. 1..P = 1..N \cup {P}
      BY <1>1
    <2> HIDE DEF N, P
    <2> QED
      BY <2>1 DEF ListsOf, WaysOf
  <1>3. /\ state \in Seq(Outcomes) /\ N \in 1..MaxDeferreds /\ MaxDeferreds \in Nat
        /\ Plain \notin DOMAIN lists
    BY DeferredAssumption DEF DInv, Shape
  <1>4. state' \in Seq(Outcomes) /\ Len(state') = P /\ P \in 1..MaxDeferreds
    <2>1. "pending" \in Outcomes
      BY DEF Outcomes
    <2>2. P \in 1..MaxDeferreds
      BY <1>3
    <2> QED
      BY <1>3, <2>1, <2>2, AppendProperties
  <1>5. /\ lists' = [k \in ListsOf(P) |-> IF k \in ListsOf(N) THEN lists[k] ELSE NewList(k)]
    <2> HIDE DEF N, P
    <2> QED
      BY <1>1, <1>2 DEF NewDeferred, N, P
  <1>6. /\ DOMAIN lists' = ListsOf(P)
        /\ lists' = [k \in ListsOf(P) |-> lists'[k]]
        /\ \A k \in ListsOf(N) : lists'[k] = lists[k]
        /\ \A k \in ListsOf(P) : k \notin ListsOf(N) => lists'[k] = NewList(k)
    <2> HIDE DEF N, P
    <2> QED
      BY <1>2, <1>5
  <1>7. Shape'
    <2>1. Plain \notin ListsOf(P)
      BY WayFacts
    <2> QED
      BY <1>4, <1>6, <2>1 DEF Shape
  <1>8. \A k : LoopItems(agenda', k) = LoopItems(agenda, k)
    BY DEF SameLoops
  <1>9. \A k : k \notin ListsOf(N) => LoopItems(agenda, k) = {}
    <2>1. \A x \in Items(agenda) : x.op = "loop" => x.list \in ListsOf(N)
      BY DEF DInv, AgendaOK, AgendaIs, AllKnown, KnownItem
    <2> QED
      BY <2>1 DEF LoopItems
  <1>10. ASSUME NEW k \in ListsOf(P)
         PROVE  ListOK(k, lists'[k], LoopItems(agenda', k), P, more)
    <2>1. CASE k \in ListsOf(N)
      <3> DEFINE cb == lists[k]
                 loops == LoopItems(agenda, k)
      <3>1. ListOK(k, cb, loops, N, M)
        BY <2>1 DEF DInv, ListsOK
      <3>2. \A f : KnownFn(f, N, M) => KnownFn(f, P, more)
        <4>1. P \in Nat /\ N <= P
          BY <1>1
        <4> HIDE DEF N, M, P
        <4> QED
          BY <1>1, <4>1, KnownMore DEF M
      <3> HIDE DEF cb, loops, N, M, P
      <3>3. ListOK(k, cb, loops, P, more)
        BY <3>1, <3>2 DEF ListOK
      <3> QED
        BY <1>6, <1>8, <2>1, <3>3 DEF cb, loops
    <2>2. CASE k \notin ListsOf(N)
      <3>1. ListOK(k, NewList(k), {}, P, more)
        BY NewListOK
      <3> QED
        BY <1>6, <1>8, <1>9, <2>2, <3>1
    <2> QED
      BY <2>1, <2>2
  <1>11. ASSUME NEW k \in WaysOf(P)
         PROVE  /\ WayOK(k, lists'[k], waiting[k], LoopItems(agenda', k), broken)
                /\ k \in WaysOf(N) => lists'[k] = lists[k]
                /\ k \notin WaysOf(N) => ~lists'[k].fired
    <2>1. k \in ListsOf(P) /\ k[2] \in Ways /\ k[2] # "progress"
      BY WayFacts
    <2>2. CASE k \in WaysOf(N)
      <3>1. WayOK(k, lists[k], waiting[k], LoopItems(agenda, k), broken)
        BY <2>2 DEF DInv, ListsOK
      <3>2. k \in ListsOf(N)
        BY <2>2, WayFacts
      <3> QED
        BY <1>6, <1>8, <2>2, <3>1, <3>2
    <2>3. CASE k \notin WaysOf(N)
      <3>1. k \notin ListsOf(N)
        BY <2>1, <2>3, WayFacts
      <3>2. lists'[k] = NewList(k) /\ LoopItems(agenda', k) = {}
        BY <1>6, <1>8, <1>9, <2>1, <3>1
      <3>3. waiting[k] = <<>>
        <4>1. k \in DOMAIN waiting
          <5>1. k \in (1..MaxDeferreds) \X Ways
            <6>1. 1..P \subseteq 1..MaxDeferreds
              BY <1>1, <1>3
            <6> QED
              BY <6>1 DEF WaysOf
          <5> QED
            BY <5>1 DEF DInv, HistoryOK
        <4> QED
          BY <3>1, <4>1 DEF DInv, HistoryOK
      <3>4. WayOK(k, NewList(k), <<>>, {}, broken) /\ ~NewList(k).fired
        BY <2>1, NewListOK
      <3> QED
        BY <2>3, <3>2, <3>3, <3>4
    <2> QED
      BY <2>2, <2>3
  <1>12. ListsOK'
    BY <1>4, <1>10, <1>11 DEF ListsOK
  <1>13. SameWays
    BY <1>4, <1>11 DEF SameWays
  <1>14. OneWays'
    BY <1>13, OneWaysKept DEF Settling
  <1> QED
    BY <1>4, <1>7, <1>12, <1>13, <1>14

\* The same, with what then() and when() put on the agenda.
LEMMA CallsNew ==
  ASSUME DInv, Runs, Len(state) + 1 <= MaxDeferreds,
         lists' = NewDeferred(Len(state) + 1), state' = Append(state, "pending"),
         NEW more \in Nat, Len(masters') = more, Len(masters) <= more, MastersOK',
         NEW things, Quiet(things, Len(state) + 1, more), Calls(things),
         attached' = attached, waiting' = waiting, latest' = latest, broken' = broken, due' = due
  PROVE  DInv' /\ PromiseStep
  <1> DEFINE N == Len(state)
             M == Len(masters)
             P == Len(state) + 1
  <1>1. ~IsNext("loop")
    BY DEF Runs, IsNext
  <1>2. calls' \in 0..MaxCalls /\ agenda' = Put(things, agenda)
    <2>1. calls \in 0..MaxCalls /\ calls < MaxCalls /\ MaxCalls \in Nat
      BY DeferredAssumption DEF DInv, HistoryOK, Runs
    <2> QED
      BY <2>1 DEF Calls, Put
  <1>3. N \in Nat /\ M \in Nat /\ P \in Nat /\ N <= P
    BY Basics
  <1>4. AgendaIs(agenda, P, more)
    <2>1. \A x : KnownItem(x, N, M) => KnownItem(x, P, more)
      <3> HIDE DEF N, M, P
      <3> QED
        BY <1>3, KnownMore DEF M
    <2>2. AgendaIs(agenda, N, M)
      BY DEF DInv, AgendaOK
    <2> HIDE DEF N, M, P
    <2> QED
      BY <2>1, <2>2 DEF AgendaIs, AllKnown
  <1>5. AgendaIs(agenda', P, more) /\ SameLoops(agenda', agenda)
    <2>1. IsSeq(things) /\ NoLoops(things) /\ AllKnown(things, P, more)
      BY DEF Quiet
    <2> HIDE DEF P
    <2> QED
      BY <1>2, <1>4, <2>1, PutQuiet
  <1>6. Shape' /\ ListsOK' /\ OneWays' /\ SameWays /\ Len(state') = P
    BY <1>1, <1>5, NewDeferredKeeps
  <1>7. AgendaOK'
    BY <1>5, <1>6 DEF AgendaOK
  <1>8. HistoryOK'
    <2>1. ListsOf(N) \subseteq ListsOf(P)
      <3>1. 1..N \subseteq 1..P
        BY <1>3
      <3> QED
        BY <3>1 DEF ListsOf
    <2> QED
      BY <1>2, <1>6, <2>1 DEF DInv, HistoryOK
  <1> QED
    BY <1>6, <1>7, <1>8 DEF DInv, PromiseStep, Still

LEMMA CallThenStep ==
  ASSUME DInv, NEW d \in Existing, NEW hasFn \in BOOLEAN, CallThen(d, hasFn)
  PROVE  DInv' /\ PromiseStep
  <1> DEFINE P == Len(state) + 1
             M == Len(masters)
             kinds == <<"done", "fail", "progress">>
             Adds(kind) == AddDo(<<d, kind>>, ForwardOf(kind, d, P, hasFn))
             things == [k \in 1..3 |-> Adds(kinds[k])]
             S == {Adds(kind) : kind \in Kinds}
  <1>1. /\ Runs /\ P <= MaxDeferreds /\ lists' = NewDeferred(P) /\ state' = Append(state, "pending")
        /\ Calls(things) /\ masters' = masters /\ attached' = attached /\ waiting' = waiting
        /\ latest' = latest /\ broken' = broken /\ due' = due
    BY DEF CallThen, userCalls
  <1>2. Len(state) \in Nat /\ M \in Nat /\ d \in 1..P /\ P \in 1..P /\ \A k \in 1..Len(state) : k \in 1..P
    BY Basics, ExistingFacts
  <1>3. ASSUME NEW kind \in Kinds
        PROVE  Plainly(Adds(kind), P, M)
    <2> DEFINE fn == ForwardOf(kind, d, P, hasFn)
    <2>1. <<d, kind>> \in ListsOf(P) /\ <<P, kind>> \in ListsOf(P)
      BY <1>2 DEF ListsOf
    <2>2. fn.is = "forward" /\ fn.list = <<P, kind>>
      BY DEF ForwardOf, Fn
    <2> HIDE DEF fn
    <2>3. KnownFn(fn, P, M) /\ fn.is # "settle"
      BY <2>1, <2>2 DEF KnownFn
    <2> HIDE DEF P, M
    <2>4. Plainly(AddDo(<<d, kind>>, fn), P, M)
      BY <2>1, <2>3, Things
    <2> QED
      BY <2>4 DEF fn
  <1>4. Quiet(things, P, M)
    <2>1. \A k \in 1..3 : kinds[k] \in Kinds
      <3>1. 1..3 = {1, 2, 3}
        OBVIOUS
      <3> QED
        BY <3>1 DEF Kinds, Ways
    <2> HIDE DEF kinds, Adds
    <2>2. things \in [1..3 -> S]
      BY <2>1
    <2>3. \A x \in S : Plainly(x, P, M)
      BY <1>3
    <2> HIDE DEF things, S
    <2>4. things \in Seq(S)
      BY <2>2, FunctionIsSeq
    <2>5. IsSeq(things) /\ Items(things) \subseteq S
      BY <2>4, SeqIsSeq
    <2> QED
      BY <2>3, <2>5 DEF Quiet, NoLoops, AllKnown, Plainly
  <1>5. MastersOK' /\ Len(masters') = M /\ M <= M
    <2>1. Len(state') = P
      BY <1>1, <1>2, AppendProperties DEF DInv, Shape, Outcomes
    <2>2. ASSUME NEW m \in 1..M
          PROVE  masters[m] \in [deferred : 1..P, of : {masters[m].of},
                                 remaining : {masters[m].remaining},
                                 values : {masters[m].values}, progress : {masters[m].progress}]
      BY <1>2, MasterFacts
    <2>3. IsSeq(masters)
      BY DEF DInv, MastersOK
    <2> QED
      BY <1>1, <1>2, <2>1, <2>2, <2>3 DEF MastersOK
  <1> HIDE DEF things
  <1> QED
    BY <1>1, <1>2, <1>4, <1>5, CallsNew

LEMMA CallWhenStep ==
  ASSUME DInv, NEW d1 \in Existing, NEW d2 \in DOMAIN state \cup {0}, CallWhen(d1, d2)
  PROVE  DInv' /\ PromiseStep
  <1> DEFINE P == Len(state) + 1
             M == Len(masters)
             m == Len(masters) + 1
             AddsUpdate(i, d, kind) == AddDo(<<d, kind>>, UpdateOf(kind, m, i))
             AddsFire(d) == AddDo(<<d, "fail">>, FireOf(<<P, "fail">>))
             Listens(i, d) == <<AddsUpdate(i, d, "done"), AddsFire(d), AddsUpdate(i, d, "progress")>>
             last == Do("when", <<m, "">>, <<>>, <<>>, "")
             second == IF d2 = 0 THEN <<>> ELSE Listens(2, d2)
             things == Listens(1, d1) \o second \o <<last>>
             master == [deferred |-> P, of |-> <<d1, d2>>, remaining |-> 2,
                        values |-> <<<<>>, IF d2 = 0 THEN Fresh ELSE <<>>>>,
                        progress |-> <<<<>>, <<>>>>]
  <1>1. /\ Runs /\ P <= MaxDeferreds /\ lists' = NewDeferred(P) /\ state' = Append(state, "pending")
        /\ Calls(things) /\ masters' = Append(masters, master)
        /\ attached' = attached /\ waiting' = waiting
        /\ latest' = latest /\ broken' = broken /\ due' = due
    BY DEF CallWhen, history, userCalls
  <1>2. /\ Len(state) \in Nat /\ M \in Nat /\ m \in Nat /\ m \in 1..m /\ d1 \in 1..P /\ P \in 1..P
        /\ M <= m /\ (d2 # 0 => d2 \in 1..P)
    BY Basics, ExistingFacts
  <1>3. ASSUME NEW i, NEW d \in 1..P
        PROVE  Quiet(Listens(i, d), P, m)
    <2>1. ASSUME NEW kind \in Kinds
          PROVE  Plainly(AddsUpdate(i, d, kind), P, m)
      <3> DEFINE fn == UpdateOf(kind, m, i)
      <3>1. <<d, kind>> \in ListsOf(P)
        BY <1>2 DEF ListsOf
      <3>2. fn.is = "update" /\ fn.of = m
        BY DEF UpdateOf, Fn
      <3> HIDE DEF fn
      <3>3. KnownFn(fn, P, m) /\ fn.is # "settle"
        BY <1>2, <3>2 DEF KnownFn
      <3> HIDE DEF P, m
      <3>4. Plainly(AddDo(<<d, kind>>, fn), P, m)
        BY <3>1, <3>3, Things
      <3> QED
        BY <3>4 DEF fn
    <2>2. Plainly(AddsFire(d), P, m)
      <3> DEFINE fn == FireOf(<<P, "fail">>)
      <3>1. <<d, "fail">> \in ListsOf(P) /\ <<P, "fail">> \in ListsOf(P)
        BY <1>2 DEF ListsOf, Kinds, Ways
      <3>2. fn.is = "fire" /\ fn.list = <<P, "fail">>
        BY DEF FireOf, Fn
      <3> HIDE DEF fn
      <3>3. KnownFn(fn, P, m) /\ fn.is # "settle"
        BY <3>1, <3>2 DEF KnownFn
      <3> HIDE DEF P, m
      <3>4. Plainly(AddDo(<<d, "fail">>, fn), P, m)
        BY <3>1, <3>3, Things
      <3> QED
        BY <3>4 DEF fn
    <2>3. Plainly(AddsUpdate(i, d, "done"), P, m) /\ Plainly(AddsUpdate(i, d, "progress"), P, m)
      BY <2>1 DEF Kinds, Ways
    <2> HIDE DEF AddsUpdate, AddsFire, P, m
    <2> QED
      BY <2>2, <2>3, QuietThings
  <1>4. Quiet(things, P, m)
    <2>1. Plainly(last, P, m)
      BY <1>2, Things
    <2> HIDE DEF last, P, m
    <2>2. Quiet(<<last>>, P, m) /\ Quiet(<<>>, P, m)
      BY <2>1, QuietThings
    <2>3. Quiet(Listens(1, d1), P, m) /\ (d2 # 0 => Quiet(Listens(2, d2), P, m))
      BY <1>2, <1>3 DEF P
    <2> HIDE DEF Listens
    <2>4. Quiet(second, P, m)
      BY <2>2, <2>3
    <2> DEFINE one == <<last>>
               two == Listens(1, d1)
    <2> HIDE DEF second, one, two
    <2>5. Quiet(two \o second, P, m)
      BY <2>3, <2>4, QuietConcat DEF two
    <2>6. Quiet(one, P, m)
      BY <2>2 DEF one
    <2>7. Quiet(two \o second \o one, P, m)
      BY <2>5, <2>6, QuietConcat
    <2> QED
      BY <2>7 DEF one, two
  <1> HIDE DEF things
  <1>5. MastersOK' /\ Len(masters') = m
    <2>1. Len(state') = P
      BY <1>1, <1>2, AppendProperties DEF DInv, Shape, Outcomes
    <2>2. ASSUME NEW k \in 1..M
          PROVE  masters[k] \in [deferred : 1..P, of : {masters[k].of},
                                 remaining : {masters[k].remaining},
                                 values : {masters[k].values}, progress : {masters[k].progress}]
      BY <1>2, MasterFacts
    <2>3. master \in [deferred : 1..P, of : {master.of}, remaining : {master.remaining},
                      values : {master.values}, progress : {master.progress}]
      BY <1>2
    <2> HIDE DEF master
    <2>4. IsSeq(masters)
      BY DEF DInv, MastersOK
    <2>5. /\ IsSeq(masters') /\ Len(masters') = m /\ masters'[m] = master
          /\ \A k \in 1..M : masters'[k] = masters[k]
          /\ \A k \in 1..m : k \in 1..M \/ k = m
      BY <1>1, <1>2, <2>4, LongerList
    <2> QED
      BY <1>1, <1>2, <2>1, <2>2, <2>3, <2>5 DEF MastersOK
  <1> HIDE DEF master
  <1> QED
    BY <1>1, <1>2, <1>4, <1>5, CallsNew

LEMMA ThrowStep ==
  ASSUME DInv, Throw
  PROVE  DInv' /\ PromiseStep
  <1> DEFINE N == Len(state)
             M == Len(masters)
             lost == {agenda[i].list : i \in {j \in DOMAIN agenda : agenda[j].op = "loop"}}
  <1>1. /\ IsNext("run") /\ broken' = broken \cup lost /\ agenda' = <<>>
        /\ due' = [due EXCEPT !.fns = <<>>]
        /\ lists' = lists /\ state' = state /\ masters' = masters /\ calls' = calls
        /\ attached' = attached /\ waiting' = waiting /\ latest' = latest
    BY DEF Throw, userCalls
  <1>2. DOMAIN agenda = 1..Len(agenda)
    BY IsSeqFacts DEF DInv, AgendaOK, AgendaIs
  <1>3. \A l : LoopItems(agenda, l) # {} => l \in lost
    BY <1>2 DEF LoopItems, Items
  <1>4. \A l : LoopItems(agenda', l) = {}
    BY <1>1, ShortIsSeq DEF LoopItems
  <1> HIDE DEF lost
  <1>5. AgendaOK'
    BY <1>1, ShortIsSeq DEF AgendaOK, AgendaIs, AllKnown, UniqueLoops
  <1>6. ListsOK'
    <2>1. ASSUME NEW l \in ListsOf(N)
          PROVE  ListOK(l, lists[l], {}, N, M)
      <3>1. ListOK(l, lists[l], LoopItems(agenda, l), N, M)
        BY DEF DInv, ListsOK
      <3> QED
        BY <3>1 DEF ListOK
    <2>2. ASSUME NEW l \in WaysOf(N)
          PROVE  WayOK(l, lists[l], waiting[l], {}, broken')
      <3>1. WayOK(l, lists[l], waiting[l], LoopItems(agenda, l), broken)
        BY DEF DInv, ListsOK
      <3>2. lists[l].firing => l \in broken'
        BY <1>1, <1>3, <3>1 DEF WayOK
      <3> QED
        BY <3>1, <3>2 DEF WayOK
    <2> QED
      BY <1>1, <1>4, <2>1, <2>2 DEF ListsOK
  <1>7. SameWays
    BY <1>1 DEF SameWays
  <1>8. OneWays'
    BY <1>1, <1>7, OneWaysKept DEF Settling, IsNext
  <1>9. Shape' /\ MastersOK' /\ HistoryOK'
    BY <1>1 DEF DInv, Shape, MastersOK, HistoryOK
  <1> QED
    BY <1>1, <1>5, <1>6, <1>7, <1>8, <1>9 DEF DInv, PromiseStep, Still

LEMMA NothingStep ==
  ASSUME DInv, UNCHANGED vars
  PROVE  DInv' /\ PromiseStep
  <1>1. /\ lists' = lists /\ state' = state /\ masters' = masters /\ agenda' = agenda
        /\ attached' = attached /\ waiting' = waiting /\ latest' = latest /\ broken' = broken
        /\ due' = due /\ calls' = calls
    BY DEF vars, program, history, userCalls
  <1>2. Shape' /\ MastersOK' /\ HistoryOK' /\ AgendaOK' /\ ListsOK'
    BY <1>1 DEF DInv, Shape, MastersOK, HistoryOK, AgendaOK, ListsOK
  <1>3. OneWays'
    BY <1>1 DEF DInv, OneWays, OneWay, Settling, IsNext, Todo
  <1>4. SameWays
    BY <1>1 DEF SameWays
  <1> QED
    BY <1>1, <1>2, <1>3, <1>4 DEF DInv, PromiseStep, Still

\* Every step keeps the invariant and is one the promise allows.
LEMMA DeferredStep ==
  ASSUME DInv, [Next]_vars
  PROVE  DInv' /\ PromiseStep
  <1>1. CASE UNCHANGED vars
    BY <1>1, NothingStep
  <1>2. CASE DoAdd
    BY <1>2, DoAddStep
  <1>3. CASE DoFire
    BY <1>3, DoFireStep
  <1>4. CASE LoopEnds
    BY <1>4, LoopEndsStep
  <1>5. CASE CallUser
    BY <1>5, CallUserStep
  <1>6. CASE CallSettling
    BY <1>6, CallSettlingStep
  <1>7. CASE CallFire
    BY <1>7, CallFireStep
  <1>8. CASE CallForward
    BY <1>8, CallForwardStep
  <1>9. CASE CallUpdate
    BY <1>9, CallUpdateStep
  <1>10. CASE WhenReady
    BY <1>10, WhenReadyStep
  <1>11. CASE UserNext
    <2>1. CASE CallPlain
      <3>1. Plain \notin DOMAIN lists
        BY DEF DInv, Shape
      <3> QED
        BY <2>1, <3>1 DEF CallPlain
    <2>2. CASE \E d \in Existing, kind \in Kinds : CallAdd(d, kind)
      BY <2>2, CallAddStep
    <2>3. CASE \E d \in Existing, kind \in Kinds : CallSettle(d, kind)
      BY <2>3, CallSettleStep
    <2>4. CASE \E d \in Existing : CallAlways(d)
      BY <2>4, CallAlwaysStep
    <2>5. CASE \E d \in Existing, hasFn \in BOOLEAN : CallThen(d, hasFn)
      BY <2>5, CallThenStep
    <2>6. CASE \E d \in Existing, d2 \in DOMAIN state \cup {0} : CallWhen(d, d2)
      BY <2>6, CallWhenStep
    <2>7. CASE \E d \in Existing : ReturnPromise(d)
      BY <2>7, ReturnPromiseStep
    <2>8. CASE Return
      BY <2>8, ReturnStep
    <2>9. CASE ReturnFalse
      BY <2>9, ReturnFalseNever
    <2>10. CASE ReturnValue
      BY <2>10, ReturnValueStep
    <2>11. CASE Throw
      BY <2>11, ThrowStep
    <2> QED
      BY <1>11, <2>1, <2>2, <2>3, <2>4, <2>5, <2>6, <2>7, <2>8, <2>9, <2>10, <2>11 DEF UserNext
  <1>12. CASE Wait
    BY <1>12, NothingStep DEF Wait
  <1> QED
    BY <1>1, <1>2, <1>3, <1>4, <1>5, <1>6, <1>7, <1>8, <1>9, <1>10, <1>11, <1>12 DEF Next

LEMMA DeferredInit ==
  ASSUME Init, Plain \notin DOMAIN lists
  PROVE  DInv
  <1> DEFINE N == UserDeferreds
  <1>1. /\ N > 0 /\ lists = [l \in ListsOf(N) |-> NewList(l)]
        /\ state = [d \in 1..N |-> "pending"]
        /\ masters = <<>> /\ agenda = <<>> /\ calls = 0
        /\ attached = 0 /\ waiting = [l \in (1..MaxDeferreds) \X Ways |-> <<>>] /\ latest = <<>>
        /\ broken = {} /\ due = [fns |-> <<>>, emptied |-> FALSE]
    BY DEF Init, ListsOf
  <1>2. N \in 1..MaxDeferreds /\ MaxDeferreds \in Nat /\ MaxCalls \in Nat /\ N \in Nat
    BY <1>1, DeferredAssumption
  <1>3. state \in Seq(Outcomes) /\ Len(state) = N
    <2>1. state \in [1..N -> Outcomes]
      BY <1>1 DEF Outcomes
    <2> HIDE DEF N
    <2> QED
      BY <1>2, <2>1, FunctionIsSeq
  <1> HIDE DEF N
  <1>4. Shape
    <2>1. lists = [l \in ListsOf(N) |-> lists[l]]
      BY <1>1
    <2> QED
      BY <1>2, <1>3, <2>1 DEF Shape
  <1>5. MastersOK
    <2>1. 1..0 = {}
      OBVIOUS
    <2> QED
      BY <1>1, <2>1, ShortIsSeq DEF MastersOK
  <1>6. HistoryOK
    BY <1>1, <1>2 DEF HistoryOK
  <1>7. \A l : LoopItems(agenda, l) = {}
    BY <1>1, ShortIsSeq DEF LoopItems
  <1>8. AgendaOK
    BY <1>1, ShortIsSeq DEF AgendaOK, AgendaIs, AllKnown, UniqueLoops
  <1>9. /\ \A l \in ListsOf(N) : lists[l] = NewList(l)
        /\ \A l \in WaysOf(N) : l \in ListsOf(N) /\ l[2] \in Ways /\ waiting[l] = <<>>
    <2>1. \A l \in ListsOf(N) : lists[l] = NewList(l)
      BY <1>1
    <2>2. 1..N \subseteq 1..MaxDeferreds
      BY <1>2
    <2>3. \A l \in WaysOf(N) : l \in (1..MaxDeferreds) \X Ways
      BY <2>2 DEF WaysOf
    <2>4. \A l \in (1..MaxDeferreds) \X Ways : waiting[l] = <<>>
      BY <1>1
    <2> QED
      BY <2>1, <2>3, <2>4, WayFacts
  <1>10. ListsOK
    <2>1. ASSUME NEW l \in ListsOf(N)
          PROVE  ListOK(l, lists[l], LoopItems(agenda, l), N, Len(masters))
      BY <1>7, <1>9, NewListOK
    <2>2. ASSUME NEW l \in WaysOf(N)
          PROVE  WayOK(l, lists[l], waiting[l], LoopItems(agenda, l), broken)
      BY <1>7, <1>9, NewListOK
    <2> QED
      BY <1>3, <2>1, <2>2 DEF ListsOK
  <1>11. OneWays
    <2>1. \A d \in 1..N, w \in Ways : ~lists[<<d, w>>].fired
      <3>1. \A l \in ListsOf(N) : ~lists[l].fired
        BY <1>9, NewListOK
      <3> QED
        BY <3>1, WayFacts
    <2> QED
      BY <1>3, <2>1 DEF OneWays, OneWay
  <1> QED
    BY <1>4, <1>5, <1>6, <1>8, <1>10, <1>11 DEF DInv

--------------------------------------------------------------------------------
(* What the promise sees                                                   *)

\* No deferred among these has gone both ways.
GoneOneWay(all, n) ==
  /\ DOMAIN all = ListsOf(n)
  /\ \A d \in 1..n, w \in Ways : all[<<d, w>>].fired => ~all[<<d, OtherWay(w)>>].fired

LEMMA VerdictIs ==
  ASSUME NEW all, NEW n \in Nat, GoneOneWay(all, n), NEW d
  PROVE  /\ d \notin 1..n => Verdict(d, all) = <<>>
         /\ d \in 1..n /\ (\A w \in Ways : ~all[<<d, w>>].fired) => Verdict(d, all) = <<>>
         /\ \A w \in Ways : d \in 1..n /\ all[<<d, w>>].fired =>
                              Verdict(d, all) = <<w, all[<<d, w>>].memory[1]>>
  <1> DEFINE ways == {w \in Ways : <<d, w>> \in DOMAIN all /\ all[<<d, w>>].fired}
  <1>1. ways = {} => Verdict(d, all) = <<>>
    BY DEF Verdict
  <1>2. \A w \in Ways : <<d, w>> \in DOMAIN all <=> d \in 1..n
    BY DEF GoneOneWay, ListsOf, Kinds
  <1>3. ASSUME NEW w \in Ways, d \in 1..n, all[<<d, w>>].fired
        PROVE  Verdict(d, all) = <<w, all[<<d, w>>].memory[1]>>
    <2>1. ~all[<<d, OtherWay(w)>>].fired
      BY <1>3 DEF GoneOneWay
    <2>2. \A x \in Ways : x = w \/ x = OtherWay(w)
      BY DEF Ways, OtherWay
    <2>3. ways = {w}
      BY <1>2, <1>3, <2>1, <2>2
    <2>4. Verdict(d, all) = LET x == CHOOSE y \in ways : TRUE IN <<x, all[<<d, x>>].memory[1]>>
      BY <2>3 DEF Verdict
    <2> HIDE DEF ways
    <2>5. (CHOOSE y \in ways : TRUE) = w
      BY <2>3
    <2> QED
      BY <2>4, <2>5
  <1> QED
    BY <1>1, <1>2, <1>3

\* Deferreds do not go away.
LEMMA StateGrows ==
  ASSUME DInv, [Next]_vars
  PROVE  Len(state') >= Len(state)
  <1>1. state \in Seq(Outcomes) /\ Len(state) \in Nat
    BY Basics DEF DInv, Shape
  <1>2. \A s : s = state => Len(s) >= Len(state)
    BY <1>1
  <1>3. \A d, x : Len([state EXCEPT ![d] = x]) >= Len(state)
    <2> SUFFICES ASSUME NEW d, NEW x PROVE Len([state EXCEPT ![d] = x]) >= Len(state)
      OBVIOUS
    <2> DEFINE new == [state EXCEPT ![d] = x]
               n == Len(state)
               S == Outcomes \cup {x}
    <2>1. n \in Nat /\ state \in [1..n -> Outcomes]
      BY <1>1, LenProperties
    <2>2. new \in [1..n -> S]
      BY <2>1
    <2> HIDE DEF new, n, S
    <2>3. Len(new) = n
      BY <2>1, <2>2, FunctionIsSeq
    <2> QED
      BY <2>1, <2>3 DEF new, n
  <1>4. Len(Append(state, "pending")) >= Len(state)
    BY <1>1, AppendProperties DEF Outcomes
  <1>5. state' = state \/ state' = Append(state, "pending") \/ \E d, x : state' = [state EXCEPT ![d] = x]
    <2>1. CASE UNCHANGED vars
      BY <2>1 DEF vars, program
    <2>2. CASE DoAdd \/ DoFire \/ LoopEnds \/ CallUser \/ CallFire \/ CallForward \/ CallUpdate \/ WhenReady
      BY <2>2 DEF DoAdd, DoFire, LoopEnds, CallUser, CallFire, CallForward, CallUpdate, WhenReady
    <2>3. CASE CallSettling
      BY <2>3 DEF CallSettling
    <2>4. CASE UserNext
      BY <2>4 DEF UserNext, CallPlain, CallAdd, CallSettle, CallAlways, CallThen, CallWhen,
                  ReturnPromise, Return, ReturnFalse, ReturnValue, Throw
    <2> QED
      BY <2>1, <2>2, <2>3, <2>4 DEF Next, Wait
  <1> QED
    BY <1>2, <1>3, <1>4, <1>5

LEMMA InvOneWay ==
  DInv => /\ GoneOneWay(lists, Len(state)) /\ Len(state) \in 1..MaxDeferreds
          /\ Len(state) \in Nat /\ 1..Len(state) \subseteq 1..MaxDeferreds
  <1> SUFFICES ASSUME DInv
               PROVE  /\ GoneOneWay(lists, Len(state)) /\ Len(state) \in 1..MaxDeferreds
                      /\ Len(state) \in Nat /\ 1..Len(state) \subseteq 1..MaxDeferreds
    OBVIOUS
  <1>1. Len(state) \in 1..MaxDeferreds /\ MaxDeferreds \in Nat
    BY DeferredAssumption DEF DInv, Shape
  <1>2. GoneOneWay(lists, Len(state))
    BY Basics DEF DInv, OneWays, OneWay, GoneOneWay
  <1> QED
    BY <1>1, <1>2

LEMMA InvOneWayNext ==
  DInv' => GoneOneWay(lists', Len(state')) /\ Len(state') \in Nat
  <1>1. (DInv => /\ GoneOneWay(lists, Len(state)) /\ Len(state) \in 1..MaxDeferreds
                 /\ Len(state) \in Nat /\ 1..Len(state) \subseteq 1..MaxDeferreds)'
    BY InvOneWay, PTL
  <1> QED
    BY <1>1

\* A step that settles nothing leaves the verdicts.
LEMMA SameVerdicts ==
  ASSUME DInv, DInv', SameWays, Len(state') >= Len(state)
  PROVE  Verdicts' = Verdicts
  <1> DEFINE n == Len(state)
             m == Len(state')
  <1>1. GoneOneWay(lists, n) /\ n \in Nat
    BY InvOneWay
  <1>2. GoneOneWay(lists', m) /\ m \in Nat
    BY InvOneWayNext
  <1>3. ASSUME NEW d \in 1..MaxDeferreds
        PROVE  Verdict(d, lists') = Verdict(d, lists)
    <2> HIDE DEF n, m
    <2>1. CASE d \notin 1..m
      <3>1. d \notin 1..n
        BY <1>1, <1>2, <2>1 DEF n, m
      <3> QED
        BY <1>1, <1>2, <2>1, <3>1, VerdictIs
    <2>2. CASE d \in 1..m /\ d \notin 1..n
      <3>1. \A w \in Ways : <<d, w>> \in WaysOf(m) /\ <<d, w>> \notin WaysOf(n)
        BY <2>2 DEF WaysOf
      <3>2. \A w \in Ways : ~lists'[<<d, w>>].fired
        BY <3>1 DEF SameWays, n, m
      <3>3. Verdict(d, lists') = <<>>
        BY <1>2, <2>2, <3>2, VerdictIs
      <3>4. Verdict(d, lists) = <<>>
        BY <1>1, <2>2, VerdictIs
      <3> QED
        BY <3>3, <3>4
    <2>3. CASE d \in 1..m /\ d \in 1..n
      <3>1. \A w \in Ways : <<d, w>> \in WaysOf(m) /\ <<d, w>> \in WaysOf(n)
        BY <2>3 DEF WaysOf
      <3>2. \A w \in Ways : /\ (lists'[<<d, w>>].fired <=> lists[<<d, w>>].fired)
                            /\ lists[<<d, w>>].fired =>
                                 lists'[<<d, w>>].memory = lists[<<d, w>>].memory
        BY <3>1 DEF SameWays, n, m
      <3>3. CASE \A w \in Ways : ~lists[<<d, w>>].fired
        <4>1. \A w \in Ways : ~lists'[<<d, w>>].fired
          BY <3>2, <3>3
        <4>2. Verdict(d, lists') = <<>>
          BY <1>2, <2>3, <4>1, VerdictIs
        <4>3. Verdict(d, lists) = <<>>
          BY <1>1, <2>3, <3>3, VerdictIs
        <4> QED
          BY <4>2, <4>3
      <3>4. ASSUME NEW w \in Ways, lists[<<d, w>>].fired
            PROVE  Verdict(d, lists') = Verdict(d, lists)
        <4>1. lists'[<<d, w>>].fired /\ lists'[<<d, w>>].memory = lists[<<d, w>>].memory
          BY <3>2, <3>4
        <4>2. Verdict(d, lists') = <<w, lists'[<<d, w>>].memory[1]>>
          BY <1>2, <2>3, <4>1, VerdictIs
        <4>3. Verdict(d, lists) = <<w, lists[<<d, w>>].memory[1]>>
          BY <1>1, <2>3, <3>4, VerdictIs
        <4> QED
          BY <4>1, <4>2, <4>3
      <3> QED
        BY <3>3, <3>4
    <2> QED
      BY <2>1, <2>2, <2>3
  <1> QED
    BY <1>3 DEF Verdicts

LEMMA PromiseStill ==
  ASSUME DInv, DInv', Still, Len(state') >= Len(state)
  PROVE  UNCHANGED Promised!promiseVars
  <1>1. Verdicts' = Verdicts
    BY SameVerdicts DEF Still
  <1>2. WaitingFor' = WaitingFor
    BY DEF Still, WaitingFor
  <1> QED
    BY <1>1, <1>2 DEF Promised!promiseVars, Still

\* The callbacks of one way change.
LEMMA WaitingChanges ==
  ASSUME DInv, NEW d \in 1..Len(state), NEW w \in Ways, NEW new,
         waiting' = [waiting EXCEPT ![<<d, w>>] = new]
  PROVE  /\ WaitingFor' = [WaitingFor EXCEPT ![d][w] = new]
         /\ WaitingFor[d][w] = waiting[<<d, w>>] /\ WaitingFor'[d][w] = new
         /\ d \in 1..MaxDeferreds /\ waiting[<<d, w>>] \in Seq(Nat)
  <1>1. d \in 1..MaxDeferreds
    BY InvOneWay
  <1>2. DOMAIN waiting = (1..MaxDeferreds) \X Ways /\ waiting[<<d, w>>] \in Seq(Nat)
    BY <1>1 DEF DInv, HistoryOK
  <1>3. \A e \in 1..MaxDeferreds, v \in Ways :
          /\ WaitingFor[e][v] = waiting[<<e, v>>]
          /\ WaitingFor'[e][v] = IF e = d /\ v = w THEN new ELSE waiting[<<e, v>>]
    <2>1. \A e \in 1..MaxDeferreds, v \in Ways :
            waiting'[<<e, v>>] = IF e = d /\ v = w THEN new ELSE waiting[<<e, v>>]
      BY <1>2
    <2> QED
      BY <2>1 DEF WaitingFor
  <1> DEFINE row == [WaitingFor[d] EXCEPT ![w] = new]
  <1>4. WaitingFor'[d] = row
    <2>1. \A e \in 1..MaxDeferreds : /\ WaitingFor[e] = [v \in Ways |-> WaitingFor[e][v]]
                                    /\ WaitingFor'[e] = [v \in Ways |-> WaitingFor'[e][v]]
      BY DEF WaitingFor
    <2>2. row = [v \in Ways |-> IF v = w THEN new ELSE WaitingFor[d][v]]
      BY <1>1, <2>1
    <2>3. \A v \in Ways : WaitingFor'[d][v] = IF v = w THEN new ELSE WaitingFor[d][v]
      BY <1>1, <1>3
    <2> HIDE DEF row
    <2> QED
      BY <1>1, <2>1, <2>2, <2>3
  <1>5. \A e \in 1..MaxDeferreds : e # d => WaitingFor'[e] = WaitingFor[e]
    <2>1. \A e \in 1..MaxDeferreds, v \in Ways :
            e # d => waiting'[<<e, v>>] = waiting[<<e, v>>]
      BY <1>2
    <2> QED
      BY <2>1 DEF WaitingFor
  <1> HIDE DEF row
  <1>6. WaitingFor' = [WaitingFor EXCEPT ![d] = row]
    <2>1. /\ WaitingFor = [e \in 1..MaxDeferreds |-> WaitingFor[e]]
          /\ WaitingFor' = [e \in 1..MaxDeferreds |-> WaitingFor'[e]]
      BY DEF WaitingFor
    <2> QED
      BY <1>1, <1>4, <1>5, <2>1
  <1>7. WaitingFor' = [WaitingFor EXCEPT ![d][w] = new]
    BY <1>6 DEF row
  <1>8. WaitingFor[d][w] = waiting[<<d, w>>] /\ WaitingFor'[d][w] = new
    BY <1>1, <1>3
  <1> QED
    BY <1>1, <1>2, <1>7, <1>8

LEMMA PromiseAttaches ==
  ASSUME DInv, DInv', NEW l, Attaches(l), Len(state') >= Len(state)
  PROVE  Promised!PromiseNext
  <1>1. PICK d \in 1..Len(state), w \in Ways : l = <<d, w>>
    BY DEF Attaches, WaysOf
  <1>2. PICK n \in Nat : waiting' = [waiting EXCEPT ![<<d, w>>] = Append(waiting[<<d, w>>], n)]
    BY <1>1 DEF Attaches
  <1> DEFINE s == waiting[<<d, w>>]
             new == Append(s, n)
  <1>3. /\ WaitingFor' = [WaitingFor EXCEPT ![d][w] = new]
        /\ WaitingFor[d][w] = s /\ WaitingFor'[d][w] = new
        /\ d \in 1..MaxDeferreds /\ s \in Seq(Nat)
    BY <1>2, WaitingChanges
  <1> HIDE DEF s
  <1>4. new # <<>> /\ Last(new) = n
    <2>1. Len(s) \in Nat
      BY <1>3, LenProperties
    <2>2. Len(new) = Len(s) + 1 /\ new[Len(new)] = n /\ new \in Seq(Nat)
      BY <1>3, <2>1, AppendProperties
    <2> HIDE DEF new
    <2> QED
      BY <2>1, <2>2, EmptySeq DEF Last
  <1> HIDE DEF new
  <1>5. WaitingFor' = [WaitingFor EXCEPT ![d][w] = Append(@, Last(WaitingFor'[d][w]))]
    BY <1>3, <1>4 DEF new
  <1>6. Verdicts' = Verdicts /\ latest' = latest
    BY SameVerdicts DEF Attaches
  <1>7. Promised!Attach(d, w)
    BY <1>3, <1>4, <1>5, <1>6 DEF Promised!Attach, Promised!Last, Last
  <1> QED
    BY <1>3, <1>7 DEF Promised!PromiseNext

LEMMA PromiseCalls ==
  ASSUME DInv, DInv', NEW l, CallsOne(l), Len(state') >= Len(state)
  PROVE  Promised!PromiseNext
  <1>1. PICK d \in 1..Len(state), w \in Ways : l = <<d, w>>
    BY DEF CallsOne, WaysOf
  <1> DEFINE s == waiting[<<d, w>>]
  <1>2. /\ waiting' = [waiting EXCEPT ![<<d, w>>] = Tail(s)] /\ s # <<>>
        /\ lists[<<d, w>>].fired /\ latest' = <<Head(s), lists[<<d, w>>].memory[1]>>
    BY <1>1 DEF CallsOne
  <1>3. /\ WaitingFor' = [WaitingFor EXCEPT ![d][w] = Tail(s)]
        /\ WaitingFor[d][w] = s /\ d \in 1..MaxDeferreds
    <2>1. PICK rest : rest = Tail(s) /\ waiting' = [waiting EXCEPT ![<<d, w>>] = rest]
      BY <1>2
    <2>2. waiting' = [waiting EXCEPT ![<<d, w>>] = rest]
      BY <2>1
    <2> HIDE DEF s
    <2>3. /\ WaitingFor' = [WaitingFor EXCEPT ![d][w] = rest]
          /\ WaitingFor[d][w] = waiting[<<d, w>>] /\ WaitingFor'[d][w] = rest
          /\ d \in 1..MaxDeferreds /\ waiting[<<d, w>>] \in Seq(Nat)
      BY <2>2, WaitingChanges
    <2> QED
      BY <2>1, <2>3 DEF s
  <1>4. Verdict(d, lists) = <<w, lists[<<d, w>>].memory[1]>>
    <2>1. GoneOneWay(lists, Len(state)) /\ Len(state) \in Nat
      BY InvOneWay
    <2> QED
      BY <1>2, <2>1, VerdictIs
  <1>5. Verdicts[d] = <<w, lists[<<d, w>>].memory[1]>>
    BY <1>3, <1>4 DEF Verdicts
  <1>6. Verdicts' = Verdicts
    BY SameVerdicts DEF CallsOne
  <1> HIDE DEF s
  <1>7. Verdicts[d] # <<>> /\ Verdicts[d][1] = w /\ Verdicts[d][2] = lists[<<d, w>>].memory[1]
    BY <1>5
  <1>8. WaitingFor' = [WaitingFor EXCEPT ![d][w] = Tail(@)]
    BY <1>3
  <1>9. Promised!Call(d, w)
    BY <1>2, <1>3, <1>6, <1>7, <1>8 DEF Promised!Call
  <1> QED
    BY <1>3, <1>9 DEF Promised!PromiseNext

LEMMA PromiseSettles ==
  ASSUME DInv, DInv', NEW l, Settles(l)
  PROVE  Promised!PromiseNext
  <1> DEFINE n == Len(state)
  <1>1. PICK d \in 1..n, w \in Ways : l = <<d, w>>
    BY DEF Settles, WaysOf
  <1>2. GoneOneWay(lists, n) /\ n \in Nat /\ d \in 1..MaxDeferreds
    BY InvOneWay
  <1>3. GoneOneWay(lists', n)
    BY InvOneWayNext DEF Settles
  <1>4. /\ ~lists[<<d, w>>].fired /\ ~lists[<<d, OtherWay(w)>>].fired /\ lists'[<<d, w>>].fired
        /\ \A k \in WaysOf(n) : k # <<d, w>> => lists'[k] = lists[k]
        /\ waiting' = waiting /\ latest' = latest
    BY <1>1 DEF Settles
  <1> HIDE DEF n
  <1>5. Verdict(d, lists) = <<>>
    <2>1. \A v \in Ways : v = w \/ v = OtherWay(w)
      BY DEF Ways, OtherWay
    <2>2. \A v \in Ways : ~lists[<<d, v>>].fired
      BY <1>4, <2>1
    <2> QED
      BY <1>2, <2>2, VerdictIs
  <1>6. Verdict(d, lists') = <<w, lists'[<<d, w>>].memory[1]>>
    BY <1>2, <1>3, <1>4, VerdictIs
  <1>7. ASSUME NEW e \in 1..MaxDeferreds, e # d
        PROVE  Verdict(e, lists') = Verdict(e, lists)
    <2>1. CASE e \notin 1..n
      BY <1>2, <1>3, <2>1, VerdictIs
    <2>2. CASE e \in 1..n
      <3>1. \A v \in Ways : lists'[<<e, v>>] = lists[<<e, v>>]
        <4>1. \A v \in Ways : <<e, v>> \in WaysOf(n) /\ <<e, v>> # <<d, w>>
          BY <1>7, <2>2 DEF WaysOf
        <4> QED
          BY <1>4, <4>1
      <3>2. CASE \A v \in Ways : ~lists[<<e, v>>].fired
        <4>1. \A v \in Ways : ~lists'[<<e, v>>].fired
          BY <3>1, <3>2
        <4>2. Verdict(e, lists') = <<>>
          BY <1>2, <1>3, <2>2, <4>1, VerdictIs
        <4>3. Verdict(e, lists) = <<>>
          BY <1>2, <2>2, <3>2, VerdictIs
        <4> QED
          BY <4>2, <4>3
      <3>3. ASSUME NEW v \in Ways, lists[<<e, v>>].fired
            PROVE  Verdict(e, lists') = Verdict(e, lists)
        <4>1. lists'[<<e, v>>].fired /\ lists'[<<e, v>>].memory = lists[<<e, v>>].memory
          BY <3>1, <3>3
        <4>2. Verdict(e, lists') = <<v, lists'[<<e, v>>].memory[1]>>
          BY <1>2, <1>3, <2>2, <4>1, VerdictIs
        <4>3. Verdict(e, lists) = <<v, lists[<<e, v>>].memory[1]>>
          BY <1>2, <2>2, <3>3, VerdictIs
        <4> QED
          BY <4>1, <4>2, <4>3
      <3> QED
        BY <3>2, <3>3
    <2> QED
      BY <2>1, <2>2
  <1>8. Verdicts[d] = <<>> /\ Verdicts'[d] # <<>> /\ Verdicts'[d][1] = w
    <2>1. Verdicts[d] = <<>> /\ Verdicts'[d] = <<w, lists'[<<d, w>>].memory[1]>>
      BY <1>2, <1>5, <1>6 DEF Verdicts
    <2> QED
      BY <2>1
  <1>9. Verdicts' = [Verdicts EXCEPT ![d] = Verdicts'[d]]
    BY <1>2, <1>7 DEF Verdicts
  <1>10. WaitingFor' = WaitingFor
    BY <1>4 DEF WaitingFor
  <1>11. Promised!Settle(d, w)
    BY <1>4, <1>8, <1>9, <1>10 DEF Promised!Settle
  <1> QED
    BY <1>2, <1>11 DEF Promised!PromiseNext

\* A list by itself has nothing to do with promises.
NoPromise ==
  /\ Verdicts = [d \in 1..MaxDeferreds |-> <<>>]
  /\ WaitingFor = [d \in 1..MaxDeferreds |-> [w \in Ways |-> <<>>]]
  /\ latest = <<>>

LEMMA PlainHasNoPromise == PInv => NoPromise
  <1> SUFFICES ASSUME PInv PROVE NoPromise
    OBVIOUS
  <1>1. \A d, w : w \in Ways => <<d, w>> \notin DOMAIN lists
    <2>1. DOMAIN lists = {Plain}
      BY DEF PInv, PlainShape
    <2> QED
      BY <2>1 DEF Plain, Ways
  <1>2. \A d : Verdict(d, lists) = <<>>
    BY <1>1 DEF Verdict
  <1>3. \A d \in 1..MaxDeferreds, w \in Ways : waiting[<<d, w>>] = <<>>
    BY DEF PInv, PlainShape
  <1> QED
    BY <1>2, <1>3 DEF NoPromise, Verdicts, WaitingFor, PInv, PlainShape

--------------------------------------------------------------------------------
(* What is left to call in the loop of the list by itself                  *)

\* The callbacks a loop has before it.
Ahead(cb, x) == SubSeq(cb.list, From(cb, x) + 1, Len(cb.list))

\* The list, its loops and what is due.  After empty() nothing is promised.
DueOK(cb, loops, d) ==
  /\ loops = {} => ~cb.firing
  /\ ~d.emptied =>
       /\ loops = {} \/ cb.disabled => d.fns = <<>>
       /\ \A x \in loops :
            ~cb.disabled /\ x.on # "stop" =>
              From(cb, x) \in 0..Len(cb.list) /\ d.fns = Ahead(cb, x)

DueNow == DueOK(lists[Plain], LoopItems(agenda, Plain), due)

\* A part of a list up to its end.
LEMMA AheadFacts ==
  ASSUME NEW list, IsSeq(list), NEW from \in 0..Len(list)
  PROVE  LET part == SubSeq(list, from + 1, Len(list))
         IN  /\ IsSeq(part) /\ Len(part) = Len(list) - from
             /\ \A j \in 1..(Len(list) - from) : part[j] = list[from + j]
  <1> DEFINE n == Len(list)
             m == n - from
             part == SubSeq(list, from + 1, n)
  <1>1. n \in Nat /\ from \in Nat /\ from <= n /\ m \in Nat
    BY IsSeqFacts
  <1>2. \A i \in (from + 1)..n : list[i] \in Items(list)
    BY <1>1 DEF Items
  <1>3. /\ part \in Seq(Items(list))
        /\ Len(part) = IF from + 1 <= n THEN n - (from + 1) + 1 ELSE 0
        /\ \A j \in 1..(n - (from + 1) + 1) : part[j] = list[(from + 1) + j - 1]
    BY <1>1, <1>2, SubSeqProperties
  <1>4. n - (from + 1) + 1 = m /\ \A j \in 1..m : (from + 1) + j - 1 = from + j
    BY <1>1
  <1>5. Len(part) = m
    BY <1>1, <1>3
  <1> HIDE DEF part, n, m
  <1>6. IsSeq(part) /\ Len(part) = m /\ \A j \in 1..m : part[j] = list[from + j]
    BY <1>3, <1>4, <1>5, SeqIsSeq
  <1> QED
    BY <1>6 DEF part, n, m

\* Sequences of the same length with the same elements.
LEMMA SameSeq ==
  ASSUME NEW s, IsSeq(s), NEW t, IsSeq(t), Len(s) = Len(t), \A j \in 1..Len(s) : s[j] = t[j]
  PROVE  s = t
  <1>1. s = [j \in 1..Len(s) |-> s[j]] /\ t = [j \in 1..Len(t) |-> t[j]]
    BY LenProperties DEF IsSeq
  <1> QED
    BY <1>1

\* The first callback of a part, and the others.
LEMMA AheadNext ==
  ASSUME NEW list, IsSeq(list), NEW from \in 0..Len(list), from < Len(list)
  PROVE  LET part == SubSeq(list, from + 1, Len(list))
         IN  /\ part # <<>> /\ Head(part) = list[from + 1]
             /\ Tail(part) = SubSeq(list, (from + 1) + 1, Len(list))
             /\ from + 1 \in 0..Len(list)
  <1>1. Len(list) \in Nat /\ from \in Nat
    BY IsSeqFacts
  <1>2. from + 1 \in 1..Len(list) /\ Len(list) \in (from + 1)..Len(list)
    BY <1>1
  <1>3. list \in Seq(Items(list))
    BY DEF IsSeq
  <1> DEFINE part == SubSeq(list, from + 1, Len(list))
  <1>4. Head(part) = list[from + 1] /\ Tail(part) = SubSeq(list, (from + 1) + 1, Len(list))
    BY <1>2, <1>3, HeadTailOfSubSeq
  <1>5. IsSeq(part) /\ Len(part) = Len(list) - from
    BY AheadFacts
  <1> HIDE DEF part
  <1>6. part # <<>>
    BY <1>1, <1>5, IsSeqFacts
  <1> QED
    BY <1>1, <1>2, <1>4, <1>6 DEF part

LEMMA AheadOver ==
  ASSUME NEW list, IsSeq(list)
  PROVE  SubSeq(list, Len(list) + 1, Len(list)) = <<>>
  <1>1. Len(list) \in Int
    BY IsSeqFacts
  <1> QED
    BY <1>1, SubSeqEmpty

\* A list that grows at its end.
LEMMA AheadLonger ==
  ASSUME NEW list, IsSeq(list), NEW longer, IsSeq(longer), Len(list) <= Len(longer),
         \A k \in 1..Len(list) : longer[k] = list[k], NEW from \in 0..Len(list)
  PROVE  /\ from \in 0..Len(longer)
         /\ SubSeq(list, from + 1, Len(list)) \o SubSeq(longer, Len(list) + 1, Len(longer))
              = SubSeq(longer, from + 1, Len(longer))
  <1> DEFINE n == Len(list)
             m == Len(longer)
             part == SubSeq(list, from + 1, n)
             more == SubSeq(longer, n + 1, m)
             whole == SubSeq(longer, from + 1, m)
  <1>1. n \in Nat /\ m \in Nat /\ from \in Nat /\ from <= n /\ n <= m /\ n \in 0..m
    BY IsSeqFacts
  <1>2. from \in 0..m
    BY <1>1
  <1>3. IsSeq(part) /\ Len(part) = n - from /\ \A j \in 1..(n - from) : part[j] = list[from + j]
    BY AheadFacts
  <1>4. IsSeq(more) /\ Len(more) = m - n /\ \A j \in 1..(m - n) : more[j] = longer[n + j]
    BY <1>1, AheadFacts
  <1>5. IsSeq(whole) /\ Len(whole) = m - from /\ \A j \in 1..(m - from) : whole[j] = longer[from + j]
    BY <1>2, AheadFacts
  <1>6. \A k \in 1..n : longer[k] = list[k]
    OBVIOUS
  <1> HIDE DEF part, more, whole, n, m
  <1> DEFINE both == part \o more
  <1>7. /\ IsSeq(both) /\ Len(both) = Len(part) + Len(more)
        /\ \A j \in 1..Len(both) : both[j] = IF j <= Len(part) THEN part[j] ELSE more[j - Len(part)]
    BY <1>3, <1>4, ConcatIsSeq
  <1> HIDE DEF both
  <1>8. Len(both) = m - from
    BY <1>1, <1>3, <1>4, <1>7
  <1>9. ASSUME NEW j \in 1..(m - from)
        PROVE  both[j] = longer[from + j]
    <2>1. CASE j <= n - from
      <3>1. j \in 1..(n - from) /\ from + j \in 1..n
        BY <1>1, <2>1
      <3>2. both[j] = part[j]
        BY <1>3, <1>7, <1>8, <2>1
      <3> QED
        BY <1>3, <1>6, <3>1, <3>2
    <2>2. CASE ~(j <= n - from)
      <3>1. j - (n - from) \in 1..(m - n) /\ n + (j - (n - from)) = from + j
        BY <1>1, <2>2
      <3>2. both[j] = more[j - (n - from)]
        BY <1>3, <1>7, <1>8, <2>2
      <3> QED
        BY <1>4, <3>1, <3>2
    <2> QED
      BY <2>1, <2>2
  <1>10. both = whole
    BY <1>5, <1>7, <1>8, <1>9, SameSeq
  <1> QED
    BY <1>2, <1>10 DEF both, part, more, whole, n, m

\* The list behind the next loop, when one starts.
LEMMA LoopsAfter ==
  ASSUME NEW s, PlainAgenda(s), Begun(s), NEW memory, NEW starts \in BOOLEAN,
         starts => LoopItems(s, Plain) = {}
  PROVE  LoopItems(LoopOf(Plain, memory, starts) \o s, Plain) =
           IF starts THEN {Loop(Plain, memory[1], "first")} ELSE LoopItems(s, Plain)
  <1>1. CASE starts
    <2> DEFINE x == Loop(Plain, memory[1], "first")
    <2>1. LoopOf(Plain, memory, starts) = <<x>>
      BY <1>1 DEF LoopOf
    <2>2. PlainItem(x) /\ x.op = "loop"
      BY DEF PlainItem, Loop, Do
    <2> HIDE DEF x
    <2>3. LoopItems(<<x>> \o s, Plain) = {y \in {x} : y.op = "loop"} \cup LoopItems(s, Plain)
      BY <1>1, <2>2, PlainPut
    <2>4. LoopItems(<<x>> \o s, Plain) = {x}
      BY <1>1, <2>2, <2>3
    <2> QED
      BY <1>1, <2>1, <2>4 DEF x
  <1>2. CASE ~starts
    <2>1. LoopOf(Plain, memory, starts) = <<>>
      BY <1>2 DEF LoopOf
    <2>2. <<>> \o s = s
      BY NothingBefore DEF PlainAgenda
    <2> QED
      BY <1>2, <2>1, <2>2
  <1> QED
    BY <1>1, <1>2

\* A loop that starts has before it what is due.
LEMMA DueStarts ==
  ASSUME NEW cb, IsSeq(cb.list), ~cb.disabled, cb.firingIndex \in 0..Len(cb.list), NEW data
  PROVE  DueOK(cb, {Loop(Plain, data, "first")}, DueOf(Plain, cb))
  <1> DEFINE x == Loop(Plain, data, "first")
             d == DueOf(Plain, cb)
  <1>1. x.on = "first"
    BY DEF Loop, Do
  <1>2. d.fns = SubSeq(cb.list, cb.firingIndex + 1, Len(cb.list)) /\ ~d.emptied
    BY DEF DueOf
  <1> HIDE DEF x, d
  <1>3. From(cb, x) = cb.firingIndex
    BY <1>1 DEF From
  <1>4. DueOK(cb, {x}, d)
    BY <1>2, <1>3 DEF DueOK, Ahead
  <1> QED
    BY <1>4 DEF x, d

\* After a step.
LEMMA DueNext ==
  ASSUME PInv, NEW cb, lists' = [lists EXCEPT ![Plain] = cb],
         DueOK(cb, LoopItems(agenda', Plain), due')
  PROVE  DueNow'
  <1>1. Plain \in DOMAIN lists
    BY DEF PInv, PlainShape
  <1>2. lists'[Plain] = cb
    BY <1>1
  <1> QED
    BY <1>2 DEF DueNow

LEMMA DueAddStep ==
  ASSUME PInv, DueNow, DoAdd
  PROVE  DueNow'
  <1> DEFINE cb == lists[Plain]
             fn == Todo.fns[1]
             new == Add(cb, fn)
             starts == FiresOnAdd(cb)
             more == SubSeq(new.list, Len(cb.list) + 1, Len(new.list))
             s == Rest
             memory == cb.memory
             loops == LoopItems(agenda, Plain)
             longer == IF "unique" \in cb.options /\ fn \in ToSet(cb.list)
                       THEN cb.list ELSE Append(cb.list, fn)
             n == Len(cb.list)
  <1>1. agenda # <<>> /\ Todo.op = "add" /\ ~(Todo.op = "loop")
    BY DEF DoAdd, IsNext
  <1>2. /\ PlainAgenda(s) /\ Begun(s) /\ PlainItem(Todo)
        /\ LoopItems(s, Plain) = loops
    BY <1>1, PlainPop
  <1>3. Todo.list = Plain /\ fn.is = "user"
    BY <1>1, <1>2 DEF PlainItem
  <1>4. /\ lists' = [lists EXCEPT ![Plain] = new]
        /\ agenda' = LoopOf(Plain, memory, starts) \o s
        /\ due' = IF starts THEN DueOf(Plain, new)
                  ELSE IF new.firing THEN [due EXCEPT !.fns = @ \o more] ELSE due
    BY <1>3 DEF DoAdd
  <1>5. PlainOK(cb) /\ (loops # {} => cb.firing)
    BY DEF PInv, PlainGoing
  <1>6. DueOK(cb, loops, due) /\ due \in [fns : {due.fns}, emptied : BOOLEAN]
    BY DueStays DEF DueNow
  <1>7. starts \in BOOLEAN /\ (starts => ~cb.firing /\ ~cb.disabled)
    BY DEF FiresOnAdd
  <1> HIDE DEF cb, fn, memory, s, loops
  <1>8. IsList(cb) /\ IsSeq(cb.list) /\ n \in Nat
    BY <1>5, IsSeqFacts DEF PlainOK
  <1>9. PlainOK(new)
    BY <1>3, <1>5, PlainAdd
  <1>10. /\ (new.disabled <=> cb.disabled)
         /\ new.list = IF cb.disabled THEN cb.list ELSE longer
         /\ ~starts => (new.firing <=> cb.firing) /\ new.firingIndex = cb.firingIndex
         /\ starts => new.firing /\ new.firingIndex = n
    BY <1>8, AddFields
  <1>11. IsSeq(longer) /\ n <= Len(longer) /\ \A k \in 1..n : longer[k] = cb.list[k]
    <2>1. CASE "unique" \in cb.options /\ fn \in ToSet(cb.list)
      BY <1>8, <2>1
    <2>2. CASE ~("unique" \in cb.options /\ fn \in ToSet(cb.list))
      <3> DEFINE appended == Append(cb.list, fn)
      <3>1. /\ IsSeq(appended) /\ Len(appended) = n + 1
            /\ \A k \in 1..n : appended[k] = cb.list[k]
        BY <1>8, LongerList
      <3>2. longer = appended
        BY <2>2
      <3> HIDE DEF appended, longer, n
      <3> QED
        BY <1>8, <3>1, <3>2
    <2> QED
      BY <2>1, <2>2
  <1> HIDE DEF longer, new, starts
  <1>12. LoopItems(agenda', Plain) = IF starts THEN {Loop(Plain, memory[1], "first")} ELSE loops
    BY <1>2, <1>4, <1>5, <1>7, LoopsAfter
  <1>13. CASE starts
    <2>1. IsSeq(new.list) /\ ~new.disabled
      BY <1>7, <1>9, <1>10, <1>13 DEF PlainOK
    <2>2. new.firingIndex \in 0..Len(new.list)
      <3>1. new.list = longer /\ Len(longer) \in Nat
        BY <1>7, <1>10, <1>11, <1>13, IsSeqFacts
      <3> QED
        BY <1>8, <1>10, <1>11, <1>13, <3>1
    <2>3. DueOK(new, {Loop(Plain, memory[1], "first")}, DueOf(Plain, new))
      BY <2>1, <2>2, DueStarts
    <2> QED
      BY <1>4, <1>12, <1>13, <2>3, DueNext
  <1>14. CASE ~starts /\ ~cb.firing
    <2>1. due' = due /\ loops = {} /\ LoopItems(agenda', Plain) = loops /\ ~new.firing
      BY <1>4, <1>5, <1>10, <1>12, <1>14
    <2>2. DueOK(new, loops, due)
      BY <1>6, <2>1 DEF DueOK
    <2> QED
      BY <1>4, <2>1, <2>2, DueNext
  <1>15. CASE ~starts /\ cb.firing
    <2>1. /\ LoopItems(agenda', Plain) = loops /\ loops # {} /\ new.firing
          /\ new.firingIndex = cb.firingIndex
          /\ due'.fns = due.fns \o more /\ due'.emptied = due.emptied
      BY <1>4, <1>6, <1>10, <1>12, <1>15 DEF DueOK
    <2>2. ASSUME ~due.emptied, cb.disabled
          PROVE  due'.fns = <<>>
      <3>1. new.list = cb.list /\ due.fns = <<>>
        BY <1>6, <1>10, <2>2 DEF DueOK
      <3>2. more = <<>>
        BY <1>8, <3>1, AheadOver
      <3>3. <<>> \o <<>> = <<>>
        BY NothingBefore, ShortIsSeq
      <3> QED
        BY <2>1, <3>1, <3>2, <3>3
    <2>3. ASSUME ~due.emptied, ~cb.disabled, NEW x \in loops, x.on # "stop"
          PROVE  From(new, x) \in 0..Len(new.list) /\ due'.fns = Ahead(new, x)
      <3> DEFINE from == From(cb, x)
      <3>1. from \in 0..n /\ due.fns = SubSeq(cb.list, from + 1, n)
        BY <1>6, <2>3 DEF DueOK, Ahead
      <3>2. From(new, x) = from
        BY <2>1 DEF From
      <3> HIDE DEF from
      <3>3. new.list = longer
        BY <1>10, <2>3
      <3>4. /\ from \in 0..Len(longer)
            /\ SubSeq(cb.list, from + 1, n) \o SubSeq(longer, n + 1, Len(longer))
                 = SubSeq(longer, from + 1, Len(longer))
        BY <1>8, <1>11, <3>1, AheadLonger
      <3> QED
        BY <2>1, <3>1, <3>2, <3>3, <3>4 DEF Ahead
    <2> HIDE DEF more
    <2>4. DueOK(new, loops, due')
      BY <1>10, <2>1, <2>2, <2>3 DEF DueOK
    <2> QED
      BY <1>4, <2>1, <2>4, DueNext
  <1> QED
    BY <1>13, <1>14, <1>15

LEMMA DueFireStep ==
  ASSUME PInv, DueNow, DoFire
  PROVE  DueNow'
  <1> DEFINE cb == lists[Plain]
             data == Todo.data
             new == FireWith(cb, data)
             starts == Starts(cb)
             s == Rest
             memory == <<data>>
             loops == LoopItems(agenda, Plain)
  <1>1. agenda # <<>> /\ Todo.op = "fire" /\ ~(Todo.op = "loop")
    BY DEF DoFire, IsNext
  <1>2. /\ PlainAgenda(s) /\ Begun(s) /\ PlainItem(Todo)
        /\ LoopItems(s, Plain) = loops
    BY <1>1, PlainPop
  <1>3. Todo.list = Plain
    BY <1>1, <1>2 DEF PlainItem
  <1>4. /\ lists' = [lists EXCEPT ![Plain] = new]
        /\ agenda' = LoopOf(Plain, memory, starts) \o s
        /\ due' = IF starts THEN DueOf(Plain, new) ELSE due
    BY <1>3 DEF DoFire
  <1>5. PlainOK(cb) /\ (loops # {} => cb.firing) /\ DueOK(cb, loops, due)
    BY DEF PInv, PlainGoing, DueNow
  <1>6. starts \in BOOLEAN /\ (starts => ~cb.firing /\ ~cb.disabled)
    BY DEF Starts, Accepts
  <1> HIDE DEF cb, data, memory, s, loops
  <1>7. IsList(cb) /\ IsSeq(cb.list) /\ Len(cb.list) \in Nat
    BY <1>5, IsSeqFacts DEF PlainOK
  <1>8. /\ new.list = cb.list /\ (new.disabled <=> cb.disabled)
        /\ ~starts => (new.firing <=> cb.firing) /\ new.firingIndex = cb.firingIndex
        /\ starts => new.firingIndex = 0
    BY <1>7, FireWithFields
  <1> HIDE DEF new, starts
  <1>9. LoopItems(agenda', Plain) = IF starts THEN {Loop(Plain, memory[1], "first")} ELSE loops
    BY <1>2, <1>4, <1>5, <1>6, LoopsAfter
  <1>10. CASE starts
    <2>1. IsSeq(new.list) /\ ~new.disabled /\ new.firingIndex \in 0..Len(new.list)
      BY <1>6, <1>7, <1>8, <1>10
    <2>2. DueOK(new, {Loop(Plain, memory[1], "first")}, DueOf(Plain, new))
      BY <2>1, DueStarts
    <2> QED
      BY <1>4, <1>9, <1>10, <2>2, DueNext
  <1>11. CASE ~starts
    <2>1. DueOK(new, loops, due)
      BY <1>5, <1>8, <1>11 DEF DueOK, From, Ahead
    <2> QED
      BY <1>4, <1>9, <1>11, <2>1, DueNext
  <1> QED
    BY <1>10, <1>11

\* The list as its loop finds it, which has come to the place where it takes up.
LEMMA LoopingAt ==
  ASSUME PInv, IsNext("loop")
  PROVE  /\ LoopItems(agenda, Plain) = {Todo} /\ Todo.on \in {"first", "next", "stop"}
         /\ Looping.list = lists[Plain].list /\ (Looping.disabled <=> lists[Plain].disabled)
         /\ Looping.firingLength = lists[Plain].firingLength
         /\ Todo.on # "stop" => Looping.firingIndex = From(lists[Plain], Todo)
         /\ Looping.firingIndex \in Int
  <1> DEFINE cb == lists[Plain]
             new == Looping
  <1>1. agenda # <<>> /\ Todo.op = "loop"
    BY DEF IsNext
  <1>2. Todo.list = Plain /\ Todo.on \in {"first", "next", "stop"} /\ LoopItems(Rest, Plain) = {}
    BY PlainLooping
  <1>3. LoopItems(agenda, Plain) = {Todo}
    <2>1. Items(agenda) = {Todo} \cup Items(Rest)
      BY <1>1, TailIsSeq DEF PInv, PlainAgenda, Todo, Rest
    <2> QED
      BY <1>1, <1>2, <2>1 DEF LoopItems
  <1>4. PlainOK(cb)
    BY DEF PInv
  <1>5. new = IF Todo.on = "next" THEN [cb EXCEPT !.firingIndex = @ + 1]
              ELSE IF Todo.on = "stop" THEN [cb EXCEPT !.memory = <<>>]
              ELSE cb
    BY <1>2 DEF Looping
  <1> HIDE DEF cb, new
  <1>6. /\ new.list = cb.list /\ (new.disabled <=> cb.disabled)
        /\ new.firingLength = cb.firingLength
        /\ Todo.on = "next" => new.firingIndex = cb.firingIndex + 1
        /\ Todo.on # "next" => new.firingIndex = cb.firingIndex
    BY <1>2, <1>4, <1>5 DEF PlainOK, IsList
  <1>7. Todo.on # "stop" => new.firingIndex = From(cb, Todo)
    BY <1>6 DEF From
  <1>8. new.firingIndex \in Int
    BY <1>4, <1>6 DEF PlainOK
  <1> QED
    BY <1>2, <1>3, <1>6, <1>7, <1>8 DEF cb, new

LEMMA DueEndsStep ==
  ASSUME PInv, DueNow, LoopEnds
  PROVE  DueNow'
  <1> DEFINE cb == Looping
             old == lists[Plain]
             new == EndFire(cb)
             again == FiresAgain(cb)
             s == Rest
             memory == SubSeq(cb.stack, 1, 1)
  <1>1. IsNext("loop") /\ (Todo.on = "stop" \/ ~GoesOn(cb))
    BY DEF LoopEnds
  <1>2. /\ Todo.list = Plain /\ PlainOK(cb) /\ cb.firing
        /\ PlainAgenda(s) /\ Begun(s) /\ LoopItems(s, Plain) = {}
    BY <1>1, PlainLooping
  <1>3. /\ lists' = [lists EXCEPT ![Plain] = new]
        /\ agenda' = LoopOf(Plain, memory, again) \o s
        /\ due' = IF again THEN DueOf(Plain, new)
                  ELSE IF Todo.on = "stop" THEN [due EXCEPT !.fns = <<>>] ELSE due
    BY <1>2 DEF LoopEnds
  <1>4. again \in BOOLEAN
    BY DEF FiresAgain
  <1>5. /\ LoopItems(agenda, Plain) = {Todo}
        /\ cb.list = old.list /\ (cb.disabled <=> old.disabled)
        /\ Todo.on # "stop" => cb.firingIndex = From(old, Todo)
        /\ cb.firingIndex \in Int
    BY <1>1, LoopingAt
  <1>6. DueOK(old, {Todo}, due) /\ due \in [fns : {due.fns}, emptied : BOOLEAN]
    BY <1>5, DueStays DEF DueNow
  <1> HIDE DEF cb, s, memory, old
  <1>7. IsList(cb) /\ IsSeq(cb.list) /\ Len(cb.list) \in Nat
    BY <1>2, IsSeqFacts DEF PlainOK
  <1>8. /\ (new.firing <=> again)
        /\ again => new.list = cb.list /\ ~new.disabled /\ new.firingIndex = 0
    BY <1>7, EndFireFields
  <1> HIDE DEF new, again
  <1>9. LoopItems(agenda', Plain) = IF again THEN {Loop(Plain, memory[1], "first")} ELSE {}
    BY <1>2, <1>3, <1>4, LoopsAfter
  <1>10. CASE again
    <2>1. IsSeq(new.list) /\ ~new.disabled /\ new.firingIndex \in 0..Len(new.list)
      BY <1>7, <1>8, <1>10
    <2>2. DueOK(new, {Loop(Plain, memory[1], "first")}, DueOf(Plain, new))
      BY <2>1, DueStarts
    <2> QED
      BY <1>3, <1>9, <1>10, <2>2, DueNext
  <1>11. CASE ~again
    <2>1. ASSUME ~due.emptied PROVE due'.fns = <<>>
      <3>1. CASE Todo.on = "stop"
        BY <1>3, <1>6, <1>11, <3>1
      <3>2. CASE Todo.on # "stop" /\ cb.disabled
        <4>1. due.fns = <<>>
          BY <1>5, <1>6, <2>1, <3>2 DEF DueOK
        <4> QED
          BY <1>3, <1>11, <3>2, <4>1
      <3>3. CASE Todo.on # "stop" /\ ~cb.disabled
        <4> DEFINE from == From(old, Todo)
                   n == Len(cb.list)
        <4>1. from \in 0..n /\ due.fns = SubSeq(cb.list, from + 1, n)
          BY <1>5, <1>6, <2>1, <3>3 DEF DueOK, Ahead
        <4>2. ~(from < n)
          <5>1. ~(cb.firingIndex < cb.firingLength)
            BY <1>1, <3>3 DEF GoesOn
          <5>2. cb.firingLength = n /\ cb.firingIndex = from
            BY <1>2, <1>5, <3>3 DEF PlainOK
          <5> QED
            BY <5>1, <5>2
        <4> HIDE DEF from
        <4>3. from = n
          BY <1>7, <4>1, <4>2
        <4>4. due.fns = <<>>
          BY <1>7, <4>1, <4>3, AheadOver
        <4> QED
          BY <1>3, <1>11, <3>3, <4>4
      <3> QED
        BY <3>1, <3>2, <3>3
    <2>2. due'.emptied = due.emptied
      BY <1>3, <1>6, <1>11
    <2>3. DueOK(new, {}, due')
      BY <1>8, <1>11, <2>1, <2>2 DEF DueOK
    <2> QED
      BY <1>3, <1>9, <1>11, <2>3, DueNext
  <1> QED
    BY <1>10, <1>11

LEMMA DueUserStep ==
  ASSUME PInv, DueNow, CallUser
  PROVE  DueNow'
  <1> DEFINE cb == Looping
             old == lists[Plain]
             s == Rest
             loop == Loop(Plain, Todo.data, "next")
             run == Run(Callee, Todo.data)
             u == <<loop>> \o s
             fn == Callee
             n == Len(cb.list)
  <1>1. IsNext("loop") /\ Todo.on # "stop" /\ GoesOn(cb)
    BY DEF CallUser, Comes
  <1>2. /\ Todo.list = Plain /\ PlainOK(cb) /\ cb.firing
        /\ PlainAgenda(s) /\ Begun(s) /\ LoopItems(s, Plain) = {}
    BY <1>1, PlainLooping
  <1>3. /\ lists' = [lists EXCEPT ![Plain] = cb]
        /\ agenda' = <<run>> \o <<loop>> \o s
        /\ due' = [due EXCEPT !.fns = IF @ # <<>> /\ Head(@) = fn THEN Tail(@) ELSE Append(@, fn)]
    BY <1>2 DEF CallUser, CallsIt
  <1>4. PlainItem(loop) /\ loop.op = "loop" /\ loop.on = "next" /\ PlainItem(run) /\ run.op = "run"
    BY DEF PlainItem, Loop, Run, Do
  <1>5. /\ LoopItems(agenda, Plain) = {Todo}
        /\ cb.list = old.list /\ (cb.disabled <=> old.disabled)
        /\ cb.firingIndex = From(old, Todo)
    BY <1>1, LoopingAt
  <1>6. DueOK(old, {Todo}, due) /\ due \in [fns : {due.fns}, emptied : BOOLEAN]
    BY <1>5, DueStays DEF DueNow
  <1>7. fn = cb.list[cb.firingIndex + 1]
    BY DEF Callee, Current
  <1> HIDE DEF cb, s, loop, run, old, fn
  <1>8. agenda' = <<run>> \o u
    <2> DEFINE r == <<run>>
               k == <<loop>>
    <2>1. IsSeq(r) /\ IsSeq(k) /\ IsSeq(s)
      BY <1>2, ShortIsSeq DEF PlainAgenda
    <2> HIDE DEF r, k
    <2>2. (r \o k) \o s = r \o (k \o s)
      BY <2>1, ConcatAssoc
    <2> QED
      BY <1>3, <2>2 DEF r, k
  <1>9. PlainAgenda(u) /\ Begun(u) /\ LoopItems(u, Plain) = {loop}
    <2>1. /\ PlainAgenda(u) /\ Begun(u)
          /\ LoopItems(u, Plain) = {y \in {loop} : y.op = "loop"} \cup LoopItems(s, Plain)
      BY <1>2, <1>4, PlainPut
    <2> HIDE DEF u
    <2> QED
      BY <1>2, <1>4, <2>1
  <1> HIDE DEF u
  <1>10. LoopItems(agenda', Plain) = {loop}
    <2>1. LoopItems(<<run>> \o u, Plain) = {y \in {run} : y.op = "loop"} \cup LoopItems(u, Plain)
      BY <1>4, <1>9, PlainPut
    <2> QED
      BY <1>4, <1>8, <1>9, <2>1
  <1>11. ~cb.disabled /\ IsSeq(cb.list) /\ n \in Nat /\ cb.firingIndex < n
    BY <1>1, <1>2, IsSeqFacts DEF PlainOK, GoesOn
  <1>12. From(cb, loop) = cb.firingIndex + 1
    BY <1>4 DEF From
  <1>13. ASSUME ~due.emptied
         PROVE  From(cb, loop) \in 0..n /\ due'.fns = Ahead(cb, loop)
    <2> DEFINE from == cb.firingIndex
               part == SubSeq(cb.list, from + 1, n)
    <2>1. from \in 0..n /\ due.fns = part
      BY <1>1, <1>5, <1>6, <1>11, <1>13 DEF DueOK, Ahead
    <2>2. from < n
      BY <1>11
    <2> HIDE DEF from
    <2>3. /\ part # <<>> /\ Head(part) = cb.list[from + 1]
          /\ Tail(part) = SubSeq(cb.list, (from + 1) + 1, n) /\ from + 1 \in 0..n
      BY <1>11, <2>1, <2>2, AheadNext
    <2> HIDE DEF part
    <2>4. due'.fns = Tail(part)
      BY <1>3, <1>6, <1>7, <2>1, <2>3 DEF from
    <2> QED
      BY <1>12, <2>3, <2>4 DEF Ahead, from
  <1>14. due'.emptied = due.emptied
    BY <1>3, <1>6
  <1>15. DueOK(cb, {loop}, due')
    BY <1>11, <1>13, <1>14 DEF DueOK
  <1> QED
    BY <1>3, <1>10, <1>15, DueNext

LEMMA DueReturnStep ==
  ASSUME PInv, DueNow, Return
  PROVE  DueNow'
  <1>1. agenda # <<>> /\ Todo.op # "loop"
    BY DEF Return, IsNext
  <1>2. LoopItems(Rest, Plain) = LoopItems(agenda, Plain)
    BY <1>1, PlainPop
  <1>3. agenda' = Rest /\ lists' = lists /\ due' = due
    BY DEF Return, history
  <1> QED
    BY <1>2, <1>3 DEF DueNow

\* The only loop there is stops.
LEMMA DueStopStep ==
  ASSUME PInv, DueNow, ReturnFalse, PInv'
  PROVE  DueNow'
  <1> DEFINE s == Rest
             u == [s EXCEPT ![1].on = "stop"]
             n == Len(s)
  <1>1. agenda # <<>> /\ Todo.op # "loop" /\ s # <<>> /\ Head(s).op = "loop"
    BY DEF ReturnFalse, IsNext, Caller
  <1>2. PlainAgenda(s) /\ LoopItems(s, Plain) = LoopItems(agenda, Plain)
    BY <1>1, PlainPop
  <1>3. agenda' = u /\ lists' = lists /\ due' = due
    BY DEF ReturnFalse, history
  <1> HIDE DEF s
  <1>4. /\ IsSeq(s) /\ n \in Nat /\ n >= 1 /\ DOMAIN s = 1..n /\ s[1].op = "loop"
        /\ PlainItem(s[1]) /\ s[1] \in Items(s)
    <2>1. IsSeq(s) /\ n \in Nat /\ DOMAIN s = 1..n /\ n >= 1 /\ Head(s) = s[1] /\ Head(s) \in Items(s)
      BY <1>1, <1>2, IsSeqFacts, TailIsSeq DEF PlainAgenda
    <2> QED
      BY <1>1, <1>2, <2>1 DEF PlainAgenda
  <1>5. /\ DOMAIN u = 1..n /\ u[1] = [s[1] EXCEPT !.on = "stop"]
    BY <1>4
  <1>6. u[1].op = "loop" /\ u[1].list = Plain /\ u[1].on = "stop"
    <2> DEFINE x == s[1]
    <2>1. PlainItem(x) /\ x.op = "loop"
      BY <1>4
    <2> HIDE DEF x
    <2>2. /\ [x EXCEPT !.on = "stop"].op = "loop" /\ [x EXCEPT !.on = "stop"].list = Plain
          /\ [x EXCEPT !.on = "stop"].on = "stop"
      BY <2>1 DEF PlainItem
    <2> QED
      BY <1>5, <2>2 DEF x
  <1> HIDE DEF u
  <1>7. IsSeq(u) /\ UniqueLoops(u)
    BY <1>3 DEF PInv, PlainAgenda
  <1>8. Len(u) \in Nat /\ DOMAIN u = 1..Len(u)
    BY <1>7, IsSeqFacts
  <1>9. 1 \in 1..Len(u)
    BY <1>4, <1>5, <1>8
  <1>10. ASSUME NEW x \in LoopItems(u, Plain)
         PROVE  x.on = "stop"
    <2>1. PICK j \in 1..Len(u) : x = u[j] /\ x.op = "loop" /\ x.list = Plain
      BY DEF LoopItems, Items
    <2>2. j = 1
      BY <1>6, <1>7, <1>9, <2>1 DEF UniqueLoops
    <2> QED
      BY <1>6, <2>1, <2>2
  <1>11. s[1] \in LoopItems(agenda, Plain) /\ u[1] \in LoopItems(u, Plain)
    <2>1. s[1] \in LoopItems(s, Plain)
      BY <1>4 DEF LoopItems, PlainItem
    <2>2. u[1] \in LoopItems(u, Plain)
      BY <1>6, <1>9 DEF LoopItems, Items
    <2> QED
      BY <1>2, <2>1, <2>2
  <1>12. DueOK(lists[Plain], LoopItems(u, Plain), due)
    BY <1>10, <1>11 DEF DueNow, DueOK
  <1> QED
    BY <1>3, <1>12 DEF DueNow

\* The callbacks among these that are f.
These(fns, f) == {k \in DOMAIN fns : fns[k] = f}

\* remove(f) while the list fires: the loop has the same before it as it had, without f.
LEMMA AheadRemove ==
  ASSUME NEW cb, PlainOK(cb), cb.firing, NEW x, x.on = "next",
         From(cb, x) \in 0..Len(cb.list), NEW f
  PROVE  LET new == RemoveFn(cb, f)
             part == Ahead(cb, x)
         IN  From(new, x) \in 0..Len(new.list) /\ Without(part, These(part, f)) = Ahead(new, x)
  <1> DEFINE n == Len(cb.list)
             gone == These(cb.list, f)
             new == RemoveFn(cb, f)
             rest == Without(cb.list, gone)
             from == From(cb, x)
             b == UpTo(gone, from)
             part == Ahead(cb, x)
  <1>1. IsList(cb) /\ IsSeq(cb.list) /\ n \in Nat /\ DOMAIN cb.list = 1..n
    BY IsSeqFacts DEF PlainOK
  <1>2. gone \in SUBSET (1..n)
    BY <1>1 DEF These
  <1>3. from = cb.firingIndex + 1 /\ cb.firingIndex \in Int /\ from \in 0..n
    BY DEF From, PlainOK
  <1>4. /\ new.list = rest
        /\ new.firingIndex = cb.firingIndex - Cardinality({k \in gone : k - 1 <= cb.firingIndex})
    <2> DEFINE Below(i) == {k \in gone : k - 1 <= i}
    <2> HIDE DEF gone
    <2>1. RemoveFn(cb, f) =
            [cb EXCEPT !.list = rest,
                       !.firingLength = IF cb.firing THEN @ - Cardinality(Below(@)) ELSE @,
                       !.firingIndex = IF cb.firing THEN @ - Cardinality(Below(@)) ELSE @]
      BY DEF RemoveFn, gone, These
    <2> HIDE DEF rest, Below
    <2>2. new.list = rest /\ new.firingIndex = cb.firingIndex - Cardinality(Below(cb.firingIndex))
      BY <1>1, <2>1 DEF IsList
    <2> QED
      BY <2>2 DEF Below
  <1> HIDE DEF new, gone
  <1>5. {k \in gone : k - 1 <= cb.firingIndex} = {k \in gone : k <= from}
    <2>1. \A k \in gone : k \in Int
      BY <1>2
    <2>2. \A k \in gone : k - 1 <= cb.firingIndex <=> k <= from
      BY <1>3, <2>1
    <2> QED
      BY <2>2
  <1>6. new.firingIndex = cb.firingIndex - b
    BY <1>4, <1>5 DEF UpTo
  <1>7. /\ b \in Nat /\ from - b \in 0..Len(rest)
        /\ Without(part, LostBehind(n, from, gone)) = SubSeq(rest, (from - b) + 1, Len(rest))
    <2> HIDE DEF from
    <2> QED
      BY <1>1, <1>2, <1>3, WithoutBehind DEF Ahead, from
  <1>8. From(new, x) = from - b
    <2>1. From(new, x) = new.firingIndex + 1
      BY DEF From
    <2> HIDE DEF b, from
    <2> QED
      BY <1>3, <1>6, <1>7, <2>1
  <1>9. LostBehind(n, from, gone) = These(part, f)
    <2>1. IsSeq(part) /\ Len(part) = n - from /\ \A j \in 1..(n - from) : part[j] = cb.list[from + j]
      <3> HIDE DEF from
      <3> QED
        BY <1>1, <1>3, AheadFacts DEF Ahead, from
    <2> HIDE DEF part, from
    <2>2. DOMAIN part = 1..(n - from)
      BY <2>1, IsSeqFacts
    <2>3. \A j \in 1..(n - from) : from + j \in 1..n
      BY <1>1, <1>3
    <2>4. \A j \in 1..(n - from) : from + j \in gone <=> part[j] = f
      BY <1>1, <2>1, <2>3 DEF gone, These
    <2> QED
      BY <2>2, <2>4 DEF LostBehind, These
  <1>10. from - b \in 0..Len(new.list) /\ Without(part, These(part, f)) = Ahead(new, x)
    <2> HIDE DEF part, rest, b, from
    <2> QED
      BY <1>4, <1>7, <1>8, <1>9 DEF Ahead
  <1> QED
    BY <1>8, <1>10 DEF new, part

LEMMA NothingWithout ==
  ASSUME NEW f
  PROVE  Without(<<>>, These(<<>>, f)) = <<>>
  <1>1. These(<<>>, f) = {} /\ IsSeq(<<>>) /\ Len(<<>>) = 0
    BY ShortIsSeq DEF These
  <1>2. IsSeq(Without(<<>>, {})) /\ Len(Without(<<>>, {})) = 0 - Cardinality({})
    BY <1>1, WithoutFacts
  <1>3. Cardinality({}) = 0
    BY FS_EmptySet
  <1> DEFINE s == Without(<<>>, {})
  <1> HIDE DEF s
  <1>4. IsSeq(s) /\ Len(s) = 0
    BY <1>2, <1>3 DEF s
  <1>5. s = <<>>
    BY <1>4, IsSeqFacts
  <1> QED
    BY <1>1, <1>5 DEF s

\* The list and what is due after the user's operations on it.
LEMMA DueRemove ==
  ASSUME NEW cb, PlainOK(cb), NEW loops, \A x \in loops : x.op = "loop" /\ x.on \in {"next", "stop"},
         loops # {} => cb.firing,
         NEW d, d \in [fns : {d.fns}, emptied : BOOLEAN], DueOK(cb, loops, d), NEW f
  PROVE  LET new == RemoveFn(cb, f)
         IN  DueOK(new, loops, [d EXCEPT !.fns = IF new.disabled THEN <<>>
                                                 ELSE Without(@, These(@, f))])
  <1> DEFINE new == RemoveFn(cb, f)
             then == [d EXCEPT !.fns = IF new.disabled THEN <<>> ELSE Without(@, These(@, f))]
  <1>1. (new.disabled <=> cb.disabled) /\ (new.firing <=> cb.firing)
    BY DEF RemoveFn, PlainOK, IsList
  <1>2. then.emptied = d.emptied
        /\ then.fns = IF new.disabled THEN <<>> ELSE Without(d.fns, These(d.fns, f))
    OBVIOUS
  <1>3. ASSUME ~d.emptied, ~cb.disabled, loops = {}
        PROVE  then.fns = <<>>
    <2>1. d.fns = <<>>
      BY <1>3 DEF DueOK
    <2> HIDE DEF then, new
    <2> QED
      BY <1>1, <1>2, <1>3, <2>1, NothingWithout
  <1>4. ASSUME ~d.emptied, ~cb.disabled, NEW x \in loops, x.on # "stop"
        PROVE  From(new, x) \in 0..Len(new.list) /\ then.fns = Ahead(new, x)
    <2>1. x.on = "next" /\ cb.firing
      BY <1>4
    <2>2. From(cb, x) \in 0..Len(cb.list) /\ d.fns = Ahead(cb, x)
      BY <1>4 DEF DueOK
    <2>3. From(new, x) \in 0..Len(new.list)
          /\ Without(Ahead(cb, x), These(Ahead(cb, x), f)) = Ahead(new, x)
      BY <2>1, <2>2, AheadRemove
    <2> HIDE DEF then, new
    <2> QED
      BY <1>1, <1>2, <1>4, <2>2, <2>3
  <1> HIDE DEF then, new
  <1>5. DueOK(new, loops, then)
    BY <1>1, <1>2, <1>3, <1>4 DEF DueOK
  <1> QED
    BY <1>5 DEF then, new

LEMMA DueEmpty ==
  ASSUME NEW cb, PlainOK(cb), NEW loops, loops = {} => ~cb.firing, NEW d, d.emptied
  PROVE  DueOK(Empty(cb), loops, d)
  <1>1. Empty(cb).firing <=> cb.firing
    BY PlainEmpty
  <1> QED
    BY <1>1 DEF DueOK

LEMMA DueDisable ==
  ASSUME NEW cb, PlainOK(cb), NEW loops, loops = {} => ~cb.firing, NEW d, d.fns = <<>>
  PROVE  DueOK(Disable(cb), loops, d)
  <1>1. (Disable(cb).firing <=> cb.firing) /\ Disable(cb).disabled
    BY PlainDisable, DisableFields DEF PlainOK
  <1> QED
    BY <1>1 DEF DueOK

LEMMA DueLock ==
  ASSUME NEW cb, PlainOK(cb), NEW loops, NEW d, DueOK(cb, loops, d),
         NEW e, e.emptied = d.emptied, e.fns = IF Lock(cb).disabled THEN <<>> ELSE d.fns
  PROVE  DueOK(Lock(cb), loops, e)
  <1> DEFINE new == Lock(cb)
  <1>1. /\ (new.disabled <=> cb.disabled \/ cb.memory = <<>>)
        /\ cb.memory # <<>> => new.list = cb.list
        /\ (new.firing <=> cb.firing) /\ new.firingIndex = cb.firingIndex
    BY LockFields DEF PlainOK
  <1> HIDE DEF new
  <1>2. ~new.disabled => ~cb.disabled /\ new.list = cb.list
    BY <1>1
  <1>3. e.fns = IF new.disabled THEN <<>> ELSE d.fns
    BY DEF new
  <1>4. DueOK(new, loops, e)
    BY <1>1, <1>2, <1>3 DEF DueOK, From, Ahead
  <1> QED
    BY <1>4 DEF new

LEMMA DueCallStep ==
  ASSUME PInv, DueNow, CallPlain
  PROVE  DueNow'
  <1> DEFINE cb == lists[Plain]
             loops == LoopItems(agenda, Plain)
             Changed(new, newDue) ==
               /\ lists' = [lists EXCEPT ![Plain] = new]
               /\ due' = IF new.disabled THEN [due EXCEPT !.fns = <<>>] ELSE newDue
               /\ agenda' = <<>> \o agenda
             NewDue(f) == [due EXCEPT !.fns = Without(@, These(@, f))]
  <1>1. agenda = <<>> \/ IsNext("run")
    BY DEF CallPlain
  <1>2. PlainAgenda(agenda) /\ Begun(agenda) /\ (loops # {} => cb.firing) /\ PlainOK(cb)
    BY <1>1, PlainFree DEF PInv
  <1>3. <<>> \o agenda = agenda
    BY <1>2, NothingBefore DEF PlainAgenda
  <1>4. DueOK(cb, loops, due) /\ due \in [fns : {due.fns}, emptied : BOOLEAN]
    BY DueStays DEF DueNow
  <1>5. \A x \in loops : x.op = "loop" /\ x.on \in {"next", "stop"}
    BY <1>2 DEF PlainAgenda, PlainItem, Begun, LoopItems
  <1>6. \/ \E x : /\ PlainItem(x) /\ x.op # "loop"
                  /\ agenda' = <<x>> \o agenda /\ lists' = lists /\ due' = due
        \/ \E f : Changed(RemoveFn(cb, f), NewDue(f))
        \/ Changed(Empty(cb), [fns |-> <<>>, emptied |-> TRUE])
        \/ Changed(Disable(cb), due)
        \/ Changed(Lock(cb), due)
    <2>1. \A f : LET x == AddDo(Plain, User(f)) IN PlainItem(x) /\ x.op # "loop"
      BY DEF PlainItem, AddDo, Do, User, Fn
    <2>2. \A data : LET x == FireDo(Plain, data) IN PlainItem(x) /\ x.op # "loop"
      BY DEF PlainItem, FireDo, Do
    <2>3. \/ \E f : agenda' = <<AddDo(Plain, User(f))>> \o agenda /\ lists' = lists /\ due' = due
          \/ agenda' = <<FireDo(Plain, <<Fresh>>)>> \o agenda /\ lists' = lists /\ due' = due
          \/ \E f : Changed(RemoveFn(cb, User(f)), NewDue(User(f)))
          \/ Changed(Empty(cb), [fns |-> <<>>, emptied |-> TRUE])
          \/ Changed(Disable(cb), due)
          \/ Changed(Lock(cb), due)
      BY DEF CallPlain, Calls, These
    <2> HIDE DEF Changed, NewDue, cb
    <2> QED
      BY <2>1, <2>2, <2>3
  <1> HIDE DEF cb, loops
  <1>7. ASSUME NEW new, NEW newDue, Changed(new, newDue), DueOK(new, loops, due')
        PROVE  DueNow'
    BY <1>3, <1>7, DueNext DEF loops
  <1>8. ASSUME NEW x, PlainItem(x), x.op # "loop", agenda' = <<x>> \o agenda,
               lists' = lists, due' = due
        PROVE  DueNow'
    <2> DEFINE s == agenda
    <2> HIDE DEF s
    <2>1. PlainAgenda(s) /\ Begun(s)
      BY <1>2 DEF s
    <2>2. LoopItems(<<x>> \o s, Plain) = {y \in {x} : y.op = "loop"} \cup LoopItems(s, Plain)
      BY <1>8, <2>1, PlainPut
    <2>3. LoopItems(agenda', Plain) = loops
      BY <1>8, <2>2 DEF s, loops
    <2> QED
      BY <1>8, <2>3 DEF DueNow, loops
  <1>9. ASSUME NEW f, Changed(RemoveFn(cb, f), NewDue(f))
        PROVE  DueNow'
    <2> DEFINE new == RemoveFn(cb, f)
    <2>1. DueOK(new, loops, [due EXCEPT !.fns = IF new.disabled THEN <<>>
                                                ELSE Without(@, These(@, f))])
      BY <1>2, <1>4, <1>5, DueRemove
    <2>2. Changed(new, NewDue(f))
      BY <1>9
    <2> HIDE DEF new
    <2>3. due' = [due EXCEPT !.fns = IF new.disabled THEN <<>> ELSE Without(@, These(@, f))]
      <3>1. CASE new.disabled
        BY <2>2, <3>1
      <3>2. CASE ~new.disabled
        BY <2>2, <3>2
      <3> QED
        BY <3>1, <3>2
    <2>4. DueOK(new, loops, due')
      BY <2>1, <2>3
    <2> HIDE DEF Changed
    <2> QED
      BY <1>7, <2>2, <2>4
  <1>10. loops = {} => ~cb.firing
    BY <1>4 DEF DueOK
  <1>11. ASSUME Changed(Empty(cb), [fns |-> <<>>, emptied |-> TRUE])
         PROVE  DueNow'
    <2>1. ~Empty(cb).disabled
      BY <1>2 DEF Empty, PlainOK, IsList
    <2>2. due'.emptied
      BY <1>11, <2>1
    <2>3. DueOK(Empty(cb), loops, due')
      BY <1>2, <1>10, <2>2, DueEmpty
    <2> HIDE DEF Changed
    <2> QED
      BY <1>7, <1>11, <2>3
  <1>12. ASSUME Changed(Disable(cb), due)
         PROVE  DueNow'
    <2>1. Disable(cb).disabled
      BY <1>2, DisableFields DEF PlainOK
    <2>2. due'.fns = <<>>
      BY <1>4, <1>12, <2>1
    <2>3. DueOK(Disable(cb), loops, due')
      BY <1>2, <1>10, <2>2, DueDisable
    <2> HIDE DEF Changed
    <2> QED
      BY <1>7, <1>12, <2>3
  <1>13. ASSUME Changed(Lock(cb), due)
         PROVE  DueNow'
    <2> DEFINE new == Lock(cb)
               after == due'
    <2>1. after = IF new.disabled THEN [due EXCEPT !.fns = <<>>] ELSE due
      BY <1>13
    <2> HIDE DEF after, new
    <2>2. after.emptied = due.emptied /\ after.fns = IF new.disabled THEN <<>> ELSE due.fns
      BY <1>4, <2>1
    <2>3. DueOK(Lock(cb), loops, after)
      BY <1>2, <1>4, <2>2, DueLock DEF new
    <2> HIDE DEF Changed
    <2> QED
      BY <1>7, <1>13, <2>3 DEF after
  <1> HIDE DEF Changed, NewDue
  <1> QED
    BY <1>6, <1>8, <1>9, <1>11, <1>12, <1>13

\* A throw ends a loop, and there is none but the list's.
LEMMA DueThrowStep ==
  ASSUME PInv, Throw
  PROVE  Plain \in broken'
  <1> DEFINE loops == {agenda[i].list : i \in {j \in DOMAIN agenda : agenda[j].op = "loop"}}
  <1>1. loops # {} /\ broken' = broken \cup loops
    BY DEF Throw
  <1>2. \A l \in loops : l = Plain
    <2>1. DOMAIN agenda = 1..Len(agenda) /\ \A x \in Items(agenda) : PlainItem(x)
      BY IsSeqFacts DEF PInv, PlainAgenda
    <2>2. \A j \in DOMAIN agenda : agenda[j].op = "loop" => agenda[j].list = Plain
      BY <2>1 DEF Items, PlainItem
    <2> QED
      BY <2>2
  <1> HIDE DEF loops
  <1> QED
    BY <1>1, <1>2

LEMMA BrokenStays ==
  ASSUME [Next]_vars, Plain \in broken
  PROVE  Plain \in broken'
  <1>1. CASE UNCHANGED vars
    BY <1>1 DEF vars, history
  <1>2. CASE DoAdd \/ DoFire \/ LoopEnds \/ CallUser
    BY <1>2 DEF DoAdd, DoFire, LoopEnds, CallUser
  <1>3. CASE CallSettling \/ CallFire \/ CallForward \/ CallUpdate \/ WhenReady
    BY <1>3 DEF CallSettling, CallFire, CallForward, CallUpdate, WhenReady, history
  <1>4. CASE UserNext
    <2>1. CASE CallPlain \/ Return \/ ReturnFalse \/ ReturnValue \/ Throw
      BY <2>1 DEF CallPlain, Return, ReturnFalse, ReturnValue, Throw, history
    <2>2. ASSUME NEW d,
                 \/ \E kind : CallAdd(d, kind) \/ CallSettle(d, kind)
                 \/ CallAlways(d)
                 \/ \E hasFn : CallThen(d, hasFn)
                 \/ \E d2 : CallWhen(d, d2)
                 \/ ReturnPromise(d)
          PROVE  broken' = broken
      BY <2>2 DEF CallAdd, CallSettle, CallAlways, CallThen, CallWhen, ReturnPromise, history
    <2> QED
      BY <1>4, <2>1, <2>2 DEF UserNext
  <1>5. CASE Wait
    BY <1>1, <1>5 DEF Wait
  <1> QED
    BY <1>1, <1>2, <1>3, <1>4, <1>5 DEF Next

LEMMA PlainDueStep ==
  ASSUME PInv, Plain \in broken \/ DueNow, [Next]_vars
  PROVE  Plain \in broken' \/ DueNow'
  <1> SUFFICES ASSUME DueNow PROVE Plain \in broken' \/ DueNow'
    BY BrokenStays
  <1>1. CASE UNCHANGED vars
    BY <1>1 DEF vars, program, history, DueNow
  <1>2. CASE DoAdd
    BY <1>2, DueAddStep
  <1>3. CASE DoFire
    BY <1>3, DueFireStep
  <1>4. CASE LoopEnds
    BY <1>4, DueEndsStep
  <1>5. CASE CallUser
    BY <1>5, DueUserStep
  <1>6. CASE UserNext
    <2>1. CASE CallPlain
      BY <2>1, DueCallStep
    <2>2. CASE Return
      BY <2>2, DueReturnStep
    <2>3. CASE ReturnFalse
      BY <2>3, DueStopStep, PlainStopStep
    <2>4. CASE Throw
      BY <2>4, DueThrowStep
    <2> QED
      BY <1>6, <2>1, <2>2, <2>3, <2>4, PlainOnly DEF UserNext
  <1>7. CASE Wait
    BY <1>1, <1>7 DEF Wait
  <1> QED
    BY <1>1, <1>2, <1>3, <1>4, <1>5, <1>6, <1>7, PlainOnly DEF Next

\* With deferreds nothing is due.
LEMMA NothingDueStep ==
  ASSUME DInv, due.fns = <<>>, [Next]_vars
  PROVE  due'.fns = <<>>
  <1>1. Plain \notin ListsOf(Len(state)) /\ Plain \notin DOMAIN lists
    BY DEF ListsOf, Plain, DInv, Shape
  <1>2. due \in [fns : {due.fns}, emptied : BOOLEAN]
    BY DEF DInv, HistoryOK
  <1>3. ASSUME agenda # <<>>, Todo.op \in {"add", "fire", "loop"}
        PROVE  Todo.list # Plain
    <2>1. Todo \in Items(agenda)
      BY <1>3, TailIsSeq DEF DInv, AgendaOK, AgendaIs, Todo
    <2>2. KnownItem(Todo, Len(state), Len(masters))
      BY <2>1 DEF DInv, AgendaOK, AgendaIs, AllKnown
    <2> QED
      BY <1>1, <1>3, <2>2 DEF KnownItem
  <1>4. CASE UNCHANGED vars
    BY <1>4 DEF vars, history
  <1>5. CASE DoAdd
    BY <1>3, <1>5 DEF DoAdd, IsNext, DueOf
  <1>6. CASE DoFire
    BY <1>3, <1>6 DEF DoFire, IsNext, DueOf
  <1>7. CASE LoopEnds
    <2>1. Todo.list # Plain /\ \A cb : DueOf(Todo.list, cb) = due
      BY <1>3, <1>7 DEF LoopEnds, IsNext, DueOf
    <2>2. due' = due \/ due' = [due EXCEPT !.fns = <<>>]
      BY <1>7, <2>1 DEF LoopEnds
    <2> QED
      BY <1>2, <2>2
  <1>8. CASE CallUser
    BY <1>3, <1>8 DEF CallUser, Comes, IsNext
  <1>9. CASE CallSettling \/ CallFire \/ CallForward \/ CallUpdate \/ WhenReady
    BY <1>9 DEF CallSettling, CallFire, CallForward, CallUpdate, WhenReady, history
  <1>10. CASE UserNext
    <2>1. CASE Return \/ ReturnFalse \/ ReturnValue
      BY <2>1 DEF Return, ReturnFalse, ReturnValue, history
    <2>2. CASE Throw
      <3>1. due' = [due EXCEPT !.fns = <<>>]
        BY <2>2 DEF Throw
      <3> QED
        BY <1>2, <3>1
    <2>3. ASSUME NEW d,
                 \/ \E kind : CallAdd(d, kind) \/ CallSettle(d, kind)
                 \/ CallAlways(d)
                 \/ \E hasFn : CallThen(d, hasFn)
                 \/ \E d2 : CallWhen(d, d2)
                 \/ ReturnPromise(d)
          PROVE  due' = due
      BY <2>3 DEF CallAdd, CallSettle, CallAlways, CallThen, CallWhen, ReturnPromise, history
    <2>4. ~CallPlain
      BY <1>1 DEF CallPlain
    <2> QED
      BY <1>10, <2>1, <2>2, <2>3, <2>4 DEF UserNext
  <1>11. CASE Wait
    BY <1>4, <1>11 DEF Wait
  <1> QED
    BY <1>4, <1>5, <1>6, <1>7, <1>8, <1>9, <1>10, <1>11 DEF Next

\* With deferreds nothing is due; with a list by itself, what its loop has before it.
DueInv ==
  \/ DInv /\ due.fns = <<>>
  \/ PInv /\ (Plain \in broken \/ DueNow)

LEMMA DueStarting == Init => DueInv
  <1> SUFFICES ASSUME Init PROVE DueInv
    OBVIOUS
  <1>1. due = [fns |-> <<>>, emptied |-> FALSE] /\ agenda = <<>>
    BY DEF Init
  <1>2. CASE Plain \notin DOMAIN lists
    BY <1>1, <1>2, DeferredInit DEF DueInv
  <1>3. CASE Plain \in DOMAIN lists
    <2>1. PInv
      BY <1>3, PlainInit
    <2>2. ~lists[Plain].firing
      <3>1. PICK options \in PlainOptions : lists = [l \in {Plain} |-> NewCallbacks(options)]
        <4>1. Plain \notin (1..UserDeferreds) \X Kinds
          BY DEF Plain
        <4> QED
          BY <1>3, <4>1 DEF Init
      <3>2. lists[Plain] = NewCallbacks(options)
        BY <3>1
      <3> QED
        BY <3>2 DEF NewCallbacks
    <2>3. LoopItems(agenda, Plain) = {}
      BY <1>1, ShortIsSeq DEF LoopItems
    <2>4. DueNow
      BY <1>1, <2>2, <2>3 DEF DueNow, DueOK
    <2> QED
      BY <2>1, <2>4 DEF DueInv
  <1> QED
    BY <1>2, <1>3

LEMMA DueStep == DueInv /\ [Next]_vars => DueInv'
  <1> SUFFICES ASSUME DueInv, [Next]_vars PROVE DueInv'
    OBVIOUS
  <1>1. CASE DInv /\ due.fns = <<>>
    <2>1. DInv'
      BY <1>1, DeferredStep
    <2>2. due'.fns = <<>>
      BY <1>1, NothingDueStep
    <2> QED
      BY <2>1, <2>2 DEF DueInv
  <1>2. CASE PInv /\ (Plain \in broken \/ DueNow)
    <2>1. PInv'
      BY <1>2, PlainStep
    <2>2. Plain \in broken' \/ DueNow'
      BY <1>2, PlainDueStep
    <2> QED
      BY <2>1, <2>2 DEF DueInv
  <1> QED
    BY <1>1, <1>2 DEF DueInv

--------------------------------------------------------------------------------
(* Theorems                                                                *)

DeferredInv == DInv \/ PInv

LEMMA InvStarts == Init => DeferredInv
  BY DeferredInit, PlainInit DEF DeferredInv

LEMMA InvStep == DeferredInv /\ [Next]_vars => DeferredInv'
  BY DeferredStep, PlainStep DEF DeferredInv

\* jquery-l.js:2964-3178: the lists are well formed: a list that is firing counts as
\* fired, and its index is at most one below the first place, however often callbacks
\* remove themselves.
THEOREM TypesAreRight == Spec => []TypeOK
  <1>1. ASSUME DInv PROVE TypeOK
    <2>1. \A l \in DOMAIN lists :
            /\ lists[l].options \subseteq Options
            /\ lists[l].firing => lists[l].fired
            /\ lists[l].firingIndex \in Int /\ lists[l].firingLength \in Nat
      <3>1. \A l \in DOMAIN lists :
              ListOK(l, lists[l], LoopItems(agenda, l), Len(state), Len(masters))
        BY <1>1, Basics DEF DInv, ListsOK
      <3> QED
        BY <3>1 DEF ListOK, IsList
    <2>2. /\ Len(state) <= MaxDeferreds
          /\ \A d \in DOMAIN state : state[d] \in {"pending", "resolved", "rejected"}
      <3>1. state \in Seq(Outcomes) /\ Len(state) \in 1..MaxDeferreds /\ MaxDeferreds \in Nat
        BY <1>1, DeferredAssumption DEF DInv, Shape
      <3>2. \A d \in DOMAIN state : state[d] \in Outcomes
        BY <3>1, ElementOfSeq, LenProperties
      <3> QED
        BY <3>1, <3>2 DEF Outcomes
    <2>3. calls <= MaxCalls /\ due.emptied \in BOOLEAN
      BY <1>1, DeferredAssumption DEF DInv, HistoryOK
    <2> QED
      BY <2>1, <2>2, <2>3 DEF TypeOK
  <1>2. ASSUME PInv PROVE TypeOK
    <2>1. DOMAIN lists = {Plain} /\ PlainOK(lists[Plain])
      BY <1>2 DEF PInv, PlainShape
    <2>2. \A l \in DOMAIN lists :
            /\ lists[l].options \subseteq Options
            /\ lists[l].firing => lists[l].fired
            /\ lists[l].firingIndex \in Int /\ lists[l].firingLength \in Nat
      BY <2>1 DEF PlainOK, IsList
    <2>3. state = <<>> /\ calls <= MaxPlainCalls /\ due.emptied \in BOOLEAN
      BY <1>2, DeferredAssumption DEF PInv, PlainShape
    <2>4. DOMAIN state = {} /\ Len(state) = 0 /\ 0 <= MaxDeferreds
      BY <2>3, DeferredAssumption
    <2> QED
      BY <2>2, <2>3, <2>4 DEF TypeOK
  <1>3. DeferredInv => TypeOK
    BY <1>1, <1>2 DEF DeferredInv
  <1> QED
    BY <1>3, InvStarts, InvStep, PTL DEF Spec

\* jquery-l.js:3180-3265: when nothing is left to do, no callback of a deferred that has
\* been settled is still waiting, except where a callback threw in its loop.
THEOREM AllAreCalled == Spec => []AllCalled
  <1>1. ASSUME DInv PROVE AllCalled
    <2> SUFFICES ASSUME Idle, NEW l \in DOMAIN lists \cap DOMAIN waiting,
                        lists[l].fired, l \notin broken
                 PROVE  waiting[l] = <<>>
      BY DEF AllCalled
    <2>1. l \in WaysOf(Len(state))
      BY <1>1, Basics
    <2>2. WayOK(l, lists[l], waiting[l], LoopItems(agenda, l), broken)
      BY <1>1, <2>1 DEF DInv, ListsOK
    <2>3. LoopItems(agenda, l) = {}
      BY ShortIsSeq DEF Idle, LoopItems
    <2> QED
      BY <2>2, <2>3 DEF WayOK
  <1>2. ASSUME PInv PROVE AllCalled
    BY <1>2 DEF PInv, PlainShape, AllCalled
  <1>3. DeferredInv => AllCalled
    BY <1>1, <1>2 DEF DeferredInv
  <1> QED
    BY <1>3, InvStarts, InvStep, PTL DEF Spec

LEMMA PromiseStarts == Init => Promised!PromiseInit
  <1> SUFFICES ASSUME Init PROVE Promised!PromiseInit
    OBVIOUS
  <1>1. WaitingFor = [d \in 1..MaxDeferreds |-> [w \in Ways |-> <<>>]] /\ latest = <<>>
    BY DEF Init, WaitingFor
  <1>2. Verdicts = [d \in 1..MaxDeferreds |-> <<>>]
    <2>1. CASE PInv
      BY <2>1, PlainHasNoPromise DEF NoPromise
    <2>2. CASE DInv
      <3>1. GoneOneWay(lists, Len(state)) /\ Len(state) \in Nat
        BY <2>2, InvOneWay
      <3>2. \A d \in 1..Len(state), w \in Ways : ~lists[<<d, w>>].fired
        <4>1. /\ lists = [l \in ListsOf(UserDeferreds) |-> NewList(l)]
              /\ Len(state) = UserDeferreds
          <5>1. Plain \notin DOMAIN lists
            BY <2>2 DEF DInv, Shape
          <5>2. /\ lists = [l \in ListsOf(UserDeferreds) |-> NewList(l)]
                /\ state = [d \in 1..UserDeferreds |-> "pending"]
            BY <5>1 DEF Init, ListsOf
          <5>3. UserDeferreds \in Nat
            BY DeferredAssumption
          <5>4. state \in [1..UserDeferreds -> {"pending"}]
            BY <5>2
          <5> QED
            BY <5>2, <5>3, <5>4, FunctionIsSeq
        <4>2. \A l \in ListsOf(Len(state)) : lists[l] = NewList(l)
          BY <4>1
        <4>3. \A d \in 1..Len(state), w \in Ways : <<d, w>> \in ListsOf(Len(state))
          BY WayFacts
        <4>4. \A l \in ListsOf(Len(state)) : ~lists[l].fired
          BY <4>2, NewListOK
        <4> QED
          BY <4>3, <4>4
      <3>3. \A d : Verdict(d, lists) = <<>>
        BY <3>1, <3>2, VerdictIs
      <3> QED
        BY <3>3 DEF Verdicts
    <2> QED
      BY <2>1, <2>2, InvStarts DEF DeferredInv
  <1> QED
    BY <1>1, <1>2 DEF Promised!PromiseInit

\* jquery-l.js:3180-3265: each deferred is settled once, and its callbacks called once, in
\* order and with the value it was settled with.
THEOREM PromiseIsKept == Spec => PromiseImplemented
  <1>1. DeferredInv /\ [Next]_vars => [Promised!PromiseNext]_(Promised!promiseVars)
    <2> SUFFICES ASSUME DeferredInv, [Next]_vars
                 PROVE  Promised!PromiseNext \/ UNCHANGED Promised!promiseVars
      OBVIOUS
    <2>1. CASE PInv
      <3>1. PInv'
        BY <2>1, PlainStep
      <3>2. (PInv => NoPromise)'
        BY PlainHasNoPromise, PTL
      <3>3. NoPromise /\ NoPromise'
        BY <2>1, <3>1, <3>2, PlainHasNoPromise
      <3> QED
        BY <3>3 DEF NoPromise, Promised!promiseVars
    <2>2. CASE DInv
      <3>1. DInv' /\ PromiseStep
        BY <2>2, DeferredStep
      <3>2. Len(state') >= Len(state)
        BY <2>2, StateGrows
      <3>3. CASE Still
        BY <2>2, <3>1, <3>2, <3>3, PromiseStill
      <3>4. ASSUME NEW l, Attaches(l) PROVE Promised!PromiseNext
        BY <2>2, <3>1, <3>2, <3>4, PromiseAttaches
      <3>5. ASSUME NEW l, Settles(l) PROVE Promised!PromiseNext
        BY <2>2, <3>1, <3>5, PromiseSettles
      <3>6. ASSUME NEW l, CallsOne(l) PROVE Promised!PromiseNext
        BY <2>2, <3>1, <3>2, <3>6, PromiseCalls
      <3> QED
        BY <3>1, <3>3, <3>4, <3>5, <3>6 DEF PromiseStep
    <2> QED
      BY <2>1, <2>2 DEF DeferredInv
  <1> QED
    BY <1>1, InvStarts, InvStep, PromiseStarts, PTL DEF Spec, PromiseImplemented, Promised!PromiseSpec

\* jquery-l.js:3040-3065, 3069-3119: when a list by itself is left alone, its loop has
\* called what was in it and what was added meanwhile, each time in order, but what was
\* removed, and nothing else.
THEOREM DueIsFired == Spec => []FiresWhatIsDue
  <1>1. DueInv => FiresWhatIsDue
    <2> SUFFICES ASSUME DueInv, Idle, ~due.emptied, Plain \notin broken PROVE due.fns = <<>>
      BY DEF FiresWhatIsDue
    <2>1. CASE PInv /\ DueNow
      <3>1. LoopItems(agenda, Plain) = {}
        BY ShortIsSeq DEF LoopItems, Idle
      <3> QED
        BY <2>1, <3>1 DEF DueNow, DueOK
    <2> QED
      BY <2>1 DEF DueInv
  <1> QED
    BY <1>1, DueStarting, DueStep, PTL DEF Spec

================================================================================
