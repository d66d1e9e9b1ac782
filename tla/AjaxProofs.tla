------------------------------- MODULE AjaxProofs -------------------------------
(***************************************************************************)
(* Theorems about jQuery.ajax() (module Ajax), for any settings, any       *)
(* handlers, and any number of requests, aborts and throws: the types, the *)
(* counter of active requests, what a request tells its handlers, and the  *)
(* data and callback names of jsonp.                                       *)
(***************************************************************************)
EXTENDS Ajax, DataLemmas

Handlers == ToSet(AllPlaces)

Requests ==
  [jsonp : BOOLEAN, transportOf : {"xhr", "script", "none"}, async : BOOLEAN, timeout : BOOLEAN,
   beforeSend : BOOLEAN, fixed : BOOLEAN, reused : BOOLEAN, global : BOOLEAN, name : 0..MaxRequests,
   overwritten : 0..MaxRequests, container : 0..MaxRequests, state : 0..2, fires : BOOLEAN,
   refused : BOOLEAN, installed : BOOLEAN, transport : BOOLEAN, timer : BOOLEAN,
   outcome : {"pending", "success", "error"}]

Things ==
  [op : {"begin", "transport", "send", "done", "cleanup", "count", "fire", "user"},
   r : 1..MaxRequests, how : Handlers \cup {"", "ok", "garbled", "failed", "error"}]

Numbers == 1..MaxRequests

\* The types.
Shape ==
  /\ requests \in Seq(Requests) /\ Len(requests) <= MaxRequests
  /\ active \in Int
  /\ waiting \subseteq DOMAIN requests /\ loading \subseteq DOMAIN requests
  /\ window \in [0..MaxRequests -> 0..MaxRequests]
  /\ oldCallbacks \in Seq(Numbers)
  /\ agenda \in Seq(Things)
  /\ acts \in 0..MaxActs
  /\ told \in Seq(Seq(Handlers)) /\ Len(told) = Len(requests)
  /\ fate \in [thrown : SUBSET Numbers, early : SUBSET Numbers,
               interfered : SUBSET Numbers, shared : SUBSET Numbers]

\* Nothing exempts the request from what a request should tell.
Sound(r) == r \notin fate.early \cup fate.interfered \cup fate.thrown

\* The way of a request before its answer, and what it may have told there.
Pipeline == {"begin", "transport", "send"}
Opening == {"prefilter", "ajaxStart", "beforeSend", "ajaxSend"}
Ending == {"success", "error", "ajaxSuccess", "ajaxError", "complete", "ajaxComplete", "statusCode"}
Passed(op) == {"prefilter"} \cup (IF op = "begin" THEN {} ELSE {"ajaxStart", "beforeSend"})
                            \cup (IF op = "send" THEN {"ajaxSend"} ELSE {})

\* What is done at once is never behind something else.
AtOnce(x) ==
  \/ x.op \in {"done", "cleanup"}
  \/ x.op = "fire" /\ x.how \in Opening \ {"beforeSend"} /\ Sound(x.r)

\* Two things on the agenda of which x comes first: a request is in its pipeline once and
\* counted down once; its handlers are called in their order, those of the beginning
\* before it goes on, and those of the end before it is counted down.
Before(x, y) ==
  /\ ~AtOnce(y)
  /\ x.r = y.r =>
       /\ ~(x.op \in Pipeline /\ y.op \in Pipeline)
       /\ x.r \notin fate.interfered => ~(x.op = "count" /\ y.op = "count")
       /\ Sound(x.r) =>
            /\ x.op = "fire" /\ y.op = "fire" => Rank(x.how) < Rank(y.how)
            /\ ~(x.op = "count" /\ y.op = "fire")
            /\ ~(x.op = "fire" /\ y.op = "count" /\ x.how = "ajaxStop")
            /\ requests[x.r].state < 2 =>
                 /\ ~(x.op \in Pipeline \cup {"done"} /\ y.op = "fire")
                 /\ x.op = "fire" /\ y.op \in Pipeline => x.how \in Passed(y.op)
                 /\ x.op = "done" /\ y.op = "transport" => requests[x.r].beforeSend
Order == {p \in Things \X Things : Before(p[1], p[2])}

\* What a thing on the agenda says about its request.
InHand(x) ==
  /\ x.r \in DOMAIN requests
  /\ x.op \in Pipeline => requests[x.r].state # 1
  /\ x.op \in Pipeline \cup {"done"} => x.r \notin waiting
  /\ x.op = "begin" => ~requests[x.r].fires
  /\ x.op = "count" => requests[x.r].fires
  /\ x.op = "count" /\ x.r \notin fate.interfered => requests[x.r].state = 2
  /\ x.op \in {"fire", "user"} => x.how \in Places
  /\ Sound(x.r) =>
       /\ x.op = "fire" => \A p \in Items(told[x.r]) : Rank(p) < Rank(x.how)
       /\ x.op = "count" => "ajaxStop" \notin Items(told[x.r])
       /\ x.op = "transport" /\ ~requests[x.r].beforeSend => requests[x.r].state = 0
       /\ requests[x.r].state < 2 =>
            /\ x.op = "fire" => x.how \in Opening
            /\ x.op \in Pipeline => Items(told[x.r]) \subseteq Passed(x.op)

ToFire(r) == {x.how : x \in {y \in Items(agenda) : y.op = "fire" /\ y.r = r}}

InRank == {p \in Handlers \X Handlers : Rank(p[1]) < Rank(p[2])}

\* What is known of a request: the last part says that the handlers of its end have all
\* been told or are about to be.
Known(r) ==
  LET q == requests[r]
  IN /\ q.name = 0 => q.fixed
     /\ q.state = 0 => q.outcome = "pending"
     /\ q.state = 2 => ~q.timer
     /\ r \in waiting => q.state = 1 /\ q.transport
     /\ r \notin fate.interfered => (q.outcome = "pending" <=> q.state < 2)
     /\ Sound(r) =>
          /\ InSequence(told[r], InRank)
          /\ q.state < 2 => Items(told[r]) \subseteq Opening
          /\ q.state = 2 => (Items(told[r]) \cup ToFire(r)) \cap Ending = Due(r)

\* The requests that are counted as active, or are still to be counted down.
CountsDown(r) == \E x \in Items(agenda) : x.op = "count" /\ x.r = r
Counted == {r \in DOMAIN requests : requests[r].fires /\ (Pending(r) \/ CountsDown(r))}
CountOK == fate.thrown = {} /\ fate.interfered = {} => active = Cardinality(Counted)

IInv ==
  /\ Shape
  /\ InSequence(agenda, Order)
  /\ \A x \in Items(agenda) : InHand(x)
  /\ \A r \in DOMAIN requests : Known(r)
  /\ CountOK

--------------------------------------------------------------------------------
(* The handlers and their ranks                                            *)

LEMMA HandlerSet ==
  Handlers = {"prefilter", "ajaxStart", "beforeSend", "ajaxSend", "success", "error",
              "statusCode", "ajaxSuccess", "ajaxError", "complete", "ajaxComplete", "ajaxStop"}
  <1>1. Len(AllPlaces) = 12 /\ DOMAIN AllPlaces = 1..12
    BY DEF AllPlaces
  <1>2. 1..12 = {1, 2, 3, 4, 5, 6, 7, 8, 9, 10, 11, 12}
    OBVIOUS
  <1> QED
    BY <1>1, <1>2 DEF Handlers, ToSet, AllPlaces

LEMMA Ranks ==
  /\ Rank("prefilter") = 1 /\ Rank("ajaxStart") = 2 /\ Rank("beforeSend") = 3
  /\ Rank("ajaxSend") = 4 /\ Rank("success") = 5 /\ Rank("error") = 6 /\ Rank("statusCode") = 7
  /\ Rank("ajaxSuccess") = 8 /\ Rank("ajaxError") = 9 /\ Rank("complete") = 10
  /\ Rank("ajaxComplete") = 11 /\ Rank("ajaxStop") = 12
  <1>1. DOMAIN AllPlaces = 1..12
    BY DEF AllPlaces
  <1>2. \A i \in 1..12, j \in 1..12 : AllPlaces[i] = AllPlaces[j] => i = j
    BY DEF AllPlaces
  <1>3. \A i \in 1..12 : Rank(AllPlaces[i]) = i
    BY <1>1, <1>2 DEF Rank
  <1> QED
    BY <1>3 DEF AllPlaces

--------------------------------------------------------------------------------
(* The agenda                                                              *)

LEMMA FireFacts ==
  ASSUME NEW p \in Handlers, NEW r \in Numbers
  PROVE  /\ IsSeq(Fire(p, r))
         /\ \A R : InSequence(Fire(p, r), R)
         /\ \A x \in Items(Fire(p, r)) :
               x \in Things /\ x.op = "fire" /\ x.r = r /\ x.how = p /\ p \in Places
         /\ p \in Places => \E x \in Items(Fire(p, r)) : x.op = "fire" /\ x.r = r /\ x.how = p
  <1> PICK f : f = Do("fire", r, p)
    OBVIOUS
  <1>1. f \in Things /\ f.op = "fire" /\ f.r = r /\ f.how = p
    BY DEF Do, Things, Numbers
  <1>2. CASE p \in Places
    <2>1. Fire(p, r) = <<f>>
      BY <1>2 DEF Fire
    <2>2. IsSeq(Fire(p, r)) /\ Items(Fire(p, r)) = {f}
      BY <2>1, ShortIsSeq
    <2>3. \A R : InSequence(Fire(p, r), R)
      BY <2>1, InSequenceShort
    <2> QED
      BY <1>1, <1>2, <2>2, <2>3
  <1>3. CASE p \notin Places
    <2>1. Fire(p, r) = <<>>
      BY <1>3 DEF Fire
    <2>2. IsSeq(Fire(p, r)) /\ Items(Fire(p, r)) = {}
      BY <2>1, ShortIsSeq
    <2>3. \A R : InSequence(Fire(p, r), R)
      BY <2>1, InSequenceShort
    <2> QED
      BY <1>3, <2>2, <2>3
  <1> QED
    BY <1>2, <1>3

\* The first thing and the rest.
LEMMA FirstAndRest ==
  ASSUME Shape, InSequence(agenda, Order), agenda # <<>>
  PROVE  /\ Todo \in Items(agenda) /\ Todo \in Things
         /\ IsSeq(Rest) /\ Items(Rest) \subseteq Things /\ Items(Rest) \subseteq Items(agenda)
         /\ Items(agenda) = {Todo} \cup Items(Rest)
         /\ InSequence(Rest, Order)
         /\ \A y \in Items(Rest) : Before(Todo, y)
  <1>1. IsSeq(agenda) /\ Items(agenda) \subseteq Things
    BY SeqIsSeq DEF Shape
  <1>2. /\ IsSeq(Rest) /\ Todo \in Items(agenda) /\ Items(agenda) = {Todo} \cup Items(Rest)
    BY <1>1, TailIsSeq DEF Todo, Rest
  <1>3. InSequence(Rest, Order) /\ \A y \in Items(Rest) : <<Todo, y>> \in Order
    BY <1>1, InSequenceTail DEF Todo, Rest
  <1>4. \A y \in Items(Rest) : Before(Todo, y)
    BY <1>3 DEF Order
  <1> QED
    BY <1>1, <1>2, <1>3, <1>4

--------------------------------------------------------------------------------
(* A step that deals with one request                                      *)

\* What the agenda says of a request stays as it is, and all that the invariant says of it.
SameInHand(x) ==
  /\ requests'[x].state = requests[x].state /\ requests'[x].fires = requests[x].fires
  /\ requests'[x].beforeSend = requests[x].beforeSend
  /\ told'[x] = told[x]
  /\ x \in waiting' <=> x \in waiting
  /\ x \in fate'.early <=> x \in fate.early
  /\ x \in fate'.interfered <=> x \in fate.interfered
  /\ x \in fate'.thrown <=> x \in fate.thrown
SameRequest(x) ==
  /\ SameInHand(x)
  /\ requests'[x].name = requests[x].name /\ requests'[x].fixed = requests[x].fixed
  /\ requests'[x].outcome = requests[x].outcome /\ requests'[x].installed = requests[x].installed
  /\ requests'[x].transport = requests[x].transport /\ requests'[x].timer = requests[x].timer

LEMMA StaysBefore ==
  ASSUME NEW x, NEW y, SameInHand(x.r), Before(x, y), Sound(y.r)' => Sound(y.r)
  PROVE  Before(x, y)'
  <1>1. Sound(x.r)' <=> Sound(x.r)
    BY DEF SameInHand, Sound
  <1> QED
    BY <1>1 DEF Before, SameInHand, AtOnce

LEMMA StaysInHand ==
  ASSUME NEW x, SameInHand(x.r), InHand(x), DOMAIN requests \subseteq DOMAIN requests'
  PROVE  InHand(x)'
  <1>1. Sound(x.r)' <=> Sound(x.r)
    BY DEF SameInHand, Sound
  <1> QED
    BY <1>1 DEF InHand, SameInHand

LEMMA StaysKnown ==
  ASSUME NEW r, SameRequest(r), Known(r), ToFire(r)' = ToFire(r)
  PROVE  Known(r)'
  <1>1. Sound(r)' <=> Sound(r)
    BY DEF SameRequest, SameInHand, Sound
  <1>2. Due(r)' = Due(r)
    BY DEF Due, SameRequest, SameInHand
  <1> QED
    BY <1>1, <1>2 DEF Known, SameRequest, SameInHand

\* The step deals with request r: the rest s of the agenda stays, and things come before it.
DealsWith(r, things, s) ==
  /\ DOMAIN requests \subseteq DOMAIN requests'
  /\ DOMAIN requests' \subseteq DOMAIN requests \cup {r}
  /\ \A x \in DOMAIN requests : x # r => SameRequest(x)
  /\ Sound(r)' => Sound(r)
  /\ IsSeq(things) /\ \A x \in Items(things) : x.r = r
  /\ IsSeq(s) /\ InSequence(s, Order)
  /\ agenda' = things \o s
  /\ Items(s) \subseteq Items(agenda)
  /\ \A x \in Items(agenda) : x \notin Items(s) => x.r = r
  /\ \A y \in Items(s) : ~AtOnce(y)

\* Nothing changes for the other requests.
LEMMA OthersCounted ==
  ASSUME Shape, Shape', NEW r, NEW things, NEW s, DealsWith(r, things, s)
  PROVE  /\ \A x : x # r => (x \in Counted' <=> x \in Counted)
         /\ CountsDown(r)' <=> \E x \in Items(things) \cup Items(s) : x.op = "count" /\ x.r = r
         /\ \A x : x # r => ToFire(x)' = ToFire(x)
         /\ ToFire(r)' = {x.how : x \in {y \in Items(things) \cup Items(s) : y.op = "fire" /\ y.r = r}}
  <1>1. Items(agenda') = Items(things) \cup Items(s)
    BY ConcatIsSeq DEF DealsWith
  <1>2. ASSUME NEW x, x # r
        PROVE  \A y : (y \in Items(agenda') /\ y.r = x) <=> (y \in Items(agenda) /\ y.r = x)
    BY <1>1, <1>2 DEF DealsWith
  <1>3. ASSUME NEW x, x # r PROVE x \in Counted' <=> x \in Counted
    <2>1. CountsDown(x)' <=> CountsDown(x)
      BY <1>2, <1>3 DEF CountsDown
    <2>2. x \in DOMAIN requests' <=> x \in DOMAIN requests
      BY <1>3 DEF DealsWith
    <2>3. x \in DOMAIN requests =>
            requests'[x].fires = requests[x].fires /\ requests'[x].state = requests[x].state
      BY <1>3 DEF DealsWith, SameRequest, SameInHand
    <2> QED
      BY <2>1, <2>2, <2>3 DEF Counted, Pending
  <1>4. ASSUME NEW x, x # r PROVE ToFire(x)' = ToFire(x)
    BY <1>2, <1>4 DEF ToFire
  <1> QED
    BY <1>1, <1>3, <1>4 DEF CountsDown, ToFire

LEMMA CountKept ==
  ASSUME IInv, Shape', NEW r, NEW things, NEW s, DealsWith(r, things, s), UNCHANGED active,
         fate.thrown \subseteq fate'.thrown, fate.interfered \subseteq fate'.interfered,
         fate'.interfered = {} => (r \in Counted' <=> r \in Counted)
  PROVE  CountOK'
  <1>1. \A x : x # r => (x \in Counted' <=> x \in Counted)
    BY OthersCounted DEF IInv
  <1>2. fate'.interfered = {} => Counted' = Counted
    BY <1>1
  <1> QED
    BY <1>2 DEF IInv, CountOK

LEMMA CountedFinite ==
  ASSUME Shape
  PROVE  IsFiniteSet(Counted)
  <1>1. Len(requests) \in Nat /\ DOMAIN requests = 1..Len(requests)
    BY LenProperties DEF Shape
  <1>2. IsFiniteSet(1..Len(requests))
    BY <1>1, FS_Interval
  <1>3. Counted \in SUBSET (1..Len(requests))
    BY <1>1 DEF Counted
  <1> QED
    BY <1>2, <1>3, FS_Subset

LEMMA Assemble ==
  ASSUME IInv, Shape', CountOK',
         NEW r \in Numbers,
         NEW things, NEW s, DealsWith(r, things, s),
         \A x \in Items(things) : InHand(x)',
         InSequence(things, Order'),
         \A x \in Items(things), y \in Items(s) : y.r = r => Before(x, y)',
         \A x, y \in Items(s) : x.r = r /\ y.r = r /\ Before(x, y) => Before(x, y)',
         \A x \in Items(s) : x.r = r => InHand(x)',
         Known(r)'
  PROVE  IInv'
  <1> USE DEF DealsWith
  <1>1. Items(agenda') = Items(things) \cup Items(s) /\ IsSeq(agenda')
    BY ConcatIsSeq
  <1>2. Items(agenda') \subseteq Things
    BY SeqIsSeq DEF Shape
  <1>3. \A x \in Items(agenda) : InHand(x) /\ x.r \in DOMAIN requests
    BY DEF IInv, InHand
  <1>9. ASSUME NEW y \in Items(s) PROVE (Sound(y.r)' => Sound(y.r)) /\ ~AtOnce(y)'
    <2>1. y.r # r => (Sound(y.r)' <=> Sound(y.r))
      BY <1>3 DEF DealsWith, SameRequest, SameInHand, Sound
    <2> QED
      BY <2>1 DEF DealsWith, AtOnce
  <1>4. InSequence(s, Order')
    <2> SUFFICES ASSUME NEW x \in Items(s), NEW y \in Items(s), <<x, y>> \in Order
                 PROVE  <<x, y>> \in Order'
      BY InSequenceWider
    <2>1. Before(x, y) /\ x \in Things /\ y \in Things
      BY DEF Order
    <2>2. CASE x.r # r
      <3>1. SameRequest(x.r)
        BY <1>3, <2>2
      <3>2. Before(x, y)'
        BY <1>9, <2>1, <3>1, StaysBefore DEF SameRequest
      <3> QED
        BY <2>1, <3>2 DEF Order
    <2>3. CASE x.r = r /\ y.r = r
      BY <2>1, <2>3 DEF Order
    <2>4. CASE x.r = r /\ y.r # r
      <3>1. Before(x, y)'
        BY <1>9, <2>4 DEF Before
      <3> QED
        BY <2>1, <3>1 DEF Order
    <2> QED
      BY <2>2, <2>3, <2>4
  <1>5. ASSUME NEW x \in Items(things), NEW y \in Items(s) PROVE <<x, y>> \in Order'
    <2>1. x \in Things /\ y \in Things
      BY <1>1, <1>2
    <2>2. Before(x, y)'
      <3>1. CASE y.r = r
        BY <3>1
      <3>2. CASE y.r # r
        BY <1>2, <1>9, <3>2 DEF Before
      <3> QED
        BY <3>1, <3>2
    <2> QED
      BY <2>1, <2>2 DEF Order
  <1>6. InSequence(agenda', Order')
    BY <1>4, <1>5, InSequenceConcat
  <1>7. ASSUME NEW x \in Items(agenda') PROVE InHand(x)'
    <2>1. CASE x \in Items(things) \/ x.r = r
      BY <1>1, <2>1
    <2>2. CASE x \in Items(s) /\ x.r # r
      <3>1. SameRequest(x.r) /\ InHand(x)
        BY <1>3, <2>2
      <3> QED
        BY <3>1, StaysInHand DEF SameRequest
    <2> QED
      BY <1>1, <2>1, <2>2
  <1>8. ASSUME NEW x \in DOMAIN requests' PROVE Known(x)'
    <2>1. CASE x = r
      BY <2>1
    <2>2. CASE x # r
      <3>1. x \in DOMAIN requests /\ SameRequest(x) /\ Known(x)
        BY <2>2 DEF IInv
      <3>2. \A y : (y \in Items(agenda') /\ y.r = x) <=> (y \in Items(agenda) /\ y.r = x)
        BY <1>1, <2>2
      <3>3. ToFire(x)' = ToFire(x)
        BY <3>2 DEF ToFire
      <3> QED
        BY <3>1, <3>3, StaysKnown
    <2> QED
      BY <2>1, <2>2
  <1> QED
    BY <1>6, <1>7, <1>8 DEF IInv

\* The first thing was all of the work: nothing that the invariant speaks of changes.
LEMMA JustTaken ==
  ASSUME IInv, Shape', agenda # <<>>, agenda' = Rest, Todo.op \notin {"fire", "count"},
         DOMAIN requests' = DOMAIN requests, \A x \in DOMAIN requests : SameRequest(x),
         UNCHANGED <<active, fate>>
  PROVE  IInv'
  <1>0. PICK r : r = Todo.r
    OBVIOUS
  <1>1. /\ Todo \in Items(agenda) /\ Todo \in Things
        /\ IsSeq(Rest) /\ Items(Rest) \subseteq Items(agenda)
        /\ Items(agenda) = {Todo} \cup Items(Rest)
        /\ InSequence(Rest, Order)
        /\ \A y \in Items(Rest) : Before(Todo, y)
    BY FirstAndRest DEF IInv
  <1>2. r \in Numbers /\ r \in DOMAIN requests /\ SameRequest(r)
    BY <1>0, <1>1 DEF Things, Numbers, IInv, InHand
  <1>3. IsSeq(<<>>) /\ Items(<<>>) = {} /\ <<>> \o Rest = Rest
    <2>1. Rest \in Seq(Items(Rest))
      BY <1>1 DEF IsSeq
    <2> QED
      BY <2>1, ShortIsSeq, ConcatEmptySeq
  <1>4. DealsWith(r, <<>>, Rest)
    <2>1. \A y \in Items(Rest) : ~AtOnce(y)
      BY <1>1 DEF Before
    <2>2. \A x \in Items(agenda) : x \notin Items(Rest) => x.r = r
      BY <1>0, <1>1
    <2>3. Sound(r)' => Sound(r)
      BY DEF Sound
    <2> QED
      BY <1>1, <1>2, <1>3, <2>1, <2>2, <2>3 DEF DealsWith
  <1>5. /\ \A x : x # r => (x \in Counted' <=> x \in Counted)
        /\ CountsDown(r)' <=> \E x \in Items(Rest) : x.op = "count" /\ x.r = r
        /\ ToFire(r)' = {x.how : x \in {y \in Items(Rest) : y.op = "fire" /\ y.r = r}}
    <2>1. Shape
      BY DEF IInv
    <2> QED
      BY <1>3, <1>4, <2>1, OthersCounted
  <1>6. CountsDown(r)' <=> CountsDown(r)
    BY <1>0, <1>1, <1>5 DEF CountsDown
  <1>7. ToFire(r)' = ToFire(r)
    BY <1>0, <1>1, <1>5 DEF ToFire
  <1>8. Counted' = Counted
    <2>1. r \in Counted' <=> r \in Counted
      BY <1>2, <1>6 DEF Counted, Pending, SameRequest, SameInHand
    <2> QED
      BY <1>5, <2>1
  <1>9. CountOK'
    BY <1>8 DEF IInv, CountOK
  <1>10. Known(r)'
    <2>1. Known(r)
      BY <1>2 DEF IInv
    <2> QED
      BY <1>2, <1>7, <2>1, StaysKnown
  <1>11. \A x, y \in Items(Rest) : x.r = r /\ y.r = r /\ Before(x, y) => Before(x, y)'
    <2>1. Sound(r)' => Sound(r)
      BY DEF Sound
    <2> QED
      BY <1>2, <2>1, StaysBefore DEF SameRequest
  <1>12. \A x \in Items(Rest) : x.r = r => InHand(x)'
    <2>1. \A x \in Items(Rest) : InHand(x)
      BY <1>1 DEF IInv
    <2> QED
      BY <1>2, <2>1, StaysInHand DEF SameRequest
  <1>13. InSequence(<<>>, Order')
    BY InSequenceShort
  <1> QED
    BY <1>2, <1>3, <1>4, <1>9, <1>10, <1>11, <1>12, <1>13, Assemble

--------------------------------------------------------------------------------
(* The steps of the program                                                *)

LEMMA RequestUpdate ==
  ASSUME Shape, NEW r \in DOMAIN requests, NEW q \in Requests,
         requests' = [requests EXCEPT ![r] = q]
  PROVE  /\ requests' \in Seq(Requests) /\ Len(requests') = Len(requests)
         /\ DOMAIN requests' = DOMAIN requests
         /\ requests'[r] = q
         /\ \A x \in DOMAIN requests : x # r => requests'[x] = requests[x]
  <1>1. requests \in Seq(Requests) /\ r \in 1..Len(requests)
    BY LenProperties DEF Shape
  <1>2. requests' \in Seq(Requests) /\ Len(requests') = Len(requests)
    BY <1>1, ExceptSeq
  <1> QED
    BY <1>1, <1>2

LEMMA RequestNumbers ==
  ASSUME Shape
  PROVE  DOMAIN requests = 1..Len(requests) /\ DOMAIN requests \subseteq Numbers
  <1>1. Len(requests) \in Nat /\ Len(requests) <= MaxRequests /\ DOMAIN requests = 1..Len(requests)
    BY LenProperties DEF Shape
  <1> QED
    BY <1>1, AjaxAssumption DEF Numbers

LEMMA AgendaShape ==
  ASSUME NEW things, IsSeq(things), Items(things) \subseteq Things,
         NEW s, IsSeq(s), Items(s) \subseteq Things
  PROVE  things \o s \in Seq(Things)
  BY ConcatIsSeq, ItemsInSeq

\* What is known when a thing comes to be done.
LEMMA InTurn ==
  ASSUME IInv, NEW op, IsNext(op)
  PROVE  /\ agenda # <<>> /\ Todo.op = op
         /\ Todo \in Items(agenda) /\ Todo \in Things /\ InHand(Todo)
         /\ Todo.r \in Numbers /\ Todo.r \in DOMAIN requests /\ Known(Todo.r)
         /\ requests[Todo.r] \in Requests
         /\ IsSeq(Rest) /\ Items(Rest) \subseteq Things /\ Items(Rest) \subseteq Items(agenda)
         /\ Items(agenda) = {Todo} \cup Items(Rest)
         /\ InSequence(Rest, Order)
         /\ \A y \in Items(Rest) : Before(Todo, y) /\ ~AtOnce(y) /\ InHand(y)
         /\ \A x \in Items(agenda) : x \notin Items(Rest) => x.r = Todo.r
  <1>1. agenda # <<>> /\ Todo.op = op
    BY DEF IsNext
  <1>2. /\ Todo \in Items(agenda) /\ Todo \in Things
        /\ IsSeq(Rest) /\ Items(Rest) \subseteq Things /\ Items(Rest) \subseteq Items(agenda)
        /\ Items(agenda) = {Todo} \cup Items(Rest)
        /\ InSequence(Rest, Order)
        /\ \A y \in Items(Rest) : Before(Todo, y)
    BY <1>1, FirstAndRest DEF IInv
  <1>3. \A x \in Items(agenda) : InHand(x)
    BY DEF IInv
  <1>4. Todo.r \in DOMAIN requests /\ Todo.r \in Numbers
    BY <1>2, <1>3 DEF InHand, Things, Numbers
  <1>5. Known(Todo.r) /\ requests[Todo.r] \in Requests
    BY <1>4, ElementOfSeq, LenProperties DEF IInv, Shape
  <1>6. \A y \in Items(Rest) : ~AtOnce(y)
    BY <1>2 DEF Before
  <1> QED
    BY <1>1, <1>2, <1>3, <1>4, <1>5, <1>6

\* done() comes next.
LEMMA DoneNext ==
  ASSUME IInv, Shape', CountOK',
         NEW r \in Numbers, r \in DOMAIN requests', r \notin waiting',
         NEW d \in Things, d.op = "done", d.r = r,
         NEW s, DealsWith(r, <<d>>, s),
         \A y \in Items(s) : y.r = r /\ Sound(r)' /\ requests'[r].state < 2 =>
                               /\ y.op # "fire"
                               /\ y.op = "transport" => requests'[r].beforeSend,
         \A x, y \in Items(s) : x.r = r /\ y.r = r /\ Before(x, y) => Before(x, y)',
         \A x \in Items(s) : x.r = r => InHand(x)',
         Known(r)'
  PROVE  IInv'
  <1>1. IsSeq(<<d>>) /\ Items(<<d>>) = {d} /\ InSequence(<<d>>, Order')
    BY ShortIsSeq, InSequenceShort
  <1>2. \A x \in Items(<<d>>) : InHand(x)'
    BY <1>1 DEF InHand, Pipeline
  <1>3. \A x \in Items(<<d>>), y \in Items(s) : y.r = r => Before(x, y)'
    <2> SUFFICES ASSUME NEW y \in Items(s), y.r = r PROVE Before(d, y)'
      BY <1>1
    <2>1. ~AtOnce(y)'
      BY DEF DealsWith, AtOnce
    <2> QED
      BY <2>1 DEF Before, Pipeline
  <1> QED
    BY <1>1, <1>2, <1>3, Assemble

LEMMA BeginStep ==
  ASSUME IInv, Begin
  PROVE  IInv'
  <1>1. IsNext("begin") /\ UNCHANGED <<net, names, acts, told, fate>>
    BY DEF Begin
  <1> PICK r : r = Todo.r
    OBVIOUS
  <1>2. /\ agenda # <<>> /\ Todo.op = "begin"
        /\ Todo \in Items(agenda) /\ Todo \in Things /\ InHand(Todo)
        /\ r \in Numbers /\ r \in DOMAIN requests /\ Known(r)
        /\ requests[r] \in Requests
        /\ IsSeq(Rest) /\ Items(Rest) \subseteq Things /\ Items(Rest) \subseteq Items(agenda)
        /\ Items(agenda) = {Todo} \cup Items(Rest)
        /\ InSequence(Rest, Order)
        /\ \A y \in Items(Rest) : Before(Todo, y) /\ ~AtOnce(y) /\ InHand(y)
        /\ \A x \in Items(agenda) : x \notin Items(Rest) => x.r = r
    BY <1>1, InTurn
  <1>3. Shape
    BY DEF IInv
  <1>4. CASE requests[r].state = 2
    <2>1. agenda' = Rest /\ UNCHANGED <<requests, active>>
      BY <1>4 DEF Begin
    <2>2. Rest \in Seq(Things)
      BY <1>2, ItemsInSeq
    <2>3. Shape'
      BY <1>1, <1>3, <2>1, <2>2 DEF Shape, net, names
    <2>4. \A x \in DOMAIN requests : SameRequest(x)
      BY <1>1, <2>1 DEF SameRequest, SameInHand, net
    <2> QED
      BY <1>1, <1>2, <2>1, <2>3, <2>4, JustTaken
  <1>5. CASE requests[r].state # 2
    <2> DEFINE q == requests[r]
               new == [q EXCEPT !.fires = q.global]
    <2>1. /\ requests' = [requests EXCEPT ![r] = new]
          /\ active' = IF q.global THEN active + 1 ELSE active
      BY <1>5 DEF Begin
    <2>2. /\ new \in Requests /\ new.fires = q.global /\ q.global \in BOOLEAN
          /\ new.name = q.name /\ new.fixed = q.fixed /\ new.state = q.state
          /\ new.outcome = q.outcome /\ new.transport = q.transport /\ new.timer = q.timer
          /\ new.installed = q.installed /\ new.beforeSend = q.beforeSend
      BY <1>2 DEF Requests
    <2> HIDE DEF new
    <2>3. /\ requests' \in Seq(Requests) /\ Len(requests') = Len(requests)
          /\ DOMAIN requests' = DOMAIN requests
          /\ requests'[r] = new
          /\ \A x \in DOMAIN requests : x # r => requests'[x] = requests[x]
      BY <1>2, <1>3, <2>1, <2>2, RequestUpdate
    <2>4. \A x \in DOMAIN requests : x # r => SameRequest(x)
      BY <1>1, <2>3 DEF SameRequest, SameInHand, net
    <2>5. PICK starts : /\ starts = IF q.global /\ active = 0 THEN Fire("ajaxStart", r) ELSE <<>>
                        /\ IsSeq(starts) /\ InSequence(starts, Order')
                        /\ \A x \in Items(starts) : /\ x \in Things /\ x.op = "fire" /\ x.r = r
                                                    /\ x.how = "ajaxStart" /\ x.how \in Places
      <3>1. "ajaxStart" \in Handlers
        BY HandlerSet
      <3> QED
        BY <1>2, <3>1, FireFacts, ShortIsSeq, InSequenceShort
    <2>6. PICK before : /\ before = BeforeSend(r)
                        /\ IsSeq(before) /\ InSequence(before, Order')
                        /\ \A x \in Items(before) : /\ x \in Things /\ x.op = "fire" /\ x.r = r
                                                    /\ x.how = "beforeSend" /\ x.how \in Places
      <3>1. "beforeSend" \in Handlers
        BY HandlerSet
      <3> QED
        BY <1>2, <3>1, FireFacts, ShortIsSeq, InSequenceShort DEF BeforeSend
    <2>7. PICK next : next = Do("transport", r, "")
      OBVIOUS
    <2>8. IsSeq(<<next>>) /\ Items(<<next>>) = {next} /\ InSequence(<<next>>, Order')
      BY ShortIsSeq, InSequenceShort
    <2>9. agenda' = starts \o before \o <<next>> \o Rest
      BY <1>5, <2>5, <2>6, <2>7 DEF Begin
    <2>10. next \in Things /\ next.op = "transport" /\ next.r = r
      BY <1>2, <2>7 DEF Do, Things, Numbers
    <2>11. \A x \in Items(starts), y \in Items(before) : <<x, y>> \in Order'
      BY <2>5, <2>6, Ranks DEF Order, Before, AtOnce, Pipeline, Opening
    <2>12. PICK fires : /\ fires = starts \o before
                        /\ IsSeq(fires) /\ InSequence(fires, Order')
                        /\ Items(fires) = Items(starts) \cup Items(before)
      <3>1. /\ IsSeq(starts \o before) /\ InSequence(starts \o before, Order')
            /\ Items(starts \o before) = Items(starts) \cup Items(before)
        BY <2>5, <2>6, <2>11, Joined
      <3> QED
        BY <3>1
    <2>13. \A x \in Items(fires), y \in Items(<<next>>) : <<x, y>> \in Order'
      <3> SUFFICES ASSUME NEW x \in Items(fires) PROVE <<x, next>> \in Order'
        BY <2>8
      <3>1. x \in Things /\ x.op = "fire" /\ x.how \in {"ajaxStart", "beforeSend"}
        BY <2>5, <2>6, <2>12
      <3>2. x.how \in Passed("transport") /\ x.how # "ajaxStop"
        BY <3>1 DEF Passed
      <3>3. Before(x, next)'
        BY <2>10, <3>1, <3>2 DEF Before, AtOnce, Pipeline
      <3> QED
        BY <2>10, <3>1, <3>3 DEF Order
    <2>14. PICK things : /\ things = fires \o <<next>>
                         /\ IsSeq(things) /\ InSequence(things, Order')
                         /\ Items(things) = Items(fires) \cup {next}
      <3>1. /\ IsSeq(fires \o <<next>>) /\ InSequence(fires \o <<next>>, Order')
            /\ Items(fires \o <<next>>) = Items(fires) \cup {next}
        BY <2>8, <2>12, <2>13, Joined
      <3> QED
        BY <3>1
    <2>15. agenda' = things \o Rest
      BY <2>9, <2>12, <2>14
    <2>16. Items(things) \subseteq Things /\ \A x \in Items(things) : x.r = r
      BY <2>5, <2>6, <2>10, <2>12, <2>14
    <2>17. DealsWith(r, things, Rest)
      <3>1. Sound(r)' => Sound(r)
        BY <1>1 DEF Sound
      <3> QED
        BY <1>2, <2>3, <2>4, <2>14, <2>15, <2>16, <3>1 DEF DealsWith
    <2>18. Shape'
      <3>1. agenda' \in Seq(Things)
        BY <1>2, <2>14, <2>15, <2>16, AgendaShape
      <3>2. active' \in Int
        BY <1>3, <2>1 DEF Shape
      <3> QED
        BY <1>1, <1>3, <2>3, <3>1, <3>2 DEF Shape, net, names
    <2>19. /\ requests[r].state = 0 /\ r \notin waiting /\ ~requests[r].fires
           /\ Sound(r) => Items(told[r]) \subseteq {"prefilter"}
      BY <1>2, <1>5 DEF InHand, Pipeline, Requests, Passed
    <2>20. /\ Sound(r)' = Sound(r) /\ told' = told /\ waiting' = waiting /\ fate' = fate
           /\ DOMAIN requests' = DOMAIN requests
           /\ requests'[r].state = 0 /\ requests'[r].fires = q.global
           /\ requests'[r].outcome = q.outcome /\ requests'[r].transport = q.transport
           /\ requests'[r].name = q.name /\ requests'[r].fixed = q.fixed
           /\ requests'[r].timer = q.timer /\ requests'[r].beforeSend = q.beforeSend
      BY <1>1, <2>2, <2>3, <2>19 DEF Sound, net
    <2>21. \A x \in Items(things) : InHand(x)'
      <3>1. InHand(next)'
        BY <1>2, <2>10, <2>19, <2>20 DEF InHand, Pipeline, Passed
      <3>2. ASSUME NEW x \in Items(starts) \cup Items(before) PROVE InHand(x)'
        <4>1. x.op = "fire" /\ x.r = r /\ x.how \in {"ajaxStart", "beforeSend"} /\ x.how \in Places
          BY <2>5, <2>6
        <4>2. Sound(r) => \A p \in Items(told[r]) : Rank(p) < Rank(x.how)
          BY <2>19, <4>1, Ranks
        <4> QED
          BY <1>2, <2>19, <2>20, <4>1, <4>2 DEF InHand, Pipeline, Opening
      <3> QED
        BY <2>12, <2>14, <3>1, <3>2
    <2>22. ASSUME NEW y \in Items(Rest), y.r = r
           PROVE  /\ y.op \notin Pipeline /\ y.op # "count"
                  /\ Sound(r) => y.op # "fire"
      BY <1>2, <2>19, <2>22 DEF InHand, Before, Pipeline
    <2>23. \A x \in Items(things), y \in Items(Rest) : y.r = r => Before(x, y)'
      <3> SUFFICES ASSUME NEW x \in Items(things), NEW y \in Items(Rest), y.r = r PROVE Before(x, y)'
        OBVIOUS
      <3>1. x.r = r /\ ~AtOnce(y)' /\ y.op # "transport"
        BY <1>2, <2>16, <2>20, <2>22 DEF AtOnce, Pipeline, Sound
      <3> QED
        BY <2>20, <2>22, <3>1 DEF Before
    <2>24. \A x, y \in Items(Rest) : x.r = r /\ y.r = r /\ Before(x, y) => Before(x, y)'
      <3>1. \A y \in Items(Rest) : y.r = r => ~AtOnce(y)' /\ y.op # "transport"
        BY <1>2, <2>20, <2>22 DEF AtOnce, Pipeline, Sound
      <3> QED
        BY <1>2, <2>20, <2>22, <3>1 DEF Before
    <2>25. \A x \in Items(Rest) : x.r = r => InHand(x)'
      BY <1>2, <2>20, <2>22 DEF InHand, Pipeline
    <2>26. Known(r)'
      BY <1>2, <2>19, <2>20 DEF Known
    <2>27. CountOK'
      <3>1. \A x : x # r => (x \in Counted' <=> x \in Counted)
        BY <1>3, <2>17, <2>18, OthersCounted
      <3>5. IsFiniteSet(Counted)
        BY <1>3, CountedFinite
      <3>2. r \notin Counted /\ (r \in Counted' <=> q.global)
        BY <1>2, <2>19, <2>20 DEF Counted, Pending
      <3>3. CASE q.global
        <4>1. Counted' = Counted \cup {r}
          BY <3>1, <3>2, <3>3
        <4>2. Cardinality(Counted') = Cardinality(Counted) + 1
          BY <3>2, <3>5, <4>1, FS_AddElement
        <4> QED
          BY <2>1, <2>20, <3>3, <4>2 DEF IInv, CountOK
      <3>4. CASE ~q.global
        <4>1. Counted' = Counted
          BY <3>1, <3>2, <3>4
        <4> QED
          BY <2>1, <2>20, <3>4, <4>1 DEF IInv, CountOK
      <3> QED
        BY <3>3, <3>4
    <2> QED
      BY <1>2, <2>14, <2>17, <2>18, <2>21, <2>23, <2>24, <2>25, <2>26, <2>27, Assemble
  <1> QED
    BY <1>4, <1>5

\* The callbacks that are called at once are those of a request that is over.
LEMMA InstallFacts ==
  ASSUME NEW r \in Numbers, requests[r] \in Requests, Sound(r)' => requests[r].outcome = "pending"
  PROVE  /\ IsSeq(Install(r)) /\ InSequence(Install(r), Order')
         /\ \A x \in Items(Install(r)) : /\ x \in Things /\ x.op = "fire" /\ x.r = r
                                        /\ x.how \in Places /\ ~Sound(r)'
         /\ requests[r].outcome = "pending" => Install(r) = <<>>
  <1> DEFINE outcome == requests[r].outcome
  <1>1. CASE outcome = "pending"
    BY <1>1, ShortIsSeq, InSequenceShort DEF Install
  <1>2. CASE outcome # "pending"
    <2>1. outcome \in Handlers /\ "complete" \in Handlers
      BY <1>2, HandlerSet DEF Requests
    <2> DEFINE one == Fire(outcome, r)
               two == Fire("complete", r)
    <2>2. /\ IsSeq(one) /\ InSequence(one, Order')
          /\ \A x \in Items(one) : x \in Things /\ x.op = "fire" /\ x.r = r /\ x.how = outcome /\ outcome \in Places
      BY <2>1, FireFacts
    <2>3. /\ IsSeq(two) /\ InSequence(two, Order')
          /\ \A x \in Items(two) : /\ x \in Things /\ x.op = "fire" /\ x.r = r
                                  /\ x.how = "complete" /\ x.how \in Places
      BY <2>1, FireFacts
    <2>4. Install(r) = one \o two
      BY <1>2 DEF Install
    <2> HIDE DEF one, two
    <2>5. \A x \in Items(one), y \in Items(two) : <<x, y>> \in Order'
      <3> SUFFICES ASSUME NEW x \in Items(one), NEW y \in Items(two) PROVE <<x, y>> \in Order'
        OBVIOUS
      <3>1. Before(x, y)'
        BY <1>2, <2>2, <2>3 DEF Before, AtOnce, Pipeline
      <3> QED
        BY <2>2, <2>3, <3>1 DEF Order
    <2>6. /\ IsSeq(one \o two) /\ InSequence(one \o two, Order')
          /\ Items(one \o two) = Items(one) \cup Items(two)
      BY <2>2, <2>3, <2>5, Joined
    <2> QED
      BY <1>2, <2>2, <2>3, <2>4, <2>6
  <1> QED
    BY <1>1, <1>2

LEMMA TransportStep ==
  ASSUME IInv, Transport
  PROVE  IInv'
  <1>1. IsNext("transport") /\ UNCHANGED <<active, net, names, acts, told, fate>>
    BY DEF Transport
  <1> PICK r : r = Todo.r
    OBVIOUS
  <1>2. /\ agenda # <<>> /\ Todo.op = "transport"
        /\ Todo \in Items(agenda) /\ Todo \in Things /\ InHand(Todo)
        /\ r \in Numbers /\ r \in DOMAIN requests /\ Known(r)
        /\ requests[r] \in Requests
        /\ IsSeq(Rest) /\ Items(Rest) \subseteq Things /\ Items(Rest) \subseteq Items(agenda)
        /\ Items(agenda) = {Todo} \cup Items(Rest)
        /\ InSequence(Rest, Order)
        /\ \A y \in Items(Rest) : Before(Todo, y) /\ ~AtOnce(y) /\ InHand(y)
        /\ \A x \in Items(agenda) : x \notin Items(Rest) => x.r = r
    BY <1>1, InTurn
  <1>3. Shape
    BY DEF IInv
  <1> DEFINE q == requests[r]
  <1>4. PICK d : d = Do("done", r, "error")
    OBVIOUS
  <1>5. /\ d \in Things /\ d.op = "done" /\ d.r = r
        /\ IsSeq(<<d>>) /\ Items(<<d>>) = {d}
    <2>1. d \in Things /\ d.op = "done" /\ d.r = r
      BY <1>2, <1>4 DEF Do, Things, Numbers
    <2> QED
      BY <2>1, ShortIsSeq
  <1>6. r \notin waiting /\ q.state \in {0, 2}
    BY <1>2 DEF InHand, Pipeline, Requests
  <1>7. ASSUME NEW y \in Items(Rest), y.r = r
        PROVE  Sound(r) /\ q.state < 2 => y.op # "fire"
    BY <1>2, <1>7 DEF Before, Pipeline
  \* All that the step changes of the request is what it has installed.
  <1> DEFINE Fixed == q.state = 2 /\ Sound(r)
  <1>8. ASSUME NEW things, IsSeq(things), Items(things) \subseteq Things,
               \A x \in Items(things) : x.r = r /\ x.op # "count" /\ (Fixed => x.op # "fire"),
               agenda' = things \o Rest,
               requests' \in Seq(Requests), Len(requests') = Len(requests),
               DOMAIN requests' = DOMAIN requests,
               \A x \in DOMAIN requests : x # r => requests'[x] = requests[x],
               requests'[r].name = q.name, requests'[r].fixed = q.fixed,
               requests'[r].state = q.state, requests'[r].fires = q.fires,
               requests'[r].outcome = q.outcome, requests'[r].timer = q.timer,
               requests'[r].beforeSend = q.beforeSend,
               Fixed => requests'[r] = q
        PROVE  /\ DealsWith(r, things, Rest) /\ Shape' /\ CountOK' /\ Known(r)' /\ SameInHand(r)
               /\ \A x, y \in Items(Rest) : x.r = r /\ y.r = r /\ Before(x, y) => Before(x, y)'
               /\ \A x \in Items(Rest) : x.r = r => InHand(x)'
    <2>1. \A x \in DOMAIN requests : x # r => SameRequest(x)
      BY <1>1, <1>8 DEF SameRequest, SameInHand, net
    <2>9. Sound(r)' <=> Sound(r)
      BY <1>1 DEF Sound
    <2>2. DealsWith(r, things, Rest)
      BY <1>2, <1>8, <2>1, <2>9 DEF DealsWith
    <2>3. Shape'
      <3>1. agenda' \in Seq(Things)
        BY <1>2, <1>8, AgendaShape
      <3> QED
        BY <1>1, <1>3, <1>8, <3>1 DEF Shape, net, names
    <2>4. SameInHand(r)
      BY <1>1, <1>8 DEF SameInHand, net
    <2>5. /\ CountsDown(r)' <=> \E x \in Items(things) \cup Items(Rest) : x.op = "count" /\ x.r = r
          /\ ToFire(r)' = {x.how : x \in {y \in Items(things) \cup Items(Rest) : y.op = "fire" /\ y.r = r}}
      BY <1>3, <2>2, <2>3, OthersCounted
    <2>6. CountOK'
      <3>1. CountsDown(r)' <=> CountsDown(r)
        BY <1>2, <1>8, <2>5 DEF CountsDown
      <3>2. r \in Counted' <=> r \in Counted
        BY <1>8, <3>1 DEF Counted, Pending
      <3> QED
        BY <1>1, <2>2, <2>3, <3>2, CountKept
    <2>7. Known(r)'
      <3>1. CASE Fixed
        <4>1. SameRequest(r)
          BY <1>8, <2>4, <3>1 DEF SameRequest
        <4>2. ToFire(r)' = ToFire(r)
          BY <1>2, <1>8, <2>5, <3>1 DEF ToFire
        <4> QED
          BY <1>2, <4>1, <4>2, StaysKnown
      <3>2. CASE ~Fixed
        BY <1>1, <1>2, <1>6, <1>8, <2>9, <3>2 DEF Known, net
      <3> QED
        BY <3>1, <3>2
    <2> QED
      BY <1>2, <1>8, <2>2, <2>3, <2>4, <2>6, <2>7, <2>9, StaysBefore, StaysInHand
  <1>9. CASE q.beforeSend /\ (q.refused \/ q.state = 2)
    <2>1. agenda' = <<d>> \o Rest /\ requests' = requests
      BY <1>4, <1>9 DEF Transport
    <2>2. /\ Items(<<d>>) \subseteq Things
          /\ \A x \in Items(<<d>>) : x.r = r /\ x.op # "count" /\ (Fixed => x.op # "fire")
          /\ requests' \in Seq(Requests)
      BY <1>3, <1>5, <2>1 DEF Shape
    <2>3. /\ DealsWith(r, <<d>>, Rest) /\ Shape' /\ CountOK' /\ Known(r)' /\ SameInHand(r)
          /\ \A x, y \in Items(Rest) : x.r = r /\ y.r = r /\ Before(x, y) => Before(x, y)'
          /\ \A x \in Items(Rest) : x.r = r => InHand(x)'
      BY <1>5, <1>8, <2>1, <2>2
    <2>4. /\ \A y \in Items(Rest) : y.r = r /\ Sound(r)' /\ requests'[r].state < 2 =>
                                       y.op # "fire" /\ (y.op = "transport" => requests'[r].beforeSend)
          /\ r \notin waiting' /\ r \in DOMAIN requests'
      BY <1>1, <1>2, <1>6, <1>7, <1>9, <2>1 DEF net, Sound
    <2> QED
      BY <1>2, <1>5, <2>3, <2>4, DoneNext
  <1>10. CASE ~(q.beforeSend /\ (q.refused \/ q.state = 2))
    <2> DEFINE new == [q EXCEPT !.installed = TRUE, !.transport = (q.transportOf # "none")]
    <2>1. requests' = [requests EXCEPT ![r] = new]
      BY <1>10 DEF Transport
    <2>2. /\ new \in Requests
          /\ new.name = q.name /\ new.fixed = q.fixed /\ new.state = q.state
          /\ new.outcome = q.outcome /\ new.timer = q.timer /\ new.fires = q.fires
          /\ new.beforeSend = q.beforeSend
      BY <1>2 DEF Requests
    <2> HIDE DEF new
    <2>3. /\ requests' \in Seq(Requests) /\ Len(requests') = Len(requests)
          /\ DOMAIN requests' = DOMAIN requests
          /\ requests'[r] = new
          /\ \A x \in DOMAIN requests : x # r => requests'[x] = requests[x]
      BY <1>2, <1>3, <2>1, <2>2, RequestUpdate
    <2>4. (Sound(r) => q.state = 0) /\ (q.state = 0 => q.outcome = "pending")
      BY <1>2, <1>6, <1>10 DEF InHand, Known
    <2>7. /\ requests' \in Seq(Requests) /\ Len(requests') = Len(requests)
          /\ DOMAIN requests' = DOMAIN requests
          /\ \A x \in DOMAIN requests : x # r => requests'[x] = requests[x]
          /\ requests'[r].name = q.name /\ requests'[r].fixed = q.fixed
          /\ requests'[r].state = q.state /\ requests'[r].fires = q.fires
          /\ requests'[r].outcome = q.outcome /\ requests'[r].timer = q.timer
          /\ requests'[r].beforeSend = q.beforeSend
          /\ ~Fixed
      BY <2>2, <2>3, <2>4
    \* What is told at once of a request that is over.
    <2>8. PICK outs : /\ outs = Install(r)
                      /\ IsSeq(outs) /\ InSequence(outs, Order')
                      /\ \A x \in Items(outs) : /\ x \in Things /\ x.op = "fire" /\ x.r = r
                                                /\ x.how \in Places /\ ~Sound(r)
                      /\ q.outcome = "pending" => outs = <<>>
      <3>1. Sound(r)' => q.outcome = "pending"
        BY <1>1, <2>4 DEF Sound
      <3>2. Sound(r)' <=> Sound(r)
        BY <1>1 DEF Sound
      <3> QED
        BY <1>2, <3>1, <3>2, InstallFacts
    <2> HIDE DEF q, Fixed
    <2>5. CASE q.transportOf = "none" /\ q.state # 2
      <3>1. agenda' = <<d>> \o Rest
        <4>1. agenda' = (outs \o <<d>>) \o Rest
          BY <1>4, <1>10, <2>5, <2>8 DEF Transport, q
        <4>2. outs = <<>>
          BY <1>6, <2>4, <2>5, <2>8
        <4> QED
          BY <1>5, <4>1, <4>2, NothingBefore
      <3>2. /\ Items(<<d>>) \subseteq Things
            /\ \A x \in Items(<<d>>) : x.r = r /\ x.op # "count" /\ (Fixed => x.op # "fire")
        BY <1>5
      <3>3. /\ DealsWith(r, <<d>>, Rest) /\ Shape' /\ CountOK' /\ Known(r)' /\ SameInHand(r)
            /\ \A x, y \in Items(Rest) : x.r = r /\ y.r = r /\ Before(x, y) => Before(x, y)'
            /\ \A x \in Items(Rest) : x.r = r => InHand(x)'
        BY <1>5, <1>8, <2>7, <3>1, <3>2
      <3>4. /\ \A y \in Items(Rest) : y.r = r /\ Sound(r)' /\ requests'[r].state < 2 =>
                                         y.op # "fire" /\ y.op # "transport"
            /\ r \notin waiting' /\ r \in DOMAIN requests'
        BY <1>1, <1>2, <1>6, <1>7, <2>3, <2>5, <2>7 DEF net, Sound, q, Before, Pipeline
      <3> QED
        BY <1>2, <1>5, <3>3, <3>4, DoneNext
    <2>6. CASE ~(q.transportOf = "none" /\ q.state # 2)
      <3>1. PICK sends : /\ sends = IF q.fires THEN Fire("ajaxSend", r) ELSE <<>>
                         /\ IsSeq(sends) /\ InSequence(sends, Order')
                         /\ \A x \in Items(sends) : /\ x \in Things /\ x.op = "fire" /\ x.r = r
                                                    /\ x.how = "ajaxSend" /\ x.how \in Places
        <4>1. "ajaxSend" \in Handlers
          BY HandlerSet
        <4> QED
          BY <1>2, <4>1, FireFacts, ShortIsSeq, InSequenceShort
      <3>2. PICK next : next = Do("send", r, "")
        OBVIOUS
      <3>3. /\ next \in Things /\ next.op = "send" /\ next.r = r
            /\ IsSeq(<<next>>) /\ Items(<<next>>) = {next} /\ InSequence(<<next>>, Order')
        <4>1. next \in Things /\ next.op = "send" /\ next.r = r
          BY <1>2, <3>2 DEF Do, Things, Numbers
        <4> QED
          BY <4>1, ShortIsSeq, InSequenceShort
      <3>4. \A x \in Items(sends), y \in Items(<<next>>) : <<x, y>> \in Order'
        <4> SUFFICES ASSUME NEW x \in Items(sends) PROVE <<x, next>> \in Order'
          BY <3>3
        <4>1. x \in Things /\ x.op = "fire" /\ x.how = "ajaxSend" /\ x.how \in Passed("send")
          BY <3>1 DEF Passed
        <4>2. Before(x, next)'
          BY <3>3, <4>1 DEF Before, AtOnce, Pipeline
        <4> QED
          BY <3>3, <4>1, <4>2 DEF Order
      <3>5. PICK tail : /\ tail = IF q.transportOf = "none" THEN <<>> ELSE sends \o <<next>>
                        /\ IsSeq(tail) /\ InSequence(tail, Order')
                        /\ Items(tail) \subseteq Items(sends) \cup {next}
        <4>1. /\ IsSeq(sends \o <<next>>) /\ InSequence(sends \o <<next>>, Order')
              /\ Items(sends \o <<next>>) = Items(sends) \cup {next}
          BY <3>1, <3>3, <3>4, Joined
        <4>2. IsSeq(<<>>) /\ InSequence(<<>>, Order') /\ Items(<<>>) = {}
          BY ShortIsSeq, InSequenceShort
        <4> QED
          BY <4>1, <4>2
      <3>15. \A x \in Items(outs), y \in Items(tail) : <<x, y>> \in Order'
        <4> SUFFICES ASSUME NEW x \in Items(outs), NEW y \in Items(tail) PROVE <<x, y>> \in Order'
          OBVIOUS
        <4>1. /\ x \in Things /\ x.op = "fire" /\ x.r = r
              /\ y \in Things /\ y.op \in {"fire", "send"} /\ y.r = r
          BY <2>8, <3>1, <3>3, <3>5
        <4>2. ~Sound(r)'
          BY <1>1, <2>8 DEF Sound
        <4>3. Before(x, y)'
          BY <4>1, <4>2 DEF Before, AtOnce, Pipeline
        <4> QED
          BY <4>1, <4>3 DEF Order
      <3>16. PICK things : /\ things = outs \o tail
                           /\ IsSeq(things) /\ InSequence(things, Order')
                           /\ Items(things) \subseteq Items(outs) \cup Items(sends) \cup {next}
        <4>1. /\ IsSeq(outs \o tail) /\ InSequence(outs \o tail, Order')
              /\ Items(outs \o tail) = Items(outs) \cup Items(tail)
          BY <2>8, <3>5, <3>15, Joined
        <4> QED
          BY <3>5, <4>1
      <3>6. agenda' = things \o Rest
        BY <1>10, <2>6, <2>8, <3>1, <3>2, <3>5, <3>16 DEF Transport, q
      <3>7. /\ Items(things) \subseteq Things
            /\ \A x \in Items(things) : x.r = r /\ x.op # "count" /\ (Fixed => x.op # "fire")
        BY <2>7, <2>8, <3>1, <3>3, <3>16
      <3>8. /\ DealsWith(r, things, Rest) /\ Shape' /\ CountOK' /\ Known(r)' /\ SameInHand(r)
            /\ \A x, y \in Items(Rest) : x.r = r /\ y.r = r /\ Before(x, y) => Before(x, y)'
            /\ \A x \in Items(Rest) : x.r = r => InHand(x)'
        BY <1>8, <2>7, <3>6, <3>7, <3>16
      <3>9. /\ DOMAIN requests' = DOMAIN requests /\ told' = told /\ waiting' = waiting /\ fate' = fate
            /\ requests'[r].state = q.state /\ requests'[r].fires = q.fires
            /\ Sound(r)' <=> Sound(r)
        BY <1>1, <2>7 DEF net, Sound
      <3>10. Sound(r) => Items(told[r]) \subseteq {"prefilter", "ajaxStart", "beforeSend"}
        BY <1>2, <2>4 DEF InHand, Pipeline, Passed, q
      <3>11. InHand(next)'
        BY <1>2, <1>6, <2>4, <3>3, <3>9, <3>10 DEF InHand, Pipeline, Passed
      <3>12. ASSUME NEW x \in Items(sends) \cup Items(outs) PROVE InHand(x)'
        <4>1. Sound(r) => \A p \in Items(told[r]) : Rank(p) < Rank("ajaxSend")
          BY <3>10, Ranks
        <4>2. /\ x.op = "fire" /\ x.r = r /\ x.how \in Places
              /\ Sound(r) => x.how = "ajaxSend"
          BY <2>8, <3>1
        <4> QED
          BY <1>2, <3>9, <4>1, <4>2 DEF InHand, Pipeline, Opening
      <3>13. ASSUME NEW y \in Items(Rest), y.r = r
             PROVE  y.op \notin Pipeline /\ (Sound(r) => y.op # "count" /\ y.op # "fire")
        <4>1. y.op \notin Pipeline /\ (Sound(r) => y.op # "fire")
          BY <1>2, <1>7, <2>4, <3>13 DEF Before, Pipeline, q
        <4>2. Sound(r) => y.op # "count"
          BY <1>2, <2>4, <3>13 DEF InHand, Sound, q
        <4> QED
          BY <4>1, <4>2
      <3>14. \A x \in Items(things), y \in Items(Rest) : y.r = r => Before(x, y)'
        <4> SUFFICES ASSUME NEW x \in Items(things), NEW y \in Items(Rest), y.r = r PROVE Before(x, y)'
          OBVIOUS
        <4>1. x.op # "count" /\ x.r = r
          BY <3>7
        <4>2. ~AtOnce(y)'
          BY <1>2, <3>9 DEF AtOnce
        <4> QED
          BY <3>9, <3>13, <4>1, <4>2 DEF Before, Pipeline
      <3> QED
        BY <1>2, <3>3, <3>16, <3>8, <3>11, <3>12, <3>14, Assemble
    <2> QED
      BY <2>5, <2>6
  <1> QED
    BY <1>9, <1>10

LEMMA SendStep ==
  ASSUME IInv, Send
  PROVE  IInv'
  <1>1. IsNext("send") /\ UNCHANGED <<active, names, acts, told>>
    BY DEF Send
  <1> PICK r : r = Todo.r
    OBVIOUS
  <1>2. /\ agenda # <<>> /\ Todo.op = "send"
        /\ Todo \in Items(agenda) /\ Todo \in Things /\ InHand(Todo)
        /\ r \in Numbers /\ r \in DOMAIN requests /\ Known(r)
        /\ requests[r] \in Requests
        /\ IsSeq(Rest) /\ Items(Rest) \subseteq Things /\ Items(Rest) \subseteq Items(agenda)
        /\ Items(agenda) = {Todo} \cup Items(Rest)
        /\ InSequence(Rest, Order)
        /\ \A y \in Items(Rest) : Before(Todo, y) /\ ~AtOnce(y) /\ InHand(y)
        /\ \A x \in Items(agenda) : x \notin Items(Rest) => x.r = r
    BY <1>1, InTurn
  <1>3. Shape
    BY DEF IInv
  <1> DEFINE q == requests[r]
             new == [q EXCEPT !.state = 1, !.timer = (q.timeout /\ q.async)]
  <1>4. /\ requests' = [requests EXCEPT ![r] = new]
        /\ fate' = IF q.state < 2 THEN fate
                   ELSE [fate EXCEPT !.interfered = @ \cup {r},
                                     !.shared = IF q.jsonp THEN @ \cup {r} \cup Rivals(q.name) ELSE @]
    BY DEF Send
  <1>5. /\ new \in Requests
        /\ new.name = q.name /\ new.fixed = q.fixed /\ new.state = 1
        /\ new.outcome = q.outcome /\ new.fires = q.fires /\ new.transport = q.transport
    <2>1. PICK timer \in BOOLEAN : timer = (q.timeout /\ q.async)
      OBVIOUS
    <2> DEFINE mid == [q EXCEPT !.state = 1]
    <2>2. new = [mid EXCEPT !.timer = timer]
      BY <1>2, <2>1 DEF Requests
    <2>3. /\ mid \in Requests
          /\ mid.name = q.name /\ mid.fixed = q.fixed /\ mid.state = 1
          /\ mid.outcome = q.outcome /\ mid.fires = q.fires /\ mid.transport = q.transport
      BY <1>2 DEF Requests
    <2> HIDE DEF new, mid
    <2> QED
      BY <2>2, <2>3 DEF Requests
  <1> HIDE DEF new
  <1>6. /\ requests' \in Seq(Requests) /\ Len(requests') = Len(requests)
        /\ DOMAIN requests' = DOMAIN requests
        /\ requests'[r] = new
        /\ \A x \in DOMAIN requests : x # r => requests'[x] = requests[x]
    BY <1>2, <1>3, <1>4, <1>5, RequestUpdate
  <1>7. /\ fate' \in [thrown : SUBSET Numbers, early : SUBSET Numbers,
                      interfered : SUBSET Numbers, shared : SUBSET Numbers]
        /\ fate'.thrown = fate.thrown /\ fate'.early = fate.early
        /\ fate'.interfered = IF q.state < 2 THEN fate.interfered ELSE fate.interfered \cup {r}
    <2>1. Rivals(q.name) \subseteq Numbers
      BY <1>3, RequestNumbers DEF Rivals
    <2> QED
      BY <1>2, <1>3, <1>4, <2>1 DEF Shape
  <1>8. r \notin waiting /\ q.state \in {0, 2}
    BY <1>2 DEF InHand, Pipeline, Requests
  <1>9. /\ Sound(r)' => Sound(r) /\ q.state = 0
        /\ q.state = 0 => (Sound(r)' <=> Sound(r))
    BY <1>7, <1>8 DEF Sound
  <1>10. ASSUME NEW y \in Items(Rest), y.r = r
         PROVE  /\ y.op \notin Pipeline \cup {"done"}
                /\ Sound(r) /\ q.state < 2 => y.op # "fire"
                /\ r \notin fate.interfered /\ q.state = 0 => y.op # "count"
    BY <1>2, <1>8, <1>10 DEF Before, Pipeline, InHand, AtOnce
  <1>11. ASSUME NEW things, IsSeq(things), Items(things) \subseteq Things,
                \A x \in Items(things) : x.r = r /\ x.op = "done",
                agenda' = things \o Rest, InSequence(things, Order'),
                waiting \subseteq waiting', waiting' \subseteq waiting \cup {r},
                loading' \subseteq loading \cup {r},
                r \in waiting' => q.transport /\ things = <<>>
         PROVE  IInv'
    <2>1. \A x \in DOMAIN requests : x # r => SameRequest(x)
      BY <1>1, <1>6, <1>7, <1>11 DEF SameRequest, SameInHand
    <2>2. DealsWith(r, things, Rest)
      BY <1>2, <1>6, <1>9, <1>11, <2>1 DEF DealsWith
    <2>3. Shape'
      <3>1. agenda' \in Seq(Things)
        BY <1>2, <1>11, AgendaShape
      <3> QED
        BY <1>1, <1>2, <1>3, <1>6, <1>7, <1>11, <3>1 DEF Shape, names
    <2>4. /\ CountsDown(r)' <=> \E x \in Items(things) \cup Items(Rest) : x.op = "count" /\ x.r = r
          /\ ToFire(r)' = {x.how : x \in {y \in Items(things) \cup Items(Rest) : y.op = "fire" /\ y.r = r}}
      BY <1>3, <2>2, <2>3, OthersCounted
    <2>5. CountOK'
      <3>1. CountsDown(r)' <=> CountsDown(r)
        BY <1>2, <1>11, <2>4 DEF CountsDown
      <3>2. q.state = 0 => (r \in Counted' <=> r \in Counted)
        BY <1>2, <1>5, <1>6, <1>8, <3>1 DEF Counted, Pending
      <3>3. fate'.interfered = {} => (r \in Counted' <=> r \in Counted)
        BY <1>7, <1>8, <3>2
      <3> QED
        BY <1>1, <1>7, <2>2, <2>3, <3>3, CountKept
    <2>6. Known(r)'
      BY <1>1, <1>2, <1>5, <1>6, <1>7, <1>8, <1>9, <1>11 DEF Known
    <2>7. \A x, y \in Items(Rest) : x.r = r /\ y.r = r /\ Before(x, y) => Before(x, y)'
      BY <1>2, <1>7, <1>8, <1>9, <1>10 DEF Before, AtOnce
    <2>8. \A x \in Items(Rest) : x.r = r => InHand(x)'
      <3> SUFFICES ASSUME NEW x \in Items(Rest), x.r = r PROVE InHand(x)'
        OBVIOUS
      <3>1. x.op \notin Pipeline \cup {"done"} /\ (Sound(r)' => x.op # "fire")
        BY <1>8, <1>9, <1>10
      <3>2. r \notin fate'.interfered => x.op # "count"
        BY <1>7, <1>8, <1>10
      <3>3. Sound(r)' => x.op # "count"
        BY <3>2 DEF Sound
      <3>4. x.op = "begin" => x.op \in Pipeline
        BY DEF Pipeline
      <3>5. x.op = "transport" => x.op \in Pipeline
        BY DEF Pipeline
      <3> QED
        BY <1>1, <1>2, <1>5, <1>6, <3>1, <3>2, <3>3, <3>4, <3>5 DEF InHand
    <2>9. \A x \in Items(things) : InHand(x)'
      <3>1. ASSUME NEW x \in Items(things) PROVE x.r = r /\ x.op = "done" /\ r \notin waiting'
        BY <1>11, <3>1, ShortIsSeq
      <3> QED
        BY <1>2, <1>6, <3>1 DEF InHand, Pipeline
    <2>10. \A x \in Items(things), y \in Items(Rest) : y.r = r => Before(x, y)'
      <3> SUFFICES ASSUME NEW x \in Items(things), NEW y \in Items(Rest), y.r = r PROVE Before(x, y)'
        OBVIOUS
      <3>1. /\ x.r = r /\ x.op = "done" /\ ~AtOnce(y)' /\ (Sound(r)' => y.op # "fire")
            /\ y.op # "transport"
        BY <1>2, <1>8, <1>9, <1>10, <1>11 DEF AtOnce, Pipeline
      <3> QED
        BY <3>1 DEF Before, Pipeline
    <2> QED
      BY <1>2, <1>11, <2>2, <2>3, <2>5, <2>6, <2>7, <2>8, <2>9, <2>10, Assemble
  <1>12. ASSUME NEW how \in {"ok", "garbled", "failed", "error"},
                agenda' = <<Do("done", r, how)>> \o Rest, waiting' = waiting, loading' = loading
         PROVE  IInv'
    <2>1. PICK d : d = Do("done", r, how)
      OBVIOUS
    <2>2. d \in Things /\ d.op = "done" /\ d.r = r
      BY <1>2, <1>12, <2>1 DEF Do, Things, Numbers
    <2>3. IsSeq(<<d>>) /\ Items(<<d>>) = {d} /\ InSequence(<<d>>, Order')
      BY ShortIsSeq, InSequenceShort
    <2> QED
      BY <1>8, <1>11, <1>12, <2>1, <2>2, <2>3
  <1>13. ASSUME q.transport, agenda' = <<>> \o Rest, waiting' = waiting \cup {r},
                loading' = loading \cup {r} \/ loading' = loading
         PROVE  IInv'
    <2>1. IsSeq(<<>>) /\ Items(<<>>) = {} /\ InSequence(<<>>, Order')
      BY ShortIsSeq, InSequenceShort
    <2> QED
      BY <1>11, <1>13, <2>1
  <1>14. \/ \E how \in {"ok", "garbled", "failed", "error"} :
              agenda' = <<Do("done", r, how)>> \o Rest /\ waiting' = waiting /\ loading' = loading
         \/ /\ q.transport /\ agenda' = <<>> \o Rest /\ waiting' = waiting \cup {r}
            /\ loading' = loading \cup {r} \/ loading' = loading
    <2> HIDE DEF q
    <2>1. CASE ~q.transport
      BY <2>1 DEF Send, q
    <2>2. CASE q.transport
      BY <2>2 DEF Send, q
    <2> QED
      BY <2>1, <2>2
  <1> QED
    BY <1>12, <1>13, <1>14

--------------------------------------------------------------------------------
(* done(): what is left to do, in the order of the ranks                   *)

EndThing(r, x) ==
  /\ x \in Things /\ x.r = r
  /\ \/ x.op \in {"cleanup", "count"}
     \/ x.op = "fire" /\ x.how \in Ending /\ x.how \in Places

InOrderOf(x) == IF x.op = "cleanup" THEN 0 ELSE IF x.op = "count" THEN 12 ELSE Rank(x.how)

\* A part of what done() puts on the agenda, with ranks from lo to hi.
Part(r, s, lo, hi) ==
  /\ IsSeq(s) /\ InSequence(s, Order')
  /\ \A x \in Items(s) : EndThing(r, x) /\ InOrderOf(x) \in lo..hi

LEMMA EndingRanks ==
  \A p \in Ending : Rank(p) \in 5..11 /\ p \in Handlers /\ p \notin Opening
  BY Ranks, HandlerSet DEF Ending, Opening

LEMMA EndOrder ==
  ASSUME NEW r, NEW x, NEW y, EndThing(r, x), EndThing(r, y), InOrderOf(x) < InOrderOf(y),
         requests'[r].state = 2
  PROVE  <<x, y>> \in Order'
  <1>1. x \in Things /\ y \in Things /\ x.r = r /\ y.r = r
    BY DEF EndThing
  <1>2. x.op = "fire" => x.how # "ajaxStop"
    BY EndingRanks, Ranks DEF EndThing
  <1>3. y.op # "cleanup"
    <2>1. x.op = "fire" => Rank(x.how) \in 5..11
      BY EndingRanks DEF EndThing
    <2>2. InOrderOf(x) \in 0..12
      BY <2>1 DEF EndThing, InOrderOf
    <2> QED
      BY <2>2 DEF InOrderOf
  <1>4. x.op # "count"
    <2>1. y.op = "fire" => Rank(y.how) \in 5..11
      BY EndingRanks DEF EndThing
    <2>2. InOrderOf(y) \in 0..12
      BY <2>1 DEF EndThing, InOrderOf
    <2> QED
      BY <2>2 DEF InOrderOf
  <1>5. x.op = "fire" /\ y.op = "fire" => Rank(x.how) < Rank(y.how)
    BY DEF InOrderOf
  <1>6. ~AtOnce(y)'
    BY <1>3, EndingRanks DEF EndThing, AtOnce
  <1>7. x.op \notin Pipeline /\ y.op \notin Pipeline
    BY DEF EndThing, Pipeline
  <1>8. Before(x, y)'
    BY <1>1, <1>2, <1>4, <1>5, <1>6, <1>7 DEF Before
  <1> QED
    BY <1>1, <1>8 DEF Order

LEMMA NextPart ==
  ASSUME NEW r, requests'[r].state = 2, NEW s, NEW t,
         NEW a \in Int, NEW b \in Int, NEW c \in Int, NEW d \in Int,
         Part(r, s, a, b), Part(r, t, c, d), a <= c, b < c, b <= d
  PROVE  Part(r, s \o t, a, d)
  <1>1. \A x \in Items(s), y \in Items(t) : <<x, y>> \in Order'
    <2> SUFFICES ASSUME NEW x \in Items(s), NEW y \in Items(t) PROVE <<x, y>> \in Order'
      OBVIOUS
    <2>1. EndThing(r, x) /\ EndThing(r, y) /\ InOrderOf(x) \in a..b /\ InOrderOf(y) \in c..d
      BY DEF Part
    <2>2. InOrderOf(x) < InOrderOf(y)
      BY <2>1
    <2> QED
      BY <2>1, <2>2, EndOrder
  <1>2. IsSeq(s) /\ InSequence(s, Order') /\ IsSeq(t) /\ InSequence(t, Order')
    BY DEF Part
  <1>3. /\ IsSeq(s \o t) /\ InSequence(s \o t, Order')
        /\ Items(s \o t) = Items(s) \cup Items(t)
    BY <1>1, <1>2, Joined
  <1>4. ASSUME NEW x \in Items(s \o t) PROVE EndThing(r, x) /\ InOrderOf(x) \in a..d
    <2>1. CASE x \in Items(s)
      <3>1. EndThing(r, x) /\ InOrderOf(x) \in a..b
        BY <2>1 DEF Part
      <3> QED
        BY <3>1
    <2>2. CASE x \in Items(t)
      <3>1. EndThing(r, x) /\ InOrderOf(x) \in c..d
        BY <2>2 DEF Part
      <3> QED
        BY <3>1
    <2> QED
      BY <1>3, <2>1, <2>2
  <1> QED
    BY <1>3, <1>4 DEF Part

\* The handlers p are called if c.
LEMMA FirePart ==
  ASSUME NEW r \in Numbers, NEW p \in Ending, NEW c \in BOOLEAN,
         NEW s, s = IF c THEN Fire(p, r) ELSE <<>>
  PROVE  /\ Part(r, s, Rank(p), Rank(p))
         /\ \A x \in Items(s) : x.op = "fire" /\ x.r = r /\ x.how = p /\ p \in Places /\ c
         /\ c /\ p \in Places => \E x \in Items(s) : x.op = "fire" /\ x.r = r /\ x.how = p
  <1>1. p \in Handlers /\ Rank(p) \in Int
    BY EndingRanks
  <1>2. /\ IsSeq(Fire(p, r))
        /\ \A R : InSequence(Fire(p, r), R)
        /\ \A x \in Items(Fire(p, r)) :
              x \in Things /\ x.op = "fire" /\ x.r = r /\ x.how = p /\ p \in Places
        /\ p \in Places => \E x \in Items(Fire(p, r)) : x.op = "fire" /\ x.r = r /\ x.how = p
    BY <1>1, FireFacts
  <1>3. IsSeq(<<>>) /\ Items(<<>>) = {} /\ InSequence(<<>>, Order')
    BY ShortIsSeq, InSequenceShort
  <1>4. /\ IsSeq(s) /\ InSequence(s, Order')
        /\ \A x \in Items(s) : x \in Things /\ x.op = "fire" /\ x.r = r /\ x.how = p /\ p \in Places /\ c
        /\ c /\ p \in Places => \E x \in Items(s) : x.op = "fire" /\ x.r = r /\ x.how = p
    <2>1. CASE c
      <3>1. s = Fire(p, r)
        BY <2>1
      <3> QED
        BY <1>2, <2>1, <3>1
    <2>2. CASE ~c
      <3>1. s = <<>>
        BY <2>2
      <3> QED
        BY <1>3, <2>2, <3>1
    <2> QED
      BY <2>1, <2>2
  <1>5. Part(r, s, Rank(p), Rank(p))
    BY <1>1, <1>4 DEF Part, EndThing, InOrderOf
  <1> QED
    BY <1>4, <1>5

LEMMA PartItems ==
  ASSUME NEW r, NEW s, NEW t, NEW a, NEW b, NEW c, NEW d, Part(r, s, a, b), Part(r, t, c, d)
  PROVE  Items(s \o t) = Items(s) \cup Items(t)
  <1>1. IsSeq(s) /\ IsSeq(t)
    BY DEF Part
  <1> QED
    BY <1>1, ConcatIsSeq

\* The parts of what done() puts on the agenda: the clean-up of jsonp and the handlers of
\* the outcome; the last event and the count; and all of it.
LEMMA FirstParts ==
  ASSUME NEW r, requests'[r].state = 2, NEW n \in 5..6, NEW s1, NEW s2, NEW s3,
         Part(r, s1, 0, 0), Part(r, s2, n, n), Part(r, s3, 7, 7)
  PROVE  /\ Part(r, s1 \o s2 \o s3, 0, 7)
         /\ Items(s1 \o s2 \o s3) = Items(s1) \cup Items(s2) \cup Items(s3)
  <1>1. PICK s12 : s12 = s1 \o s2
    OBVIOUS
  <1>2. Part(r, s12, 0, n)
    <2>1. 0 \in Int /\ n \in Int /\ 0 <= n /\ 0 < n /\ n <= n
      OBVIOUS
    <2> QED
      BY <1>1, <2>1, NextPart
  <1>3. Part(r, s12 \o s3, 0, 7)
    <2>1. 0 \in Int /\ n \in Int /\ 7 \in Int /\ 0 <= 7 /\ n < 7 /\ n <= 7
      OBVIOUS
    <2> QED
      BY <1>2, <2>1, NextPart
  <1>4. Items(s12) = Items(s1) \cup Items(s2) /\ Items(s12 \o s3) = Items(s12) \cup Items(s3)
    BY <1>1, <1>2, PartItems
  <1> QED
    BY <1>1, <1>3, <1>4

LEMMA LastParts ==
  ASSUME NEW r, requests'[r].state = 2, NEW s6, NEW s7, Part(r, s6, 11, 11), Part(r, s7, 12, 12)
  PROVE  Part(r, s6 \o s7, 11, 12) /\ Items(s6 \o s7) = Items(s6) \cup Items(s7)
  <1>1. Part(r, s6 \o s7, 11, 12)
    <2>1. 11 \in Int /\ 12 \in Int /\ 11 <= 12 /\ 11 < 12
      OBVIOUS
    <2> QED
      BY <2>1, NextPart
  <1> QED
    BY <1>1, PartItems

LEMMA AllParts ==
  ASSUME NEW r, requests'[r].state = 2, NEW m \in 8..9, NEW t1, NEW s4, NEW s5, NEW t2,
         Part(r, t1, 0, 7), Part(r, s4, m, m), Part(r, s5, 10, 10), Part(r, t2, 11, 12)
  PROVE  /\ Part(r, t1 \o s4 \o s5 \o t2, 0, 12)
         /\ Items(t1 \o s4 \o s5 \o t2) = Items(t1) \cup Items(s4) \cup Items(s5) \cup Items(t2)
  <1>1. PICK u1 : u1 = t1 \o s4
    OBVIOUS
  <1>2. Part(r, u1, 0, m)
    <2>1. 0 \in Int /\ 7 \in Int /\ m \in Int /\ 0 <= m /\ 7 < m /\ m <= m
      OBVIOUS
    <2>2. 7 <= m
      OBVIOUS
    <2> QED
      BY <1>1, <2>1, <2>2, NextPart
  <1>3. PICK u2 : u2 = u1 \o s5
    OBVIOUS
  <1>4. Part(r, u2, 0, 10)
    <2>1. 0 \in Int /\ 10 \in Int /\ m \in Int /\ 0 <= 10 /\ m < 10 /\ m <= 10
      OBVIOUS
    <2> QED
      BY <1>2, <1>3, <2>1, NextPart
  <1>5. Part(r, u2 \o t2, 0, 12)
    <2>1. 0 \in Int /\ 10 \in Int /\ 11 \in Int /\ 12 \in Int /\ 0 <= 11 /\ 10 < 11 /\ 10 <= 12
      OBVIOUS
    <2> QED
      BY <1>4, <2>1, NextPart
  <1>6. Items(u1) = Items(t1) \cup Items(s4)
    BY <1>1, PartItems
  <1>7. Items(u2) = Items(u1) \cup Items(s5)
    BY <1>2, <1>3, PartItems
  <1>8. Items(u2 \o t2) = Items(u2) \cup Items(t2)
    BY <1>4, PartItems
  <1> QED
    BY <1>1, <1>3, <1>5, <1>6, <1>7, <1>8

\* What done() puts on the agenda.
DoneThings(r, first, jsonp, installed, fires, outcome, event) ==
  (IF first THEN (IF jsonp THEN <<Do("cleanup", r, "")>> ELSE <<>>)
                 \o (IF installed THEN Fire(outcome, r) ELSE <<>>) \o Fire("statusCode", r)
   ELSE <<>>)
  \o (IF fires THEN Fire(event, r) ELSE <<>>)
  \o (IF first THEN IF installed THEN Fire("complete", r) ELSE <<>> ELSE <<>>)
  \o (IF fires THEN Fire("ajaxComplete", r) \o <<Do("count", r, "")>> ELSE <<>>)

\* They are in order, and call the handlers that are due.
ThingsRight(things, r, first, installed, fires, outcome, event) ==
  /\ IsSeq(things) /\ InSequence(things, Order')
  /\ \A x \in Items(things) : EndThing(r, x)
  /\ (\E x \in Items(things) : x.op = "count") <=> fires
  /\ \A p : (\E x \in Items(things) : x.op = "fire" /\ x.how = p) <=>
               /\ p \in Places
               /\ \/ p = outcome /\ first /\ installed
                  \/ p = "statusCode" /\ first
                  \/ p = event /\ fires
                  \/ p = "complete" /\ first /\ installed
                  \/ p = "ajaxComplete" /\ fires

LEMMA DoneParts ==
  ASSUME NEW r \in Numbers, requests'[r].state = 2,
         NEW first \in BOOLEAN, NEW jsonp \in BOOLEAN, NEW installed \in BOOLEAN, NEW fires \in BOOLEAN,
         NEW outcome \in {"success", "error"}, NEW event \in {"ajaxSuccess", "ajaxError"},
         NEW things, things = DoneThings(r, first, jsonp, installed, fires, outcome, event)
  PROVE  ThingsRight(things, r, first, installed, fires, outcome, event)
  <1>1. /\ outcome \in Ending /\ "statusCode" \in Ending /\ event \in Ending
        /\ "complete" \in Ending /\ "ajaxComplete" \in Ending
        /\ Rank(outcome) \in 5..6 /\ Rank("statusCode") = 7 /\ Rank(event) \in 8..9
        /\ Rank("complete") = 10 /\ Rank("ajaxComplete") = 11
    BY Ranks DEF Ending
  <1>2. IsSeq(<<>>) /\ Items(<<>>) = {} /\ InSequence(<<>>, Order')
    BY ShortIsSeq, InSequenceShort
  <1>3. PICK s1 : s1 = IF jsonp THEN <<Do("cleanup", r, "")>> ELSE <<>>
    OBVIOUS
  <1>4. Part(r, s1, 0, 0) /\ \A x \in Items(s1) : x.op = "cleanup"
    <2>1. CASE jsonp
      <3>1. PICK x : x = Do("cleanup", r, "")
        OBVIOUS
      <3>2. x \in Things /\ x.op = "cleanup" /\ x.r = r
        BY <3>1 DEF Do, Things, Numbers
      <3>3. s1 = <<x>>
        BY <1>3, <2>1, <3>1
      <3>4. IsSeq(s1) /\ Items(s1) = {x} /\ InSequence(s1, Order')
        BY <3>3, ShortIsSeq, InSequenceShort
      <3> QED
        BY <3>2, <3>4 DEF Part, EndThing, InOrderOf
    <2>2. CASE ~jsonp
      <3>1. s1 = <<>>
        BY <1>3, <2>2
      <3> QED
        BY <1>2, <3>1 DEF Part
    <2> QED
      BY <2>1, <2>2
  <1>5. PICK s2 : s2 = IF installed THEN Fire(outcome, r) ELSE <<>>
    OBVIOUS
  <1>6. /\ Part(r, s2, Rank(outcome), Rank(outcome))
        /\ \A x \in Items(s2) : x.op = "fire" /\ x.r = r /\ x.how = outcome /\ outcome \in Places /\ installed
        /\ installed /\ outcome \in Places => \E x \in Items(s2) : x.op = "fire" /\ x.r = r /\ x.how = outcome
    BY <1>1, <1>5, FirePart
  <1>7. PICK s3 : s3 = Fire("statusCode", r)
    OBVIOUS
  <1>8. /\ Part(r, s3, 7, 7)
        /\ \A x \in Items(s3) : x.op = "fire" /\ x.r = r /\ x.how = "statusCode" /\ "statusCode" \in Places
        /\ "statusCode" \in Places => \E x \in Items(s3) : x.op = "fire" /\ x.r = r /\ x.how = "statusCode"
    <2>1. PICK yes \in BOOLEAN : yes
      OBVIOUS
    <2>2. s3 = IF yes THEN Fire("statusCode", r) ELSE <<>>
      BY <1>7, <2>1
    <2>3. /\ Part(r, s3, Rank("statusCode"), Rank("statusCode"))
          /\ \A x \in Items(s3) : x.op = "fire" /\ x.r = r /\ x.how = "statusCode" /\ "statusCode" \in Places /\ yes
          /\ yes /\ "statusCode" \in Places => \E x \in Items(s3) : x.op = "fire" /\ x.r = r /\ x.how = "statusCode"
      BY <1>1, <2>2, FirePart
    <2> QED
      BY <1>1, <2>1, <2>3
  <1>9. PICK s4 : s4 = IF fires THEN Fire(event, r) ELSE <<>>
    OBVIOUS
  <1>10. /\ Part(r, s4, Rank(event), Rank(event))
         /\ \A x \in Items(s4) : x.op = "fire" /\ x.r = r /\ x.how = event /\ event \in Places /\ fires
         /\ fires /\ event \in Places => \E x \in Items(s4) : x.op = "fire" /\ x.r = r /\ x.how = event
    BY <1>1, <1>9, FirePart
  <1>11. PICK both \in BOOLEAN : both <=> first /\ installed
    OBVIOUS
  <1>12. PICK s5 : s5 = IF both THEN Fire("complete", r) ELSE <<>>
    OBVIOUS
  <1>13. /\ Part(r, s5, Rank("complete"), Rank("complete"))
         /\ \A x \in Items(s5) : x.op = "fire" /\ x.r = r /\ x.how = "complete" /\ "complete" \in Places /\ both
         /\ both /\ "complete" \in Places => \E x \in Items(s5) : x.op = "fire" /\ x.r = r /\ x.how = "complete"
    BY <1>1, <1>12, FirePart
  <1>14. PICK s6 : s6 = IF fires THEN Fire("ajaxComplete", r) ELSE <<>>
    OBVIOUS
  <1>15. /\ Part(r, s6, Rank("ajaxComplete"), Rank("ajaxComplete"))
         /\ \A x \in Items(s6) : x.op = "fire" /\ x.r = r /\ x.how = "ajaxComplete" /\ "ajaxComplete" \in Places /\ fires
         /\ fires /\ "ajaxComplete" \in Places => \E x \in Items(s6) : x.op = "fire" /\ x.r = r /\ x.how = "ajaxComplete"
    BY <1>1, <1>14, FirePart
  <1>16. PICK s7 : s7 = <<Do("count", r, "")>>
    OBVIOUS
  <1>17. /\ Part(r, s7, 12, 12)
         /\ \A x \in Items(s7) : x.op = "count" /\ x.r = r
         /\ \E x \in Items(s7) : x.op = "count"
    <2>1. PICK x : x = Do("count", r, "")
      OBVIOUS
    <2>2. x \in Things /\ x.op = "count" /\ x.r = r
      BY <2>1 DEF Do, Things, Numbers
    <2>3. IsSeq(s7) /\ Items(s7) = {x} /\ InSequence(s7, Order')
      BY <1>16, <2>1, ShortIsSeq, InSequenceShort
    <2> QED
      BY <2>2, <2>3 DEF Part, EndThing, InOrderOf
  <1>18. PICK t1 : t1 = IF first THEN s1 \o s2 \o s3 ELSE <<>>
    OBVIOUS
  <1>19. PICK t2 : t2 = IF fires THEN s6 \o s7 ELSE <<>>
    OBVIOUS
  <1>20. things = t1 \o s4 \o s5 \o t2
    <2>1. (IF first THEN IF installed THEN Fire("complete", r) ELSE <<>> ELSE <<>>) = s5
      BY <1>11, <1>12
    <2>2. (IF fires THEN Fire("ajaxComplete", r) \o <<Do("count", r, "")>> ELSE <<>>) = t2
      BY <1>14, <1>16, <1>19
    <2> QED
      BY <1>3, <1>5, <1>7, <1>9, <1>18, <2>1, <2>2 DEF DoneThings
  <1>24. PICK n \in 5..6 : n = Rank(outcome)
    BY <1>1
  <1>22. PICK m \in 8..9 : m = Rank(event)
    BY <1>1
  <1>23. /\ Part(r, s2, n, n) /\ Part(r, s4, m, m) /\ Part(r, s5, 10, 10) /\ Part(r, s6, 11, 11)
    BY <1>1, <1>6, <1>10, <1>13, <1>15, <1>22, <1>24
  <1>25. Part(r, t1, 0, 7) /\ Items(t1) = IF first THEN Items(s1) \cup Items(s2) \cup Items(s3) ELSE {}
    <2>1. CASE first
      <3>1. Part(r, s1, 0, 0) /\ Part(r, s2, n, n) /\ Part(r, s3, 7, 7)
        BY <1>4, <1>8, <1>23
      <3>2. /\ Part(r, s1 \o s2 \o s3, 0, 7)
            /\ Items(s1 \o s2 \o s3) = Items(s1) \cup Items(s2) \cup Items(s3)
        BY <3>1, FirstParts
      <3> QED
        BY <1>18, <2>1, <3>2
    <2>2. CASE ~first
      <3>1. t1 = <<>>
        BY <1>18, <2>2
      <3> QED
        BY <1>2, <2>2, <3>1 DEF Part
    <2> QED
      BY <2>1, <2>2
  <1>26. Part(r, t2, 11, 12) /\ Items(t2) = IF fires THEN Items(s6) \cup Items(s7) ELSE {}
    <2>1. CASE fires
      <3>1. Part(r, s6, 11, 11) /\ Part(r, s7, 12, 12)
        BY <1>17, <1>23
      <3>2. Part(r, s6 \o s7, 11, 12) /\ Items(s6 \o s7) = Items(s6) \cup Items(s7)
        BY <3>1, LastParts
      <3> QED
        BY <1>19, <2>1, <3>2
    <2>2. CASE ~fires
      <3>1. t2 = <<>>
        BY <1>19, <2>2
      <3> QED
        BY <1>2, <2>2, <3>1 DEF Part
    <2> QED
      BY <2>1, <2>2
  <1>29. /\ Part(r, things, 0, 12)
         /\ Items(things) = Items(t1) \cup Items(s4) \cup Items(s5) \cup Items(t2)
    <2>1. Part(r, t1, 0, 7) /\ Part(r, s4, m, m) /\ Part(r, s5, 10, 10) /\ Part(r, t2, 11, 12)
      BY <1>23, <1>25, <1>26
    <2>2. /\ Part(r, t1 \o s4 \o s5 \o t2, 0, 12)
          /\ Items(t1 \o s4 \o s5 \o t2) = Items(t1) \cup Items(s4) \cup Items(s5) \cup Items(t2)
      BY <2>1, AllParts
    <2> QED
      BY <1>20, <2>2
  <1>30. (\E x \in Items(things) : x.op = "count") <=> fires
    BY <1>4, <1>6, <1>8, <1>10, <1>13, <1>15, <1>17, <1>25, <1>26, <1>29
  <1>31. ASSUME NEW p
         PROVE  (\E x \in Items(things) : x.op = "fire" /\ x.how = p) <=>
                     /\ p \in Places
                     /\ \/ p = outcome /\ first /\ installed
                        \/ p = "statusCode" /\ first
                        \/ p = event /\ fires
                        \/ p = "complete" /\ first /\ installed
                        \/ p = "ajaxComplete" /\ fires
    <2>1. ASSUME NEW x \in Items(things), x.op = "fire", x.how = p
          PROVE  /\ p \in Places
                 /\ \/ p = outcome /\ first /\ installed
                    \/ p = "statusCode" /\ first
                    \/ p = event /\ fires
                    \/ p = "complete" /\ first /\ installed
                    \/ p = "ajaxComplete" /\ fires
      BY <1>4, <1>6, <1>8, <1>10, <1>11, <1>13, <1>15, <1>17, <1>25, <1>26, <1>29, <2>1
    <2>2. ASSUME p \in Places,
                 \/ p = outcome /\ first /\ installed
                 \/ p = "statusCode" /\ first
                 \/ p = event /\ fires
                 \/ p = "complete" /\ first /\ installed
                 \/ p = "ajaxComplete" /\ fires
          PROVE  \E x \in Items(things) : x.op = "fire" /\ x.how = p
      BY <1>6, <1>8, <1>10, <1>11, <1>13, <1>15, <1>25, <1>26, <1>29, <2>2
    <2> QED
      BY <2>1, <2>2
  <1>32. IsSeq(things) /\ InSequence(things, Order') /\ \A x \in Items(things) : EndThing(r, x)
    BY <1>29 DEF Part
  <1> QED
    BY <1>30, <1>31, <1>32 DEF ThingsRight

\* Two requests that differ at most in the data they hold.
SameButData(p, q) ==
  /\ p.jsonp = q.jsonp /\ p.transportOf = q.transportOf /\ p.fixed = q.fixed /\ p.reused = q.reused
  /\ p.name = q.name /\ p.overwritten = q.overwritten /\ p.beforeSend = q.beforeSend
  /\ p.state = q.state /\ p.fires = q.fires /\ p.installed = q.installed
  /\ p.transport = q.transport /\ p.timer = q.timer /\ p.outcome = q.outcome
OnlyContainer(x) == SameButData(requests'[x], requests[x])

\* The function of request o is called with the data of c.
Given(g, o, c) ==
  /\ g \in Seq(Requests) /\ Len(g) = Len(requests) /\ DOMAIN g = DOMAIN requests
  /\ \A x \in DOMAIN requests :
       /\ g[x] \in Requests /\ SameButData(g[x], requests[x])
       /\ \/ g[x].container = requests[x].container
          \/ x = o /\ requests[x].state < 2 /\ g[x].container = c
  /\ o \in DOMAIN requests /\ requests[o].state < 2 => g[o].container = c

LEMMA GiveFacts ==
  ASSUME Shape, NEW o \in 0..MaxRequests, NEW c \in 0..MaxRequests,
         NEW g, g = Give(o, c)
  PROVE  Given(g, o, c)
  <1>1. \A x \in DOMAIN requests : requests[x] \in Requests
    BY ElementOfSeq, LenProperties DEF Shape
  <1>2. requests \in Seq(Requests) /\ DOMAIN requests = 1..Len(requests) /\ 0 \notin DOMAIN requests
    BY LenProperties DEF Shape
  <1>3. CASE o \in DOMAIN requests /\ o # 0 /\ requests[o].state < 2
    <2> DEFINE new == [requests[o] EXCEPT !.container = c]
    <2>1. new \in Requests /\ SameButData(new, requests[o]) /\ new.container = c
      BY <1>1, <1>3 DEF Requests, SameButData
    <2>2. g = [requests EXCEPT ![o] = new]
      BY <1>3 DEF Give
    <2> HIDE DEF new
    <2>3. /\ g \in Seq(Requests) /\ Len(g) = Len(requests) /\ DOMAIN g = DOMAIN requests
          /\ g[o] = new /\ \A x \in DOMAIN requests : x # o => g[x] = requests[x]
      BY <1>2, <1>3, <2>1, <2>2, ExceptSeq
    <2> QED
      BY <1>1, <1>3, <2>1, <2>3 DEF Given, SameButData
  <1>4. CASE ~(o \in DOMAIN requests /\ o # 0 /\ requests[o].state < 2)
    <2>1. g = requests
      BY <1>2, <1>4 DEF Give
    <2> QED
      BY <1>1, <1>2, <1>4, <2>1 DEF Given, SameButData
  <1> QED
    BY <1>3, <1>4

\* The function in the window with the name of a request is of a request.
WindowOf(r) == window[requests[r].name]

LEMMA WindowOfRequest ==
  ASSUME IInv, NEW r \in DOMAIN requests
  PROVE  WindowOf(r) \in 0..MaxRequests /\ requests[r].name \in 0..MaxRequests
  <1>1. requests[r] \in Requests
    BY ElementOfSeq, LenProperties DEF IInv, Shape
  <1> QED
    BY <1>1 DEF IInv, Shape, Requests, WindowOf

LEMMA ConvertedFacts ==
  ASSUME IInv, NEW r \in DOMAIN requests, NEW how, NEW g, g = Converted(r, how)
  PROVE  /\ g \in Seq(Requests) /\ Len(g) = Len(requests) /\ DOMAIN g = DOMAIN requests
         /\ \A x \in DOMAIN requests :
              /\ g[x] \in Requests /\ SameButData(g[x], requests[x])
              /\ \/ g[x].container = requests[x].container
                 \/ /\ x = WindowOf(r) /\ requests[x].state < 2 /\ g[x].container = r
                    /\ requests[r].jsonp
  <1>1. WindowOf(r) \in 0..MaxRequests /\ r \in 0..MaxRequests /\ Shape
    BY WindowOfRequest, RequestNumbers DEF IInv, Numbers
  <1>2. CASE g = requests
    <2>1. \A x \in DOMAIN requests : requests[x] \in Requests
      BY <1>1, ElementOfSeq, LenProperties DEF Shape
    <2> QED
      BY <1>1, <1>2, <2>1 DEF Shape, SameButData
  <1>3. CASE requests[r].jsonp /\ g = Give(WindowOf(r), r)
    <2>1. Given(g, WindowOf(r), r)
      BY <1>1, <1>3, GiveFacts
    <2> QED
      BY <1>3, <2>1 DEF Given
  <1> QED
    BY <1>2, <1>3 DEF Converted, WindowOf

LEMMA DoneStep ==
  ASSUME IInv, Done
  PROVE  IInv'
  <1>1. IsNext("done") /\ UNCHANGED <<active, net, names, acts, told, fate>>
    BY DEF Done
  <1> PICK r : r = Todo.r
    OBVIOUS
  <1>2. /\ agenda # <<>> /\ Todo.op = "done"
        /\ Todo \in Items(agenda) /\ Todo \in Things /\ InHand(Todo)
        /\ r \in Numbers /\ r \in DOMAIN requests /\ Known(r)
        /\ requests[r] \in Requests
        /\ IsSeq(Rest) /\ Items(Rest) \subseteq Things /\ Items(Rest) \subseteq Items(agenda)
        /\ Items(agenda) = {Todo} \cup Items(Rest)
        /\ InSequence(Rest, Order)
        /\ \A y \in Items(Rest) : Before(Todo, y) /\ ~AtOnce(y) /\ InHand(y)
        /\ \A x \in Items(agenda) : x \notin Items(Rest) => x.r = r
    BY <1>1, InTurn
  <1>3. Shape
    BY DEF IInv
  <1>4. CASE requests[r].state = 2
    <2>1. agenda' = Rest /\ UNCHANGED requests
      BY <1>4 DEF Done
    <2>2. Rest \in Seq(Things)
      BY <1>2, ItemsInSeq
    <2>3. Shape'
      BY <1>1, <1>3, <2>1, <2>2 DEF Shape, net, names
    <2>4. \A x \in DOMAIN requests : SameRequest(x)
      BY <1>1, <2>1 DEF SameRequest, SameInHand, net
    <2> QED
      BY <1>1, <1>2, <2>1, <2>3, <2>4, JustTaken
  <1>5. CASE requests[r].state # 2
    <2> PICK q : q = requests[r]
      OBVIOUS
    <2>1. PICK success \in BOOLEAN : success <=> Succeeds(r, Todo.how)
      OBVIOUS
    <2>2. PICK first \in BOOLEAN : first <=> q.outcome = "pending"
      OBVIOUS
    <2>3. PICK outcome \in {"success", "error"} : outcome = IF success THEN "success" ELSE "error"
      OBVIOUS
    <2>4. PICK event \in {"ajaxSuccess", "ajaxError"} :
            event = IF success THEN "ajaxSuccess" ELSE "ajaxError"
      OBVIOUS
    <2>5. q \in Requests /\ q.state \in {0, 1}
      BY <1>2, <1>5 DEF Requests
    <2>6. PICK g : g = Converted(r, Todo.how)
      OBVIOUS
    <2>7. PICK ends \in {"pending", "success", "error"} : ends = IF first THEN outcome ELSE q.outcome
      BY <2>5 DEF Requests
    <2>8. /\ g \in Seq(Requests) /\ Len(g) = Len(requests) /\ DOMAIN g = DOMAIN requests
          /\ \A x \in DOMAIN requests : g[x] \in Requests /\ SameButData(g[x], requests[x])
      BY <1>2, <2>6, ConvertedFacts
    <2> PICK p : p = g[r]
      OBVIOUS
    <2>9. agenda' = DoneThings(r, first, q.jsonp, q.installed, q.fires, outcome, event) \o Rest
      BY <1>5, <2>1, <2>2, <2>3, <2>4 DEF Done, DoneThings
    <2>10. requests' = [g EXCEPT ![r].state = 2, ![r].timer = FALSE, ![r].transport = FALSE,
                                 ![r].outcome = ends]
      <3>1. requests' = [g EXCEPT ![r].state = 2, ![r].timer = FALSE, ![r].transport = FALSE,
                                  ![r].outcome = IF first THEN outcome ELSE @]
        BY <1>5, <2>1, <2>2, <2>3, <2>6 DEF Done
      <3>2. p.outcome = q.outcome
        BY <1>2, <2>8 DEF SameButData
      <3> QED
        BY <2>7, <3>1, <3>2
    \* The request afterwards.
    <2>11. /\ p \in Requests
           /\ p.name = q.name /\ p.fixed = q.fixed /\ p.fires = q.fires /\ p.installed = q.installed
           /\ p.beforeSend = q.beforeSend
      BY <1>2, <2>8 DEF SameButData
    <2>12. PICK new \in Requests :
             /\ requests' = [g EXCEPT ![r] = new]
             /\ new.state = 2 /\ ~new.timer /\ ~new.transport /\ new.outcome = ends
             /\ new.name = p.name /\ new.fixed = p.fixed /\ new.fires = p.fires
             /\ new.installed = p.installed /\ new.beforeSend = p.beforeSend
      <3> DEFINE new == [p EXCEPT !.state = 2, !.timer = FALSE, !.transport = FALSE, !.outcome = ends]
      <3>1. /\ new.state = 2 /\ ~new.timer /\ ~new.transport /\ new.outcome = ends
            /\ new.name = p.name /\ new.fixed = p.fixed /\ new.fires = p.fires
            /\ new.installed = p.installed /\ new.beforeSend = p.beforeSend
        BY <2>11 DEF Requests
      <3>2. new \in Requests
        <4>1. [p EXCEPT !.state = 2] \in Requests
          BY <2>11 DEF Requests
        <4>2. PICK p1 \in Requests : p1 = [p EXCEPT !.state = 2]
          BY <4>1
        <4>3. PICK p2 \in Requests : p2 = [p1 EXCEPT !.timer = FALSE]
          BY DEF Requests
        <4>4. PICK p3 \in Requests : p3 = [p2 EXCEPT !.transport = FALSE]
          BY DEF Requests
        <4>5. [p3 EXCEPT !.outcome = ends] \in Requests
          BY DEF Requests
        <4>6. new = [p3 EXCEPT !.outcome = ends]
          BY <2>11, <4>2, <4>3, <4>4 DEF Requests
        <4> QED
          BY <4>5, <4>6
      <3>3. requests' = [g EXCEPT ![r] = new]
        BY <2>10
      <3> HIDE DEF new
      <3> QED
        BY <3>1, <3>2, <3>3
    <2>13. /\ new.state = 2 /\ ~new.timer /\ ~new.transport /\ new.outcome = ends
           /\ new.name = q.name /\ new.fixed = q.fixed /\ new.fires = q.fires /\ new.installed = q.installed
           /\ new.beforeSend = q.beforeSend
      BY <2>11, <2>12
    <2>14. /\ requests' \in Seq(Requests) /\ Len(requests') = Len(requests)
           /\ DOMAIN requests' = DOMAIN requests
           /\ requests'[r] = new
           /\ \A x \in DOMAIN requests : x # r => requests'[x] = g[x]
      BY <1>2, <2>8, <2>12, ExceptSeq
    <2>15. \A x \in DOMAIN requests : x # r => SameRequest(x)
      BY <1>1, <2>8, <2>14 DEF SameRequest, SameInHand, SameButData, net
    \* The agenda afterwards.
    <2>16. PICK things : things = DoneThings(r, first, q.jsonp, q.installed, q.fires, outcome, event)
      OBVIOUS
    <2>17. q.jsonp \in BOOLEAN /\ q.installed \in BOOLEAN /\ q.fires \in BOOLEAN
      BY <2>5 DEF Requests
    <2>18. PICK jsonp \in BOOLEAN, installed \in BOOLEAN, fires \in BOOLEAN :
             jsonp = q.jsonp /\ installed = q.installed /\ fires = q.fires
      BY <2>17
    <2>19. /\ IsSeq(things) /\ InSequence(things, Order')
           /\ \A x \in Items(things) : EndThing(r, x)
           /\ (\E x \in Items(things) : x.op = "count") <=> fires
           /\ \A w : (\E x \in Items(things) : x.op = "fire" /\ x.how = w) <=>
                       /\ w \in Places
                       /\ \/ w = outcome /\ first /\ installed
                          \/ w = "statusCode" /\ first
                          \/ w = event /\ fires
                          \/ w = "complete" /\ first /\ installed
                          \/ w = "ajaxComplete" /\ fires
      <3>1. requests'[r].state = 2
        BY <2>13, <2>14
      <3>2. things = DoneThings(r, first, jsonp, installed, fires, outcome, event)
        BY <2>16, <2>18
      <3> QED
        <4>1. ThingsRight(things, r, first, installed, fires, outcome, event)
          BY <1>2, <3>1, <3>2, DoneParts
        <4> QED
          BY <4>1 DEF ThingsRight
    <2>20. Items(things) \subseteq Things /\ \A x \in Items(things) : x.r = r
      BY <2>19 DEF EndThing
    <2>21. agenda' = things \o Rest
      BY <2>9, <2>16
    <2>22. DealsWith(r, things, Rest)
      <3>1. Sound(r)' => Sound(r)
        BY <1>1 DEF Sound
      <3> QED
        BY <1>2, <2>14, <2>15, <2>19, <2>20, <2>21, <3>1 DEF DealsWith
    <2>23. Shape'
      <3>1. agenda' \in Seq(Things)
        BY <1>2, <2>19, <2>20, <2>21, AgendaShape
      <3> QED
        BY <1>1, <1>3, <2>14, <3>1 DEF Shape, net, names
    <2>24. /\ told' = told /\ waiting' = waiting /\ fate' = fate /\ DOMAIN requests' = DOMAIN requests
           /\ requests'[r].state = 2 /\ requests'[r].fires = q.fires /\ requests'[r].outcome = ends
           /\ requests'[r].installed = q.installed /\ requests'[r].beforeSend = q.beforeSend
           /\ requests'[r].name = q.name /\ requests'[r].fixed = q.fixed
           /\ ~requests'[r].timer /\ ~requests'[r].transport
           /\ Sound(r)' <=> Sound(r)
      BY <1>1, <2>13, <2>14 DEF net, Sound
    <2>25. /\ r \notin waiting
           /\ Sound(r) => Items(told[r]) \subseteq Opening /\ first /\ ends = outcome
           /\ r \notin fate.interfered => ends # "pending"
      BY <1>2, <2>2, <2>5, <2>7 DEF InHand, Known, Sound
    <2>26. ASSUME NEW y \in Items(Rest), y.r = r
           PROVE  /\ Sound(r) => y.op # "fire" /\ y.op # "count"
                  /\ r \notin fate.interfered => y.op # "count"
      BY <1>2, <2>5, <2>26 DEF Before, InHand, Pipeline, Sound
    <2>27. \A x \in Items(things) : InHand(x)'
      <3> SUFFICES ASSUME NEW x \in Items(things) PROVE InHand(x)'
        OBVIOUS
      <3>1. x.r = r /\ x.op \in {"cleanup", "count", "fire"} /\ (x.op = "count" => q.fires)
        BY <2>18, <2>19 DEF EndThing
      <3>2. x.op = "fire" => x.how \in Places /\ Rank(x.how) \in 5..11
        BY <2>19, EndingRanks DEF EndThing
      <3>3. \A w \in Opening : Rank(w) \in 1..4
        BY Ranks DEF Opening
      <3>4. Sound(r) /\ x.op = "fire" => \A w \in Items(told[r]) : Rank(w) < Rank(x.how)
        BY <2>25, <3>2, <3>3
      <3>5. Sound(r) => "ajaxStop" \notin Items(told[r])
        BY <2>25 DEF Opening
      <3> QED
        BY <1>2, <2>24, <3>1, <3>2, <3>4, <3>5 DEF InHand, Pipeline
    <2>28. \A x \in Items(things), y \in Items(Rest) : y.r = r => Before(x, y)'
      <3> SUFFICES ASSUME NEW x \in Items(things), NEW y \in Items(Rest), y.r = r PROVE Before(x, y)'
        OBVIOUS
      <3>1. x.r = r /\ x.op \notin Pipeline
        BY <2>19 DEF EndThing, Pipeline
      <3>2. ~AtOnce(y)'
        BY <1>1, <1>2 DEF AtOnce, Sound
      <3> QED
        BY <2>24, <2>26, <3>1, <3>2 DEF Before
    <2>29. \A x, y \in Items(Rest) : x.r = r /\ y.r = r /\ Before(x, y) => Before(x, y)'
      BY <2>24 DEF Before, AtOnce, Sound
    <2>30. \A x \in Items(Rest) : x.r = r => InHand(x)'
      <3> SUFFICES ASSUME NEW x \in Items(Rest), x.r = r PROVE InHand(x)'
        OBVIOUS
      <3>1. InHand(x) /\ q.fires = requests[r].fires
        BY <1>2
      <3>2. Sound(r) /\ x.op = "transport" => q.beforeSend
        BY <1>2, <2>5 DEF Before, Sound
      <3> QED
        BY <1>2, <2>24, <3>1, <3>2 DEF InHand, Pipeline
    <2>31. /\ CountsDown(r)' <=> \E x \in Items(things) \cup Items(Rest) : x.op = "count" /\ x.r = r
           /\ ToFire(r)' = {x.how : x \in {y \in Items(things) \cup Items(Rest) : y.op = "fire" /\ y.r = r}}
      BY <1>3, <2>22, <2>23, OthersCounted
    \* What it has told, and what is now due.
    <2>32. Known(r)'
      <3>1. ASSUME Sound(r) PROVE (Items(told[r]) \cup ToFire(r)') \cap Ending = Due(r)'
        <4>1. ToFire(r)' = {x.how : x \in {y \in Items(things) : y.op = "fire"}}
          BY <2>20, <2>26, <2>31, <3>1
        <4>2. \A w : w \in ToFire(r)' <=> \E x \in Items(things) : x.op = "fire" /\ x.how = w
          BY <4>1
        <4>3. Items(told[r]) \cap Ending = {}
          BY <2>25, <3>1 DEF Opening, Ending
        <4>4. \A w : w \in Due(r)' <=>
                       /\ w \in Places
                       /\ \/ w = outcome /\ installed
                          \/ w = "statusCode"
                          \/ w = event /\ fires
                          \/ w = "complete" /\ installed
                          \/ w = "ajaxComplete" /\ fires
          BY <2>3, <2>4, <2>18, <2>24, <2>25, <3>1 DEF Due
        <4>5. \A w : w \in ToFire(r)' <=> w \in Due(r)'
          BY <2>19, <2>25, <3>1, <4>2, <4>4
        <4>6. \A w \in Due(r)' : w \in Ending
          BY <4>4 DEF Ending
        <4> QED
          BY <4>3, <4>5, <4>6
      <3>2. Sound(r) => InSequence(told[r], InRank)
        BY <1>2 DEF Known
      <3> QED
        BY <1>2, <2>24, <2>25, <3>1, <3>2 DEF Known
    <2>33. CountOK'
      <3>1. fate.interfered = {} => (r \in Counted' <=> r \in Counted)
        <4>1. ASSUME fate.interfered = {} PROVE CountsDown(r)' <=> q.fires
          BY <2>18, <2>19, <2>20, <2>26, <2>31, <4>1
        <4>2. Pending(r) /\ q.fires = requests[r].fires
          BY <2>5 DEF Pending
        <4> QED
          BY <1>2, <2>24, <4>1, <4>2 DEF Counted, Pending
      <3> QED
        BY <1>1, <2>22, <2>23, <3>1, CountKept
    <2> QED
      BY <1>2, <2>19, <2>22, <2>23, <2>27, <2>28, <2>29, <2>30, <2>32, <2>33, Assemble
  <1> QED
    BY <1>4, <1>5


LEMMA CleanUpStep ==
  ASSUME IInv, CleanUp
  PROVE  IInv'
  <1>1. IsNext("cleanup") /\ UNCHANGED <<active, net, acts, told, fate>> /\ agenda' = Rest
    BY DEF CleanUp
  <1> PICK r : r = Todo.r
    OBVIOUS
  <1>2. /\ agenda # <<>> /\ Todo.op = "cleanup"
        /\ Todo \in Items(agenda) /\ Todo \in Things /\ InHand(Todo)
        /\ r \in Numbers /\ r \in DOMAIN requests /\ Known(r)
        /\ requests[r] \in Requests
        /\ IsSeq(Rest) /\ Items(Rest) \subseteq Things /\ Items(Rest) \subseteq Items(agenda)
        /\ Items(agenda) = {Todo} \cup Items(Rest)
        /\ InSequence(Rest, Order)
        /\ \A y \in Items(Rest) : Before(Todo, y) /\ ~AtOnce(y) /\ InHand(y)
        /\ \A x \in Items(agenda) : x \notin Items(Rest) => x.r = r
    BY <1>1, InTurn
  <1>3. Shape
    BY DEF IInv
  <1> PICK q : q = requests[r]
    OBVIOUS
  <1>4. /\ q.name \in 0..MaxRequests /\ q.overwritten \in 0..MaxRequests
        /\ q.container \in 0..MaxRequests /\ q.fixed \in BOOLEAN
        /\ q.name = 0 => q.fixed
    BY <1>2 DEF Requests, Known
  <1>5. /\ window' = [window EXCEPT ![q.name] = q.overwritten]
        /\ oldCallbacks' = IF q.fixed THEN oldCallbacks ELSE Append(oldCallbacks, q.name)
        /\ requests' = IF q.container # 0 THEN Give(q.overwritten, q.container) ELSE requests
    BY DEF CleanUp
  <1>6. window' \in [0..MaxRequests -> 0..MaxRequests]
    BY <1>3, <1>4, <1>5 DEF Shape
  <1>7. oldCallbacks' \in Seq(Numbers)
    <2>1. CASE q.fixed
      BY <1>3, <1>5, <2>1 DEF Shape
    <2>2. CASE ~q.fixed
      <3>1. q.name \in Numbers
        BY <1>4, <2>2 DEF Numbers
      <3> QED
        BY <1>3, <1>5, <2>2, <3>1, AppendProperties DEF Shape
    <2> QED
      BY <2>1, <2>2
  <1>8. /\ requests' \in Seq(Requests) /\ Len(requests') = Len(requests)
        /\ DOMAIN requests' = DOMAIN requests
        /\ \A x \in DOMAIN requests : OnlyContainer(x)
    <2>1. CASE requests' = requests
      BY <1>3, <2>1 DEF Shape, OnlyContainer, SameButData
    <2>2. CASE requests' = Give(q.overwritten, q.container)
      <3>1. Given(requests', q.overwritten, q.container)
        BY <1>3, <1>4, <2>2, GiveFacts
      <3> QED
        BY <3>1 DEF Given, OnlyContainer
    <2> QED
      BY <1>5, <2>1, <2>2
  <1>9. Shape'
    <2>1. Rest \in Seq(Things)
      BY <1>2, ItemsInSeq
    <2> QED
      BY <1>1, <1>3, <1>6, <1>7, <1>8, <2>1 DEF Shape, net
  <1>10. \A x \in DOMAIN requests : SameRequest(x)
    BY <1>1, <1>8 DEF OnlyContainer, SameButData, SameRequest, SameInHand, net
  <1> QED
    BY <1>1, <1>2, <1>8, <1>9, <1>10, JustTaken

LEMMA CountStep ==
  ASSUME IInv, Count
  PROVE  IInv'
  <1>1. IsNext("count") /\ UNCHANGED <<requests, net, names, acts, told, fate>> /\ active' = active - 1
    BY DEF Count
  <1> PICK r : r = Todo.r
    OBVIOUS
  <1>2. /\ agenda # <<>> /\ Todo.op = "count"
        /\ Todo \in Items(agenda) /\ Todo \in Things /\ InHand(Todo)
        /\ r \in Numbers /\ r \in DOMAIN requests /\ Known(r)
        /\ requests[r] \in Requests
        /\ IsSeq(Rest) /\ Items(Rest) \subseteq Things /\ Items(Rest) \subseteq Items(agenda)
        /\ Items(agenda) = {Todo} \cup Items(Rest)
        /\ InSequence(Rest, Order)
        /\ \A y \in Items(Rest) : Before(Todo, y) /\ ~AtOnce(y) /\ InHand(y)
        /\ \A x \in Items(agenda) : x \notin Items(Rest) => x.r = r
    BY <1>1, InTurn
  <1>3. Shape
    BY DEF IInv
  <1>4. PICK things : /\ things = IF active = 1 THEN Fire("ajaxStop", r) ELSE <<>>
                      /\ IsSeq(things) /\ InSequence(things, Order')
                      /\ \A x \in Items(things) : /\ x \in Things /\ x.op = "fire" /\ x.r = r
                                                  /\ x.how = "ajaxStop" /\ x.how \in Places
    <2>1. "ajaxStop" \in Handlers
      BY HandlerSet
    <2> QED
      BY <1>2, <2>1, FireFacts, ShortIsSeq, InSequenceShort
  <1>5. agenda' = things \o Rest
    BY <1>4 DEF Count
  <1>6. \A x \in DOMAIN requests : SameRequest(x)
    BY <1>1 DEF SameRequest, SameInHand, net
  <1>7. DealsWith(r, things, Rest)
    <2>1. Sound(r)' => Sound(r)
      BY <1>1 DEF Sound
    <2> QED
      BY <1>1, <1>2, <1>4, <1>5, <1>6, <2>1 DEF DealsWith
  <1>8. Shape'
    <2>1. agenda' \in Seq(Things)
      BY <1>2, <1>4, <1>5, AgendaShape
    <2>2. active' \in Int
      BY <1>1, <1>3 DEF Shape
    <2> QED
      BY <1>1, <1>3, <2>1, <2>2 DEF Shape, net, names
  <1>9. /\ \A x : x # r => (x \in Counted' <=> x \in Counted)
        /\ CountsDown(r)' <=> \E x \in Items(things) \cup Items(Rest) : x.op = "count" /\ x.r = r
        /\ ToFire(r)' = {x.how : x \in {y \in Items(things) \cup Items(Rest) : y.op = "fire" /\ y.r = r}}
    BY <1>3, <1>7, <1>8, OthersCounted
  <1>10. /\ requests[r].fires
         /\ r \notin fate.interfered => requests[r].state = 2
         /\ Sound(r) => "ajaxStop" \notin Items(told[r]) /\ requests[r].state = 2 /\ r \notin fate.interfered
    BY <1>2 DEF InHand, Sound
  <1>11. ASSUME NEW y \in Items(Rest), y.r = r
         PROVE  /\ r \notin fate.interfered => y.op # "count"
                /\ Sound(r) => y.op # "fire"
    BY <1>2, <1>11 DEF Before
  <1>12. \A x \in Items(things) : InHand(x)'
    <2>1. Sound(r) => \A p \in Items(told[r]) : Rank(p) < Rank("ajaxStop")
      <3>1. Items(told[r]) \subseteq Handlers
        <4>1. told[r] \in Seq(Handlers)
          BY <1>2, <1>3, ElementOfSeq, LenProperties DEF Shape
        <4> QED
          BY <4>1, SeqIsSeq
      <3> QED
        BY <1>10, <3>1, HandlerSet, Ranks
    <2> QED
      BY <1>1, <1>2, <1>4, <1>10, <2>1 DEF InHand, Pipeline, Sound
  <1>13. \A x \in Items(things), y \in Items(Rest) : y.r = r => Before(x, y)'
    <2> SUFFICES ASSUME NEW x \in Items(things), NEW y \in Items(Rest), y.r = r PROVE Before(x, y)'
      OBVIOUS
    <2>1. x.r = r /\ x.op = "fire" /\ ~AtOnce(y)'
      BY <1>1, <1>2, <1>4 DEF AtOnce, Sound
    <2>2. Sound(r)' => Sound(r)
      BY <1>1 DEF Sound
    <2> QED
      BY <1>1, <1>10, <1>11, <2>1, <2>2 DEF Before, Pipeline
  <1>14. \A x, y \in Items(Rest) : x.r = r /\ y.r = r /\ Before(x, y) => Before(x, y)'
    <2>1. \A x : Sound(x)' => Sound(x)
      BY <1>1 DEF Sound
    <2> QED
      BY <1>2, <1>6, <2>1, StaysBefore DEF SameRequest
  <1>15. \A x \in Items(Rest) : x.r = r => InHand(x)'
    BY <1>1, <1>2, <1>6, StaysInHand DEF SameRequest
  <1>16. Known(r)'
    <2>1. ToFire(r)' \cap Ending = ToFire(r) \cap Ending
      <3>1. \A p \in Ending : p # "ajaxStop"
        BY DEF Ending
      <3>2. \A x \in Items(things) : x.how \notin Ending
        BY <1>4, <3>1
      <3> QED
        BY <1>2, <1>9, <3>2 DEF ToFire
    <2>2. Sound(r)' <=> Sound(r)
      BY <1>1 DEF Sound
    <2>3. Due(r)' = Due(r)
      BY <1>1 DEF Due
    <2>4. (Items(told[r]) \cup ToFire(r)') \cap Ending = (Items(told[r]) \cup ToFire(r)) \cap Ending
      BY <2>1
    <2> QED
      BY <1>1, <1>2, <2>2, <2>3, <2>4 DEF Known, net
  <1>17. CountOK'
    <2> SUFFICES ASSUME fate.thrown = {}, fate.interfered = {}
                 PROVE  active' = Cardinality(Counted')
      BY <1>1 DEF CountOK
    <2>1. r \in Counted
      BY <1>2, <1>10 DEF Counted, CountsDown
    <2>2. r \notin Counted'
      <3>1. ~CountsDown(r)'
        BY <1>4, <1>9, <1>11
      <3> QED
        BY <1>1, <1>10, <3>1 DEF Counted, Pending
    <2>3. Counted' = Counted \ {r}
      BY <1>9, <2>2
    <2>4. IsFiniteSet(Counted)
      BY <1>3, CountedFinite
    <2>5. Cardinality(Counted') = Cardinality(Counted) - 1
      BY <2>1, <2>3, <2>4, FS_RemoveElement
    <2>6. active = Cardinality(Counted)
      BY DEF IInv, CountOK
    <2> QED
      BY <1>1, <2>5, <2>6
  <1> QED
    BY <1>2, <1>4, <1>7, <1>8, <1>12, <1>13, <1>14, <1>15, <1>16, <1>17, Assemble


LEMMA FireStep ==
  ASSUME IInv, FireHandler
  PROVE  IInv'
  <1>1. IsNext("fire") /\ UNCHANGED <<requests, active, net, names, acts, fate>>
    BY DEF FireHandler
  <1> PICK r : r = Todo.r
    OBVIOUS
  <1> PICK how : how = Todo.how
    OBVIOUS
  <1>2. /\ agenda # <<>> /\ Todo.op = "fire"
        /\ Todo \in Items(agenda) /\ Todo \in Things /\ InHand(Todo)
        /\ r \in Numbers /\ r \in DOMAIN requests /\ Known(r)
        /\ requests[r] \in Requests
        /\ IsSeq(Rest) /\ Items(Rest) \subseteq Things /\ Items(Rest) \subseteq Items(agenda)
        /\ Items(agenda) = {Todo} \cup Items(Rest)
        /\ InSequence(Rest, Order)
        /\ \A y \in Items(Rest) : Before(Todo, y) /\ ~AtOnce(y) /\ InHand(y)
        /\ \A x \in Items(agenda) : x \notin Items(Rest) => x.r = r
    BY <1>1, InTurn
  <1>3. Shape
    BY DEF IInv
  <1>4. how \in Places /\ how \in Handlers
    BY <1>2, AjaxAssumption DEF InHand, Handlers
  <1>5. PICK u : /\ u = [Todo EXCEPT !.op = "user"]
                 /\ u \in Things /\ u.op = "user" /\ u.r = r /\ u.how = how
    <2>1. PICK t \in Things : t = Todo
      BY <1>2
    <2> DEFINE v == [t EXCEPT !.op = "user"]
    <2>2. v \in Things /\ v.op = "user" /\ v.r = t.r /\ v.how = t.how
      BY DEF Things
    <2>3. v = [Todo EXCEPT !.op = "user"]
      BY <2>1
    <2> HIDE DEF v
    <2> QED
      BY <2>1, <2>2, <2>3
  <1>6. IsSeq(<<u>>) /\ Items(<<u>>) = {u} /\ InSequence(<<u>>, Order')
    BY ShortIsSeq, InSequenceShort
  <1>7. agenda' = <<u>> \o Rest /\ told' = [told EXCEPT ![r] = Append(@, how)]
    BY <1>5 DEF FireHandler
  <1>8. /\ told \in Seq(Seq(Handlers)) /\ r \in 1..Len(told) /\ r \in DOMAIN told
        /\ Len(told) = Len(requests) /\ told[r] \in Seq(Handlers)
    <2>1. told \in Seq(Seq(Handlers)) /\ requests \in Seq(Requests) /\ Len(told) = Len(requests)
      BY <1>3 DEF Shape
    <2>2. r \in 1..Len(told) /\ r \in DOMAIN told
      BY <1>2, <2>1, LenProperties
    <2> QED
      BY <2>1, <2>2, ElementOfSeq
  <1>9. /\ IsSeq(told[r]) /\ Items(told[r]) \subseteq Handlers
        /\ Append(told[r], how) \in Seq(Handlers)
        /\ Items(Append(told[r], how)) = Items(told[r]) \cup {how}
        /\ Append(told[r], how) = told[r] \o <<how>>
    BY <1>4, <1>8, SeqIsSeq, AppendIsSeq, AppendProperties
  <1>10. /\ told' \in Seq(Seq(Handlers)) /\ Len(told') = Len(told)
         /\ told'[r] = Append(told[r], how)
         /\ \A x \in DOMAIN requests : x # r => told'[x] = told[x]
    <2>1. PICK new \in Seq(Handlers) : new = Append(told[r], how)
      BY <1>9
    <2>2. told' = [told EXCEPT ![r] = new]
      BY <1>7, <1>8, <2>1
    <2>3. told' \in Seq(Seq(Handlers)) /\ Len(told') = Len(told)
      BY <1>8, <2>2, ExceptSeq
    <2>4. \A x \in DOMAIN requests : x \in DOMAIN told
      BY <1>3, <1>8, LenProperties DEF Shape
    <2> QED
      BY <1>8, <2>1, <2>2, <2>3, <2>4
  <1>11. \A x \in DOMAIN requests : x # r => SameRequest(x)
    BY <1>1, <1>10 DEF SameRequest, SameInHand, net
  <1>12. DealsWith(r, <<u>>, Rest)
    <2>1. Sound(r)' => Sound(r)
      BY <1>1 DEF Sound
    <2> QED
      BY <1>1, <1>2, <1>5, <1>6, <1>7, <1>11, <2>1 DEF DealsWith
  <1>13. Shape'
    <2>1. agenda' \in Seq(Things)
      BY <1>2, <1>5, <1>6, <1>7, AgendaShape
    <2> QED
      BY <1>1, <1>3, <1>10, <2>1 DEF Shape, net, names
  <1>14. /\ CountsDown(r)' <=> \E x \in Items(<<u>>) \cup Items(Rest) : x.op = "count" /\ x.r = r
         /\ ToFire(r)' = {x.how : x \in {y \in Items(<<u>>) \cup Items(Rest) : y.op = "fire" /\ y.r = r}}
    BY <1>3, <1>12, <1>13, OthersCounted
  <1>15. /\ Sound(r)' <=> Sound(r)
         /\ requests' = requests /\ waiting' = waiting /\ fate' = fate
         /\ Items(told'[r]) = Items(told[r]) \cup {how}
    BY <1>1, <1>9, <1>10 DEF net, Sound
  <1>16. InHand(u)'
    BY <1>2, <1>4, <1>5, <1>15 DEF InHand, Pipeline
  <1>17. \A x \in Items(<<u>>), y \in Items(Rest) : y.r = r => Before(x, y)'
    <2> SUFFICES ASSUME NEW y \in Items(Rest) PROVE Before(u, y)'
      BY <1>6
    <2>1. ~AtOnce(y)'
      BY <1>1, <1>2 DEF AtOnce, Sound
    <2> QED
      BY <1>5, <2>1 DEF Before, Pipeline
  <1>18. \A x, y \in Items(Rest) : x.r = r /\ y.r = r /\ Before(x, y) => Before(x, y)'
    BY <1>15 DEF Before, AtOnce, Sound
  <1>19. \A x \in Items(Rest) : x.r = r => InHand(x)'
    <2> SUFFICES ASSUME NEW x \in Items(Rest), x.r = r PROVE InHand(x)'
      OBVIOUS
    <2>1. InHand(x) /\ Before(Todo, x)
      BY <1>2
    <2>2. Sound(r) =>
            /\ x.op = "fire" => Rank(how) < Rank(x.how)
            /\ x.op = "count" => how # "ajaxStop"
            /\ requests[r].state < 2 /\ x.op \in Pipeline => how \in Passed(x.op)
      BY <1>2, <2>1 DEF Before
    <2>3. Sound(r) =>
            /\ x.op = "fire" => \A p \in Items(told'[r]) : Rank(p) < Rank(x.how)
            /\ x.op = "count" => "ajaxStop" \notin Items(told'[r])
            /\ requests[r].state < 2 =>
                 /\ x.op = "fire" => x.how \in Opening
                 /\ x.op \in Pipeline => Items(told'[r]) \subseteq Passed(x.op)
      BY <1>15, <2>1, <2>2 DEF InHand
    <2> QED
      BY <1>15, <2>1, <2>3 DEF InHand
  <1>20. Known(r)'
    <2>1. Sound(r) => InSequence(told'[r], InRank)
      <3> SUFFICES ASSUME Sound(r) PROVE InSequence(told[r] \o <<how>>, InRank)
        BY <1>9, <1>10
      <3>1. InSequence(told[r], InRank)
        BY <1>2 DEF Known
      <3>2. \A p \in Items(told[r]), s \in Items(<<how>>) : <<p, s>> \in InRank
        <4>1. Items(<<how>>) = {how}
          BY ShortIsSeq
        <4>2. \A p \in Items(told[r]) : Rank(p) < Rank(how)
          BY <1>2 DEF InHand
        <4> QED
          BY <1>4, <1>9, <4>1, <4>2 DEF InRank
      <3>3. IsSeq(<<how>>) /\ InSequence(<<how>>, InRank)
        BY ShortIsSeq, InSequenceShort
      <3> QED
        BY <1>9, <3>1, <3>2, <3>3, InSequenceConcat
    <2>2. Sound(r) /\ requests[r].state < 2 => Items(told'[r]) \subseteq Opening
      BY <1>2, <1>15 DEF InHand, Known
    <2>3. Items(told'[r]) \cup ToFire(r)' = Items(told[r]) \cup ToFire(r)
      <3>1. ToFire(r)' = {x.how : x \in {y \in Items(Rest) : y.op = "fire" /\ y.r = r}}
        BY <1>5, <1>6, <1>14
      <3>2. ToFire(r) = {how} \cup {x.how : x \in {y \in Items(Rest) : y.op = "fire" /\ y.r = r}}
        BY <1>2 DEF ToFire
      <3> QED
        BY <1>15, <3>1, <3>2
    <2>4. Due(r)' = Due(r)
      BY <1>15 DEF Due
    <2> QED
      BY <1>2, <1>15, <2>1, <2>2, <2>3, <2>4 DEF Known
  <1>21. CountOK'
    <2>1. CountsDown(r)' <=> CountsDown(r)
      BY <1>2, <1>5, <1>6, <1>14 DEF CountsDown
    <2>2. r \in Counted' <=> r \in Counted
      BY <1>15, <2>1 DEF Counted, Pending
    <2> QED
      BY <1>1, <1>12, <1>13, <2>2, CountKept
  <1>22. \A x \in Items(<<u>>) : InHand(x)'
    BY <1>6, <1>16
  <1> QED
    BY <1>2, <1>6, <1>12, <1>13, <1>17, <1>18, <1>19, <1>20, <1>21, <1>22, Assemble


--------------------------------------------------------------------------------
(* The environment and the user                                            *)

\* Nothing changes that the invariant speaks of.
LEMMA Unaffected ==
  ASSUME IInv, Shape', UNCHANGED <<active, agenda, fate>>,
         DOMAIN requests' = DOMAIN requests, \A x \in DOMAIN requests : SameRequest(x)
  PROVE  IInv'
  <1>1. ASSUME NEW x \in Items(agenda) PROVE InHand(x)' /\ x.r \in DOMAIN requests
    <2>1. InHand(x) /\ x.r \in DOMAIN requests
      BY DEF IInv, InHand
    <2> QED
      BY <2>1, StaysInHand DEF SameRequest
  <1>2. InSequence(agenda, Order')
    <2> SUFFICES ASSUME NEW x \in Items(agenda), NEW y \in Items(agenda), <<x, y>> \in Order
                 PROVE  <<x, y>> \in Order'
      BY InSequenceWider DEF IInv
    <2>1. Before(x, y) /\ x \in Things /\ y \in Things /\ SameInHand(x.r)
      BY <1>1 DEF Order, SameRequest
    <2>2. Sound(y.r)' => Sound(y.r)
      BY DEF Sound
    <2>3. Before(x, y)'
      BY <2>1, <2>2, StaysBefore
    <2> QED
      BY <2>1, <2>3 DEF Order
  <1>3. ASSUME NEW r \in DOMAIN requests PROVE Known(r)'
    <2>1. ToFire(r)' = ToFire(r)
      BY DEF ToFire
    <2>2. Known(r) /\ SameRequest(r)
      BY DEF IInv
    <2> QED
      BY <2>1, <2>2, StaysKnown
  <1>4. CountOK'
    <2>1. \A r : CountsDown(r)' <=> CountsDown(r)
      BY DEF CountsDown
    <2>2. \A r \in DOMAIN requests : requests'[r].fires = requests[r].fires /\ requests'[r].state = requests[r].state
      BY DEF SameRequest, SameInHand
    <2>3. Counted' = Counted
      BY <2>1, <2>2 DEF Counted, Pending
    <2> QED
      BY <2>3 DEF IInv, CountOK
  <1> QED
    BY <1>1, <1>2, <1>3, <1>4 DEF IInv

\* The whole agenda stays, and all of it can.
LEMMA AllStays ==
  ASSUME IInv, Idle \/ IsNext("user")
  PROVE  /\ IsSeq(agenda) /\ Items(agenda) \subseteq Things /\ InSequence(agenda, Order)
         /\ \A y \in Items(agenda) : ~AtOnce(y) /\ InHand(y)
  <1>1. IsSeq(agenda) /\ Items(agenda) \subseteq Things /\ InSequence(agenda, Order)
    BY SeqIsSeq DEF IInv, Shape
  <1>2. \A y \in Items(agenda) : InHand(y)
    BY DEF IInv
  <1>3. CASE Idle
    <2>1. Items(agenda) = {}
      BY <1>3, ShortIsSeq DEF Idle
    <2> QED
      BY <1>1, <2>1
  <1>4. CASE IsNext("user")
    <2>1. /\ Todo.op = "user" /\ Items(agenda) = {Todo} \cup Items(Rest)
          /\ \A y \in Items(Rest) : ~AtOnce(y)
      BY <1>4, InTurn
    <2> QED
      BY <1>1, <1>2, <2>1 DEF AtOnce
  <1> QED
    BY <1>3, <1>4

\* done() comes for a request that waits or is aborted.
LEMMA DoneComes ==
  ASSUME IInv, Shape', Idle \/ IsNext("user"),
         NEW r \in DOMAIN requests, NEW how \in {"ok", "garbled", "failed", "error"},
         agenda' = <<Do("done", r, how)>> \o agenda,
         UNCHANGED <<active, told>>,
         waiting' \subseteq waiting, r \notin waiting',
         DOMAIN requests' = DOMAIN requests, \A x \in DOMAIN requests : x # r => SameRequest(x),
         requests'[r].state = requests[r].state, requests'[r].fires = requests[r].fires,
         requests'[r].beforeSend = requests[r].beforeSend,
         requests'[r].name = requests[r].name, requests'[r].fixed = requests[r].fixed,
         requests'[r].outcome = requests[r].outcome, requests'[r].installed = requests[r].installed,
         requests'[r].transport = requests[r].transport,
         requests'[r].timer => requests[r].timer,
         fate'.thrown = fate.thrown, fate'.interfered = fate.interfered, fate.early \subseteq fate'.early,
         \A y \in Items(agenda) : y.r = r /\ Sound(r)' /\ requests[r].state < 2 =>
                                     /\ y.op # "fire"
                                     /\ y.op = "transport" => requests[r].beforeSend
  PROVE  IInv'
  <1>1. /\ IsSeq(agenda) /\ Items(agenda) \subseteq Things /\ InSequence(agenda, Order)
        /\ \A y \in Items(agenda) : ~AtOnce(y) /\ InHand(y)
    BY AllStays
  <1>2. Shape /\ Known(r) /\ r \in Numbers
    BY RequestNumbers DEF IInv
  <1>3. PICK d : d = Do("done", r, how)
    OBVIOUS
  <1>4. d \in Things /\ d.op = "done" /\ d.r = r
    BY <1>2, <1>3 DEF Do, Things, Numbers
  <1>5. IsSeq(<<d>>) /\ Items(<<d>>) = {d}
    BY ShortIsSeq
  <1>6. Sound(r)' => Sound(r)
    BY DEF Sound
  <1>7. DealsWith(r, <<d>>, agenda)
    BY <1>1, <1>3, <1>4, <1>5, <1>6 DEF DealsWith
  <1>8. /\ CountsDown(r)' <=> \E x \in Items(<<d>>) \cup Items(agenda) : x.op = "count" /\ x.r = r
        /\ ToFire(r)' = {x.how : x \in {y \in Items(<<d>>) \cup Items(agenda) : y.op = "fire" /\ y.r = r}}
    BY <1>2, <1>7, OthersCounted
  <1>9. CountOK'
    <2>1. CountsDown(r)' <=> CountsDown(r)
      BY <1>4, <1>5, <1>8 DEF CountsDown
    <2>2. r \in Counted' <=> r \in Counted
      BY <2>1 DEF Counted, Pending
    <2> QED
      BY <1>7, <2>2, CountKept
  <1>10. Known(r)'
    <2>1. ToFire(r)' = ToFire(r)
      BY <1>4, <1>5, <1>8 DEF ToFire
    <2>2. Due(r)' = Due(r)
      BY DEF Due
    <2> QED
      BY <1>2, <1>6, <2>1, <2>2 DEF Known
  <1>11. \A x, y \in Items(agenda) : x.r = r /\ y.r = r /\ Before(x, y) => Before(x, y)'
    BY <1>6 DEF Before, AtOnce, Sound
  <1>12. \A x \in Items(agenda) : x.r = r => InHand(x)'
    <2> SUFFICES ASSUME NEW x \in Items(agenda), x.r = r PROVE InHand(x)'
      OBVIOUS
    <2>1. InHand(x)
      BY <1>1
    <2>2. x.op \in Pipeline => requests'[r].state # 1
      BY <2>1 DEF InHand
    <2>3. /\ x.op = "begin" => ~requests'[r].fires
          /\ x.op = "count" => requests'[r].fires
          /\ x.op = "count" /\ r \notin fate'.interfered => requests'[r].state = 2
          /\ x.op \in {"fire", "user"} => x.how \in Places
      BY <2>1 DEF InHand
    <2>4. Sound(r)' =>
            /\ x.op = "fire" => \A p \in Items(told'[r]) : Rank(p) < Rank(x.how)
            /\ x.op = "count" => "ajaxStop" \notin Items(told'[r])
            /\ x.op = "transport" /\ ~requests'[r].beforeSend => requests'[r].state = 0
            /\ requests'[r].state < 2 =>
                 /\ x.op = "fire" => x.how \in Opening
                 /\ x.op \in Pipeline => Items(told'[r]) \subseteq Passed(x.op)
      BY <1>6, <2>1 DEF InHand
    <2> QED
      BY <2>2, <2>3, <2>4 DEF InHand
  <1>13. \A y \in Items(agenda) : y.r = r /\ Sound(r)' /\ requests'[r].state < 2 =>
                                     /\ y.op # "fire"
                                     /\ y.op = "transport" => requests'[r].beforeSend
    OBVIOUS
  <1> QED
    BY <1>1, <1>2, <1>4, <1>7, <1>9, <1>10, <1>11, <1>12, <1>13, DoneNext

LEMMA AnswerStep ==
  ASSUME IInv, NEW how \in {"ok", "garbled", "failed", "error"}, AnswerWith(how)
  PROVE  IInv'
  <1>1. PICK r \in waiting : waiting' = waiting \ {r} /\ agenda' = <<Do("done", r, how)>>
    BY DEF AnswerWith
  <1>2. Idle /\ agenda = <<>> /\ UNCHANGED <<requests, active, loading, names, acts, told, fate>>
    BY DEF AnswerWith, Idle
  <1>3. Shape
    BY DEF IInv
  <1>4. r \in DOMAIN requests /\ r \in Numbers
    <2>1. r \in DOMAIN requests
      BY <1>3 DEF Shape
    <2> QED
      BY <1>3, <2>1, RequestNumbers
  <1>5. PICK d : d = Do("done", r, how)
    OBVIOUS
  <1>6. d \in Things
    BY <1>4, <1>5 DEF Do, Things, Numbers
  <1>7. <<d>> \in Seq(Things)
    <2>1. IsSeq(<<d>>) /\ Items(<<d>>) = {d}
      BY ShortIsSeq
    <2> QED
      BY <1>6, <2>1, ItemsInSeq
  <1>8. agenda' \in Seq(Things) /\ agenda' = <<d>> \o agenda
    <2>1. <<d>> \o <<>> = <<d>>
      BY <1>7, ConcatEmptySeq
    <2> QED
      BY <1>1, <1>2, <1>5, <1>7, <2>1
  <1>9. Shape'
    BY <1>1, <1>2, <1>3, <1>8 DEF Shape, names
  <1>10. Items(agenda) = {}
    BY <1>2, ShortIsSeq
  <1>11. \A x \in DOMAIN requests : x # r => SameRequest(x)
    BY <1>1, <1>2 DEF SameRequest, SameInHand
  <1> QED
    BY <1>1, <1>2, <1>4, <1>5, <1>8, <1>9, <1>10, <1>11, DoneComes

LEMMA LoadStep ==
  ASSUME IInv, Load
  PROVE  IInv'
  <1>1. Idle /\ agenda = <<>> /\ UNCHANGED <<active, names, acts, told, fate>>
    BY DEF Load, Idle
  <1>2. PICK r \in loading, calls \in BOOLEAN :
          LET x == window[requests[r].name]
          IN /\ loading' = loading \ {r}
             /\ requests' = IF calls THEN Give(x, r) ELSE requests
             /\ waiting' = waiting \ {r}
             /\ agenda' = IF r \in waiting THEN <<Do("done", r, "ok")>> ELSE <<>>
    BY DEF Load
  <1>3. Shape
    BY DEF IInv
  <1>4. r \in DOMAIN requests /\ r \in Numbers /\ r \in 0..MaxRequests
    <2>1. r \in DOMAIN requests
      BY <1>3 DEF Shape
    <2> QED
      BY <1>3, <2>1, RequestNumbers DEF Numbers
  <1>5. /\ requests' \in Seq(Requests) /\ Len(requests') = Len(requests)
        /\ DOMAIN requests' = DOMAIN requests
        /\ \A x \in DOMAIN requests : OnlyContainer(x)
    <2>1. PICK x : x = window[requests[r].name]
      OBVIOUS
    <2>2. CASE requests' = requests
      BY <1>3, <2>2 DEF Shape, OnlyContainer, SameButData
    <2>3. CASE requests' = Give(x, r)
      <3>1. x = WindowOf(r) /\ x \in 0..MaxRequests
        BY <1>4, <2>1, WindowOfRequest DEF WindowOf
      <3>2. Given(requests', x, r)
        BY <1>3, <1>4, <2>3, <3>1, GiveFacts
      <3> QED
        BY <3>2 DEF Given, OnlyContainer
    <2> QED
      BY <1>2, <2>1, <2>2, <2>3
  <1>6. ASSUME agenda' \in Seq(Things) PROVE Shape'
    BY <1>1, <1>2, <1>3, <1>5, <1>6 DEF Shape, names
  <1>7. \A x \in DOMAIN requests : x # r \/ r \notin waiting => SameRequest(x)
    BY <1>1, <1>2, <1>5 DEF OnlyContainer, SameButData, SameRequest, SameInHand
  <1>8. CASE r \in waiting
    <2>1. PICK d : d = Do("done", r, "ok")
      OBVIOUS
    <2>2. d \in Things
      BY <1>4, <2>1 DEF Do, Things, Numbers
    <2>3. <<d>> \in Seq(Things)
      <3>1. IsSeq(<<d>>) /\ Items(<<d>>) = {d}
        BY ShortIsSeq
      <3> QED
        BY <2>2, <3>1, ItemsInSeq
    <2>4. agenda' \in Seq(Things) /\ agenda' = <<d>> \o agenda
      <3>1. <<d>> \o <<>> = <<d>>
        BY <2>3, ConcatEmptySeq
      <3> QED
        BY <1>1, <1>2, <1>8, <2>1, <2>3, <3>1
    <2>5. Shape'
      BY <1>6, <2>4
    <2>6. Items(agenda) = {}
      BY <1>1, ShortIsSeq
    <2>7. OnlyContainer(r)
      BY <1>4, <1>5
    <2> QED
      BY <1>1, <1>2, <1>4, <1>5, <1>7, <2>1, <2>4, <2>5, <2>6, <2>7, DoneComes DEF OnlyContainer, SameButData
  <1>9. CASE r \notin waiting
    <2>1. agenda' = agenda
      BY <1>1, <1>2, <1>9
    <2>2. Shape'
      BY <1>3, <1>6, <2>1 DEF Shape
    <2> QED
      BY <1>1, <1>5, <1>7, <1>9, <2>1, <2>2, Unaffected
  <1> QED
    BY <1>8, <1>9

LEMMA LoadFailsStep ==
  ASSUME IInv, LoadFails
  PROVE  IInv'
  <1>1. /\ loading' \subseteq loading
        /\ UNCHANGED <<requests, active, waiting, names, agenda, acts, told, fate>>
    BY DEF LoadFails
  <1>2. Shape'
    BY <1>1 DEF IInv, Shape, names
  <1>3. \A x \in DOMAIN requests : SameRequest(x)
    BY <1>1 DEF SameRequest, SameInHand
  <1> QED
    BY <1>1, <1>2, <1>3, Unaffected

LEMMA StutterStep ==
  ASSUME IInv, UNCHANGED vars
  PROVE  IInv'
  <1>1. UNCHANGED <<requests, active, waiting, loading, window, oldCallbacks, agenda, acts, told, fate>>
    BY DEF vars, net, names
  <1>2. Shape'
    BY <1>1 DEF IInv, Shape
  <1>3. \A x \in DOMAIN requests : SameRequest(x)
    BY <1>1 DEF SameRequest, SameInHand
  <1> QED
    BY <1>1, <1>2, <1>3, Unaffected

\* What abort() does.
LEMMA AbortStep ==
  ASSUME IInv, Shape', Idle \/ IsNext("user"), NEW r \in DOMAIN requests, AbortThen(r, agenda),
         UNCHANGED <<active, told>>,
         requests' = requests \/ requests' = [requests EXCEPT ![r].timer = FALSE],
         fate'.thrown = fate.thrown, fate'.interfered = fate.interfered,
         fate'.early = IF NotSeen(r) THEN fate.early \cup {r} ELSE fate.early
  PROVE  IInv'
  <1>1. Shape /\ Known(r)
    BY DEF IInv
  <1>2. /\ waiting' \subseteq waiting /\ \A x : x # r => (x \in waiting' <=> x \in waiting)
        /\ agenda' = <<Do("done", r, "error")>> \o agenda
    BY DEF AbortThen
  <1>3. r \notin waiting'
    BY <1>1 DEF AbortThen, Known
  <1>4. requests[r] \in Requests
    BY <1>1, ElementOfSeq, LenProperties DEF Shape
  <1>5. /\ DOMAIN requests' = DOMAIN requests
        /\ \A x \in DOMAIN requests : x # r => requests'[x] = requests[x]
        /\ requests'[r].state = requests[r].state /\ requests'[r].fires = requests[r].fires
        /\ requests'[r].beforeSend = requests[r].beforeSend
        /\ requests'[r].name = requests[r].name /\ requests'[r].fixed = requests[r].fixed
        /\ requests'[r].outcome = requests[r].outcome
        /\ requests'[r].installed = requests[r].installed
        /\ requests'[r].transport = requests[r].transport
        /\ requests'[r].timer => requests[r].timer
    <2>1. CASE requests' = requests
      BY <2>1
    <2>2. CASE requests' = [requests EXCEPT ![r].timer = FALSE]
      BY <1>4, <2>2 DEF Requests
    <2> QED
      BY <2>1, <2>2
  <1>6. \A x \in DOMAIN requests : x # r => SameRequest(x)
    BY <1>2, <1>5 DEF SameRequest, SameInHand
  <1>7. ASSUME NEW y \in Items(agenda), y.r = r, Sound(r)', requests[r].state < 2
        PROVE  y.op # "fire" /\ (y.op = "transport" => requests[r].beforeSend)
    <2>1. y \in Things /\ ~AtOnce(y) /\ InHand(y)
      BY AllStays
    <2>2. Sound(r) /\ ~NotSeen(r)
      BY <1>7 DEF Sound
    <2>3. y \in ToSet(agenda)
      <3>1. IsSeq(agenda)
        BY AllStays
      <3> QED
        BY <3>1, IsSeqFacts DEF Items, ToSet
    <2>4. ASSUME y.op = "fire" PROVE FALSE
      <3>1. y.how \in Opening
        BY <1>7, <2>1, <2>2, <2>4 DEF InHand
      <3>2. y.how = "beforeSend"
        BY <1>7, <2>1, <2>2, <2>4, <3>1 DEF AtOnce
      <3> QED
        BY <1>7, <2>2, <2>3, <2>4, <3>2 DEF NotSeen
    <2>5. ASSUME y.op = "transport", ~requests[r].beforeSend PROVE FALSE
      BY <1>7, <2>2, <2>3, <2>5 DEF NotSeen
    <2> QED
      BY <2>4, <2>5
  <1> QED
    BY <1>2, <1>3, <1>5, <1>6, <1>7, DoneComes

LEMMA DoneFirst ==
  ASSUME NEW r \in Numbers, NEW how \in {"ok", "garbled", "failed", "error"}, NEW s \in Seq(Things)
  PROVE  <<Do("done", r, how)>> \o s \in Seq(Things)
  <1>1. PICK d : d = Do("done", r, how)
    OBVIOUS
  <1>2. d \in Things
    BY <1>1 DEF Do, Things, Numbers
  <1>3. IsSeq(<<d>>) /\ Items(<<d>>) = {d}
    BY ShortIsSeq
  <1>4. IsSeq(s) /\ Items(s) \subseteq Things
    BY SeqIsSeq
  <1> QED
    BY <1>1, <1>2, <1>3, <1>4, AgendaShape

LEMMA TimesOutStep ==
  ASSUME IInv, TimesOut
  PROVE  IInv'
  <1>1. Idle /\ agenda = <<>> /\ UNCHANGED <<active, loading, names, acts, told, fate>>
    BY DEF TimesOut, Idle
  <1>2. PICK r \in DOMAIN requests : AbortThen(r, agenda) /\ requests' = [requests EXCEPT ![r].timer = FALSE]
    BY <1>1 DEF TimesOut
  <1>3. Shape
    BY DEF IInv
  <1>4. requests' \in Seq(Requests) /\ Len(requests') = Len(requests) /\ DOMAIN requests' = DOMAIN requests
    <2> DEFINE new == [requests[r] EXCEPT !.timer = FALSE]
    <2>1. requests[r] \in Requests
      BY <1>3, ElementOfSeq, LenProperties DEF Shape
    <2>2. new \in Requests
      BY <2>1 DEF Requests
    <2>3. requests' = [requests EXCEPT ![r] = new]
      BY <1>2
    <2> HIDE DEF new
    <2> QED
      BY <1>3, <2>2, <2>3, RequestUpdate
  <1>5. waiting' \subseteq waiting /\ agenda' = <<Do("done", r, "error")>> \o agenda
    BY <1>2 DEF AbortThen
  <1>6. agenda' \in Seq(Things)
    BY <1>3, <1>5, RequestNumbers, DoneFirst DEF Shape
  <1>7. Shape'
    BY <1>1, <1>3, <1>4, <1>5, <1>6 DEF Shape, names
  <1>8. ~NotSeen(r)
    BY <1>1 DEF NotSeen, ToSet
  <1> QED
    BY <1>1, <1>2, <1>7, <1>8, AbortStep

LEMMA CallAbortStep ==
  ASSUME IInv, NEW r \in DOMAIN requests, CallAbort(r)
  PROVE  IInv'
  <1>1. /\ Idle \/ IsNext("user")
        /\ acts < MaxActs /\ acts' = acts + 1
        /\ AbortThen(r, agenda)
        /\ UNCHANGED <<requests, active, loading, names, told>>
    BY DEF CallAbort
  <1>2. Shape
    BY DEF IInv
  <1>3. PICK early \in SUBSET Numbers :
          /\ fate' = [fate EXCEPT !.early = early]
          /\ early = IF NotSeen(r) THEN fate.early \cup {r} ELSE fate.early
    <2>1. r \in Numbers /\ fate.early \in SUBSET Numbers
      BY <1>2, RequestNumbers DEF Shape
    <2> QED
      BY <2>1 DEF CallAbort
  <1>4. /\ fate' \in [thrown : SUBSET Numbers, early : SUBSET Numbers,
                      interfered : SUBSET Numbers, shared : SUBSET Numbers]
        /\ fate'.thrown = fate.thrown /\ fate'.interfered = fate.interfered /\ fate'.early = early
    BY <1>2, <1>3 DEF Shape
  <1>5. waiting' \subseteq waiting /\ agenda' = <<Do("done", r, "error")>> \o agenda
    BY <1>1 DEF AbortThen
  <1>6. agenda' \in Seq(Things)
    BY <1>2, <1>5, RequestNumbers, DoneFirst DEF Shape
  <1>7. acts' \in 0..MaxActs
    BY <1>1, <1>2, AjaxAssumption DEF Shape
  <1>8. Shape'
    BY <1>1, <1>2, <1>4, <1>5, <1>6, <1>7 DEF Shape, names
  <1> QED
    BY <1>1, <1>3, <1>4, <1>8, AbortStep

LEMMA ReturnStep ==
  ASSUME IInv, NEW refuses \in BOOLEAN, Return(refuses)
  PROVE  IInv'
  <1>1. /\ IsNext("user") /\ agenda' = Rest
        /\ UNCHANGED <<active, net, names, acts, told, fate>>
    BY DEF Return
  <1> PICK r : r = Todo.r
    OBVIOUS
  <1>2. /\ agenda # <<>> /\ Todo.op = "user" /\ r \in DOMAIN requests
        /\ requests[r] \in Requests /\ IsSeq(Rest) /\ Items(Rest) \subseteq Things
    BY <1>1, InTurn
  <1>3. Shape
    BY DEF IInv
  <1>4. requests' = IF refuses THEN [requests EXCEPT ![r].refused = TRUE] ELSE requests
    BY DEF Return
  <1>5. /\ requests' \in Seq(Requests) /\ Len(requests') = Len(requests)
        /\ DOMAIN requests' = DOMAIN requests
        /\ \A x \in DOMAIN requests : SameRequest(x)
    <2>1. CASE refuses
      <3> DEFINE new == [requests[r] EXCEPT !.refused = TRUE]
      <3>1. /\ new \in Requests
            /\ new.state = requests[r].state /\ new.fires = requests[r].fires
            /\ new.beforeSend = requests[r].beforeSend
            /\ new.name = requests[r].name /\ new.fixed = requests[r].fixed
            /\ new.outcome = requests[r].outcome /\ new.installed = requests[r].installed
            /\ new.transport = requests[r].transport /\ new.timer = requests[r].timer
        BY <1>2 DEF Requests
      <3>2. requests' = [requests EXCEPT ![r] = new]
        BY <1>4, <2>1
      <3> HIDE DEF new
      <3>3. /\ requests' \in Seq(Requests) /\ Len(requests') = Len(requests)
            /\ DOMAIN requests' = DOMAIN requests
            /\ requests'[r] = new
            /\ \A x \in DOMAIN requests : x # r => requests'[x] = requests[x]
        BY <1>2, <1>3, <3>1, <3>2, RequestUpdate
      <3> QED
        BY <1>1, <3>1, <3>3 DEF SameRequest, SameInHand, net
    <2>2. CASE ~refuses
      BY <1>1, <1>3, <1>4, <2>2 DEF Shape, SameRequest, SameInHand, net
    <2> QED
      BY <2>1, <2>2
  <1>6. Shape'
    <2>1. Rest \in Seq(Things)
      BY <1>2, ItemsInSeq
    <2> QED
      BY <1>1, <1>3, <1>5, <2>1 DEF Shape, net, names
  <1> QED
    BY <1>1, <1>2, <1>5, <1>6, JustTaken

\* A request on the agenda that is lost is one hurt by the throw.
LEMMA ThrowStep ==
  ASSUME IInv, Throw
  PROVE  IInv'
  <1>1. /\ IsNext("user") /\ agenda' = <<>>
        /\ acts < MaxActs /\ acts' = acts + 1
        /\ UNCHANGED <<requests, active, net, names, told>>
    BY DEF Throw
  <1>2. Shape /\ agenda # <<>> /\ Todo \in Items(agenda)
    BY <1>1, InTurn DEF IInv
  <1>3. PICK hurt : hurt = {x.r : x \in Items(agenda)}
    OBVIOUS
  <1>4. hurt \subseteq Numbers /\ hurt # {}
    <2>1. Items(agenda) \subseteq Things
      BY <1>2, SeqIsSeq DEF Shape
    <2>2. \A x \in Items(agenda) : x.r \in Numbers
      BY <2>1 DEF Things, Numbers
    <2>3. Todo.r \in hurt
      BY <1>2, <1>3
    <2> QED
      BY <1>3, <2>2, <2>3
  <1>5. {agenda[i].r : i \in DOMAIN agenda} = hurt
    <2>1. DOMAIN agenda = 1..Len(agenda)
      BY <1>2, LenProperties DEF Shape
    <2> QED
      BY <1>3, <2>1 DEF Items
  <1>6. fate' = [fate EXCEPT !.thrown = @ \cup hurt]
    BY <1>5 DEF Throw
  <1>7. /\ fate' \in [thrown : SUBSET Numbers, early : SUBSET Numbers,
                      interfered : SUBSET Numbers, shared : SUBSET Numbers]
        /\ fate'.thrown = fate.thrown \cup hurt
        /\ fate'.interfered = fate.interfered /\ fate'.early = fate.early
    BY <1>2, <1>4, <1>6 DEF Shape
  <1>8. acts' \in 0..MaxActs
    BY <1>1, <1>2, AjaxAssumption DEF Shape
  <1>9. Items(agenda') = {} /\ InSequence(agenda', Order')
    BY <1>1, ShortIsSeq, InSequenceShort
  <1>10. Shape'
    <2>1. agenda' \in Seq(Things)
      BY <1>1, EmptySeq
    <2> QED
      BY <1>1, <1>2, <1>7, <1>8, <2>1 DEF Shape, net, names
  <1>11. ASSUME NEW r \in DOMAIN requests PROVE Known(r)'
    <2>1. Known(r) /\ (Sound(r)' => Sound(r) /\ r \notin hurt)
      BY <1>7 DEF IInv, Sound
    <2>2. ToFire(r)' = {}
      BY <1>9 DEF ToFire
    <2>3. r \notin hurt => ToFire(r) = {}
      BY <1>3 DEF ToFire
    <2>4. Due(r)' = Due(r)
      BY <1>1 DEF Due
    <2>5. Sound(r)' => ToFire(r)' = ToFire(r)
      BY <2>1, <2>2, <2>3
    <2> QED
      BY <1>1, <1>7, <2>1, <2>4, <2>5 DEF Known, net
  <1>12. CountOK'
    BY <1>4, <1>7 DEF CountOK
  <1>13. DOMAIN requests' = DOMAIN requests
    BY <1>1
  <1> QED
    BY <1>9, <1>10, <1>11, <1>12, <1>13 DEF IInv


\* A callback name is 0 only if the user has fixed it.
LEMMA Names ==
  ASSUME Shape, NEW o \in Options, Len(requests) < MaxRequests
  PROVE  /\ NameFor(o) \in 0..MaxRequests
         /\ NameFor(o) = 0 => o.fixed
         /\ oldCallbacks # <<>> => Front(oldCallbacks) \in Seq(Numbers)
  <1>1. MaxRequests \in Nat
    BY AjaxAssumption
  <1>2. /\ oldCallbacks \in Seq(Numbers) /\ Len(oldCallbacks) \in Nat
        /\ oldCallbacks # <<>> => Len(oldCallbacks) >= 1
    BY EmptySeq, LenProperties DEF Shape
  <1>3. ASSUME oldCallbacks # <<>>
        PROVE  Last(oldCallbacks) \in Numbers /\ Front(oldCallbacks) \in Seq(Numbers)
    <2>1. Len(oldCallbacks) \in 1..Len(oldCallbacks)
      BY <1>2, <1>3
    <2>2. \A i \in 1..(Len(oldCallbacks) - 1) : oldCallbacks[i] \in Numbers
      BY <1>2, ElementOfSeq
    <2>3. 1 \in Int /\ Len(oldCallbacks) - 1 \in Int
      BY <1>2
    <2> QED
      BY <1>2, <2>1, <2>2, <2>3, ElementOfSeq, SubSeqProperties DEF Last, Front
  <1>4. PICK others : others = {r \in DOMAIN requests : requests[r].jsonp /\ ~requests[r].reused
                                                        /\ ~requests[r].fixed}
    OBVIOUS
  <1>5. Cardinality(others) \in 0..(MaxRequests - 1)
    <2>1. Len(requests) \in Nat /\ DOMAIN requests = 1..Len(requests)
      BY LenProperties DEF Shape
    <2>2. /\ IsFiniteSet(1..Len(requests)) /\ Cardinality(1..Len(requests)) = Len(requests)
      <3>1. 1 \in Int /\ Len(requests) \in Int /\ (1 > Len(requests) => Len(requests) = 0)
        BY <2>1
      <3>2. /\ IsFiniteSet(1..Len(requests))
            /\ Cardinality(1..Len(requests)) = IF 1 > Len(requests) THEN 0 ELSE Len(requests) - 1 + 1
        BY <3>1, FS_Interval
      <3> QED
        BY <2>1, <3>1, <3>2
    <2>3. others \in SUBSET (1..Len(requests))
      BY <1>4, <2>1
    <2>4. IsFiniteSet(others) /\ Cardinality(others) <= Len(requests)
      BY <2>2, <2>3, FS_Subset
    <2>5. Cardinality(others) \in Nat
      BY <2>4, FS_CardinalityType
    <2> QED
      BY <1>1, <2>1, <2>4, <2>5
  <1>6. NameFor(o) = IF o.fixed THEN 0 ELSE IF oldCallbacks # <<>> THEN Last(oldCallbacks)
                     ELSE 1 + Cardinality(others)
    BY <1>4 DEF NameFor
  <1>7. 1 + Cardinality(others) \in 1..MaxRequests
    BY <1>1, <1>5
  <1> QED
    BY <1>1, <1>3, <1>6, <1>7 DEF Numbers

LEMMA NewThings ==
  ASSUME NEW r \in Numbers
  PROVE  \E things :
           /\ things = Fire("prefilter", r) \o <<Do("begin", r, "")>>
           /\ IsSeq(things) /\ InSequence(things, Order') /\ Items(things) \subseteq Things
           /\ \A x \in Items(things) :
                /\ x.r = r
                /\ x.op = "begin" \/ (x.op = "fire" /\ x.how = "prefilter" /\ x.how \in Places)
  <1>1. PICK fires : /\ fires = Fire("prefilter", r)
                     /\ IsSeq(fires) /\ InSequence(fires, Order')
                     /\ \A x \in Items(fires) : /\ x \in Things /\ x.op = "fire" /\ x.r = r
                                                /\ x.how = "prefilter" /\ x.how \in Places
    <2>1. "prefilter" \in Handlers
      BY HandlerSet
    <2> QED
      BY <2>1, FireFacts
  <1>2. PICK next : next = Do("begin", r, "")
    OBVIOUS
  <1>3. next \in Things /\ next.op = "begin" /\ next.r = r
    BY <1>2 DEF Do, Things, Numbers
  <1>4. IsSeq(<<next>>) /\ Items(<<next>>) = {next} /\ InSequence(<<next>>, Order')
    BY ShortIsSeq, InSequenceShort
  <1>5. ASSUME NEW x \in Items(fires), NEW y \in Items(<<next>>) PROVE <<x, y>> \in Order'
    <2>1. x \in Things /\ x.op = "fire" /\ x.how = "prefilter" /\ x.how \in Passed("begin")
      BY <1>1 DEF Passed
    <2>2. y \in Things /\ y.op = "begin"
      BY <1>3, <1>4
    <2>3. Before(x, y)'
      BY <2>1, <2>2 DEF Before, AtOnce, Pipeline
    <2> QED
      BY <2>1, <2>2, <2>3 DEF Order
  <1>6. /\ IsSeq(fires \o <<next>>) /\ InSequence(fires \o <<next>>, Order')
        /\ Items(fires \o <<next>>) = Items(fires) \cup {next}
    BY <1>1, <1>4, <1>5, Joined
  <1>7. PICK things : /\ things = fires \o <<next>>
                      /\ IsSeq(things) /\ InSequence(things, Order')
                      /\ Items(things) = Items(fires) \cup {next}
    BY <1>6
  <1>8. things = Fire("prefilter", r) \o <<Do("begin", r, "")>>
    BY <1>1, <1>2, <1>7
  <1>9. Items(things) \subseteq Things
    BY <1>1, <1>3, <1>7
  <1>10. ASSUME NEW x \in Items(things)
         PROVE  /\ x.r = r
                /\ x.op = "begin" \/ (x.op = "fire" /\ x.how = "prefilter" /\ x.how \in Places)
    BY <1>1, <1>3, <1>7
  <1> QED
    BY <1>7, <1>8, <1>9, <1>10

\* A request that is new.
LEMMA NewIsKnown ==
  ASSUME NEW r, r \in DOMAIN requests', Items(told'[r]) = {}, InSequence(told'[r], InRank),
         requests'[r].state = 0, ~requests'[r].fires, requests'[r].outcome = "pending",
         requests'[r].name = 0 => requests'[r].fixed, r \notin waiting'
  PROVE  /\ Known(r)'
         /\ \A x : /\ x.r = r
                   /\ x.op = "begin" \/ (x.op = "fire" /\ x.how = "prefilter" /\ x.how \in Places)
                   => InHand(x)'
  <1>1. Known(r)'
    BY DEF Known
  <1>2. ASSUME NEW x, x.r = r,
               x.op = "begin" \/ (x.op = "fire" /\ x.how = "prefilter" /\ x.how \in Places)
        PROVE  InHand(x)'
    BY <1>2 DEF InHand, Pipeline, Opening
  <1> QED
    BY <1>1, <1>2

LEMMA CallAjaxStep ==
  ASSUME IInv, NEW o \in Options, CallAjax(o)
  PROVE  IInv'
  <1>1. Idle \/ IsNext("user")
    BY DEF CallAjax
  <1>2. AjaxThen(o, agenda)
    BY DEF CallAjax
  <1>3. Shape
    BY DEF IInv
  <1> PICK r : r = Len(requests) + 1
    OBVIOUS
  <1> PICK jsonp \in BOOLEAN : jsonp <=> o.type = "jsonp"
    OBVIOUS
  <1> PICK name : name = NameFor(o)
    OBVIOUS
  <1>4. /\ r <= MaxRequests /\ r \in Numbers /\ Len(requests) < MaxRequests
        /\ DOMAIN requests = 1..Len(requests) /\ r \notin DOMAIN requests
        /\ Len(requests) \in Nat /\ Len(requests) + 1 = r
    <2>1. r <= MaxRequests
      BY <1>2 DEF AjaxThen
    <2>2. Len(requests) \in Nat /\ DOMAIN requests = 1..Len(requests)
      BY <1>3, LenProperties DEF Shape
    <2> QED
      BY <2>1, <2>2, AjaxAssumption DEF Numbers
  <1>5. /\ name \in 0..MaxRequests /\ (name = 0 => o.fixed)
        /\ oldCallbacks # <<>> => Front(oldCallbacks) \in Seq(Numbers)
    BY <1>3, <1>4, Names
  <1>6. o.async \in BOOLEAN /\ o.timeout \in BOOLEAN /\ o.beforeSend \in BOOLEAN /\ o.fixed \in BOOLEAN
    BY AjaxAssumption
  \* The new request.
  <1>7. PICK transportOf \in {"xhr", "script", "none"} : transportOf = TransportOf(o)
    BY DEF TransportOf
  <1>8. PICK reused \in BOOLEAN : reused <=> jsonp /\ ~o.fixed /\ oldCallbacks # <<>>
    OBVIOUS
  <1>9. PICK global \in BOOLEAN : global <=> ~(jsonp /\ o.crossDomain)
    OBVIOUS
  <1>10. PICK overwritten \in 0..MaxRequests : overwritten = IF jsonp THEN window[name] ELSE 0
    <2>1. window[name] \in 0..MaxRequests /\ 0 \in 0..MaxRequests
      BY <1>3, <1>5, AjaxAssumption DEF Shape
    <2> QED
      BY <2>1
  <1>11. PICK rivals \in SUBSET Numbers : rivals = IF jsonp THEN Rivals(name) ELSE {}
    BY <1>3, RequestNumbers DEF Rivals
  <1> DEFINE new == [jsonp |-> jsonp, transportOf |-> transportOf, async |-> o.async,
                     timeout |-> o.timeout, beforeSend |-> o.beforeSend, fixed |-> o.fixed,
                     reused |-> reused, global |-> global, name |-> name, overwritten |-> overwritten, container |-> 0,
                     state |-> 0, fires |-> FALSE, refused |-> FALSE, installed |-> FALSE,
                     transport |-> FALSE, timer |-> FALSE, outcome |-> "pending"]
  <1>12. /\ requests' = Append(requests, new)
         /\ window' = IF jsonp THEN [window EXCEPT ![name] = r] ELSE window
         /\ oldCallbacks' = IF reused THEN Front(oldCallbacks) ELSE oldCallbacks
         /\ told' = Append(told, <<>>)
         /\ agenda' = Fire("prefilter", r) \o <<Do("begin", r, "")>> \o agenda
         /\ fate' = [fate EXCEPT !.shared = IF rivals = {} THEN @ ELSE @ \cup rivals \cup {r}]
         /\ UNCHANGED <<active, net, acts>>
    BY <1>2, <1>7, <1>8, <1>9, <1>10, <1>11 DEF AjaxThen
  <1>13. /\ new \in Requests
         /\ new.state = 0 /\ ~new.fires /\ ~new.transport /\ ~new.timer /\ new.outcome = "pending"
         /\ new.name = name /\ new.fixed = o.fixed
    <2>1. 0 \in 0..MaxRequests /\ 0 \in 0..2
      BY AjaxAssumption
    <2> QED
      BY <1>5, <1>6, <2>1 DEF Requests
  <1> HIDE DEF new
  <1>14. /\ requests' \in Seq(Requests) /\ Len(requests') = r
         /\ DOMAIN requests' = DOMAIN requests \cup {r}
         /\ requests'[r] = new
         /\ \A x \in DOMAIN requests : requests'[x] = requests[x]
    <2>1. /\ requests' \in Seq(Requests) /\ Len(requests') = Len(requests) + 1
          /\ \A i \in 1..Len(requests) : requests'[i] = requests[i]
          /\ requests'[Len(requests) + 1] = new
      <3>1. requests \in Seq(Requests) /\ new \in Requests
        BY <1>3, <1>13 DEF Shape
      <3>2. /\ Append(requests, new) \in Seq(Requests)
            /\ Len(Append(requests, new)) = Len(requests) + 1
            /\ \A i \in 1..Len(requests) : Append(requests, new)[i] = requests[i]
            /\ Append(requests, new)[Len(requests) + 1] = new
        BY <3>1, AppendProperties
      <3> QED
        BY <1>12, <3>2
    <2>2. DOMAIN requests' = 1..r
      BY <1>4, <2>1, LenProperties
    <2>3. 1..r = (1..Len(requests)) \cup {r}
      BY <1>4
    <2> QED
      BY <1>4, <2>1, <2>2, <2>3
  <1>15. /\ told' \in Seq(Seq(Handlers)) /\ Len(told') = r /\ told'[r] = <<>>
         /\ \A x \in DOMAIN requests : told'[x] = told[x]
    <2>1. <<>> \in Seq(Handlers) /\ told \in Seq(Seq(Handlers)) /\ Len(told) = Len(requests)
      BY <1>3, EmptySeq DEF Shape
    <2>2. PICK none \in Seq(Handlers) : none = <<>>
      BY <2>1
    <2>3. /\ Append(told, none) \in Seq(Seq(Handlers)) /\ Len(Append(told, none)) = Len(told) + 1
          /\ \A i \in 1..Len(told) : Append(told, none)[i] = told[i]
          /\ Append(told, none)[Len(told) + 1] = none
      BY <2>1, <2>2, AppendProperties
    <2> QED
      BY <1>4, <1>12, <2>1, <2>2, <2>3
  <1>16. /\ fate' \in [thrown : SUBSET Numbers, early : SUBSET Numbers,
                       interfered : SUBSET Numbers, shared : SUBSET Numbers]
         /\ fate'.thrown = fate.thrown /\ fate'.interfered = fate.interfered /\ fate'.early = fate.early
    <2>1. PICK shared \in SUBSET Numbers :
            shared = IF rivals = {} THEN fate.shared ELSE fate.shared \cup rivals \cup {r}
      BY <1>3, <1>4, <1>11 DEF Shape
    <2>2. fate' = [fate EXCEPT !.shared = shared]
      BY <1>3, <1>12, <2>1 DEF Shape
    <2> QED
      BY <1>3, <2>2 DEF Shape
  <1>17. /\ waiting' = waiting /\ loading' = loading /\ r \notin waiting
    BY <1>3, <1>4, <1>12 DEF Shape, net
  \* What it has to do.
  <1>18. PICK things : /\ things = Fire("prefilter", r) \o <<Do("begin", r, "")>>
                       /\ IsSeq(things) /\ InSequence(things, Order') /\ Items(things) \subseteq Things
                       /\ \A x \in Items(things) :
                            /\ x.r = r
                            /\ \/ x.op = "begin"
                               \/ x.op = "fire" /\ x.how = "prefilter" /\ x.how \in Places
    BY <1>4, NewThings
  <1>19. agenda' = things \o agenda
    BY <1>12, <1>18
  <1>20. /\ IsSeq(agenda) /\ Items(agenda) \subseteq Things /\ InSequence(agenda, Order)
         /\ \A y \in Items(agenda) : ~AtOnce(y) /\ InHand(y)
    BY <1>1, AllStays
  <1>21. \A y \in Items(agenda) : y.r # r
    BY <1>4, <1>20 DEF InHand
  <1>22. \A x \in DOMAIN requests : SameRequest(x)
    BY <1>14, <1>15, <1>16, <1>17 DEF SameRequest, SameInHand
  <1>23. DealsWith(r, things, agenda)
    <2>1. IsSeq(things) /\ \A x \in Items(things) : x.r = r
      BY <1>18
    <2>2. DOMAIN requests \subseteq DOMAIN requests' /\ DOMAIN requests' \subseteq DOMAIN requests \cup {r}
      BY <1>14
    <2>3. Sound(r)' => Sound(r)
      BY <1>16 DEF Sound
    <2> QED
      BY <1>19, <1>20, <1>22, <2>1, <2>2, <2>3 DEF DealsWith
  <1>24. window' \in [0..MaxRequests -> 0..MaxRequests] /\ oldCallbacks' \in Seq(Numbers)
    <2>1. r \in 0..MaxRequests
      BY <1>4 DEF Numbers
    <2>2. window' \in [0..MaxRequests -> 0..MaxRequests]
      BY <1>3, <1>12, <2>1 DEF Shape
    <2>3. oldCallbacks' \in Seq(Numbers)
      BY <1>3, <1>5, <1>8, <1>12 DEF Shape
    <2> QED
      BY <2>2, <2>3
  <1>25. Shape'
    <2>1. agenda' \in Seq(Things)
      BY <1>18, <1>19, <1>20, AgendaShape
    <2> QED
      BY <1>3, <1>4, <1>12, <1>14, <1>15, <1>16, <1>17, <1>24, <2>1 DEF Shape
  <1>26. /\ Known(r)'
         /\ \A x : /\ x.r = r
                   /\ x.op = "begin" \/ (x.op = "fire" /\ x.how = "prefilter" /\ x.how \in Places)
                   => InHand(x)'
    <2>1. Items(told'[r]) = {} /\ InSequence(told'[r], InRank)
      BY <1>15, ShortIsSeq, InSequenceShort
    <2>2. /\ r \in DOMAIN requests' /\ requests'[r].state = 0 /\ ~requests'[r].fires
          /\ requests'[r].outcome = "pending" /\ r \notin waiting'
      BY <1>13, <1>14, <1>17
    <2>3. requests'[r].name = 0 => requests'[r].fixed
      BY <1>5, <1>13, <1>14
    <2> QED
      BY <2>1, <2>2, <2>3, NewIsKnown
  <1>27. \A x \in Items(things) : InHand(x)'
    BY <1>18, <1>26
  <1>28. CountOK'
    <2>1. r \in Counted' <=> r \in Counted
      BY <1>4, <1>13, <1>14 DEF Counted
    <2>2. fate.thrown \subseteq fate'.thrown /\ fate.interfered \subseteq fate'.interfered /\ UNCHANGED active
      BY <1>12, <1>16
    <2> QED
      BY <1>23, <1>25, <2>1, <2>2, CountKept
  <1> QED
    BY <1>4, <1>18, <1>21, <1>23, <1>25, <1>26, <1>27, <1>28, Assemble

--------------------------------------------------------------------------------
(* The data and the names of jsonp                                         *)

\* Converting along a list of one type.
LEMMA OneConversion ==
  ASSUME NEW start, NEW type, NEW convs, NEW bad
  PROVE  Convert(start, <<type>>, convs, bad) = ConvertTo(start, type, convs, bad)
  <1> PICK types : types = <<type>>
    OBVIOUS
  <1>1. Len(types) = 1 /\ types[1] = type
    OBVIOUS
  <1> DEFINE Reaches(f) == f = [i \in 0..Len(types) |->
                                  IF i = 0 THEN start ELSE ConvertTo(f[i - 1], types[i], convs, bad)]
             g == [i \in 0..1 |-> IF i = 0 THEN start ELSE ConvertTo(start, type, convs, bad)]
  <1>2. Convert(start, types, convs, bad) = (CHOOSE f : Reaches(f))[Len(types)]
    BY DEF Convert
  <1>3. Reaches(g)
    <2>1. g[0] = start /\ 0..Len(types) = 0..1 /\ \A i \in 0..1 : i # 0 => i = 1 /\ i - 1 = 0
      BY <1>1
    <2>2. \A i \in 0..1 : g[i] = IF i = 0 THEN start ELSE ConvertTo(g[i - 1], types[i], convs, bad)
      BY <1>1, <2>1
    <2> QED
      BY <1>1, <2>1, <2>2
  <1> HIDE DEF Reaches
  <1>4. Reaches(CHOOSE f : Reaches(f))
    BY <1>3, Zenon
  <1>5. PICK h : h = CHOOSE f : Reaches(f)
    OBVIOUS
  <1>6. h = [i \in 0..1 |-> IF i = 0 THEN start ELSE ConvertTo(h[i - 1], types[i], convs, bad)]
    BY <1>1, <1>4, <1>5 DEF Reaches
  <1>7. h[1] = ConvertTo(h[0], types[1], convs, bad) /\ h[0] = start
    BY <1>6
  <1> QED
    BY <1>1, <1>2, <1>5, <1>7

\* Converting along a list of two types.
LEMMA TwoConversions ==
  ASSUME NEW start, NEW middle, NEW type, NEW convs, NEW bad,
         NEW one, one = ConvertTo(start, middle, convs, bad)
  PROVE  Convert(start, <<middle, type>>, convs, bad) = ConvertTo(one, type, convs, bad)
  <1> PICK types : types = <<middle, type>>
    OBVIOUS
  <1>1. Len(types) = 2 /\ types[1] = middle /\ types[2] = type
    OBVIOUS
  <1> PICK two : two = ConvertTo(one, type, convs, bad)
    OBVIOUS
  <1> DEFINE Reaches(f) == f = [i \in 0..Len(types) |->
                                  IF i = 0 THEN start ELSE ConvertTo(f[i - 1], types[i], convs, bad)]
             g == [i \in 0..2 |-> IF i = 0 THEN start ELSE IF i = 1 THEN one ELSE two]
  <1>2. Convert(start, types, convs, bad) = (CHOOSE f : Reaches(f))[Len(types)]
    BY DEF Convert
  <1>3. Reaches(g)
    <2>1. /\ g[0] = start /\ g[1] = one /\ 0..Len(types) = 0..2
          /\ \A i \in 0..2 : i = 0 \/ (i = 1 /\ i - 1 = 0) \/ (i = 2 /\ i - 1 = 1)
      BY <1>1
    <2>2. \A i \in 0..2 : g[i] = IF i = 0 THEN start ELSE ConvertTo(g[i - 1], types[i], convs, bad)
      BY <1>1, <2>1
    <2> QED
      BY <1>1, <2>1, <2>2
  <1> HIDE DEF Reaches
  <1>4. Reaches(CHOOSE f : Reaches(f))
    BY <1>3, Zenon
  <1>5. PICK h : h = CHOOSE f : Reaches(f)
    OBVIOUS
  <1>6. h = [i \in 0..2 |-> IF i = 0 THEN start ELSE ConvertTo(h[i - 1], types[i], convs, bad)]
    BY <1>1, <1>4, <1>5 DEF Reaches
  <1>7. /\ h[0] = start /\ h[1] = ConvertTo(h[0], types[1], convs, bad)
        /\ h[2] = ConvertTo(h[1], types[2], convs, bad)
    BY <1>6
  <1> QED
    BY <1>1, <1>2, <1>5, <1>7

LEMMA TextConversions ==
  ASSUME NEW convs, NEW bad, NEW prev, prev = ConvertTo("text", "script", convs, bad)
  PROVE  Convert("text", <<"script", "json">>, convs, bad) = ConvertTo(prev, "json", convs, bad)
  <1> PICK text : text = "text"
    OBVIOUS
  <1> PICK script : script = "script"
    OBVIOUS
  <1> PICK json : json = "json"
    OBVIOUS
  <1>1. Convert(text, <<script, json>>, convs, bad) = ConvertTo(prev, json, convs, bad)
    BY TwoConversions
  <1> QED
    BY <1>1

\* What jsonp gives is not had when its function was not called.
LEMMA NotCalled ==
  ASSUME NEW bad, <<"script", "json">> \in bad, NEW prev \in {"script", "parsererror"}
  PROVE  ConvertTo(prev, "json", Converters(TRUE), bad) = "parsererror"
  <1> PICK c : c = <<"script", "json">>
    OBVIOUS
  <1> PICK convs : convs = Converters(TRUE)
    OBVIOUS
  <1>4. c \in ToSet(convs)
    <2>1. PICK p1, p2, p3, p4, p5 :
            /\ p1 = <<"*", "text">> /\ p2 = <<"text", "html">> /\ p3 = <<"text", "json">>
            /\ p4 = <<"text", "xml">> /\ p5 = <<"text", "script">>
      OBVIOUS
    <2>2. PICK all : all = <<p1, p2, p3, p4, p5>>
      OBVIOUS
    <2>3. convs = all \o <<c>>
      <3>1. convs = <<p1, p2, p3, p4, p5>> \o IF TRUE THEN <<c>> ELSE <<>>
        BY <2>1, Zenon DEF Converters
      <3> QED
        BY <2>2, <3>1
    <2>4. IsSeq(all)
      <3>1. all \in Seq({p1, p2, p3, p4, p5})
        BY <2>2
      <3> QED
        BY <3>1, SeqIsSeq
    <2> PICK one : one = <<c>>
      OBVIOUS
    <2>5. IsSeq(one) /\ Items(one) = {c}
      BY ShortIsSeq
    <2>6. IsSeq(convs) /\ c \in Items(convs)
      <3>1. convs = all \o one
        BY <2>3
      <3>2. IsSeq(all \o one) /\ Items(all \o one) = Items(all) \cup Items(one)
        BY <2>4, <2>5, ConcatIsSeq
      <3> QED
        BY <2>5, <3>1, <3>2
    <2> QED
      BY <2>6, IsSeqFacts DEF ToSet, Items
  <1> QED
    BY <1>4 DEF ConvertTo

\* The way of jsonp data that comes as text.
LEMMA JsonpList ==
  ASSUME NEW ct
  PROVE  HandleResponses(<<"script", "json">>, ct) = <<"text", "script", "json">>
  <1> PICK types : types = <<"script", "json">>
    OBVIOUS
  <1>1. Len(types) = 2 /\ types[1] = "script" /\ types # <<>>
    OBVIOUS
  <1>4. SubSeq(types, 1, Len(types)) = types
    <2>1. types \in Seq({"script", "json"})
      OBVIOUS
    <2> QED
      BY <2>1, SubSeqFull
  <1> PICK start : start = SelectInSeq(types, LAMBDA t : t # "*")
    OBVIOUS
  <1>2. start = 1
    <2> DEFINE I == {i \in 1..Len(types) : types[i] # "*"}
    <2>1. start = IF I # {} THEN Min(I) ELSE 0
      BY DEF SelectInSeq
    <2>2. 1 \in I /\ \A i \in I : i \in Int /\ 1 <= i
      BY <1>1
    <2> HIDE DEF I
    <2>3. Min(I) = 1
      <3> DEFINE P(x) == x \in I /\ \A y \in I : x <= y
      <3>1. Min(I) = CHOOSE x : P(x)
        BY DEF Min
      <3>2. P(1) /\ \A x : P(x) => x = 1
        BY <2>2
      <3> HIDE DEF P
      <3> QED
        BY <3>1, <3>2
    <2> QED
      BY <2>1, <2>2, <2>3
  <1>3. HandleResponses(types, ct) = <<"text">> \o types
    BY <1>1, <1>2, <1>4 DEF HandleResponses
  <1> QED
    BY <1>3

\* jsonp: the data can be had only when its function was called.
LEMMA WasCalled ==
  ASSUME NEW r, NEW how, requests[r].jsonp = TRUE, NEW g, g = Converted(r, how), Succeeds(r, how)
  PROVE  g[r].container # 0
  <1>1. SUFFICES ASSUME g[r].container = 0 PROVE FALSE
    OBVIOUS
  <1> PICK convs : convs = Converters(TRUE)
    OBVIOUS
  <1> PICK list : list = IF requests[r].transportOf = "xhr" THEN <<"text", "script", "json">>
                         ELSE <<"script", "json">>
    OBVIOUS
  <1>2. PICK bad : /\ <<"script", "json">> \in bad
                   /\ Convert(Head(list), Tail(list), convs, bad) = "json"
    <2>1. PICK ct : ct = ""
      BY Zenon
    <2>2. PICK bad0 :
            LET bad == bad0 \cup (IF Converted(r, how)[r].container # 0 THEN {} ELSE {<<"script", "json">>})
                types == <<"script", "json">>
                l == IF requests[r].transportOf = "xhr" THEN HandleResponses(types, ct) ELSE types
            IN Convert(Head(l), Tail(l), Converters(requests[r].jsonp), bad) = "json"
      BY <2>1, Zenon DEF Succeeds
    <2> QED
      BY <1>1, <2>2, JsonpList
  <1>3. ConvertTo("script", "json", convs, bad) = "parsererror"
    BY <1>2, NotCalled
  <1>4. CASE requests[r].transportOf # "xhr"
    <2>1. Head(list) = "script" /\ Tail(list) = <<"json">>
      BY <1>4
    <2>2. Convert("script", <<"json">>, convs, bad) = "json"
      BY <1>2, <2>1
    <2>3. Convert("script", <<"json">>, convs, bad) = ConvertTo("script", "json", convs, bad)
      BY OneConversion
    <2> QED
      BY <1>3, <2>2, <2>3
  <1>5. CASE requests[r].transportOf = "xhr"
    <2>1. Head(list) = "text" /\ Tail(list) = <<"script", "json">>
      BY <1>5
    <2> PICK prev : prev = ConvertTo("text", "script", convs, bad)
      OBVIOUS
    <2>2. prev \in {"script", "parsererror"}
      BY DEF ConvertTo
    <2>3. ConvertTo(prev, "json", convs, bad) = "parsererror"
      BY <1>2, <2>2, NotCalled
    <2>4. Convert("text", <<"script", "json">>, convs, bad) = "json"
      BY <1>2, <2>1
    <2>5. Convert("text", <<"script", "json">>, convs, bad) = ConvertTo(prev, "json", convs, bad)
      BY TextConversions
    <2> QED
      BY <2>3, <2>4, <2>5
  <1> QED
    BY <1>4, <1>5

Jsonp == {r \in DOMAIN requests : requests[r].jsonp}
Made == {r \in Jsonp : ~requests[r].reused /\ ~requests[r].fixed}
ToDo(op, r) == \E x \in Items(agenda) : x.op = op /\ x.r = r

\* A request has its name until it has been cleaned up.
Holds(r) == requests[r].outcome = "pending" \/ ToDo("cleanup", r)

\* The names that are free: each once, made before and held by nobody.
FreeNames ==
  /\ \A i, j \in 1..Len(oldCallbacks) : oldCallbacks[i] = oldCallbacks[j] => i = j
  /\ \A n \in Items(oldCallbacks) : /\ n <= Cardinality(Made)
                                    /\ \A r \in Jsonp : requests[r].name = n => ~Holds(r)

\* The function in the window is one of a request with that name.
Placed(n) == window[n] # 0 => window[n] \in Jsonp /\ requests[window[n]].name = n

\* A name that jQuery made is held by one request; the function that a request put its
\* own over is of a request that shared the name.  A request that shares its name with
\* nobody has its function in the window as long as it holds the name and no longer, and
\* no request with that name can call the function but itself.
Named(r) ==
  LET q == requests[r]
      Same(s) == s # r /\ requests[s].name = q.name
  IN /\ q.name <= Cardinality(Made) /\ (q.fixed <=> q.name = 0)
     /\ ~q.fixed /\ Holds(r) => \A s \in Jsonp : Same(s) => ~Holds(s)
     /\ q.overwritten # 0 =>
          /\ q.overwritten \in Jsonp \cap fate.shared
          /\ requests[q.overwritten].name = q.name
     /\ r \notin fate.shared =>
          /\ Holds(r) => /\ window[q.name] = r
                         /\ \A s \in Jsonp : Same(s) => /\ s \notin loading /\ ~Holds(s)
                                                          /\ requests[s].state = 2
          /\ ~Holds(r) => window[q.name] # r

\* The data is of its own answer.
Own(r) ==
  r \notin fate.shared =>
    /\ requests[r].container \in {0, r}
    /\ requests[r].outcome = "success" => requests[r].container = r

\* How far a request is: the outcome is set when it is over, and then it is cleaned up.
Way(r) ==
  LET q == requests[r]
  IN /\ q.outcome = "pending" => q.state < 2
     /\ q.jsonp /\ q.outcome # "pending" /\ q.state < 2 => r \in fate.shared
     /\ ToDo("cleanup", r) => q.jsonp /\ q.outcome # "pending"
     /\ q.transportOf = "script" \/ r \in loading => q.jsonp

NamesInv ==
  /\ FreeNames
  /\ \A n \in 0..MaxRequests : Placed(n)
  /\ \A r \in Jsonp : Named(r) /\ Own(r)
  /\ \A r \in DOMAIN requests : Way(r)

\* A step that leaves the names alone.
SameName(x) ==
  LET p == requests'[x] q == requests[x]
  IN /\ p.jsonp = q.jsonp /\ p.fixed = q.fixed /\ p.reused = q.reused /\ p.name = q.name
     /\ p.overwritten = q.overwritten
     /\ q.jsonp => (Holds(x)' <=> Holds(x))

\* A request comes to be under way.
Stirs(x) ==
  \/ requests[x].state = 2 /\ requests'[x].state # 2
  \/ x \in loading' /\ x \notin loading

\* If it does without having its name, those that have it share it.
StirsShared ==
  \A x, y \in Jsonp :
    Stirs(x) /\ ~Holds(x) /\ x # y /\ y \notin fate'.shared /\ requests[x].name = requests[y].name
      => ~Holds(y)

LEMMA NamesStay ==
  ASSUME NamesInv, DOMAIN requests' = DOMAIN requests, UNCHANGED names, fate.shared \subseteq fate'.shared,
         \A x \in DOMAIN requests : SameName(x) /\ Way(x)' /\ (requests[x].jsonp => Own(x)'),
         StirsShared
  PROVE  NamesInv'
  <1>1. Jsonp' = Jsonp /\ Jsonp \subseteq DOMAIN requests
    BY DEF Jsonp, SameName
  <1>2. Made' = Made
    BY <1>1 DEF Made, SameName
  <1>3. window' = window /\ oldCallbacks' = oldCallbacks
    BY DEF names
  <1>4. FreeNames'
    <2>1. \A r \in Jsonp : requests'[r].name = requests[r].name /\ (Holds(r)' <=> Holds(r))
      BY <1>1 DEF SameName, Jsonp
    <2> QED
      BY <1>1, <1>2, <1>3, <2>1 DEF FreeNames, NamesInv
  <1>5. ASSUME NEW n \in 0..MaxRequests PROVE Placed(n)'
    <2>1. Placed(n)
      BY DEF NamesInv
    <2> QED
      BY <1>1, <1>3, <2>1 DEF Placed, SameName
  <1>6. ASSUME NEW r \in Jsonp PROVE Named(r)'
    <2>1. Named(r) /\ SameName(r)
      BY <1>1 DEF NamesInv
    <2>2. \A s \in Jsonp : requests'[s].name = requests[s].name /\ (Holds(s)' <=> Holds(s))
      BY <1>1 DEF SameName, Jsonp
    <2>3. requests[r].overwritten \in Jsonp =>
            requests'[requests[r].overwritten].name = requests[requests[r].overwritten].name
      BY <2>2
    <2>4. /\ requests'[r].name = requests[r].name /\ requests'[r].fixed = requests[r].fixed
          /\ requests'[r].overwritten = requests[r].overwritten /\ (Holds(r)' <=> Holds(r))
      BY <1>1, <2>1 DEF SameName, Jsonp
    <2>5. /\ requests[r].name <= Cardinality(Made)' /\ (requests[r].fixed <=> requests[r].name = 0)
          /\ ~requests[r].fixed /\ Holds(r) =>
               \A s \in Jsonp : s # r /\ requests[s].name = requests[r].name => ~Holds(s)
      BY <1>2, <2>1 DEF Named
    <2>6. requests[r].overwritten # 0 =>
            /\ requests[r].overwritten \in Jsonp /\ requests[r].overwritten \in fate'.shared
            /\ requests'[requests[r].overwritten].name = requests[r].name
      BY <2>1, <2>3 DEF Named
    <2>7. ASSUME r \notin fate'.shared
          PROVE  /\ Holds(r) => window[requests[r].name] = r
                 /\ ~Holds(r) => window[requests[r].name] # r
      BY <2>1, <2>7 DEF Named
    <2>8. ASSUME r \notin fate'.shared, Holds(r), NEW s \in Jsonp, s # r, requests[s].name = requests[r].name
          PROVE  s \notin loading' /\ ~Holds(s) /\ requests'[s].state = 2
      <3>1. s \notin loading /\ ~Holds(s) /\ requests[s].state = 2
        BY <2>1, <2>8 DEF Named
      <3>2. ~Stirs(s)
        BY <2>8, <3>1 DEF StirsShared
      <3> QED
        BY <3>1, <3>2 DEF Stirs
    <2> QED
      BY <1>1, <1>3, <2>2, <2>4, <2>5, <2>6, <2>7, <2>8 DEF Named
  <1>7. \A r \in Jsonp : Own(r)'
    BY DEF Jsonp
  <1> QED
    BY <1>1, <1>4, <1>5, <1>6, <1>7 DEF NamesInv

\* What is put on the agenda is no clean-up.
NoCleanup(s) == IsSeq(s) /\ \A x \in Items(s) : x.op # "cleanup"

LEMMA NoCleanupThings ==
  /\ NoCleanup(<<>>)
  /\ \A p \in Handlers, r \in Numbers : NoCleanup(Fire(p, r))
  /\ \A op, r, how : op # "cleanup" => NoCleanup(<<Do(op, r, how)>>)
  /\ \A s, t : NoCleanup(s) /\ NoCleanup(t) => NoCleanup(s \o t)
  <1>1. NoCleanup(<<>>)
    BY ShortIsSeq DEF NoCleanup
  <1>2. ASSUME NEW p \in Handlers, NEW r \in Numbers PROVE NoCleanup(Fire(p, r))
    BY FireFacts DEF NoCleanup
  <1>3. ASSUME NEW op, NEW r, NEW how, op # "cleanup" PROVE NoCleanup(<<Do(op, r, how)>>)
    <2> PICK x : x = Do(op, r, how)
      OBVIOUS
    <2>1. x.op = op
      BY DEF Do
    <2>2. IsSeq(<<x>>) /\ Items(<<x>>) = {x}
      BY ShortIsSeq
    <2> QED
      BY <1>3, <2>1, <2>2 DEF NoCleanup
  <1>4. ASSUME NEW s, NEW t, NoCleanup(s), NoCleanup(t) PROVE NoCleanup(s \o t)
    BY <1>4, ConcatIsSeq DEF NoCleanup
  <1> QED
    BY <1>1, <1>2, <1>3, <1>4

\* Neither done() nor a clean-up is due.
Quiet == \A x \in Items(agenda) : x.op \notin {"done", "cleanup"}

\* A step in which no request comes to its end.
SameData(x) ==
  LET p == requests'[x] q == requests[x]
  IN /\ p.jsonp = q.jsonp /\ p.fixed = q.fixed /\ p.reused = q.reused /\ p.name = q.name
     /\ p.overwritten = q.overwritten /\ p.container = q.container /\ p.outcome = q.outcome
     /\ p.transportOf = q.transportOf
SameStage(x) ==
  /\ SameData(x)
  /\ requests'[x].state = requests[x].state

LEMMA QuietStep ==
  ASSUME NamesInv, Quiet, NoCleanup(agenda'), DOMAIN requests' = DOMAIN requests,
         UNCHANGED names, fate'.shared = fate.shared, loading' \subseteq loading,
         \A x \in DOMAIN requests : SameStage(x)
  PROVE  NamesInv'
  <1>1. \A x : ~ToDo("done", x) /\ ~ToDo("cleanup", x) /\ ~ToDo("cleanup", x)'
    BY DEF Quiet, NoCleanup, ToDo
  <1>2. ASSUME NEW x \in DOMAIN requests
        PROVE  SameName(x) /\ Way(x)' /\ (requests[x].jsonp => Own(x)')
    <2>1. SameData(x) /\ Way(x)
      BY DEF SameStage, NamesInv
    <2>2. SameName(x)
      BY <1>1, <2>1 DEF SameName, SameData, Holds
    <2>3. requests[x].jsonp => Own(x)'
      <3>1. requests[x].jsonp => Own(x)
        BY DEF NamesInv, Jsonp
      <3> QED
        BY <2>1, <3>1 DEF Own, SameData
    <2>4. Way(x)'
      BY <1>1, <2>1 DEF Way, SameStage, SameData
    <2> QED
      BY <2>2, <2>3, <2>4
  <1>3. StirsShared
    BY DEF StirsShared, Stirs, SameStage, Jsonp
  <1> QED
    BY <1>2, <1>3, NamesStay

\* What is on the agenda before such a step, and what stays of it.
LEMMA QuietFirst ==
  ASSUME IInv, NEW op, op \notin {"done", "cleanup"}, IsNext(op)
  PROVE  /\ Quiet /\ NoCleanup(Rest)
         /\ Todo.r \in DOMAIN requests /\ Todo.r \in Numbers /\ requests[Todo.r] \in Requests
         /\ InHand(Todo) /\ Todo.op = op
  <1>1. /\ Todo.op = op /\ Items(agenda) = {Todo} \cup Items(Rest) /\ IsSeq(Rest)
        /\ \A y \in Items(Rest) : ~AtOnce(y)
        /\ Todo.r \in DOMAIN requests /\ Todo.r \in Numbers /\ requests[Todo.r] \in Requests
        /\ InHand(Todo)
    BY InTurn
  <1> QED
    BY <1>1 DEF Quiet, NoCleanup, AtOnce

LEMMA QuietAll ==
  ASSUME IInv, Idle \/ IsNext("user")
  PROVE  Quiet /\ NoCleanup(agenda)
  BY AllStays DEF Quiet, NoCleanup, AtOnce

LEMMA NamesBegin ==
  ASSUME IInv, NamesInv, Begin
  PROVE  NamesInv'
  <1> PICK r : r = Todo.r
    OBVIOUS
  <1>1. IsNext("begin") /\ UNCHANGED <<net, names, acts, told, fate>>
    BY DEF Begin
  <1>2. Quiet /\ NoCleanup(Rest) /\ r \in DOMAIN requests /\ r \in Numbers /\ requests[r] \in Requests
    BY <1>1, QuietFirst
  <1>3. Shape
    BY DEF IInv
  <1>4. CASE requests[r].state = 2
    <2>1. agenda' = Rest /\ UNCHANGED requests
      BY <1>4 DEF Begin
    <2> QED
      BY <1>1, <1>2, <2>1, QuietStep DEF SameStage, SameData, net
  <1>5. CASE requests[r].state # 2
    <2>1. requests' = [requests EXCEPT ![r].fires = requests[r].global]
      BY <1>5 DEF Begin
    <2>2. DOMAIN requests' = DOMAIN requests /\ \A x \in DOMAIN requests : SameStage(x)
      <3>1. \A x \in DOMAIN requests : x # r => requests'[x] = requests[x]
        BY <2>1
      <3>2. requests'[r] = [requests[r] EXCEPT !.fires = requests[r].global]
        BY <1>2, <2>1
      <3> QED
        BY <1>2, <2>1, <3>1, <3>2 DEF SameStage, SameData, Requests
    <2>3. PICK starts : /\ starts = IF requests[r].global /\ active = 0 THEN Fire("ajaxStart", r) ELSE <<>>
                        /\ NoCleanup(starts)
      <3>1. "ajaxStart" \in Handlers
        BY HandlerSet
      <3> QED
        BY <1>2, <3>1, NoCleanupThings
    <2>4. PICK before : before = BeforeSend(r) /\ NoCleanup(before)
      <3>1. "beforeSend" \in Handlers
        BY HandlerSet
      <3> QED
        BY <1>2, <3>1, NoCleanupThings DEF BeforeSend
    <2>5. PICK next : next = <<Do("transport", r, "")>> /\ NoCleanup(next)
      BY NoCleanupThings, Zenon
    <2>6. agenda' = starts \o before \o next \o Rest
      BY <1>5, <2>3, <2>4, <2>5, Zenon DEF Begin
    <2>7. NoCleanup(agenda')
      BY <1>2, <2>3, <2>4, <2>5, <2>6, NoCleanupThings
    <2> QED
      BY <1>1, <1>2, <2>2, <2>7, QuietStep DEF net
  <1> QED
    BY <1>4, <1>5

LEMMA NamesTransport ==
  ASSUME IInv, NamesInv, Transport
  PROVE  NamesInv'
  <1> PICK r : r = Todo.r
    OBVIOUS
  <1> PICK q : q = requests[r]
    OBVIOUS
  <1>1. IsNext("transport") /\ UNCHANGED <<active, net, names, acts, told, fate>>
    BY DEF Transport
  <1>2. /\ Quiet /\ NoCleanup(Rest) /\ r \in DOMAIN requests /\ r \in Numbers /\ q \in Requests
        /\ InHand(Todo) /\ Todo.op = "transport"
    BY <1>1, QuietFirst
  <1>3. Shape /\ Way(r)
    BY <1>2 DEF IInv, NamesInv
  <1>4. PICK over : over = <<Do("done", r, "error")>> /\ NoCleanup(over)
    BY NoCleanupThings, Zenon
  <1>5. CASE q.beforeSend /\ (q.refused \/ q.state = 2)
    <2>1. agenda' = over \o Rest /\ UNCHANGED requests
      BY <1>4, <1>5, Zenon DEF Transport
    <2>2. NoCleanup(agenda')
      BY <1>2, <1>4, <2>1, NoCleanupThings
    <2> QED
      BY <1>1, <1>2, <2>1, <2>2, QuietStep DEF SameStage, SameData, net
  <1>6. CASE ~(q.beforeSend /\ (q.refused \/ q.state = 2))
    <2>1. PICK transport \in BOOLEAN : transport = (q.transportOf # "none")
      OBVIOUS
    <2>2. requests' = [requests EXCEPT ![r].installed = TRUE, ![r].transport = transport]
      BY <1>6, <2>1 DEF Transport
    <2>3. DOMAIN requests' = DOMAIN requests /\ \A x \in DOMAIN requests : SameStage(x)
      <3>1. \A x \in DOMAIN requests : x # r => requests'[x] = requests[x]
        BY <2>2
      <3>2. requests'[r] = [q EXCEPT !.installed = TRUE, !.transport = transport]
        BY <1>2, <2>2
      <3>3. SameStage(r)
        BY <1>2, <3>2 DEF SameStage, SameData, Requests
      <3> QED
        BY <1>2, <2>2, <3>1, <3>3 DEF SameStage, SameData
    <2>4. PICK sends : sends = (IF q.fires THEN Fire("ajaxSend", r) ELSE <<>>) /\ NoCleanup(sends)
      <3>1. "ajaxSend" \in Handlers
        BY HandlerSet
      <3> QED
        BY <1>2, <3>1, NoCleanupThings
    <2>5. PICK next : next = <<Do("send", r, "")>> /\ NoCleanup(next)
      BY NoCleanupThings, Zenon
    <2>6. PICK install : install = Install(r) /\ NoCleanup(install)
      <3>1. q.outcome \in {"pending", "success", "error"}
        BY <1>2 DEF Requests
      <3>2. "success" \in Handlers /\ "error" \in Handlers /\ "complete" \in Handlers
        BY HandlerSet
      <3>3. NoCleanup(<<>>) /\ NoCleanup(Fire("success", r)) /\ NoCleanup(Fire("error", r))
            /\ NoCleanup(Fire("complete", r))
        BY <1>2, <3>2, NoCleanupThings
      <3>4. NoCleanup(Install(r))
        BY <3>1, <3>3, NoCleanupThings DEF Install
      <3> QED
        BY <3>4
    <2>7. PICK ends : ends = (IF q.transportOf = "none" THEN IF q.state = 2 THEN <<>> ELSE over
                              ELSE sends \o next)
                      /\ NoCleanup(ends)
      BY <1>4, <2>4, <2>5, NoCleanupThings
    <2>8. agenda' = install \o ends \o Rest
      BY <1>4, <1>6, <2>4, <2>5, <2>6, <2>7, Zenon DEF Transport
    <2>9. NoCleanup(agenda')
      BY <1>2, <2>6, <2>7, <2>8, NoCleanupThings
    <2> QED
      BY <1>1, <1>2, <2>3, <2>9, QuietStep DEF net
  <1> QED
    BY <1>5, <1>6

LEMMA NamesSend ==
  ASSUME IInv, NamesInv, Send
  PROVE  NamesInv'
  <1> PICK r : r = Todo.r
    OBVIOUS
  <1> PICK q : q = requests[r]
    OBVIOUS
  <1>1. IsNext("send") /\ UNCHANGED <<active, names, acts, told>>
    BY DEF Send
  <1>2. /\ Quiet /\ NoCleanup(Rest) /\ r \in DOMAIN requests /\ r \in Numbers /\ q \in Requests
        /\ InHand(Todo) /\ Todo.op = "send"
    BY <1>1, QuietFirst
  <1>3. Shape /\ Way(r) /\ Known(r)
    BY <1>2 DEF IInv, NamesInv
  <1>4. PICK timer \in BOOLEAN : timer = (q.timeout /\ q.async)
    OBVIOUS
  <1>5. requests' = [requests EXCEPT ![r].state = 1, ![r].timer = timer]
    BY <1>4 DEF Send
  <1>6. q.state \in {0, 2} /\ (q.state = 0 => q.outcome = "pending")
    BY <1>2, <1>3 DEF InHand, Pipeline, Requests, Known
  <1>7. /\ fate.shared \subseteq fate'.shared
        /\ q.state = 2 /\ q.jsonp => r \in fate'.shared /\ Rivals(q.name) \subseteq fate'.shared
    <2>3. fate' = IF q.state < 2 THEN fate
                  ELSE [fate EXCEPT !.interfered = @ \cup {r},
                                    !.shared = IF q.jsonp THEN @ \cup {r} \cup Rivals(q.name) ELSE @]
      BY Zenon DEF Send
    <2>1. CASE q.state = 0
      BY <1>3, <2>1, <2>3
    <2>2. CASE q.state = 2
      <3>1. PICK shared : shared = IF q.jsonp THEN fate.shared \cup {r} \cup Rivals(q.name) ELSE fate.shared
        OBVIOUS
      <3>2. fate' = [fate EXCEPT !.interfered = @ \cup {r}, !.shared = shared]
        BY <2>2, <2>3, <3>1
      <3>3. fate'.shared = shared
        BY <1>3, <3>2 DEF Shape
      <3> QED
        BY <3>1, <3>3
    <2> QED
      BY <1>6, <2>1, <2>2
  <1>8. PICK things : agenda' = things \o Rest /\ NoCleanup(things)
    <2>1. \A how : NoCleanup(<<Do("done", r, how)>>)
      BY NoCleanupThings, Zenon
    <2>2. NoCleanup(<<>>)
      BY NoCleanupThings
    <2>3. (\E how : agenda' = <<Do("done", r, how)>> \o Rest) \/ agenda' = <<>> \o Rest
      BY Zenon DEF Send
    <2> QED
      BY <2>1, <2>2, <2>3
  <1>9. NoCleanup(agenda')
    BY <1>2, <1>8, NoCleanupThings
  <1>10. \A x \in loading' : x \in loading \/ (x = r /\ q.jsonp)
    <2>1. \A x \in loading' : x \in loading \/ (x = r /\ q.transport /\ q.transportOf = "script")
      BY Zenon DEF Send
    <2> QED
      BY <1>3, <2>1 DEF Way
  <1>11. /\ DOMAIN requests' = DOMAIN requests
         /\ \A x \in DOMAIN requests : SameData(x)
         /\ \A x \in DOMAIN requests : x # r => requests'[x] = requests[x]
         /\ requests'[r].state = 1
    <2>1. \A x \in DOMAIN requests : x # r => requests'[x] = requests[x]
      BY <1>5
    <2>2. requests'[r] = [q EXCEPT !.state = 1, !.timer = timer]
      BY <1>2, <1>5
    <2> QED
      BY <1>2, <1>5, <2>1, <2>2 DEF SameData, Requests
  <1>12. \A x : ~ToDo("cleanup", x) /\ ~ToDo("cleanup", x)'
    BY <1>2, <1>9 DEF Quiet, NoCleanup, ToDo
  <1>13. ASSUME NEW x \in DOMAIN requests
         PROVE  SameName(x) /\ Way(x)' /\ (requests[x].jsonp => Own(x)')
    <2>1. SameData(x) /\ Way(x) /\ (requests[x].jsonp => Own(x))
      BY <1>11 DEF NamesInv, Jsonp
    <2>2. SameName(x)
      BY <1>12, <2>1 DEF SameName, SameData, Holds
    <2>3. requests[x].jsonp => Own(x)'
      BY <1>7, <2>1 DEF Own, SameData
    <2>4. CASE x # r
      BY <1>7, <1>10, <1>11, <1>12, <2>1, <2>2, <2>3, <2>4 DEF Way
    <2>5. CASE x = r
      <3>1. requests'[r].outcome = q.outcome /\ requests'[r].jsonp = q.jsonp
            /\ requests'[r].transportOf = q.transportOf
        BY <2>1, <2>5 DEF SameData
      <3>2. Way(r)'
        BY <1>3, <1>6, <1>7, <1>10, <1>11, <1>12, <3>1 DEF Way
      <3> QED
        BY <2>2, <2>3, <2>5, <3>2
    <2> QED
      BY <2>4, <2>5
  <1>14. ASSUME NEW x \in Jsonp, NEW y \in Jsonp, Stirs(x), ~Holds(x), x # y, y \notin fate'.shared,
                requests[x].name = requests[y].name
         PROVE  ~Holds(y)
    <2>1. x \in DOMAIN requests /\ y \in DOMAIN requests /\ requests[x].jsonp /\ requests[y].jsonp
      BY DEF Jsonp
    <2>2. x = r
      BY <1>10, <1>11, <1>14, <2>1 DEF Stirs
    <2>3. q.state = 2 /\ q.jsonp
      BY <1>6, <1>14, <2>1, <2>2 DEF Holds
    <2>4. y \notin Rivals(q.name)
      BY <1>7, <1>14, <2>3
    <2>5. ~(requests[y].state < 2)
      BY <1>14, <2>1, <2>2, <2>4 DEF Rivals
    <2>6. Way(y)
      BY <2>1 DEF NamesInv
    <2> QED
      BY <1>12, <2>5, <2>6 DEF Way, Holds
  <1>15. StirsShared
    BY <1>14 DEF StirsShared
  <1> QED
    BY <1>1, <1>7, <1>11, <1>13, <1>15, NamesStay

LEMMA NamesCount ==
  ASSUME IInv, NamesInv, Count
  PROVE  NamesInv'
  <1>1. IsNext("count") /\ UNCHANGED <<requests, net, names, acts, told, fate>>
    BY DEF Count
  <1>2. Quiet /\ NoCleanup(Rest) /\ Todo.r \in Numbers
    BY <1>1, QuietFirst
  <1>3. PICK stops : /\ stops = (IF active = 1 THEN Fire("ajaxStop", Todo.r) ELSE <<>>)
                     /\ NoCleanup(stops)
    <2>1. "ajaxStop" \in Handlers
      BY HandlerSet
    <2> QED
      BY <1>2, <2>1, NoCleanupThings
  <1>4. agenda' = stops \o Rest
    BY <1>3 DEF Count
  <1>5. NoCleanup(agenda')
    BY <1>2, <1>3, <1>4, NoCleanupThings
  <1> QED
    BY <1>1, <1>2, <1>5, QuietStep DEF SameStage, SameData, net

LEMMA NamesFire ==
  ASSUME IInv, NamesInv, FireHandler
  PROVE  NamesInv'
  <1>1. IsNext("fire") /\ UNCHANGED <<requests, active, net, names, acts, fate>>
    BY DEF FireHandler
  <1>2. Quiet /\ NoCleanup(Rest)
    BY <1>1, QuietFirst
  <1>3. PICK x : x = [Todo EXCEPT !.op = "user"]
    OBVIOUS
  <1>4. x.op = "user"
    <2>1. Todo \in Things
      BY <1>1, InTurn
    <2> QED
      BY <1>3, <2>1 DEF Things
  <1>5. NoCleanup(<<x>>) /\ agenda' = <<x>> \o Rest
    <2>1. IsSeq(<<x>>) /\ Items(<<x>>) = {x}
      BY ShortIsSeq
    <2> QED
      BY <1>3, <1>4, <2>1 DEF FireHandler, NoCleanup
  <1>6. NoCleanup(agenda')
    BY <1>2, <1>5, NoCleanupThings
  <1> QED
    BY <1>1, <1>2, <1>6, QuietStep DEF SameStage, SameData, net

LEMMA NamesAnswer ==
  ASSUME IInv, NamesInv, NEW how, AnswerWith(how)
  PROVE  NamesInv'
  <1>1. Idle /\ UNCHANGED <<requests, active, loading, names, acts, told, fate>>
    BY DEF AnswerWith
  <1>2. \E r : agenda' = <<Do("done", r, how)>>
    BY DEF AnswerWith
  <1>3. Quiet
    BY <1>1, QuietAll
  <1>4. NoCleanup(agenda')
    BY <1>2, NoCleanupThings, Zenon
  <1> QED
    BY <1>1, <1>3, <1>4, QuietStep DEF SameStage, SameData

LEMMA NamesLoadFails ==
  ASSUME IInv, NamesInv, LoadFails
  PROVE  NamesInv'
  <1>1. /\ Idle /\ loading' \subseteq loading
        /\ UNCHANGED <<requests, active, waiting, names, agenda, acts, told, fate>>
    BY DEF LoadFails
  <1>2. Quiet /\ NoCleanup(agenda)
    BY <1>1, QuietAll
  <1> QED
    BY <1>1, <1>2, QuietStep DEF SameStage, SameData

LEMMA NamesAbort ==
  ASSUME IInv, NamesInv, Idle \/ IsNext("user"), NEW r, NEW rest, AbortThen(r, rest),
         rest = agenda, UNCHANGED <<loading, names>>, fate'.shared = fate.shared,
         \/ UNCHANGED requests
         \/ r \in DOMAIN requests /\ requests' = [requests EXCEPT ![r].timer = FALSE]
  PROVE  NamesInv'
  <1>1. Quiet /\ NoCleanup(agenda)
    BY QuietAll
  <1>2. agenda' = <<Do("done", r, "error")>> \o agenda
    BY DEF AbortThen
  <1>3. NoCleanup(<<Do("done", r, "error")>>)
    BY NoCleanupThings, Zenon
  <1>4. NoCleanup(agenda')
    BY <1>1, <1>2, <1>3, NoCleanupThings
  <1>5. DOMAIN requests' = DOMAIN requests /\ \A x \in DOMAIN requests : SameStage(x)
    <2>1. CASE UNCHANGED requests
      BY <2>1 DEF SameStage, SameData
    <2>2. CASE r \in DOMAIN requests /\ requests' = [requests EXCEPT ![r].timer = FALSE]
      <3>1. \A x \in DOMAIN requests : x # r => requests'[x] = requests[x]
        BY <2>2
      <3>2. requests'[r] = [requests[r] EXCEPT !.timer = FALSE] /\ requests[r] \in Requests
        BY <2>2, ElementOfSeq, LenProperties DEF IInv, Shape
      <3> QED
        BY <2>2, <3>1, <3>2 DEF SameStage, SameData, Requests
    <2> QED
      BY <2>1, <2>2
  <1> QED
    BY <1>1, <1>4, <1>5, QuietStep

LEMMA NamesTimesOut ==
  ASSUME IInv, NamesInv, TimesOut
  PROVE  NamesInv'
  <1>1. Idle /\ agenda = <<>> /\ UNCHANGED <<active, loading, names, acts, told, fate>>
    BY DEF TimesOut, Idle
  <1>2. PICK r \in DOMAIN requests : /\ AbortThen(r, <<>>)
                                     /\ requests' = [requests EXCEPT ![r].timer = FALSE]
    BY DEF TimesOut
  <1>3. PICK rest : rest = agenda
    OBVIOUS
  <1>4. AbortThen(r, rest)
    BY <1>1, <1>2, <1>3
  <1> QED
    BY <1>1, <1>2, <1>3, <1>4, NamesAbort

LEMMA NamesCallAbort ==
  ASSUME IInv, NamesInv, NEW r \in DOMAIN requests, CallAbort(r)
  PROVE  NamesInv'
  <1>1. /\ Idle \/ IsNext("user")
        /\ AbortThen(r, agenda)
        /\ UNCHANGED <<requests, active, loading, names, told>>
    BY DEF CallAbort
  <1>2. fate'.shared = fate.shared
    BY DEF CallAbort, IInv, Shape
  <1> QED
    BY <1>1, <1>2, NamesAbort

LEMMA NamesReturn ==
  ASSUME IInv, NamesInv, NEW refuses \in BOOLEAN, Return(refuses)
  PROVE  NamesInv'
  <1> PICK r : r = Todo.r
    OBVIOUS
  <1>1. /\ IsNext("user") /\ agenda' = Rest
        /\ requests' = IF refuses THEN [requests EXCEPT ![r].refused = TRUE] ELSE requests
        /\ UNCHANGED <<active, net, names, acts, told, fate>>
    BY DEF Return
  <1>2. Quiet /\ NoCleanup(Rest) /\ r \in DOMAIN requests /\ requests[r] \in Requests
    BY <1>1, QuietFirst
  <1>3. DOMAIN requests' = DOMAIN requests /\ \A x \in DOMAIN requests : SameStage(x)
    <2>1. CASE ~refuses
      BY <1>1, <2>1 DEF SameStage, SameData
    <2>2. CASE refuses
      <3>1. \A x \in DOMAIN requests : x # r => requests'[x] = requests[x]
        BY <1>1, <2>2
      <3>2. requests'[r] = [requests[r] EXCEPT !.refused = TRUE]
        BY <1>1, <1>2, <2>2
      <3> QED
        BY <1>1, <1>2, <2>2, <3>1, <3>2 DEF SameStage, SameData, Requests
    <2> QED
      BY <2>1, <2>2
  <1> QED
    BY <1>1, <1>2, <1>3, QuietStep DEF net

LEMMA NamesThrow ==
  ASSUME IInv, NamesInv, Throw
  PROVE  NamesInv'
  <1>1. IsNext("user") /\ agenda' = <<>> /\ UNCHANGED <<requests, active, net, names, told>>
    BY DEF Throw
  <1>2. fate'.shared = fate.shared
    BY DEF Throw, IInv, Shape
  <1>3. Quiet /\ NoCleanup(agenda')
    BY <1>1, QuietAll, NoCleanupThings
  <1> QED
    BY <1>1, <1>2, <1>3, QuietStep DEF SameStage, SameData, net

LEMMA NamesStutter ==
  ASSUME NamesInv, UNCHANGED vars
  PROVE  NamesInv'
  <1>1. UNCHANGED <<requests, loading, names, agenda, fate>>
    BY DEF vars, net
  <1>2. \A x \in DOMAIN requests : SameName(x) /\ Way(x)' /\ (requests[x].jsonp => Own(x)')
    <2>1. \A op, x : ToDo(op, x)' <=> ToDo(op, x)
      BY <1>1 DEF ToDo
    <2>2. \A x \in DOMAIN requests : Way(x) /\ (requests[x].jsonp => Own(x))
      BY DEF NamesInv, Jsonp
    <2> QED
      BY <1>1, <2>1, <2>2 DEF SameName, Way, Own, Holds
  <1>3. StirsShared
    BY <1>1 DEF StirsShared, Stirs
  <1> QED
    BY <1>1, <1>2, <1>3, NamesStay

\* The function that a script calls is of the request that loads it, or the name is shared.
LEMMA NamesLoad ==
  ASSUME IInv, NamesInv, Load
  PROVE  NamesInv'
  <1>1. Idle /\ agenda = <<>> /\ UNCHANGED <<active, names, acts, told, fate>>
    BY DEF Load, Idle
  <1>2. PICK r \in loading, calls \in BOOLEAN :
          LET x == window[requests[r].name]
          IN /\ loading' = loading \ {r}
             /\ requests' = IF calls THEN Give(x, r) ELSE requests
             /\ agenda' = IF r \in waiting THEN <<Do("done", r, "ok")>> ELSE <<>>
    BY DEF Load
  <1>3. Shape /\ Quiet
    BY <1>1, QuietAll DEF IInv
  <1>4. r \in DOMAIN requests /\ r \in Jsonp /\ Way(r) /\ Named(r)
    BY <1>3 DEF Shape, NamesInv, Way, Jsonp
  <1>5. PICK x : x = window[requests[r].name]
    OBVIOUS
  <1>6. NoCleanup(agenda')
    BY <1>2, NoCleanupThings, Zenon
  <1>7. \A y : ~ToDo("done", y) /\ ~ToDo("cleanup", y) /\ ~ToDo("cleanup", y)'
    BY <1>3, <1>6 DEF Quiet, NoCleanup, ToDo
  <1>8. CASE requests' = requests
    BY <1>1, <1>2, <1>3, <1>6, <1>8, QuietStep DEF SameStage, SameData
  <1>9. CASE /\ x # 0 /\ requests[x].state < 2
             /\ requests' = [requests EXCEPT ![x].container = r]
    <2>1. x \in Jsonp /\ x \in DOMAIN requests /\ requests[x].name = requests[r].name
      <3>1. requests[r] \in Requests
        BY <1>3, <1>4, ElementOfSeq, LenProperties DEF Shape
      <3>2. Placed(requests[r].name)
        BY <3>1 DEF NamesInv, Requests
      <3> QED
        BY <1>5, <1>9, <3>2 DEF Placed, Jsonp
    <2>2. Named(x) /\ Own(x) /\ Way(x) /\ requests[x] \in Requests
      BY <1>3, <2>1, ElementOfSeq, LenProperties DEF NamesInv, Shape
    <2>3. x \notin fate.shared => Holds(x)
      BY <1>9, <2>1, <2>2 DEF Way, Holds, Jsonp
    <2>4. x \notin fate.shared => x = r
      BY <1>4, <2>1, <2>2, <2>3 DEF Named
    <2>5. \A y \in DOMAIN requests : y # x => requests'[y] = requests[y]
      BY <1>9
    <2>6. requests'[x] = [requests[x] EXCEPT !.container = r]
      BY <1>9, <2>1
    <2>7. \A y \in DOMAIN requests : y = x \/ requests'[y] = requests[y]
      BY <2>5
    <2>8. /\ SameName(x) /\ Way(x)' /\ Own(x)'
      <3>1. x \in loading' => x \in loading
        BY <1>2
      <3>2. SameName(x)
        BY <1>7, <2>2, <2>6 DEF SameName, Holds, Requests
      <3>3. Way(x)'
        BY <1>1, <1>7, <2>2, <2>6, <3>1 DEF Way, Requests
      <3>4. Own(x)'
        BY <1>1, <2>2, <2>4, <2>6 DEF Own, Requests
      <3> QED
        BY <3>2, <3>3, <3>4
    <2>9. ASSUME NEW y \in DOMAIN requests, requests'[y] = requests[y]
          PROVE  SameName(y) /\ Way(y)' /\ (requests[y].jsonp => Own(y)')
      <3>1. Way(y) /\ (requests[y].jsonp => Own(y)) /\ (y \in loading' => y \in loading)
        BY <1>2 DEF NamesInv, Jsonp
      <3> QED
        BY <1>1, <1>7, <2>9, <3>1 DEF SameName, Way, Own, Holds
    <2>10. DOMAIN requests' = DOMAIN requests /\ \A y \in loading' : y \in loading
      BY <1>2, <1>9
    <2>11. StirsShared
      <3>1. \A y \in Jsonp : ~Stirs(y)
        <4>1. \A y \in DOMAIN requests : requests'[y].state = requests[y].state
          BY <2>2, <2>6, <2>7 DEF Requests
        <4> QED
          BY <2>10, <4>1 DEF Stirs, Jsonp
      <3> QED
        BY <3>1 DEF StirsShared
    <2> QED
      BY <1>1, <2>7, <2>8, <2>9, <2>10, <2>11, NamesStay
  <1> QED
    BY <1>2, <1>5, <1>8, <1>9 DEF Give

\* What done() puts on the agenda cleans up once, if there is something to clean up.
EndThings(s, r) == IsSeq(s) /\ \A x \in Items(s) : x.r = r /\ x.op \in {"fire", "count"}

CleansOnce(things, r, first, jsonp) ==
  /\ IsSeq(things)
  /\ \A x \in Items(things) : x.r = r /\ x.op # "done"
  /\ (\E x \in Items(things) : x.op = "cleanup") <=> first /\ jsonp

LEMMA DoneCleans ==
  ASSUME NEW r \in Numbers,
         NEW first \in BOOLEAN, NEW jsonp \in BOOLEAN, NEW installed \in BOOLEAN, NEW fires \in BOOLEAN,
         NEW outcome \in {"success", "error"}, NEW event \in {"ajaxSuccess", "ajaxError"},
         NEW things, things = DoneThings(r, first, jsonp, installed, fires, outcome, event)
  PROVE  CleansOnce(things, r, first, jsonp)
  <1>1. EndThings(<<>>, r)
    BY ShortIsSeq DEF EndThings
  <1>2. \A p \in Handlers : EndThings(Fire(p, r), r)
    BY FireFacts DEF EndThings
  <1>3. \A s, t : EndThings(s, r) /\ EndThings(t, r) => EndThings(s \o t, r)
    BY ConcatIsSeq DEF EndThings
  <1>4. /\ outcome \in Handlers /\ "statusCode" \in Handlers /\ event \in Handlers
        /\ "complete" \in Handlers /\ "ajaxComplete" \in Handlers
    BY HandlerSet
  <1>5. PICK s1 : s1 = IF jsonp THEN <<Do("cleanup", r, "")>> ELSE <<>>
    OBVIOUS
  <1>6. /\ IsSeq(s1) /\ \A x \in Items(s1) : x.r = r /\ x.op = "cleanup"
        /\ jsonp => \E x \in Items(s1) : x.op = "cleanup"
        /\ ~jsonp => Items(s1) = {}
    <2>1. PICK x : x = Do("cleanup", r, "")
      OBVIOUS
    <2>2. x.op = "cleanup" /\ x.r = r
      BY <2>1, Zenon DEF Do
    <2>3. /\ IsSeq(<<x>>) /\ Items(<<x>>) = {x}
          /\ IsSeq(<<>>) /\ Items(<<>>) = {}
      BY ShortIsSeq
    <2>4. s1 = IF jsonp THEN <<x>> ELSE <<>>
      BY <1>5, <2>1
    <2> QED
      BY <2>2, <2>3, <2>4
  <1>7. PICK s2 : s2 = (IF installed THEN Fire(outcome, r) ELSE <<>>) /\ EndThings(s2, r)
    BY <1>1, <1>2, <1>4
  <1>8. PICK s3 : s3 = Fire("statusCode", r) /\ EndThings(s3, r)
    BY <1>2, <1>4
  <1>9. PICK s4 : s4 = (IF fires THEN Fire(event, r) ELSE <<>>) /\ EndThings(s4, r)
    BY <1>1, <1>2, <1>4
  <1>10. PICK s5 : /\ s5 = (IF first THEN IF installed THEN Fire("complete", r) ELSE <<>> ELSE <<>>)
                   /\ EndThings(s5, r)
    BY <1>1, <1>2, <1>4
  <1>11. PICK s7 : s7 = <<Do("count", r, "")>> /\ EndThings(s7, r)
    <2>1. PICK x : x = Do("count", r, "")
      OBVIOUS
    <2>2. x.op = "count" /\ x.r = r
      BY <2>1, Zenon DEF Do
    <2>3. IsSeq(<<x>>) /\ Items(<<x>>) = {x}
      BY ShortIsSeq
    <2> QED
      BY <2>1, <2>2, <2>3 DEF EndThings
  <1>12. PICK s6 : s6 = (IF fires THEN Fire("ajaxComplete", r) \o s7 ELSE <<>>) /\ EndThings(s6, r)
    BY <1>1, <1>2, <1>3, <1>4, <1>11
  <1>13. things = (IF first THEN s1 \o s2 \o s3 ELSE <<>>) \o s4 \o s5 \o s6
    BY <1>5, <1>7, <1>8, <1>9, <1>10, <1>11, <1>12, Zenon DEF DoneThings
  <1>14. CASE first
    <2>1. IsSeq(s1 \o s2) /\ Items(s1 \o s2) = Items(s1) \cup Items(s2)
      BY <1>6, <1>7, ConcatIsSeq DEF EndThings
    <2>2. IsSeq(s1 \o s2 \o s3) /\ Items(s1 \o s2 \o s3) = Items(s1) \cup Items(s2) \cup Items(s3)
      BY <1>8, <2>1, ConcatIsSeq DEF EndThings
    <2>3. /\ IsSeq(s1 \o s2 \o s3 \o s4)
          /\ Items(s1 \o s2 \o s3 \o s4) = Items(s1) \cup Items(s2) \cup Items(s3) \cup Items(s4)
      BY <1>9, <2>2, ConcatIsSeq DEF EndThings
    <2>4. /\ IsSeq(s1 \o s2 \o s3 \o s4 \o s5)
          /\ Items(s1 \o s2 \o s3 \o s4 \o s5) =
               Items(s1) \cup Items(s2) \cup Items(s3) \cup Items(s4) \cup Items(s5)
      BY <1>10, <2>3, ConcatIsSeq DEF EndThings
    <2>5. /\ IsSeq(things)
          /\ Items(things) = Items(s1) \cup Items(s2) \cup Items(s3) \cup Items(s4) \cup Items(s5) \cup Items(s6)
      BY <1>12, <1>13, <1>14, <2>4, ConcatIsSeq DEF EndThings
    <2> QED
      BY <1>6, <1>7, <1>8, <1>9, <1>10, <1>12, <1>14, <2>5 DEF EndThings, CleansOnce
  <1>15. CASE ~first
    <2>1. EndThings(things, r)
      BY <1>1, <1>3, <1>9, <1>10, <1>12, <1>13, <1>15
    <2> QED
      BY <1>15, <2>1 DEF EndThings, CleansOnce
  <1> QED
    BY <1>14, <1>15

LEMMA NamesDone ==
  ASSUME IInv, NamesInv, Done
  PROVE  NamesInv'
  <1> PICK r : r = Todo.r
    OBVIOUS
  <1> PICK q : q = requests[r]
    OBVIOUS
  <1>1. IsNext("done") /\ UNCHANGED <<active, net, names, acts, told, fate>>
    BY DEF Done
  <1>2. /\ Todo.op = "done" /\ Todo \in Items(agenda) /\ Items(agenda) = {Todo} \cup Items(Rest)
        /\ r \in Numbers /\ r \in DOMAIN requests /\ q \in Requests /\ IsSeq(Rest)
        /\ \A y \in Items(Rest) : ~AtOnce(y)
    BY <1>1, InTurn
  <1>3. Shape /\ Way(r) /\ (q.jsonp => Own(r) /\ Named(r))
    BY <1>2 DEF IInv, NamesInv, Jsonp
  <1>4. /\ \A x : ~ToDo("cleanup", x)
        /\ \A x : ToDo("done", x) => x = r
        /\ \A y \in Items(Rest) : y.op \notin {"done", "cleanup"}
    BY <1>2 DEF ToDo, AtOnce
  <1>5. CASE q.state = 2
    <2>1. agenda' = Rest /\ UNCHANGED requests
      BY <1>5 DEF Done
    <2>2. \A x : ~ToDo("cleanup", x)' /\ ~ToDo("done", x)'
      BY <1>4, <2>1 DEF ToDo
    <2>3. ASSUME NEW x \in DOMAIN requests
          PROVE  SameName(x) /\ Way(x)' /\ (requests[x].jsonp => Own(x)')
      <3>1. Way(x) /\ (requests[x].jsonp => Own(x))
        BY DEF NamesInv, Jsonp
      <3> QED
        BY <1>1, <1>4, <2>1, <2>2, <3>1 DEF SameName, Way, Own, Holds, net
    <2>4. StirsShared
      BY <1>1, <2>1 DEF StirsShared, Stirs, net
    <2> QED
      BY <1>1, <2>1, <2>3, <2>4, NamesStay DEF net
  <1>6. CASE q.state # 2
    <2>1. PICK success \in BOOLEAN : success <=> Succeeds(r, Todo.how)
      OBVIOUS
    <2>2. PICK first \in BOOLEAN : first <=> q.outcome = "pending"
      OBVIOUS
    <2>3. PICK outcome \in {"success", "error"} : outcome = IF success THEN "success" ELSE "error"
      OBVIOUS
    <2>4. PICK event \in {"ajaxSuccess", "ajaxError"} :
            event = IF success THEN "ajaxSuccess" ELSE "ajaxError"
      OBVIOUS
    <2>5. PICK g : g = Converted(r, Todo.how)
      OBVIOUS
    <2>6. PICK ends : ends = IF first THEN outcome ELSE q.outcome
      OBVIOUS
    <2>7. /\ DOMAIN g = DOMAIN requests
          /\ \A x \in DOMAIN requests :
               /\ g[x] \in Requests /\ SameButData(g[x], requests[x])
               /\ \/ g[x].container = requests[x].container
                  \/ /\ x = WindowOf(r) /\ requests[x].state < 2 /\ g[x].container = r
                     /\ requests[r].jsonp
      BY <1>2, <2>5, ConvertedFacts
    <2>8. PICK jsonp \in BOOLEAN, installed \in BOOLEAN, fires \in BOOLEAN :
            jsonp = q.jsonp /\ installed = q.installed /\ fires = q.fires
      BY <1>2 DEF Requests
    <2>9. PICK things : /\ things = DoneThings(r, first, jsonp, installed, fires, outcome, event)
                        /\ CleansOnce(things, r, first, jsonp)
      <3>1. PICK things : things = DoneThings(r, first, jsonp, installed, fires, outcome, event)
        OBVIOUS
      <3> QED
        BY <1>2, <3>1, DoneCleans
    <2>10. agenda' = things \o Rest
      BY <1>6, <2>1, <2>2, <2>3, <2>4, <2>8, <2>9 DEF Done, DoneThings
    <2>11. /\ \A x : ~ToDo("done", x)'
           /\ \A x : ToDo("cleanup", x)' <=> x = r /\ first /\ jsonp
      <3>1. Items(agenda') = Items(things) \cup Items(Rest)
        BY <1>2, <2>9, <2>10, ConcatIsSeq DEF CleansOnce
      <3> QED
        BY <1>4, <2>9, <3>1 DEF ToDo, CleansOnce
    <2>12. /\ DOMAIN requests' = DOMAIN requests
           /\ \A x \in DOMAIN requests : x # r => requests'[x] = g[x]
      <3>1. requests' = [g EXCEPT ![r].state = 2, ![r].timer = FALSE, ![r].transport = FALSE,
                                  ![r].outcome = IF first THEN outcome ELSE @]
        BY <1>6, <2>1, <2>2, <2>3, <2>5 DEF Done
      <3> QED
        BY <2>7, <3>1
    <2>13. /\ requests'[r].jsonp = q.jsonp /\ requests'[r].fixed = q.fixed
           /\ requests'[r].reused = q.reused /\ requests'[r].name = q.name
           /\ requests'[r].overwritten = q.overwritten
           /\ requests'[r].transportOf = q.transportOf /\ requests'[r].state = 2
           /\ requests'[r].container = g[r].container /\ requests'[r].outcome = ends
      <3> PICK p : p = g[r]
        OBVIOUS
      <3>1. p \in Requests /\ SameButData(p, q)
        BY <1>2, <2>7
      <3>2. p.outcome = q.outcome
        BY <3>1 DEF SameButData
      <3>3. requests' = [g EXCEPT ![r].state = 2, ![r].timer = FALSE, ![r].transport = FALSE,
                                  ![r].outcome = ends]
        <4>1. requests' = [g EXCEPT ![r].state = 2, ![r].timer = FALSE, ![r].transport = FALSE,
                                    ![r].outcome = IF first THEN outcome ELSE @]
          BY <1>6, <2>1, <2>2, <2>3, <2>5 DEF Done
        <4> QED
          BY <2>6, <3>2, <4>1
      <3>4. requests'[r] = [p EXCEPT !.state = 2, !.timer = FALSE, !.transport = FALSE, !.outcome = ends]
        BY <1>2, <2>7, <3>3
      <3>5. /\ requests'[r].jsonp = p.jsonp /\ requests'[r].fixed = p.fixed
            /\ requests'[r].reused = p.reused /\ requests'[r].name = p.name
            /\ requests'[r].overwritten = p.overwritten
            /\ requests'[r].transportOf = p.transportOf /\ requests'[r].state = 2
            /\ requests'[r].container = p.container /\ requests'[r].outcome = ends
        BY <3>1, <3>4 DEF Requests
      <3> QED
        BY <3>1, <3>5 DEF SameButData
    \* The data of a request that shares its name with nobody is its own.
    <2>14. ASSUME NEW x \in DOMAIN requests, requests[x].jsonp
           PROVE  x \notin fate.shared => g[x].container \in {0, x}
      <3>1. x \in Jsonp /\ Own(x) /\ Named(x) /\ Way(x)
        BY <2>14 DEF NamesInv, Jsonp
      <3>2. CASE g[x].container = requests[x].container
        BY <3>1, <3>2 DEF Own
      <3>3. CASE x = WindowOf(r) /\ requests[x].state < 2 /\ g[x].container = r /\ requests[r].jsonp
        <4>1. SUFFICES ASSUME x \notin fate.shared, x # r PROVE FALSE
          BY <3>3
        <4>2. requests[x].name = requests[r].name
          <5>1. requests[r].name \in 0..MaxRequests
            BY <1>2, WindowOfRequest
          <5>2. Placed(requests[r].name)
            BY <5>1 DEF NamesInv
          <5>3. x # 0
            BY <1>3, <2>14, RequestNumbers DEF Numbers
          <5> QED
            BY <3>3, <5>2, <5>3 DEF Placed, WindowOf
        <4>3. Holds(x)
          BY <2>14, <3>1, <3>3, <4>1 DEF Way, Holds
        <4>4. r \in Jsonp
          BY <1>2, <3>3 DEF Jsonp
        <4>5. requests[r].state = 2
          BY <3>1, <4>1, <4>2, <4>3, <4>4 DEF Named
        <4> QED
          BY <1>6, <4>5
      <3> QED
        BY <2>7, <3>2, <3>3
    <2>15. SameName(r) /\ Way(r)' /\ (q.jsonp => Own(r)')
      <3>1. ends # "pending"
        BY <2>2, <2>3, <2>6
      <3>2. Way(r)'
        BY <1>1, <1>3, <2>8, <2>11, <2>13, <3>1 DEF Way, net
      <3>3. ASSUME q.jsonp PROVE SameName(r)
        <4>1. jsonp = TRUE
          BY <2>8, <3>3
        <4>2. Holds(r) <=> first
          BY <1>4, <2>2 DEF Holds
        <4>3. Holds(r)' <=> first
          BY <2>11, <2>13, <3>1, <4>1 DEF Holds
        <4> QED
          BY <2>13, <4>2, <4>3 DEF SameName
      <3> HIDE DEF Own
      <3>4. ASSUME q.jsonp PROVE Own(r)'
        <4>1. SUFFICES ASSUME r \notin fate.shared
                       PROVE  /\ g[r].container \in {0, r}
                              /\ ends = "success" => g[r].container = r
          BY <1>1, <2>13 DEF Own
        <4>2. g[r].container \in {0, r}
          BY <1>2, <2>14, <3>4, <4>1
        <4>3. q.container \in {0, r} /\ (q.outcome = "success" => q.container = r)
          BY <1>3, <3>4, <4>1 DEF Own
        <4>4. q.outcome = "success" => g[r].container = r
          BY <1>2, <2>7, <4>3
        <4>5. success => g[r].container # 0
          <5>1. requests[r].jsonp = TRUE
            BY <1>2, <3>4 DEF Requests
          <5>2. g = Converted(r, Todo.how)
            BY <2>5
          <5> QED
            BY <2>1, <5>1, <5>2, WasCalled
        <4> QED
          BY <2>2, <2>3, <2>6, <4>2, <4>4, <4>5
      <3>5. SameName(r)
        BY <2>13, <3>3 DEF SameName
      <3> QED
        BY <3>2, <3>4, <3>5
    <2>16. ASSUME NEW x \in DOMAIN requests, x # r
           PROVE  SameName(x) /\ Way(x)' /\ (requests[x].jsonp => Own(x)')
      <3>1. /\ Way(x) /\ (requests[x].jsonp => Own(x)) /\ requests'[x] = g[x]
            /\ SameButData(g[x], requests[x])
        BY <2>7, <2>12, <2>16 DEF NamesInv, Jsonp
      <3>2. SameName(x) /\ Way(x)'
        BY <1>1, <1>4, <2>11, <2>16, <3>1 DEF SameName, SameButData, Way, Holds, net
      <3>3. ASSUME requests[x].jsonp PROVE Own(x)'
        <4>1. SUFFICES ASSUME x \notin fate.shared
                       PROVE  /\ g[x].container \in {0, x}
                              /\ requests[x].outcome = "success" => g[x].container = x
          BY <1>1, <3>1 DEF Own, SameButData
        <4>2. g[x].container \in {0, x}
          BY <2>14, <3>3, <4>1
        <4>3. requests[x].outcome = "success" => requests[x].state = 2
          <5>1. requests[x].state \in 0..2
            <6>1. requests[x] \in Requests
              BY <1>3, <2>16, ElementOfSeq, LenProperties DEF Shape
            <6> QED
              BY <6>1 DEF Requests
          <5> QED
            BY <3>1, <3>3, <4>1, <5>1 DEF Way
        <4>4. requests[x].state = 2 => g[x].container = requests[x].container
          BY <2>7
        <4> QED
          BY <3>1, <3>3, <4>1, <4>2, <4>3, <4>4 DEF Own
      <3> QED
        BY <3>2, <3>3
    <2>17. StirsShared
      <3>1. \A x \in Jsonp : ~Stirs(x)
        <4>1. \A x \in DOMAIN requests : requests[x].state = 2 => requests'[x].state = 2
          BY <2>7, <2>12, <2>13 DEF SameButData
        <4> QED
          BY <1>1, <4>1 DEF Stirs, Jsonp, net
      <3> QED
        BY <3>1 DEF StirsShared
    <2> QED
      BY <1>1, <2>12, <2>15, <2>16, <2>17, NamesStay DEF net
  <1> QED
    BY <1>5, <1>6

LEMMA NamesCleanUp ==
  ASSUME IInv, NamesInv, CleanUp
  PROVE  NamesInv'
  <1> PICK r : r = Todo.r
    OBVIOUS
  <1> PICK q : q = requests[r]
    OBVIOUS
  <1>1. IsNext("cleanup") /\ UNCHANGED <<active, net, acts, told, fate>> /\ agenda' = Rest
    BY DEF CleanUp
  <1>2. /\ Todo.op = "cleanup" /\ Todo \in Items(agenda) /\ Items(agenda) = {Todo} \cup Items(Rest)
        /\ r \in Numbers /\ r \in DOMAIN requests /\ q \in Requests /\ IsSeq(Rest)
        /\ \A y \in Items(Rest) : ~AtOnce(y)
    BY <1>1, InTurn
  <1>3. Shape /\ Shape' /\ ToDo("cleanup", r) /\ Holds(r)
    BY <1>2, CleanUpStep DEF IInv, ToDo, Holds
  <1>4. /\ \A x : ToDo("cleanup", x) => x = r
        /\ \A x : ~ToDo("done", x) /\ ~ToDo("done", x)' /\ ~ToDo("cleanup", x)'
    BY <1>1, <1>2 DEF ToDo, AtOnce
  <1>5. q.jsonp /\ q.outcome # "pending" /\ r \in Jsonp /\ Named(r)
    BY <1>2, <1>3 DEF NamesInv, Way, Jsonp
  <1>6. PICK w : w = q.overwritten
    OBVIOUS
  <1>7. w # 0 => w \in Jsonp /\ w \in fate.shared /\ requests[w].name = q.name
    BY <1>5, <1>6 DEF Named
  <1>8. /\ window' = [window EXCEPT ![q.name] = w]
        /\ oldCallbacks' = IF q.fixed THEN oldCallbacks ELSE Append(oldCallbacks, q.name)
        /\ \/ requests' = requests
           \/ w # 0 /\ requests' = [requests EXCEPT ![w].container = q.container]
    BY <1>6 DEF CleanUp, Give
  \* The requests stay as they are, but for the data of one that shared its name.
  <1>9. /\ DOMAIN requests' = DOMAIN requests
        /\ \A x \in DOMAIN requests :
             \/ requests'[x] = requests[x]
             \/ x \in fate.shared /\ requests'[x] = [requests[x] EXCEPT !.container = q.container]
    <2>1. CASE requests' = requests
      BY <2>1
    <2>2. CASE w # 0 /\ requests' = [requests EXCEPT ![w].container = q.container]
      BY <1>7, <2>2 DEF Jsonp
    <2> QED
      BY <1>8, <2>1, <2>2
  <1>10. ASSUME NEW x \in DOMAIN requests
         PROVE  /\ requests'[x].jsonp = requests[x].jsonp /\ requests'[x].fixed = requests[x].fixed
                /\ requests'[x].reused = requests[x].reused /\ requests'[x].name = requests[x].name
                /\ requests'[x].overwritten = requests[x].overwritten
                /\ requests'[x].transportOf = requests[x].transportOf
                /\ requests'[x].outcome = requests[x].outcome
                /\ requests'[x].state = requests[x].state
                /\ requests'[x].transport = requests[x].transport
                /\ x \notin fate.shared => requests'[x].container = requests[x].container
    <2>1. requests[x] \in Requests
      BY <1>3, ElementOfSeq, LenProperties DEF Shape
    <2> QED
      BY <1>9, <2>1 DEF Requests
  <1>11. Jsonp' = Jsonp /\ Made' = Made /\ Jsonp \subseteq DOMAIN requests
    BY <1>9, <1>10 DEF Jsonp, Made
  <1>12. \A x \in DOMAIN requests : Holds(x)' <=> Holds(x) /\ x # r
    BY <1>4, <1>5, <1>10 DEF Holds
  <1>13. /\ \A x \in DOMAIN requests : requests[x].name \in 0..MaxRequests
         /\ q.name \in 0..MaxRequests /\ w \in 0..MaxRequests /\ DOMAIN window = 0..MaxRequests
    <2>1. \A x \in DOMAIN requests : requests[x] \in Requests
      BY <1>3, ElementOfSeq, LenProperties DEF Shape
    <2>2. \A x \in DOMAIN requests : requests[x].name \in 0..MaxRequests
      BY <2>1 DEF Requests
    <2>3. q.name \in 0..MaxRequests /\ w \in 0..MaxRequests
      BY <1>2, <1>6 DEF Requests
    <2> QED
      BY <1>3, <2>2, <2>3 DEF Shape
  <1>14. /\ window'[q.name] = w
         /\ \A n \in 0..MaxRequests : n # q.name => window'[n] = window[n]
    BY <1>8, <1>13
  <1>15. FreeNames'
    <2>1. FreeNames
      BY DEF NamesInv
    <2>2. CASE q.fixed
      <3>1. oldCallbacks' = oldCallbacks
        BY <1>8, <2>2
      <3> QED
        BY <1>10, <1>11, <1>12, <2>1, <3>1 DEF FreeNames
    <2>3. CASE ~q.fixed
      <3>1. oldCallbacks' = Append(oldCallbacks, q.name)
        BY <1>8, <2>3
      <3>2. IsSeq(oldCallbacks)
        BY <1>3, SeqIsSeq DEF Shape
      <3>3. /\ Items(oldCallbacks') = Items(oldCallbacks) \cup {q.name}
            /\ Len(oldCallbacks') = Len(oldCallbacks) + 1 /\ Len(oldCallbacks) \in Nat
            /\ \A i \in 1..Len(oldCallbacks) : oldCallbacks'[i] = oldCallbacks[i]
            /\ oldCallbacks'[Len(oldCallbacks) + 1] = q.name
            /\ \A i \in 1..Len(oldCallbacks) : oldCallbacks[i] \in Items(oldCallbacks)
        <4>1. oldCallbacks \in Seq(Items(oldCallbacks) \cup {q.name})
          <5>1. Items(oldCallbacks) \subseteq Items(oldCallbacks) \cup {q.name}
            OBVIOUS
          <5> QED
            BY <3>2, <5>1, ItemsInSeq
        <4>2. /\ Len(Append(oldCallbacks, q.name)) = Len(oldCallbacks) + 1
              /\ \A i \in 1..Len(oldCallbacks) : Append(oldCallbacks, q.name)[i] = oldCallbacks[i]
              /\ Append(oldCallbacks, q.name)[Len(oldCallbacks) + 1] = q.name
          BY <4>1, AppendProperties
        <4>3. Items(Append(oldCallbacks, q.name)) = Items(oldCallbacks) \cup {q.name}
          BY <3>2, AppendIsSeq
        <4>4. Len(oldCallbacks) \in Nat
          BY <3>2, IsSeqFacts
        <4>5. \A i \in 1..Len(oldCallbacks) : oldCallbacks[i] \in Items(oldCallbacks)
          BY DEF Items
        <4> QED
          BY <3>1, <4>2, <4>3, <4>4, <4>5
      <3>4. q.name \notin Items(oldCallbacks)
        BY <1>3, <1>5, <2>1 DEF FreeNames
      <3>5. \A i, j \in 1..Len(oldCallbacks') : oldCallbacks'[i] = oldCallbacks'[j] => i = j
        BY <2>1, <3>3, <3>4 DEF FreeNames
      <3>6. q.name <= Cardinality(Made) /\ \A s \in Jsonp : requests[s].name = q.name => s = r \/ ~Holds(s)
        BY <1>3, <1>5, <2>3 DEF Named
      <3> QED
        BY <1>10, <1>11, <1>12, <2>1, <3>3, <3>5, <3>6 DEF FreeNames
    <2> QED
      BY <2>2, <2>3
  <1>16. ASSUME NEW n \in 0..MaxRequests PROVE Placed(n)'
    <2>1. Placed(n)
      BY DEF NamesInv
    <2> QED
      BY <1>7, <1>10, <1>11, <1>14, <2>1 DEF Placed
  <1>17. ASSUME NEW x \in Jsonp PROVE Named(x)'
    <2>1. Named(x) /\ x \in DOMAIN requests /\ x # 0
      <3>1. x \in Numbers
        BY <1>3, <1>11, RequestNumbers
      <3> QED
        BY <1>11, <3>1 DEF NamesInv, Numbers
    <2>2. /\ requests'[x].name = requests[x].name /\ requests'[x].fixed = requests[x].fixed
          /\ requests'[x].overwritten = requests[x].overwritten
          /\ \A s \in Jsonp : requests'[s].name = requests[s].name /\ requests'[s].state = requests[s].state
      BY <1>10, <1>11
    <2>3. ASSUME x \notin fate.shared, Holds(x)' PROVE window'[requests[x].name] = x
      <3>1. Holds(x) /\ x # r /\ window[requests[x].name] = x
        BY <1>12, <2>1, <2>3 DEF Named
      <3>2. requests[x].name # q.name
        BY <1>3, <1>5, <2>1, <2>3, <3>1 DEF Named
      <3> QED
        BY <1>13, <1>14, <2>1, <3>1, <3>2
    <2>4. ASSUME x \notin fate.shared, ~Holds(x)' PROVE window'[requests[x].name] # x
      <3>1. w # x
        BY <1>7, <2>1, <2>4
      <3>2. x # r => window[requests[x].name] # x
        BY <1>12, <2>1, <2>4 DEF Named
      <3> QED
        BY <1>13, <1>14, <2>1, <3>1, <3>2
    <2>5. loading' = loading /\ fate' = fate
      BY <1>1 DEF net
    <2>6. \A s \in Jsonp : Holds(s)' => Holds(s)
      BY <1>11, <1>12
    <2>7. requests[x].overwritten \in Jsonp =>
            requests'[requests[x].overwritten].name = requests[requests[x].overwritten].name
      BY <2>2
    <2> QED
      BY <1>11, <2>1, <2>2, <2>3, <2>4, <2>5, <2>6, <2>7 DEF Named
  <1>18. ASSUME NEW x \in Jsonp PROVE Own(x)'
    <2>1. Own(x) /\ x \in DOMAIN requests /\ fate' = fate
      BY <1>1, <1>11 DEF NamesInv
    <2> QED
      BY <1>10, <2>1 DEF Own
  <1>19. ASSUME NEW x \in DOMAIN requests PROVE Way(x)'
    <2>1. Way(x) /\ loading' = loading
      BY <1>1 DEF NamesInv, net
    <2>2. fate' = fate
      BY <1>1
    <2> QED
      BY <1>4, <1>10, <2>1, <2>2 DEF Way
  <1> QED
    BY <1>9, <1>11, <1>15, <1>16, <1>17, <1>18, <1>19 DEF NamesInv

\* The name for a new request: nobody holds it, and it is no longer free.
NameRight(o, name, free, made) ==
  /\ name \in 0..MaxRequests /\ (o.fixed <=> name = 0) /\ name <= Cardinality(made)
  /\ Cardinality(Made) <= Cardinality(made)
  /\ Cardinality(Made) \in Nat /\ Cardinality(made) \in Nat
  /\ ~o.fixed => \A s \in Jsonp : requests[s].name = name => requests[s].outcome # "pending"
  /\ \A i, j \in 1..Len(free) : free[i] = free[j] => i = j
  /\ Items(free) \subseteq Items(oldCallbacks) /\ name \notin Items(free)

LEMMA NewName ==
  ASSUME Shape, NamesInv, NEW o \in Options, Len(requests) < MaxRequests, NEW name, name = NameFor(o),
         NEW free, free = IF ~o.fixed /\ oldCallbacks # <<>> THEN Front(oldCallbacks) ELSE oldCallbacks,
         NEW made, made = IF ~o.fixed /\ oldCallbacks = <<>> THEN Made \cup {Len(requests) + 1} ELSE Made
  PROVE  NameRight(o, name, free, made)
  <1>1. /\ name \in 0..MaxRequests /\ (name = 0 => o.fixed)
        /\ oldCallbacks # <<>> => Front(oldCallbacks) \in Seq(Numbers)
    BY Names
  <1>2. /\ oldCallbacks \in Seq(Numbers) /\ Len(oldCallbacks) \in Nat
        /\ oldCallbacks = <<>> <=> Len(oldCallbacks) = 0
        /\ \A n \in Items(oldCallbacks) : n \in Numbers
    <2>1. oldCallbacks \in Seq(Numbers)
      BY DEF Shape
    <2> QED
      BY <2>1, EmptySeq, LenProperties, SeqIsSeq
  <1>3. FreeNames /\ \A x \in Jsonp : Named(x)
    BY DEF NamesInv
  <1>4. name = IF o.fixed THEN 0 ELSE IF oldCallbacks # <<>> THEN Last(oldCallbacks)
               ELSE 1 + Cardinality(Made)
    <2>1. Made = {r \in DOMAIN requests : requests[r].jsonp /\ ~requests[r].reused /\ ~requests[r].fixed}
      BY DEF Made, Jsonp
    <2> QED
      BY <2>1 DEF NameFor
  <1>5. /\ IsFiniteSet(Made) /\ Cardinality(Made) \in Nat
        /\ Len(requests) + 1 \notin Made
        /\ Cardinality(Made \cup {Len(requests) + 1}) = Cardinality(Made) + 1
    <2>1. Len(requests) \in Nat /\ DOMAIN requests = 1..Len(requests)
      BY LenProperties DEF Shape
    <2>2. 1 \in Int /\ Len(requests) \in Int
      BY <2>1
    <2>3. IsFiniteSet(1..Len(requests))
      BY <2>2, FS_Interval
    <2>4. Made \in SUBSET (1..Len(requests))
      BY <2>1 DEF Made, Jsonp
    <2>5. IsFiniteSet(Made)
      BY <2>3, <2>4, FS_Subset
    <2>6. Len(requests) + 1 \notin Made
      BY <2>1, <2>4
    <2>7. Cardinality(Made) \in Nat
      BY <2>5, FS_CardinalityType
    <2> QED
      BY <2>5, <2>6, <2>7, FS_AddElement
  <1>6. /\ Cardinality(Made) <= Cardinality(made) /\ Cardinality(made) \in Nat
        /\ \A s \in Jsonp : requests[s].name <= Cardinality(Made)
        /\ \A n \in Items(oldCallbacks) : n <= Cardinality(Made)
    BY <1>3, <1>5 DEF Named, FreeNames
  <1>7. /\ \A i, j \in 1..Len(oldCallbacks) : oldCallbacks[i] = oldCallbacks[j] => i = j
        /\ \A i \in 1..Len(oldCallbacks) : oldCallbacks[i] \in Items(oldCallbacks)
    BY <1>3 DEF FreeNames, Items
  <1>8. CASE o.fixed
    <2>1. name = 0 /\ free = oldCallbacks
      BY <1>4, <1>8
    <2>2. 0 \notin Items(oldCallbacks)
      BY <1>2 DEF Numbers
    <2> QED
      BY <1>1, <1>5, <1>6, <1>7, <1>8, <2>1, <2>2 DEF NameRight
  <1>9. CASE ~o.fixed /\ oldCallbacks # <<>>
    <2> PICK n : n = Len(oldCallbacks)
      OBVIOUS
    <2>1. n \in 1..n /\ n \in Nat /\ n - 1 \in Nat
      BY <1>2, <1>9
    <2>2. name = oldCallbacks[n]
      BY <1>4, <1>9 DEF Last
    <2>3. free = SubSeq(oldCallbacks, 1, n - 1)
      BY <1>9 DEF Front
    <2>4. Len(free) = n - 1 /\ \A i \in 1..(n - 1) : free[i] = oldCallbacks[i]
      <3>1. 1 \in 1..(n + 1) /\ n - 1 \in 0..n /\ \A i \in 1..(n - 1) : oldCallbacks[i] \in Numbers
        BY <1>2, <2>1, ElementOfSeq
      <3>2. 1 \in Int /\ n - 1 \in Int
        BY <2>1
      <3> QED
        BY <1>2, <2>1, <2>3, <3>1, <3>2, SubSeqProperties
    <2>5. Items(free) \subseteq Items(oldCallbacks)
      <3>1. \A i \in 1..(n - 1) : i \in 1..n
        BY <2>1
      <3> QED
        BY <2>4, <3>1 DEF Items
    <2>6. name \notin Items(free)
      <3>1. \A i \in 1..(n - 1) : i \in 1..n /\ i # n
        BY <2>1
      <3>2. \A i \in 1..(n - 1) : free[i] # name
        BY <1>7, <2>1, <2>2, <2>4, <3>1
      <3> QED
        BY <2>4, <3>2 DEF Items
    <2>7. \A i, j \in 1..Len(free) : free[i] = free[j] => i = j
      <3>1. \A i \in 1..(n - 1) : i \in 1..n
        BY <2>1
      <3> QED
        BY <1>7, <2>4, <3>1
    <2>8. name \in Items(oldCallbacks)
      BY <1>7, <2>1, <2>2
    <2>9. \A s \in Jsonp : requests[s].name = name => requests[s].outcome # "pending"
      BY <1>3, <2>8 DEF FreeNames, Holds
    <2>10. made = Made
      BY <1>9
    <2> QED
      BY <1>1, <1>5, <1>6, <1>9, <2>5, <2>6, <2>7, <2>8, <2>9, <2>10 DEF NameRight
  <1>10. CASE ~o.fixed /\ oldCallbacks = <<>>
    <2>1. name = 1 + Cardinality(Made) /\ free = oldCallbacks /\ made = Made \cup {Len(requests) + 1}
      BY <1>4, <1>10
    <2>2. Items(free) = {}
      BY <1>10, <2>1, ShortIsSeq
    <2>3. \A s \in Jsonp : requests[s].name # name
      <3>1. \A s \in Jsonp : requests[s].name \in Int
        <4>1. \A s \in Jsonp : requests[s] \in Requests
          BY ElementOfSeq, LenProperties DEF Shape, Jsonp
        <4> QED
          BY <4>1, AjaxAssumption DEF Requests
      <3> QED
        BY <1>5, <1>6, <2>1, <3>1
    <2> QED
      BY <1>1, <1>5, <1>6, <1>7, <1>10, <2>1, <2>2, <2>3 DEF NameRight
  <1> QED
    BY <1>8, <1>9, <1>10

\* A new request among the others: what it has, and who shares its name from now on.
Joins(r, o, name, rivals) ==
  /\ DOMAIN requests' = DOMAIN requests \cup {r} /\ r \notin DOMAIN requests
  /\ \A x \in DOMAIN requests : requests'[x] = requests[x]
  /\ requests'[r].name = name /\ requests'[r].fixed = o.fixed
  /\ requests'[r].container = 0 /\ requests'[r].state = 0 /\ ~requests'[r].transport
  /\ requests'[r].outcome = "pending"
  /\ requests'[r].transportOf = "script" => requests'[r].jsonp
  /\ loading' = loading
  /\ rivals = {x \in DOMAIN requests : /\ requests'[r].jsonp /\ requests[x].jsonp
                                       /\ requests[x].name = name
                                       /\ requests[x].state < 2 \/ x \in loading}
  /\ fate'.shared = IF rivals = {} THEN fate.shared ELSE fate.shared \cup rivals \cup {r}
  /\ \A op, x : op \in {"done", "cleanup"} => ~ToDo(op, x) /\ ~ToDo(op, x)'

LEMMA NamesJoin ==
  ASSUME Shape, NamesInv, NEW r \in Numbers, NEW o, NEW name, NEW rivals, Joins(r, o, name, rivals),
         Made' = IF requests'[r].jsonp /\ ~o.fixed /\ oldCallbacks = <<>> THEN Made \cup {r} ELSE Made,
         IF requests'[r].jsonp
         THEN /\ NameRight(o, name, oldCallbacks', Made')
              /\ window' = [window EXCEPT ![name] = r] /\ requests'[r].overwritten = window[name]
         ELSE window' = window /\ oldCallbacks' = oldCallbacks
  PROVE  NamesInv'
  <1>1. /\ DOMAIN requests' = DOMAIN requests \cup {r} /\ r \notin DOMAIN requests
        /\ \A x \in DOMAIN requests : requests'[x] = requests[x]
        /\ Jsonp \subseteq DOMAIN requests /\ r \notin Jsonp
    BY DEF Joins, Jsonp
  <1>2. Jsonp' = IF requests'[r].jsonp THEN Jsonp \cup {r} ELSE Jsonp
    BY <1>1 DEF Jsonp
  <1>3. \A x \in DOMAIN requests : /\ Holds(x)' <=> Holds(x)
                                   /\ Holds(x) <=> requests[x].outcome = "pending"
    BY <1>1 DEF Holds, Joins
  <1>4. Holds(r)'
    BY DEF Holds, Joins
  <1>5. \A x \in DOMAIN requests' : Way(x)'
    <2>1. \A x \in DOMAIN requests : Way(x)
      BY DEF NamesInv
    <2>2. Way(r)'
      BY <1>1 DEF Way, Joins, Shape
    <2>3. \A x \in DOMAIN requests : Way(x)'
      BY <1>1, <2>1 DEF Way, Joins
    <2> QED
      BY <1>1, <2>2, <2>3
  <1>6. \A x \in Jsonp : Named(x) /\ Own(x) /\ Way(x) /\ x \in Numbers
    BY <1>1, RequestNumbers DEF NamesInv
  <1>7. fate.shared \subseteq fate'.shared
    BY DEF Joins
  <1>8. \A x \in Jsonp' : Own(x)'
    <2>1. \A x \in Jsonp : Own(x)'
      BY <1>1, <1>6, <1>7 DEF Own
    <2>2. Own(r)'
      BY DEF Own, Joins
    <2> QED
      BY <1>2, <2>1, <2>2
  <1>9. CASE ~requests'[r].jsonp
    <2>1. /\ Jsonp' = Jsonp /\ Made' = Made /\ window' = window /\ oldCallbacks' = oldCallbacks
          /\ fate'.shared = fate.shared /\ loading' = loading
      BY <1>2, <1>9 DEF Joins
    <2>2. FreeNames'
      BY <1>1, <1>3, <2>1 DEF FreeNames, NamesInv
    <2>3. \A n \in 0..MaxRequests : Placed(n)'
      BY <1>1, <2>1 DEF Placed, NamesInv
    <2>4. ASSUME NEW x \in Jsonp PROVE Named(x)'
      <3>1. /\ requests'[x] = requests[x] /\ (Holds(x)' <=> Holds(x))
            /\ \A s \in Jsonp : requests'[s] = requests[s] /\ (Holds(s)' <=> Holds(s))
        BY <1>1, <1>3
      <3>2. requests[x].overwritten \in Jsonp => requests'[requests[x].overwritten] = requests[requests[x].overwritten]
        BY <3>1
      <3>3. Named(x)
        BY <1>6
      <3>4. requests[x].overwritten # 0 =>
              /\ requests[x].overwritten \in Jsonp \cap fate.shared
              /\ requests'[requests[x].overwritten].name = requests[x].name
        BY <3>2, <3>3 DEF Named
      <3>5. \A s \in Jsonp : requests'[s].name = requests[s].name /\ requests'[s].state = requests[s].state
        BY <3>1
      <3>6. x \notin fate.shared /\ Holds(x) =>
              /\ window[requests[x].name] = x
              /\ \A s \in Jsonp : s # x /\ requests[s].name = requests[x].name =>
                                   s \notin loading /\ ~Holds(s) /\ requests[s].state = 2
        BY <3>3 DEF Named
      <3>7. x \notin fate'.shared =>
              /\ Holds(x)' => /\ window'[requests'[x].name] = x
                              /\ \A s \in Jsonp' : s # x /\ requests'[s].name = requests'[x].name =>
                                      s \notin loading' /\ ~Holds(s)' /\ requests'[s].state = 2
              /\ ~Holds(x)' => window'[requests'[x].name] # x
        <4>1. ~Holds(x) /\ x \notin fate.shared => window[requests[x].name] # x
          BY <3>3 DEF Named
        <4>2. \A s \in Jsonp : Holds(s)' <=> Holds(s)
          BY <3>1
        <4>3. requests'[x].name = requests[x].name
          BY <3>1
        <4> QED
          BY <2>1, <3>1, <3>5, <3>6, <4>1, <4>2, <4>3
      <3>8. /\ requests'[x].name <= Cardinality(Made') /\ (requests'[x].fixed <=> requests'[x].name = 0)
            /\ ~requests'[x].fixed /\ Holds(x)' =>
                 \A s \in Jsonp' : s # x /\ requests'[s].name = requests'[x].name => ~Holds(s)'
        <4>1. /\ requests[x].name <= Cardinality(Made) /\ (requests[x].fixed <=> requests[x].name = 0)
              /\ ~requests[x].fixed /\ Holds(x) =>
                   \A s \in Jsonp : s # x /\ requests[s].name = requests[x].name => ~Holds(s)
          BY <3>3 DEF Named
        <4> QED
          BY <2>1, <3>1, <4>1
      <3> QED
        BY <2>1, <3>1, <3>4, <3>7, <3>8 DEF Named
    <2> QED
      BY <1>5, <1>8, <2>1, <2>2, <2>3, <2>4 DEF NamesInv
  <1>10. CASE requests'[r].jsonp
    <2>1. /\ NameRight(o, name, oldCallbacks', Made')
          /\ window' = [window EXCEPT ![name] = r] /\ requests'[r].overwritten = window[name]
          /\ Jsonp' = Jsonp \cup {r} /\ loading' = loading
          /\ requests'[r].name = name /\ requests'[r].fixed = o.fixed
      BY <1>2, <1>10 DEF Joins
    <2>2. /\ name \in 0..MaxRequests /\ (o.fixed <=> name = 0) /\ name <= Cardinality(Made')
          /\ Cardinality(Made) <= Cardinality(Made')
          /\ Cardinality(Made) \in Nat /\ Cardinality(Made') \in Nat
          /\ ~o.fixed => \A s \in Jsonp : requests[s].name = name => ~Holds(s)
          /\ Items(oldCallbacks') \subseteq Items(oldCallbacks) /\ name \notin Items(oldCallbacks')
      BY <1>1, <1>3, <2>1 DEF NameRight
    <2>3. /\ window'[name] = r /\ \A n \in 0..MaxRequests : n # name => window'[n] = window[n]
          /\ \A x \in Jsonp : requests[x].name \in 0..MaxRequests /\ requests[x].state \in 0..2
      <3>1. \A x \in Jsonp : requests[x] \in Requests
        BY <1>1, ElementOfSeq, LenProperties DEF Shape
      <3>2. \A x \in Jsonp : requests[x].name \in 0..MaxRequests /\ requests[x].state \in 0..2
        BY <3>1 DEF Requests
      <3> QED
        BY <2>1, <2>2, <3>2 DEF Shape
    \* Whoever has the name and is under way shares it.
    <2>4. \A x \in Jsonp : requests[x].name = name /\ (Holds(x) \/ x \in loading \/ requests[x].state < 2) =>
                             x \in fate'.shared /\ r \in fate'.shared
      <3>1. \A x \in Jsonp : Holds(x) => requests[x].state < 2
        BY <1>1, <1>3, <1>6 DEF Way
      <3>2. \A x \in Jsonp : requests[x].name = name /\ (Holds(x) \/ x \in loading \/ requests[x].state < 2) => x \in rivals
        BY <1>1, <1>10, <3>1 DEF Joins, Jsonp
      <3> QED
        BY <3>2 DEF Joins
    <2>5. FreeNames'
      <3>1. \A i, j \in 1..Len(oldCallbacks') : oldCallbacks'[i] = oldCallbacks'[j] => i = j
        BY <2>1 DEF NameRight
      <3>2. ASSUME NEW n \in Items(oldCallbacks')
            PROVE  /\ n <= Cardinality(Made')
                   /\ \A x \in Jsonp \cup {r} : requests'[x].name = n => ~Holds(x)'
        <4>1. n \in Items(oldCallbacks) /\ n \in Numbers
          BY <2>2, SeqIsSeq DEF Shape
        <4>2. n <= Cardinality(Made) /\ \A x \in Jsonp : requests[x].name = n => ~Holds(x)
          BY <4>1 DEF NamesInv, FreeNames
        <4>3. n <= Cardinality(Made')
          BY <2>2, <4>1, <4>2, AjaxAssumption DEF Numbers
        <4> QED
          BY <1>1, <1>3, <2>1, <2>2, <4>2, <4>3
      <3> QED
        BY <2>1, <3>1, <3>2 DEF FreeNames
    <2>6. ASSUME NEW n \in 0..MaxRequests PROVE Placed(n)'
      <3>1. Placed(n)
        BY DEF NamesInv
      <3> QED
        BY <1>1, <2>1, <2>3, <3>1 DEF Placed
    <2>7. Named(r)'
      <3>1. ~o.fixed => \A s \in Jsonp' : s # r /\ requests'[s].name = name => ~Holds(s)'
        BY <1>1, <1>3, <2>1, <2>2
      <3>2. window[name] # 0 => /\ window[name] \in Jsonp /\ window[name] \in fate'.shared
                                /\ requests[window[name]].name = name
        <4>1. SUFFICES ASSUME window[name] # 0
                       PROVE  /\ window[name] \in Jsonp /\ window[name] \in fate'.shared
                              /\ requests[window[name]].name = name
          OBVIOUS
        <4> PICK w : w = window[name]
          OBVIOUS
        <4>2. w \in Jsonp /\ requests[w].name = name
          BY <2>2, <4>1 DEF NamesInv, Placed
        <4>3. w \notin fate.shared => Holds(w)
          BY <1>6, <4>2 DEF Named
        <4> QED
          BY <1>7, <2>4, <4>2, <4>3
      <3>3. r \notin fate'.shared =>
              \A s \in Jsonp' : s # r /\ requests'[s].name = name =>
                                   s \notin loading' /\ ~Holds(s)' /\ requests'[s].state = 2
        BY <1>1, <1>3, <2>1, <2>3, <2>4
      <3>4. window[name] \in Jsonp => requests'[window[name]] = requests[window[name]]
        BY <1>1
      <3> QED
        BY <1>4, <2>1, <2>2, <2>3, <3>1, <3>2, <3>3, <3>4 DEF Named
    <2>8. ASSUME NEW x \in Jsonp PROVE Named(x)'
      <3>1. /\ Named(x) /\ requests'[x] = requests[x] /\ (Holds(x)' <=> Holds(x)) /\ x # r
            /\ requests[x].name \in Int /\ requests[x].name \in 0..MaxRequests
        BY <1>1, <1>3, <1>6, <2>3, AjaxAssumption
      <3>2. requests[x].name <= Cardinality(Made') /\ (requests[x].fixed <=> requests[x].name = 0)
        BY <2>2, <3>1 DEF Named
      <3>3. ~requests[x].fixed /\ Holds(x) =>
              \A s \in Jsonp' : s # x /\ requests'[s].name = requests[x].name => ~Holds(s)'
        <4>1. ~requests[x].fixed /\ Holds(x) => requests[x].name # name
          BY <2>2, <3>2
        <4>2. ~requests[x].fixed /\ Holds(x) =>
                \A s \in Jsonp : s # x /\ requests[s].name = requests[x].name => ~Holds(s)
          BY <3>1 DEF Named
        <4> QED
          BY <1>1, <1>3, <2>1, <4>1, <4>2
      <3>4. requests[x].overwritten # 0 =>
              /\ requests[x].overwritten \in Jsonp \cap fate'.shared
              /\ requests'[requests[x].overwritten].name = requests[x].name
        BY <1>1, <1>7, <3>1 DEF Named
      <3>5. ASSUME x \notin fate'.shared, Holds(x)
            PROVE  /\ window'[requests[x].name] = x
                   /\ \A s \in Jsonp' : s # x /\ requests'[s].name = requests[x].name =>
                                          s \notin loading' /\ ~Holds(s)' /\ requests'[s].state = 2
        <4>1. requests[x].name # name
          BY <2>4, <3>5
        <4>2. /\ window[requests[x].name] = x
              /\ \A s \in Jsonp : s # x /\ requests[s].name = requests[x].name =>
                                   s \notin loading /\ ~Holds(s) /\ requests[s].state = 2
          BY <1>7, <3>1, <3>5 DEF Named
        <4> QED
          BY <1>1, <1>3, <2>1, <2>3, <4>1, <4>2
      <3>6. ASSUME x \notin fate'.shared, ~Holds(x) PROVE window'[requests[x].name] # x
        <4>1. window[requests[x].name] # x
          BY <1>7, <3>1, <3>6 DEF Named
        <4> QED
          BY <2>3, <3>1, <4>1
      <3> QED
        BY <2>1, <3>1, <3>2, <3>3, <3>4, <3>5, <3>6 DEF Named
    <2> QED
      BY <1>5, <1>8, <2>1, <2>5, <2>6, <2>7, <2>8 DEF NamesInv
  <1> QED
    BY <1>9, <1>10

LEMMA NamesCallAjax ==
  ASSUME IInv, NamesInv, NEW o \in Options, CallAjax(o)
  PROVE  NamesInv'
  <1>1. Idle \/ IsNext("user")
    BY DEF CallAjax
  <1>2. AjaxThen(o, agenda)
    BY DEF CallAjax
  <1>3. Shape /\ Shape'
    BY CallAjaxStep DEF IInv
  <1> PICK r : r = Len(requests) + 1
    OBVIOUS
  <1> PICK jsonp \in BOOLEAN : jsonp <=> o.type = "jsonp"
    OBVIOUS
  <1> PICK name : name = NameFor(o)
    OBVIOUS
  <1>4. /\ r <= MaxRequests /\ r \in Numbers /\ Len(requests) < MaxRequests
        /\ DOMAIN requests = 1..Len(requests) /\ r \notin DOMAIN requests
        /\ Len(requests) \in Nat /\ Len(requests) + 1 = r
    <2>1. r <= MaxRequests
      BY <1>2 DEF AjaxThen
    <2>2. Len(requests) \in Nat /\ DOMAIN requests = 1..Len(requests)
      BY <1>3, LenProperties DEF Shape
    <2> QED
      BY <2>1, <2>2, AjaxAssumption DEF Numbers
  <1>5. o.fixed \in BOOLEAN
    BY AjaxAssumption
  <1>6. PICK transportOf : transportOf = TransportOf(o) /\ (transportOf = "script" => jsonp)
    BY DEF TransportOf
  <1>7. PICK reused \in BOOLEAN : reused <=> jsonp /\ ~o.fixed /\ oldCallbacks # <<>>
    OBVIOUS
  <1>8. PICK global : global = ~(jsonp /\ o.crossDomain)
    OBVIOUS
  <1>9. PICK overwritten : overwritten = IF jsonp THEN window[name] ELSE 0
    OBVIOUS
  <1>10. PICK rivals : rivals = IF jsonp THEN Rivals(name) ELSE {}
    OBVIOUS
  <1> DEFINE new == [jsonp |-> jsonp, transportOf |-> transportOf, async |-> o.async,
                     timeout |-> o.timeout, beforeSend |-> o.beforeSend, fixed |-> o.fixed,
                     reused |-> reused, global |-> global, name |-> name, overwritten |-> overwritten, container |-> 0,
                     state |-> 0, fires |-> FALSE, refused |-> FALSE, installed |-> FALSE,
                     transport |-> FALSE, timer |-> FALSE, outcome |-> "pending"]
  <1>11. /\ requests' = Append(requests, new)
         /\ window' = IF jsonp THEN [window EXCEPT ![name] = r] ELSE window
         /\ oldCallbacks' = IF reused THEN Front(oldCallbacks) ELSE oldCallbacks
         /\ agenda' = Fire("prefilter", r) \o <<Do("begin", r, "")>> \o agenda
         /\ fate' = [fate EXCEPT !.shared = IF rivals = {} THEN @ ELSE @ \cup rivals \cup {r}]
         /\ UNCHANGED <<active, net, acts>>
    BY <1>2, <1>6, <1>7, <1>8, <1>9, <1>10 DEF AjaxThen
  <1>12. /\ new.jsonp = jsonp /\ new.transportOf = transportOf /\ new.fixed = o.fixed
         /\ new.reused = reused /\ new.name = name /\ new.overwritten = overwritten
         /\ new.container = 0 /\ new.state = 0 /\ ~new.transport /\ new.outcome = "pending"
    OBVIOUS
  <1> HIDE DEF new
  <1>13. /\ DOMAIN requests' = DOMAIN requests \cup {r}
         /\ requests'[r] = new
         /\ \A x \in DOMAIN requests : requests'[x] = requests[x]
    <2>1. IsSeq(requests)
      BY <1>3, SeqIsSeq DEF Shape
    <2>2. /\ Len(Append(requests, new)) = Len(requests) + 1 /\ IsSeq(Append(requests, new))
      BY <2>1, AppendIsSeq
    <2>3. requests \in Seq(Items(requests) \cup {new})
      BY <2>1, ItemsInSeq
    <2>4. /\ \A i \in 1..Len(requests) : Append(requests, new)[i] = requests[i]
          /\ Append(requests, new)[Len(requests) + 1] = new
      BY <2>3, AppendProperties
    <2>5. DOMAIN requests' = 1..r
      BY <1>4, <1>11, <2>2, IsSeqFacts
    <2>6. 1..r = (1..Len(requests)) \cup {r}
      BY <1>4
    <2> QED
      BY <1>4, <1>11, <2>4, <2>5, <2>6
  <1>14. fate'.shared = IF rivals = {} THEN fate.shared ELSE fate.shared \cup rivals \cup {r}
    BY <1>3, <1>11 DEF Shape
  \* Nothing comes to its end.
  <1>15. Quiet /\ NoCleanup(agenda)
    BY <1>1, QuietAll
  <1>16. \A op, x : op \in {"done", "cleanup"} => ~ToDo(op, x) /\ ~ToDo(op, x)'
    <2>1. \A x \in Items(agenda) : x.op \notin {"done", "cleanup"}
      BY <1>15 DEF Quiet
    <2>2. \A x \in Items(agenda') : x.op \notin {"done", "cleanup"}
      <3>1. PICK fires : /\ fires = Fire("prefilter", r) /\ IsSeq(fires)
                         /\ \A x \in Items(fires) : x.op = "fire"
        <4>1. "prefilter" \in Handlers
          BY HandlerSet
        <4> QED
          BY <1>4, <4>1, FireFacts
      <3>2. PICK next : next = Do("begin", r, "")
        OBVIOUS
      <3>3. next.op = "begin"
        BY <3>2, Zenon DEF Do
      <3>4. IsSeq(<<next>>) /\ Items(<<next>>) = {next}
        BY ShortIsSeq
      <3>5. agenda' = fires \o <<next>> \o agenda
        BY <1>11, <3>1, <3>2, Zenon
      <3>6. IsSeq(fires \o <<next>>) /\ Items(fires \o <<next>>) = Items(fires) \cup {next}
        BY <3>1, <3>4, ConcatIsSeq
      <3>7. IsSeq(agenda)
        BY <1>15 DEF NoCleanup
      <3>8. Items(agenda') = Items(fires) \cup {next} \cup Items(agenda)
        BY <3>5, <3>6, <3>7, ConcatIsSeq
      <3> QED
        BY <2>1, <3>1, <3>3, <3>8
    <2> QED
      BY <2>1, <2>2 DEF ToDo
  <1>17. Joins(r, o, name, rivals)
    <2>1. rivals = {x \in DOMAIN requests : /\ requests'[r].jsonp /\ requests[x].jsonp
                                            /\ requests[x].name = name
                                            /\ requests[x].state < 2 \/ x \in loading}
      BY <1>10, <1>12, <1>13 DEF Rivals
    <2> QED
      BY <1>4, <1>6, <1>11, <1>12, <1>13, <1>14, <1>16, <2>1 DEF Joins, net
  <1>18. Made' = IF requests'[r].jsonp /\ ~o.fixed /\ oldCallbacks = <<>> THEN Made \cup {r} ELSE Made
    <2>1. Made' = {x \in DOMAIN requests' : requests'[x].jsonp /\ ~requests'[x].reused /\ ~requests'[x].fixed}
      BY DEF Made, Jsonp
    <2>2. Made = {x \in DOMAIN requests : requests[x].jsonp /\ ~requests[x].reused /\ ~requests[x].fixed}
      BY DEF Made, Jsonp
    <2>3. requests'[r].jsonp /\ ~requests'[r].reused /\ ~requests'[r].fixed <=>
            requests'[r].jsonp /\ ~o.fixed /\ oldCallbacks = <<>>
      BY <1>7, <1>12, <1>13
    <2> QED
      BY <1>4, <1>13, <2>1, <2>2, <2>3
  <1>19. CASE jsonp
    <2>1. PICK made : made = IF ~o.fixed /\ oldCallbacks = <<>> THEN Made \cup {Len(requests) + 1} ELSE Made
      OBVIOUS
    <2>2. PICK free : free = IF ~o.fixed /\ oldCallbacks # <<>> THEN Front(oldCallbacks) ELSE oldCallbacks
      OBVIOUS
    <2>3. NameRight(o, name, free, made)
      BY <1>3, <1>4, <2>1, <2>2, NewName
    <2>4. made = Made' /\ free = oldCallbacks'
      BY <1>4, <1>7, <1>11, <1>12, <1>13, <1>18, <1>19, <2>1, <2>2
    <2>5. /\ requests'[r].jsonp /\ requests'[r].overwritten = window[name]
          /\ window' = [window EXCEPT ![name] = r]
      BY <1>9, <1>11, <1>12, <1>13, <1>19
    <2> QED
      BY <1>3, <1>4, <1>17, <1>18, <2>3, <2>4, <2>5, NamesJoin
  <1>20. CASE ~jsonp
    <2>1. /\ ~requests'[r].jsonp /\ window' = window /\ oldCallbacks' = oldCallbacks
      BY <1>7, <1>11, <1>12, <1>13, <1>20
    <2> QED
      BY <1>3, <1>4, <1>17, <1>18, <2>1, NamesJoin
  <1> QED
    BY <1>19, <1>20

--------------------------------------------------------------------------------
(* The theorems                                                            *)

LEMMA InvStarts ==
  ASSUME Init
  PROVE  IInv
  <1>1. /\ requests = <<>> /\ active = 0 /\ waiting = {} /\ loading = {} /\ oldCallbacks = <<>>
        /\ agenda = <<>> /\ acts = 0 /\ told = <<>>
    BY DEF Init
  <1>2. Items(agenda) = {} /\ Len(requests) = 0 /\ Len(told) = 0 /\ DOMAIN requests = {}
    BY <1>1, ShortIsSeq
  <1>3. Shape
    <2>1. /\ requests \in Seq(Requests) /\ oldCallbacks \in Seq(Numbers) /\ agenda \in Seq(Things)
          /\ told \in Seq(Seq(Handlers))
      BY <1>1, EmptySeq
    <2>2. window \in [0..MaxRequests -> 0..MaxRequests]
      <3>1. window = [name \in 0..MaxRequests |-> 0]
        BY DEF Init
      <3>2. 0 \in 0..MaxRequests
        BY AjaxAssumption
      <3> QED
        BY <3>1, <3>2
    <2>3. /\ fate \in [thrown : SUBSET Numbers, early : SUBSET Numbers,
                       interfered : SUBSET Numbers, shared : SUBSET Numbers]
      BY DEF Init
    <2>4. acts \in 0..MaxActs /\ Len(requests) <= MaxRequests
      BY <1>1, <1>2, AjaxAssumption
    <2> QED
      BY <1>1, <1>2, <2>1, <2>2, <2>3, <2>4 DEF Shape
  <1>4. InSequence(agenda, Order)
    BY <1>1, InSequenceShort
  <1>5. CountOK
    <2>1. Counted = {}
      BY <1>2 DEF Counted
    <2>2. Cardinality(Counted) = 0
      BY <2>1, FS_EmptySet
    <2> QED
      BY <1>1, <2>2 DEF CountOK
  <1> QED
    BY <1>2, <1>3, <1>4, <1>5 DEF IInv

LEMMA InvStep ==
  ASSUME IInv, [Next]_vars
  PROVE  IInv'
  <1>1. CASE Machine
    BY <1>1, BeginStep, TransportStep, SendStep, DoneStep, CleanUpStep, CountStep, FireStep DEF Machine
  <1>2. CASE Answer
    BY <1>2, AnswerStep DEF Answer
  <1>3. CASE User
    <2>1. CASE \E o \in Options : CallAjax(o)
      BY <2>1, CallAjaxStep
    <2>2. CASE \E r \in DOMAIN requests : CallAbort(r)
      BY <2>2, CallAbortStep
    <2>3. CASE \E refuses \in BOOLEAN : Return(refuses)
      BY <2>3, ReturnStep
    <2> QED
      BY <1>3, <2>1, <2>2, <2>3, ThrowStep DEF User
  <1>4. CASE Return(FALSE)
    BY <1>4, ReturnStep
  <1>5. CASE Wait \/ UNCHANGED vars
    BY <1>5, StutterStep DEF Wait
  <1> QED
    BY <1>1, <1>2, <1>3, <1>4, <1>5, LoadStep, LoadFailsStep, TimesOutStep DEF Next, Program

LEMMA NamesStart ==
  ASSUME Init
  PROVE  NamesInv
  <1>1. DOMAIN requests = {} /\ Items(oldCallbacks) = {} /\ Len(oldCallbacks) = 0
    BY ShortIsSeq DEF Init
  <1>2. \A n \in 0..MaxRequests : window[n] = 0
    BY DEF Init
  <1>3. FreeNames
    BY <1>1 DEF FreeNames
  <1> QED
    BY <1>1, <1>2, <1>3 DEF NamesInv, Placed, Jsonp

LEMMA NamesStep ==
  ASSUME IInv, NamesInv, [Next]_vars
  PROVE  NamesInv'
  <1>1. CASE Machine
    BY <1>1, NamesBegin, NamesTransport, NamesSend, NamesDone, NamesCleanUp, NamesCount, NamesFire DEF Machine
  <1>2. CASE Answer
    BY <1>2, NamesAnswer DEF Answer
  <1>3. CASE User
    <2>1. CASE \E o \in Options : CallAjax(o)
      BY <2>1, NamesCallAjax
    <2>2. CASE \E r \in DOMAIN requests : CallAbort(r)
      BY <2>2, NamesCallAbort
    <2>3. CASE \E refuses \in BOOLEAN : Return(refuses)
      BY <2>3, NamesReturn
    <2> QED
      BY <1>3, <2>1, <2>2, <2>3, NamesThrow DEF User
  <1>4. CASE Return(FALSE)
    BY <1>4, NamesReturn
  <1>5. CASE Wait \/ UNCHANGED vars
    BY <1>5, NamesStutter DEF Wait
  <1> QED
    BY <1>1, <1>2, <1>3, <1>4, <1>5, NamesLoad, NamesLoadFails, NamesTimesOut DEF Next, Program

\* jquery-l.js:7982-8259: a request whose transport can still call back has been sent and is
\* not over, whatever the user's handlers did.
THEOREM TypesAreRight == Spec => []TypeOK
  <1>1. ASSUME IInv PROVE TypeOK
    <2>1. Shape
      BY <1>1 DEF IInv
    <2>2. \A r \in waiting : requests[r].state = 1 /\ requests[r].transport
      BY <1>1, <2>1 DEF IInv, Shape, Known
    <2>3. ToSet(oldCallbacks) \subseteq 1..MaxRequests
      <3>1. IsSeq(oldCallbacks) /\ Items(oldCallbacks) \subseteq Numbers
        BY <2>1, SeqIsSeq DEF Shape
      <3>2. DOMAIN oldCallbacks = 1..Len(oldCallbacks)
        BY <3>1, IsSeqFacts
      <3> QED
        BY <3>1, <3>2 DEF ToSet, Items, Numbers
    <2> QED
      BY <2>1, <2>2, <2>3 DEF TypeOK, Shape
  <1> QED
    BY <1>1, InvStarts, InvStep, PTL DEF Spec

\* jquery-l.js:8036, 8250-8257 ("Counter for holding the number of active queries"):
\* when no code runs, jQuery.active is the number of requests that were begun and are not
\* over, so that "ajaxStart" and "ajaxStop" come when they should.
THEOREM ActiveIsRight == Spec => []ActiveCounts
  <1>1. ASSUME IInv PROVE ActiveCounts
    <2> SUFFICES ASSUME Idle, fate.thrown = {}, fate.interfered = {}
                 PROVE  active = Cardinality({r \in DOMAIN requests : requests[r].fires /\ Pending(r)})
      BY DEF ActiveCounts
    <2>1. Items(agenda) = {}
      BY ShortIsSeq DEF Idle
    <2>2. Counted = {r \in DOMAIN requests : requests[r].fires /\ Pending(r)}
      BY <2>1 DEF Counted, CountsDown
    <2> QED
      BY <1>1, <2>2 DEF IInv, CountOK
  <1> QED
    BY <1>1, InvStarts, InvStep, PTL DEF Spec

\* jquery-l.js:8148-8259 ("Called once"): a request tells its handlers in their order, each at
\* most once, with one outcome, and has told all those of its end when the event loop is free.
THEOREM ToldOnce == Spec => []Told
  <1>1. ASSUME IInv PROVE Told
    <2> SUFFICES ASSUME NEW r \in DOMAIN requests \ (fate.early \cup fate.interfered \cup fate.thrown)
                 PROVE  /\ \A i, j \in DOMAIN told[r] : i < j => Rank(told[r][i]) < Rank(told[r][j])
                        /\ ToSet(told[r]) \cap {"success", "error"} \subseteq {requests[r].outcome}
                        /\ Idle /\ ~Pending(r) => ToSet(told[r]) \cap Ending = Due(r)
      BY DEF Told, Ending
    <2>1. Shape /\ Known(r) /\ Sound(r)
      BY <1>1 DEF IInv, Sound
    <2>2. /\ InSequence(told[r], InRank)
          /\ requests[r].state < 2 => Items(told[r]) \subseteq Opening
          /\ requests[r].state = 2 => (Items(told[r]) \cup ToFire(r)) \cap Ending = Due(r)
      BY <2>1 DEF Known
    <2>3. DOMAIN told[r] = 1..Len(told[r]) /\ ToSet(told[r]) = Items(told[r])
      <3>1. told[r] \in Seq(Handlers)
        <4>1. r \in 1..Len(told) /\ told \in Seq(Seq(Handlers)) /\ DOMAIN told = 1..Len(told)
          BY <2>1, RequestNumbers, LenProperties DEF Shape
        <4> QED
          BY <4>1, ElementOfSeq
      <3> QED
        BY <3>1, LenProperties DEF ToSet, Items
    <2>4. \A i, j \in DOMAIN told[r] : i < j => Rank(told[r][i]) < Rank(told[r][j])
      BY <2>2, <2>3 DEF InSequence, InRank
    <2>5. requests[r].state \in 0..2
      <3>1. requests[r] \in Requests
        BY <2>1, RequestNumbers, ElementOfSeq DEF Shape
      <3> QED
        BY <3>1 DEF Requests
    <2>6. ToSet(told[r]) \cap {"success", "error"} \subseteq {requests[r].outcome}
      <3>1. CASE requests[r].state < 2
        BY <2>2, <2>3, <3>1 DEF Opening
      <3>2. CASE requests[r].state = 2
        <4>1. Items(told[r]) \cap {"success", "error"} \subseteq Due(r)
          BY <2>2, <3>2 DEF Ending
        <4>2. Due(r) \cap {"success", "error"} \subseteq {requests[r].outcome}
          BY DEF Due
        <4> QED
          BY <2>3, <4>1, <4>2
      <3> QED
        BY <2>5, <3>1, <3>2
    <2>7. ASSUME Idle, ~Pending(r) PROVE ToSet(told[r]) \cap Ending = Due(r)
      <3>1. ToFire(r) = {}
        BY <2>7, ShortIsSeq DEF Idle, ToFire
      <3>2. requests[r].state = 2
        BY <2>5, <2>7 DEF Pending
      <3> QED
        BY <2>2, <2>3, <3>1, <3>2
    <2> QED
      BY <2>4, <2>6, <2>7
  <1> QED
    BY <1>1, InvStarts, InvStep, PTL DEF Spec

\* jquery-l.js:8527-8606: a jsonp request that succeeds has the data of its own answer, a
\* name is free once at most, and when the event loop is free a request has its function in
\* the window, under a name that is not free, as long as it is under way and no longer,
\* unless it shared its name with another.
THEOREM JsonpIsOwn == Spec => []JsonpOwn
  <1>1. ASSUME IInv, NamesInv PROVE JsonpOwn
    <2>1. FreeNames /\ \A r \in Jsonp : Named(r) /\ Own(r) /\ Way(r)
      BY <1>1 DEF NamesInv, Jsonp
    <2>2. /\ IsSeq(oldCallbacks) /\ DOMAIN oldCallbacks = 1..Len(oldCallbacks)
          /\ ToSet(oldCallbacks) = Items(oldCallbacks)
      <3>1. IsSeq(oldCallbacks)
        BY <1>1, SeqIsSeq DEF IInv, Shape
      <3> QED
        BY <3>1, IsSeqFacts DEF ToSet, Items
    <2>3. IsInjective(oldCallbacks)
      BY <2>1, <2>2 DEF IsInjective, FreeNames
    <2>4. ASSUME NEW r \in Jsonp, r \notin fate.shared, Idle
          PROVE  /\ Pending(r) => /\ window[requests[r].name] = r
                                  /\ requests[r].name \notin ToSet(oldCallbacks)
                 /\ ~(~Pending(r) /\ window[requests[r].name] = r)
      <3>1. \A op : ~ToDo(op, r)
        <4>1. Items(agenda) = {}
          BY <2>4, ShortIsSeq DEF Idle
        <4> QED
          BY <4>1 DEF ToDo
      <3>2. Pending(r) <=> Holds(r)
        BY <2>1, <2>4, <3>1 DEF Pending, Way, Holds, Jsonp
      <3>3. Holds(r) => requests[r].name \notin Items(oldCallbacks)
        BY <2>1 DEF FreeNames
      <3> QED
        BY <2>1, <2>2, <2>4, <3>2, <3>3 DEF Named
    <2>5. \A r \in Jsonp : r \notin fate.shared /\ requests[r].outcome = "success" => requests[r].container = r
      BY <2>1 DEF Own
    <2> QED
      BY <2>3, <2>4, <2>5 DEF JsonpOwn, Jsonp
  <1>2. Init => IInv /\ NamesInv
    BY InvStarts, NamesStart
  <1>3. IInv /\ NamesInv /\ [Next]_vars => (IInv /\ NamesInv)'
    BY InvStep, NamesStep
  <1> QED
    BY <1>1, <1>2, <1>3, PTL DEF Spec

================================================================================
