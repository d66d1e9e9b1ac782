------------------------------- MODULE PageProofs -------------------------------
(***************************************************************************)
(* Theorems about the page lire.html (module Page), for any number of      *)
(* requests, any of them under way at the same time, and answers in any    *)
(* order: whose images and whose heading are shown.                        *)
(***************************************************************************)
EXTENDS Page, AjaxProofs

Kinds == ClearingKinds \cup {"start", "extract"}

\* The page's callback for request r is about to run, or runs.
InCallback(r) == agenda # <<>> /\ Todo.op \in {"fire", "user"} /\ Todo.r = r

\* The page makes plain requests only, and needs their answers to be told.
RequestsInv ==
  /\ requests \in Seq(Requests) /\ Len(requests) <= MaxRequests
  /\ \A r \in DOMAIN requests :
       /\ ~requests[r].jsonp /\ requests[r].transportOf = "xhr" /\ requests[r].async
       /\ requests[r].outcome = "pending" <=> Pending(r)
  /\ waiting \subseteq DOMAIN requests /\ \A r \in waiting : requests[r].installed
  /\ oldCallbacks = <<>>
  /\ asked \in Seq(Kinds) /\ Len(asked) = Len(requests)

\* The first thing that is to be done.
FirstOK(x) ==
  /\ x.op \in Pipeline \cup {"done", "count", "fire", "user"}
  /\ x.op # "count" => x.r \in DOMAIN requests
  /\ x.op \in Pipeline => requests[x.r].state = 0
  /\ x.op = "send" => requests[x.r].installed
  /\ x.op = "done" /\ x.how # "error" => requests[x.r].installed
  /\ x.op \in {"fire", "user"} =>
       x.how = "success" /\ requests[x.r].outcome = "success" /\ x.r \notin Items(images)

\* What is behind it only counts down.
OnlyCounts(s) == s \in Seq(Things) /\ \A x \in Items(s) : x.op = "count"

AgendaInv == agenda \in Seq(Things) /\ (agenda # <<>> => FirstOK(Todo) /\ OnlyCounts(Rest))

\* The last request that cleared the images.
Latest(c) == \A x \in Clearing : x <= c

ImagesInv ==
  /\ images \in Seq(DOMAIN requests) /\ IsInjective(images)
  /\ \A r \in Items(images) : ~Pending(r)
  /\ \A c \in Clearing : Latest(c) =>
       \A r \in DOMAIN requests :
         r < c /\ r \notin overlap.last => ~Pending(r) /\ r \notin Items(images) /\ ~InCallback(r)

\* Requests that never overlapped.
OverlapInv ==
  ~overlap.ever => \A r \in DOMAIN requests : Pending(r) \/ InCallback(r) => r = Len(requests)

Later(c) == {r \in DOMAIN asked : r > c}

\* What the page shows before and after the answer to the last request that cleared it.
HeadingInv ==
  ~overlap.ever =>
    \A c \in Clearing : Latest(c) /\ (\A r \in Later(c) : asked[r] # "start") =>
      /\ Pending(c) \/ InCallback(c) =>
           /\ Later(c) = {} /\ perf = Wait4 /\ images = <<>>
           /\ asked[c] # "tags" => heading = c
      /\ ~(Pending(c) \/ InCallback(c)) =>
           /\ perf = Wait4 <=> requests[c].outcome # "success"
           /\ Items(images) \subseteq {c}
           /\ images # <<>> /\ Later(c) = {} => heading = c
           /\ images = <<>> /\ requests[c].outcome = "success" /\ asked[c] = "search" =>
                heading = ErrorShown

PageInv == RequestsInv /\ AgendaInv /\ ImagesInv /\ OverlapInv /\ HeadingInv

--------------------------------------------------------------------------------
(* The requests and the agenda                                             *)

LEMMA Domains ==
  ASSUME RequestsInv
  PROVE  /\ Len(requests) \in Nat /\ DOMAIN requests = 1..Len(requests)
         /\ DOMAIN asked = DOMAIN requests /\ DOMAIN requests \subseteq Numbers
         /\ Clearing \subseteq DOMAIN requests
         /\ \A r \in DOMAIN requests : requests[r] \in Requests /\ asked[r] \in Kinds
  <1>1. Len(requests) \in Nat /\ DOMAIN requests = 1..Len(requests) /\ DOMAIN asked = 1..Len(asked)
    BY LenProperties DEF RequestsInv
  <1>2. DOMAIN requests \subseteq Numbers
    BY <1>1, AjaxAssumption DEF RequestsInv, Numbers
  <1>3. \A r \in DOMAIN requests : requests[r] \in Requests /\ asked[r] \in Kinds
    BY <1>1, ElementOfSeq DEF RequestsInv
  <1> QED
    BY <1>1, <1>2, <1>3 DEF RequestsInv, Clearing

LEMMA OneChanges ==
  ASSUME RequestsInv, NEW r \in DOMAIN requests, NEW q \in Requests,
         requests' = [requests EXCEPT ![r] = q]
  PROVE  /\ requests' \in Seq(Requests) /\ Len(requests') = Len(requests)
         /\ DOMAIN requests' = DOMAIN requests
         /\ requests'[r] = q
         /\ \A x \in DOMAIN requests : x # r => requests'[x] = requests[x]
  <1>1. requests \in Seq(Requests) /\ r \in 1..Len(requests)
    BY LenProperties DEF RequestsInv
  <1>2. requests' \in Seq(Requests) /\ Len(requests') = Len(requests)
    BY <1>1, ExceptSeq
  <1> QED
    BY <1>1, <1>2

\* Only "success" has a handler.
LEMMA OnlySuccess ==
  ASSUME NEW r
  PROVE  /\ Fire("success", r) = <<Do("fire", r, "success")>>
         /\ \A p : p # "success" => Fire(p, r) = <<>>
  BY PageAssumption DEF Fire

\* What needs no more to be said of.
Thing(op, r) == Do(op, r, "")

LEMMA ThingFacts ==
  ASSUME NEW r \in Numbers, NEW op \in Pipeline \cup {"count"}
  PROVE  Thing(op, r) \in Things /\ Thing(op, r).op = op /\ Thing(op, r).r = r
  BY ZenonT(30) DEF Things, Do, Thing, Pipeline, Numbers

LEMMA DoFacts ==
  ASSUME NEW r \in Numbers
  PROVE  /\ Do("fire", r, "success") \in Things
         /\ \A how \in {"ok", "garbled", "failed", "error"} : Do("done", r, how) \in Things
  <1>1. "success" \in Handlers
    BY HandlerSet
  <1> QED
    BY <1>1 DEF Things, Do, Numbers

LEMMA PutFirst ==
  ASSUME NEW x \in Things, NEW s \in Seq(Things)
  PROVE  /\ <<x>> \o s \in Seq(Things) /\ <<x>> \o s # <<>>
         /\ Head(<<x>> \o s) = x /\ Tail(<<x>> \o s) = s
  <1>1. <<x>> \in Seq(Things) /\ Len(<<x>>) = 1 /\ <<x>>[1] = x
    OBVIOUS
  <1>2. /\ <<x>> \o s \in Seq(Things) /\ Len(<<x>> \o s) = 1 + Len(s)
        /\ \A i \in 1..(1 + Len(s)) : (<<x>> \o s)[i] = IF i <= 1 THEN <<x>>[i] ELSE s[i - 1]
    BY <1>1, ConcatProperties
  <1>3. PICK a \in Seq(Things) : a = <<x>> \o s
    BY <1>2
  <1>4. Len(s) \in Nat
    BY LenProperties
  <1>5. a # <<>> /\ Len(a) = 1 + Len(s) /\ a[1] = x /\ \A i \in 1..Len(s) : a[i + 1] = s[i]
    BY <1>1, <1>2, <1>3, <1>4
  <1>6. Head(a) = x
    BY <1>5
  <1>7. Tail(a) = s
    <2>1. Tail(a) \in Seq(Things) /\ Len(Tail(a)) = Len(s) /\ \A i \in 1..Len(s) : Tail(a)[i] = s[i]
      BY <1>4, <1>5, HeadTailProperties
    <2> QED
      BY <2>1, SeqEqual
  <1> QED
    BY <1>3, <1>5, <1>6, <1>7

LEMMA FirstComesNext ==
  ASSUME NEW x \in Things, NEW s, OnlyCounts(s), agenda' = <<x>> \o s, FirstOK(x)'
  PROVE  /\ AgendaInv'
         /\ \A r : InCallback(r)' <=> x.op \in {"fire", "user"} /\ x.r = r
  <1>1. agenda' \in Seq(Things) /\ agenda' # <<>> /\ Head(agenda') = x /\ Tail(agenda') = s
    BY PutFirst DEF OnlyCounts
  <1> QED
    BY <1>1 DEF AgendaInv, InCallback, Todo, Rest, OnlyCounts

LEMMA CountsRemain ==
  ASSUME NEW s, OnlyCounts(s), agenda' = s
  PROVE  AgendaInv' /\ \A r : ~InCallback(r)'
  <1>1. CASE s = <<>>
    BY <1>1 DEF AgendaInv, InCallback, OnlyCounts
  <1>2. CASE s # <<>>
    <2>1. IsSeq(s) /\ s \in Seq(Things)
      BY SeqIsSeq DEF OnlyCounts
    <2>2. Head(s) \in Items(s) /\ Items(Tail(s)) \subseteq Items(s) /\ Tail(s) \in Seq(Things)
      BY <1>2, <2>1, TailIsSeq, HeadTailProperties
    <2>3. Head(s).op = "count" /\ OnlyCounts(Tail(s))
      BY <2>2 DEF OnlyCounts
    <2>4. /\ agenda' # <<>> /\ agenda' \in Seq(Things)
          /\ Todo' = Head(s) /\ Rest' = Tail(s)
      BY <1>2, <2>1 DEF Todo, Rest
    <2>5. FirstOK(Todo)'
      BY <2>3, <2>4 DEF FirstOK, Pipeline
    <2>6. OnlyCounts(Rest)'
      BY <2>3, <2>4 DEF OnlyCounts
    <2>7. \A r : ~InCallback(r)'
      BY <2>3, <2>4 DEF InCallback
    <2> QED
      BY <2>4, <2>5, <2>6, <2>7 DEF AgendaInv
  <1> QED
    BY <1>1, <1>2

LEMMA EmptyCounts == OnlyCounts(<<>>)
  <1>1. <<>> \in Seq(Things) /\ Items(<<>>) = {}
    BY EmptySeq, ShortIsSeq
  <1> QED
    BY <1>1 DEF OnlyCounts

LEMMA MoreCounts ==
  ASSUME NEW r \in Numbers, NEW s, OnlyCounts(s)
  PROVE  OnlyCounts(<<Thing("count", r)>> \o s)
  <1>1. PICK x \in Things : x = Thing("count", r) /\ x.op = "count"
    BY ThingFacts
  <1>2. IsSeq(s) /\ IsSeq(<<x>>) /\ Items(<<x>>) = {x}
    BY SeqIsSeq, ShortIsSeq DEF OnlyCounts
  <1>3. Items(<<x>> \o s) = {x} \cup Items(s)
    BY <1>2, ConcatIsSeq
  <1>4. <<x>> \o s \in Seq(Things)
    BY PutFirst DEF OnlyCounts
  <1> QED
    BY <1>1, <1>3, <1>4 DEF OnlyCounts

--------------------------------------------------------------------------------
(* Steps that show nothing                                                 *)

\* No callback begins or ends, and no request.
LEMMA NothingShown ==
  ASSUME PageInv, RequestsInv', UNCHANGED page,
         DOMAIN requests' = DOMAIN requests, Len(requests') = Len(requests),
         \A r \in DOMAIN requests :
           (Pending(r)' <=> Pending(r)) /\ requests'[r].outcome = requests[r].outcome,
         \A r : InCallback(r)' <=> InCallback(r)
  PROVE  ImagesInv' /\ OverlapInv' /\ HeadingInv'
  <1>1. UNCHANGED <<asked, images, perf, heading, overlap>>
    BY DEF page
  <1>2. Clearing' = Clearing /\ Clearing \subseteq DOMAIN requests
        /\ \A c : (Latest(c)' <=> Latest(c)) /\ Later(c)' = Later(c)
    BY <1>1, Domains DEF PageInv, Clearing, Latest, Later
  <1>3. ImagesInv'
    <2>1. ImagesInv
      BY DEF PageInv
    <2>2. /\ images' \in Seq(DOMAIN requests') /\ IsInjective(images')
          /\ \A r \in Items(images') : r \in DOMAIN requests /\ ~Pending(r)'
      <3>1. Items(images) \subseteq DOMAIN requests
        BY <2>1, SeqIsSeq DEF ImagesInv
      <3> QED
        BY <1>1, <2>1, <3>1 DEF ImagesInv
    <2>3. ASSUME NEW c \in Clearing', Latest(c)', NEW r \in DOMAIN requests',
                 r < c, r \notin overlap'.last
          PROVE  ~Pending(r)' /\ r \notin Items(images') /\ ~InCallback(r)'
      <3>1. c \in Clearing /\ Latest(c) /\ r \in DOMAIN requests /\ r \notin overlap.last
        BY <1>1, <1>2, <2>3
      <3> QED
        BY <1>1, <2>1, <2>3, <3>1 DEF ImagesInv
    <2> QED
      BY <2>2, <2>3 DEF ImagesInv
  <1>4. OverlapInv'
    BY <1>1 DEF PageInv, OverlapInv
  <1>5. HeadingInv'
    BY <1>1, <1>2 DEF PageInv, HeadingInv
  <1> QED
    BY <1>3, <1>4, <1>5

LEMMA StutterKeepsPage ==
  ASSUME PageInv, UNCHANGED pageVars
  PROVE  PageInv'
  <1>1. UNCHANGED <<requests, active, waiting, loading, window, oldCallbacks, agenda, acts, told, fate,
                    ready, asked, images, perf, heading, overlap>>
    BY DEF pageVars, vars, net, names, page
  <1>2. RequestsInv'
    BY <1>1 DEF PageInv, RequestsInv, Pending
  <1>3. AgendaInv'
    BY <1>1 DEF PageInv, AgendaInv, FirstOK, OnlyCounts, Todo, Rest
  <1>4. \A r : (InCallback(r)' <=> InCallback(r)) /\ (Pending(r)' <=> Pending(r))
    BY <1>1 DEF InCallback, Pending, Todo
  <1>5. UNCHANGED page
    BY <1>1 DEF page
  <1> QED
    BY <1>1, <1>2, <1>3, <1>4, <1>5, NothingShown DEF PageInv

\* What is to be done next, and its request.
LEMMA NextOK ==
  ASSUME PageInv, NEW op, IsNext(op)
  PROVE  /\ agenda # <<>> /\ Todo.op = op /\ Todo \in Things /\ FirstOK(Todo) /\ OnlyCounts(Rest)
         /\ op # "count" => Todo.r \in DOMAIN requests /\ requests[Todo.r] \in Requests
         /\ Todo.r \in Numbers
         /\ op \notin {"fire", "user"} => \A r : ~InCallback(r)
  <1>1. agenda # <<>> /\ Todo.op = op
    BY DEF IsNext
  <1>2. Todo \in Things
    BY <1>1, HeadTailProperties DEF PageInv, AgendaInv, Todo
  <1>3. FirstOK(Todo) /\ OnlyCounts(Rest)
    BY <1>1 DEF PageInv, AgendaInv
  <1>4. op # "count" => Todo.r \in DOMAIN requests
    BY <1>1, <1>3 DEF FirstOK
  <1>5. Todo.r \in Numbers
    BY <1>2 DEF Things, Numbers
  <1> QED
    BY <1>1, <1>2, <1>3, <1>4, <1>5, Domains DEF PageInv, InCallback

LEMMA PageBegin ==
  ASSUME PageInv, Begin, UNCHANGED page
  PROVE  PageInv'
  <1>1. IsNext("begin") /\ UNCHANGED <<waiting, loading, window, oldCallbacks, acts, told, fate>>
        /\ UNCHANGED <<ready, asked, images, perf, heading, overlap>>
    BY DEF Begin, net, names, page
  <1>2. PICK r : r = Todo.r
    OBVIOUS
  <1>3. /\ OnlyCounts(Rest) /\ r \in DOMAIN requests /\ requests[r] \in Requests /\ r \in Numbers
        /\ requests[r].state = 0 /\ \A x : ~InCallback(x)
    BY <1>1, <1>2, NextOK DEF FirstOK, Pipeline
  <1> DEFINE new == [requests[r] EXCEPT !.fires = requests[r].global]
  <1>4. /\ new \in Requests /\ new.state = 0 /\ new.outcome = requests[r].outcome
        /\ new.jsonp = requests[r].jsonp /\ new.transportOf = requests[r].transportOf
        /\ new.async = requests[r].async /\ new.installed = requests[r].installed
    BY <1>3 DEF Requests
  <1>5. /\ requests' = [requests EXCEPT ![r] = new]
        /\ agenda' = <<Thing("transport", r)>> \o Rest
    <2>1. /\ requests[r].state # 2
          /\ requests' = [requests EXCEPT ![r] = new]
          /\ agenda' = (IF requests[r].global /\ active = 0 THEN Fire("ajaxStart", r) ELSE <<>>)
                        \o BeforeSend(r) \o <<Thing("transport", r)>> \o Rest
      <3>1. requests[r].state # 2
        BY <1>3
      <3> QED
        BY <1>2, <3>1, ZenonT(30) DEF Begin, Thing
    <2>2. Fire("ajaxStart", r) = <<>> /\ BeforeSend(r) = <<>>
      BY OnlySuccess DEF BeforeSend
    <2>3. PICK x \in Things : x = Thing("transport", r)
      BY <1>3, ThingFacts DEF Pipeline
    <2>4. <<>> \o <<>> \o <<x>> = <<x>>
      OBVIOUS
    <2> QED
      BY <2>1, <2>2, <2>3, <2>4
  <1> HIDE DEF new
  <1>6. /\ requests' \in Seq(Requests) /\ Len(requests') = Len(requests)
        /\ DOMAIN requests' = DOMAIN requests /\ requests'[r] = new
        /\ \A x \in DOMAIN requests : x # r => requests'[x] = requests[x]
    BY <1>3, <1>4, <1>5, OneChanges DEF PageInv
  <1>7. \A x \in DOMAIN requests :
          /\ requests'[x].state = requests[x].state /\ requests'[x].outcome = requests[x].outcome
          /\ requests'[x].jsonp = requests[x].jsonp /\ requests'[x].async = requests[x].async
          /\ requests'[x].transportOf = requests[x].transportOf
          /\ requests'[x].installed = requests[x].installed
    BY <1>3, <1>4, <1>6
  <1>8. RequestsInv'
    BY <1>1, <1>6, <1>7 DEF PageInv, RequestsInv, Pending
  <1>9. PICK x \in Things : x = Thing("transport", r) /\ x.op = "transport" /\ x.r = r
    BY <1>3, ThingFacts DEF Pipeline
  <1>10. FirstOK(x)'
    BY <1>3, <1>6, <1>7, <1>9 DEF FirstOK, Pipeline
  <1>11. AgendaInv' /\ \A y : ~InCallback(y)'
    BY <1>3, <1>5, <1>9, <1>10, FirstComesNext
  <1>12. ImagesInv' /\ OverlapInv' /\ HeadingInv'
    BY <1>3, <1>6, <1>7, <1>8, <1>11, NothingShown DEF Pending
  <1> QED
    BY <1>8, <1>11, <1>12 DEF PageInv

\* Request r, which is q afterwards, is not over.
GoesOn(r, q) ==
  /\ requests[r].state # 2 /\ q.state # 2 /\ q.outcome = requests[r].outcome
  /\ q.jsonp = requests[r].jsonp /\ q.transportOf = requests[r].transportOf
  /\ q.async = requests[r].async /\ (requests[r].installed => q.installed)
  /\ waiting' \subseteq waiting \cup {r} /\ (r \in waiting' => q.installed)
  /\ UNCHANGED oldCallbacks
  /\ \A x : ~InCallback(x) /\ ~InCallback(x)'

LEMMA OnTheWay ==
  ASSUME PageInv, UNCHANGED page,
         NEW r \in DOMAIN requests,
         NEW q \in Requests, requests' = [requests EXCEPT ![r] = q],
         GoesOn(r, q), AgendaInv'
  PROVE  PageInv'
  <1>1. /\ requests[r].state # 2 /\ q.state # 2 /\ q.outcome = requests[r].outcome
        /\ q.jsonp = requests[r].jsonp /\ q.transportOf = requests[r].transportOf
        /\ q.async = requests[r].async /\ (requests[r].installed => q.installed)
        /\ waiting' \subseteq waiting \cup {r} /\ (r \in waiting' => q.installed)
        /\ UNCHANGED oldCallbacks
        /\ \A x : ~InCallback(x) /\ ~InCallback(x)'
    BY DEF GoesOn
  <1>2. UNCHANGED <<ready, asked, images, perf, heading, overlap>>
    BY DEF page
  <1>3. RequestsInv
    BY DEF PageInv
  <1>4. /\ requests' \in Seq(Requests) /\ Len(requests') = Len(requests)
        /\ DOMAIN requests' = DOMAIN requests /\ requests'[r] = q
        /\ \A x \in DOMAIN requests : x # r => requests'[x] = requests[x]
    BY <1>3, OneChanges
  <1>5. requests[r].state < 2 /\ q.state < 2
    <2>1. requests[r] \in Requests
      BY <1>3, Domains
    <2>2. requests[r].state \in 0..2 /\ q.state \in 0..2
      BY <2>1 DEF Requests
    <2> QED
      BY <1>1, <2>2
  <1>6. \A x \in DOMAIN requests :
          /\ requests'[x].state < 2 <=> requests[x].state < 2
          /\ requests'[x].outcome = requests[x].outcome
          /\ requests'[x].jsonp = requests[x].jsonp /\ requests'[x].async = requests[x].async
          /\ requests'[x].transportOf = requests[x].transportOf
          /\ requests[x].installed => requests'[x].installed
    BY <1>1, <1>4, <1>5
  <1>7. waiting' \subseteq DOMAIN requests' /\ \A x \in waiting' : requests'[x].installed
    BY <1>1, <1>3, <1>4, <1>6 DEF RequestsInv
  <1>8. RequestsInv'
    BY <1>1, <1>2, <1>3, <1>4, <1>6, <1>7 DEF RequestsInv, Pending
  <1>9. ImagesInv' /\ OverlapInv' /\ HeadingInv'
    BY <1>1, <1>4, <1>6, <1>8, NothingShown DEF Pending
  <1> QED
    BY <1>8, <1>9 DEF PageInv

\* done() comes next.
LEMMA DoneComesNext ==
  ASSUME NEW r \in Numbers, NEW how \in {"ok", "garbled", "failed", "error"},
         NEW s, OnlyCounts(s), agenda' = <<Do("done", r, how)>> \o s,
         r \in DOMAIN requests', how # "error" => requests'[r].installed
  PROVE  AgendaInv' /\ \A x : ~InCallback(x)'
  <1>1. PICK x \in Things : x = Do("done", r, how)
    BY DoFacts
  <1>2. x.op = "done" /\ x.r = r /\ x.how = how
    BY <1>1 DEF Do
  <1>3. FirstOK(x)'
    BY <1>2 DEF FirstOK, Pipeline
  <1> QED
    BY <1>1, <1>2, <1>3, FirstComesNext

LEMMA PageTransport ==
  ASSUME PageInv, Transport, UNCHANGED page
  PROVE  PageInv'
  <1>1. IsNext("transport") /\ UNCHANGED <<waiting, loading, window, oldCallbacks, acts, told, fate>>
    BY DEF Transport, net, names
  <1>2. PICK r : r = Todo.r
    OBVIOUS
  <1>3. /\ OnlyCounts(Rest) /\ r \in DOMAIN requests /\ requests[r] \in Requests /\ r \in Numbers
        /\ requests[r].state = 0 /\ \A x : ~InCallback(x)
    BY <1>1, <1>2, NextOK DEF FirstOK, Pipeline
  <1>4. requests[r].transportOf = "xhr" /\ requests \in Seq(Requests) /\ waiting \subseteq DOMAIN requests
    BY <1>3 DEF PageInv, RequestsInv
  <1>5. CASE requests[r].beforeSend /\ (requests[r].refused \/ requests[r].state = 2)
    <2>1. agenda' = <<Do("done", r, "error")>> \o Rest /\ UNCHANGED requests
      BY <1>2, <1>5, Zenon DEF Transport
    <2>2. AgendaInv' /\ \A x : ~InCallback(x)'
      BY <1>3, <2>1, DoneComesNext
    <2>3. requests' = [requests EXCEPT ![r] = requests[r]]
      <3>1. requests \in [1..Len(requests) -> Requests]
        BY <1>4, LenProperties
      <3> QED
        BY <1>3, <2>1, <3>1
    <2>4. \A x \in waiting : requests[x].installed
      BY DEF PageInv, RequestsInv
    <2>5. GoesOn(r, requests[r])
      BY <1>1, <1>3, <1>4, <2>2, <2>4 DEF GoesOn
    <2> QED
      BY <1>3, <2>2, <2>3, <2>5, OnTheWay
  <1>6. CASE ~(requests[r].beforeSend /\ (requests[r].refused \/ requests[r].state = 2))
    <2> DEFINE mid == [requests[r] EXCEPT !.installed = TRUE]
               new == [mid EXCEPT !.transport = TRUE]
    <2>1. requests[r].state # 2 /\ requests[r].transportOf # "none"
      BY <1>3, <1>4
    <2>2. /\ mid \in Requests /\ mid.state = 0 /\ mid.outcome = requests[r].outcome
          /\ mid.jsonp = requests[r].jsonp /\ mid.transportOf = requests[r].transportOf
          /\ mid.async = requests[r].async /\ mid.installed
      BY <1>3 DEF Requests
    <2>3. requests' = [requests EXCEPT ![r] = new]
      <3>1. requests' = [requests EXCEPT ![r].installed = TRUE,
                                         ![r].transport = requests[r].transportOf # "none"]
        BY <1>2, <1>6, <2>1, ZenonT(30) DEF Transport
      <3>2. new = [requests[r] EXCEPT !.installed = TRUE, !.transport = TRUE]
        BY <1>3 DEF Requests
      <3> QED
        BY <1>3, <1>4, <3>1, <3>2
    <2>4. agenda' = <<Thing("send", r)>> \o Rest
      <3>1. agenda' = Install(r) \o ((IF requests[r].fires THEN Fire("ajaxSend", r) ELSE <<>>)
                                     \o <<Thing("send", r)>>) \o Rest
        BY <1>2, <1>6, <2>1, ZenonT(30) DEF Transport, Thing
      <3>2. Fire("ajaxSend", r) = <<>> /\ Install(r) = <<>>
        <4>1. requests[r].outcome = "pending"
          BY <1>3 DEF PageInv, RequestsInv, Pending
        <4> QED
          BY <4>1, OnlySuccess DEF Install
      <3>3. PICK x \in Things : x = Thing("send", r)
        BY <1>3, ThingFacts DEF Pipeline
      <3>4. <<>> \o <<x>> = <<x>>
        OBVIOUS
      <3> QED
        BY <3>1, <3>2, <3>3, <3>4
    <2> HIDE DEF mid
    <2>5. /\ new \in Requests /\ new.state = 0 /\ new.outcome = requests[r].outcome
          /\ new.jsonp = requests[r].jsonp /\ new.transportOf = requests[r].transportOf
          /\ new.async = requests[r].async /\ new.installed
      BY <2>2 DEF Requests
    <2> HIDE DEF new
    <2>6. PICK x \in Things : x = Thing("send", r) /\ x.op = "send" /\ x.r = r
      BY <1>3, ThingFacts DEF Pipeline
    <2>7. r \in DOMAIN requests' /\ requests'[r] = new
      BY <1>3, <2>3, <2>5, OneChanges DEF PageInv
    <2>8. FirstOK(x)'
      BY <2>5, <2>6, <2>7 DEF FirstOK, Pipeline
    <2>9. AgendaInv' /\ \A y : ~InCallback(y)'
      BY <1>3, <2>4, <2>6, <2>8, FirstComesNext
    <2>10. GoesOn(r, new)
      BY <1>1, <1>3, <2>5, <2>9 DEF GoesOn
    <2> QED
      BY <1>3, <2>3, <2>5, <2>9, <2>10, OnTheWay
  <1> QED
    BY <1>5, <1>6

LEMMA PageSend ==
  ASSUME PageInv, Send, UNCHANGED page
  PROVE  PageInv'
  <1>1. IsNext("send") /\ UNCHANGED <<active, window, oldCallbacks, acts, told>>
    BY DEF Send, names
  <1>2. PICK r : r = Todo.r
    OBVIOUS
  <1>3. /\ OnlyCounts(Rest) /\ r \in DOMAIN requests /\ requests[r] \in Requests /\ r \in Numbers
        /\ requests[r].state = 0 /\ requests[r].installed /\ \A x : ~InCallback(x)
    BY <1>1, <1>2, NextOK DEF FirstOK, Pipeline
  <1>4. requests[r].transportOf = "xhr" /\ requests[r].async /\ waiting \subseteq DOMAIN requests
    BY <1>3 DEF PageInv, RequestsInv
  <1> DEFINE q == requests[r]
             mid == [q EXCEPT !.state = 1]
             new == [q EXCEPT !.state = 1, !.timer = (q.timeout /\ q.async)]
  <1>5. requests' = [requests EXCEPT ![r] = new]
    BY <1>2 DEF Send
  <1>6. /\ new \in Requests /\ new.state = 1 /\ new.outcome = requests[r].outcome
        /\ new.jsonp = requests[r].jsonp /\ new.transportOf = requests[r].transportOf
        /\ new.async = requests[r].async /\ new.installed
    <2>1. PICK timer \in BOOLEAN : timer = (q.timeout /\ q.async)
      OBVIOUS
    <2>2. new = [mid EXCEPT !.timer = timer]
      BY <1>3, <2>1 DEF Requests
    <2>3. /\ mid \in Requests /\ mid.state = 1 /\ mid.outcome = requests[r].outcome
          /\ mid.jsonp = requests[r].jsonp /\ mid.transportOf = requests[r].transportOf
          /\ mid.async = requests[r].async /\ mid.installed
      BY <1>3 DEF Requests
    <2> HIDE DEF new, mid
    <2> QED
      BY <2>2, <2>3 DEF Requests
  <1>7. \/ agenda' = <<Do("done", r, "error")>> \o Rest /\ waiting' = waiting
        \/ agenda' = Rest /\ waiting' = waiting \cup {r}
    <2>1. \/ agenda' = <<Do("done", r, "error")>> \o Rest /\ waiting' = waiting
          \/ agenda' = <<>> \o Rest /\ waiting' = waiting \cup {r}
      BY <1>2, <1>4, ZenonT(60) DEF Send
    <2>2. <<>> \o Rest = Rest
      BY <1>3 DEF OnlyCounts
    <2> QED
      BY <2>1, <2>2
  <1> HIDE DEF new
  <1>8. AgendaInv' /\ \A x : ~InCallback(x)'
    <2>1. r \in DOMAIN requests'
      BY <1>3, <1>5, <1>6, OneChanges DEF PageInv
    <2> QED
      BY <1>3, <1>7, <2>1, DoneComesNext, CountsRemain
  <1>9. waiting' \subseteq waiting \cup {r} /\ (r \in waiting' => new.installed)
    BY <1>6, <1>7
  <1>10. GoesOn(r, new)
    BY <1>1, <1>3, <1>6, <1>8, <1>9 DEF GoesOn
  <1> QED
    BY <1>3, <1>5, <1>6, <1>8, <1>10, OnTheWay


\* The requests stay as they are.
LEMMA OnlyAgenda ==
  ASSUME PageInv, UNCHANGED page, UNCHANGED <<requests, oldCallbacks>>,
         waiting' \subseteq waiting, AgendaInv',
         \A x : InCallback(x)' <=> InCallback(x)
  PROVE  PageInv'
  <1>1. UNCHANGED <<ready, asked, images, perf, heading, overlap>>
    BY DEF page
  <1>2. RequestsInv
    BY DEF PageInv
  <1>3. waiting' \subseteq DOMAIN requests' /\ \A x \in waiting' : requests'[x].installed
    BY <1>2 DEF RequestsInv
  <1>4. RequestsInv'
    BY <1>1, <1>2, <1>3 DEF RequestsInv, Pending
  <1>5. ImagesInv' /\ OverlapInv' /\ HeadingInv'
    BY <1>4, NothingShown DEF Pending
  <1> QED
    BY <1>4, <1>5 DEF PageInv

LEMMA PageCount ==
  ASSUME PageInv, Count, UNCHANGED page
  PROVE  PageInv'
  <1>1. IsNext("count") /\ UNCHANGED <<requests, waiting, loading, window, oldCallbacks>>
    BY DEF Count, net, names
  <1>2. OnlyCounts(Rest) /\ \A x : ~InCallback(x)
    BY <1>1, NextOK
  <1>3. agenda' = Rest
    <2>1. Fire("ajaxStop", Todo.r) = <<>>
      BY OnlySuccess
    <2>2. <<>> \o Rest = Rest
      BY <1>2 DEF OnlyCounts
    <2> QED
      BY <2>1, <2>2 DEF Count
  <1>4. AgendaInv' /\ \A x : ~InCallback(x)'
    BY <1>2, <1>3, CountsRemain
  <1>5. \A x : InCallback(x)' <=> InCallback(x)
    BY <1>2, <1>4
  <1> QED
    BY <1>1, <1>4, <1>5, OnlyAgenda

LEMMA PageFire ==
  ASSUME PageInv, FireHandler, UNCHANGED page
  PROVE  PageInv'
  <1>1. IsNext("fire") /\ UNCHANGED <<requests, waiting, loading, window, oldCallbacks>>
        /\ UNCHANGED images
    BY DEF FireHandler, net, names, page
  <1>2. agenda # <<>> /\ OnlyCounts(Rest) /\ FirstOK(Todo) /\ Todo \in Things /\ Todo.op = "fire"
    BY <1>1, NextOK
  <1>3. PICK x : x = [Todo EXCEPT !.op = "user"]
    OBVIOUS
  <1>4. x \in Things /\ x.op = "user" /\ x.r = Todo.r /\ x.how = Todo.how
    BY <1>2, <1>3, ZenonT(30) DEF Things
  <1>5. FirstOK(x)'
    BY <1>1, <1>2, <1>4 DEF FirstOK, Pipeline
  <1>6. agenda' = <<x>> \o Rest
    BY <1>3 DEF FireHandler
  <1>7. AgendaInv' /\ \A y : InCallback(y)' <=> x.op \in {"fire", "user"} /\ x.r = y
    BY <1>2, <1>4, <1>5, <1>6, FirstComesNext
  <1>8. \A y : InCallback(y)' <=> InCallback(y)
    BY <1>2, <1>4, <1>7 DEF InCallback
  <1> QED
    BY <1>1, <1>7, <1>8, OnlyAgenda

LEMMA PageAnswer ==
  ASSUME PageInv, NEW how \in {"ok", "error"}, AnswerWith(how), UNCHANGED page
  PROVE  PageInv'
  <1>1. agenda = <<>> /\ UNCHANGED <<requests, loading, window, oldCallbacks>>
    BY DEF AnswerWith, names, Idle
  <1>2. PICK r \in waiting : waiting' = waiting \ {r} /\ agenda' = <<Do("done", r, how)>>
    BY DEF AnswerWith
  <1>3. r \in DOMAIN requests /\ requests[r].installed /\ r \in Numbers
    BY Domains DEF PageInv, RequestsInv
  <1>4. agenda' = <<Do("done", r, how)>> \o <<>>
    <2>1. PICK d \in Things : d = Do("done", r, how)
      BY <1>3, DoFacts
    <2>2. <<d>> = <<d>> \o <<>>
      OBVIOUS
    <2> QED
      BY <1>2, <2>1, <2>2
  <1>5. AgendaInv' /\ \A x : ~InCallback(x)'
    BY <1>1, <1>3, <1>4, EmptyCounts, DoneComesNext
  <1>6. \A x : InCallback(x)' <=> InCallback(x)
    BY <1>1, <1>5 DEF InCallback
  <1> QED
    BY <1>1, <1>2, <1>5, <1>6, OnlyAgenda

\* Nothing of jsonp is to be cleaned up.
LEMMA NoCleanUp == PageInv => ~CleanUp
  <1> SUFFICES ASSUME PageInv, CleanUp PROVE FALSE
    OBVIOUS
  <1>1. IsNext("cleanup")
    BY DEF CleanUp
  <1>2. FirstOK(Todo) /\ Todo.op = "cleanup"
    BY <1>1, NextOK
  <1> QED
    BY <1>2 DEF FirstOK, Pipeline

--------------------------------------------------------------------------------
(* A request ends                                                          *)

\* Request r, which is q afterwards, is over.
IsOver(r, q) ==
  /\ requests[r].state # 2 /\ q.state = 2 /\ q.outcome \in {"success", "error"}
  /\ q.jsonp = requests[r].jsonp /\ q.transportOf = requests[r].transportOf
  /\ q.async = requests[r].async /\ q.installed = requests[r].installed
  /\ \A x : ~InCallback(x) /\ (InCallback(x)' <=> x = r /\ q.outcome = "success")

LEMMA PageEnds ==
  ASSUME PageInv, UNCHANGED page, UNCHANGED <<waiting, oldCallbacks>>,
         NEW r \in DOMAIN requests,
         NEW q \in Requests, requests' = [requests EXCEPT ![r] = q],
         IsOver(r, q), AgendaInv'
  PROVE  PageInv'
  <1>1. /\ requests[r].state # 2 /\ q.state = 2 /\ q.outcome \in {"success", "error"}
        /\ q.jsonp = requests[r].jsonp /\ q.transportOf = requests[r].transportOf
        /\ q.async = requests[r].async /\ q.installed = requests[r].installed
        /\ \A x : ~InCallback(x)
        /\ \A x : InCallback(x)' <=> x = r /\ q.outcome = "success"
    BY DEF IsOver
  <1>2. UNCHANGED <<ready, asked, images, perf, heading, overlap>>
    BY DEF page
  <1>3. RequestsInv
    BY DEF PageInv
  <1>4. /\ requests' \in Seq(Requests) /\ Len(requests') = Len(requests)
        /\ DOMAIN requests' = DOMAIN requests /\ requests'[r] = q
        /\ \A x \in DOMAIN requests : x # r => requests'[x] = requests[x]
    BY <1>3, OneChanges
  <1>5. Pending(r) /\ requests[r].outcome = "pending"
    <2>1. requests[r] \in Requests
      BY <1>3, Domains
    <2>2. requests[r].state \in 0..2
      BY <2>1 DEF Requests
    <2>3. Pending(r)
      BY <1>1, <2>2 DEF Pending
    <2> QED
      BY <1>3, <2>3 DEF RequestsInv
  <1>6. \A x \in DOMAIN requests :
          /\ Pending(x)' <=> Pending(x) /\ x # r
          /\ requests'[x].outcome = IF x = r THEN q.outcome ELSE requests[x].outcome
          /\ requests'[x].jsonp = requests[x].jsonp /\ requests'[x].async = requests[x].async
          /\ requests'[x].transportOf = requests[x].transportOf
          /\ requests'[x].installed = requests[x].installed
    BY <1>1, <1>4 DEF Pending
  <1>7. RequestsInv'
    <2>1. \A x \in DOMAIN requests' : (requests'[x].outcome = "pending") <=> Pending(x)'
      BY <1>1, <1>3, <1>4, <1>6 DEF RequestsInv
    <2> QED
      BY <1>2, <1>3, <1>4, <1>6, <2>1 DEF RequestsInv
  <1>8. Clearing' = Clearing /\ Clearing \subseteq DOMAIN requests
        /\ \A c : (Latest(c)' <=> Latest(c)) /\ Later(c)' = Later(c)
    BY <1>2, <1>3, Domains DEF Clearing, Latest, Later
  <1>9. \A x \in DOMAIN requests : InCallback(x)' => Pending(x)
    BY <1>1, <1>5
  <1>10. ImagesInv'
    <2>1. ImagesInv
      BY DEF PageInv
    <2>2. /\ images' \in Seq(DOMAIN requests') /\ IsInjective(images')
          /\ \A x \in Items(images') : x \in DOMAIN requests /\ ~Pending(x)'
      <3>1. Items(images) \subseteq DOMAIN requests
        BY <2>1, SeqIsSeq DEF ImagesInv
      <3> QED
        BY <1>2, <1>4, <1>6, <2>1, <3>1 DEF ImagesInv
    <2>3. ASSUME NEW c \in Clearing', Latest(c)', NEW x \in DOMAIN requests',
                 x < c, x \notin overlap'.last
          PROVE  ~Pending(x)' /\ x \notin Items(images') /\ ~InCallback(x)'
      <3>1. c \in Clearing /\ Latest(c) /\ x \in DOMAIN requests /\ x \notin overlap.last
        BY <1>2, <1>4, <1>8, <2>3
      <3>2. ~Pending(x) /\ x \notin Items(images)
        BY <2>1, <2>3, <3>1 DEF ImagesInv
      <3> QED
        BY <1>2, <1>6, <1>9, <3>1, <3>2
    <2> QED
      BY <2>2, <2>3 DEF ImagesInv
  <1>11. OverlapInv'
    BY <1>2, <1>4, <1>6, <1>9 DEF PageInv, OverlapInv
  <1>12. HeadingInv'
    <2> SUFFICES ASSUME ~overlap'.ever, NEW c \in Clearing', Latest(c)',
                        \A x \in Later(c)' : asked'[x] # "start"
                 PROVE  /\ Pending(c)' \/ InCallback(c)' =>
                             /\ Later(c)' = {} /\ perf' = Wait4 /\ images' = <<>>
                             /\ asked'[c] # "tags" => heading' = c
                        /\ ~(Pending(c)' \/ InCallback(c)') =>
                             /\ perf' = Wait4 <=> requests'[c].outcome # "success"
                             /\ Items(images') \subseteq {c}
                             /\ images' # <<>> /\ Later(c)' = {} => heading' = c
                             /\ images' = <<>> /\ requests'[c].outcome = "success"
                                  /\ asked'[c] = "search" => heading' = ErrorShown
      BY DEF HeadingInv
    <2>1. /\ ~overlap.ever /\ c \in Clearing /\ Latest(c) /\ c \in DOMAIN requests
          /\ \A x \in Later(c) : asked[x] # "start"
      BY <1>2, <1>8
    <2>2. /\ Pending(c) \/ InCallback(c) =>
               /\ Later(c) = {} /\ perf = Wait4 /\ images = <<>>
               /\ asked[c] # "tags" => heading = c
          /\ ~(Pending(c) \/ InCallback(c)) =>
               /\ perf = Wait4 <=> requests[c].outcome # "success"
               /\ Items(images) \subseteq {c}
               /\ images # <<>> /\ Later(c) = {} => heading = c
               /\ images = <<>> /\ requests[c].outcome = "success" /\ asked[c] = "search" =>
                    heading = ErrorShown
      BY <2>1 DEF PageInv, HeadingInv
    <2>3. Later(c)' = Later(c)
      BY <1>8
    <2>4. CASE Pending(c)' \/ InCallback(c)'
      <3>1. Pending(c)
        BY <1>6, <1>9, <2>1, <2>4
      <3> QED
        BY <1>2, <2>2, <2>3, <2>4, <3>1
    <2>5. CASE ~(Pending(c)' \/ InCallback(c)') /\ c # r
      <3>1. ~(Pending(c) \/ InCallback(c)) /\ requests'[c].outcome = requests[c].outcome
        BY <1>1, <1>6, <2>1, <2>5
      <3> QED
        BY <1>2, <2>2, <2>3, <2>5, <3>1
    <2>6. CASE ~(Pending(c)' \/ InCallback(c)') /\ c = r
      <3>1. requests'[c].outcome = "error"
        BY <1>1, <1>4, <2>6
      <3>2. Items(images) = {} /\ images = <<>> /\ perf = Wait4
        BY <1>5, <2>2, <2>6, ShortIsSeq
      <3> QED
        BY <1>2, <2>6, <3>1, <3>2
    <2> QED
      BY <2>4, <2>5, <2>6
  <1> QED
    BY <1>7, <1>10, <1>11, <1>12 DEF PageInv


\* What done() puts on the agenda of the page: its callback, if the request succeeded.
CallbackThenCounts(r, s, installed, fires, outcome, event) ==
  \E counts :
    /\ OnlyCounts(counts)
    /\ DoneThings(r, TRUE, FALSE, installed, fires, outcome, event) \o s =
         IF installed /\ outcome = "success" THEN <<Do("fire", r, "success")>> \o counts
         ELSE counts

LEMMA PageThings ==
  ASSUME NEW r \in Numbers, NEW s, OnlyCounts(s), NEW installed \in BOOLEAN, NEW fires \in BOOLEAN,
         NEW outcome \in {"success", "error"}, NEW event \in {"ajaxSuccess", "ajaxError"}
  PROVE  CallbackThenCounts(r, s, installed, fires, outcome, event)
  <1>1. /\ Fire("statusCode", r) = <<>> /\ Fire(event, r) = <<>> /\ Fire("complete", r) = <<>>
        /\ Fire("ajaxComplete", r) = <<>>
        /\ Fire(outcome, r) = IF outcome = "success" THEN <<Do("fire", r, "success")>> ELSE <<>>
    BY OnlySuccess
  <1>2. PICK x \in Things : x = Thing("count", r)
    BY ThingFacts
  <1>3. PICK f \in Things : f = Do("fire", r, "success")
    BY DoFacts
  <1>4. PICK first : first = IF installed /\ outcome = "success" THEN <<f>> ELSE <<>>
    OBVIOUS
  <1>5. PICK last : last = IF fires THEN <<x>> ELSE <<>>
    OBVIOUS
  <1>6. first \in Seq(Things) /\ last \in Seq(Things)
    <2>1. <<f>> \in Seq(Things) /\ <<x>> \in Seq(Things) /\ <<>> \in Seq(Things)
      OBVIOUS
    <2> QED
      BY <1>4, <1>5, <2>1
  <1>7. DoneThings(r, TRUE, FALSE, installed, fires, outcome, event) = first \o last
    <2>1. DoneThings(r, TRUE, FALSE, installed, fires, outcome, event) =
            (<<>> \o first \o <<>>) \o <<>> \o <<>> \o (IF fires THEN <<>> \o <<x>> ELSE <<>>)
      <3>1. (IF installed THEN Fire(outcome, r) ELSE <<>>) = first
        BY <1>1, <1>3, <1>4
      <3>2. /\ (IF fires THEN Fire(event, r) ELSE <<>>) = <<>>
            /\ (IF installed THEN Fire("complete", r) ELSE <<>>) = <<>>
        BY <1>1
      <3>3. DoneThings(r, TRUE, FALSE, installed, fires, outcome, event) =
              (<<>> \o (IF installed THEN Fire(outcome, r) ELSE <<>>) \o Fire("statusCode", r))
              \o (IF fires THEN Fire(event, r) ELSE <<>>)
              \o (IF installed THEN Fire("complete", r) ELSE <<>>)
              \o (IF fires THEN Fire("ajaxComplete", r) \o <<Thing("count", r)>> ELSE <<>>)
        BY ZenonT(30) DEF DoneThings, Thing
      <3> QED
        BY <1>1, <1>2, <3>1, <3>2, <3>3
    <2>2. <<>> \o first = first /\ first \o <<>> = first /\ <<>> \o <<x>> = <<x>>
      BY <1>6
    <2> QED
      BY <1>5, <2>1, <2>2
  <1>8. PICK counts : counts = last \o s
    OBVIOUS
  <1>9. s \in Seq(Things)
    BY DEF OnlyCounts
  <1>10. OnlyCounts(counts)
    <2>1. CASE fires
      <3>1. OnlyCounts(<<x>> \o s)
        BY <1>2, MoreCounts
      <3> QED
        BY <1>5, <1>8, <2>1, <3>1
    <2>2. CASE ~fires
      <3>1. <<>> \o s = s
        BY <1>9
      <3> QED
        BY <1>5, <1>8, <2>2, <3>1
    <2> QED
      BY <2>1, <2>2
  <1>11. (first \o last) \o s = first \o counts
    <2>1. IsSeq(first) /\ IsSeq(last) /\ IsSeq(s)
      BY <1>9, <1>6, SeqIsSeq
    <2> QED
      BY <1>8, <2>1, ConcatAssoc
  <1>12. first \o counts = IF installed /\ outcome = "success" THEN <<f>> \o counts ELSE counts
    <2>1. <<>> \o counts = counts
      BY <1>10 DEF OnlyCounts
    <2> QED
      BY <1>4, <2>1
  <1> QED
    BY <1>3, <1>7, <1>10, <1>11, <1>12 DEF CallbackThenCounts

LEMMA PageDone ==
  ASSUME PageInv, Done, UNCHANGED page
  PROVE  PageInv'
  <1>1. IsNext("done") /\ UNCHANGED <<active, waiting, loading, window, oldCallbacks, acts, told, fate>>
    BY DEF Done, net, names
  <1>2. PICK r : r = Todo.r
    OBVIOUS
  <1>3. /\ OnlyCounts(Rest) /\ r \in DOMAIN requests /\ requests[r] \in Requests /\ r \in Numbers
        /\ (Todo.how # "error" => requests[r].installed) /\ \A x : ~InCallback(x)
    BY <1>1, <1>2, NextOK DEF FirstOK, Pipeline
  <1>4. CASE requests[r].state = 2
    <2>1. agenda' = Rest /\ UNCHANGED requests
      BY <1>2, <1>4 DEF Done
    <2>2. AgendaInv' /\ \A x : ~InCallback(x)'
      BY <1>3, <2>1, CountsRemain
    <2>3. \A x : InCallback(x)' <=> InCallback(x)
      BY <1>3, <2>2
    <2> QED
      BY <1>1, <2>1, <2>2, <2>3, OnlyAgenda
  <1>5. CASE requests[r].state # 2
    <2> PICK q : q = requests[r]
      OBVIOUS
    <2>1. PICK success \in BOOLEAN : success <=> Succeeds(r, Todo.how)
      OBVIOUS
    <2>2. success => q.installed
      BY <1>3, <2>1 DEF Succeeds
    <2>3. PICK outcome \in {"success", "error"} : outcome = IF success THEN "success" ELSE "error"
      OBVIOUS
    <2>4. PICK event \in {"ajaxSuccess", "ajaxError"} :
            event = IF success THEN "ajaxSuccess" ELSE "ajaxError"
      OBVIOUS
    <2>5. q \in Requests /\ q.outcome = "pending" /\ ~q.jsonp
      <3>1. q.state \in 0..2
        BY <1>3 DEF Requests
      <3>2. Pending(r)
        BY <1>5, <3>1 DEF Pending
      <3> QED
        BY <1>3, <3>2 DEF PageInv, RequestsInv
    <2>6. requests' = [requests EXCEPT ![r].state = 2, ![r].timer = FALSE, ![r].transport = FALSE,
                                       ![r].outcome = outcome]
      <3>1. requests' = [Converted(r, Todo.how) EXCEPT
                   ![r].state = 2, ![r].timer = FALSE, ![r].transport = FALSE,
                   ![r].outcome = IF q.outcome = "pending" THEN outcome ELSE @]
        BY <1>2, <1>5, <2>1, <2>3 DEF Done
      <3>2. Converted(r, Todo.how) = requests
        BY <2>5 DEF Converted
      <3>3. PICK ends : ends = IF q.outcome = "pending" THEN outcome ELSE q.outcome
        OBVIOUS
      <3>4. requests \in [1..Len(requests) -> Requests] /\ r \in 1..Len(requests)
        BY <1>3, LenProperties DEF PageInv, RequestsInv
      <3>5. requests' = [requests EXCEPT ![r].state = 2, ![r].timer = FALSE, ![r].transport = FALSE,
                                         ![r].outcome = ends]
        BY <3>1, <3>2, <3>3, <3>4
      <3>6. ends = outcome
        BY <2>5, <3>3
      <3> QED
        BY <3>5, <3>6
    <2>7. agenda' = DoneThings(r, TRUE, FALSE, q.installed, q.fires, outcome, event) \o Rest
      <3>1. PICK first \in BOOLEAN : first <=> q.outcome = "pending"
        OBVIOUS
      <3>2. agenda' = DoneThings(r, first, q.jsonp, q.installed, q.fires, outcome, event) \o Rest
        BY <1>2, <1>5, <2>1, <2>3, <2>4, <3>1 DEF Done, DoneThings
      <3>3. first = TRUE
        BY <2>5, <3>1
      <3>4. q.jsonp = FALSE
        BY <2>5 DEF Requests
      <3> QED
        BY <3>2, <3>3, <3>4
    <2> DEFINE q0 == [q EXCEPT !.state = 2]
               q1 == [q0 EXCEPT !.timer = FALSE]
               q2 == [q1 EXCEPT !.transport = FALSE]
               new == [q2 EXCEPT !.outcome = outcome]
    <2>8. requests' = [requests EXCEPT ![r] = new]
      <3>1. new = [q EXCEPT !.state = 2, !.timer = FALSE, !.transport = FALSE,
                            !.outcome = outcome]
        BY <2>5 DEF Requests
      <3>2. requests \in [1..Len(requests) -> Requests] /\ r \in 1..Len(requests)
        BY <1>3, LenProperties DEF PageInv, RequestsInv
      <3> HIDE DEF new
      <3> QED
        BY <2>6, <3>1, <3>2
    <2>9. /\ q0 \in Requests /\ q0.state = 2 /\ q0.jsonp = q.jsonp /\ q0.transportOf = q.transportOf
          /\ q0.async = q.async /\ q0.installed = q.installed
      BY <2>5 DEF Requests
    <2> HIDE DEF q0
    <2>10. /\ q1 \in Requests /\ q1.state = 2 /\ q1.jsonp = q.jsonp /\ q1.transportOf = q.transportOf
           /\ q1.async = q.async /\ q1.installed = q.installed
      BY <2>9 DEF Requests
    <2> HIDE DEF q1
    <2>11. /\ q2 \in Requests /\ q2.state = 2 /\ q2.jsonp = q.jsonp /\ q2.transportOf = q.transportOf
           /\ q2.async = q.async /\ q2.installed = q.installed
      <3>1. q.container \in 0..MaxRequests
        BY <2>5 DEF Requests
      <3> QED
        BY <2>10, <3>1 DEF Requests
    <2> HIDE DEF q2
    <2>12. /\ new \in Requests /\ new.state = 2 /\ new.jsonp = q.jsonp
           /\ new.transportOf = q.transportOf /\ new.outcome = outcome
           /\ new.async = q.async /\ new.installed = q.installed
      BY <2>11 DEF Requests
    <2> HIDE DEF new
    <2>13. /\ Len(requests') = Len(requests)
           /\ DOMAIN requests' = DOMAIN requests /\ requests'[r] = new
      BY <1>3, <2>8, <2>12, OneChanges DEF PageInv
    <2>14. q.installed \in BOOLEAN /\ q.fires \in BOOLEAN
      BY <2>5 DEF Requests
    <2>15. PICK installed \in BOOLEAN, fires \in BOOLEAN : installed = q.installed /\ fires = q.fires
      BY <2>14
    <2>16. CallbackThenCounts(r, Rest, installed, fires, outcome, event)
      BY <1>3, PageThings
    <2>17. PICK counts :
             /\ OnlyCounts(counts)
             /\ DoneThings(r, TRUE, FALSE, installed, fires, outcome, event) \o Rest =
                  IF installed /\ outcome = "success" THEN <<Do("fire", r, "success")>> \o counts
                  ELSE counts
      BY <2>16 DEF CallbackThenCounts
    <2>18. agenda' = IF outcome = "success" THEN <<Do("fire", r, "success")>> \o counts ELSE counts
      BY <2>2, <2>3, <2>7, <2>15, <2>17
    <2>19. CASE outcome = "success"
      <3>1. PICK x \in Things : x = Do("fire", r, "success")
        BY <1>3, DoFacts
      <3>2. x.op = "fire" /\ x.r = r /\ x.how = "success"
        BY <3>1 DEF Do
      <3>3. r \notin Items(images')
        <4>1. Pending(r)
          BY <1>3, <2>5 DEF PageInv, RequestsInv
        <4> QED
          BY <4>1 DEF PageInv, ImagesInv, page
      <3>4. FirstOK(x)'
        BY <1>3, <2>12, <2>13, <2>19, <3>2, <3>3 DEF FirstOK, Pipeline
      <3>5. AgendaInv' /\ \A y : InCallback(y)' <=> x.op \in {"fire", "user"} /\ x.r = y
        BY <2>17, <2>18, <2>19, <3>1, <3>4, FirstComesNext
      <3>6. IsOver(r, new)
        BY <1>3, <1>5, <2>12, <2>19, <3>2, <3>5 DEF IsOver
      <3> QED
        BY <1>1, <1>3, <2>8, <2>12, <3>5, <3>6, PageEnds
    <2>20. CASE outcome = "error"
      <3>1. AgendaInv' /\ \A y : ~InCallback(y)'
        BY <2>17, <2>18, <2>20, CountsRemain
      <3>2. IsOver(r, new)
        BY <1>3, <1>5, <2>12, <2>20, <3>1 DEF IsOver
      <3> QED
        BY <1>1, <1>3, <2>8, <2>12, <3>1, <3>2, PageEnds
    <2> QED
      BY <2>19, <2>20
  <1> QED
    BY <1>4, <1>5


--------------------------------------------------------------------------------
(* The page asks                                                           *)

\* The new request n.
NewRequest(n, what) ==
  /\ n = Len(requests) + 1 /\ n \in Nat /\ n \notin DOMAIN requests /\ Len(requests') = n
  /\ \A x \in DOMAIN requests : x < n
  /\ DOMAIN requests' = DOMAIN requests \cup {n} /\ DOMAIN asked' = DOMAIN asked \cup {n}
  /\ \A x \in DOMAIN requests : requests'[x] = requests[x] /\ asked'[x] = asked[x]
  /\ asked'[n] = what /\ requests'[n].state = 0
  /\ \A x : ~InCallback(x)'

\* The name that is free first.
LEMMA FirstName == RequestsInv => NameFor(Plain) = 1
  <1> SUFFICES ASSUME RequestsInv PROVE NameFor(Plain) = 1
    OBVIOUS
  <1>1. PICK others : others = {r \in DOMAIN requests : requests[r].jsonp /\ ~requests[r].reused
                                                        /\ ~requests[r].fixed}
    OBVIOUS
  <1>2. others = {}
    BY <1>1 DEF RequestsInv
  <1>3. NameFor(Plain) = IF Plain.fixed THEN 0 ELSE IF oldCallbacks # <<>> THEN Last(oldCallbacks)
                         ELSE 1 + Cardinality(others)
    BY <1>1 DEF NameFor
  <1>4. Cardinality({}) = 0
    BY FS_EmptySet
  <1>5. ~Plain.fixed /\ oldCallbacks = <<>>
    BY DEF Plain, RequestsInv
  <1> QED
    BY <1>4, <1>5, <1>2, <1>3

LEMMA PageAsks ==
  ASSUME PageInv, NEW what \in Kinds, NEW s, OnlyCounts(s), Ask(what, s)
  PROVE  RequestsInv' /\ AgendaInv' /\ \E n : NewRequest(n, what)
  <1>1. AjaxThen(Plain, s) /\ asked' = Append(asked, what)
    BY DEF Ask
  <1>2. RequestsInv
    BY DEF PageInv
  <1>3. PICK n : n = Len(requests) + 1
    OBVIOUS
  <1>4. /\ n <= MaxRequests /\ n \in Numbers /\ n \in Nat /\ n \notin DOMAIN requests
        /\ Len(requests) \in Nat /\ Len(requests) + 1 = n
        /\ DOMAIN requests = 1..Len(requests) /\ DOMAIN asked = 1..Len(requests)
        /\ \A x \in DOMAIN requests : x < n
    <2>1. n <= MaxRequests
      BY <1>1, <1>3 DEF AjaxThen
    <2>2. Len(requests) \in Nat /\ DOMAIN requests = 1..Len(requests) /\ DOMAIN asked = DOMAIN requests
      BY <1>2, Domains
    <2> QED
      BY <1>3, <2>1, <2>2, AjaxAssumption DEF Numbers
  <1> DEFINE new == [jsonp |-> FALSE, transportOf |-> "xhr", async |-> TRUE, timeout |-> FALSE,
                     beforeSend |-> FALSE, fixed |-> FALSE, reused |-> FALSE,
                     global |-> TRUE, name |-> 1, overwritten |-> 0, container |-> 0,
                     state |-> 0, fires |-> FALSE, refused |-> FALSE, installed |-> FALSE,
                     transport |-> FALSE, timer |-> FALSE, outcome |-> "pending"]
  <1>5. /\ requests' = Append(requests, new)
        /\ agenda' = Fire("prefilter", n) \o <<Do("begin", n, "")>> \o s
        /\ oldCallbacks' = oldCallbacks /\ waiting' = waiting
    <2>1. /\ Plain.type = "json" /\ ~Plain.crossDomain /\ Plain.async = TRUE /\ Plain.timeout = FALSE
          /\ Plain.fixed = FALSE /\ Plain.beforeSend = FALSE
      BY DEF Plain
    <2>2. TransportOf(Plain) = "xhr" /\ NameFor(Plain) = 1
      BY <1>2, <2>1, FirstName DEF TransportOf
    <2> QED
      BY <1>1, <1>3, <2>1, <2>2 DEF AjaxThen, net
  <1>6. /\ new \in Requests /\ new.state = 0 /\ new.outcome = "pending" /\ ~new.jsonp
        /\ new.transportOf = "xhr" /\ new.async
    <2>1. 0 \in 0..MaxRequests /\ 1 \in 0..MaxRequests /\ 0 \in 0..2
      BY <1>4, AjaxAssumption
    <2> QED
      BY <2>1 DEF Requests
  <1> HIDE DEF new
  <1>7. /\ requests' \in Seq(Requests) /\ Len(requests') = n
        /\ DOMAIN requests' = DOMAIN requests \cup {n}
        /\ requests'[n] = new
        /\ \A x \in DOMAIN requests : requests'[x] = requests[x]
    <2>1. requests \in Seq(Requests) /\ new \in Requests
      BY <1>2, <1>6 DEF RequestsInv
    <2>2. /\ Append(requests, new) \in Seq(Requests)
          /\ Len(Append(requests, new)) = Len(requests) + 1
          /\ \A i \in 1..Len(requests) : Append(requests, new)[i] = requests[i]
          /\ Append(requests, new)[Len(requests) + 1] = new
      BY <2>1, AppendProperties
    <2>3. DOMAIN requests' = 1..n
      BY <1>4, <1>5, <2>2, LenProperties
    <2>4. 1..n = (1..Len(requests)) \cup {n}
      BY <1>4
    <2> QED
      BY <1>4, <1>5, <2>2, <2>3, <2>4
  <1>8. /\ asked' \in Seq(Kinds) /\ Len(asked') = n
        /\ DOMAIN asked' = DOMAIN asked \cup {n}
        /\ asked'[n] = what
        /\ \A x \in DOMAIN requests : asked'[x] = asked[x]
    <2>1. asked \in Seq(Kinds) /\ Len(asked) = Len(requests)
      BY <1>2 DEF RequestsInv
    <2>2. /\ Append(asked, what) \in Seq(Kinds)
          /\ Len(Append(asked, what)) = Len(asked) + 1
          /\ \A i \in 1..Len(asked) : Append(asked, what)[i] = asked[i]
          /\ Append(asked, what)[Len(asked) + 1] = what
      BY <2>1, AppendProperties
    <2>3. DOMAIN asked' = 1..n
      BY <1>1, <1>4, <2>1, <2>2, LenProperties
    <2>4. 1..n = (1..Len(requests)) \cup {n}
      BY <1>4
    <2> QED
      BY <1>1, <1>4, <2>1, <2>2, <2>3, <2>4
  <1>9. RequestsInv'
    <2>1. \A x \in DOMAIN requests' :
            /\ ~requests'[x].jsonp /\ requests'[x].transportOf = "xhr" /\ requests'[x].async
            /\ requests'[x].outcome = "pending" <=> requests'[x].state < 2
      BY <1>2, <1>6, <1>7 DEF RequestsInv, Pending
    <2>2. waiting' \subseteq DOMAIN requests' /\ \A x \in waiting' : requests'[x].installed
      BY <1>2, <1>5, <1>7 DEF RequestsInv
    <2>3. oldCallbacks' = <<>>
      BY <1>2, <1>5 DEF RequestsInv
    <2> QED
      BY <1>4, <1>7, <1>8, <2>1, <2>2, <2>3 DEF RequestsInv, Pending
  <1>10. PICK x \in Things : x = Thing("begin", n) /\ x.op = "begin" /\ x.r = n
    BY <1>4, ThingFacts DEF Pipeline
  <1>11. agenda' = <<x>> \o s
    <2>1. agenda' = Fire("prefilter", n) \o <<Thing("begin", n)>> \o s
      BY <1>5, ZenonT(30) DEF Thing
    <2>2. Fire("prefilter", n) = <<>>
      BY OnlySuccess
    <2>3. <<>> \o <<x>> = <<x>>
      OBVIOUS
    <2> QED
      BY <1>10, <2>1, <2>2, <2>3
  <1>12. FirstOK(x)'
    BY <1>6, <1>7, <1>10 DEF FirstOK, Pipeline
  <1>13. AgendaInv' /\ \A y : ~InCallback(y)'
    BY <1>10, <1>11, <1>12, FirstComesNext
  <1>14. NewRequest(n, what)
    BY <1>3, <1>4, <1>6, <1>7, <1>8, <1>13 DEF NewRequest
  <1> QED
    BY <1>9, <1>13, <1>14

\* What the page does when it asks.
Clears(what) ==
  /\ what \in ClearingKinds /\ images' = <<>> /\ perf' = Wait4
  /\ what # "tags" => heading' = Len(requests) + 1
Keeps(what) ==
  /\ what \notin ClearingKinds /\ UNCHANGED <<images, perf, heading>> /\ agenda = <<>>

LEMMA AskStep ==
  ASSUME PageInv, NEW what \in Kinds, NEW s, OnlyCounts(s), Ask(what, s),
         Clears(what) \/ Keeps(what)
  PROVE  PageInv'
  <1>1. RequestsInv' /\ AgendaInv'
    BY PageAsks
  <1>2. PICK n : NewRequest(n, what)
    BY PageAsks
  <1>3. /\ n = Len(requests) + 1 /\ n \in Nat /\ n \notin DOMAIN requests /\ Len(requests') = n
        /\ \A x \in DOMAIN requests : x < n
        /\ DOMAIN requests' = DOMAIN requests \cup {n} /\ DOMAIN asked' = DOMAIN asked \cup {n}
        /\ \A x \in DOMAIN requests : requests'[x] = requests[x] /\ asked'[x] = asked[x]
        /\ asked'[n] = what /\ requests'[n].state = 0
        /\ \A x : ~InCallback(x)'
    BY <1>2 DEF NewRequest
  <1>4. PICK now : now = {r \in DOMAIN requests : Pending(r)}
    OBVIOUS
  <1>5. /\ overlap'.last = IF what \in ClearingKinds THEN now ELSE overlap.last
        /\ overlap'.ever <=> overlap.ever \/ now # {}
    BY <1>4 DEF Ask
  <1>6. /\ DOMAIN asked = DOMAIN requests /\ Clearing \subseteq DOMAIN requests
        /\ DOMAIN requests \subseteq Nat
    <2>1. DOMAIN requests = 1..Len(requests) /\ Len(requests) \in Nat
      BY Domains DEF PageInv
    <2> QED
      BY <2>1, Domains DEF PageInv
  <1>7. Pending(n)' /\ \A x \in DOMAIN requests : Pending(x)' <=> Pending(x)
    BY <1>3 DEF Pending
  <1>8. Clearing' = IF what \in ClearingKinds THEN Clearing \cup {n} ELSE Clearing
    BY <1>3, <1>6 DEF Clearing
  <1>9. OverlapInv'
    BY <1>3, <1>4, <1>5, <1>7 DEF OverlapInv
  <1>10. CASE Clears(what)
    <2>1. /\ what \in ClearingKinds /\ images' = <<>> /\ perf' = Wait4
          /\ what # "tags" => heading' = n
      BY <1>3, <1>10 DEF Clears
    <2>2. \A c \in Clearing' : Latest(c)' => c = n
      <3> SUFFICES ASSUME NEW c \in Clearing', Latest(c)' PROVE c = n
        OBVIOUS
      <3>1. n <= c
        BY <1>8, <2>1 DEF Latest
      <3>2. c = n \/ c < n
        BY <1>3, <1>6, <1>8
      <3> QED
        BY <1>3, <1>6, <1>8, <3>1, <3>2
    <2>3. Items(images') = {} /\ images' \in Seq(DOMAIN requests') /\ IsInjective(images')
      BY <2>1, ShortIsSeq, EmptySeq DEF IsInjective
    <2>4. ImagesInv'
      <3>1. ASSUME NEW r \in DOMAIN requests', r < n, r \notin overlap'.last
            PROVE  ~Pending(r)'
        <4>1. r \in DOMAIN requests
          BY <1>3, <3>1
        <4>2. r \notin now
          BY <1>5, <2>1, <3>1
        <4> QED
          BY <1>4, <1>7, <4>1, <4>2
      <3> QED
        BY <1>3, <2>2, <2>3, <3>1 DEF ImagesInv
    <2>5. Later(n)' = {}
      <3>1. \A x \in DOMAIN asked' : x <= n
        BY <1>3, <1>6
      <3> QED
        BY <1>3, <1>6, <3>1 DEF Later
    <2>6. HeadingInv'
      BY <1>3, <1>7, <2>1, <2>2, <2>5 DEF HeadingInv
    <2> QED
      BY <1>1, <1>9, <2>4, <2>6 DEF PageInv
  <1>11. CASE Keeps(what)
    <2>1. what \in {"start", "extract"} /\ UNCHANGED <<images, perf, heading>> /\ agenda = <<>>
          /\ what \notin ClearingKinds
      BY <1>11 DEF Keeps, Kinds
    <2>2. Clearing' = Clearing /\ \A c : Latest(c)' <=> Latest(c)
      BY <1>8, <2>1 DEF Latest
    <2>3. \A x : ~InCallback(x)
      BY <2>1 DEF InCallback
    <2>4. ImagesInv
      BY DEF PageInv
    <2>5. Items(images) \subseteq DOMAIN requests /\ IsSeq(images)
      BY <2>4, SeqIsSeq DEF ImagesInv
    <2>6. ImagesInv'
      <3>1. images' \in Seq(DOMAIN requests')
        BY <1>3, <2>1, <2>5, ItemsInSeq
      <3>2. \A r \in Items(images') : ~Pending(r)'
        BY <1>7, <2>1, <2>4, <2>5 DEF ImagesInv
      <3>3. ASSUME NEW c \in Clearing', Latest(c)', NEW r \in DOMAIN requests',
                   r < c, r \notin overlap'.last
            PROVE  ~Pending(r)' /\ r \notin Items(images') /\ ~InCallback(r)'
        <4>1. c \in Clearing /\ Latest(c) /\ r \notin overlap.last /\ c \in DOMAIN requests
          BY <1>5, <1>6, <2>1, <2>2, <3>3
        <4>2. r \in DOMAIN requests
          BY <1>3, <1>6, <3>3, <4>1
        <4>3. ~Pending(r) /\ r \notin Items(images)
          BY <2>4, <3>3, <4>1, <4>2 DEF ImagesInv
        <4> QED
          BY <1>3, <1>7, <2>1, <4>2, <4>3
      <3> QED
        BY <2>1, <2>4, <3>1, <3>2, <3>3 DEF ImagesInv
    <2>7. HeadingInv'
      <3> SUFFICES ASSUME ~overlap'.ever, NEW c \in Clearing', Latest(c)',
                          \A x \in Later(c)' : asked'[x] # "start"
                   PROVE  /\ ~(Pending(c)' \/ InCallback(c)')
                          /\ perf' = Wait4 <=> requests'[c].outcome # "success"
                          /\ Items(images') \subseteq {c}
                          /\ Later(c)' # {}
                          /\ images' = <<>> /\ requests'[c].outcome = "success"
                               /\ asked'[c] = "search" => heading' = ErrorShown
        BY DEF HeadingInv
      <3>1. c \in Clearing /\ Latest(c) /\ c \in DOMAIN requests
        BY <1>6, <2>2
      <3>2. n \in Later(c)'
        BY <1>3, <3>1 DEF Later
      <3>3. now = {} /\ ~overlap.ever
        BY <1>5
      <3>4. ~Pending(c) /\ ~InCallback(c)
        BY <1>4, <2>3, <3>1, <3>3
      <3>5. \A x \in Later(c) : asked[x] # "start"
        <4> SUFFICES ASSUME NEW x \in Later(c) PROVE asked[x] # "start"
          OBVIOUS
        <4>1. x \in DOMAIN asked /\ x > c
          BY DEF Later
        <4>2. x \in Later(c)'
          BY <1>3, <4>1 DEF Later
        <4> QED
          BY <1>3, <1>6, <4>1, <4>2
      <3>6. /\ perf = Wait4 <=> requests[c].outcome # "success"
            /\ Items(images) \subseteq {c}
            /\ images = <<>> /\ requests[c].outcome = "success" /\ asked[c] = "search" =>
                 heading = ErrorShown
        BY <3>1, <3>3, <3>4, <3>5 DEF PageInv, HeadingInv
      <3> QED
        BY <1>3, <1>7, <2>1, <3>1, <3>2, <3>4, <3>6
    <2> QED
      BY <1>1, <1>9, <2>6, <2>7 DEF PageInv
  <1> QED
    BY <1>10, <1>11


--------------------------------------------------------------------------------
(* The page is answered                                                    *)

\* What the callback for request r shows.
Shows(r) ==
  \/ asked[r] = "start"
  \/ asked[r] = "tags" /\ perf' = r /\ heading' = r
  \/ asked[r] = "search" /\ perf' = r
       /\ \/ images' = <<r>> \o images /\ UNCHANGED heading
          \/ heading' = ErrorShown /\ UNCHANGED images
  \/ asked[r] = "url" /\ perf' = r /\ UNCHANGED heading
  \/ asked[r] = "extract" /\ heading' = ErrorShown /\ UNCHANGED <<images, perf>>

LEMMA AnsweredStep ==
  ASSUME PageInv, IsNext("user"),
         UNCHANGED <<requests, waiting, oldCallbacks, asked, overlap>>,
         agenda' = Rest \/ agenda' = <<>>,
         images' = <<Todo.r>> \o images \/ images' = images,
         Shows(Todo.r)
  PROVE  PageInv'
  <1>1. PICK r : r = Todo.r
    OBVIOUS
  <1>2. agenda # <<>> /\ Todo.op = "user" /\ OnlyCounts(Rest) /\ r \in DOMAIN requests /\ FirstOK(Todo)
    BY <1>1, NextOK
  <1>3. requests[r].outcome = "success" /\ r \notin Items(images)
    BY <1>1, <1>2 DEF FirstOK, Pipeline
  <1>4. \A x : InCallback(x) <=> x = r
    BY <1>1, <1>2 DEF InCallback
  <1>5. RequestsInv /\ ImagesInv /\ OverlapInv /\ HeadingInv
    BY DEF PageInv
  <1>6. ~Pending(r)
    BY <1>2, <1>3, <1>5 DEF RequestsInv
  <1>7. RequestsInv'
    BY <1>5 DEF RequestsInv, Pending
  <1>8. AgendaInv' /\ \A x : ~InCallback(x)'
    BY <1>2, EmptyCounts, CountsRemain
  <1>9. Clearing' = Clearing /\ Clearing \subseteq DOMAIN requests
        /\ \A c : (Latest(c)' <=> Latest(c)) /\ Later(c)' = Later(c)
    BY <1>5, Domains DEF Clearing, Latest, Later
  <1>10. \A x : Pending(x)' <=> Pending(x)
    BY DEF Pending
  <1>11. /\ DOMAIN requests = 1..Len(requests) /\ Len(requests) \in Nat
         /\ DOMAIN asked = DOMAIN requests
    BY <1>5, Domains
  <1>12. /\ Items(images) \subseteq DOMAIN requests /\ IsSeq(images)
         /\ IsSeq(<<r>>) /\ Items(<<r>>) = {r} /\ Len(<<r>>) = 1 /\ <<r>>[1] = r
    BY <1>5, SeqIsSeq, ShortIsSeq DEF ImagesInv
  <1>13. PICK more : more = <<r>> \o images
    OBVIOUS
  <1>14. /\ IsSeq(more) /\ Items(more) = {r} \cup Items(images) /\ Len(more) = 1 + Len(images)
         /\ \A j \in 1..Len(more) : more[j] = IF j <= 1 THEN r ELSE images[j - 1]
    <2>1. /\ IsSeq(<<r>> \o images) /\ Items(<<r>> \o images) = Items(<<r>>) \cup Items(images)
          /\ Len(<<r>> \o images) = Len(<<r>>) + Len(images)
          /\ \A j \in 1..Len(<<r>> \o images) :
               (<<r>> \o images)[j] = IF j <= Len(<<r>>) THEN <<r>>[j] ELSE images[j - Len(<<r>>)]
      BY <1>12, ConcatIsSeq
    <2> QED
      BY <1>12, <1>13, <2>1
  <1>15. images' = more \/ images' = images
    BY <1>1, <1>13
  <1>16. IsSeq(images') /\ Items(images') \subseteq {r} \cup Items(images)
    BY <1>12, <1>14, <1>15
  <1>17. IsInjective(images')
    <2>1. CASE images' = images
      BY <1>5, <2>1 DEF ImagesInv
    <2>2. CASE images' = more
      <3>1. Len(images) \in Nat /\ DOMAIN images = 1..Len(images) /\ DOMAIN more = 1..Len(more)
        BY <1>12, <1>14, IsSeqFacts
      <3> SUFFICES ASSUME NEW i \in 1..Len(more), NEW j \in 1..Len(more), more[i] = more[j]
                   PROVE  i = j
        BY <2>2, <3>1 DEF IsInjective
      <3>2. \A k \in 1..Len(more) : k # 1 => /\ k - 1 \in 1..Len(images)
                                             /\ more[k] = images[k - 1] /\ more[k] \in Items(images)
        BY <1>14, <3>1 DEF Items
      <3>3. CASE i = 1 \/ j = 1
        BY <1>3, <1>14, <3>1, <3>2, <3>3
      <3>4. CASE i # 1 /\ j # 1
        <4>1. i - 1 \in DOMAIN images /\ j - 1 \in DOMAIN images /\ images[i - 1] = images[j - 1]
          BY <3>1, <3>2, <3>4
        <4>2. i - 1 = j - 1
          BY <1>5, <4>1 DEF ImagesInv, IsInjective
        <4> QED
          BY <1>14, <3>1, <4>2
      <3> QED
        BY <3>3, <3>4
    <2> QED
      BY <1>15, <2>1, <2>2
  <1>18. ImagesInv'
    <2>1. images' \in Seq(DOMAIN requests')
      BY <1>2, <1>12, <1>16, ItemsInSeq
    <2>2. \A x \in Items(images') : ~Pending(x)'
      BY <1>5, <1>6, <1>10, <1>16 DEF ImagesInv
    <2>3. ASSUME NEW c \in Clearing', Latest(c)', NEW x \in DOMAIN requests',
                 x < c, x \notin overlap'.last
          PROVE  ~Pending(x)' /\ x \notin Items(images') /\ ~InCallback(x)'
      <3>1. c \in Clearing /\ Latest(c) /\ x \in DOMAIN requests /\ x \notin overlap.last
        BY <1>9, <2>3
      <3>2. ~Pending(x) /\ x \notin Items(images) /\ ~InCallback(x)
        BY <1>5, <2>3, <3>1 DEF ImagesInv
      <3> QED
        BY <1>4, <1>8, <1>10, <1>16, <3>2
    <2> QED
      BY <1>17, <2>1, <2>2, <2>3 DEF ImagesInv
  <1>19. OverlapInv'
    BY <1>5, <1>8, <1>10 DEF OverlapInv
  <1>20. HeadingInv'
    <2> SUFFICES ASSUME ~overlap'.ever, NEW c \in Clearing', Latest(c)',
                        \A x \in Later(c)' : asked'[x] # "start"
                 PROVE  /\ ~(Pending(c)' \/ InCallback(c)')
                        /\ perf' = Wait4 <=> requests'[c].outcome # "success"
                        /\ Items(images') \subseteq {c}
                        /\ images' # <<>> /\ Later(c)' = {} => heading' = c
                        /\ images' = <<>> /\ requests'[c].outcome = "success"
                             /\ asked'[c] = "search" => heading' = ErrorShown
      BY DEF HeadingInv
    <2>1. c \in Clearing /\ Latest(c) /\ c \in DOMAIN requests /\ ~overlap.ever
          /\ \A x \in Later(c) : asked[x] # "start"
      BY <1>9
    <2>2. r = Len(requests) /\ \A x \in DOMAIN requests : ~Pending(x)
      <3>1. \A x \in DOMAIN requests : Pending(x) \/ InCallback(x) => x = Len(requests)
        BY <1>5, <2>1 DEF OverlapInv
      <3>2. r = Len(requests)
        BY <1>2, <1>4, <3>1
      <3> QED
        BY <1>6, <3>1, <3>2
    <2>3. /\ Pending(c) \/ InCallback(c) =>
               /\ Later(c) = {} /\ perf = Wait4 /\ images = <<>>
               /\ asked[c] # "tags" => heading = c
          /\ ~(Pending(c) \/ InCallback(c)) =>
               /\ perf = Wait4 <=> requests[c].outcome # "success"
               /\ Items(images) \subseteq {c}
               /\ images # <<>> /\ Later(c) = {} => heading = c
               /\ images = <<>> /\ requests[c].outcome = "success" /\ asked[c] = "search" =>
                    heading = ErrorShown
      BY <1>5, <2>1 DEF HeadingInv
    <2>4. ~(Pending(c)' \/ InCallback(c)')
      BY <1>8, <1>10, <2>1, <2>2
    <2>5. CASE c = r
      <3>1. /\ Later(c) = {} /\ images = <<>> /\ Items(images) = {}
            /\ asked[c] # "tags" => heading = c
        BY <1>4, <2>3, <2>5, ShortIsSeq
      <3>2. asked[r] \in {"tags", "search", "url"}
        BY <2>1, <2>5 DEF Clearing, ClearingKinds
      <3>3. perf' = r
        BY <1>1, <3>2 DEF Shows
      <3>4. perf' # Wait4
        BY <1>2, <1>11, <3>3 DEF Wait4
      <3>5. images' # <<>> => heading' = c
        BY <1>1, <2>5, <3>1, <3>2 DEF Shows
      <3>6. images' = <<>> /\ asked[c] = "search" => heading' = ErrorShown
        <4>1. more # <<>>
          BY <1>12, <1>14, IsSeqFacts
        <4> QED
          BY <1>1, <1>13, <2>5, <4>1 DEF Shows
      <3>7. Items(images') \subseteq {c}
        BY <1>16, <2>5, <3>1
      <3> QED
        BY <1>3, <2>4, <2>5, <3>4, <3>5, <3>6, <3>7
    <2>6. CASE c # r
      <3>1. r \in Later(c) /\ r > c
        BY <1>2, <1>11, <2>1, <2>2, <2>6 DEF Later
      <3>2. asked[r] # "start"
        BY <2>1, <3>1
      <3>3. r \notin Clearing
        <4>1. r \in Int /\ c \in Int
          BY <1>2, <1>11, <2>1
        <4>2. r \in Clearing => r <= c
          BY <2>1 DEF Latest
        <4> QED
          BY <3>1, <4>1, <4>2
      <3>4. asked[r] \notin {"tags", "search", "url"}
        BY <1>2, <1>11, <3>3 DEF Clearing, ClearingKinds
      <3>5. heading' = ErrorShown /\ UNCHANGED <<images, perf>>
        BY <1>1, <3>2, <3>4 DEF Shows
      <3>6. ~(Pending(c) \/ InCallback(c)) /\ Later(c)' # {}
        BY <1>4, <1>9, <2>1, <2>2, <2>6, <3>1
      <3> QED
        BY <2>3, <2>4, <3>5, <3>6
    <2> QED
      BY <2>5, <2>6
  <1> QED
    BY <1>7, <1>8, <1>18, <1>19, <1>20 DEF PageInv

LEMMA CallbackStep ==
  ASSUME PageInv, Callbacks
  PROVE  PageInv'
  <1>1. CASE StartAnswered
    BY <1>1, AnsweredStep DEF StartAnswered, Answered, Returns, Show, Shows, net, names
  <1>2. CASE TagsAnswered
    BY <1>2, AnsweredStep DEF TagsAnswered, Answered, Returns, FailsIn, Show, Shows, net, names
  <1>3. CASE SearchAnswered
    BY <1>3, AnsweredStep DEF SearchAnswered, Answered, Returns, Show, Shows, net, names
  <1>4. CASE UrlAnswered
    BY <1>4, AnsweredStep DEF UrlAnswered, Answered, Returns, FailsIn, Show, Shows, net, names
  <1>5. CASE ExtractAnswered
    <2>1. IsNext("user") /\ asked[Todo.r] = "extract"
      BY <1>5 DEF ExtractAnswered, Answered
    <2>2. CASE TagSearchDo(Rest)
      <3>1. Ask("tags", Rest) /\ perf' = Wait4 /\ images' = <<>>
        BY <2>2 DEF TagSearchDo
      <3>2. OnlyCounts(Rest)
        BY <2>1, NextOK
      <3>3. Clears("tags") /\ "tags" \in Kinds
        BY <3>1 DEF Clears, ClearingKinds, Kinds
      <3> QED
        BY <3>1, <3>2, <3>3, AskStep
    <2>3. CASE ~TagSearchDo(Rest)
      BY <1>5, <2>1, <2>3, AnsweredStep DEF ExtractAnswered, Returns, Shows, net, names
    <2> QED
      BY <2>2, <2>3
  <1> QED
    BY <1>1, <1>2, <1>3, <1>4, <1>5 DEF Callbacks

LEMMA PageInvStarts == PageInit => PageInv
  <1> SUFFICES ASSUME PageInit PROVE PageInv
    OBVIOUS
  <1>1. /\ requests = <<>> /\ waiting = {} /\ oldCallbacks = <<>> /\ agenda = <<>>
        /\ asked = <<>> /\ images = <<>> /\ ~overlap.ever
    BY DEF PageInit, Init
  <1>2. DOMAIN requests = {} /\ DOMAIN asked = {} /\ Len(requests) = 0 /\ Len(asked) = 0
    BY <1>1
  <1>3. Items(images) = {}
    BY <1>1, ShortIsSeq
  <1>4. RequestsInv
    <2>1. requests \in Seq(Requests) /\ asked \in Seq(Kinds)
      BY <1>1, EmptySeq
    <2> QED
      BY <1>1, <1>2, <2>1, AjaxAssumption DEF RequestsInv
  <1>5. AgendaInv
    BY <1>1, EmptySeq DEF AgendaInv
  <1>6. Clearing = {}
    BY <1>2 DEF Clearing
  <1>7. ImagesInv
    <2>1. images \in Seq(DOMAIN requests) /\ IsInjective(images)
      BY <1>1, EmptySeq DEF IsInjective
    <2> QED
      BY <1>3, <1>6, <2>1 DEF ImagesInv
  <1>8. OverlapInv /\ HeadingInv
    BY <1>2, <1>6 DEF OverlapInv, HeadingInv
  <1> QED
    BY <1>4, <1>5, <1>7, <1>8 DEF PageInv

LEMMA PageInvStep == PageInv /\ [PageNext]_pageVars => PageInv'
  <1> SUFFICES ASSUME PageInv, [PageNext]_pageVars PROVE PageInv'
    OBVIOUS
  <1>1. CASE Machine /\ UNCHANGED page
    BY <1>1, PageBegin, PageTransport, PageSend, PageDone, NoCleanUp, PageCount, PageFire DEF Machine
  <1>2. CASE Callbacks
    BY <1>2, CallbackStep
  <1>3. CASE DomReady
    <2>1. Ask("start", <<>>) /\ UNCHANGED <<images, perf, heading>> /\ agenda = <<>>
      BY <1>3 DEF DomReady, Idle
    <2>2. Keeps("start") /\ "start" \in Kinds
      BY <2>1 DEF Keeps, ClearingKinds, Kinds
    <2> QED
      BY <2>1, <2>2, EmptyCounts, AskStep
  <1>4. CASE Keypress
    <2>1. Ask("tags", <<>>) /\ perf' = Wait4 /\ images' = <<>>
      BY <1>4 DEF Keypress, TagSearchDo
    <2>2. Clears("tags") /\ "tags" \in Kinds
      BY <2>1 DEF Clears, ClearingKinds, Kinds
    <2> QED
      BY <2>1, <2>2, EmptyCounts, AskStep
  <1>5. ASSUME NEW what \in {"search", "url"}, SearchFor(what) PROVE PageInv'
    <2>1. Ask(what, <<>>) /\ perf' = Wait4 /\ images' = <<>> /\ heading' = Len(requests) + 1
      BY <1>5 DEF SearchFor
    <2>2. Clears(what) /\ what \in Kinds
      BY <2>1 DEF Clears, ClearingKinds, Kinds
    <2> QED
      BY <2>1, <2>2, EmptyCounts, AskStep
  <1>6. CASE Search \/ SearchUrl
    BY <1>5, <1>6 DEF Search, SearchUrl
  <1>7. CASE Extract
    <2>1. Ask("extract", <<>>) /\ UNCHANGED <<images, perf, heading>> /\ agenda = <<>>
      BY <1>7 DEF Extract, Idle
    <2>2. Keeps("extract") /\ "extract" \in Kinds
      BY <2>1 DEF Keeps, ClearingKinds, Kinds
    <2> QED
      BY <2>1, <2>2, EmptyCounts, AskStep
  <1>8. CASE ServerAnswers
    BY <1>8, PageAnswer DEF ServerAnswers
  <1>9. CASE (Wait /\ UNCHANGED page) \/ UNCHANGED pageVars
    BY <1>9, StutterKeepsPage DEF Wait, pageVars
  <1> QED
    BY <1>1, <1>2, <1>3, <1>4, <1>6, <1>7, <1>8, <1>9 DEF PageNext, PageProgram

--------------------------------------------------------------------------------
(* The theorems                                                            *)

LEMMA LastCleared ==
  ASSUME PageInv, Clearing # {}
  PROVE  LastOf(Clearing) \in Clearing /\ Latest(LastOf(Clearing))
  <1>1. Clearing \subseteq 1..Len(requests) /\ Len(requests) \in Nat
    BY Domains DEF PageInv
  <1> DEFINE R == {p \in Nat \X Nat : p[1] < p[2]}
  <1>2. IsFiniteSet(1..Len(requests))
    BY <1>1, FS_Interval
  <1>3. InLine(1..Len(requests), R)
    BY <1>1 DEF InLine
  <1>4. PICK c \in Clearing : \A x \in Clearing : x # c => <<x, c>> \in R
    <2> HIDE DEF R
    <2>1. PICK S : S = 1..Len(requests)
      OBVIOUS
    <2>2. IsFiniteSet(S) /\ InLine(S, R) /\ Clearing \in SUBSET S
      BY <1>1, <1>2, <1>3, <2>1
    <2>3. \A T \in SUBSET S : T # {} => \E x \in T : \A y \in T : y # x => <<y, x>> \in R
      BY <2>2, LastElement
    <2> QED
      BY <2>2, <2>3
  <1>5. ASSUME NEW x \in Clearing PROVE x <= c
    <2>1. x \in Nat /\ c \in Nat
      BY <1>1
    <2>2. x # c => <<x, c>> \in R
      BY <1>4
    <2>3. x # c => x < c
      BY <2>2
    <2> QED
      BY <2>1, <2>3
  <1> QED
    BY <1>5 DEF LastOf, Latest

LEMMA ItemsOf ==
  ASSUME NEW s, IsSeq(s)
  PROVE  ToSet(s) = Items(s) /\ \A i \in DOMAIN s : s[i] \in Items(s)
  BY IsSeqFacts DEF ToSet, Items

LEMMA RecentFollows == PageInv => ImagesRecent
  <1> SUFFICES ASSUME PageInv PROVE ImagesRecent
    OBVIOUS
  <1>1. ImagesInv
    BY DEF PageInv
  <1>2. IsSeq(images) /\ Items(images) \subseteq DOMAIN requests
    BY <1>1, SeqIsSeq DEF ImagesInv
  <1>3. ASSUME Clearing # {}, NEW c, c = LastOf(Clearing), NEW i \in DOMAIN images, images[i] < c
        PROVE  images[i] \in overlap.last
    <2>1. c \in Clearing /\ Latest(c)
      BY <1>3, LastCleared
    <2>2. images[i] \in Items(images) /\ images[i] \in DOMAIN requests
      BY <1>2, ItemsOf
    <2> QED
      BY <1>1, <1>3, <2>1, <2>2 DEF ImagesInv
  <1> QED
    BY <1>1, <1>3 DEF ImagesRecent, ImagesInv

LEMMA HeadingFollows == PageInv => HeadingTells
  <1> SUFFICES ASSUME PageInv, Idle, Clearing # {}, ~overlap.ever,
                      \A r \in DOMAIN requests : ~Pending(r),
                      NEW c, c = LastOf(Clearing), \A r \in Later(c) : asked[r] # "start"
               PROVE  /\ (perf = Wait4) = ~(requests[c].outcome = "success")
                      /\ ToSet(images) \subseteq {c}
                      /\ images # <<>> /\ Later(c) = {} => heading = c
                      /\ images = <<>> /\ requests[c].outcome = "success" /\ asked[c] = "search" =>
                           heading = ErrorShown
    BY DEF HeadingTells, Later
  <1>1. c \in Clearing /\ Latest(c)
    BY LastCleared
  <1>2. ~Pending(c) /\ ~InCallback(c)
    BY <1>1, Domains DEF PageInv, InCallback, Idle
  <1>3. /\ perf = Wait4 <=> requests[c].outcome # "success"
        /\ Items(images) \subseteq {c}
        /\ images # <<>> /\ Later(c) = {} => heading = c
        /\ images = <<>> /\ requests[c].outcome = "success" /\ asked[c] = "search" =>
             heading = ErrorShown
    BY <1>1, <1>2 DEF PageInv, HeadingInv
  <1>4. ToSet(images) = Items(images)
    BY SeqIsSeq, ItemsOf DEF PageInv, ImagesInv
  <1> QED
    BY <1>3, <1>4

LEMMA PageInvAlways == PageSpec => []PageInv
  BY PageInvStarts, PageInvStep, PTL DEF PageSpec

\* lire.html:121-151: whatever the order of the answers, no request shows its images
\* twice, and those of a request older than the last search are shown only if it was still
\* under way when that search was asked.
THEOREM OnlyRecentImages == PageSpec => []ImagesRecent
  BY PageInvAlways, RecentFollows, PTL

\* lire.html:19-32, 119-157: as long as no two requests overlapped, the heading, the images
\* and the line above them belong to the last search when its answer has come.
THEOREM HeadingIsRight == PageSpec => []HeadingTells
  BY PageInvAlways, HeadingFollows, PTL


===============================================================================
