---------------------------------- MODULE Ajax ----------------------------------
(***************************************************************************)
(* jQuery.ajax(): the way of a request from the prefilters to the last     *)
(* event, the two transports (XMLHttpRequest and the script element), the  *)
(* timeout, abort(), and the callback names of jsonp.  The user's code     *)
(* runs in handlers at "Places" and in tasks of the event loop; there it   *)
(* may begin and abort requests and throw.  "agenda" is as in module       *)
(* Deferred.                                                               *)
(***************************************************************************)
EXTENDS Integers, Sequences, FiniteSets, SequencesExt

CONSTANTS Options,     \* settings of requests, see the assumption
          Places,      \* where the user has handlers
          MaxRequests, \* bound on requests
          MaxActs,     \* bound on aborts and throws
          Cors         \* XMLHttpRequest can go to other domains

AllPlaces == <<"prefilter", "ajaxStart", "beforeSend", "ajaxSend", "success", "error",
               "statusCode", "ajaxSuccess", "ajaxError", "complete", "ajaxComplete", "ajaxStop">>

ASSUME AjaxAssumption ==
  /\ Options \subseteq [type : {"json", "jsonp"}, crossDomain : BOOLEAN, async : BOOLEAN,
                        timeout : BOOLEAN, beforeSend : BOOLEAN,
                        fixed : BOOLEAN]  \* jsonp with a callback name of the user's
  /\ Places \subseteq ToSet(AllPlaces)
  /\ MaxRequests \in Nat /\ MaxActs \in Nat /\ Cors \in BOOLEAN

VARIABLES
  requests,     \* all requests so far: their settings and the variables of their closure
  active,       \* jQuery.active
  waiting,      \* requests whose transport has a callback that may be called
  loading,      \* requests whose script element is being loaded
  window,       \* for each jsonp name the request whose function has it, or 0
  oldCallbacks, \* names that can be used again
  agenda, acts,
  told,         \* history: for each request the handlers called
  fate          \* history: requests hurt by a throw, aborted before they were sent, sent
                \* after they were over, and without a jsonp name to themselves

net == <<waiting, loading>>
names == <<window, oldCallbacks>>
vars == <<requests, active, net, names, agenda, acts, told, fate>>

Init ==
  /\ requests = <<>> /\ active = 0 /\ waiting = {} /\ loading = {}
  /\ window = [name \in 0..MaxRequests |-> 0] /\ oldCallbacks = <<>>
  /\ agenda = <<>> /\ acts = 0 /\ told = <<>>
  /\ fate = [thrown |-> {}, early |-> {}, interfered |-> {}, shared |-> {}]

Do(op, r, how) == [op |-> op, r |-> r, how |-> how]
Fire(place, r) == IF place \in Places THEN <<Do("fire", r, place)>> ELSE <<>>

Todo == Head(agenda)
Rest == Tail(agenda)
IsNext(op) == agenda # <<>> /\ Todo.op = op
Idle == agenda = <<>>

-------------------------------------------------------------------------------
(* Data types.  A list of them leads from the type of the response to the one *)
(* wanted.                                                                    *)

Types == {"text", "html", "xml", "json", "script"}

Converters(jsonp) ==
  <<<<"*", "text">>, <<"text", "html">>, <<"text", "json">>, <<"text", "xml">>, <<"text", "script">>>>
  \o IF jsonp THEN <<<<"script", "json">>>> ELSE <<>>

\* Text is html already (converter true).
Equivalence(c) == c = <<"text", "html">>

\* Mutant: the content type also counts when a type is asked for.
HandleResponsesByContent(types, ct) ==
  <<"text">> \o (IF ct \in Types \ {"text"} THEN <<ct>> ELSE SelectSeq(types, LAMBDA t : t # "*"))

\* ajaxHandleResponses(), where the response is text: "*" is replaced by what the
\* content type says, and text put in front.
HandleResponses(types, ct) ==
  LET start == SelectInSeq(types, LAMBDA t : t # "*")
      stripped == IF start = 0 THEN <<>> ELSE SubSeq(types, start, Len(types))
      list == IF types # <<>> /\ types[1] = "*" /\ ct \in Types \ {"text"} THEN <<ct>> \o stripped
              ELSE stripped
  IN IF list # <<>> /\ list[1] = "text" THEN list ELSE <<"text">> \o list

\* From one type to the next leads a converter, or else the first pair of them, unless
\* one of them throws ("bad").
ConvertTo(prev, current, convs, bad) ==
  LET has(c) == c \in ToSet(convs)
      from(t) == IF has(<<prev, t>>) THEN <<prev, t>> ELSE <<"*", t>>
      pairs == {i \in DOMAIN convs : convs[i][2] = current /\ has(from(convs[i][1]))}
      first == convs[CHOOSE i \in pairs : \A j \in pairs : i <= j]
      taken == IF has(from(current)) THEN {from(current)}
               ELSE {c \in {from(first[1]), first} : ~Equivalence(c)}
  IN IF prev = "parsererror" \/ current \in {"*", prev} THEN prev
     ELSE IF (~has(from(current)) /\ pairs = {}) \/ taken \cap bad # {} THEN "parsererror"
     ELSE current

\* ajaxConvert(): the type reached at the end of the list, or "parsererror".
Convert(start, types, convs, bad) ==
  LET reached[i \in 0..Len(types)] ==
        IF i = 0 THEN start ELSE ConvertTo(reached[i - 1], types[i], convs, bad)
  IN reached[Len(types)]

-------------------------------------------------------------------------------
(* A request begins.                                                          *)

\* The prefilters for jsonp and for scripts: a callback name, no global events for a
\* script of another domain.
NameFor(o) == IF o.fixed THEN 0
              ELSE IF oldCallbacks # <<>> THEN Last(oldCallbacks)
              ELSE 1 + Cardinality({r \in DOMAIN requests : requests[r].jsonp /\ ~requests[r].reused
                                                            /\ ~requests[r].fixed})

\* The first transport for the data types of the request that takes it.
TransportOf(o) ==
  IF ~o.crossDomain THEN "xhr"
  ELSE IF o.type = "jsonp" THEN "script"
  ELSE IF Cors THEN "xhr" ELSE "none"

\* The requests that are under way with a callback name.
Rivals(name) == {x \in DOMAIN requests : /\ requests[x].jsonp /\ requests[x].name = name
                                         /\ requests[x].state < 2 \/ x \in loading}

AjaxThen(o, rest) ==
  LET r == Len(requests) + 1
      jsonp == o.type = "jsonp"
      name == NameFor(o)
      rivals == IF jsonp THEN Rivals(name) ELSE {}
  IN /\ r <= MaxRequests
     /\ requests' = Append(requests,
          [jsonp |-> jsonp, transportOf |-> TransportOf(o), async |-> o.async, timeout |-> o.timeout,
           beforeSend |-> o.beforeSend, fixed |-> o.fixed, reused |-> jsonp /\ ~o.fixed /\ oldCallbacks # <<>>,
           global |-> ~(jsonp /\ o.crossDomain),
           name |-> name, overwritten |-> IF jsonp THEN window[name] ELSE 0, container |-> 0,
           state |-> 0, fires |-> FALSE, refused |-> FALSE, installed |-> FALSE,
           transport |-> FALSE, timer |-> FALSE, outcome |-> "pending"])
     /\ window' = IF jsonp THEN [window EXCEPT ![name] = r] ELSE window
     /\ oldCallbacks' = IF jsonp /\ ~o.fixed /\ oldCallbacks # <<>> THEN Front(oldCallbacks)
                        ELSE oldCallbacks
     /\ told' = Append(told, <<>>)
     /\ agenda' = Fire("prefilter", r) \o <<Do("begin", r, "")>> \o rest
     /\ fate' = [fate EXCEPT !.shared = IF rivals = {} THEN @ ELSE @ \cup rivals \cup {r}]
     /\ UNCHANGED <<active, net, acts>>

BeforeSend(r) == IF requests[r].beforeSend THEN Fire("beforeSend", r) ELSE <<>>

\* Mutant: requests without global events are counted too.
BeginAll ==
  /\ IsNext("begin")
  /\ LET r == Todo.r
     IN /\ requests[r].state < 2
        /\ requests' = [requests EXCEPT ![r].fires = requests[r].global]
        /\ active' = active + 1
        /\ agenda' = BeforeSend(r) \o <<Do("transport", r, "")>> \o Rest
  /\ UNCHANGED <<net, names, acts, told, fate>>

\* Unless it was aborted in a prefilter, the request counts as active from now on.
Begin ==
  /\ IsNext("begin")
  /\ LET r == Todo.r
     IN IF requests[r].state = 2 THEN agenda' = Rest /\ UNCHANGED <<requests, active>>
        ELSE /\ requests' = [requests EXCEPT ![r].fires = requests[r].global]
             /\ active' = IF requests[r].global THEN active + 1 ELSE active
             /\ agenda' = (IF requests[r].global /\ active = 0 THEN Fire("ajaxStart", r) ELSE <<>>)
                          \o BeforeSend(r) \o <<Do("transport", r, "")>> \o Rest
  /\ UNCHANGED <<net, names, acts, told, fate>>

\* Callbacks added to a request that is over already are called at once.
Install(r) == IF requests[r].outcome = "pending" THEN <<>>
              ELSE Fire(requests[r].outcome, r) \o Fire("complete", r)

\* Mutant: a request aborted in beforeSend goes on.
TransportAnyway ==
  /\ IsNext("transport")
  /\ LET r == Todo.r
         q == requests[r]
     IN IF q.refused \/ q.transportOf = "none"
        THEN agenda' = <<Do("done", r, "error")>> \o Rest /\ UNCHANGED requests
        ELSE /\ requests' = [requests EXCEPT ![r].installed = TRUE, ![r].transport = TRUE]
             /\ agenda' = (IF q.fires THEN Fire("ajaxSend", r) ELSE <<>>) \o <<Do("send", r, "")>> \o Rest
  /\ UNCHANGED <<active, net, names, acts, told, fate>>

\* After beforeSend, which looks at false and at an abort: the callbacks of the options are
\* installed, and a transport found.  Without a beforeSend nobody sees that the request was
\* aborted.
Transport ==
  /\ IsNext("transport")
  /\ LET r == Todo.r
         q == requests[r]
     IN IF q.beforeSend /\ (q.refused \/ q.state = 2)
        THEN agenda' = <<Do("done", r, "error")>> \o Rest /\ UNCHANGED requests
        ELSE /\ requests' = [requests EXCEPT ![r].installed = TRUE,
                                             ![r].transport = q.transportOf # "none"]
             /\ agenda' = Install(r)
                          \o (IF q.transportOf = "none"
                              THEN IF q.state = 2 THEN <<>> ELSE <<Do("done", r, "error")>>
                              ELSE (IF q.fires THEN Fire("ajaxSend", r) ELSE <<>>)
                                   \o <<Do("send", r, "")>>) \o Rest
  /\ UNCHANGED <<active, net, names, acts, told, fate>>

\* transport.send().  It may throw, as it does when an abort during "ajaxSend" has
\* dereferenced the transport; an exception is propagated as an error.  A request that is
\* over is under way again, but has no name any more.
Send ==
  /\ IsNext("send")
  /\ LET r == Todo.r
         q == requests[r]
         Sent(how, live, script) ==
           /\ agenda' = (IF how = "" THEN <<>> ELSE <<Do("done", r, how)>>) \o Rest
           /\ waiting' = IF live THEN waiting \cup {r} ELSE waiting
           /\ loading' = IF script THEN loading \cup {r} ELSE loading
     IN /\ requests' = [requests EXCEPT ![r].state = 1, ![r].timer = q.timeout /\ q.async]
        /\ \/ ~q.transport /\ Sent("error", FALSE, FALSE)
           \/ q.transport /\ q.transportOf = "script" /\ Sent("", TRUE, TRUE)
           \/ q.transport /\ q.transportOf = "xhr" /\ q.async /\ Sent("", TRUE, FALSE)
           \/ /\ q.transport /\ q.transportOf = "xhr"
              /\ \E how \in {"error"} \cup (IF q.async THEN {} ELSE {"ok", "garbled", "failed"}) :
                   Sent(how, FALSE, FALSE)
        /\ fate' = IF q.state < 2 THEN fate
                   ELSE [fate EXCEPT !.interfered = @ \cup {r},
                                     !.shared = IF q.jsonp THEN @ \cup {r} \cup Rivals(q.name) ELSE @]
  /\ UNCHANGED <<active, names, acts, told>>

-------------------------------------------------------------------------------
(* A request ends.                                                            *)

\* The function of a request is called with the data of another or its own.
Give(x, r) == IF x # 0 /\ requests[x].state < 2 THEN [requests EXCEPT ![x].container = r]
              ELSE requests

\* An answer to a jsonp request that comes over XMLHttpRequest is evaluated, whether it tells
\* of success ("ok") or not ("failed"), and calls the function with its name.
Converted(r, how) ==
  LET q == requests[r]
  IN IF q.jsonp /\ q.transportOf = "xhr" /\ how \in {"ok", "failed"} THEN Give(window[q.name], r)
     ELSE requests

\* Whether the data of the answer can be had.
Succeeds(r, how) ==
  LET q == requests[r]
      types == IF q.jsonp THEN <<"script", "json">> ELSE <<"json">>
      bad == (IF how = "garbled" THEN {<<"text", "json">>, <<"text", "script">>} ELSE {})
             \cup (IF Converted(r, how)[r].container # 0 THEN {} ELSE {<<"script", "json">>})
      list == IF q.transportOf = "xhr" THEN HandleResponses(types, "") ELSE types
  IN how \in {"ok", "garbled"} /\ Convert(Head(list), Tail(list), Converters(q.jsonp), bad) = "json"

\* done(): the conversion, the handlers of the outcome, the clean-up of jsonp first, and
\* the events.
Done ==
  /\ IsNext("done")
  /\ LET r == Todo.r
         q == requests[r]
         success == Succeeds(r, Todo.how)
         first == q.outcome = "pending"
         IfFirst(things) == IF first THEN things ELSE <<>>
         IfInstalled(things) == IF q.installed THEN things ELSE <<>>
         IfGlobal(things) == IF q.fires THEN things ELSE <<>>
         outcome == IF success THEN "success" ELSE "error"
     IN IF q.state = 2 THEN agenda' = Rest /\ UNCHANGED requests
        ELSE /\ requests' = [Converted(r, Todo.how) EXCEPT
                   ![r].state = 2, ![r].timer = FALSE, ![r].transport = FALSE,
                   ![r].outcome = IF first THEN outcome ELSE @]
             /\ agenda' = IfFirst((IF q.jsonp THEN <<Do("cleanup", r, "")>> ELSE <<>>)
                                  \o IfInstalled(Fire(outcome, r)) \o Fire("statusCode", r))
                          \o IfGlobal(Fire(IF success THEN "ajaxSuccess" ELSE "ajaxError", r))
                          \o IfFirst(IfInstalled(Fire("complete", r)))
                          \o IfGlobal(Fire("ajaxComplete", r) \o <<Do("count", r, "")>>) \o Rest
  /\ UNCHANGED <<active, net, names, acts, told, fate>>

\* Mutant: the name is free without the function being taken away.
CleanUpNameOnly ==
  /\ IsNext("cleanup")
  /\ oldCallbacks' = IF requests[Todo.r].fixed THEN oldCallbacks
                     ELSE Append(oldCallbacks, requests[Todo.r].name)
  /\ agenda' = Rest
  /\ UNCHANGED <<requests, active, net, window, acts, told, fate>>

\* The clean-up of jsonp: a function that was replaced gets the data too.
CleanUp ==
  /\ IsNext("cleanup")
  /\ LET q == requests[Todo.r]
     IN /\ window' = [window EXCEPT ![q.name] = q.overwritten]
        /\ oldCallbacks' = IF q.fixed THEN oldCallbacks ELSE Append(oldCallbacks, q.name)
        /\ requests' = IF q.container # 0 THEN Give(q.overwritten, q.container) ELSE requests
  /\ agenda' = Rest
  /\ UNCHANGED <<active, net, acts, told, fate>>

Count ==
  /\ IsNext("count")
  /\ active' = active - 1
  /\ agenda' = (IF active = 1 THEN Fire("ajaxStop", Todo.r) ELSE <<>>) \o Rest
  /\ UNCHANGED <<requests, net, names, acts, told, fate>>

\* Mutant: the transport is not told.
AbortOnlyHere(r, rest) ==
  /\ agenda' = <<Do("done", r, "error")>> \o rest
  /\ UNCHANGED waiting

\* Mutant: abort() leaves the rest to the transport.
AbortOnlyThere(r, rest) ==
  /\ waiting' = IF requests[r].transport THEN waiting \ {r} ELSE waiting
  /\ agenda' = rest

\* abort(): the transport is told, then done().
AbortThen(r, rest) ==
  /\ waiting' = IF requests[r].transport THEN waiting \ {r} ELSE waiting
  /\ agenda' = <<Do("done", r, "error")>> \o rest

-------------------------------------------------------------------------------
(* The environment.                                                           *)

\* The answer to an XMLHttpRequest comes: data, data that cannot be parsed, an error with
\* data, or one without.
AnswerWith(how) ==
  /\ Idle
  /\ \E r \in waiting :
       /\ requests[r].transportOf = "xhr"
       /\ waiting' = waiting \ {r}
       /\ agenda' = <<Do("done", r, how)>>
  /\ UNCHANGED <<requests, active, loading, names, acts, told, fate>>

Answer == \E how \in {"ok", "garbled", "failed", "error"} : AnswerWith(how)

\* A script has been loaded.  It calls the function with its name, or it does not; the
\* element tells if it still has its handler.
Load ==
  /\ Idle
  /\ \E r \in loading, calls \in BOOLEAN :
       /\ loading' = loading \ {r}
       /\ requests' = IF calls THEN Give(window[requests[r].name], r) ELSE requests
       /\ waiting' = waiting \ {r}
       /\ agenda' = IF r \in waiting THEN <<Do("done", r, "ok")>> ELSE <<>>
  /\ UNCHANGED <<active, names, acts, told, fate>>

\* Nobody is told of a script that cannot be loaded.
LoadFails ==
  /\ Idle
  /\ \E r \in loading : loading' = loading \ {r}
  /\ UNCHANGED <<requests, active, waiting, names, agenda, acts, told, fate>>

TimesOut ==
  /\ Idle
  /\ \E r \in DOMAIN requests :
       requests[r].timer /\ AbortThen(r, <<>>) /\ requests' = [requests EXCEPT ![r].timer = FALSE]
  /\ UNCHANGED <<active, loading, names, acts, told, fate>>

-------------------------------------------------------------------------------
(* The user's code.                                                           *)

FireHandler ==
  /\ IsNext("fire")
  /\ told' = [told EXCEPT ![Todo.r] = Append(@, Todo.how)]
  /\ agenda' = <<[Todo EXCEPT !.op = "user"]>> \o Rest
  /\ UNCHANGED <<requests, active, net, names, acts, fate>>

CallAjax(o) == (Idle \/ IsNext("user")) /\ AjaxThen(o, agenda)

\* An abort before the request is sent that beforeSend is called after, or that nobody looks
\* at.
NotSeen(r) ==
  \E x \in ToSet(agenda) :
    x.r = r /\ \/ x.op = "fire" /\ x.how = "beforeSend"
               \/ x.op = "transport" /\ ~requests[r].beforeSend

CallAbort(r) ==
  /\ Idle \/ IsNext("user")
  /\ acts < MaxActs /\ acts' = acts + 1
  /\ AbortThen(r, agenda)
  /\ fate' = [fate EXCEPT !.early = IF NotSeen(r) THEN @ \cup {r} ELSE @]
  /\ UNCHANGED <<requests, active, loading, names, told>>

\* A handler returns; beforeSend may return false.
Return(refuses) ==
  /\ IsNext("user")
  /\ refuses => Todo.how = "beforeSend"
  /\ requests' = IF refuses THEN [requests EXCEPT ![Todo.r].refused = TRUE] ELSE requests
  /\ agenda' = Rest
  /\ UNCHANGED <<active, net, names, acts, told, fate>>

\* A handler throws: what the code below it had to do is not done.
Throw ==
  /\ IsNext("user")
  /\ acts < MaxActs /\ acts' = acts + 1
  /\ agenda' = <<>>
  /\ fate' = [fate EXCEPT !.thrown = @ \cup {agenda[i].r : i \in DOMAIN agenda}]
  /\ UNCHANGED <<requests, active, net, names, told>>

User ==
  \/ \E o \in Options : CallAjax(o)
  \/ \E r \in DOMAIN requests : CallAbort(r)
  \/ \E refuses \in BOOLEAN : Return(refuses)
  \/ Throw

Machine == Begin \/ Transport \/ Send \/ Done \/ CleanUp \/ Count \/ FireHandler
Program == Machine \/ Return(FALSE)

\* The event loop waits.
Wait == Idle /\ UNCHANGED vars

Next == Program \/ Answer \/ Load \/ LoadFails \/ TimesOut \/ User \/ Wait

\* Code comes to its end, the network answers and timeouts fire.  Nothing is assumed of
\* scripts.
Spec == Init /\ [][Next]_vars /\ WF_vars(Program) /\ WF_vars(Answer) /\ WF_vars(TimesOut)

-------------------------------------------------------------------------------
(* Properties.  Exempt from some are requests hurt by an exception from a     *)
(* handler ("thrown"); one aborted from "ajaxStart", which still calls        *)
(* beforeSend, or goes on when it has none and calls its handlers later than  *)
(* its events ("early"); one that is over and is sent nevertheless, aborted   *)
(* there or from "ajaxSend", which is announced and counted down twice        *)
(* ("interfered"); and those that shared the name of their callback, or were  *)
(* sent when they had given it back ("shared").                               *)

Pending(r) == requests[r].state < 2

TypeOK ==
  /\ active \in Int
  /\ waiting \cup loading \subseteq DOMAIN requests
  /\ \A r \in waiting : requests[r].state = 1 /\ requests[r].transport
  /\ ToSet(oldCallbacks) \subseteq 1..MaxRequests
  /\ acts \in 0..MaxActs

Rank(place) == CHOOSE i \in DOMAIN AllPlaces : AllPlaces[i] = place

\* What a request that is over must have told: its outcome, once it was past beforeSend,
\* and the events of its outcome, once it was counted.
Due(r) ==
  LET q == requests[r]
  IN Places \cap
       ((IF q.installed THEN {q.outcome, "complete"} ELSE {})
        \cup (IF q.fires THEN {IF q.outcome = "success" THEN "ajaxSuccess" ELSE "ajaxError", "ajaxComplete"}
              ELSE {})
        \cup {"statusCode"})

\* jquery-l.js:8148-8259 ("Called once"): a request calls each of its handlers at most
\* once and in their order, with one outcome, and those of its end all by the time the
\* event loop is free.
Told ==
  \A r \in DOMAIN requests \ (fate.early \cup fate.interfered \cup fate.thrown) :
    /\ \A i, j \in DOMAIN told[r] : i < j => Rank(told[r][i]) < Rank(told[r][j])
    /\ ToSet(told[r]) \cap {"success", "error"} \subseteq {requests[r].outcome}
    /\ Idle /\ ~Pending(r) =>
         ToSet(told[r]) \cap {"success", "error", "ajaxSuccess", "ajaxError", "complete",
                              "ajaxComplete", "statusCode"} = Due(r)

\* jquery-l.js:7783 ("Counter for holding the number of active queries"): it holds the
\* number of requests that were begun and are not over, unless one was sent when it was
\* over: that one is counted down twice.
ActiveCounts ==
  Idle /\ fate.thrown = {} /\ fate.interfered = {} =>
    active = Cardinality({r \in DOMAIN requests : requests[r].fires /\ Pending(r)})

\* jquery-l.js:8527-8606: a jsonp request that succeeds has the data of its own answer,
\* and a callback name is either taken by one request or free once, as long as no other
\* request with its name is under way; a name can have been freed by an abort while its
\* script is still being loaded, or is still to be.
JsonpOwn ==
  LET alone == {r \in DOMAIN requests : requests[r].jsonp} \ fate.shared
  IN /\ \A r \in alone : requests[r].outcome = "success" => requests[r].container = r
     /\ IsInjective(oldCallbacks)
     /\ Idle => \A r \in alone :
                  /\ Pending(r) => /\ window[requests[r].name] = r
                                   /\ requests[r].name \notin ToSet(oldCallbacks)
                  /\ (~Pending(r) /\ window[requests[r].name] = r) => FALSE

\* The type of the data that the callbacks get for a response of type text: the last one
\* asked for, or what the content type says when none is.
Wanted(types, ct) ==
  LET asked == SelectSeq(types, LAMBDA t : t # "*")
  IN IF asked # <<>> THEN Last(asked) ELSE IF ct \in Types THEN ct ELSE "text"

\* jquery-l.js:8292-8440 ("mediates between content-type and expected dataType"): whatever
\* the content type, the chain of converters leads to the data type that was asked for.
ConvertsRight ==
  requests = <<>> =>
    \A types \in BoundedSeq(Types \cup {"*"}, 3) \ {<<>>}, ct \in Types \cup {""}, jsonp \in BOOLEAN :
      LET list == HandleResponses(types, ct)
      IN Convert(Head(list), Tail(list), Converters(jsonp), {}) = Wanted(types, ct)

\* jquery-l.js:7982-7989, 8127-8146, 8655-8812: every request that is not a script comes to
\* its end, by its answer, its timeout, an abort or an exception of the transport, and so
\* does a script with a timeout.
Completes ==
  \A r \in 1..MaxRequests :
    (r \in DOMAIN requests /\ (requests[r].transportOf # "script" \/ requests[r].timeout)) ~>
      (r \in fate.thrown \/ (r \in DOMAIN requests /\ ~Pending(r)))

===============================================================================
