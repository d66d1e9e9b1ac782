-------------------------------- MODULE Deferred --------------------------------
(***************************************************************************)
(* jQuery.Deferred and jQuery.when on top of jQuery.Callbacks, as the page *)
(* and the requests of jQuery use them, and one list of callbacks by       *)
(* itself.                                                                 *)
(*                                                                         *)
(* JavaScript runs one thing at a time: "agenda" is what is left to do     *)
(* before the event loop is free again, the next thing first.  A thing     *)
(* puts what it entails in front.  What the user's functions do is         *)
(* arbitrary: they may call any operation, any number of times up to       *)
(* MaxCalls in all, return what they like, or throw.  A throw ends         *)
(* everything on the agenda, since no code here catches it.                *)
(***************************************************************************)
EXTENDS CallbackList

CONSTANTS
  MaxCalls,      \* bound on operations of deferreds the user calls
  MaxPlainCalls, \* the same for the list by itself
  MaxDeferreds,  \* bound on deferreds, those of then() and when() included
  MaxThrows,     \* bound on functions that throw
  UserDeferreds, \* deferreds the user begins with
  PlainOptions   \* options the list by itself may have; empty: there is none

ASSUME DeferredAssumption ==
  /\ {MaxCalls, MaxPlainCalls, MaxDeferreds, MaxThrows} \subseteq Nat
  /\ UserDeferreds \in 0..MaxDeferreds
  /\ PlainOptions \subseteq SUBSET Options

VARIABLES
  lists,     \* the callback lists: one of each kind for each deferred, or Plain
  state,     \* the state of each deferred
  masters,   \* for each when() of several: its deferred, what remains, its values
  agenda,    \* what is left to do
  calls,     \* operations called by the user
  attached,  \* functions attached to deferreds by the user
  waiting,   \* history: those that have not been called, by list
  latest,    \* history: the latest call of one of them, with its value
  broken,    \* history: the lists whose loop a throw has ended
  links,     \* history: deferreds that are to follow others
  due        \* history: what is left to call in the loop of Plain

program == <<lists, state, masters, agenda>>
history == <<attached, waiting, latest, broken, links, due>>
userCalls == <<waiting, latest>>
vars == <<program, history, calls>>

Ways == {"done", "fail"}
Kinds == Ways \cup {"progress"}
OtherWay(w) == IF w = "done" THEN "fail" ELSE "done"
Final(w) == IF w = "done" THEN "resolved" ELSE "rejected"
Plain == <<0, "plain">>
PlainFunctions == {1, 2}

-------------------------------------------------------------------------------
(* The functions a list may hold.  Those of the user have a number, or a      *)
(* name in Plain.                                                             *)

Fn(is, of, list, i) == [is |-> is, of |-> of, list |-> list, i |-> i]
User(n) == Fn("user", n, <<>>, 0)
FireOf(list) == Fn("fire", 0, list, 0)
ForwardOf(kind, from, to, hasFn) == Fn("forward", IF hasFn THEN 1 ELSE 0, <<to, kind>>, from)
UpdateOf(kind, m, i) == Fn("update", m, <<0, kind>>, i)

\* Deferred(): three lists.  The first functions of a way are the deferred's own: they
\* set the state, disable the other way and lock progress; here they are one.
NewList(l) ==
  IF l[2] = "progress" THEN NewCallbacks({"memory"})
  ELSE Add(NewCallbacks({"once", "memory"}), Fn("settle", l[1], l, 0))

NewDeferred(d) ==
  [l \in DOMAIN lists \cup ({d} \X Kinds) |-> IF l \in DOMAIN lists THEN lists[l] ELSE NewList(l)]

Init ==
  /\ \/ \E options \in PlainOptions : lists = [l \in {Plain} |-> NewCallbacks(options)]
     \/ /\ UserDeferreds > 0
        /\ lists = [l \in (1..UserDeferreds) \X Kinds |-> NewList(l)]
  /\ state = IF Plain \in DOMAIN lists THEN <<>> ELSE [d \in 1..UserDeferreds |-> "pending"]
  /\ masters = <<>> /\ agenda = <<>> /\ calls = 0
  /\ attached = 0 /\ waiting = [l \in (1..MaxDeferreds) \X Ways |-> <<>>] /\ latest = <<>>
  /\ broken = {} /\ links = {}
  /\ due = [fns |-> <<>>, emptied |-> FALSE]

-------------------------------------------------------------------------------
(* What is on the agenda: operations on lists, calls of functions, the user's *)
(* code, and the ends of then() and when().  In a loop "on" says where it is: *)
(* at its first round, after a callback, or stopped by one.                   *)

Do(op, list, fns, data, on) ==
  [op |-> op, list |-> list, fns |-> fns, data |-> data, on |-> on]
AddDo(l, fn) == Do("add", l, <<fn>>, <<>>, "")
FireDo(l, data) == Do("fire", l, <<>>, data, "")
Loop(l, data, on) == Do("loop", l, <<>>, data, on)
Run(fn, data) == Do("run", <<>>, <<fn>>, data, "")

Todo == Head(agenda)
Rest == Tail(agenda)
IsNext(op) == agenda # <<>> /\ Todo.op = op

\* The loop that a fire of list l with this data (memory[1]) starts.
LoopOf(l, memory, starts) == IF starts THEN <<Loop(l, memory[1], "first")>> ELSE <<>>

\* History: what a fire of Plain has to call.
DueOf(l, cb) ==
  IF l = Plain
  THEN [fns |-> SubSeq(cb.list, cb.firingIndex + 1, Len(cb.list)), emptied |-> FALSE]
  ELSE due

\* add(fn).  User functions of deferreds get the next number.
DoAdd ==
  /\ IsNext("add")
  /\ LET l == Todo.list
         numbered == Todo.fns[1].is = "user" /\ l # Plain
         fn == IF numbered THEN User(attached + 1) ELSE Todo.fns[1]
         cb == Add(lists[l], fn)
         starts == FiresOnAdd(lists[l])
     IN /\ lists' = [lists EXCEPT ![l] = cb]
        /\ agenda' = LoopOf(l, lists[l].memory, starts) \o Rest
        /\ due' = IF starts THEN DueOf(l, cb)
                  ELSE IF l = Plain /\ cb.firing
                  THEN [due EXCEPT !.fns = @ \o SubSeq(cb.list, Len(lists[l].list) + 1, Len(cb.list))]
                  ELSE due
        /\ attached' = IF numbered THEN attached + 1 ELSE attached
        /\ waiting' = IF numbered /\ l \in DOMAIN waiting
                      THEN [waiting EXCEPT ![l] = Append(@, attached + 1)] ELSE waiting
  /\ UNCHANGED <<state, masters, calls, latest, broken, links>>

DoFire ==
  /\ IsNext("fire")
  /\ LET l == Todo.list
         cb == FireWith(lists[l], Todo.data)
         starts == Starts(lists[l])
     IN /\ lists' = [lists EXCEPT ![l] = cb]
        /\ agenda' = LoopOf(l, <<Todo.data>>, starts) \o Rest
        /\ due' = IF starts THEN DueOf(l, cb) ELSE due
  /\ UNCHANGED <<state, masters, calls, attached, userCalls, broken, links>>

-------------------------------------------------------------------------------
(* The loop in fire(): a round ends the loop or calls a function.             *)

\* The list as the test of the loop finds it.
Looping ==
  LET cb == lists[Todo.list]
  IN IF Todo.on = "next" THEN [cb EXCEPT !.firingIndex = @ + 1]
     ELSE IF Todo.on = "stop" THEN [cb EXCEPT !.memory = <<>>]
     ELSE cb

LoopEnds ==
  /\ IsNext("loop")
  /\ Todo.on = "stop" \/ ~GoesOn(Looping)
  /\ LET l == Todo.list
         ended == EndFire(Looping)
         again == FiresAgain(Looping)
     IN /\ lists' = [lists EXCEPT ![l] = ended]
        /\ agenda' = LoopOf(l, SubSeq(Looping.stack, 1, 1), again) \o Rest
        /\ due' = IF again THEN DueOf(l, ended)
                  ELSE IF Todo.on = "stop" THEN [due EXCEPT !.fns = <<>>] ELSE due
  /\ UNCHANGED <<state, masters, calls, attached, userCalls, broken, links>>

\* The loop comes to a function of this sort.
Comes(is) ==
  /\ IsNext("loop")
  /\ Todo.on # "stop" /\ GoesOn(Looping)
  /\ Current(Looping).is = is

Callee == Current(Looping)

\* It is called, which puts these things on the agenda.
CallsIt(things) ==
  /\ lists' = [lists EXCEPT ![Todo.list] = Looping]
  /\ agenda' = things \o <<Loop(Todo.list, Todo.data, "next")>> \o Rest

\* A function of the user's.
CallUser ==
  /\ Comes("user")
  /\ CallsIt(<<Run(Callee, Todo.data)>>)
  /\ IF Todo.list = Plain
     THEN due' = [due EXCEPT !.fns = IF @ # <<>> /\ Head(@) = Callee THEN Tail(@)
                                     ELSE Append(@, Callee)]
     ELSE UNCHANGED due
  /\ IF Todo.list \in DOMAIN waiting
     THEN /\ waiting' = [waiting EXCEPT ![Todo.list] =
                            IF @ # <<>> /\ Head(@) = Callee.of THEN Tail(@)
                            ELSE Append(@, Callee.of)]
          /\ latest' = <<Callee.of, Todo.data>>
     ELSE UNCHANGED userCalls
  /\ UNCHANGED <<state, masters, calls, attached, broken, links>>

\* Mutant: the other way stays open.
CallSettlingOneWay ==
  /\ Comes("settle")
  /\ state' = [state EXCEPT ![Callee.of] = Final(Callee.list[2])]
  /\ CallsIt(<<>>)
  /\ UNCHANGED <<masters, calls, history>>

\* The functions that settle a deferred.
CallSettling ==
  /\ Comes("settle")
  /\ LET d == Callee.of
         way == Callee.list[2]
     IN /\ state' = [state EXCEPT ![d] = Final(way)]
        /\ lists' = [lists EXCEPT ![<<d, way>>] = Looping,
                                  ![<<d, OtherWay(way)>>] = Disable(@),
                                  ![<<d, "progress">>] = Lock(@)]
  /\ agenda' = <<Loop(Todo.list, Todo.data, "next")>> \o Rest
  /\ UNCHANGED <<masters, calls, history>>

\* newDefer.resolve and the like, given as callbacks.
CallFire ==
  /\ Comes("fire")
  /\ CallsIt(<<FireDo(Callee.list, Todo.data)>>)
  /\ UNCHANGED <<state, masters, calls, history>>

\* The forwarding function of then(): the user's function first, when there is one.
CallForward ==
  /\ Comes("forward")
  /\ CallsIt(IF Callee.of = 1
             THEN <<Run(Callee, Todo.data), Do("forwarded", Callee.list, <<Callee>>, <<>>, "")>>
             ELSE <<FireDo(Callee.list, Todo.data)>>)
  /\ UNCHANGED <<state, masters, calls, history>>

\* What when() keeps of a deferred: its value, or all of them in an array.
ValueOf(data) == IF Len(data) = 1 THEN data[1] ELSE data

\* updateFunc of when(): the last one resolves the master.
CallUpdate ==
  /\ Comes("update")
  /\ LET m == Callee.of
         master == masters[m]
         With(values) == [values EXCEPT ![Callee.i] = ValueOf(Todo.data)]
     IN IF Callee.list[2] = "progress"
        THEN /\ masters' = [masters EXCEPT ![m].progress = With(@)]
             /\ CallsIt(<<FireDo(<<master.deferred, "progress">>, With(master.progress))>>)
        ELSE /\ masters' = [masters EXCEPT ![m].values = With(@), ![m].remaining = @ - 1]
             /\ CallsIt(IF master.remaining # 1 THEN <<>>
                        ELSE <<FireDo(<<master.deferred, "done">>, With(master.values))>>)
  /\ UNCHANGED <<state, calls, history>>

\* Mutant: the plain value is not counted.
WhenReadyPlain ==
  /\ IsNext("when")
  /\ agenda' = Rest
  /\ UNCHANGED <<lists, state, masters, calls, history>>

\* The end of when(): a plain value counts down too; then "if we're not waiting on
\* anything, resolve the master".
WhenReady ==
  /\ IsNext("when")
  /\ LET m == Todo.list[1]
         master == masters[m]
         left == master.remaining - (IF master.of[2] = 0 THEN 1 ELSE 0)
     IN /\ masters' = [masters EXCEPT ![m].remaining = left]
        /\ agenda' = IF left = 0
                     THEN <<FireDo(<<master.deferred, "done">>, master.values)>> \o Rest
                     ELSE Rest
  /\ UNCHANGED <<lists, state, calls, history>>

-------------------------------------------------------------------------------
(* The user's code: in a task of the event loop, where each call may as well be *)
(* a task of its own, in a callback, or in a function given to then().  A value is a sequence; a fresh one is the number of the call.     *)

Runs == calls < MaxCalls /\ (agenda = <<>> \/ IsNext("run"))

Fresh == <<calls>>

\* The deferreds there are; at first any of them is like the others.
Existing == IF Plain \in DOMAIN lists THEN {} ELSE IF calls = 0 THEN {1} ELSE 1..Len(state)

\* The user calls what puts these things on the agenda.
Calls(things) ==
  /\ calls' = calls + 1
  /\ agenda' = things \o agenda

\* deferred.done(fn), fail(fn), progress(fn)
CallAdd(d, kind) ==
  /\ Runs
  /\ Calls(<<AddDo(<<d, kind>>, User(0))>>)
  /\ UNCHANGED <<lists, state, masters, history>>

\* always(fn): done(fn), then fail(fn)
CallAlways(d) ==
  /\ Runs
  /\ Calls(<<AddDo(<<d, "done">>, User(0)), AddDo(<<d, "fail">>, User(0))>>)
  /\ UNCHANGED <<lists, state, masters, history>>

\* deferred.resolve(value), reject(value), notify(value).  Of the deferreds of then()
\* and when() the user has only the promises.
CallSettle(d, kind) ==
  /\ Runs /\ d <= UserDeferreds
  /\ Calls(<<FireDo(<<d, kind>>, <<Fresh>>)>>)
  /\ UNCHANGED <<lists, state, masters, history>>

\* then(fns) makes a deferred that follows this one.
CallThen(d, hasFn) ==
  LET new == Len(state) + 1
  IN /\ Runs /\ new <= MaxDeferreds
     /\ lists' = NewDeferred(new)
     /\ state' = Append(state, "pending")
     /\ Calls([k \in 1..3 |->
                 LET kind == <<"done", "fail", "progress">>[k]
                 IN AddDo(<<d, kind>>, ForwardOf(kind, d, new, hasFn))])
     /\ links' = IF hasFn THEN links ELSE links \cup {<<d, new, TRUE>>}
     /\ UNCHANGED <<masters, attached, userCalls, broken, due>>

\* when(d1, d2), the second a deferred or, for 0, a plain value.
CallWhen(d1, d2) ==
  LET new == Len(state) + 1
      m == Len(masters) + 1
      Listens(i, d) ==
        <<AddDo(<<d, "done">>, UpdateOf("done", m, i)), AddDo(<<d, "fail">>, FireOf(<<new, "fail">>)),
          AddDo(<<d, "progress">>, UpdateOf("progress", m, i))>>
  IN /\ Runs /\ new <= MaxDeferreds
     /\ lists' = NewDeferred(new)
     /\ state' = Append(state, "pending")
     /\ masters' = Append(masters, [deferred |-> new, of |-> <<d1, d2>>,
                                    remaining |-> 2,
                                    values |-> <<<<>>, IF d2 = 0 THEN Fresh ELSE <<>>>>,
                                    progress |-> <<<<>>, <<>>>>])
     /\ Calls(Listens(1, d1) \o (IF d2 = 0 THEN <<>> ELSE Listens(2, d2))
              \o <<Do("when", <<m, "">>, <<>>, <<>>, "")>>)
     /\ UNCHANGED history

\* Operations on the list by itself.  A list that is disabled has nothing due.
CallPlain ==
  /\ Plain \in DOMAIN lists /\ calls < MaxPlainCalls
  /\ agenda = <<>> \/ IsNext("run")
  /\ LET Change(cb, newDue) ==
           /\ lists' = [lists EXCEPT ![Plain] = cb]
           /\ due' = IF cb.disabled THEN [due EXCEPT !.fns = <<>>] ELSE newDue
           /\ Calls(<<>>)
         cb == lists[Plain]
     IN \/ /\ \E f \in PlainFunctions : Calls(<<AddDo(Plain, User(f))>>)
           /\ UNCHANGED <<lists, due>>
        \/ /\ Calls(<<FireDo(Plain, <<Fresh>>)>>)
           /\ UNCHANGED <<lists, due>>
        \/ \E f \in PlainFunctions :
             Change(RemoveFn(cb, User(f)),
                    [due EXCEPT !.fns = Without(@, {k \in DOMAIN @ : @[k] = User(f)})])
        \/ Change(Empty(cb), [fns |-> <<>>, emptied |-> TRUE])
        \/ Change(Disable(cb), due)
        \/ Change(Lock(cb), due)
  /\ UNCHANGED <<state, masters, attached, userCalls, broken, links>>

\* The user's function returns; what it returns matters to a list with stopOnFalse
\* and to then().
Caller == IF Rest = <<>> THEN "" ELSE Head(Rest).op

Return ==
  /\ IsNext("run") /\ Caller # "forwarded"
  /\ agenda' = Rest
  /\ UNCHANGED <<lists, state, masters, calls, history>>

ReturnFalse ==
  /\ IsNext("run") /\ Caller = "loop"
  /\ "stopOnFalse" \in lists[Head(Rest).list].options
  /\ agenda' = [Rest EXCEPT ![1].on = "stop"]
  /\ UNCHANGED <<lists, state, masters, calls, history>>

ReturnValue ==
  /\ IsNext("run") /\ Caller = "forwarded"
  /\ agenda' = <<FireDo(Head(Rest).list, <<Fresh>>)>> \o Tail(Rest)
  /\ LET to == Head(Rest).list
     IN links' = IF to[2] \in Ways THEN links \cup {<<Head(Rest).fns[1].i, to[1], FALSE>>}
                 ELSE links
  /\ UNCHANGED <<lists, state, masters, calls, attached, userCalls, broken, due>>

\* Mutant: the failure of the promise is not passed on.
ReturnPromiseDone(p) ==
  /\ IsNext("run") /\ Caller = "forwarded" /\ p # Head(Rest).list[1]
  /\ LET new == Head(Rest).list[1]
     IN /\ agenda' = <<AddDo(<<p, "done">>, FireOf(<<new, "done">>))>> \o Tail(Rest)
        /\ links' = links \cup {<<p, new, TRUE>>}
  /\ UNCHANGED <<lists, state, masters, calls, attached, userCalls, broken, due>>

\* A promise other than the one then() has returned: that one would follow itself,
\* and notify itself for ever.
ReturnPromise(p) ==
  /\ IsNext("run") /\ Caller = "forwarded" /\ p # Head(Rest).list[1]
  /\ LET new == Head(Rest).list[1]
     IN /\ agenda' = <<AddDo(<<p, "done">>, FireOf(<<new, "done">>)),
                       AddDo(<<p, "fail">>, FireOf(<<new, "fail">>)),
                       AddDo(<<p, "progress">>, FireOf(<<new, "progress">>))>> \o Tail(Rest)
        /\ links' = links \cup {<<p, new, TRUE>>}
  /\ UNCHANGED <<lists, state, masters, calls, attached, userCalls, broken, due>>

\* It throws: the loops on the agenda never end, and their lists stay "firing".
Throw ==
  /\ IsNext("run") /\ Cardinality(broken) < MaxThrows
  /\ LET loops == {agenda[i].list : i \in {j \in DOMAIN agenda : agenda[j].op = "loop"}}
     IN /\ loops # {}
        /\ broken' = broken \cup loops
  /\ agenda' = <<>>
  /\ due' = [due EXCEPT !.fns = <<>>]
  /\ UNCHANGED <<lists, state, masters, calls, attached, userCalls, links>>

UserNext ==
  \/ CallPlain
  \/ \E d \in Existing :
       \/ \E kind \in Kinds : CallAdd(d, kind) \/ CallSettle(d, kind)
       \/ CallAlways(d)
       \/ \E hasFn \in BOOLEAN : CallThen(d, hasFn)
       \/ \E d2 \in DOMAIN state \cup {0} : CallWhen(d, d2)
       \/ ReturnPromise(d)
  \/ Return \/ ReturnFalse \/ ReturnValue \/ Throw

\* The event loop waits, perhaps for ever.
Wait == agenda = <<>> /\ UNCHANGED vars

Next ==
  \/ DoAdd \/ DoFire \/ LoopEnds
  \/ CallUser \/ CallSettling \/ CallFire \/ CallForward \/ CallUpdate \/ WhenReady
  \/ UserNext \/ Wait

Spec == Init /\ [][Next]_vars

-------------------------------------------------------------------------------
(* Properties.                                                                *)

TypeOK ==
  /\ \A l \in DOMAIN lists :
       /\ lists[l].options \subseteq Options
       /\ lists[l].firing => lists[l].fired
       /\ lists[l].firingIndex \in Int /\ lists[l].firingLength \in Nat
  /\ \A d \in DOMAIN state : state[d] \in {"pending", "resolved", "rejected"}
  /\ calls <= MaxCalls \/ calls <= MaxPlainCalls
  /\ Len(state) <= MaxDeferreds
  /\ due.emptied \in BOOLEAN

Idle == agenda = <<>>

\* jquery-l.js:3040-3065, 3069-3119: while a list fires, each callback it
\* held or was given meanwhile, and did not lose, is called in order, once for each
\* time it is in the list; nothing else is called.  Not promised after empty() within
\* a callback: the next callbacks added may then be passed over.
FiresWhatIsDue ==
  Idle /\ ~due.emptied /\ Plain \notin broken => due.fns = <<>>

\* jquery-l.js:3180-3265: when the event loop is free, a settled deferred has called
\* every callback of its way, also those attached while it was calling others or
\* afterwards.  A callback that throws cuts this short for its list, for ever.
AllCalled ==
  Idle => \A l \in DOMAIN lists \cap DOMAIN waiting :
            lists[l].fired /\ l \notin broken => waiting[l] = <<>>

Value(d) == lists[<<d, IF state[d] = "resolved" THEN "done" ELSE "fail">>].memory

\* jquery-l.js:3196-3217: what then() returns is settled as soon as something it is to
\* follow is settled, and then in the same way; with the same value too, when it
\* follows a promise that was returned, or when no function was given.
FollowersFollow ==
  Idle /\ broken = {} =>
    \A q \in {link[2] : link \in links} :
      LET mine == {link \in links : link[2] = q}
      IN IF state[q] = "pending" THEN \A link \in mine : state[link[1]] = "pending"
         ELSE \E link \in mine : /\ state[link[1]] = state[q]
                                 /\ link[3] => Value(link[1]) = Value(q)

\* jquery-l.js:3268-3317: what when() returns is resolved once all its deferreds are,
\* with the value of each at its place, and rejected once one of them is.
MasterFollowsAll ==
  Idle /\ broken = {} =>
    \A m \in DOMAIN masters :
      LET master == masters[m]
          subs == {i \in 1..2 : master.of[i] # 0}
          St(i) == state[master.of[i]]
      IN /\ state[master.deferred] = "resolved" <=> \A i \in subs : St(i) = "resolved"
         /\ state[master.deferred] = "rejected" <=> \E i \in subs : St(i) = "rejected"
         /\ state[master.deferred] = "resolved" =>
              \A i \in subs : Value(master.deferred)[1][i] = ValueOf(Value(master.of[i])[1])

\* The way a deferred has gone with its value; empty while it is pending.
Verdict(d, all) ==
  LET ways == {w \in Ways : <<d, w>> \in DOMAIN all /\ all[<<d, w>>].fired}
  IN IF ways = {} THEN <<>>
     ELSE LET w == CHOOSE x \in ways : TRUE
          IN <<w, all[<<d, w>>].memory[1]>>

Verdicts == [d \in 1..MaxDeferreds |-> Verdict(d, lists)]
WaitingFor == [d \in 1..MaxDeferreds |-> [w \in Ways |-> waiting[<<d, w>>]]]

\* jquery-l.js:3180-3265: each deferred is what module Promise promises, whatever the
\* callbacks do meanwhile: settled once, its callbacks called once and in order.
Promised ==
  INSTANCE Promise WITH Deferreds <- 1..MaxDeferreds, Callbacks <- Nat,
                        verdict <- Verdicts, waiting <- WaitingFor

PromiseImplemented == Promised!PromiseSpec

===============================================================================
