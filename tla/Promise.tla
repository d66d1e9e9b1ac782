-------------------------------- MODULE Promise --------------------------------
(***************************************************************************)
(* What a deferred promises to those who attach callbacks to it: it is     *)
(* settled at most once, one way or the other; then the callbacks of that  *)
(* way are called with the value it was settled with, each once, in the    *)
(* order they were attached in, and those of the other way never.          *)
(***************************************************************************)
EXTENDS SequencesExt

CONSTANTS Deferreds, Ways, Callbacks

VARIABLES verdict,  \* for each deferred: empty, or the way and the value
          waiting,  \* for each deferred and way: callbacks attached and not called
          latest    \* the latest callback called, with its value

promiseVars == <<verdict, waiting, latest>>

PromiseInit ==
  /\ verdict = [d \in Deferreds |-> <<>>]
  /\ waiting = [d \in Deferreds |-> [w \in Ways |-> <<>>]]
  /\ latest = <<>>

Attach(d, w) ==
  /\ waiting'[d][w] # <<>>
  /\ Last(waiting'[d][w]) \in Callbacks
  /\ waiting' = [waiting EXCEPT ![d][w] = Append(@, Last(waiting'[d][w]))]
  /\ UNCHANGED <<verdict, latest>>

Settle(d, w) ==
  /\ verdict[d] = <<>>
  /\ verdict'[d] # <<>> /\ verdict'[d][1] = w
  /\ verdict' = [verdict EXCEPT ![d] = verdict'[d]]
  /\ UNCHANGED <<waiting, latest>>

Call(d, w) ==
  /\ verdict[d] # <<>> /\ verdict[d][1] = w
  /\ waiting[d][w] # <<>>
  /\ latest' = <<Head(waiting[d][w]), verdict[d][2]>>
  /\ waiting' = [waiting EXCEPT ![d][w] = Tail(@)]
  /\ UNCHANGED verdict

PromiseNext == \E d \in Deferreds, w \in Ways : Attach(d, w) \/ Settle(d, w) \/ Call(d, w)

PromiseSpec == PromiseInit /\ [][PromiseNext]_promiseVars

===============================================================================
