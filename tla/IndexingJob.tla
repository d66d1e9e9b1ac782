------------------------------ MODULE IndexingJob ------------------------------
(***************************************************************************)
(* What the parallel indexing application promises, without its threads,   *)
(* its stack and its timeouts: every line of the file list is accepted at  *)
(* most once, every accepted line gets one final verdict, and the job is   *)
(* not finished before every accepted line has its verdict, as long as a   *)
(* worker is left to give it.                                              *)
(***************************************************************************)
EXTENDS Naturals

CONSTANTS Lines,    \* the lines of the file list
          Workers   \* the extraction threads

VARIABLES verdict,  \* what became of each line so far
          alive,    \* the workers that have not been killed by an Error
          finished  \* run() has returned normally

jobVars == <<verdict, alive, finished>>

Verdicts == {"unread", "accepted", "documented", "reported", "lost"}

JobInit ==
  /\ verdict = [i \in Lines |-> "unread"]
  /\ alive = Workers
  /\ finished = FALSE

\* The producer takes line i from the list: its image is queued, or the line is
\* reported on stderr at once, or an Error kills the producer over it.
Accept(i) ==
  /\ verdict[i] = "unread"
  /\ \E v \in {"accepted", "reported", "lost"} :
        verdict' = [verdict EXCEPT ![i] = v]
  /\ UNCHANGED <<alive, finished>>

\* A worker that is still alive settles line i, before the job is finished.
Settle(i) ==
  /\ verdict[i] = "accepted"
  /\ alive # {}
  /\ ~finished
  /\ \E v \in {"documented", "reported"} :
        verdict' = [verdict EXCEPT ![i] = v]
  /\ UNCHANGED <<alive, finished>>

\* An Error kills worker w, with the line it was working on if it had one.
Crash(w) ==
  /\ w \in alive
  /\ alive' = alive \ {w}
  /\ \/ UNCHANGED verdict
     \/ \E i \in Lines :
          /\ verdict[i] = "accepted"
          /\ verdict' = [verdict EXCEPT ![i] = "lost"]
  /\ UNCHANGED finished

\* The job may finish with accepted lines open only when no worker is left.
Finish ==
  /\ ~finished
  /\ alive # {} => \A i \in Lines : verdict[i] # "accepted"
  /\ finished' = TRUE
  /\ UNCHANGED <<verdict, alive>>

JobNext ==
  \/ \E i \in Lines : Accept(i) \/ Settle(i)
  \/ \E w \in Workers : Crash(w)
  \/ Finish

JobSpec == JobInit /\ [][JobNext]_jobVars

================================================================================
