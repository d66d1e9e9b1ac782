-------------------------- MODULE ParallelSolrIndexer --------------------------
(***************************************************************************)
(* The threads of ParallelSolrIndexer.run(): the main thread, one Producer *)
(* that loads the files of a list, the Consumers that extract features and *)
(* write one document per image, and the Monitoring thread.  They share a  *)
(* stack of work items guarded by its own monitor (synchronized, wait with *)
(* a timeout, notify), the flag "ended" and the output stream.             *)
(*                                                                         *)
(* A synchronized block is one action, split where wait() releases the     *)
(* monitor: everything it touches is only written under that monitor.  The *)
(* work done on an image outside every monitor is local to its thread.     *)
(***************************************************************************)
EXTENDS Integers, FiniteSets, SequencesExt

CONSTANTS Consumers,        \* the consumer threads; numberOfThreads of them
          Paths,            \* canonical paths of the image files
          FileList,         \* the file list: one path per line
          CacheLimit,       \* 500: more work items than this is too crowded
          IndividualFiles,  \* one file per image instead of one add file
          MaxErrors         \* bound on java.lang.Errors (out of memory)

ASSUME ConstantsAssumption ==
  /\ IsFiniteSet(Consumers)
  /\ FileList \in Seq(Paths)
  /\ CacheLimit \in Nat
  /\ IndividualFiles \in BOOLEAN
  /\ MaxErrors \in Nat

Lines == 1..Len(FileList)   \* a work item is named by the line it came from
NoLine == 0

\* What the add file is made of, besides documents.
AddTag == 0      \* <add>
EndTag == -1     \* </add>
Fragment == -2   \* what a failed write leaves: some of a document, or all of it
                 \* when the stream's buffer goes out with the next write

VARIABLES
  main,          \* control state of the thread in run()
  producer,      \* control state of the Producer
  consumer,      \* control state of each Consumer
  monitoring,    \* control state of the Monitoring thread
  images,        \* the stack of work items, top last
  ended,         \* set by the Producer when the list is read
  cursor,        \* lines the Producer has taken from the list
  tmpSize,       \* Producer: stack size after its last push
  tmp,           \* Consumer: the work item it popped last
  overallCount,  \* work items popped so far
  dos,           \* what was written to the add file
  content,       \* individual files: state of the document file of each path
  documented,    \* lines whose document was written without an exception
  unreadable,    \* lines reported with "Could not read image"
  failed,        \* lines reported with "Error processing file"
  listBroken,    \* reading the list ended with an IOException
  errors         \* Errors so far

threadVars == <<main, producer, consumer, monitoring>>
stackVars == <<images, ended, overallCount>>
producerVars == <<cursor, tmpSize, unreadable, listBroken>>
outputVars == <<dos, content, documented, failed>>
vars == <<threadVars, stackVars, producerVars, tmp, outputVars, errors>>

Init ==
  /\ main = "run"
  /\ producer = "new"
  /\ consumer = [c \in Consumers |-> "new"]
  /\ monitoring = "new"
  /\ images = <<>> /\ ended = FALSE /\ overallCount = 0
  /\ cursor = 0 /\ tmpSize = 0 /\ unreadable = {} /\ listBroken = FALSE
  /\ tmp = [c \in Consumers |-> NoLine]
  /\ dos = <<>> /\ content = [p \in Paths |-> "absent"]
  /\ documented = {} /\ failed = {}
  /\ errors = 0

\* A java.lang.Error: nothing in the program catches one.
Error ==
  /\ errors < MaxErrors
  /\ errors' = errors + 1

--------------------------------------------------------------------------------
(* The monitor of the stack                                                *)

\* notify(): wakes one of the waiting threads.  Only consumers can be found
\* waiting, the Producer being the only thread that notifies.
NotifyOne ==
  IF \E c \in Consumers : consumer[c] = "waiting"
    THEN \E c \in Consumers :
           /\ consumer[c] = "waiting"
           /\ consumer' = [consumer EXCEPT ![c] = "entering"]
    ELSE UNCHANGED consumer

NotifyAll ==
  consumer' = [c \in Consumers |->
                 IF consumer[c] = "waiting" THEN "entering" ELSE consumer[c]]

\* Mutants: a consumer that waits, or stops, without looking at both conditions.
MustWaitEmpty == images = <<>>
ExhaustedEarly == ended

\* The loop condition of a waiting consumer and the condition to stop.
MustWait == images = <<>> /\ ~ended
Exhausted == images = <<>> /\ ended

\* Mutant: the oldest work item is handed out, the newest one removed.
TopIsBottom == Head(images)

\* pop(): the newest work item leaves the stack.
Top == Last(images)

\* Mutant: the size is taken before the push.
SizeBeforePush == Len(images)

\* The size of the stack once the pushed work item is on it.
SizeAfterPush == Len(images')

--------------------------------------------------------------------------------
(* The main thread                                                         *)

\* The add file is created and opened with <add>, then the Producer starts.
OpenOutput ==
  /\ main = "run"
  /\ main' = "starting"
  /\ producer' = "reading"
  /\ dos' = IF IndividualFiles THEN dos ELSE <<AddTag>>
  /\ UNCHANGED <<consumer, monitoring, stackVars, producerVars, tmp, content,
                 documented, failed, errors>>

\* The file list is missing or the add file cannot be created: run() ends with no
\* thread started.
OpenFails ==
  /\ main = "run"
  /\ main' = "failed"
  /\ UNCHANGED <<producer, consumer, monitoring, stackVars, producerVars, tmp,
                 outputVars, errors>>

\* A consumer starts; its first step allocates a 10 MB buffer.
StartConsumer(c) ==
  /\ main = "starting"
  /\ consumer[c] = "new"
  /\ \/ consumer' = [consumer EXCEPT ![c] = "entering"] /\ UNCHANGED errors
     \/ consumer' = [consumer EXCEPT ![c] = "dead"] /\ Error
  /\ UNCHANGED <<main, producer, monitoring, stackVars, producerVars, tmp,
                 outputVars>>

StartMonitoring ==
  /\ main = "starting"
  /\ \A c \in Consumers : consumer[c] # "new"
  /\ main' = "joining"
  /\ monitoring' = "sleeping"
  /\ UNCHANGED <<producer, consumer, stackVars, producerVars, tmp, outputVars,
                 errors>>

\* Mutant: only one thread is joined.
OneJoined == \E c \in Consumers : consumer[c] \in {"done", "dead"}

AllJoined == \A c \in Consumers : consumer[c] \in {"done", "dead"}

\* All consumers are joined; </add> is written and the add file closed.
JoinAndClose ==
  /\ main = "joining"
  /\ AllJoined
  /\ main' = "done"
  /\ dos' = IF IndividualFiles THEN dos ELSE Append(dos, EndTag)
  /\ UNCHANGED <<producer, consumer, monitoring, stackVars, producerVars, tmp,
                 content, documented, failed, errors>>

\* Writing </add> fails: the exception is reported and ends run().
CloseFails ==
  /\ main = "joining"
  /\ AllJoined
  /\ ~IndividualFiles
  /\ main' = "failed"
  /\ dos' = Append(dos, Fragment)
  /\ UNCHANGED <<producer, consumer, monitoring, stackVars, producerVars, tmp,
                 content, documented, failed, errors>>

--------------------------------------------------------------------------------
(* The Producer                                                            *)

\* Mutant: the end of the list is missed by one line.
MoreLinesOffByOne == cursor <= Len(FileList)

\* readLine() has another line to return.
MoreLines == cursor < Len(FileList)

\* After a line: sleep if the stack was too crowded at the last push.
NextLine == IF tmpSize > CacheLimit THEN "sleeping" ELSE "reading"

\* The next line is read and its file loaded into memory.
LoadFile ==
  /\ producer = "reading"
  /\ MoreLines
  /\ cursor' = cursor + 1
  /\ producer' = "adding"
  /\ UNCHANGED <<main, consumer, monitoring, stackVars, tmpSize, unreadable,
                 listBroken, tmp, outputVars, errors>>

\* The file cannot be read: a message on stderr, and on to the next line.
LoadFails ==
  /\ producer = "reading"
  /\ MoreLines
  /\ cursor' = cursor + 1
  /\ unreadable' = unreadable \cup {cursor + 1}
  /\ producer' = NextLine
  /\ UNCHANGED <<main, consumer, monitoring, stackVars, tmpSize, listBroken, tmp,
                 outputVars, errors>>

\* The buffer for the file does not fit: the Producer dies, "ended" stays FALSE.
ProducerDies ==
  /\ producer = "reading"
  /\ MoreLines
  /\ Error
  /\ cursor' = cursor + 1
  /\ producer' = "dead"
  /\ UNCHANGED <<main, consumer, monitoring, stackVars, tmpSize, unreadable,
                 listBroken, tmp, outputVars>>

\* The work item is pushed.  On a crowded stack the Producer waits before it
\* notifies; it gives the monitor up for that time.
Push ==
  /\ producer = "adding"
  /\ images' = Append(images, cursor)
  /\ tmpSize' = SizeAfterPush
  /\ IF tmpSize' > CacheLimit
       THEN producer' = "crowded" /\ UNCHANGED consumer
       ELSE producer' = "reading" /\ NotifyOne
  /\ UNCHANGED <<main, monitoring, ended, overallCount, cursor, unreadable,
                 listBroken, tmp, outputVars, errors>>

\* wait(500) is over.  No consumer ever notifies, so it is the timeout.
CrowdedWaitOver ==
  /\ producer = "crowded"
  /\ NotifyOne
  /\ producer' = NextLine
  /\ UNCHANGED <<main, monitoring, stackVars, producerVars, tmp, outputVars,
                 errors>>

\* sleep(1000) is over.
SleepOver ==
  /\ producer = "sleeping"
  /\ producer' = "reading"
  /\ UNCHANGED <<main, consumer, monitoring, stackVars, producerVars, tmp,
                 outputVars, errors>>

\* The list ends: at its last line, or early with an IOException.
EndOfList ==
  /\ producer = "reading"
  /\ \/ ~MoreLines /\ UNCHANGED listBroken
     \/ listBroken' = TRUE
  /\ producer' = "ending"
  /\ UNCHANGED <<main, consumer, monitoring, stackVars, cursor, tmpSize,
                 unreadable, tmp, outputVars, errors>>

\* "ended" is set and every waiting consumer woken.
SignalEnd ==
  /\ producer = "ending"
  /\ ended' = TRUE
  /\ NotifyAll
  /\ producer' = "done"
  /\ UNCHANGED <<main, monitoring, images, overallCount, producerVars, tmp,
                 outputVars, errors>>

--------------------------------------------------------------------------------
(* The Consumers                                                           *)

\* The stack is empty and not at its end: wait(200) gives the monitor up.
Wait(c) ==
  /\ consumer[c] = "entering"
  /\ MustWait
  /\ consumer' = [consumer EXCEPT ![c] = "waiting"]
  /\ UNCHANGED <<main, producer, monitoring, stackVars, producerVars, tmp,
                 outputVars, errors>>

\* The timeout of wait(200); the loop condition is evaluated again.
WaitOver(c) ==
  /\ consumer[c] = "waiting"
  /\ consumer' = [consumer EXCEPT ![c] = "entering"]
  /\ UNCHANGED <<main, producer, monitoring, stackVars, producerVars, tmp,
                 outputVars, errors>>

\* Mutant: the last round, which pops nothing, is counted too.
StopCounted(c) ==
  /\ consumer[c] = "entering"
  /\ Exhausted
  /\ consumer' = [consumer EXCEPT ![c] = "done"]
  /\ overallCount' = overallCount + 1
  /\ UNCHANGED <<main, producer, monitoring, images, ended, producerVars, tmp,
                 outputVars, errors>>

\* The end has come: locallyEnded is set and the thread ends.
Stop(c) ==
  /\ consumer[c] = "entering"
  /\ Exhausted
  /\ consumer' = [consumer EXCEPT ![c] = "done"]
  /\ UNCHANGED <<main, producer, monitoring, stackVars, producerVars, tmp,
                 outputVars, errors>>

\* A work item is popped and counted.
Pop(c) ==
  /\ consumer[c] = "entering"
  /\ images # <<>>
  /\ ~Exhausted
  /\ tmp' = [tmp EXCEPT ![c] = Top]
  /\ images' = Front(images)
  /\ overallCount' = overallCount + 1
  /\ consumer' = [consumer EXCEPT ![c] = "working"]
  /\ UNCHANGED <<main, producer, monitoring, ended, producerVars, outputVars,
                 errors>>

\* The whole document is appended to the add file under the stream's monitor.
WriteDoc(c) ==
  /\ consumer[c] = "working"
  /\ ~IndividualFiles
  /\ dos' = Append(dos, tmp[c])
  /\ documented' = documented \cup {tmp[c]}
  /\ consumer' = [consumer EXCEPT ![c] = "entering"]
  /\ UNCHANGED <<main, producer, monitoring, stackVars, producerVars, tmp,
                 content, failed, errors>>

\* The document file of the image is created, or truncated if it exists.
OpenDocFile(c) ==
  /\ consumer[c] = "working"
  /\ IndividualFiles
  /\ content' = [content EXCEPT ![FileList[tmp[c]]] = "partial"]
  /\ consumer' = [consumer EXCEPT ![c] = "writing"]
  /\ UNCHANGED <<main, producer, monitoring, stackVars, producerVars, tmp, dos,
                 documented, failed, errors>>

\* The document is written to its file, from the first byte.
WriteDocFile(c) ==
  /\ consumer[c] = "writing"
  /\ content' = [content EXCEPT ![FileList[tmp[c]]] = "complete"]
  /\ documented' = documented \cup {tmp[c]}
  /\ consumer' = [consumer EXCEPT ![c] = "entering"]
  /\ UNCHANGED <<main, producer, monitoring, stackVars, producerVars, tmp, dos,
                 failed, errors>>

\* An exception before anything of the document is written: no image in the
\* file, a feature that cannot be extracted, a file that cannot be created.
ProcessFails(c) ==
  /\ consumer[c] = "working"
  /\ failed' = failed \cup {tmp[c]}
  /\ consumer' = [consumer EXCEPT ![c] = "entering"]
  /\ UNCHANGED <<main, producer, monitoring, stackVars, producerVars, tmp, dos,
                 content, documented, errors>>

\* An exception while the document is written: a fragment goes to the add file;
\* a document file keeps what another thread wrote to it since it was opened.
WriteFails(c) ==
  /\ \/ consumer[c] = "working" /\ ~IndividualFiles /\ dos' = Append(dos, Fragment)
     \/ consumer[c] = "writing" /\ UNCHANGED dos
  /\ failed' = failed \cup {tmp[c]}
  /\ consumer' = [consumer EXCEPT ![c] = "entering"]
  /\ UNCHANGED <<main, producer, monitoring, stackVars, producerVars, tmp,
                 content, documented, errors>>

\* An Error while it works on an image kills the thread, without a report.
ConsumerDies(c) ==
  /\ consumer[c] \in {"working", "writing"}
  /\ Error
  /\ consumer' = [consumer EXCEPT ![c] = "dead"]
  /\ UNCHANGED <<main, producer, monitoring, stackVars, producerVars, tmp,
                 outputVars>>

--------------------------------------------------------------------------------
(* Monitoring, and the specification                                       *)

\* It looks at "ended" once per interval; run() does not join it.
MonitoringStops ==
  /\ monitoring = "sleeping"
  /\ ended
  /\ monitoring' = "done"
  /\ UNCHANGED <<main, producer, consumer, stackVars, producerVars, tmp,
                 outputVars, errors>>

\* The status line of each interval changes nothing.
MonitoringReports ==
  /\ monitoring = "sleeping"
  /\ ~ended
  /\ UNCHANGED vars

\* Every thread that was started is over: the JVM exits.
Terminated ==
  /\ main \in {"done", "failed"}
  /\ producer \in {"new", "done", "dead"}
  /\ \A c \in Consumers : consumer[c] \in {"new", "done", "dead"}
  /\ monitoring \in {"new", "done"}
  /\ UNCHANGED vars

MainNext ==
  \/ OpenOutput \/ OpenFails
  \/ \E c \in Consumers : StartConsumer(c)
  \/ StartMonitoring \/ JoinAndClose \/ CloseFails

ProducerNext ==
  \/ LoadFile \/ LoadFails \/ ProducerDies \/ Push \/ CrowdedWaitOver
  \/ SleepOver \/ EndOfList \/ SignalEnd

ConsumerNext(c) ==
  \/ Wait(c) \/ WaitOver(c) \/ Stop(c) \/ Pop(c)
  \/ WriteDoc(c) \/ OpenDocFile(c) \/ WriteDocFile(c)
  \/ ProcessFails(c) \/ WriteFails(c) \/ ConsumerDies(c)

Next ==
  \/ MainNext
  \/ ProducerNext
  \/ \E c \in Consumers : ConsumerNext(c)
  \/ MonitoringStops \/ MonitoringReports
  \/ Terminated

Spec == Init /\ [][Next]_vars

\* Every thread is scheduled again and again, and timed waits end.
Fairness ==
  /\ WF_vars(MainNext)
  /\ WF_vars(ProducerNext)
  /\ \A c \in Consumers : WF_vars(ConsumerNext(c))
  /\ WF_vars(MonitoringStops)

FairSpec == Spec /\ Fairness

--------------------------------------------------------------------------------
(* Where a line of the list can be                                         *)

InWork(c) == consumer[c] \in {"working", "writing"}

Adding == IF producer = "adding" THEN {cursor} ELSE {}
InHands == {tmp[c] : c \in {d \in Consumers : InWork(d)}}

\* Lines an Error took away together with the thread that had them.
LostByConsumers ==
  {tmp[c] : c \in {d \in Consumers : consumer[d] = "dead"}} \ {NoLine}
LostByProducer == IF producer = "dead" THEN {cursor} ELSE {}
Lost == LostByConsumers \cup LostByProducer

Settled == documented \cup unreadable \cup failed \cup Lost

(* Invariants                                                              *)

TypeOK ==
  /\ main \in {"run", "starting", "joining", "done", "failed"}
  /\ producer \in {"new", "reading", "adding", "crowded", "sleeping", "ending",
                   "done", "dead"}
  /\ consumer \in [Consumers -> {"new", "entering", "waiting", "working",
                                 "writing", "done", "dead"}]
  /\ monitoring \in {"new", "sleeping", "done"}
  /\ images \in Seq(Lines)
  /\ ended \in BOOLEAN
  /\ cursor \in 0..Len(FileList)
  /\ tmpSize \in Nat
  /\ tmp \in [Consumers -> Lines \cup {NoLine}]
  /\ overallCount \in Nat
  /\ dos \in Seq(Lines \cup {AddTag, EndTag, Fragment})
  /\ content \in [Paths -> {"absent", "partial", "complete"}]
  /\ documented \subseteq Lines
  /\ unreadable \subseteq Lines
  /\ failed \subseteq Lines
  /\ listBroken \in BOOLEAN
  /\ errors \in 0..MaxErrors

\* Every line taken from the list is in exactly one place: in the Producer's
\* hands, on the stack, in the hands of one consumer, or settled in one way.  No
\* interleaving of push, pop, timeouts and failures drops or doubles an image.
OnePlace ==
  /\ 1..cursor = Adding \cup ToSet(images) \cup InHands \cup Settled
  /\ Adding \cap (ToSet(images) \cup InHands \cup Settled) = {}
  /\ ToSet(images) \cap (InHands \cup Settled) = {}
  /\ InHands \cap Settled = {}
  /\ documented \cap (unreadable \cup failed \cup Lost) = {}
  /\ unreadable \cap (failed \cup Lost) = {}
  /\ failed \cap Lost = {}
  /\ IsInjective(images)
  /\ \A c, d \in Consumers :
        InWork(c) /\ InWork(d) /\ tmp[c] = tmp[d] => c = d

\* When run() reports that it is done and a consumer has lived to see the end,
\* the whole list was read (unless reading it broke off) and every line of it has
\* a document or a message, or died with its thread.
Complete ==
  main = "done" /\ (\E c \in Consumers : consumer[c] = "done")
    => /\ cursor = Len(FileList) \/ listBroken
       /\ 1..cursor = Settled

\* The number of images the final report speaks of is the number of images some
\* consumer took up: those with a document, those with a message, and those in
\* work or lost.  The count is shared by all consumers.
Counted ==
  overallCount =
    Cardinality(documented \cup failed \cup InHands \cup LostByConsumers)

\* What the Producer remembers of the stack between two pushes is never below the
\* real size, so that it cannot miss a crowded stack.
CrowdedIsNoticed == Len(images) <= tmpSize

\* The add file: each documented line once and no other line; after a normal end
\* one <add> at the start, one </add> at the very end (no consumer writes behind
\* it), and no fragment unless a message was printed for a failed line.
AddFile ==
  ~IndividualFiles =>
    /\ \A i \in documented :
         Cardinality({k \in DOMAIN dos : dos[k] = i}) = 1
    /\ \A k \in DOMAIN dos :
         /\ dos[k] \in Lines => dos[k] \in documented
         /\ dos[k] = AddTag <=> k = 1
         /\ dos[k] = EndTag <=> main = "done" /\ k = Len(dos)
         /\ dos[k] = Fragment => failed # {} \/ main = "failed"

\* Individual files: after a normal end the file of each documented line is
\* complete, unless another line of the list names the same image and failed.
FilesComplete ==
  IndividualFiles /\ main = "done" =>
    \A i \in documented :
      \/ content[FileList[i]] = "complete"
      \/ \E j \in failed \cup Lost : FileList[j] = FileList[i]

--------------------------------------------------------------------------------
(* Temporal properties                                                     *)

\* The job as its user sees it: what became of line i, and which threads are left.
VerdictOf(i) ==
  IF i > cursor THEN "unread"
  ELSE IF i \in documented THEN "documented"
  ELSE IF i \in unreadable \cup failed THEN "reported"
  ELSE IF i \in Lost THEN "lost"
  ELSE "accepted"

Alive == {c \in Consumers : consumer[c] # "dead"}

Job == INSTANCE IndexingJob WITH
  Workers <- Consumers,
  verdict <- [i \in Lines |-> VerdictOf(i)],
  alive <- Alive,
  finished <- main = "done"

\* The threads, the stack and the timeouts implement the indexing job: no verdict
\* is revised, and run() does not end before all accepted lines have theirs.
JobImplemented == Job!JobSpec

\* run() and all the threads it started come to their end, so that the JVM exits,
\* unless an Error kills the Producer; lost or stolen notifications and consumers
\* killed by an Error do not prevent it.
JobExits ==
  <>(\/ /\ main \in {"done", "failed"}
        /\ producer \in {"new", "done"}
        /\ \A c \in Consumers : consumer[c] \in {"new", "done", "dead"}
        /\ monitoring \in {"new", "done"}
     \/ producer = "dead")

\* "We wait for the stack to be either filled or empty & not being filled any
\* more": consumers do not wait for ever once nobody fills the stack any more.
WaitsOnlyWhileFilled ==
  producer \in {"done", "dead"} ~> AllJoined

================================================================================
