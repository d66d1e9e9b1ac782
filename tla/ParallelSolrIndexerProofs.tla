----------------------- MODULE ParallelSolrIndexerProofs -----------------------
(***************************************************************************)
(* Theorems about ParallelSolrIndexer, for any number of consumers, any    *)
(* file list and any number of Errors: the lines, the stack and the job;   *)
(* then the number of images and the files that are written.               *)
(***************************************************************************)
EXTENDS ParallelSolrIndexer, SequenceTheorems, FiniteSetTheorems, TLAPS

--------------------------------------------------------------------------------
(* The stack                                                               *)

\* What a push does to the work items on a stack.
LEMMA PushProperties ==
  ASSUME NEW S, NEW s \in Seq(S), NEW x \in S
  PROVE  /\ Append(s, x) \in Seq(S)
         /\ Append(s, x) # <<>>
         /\ ToSet(Append(s, x)) = ToSet(s) \cup {x}
         /\ IsInjective(s) /\ x \notin ToSet(s) => IsInjective(Append(s, x))
  <1>1. /\ Append(s, x) \in Seq(S)
        /\ Append(s, x) # <<>>
        /\ DOMAIN s = 1..Len(s)
        /\ DOMAIN Append(s, x) = 1..(Len(s) + 1)
        /\ Len(s) \in Nat
        /\ \A i \in 1..Len(s) : Append(s, x)[i] = s[i]
        /\ Append(s, x)[Len(s) + 1] = x
    BY AppendProperties, LenProperties
  <1> QED
    BY <1>1 DEF ToSet, IsInjective

\* What a pop does to the work items on a stack.
LEMMA PopProperties ==
  ASSUME NEW S, NEW s \in Seq(S), s # <<>>
  PROVE  /\ Front(s) \in Seq(S)
         /\ Last(s) \in S
         /\ Len(Front(s)) = Len(s) - 1
         /\ ToSet(s) = ToSet(Front(s)) \cup {Last(s)}
         /\ IsInjective(s) => /\ Last(s) \notin ToSet(Front(s))
                              /\ IsInjective(Front(s))
  <1>1. /\ Len(s) \in Nat \ {0}
        /\ Len(Front(s)) = Len(s) - 1
        /\ \A i \in 1..Len(s) - 1 : Front(s)[i] = s[i]
        /\ Front(s) \in Seq(S)
        /\ \A i \in 1..Len(s) : s[i] \in S
        /\ DOMAIN s = 1..Len(s)
        /\ DOMAIN Front(s) = 1..(Len(s) - 1)
    <2>1. /\ Len(s) \in Nat \ {0}
          /\ \A i \in 1..Len(s) : s[i] \in S
          /\ DOMAIN s = 1..Len(s)
      BY EmptySeq, LenProperties
    <2>2. /\ Front(s) \in Seq(S)
          /\ Len(Front(s)) = Len(s) - 1
          /\ \A i \in 1..Len(s) - 1 : Front(s)[i] = s[i]
      <3>1. /\ SubSeq(s, 1, Len(s) - 1) \in Seq(S)
            /\ Len(SubSeq(s, 1, Len(s) - 1)) =
                 IF 1 <= Len(s) - 1 THEN Len(s) - 1 - 1 + 1 ELSE 0
            /\ \A i \in 1..(Len(s) - 1 - 1 + 1) :
                 SubSeq(s, 1, Len(s) - 1)[i] = s[1 + i - 1]
        BY <2>1, SubSeqProperties
      <3> QED
        BY <2>1, <3>1 DEF Front
    <2>3. DOMAIN Front(s) = 1..(Len(s) - 1)
      BY <2>2, LenProperties
    <2> QED
      BY <2>1, <2>2, <2>3
  <1> QED
    BY <1>1 DEF ToSet, IsInjective, Last

--------------------------------------------------------------------------------
(* Types                                                                   *)

\* TypeOK is inductive together with the fact that a thread has a line exactly
\* when it has taken one up.
AtWork ==
  /\ main = "run" => producer = "new"
  /\ producer \in {"adding", "dead"} => cursor # 0
  /\ \A c \in Consumers : InWork(c) => tmp[c] # NoLine
  /\ \A c \in Consumers : consumer[c] = "new" => tmp[c] = NoLine

TypeInv == TypeOK /\ AtWork

LEMMA TypeInit == Init => TypeInv
  <1>1. Len(FileList) \in Nat
    BY ConstantsAssumption, LenProperties
  <1>2. <<>> \in Seq(Lines) /\ <<>> \in Seq(Lines \cup {AddTag, EndTag, Fragment})
    BY EmptySeq
  <1>3. Init => TypeOK
    <2> SUFFICES ASSUME Init PROVE TypeOK
      OBVIOUS
    <2>1. cursor \in 0..Len(FileList) /\ errors \in 0..MaxErrors
      BY <1>1, ConstantsAssumption DEF Init
    <2>2. images \in Seq(Lines) /\ dos \in Seq(Lines \cup {AddTag, EndTag, Fragment})
      BY <1>2 DEF Init
    <2> QED
      BY <2>1, <2>2 DEF Init, TypeOK
  <1>4. Init => AtWork
    BY DEF Init, AtWork, InWork
  <1> QED
    BY <1>3, <1>4 DEF TypeInv

LEMMA TypeMainStep == TypeInv /\ MainNext => TypeInv'
  <1> SUFFICES ASSUME TypeInv, MainNext PROVE TypeInv'
    OBVIOUS
  <1> USE DEF TypeInv, TypeOK, AtWork, InWork
  <1>1. CASE OpenOutput
    <2>1. <<AddTag>> \in Seq(Lines \cup {AddTag, EndTag, Fragment})
      BY DEF AddTag
    <2> QED
      BY <1>1, <2>1 DEF OpenOutput, stackVars, producerVars
  <1>2. CASE OpenFails
    BY <1>2 DEF OpenFails, stackVars, producerVars, outputVars
  <1>3. ASSUME NEW c \in Consumers, StartConsumer(c) PROVE TypeInv'
    <2>1. /\ consumer' \in [Consumers -> {"new", "entering", "waiting", "working",
                                          "writing", "done", "dead"}]
          /\ \A d \in Consumers : consumer'[d] = consumer[d] \/ ~InWork(d)'
          /\ \A d \in Consumers : consumer'[d] = "new" => consumer[d] = "new"
      BY <1>3 DEF StartConsumer
    <2>2. errors' \in 0..MaxErrors
      BY <1>3, ConstantsAssumption DEF StartConsumer, Error
    <2> QED
      BY <1>3, <2>1, <2>2 DEF StartConsumer, stackVars, producerVars, outputVars
  <1>4. CASE StartMonitoring
    BY <1>4 DEF StartMonitoring, stackVars, producerVars, outputVars
  <1>5. CASE JoinAndClose
    BY <1>5 DEF JoinAndClose, stackVars, producerVars
  <1>6. CASE CloseFails
    BY <1>6 DEF CloseFails, stackVars, producerVars
  <1> QED
    BY <1>1, <1>2, <1>3, <1>4, <1>5, <1>6 DEF MainNext

LEMMA TypeProducerStep == TypeInv /\ ProducerNext => TypeInv'
  <1> SUFFICES ASSUME TypeInv, ProducerNext PROVE TypeInv'
    OBVIOUS
  <1> USE ConstantsAssumption
      DEF TypeInv, TypeOK, AtWork, InWork, MoreLines, NextLine
  <1>1. CASE LoadFile
    BY <1>1 DEF LoadFile, stackVars, outputVars
  <1>2. CASE LoadFails
    BY <1>2 DEF LoadFails, Lines, stackVars, outputVars
  <1>3. CASE ProducerDies
    BY <1>3 DEF ProducerDies, Error, stackVars, outputVars
  <1>4. CASE Push
    <2>1. images' \in Seq(Lines) /\ tmpSize' \in Nat
      BY <1>4, PushProperties DEF Push, Lines, SizeAfterPush
    <2>2. consumer' \in [Consumers -> {"new", "entering", "waiting", "working",
                                       "writing", "done", "dead"}]
      BY <1>4 DEF Push, NotifyOne
    <2>3. \A c \in Consumers : InWork(c)' => InWork(c)
      BY <1>4 DEF Push, NotifyOne
    <2>4. \A c \in Consumers : consumer'[c] = "new" => consumer[c] = "new"
      BY <1>4 DEF Push, NotifyOne
    <2>5. AtWork'
      BY <1>4, <2>3, <2>4 DEF Push, outputVars
    <2> QED
      BY <1>4, <2>1, <2>2, <2>5 DEF Push, outputVars
  <1>5. CASE CrowdedWaitOver
    BY <1>5 DEF CrowdedWaitOver, NotifyOne, stackVars, producerVars, outputVars
  <1>6. CASE SleepOver
    BY <1>6 DEF SleepOver, stackVars, producerVars, outputVars
  <1>7. CASE EndOfList
    BY <1>7 DEF EndOfList, stackVars, outputVars
  <1>8. CASE SignalEnd
    BY <1>8 DEF SignalEnd, NotifyAll, producerVars, outputVars
  <1> QED
    BY <1>1, <1>2, <1>3, <1>4, <1>5, <1>6, <1>7, <1>8 DEF ProducerNext

LEMMA TypeConsumerStep ==
  ASSUME TypeInv, NEW c \in Consumers, ConsumerNext(c)
  PROVE  TypeInv'
  <1> USE ConstantsAssumption
      DEF TypeInv, TypeOK, AtWork, InWork
  <1>1. CASE Wait(c)
    BY <1>1 DEF Wait, stackVars, producerVars, outputVars
  <1>2. CASE WaitOver(c)
    BY <1>2 DEF WaitOver, stackVars, producerVars, outputVars
  <1>3. CASE Stop(c)
    BY <1>3 DEF Stop, stackVars, producerVars, outputVars
  <1>4. CASE Pop(c)
    <2>1. Front(images) \in Seq(Lines) /\ Top \in Lines
      BY <1>4, PopProperties DEF Pop, Top
    <2>2. Lines \subseteq Nat \ {NoLine}
      BY DEF Lines, NoLine
    <2> QED
      BY <1>4, <2>1, <2>2 DEF Pop, producerVars, outputVars
  <1>5. CASE WriteDoc(c)
    BY <1>5 DEF WriteDoc, stackVars, producerVars
  <1>6. CASE OpenDocFile(c)
    BY <1>6 DEF OpenDocFile, stackVars, producerVars
  <1>7. CASE WriteDocFile(c)
    BY <1>7 DEF WriteDocFile, stackVars, producerVars
  <1>8. CASE ProcessFails(c)
    BY <1>8 DEF ProcessFails, stackVars, producerVars
  <1>9. CASE WriteFails(c)
    <2>1. failed' \subseteq Lines
      BY <1>9 DEF WriteFails
    <2>2. dos' \in Seq(Lines \cup {AddTag, EndTag, Fragment})
      <3>1. Append(dos, Fragment) \in Seq(Lines \cup {AddTag, EndTag, Fragment})
        BY PushProperties
      <3> QED
        BY <1>9, <3>1 DEF WriteFails
    <2> QED
      BY <1>9, <2>1, <2>2 DEF WriteFails, stackVars, producerVars
  <1>10. CASE ConsumerDies(c)
    BY <1>10 DEF ConsumerDies, Error, stackVars, producerVars, outputVars
  <1> QED
    BY <1>1, <1>2, <1>3, <1>4, <1>5, <1>6, <1>7, <1>8, <1>9, <1>10
    DEF ConsumerNext

LEMMA TypeStep == TypeInv /\ [Next]_vars => TypeInv'
  <1> SUFFICES ASSUME TypeInv, [Next]_vars PROVE TypeInv'
    OBVIOUS
  <1>1. CASE MonitoringStops
    BY <1>1 DEF MonitoringStops, TypeInv, TypeOK, AtWork, InWork, stackVars,
                producerVars, outputVars
  <1>2. CASE UNCHANGED vars
    BY <1>2 DEF vars, threadVars, TypeInv, TypeOK, AtWork, InWork, stackVars,
                producerVars, outputVars
  <1> QED
    BY <1>1, <1>2, TypeMainStep, TypeProducerStep, TypeConsumerStep
    DEF Next, MonitoringReports, Terminated

\* All variables keep to their types: a line taken up is a line of the list, and
\* no thread adds, counts or writes a work item it does not have.
THEOREM TypeCorrect == Spec => []TypeOK
  <1>1. Init => TypeInv
    BY TypeInit
  <1>2. TypeInv /\ [Next]_vars => TypeInv'
    BY TypeStep
  <1>3. TypeInv => TypeOK
    BY DEF TypeInv
  <1> QED
    BY <1>1, <1>2, <1>3, PTL DEF Spec

--------------------------------------------------------------------------------
(* Where the lines are                                                     *)

\* A step that takes no line up and puts none down leaves every line in its place.
LEMMA SamePlaces ==
  ASSUME TypeInv, OnePlace,
         UNCHANGED <<cursor, images, documented, unreadable, failed, tmp>>,
         Adding' = Adding, LostByProducer' = LostByProducer,
         \A c \in Consumers : InWork(c)' <=> InWork(c),
         \A c \in Consumers :
            consumer'[c] = "dead" /\ consumer[c] # "dead" => tmp[c] = NoLine,
         \A c \in Consumers : consumer[c] = "dead" => consumer'[c] = "dead"
  PROVE  OnePlace'
  <1>1. InHands' = InHands
    BY DEF InHands
  <1>2. LostByConsumers' = LostByConsumers
    BY DEF LostByConsumers
  <1>3. Settled' = Settled /\ Lost' = Lost
    BY <1>2 DEF Settled, Lost
  <1> QED
    BY <1>1, <1>3 DEF OnePlace

\* A step in which consumer c, at work on a line, leaves it: the line goes from its
\* hands to the documented, the failed or the lost lines, and nothing else moves.
LEMMA PutDown ==
  ASSUME TypeInv, OnePlace, NEW c \in Consumers, InWork(c),
         UNCHANGED <<cursor, images, unreadable, tmp, producer>>,
         NEW state \in {"entering", "dead"},
         consumer' = [consumer EXCEPT ![c] = state],
         \/ /\ state = "entering"
            /\ documented' = documented \cup {tmp[c]} /\ UNCHANGED failed
         \/ /\ state = "entering"
            /\ failed' = failed \cup {tmp[c]} /\ UNCHANGED documented
         \/ /\ state = "dead" /\ UNCHANGED <<documented, failed>>
  PROVE  OnePlace'
  <1>1. InHands' = InHands \ {tmp[c]} /\ tmp[c] \in InHands
    BY DEF InHands, OnePlace, InWork, TypeInv, TypeOK
  <1>2. \A d \in Consumers : InWork(d)' => InWork(d)
    BY DEF InWork, TypeInv, TypeOK
  <1>3. Adding' = Adding /\ LostByProducer' = LostByProducer
    BY DEF Adding, LostByProducer
  <1>4. CASE state = "entering"
    <2>1. LostByConsumers' = LostByConsumers
      BY <1>4 DEF LostByConsumers, InWork, TypeInv, TypeOK
    <2> QED
      BY <1>1, <1>2, <1>3, <1>4, <2>1 DEF OnePlace, Settled, Lost
  <1>5. CASE state = "dead"
    <2>1. LostByConsumers' = LostByConsumers \cup {tmp[c]}
      BY <1>5 DEF LostByConsumers, InWork, TypeInv, TypeOK, AtWork
    <2> QED
      BY <1>1, <1>2, <1>3, <1>5, <2>1 DEF OnePlace, Settled, Lost
  <1> QED
    BY <1>4, <1>5

LEMMA PlacesMainStep == TypeInv /\ OnePlace /\ MainNext => OnePlace'
  <1> SUFFICES ASSUME TypeInv, OnePlace, MainNext PROVE OnePlace'
    OBVIOUS
  <1>1. ASSUME NEW c \in Consumers, StartConsumer(c) PROVE OnePlace'
    BY <1>1, SamePlaces
    DEF StartConsumer, Adding, LostByProducer, InWork, TypeInv, TypeOK, AtWork,
        stackVars, producerVars, outputVars
  <1>2. ASSUME OpenOutput \/ OpenFails \/ StartMonitoring \/ JoinAndClose \/ CloseFails
        PROVE  OnePlace'
    <2>1. /\ UNCHANGED <<cursor, images, documented, unreadable, failed, tmp, consumer>>
          /\ producer' # producer => producer = "new" /\ producer' = "reading"
      BY <1>2 DEF OpenOutput, OpenFails, StartMonitoring, JoinAndClose, CloseFails,
                  stackVars, producerVars, outputVars, TypeInv, AtWork
    <2> QED
      BY <2>1, SamePlaces DEF Adding, LostByProducer, InWork
  <1> QED
    BY <1>1, <1>2 DEF MainNext

LEMMA PlacesProducerStep == TypeInv /\ OnePlace /\ ProducerNext => OnePlace'
  <1> SUFFICES ASSUME TypeInv, OnePlace, ProducerNext PROVE OnePlace'
    OBVIOUS
  <1>1. ASSUME UNCHANGED <<images, consumer, tmp, documented, failed>>,
               cursor' = cursor + 1, producer = "reading",
               \/ /\ unreadable' = unreadable \cup {cursor'}
                  /\ producer' \in {"reading", "sleeping"}
               \/ unreadable' = unreadable /\ producer' \in {"adding", "dead"}
        PROVE  OnePlace'
    <2>1. InHands' = InHands /\ LostByConsumers' = LostByConsumers
      BY <1>1 DEF InHands, InWork, LostByConsumers
    <2>2. 1..cursor' = 1..cursor \cup {cursor'} /\ cursor' \notin 1..cursor
      BY <1>1 DEF TypeInv, TypeOK
    <2>3. Adding = {} /\ LostByProducer = {}
      BY <1>1 DEF Adding, LostByProducer
    <2>4. CASE producer' \in {"reading", "sleeping"}
      <3>1. Adding' = {} /\ LostByProducer' = {}
        BY <2>4 DEF Adding, LostByProducer
      <3>2. unreadable' = unreadable \cup {cursor'}
        BY <1>1, <2>4
      <3> QED
        BY <1>1, <2>1, <2>2, <2>3, <3>1, <3>2
        DEF OnePlace, Settled, Lost, InWork
    <2>5. CASE producer' \in {"adding", "dead"}
      <3>1. unreadable' = unreadable
        BY <1>1, <2>5
      <3>2. \/ Adding' = {cursor'} /\ LostByProducer' = {}
            \/ Adding' = {} /\ LostByProducer' = {cursor'}
        BY <2>5 DEF Adding, LostByProducer
      <3> QED
        BY <1>1, <2>1, <2>2, <2>3, <3>1, <3>2
        DEF OnePlace, Settled, Lost, InWork
    <2> QED
      BY <1>1, <2>4, <2>5
  <1>2. ASSUME UNCHANGED <<cursor, images, documented, unreadable, failed, tmp>>,
               {producer, producer'} \cap {"adding", "dead"} = {},
               \A c \in Consumers : InWork(c)' <=> InWork(c),
               \A c \in Consumers : consumer'[c] = "dead" <=> consumer[c] = "dead"
        PROVE  OnePlace'
    BY <1>2, SamePlaces DEF Adding, LostByProducer
  <1>3. CASE LoadFile
    BY <1>3, <1>1 DEF LoadFile, stackVars, outputVars
  <1>4. CASE LoadFails
    BY <1>4, <1>1 DEF LoadFails, NextLine, stackVars, outputVars
  <1>5. CASE ProducerDies
    BY <1>5, <1>1 DEF ProducerDies, stackVars, outputVars
  <1>6. CASE Push
    <2>1. /\ cursor \in Lines
          /\ Adding = {cursor} /\ Adding' = {}
          /\ LostByProducer' = LostByProducer
      BY <1>6, ConstantsAssumption, LenProperties
      DEF Push, Adding, LostByProducer, TypeInv, TypeOK, AtWork, Lines
    <2>2. InHands' = InHands /\ LostByConsumers' = LostByConsumers
      BY <1>6 DEF Push, NotifyOne, InHands, InWork, LostByConsumers, TypeInv,
                  TypeOK, outputVars
    <2>3. \A c \in Consumers : InWork(c)' => InWork(c)
      BY <1>6 DEF Push, NotifyOne, InWork, TypeInv, TypeOK
    <2>4. cursor \notin ToSet(images)
      BY <2>1 DEF OnePlace
    <2>5. /\ ToSet(images') = ToSet(images) \cup {cursor}
          /\ IsInjective(images')
      BY <1>6, <2>1, <2>4, PushProperties DEF Push, TypeInv, TypeOK, OnePlace
    <2>6. UNCHANGED <<cursor, documented, unreadable, failed, tmp>>
      BY <1>6 DEF Push, outputVars
    <2> QED
      BY <2>1, <2>2, <2>3, <2>5, <2>6 DEF OnePlace, Settled, Lost
  <1>7. CASE CrowdedWaitOver
    <2>1. /\ \A c \in Consumers : InWork(c)' <=> InWork(c)
          /\ \A c \in Consumers : consumer'[c] = "dead" <=> consumer[c] = "dead"
      BY <1>7 DEF CrowdedWaitOver, NotifyOne, InWork, TypeInv, TypeOK
    <2> QED
      BY <1>7, <1>2, <2>1
      DEF CrowdedWaitOver, NextLine, stackVars, producerVars, outputVars
  <1>8. CASE SleepOver
    BY <1>8, <1>2 DEF SleepOver, InWork, stackVars, producerVars, outputVars
  <1>9. CASE EndOfList
    BY <1>9, <1>2 DEF EndOfList, InWork, stackVars, outputVars
  <1>10. CASE SignalEnd
    <2>1. /\ \A c \in Consumers : InWork(c)' <=> InWork(c)
          /\ \A c \in Consumers : consumer'[c] = "dead" <=> consumer[c] = "dead"
      BY <1>10 DEF SignalEnd, NotifyAll, InWork, TypeInv, TypeOK
    <2> QED
      BY <1>10, <1>2, <2>1 DEF SignalEnd, producerVars, outputVars
  <1> QED
    BY <1>3, <1>4, <1>5, <1>6, <1>7, <1>8, <1>9, <1>10 DEF ProducerNext

LEMMA PlacesConsumerStep ==
  ASSUME TypeInv, OnePlace, NEW c \in Consumers, ConsumerNext(c)
  PROVE  OnePlace'
  <1>1. ASSUME UNCHANGED <<cursor, images, documented, unreadable, failed, tmp, producer>>,
               NEW state, consumer' = [consumer EXCEPT ![c] = state],
               state \in {"waiting", "entering", "done"}, ~InWork(c),
               consumer[c] # "dead"
        PROVE  OnePlace'
    <2>1. /\ \A d \in Consumers : InWork(d)' <=> InWork(d)
          /\ \A d \in Consumers : consumer'[d] = "dead" <=> consumer[d] = "dead"
      BY <1>1 DEF InWork, TypeInv, TypeOK
    <2> QED
      BY <1>1, <2>1, SamePlaces DEF Adding, LostByProducer
  <1>2. CASE Wait(c)
    BY <1>2, <1>1 DEF Wait, InWork, stackVars, producerVars, outputVars
  <1>3. CASE WaitOver(c)
    BY <1>3, <1>1 DEF WaitOver, InWork, stackVars, producerVars, outputVars
  <1>4. CASE Stop(c)
    BY <1>4, <1>1 DEF Stop, InWork, stackVars, producerVars, outputVars
  <1>5. CASE Pop(c)
    <2>1. /\ Top \notin ToSet(images') /\ ToSet(images) = ToSet(images') \cup {Top}
          /\ IsInjective(images')
      BY <1>5, PopProperties DEF Pop, Top, OnePlace, TypeInv, TypeOK
    <2>2. /\ InHands' = InHands \cup {Top}
          /\ LostByConsumers' = LostByConsumers
      BY <1>5 DEF Pop, InHands, LostByConsumers, InWork, TypeInv, TypeOK
    <2>3. Top \notin InHands
      BY <2>1 DEF OnePlace
    <2>4. \A d \in Consumers \ {c} : tmp'[d] = tmp[d] /\ (InWork(d)' <=> InWork(d))
      BY <1>5 DEF Pop, InWork, TypeInv, TypeOK
    <2>5. tmp'[c] = Top
      BY <1>5 DEF Pop, TypeInv, TypeOK
    <2>6. \A d, e \in Consumers :
            InWork(d)' /\ InWork(e)' /\ tmp'[d] = tmp'[e] => d = e
      BY <2>3, <2>4, <2>5 DEF OnePlace, InHands
    <2>7. Adding' = Adding /\ LostByProducer' = LostByProducer
      BY <1>5 DEF Pop, Adding, LostByProducer, producerVars
    <2>8. UNCHANGED <<cursor, documented, unreadable, failed>>
      BY <1>5 DEF Pop, producerVars, outputVars
    <2> QED
      BY <2>1, <2>2, <2>6, <2>7, <2>8 DEF OnePlace, Settled, Lost
  <1>6. CASE WriteDoc(c)
    BY <1>6, PutDown DEF WriteDoc, InWork, stackVars, producerVars
  <1>7. CASE OpenDocFile(c)
    <2>1. /\ \A d \in Consumers : InWork(d)' <=> InWork(d)
          /\ \A d \in Consumers : consumer'[d] = "dead" <=> consumer[d] = "dead"
      BY <1>7 DEF OpenDocFile, InWork, TypeInv, TypeOK
    <2> QED
      BY <1>7, <2>1, SamePlaces
      DEF OpenDocFile, Adding, LostByProducer, stackVars, producerVars
  <1>8. CASE WriteDocFile(c)
    BY <1>8, PutDown DEF WriteDocFile, InWork, stackVars, producerVars
  <1>9. CASE ProcessFails(c)
    BY <1>9, PutDown DEF ProcessFails, InWork, stackVars, producerVars
  <1>10. CASE WriteFails(c)
    BY <1>10, PutDown DEF WriteFails, InWork, stackVars, producerVars
  <1>11. CASE ConsumerDies(c)
    BY <1>11, PutDown DEF ConsumerDies, InWork, stackVars, producerVars, outputVars
  <1> QED
    BY <1>2, <1>3, <1>4, <1>5, <1>6, <1>7, <1>8, <1>9, <1>10, <1>11
    DEF ConsumerNext

LEMMA PlacesStep == TypeInv /\ OnePlace /\ [Next]_vars => OnePlace'
  <1> SUFFICES ASSUME TypeInv, OnePlace, [Next]_vars PROVE OnePlace'
    OBVIOUS
  <1>1. CASE MonitoringStops \/ UNCHANGED vars
    BY <1>1, SamePlaces
    DEF MonitoringStops, vars, threadVars, stackVars, producerVars, outputVars,
        Adding, LostByProducer, InWork
  <1> QED
    BY <1>1, PlacesMainStep, PlacesProducerStep, PlacesConsumerStep
    DEF Next, MonitoringReports, Terminated

LEMMA PlacesInit == Init => OnePlace
  BY DEF Init, OnePlace, Adding, InHands, InWork, Settled, Lost, LostByConsumers,
         LostByProducer, ToSet, IsInjective

\* Every line taken from the list is in exactly one place, whatever the number of
\* consumers, the length of the list and the number of Errors.
THEOREM NoLineDroppedOrDoubled == Spec => []OnePlace
  <1>1. Init => TypeInv /\ OnePlace
    BY TypeInit, PlacesInit
  <1>2. (TypeInv /\ OnePlace) /\ [Next]_vars => (TypeInv /\ OnePlace)'
    BY TypeStep, PlacesStep
  <1> QED
    BY <1>1, <1>2, PTL DEF Spec

--------------------------------------------------------------------------------
(* The size of the stack                                                   *)

LEMMA CrowdedStep == TypeInv /\ CrowdedIsNoticed /\ [Next]_vars => CrowdedIsNoticed'
  <1> SUFFICES ASSUME TypeInv, CrowdedIsNoticed, [Next]_vars PROVE CrowdedIsNoticed'
    OBVIOUS
  <1>1. Len(images) \in Nat /\ tmpSize \in Nat
    BY LenProperties DEF TypeInv, TypeOK
  <1>2. CASE UNCHANGED <<images, tmpSize>>
    BY <1>2 DEF CrowdedIsNoticed
  <1>3. CASE Push
    BY <1>3, <1>1, PushProperties DEF Push, SizeAfterPush, CrowdedIsNoticed, TypeInv, TypeOK
  <1>4. ASSUME NEW c \in Consumers, Pop(c) PROVE CrowdedIsNoticed'
    <2>1. images' = Front(images) /\ images # <<>> /\ tmpSize' = tmpSize
      BY <1>4 DEF Pop, producerVars
    <2>2. Len(images') = Len(images) - 1
      BY <2>1, PopProperties DEF TypeInv, TypeOK
    <2> QED
      BY <1>1, <2>1, <2>2 DEF CrowdedIsNoticed
  <1>5. CASE MainNext
    <2>1. UNCHANGED <<images, tmpSize>>
      BY <1>5 DEF MainNext, OpenOutput, OpenFails, StartConsumer, StartMonitoring,
           JoinAndClose, CloseFails, stackVars, producerVars
    <2> QED
      BY <1>2, <2>1
  <1>6. CASE ProducerNext /\ ~Push
    <2>1. UNCHANGED <<images, tmpSize>>
      BY <1>6 DEF ProducerNext, LoadFile, LoadFails, ProducerDies, CrowdedWaitOver,
           SleepOver, EndOfList, SignalEnd, stackVars, producerVars
    <2> QED
      BY <1>2, <2>1
  <1>7. ASSUME NEW c \in Consumers, ConsumerNext(c), ~Pop(c) PROVE CrowdedIsNoticed'
    <2>1. UNCHANGED <<images, tmpSize>>
      BY <1>7 DEF ConsumerNext, Wait, WaitOver, Stop, WriteDoc, OpenDocFile,
           WriteDocFile, ProcessFails, WriteFails, ConsumerDies, stackVars, producerVars
    <2> QED
      BY <1>2, <2>1
  <1>8. CASE MonitoringStops \/ UNCHANGED vars
    BY <1>8, <1>2 DEF MonitoringStops, vars, stackVars, producerVars
  <1> QED
    BY <1>2, <1>3, <1>4, <1>5, <1>6, <1>7, <1>8 DEF Next, MonitoringReports, Terminated

\* The size that the Producer tests, which is as old as its last push, is never
\* below the size of the stack, so that it pauses whenever the stack is crowded.
THEOREM CrowdedStackIsNoticed == Spec => []CrowdedIsNoticed
  <1>1. Init => CrowdedIsNoticed
    <2> SUFFICES ASSUME Init PROVE CrowdedIsNoticed
      OBVIOUS
    <2>1. images = <<>> /\ tmpSize = 0
      BY DEF Init
    <2> QED
      BY <2>1, EmptySeq DEF CrowdedIsNoticed
  <1> QED
    BY <1>1, TypeInit, TypeStep, CrowdedStep, PTL DEF Spec

--------------------------------------------------------------------------------
(* The end of the job                                                      *)

\* The order in which the threads find out about the end: the Producer has seen the
\* end of the list before it sets "ended"; a consumer stops only on an empty stack
\* after that, and nobody can push then; run() is done after all consumers are.
EndInv ==
  /\ producer \in {"ending", "done"} => ~MoreLines \/ listBroken
  /\ ended => producer = "done"
  /\ \A c \in Consumers : consumer[c] = "done" => ended /\ images = <<>>
  /\ main = "done" => AllJoined

LEMMA EndInit == Init => EndInv
  BY DEF Init, EndInv

LEMMA EndStep == TypeInv /\ EndInv /\ [Next]_vars => EndInv'
  <1> SUFFICES ASSUME TypeInv, EndInv, [Next]_vars PROVE EndInv'
    OBVIOUS
  <1> USE DEF EndInv, AllJoined
  <1>1. CASE MainNext
    <2>1. UNCHANGED <<images, ended, cursor, listBroken>>
      BY <1>1 DEF MainNext, OpenOutput, OpenFails, StartConsumer, StartMonitoring,
                  JoinAndClose, CloseFails, stackVars, producerVars
    <2>2. producer' = producer \/ (producer' = "reading" /\ producer = "new")
      BY <1>1 DEF MainNext, OpenOutput, OpenFails, StartConsumer, StartMonitoring,
                  JoinAndClose, CloseFails, TypeInv, AtWork
    <2>3. \A c \in Consumers : consumer'[c] = "done" => consumer[c] = "done"
      <3>1. ASSUME NEW d \in Consumers, StartConsumer(d)
            PROVE  \A c \in Consumers : consumer'[c] = "done" => consumer[c] = "done"
        BY <3>1 DEF StartConsumer, TypeInv, TypeOK
      <3> QED
        BY <1>1, <3>1 DEF MainNext, OpenOutput, OpenFails, StartMonitoring,
                          JoinAndClose, CloseFails
    <2>4. main' = "done" => AllJoined /\ consumer' = consumer
      BY <1>1 DEF MainNext, OpenOutput, OpenFails, StartConsumer, StartMonitoring,
                  JoinAndClose, CloseFails
    <2> QED
      BY <2>1, <2>2, <2>3, <2>4 DEF MoreLines
  <1>2. CASE ProducerNext
    <2>1. producer # "done" /\ ~ended /\ \A c \in Consumers : consumer[c] # "done"
      BY <1>2 DEF ProducerNext, LoadFile, LoadFails, ProducerDies, Push,
                  CrowdedWaitOver, SleepOver, EndOfList, SignalEnd
    <2>2. main' = main
      BY <1>2 DEF ProducerNext, LoadFile, LoadFails, ProducerDies, Push,
                  CrowdedWaitOver, SleepOver, EndOfList, SignalEnd
    <2>3. \A c \in Consumers : \/ consumer'[c] = consumer[c]
                               \/ consumer[c] = "waiting" /\ consumer'[c] = "entering"
      BY <1>2 DEF ProducerNext, LoadFile, LoadFails, ProducerDies, Push,
                  CrowdedWaitOver, SleepOver, EndOfList, SignalEnd, NotifyOne,
                  NotifyAll, TypeInv, TypeOK
    <2>4. \A c \in Consumers : consumer'[c] # "done"
      BY <2>1, <2>3
    <2>5. main' = "done" => AllJoined'
      BY <2>2, <2>3
    <2>6. CASE EndOfList
      BY <2>1, <2>4, <2>5, <2>6 DEF EndOfList, MoreLines, stackVars
    <2>7. CASE SignalEnd
      BY <2>4, <2>5, <2>7 DEF SignalEnd, MoreLines, producerVars
    <2>8. CASE LoadFile \/ LoadFails \/ ProducerDies \/ Push \/ CrowdedWaitOver \/ SleepOver
      <3>1. ended' = ended /\ producer' \notin {"ending", "done"}
        BY <2>8 DEF LoadFile, LoadFails, ProducerDies, Push, CrowdedWaitOver,
                    SleepOver, NextLine, stackVars
      <3> QED
        BY <2>1, <2>4, <2>5, <3>1
    <2> QED
      BY <1>2, <2>6, <2>7, <2>8 DEF ProducerNext
  <1>3. ASSUME NEW c \in Consumers, ConsumerNext(c) PROVE EndInv'
    <2>1. UNCHANGED <<main, producer, ended, cursor, listBroken>>
      BY <1>3 DEF ConsumerNext, Wait, WaitOver, Stop, Pop, WriteDoc, OpenDocFile,
                  WriteDocFile, ProcessFails, WriteFails, ConsumerDies, stackVars,
                  producerVars
    <2>2. consumer[c] \notin {"done", "dead"}
      BY <1>3 DEF ConsumerNext, Wait, WaitOver, Stop, Pop, WriteDoc, OpenDocFile,
                  WriteDocFile, ProcessFails, WriteFails, ConsumerDies
    <2>3. main # "done"
      BY <2>2
    <2>4. \A d \in Consumers :
            \/ d # c /\ consumer'[d] = consumer[d]
            \/ consumer'[d] # "done"
            \/ d = c /\ Stop(c)
      BY <1>3 DEF ConsumerNext, Wait, WaitOver, Pop, WriteDoc, OpenDocFile,
                  WriteDocFile, ProcessFails, WriteFails, ConsumerDies, Stop,
                  TypeInv, TypeOK
    <2>5. CASE Stop(c)
      BY <2>1, <2>3, <2>4, <2>5 DEF Stop, Exhausted, MoreLines, stackVars
    <2>6. CASE Pop(c)
      <3>1. images # <<>> /\ \A d \in Consumers : consumer[d] # "done"
        BY <2>6 DEF Pop
      <3>2. \A d \in Consumers : consumer'[d] # "done"
        BY <2>6, <3>1 DEF Pop, TypeInv, TypeOK
      <3> QED
        BY <2>1, <2>3, <3>2 DEF MoreLines
    <2>7. CASE ~Stop(c) /\ ~Pop(c)
      <3>1. images' = images
        BY <1>3, <2>7 DEF ConsumerNext, Wait, WaitOver, WriteDoc, OpenDocFile,
                  WriteDocFile, ProcessFails, WriteFails, ConsumerDies, stackVars
      <3> QED
        BY <2>1, <2>3, <2>4, <2>7, <3>1 DEF MoreLines
    <2> QED
      BY <2>5, <2>6, <2>7
  <1>4. CASE MonitoringStops \/ UNCHANGED vars
    BY <1>4 DEF MonitoringStops, vars, threadVars, stackVars, producerVars, MoreLines
  <1> QED
    BY <1>1, <1>2, <1>3, <1>4 DEF Next, MonitoringReports, Terminated

\* When the threads are over and one consumer has lived to the end, no line is on
\* the way any more.
LEMMA CompleteAtEnd == TypeInv /\ OnePlace /\ EndInv => Complete
  <1> SUFFICES ASSUME TypeInv, OnePlace, EndInv,
                      main = "done", \E c \in Consumers : consumer[c] = "done"
               PROVE  (cursor = Len(FileList) \/ listBroken) /\ 1..cursor = Settled
    BY DEF Complete
  <1>1. images = <<>> /\ ended /\ producer = "done" /\ AllJoined
    BY DEF EndInv
  <1>2. ToSet(images) = {} /\ InHands = {} /\ Adding = {}
    BY <1>1 DEF ToSet, InHands, InWork, Adding, AllJoined
  <1>3. cursor = Len(FileList) \/ listBroken
    BY <1>1, ConstantsAssumption, LenProperties DEF EndInv, MoreLines, TypeInv, TypeOK
  <1> QED
    BY <1>2, <1>3 DEF OnePlace

\* When run() is done, every line of the list has a document or a message, unless
\* every consumer was killed, the list could not be read to its end, or the line
\* died with its thread.
THEOREM NothingLeftBehind == Spec => []Complete
  <1>1. Init => TypeInv /\ OnePlace /\ EndInv
    BY TypeInit, PlacesInit, EndInit
  <1>2. (TypeInv /\ OnePlace /\ EndInv) /\ [Next]_vars
          => (TypeInv /\ OnePlace /\ EndInv)'
    BY TypeStep, PlacesStep, EndStep
  <1> QED
    BY <1>1, <1>2, CompleteAtEnd, PTL DEF Spec

--------------------------------------------------------------------------------
(* The threads implement the job                                           *)

IInv == TypeInv /\ OnePlace /\ EndInv

LEMMA InvariantHolds == Spec => []IInv
  <1>1. Init => IInv
    BY TypeInit, PlacesInit, EndInit DEF IInv
  <1>2. IInv /\ [Next]_vars => IInv'
    BY TypeStep, PlacesStep, EndStep DEF IInv
  <1> QED
    BY <1>1, <1>2, PTL DEF Spec

LEMMA JobStarts == Init => Job!JobInit
  <1> SUFFICES ASSUME Init PROVE Job!JobInit
    OBVIOUS
  <1>1. \A i \in Lines : VerdictOf(i) = "unread"
    BY ConstantsAssumption, LenProperties DEF Init, VerdictOf, Lines
  <1>2. Alive = Consumers /\ (main = "done") = FALSE
    BY DEF Init, Alive
  <1> QED
    BY <1>1, <1>2 DEF Job!JobInit

\* A step that settles, takes up or gives up no line and kills no thread is not
\* seen by the job, as long as run() does not end normally in it.
LEMMA JobStutters ==
  ASSUME UNCHANGED <<cursor, documented, unreadable, failed>>,
         Lost' = Lost, Alive' = Alive, (main' = "done") <=> (main = "done")
  PROVE  UNCHANGED Job!jobVars
  BY DEF Job!jobVars, VerdictOf, Lines

\* A consumer that puts its line down settles it for the job.
LEMMA JobSettles ==
  ASSUME IInv, NEW c \in Consumers, InWork(c),
         UNCHANGED <<cursor, unreadable, tmp, producer, main>>,
         consumer' = [consumer EXCEPT ![c] = "entering"],
         \/ documented' = documented \cup {tmp[c]} /\ UNCHANGED failed
         \/ failed' = failed \cup {tmp[c]} /\ UNCHANGED documented
  PROVE  Job!JobNext
  <1>1. Lost' = Lost /\ Alive' = Alive
    BY DEF Lost, LostByConsumers, LostByProducer, Alive, InWork, IInv, TypeInv, TypeOK
  <1>2. tmp[c] \in Lines /\ tmp[c] <= cursor
    BY DEF InHands, IInv, OnePlace, TypeInv, TypeOK, AtWork, Lines
  <1>3. tmp[c] \notin documented \cup unreadable \cup failed \cup Lost
    BY DEF InHands, IInv, OnePlace, Settled
  <1>4. c \in Alive /\ main # "done"
    BY DEF Alive, InWork, IInv, EndInv, AllJoined
  <1>5. VerdictOf(tmp[c]) = "accepted"
    BY <1>2, <1>3 DEF VerdictOf, IInv, TypeInv, TypeOK, Lines
  <1>6. VerdictOf(tmp[c])' \in {"documented", "reported"}
    <2>1. ~(tmp[c] > cursor) /\ tmp'[c] = tmp[c] /\ cursor' = cursor
      BY <1>2 DEF IInv, TypeInv, TypeOK, Lines
    <2>2. CASE tmp[c] \in documented'
      BY <2>1, <2>2 DEF VerdictOf
    <2>3. CASE tmp[c] \in failed' /\ tmp[c] \notin documented'
      BY <2>1, <2>3 DEF VerdictOf
    <2> QED
      BY <2>2, <2>3
  <1>7. \A i \in Lines \ {tmp[c]} : VerdictOf(i)' = VerdictOf(i)
    BY <1>1 DEF VerdictOf
  <1>8. [i \in Lines |-> VerdictOf(i)]' =
          [[i \in Lines |-> VerdictOf(i)] EXCEPT ![tmp[c]] = VerdictOf(tmp[c])']
    BY <1>2, <1>7 DEF Lines
  <1>9. Job!Settle(tmp[c])
    BY <1>1, <1>2, <1>4, <1>5, <1>6, <1>8 DEF Job!Settle
  <1> QED
    BY <1>2, <1>9 DEF Job!JobNext

\* The Producer takes up the next line, n: for the job it is accepted, reported or
\* lost.
LEMMA JobAccepts ==
  ASSUME IInv, producer = "reading", MoreLines, NEW n, n = cursor + 1, cursor' = n,
         UNCHANGED <<consumer, tmp, main, documented, failed>>,
         \/ unreadable' = unreadable \cup {n} /\ producer' \in {"reading", "sleeping"}
         \/ unreadable' = unreadable /\ producer' \in {"adding", "dead"}
  PROVE  Job!JobNext
  <1>1. n \in Lines /\ cursor \in Nat
    BY ConstantsAssumption, LenProperties
    DEF MoreLines, Lines, IInv, TypeInv, TypeOK
  <1>2. Lost = LostByConsumers /\ LostByConsumers' = LostByConsumers /\ Alive' = Alive
    BY DEF Lost, LostByConsumers, LostByProducer, Alive
  <1>3. LostByProducer' = IF producer' = "dead" THEN {n} ELSE {}
    BY DEF LostByProducer
  <1>4. documented \cup unreadable \cup failed \cup Lost \subseteq 1..cursor
    BY DEF IInv, OnePlace, Settled
  <1>5. n \notin documented \cup unreadable \cup failed \cup Lost
    BY <1>1, <1>4
  <1>6. VerdictOf(n) = "unread"
    BY <1>1 DEF VerdictOf
  <1>7. VerdictOf(n)' \in {"accepted", "reported", "lost"}
    <2>1. ~(n > n) /\ n \notin documented'
      BY <1>1, <1>5
    <2> QED
      BY <2>1 DEF VerdictOf
  <1>8. \A i \in Lines \ {n} : VerdictOf(i)' = VerdictOf(i)
    <2> SUFFICES ASSUME NEW i \in Lines, i # n PROVE VerdictOf(i)' = VerdictOf(i)
      OBVIOUS
    <2>1. i > n <=> i > cursor
      BY <1>1 DEF Lines
    <2>2. i \in Lost' <=> i \in Lost
      BY <1>2, <1>3 DEF Lost
    <2> QED
      BY <2>1, <2>2 DEF VerdictOf
  <1>9. [i \in Lines |-> VerdictOf(i)]' =
          [[i \in Lines |-> VerdictOf(i)] EXCEPT ![n] = VerdictOf(n)']
    BY <1>1, <1>8 DEF Lines
  <1>10. Job!Accept(n)
    BY <1>1, <1>2, <1>6, <1>7, <1>9 DEF Job!Accept
  <1> QED
    BY <1>1, <1>10 DEF Job!JobNext

\* An Error in a consumer is a crash for the job, and takes the consumer's line.
LEMMA JobCrashes ==
  ASSUME IInv, NEW c \in Consumers, consumer[c] = "new" \/ InWork(c),
         UNCHANGED <<cursor, documented, unreadable, failed, tmp, producer, main>>,
         consumer' = [consumer EXCEPT ![c] = "dead"]
  PROVE  Job!JobNext
  <1>1. c \in Alive /\ Alive' = Alive \ {c}
    BY DEF Alive, InWork, IInv, TypeInv, TypeOK
  <1>2. Lost' = Lost \cup ({tmp[c]} \ {NoLine})
    BY DEF Lost, LostByConsumers, LostByProducer, IInv, TypeInv, TypeOK
  <1>3. CASE consumer[c] = "new"
    <2>1. Lost' = Lost
      BY <1>2, <1>3 DEF IInv, TypeInv, AtWork
    <2>2. [i \in Lines |-> VerdictOf(i)]' = [i \in Lines |-> VerdictOf(i)]
      BY <2>1 DEF VerdictOf, Lines
    <2>3. Job!Crash(c)
      BY <1>1, <2>2 DEF Job!Crash
    <2> QED
      BY <2>3 DEF Job!JobNext
  <1>4. CASE InWork(c)
    <2>1. tmp[c] \in Lines /\ ~(tmp[c] > cursor)
      BY <1>4 DEF InHands, IInv, OnePlace, TypeInv, TypeOK, AtWork, Lines
    <2>2. tmp[c] \notin documented \cup unreadable \cup failed \cup Lost
      BY <1>4 DEF InHands, IInv, OnePlace, Settled
    <2>3. VerdictOf(tmp[c]) = "accepted"
      BY <2>1, <2>2 DEF VerdictOf
    <2>4. Lost' = Lost \cup {tmp[c]}
      BY <1>2, <2>1 DEF Lines, NoLine
    <2>5. VerdictOf(tmp[c])' = "lost"
      BY <2>1, <2>2, <2>4 DEF VerdictOf
    <2>6. \A i \in Lines \ {tmp[c]} : VerdictOf(i)' = VerdictOf(i)
      BY <2>4 DEF VerdictOf
    <2>7. [i \in Lines |-> VerdictOf(i)]' =
            [[i \in Lines |-> VerdictOf(i)] EXCEPT ![tmp[c]] = "lost"]
      BY <2>1, <2>5, <2>6 DEF Lines
    <2>8. Job!Crash(c)
      BY <1>1, <2>1, <2>3, <2>7 DEF Job!Crash
    <2> QED
      BY <2>8 DEF Job!JobNext
  <1> QED
    BY <1>3, <1>4

\* When run() ends normally with a consumer alive, every accepted line is settled.
LEMMA JobFinishes == IInv /\ IInv' /\ JoinAndClose => Job!JobNext
  <1> SUFFICES ASSUME IInv, IInv', JoinAndClose PROVE Job!JobNext
    OBVIOUS
  <1>1. UNCHANGED <<cursor, documented, unreadable, failed, tmp, producer, consumer>>
    BY DEF JoinAndClose, producerVars
  <1>2. Lost' = Lost /\ Alive' = Alive
    BY <1>1 DEF Lost, LostByConsumers, LostByProducer, Alive
  <1>3. [i \in Lines |-> VerdictOf(i)]' = [i \in Lines |-> VerdictOf(i)]
    BY <1>1, <1>2 DEF VerdictOf, Lines
  <1>4. ASSUME Alive # {}, NEW i \in Lines PROVE VerdictOf(i) # "accepted"
    <2>1. \E c \in Consumers : consumer[c] = "done"
      BY <1>4 DEF JoinAndClose, AllJoined, Alive
    <2>2. images = <<>> /\ producer = "done"
      BY <2>1 DEF IInv, EndInv
    <2>3. ToSet(images) = {} /\ InHands = {} /\ Adding = {}
      BY <2>2 DEF ToSet, InHands, InWork, Adding, JoinAndClose, AllJoined
    <2>4. 1..cursor = Settled
      BY <2>3 DEF IInv, OnePlace
    <2>5. i > cursor \/ i \in Settled
      BY <2>4 DEF Lines, IInv, TypeInv, TypeOK
    <2> QED
      BY <2>5 DEF VerdictOf, Settled
  <1>5. Job!Finish
    BY <1>2, <1>3, <1>4 DEF Job!Finish, JoinAndClose
  <1> QED
    BY <1>5 DEF Job!JobNext

LEMMA JobStep == IInv /\ IInv' /\ [Next]_vars => [Job!JobNext]_(Job!jobVars)
  <1> SUFFICES ASSUME IInv, IInv', [Next]_vars
               PROVE  Job!JobNext \/ UNCHANGED Job!jobVars
    OBVIOUS
  <1>1. ASSUME UNCHANGED <<cursor, documented, unreadable, failed, tmp>>,
               producer' = "dead" <=> producer = "dead",
               main' = "done" <=> main = "done",
               \A c \in Consumers : consumer'[c] = "dead" <=> consumer[c] = "dead"
        PROVE  UNCHANGED Job!jobVars
    <2>1. Lost' = Lost /\ Alive' = Alive
      BY <1>1 DEF Lost, LostByConsumers, LostByProducer, Alive
    <2> QED
      BY <1>1, <2>1, JobStutters
  <1>2. CASE MainNext
    <2>1. CASE OpenOutput \/ OpenFails
      <3>1. main = "run" => producer = "new"
        BY DEF IInv, TypeInv, AtWork
      <3> QED
        BY <1>1, <2>1, <3>1 DEF OpenOutput, OpenFails, producerVars, outputVars
    <2>2. CASE StartMonitoring \/ CloseFails
      BY <1>1, <2>2 DEF StartMonitoring, CloseFails, producerVars, outputVars
    <2>3. CASE JoinAndClose
      BY <2>3, JobFinishes
    <2>4. ASSUME NEW c \in Consumers, StartConsumer(c)
          PROVE  Job!JobNext \/ UNCHANGED Job!jobVars
      <3>1. CASE consumer' = [consumer EXCEPT ![c] = "dead"]
        BY <2>4, <3>1, JobCrashes DEF StartConsumer, producerVars, outputVars
      <3>2. CASE consumer' = [consumer EXCEPT ![c] = "entering"]
        <4>1. \A d \in Consumers : consumer'[d] = "dead" <=> consumer[d] = "dead"
          BY <2>4, <3>2 DEF StartConsumer, IInv, TypeInv, TypeOK
        <4> QED
          BY <1>1, <2>4, <4>1 DEF StartConsumer, producerVars, outputVars
      <3> QED
        BY <2>4, <3>1, <3>2 DEF StartConsumer
    <2> QED
      BY <1>2, <2>1, <2>2, <2>3, <2>4 DEF MainNext
  <1>3. CASE ProducerNext
    <2>1. CASE LoadFile
      BY <2>1, JobAccepts DEF LoadFile, outputVars
    <2>2. CASE LoadFails
      BY <2>2, JobAccepts DEF LoadFails, NextLine, outputVars
    <2>3. CASE ProducerDies
      BY <2>3, JobAccepts DEF ProducerDies, outputVars
    <2>4. CASE Push \/ CrowdedWaitOver \/ SleepOver \/ EndOfList \/ SignalEnd
      <3>1. \A c \in Consumers : consumer'[c] = "dead" <=> consumer[c] = "dead"
        BY <2>4 DEF Push, CrowdedWaitOver, SleepOver, EndOfList, SignalEnd,
                    NotifyOne, NotifyAll, IInv, TypeInv, TypeOK
      <3>2. producer # "dead" /\ producer' # "dead" /\ main' = main
        BY <2>4 DEF Push, CrowdedWaitOver, SleepOver, EndOfList, SignalEnd, NextLine
      <3>3. UNCHANGED <<cursor, documented, unreadable, failed, tmp>>
        BY <2>4 DEF Push, CrowdedWaitOver, SleepOver, EndOfList, SignalEnd,
                    producerVars, outputVars
      <3> QED
        BY <1>1, <3>1, <3>2, <3>3
    <2> QED
      BY <1>3, <2>1, <2>2, <2>3, <2>4 DEF ProducerNext
  <1>4. ASSUME NEW c \in Consumers, ConsumerNext(c)
        PROVE  Job!JobNext \/ UNCHANGED Job!jobVars
    <2>1. CASE Wait(c) \/ WaitOver(c) \/ Stop(c)
      <3>1. \A d \in Consumers : consumer'[d] = "dead" <=> consumer[d] = "dead"
        BY <2>1 DEF Wait, WaitOver, Stop, IInv, TypeInv, TypeOK
      <3> QED
        BY <1>1, <2>1, <3>1 DEF Wait, WaitOver, Stop, producerVars, outputVars
    <2>2. CASE Pop(c)
      <3>1. Lost' = Lost /\ Alive' = Alive
        BY <2>2 DEF Pop, Lost, LostByConsumers, LostByProducer, Alive, IInv,
                    TypeInv, TypeOK, producerVars
      <3> QED
        BY <2>2, <3>1, JobStutters DEF Pop, producerVars, outputVars
    <2>3. CASE OpenDocFile(c)
      <3>1. \A d \in Consumers : consumer'[d] = "dead" <=> consumer[d] = "dead"
        BY <2>3 DEF OpenDocFile, IInv, TypeInv, TypeOK
      <3> QED
        BY <1>1, <2>3, <3>1 DEF OpenDocFile, producerVars
    <2>4. CASE WriteDoc(c) \/ WriteDocFile(c)
      BY <2>4, JobSettles DEF WriteDoc, WriteDocFile, InWork, producerVars
    <2>5. CASE ProcessFails(c) \/ WriteFails(c)
      BY <2>5, JobSettles DEF ProcessFails, WriteFails, InWork, producerVars
    <2>6. CASE ConsumerDies(c)
      BY <2>6, JobCrashes DEF ConsumerDies, InWork, producerVars, outputVars
    <2> QED
      BY <1>4, <2>1, <2>2, <2>3, <2>4, <2>5, <2>6 DEF ConsumerNext
  <1>5. CASE MonitoringStops \/ UNCHANGED vars
    BY <1>5, <1>1 DEF MonitoringStops, vars, threadVars, producerVars, outputVars
  <1> QED
    BY <1>2, <1>3, <1>4, <1>5 DEF Next, MonitoringReports, Terminated

\* The threads with their stack, their timeouts and their failures implement the
\* indexing job, for any number of consumers and any file list.
THEOREM ImplementsJob == Spec => JobImplemented
  <1>1. Spec => []IInv
    BY InvariantHolds
  <1>2. Init => Job!JobInit
    BY JobStarts
  <1>3. IInv /\ IInv' /\ [Next]_vars => [Job!JobNext]_(Job!jobVars)
    BY JobStep
  <1> QED
    BY <1>1, <1>2, <1>3, PTL DEF Spec, JobImplemented, Job!JobSpec

--------------------------------------------------------------------------------
(* The number of images                                                    *)

\* The lines that consumers have taken up.
TakenUp == documented \cup failed \cup InHands \cup LostByConsumers

LEMMA TakenUpFinite == TypeInv => IsFiniteSet(TakenUp)
  <1> SUFFICES ASSUME TypeInv PROVE IsFiniteSet(TakenUp)
    OBVIOUS
  <1>1. TakenUp \subseteq 1..Len(FileList)
    BY DEF TakenUp, InHands, LostByConsumers, TypeInv, TypeOK, AtWork, Lines, NoLine
  <1>2. Len(FileList) \in Nat
    BY ConstantsAssumption, LenProperties
  <1>3. IsFiniteSet(1..Len(FileList))
    BY <1>2, FS_Interval
  <1> QED
    BY <1>1, <1>3, FS_Subset

\* A step in which no consumer takes up a line keeps the lines that were taken up: a
\* line that is put down gets a document or a message, or dies with its thread.
LEMMA SameTakenUp ==
  ASSUME TypeInv,
         UNCHANGED <<tmp, overallCount>>,
         \A c \in Consumers : consumer[c] = "dead" => consumer'[c] = "dead",
         \A c \in Consumers : InWork(c)' => InWork(c),
         \A c \in Consumers : consumer'[c] = "dead" /\ consumer[c] # "dead" =>
                                InWork(c) \/ tmp[c] = NoLine,
         documented \subseteq documented' /\ failed \subseteq failed',
         documented' \cup failed' \subseteq documented \cup failed \cup InHands,
         \A c \in Consumers : InWork(c) => \/ InWork(c)' \/ consumer'[c] = "dead"
                                           \/ tmp[c] \in documented' \cup failed',
         Counted
  PROVE  Counted'
  <1>1. InHands' \cup LostByConsumers' \subseteq InHands \cup LostByConsumers
    BY DEF InHands, LostByConsumers
  <1>2. LostByConsumers \subseteq LostByConsumers'
    BY DEF LostByConsumers
  <1>3. InHands \subseteq TakenUp'
    BY DEF InHands, LostByConsumers, TakenUp, TypeInv, AtWork
  <1>4. TakenUp' = TakenUp
    BY <1>1, <1>2, <1>3 DEF TakenUp
  <1> QED
    BY <1>4 DEF Counted, TakenUp

LEMMA CountedStep == TypeInv /\ OnePlace /\ Counted /\ [Next]_vars => Counted'
  <1> SUFFICES ASSUME TypeInv, OnePlace, Counted, [Next]_vars PROVE Counted'
    OBVIOUS
  <1>1. CASE MainNext
    <2>1. UNCHANGED <<tmp, overallCount, documented, failed>>
      BY <1>1 DEF MainNext, OpenOutput, OpenFails, StartConsumer, StartMonitoring,
                  JoinAndClose, CloseFails, stackVars, outputVars
    <2>2. \A c \in Consumers : \/ consumer'[c] = consumer[c]
                               \/ consumer[c] = "new" /\ consumer'[c] \in {"entering", "dead"}
      BY <1>1 DEF MainNext, OpenOutput, OpenFails, StartConsumer, StartMonitoring,
                  JoinAndClose, CloseFails, TypeInv, TypeOK
    <2> QED
      BY <2>1, <2>2, SameTakenUp DEF InWork, TypeInv, AtWork
  <1>2. CASE ProducerNext
    <2>1. UNCHANGED <<tmp, overallCount, documented, failed>>
      BY <1>2 DEF ProducerNext, LoadFile, LoadFails, ProducerDies, Push, CrowdedWaitOver,
                  SleepOver, EndOfList, SignalEnd, stackVars, outputVars
    <2>2. \A c \in Consumers : \/ consumer'[c] = consumer[c]
                               \/ consumer[c] = "waiting" /\ consumer'[c] = "entering"
      BY <1>2 DEF ProducerNext, LoadFile, LoadFails, ProducerDies, Push, CrowdedWaitOver,
                  SleepOver, EndOfList, SignalEnd, NotifyOne, NotifyAll, TypeInv, TypeOK
    <2> QED
      BY <2>1, <2>2, SameTakenUp DEF InWork
  <1>3. ASSUME NEW c \in Consumers, Pop(c) PROVE Counted'
    <2>1. /\ images # <<>> /\ images \in Seq(Lines) /\ consumer[c] = "entering"
          /\ consumer' = [consumer EXCEPT ![c] = "working"]
          /\ tmp' = [tmp EXCEPT ![c] = Last(images)]
          /\ overallCount' = overallCount + 1
          /\ UNCHANGED <<documented, failed>>
      BY <1>3 DEF Pop, Top, outputVars, TypeInv, TypeOK
    <2>2. Last(images) \in ToSet(images)
      <3>1. ToSet(images) = ToSet(Front(images)) \cup {Last(images)}
        BY <1>3, PopProperties DEF Pop, TypeInv, TypeOK
      <3> QED
        BY <3>1
    <2>3. Last(images) \notin TakenUp
      BY <2>2 DEF OnePlace, Settled, Lost, TakenUp
    <2>4. InHands' = InHands \cup {Last(images)}
      BY <2>1 DEF InHands, InWork, TypeInv, TypeOK
    <2>5. LostByConsumers' = LostByConsumers
      BY <2>1 DEF LostByConsumers, TypeInv, TypeOK
    <2>6. TakenUp' = TakenUp \cup {Last(images)}
      BY <2>1, <2>4, <2>5 DEF TakenUp
    <2>7. Cardinality(TakenUp') = Cardinality(TakenUp) + 1
      BY <2>3, <2>6, TakenUpFinite, FS_AddElement
    <2> QED
      BY <2>1, <2>7 DEF Counted, TakenUp
  <1>4. ASSUME NEW c \in Consumers, ConsumerNext(c), ~Pop(c) PROVE Counted'
    <2>1. UNCHANGED <<tmp, overallCount>>
      BY <1>4 DEF ConsumerNext, Wait, WaitOver, Stop, WriteDoc, OpenDocFile, WriteDocFile,
                  ProcessFails, WriteFails, ConsumerDies, stackVars
    <2>2. \A d \in Consumers : d # c => consumer'[d] = consumer[d]
      BY <1>4 DEF ConsumerNext, Wait, WaitOver, Stop, WriteDoc, OpenDocFile, WriteDocFile,
                  ProcessFails, WriteFails, ConsumerDies, TypeInv, TypeOK
    <2>3. CASE ~InWork(c)
      <3>1. UNCHANGED <<documented, failed>>
        BY <1>4, <2>3 DEF ConsumerNext, Wait, WaitOver, Stop, WriteDoc, OpenDocFile, WriteDocFile,
                    ProcessFails, WriteFails, ConsumerDies, InWork, outputVars
      <3>2. consumer[c] # "dead" /\ ~InWork(c)' /\ consumer'[c] # "dead"
        BY <1>4, <2>3 DEF ConsumerNext, Wait, WaitOver, Stop, WriteDoc, OpenDocFile, WriteDocFile,
                    ProcessFails, WriteFails, ConsumerDies, InWork, TypeInv, TypeOK
      <3> QED
        BY <2>1, <2>2, <2>3, <3>1, <3>2, SameTakenUp DEF InWork
    <2>4. CASE InWork(c)
      <3>1. /\ documented' \in {documented, documented \cup {tmp[c]}}
            /\ failed' \in {failed, failed \cup {tmp[c]}}
        BY <1>4, <2>4 DEF ConsumerNext, Wait, WaitOver, Stop, WriteDoc, OpenDocFile, WriteDocFile,
                    ProcessFails, WriteFails, ConsumerDies, InWork, outputVars
      <3>2. InWork(c)' \/ consumer'[c] = "dead" \/ tmp[c] \in documented' \cup failed'
        BY <1>4, <2>4 DEF ConsumerNext, Wait, WaitOver, Stop, WriteDoc, OpenDocFile, WriteDocFile,
                    ProcessFails, WriteFails, ConsumerDies, InWork, TypeInv, TypeOK
      <3>3. tmp[c] \in InHands /\ consumer[c] # "dead"
        BY <2>4 DEF InHands, InWork
      <3> QED
        BY <2>1, <2>2, <2>4, <3>1, <3>2, <3>3, SameTakenUp DEF InWork
    <2> QED
      BY <2>3, <2>4
  <1>5. CASE MonitoringStops \/ UNCHANGED vars
    <2>1. UNCHANGED <<tmp, overallCount, documented, failed, consumer>>
      BY <1>5 DEF MonitoringStops, vars, threadVars, stackVars, outputVars
    <2> QED
      BY <2>1, SameTakenUp DEF InWork
  <1> QED
    BY <1>1, <1>2, <1>3, <1>4, <1>5 DEF Next, MonitoringReports, Terminated

\* The number of images that is reported in the end is the number of lines that some
\* consumer has taken up, for any number of consumers that count at the same time.
THEOREM ImagesAreCounted == Spec => []Counted
  <1>1. Init => Counted
    <2> SUFFICES ASSUME Init PROVE Counted
      OBVIOUS
    <2>1. overallCount = 0 /\ documented \cup failed \cup InHands \cup LostByConsumers = {}
      BY DEF Init, InHands, InWork, LostByConsumers
    <2> QED
      BY <2>1, FS_EmptySet DEF Counted
  <1>2. (TypeInv /\ OnePlace /\ Counted) /\ [Next]_vars => (TypeInv /\ OnePlace /\ Counted)'
    BY TypeStep, PlacesStep, CountedStep
  <1>3. Init => TypeInv /\ OnePlace
    BY TypeInit, PlacesInit
  <1> QED
    BY <1>1, <1>2, <1>3, PTL DEF Spec

--------------------------------------------------------------------------------
(* The add file                                                            *)

Written == Lines \cup {AddTag, EndTag, Fragment}

\* What a write does to the add file.
LEMMA WriteProperties ==
  ASSUME NEW s \in Seq(Written), NEW x \in Written
  PROVE  /\ Len(s) \in Nat /\ DOMAIN s = 1..Len(s)
         /\ Append(s, x) # <<>>
         /\ Len(Append(s, x)) = Len(s) + 1
         /\ DOMAIN Append(s, x) = 1..(Len(s) + 1)
         /\ \A k \in 1..Len(s) : Append(s, x)[k] = s[k]
         /\ Append(s, x)[Len(s) + 1] = x
  BY AppendProperties, LenProperties

\* AddFile with what makes it inductive.  Nothing is written before <add>, since no
\* consumer has started; each line is written once, since nobody has it in hands any
\* more; nothing is written behind </add>, since EndInv has all consumers joined then.
OpenedFirst ==
  dos = <<>> => main \in {"run", "failed"} /\ \A c \in Consumers : consumer[c] = "new"
EachDocumented == \A i \in documented : \E k \in DOMAIN dos : dos[k] = i
NoneTwice == \A j, k \in DOMAIN dos : dos[j] = dos[k] /\ dos[k] \in Lines => j = k
TagsInPlace ==
  \A k \in DOMAIN dos :
    /\ dos[k] \in Lines => dos[k] \in documented
    /\ dos[k] = AddTag <=> k = 1
    /\ dos[k] = EndTag <=> main = "done" /\ k = Len(dos)
    /\ dos[k] = Fragment => failed # {} \/ main = "failed"
OutputInv ==
  ~IndividualFiles =>
    /\ main = "run" => dos = <<>>
    /\ OpenedFirst /\ EachDocumented /\ NoneTwice /\ TagsInPlace

\* A step that writes nothing.
LEMMA NothingWritten ==
  ASSUME OutputInv, ~IndividualFiles,
         UNCHANGED <<dos, documented>>,
         failed \subseteq failed',
         \/ main' = main
         \/ main = "run" /\ main' = "failed"
         \/ main = "starting" /\ main' = "joining",
         \A c \in Consumers : dos = <<>> /\ consumer[c] = "new" => consumer'[c] = "new"
  PROVE  OutputInv'
  <1>1. OpenedFirst'
    BY DEF OutputInv, OpenedFirst
  <1>2. EachDocumented' /\ NoneTwice'
    BY DEF OutputInv, EachDocumented, NoneTwice, Lines
  <1>3. TagsInPlace'
    BY DEF OutputInv, TagsInPlace, Lines, AddTag, EndTag, Fragment
  <1>4. main' = "run" => dos' = <<>>
    BY DEF OutputInv
  <1> QED
    BY <1>1, <1>2, <1>3, <1>4 DEF OutputInv

\* A consumer writes a document, or some of one.
LEMMA ConsumerWrites ==
  ASSUME TypeInv, OnePlace, EndInv, OutputInv, ~IndividualFiles,
         NEW c \in Consumers, consumer[c] = "working", main' = main,
         \/ /\ dos' = Append(dos, tmp[c])
            /\ documented' = documented \cup {tmp[c]} /\ failed' = failed
         \/ /\ dos' = Append(dos, Fragment)
            /\ documented' = documented /\ failed' = failed \cup {tmp[c]}
  PROVE  OutputInv'
  <1>1. tmp[c] \in Lines /\ tmp[c] \notin documented
    BY DEF TypeInv, TypeOK, AtWork, InWork, NoLine, OnePlace, InHands, Settled
  <1>2. dos # <<>> /\ main # "done" /\ main # "run"
    BY DEF OutputInv, OpenedFirst, EndInv, AllJoined
  <1>3. dos \in Seq(Written) /\ Lines \subseteq Nat \ {0} /\ documented \subseteq Lines
    BY DEF TypeInv, TypeOK, Written, Lines
  <1>4. Len(dos) \in Nat /\ Len(dos) # 0
    BY <1>2, <1>3, EmptySeq, LenProperties
  <1>5. PICK x \in Written :
          /\ dos' = Append(dos, x)
          /\ \/ /\ x = tmp[c] /\ documented' = documented \cup {x} /\ failed' = failed
             \/ /\ x = Fragment /\ documented' = documented /\ failed' # {}
    BY <1>1 DEF Written
  <1>6. /\ DOMAIN dos = 1..Len(dos) /\ DOMAIN dos' = 1..(Len(dos) + 1)
        /\ dos' # <<>> /\ Len(dos') = Len(dos) + 1
        /\ \A k \in 1..Len(dos) : dos'[k] = dos[k]
        /\ dos'[Len(dos) + 1] = x
    BY <1>3, <1>5, WriteProperties
  <1>7. \A k \in DOMAIN dos' : k \in DOMAIN dos \/ k = Len(dos) + 1
    BY <1>4, <1>6
  <1>8. \A k \in DOMAIN dos : k \in DOMAIN dos' /\ dos'[k] = dos[k] /\ dos[k] # tmp[c]
    BY <1>1, <1>4, <1>6 DEF OutputInv, TagsInPlace
  <1>9. EachDocumented'
    BY <1>4, <1>5, <1>6, <1>8 DEF OutputInv, EachDocumented
  <1>10. NoneTwice'
    <2>1. x \in Lines => x = tmp[c]
      BY <1>3, <1>5 DEF Fragment
    <2>2. Lines' = Lines
      BY DEF Lines
    <2> QED
      BY <1>6, <1>7, <1>8, <2>1, <2>2 DEF OutputInv, NoneTwice
  <1>11. TagsInPlace'
    <2>1. ASSUME NEW k \in DOMAIN dos, k # Len(dos) + 1
          PROVE  /\ dos'[k] \in Lines' => dos'[k] \in documented'
                 /\ dos'[k] = AddTag' <=> k = 1
                 /\ dos'[k] # EndTag'
                 /\ dos'[k] = Fragment' => failed' # {} \/ main' = "failed"
      BY <1>2, <1>5, <1>8, <2>1 DEF OutputInv, TagsInPlace, Lines, AddTag, EndTag, Fragment
    <2>2. /\ x \in Lines => x \in documented'
          /\ x # AddTag /\ x # EndTag
          /\ x = Fragment => failed' # {}
      BY <1>1, <1>3, <1>5 DEF AddTag, EndTag, Fragment
    <2>3. \A k \in DOMAIN dos : k # Len(dos) + 1
      BY <1>4, <1>6
    <2> QED
      BY <1>2, <1>4, <1>6, <1>7, <2>1, <2>2, <2>3 DEF TagsInPlace, Lines, AddTag, EndTag, Fragment
  <1> QED
    BY <1>2, <1>6, <1>9, <1>10, <1>11 DEF OutputInv, OpenedFirst

\* run() writes its last, </add> or some of it.
LEMMA MainCloses ==
  ASSUME TypeInv, OutputInv, ~IndividualFiles, main = "joining",
         UNCHANGED <<documented, failed>>,
         \/ dos' = Append(dos, EndTag) /\ main' = "done"
         \/ dos' = Append(dos, Fragment) /\ main' = "failed"
  PROVE  OutputInv'
  <1>1. dos # <<>>
    BY DEF OutputInv, OpenedFirst
  <1>2. dos \in Seq(Written)
    BY DEF TypeInv, TypeOK, Written
  <1>3. Len(dos) \in Nat /\ Len(dos) # 0
    BY <1>1, <1>2, EmptySeq, LenProperties
  <1>4. PICK x \in {EndTag, Fragment} :
          dos' = Append(dos, x) /\ main' = IF x = EndTag THEN "done" ELSE "failed"
    BY DEF EndTag, Fragment
  <1>5. /\ DOMAIN dos = 1..Len(dos) /\ DOMAIN dos' = 1..(Len(dos) + 1)
        /\ dos' # <<>> /\ Len(dos') = Len(dos) + 1
        /\ \A k \in 1..Len(dos) : dos'[k] = dos[k]
        /\ dos'[Len(dos) + 1] = x
    BY <1>2, <1>4, WriteProperties DEF Written
  <1>6. \A k \in DOMAIN dos' : k \in DOMAIN dos \/ k = Len(dos) + 1
    BY <1>3, <1>5
  <1>7. x \notin Lines /\ Lines' = Lines
    BY <1>4 DEF Lines, EndTag, Fragment
  <1>8. EachDocumented'
    BY <1>3, <1>5 DEF OutputInv, EachDocumented
  <1>9. NoneTwice'
    BY <1>5, <1>6, <1>7 DEF OutputInv, NoneTwice
  <1>10. TagsInPlace'
    <2>1. ASSUME NEW k \in DOMAIN dos
          PROVE  /\ dos'[k] \in Lines' => dos'[k] \in documented'
                 /\ dos'[k] = AddTag' <=> k = 1
                 /\ dos'[k] # EndTag' /\ k # Len(dos) + 1
                 /\ dos'[k] = Fragment' => failed' # {} \/ main' = "failed"
      <3>1. dos'[k] = dos[k] /\ k # Len(dos) + 1
        BY <1>3, <1>5
      <3>2. dos[k] # EndTag /\ (dos[k] = Fragment => failed # {})
        BY DEF OutputInv, TagsInPlace
      <3> QED
        BY <3>1, <3>2 DEF OutputInv, TagsInPlace, Lines, AddTag, EndTag, Fragment
    <2>2. x # AddTag /\ (x = EndTag <=> main' = "done") /\ (x = Fragment => main' = "failed")
      BY <1>4 DEF AddTag, EndTag, Fragment
    <2> QED
      BY <1>3, <1>5, <1>6, <1>7, <2>1, <2>2 DEF TagsInPlace, Lines, AddTag, EndTag, Fragment
  <1> QED
    BY <1>4, <1>5, <1>8, <1>9, <1>10 DEF OutputInv, OpenedFirst

\* Only with individual files a consumer opens one.
NoFileOpen == ~IndividualFiles => \A c \in Consumers : consumer[c] # "writing"

LEMMA NoFileOpenStep == TypeInv /\ NoFileOpen /\ [Next]_vars => NoFileOpen'
  <1> SUFFICES ASSUME TypeInv, NoFileOpen, [Next]_vars, ~IndividualFiles,
                      NEW d \in Consumers
               PROVE  consumer'[d] # "writing"
    BY DEF NoFileOpen
  <1> USE DEF NoFileOpen, TypeInv, TypeOK
  <1>1. CASE MainNext
    BY <1>1 DEF MainNext, OpenOutput, OpenFails, StartConsumer, StartMonitoring, JoinAndClose,
                CloseFails
  <1>2. CASE ProducerNext
    BY <1>2 DEF ProducerNext, LoadFile, LoadFails, ProducerDies, Push, CrowdedWaitOver,
                SleepOver, EndOfList, SignalEnd, NotifyOne, NotifyAll
  <1>3. ASSUME NEW c \in Consumers, ConsumerNext(c) PROVE consumer'[d] # "writing"
    BY <1>3 DEF ConsumerNext, Wait, WaitOver, Stop, Pop, WriteDoc, OpenDocFile, WriteDocFile,
                ProcessFails, WriteFails, ConsumerDies
  <1>4. CASE MonitoringStops \/ UNCHANGED vars
    BY <1>4 DEF MonitoringStops, vars, threadVars
  <1> QED
    BY <1>1, <1>2, <1>3, <1>4 DEF Next, MonitoringReports, Terminated

LEMMA OutputStep == IInv /\ NoFileOpen /\ OutputInv /\ [Next]_vars => OutputInv'
  <1> SUFFICES ASSUME IInv, NoFileOpen, OutputInv, [Next]_vars, ~IndividualFiles
               PROVE  OutputInv'
    BY DEF OutputInv
  <1>1. CASE OpenOutput
    <2>1. /\ dos = <<>> /\ documented = {}
          /\ dos' = <<AddTag>> /\ main' = "starting" /\ documented' = documented
      <3>1. dos = <<>>
        BY <1>1 DEF OpenOutput, OutputInv
      <3>2. DOMAIN dos = {}
        BY <3>1, EmptySeq
      <3> QED
        BY <1>1, <3>1, <3>2 DEF OpenOutput, OutputInv, EachDocumented
    <2>2. DOMAIN dos' = {1} /\ dos'[1] = AddTag /\ dos' # <<>> /\ Len(dos') = 1
      BY <2>1
    <2> QED
      BY <2>1, <2>2 DEF OutputInv, OpenedFirst, EachDocumented, NoneTwice, TagsInPlace,
                        Lines, AddTag, EndTag, Fragment
  <1>2. CASE OpenFails \/ StartMonitoring \/ MonitoringStops \/ UNCHANGED vars
    BY <1>2, NothingWritten DEF OpenFails, StartMonitoring, MonitoringStops, vars, threadVars,
                                outputVars
  <1>3. ASSUME NEW c \in Consumers, StartConsumer(c) PROVE OutputInv'
    <2>1. dos # <<>>
      BY <1>3 DEF StartConsumer, OutputInv, OpenedFirst
    <2> QED
      BY <1>3, <2>1, NothingWritten DEF StartConsumer, outputVars
  <1>4. CASE JoinAndClose \/ CloseFails
    BY <1>4, MainCloses DEF JoinAndClose, CloseFails, IInv
  <1>5. CASE ProducerNext
    <2>1. UNCHANGED <<main, outputVars>>
      BY <1>5 DEF ProducerNext, LoadFile, LoadFails, ProducerDies, Push, CrowdedWaitOver,
                  SleepOver, EndOfList, SignalEnd
    <2>2. \A c \in Consumers : consumer[c] = "new" => consumer'[c] = "new"
      BY <1>5 DEF ProducerNext, LoadFile, LoadFails, ProducerDies, Push, CrowdedWaitOver,
                  SleepOver, EndOfList, SignalEnd, NotifyOne, NotifyAll, IInv, TypeInv, TypeOK
    <2> QED
      BY <2>1, <2>2, NothingWritten DEF outputVars
  <1>6. ASSUME NEW c \in Consumers, ConsumerNext(c) PROVE OutputInv'
    <2>1. main' = main /\ dos # <<>>
      BY <1>6 DEF ConsumerNext, Wait, WaitOver, Stop, Pop, WriteDoc, OpenDocFile, WriteDocFile,
                  ProcessFails, WriteFails, ConsumerDies, OutputInv, OpenedFirst
    <2>2. CASE WriteDoc(c) \/ (WriteFails(c) /\ consumer[c] = "working")
      BY <2>1, <2>2, ConsumerWrites DEF WriteDoc, WriteFails, IInv
    <2>3. CASE ~(WriteDoc(c) \/ WriteFails(c)) /\ consumer[c] # "writing"
      <3>1. UNCHANGED <<dos, documented>> /\ failed \subseteq failed'
        BY <1>6, <2>3 DEF ConsumerNext, Wait, WaitOver, Stop, Pop, OpenDocFile, WriteDocFile,
                          ProcessFails, ConsumerDies, outputVars
      <3> QED
        BY <2>1, <3>1, NothingWritten
    <2>4. consumer[c] # "writing"
      BY DEF NoFileOpen
    <2> QED
      BY <1>6, <2>2, <2>3, <2>4 DEF WriteFails
  <1> QED
    BY <1>1, <1>2, <1>3, <1>4, <1>5, <1>6
    DEF Next, MainNext, MonitoringReports, Terminated

LEMMA OutputIsAddFile == TypeInv /\ OutputInv => AddFile
  <1> SUFFICES ASSUME TypeInv, OutputInv, ~IndividualFiles PROVE AddFile
    BY DEF AddFile
  <1>1. ASSUME NEW i \in documented
        PROVE  Cardinality({k \in DOMAIN dos : dos[k] = i}) = 1
    <2>1. PICK j \in DOMAIN dos : dos[j] = i
      BY DEF OutputInv, EachDocumented
    <2>2. {k \in DOMAIN dos : dos[k] = i} = {j}
      BY <2>1 DEF OutputInv, NoneTwice, TypeInv, TypeOK
    <2> QED
      BY <2>2, FS_Singleton
  <1> QED
    BY <1>1 DEF OutputInv, TagsInPlace, AddFile

\* In the add file each documented line is written once, by whichever consumer had it,
\* between <add> and </add>, behind which nothing is written; what is not a document is a
\* fragment that a message accounts for.
THEOREM AddFileWellFormed == Spec => []AddFile
  <1>1. Init => IInv /\ NoFileOpen /\ OutputInv
    <2> SUFFICES ASSUME Init PROVE IInv /\ NoFileOpen /\ OutputInv
      OBVIOUS
    <2>1. IInv
      BY TypeInit, PlacesInit, EndInit DEF IInv
    <2>2. NoFileOpen
      BY DEF Init, NoFileOpen
    <2>3. dos = <<>> /\ DOMAIN dos = {} /\ documented = {} /\ main = "run"
      BY EmptySeq DEF Init
    <2> QED
      BY <2>1, <2>2, <2>3 DEF Init, OutputInv, OpenedFirst, EachDocumented, NoneTwice, TagsInPlace
  <1>2. (IInv /\ NoFileOpen /\ OutputInv) /\ [Next]_vars => (IInv /\ NoFileOpen /\ OutputInv)'
    BY TypeStep, PlacesStep, EndStep, NoFileOpenStep, OutputStep DEF IInv
  <1>3. IInv /\ OutputInv => AddFile
    BY OutputIsAddFile DEF IInv
  <1> QED
    BY <1>1, <1>2, <1>3, PTL DEF Spec

--------------------------------------------------------------------------------
(* The individual files                                                    *)

\* A documented line's file is complete, or somebody with the same file has failed, or
\* has opened it anew and is about to write to it.
SameFile(i, j) == FileList[i] = FileList[j]
FilesInv ==
  \A i \in documented :
    \/ content[FileList[i]] = "complete"
    \/ \E j \in failed \cup Lost : SameFile(j, i)
    \/ \E c \in Consumers : consumer[c] = "writing" /\ SameFile(tmp[c], i)

\* A step in which no file is opened or left.
LEMMA FilesUntouched ==
  ASSUME FilesInv, UNCHANGED <<content, documented>>,
         failed \subseteq failed', Lost \subseteq Lost',
         \A c \in Consumers : consumer[c] = "writing" =>
                                consumer'[c] = "writing" /\ tmp'[c] = tmp[c]
  PROVE  FilesInv'
  BY DEF FilesInv, SameFile

LEMMA FilesStep == TypeInv /\ IndividualFiles /\ FilesInv /\ [Next]_vars => FilesInv'
  <1> SUFFICES ASSUME TypeInv, IndividualFiles, FilesInv, [Next]_vars PROVE FilesInv'
    OBVIOUS
  <1>1. CASE MainNext \/ ProducerNext \/ MonitoringStops \/ UNCHANGED vars
    <2>1. UNCHANGED <<tmp, content, documented, failed>>
      BY <1>1 DEF MainNext, OpenOutput, OpenFails, StartConsumer, StartMonitoring, JoinAndClose,
                  CloseFails, ProducerNext, LoadFile, LoadFails, ProducerDies, Push,
                  CrowdedWaitOver, SleepOver, EndOfList, SignalEnd, MonitoringStops, vars,
                  threadVars, outputVars
    <2>2. \A c \in Consumers :
            consumer[c] \in {"writing", "dead"} => consumer'[c] = consumer[c]
      <3>1. CASE MainNext
        BY <3>1 DEF MainNext, OpenOutput, OpenFails, StartConsumer, StartMonitoring,
                    JoinAndClose, CloseFails, TypeInv, TypeOK
      <3>2. CASE ProducerNext
        BY <3>2 DEF ProducerNext, LoadFile, LoadFails, ProducerDies, Push, CrowdedWaitOver,
                    SleepOver, EndOfList, SignalEnd, NotifyOne, NotifyAll, TypeInv, TypeOK
      <3> QED
        BY <1>1, <3>1, <3>2 DEF MonitoringStops, vars, threadVars
    <2>3. producer = "dead" => producer' = "dead" /\ cursor' = cursor
      BY <1>1 DEF MainNext, OpenOutput, OpenFails, StartConsumer, StartMonitoring, JoinAndClose,
                  CloseFails, ProducerNext, LoadFile, LoadFails, ProducerDies, Push,
                  CrowdedWaitOver, SleepOver, EndOfList, SignalEnd, MonitoringStops, vars,
                  threadVars, producerVars, TypeInv, AtWork
    <2>4. Lost \subseteq Lost'
      BY <2>1, <2>2, <2>3 DEF Lost, LostByConsumers, LostByProducer
    <2> QED
      BY <2>1, <2>2, <2>4, FilesUntouched
  <1>2. ASSUME NEW c \in Consumers, ConsumerNext(c) PROVE FilesInv'
    <2>1. /\ UNCHANGED <<producer, cursor>> /\ consumer[c] # "dead"
          /\ \A d \in Consumers \ {c} : consumer'[d] = consumer[d] /\ tmp'[d] = tmp[d]
      BY <1>2 DEF ConsumerNext, Wait, WaitOver, Stop, Pop, WriteDoc, OpenDocFile, WriteDocFile,
                  ProcessFails, WriteFails, ConsumerDies, producerVars, TypeInv, TypeOK
    <2>2. Lost \subseteq Lost'
      BY <2>1 DEF Lost, LostByConsumers, LostByProducer
    <2>3. CASE OpenDocFile(c)
      <3>1. /\ content' = [content EXCEPT ![FileList[tmp[c]]] = "partial"]
            /\ consumer'[c] = "writing" /\ UNCHANGED <<tmp, documented, failed>>
        BY <2>3 DEF OpenDocFile, TypeInv, TypeOK
      <3>2. ASSUME NEW i \in documented, FileList[i] # FileList[tmp[c]]
            PROVE  content'[FileList[i]] = content[FileList[i]]
        BY <3>1, <3>2
      <3> QED
        BY <2>1, <2>2, <2>3, <3>1, <3>2 DEF FilesInv, SameFile, OpenDocFile
    <2>4. CASE WriteDocFile(c)
      <3>1. /\ content' = [content EXCEPT ![FileList[tmp[c]]] = "complete"]
            /\ documented' = documented \cup {tmp[c]} /\ UNCHANGED <<tmp, failed>>
            /\ tmp[c] \in Lines
        BY <2>4 DEF WriteDocFile, TypeInv, TypeOK, AtWork, InWork, NoLine
      <3>2. \A i \in Lines : FileList[i] \in Paths
        BY ConstantsAssumption DEF Lines
      <3>3. ASSUME NEW i \in documented'
            PROVE  /\ SameFile(i, tmp[c]) => content'[FileList[i]] = "complete"
                   /\ ~SameFile(i, tmp[c]) => content'[FileList[i]] = content[FileList[i]]
        BY <3>1, <3>2 DEF SameFile, TypeInv, TypeOK
      <3>4. ASSUME NEW i \in documented', ~SameFile(i, tmp[c])
            PROVE  \/ content'[FileList[i]] = "complete"
                   \/ \E j \in failed' \cup Lost' : SameFile(j, i)
                   \/ \E d \in Consumers : consumer'[d] = "writing" /\ SameFile(tmp'[d], i)
        <4>1. i \in documented
          BY <3>1, <3>4 DEF SameFile
        <4> QED
          BY <2>1, <2>2, <3>1, <3>3, <3>4, <4>1 DEF FilesInv, SameFile
      <3> QED
        BY <3>3, <3>4 DEF FilesInv, SameFile
    <2>5. CASE consumer[c] = "writing" /\ (WriteFails(c) \/ ConsumerDies(c))
      <3>1. /\ UNCHANGED <<tmp, content, documented>> /\ failed \subseteq failed'
            /\ tmp[c] # NoLine
        BY <2>5 DEF WriteFails, ConsumerDies, outputVars, TypeInv, AtWork, InWork
      <3>2. tmp[c] \in failed' \cup Lost'
        BY <2>5, <3>1 DEF WriteFails, ConsumerDies, Lost, LostByConsumers, TypeInv, TypeOK
      <3> QED
        BY <2>1, <2>2, <3>1, <3>2 DEF FilesInv, SameFile
    <2>6. CASE consumer[c] # "writing" /\ ~OpenDocFile(c)
      <3>1. UNCHANGED <<content, documented>> /\ failed \subseteq failed'
        BY <1>2, <2>6 DEF ConsumerNext, Wait, WaitOver, Stop, Pop, WriteDoc, WriteDocFile,
                          ProcessFails, WriteFails, ConsumerDies, outputVars
      <3> QED
        BY <2>1, <2>2, <2>6, <3>1, FilesUntouched
    <2> QED
      BY <1>2, <2>3, <2>4, <2>5, <2>6 DEF ConsumerNext, Wait, WaitOver, Stop, Pop, WriteDoc,
                                          ProcessFails
  <1> QED
    BY <1>1, <1>2 DEF Next, MonitoringReports, Terminated

\* When run() is done, the file of each documented image is complete, even if consumers
\* wrote to the same file at the same time, unless one of them failed.
THEOREM FilesAreComplete == Spec => []FilesComplete
  <1>1. Init => IInv /\ (IndividualFiles => FilesInv)
    BY TypeInit, PlacesInit, EndInit DEF IInv, Init, FilesInv
  <1>2. IInv /\ (IndividualFiles => FilesInv) /\ [Next]_vars
          => (IInv /\ (IndividualFiles => FilesInv))'
    BY TypeStep, PlacesStep, EndStep, FilesStep DEF IInv
  <1>3. IInv /\ (IndividualFiles => FilesInv) => FilesComplete
    BY DEF IInv, EndInv, AllJoined, FilesInv, FilesComplete, SameFile
  <1> QED
    BY <1>1, <1>2, <1>3, PTL DEF Spec

================================================================================
