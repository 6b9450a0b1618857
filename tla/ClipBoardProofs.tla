-------------------------- MODULE ClipBoardProofs --------------------------
(***************************************************************************)
(* Proofs about ClipBoard, for any number of producers, any data and any   *)
(* number of pushes, in both of its uses.                                  *)
(***************************************************************************)
EXTENDS ClipBoard, SequenceTheorems, TLAPS

----------------------------------------------------------------------------
(* Lemmas on sequences *)

(* Popping moves the boundary between what is received and what is queued, *)
(* and takes the first datum not yet received.                             *)
LEMMA PopSeq ==
    ASSUME NEW S, NEW r \in Seq(S), NEW q \in Seq(S), q # <<>>
    PROVE  /\ Append(r, Head(q)) \o Tail(q) = r \o q
           /\ Len(r) < Len(r \o q)
           /\ (r \o q)[Len(r) + 1] = Head(q)
<1>1. /\ Head(q) \in S
      /\ Tail(q) \in Seq(S)
      /\ Len(q) \in Nat \ {0}
      /\ Len(r) \in Nat
  BY HeadTailProperties, EmptySeq, LenProperties
<1>2. <<Head(q)>> \in Seq(S)
  BY <1>1
<1>3. Append(r, Head(q)) = r \o <<Head(q)>>
  BY <1>1, AppendIsConcat
<1>4. (r \o <<Head(q)>>) \o Tail(q) = r \o (<<Head(q)>> \o Tail(q))
  BY <1>1, <1>2, ConcatAssociative
<1>5. <<Head(q)>> \o Tail(q) = q
  <2>1. /\ <<Head(q)>> \o Tail(q) \in Seq(S)
        /\ Len(<<Head(q)>> \o Tail(q)) = 1 + Len(Tail(q))
        /\ \A i \in 1 .. 1 + Len(Tail(q)) : (<<Head(q)>> \o Tail(q))[i] =
              IF i <= 1 THEN <<Head(q)>>[i] ELSE Tail(q)[i - 1]
    BY <1>1, <1>2, ConcatProperties
  <2>2. /\ Len(Tail(q)) = Len(q) - 1
        /\ \A i \in 1 .. Len(Tail(q)) : Tail(q)[i] = q[i + 1]
    BY HeadTailProperties
  <2>3. Len(<<Head(q)>> \o Tail(q)) = Len(q)
    BY <1>1, <2>1, <2>2
  <2>4. \A i \in 1 .. Len(q) : (<<Head(q)>> \o Tail(q))[i] = q[i]
    <3> TAKE i \in 1 .. Len(q)
    <3>1. CASE i = 1
      BY <1>1, <2>1, <2>2, <3>1
    <3>2. CASE i > 1
      BY <1>1, <2>1, <2>2, <3>2
    <3> QED BY <1>1, <3>1, <3>2
  <2> QED BY <2>1, <2>3, <2>4, SeqEqual
<1>6. /\ Len(r \o q) = Len(r) + Len(q)
      /\ (r \o q)[Len(r) + 1] = q[1]
  BY <1>1, ConcatProperties
<1> QED BY <1>1, <1>3, <1>4, <1>5, <1>6

----------------------------------------------------------------------------
(* Type correctness *)

(* The types hold for the empty clipboard.                                  *)
LEMMA InitType == Init => TypeOK
<1>1. <<>> \in Seq(Data)
  BY EmptySeq
<1>2. Init => QueueTypeOK
  BY <1>1 DEF Init, QueueTypeOK
<1>3. ASSUME Init PROVE ThreadTypeOK
  <2>1. /\ doneFlag = FALSE /\ queueMutex = Free /\ cvNotEmpty = {}
        /\ usage \in Usages
        /\ numDataIn = 0 /\ numDataOut = 0 /\ pushes = 0
        /\ pc = [t \in Threads |-> IF t \in Producers THEN "run"
                                  ELSE IF t = Consumer THEN "top" ELSE "join"]
    BY <1>3 DEF Init
  <2> QED
    BY <2>1, ClipBoardAssumption
       DEF ThreadTypeOK, Threads, ConsumerPC, ProducerPC, MainPC
<1> QED BY <1>2, <1>3 DEF TypeOK

(* The queue and the histories keep their types. *)
LEMMA StepQueueType == QueueTypeOK /\ [Next]_vars => QueueTypeOK'
<1> SUFFICES ASSUME QueueTypeOK, [Next]_vars PROVE QueueTypeOK'
  OBVIOUS
<1> USE DEF QueueTypeOK
<1>1. ASSUME NEW p \in Producers, NEW d \in Data \cup {NoData}, PushData(p, d)
      PROVE  QueueTypeOK'
  <2>1. d # NoData => /\ Append(dataQueue, d) \in Seq(Data)
                      /\ Append(sent, d) \in Seq(Data)
    BY AppendProperties
  <2> QED BY <1>1, <2>1 DEF PushData
<1>2. CASE CorePop \/ FeedbackPop
  <2>1. dataQueue # <<>> => /\ Head(dataQueue) \in Data
                            /\ Tail(dataQueue) \in Seq(Data)
                            /\ Append(received, Head(dataQueue)) \in Seq(Data)
    BY HeadTailProperties, AppendProperties
  <2> QED BY <1>2, <2>1 DEF CorePop, FeedbackPop, PopData
<1>3. CASE ClearData
  <2>1. <<>> \in Seq(Data)
    BY EmptySeq
  <2> QED BY <1>3, <2>1 DEF ClearData
<1>4. CASE UNCHANGED <<dataQueue, lastPop, sent, received>>
  BY <1>4
<1>5. ASSUME NEW p \in Producers, PushNotify(p) \/ ProducerReturn(p)
      PROVE  UNCHANGED <<dataQueue, lastPop, sent, received>>
  BY <1>5 DEF PushNotify, ProducerReturn, members
<1>6. CASE \/ MainStep \/ WaitLock \/ WaitBlock \/ WaitWake \/ SpuriousWake
           \/ WaitCheck \/ WaitTimeout \/ IsDone \/ CoreEmpty("core1", "isDone")
           \/ CoreEmpty("core2", "core3") \/ CoreEmpty("core3", "returned")
           \/ Reset \/ UNCHANGED vars
  BY <1>4, <1>6 DEF MainStep, Finish, FinishNotify, WaitLock, WaitBlock, WaitWake,
     SpuriousWake, WaitCheck, WaitTimeout, IsDone, CoreEmpty, Reset, vars, members
<1> QED
  BY <1>1, <1>2, <1>3, <1>4, <1>5, <1>6
     DEF Next, ProducerStep, ConsumerStep, ProcessStep

(* The threads stay at points of their own programs. *)
LEMMA StepThreadType == ThreadTypeOK /\ [Next]_vars => ThreadTypeOK'
<1> SUFFICES ASSUME ThreadTypeOK, [Next]_vars PROVE ThreadTypeOK'
  OBVIOUS
<1> USE ClipBoardAssumption
    DEF ThreadTypeOK, Threads, ConsumerPC, ProducerPC, MainPC, Goto, members
<1>1. ASSUME NEW p \in Producers, NEW d \in Data \cup {NoData}, PushData(p, d)
      PROVE  ThreadTypeOK'
  BY <1>1 DEF PushData
<1>2. ASSUME NEW p \in Producers, PushNotify(p) \/ ProducerReturn(p)
      PROVE  ThreadTypeOK'
  BY <1>2 DEF PushNotify, ProducerReturn
<1>3. CASE MainStep
  BY <1>3 DEF MainStep, Finish, FinishNotify
<1>4. CASE WaitLock \/ WaitBlock \/ WaitWake \/ SpuriousWake
  BY <1>4 DEF WaitLock, WaitBlock, WaitWake, SpuriousWake
<1>5. CASE WaitCheck \/ WaitTimeout
  BY <1>5 DEF WaitCheck, WaitTimeout, WaitReturns
<1>6. CASE CorePop \/ FeedbackPop
  BY <1>6 DEF CorePop, FeedbackPop, PopData
<1>7. CASE \/ IsDone \/ CoreEmpty("core1", "isDone") \/ CoreEmpty("core2", "core3")
           \/ CoreEmpty("core3", "returned")
  BY <1>7 DEF IsDone, CoreEmpty
<1>8. CASE ClearData \/ Reset
  <2>1. /\ numDataIn' = 0 /\ numDataOut' = 0
        /\ doneFlag' \in {doneFlag, FALSE}
        /\ \E l \in {"reset", "top"} : pc' = [pc EXCEPT ![Consumer] = l]
        /\ UNCHANGED <<queueMutex, cvNotEmpty, usage, pushes>>
    BY <1>8 DEF ClearData, Reset
  <2> QED BY <2>1
<1>9. CASE UNCHANGED vars
  BY <1>9 DEF vars
<1> QED
  BY <1>1, <1>2, <1>3, <1>4, <1>5, <1>6, <1>7, <1>8, <1>9
     DEF Next, ProducerStep, ConsumerStep, ProcessStep

(* Every reachable state of the clipboard and of its threads is well typed. *)
THEOREM TypeCorrect == Spec => []TypeOK
<1>1. TypeOK /\ [Next]_vars => TypeOK'
  BY StepQueueType, StepThreadType DEF TypeOK
<1> QED BY InitType, <1>1, PTL DEF Spec

----------------------------------------------------------------------------
(* The safety properties *)

(* While the consumer holds the mutex nobody pushes. *)
LEMMA StepWaitInv == ThreadTypeOK /\ WaitInv /\ [Next]_vars => WaitInv'
<1> SUFFICES ASSUME ThreadTypeOK, WaitInv, [Next]_vars PROVE WaitInv'
  OBVIOUS
<1> USE ClipBoardAssumption DEF Threads, ConsumerPC, ProducerPC, MainPC, Goto, members,
    ThreadTypeOK, WaitInv
<1>1. ASSUME NEW p \in Producers, NEW d \in Data \cup {NoData}, PushData(p, d)
      PROVE  WaitInv'
  BY <1>1 DEF PushData
<1>2. ASSUME NEW p \in Producers, PushNotify(p)
      PROVE  WaitInv'
  BY <1>2 DEF PushNotify
<1>3. ASSUME NEW p \in Producers, ProducerReturn(p)
      PROVE  WaitInv'
  BY <1>3 DEF ProducerReturn
<1>4. CASE MainStep
  BY <1>4 DEF MainStep, Finish, FinishNotify
<1>5. CASE WaitLock \/ WaitBlock \/ WaitWake \/ SpuriousWake
  BY <1>5 DEF WaitLock, WaitBlock, WaitWake, SpuriousWake
<1>6. CASE WaitCheck \/ WaitTimeout
  BY <1>6 DEF WaitCheck, WaitTimeout, WaitReturns, NotEmptyOrDone
<1>7. CASE CorePop \/ FeedbackPop
  BY <1>7 DEF CorePop, FeedbackPop, PopData
<1>8. CASE \/ IsDone \/ CoreEmpty("core1", "isDone") \/ CoreEmpty("core2", "core3")
           \/ CoreEmpty("core3", "returned")
  BY <1>8 DEF IsDone, CoreEmpty
<1>9. CASE ClearData \/ Reset
  BY <1>9 DEF ClearData, Reset
<1>10. CASE UNCHANGED vars
  BY <1>10 DEF vars
<1> QED
  BY <1>1, <1>2, <1>3, <1>4, <1>5, <1>6, <1>7, <1>8, <1>9, <1>10
     DEF Next, ProducerStep, ConsumerStep, ProcessStep

(* finish() and reset() never meet on one clipboard. *)
LEMMA StepUsageInv == ThreadTypeOK /\ UsageInv /\ [Next]_vars => UsageInv'
<1> SUFFICES ASSUME ThreadTypeOK, UsageInv, [Next]_vars PROVE UsageInv'
  OBVIOUS
<1> USE ClipBoardAssumption DEF Threads, ConsumerPC, ProducerPC, MainPC, Goto, members,
    ThreadTypeOK, UsageInv
<1>1. ASSUME NEW p \in Producers, NEW d \in Data \cup {NoData}, PushData(p, d)
      PROVE  UsageInv'
  BY <1>1 DEF PushData
<1>2. ASSUME NEW p \in Producers, PushNotify(p)
      PROVE  UsageInv'
  BY <1>2 DEF PushNotify
<1>3. ASSUME NEW p \in Producers, ProducerReturn(p)
      PROVE  UsageInv'
  BY <1>3 DEF ProducerReturn
<1>4. CASE MainStep
  BY <1>4 DEF MainStep, Finish, FinishNotify
<1>5. CASE WaitLock \/ WaitBlock \/ WaitWake \/ SpuriousWake
  BY <1>5 DEF WaitLock, WaitBlock, WaitWake, SpuriousWake
<1>6. CASE WaitCheck \/ WaitTimeout
  BY <1>6 DEF WaitCheck, WaitTimeout, WaitReturns, NotEmptyOrDone
<1>7. CASE CorePop \/ FeedbackPop
  BY <1>7 DEF CorePop, FeedbackPop, PopData
<1>8. CASE \/ IsDone \/ CoreEmpty("core1", "isDone") \/ CoreEmpty("core2", "core3")
           \/ CoreEmpty("core3", "returned")
  BY <1>8 DEF IsDone, CoreEmpty
<1>9. CASE ClearData \/ Reset
  BY <1>9 DEF ClearData, Reset
<1>10. CASE UNCHANGED vars
  BY <1>10 DEF vars
<1> QED
  BY <1>1, <1>2, <1>3, <1>4, <1>5, <1>6, <1>7, <1>8, <1>9, <1>10
     DEF Next, ProducerStep, ConsumerStep, ProcessStep

(* Once the done flag is set the queue only shrinks. *)
LEMMA StepDoneInv == ThreadTypeOK /\ UsageInv /\ DoneInv /\ [Next]_vars => DoneInv'
<1> SUFFICES ASSUME ThreadTypeOK, UsageInv, DoneInv, [Next]_vars PROVE DoneInv'
  OBVIOUS
<1> USE ClipBoardAssumption DEF Threads, ConsumerPC, ProducerPC, MainPC, Goto, members,
    ThreadTypeOK, UsageInv, DoneInv
<1>1. ASSUME NEW p \in Producers, NEW d \in Data \cup {NoData}, PushData(p, d)
      PROVE  DoneInv'
  BY <1>1 DEF PushData
<1>2. ASSUME NEW p \in Producers, PushNotify(p)
      PROVE  DoneInv'
  BY <1>2 DEF PushNotify
<1>3. ASSUME NEW p \in Producers, ProducerReturn(p)
      PROVE  DoneInv'
  BY <1>3 DEF ProducerReturn
<1>4. CASE MainStep
  BY <1>4 DEF MainStep, Finish, FinishNotify
<1>5. CASE WaitLock \/ WaitBlock \/ WaitWake \/ SpuriousWake
  BY <1>5 DEF WaitLock, WaitBlock, WaitWake, SpuriousWake
<1>6. CASE WaitCheck \/ WaitTimeout
  BY <1>6 DEF WaitCheck, WaitTimeout, WaitReturns, NotEmptyOrDone
<1>7. CASE CorePop \/ FeedbackPop
  BY <1>7 DEF CorePop, FeedbackPop, PopData
<1>8. CASE \/ IsDone \/ CoreEmpty("core1", "isDone") \/ CoreEmpty("core2", "core3")
           \/ CoreEmpty("core3", "returned")
  BY <1>8 DEF IsDone, CoreEmpty
<1>9. CASE ClearData \/ Reset
  BY <1>9 DEF ClearData, Reset
<1>10. CASE UNCHANGED vars
  BY <1>10 DEF vars
<1> QED
  BY <1>1, <1>2, <1>3, <1>4, <1>5, <1>6, <1>7, <1>8, <1>9, <1>10
     DEF Next, ProducerStep, ConsumerStep, ProcessStep

(* A push onto a clipboard its consumer sleeps on is followed by a notification. *)
LEMMA StepPushWakes == ThreadTypeOK /\ WaitInv /\ PushWakesConsumer /\ [Next]_vars => PushWakesConsumer'
<1> SUFFICES ASSUME ThreadTypeOK, WaitInv, PushWakesConsumer, [Next]_vars PROVE PushWakesConsumer'
  OBVIOUS
<1> USE ClipBoardAssumption DEF Threads, ConsumerPC, ProducerPC, MainPC, Goto, members,
    ThreadTypeOK, WaitInv, PushWakesConsumer
<1>1. ASSUME NEW p \in Producers, NEW d \in Data \cup {NoData}, PushData(p, d)
      PROVE  PushWakesConsumer'
  BY <1>1 DEF PushData
<1>2. ASSUME NEW p \in Producers, PushNotify(p)
      PROVE  PushWakesConsumer'
  BY <1>2 DEF PushNotify
<1>3. ASSUME NEW p \in Producers, ProducerReturn(p)
      PROVE  PushWakesConsumer'
  BY <1>3 DEF ProducerReturn
<1>4. CASE MainStep
  BY <1>4 DEF MainStep, Finish, FinishNotify
<1>5. CASE WaitLock \/ WaitBlock \/ WaitWake \/ SpuriousWake
  BY <1>5 DEF WaitLock, WaitBlock, WaitWake, SpuriousWake
<1>6. CASE WaitCheck \/ WaitTimeout
  BY <1>6 DEF WaitCheck, WaitTimeout, WaitReturns, NotEmptyOrDone
<1>7. CASE CorePop \/ FeedbackPop
  BY <1>7 DEF CorePop, FeedbackPop, PopData
<1>8. CASE \/ IsDone \/ CoreEmpty("core1", "isDone") \/ CoreEmpty("core2", "core3")
           \/ CoreEmpty("core3", "returned")
  BY <1>8 DEF IsDone, CoreEmpty
<1>9. CASE ClearData \/ Reset
  BY <1>9 DEF ClearData, Reset
<1>10. CASE UNCHANGED vars
  BY <1>10 DEF vars
<1> QED
  BY <1>1, <1>2, <1>3, <1>4, <1>5, <1>6, <1>7, <1>8, <1>9, <1>10
     DEF Next, ProducerStep, ConsumerStep, ProcessStep

(* Only the consumer removes data. *)
LEMMA StepFeedbackPop == ThreadTypeOK /\ UsageInv /\ FeedbackPopNotNull /\ [Next]_vars => FeedbackPopNotNull'
<1> SUFFICES ASSUME ThreadTypeOK, UsageInv, FeedbackPopNotNull, [Next]_vars PROVE FeedbackPopNotNull'
  OBVIOUS
<1> USE ClipBoardAssumption DEF Threads, ConsumerPC, ProducerPC, MainPC, Goto, members,
    ThreadTypeOK, UsageInv, FeedbackPopNotNull
<1>1. ASSUME NEW p \in Producers, NEW d \in Data \cup {NoData}, PushData(p, d)
      PROVE  FeedbackPopNotNull'
  BY <1>1 DEF PushData
<1>2. ASSUME NEW p \in Producers, PushNotify(p)
      PROVE  FeedbackPopNotNull'
  BY <1>2 DEF PushNotify
<1>3. ASSUME NEW p \in Producers, ProducerReturn(p)
      PROVE  FeedbackPopNotNull'
  BY <1>3 DEF ProducerReturn
<1>4. CASE MainStep
  BY <1>4 DEF MainStep, Finish, FinishNotify
<1>5. CASE WaitLock \/ WaitBlock \/ WaitWake \/ SpuriousWake
  BY <1>5 DEF WaitLock, WaitBlock, WaitWake, SpuriousWake
<1>6. CASE WaitCheck \/ WaitTimeout
  BY <1>6 DEF WaitCheck, WaitTimeout, WaitReturns, NotEmptyOrDone
<1>7. CASE CorePop \/ FeedbackPop
  BY <1>7 DEF CorePop, FeedbackPop, PopData
<1>8. CASE \/ IsDone \/ CoreEmpty("core1", "isDone") \/ CoreEmpty("core2", "core3")
           \/ CoreEmpty("core3", "returned")
  BY <1>8 DEF IsDone, CoreEmpty
<1>9. CASE ClearData \/ Reset
  BY <1>9 DEF ClearData, Reset
<1>10. CASE UNCHANGED vars
  BY <1>10 DEF vars
<1> QED
  BY <1>1, <1>2, <1>3, <1>4, <1>5, <1>6, <1>7, <1>8, <1>9, <1>10
     DEF Next, ProducerStep, ConsumerStep, ProcessStep

(* Pushing and popping keep the order of the data. *)
LEMMA StepFifoInv == QueueTypeOK /\ FifoInv /\ [Next]_vars => FifoInv'
<1> SUFFICES ASSUME QueueTypeOK, FifoInv, [Next]_vars PROVE FifoInv'
  OBVIOUS
<1> USE DEF members, QueueTypeOK, FifoInv
<1>1. ASSUME NEW p \in Producers, NEW d \in Data \cup {NoData}, PushData(p, d)
      PROVE  FifoInv'
  <2>1. CASE d # NoData
    <3>1. d \in Data /\ received \in Seq(Data) /\ dataQueue \in Seq(Data)
      BY <2>1
    <3>2. /\ <<d>> \in Seq(Data)
          /\ sent \in Seq(Data)
      BY <3>1
    <3>3. Append(sent, d) = (received \o dataQueue) \o <<d>>
      BY <3>1, <3>2, AppendIsConcat
    <3>4. (received \o dataQueue) \o <<d>> = received \o (dataQueue \o <<d>>)
      BY <3>1, <3>2, ConcatAssociative
    <3>5. dataQueue \o <<d>> = Append(dataQueue, d)
      BY <3>1, AppendIsConcat
    <3> QED BY <1>1, <2>1, <3>3, <3>4, <3>5 DEF PushData
  <2>2. CASE d = NoData
    BY <1>1, <2>2 DEF PushData
  <2> QED BY <2>1, <2>2
<1>2. ASSUME NEW p \in Producers, PushNotify(p)
      PROVE  FifoInv'
  BY <1>2 DEF PushNotify
<1>3. ASSUME NEW p \in Producers, ProducerReturn(p)
      PROVE  FifoInv'
  BY <1>3 DEF ProducerReturn
<1>4. CASE MainStep
  BY <1>4 DEF MainStep, Finish, FinishNotify
<1>5. CASE WaitLock \/ WaitBlock \/ WaitWake \/ SpuriousWake
  BY <1>5 DEF WaitLock, WaitBlock, WaitWake, SpuriousWake
<1>6. CASE WaitCheck \/ WaitTimeout
  BY <1>6 DEF WaitCheck, WaitTimeout, WaitReturns, NotEmptyOrDone
<1>7. CASE CorePop \/ FeedbackPop
  <2>1. CASE dataQueue # <<>>
    <3>1. Append(received, Head(dataQueue)) \o Tail(dataQueue) = received \o dataQueue
      BY <2>1, PopSeq
    <3> QED BY <1>7, <2>1, <3>1 DEF CorePop, FeedbackPop, PopData
  <2>2. CASE dataQueue = <<>>
    BY <1>7, <2>2 DEF CorePop, FeedbackPop, PopData
  <2> QED BY <2>1, <2>2
<1>8. CASE \/ IsDone \/ CoreEmpty("core1", "isDone") \/ CoreEmpty("core2", "core3")
           \/ CoreEmpty("core3", "returned")
  BY <1>8 DEF IsDone, CoreEmpty
<1>9. CASE ClearData \/ Reset
  BY <1>9 DEF ClearData, Reset
<1>10. CASE UNCHANGED vars
  BY <1>10 DEF vars
<1> QED
  BY <1>1, <1>2, <1>3, <1>4, <1>5, <1>6, <1>7, <1>8, <1>9, <1>10
     DEF Next, ProducerStep, ConsumerStep, ProcessStep

(* The inductive invariant holds for the empty clipboard.                   *)
LEMMA InitIInv == Init => IInv
<1> SUFFICES ASSUME Init PROVE IInv
  OBVIOUS
<1>1. TypeOK
  BY InitType
<1>2. /\ dataQueue = <<>> /\ sent = <<>> /\ received = <<>>
      /\ doneFlag = FALSE /\ queueMutex = Free /\ cvNotEmpty = {}
      /\ pc = [t \in Threads |-> IF t \in Producers THEN "run"
                                ELSE IF t = Consumer THEN "top" ELSE "join"]
  BY DEF Init
<1>3. WaitInv /\ UsageInv /\ DoneInv /\ FeedbackPopNotNull
  BY <1>2, ClipBoardAssumption
     DEF WaitInv, UsageInv, DoneInv, FeedbackPopNotNull, Threads
<1>4. FifoInv
  BY <1>2, ConcatEmptySeq, EmptySeq DEF FifoInv
<1>5. PushWakesConsumer
  BY <1>2 DEF PushWakesConsumer
<1> QED BY <1>1, <1>3, <1>4, <1>5 DEF IInv

(* IInv is inductive. *)
THEOREM IInvHolds == Spec => []IInv
<1>1. IInv /\ [Next]_vars => IInv'
  BY StepQueueType, StepThreadType, StepWaitInv, StepUsageInv, StepDoneInv,
     StepFifoInv, StepPushWakes, StepFeedbackPop DEF IInv, TypeOK
<1> QED BY InitIInv, <1>1, PTL DEF Spec

(* pushData never loses a wake-up, whatever the number of producers and     *)
(* wherever they are between unlock() and notify_all().                     *)
THEOREM NoLostPush == Spec => []PushWakesConsumer
<1>1. IInv => PushWakesConsumer
  BY DEF IInv
<1> QED BY <1>1, IInvHolds, PTL

(* process() returns only after it has taken everything ever pushed.        *)
THEOREM NoDataLeft == Spec => []NothingLeftBehind
<1>1. IInv => NothingLeftBehind
  <2> SUFFICES ASSUME IInv, pc[Consumer] = "returned" PROVE received = sent
    BY DEF NothingLeftBehind
  <2>1. dataQueue = <<>> /\ received \in Seq(Data) /\ sent = received \o dataQueue
    BY DEF IInv, DoneInv, FifoInv, TypeOK, QueueTypeOK
  <2> QED BY <2>1, ConcatEmptySeq
<1> QED BY <1>1, IInvHolds, PTL

(* The data loop never dereferences a null feedback.                        *)
THEOREM FeedbackSafe == Spec => []FeedbackPopNotNull
<1>1. IInv => FeedbackPopNotNull
  BY DEF IInv
<1> QED BY <1>1, IInvHolds, PTL

----------------------------------------------------------------------------
(* The refinement: ClipBoard implements FifoChannel *)

(* Each step of the clipboard is a step of the channel, or changes nothing  *)
(* of it.                                                                   *)
LEMMA StepChannel == IInv /\ [Next]_vars => [Channel!Next]_(Channel!vars)
<1> SUFFICES ASSUME IInv, [Next]_vars
             PROVE  Channel!Next \/ UNCHANGED Channel!vars
  OBVIOUS
<1> USE DEF Channel!vars, members
<1>1. ASSUME NEW p \in Producers, NEW d \in Data \cup {NoData}, PushData(p, d)
      PROVE  Channel!Next \/ UNCHANGED Channel!vars
  <2>1. ~doneFlag
    BY <1>1 DEF IInv, DoneInv, PushData
  <2>2. CASE d # NoData
    <3>1. Channel!Send(d)
      BY <1>1, <2>1, <2>2 DEF PushData, Channel!Send
    <3> QED BY <2>2, <3>1 DEF Channel!Next
  <2>3. CASE d = NoData
    BY <1>1, <2>3 DEF PushData
  <2> QED BY <2>2, <2>3
<1>2. ASSUME NEW p \in Producers, PushNotify(p) \/ ProducerReturn(p)
      PROVE  UNCHANGED Channel!vars
  BY <1>2 DEF PushNotify, ProducerReturn
<1>3. CASE Finish
  <2>1. Channel!Close
    BY <1>3 DEF Finish, Channel!Close
  <2> QED BY <2>1 DEF Channel!Next
<1>4. CASE CorePop \/ FeedbackPop
  <2>1. CASE dataQueue # <<>>
    <3>1. /\ Len(received) < Len(received \o dataQueue)
          /\ (received \o dataQueue)[Len(received) + 1] = Head(dataQueue)
      BY <2>1, PopSeq DEF IInv, TypeOK, QueueTypeOK
    <3>2. sent = received \o dataQueue
      BY DEF IInv, FifoInv
    <3>3. /\ received' = Append(received, Head(dataQueue))
          /\ UNCHANGED <<sent, doneFlag>>
      BY <1>4, <2>1 DEF CorePop, FeedbackPop, PopData
    <3>4. Channel!Receive
      BY <3>1, <3>2, <3>3 DEF Channel!Receive
    <3> QED BY <3>4 DEF Channel!Next
  <2>2. CASE dataQueue = <<>>
    BY <1>4, <2>2 DEF CorePop, FeedbackPop, PopData
  <2> QED BY <2>1, <2>2
<1>5. CASE ClearData
  <2>1. ~doneFlag
    BY <1>5 DEF IInv, UsageInv, ClearData
  <2>2. Channel!Discard
    BY <1>5, <2>1 DEF ClearData, Channel!Discard
  <2> QED BY <2>2 DEF Channel!Next
<1>6. CASE Reset
  <2>1. doneFlag = FALSE
    BY <1>6 DEF IInv, UsageInv, Reset, TypeOK, ThreadTypeOK
  <2> QED BY <1>6, <2>1 DEF Reset
<1>7. CASE \/ FinishNotify \/ WaitLock \/ WaitBlock \/ WaitWake \/ SpuriousWake
           \/ WaitCheck \/ WaitTimeout \/ IsDone \/ CoreEmpty("core1", "isDone")
           \/ CoreEmpty("core2", "core3") \/ CoreEmpty("core3", "returned")
           \/ UNCHANGED vars
  BY <1>7 DEF FinishNotify, WaitLock, WaitBlock, WaitWake, SpuriousWake, WaitCheck,
     WaitTimeout, IsDone, CoreEmpty, vars
<1> QED
  BY <1>1, <1>2, <1>3, <1>4, <1>5, <1>6, <1>7
     DEF Next, ProducerStep, MainStep, ConsumerStep, ProcessStep

(* A clipboard is a closable first-in first-out channel: no datum is lost,  *)
(* duplicated or reordered, and none is pushed after finish().              *)
THEOREM Refinement == Spec => ChannelSpec
<1>1. Init => Channel!Init
  BY DEF Init, Channel!Init
<1> QED BY <1>1, StepChannel, IInvHolds, PTL DEF Spec, ChannelSpec, Channel!Spec
============================================================================
