----------------------------- MODULE ClipBoard -----------------------------
(***************************************************************************)
(* ClipBoard<T> (libYarr/include/ClipBoard.h) at the level of its mutex,   *)
(* condition variable and atomic flag, together with the threads that use  *)
(* one clipboard:                                                          *)
(*   - Producers push data and eventually return;                          *)
(*   - Consumer either runs a DataProcessor's process() loop ("pipeline")  *)
(*     or drains the clipboard with timed waits and resets it between two  *)
(*     iterations, as StdDataLoop does ("feedback");                       *)
(*   - Main joins the producers and then calls finish() ("pipeline").      *)
(*                                                                         *)
(* A critical section is one step, except waitNotEmptyOrDone: its          *)
(* predicate is evaluated and the thread put to sleep in two steps, as     *)
(* doneFlag may change between them without the mutex.                     *)
(***************************************************************************)
EXTENDS Naturals, Sequences

CONSTANTS Producers,   \* the threads that push
          Consumer,    \* the thread that pops
          Main,        \* the thread that joins the producers and finishes
          Data,        \* what is pushed
          NoData,      \* the null pointer
          Free,        \* the mutex has no owner
          Usages,      \* the uses considered: "pipeline", "feedback"
          MaxPush      \* bound on the number of calls of pushData

Threads == Producers \cup {Consumer, Main}

ASSUME ClipBoardAssumption ==
    /\ Consumer \notin Producers
    /\ Main \notin Producers
    /\ Main # Consumer
    /\ NoData \notin Data
    /\ Free \notin Threads
    /\ Usages \subseteq {"pipeline", "feedback"}
    /\ MaxPush \in Nat

VARIABLES
    dataQueue, doneFlag, numDataIn, numDataOut,   \* the members of ClipBoard
    queueMutex,    \* the thread holding queueMutex, or Free
    cvNotEmpty,    \* the threads blocked on the condition variable
    pc,            \* where each thread is
    usage,         \* what the clipboard is used for
    pushes,        \* calls of pushData so far (bounds the model)
    lastPop,       \* the result of the last popData
    sent,          \* history: what was pushed and not cleared
    received       \* history: what was popped

members == <<dataQueue, doneFlag, numDataIn, numDataOut>>
vars == <<members, queueMutex, cvNotEmpty, pc, usage, pushes, lastPop, sent,
          received>>

(* "top": top of the loop; "check", "blocking", "asleep": inside the wait;  *)
(* "core1", "core2", "core3": the three calls of process_core in process(), *)
(* "isDone": its test of the done flag;                                     *)
(* "pop": the wait has returned true; "reset": clearData done, rest of      *)
(* reset() to come; "returned": the thread function has returned.           *)
ConsumerPC == {"top", "check", "blocking", "asleep", "core1", "isDone",
               "core2", "core3", "pop", "reset", "returned"}
ProducerPC == {"run", "notify", "returned"}
MainPC     == {"join", "notify", "returned"}

Goto(t, l) == pc' = [pc EXCEPT ![t] = l]

Init ==
    /\ dataQueue = <<>>
    /\ doneFlag = FALSE
    /\ numDataIn = 0
    /\ numDataOut = 0
    /\ queueMutex = Free
    /\ cvNotEmpty = {}
    /\ pc = [t \in Threads |-> IF t \in Producers THEN "run"
                               ELSE IF t = Consumer THEN "top" ELSE "join"]
    /\ usage \in Usages
    /\ pushes = 0
    /\ lastPop = NoData
    /\ sent = <<>>
    /\ received = <<>>

(* The predicate of the two waits. *)
NotEmptyOrDone == doneFlag \/ dataQueue # <<>>

----------------------------------------------------------------------------
(* Producers *)

(* Mutations of pushData: the null pointer is enqueued; the mutex is not    *)
(* taken.                                                                   *)
PushDataNull(p, d) ==
    /\ pc[p] = "run"
    /\ pushes < MaxPush
    /\ queueMutex = Free
    /\ pushes' = pushes + 1
    /\ dataQueue' = Append(dataQueue, d)
    /\ numDataIn' = numDataIn + 1
    /\ sent' = Append(sent, d)
    /\ Goto(p, "notify")
    /\ UNCHANGED <<doneFlag, numDataOut, queueMutex, cvNotEmpty, usage,
                   lastPop, received>>

PushDataUnlocked(p, d) ==
    /\ pc[p] = "run"
    /\ pushes < MaxPush
    /\ pushes' = pushes + 1
    /\ d # NoData
    /\ dataQueue' = Append(dataQueue, d)
    /\ numDataIn' = numDataIn + 1
    /\ sent' = Append(sent, d)
    /\ Goto(p, "notify")
    /\ UNCHANGED <<doneFlag, numDataOut, queueMutex, cvNotEmpty, usage,
                   lastPop, received>>

(* pushData up to the unlock; a null pointer is not enqueued. *)
PushData(p, d) ==
    /\ pc[p] = "run"
    /\ pushes < MaxPush
    /\ queueMutex = Free
    /\ pushes' = pushes + 1
    /\ IF d # NoData
       THEN /\ dataQueue' = Append(dataQueue, d)
            /\ numDataIn' = numDataIn + 1
            /\ sent' = Append(sent, d)
       ELSE UNCHANGED <<dataQueue, numDataIn, sent>>
    /\ Goto(p, "notify")
    /\ UNCHANGED <<doneFlag, numDataOut, queueMutex, cvNotEmpty, usage,
                   lastPop, received>>

(* Mutation of pushData: it does not notify. *)
PushNotifyNone(p) ==
    /\ pc[p] = "notify"
    /\ Goto(p, "run")
    /\ UNCHANGED <<members, queueMutex, cvNotEmpty, usage, pushes, lastPop,
                   sent, received>>

(* The notify_all that ends pushData. *)
PushNotify(p) ==
    /\ pc[p] = "notify"
    /\ cvNotEmpty' = {}
    /\ Goto(p, "run")
    /\ UNCHANGED <<members, queueMutex, usage, pushes, lastPop, sent,
                   received>>

(* The producer has nothing more to push: its thread function returns. *)
ProducerReturn(p) ==
    /\ pc[p] = "run"
    /\ Goto(p, "returned")
    /\ UNCHANGED <<members, queueMutex, cvNotEmpty, usage, pushes, lastPop,
                   sent, received>>

----------------------------------------------------------------------------
(* Main: join() of every producer, then finish(), which takes no lock *)

(* Mutation: finish() before the producers are joined. *)
FinishEarly ==
    /\ usage = "pipeline"
    /\ pc[Main] = "join"
    /\ doneFlag' = TRUE
    /\ Goto(Main, "notify")
    /\ UNCHANGED <<dataQueue, numDataIn, numDataOut, queueMutex, cvNotEmpty,
                   usage, pushes, lastPop, sent, received>>

Finish ==
    /\ usage = "pipeline"
    /\ pc[Main] = "join"
    /\ \A p \in Producers : pc[p] = "returned"
    /\ doneFlag' = TRUE
    /\ Goto(Main, "notify")
    /\ UNCHANGED <<dataQueue, numDataIn, numDataOut, queueMutex, cvNotEmpty,
                   usage, pushes, lastPop, sent, received>>

FinishNotify ==
    /\ pc[Main] = "notify"
    /\ cvNotEmpty' = {}
    /\ Goto(Main, "returned")
    /\ UNCHANGED <<members, queueMutex, usage, pushes, lastPop, sent,
                   received>>

----------------------------------------------------------------------------
(* Consumer: waitNotEmptyOrDone and waitNotEmptyOrDoneOrTimeout *)

(* The unique_lock at the head of a wait. *)
WaitLock ==
    /\ pc[Consumer] = "top"
    /\ queueMutex = Free
    /\ queueMutex' = Consumer
    /\ Goto(Consumer, "check")
    /\ UNCHANGED <<members, cvNotEmpty, usage, pushes, lastPop, sent,
                   received>>

(* Where the consumer goes when the wait is over with this result. *)
WaitReturns(result) ==
    /\ queueMutex' = Free
    /\ IF usage = "pipeline" THEN Goto(Consumer, "core1")
       ELSE Goto(Consumer, IF result THEN "pop" ELSE "top")

(* The predicate, evaluated with the mutex held. *)
WaitCheck ==
    /\ pc[Consumer] = "check"
    /\ IF NotEmptyOrDone
       THEN WaitReturns(TRUE)
       ELSE Goto(Consumer, "blocking") /\ UNCHANGED queueMutex
    /\ UNCHANGED <<members, cvNotEmpty, usage, pushes, lastPop, sent,
                   received>>

(* The condition variable releases the mutex and blocks, atomically. *)
WaitBlock ==
    /\ pc[Consumer] = "blocking"
    /\ queueMutex' = Free
    /\ cvNotEmpty' = cvNotEmpty \cup {Consumer}
    /\ Goto(Consumer, "asleep")
    /\ UNCHANGED <<members, usage, pushes, lastPop, sent, received>>

(* Notified: the condition variable locks the mutex again. *)
WaitWake ==
    /\ pc[Consumer] = "asleep"
    /\ Consumer \notin cvNotEmpty
    /\ queueMutex = Free
    /\ queueMutex' = Consumer
    /\ Goto(Consumer, "check")
    /\ UNCHANGED <<members, cvNotEmpty, usage, pushes, lastPop, sent,
                   received>>

(* A condition variable may wake a thread nobody notified. *)
SpuriousWake ==
    /\ pc[Consumer] = "asleep"
    /\ Consumer \in cvNotEmpty
    /\ cvNotEmpty' = cvNotEmpty \ {Consumer}
    /\ UNCHANGED <<members, queueMutex, pc, usage, pushes, lastPop, sent,
                   received>>

(* Mutation: the result of a timed out wait is not the predicate's. *)
WaitTimeoutTrue ==
    /\ usage = "feedback"
    /\ pc[Consumer] = "asleep"
    /\ queueMutex = Free
    /\ cvNotEmpty' = cvNotEmpty \ {Consumer}
    /\ WaitReturns(TRUE)
    /\ UNCHANGED <<members, usage, pushes, lastPop, sent, received>>

(* wait_for after the timeout: the result is the predicate's last value. *)
WaitTimeout ==
    /\ usage = "feedback"
    /\ pc[Consumer] = "asleep"
    /\ queueMutex = Free
    /\ cvNotEmpty' = cvNotEmpty \ {Consumer}
    /\ WaitReturns(NotEmptyOrDone)
    /\ UNCHANGED <<members, usage, pushes, lastPop, sent, received>>

----------------------------------------------------------------------------
(* Consumer: popData, process(), reset() *)

(* popData; it returns the null pointer when the queue is empty. *)
PopData ==
    /\ queueMutex = Free
    /\ IF dataQueue # <<>>
       THEN /\ lastPop' = Head(dataQueue)
            /\ dataQueue' = Tail(dataQueue)
            /\ numDataOut' = numDataOut + 1
            /\ received' = Append(received, Head(dataQueue))
       ELSE /\ lastPop' = NoData
            /\ UNCHANGED <<dataQueue, numDataOut, received>>
    /\ UNCHANGED <<doneFlag, numDataIn, queueMutex, cvNotEmpty, usage, pushes,
                   sent>>

(* process_core(): pop until the clipboard is empty. *)
CorePop ==
    /\ pc[Consumer] \in {"core1", "core2", "core3"}
    /\ dataQueue # <<>>
    /\ PopData
    /\ UNCHANGED pc

(* process_core() has found the clipboard empty. *)
CoreEmpty(core, next) ==
    /\ pc[Consumer] = core
    /\ queueMutex = Free
    /\ dataQueue = <<>>
    /\ Goto(Consumer, next)
    /\ UNCHANGED <<members, queueMutex, cvNotEmpty, usage, pushes, lastPop,
                   sent, received>>

(* Mutation: process() breaks out of its loop and returns at once. *)
IsDoneReturns ==
    /\ pc[Consumer] = "isDone"
    /\ Goto(Consumer, IF doneFlag THEN "returned" ELSE "top")
    /\ UNCHANGED <<members, queueMutex, cvNotEmpty, usage, pushes, lastPop,
                   sent, received>>

(* if (isDone()) { process_core(); break; } *)
IsDone ==
    /\ pc[Consumer] = "isDone"
    /\ Goto(Consumer, IF doneFlag THEN "core2" ELSE "top")
    /\ UNCHANGED <<members, queueMutex, cvNotEmpty, usage, pushes, lastPop,
                   sent, received>>

(* StdDataLoop: popData after the timed wait returned true. *)
FeedbackPop ==
    /\ pc[Consumer] = "pop"
    /\ PopData
    /\ Goto(Consumer, "top")

(* reset(): clearData under the lock, then the flag and the counters. *)
ClearData ==
    /\ usage = "feedback"
    /\ pc[Consumer] = "top"
    /\ queueMutex = Free
    /\ dataQueue' = <<>>
    /\ numDataIn' = 0
    /\ numDataOut' = 0
    /\ sent' = received
    /\ Goto(Consumer, "reset")
    /\ UNCHANGED <<doneFlag, queueMutex, cvNotEmpty, usage, pushes, lastPop,
                   received>>

Reset ==
    /\ pc[Consumer] = "reset"
    /\ doneFlag' = FALSE
    /\ numDataIn' = 0
    /\ numDataOut' = 0
    /\ Goto(Consumer, "top")
    /\ UNCHANGED <<dataQueue, queueMutex, cvNotEmpty, usage, pushes, lastPop,
                   sent, received>>

----------------------------------------------------------------------------
ProducerStep(p) ==
    \/ \E d \in Data \cup {NoData} : PushData(p, d)
    \/ PushNotify(p)
    \/ ProducerReturn(p)

MainStep == Finish \/ FinishNotify

(* process(): while (true) { wait; core1; if (isDone()) { core2; break; } } *)
(* core3; return.                                                           *)
ProcessStep ==
    \/ CorePop
    \/ CoreEmpty("core1", "isDone")
    \/ IsDone
    \/ CoreEmpty("core2", "core3")
    \/ CoreEmpty("core3", "returned")

ConsumerStep ==
    \/ WaitLock \/ WaitCheck \/ WaitBlock \/ WaitWake \/ WaitTimeout
    \/ ProcessStep
    \/ FeedbackPop \/ ClearData \/ Reset

Next ==
    \/ \E p \in Producers : ProducerStep(p)
    \/ MainStep
    \/ ConsumerStep
    \/ SpuriousWake

Spec == Init /\ [][Next]_vars

(* Every thread that can run is scheduled.  A producer need neither push    *)
(* nor return; nothing is assumed of spurious wake-ups.                     *)
Fairness ==
    /\ \A p \in Producers : WF_vars(PushNotify(p))
    /\ WF_vars(MainStep)
    /\ WF_vars(ConsumerStep)

FairSpec == Spec /\ Fairness

----------------------------------------------------------------------------
(* Every variable has its type. *)
QueueTypeOK ==
    /\ dataQueue \in Seq(Data)
    /\ lastPop \in Data \cup {NoData}
    /\ sent \in Seq(Data)
    /\ received \in Seq(Data)

ThreadTypeOK ==
    /\ doneFlag \in BOOLEAN
    /\ numDataIn \in Nat
    /\ numDataOut \in Nat
    /\ usage \in {"pipeline", "feedback"}
    /\ pushes \in Nat
    /\ queueMutex \in {Free, Consumer}
    /\ cvNotEmpty \subseteq {Consumer}
    /\ pc \in [Threads -> ConsumerPC \cup ProducerPC \cup MainPC]
    /\ \A p \in Producers : pc[p] \in ProducerPC
    /\ pc[Main] \in MainPC
    /\ pc[Consumer] \in ConsumerPC

TypeOK == QueueTypeOK /\ ThreadTypeOK

(* pushData never loses a wake-up: a consumer that sleeps on a clipboard    *)
(* holding data has a notify_all on its way.  This needs the queue to       *)
(* change under the mutex and the notification to come after the change.    *)
PushWakesConsumer ==
    (Consumer \in cvNotEmpty /\ dataQueue # <<>>)
        => \E p \in Producers : pc[p] = "notify"

(* When process() returns, it has taken everything that was ever pushed,    *)
(* even what came between its last look at the queue and finish().          *)
NothingLeftBehind ==
    (pc[Consumer] = "returned") => received = sent

(* A pop that follows a timed wait that returned true is never null:        *)
(* StdDataLoop dereferences its result without a test.                      *)
FeedbackPopNotNull ==
    (pc[Consumer] = "pop") => dataQueue # <<>>

(* The clipboard implements a closable FIFO channel.                        *)
Channel == INSTANCE FifoChannel WITH closed <- doneFlag
ChannelSpec == Channel!Spec

(* What is pushed is popped, without waiting for finish(): the consumer     *)
(* does not sleep on data even if the producers go on for ever.             *)
Delivered ==
    \A n \in 1..MaxPush :
        (usage = "pipeline" /\ Len(sent) >= n) ~> (Len(received) >= n)

(* "Complete thread (stop signalled via ClipBoard)": after finish() the     *)
(* consumer's thread function returns, so that join() does.                 *)
FinishStopsConsumer ==
    (pc[Main] = "returned") ~> (pc[Consumer] = "returned")

----------------------------------------------------------------------------
(* The inductive invariant behind the safety properties. *)

(* The mutex is held across steps only inside a wait, where an empty queue  *)
(* stays empty.                                                             *)
WaitInv ==
    /\ (queueMutex = Consumer) <=> pc[Consumer] \in {"check", "blocking"}
    /\ (Consumer \in cvNotEmpty) => pc[Consumer] = "asleep"
    /\ (pc[Consumer] = "blocking") => dataQueue = <<>>

(* Each use of the clipboard has its own part of the program. *)
UsageInv ==
    /\ pc[Consumer] \in {"pop", "reset"} => usage = "feedback"
    /\ doneFlag => usage = "pipeline"

(* finish() comes after the producers, the final passes after finish(). *)
DoneInv ==
    /\ doneFlag => \A p \in Producers : pc[p] = "returned"
    /\ (pc[Main] # "join") => doneFlag
    /\ pc[Consumer] \in {"core2", "core3", "returned"} => doneFlag
    /\ (pc[Consumer] = "returned") => dataQueue = <<>>

(* What was sent is what was received followed by what is queued. *)
FifoInv == sent = received \o dataQueue

IInv == /\ TypeOK /\ WaitInv /\ UsageInv /\ DoneInv /\ FifoInv
        /\ PushWakesConsumer /\ FeedbackPopNotNull
============================================================================
