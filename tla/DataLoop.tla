------------------------------ MODULE DataLoop ------------------------------
(***************************************************************************)
(* One trigger burst after the other, and StdDataLoop::execPart2 collecting *)
(* its data: the loop reads the receiver, hands the data to the raw data   *)
(* processors, counts the events they report back through the processing   *)
(* feedback clipboard, and ends the iteration when every front end has     *)
(* reported enough events or no data have come for too long.               *)
(*                                                                         *)
(* Hardware, processors and the clock run concurrently with the loop.  A   *)
(* packet is one event of one front end, a chunk read from the receiver    *)
(* one packet; time is the flag timedOut, which the clock may raise at any *)
(* moment and new data lower.                                              *)
(***************************************************************************)
EXTENDS Integers, Sequences, FiniteSets, SequencesExt

CONSTANTS Setups,      \* the scans considered, see DataLoopAssumption
          WordSize,    \* 2^32 in the code: counters are unsigned
          MaxReads,    \* m_maxConsecutiveRxReads
          MaxFault,    \* bound on lost and corrupted packets
          MaxIter      \* bound on the iterations of the loops around

ASSUME DataLoopAssumption ==
    /\ WordSize \in Nat \ {0}
    /\ MaxReads \in Nat /\ MaxFault \in Nat /\ MaxIter \in Nat
    /\ \A s \in Setups : /\ s.numFe \in Nat \ {0}
                         /\ s.active \subseteq 0..(s.numFe - 1)
                         /\ s.faulty \subseteq 0..(s.numFe - 1)
                         /\ s.trigCnt \in 0..(WordSize - 1)
                         /\ s.tolerance \in 0..(WordSize - 1)
                         /\ s.flushes \in BOOLEAN

VARIABLES
    setup,      \* the scan at hand
    (* hardware *)
    trigSent,   \* triggers of the current burst sent so far
    link,       \* packets on their way, per front end
    rx,         \* packets in the receiver's buffer, per channel
    faults,     \* packets lost or corrupted so far
    (* the main thread in the data loop *)
    loopPc,     \* "trigger", "read", "feedback", "decide", "mark", "done"
    iter,       \* number of the current iteration, also its loop status
    rdcMap,     \* chunks accumulated and not pushed yet
    nReads,     \* nReadsInCurrentRxCycle
    newRaw,     \* newRawDataCount # 0
    timedOut,   \* the time since timeStart exceeds m_maxIterationTime
    active,     \* activeChannels
    idx,        \* the front end a loop over front ends is at
    gotSome,    \* receivedFeedbackSomewhere
    cnt,        \* channelReceivedTriggersCnt
    own,        \* history: how many of them were events of this iteration
    late,       \* history: some iteration ended short of events
    (* clipboards and processors *)
    raw,        \* clipRawData of each front end
    fb,         \* clipProcFeedback of each front end
    work,       \* packets of the container a processor is at
    read,       \* history: packets the loop read
    decoded     \* history: packets a processor decoded, with their label

hwVars   == <<trigSent, link, faults>>
loopVars == <<iter, rdcMap, nReads, newRaw, timedOut, active, idx, gotSome,
              cnt, own, late>>
procVars == <<work, decoded>>
vars == <<hwVars, rx, loopPc, loopVars, raw, fb, procVars, read, setup>>

NumFe == setup.numFe         \* entries of the Bookkeeper, one channel each
Active == setup.active       \* the ids that have a processor thread
Faulty == setup.faulty       \* the ids whose link loses packets
TrigCnt == setup.trigCnt     \* events expected from a burst (getExpEvents)
Tolerance == setup.tolerance \* m_triggersLostTolerance
Flushes == setup.flushes     \* whether the receiver's flushBuffer does anything
FE == 0..(NumFe - 1)

Packet(i, n) == [iter |-> i, n |-> n, ok |-> TRUE]

(* A container: the loop status of the iteration that read its chunks. *)
RawDataContainer(label, chunks) == [label |-> label, chunks |-> chunks]
EndOfIteration == RawDataContainer(0, <<>>)

Init ==
    /\ setup \in Setups
    /\ trigSent = TrigCnt
    /\ link = [f \in FE |-> <<>>]
    /\ rx = [f \in FE |-> <<>>]
    /\ faults = 0
    /\ loopPc = "trigger"
    /\ iter = 0
    /\ rdcMap = [f \in FE |-> <<>>]
    /\ nReads = 0
    /\ newRaw = FALSE
    /\ timedOut = FALSE
    /\ active = {}
    /\ idx = 0
    /\ gotSome = FALSE
    /\ cnt = [f \in FE |-> 0]
    /\ own = [f \in FE |-> 0]
    /\ late = FALSE
    /\ raw = [f \in FE |-> <<>>]
    /\ fb = [f \in FE |-> <<>>]
    /\ work = [f \in FE |-> <<>>]
    /\ read = [f \in FE |-> <<>>]
    /\ decoded = [f \in FE |-> <<>>]

----------------------------------------------------------------------------
(* The hardware *)

TrigDone == trigSent = TrigCnt

(* A trigger makes every front end send one packet. *)
SendTrigger ==
    /\ ~TrigDone
    /\ trigSent' = trigSent + 1
    /\ link' = [f \in FE |-> Append(link[f], Packet(iter, trigSent + 1))]
    /\ UNCHANGED <<faults, rx, loopPc, loopVars, raw, fb, procVars, read, setup>>

(* A packet reaches the receiver. *)
Arrive(f) ==
    /\ link[f] # <<>>
    /\ rx' = [rx EXCEPT ![f] = Append(@, Head(link[f]))]
    /\ link' = [link EXCEPT ![f] = Tail(@)]
    /\ UNCHANGED <<trigSent, faults, loopPc, loopVars, raw, fb, procVars, read, setup>>

(* A packet is lost, or arrives with an error. *)
Lose(f) ==
    /\ f \in Faulty /\ link[f] # <<>>
    /\ faults < MaxFault
    /\ faults' = faults + 1
    /\ \/ link' = [link EXCEPT ![f] = Tail(@)]
       \/ Head(link[f]).ok /\ link' = [link EXCEPT ![f][1].ok = FALSE]
    /\ UNCHANGED <<trigSent, rx, loopPc, loopVars, raw, fb, procVars, read, setup>>

(* m_maxIterationTime has passed since timeStart. *)
Tick ==
    /\ loopPc \in {"read", "feedback", "decide"}
    /\ ~timedOut
    /\ timedOut' = TRUE
    /\ UNCHANGED <<hwVars, rx, loopPc, iter, rdcMap, nReads, newRaw, active, idx,
                   gotSome, cnt, own, late, raw, fb, procVars, read, setup>>

----------------------------------------------------------------------------
(* The processors *)

(* process_core pops the next container. *)
PopRawData(f) ==
    /\ f \in Active
    /\ work[f] = <<>>
    /\ raw[f] # <<>>
    /\ raw' = [raw EXCEPT ![f] = Tail(@)]
    /\ work' = [work EXCEPT ![f] =
                   [i \in DOMAIN Head(raw[f]).chunks |->
                       [pkt |-> Head(raw[f]).chunks[i], label |-> Head(raw[f]).label]]]
    /\ UNCHANGED <<hwVars, rx, loopPc, loopVars, fb, decoded, read, setup>>

(* It decodes a packet and reports it: only what decodes to an event has a  *)
(* trigger tag the data loop counts.                                        *)
SendFeedback(f) ==
    /\ work[f] # <<>>
    /\ LET x == Head(work[f])
       IN  /\ fb' = [fb EXCEPT ![f] =
                        Append(@, [iter |-> x.pkt.iter, isTrigger |-> x.pkt.ok])]
           /\ decoded' = [decoded EXCEPT ![f] = Append(@, x)]
    /\ work' = [work EXCEPT ![f] = Tail(@)]
    /\ UNCHANGED <<hwVars, rx, loopPc, loopVars, raw, read, setup>>

----------------------------------------------------------------------------
(* The main thread: triggers, then execPart2 of the data loop *)

(* ntriggersToReceive, computed in unsigned arithmetic: a tolerance above   *)
(* the number of events expected gives a number no burst can reach.         *)
NtriggersToReceive == (TrigCnt - Tolerance) % WordSize

(* The trigger loop has waited for the last burst; it flushes the receiver, *)
(* enables the trigger, and the data loop starts with its counters at zero. *)
StartTrigger ==
    /\ loopPc = "trigger"
    /\ iter < MaxIter
    /\ iter' = iter + 1
    /\ trigSent' = 0
    /\ rx' = IF Flushes THEN [f \in FE |-> <<>>] ELSE rx
    /\ active' = {}
    /\ cnt' = [f \in FE |-> 0]
    /\ own' = [f \in FE |-> 0]
    /\ newRaw' = FALSE
    /\ nReads' = 0
    /\ timedOut' = FALSE
    /\ loopPc' = "read"
    /\ UNCHANGED <<link, faults, rdcMap, idx, gotSome, late, raw, fb, procVars, read, setup>>

(* pushData of every accumulated container. *)
PushRdcMap(m) ==
    /\ raw' = [f \in FE |-> IF m[f] = <<>> THEN raw[f]
                            ELSE Append(raw[f], RawDataContainer(iter, m[f]))]
    /\ active' = active \cup {f \in FE : m[f] # <<>>}
    /\ rdcMap' = [f \in FE |-> <<>>]

(* readData returns chunks, at most one per channel here; they are pushed   *)
(* once there were more than m_maxConsecutiveRxReads reads.                 *)
ReadData(S) ==
    /\ loopPc = "read"
    /\ \A f \in S : rx[f] # <<>>
    /\ LET m == [f \in FE |-> IF f \in S THEN Append(rdcMap[f], Head(rx[f]))
                              ELSE rdcMap[f]]
       IN  IF nReads + 1 > MaxReads
           THEN PushRdcMap(m) /\ nReads' = 0
           ELSE rdcMap' = m /\ nReads' = nReads + 1 /\ UNCHANGED <<raw, active>>
    /\ rx' = [f \in FE |-> IF f \in S THEN Tail(rx[f]) ELSE rx[f]]
    /\ read' = [f \in FE |-> IF f \in S THEN Append(read[f], Head(rx[f])) ELSE read[f]]
    /\ newRaw' = TRUE
    /\ UNCHANGED <<hwVars, loopPc, iter, timedOut, idx, gotSome, cnt, own, late,
                   fb, procVars, setup>>

(* readData returned nothing, but data came before getCurCount: the read    *)
(* counts (up to the number that matters) and the loop goes on.             *)
ReadAgain ==
    /\ loopPc = "read"
    /\ \E f \in FE : rx[f] # <<>>
    /\ nReads < MaxReads
    /\ nReads' = nReads + 1
    /\ UNCHANGED <<hwVars, rx, loopPc, iter, rdcMap, newRaw, timedOut, active, idx,
                   gotSome, cnt, own, late, raw, fb, procVars, read, setup>>

(* Mutation: what is left over at the end of the read cycle is not pushed. *)
ReadNothingDrop ==
    /\ loopPc = "read"
    /\ \A f \in FE : rx[f] = <<>>
    /\ rdcMap' = [f \in FE |-> <<>>]
    /\ timedOut' = (timedOut /\ ~newRaw)
    /\ idx' = 0
    /\ gotSome' = FALSE
    /\ loopPc' = "feedback"
    /\ UNCHANGED <<hwVars, rx, iter, nReads, newRaw, active, cnt, own, late, raw, fb,
                   procVars, read, setup>>

(* readData returns nothing and nothing is buffered: what is left is pushed *)
(* and the clock restarted if there were data.                              *)
ReadNothing ==
    /\ loopPc = "read"
    /\ \A f \in FE : rx[f] = <<>>
    /\ PushRdcMap(rdcMap)
    /\ timedOut' = (timedOut /\ ~newRaw)
    /\ idx' = 0
    /\ gotSome' = FALSE
    /\ loopPc' = "feedback"
    /\ UNCHANGED <<hwVars, rx, iter, nReads, newRaw, cnt, own, late, fb, procVars, read, setup>>

(* The timed wait on the channel at hand returns true, and its feedback is  *)
(* counted.                                                                 *)
PopFeedback ==
    /\ loopPc = "feedback"
    /\ idx \in active
    /\ fb[idx] # <<>>
    /\ fb' = [fb EXCEPT ![idx] = Tail(@)]
    /\ gotSome' = TRUE
    /\ LET x == Head(fb[idx])
       IN  /\ cnt' = [cnt EXCEPT ![idx] = IF x.isTrigger THEN @ + 1 ELSE @]
           /\ own' = [own EXCEPT ![idx] =
                         IF x.isTrigger /\ x.iter = iter THEN @ + 1 ELSE @]
    /\ UNCHANGED <<hwVars, rx, loopPc, iter, rdcMap, nReads, newRaw, timedOut, active,
                   idx, late, raw, procVars, read, setup>>

(* Mutation: the loop over the channels runs past the last one. *)
NextChannelPastEnd ==
    /\ loopPc = "feedback"
    /\ idx \in 0..NumFe
    /\ idx \in active => fb[idx] = <<>>
    /\ idx' = idx + 1
    /\ UNCHANGED <<hwVars, rx, loopPc, iter, rdcMap, nReads, newRaw, timedOut, active,
                   gotSome, cnt, own, late, raw, fb, procVars, read, setup>>

(* The timed wait returns false, or the channel has had no data. *)
NextChannel ==
    /\ loopPc = "feedback"
    /\ idx \in FE
    /\ idx \in active => fb[idx] = <<>>
    /\ idx' = idx + 1
    /\ UNCHANGED <<hwVars, rx, loopPc, iter, rdcMap, nReads, newRaw, timedOut, active,
                   gotSome, cnt, own, late, raw, fb, procVars, read, setup>>

(* All channels were visited: once more if any had feedback. *)
EndOfPass ==
    /\ loopPc = "feedback"
    /\ idx = NumFe
    /\ IF gotSome THEN idx' = 0 /\ gotSome' = FALSE /\ UNCHANGED loopPc
       ELSE loopPc' = "decide" /\ UNCHANGED <<idx, gotSome>>
    /\ UNCHANGED <<hwVars, rx, iter, rdcMap, nReads, newRaw, timedOut, active, cnt,
                   own, late, raw, fb, procVars, read, setup>>

(* Mutation: one channel is enough. *)
ReceivedAllTriggersOne == \E f \in FE : cnt[f] >= NtriggersToReceive

ReceivedAllTriggers == \A f \in FE : cnt[f] >= NtriggersToReceive

(* Mutation: the time limit is not looked at. *)
DecideNoTimeout ==
    /\ loopPc = "decide"
    /\ IF ~TrigDone \/ ~ReceivedAllTriggers
       THEN /\ loopPc' = "read"
            /\ nReads' = 0
            /\ newRaw' = FALSE
            /\ UNCHANGED <<idx, late>>
       ELSE /\ loopPc' = "mark"
            /\ idx' = 0
            /\ UNCHANGED <<nReads, newRaw, late>>
    /\ UNCHANGED <<hwVars, rx, iter, rdcMap, timedOut, active, gotSome, cnt, own,
                   raw, fb, procVars, read, setup>>

(* receivingRxData = !triggerIsDone || (thereIsStillTime && !receivedAll) *)
Decide ==
    /\ loopPc = "decide"
    /\ IF ~TrigDone \/ (~timedOut /\ ~ReceivedAllTriggers)
       THEN /\ loopPc' = "read"
            /\ nReads' = 0
            /\ newRaw' = FALSE
            /\ UNCHANGED <<idx, late>>
       ELSE /\ loopPc' = "mark"
            /\ idx' = 0
            /\ late' = (late \/ ~ReceivedAllTriggers)
            /\ UNCHANGED <<nReads, newRaw>>
    /\ UNCHANGED <<hwVars, rx, iter, rdcMap, timedOut, active, gotSome, cnt, own,
                   raw, fb, procVars, read, setup>>

(* The end of iteration marker goes to the next front end, and its feedback *)
(* clipboard is reset.                                                      *)
MarkEnd ==
    /\ loopPc = "mark"
    /\ idx \in FE
    /\ raw' = [raw EXCEPT ![idx] = Append(@, EndOfIteration)]
    /\ fb' = [fb EXCEPT ![idx] = <<>>]
    /\ idx' = idx + 1
    /\ UNCHANGED <<hwVars, rx, loopPc, iter, rdcMap, nReads, newRaw, timedOut, active,
                   gotSome, cnt, own, late, procVars, read, setup>>

(* execPart2 returns to the loops around. *)
EndOfExecPart2 ==
    /\ loopPc = "mark"
    /\ idx = NumFe
    /\ loopPc' = IF iter < MaxIter THEN "trigger" ELSE "done"
    /\ UNCHANGED <<hwVars, rx, loopVars, raw, fb, procVars, read, setup>>

----------------------------------------------------------------------------
Hardware == SendTrigger \/ \E f \in FE : Arrive(f)

Processor(f) == PopRawData(f) \/ SendFeedback(f)

LoopStep ==
    \/ StartTrigger
    \/ \E S \in (SUBSET FE) \ {{}} : ReadData(S)
    \/ ReadAgain \/ ReadNothing
    \/ PopFeedback \/ NextChannel \/ EndOfPass
    \/ Decide
    \/ MarkEnd \/ EndOfExecPart2

Next ==
    \/ Hardware
    \/ \E f \in FE : Lose(f)
    \/ Tick
    \/ \E f \in FE : Processor(f)
    \/ LoopStep

Spec == Init /\ [][Next]_vars

(* A burst ends and its packets arrive, time passes, and the threads run.   *)
(* Packets need not be lost.                                                *)
Fairness ==
    /\ WF_vars(Hardware)
    /\ WF_vars(Tick)
    /\ WF_vars(LoopStep)
    /\ \A f \in UNION {s.active : s \in Setups} : WF_vars(f \in Active /\ Processor(f))

FairSpec == Spec /\ Fairness

----------------------------------------------------------------------------
Packets == [iter : Nat, n : Nat, ok : BOOLEAN]

(* Every variable has its type. *)
TypeOK ==
    /\ setup \in Setups
    /\ trigSent \in 0..TrigCnt
    /\ link \in [FE -> Seq(Packets)]
    /\ rx \in [FE -> Seq(Packets)]
    /\ faults \in 0..MaxFault
    /\ loopPc \in {"trigger", "read", "feedback", "decide", "mark", "done"}
    /\ iter \in 0..MaxIter
    /\ rdcMap \in [FE -> Seq(Packets)]
    /\ nReads \in 0..MaxReads
    /\ newRaw \in BOOLEAN
    /\ timedOut \in BOOLEAN
    /\ active \subseteq FE
    /\ idx \in 0..NumFe
    /\ gotSome \in BOOLEAN
    /\ cnt \in [FE -> Nat]
    /\ own \in [FE -> Nat]
    /\ late \in BOOLEAN
    /\ raw \in [FE -> Seq([label : Nat, chunks : Seq(Packets)])]
    /\ fb \in [FE -> Seq([iter : Nat, isTrigger : BOOLEAN])]
    /\ work \in [FE -> Seq([pkt : Packets, label : Nat])]
    /\ read \in [FE -> Seq(Packets)]
    /\ decoded \in [FE -> Seq([pkt : Packets, label : Nat])]

(* Every packet the data loop read is in exactly one place on its way to    *)
(* the decoder, in the order it was read: none is dropped between two       *)
(* pushes, none is pushed twice.                                            *)
ChunksConserved ==
    \A f \in FE :
        read[f] = [i \in DOMAIN decoded[f] |-> decoded[f][i].pkt]
                    \o [i \in DOMAIN work[f] |-> work[f][i].pkt]
                    \o FlattenSeq([i \in DOMAIN raw[f] |-> raw[f][i].chunks])
                    \o rdcMap[f]

(* While no iteration has ended short of events, an iteration ends only     *)
(* when every front end has decoded as many events of its own burst as the  *)
(* loop waits for.                                                          *)
OnTimeComplete ==
    (~late /\ loopPc = "mark") =>
        \A f \in FE :
           Cardinality({i \in DOMAIN decoded[f] : decoded[f][i].pkt.iter = iter})
              >= NtriggersToReceive

(* While no iteration has ended short of events, what is decoded carries    *)
(* the loop status of the burst that made it.                               *)
OnTimeLabels ==
    ~late => \A f \in FE : \A i \in DOMAIN decoded[f] :
                decoded[f][i].label = decoded[f][i].pkt.iter

(* Whether the loop waits for all events of a burst. It does not where lost *)
(* ones are tolerated: what an iteration leaves behind then is counted and  *)
(* labelled as the next one's.                                              *)
WaitsForAll == NtriggersToReceive >= TrigCnt

(* The timeout races with the last feedback, but as long as it has cut no   *)
(* iteration short, iterations are complete and kept apart.                 *)
OnTime == WaitsForAll => OnTimeComplete /\ OnTimeLabels

(* "collects data until the appropriate number of events have been          *)
(* collected": an iteration that was not cut short has counted that many    *)
(* events of its own burst.                                                 *)
EnoughOwnEvents ==
    (loopPc = "mark" /\ ReceivedAllTriggers)
        => \A f \in FE : own[f] >= NtriggersToReceive

(* The data loop does not wait forever, whatever is lost: the last          *)
(* iteration ends.                                                          *)
LoopEnds == <>(loopPc = "done")
============================================================================
