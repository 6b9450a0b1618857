------------------------------ MODULE Readout ------------------------------
(***************************************************************************)
(* The readout of a controller during a scan, on top of the Bookkeeper's   *)
(* routing tables, for two controllers: a FELIX card, and the emulator of  *)
(* a chip (EmuController with Rd53aEmu). Threads that meet here:           *)
(*                                                                         *)
(*  - the main thread: starts the receivers, and for each burst flushes    *)
(*    them, starts the trigger, reads, waits for the trigger and joins it  *)
(*    (Rd53aTriggerLoop around StdDataGatherer or StdDataLoop);            *)
(*  - FELIX: the receiver threads (FelixRxThread), called back for each    *)
(*    packet; the monitor (FelixRxCore::runMonitor), which stops a         *)
(*    receiver whose queue is too long;                                    *)
(*  - emulator: a thread that executes the commands in one ring buffer and *)
(*    writes its data to another;                                          *)
(*  - the trigger thread (doTriggerCnt, doTriggerTime; doTrigger); and the *)
(*    user's interrupt signal.                                             *)
(*                                                                         *)
(* A packet is its number on its channel. The link of an emulated channel  *)
(* is its command ring buffer, its receiver the emulator, its queue the    *)
(* data ring buffer, which counts as it writes. Of StdDataLoop only the    *)
(* read cycle is here; when its iteration ends is the business of DataLoop,*)
(* and so are the feedback clipboards, which the gatherer only clears.     *)
(***************************************************************************)
EXTENDS Bookkeeper, FiniteSets

CONSTANTS
    Options,      \* the scans: controller, front ends, way of reading, trigger;
                  \* trigCnt bounds the triggers of a timed burst; monitor: enableMonitor
    MaxBurst,     \* bursts of a scan
    MaxReads,     \* m_maxConsecutiveRxReads
    MaxSize,      \* m_maxRxReadSize, in packets
    QueueLimit    \* m_queue_limit, in packets

ASSUME ReadoutAssumption ==
    /\ Channels \subseteq Nat
    /\ MaxBurst \in Nat /\ MaxReads \in Nat
    /\ MaxSize \in Nat
    /\ QueueLimit \in Nat
    /\ \A o \in Options : /\ o.entries \in Seq([fe : FrontEnds, rxChannel : Channels])
                          /\ o.controller \in {"felix", "emu"} /\ o.trigCnt \in Nat
                          /\ o.nThreads \in Nat \ {0}
                          /\ o.controller = "emu" =>
                                 o.nThreads = 1 /\ o.trigger = "count" /\
                                 Cardinality({o.entries[i].rxChannel : i \in DOMAIN o.entries}) <= 1
                          /\ o.reader \in {"gather", "discard", "cycle"}
                          /\ o.trigger \in {"count", "time"}
                          /\ o.monitor \in BOOLEAN

VARIABLES
    option,    \* the scan at hand
    pc,        \* what the main thread does next
    burst,     \* bursts begun
    enabled,   \* m_enables: channels whose packets are taken
    link,      \* packets on their way, per channel
    sent,      \* packets sent, per channel
    dropped,   \* history: packets that a receiver discarded
    flush,     \* m_doFlushBuffer of each receiver thread
    rcv,       \* the callback at work in each receiver thread; commandStream
    in, out,   \* m_total_data_in, m_total_data_out; their difference is "size"
    m_rawData, \* the queue of each receiver thread
    monitor,   \* the monitor thread: its place, the thread it looks at, what it loaded
    trig,      \* the trigger thread: its place, and triggers sent
    m_trigEnabled,   \* trigProcRunning of the emulator
    signaled,
    reader,    \* the locals of the reading loop
    clip       \* clipRawData of each front end

rxVars == <<enabled, link, dropped, flush, rcv, in, out, m_rawData>>
trigVars == <<trig, m_trigEnabled, sent>>
readoutVars == <<vars, option, pc, burst, rxVars, monitor, trigVars, signaled, reader, clip>>

ScanIds == {Id(i) : i \in DOMAIN option.entries}
TrigCnt == option.trigCnt
Felix == option.controller = "felix"
Emu == option.controller = "emu"
Threads == 1..option.nThreads
UsedChannels == {bookEntries[i].rxChannel : i \in DOMAIN bookEntries}

(* initRxChannels deals the channels, in ascending order, to the threads. *)
ThreadOf(c) == (Cardinality({d \in UsedChannels : d < c}) % option.nThreads) + 1

NoPacket == [chn |-> 0, n |-> 0]
Padding(c) == [chn |-> c, n |-> 0]   \* releaseFifo(): "Add some padding"
Idle == [at |-> "idle", packet |-> NoPacket]
MonitorIdle == [at |-> "idle", t |-> 1, load |-> 0]
NoReader == [t |-> 1, got |-> <<>>, rdcMap |-> [id \in ScanIds |-> <<>>],
             reads |-> 0, count |-> 0, receiving |-> TRUE, cur |-> 0, due |-> <<>>]

ReadoutInit ==
    /\ Init
    /\ option \in Options
    /\ pc = "setup"
    /\ burst = 0
    /\ enabled = {}
    /\ link = [c \in Channels |-> <<>>]
    /\ sent = [c \in Channels |-> 0]
    /\ dropped = [c \in Channels |-> {}]
    /\ flush = [t \in Threads |-> FALSE]
    /\ rcv = [t \in Threads |-> Idle]
    /\ in = [t \in Threads |-> 0]
    /\ out = [t \in Threads |-> 0]
    /\ m_rawData = [t \in Threads |-> <<>>]
    /\ monitor = MonitorIdle
    /\ trig = [at |-> "off", trigs |-> 0]
    /\ m_trigEnabled = FALSE
    /\ signaled = FALSE
    /\ reader = NoReader
    /\ clip = [id \in ScanIds |-> <<>>]

----------------------------------------------------------------------------
(* The front ends are entered in the Bookkeeper, then the receivers are     *)
(* started and the channels in use enabled.                                 *)
EnterFrontEnds ==
    /\ pc = "setup"
    /\ Next
    /\ UNCHANGED <<option, pc, burst, rxVars, monitor, trigVars, signaled, reader, clip>>

StartReadout ==
    /\ pc = "setup"
    /\ deletions = 0 /\ bookEntries = option.entries
    /\ pc' = "flush"
    /\ enabled' = UsedChannels
    /\ UNCHANGED <<vars, option, burst, link, dropped, flush, rcv, in, out, m_rawData,
                   monitor, trigVars, signaled, reader, clip>>

----------------------------------------------------------------------------
(* The callback on_data_received: a packet of a disabled channel, or one    *)
(* that comes while the buffer is flushed, is discarded, and so is one that *)
(* is longer than m_maxMessageSize or has no words, which any packet may be.*)
Receive(c) ==
    LET t == ThreadOf(c)
        p == Head(link[c])
    IN  /\ Felix /\ link[c] # <<>> /\ rcv[t].at = "idle"
        /\ link' = [link EXCEPT ![c] = Tail(@)]
        /\ \/ /\ c \in enabled /\ ~flush[t]
              /\ rcv' = [rcv EXCEPT ![t] = [at |-> "count", packet |-> p]]
              /\ UNCHANGED dropped
           \/ /\ dropped' = [dropped EXCEPT ![c] = @ \cup {p.n}]
              /\ UNCHANGED rcv
        /\ UNCHANGED <<enabled, flush, in, out, m_rawData>>

(* Mutation: the packet is queued before it is counted. *)
CallbackPushFirst(t) ==
    /\ \/ /\ rcv[t].at = "count"
          /\ m_rawData' = [m_rawData EXCEPT ![t] = Append(@, rcv[t].packet)]
          /\ rcv' = [rcv EXCEPT ![t].at = "push"]
          /\ UNCHANGED in
       \/ /\ rcv[t].at = "push"
          /\ in' = [in EXCEPT ![t] = @ + 1]
          /\ rcv' = [rcv EXCEPT ![t] = Idle]
          /\ UNCHANGED m_rawData
    /\ UNCHANGED <<enabled, link, dropped, flush, out>>

(* "increment counters before pushData" *)
Callback(t) ==
    /\ \/ /\ rcv[t].at = "count"
          /\ in' = [in EXCEPT ![t] = @ + 1]
          /\ rcv' = [rcv EXCEPT ![t].at = "push"]
          /\ UNCHANGED m_rawData
       \/ /\ rcv[t].at = "push"
          /\ m_rawData' = [m_rawData EXCEPT ![t] = Append(@, rcv[t].packet)]
          /\ rcv' = [rcv EXCEPT ![t] = Idle]
          /\ UNCHANGED in
    /\ UNCHANGED <<enabled, link, dropped, flush, out>>

(* The count as the main thread reads it, which alone changes out: in is    *)
(* never behind what it took. It is not so for the monitor.                 *)
CurCount(t) == in[t] - out[t]

(* The monitor takes the difference of two counters with two loads, in      *)
(* either order, while both may change. A difference below zero wraps to    *)
(* just under 2^32 bytes, which is above the limit as well: then the        *)
(* monitor, too, "stops taking data into the Rx queue".                     *)
MonitorLoad ==
    /\ Felix /\ option.monitor /\ pc # "setup"
    /\ monitor.at = "idle"
    /\ \E t \in Threads :
           monitor' \in {[at |-> "in", t |-> t, load |-> in[t]],
                         [at |-> "out", t |-> t, load |-> out[t]]}
    /\ UNCHANGED flush

MonitorCompare ==
    /\ monitor.at \in {"in", "out"}
    /\ LET cur == IF monitor.at = "in" THEN monitor.load - out[monitor.t]
                  ELSE in[monitor.t] - monitor.load
       IN  monitor' = IF cur < 0 \/ cur > QueueLimit THEN [at |-> "stop", t |-> monitor.t, load |-> 0]
                      ELSE MonitorIdle
    /\ UNCHANGED flush

MonitorStop ==
    /\ monitor.at = "stop"
    /\ flush' = [flush EXCEPT ![monitor.t] = TRUE]
    /\ monitor' = MonitorIdle

(* The loop of the emulator: a word is read from the command ring buffer    *)
(* and its first half executed; its second half, here the trigger, only     *)
(* when the buffer is not empty again. A trigger writes its data.           *)
ExecuteLoop(c) ==
    /\ Emu /\ link[c] # <<>>
    /\ \/ /\ rcv[1].at = "idle"
          /\ link' = [link EXCEPT ![c] = Tail(@)]
          /\ rcv' = [rcv EXCEPT ![1] = [at |-> "half", packet |-> Head(link[c])]]
          /\ UNCHANGED <<in, m_rawData>>
       \/ /\ rcv[1].at = "half"
          /\ rcv' = [rcv EXCEPT ![1] = Idle]
          /\ IF rcv[1].packet = Padding(c) THEN UNCHANGED <<in, m_rawData>>
             ELSE /\ in' = [in EXCEPT ![1] = @ + 1]
                  /\ m_rawData' = [m_rawData EXCEPT ![1] = Append(@, rcv[1].packet)]
          /\ UNCHANGED link
    /\ UNCHANGED <<enabled, dropped, flush, out>>

ReceiverStep(t) ==
    /\ \/ Callback(t)
       \/ \E c \in UsedChannels : ThreadOf(c) = t /\ (Receive(c) \/ ExecuteLoop(c))
    /\ UNCHANGED <<vars, option, pc, burst, monitor, trigVars, signaled, reader, clip>>

MonitorStep ==
    /\ MonitorLoad \/ MonitorCompare \/ MonitorStop
    /\ UNCHANGED <<vars, option, pc, burst, enabled, link, dropped, rcv, in, out, m_rawData,
                   trigVars, signaled, reader, clip>>

----------------------------------------------------------------------------
(* The trigger thread looks at m_trigEnabled before each trigger; every     *)
(* channel answers a trigger with a packet. A timed burst ends at any time, *)
(* and beyond the bound its triggers find nothing.                          *)
TriggerTest ==
    /\ Felix /\ trig.at = "test"
    /\ LET last == IF option.trigger = "count" THEN trig.trigs = TrigCnt ELSE FALSE
       IN  trig' = [trig EXCEPT !.at = IF m_trigEnabled /\ ~last THEN "send" ELSE "end"]
    /\ UNCHANGED <<m_trigEnabled, sent, link>>

TimeUp ==
    /\ trig.at = "test" /\ option.trigger = "time"
    /\ trig' = [trig EXCEPT !.at = "end"]
    /\ UNCHANGED <<m_trigEnabled, sent, link>>

Trigger ==
    /\ trig.at = "send"
    /\ IF trig.trigs < TrigCnt
       THEN /\ trig' = [at |-> "test", trigs |-> trig.trigs + 1]
            /\ sent' = [c \in Channels |-> IF c \in UsedChannels THEN sent[c] + 1 ELSE sent[c]]
            /\ link' = [c \in Channels |->
                           IF c \in UsedChannels
                           THEN Append(link[c], [chn |-> c, n |-> sent'[c]]) ELSE link[c]]
       ELSE trig' = [trig EXCEPT !.at = "test"] /\ UNCHANGED <<sent, link>>
    /\ UNCHANGED m_trigEnabled

(* Mutation: no padding after the last trigger. *)
DoTriggerNoPadding ==
    /\ Emu
    /\ \/ /\ trig.at = "test"
          /\ trig' = [trig EXCEPT !.at = IF trig.trigs < TrigCnt THEN "send" ELSE "drain"]
       \/ /\ trig.at = "drain" /\ \A c \in UsedChannels : link[c] = <<>>
          /\ trig' = [trig EXCEPT !.at = "end"]
    /\ UNCHANGED <<m_trigEnabled, sent, link>>

(* doTrigger() of the emulator: after the last trigger a word of padding,   *)
(* and it waits until all are read.                                         *)
DoTrigger ==
    /\ Emu
    /\ \/ /\ trig.at = "test"
          /\ trig' = [trig EXCEPT !.at = IF trig.trigs < TrigCnt THEN "send" ELSE "drain"]
          /\ link' = [c \in Channels |-> IF c \in UsedChannels /\ trig'.at = "drain"
                                         THEN Append(link[c], Padding(c)) ELSE link[c]]
       \/ /\ trig.at = "drain" /\ \A c \in UsedChannels : link[c] = <<>>
          /\ trig' = [trig EXCEPT !.at = "end"]
          /\ UNCHANGED link
    /\ UNCHANGED <<m_trigEnabled, sent>>

TriggerEnd ==
    /\ trig.at = "end"
    /\ trig' = [trig EXCEPT !.at = "joinable"]
    /\ m_trigEnabled' = FALSE
    /\ UNCHANGED <<sent, link>>

TriggerRest == UNCHANGED <<vars, option, pc, burst, enabled, dropped, flush, rcv, in, out,
                           m_rawData, monitor, signaled, reader, clip>>

TriggerStep == (TriggerTest \/ Trigger \/ DoTrigger \/ TriggerEnd) /\ TriggerRest

(* SIGINT, for which StdDataGatherer has a handler. *)
Interrupt ==
    /\ pc \in {"test", "pop", "countOut", "process"} /\ option.reader # "cycle"
    /\ ~signaled
    /\ signaled' = TRUE
    /\ UNCHANGED <<vars, option, pc, burst, rxVars, monitor, trigVars, reader, clip>>

----------------------------------------------------------------------------
(* The main thread. A burst begins with flushBuffer(), which discards what  *)
(* arrives while it waits and leaves what is queued.                        *)
FlushBuffer ==
    /\ \/ /\ pc = "flush" /\ burst < MaxBurst
          /\ pc' = "flushing"
          /\ flush' = [t \in Threads |-> Felix]
       \/ /\ pc = "flushing"
          /\ pc' = "trigger"
          /\ flush' = [t \in Threads |-> FALSE]
    /\ UNCHANGED <<burst, enabled, link, dropped, rcv, in, out, m_rawData, trigVars, signaled,
                   reader, clip>>

(* disableRx() after the scan *)
DisableRx ==
    /\ pc = "flush" /\ burst = MaxBurst
    /\ pc' = "done"
    /\ enabled' = {}
    /\ UNCHANGED <<burst, link, dropped, flush, rcv, in, out, m_rawData, trigVars, signaled,
                   reader, clip>>

(* setTrigEnable(1), then the data loop begins. *)
StartTrigger ==
    /\ pc = "trigger"
    /\ m_trigEnabled' = TRUE
    /\ trig' = [at |-> "test", trigs |-> 0]
    /\ signaled' = FALSE
    /\ burst' = burst + 1
    /\ reader' = NoReader
    /\ pc' = "test"
    /\ UNCHANGED <<rxVars, sent, clip>>

(* isTrigDone(); for FELIX no commands are waiting to be sent here. *)
TrigDone(running) ==
    /\ ~running
    /\ Emu => \A c \in UsedChannels : link[c] = <<>>

IsTrigDone == TrigDone(m_trigEnabled)

(* A pass begins. StdDataGatherer decides beforehand whether there will be  *)
(* another one. due is history: what has been counted so far.               *)
BeginPass ==
    /\ pc = "test"
    /\ pc' = "pop"
    /\ reader' = [reader EXCEPT !.receiving = IF option.reader = "gather" THEN ~IsTrigDone ELSE @,
                                !.t = 1, !.cur = 0, !.due = IF option.reader = "cycle" THEN in ELSE @]
    /\ UNCHANGED <<burst, rxVars, trigVars, signaled, clip>>

(* FELIX's readData() takes at most one packet from each thread, and counts *)
(* it; the emulator's takes all (readAll).                                  *)
NextThread(r) ==
    IF r.t < option.nThreads
    THEN pc' = "pop" /\ reader' = [r EXCEPT !.t = @ + 1]
    ELSE pc' = "process" /\ reader' = r

ReadData ==
    LET t == reader.t
    IN  \/ /\ pc = "pop" /\ Emu
           /\ reader' = [reader EXCEPT !.got = m_rawData[t]]
           /\ m_rawData' = [m_rawData EXCEPT ![t] = <<>>]
           /\ out' = [out EXCEPT ![t] = @ + Len(m_rawData[t])]
           /\ pc' = "process"
           /\ UNCHANGED <<burst, enabled, link, dropped, flush, rcv, in, trigVars, signaled, clip>>
        \/ /\ pc = "pop" /\ Felix /\ m_rawData[t] # <<>>
           /\ m_rawData' = [m_rawData EXCEPT ![t] = Tail(@)]
           /\ reader' = [reader EXCEPT !.got = Append(@, Head(m_rawData[t]))]
           /\ pc' = "countOut"
           /\ UNCHANGED <<burst, enabled, link, dropped, flush, rcv, in, out, trigVars, signaled, clip>>
        \/ /\ pc = "pop" /\ Felix /\ m_rawData[t] = <<>>
           /\ NextThread(reader)
           /\ UNCHANGED <<burst, rxVars, trigVars, signaled, clip>>
        \/ /\ pc = "countOut"
           /\ out' = [out EXCEPT ![t] = @ + 1]
           /\ NextThread(reader)
           /\ UNCHANGED <<burst, enabled, link, dropped, flush, rcv, in, m_rawData, trigVars,
                          signaled, clip>>

(* Each packet is added for all front ends of its channel. *)
RoutedTo(id) == [chn : {c \in Channels : id \in ToSet(rxToIdMap[c])}, n : Nat]

AddChunks(map, got) == [id \in DOMAIN map |-> map[id] \o Selected(got, RoutedTo(id))]

Data(packets) == [eoi |-> FALSE, data |-> packets]
EoI == [eoi |-> TRUE, data |-> <<>>]

(* What is pushed of a front end's chunks, with or without a marker. *)
PushChunks(map, marker) ==
    [id \in DOMAIN clip |->
        IF map[id] = <<>> THEN clip[id]
        ELSE clip[id] \o IF marker THEN <<Data(map[id]), EoI>> ELSE <<Data(map[id])>>]

LastMarkers(clips) == [id \in DOMAIN clips |-> Append(clips[id], EoI)]

(* Mutation: the abort is ignored. *)
AbortNot(receiving) == UNCHANGED trigVars

(* The interrupt aborts the trigger; the emulator ignores it. *)
Abort(receiving) ==
    /\ m_trigEnabled' = (m_trigEnabled /\ ~(Felix /\ signaled /\ receiving))
    /\ UNCHANGED <<trig, sent>>

(* Mutation: what is left at the end is not pushed. *)
GatherForgets ==
    /\ pc = "process" /\ option.reader = "gather"
    /\ LET map == AddChunks(reader.rdcMap, reader.got)
           count == reader.count + Len(reader.got)
           full == reader.reads + 1 > MaxReads \/ count > MaxSize
       IN  IF reader.receiving
           THEN /\ reader' = [reader EXCEPT !.rdcMap = IF full THEN NoReader.rdcMap ELSE map,
                                            !.reads = IF full THEN 0 ELSE @ + 1,
                                            !.count = IF full THEN 0 ELSE count, !.got = <<>>]
                /\ clip' = IF full THEN PushChunks(map, TRUE) ELSE clip
                /\ pc' = "test"
           ELSE /\ reader' = [reader EXCEPT !.rdcMap = NoReader.rdcMap, !.got = <<>>]
                /\ clip' = LastMarkers(IF full THEN PushChunks(map, TRUE) ELSE clip)
                /\ pc' = "wait"
    /\ Abort(reader.receiving)
    /\ UNCHANGED <<burst, rxVars, signaled>>

(* StdDataGatherer, after readData(): full batches go out with a marker     *)
(* each; after the last pass what is left goes out, and a marker to all.    *)
Gather ==
    /\ pc = "process" /\ option.reader = "gather"
    /\ LET map == AddChunks(reader.rdcMap, reader.got)
           count == reader.count + Len(reader.got)
           full == reader.reads + 1 > MaxReads \/ count > MaxSize
           clips == IF full THEN PushChunks(map, TRUE) ELSE clip
       IN  IF reader.receiving
           THEN /\ reader' = [reader EXCEPT !.rdcMap = IF full THEN NoReader.rdcMap ELSE map,
                                            !.reads = IF full THEN 0 ELSE @ + 1,
                                            !.count = IF full THEN 0 ELSE count, !.got = <<>>]
                /\ clip' = clips
                /\ pc' = "test"
           ELSE /\ reader' = [reader EXCEPT !.rdcMap = NoReader.rdcMap, !.got = <<>>]
                /\ clip' = LastMarkers(IF full THEN clips ELSE PushChunks(map, FALSE))
                /\ pc' = "wait"
    /\ Abort(reader.receiving)
    /\ UNCHANGED <<burst, rxVars, signaled>>

(* The same with "passData" off. *)
Discard ==
    /\ pc = "process" /\ option.reader = "discard"
    /\ dropped' = [c \in Channels |->
                      dropped[c] \cup {p.n : p \in {q \in ToSet(reader.got) : q.chn = c}}]
    /\ reader' = [reader EXCEPT !.got = <<>>]
    /\ Abort(TRUE)
    /\ pc' = IF TrigDone(m_trigEnabled') THEN "wait" ELSE "test"
    /\ UNCHANGED <<burst, enabled, link, flush, rcv, in, out, m_rawData, signaled, clip>>

(* Reads are counted up to the number that makes a batch full. *)
CountRead(n) == IF n < MaxReads THEN n + 1 ELSE n

(* The read cycle of StdDataLoop, after readData(). *)
Accumulate ==
    /\ pc = "process" /\ option.reader = "cycle"
    /\ LET map == AddChunks(reader.rdcMap, reader.got)
           full == reader.got # <<>> /\ reader.reads + 1 > MaxReads
       IN  /\ reader' = [reader EXCEPT !.rdcMap = IF full THEN NoReader.rdcMap ELSE map,
                                       !.reads = IF full THEN 0 ELSE CountRead(@),
                                       !.got = <<>>, !.t = 1]
           /\ clip' = IF full THEN PushChunks(map, FALSE) ELSE clip
           /\ pc' = IF reader.got # <<>> THEN "test" ELSE "getCurCount"
    /\ UNCHANGED <<burst, rxVars, trigVars, signaled>>

(* Mutation: the cycle ends when there were no new data. *)
GetCurCountNot ==
    /\ pc = "getCurCount"
    /\ pc' = "push"
    /\ UNCHANGED <<burst, rxVars, trigVars, signaled, clip, reader>>

(* getCurCount() adds up the threads' counts; the cycle goes on until it    *)
(* is zero.                                                                 *)
GetCurCount ==
    /\ pc = "getCurCount"
    /\ LET cur == reader.cur + CurCount(reader.t)
       IN  IF reader.t < option.nThreads
           THEN reader' = [reader EXCEPT !.cur = cur, !.t = @ + 1] /\ UNCHANGED pc
           ELSE reader' = [reader EXCEPT !.cur = cur] /\ pc' = IF cur = 0 THEN "push" ELSE "test"
    /\ UNCHANGED <<burst, rxVars, trigVars, signaled, clip>>

(* The end of a cycle. StdDataLoop may begin another one, or end. *)
EndCycle ==
    /\ pc = "push"
    /\ clip' = PushChunks(reader.rdcMap, FALSE)
    /\ reader' = NoReader
    /\ pc' \in {"test", "wait"}
    /\ UNCHANGED <<burst, rxVars, trigVars, signaled>>

(* Mutation: the trigger thread is not joined. *)
StopTriggerNoJoin ==
    /\ pc = "wait" /\ IsTrigDone
    /\ trig' = IF trig.at = "joinable" THEN [trig EXCEPT !.at = "off"] ELSE trig
    /\ m_trigEnabled' = FALSE
    /\ pc' = "flush"
    /\ UNCHANGED <<burst, rxVars, sent, signaled, reader, clip>>

(* The trigger loop waits for the trigger, and setTrigEnable(0) joins it. *)
StopTrigger ==
    /\ pc = "wait" /\ IsTrigDone
    /\ trig.at = "joinable"
    /\ trig' = [trig EXCEPT !.at = "off"]
    /\ m_trigEnabled' = FALSE
    /\ pc' = "flush"
    /\ UNCHANGED <<burst, rxVars, sent, signaled, reader, clip>>

MainStep ==
    /\ \/ FlushBuffer \/ DisableRx \/ StartTrigger \/ BeginPass \/ ReadData \/ Gather \/ Discard
       \/ Accumulate \/ GetCurCount \/ EndCycle \/ StopTrigger
    /\ UNCHANGED <<vars, option, monitor>>

ReadoutNext ==
    \/ EnterFrontEnds \/ StartReadout \/ MainStep
    \/ TriggerStep \/ (TimeUp /\ TriggerRest) \/ MonitorStep \/ Interrupt
    \/ \E t \in Threads : ReceiverStep(t)

ReadoutSpec == ReadoutInit /\ [][ReadoutNext]_readoutVars

(* Every thread runs; nothing says that a trigger time is over soon, that   *)
(* the user interrupts, or when the monitor looks.                          *)
ReadoutFairSpec ==
    /\ ReadoutSpec
    /\ WF_readoutVars(MainStep) /\ WF_readoutVars(TriggerStep)
    /\ \A t \in UNION {1..o.nThreads : o \in Options} :
           WF_readoutVars(t \in Threads /\ ReceiverStep(t))

----------------------------------------------------------------------------
(* Every variable has its type. *)
ReadoutTypeOK ==
    /\ TypeOK
    /\ option \in Options
    /\ pc \in {"setup", "flush", "flushing", "trigger", "test", "pop", "countOut", "process",
               "getCurCount", "push", "wait", "done"}
    /\ burst \in 0..MaxBurst
    /\ enabled \subseteq Channels
    /\ sent \in [Channels -> 0..(TrigCnt * MaxBurst)]
    /\ flush \in [Threads -> BOOLEAN]
    /\ monitor \in [at : {"idle", "in", "out", "stop"}, t : Threads, load : Nat]
    /\ in \in [Threads -> Nat] /\ out \in [Threads -> Nat]
    /\ trig.at \in {"off", "test", "send", "drain", "end", "joinable"} /\ trig.trigs \in 0..TrigCnt
    /\ m_trigEnabled \in BOOLEAN /\ signaled \in BOOLEAN
    /\ reader.t \in Threads /\ reader.receiving \in BOOLEAN

(* "increment counters before pushData": the count the main thread gets is  *)
(* never below the length of the queue, so that it neither stops with data  *)
(* in the queue nor, in unsigned arithmetic, sees billions of packets. The  *)
(* rest is the packet the callback is about to queue, and the one the main  *)
(* thread has taken and not yet counted.                                    *)
CountCoversQueue ==
    \A t \in Threads :
        CurCount(t) = Len(m_rawData[t]) + (IF rcv[t].at = "push" THEN 1 ELSE 0)
                        + (IF pc = "countOut" /\ reader.t = t THEN 1 ELSE 0)

(* A read cycle of StdDataLoop leaves nothing behind that had been received *)
(* when its last pass began, not even a packet whose callback was still at  *)
(* work then.                                                               *)
CycleDrains ==
    pc = "push" => \A t \in Threads : out[t] >= reader.due[t]

(* What a front end has been handed, and what is on its way on a channel:   *)
(* read, queued, in the callback, and not yet received.                     *)
Handed(id) == FlattenSeq([k \in DOMAIN clip[id] |-> clip[id][k].data]) \o reader.rdcMap[id]
Underway(c) == reader.got \o Append(m_rawData[ThreadOf(c)], rcv[ThreadOf(c)].packet) \o link[c]
PacketsOf(c) == [chn : {c}, n : Nat \ {0}]

(* Whatever threads do in between, each front end is handed the packets of  *)
(* its channel, each of them once and in the order they were sent, except   *)
(* for those a receiver or a gatherer that passes no data discarded: what   *)
(* it has and what is still on its way is what was sent.                    *)
EachOnce ==
    (pc # "setup") => \A i \in DOMAIN bookEntries :
        LET c == bookEntries[i].rxChannel
            all == Handed(Id(i)) \o Selected(Underway(c), PacketsOf(c))
        IN  /\ ToSet(all) = [chn : {c}, n : (1..sent[c]) \ dropped[c]]
            /\ \A j, k \in DOMAIN all : j < k => all[j].n < all[k].n

(* With the emulator, all data of a burst are with the front ends when the  *)
(* gatherer ends: the test of isTrigDone() comes before the last read, and  *)
(* an empty command buffer, of which the last word is padding, means that   *)
(* the last trigger was executed.                                           *)
GatheredAll ==
    (Emu /\ option.reader = "gather" /\ pc \in {"wait", "flush"}) =>
        /\ m_rawData[1] = <<>>
        /\ \A c \in UsedChannels : ToSet(link[c]) \cup {rcv[1].packet} \subseteq {NoPacket, Padding(c)}

(* What the gatherer hands over is cut into iterations: one container       *)
(* between two markers, and a marker last when it has ended, for every      *)
(* front end, also one that sent nothing. A missing marker would leave the  *)
(* histogrammer waiting with its histograms unpublished.                    *)
EndOfIterationLast ==
    (option.reader = "gather") => \A id \in DOMAIN clip :
        /\ \A k \in 1..(Len(clip[id]) - 1) : ~clip[id][k].eoi => clip[id][k + 1].eoi
        /\ (pc \in {"wait", "flush"} /\ burst > 0) =>
               clip[id] # <<>> /\ clip[id][Len(clip[id])].eoi

(* What the gatherer leaves when it ends is complete and closed.            *)
GathererComplete == GatheredAll /\ EndOfIterationLast

(* No trigger is sent while the buffers are flushed for the next burst (its *)
(* data would be lost), and a counted burst has sent all of its triggers    *)
(* unless it was aborted, which no thread left over from the burst before   *)
(* can have done.                                                           *)
BurstsApart ==
    /\ pc \in {"flush", "flushing", "trigger", "done"} => trig.at = "off"
    /\ (pc = "flush" /\ burst > 0 /\ option.trigger = "count" /\ ~signaled) =>
           trig.trigs = TrigCnt

(* Reading ends after the last trigger of a counted burst, and after an     *)
(* interrupt also in the middle of a burst that would have gone on for      *)
(* hours. (When StdDataLoop ends after its cycles, DataLoop says.)          *)
ReadingEnds ==
    (pc = "test" /\ option.reader # "cycle" /\ (option.trigger = "count" \/ signaled))
        ~> (pc = "flush")
============================================================================
