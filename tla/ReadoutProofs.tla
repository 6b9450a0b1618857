--------------------------- MODULE ReadoutProofs ---------------------------
(***************************************************************************)
(* Proofs about Readout and the Bookkeeper under it, for any number of     *)
(* receiver threads, channels, front ends, bursts and triggers: an id is   *)
(* the position of its front end's entry; the count a reader gets covers   *)
(* what is queued; a read cycle leaves nothing behind that had been        *)
(* received when its last pass began; the triggers of two bursts do not    *)
(* mix; what a gatherer hands over is complete; every variable has its     *)
(* type; and each front end is handed each packet of its channel once and  *)
(* in order.                                                               *)
(***************************************************************************)
EXTENDS Readout, SequenceFacts, FiniteSetTheorems

----------------------------------------------------------------------------
(* The Bookkeeper: the id of a front end in use is the position of its     *)
(* entry. IdMapConsistent is not inductive: the ids are found again by      *)
(* looking for the front end in the entries that are left, and what is      *)
(* found is its entry only because no front end has two.                    *)

Entry == [fe : FrontEnds, rxChannel : Channels]

(* The entries, and the part of the type invariant that maps of ids need. *)
IsIdMap(map) ==
    /\ DOMAIN map \subseteq FrontEnds
    /\ \A fe \in DOMAIN map : map[fe] \in Nat

TablesInv == bookEntries \in Seq(Entry) /\ IsIdMap(idMap)

(* No front end has two entries. *)
NoTwoEntries(entries) ==
    \A i, j \in DOMAIN entries : entries[i].fe = entries[j].fe => i = j

(* What the code's users rely on, for the present and for any other tables. *)
Consistent(entries, map) ==
    \A i \in DOMAIN entries :
        entries[i].fe \in DOMAIN map /\ map[entries[i].fe] = Id(i)

BookInv == TablesInv /\ NoTwoEntries(bookEntries) /\ Consistent(bookEntries, idMap)

----------------------------------------------------------------------------
(* What erasing from a vector leaves: the entries before the position stay, *)
(* the ones after it move up.                                               *)
LEMMA RemoveAtProperties ==
    ASSUME NEW S, NEW s \in Seq(S), NEW k \in 1..Len(s)
    PROVE  /\ RemoveAt(s, k) \in Seq(S)
           /\ Len(RemoveAt(s, k)) = Len(s) - 1
           /\ \A i \in 1..(Len(s) - 1) :
                 RemoveAt(s, k)[i] = IF i < k THEN s[i] ELSE s[i + 1]
<1> DEFINE a == SubSeq(s, 1, k - 1)
           b == SubSeq(s, k + 1, Len(s))
<1>1. /\ k \in Nat /\ k >= 1 /\ k <= Len(s) /\ Len(s) \in Nat
      /\ \A i \in 1..Len(s) : s[i] \in S
  OBVIOUS
<1>2. /\ a \in Seq(S) /\ Len(a) = k - 1
      /\ \A i \in 1..(k - 1) : a[i] = s[i]
  <2>1. \A i \in 1..(k - 1) : s[i] \in S
    BY <1>1
  <2>2. /\ a \in Seq(S)
        /\ Len(a) = IF 1 <= k - 1 THEN (k - 1) - 1 + 1 ELSE 0
        /\ \A i \in 1..((k - 1) - 1 + 1) : a[i] = s[1 + i - 1]
    BY <1>1, <2>1, SubSeqProperties
  <2> HIDE DEF a
  <2> QED BY <1>1, <2>2
<1>3. /\ b \in Seq(S) /\ Len(b) = Len(s) - k
      /\ \A i \in 1..(Len(s) - k) : b[i] = s[k + i]
  <2>1. \A i \in (k + 1)..Len(s) : s[i] \in S
    BY <1>1
  <2>2. /\ b \in Seq(S)
        /\ Len(b) = IF k + 1 <= Len(s) THEN Len(s) - (k + 1) + 1 ELSE 0
        /\ \A i \in 1..(Len(s) - (k + 1) + 1) : b[i] = s[(k + 1) + i - 1]
    BY <1>1, <2>1, SubSeqProperties
  <2> HIDE DEF b
  <2> QED BY <1>1, <2>2
<1>4. RemoveAt(s, k) = a \o b
  BY DEF RemoveAt
<1> HIDE DEF a, b
<1>5. /\ a \o b \in Seq(S)
      /\ Len(a \o b) = Len(a) + Len(b)
      /\ \A i \in 1..(Len(a) + Len(b)) :
            (a \o b)[i] = IF i <= Len(a) THEN a[i] ELSE b[i - Len(a)]
  BY <1>2, <1>3, ConcatProperties
<1>6. Len(a) + Len(b) = Len(s) - 1
  BY <1>1, <1>2, <1>3
<1>7. ASSUME NEW i \in 1..(Len(s) - 1)
      PROVE  (a \o b)[i] = IF i < k THEN s[i] ELSE s[i + 1]
  <2>1. CASE i < k
    <3>1. i \in 1..(k - 1) /\ i <= Len(a)
      BY <1>1, <1>2, <2>1
    <3> QED BY <1>2, <1>5, <1>6, <2>1, <3>1
  <2>2. CASE ~(i < k)
    <3>1. i - (k - 1) \in 1..(Len(s) - k) /\ ~(i <= k - 1) /\ k + (i - (k - 1)) = i + 1
      BY <1>1, <2>2
    <3>2. (a \o b)[i] = b[i - (k - 1)]
      BY <1>2, <1>5, <1>6, <3>1
    <3> QED BY <1>3, <2>2, <3>1, <3>2
  <2> QED BY <2>1, <2>2
<1> QED BY <1>4, <1>5, <1>6, <1>7

(* Remapping makes any map of ids consistent with the entries, provided it  *)
(* knows their front ends.                                                  *)
LEMMA RemapConsistent ==
    ASSUME NEW entries \in Seq(Entry), NEW map, IsIdMap(map), NoTwoEntries(entries),
           \A i \in DOMAIN entries : entries[i].fe \in DOMAIN map
    PROVE  IsIdMap(Remap(entries, map)) /\ Consistent(entries, Remap(entries, map))
<1>1. DOMAIN entries = 1..Len(entries) /\ Len(entries) \in Nat
  OBVIOUS
<1> DEFINE new == Remap(entries, map)
           Where(x) == CHOOSE i \in DOMAIN entries : entries[i].fe = x
<1>2. /\ DOMAIN new = DOMAIN map
      /\ \A x \in DOMAIN map :
            new[x] = IF \E i \in DOMAIN entries : entries[i].fe = x
                     THEN Id(Where(x)) ELSE map[x]
  BY DEF Remap
<1>3. ASSUME NEW x, \E i \in DOMAIN entries : entries[i].fe = x
      PROVE  Where(x) \in DOMAIN entries /\ entries[Where(x)].fe = x
  BY <1>3
<1>4. ASSUME NEW i \in DOMAIN entries
      PROVE  new[entries[i].fe] = Id(i)
  <2>1. Where(entries[i].fe) = i
    BY <1>3 DEF NoTwoEntries
  <2> HIDE DEF Where, new
  <2> QED BY <1>2, <2>1
<1>5. ASSUME NEW x \in DOMAIN map
      PROVE  new[x] \in Nat
  <2> HIDE DEF Where, new
  <2>1. CASE \E i \in DOMAIN entries : entries[i].fe = x
    <3>1. Where(x) \in 1..Len(entries)
      BY <1>1, <1>3, <2>1
    <3> QED BY <1>1, <1>2, <2>1, <3>1 DEF Id
  <2>2. CASE ~ \E i \in DOMAIN entries : entries[i].fe = x
    BY <1>2, <2>2 DEF IsIdMap
  <2> QED BY <2>1, <2>2
<1> HIDE DEF new
<1>6. IsIdMap(new)
  BY <1>2, <1>5 DEF IsIdMap
<1>7. Consistent(entries, new)
  BY <1>2, <1>4 DEF Consistent
<1> QED BY <1>6, <1>7 DEF new

(* delFe, by id or by pointer: with the entry gone, everything that is left *)
(* has its new id.                                                          *)
LEMMA EraseConsistent ==
    ASSUME BookInv, NEW id \in Nat, NEW map, IsIdMap(map),
           DOMAIN idMap \subseteq DOMAIN map, Erase(id, map)
    PROVE  BookInv'
<1>1. /\ bookEntries \in Seq(Entry) /\ NoTwoEntries(bookEntries)
      /\ DOMAIN bookEntries = 1..Len(bookEntries) /\ Len(bookEntries) \in Nat
      /\ \A i \in DOMAIN bookEntries : bookEntries[i].fe \in DOMAIN map
  BY DEF BookInv, TablesInv, Consistent
<1>2. CASE id \in Ids
  <2> DEFINE left == RemoveAt(bookEntries, id + 1)
  <2>1. id + 1 \in 1..Len(bookEntries)
    BY <1>1, <1>2 DEF Ids, Id
  <2>2. /\ left \in Seq(Entry) /\ Len(left) = Len(bookEntries) - 1
        /\ \A i \in 1..(Len(bookEntries) - 1) :
              left[i] = IF i < id + 1 THEN bookEntries[i] ELSE bookEntries[i + 1]
    BY <1>1, <2>1, RemoveAtProperties
  <2>3. bookEntries' = left /\ idMap' = Remap(left, map)
    BY <1>2 DEF Erase
  <2> HIDE DEF left
  <2>4. DOMAIN left = 1..(Len(bookEntries) - 1)
    BY <2>2
  <2> DEFINE At(i) == IF i < id + 1 THEN i ELSE i + 1
  <2>5. \A i \in DOMAIN left : At(i) \in DOMAIN bookEntries /\ left[i] = bookEntries[At(i)]
    BY <1>1, <2>1, <2>2, <2>4
  <2>6. \A i, j \in DOMAIN left : At(i) = At(j) => i = j
    BY <1>1, <2>4
  <2> HIDE DEF At
  <2>7. NoTwoEntries(left)
    BY <1>1, <2>5, <2>6 DEF NoTwoEntries
  <2>8. \A i \in DOMAIN left : left[i].fe \in DOMAIN map
    BY <1>1, <2>5
  <2>9. IsIdMap(Remap(left, map)) /\ Consistent(left, Remap(left, map))
    BY <2>2, <2>7, <2>8, RemapConsistent
  <2> QED BY <2>2, <2>3, <2>7, <2>9
          DEF BookInv, TablesInv, NoTwoEntries, Consistent, IsIdMap
<1>3. CASE id \notin Ids
  <2>1. bookEntries' = bookEntries /\ idMap' = Remap(bookEntries, map)
    BY <1>3 DEF Erase
  <2>2. IsIdMap(Remap(bookEntries, map)) /\ Consistent(bookEntries, Remap(bookEntries, map))
    BY <1>1, RemapConsistent
  <2> QED BY <1>1, <2>1, <2>2 DEF BookInv, TablesInv, NoTwoEntries, Consistent, IsIdMap
<1> QED BY <1>2, <1>3

(* addFe: the new entry is last, and its id is new. *)
LEMMA AddConsistent ==
    ASSUME BookInv, NEW fe \in FrontEnds, NEW rx \in Channels, AddFe(fe, rx)
    PROVE  BookInv'
<1> DEFINE n == Len(bookEntries)
<1>1. /\ bookEntries \in Seq(Entry) /\ DOMAIN bookEntries = 1..n /\ n \in Nat
      /\ IsIdMap(idMap)
  BY DEF BookInv, TablesInv
<1>2. /\ bookEntries' = Append(bookEntries, BookEntry(fe, rx))
      /\ idMap' = [x \in DOMAIN idMap \cup {fe} |-> IF x = fe THEN n ELSE idMap[x]]
      /\ \A i \in DOMAIN bookEntries : bookEntries[i].fe # fe
  BY DEF AddFe
<1>3. BookEntry(fe, rx) \in Entry /\ BookEntry(fe, rx).fe = fe
  BY DEF BookEntry, Entry
<1>4. /\ bookEntries' \in Seq(Entry) /\ DOMAIN bookEntries' = 1..(n + 1)
      /\ \A i \in 1..n : bookEntries'[i] = bookEntries[i]
      /\ bookEntries'[n + 1] = BookEntry(fe, rx)
  BY <1>1, <1>2, <1>3, AppendProperties
<1>5. /\ DOMAIN idMap' = DOMAIN idMap \cup {fe}
      /\ idMap'[fe] = n
      /\ \A x \in DOMAIN idMap : x # fe => idMap'[x] = idMap[x]
  BY <1>2
<1> HIDE DEF n
<1>6. IsIdMap(idMap')
  BY <1>1, <1>5 DEF IsIdMap
<1>7. ASSUME NEW i \in DOMAIN bookEntries'
      PROVE  \/ i = n + 1 /\ bookEntries'[i].fe = fe
             \/ i \in DOMAIN bookEntries /\ bookEntries'[i] = bookEntries[i]
  BY <1>1, <1>3, <1>4
<1>8. NoTwoEntries(bookEntries')
  BY <1>2, <1>7 DEF BookInv, NoTwoEntries
<1>9. ASSUME NEW i \in DOMAIN bookEntries'
      PROVE  bookEntries'[i].fe \in DOMAIN idMap' /\ idMap'[bookEntries'[i].fe] = Id(i)
  <2>1. CASE i = n + 1 /\ bookEntries'[i].fe = fe
    BY <1>1, <1>5, <2>1 DEF Id
  <2>2. CASE i \in DOMAIN bookEntries /\ bookEntries'[i] = bookEntries[i]
    BY <1>2, <1>5, <2>2 DEF BookInv, Consistent
  <2> QED BY <1>7, <2>1, <2>2
<1> QED BY <1>4, <1>6, <1>8, <1>9 DEF BookInv, TablesInv, NoTwoEntries, Consistent, IsIdMap

(* Every step of the Bookkeeper. *)
LEMMA BookStep == ASSUME BookInv, [Next]_vars PROVE BookInv'
<1>1. CASE UNCHANGED vars
  BY <1>1 DEF BookInv, TablesInv, NoTwoEntries, Consistent, IsIdMap, vars
<1>2. ASSUME NEW fe \in FrontEnds, NEW rx \in Channels, AddFe(fe, rx)
      PROVE  BookInv'
  BY <1>2, AddConsistent
<1>3. ASSUME NEW id \in 0..Len(bookEntries), DelFe(id)
      PROVE  BookInv'
  <2>1. id \in Nat /\ IsIdMap(idMap)
    BY DEF BookInv, TablesInv
  <2>2. Erase(id, idMap)
    BY <1>3 DEF DelFe
  <2> QED BY <2>1, <2>2, EraseConsistent
<1>4. ASSUME NEW fe \in FrontEnds, DelFePtr(fe)
      PROVE  BookInv'
  <2>1. IsIdMap(idMap)
    BY DEF BookInv, TablesInv
  <2>2. CASE fe \in DOMAIN idMap
    <3>1. Erase(idMap[fe], idMap) /\ idMap[fe] \in Nat
      BY <1>4, <2>1, <2>2 DEF DelFePtr, IsIdMap
    <3> QED BY <2>1, <3>1, EraseConsistent
  <2>3. CASE fe \notin DOMAIN idMap
    <3> DEFINE map == [x \in DOMAIN idMap \cup {fe} |-> IF x = fe THEN 0 ELSE idMap[x]]
    <3>1. Erase(0, map)
      BY <1>4, <2>3 DEF DelFePtr
    <3>2. IsIdMap(map) /\ DOMAIN idMap \subseteq DOMAIN map
      BY <2>1 DEF IsIdMap
    <3> HIDE DEF map
    <3> QED BY <3>1, <3>2, EraseConsistent
  <2> QED BY <2>2, <2>3
<1> QED BY <1>1, <1>2, <1>3, <1>4 DEF Next

(* There are no entries before the first front end is added. *)
LEMMA BookStart == Init => BookInv
<1> SUFFICES ASSUME Init PROVE BookInv
  OBVIOUS
<1>1. bookEntries = <<>> /\ DOMAIN bookEntries = {} /\ idMap = <<>> /\ DOMAIN idMap = {}
  BY DEF Init
<1>2. bookEntries \in Seq(Entry)
  BY <1>1
<1> QED BY <1>1, <1>2 DEF BookInv, TablesInv, NoTwoEntries, Consistent, IsIdMap

(* The tables agree, whatever was added and deleted before and however it   *)
(* was asked for: getId of a front end in use is the id getEntry finds it   *)
(* under (Bookkeeper::addFe, both of Bookkeeper::delFe).                    *)
THEOREM IdsConsistent == Spec => []IdMapConsistent
<1>1. BookInv => IdMapConsistent
  BY DEF BookInv, Consistent, IdMapConsistent
<1> QED BY <1>1, BookStart, BookStep, PTL DEF Spec

----------------------------------------------------------------------------
(* The inductive invariant of the read-out *)

Packets == [chn : Channels \cup {0}, n : Nat]

(* The types of the variables, and of what is queued; what needs more than  *)
(* one step to see is left to later.                                        *)
RxTypes ==
    /\ link \in [Channels -> Seq(Packets)]
    /\ rcv \in [Threads -> [at : {"idle", "count", "push", "half"}, packet : Packets]]
    /\ in \in [Threads -> Nat] /\ out \in [Threads -> Nat]
    /\ m_rawData \in [Threads -> Seq(Packets)]

TrigTypes ==
    /\ trig \in [at : {"off", "test", "send", "drain", "end", "joinable"}, trigs : 0..TrigCnt]
    /\ m_trigEnabled \in BOOLEAN
    /\ sent \in [Channels -> Nat]

ReaderTypes ==
    /\ DOMAIN reader = {"t", "got", "rdcMap", "reads", "count", "receiving", "cur", "due"}
    /\ reader.t \in Threads

MainTypes ==
    /\ option \in Options
    /\ pc \in {"setup", "flush", "flushing", "trigger", "test", "pop", "countOut", "process",
               "getCurCount", "push", "wait", "done"}
    /\ burst \in Nat /\ signaled \in BOOLEAN

Types == RxTypes /\ TrigTypes /\ ReaderTypes /\ MainTypes

(* Triggers are sent only while the data loop runs. A counted burst that    *)
(* was not interrupted stays enabled until it has sent its last trigger.    *)
BurstInv ==
    /\ pc \in {"setup", "flush", "flushing", "trigger", "done"} => trig.at = "off"
    /\ pc = "setup" => burst = 0
    /\ (option.trigger = "count" /\ ~signaled /\ burst > 0) =>
           /\ trig.at \in {"test", "send"} => m_trigEnabled
           /\ trig.at \notin {"test", "send"} => trig.trigs = TrigCnt

(* What had been counted when the pass began is in the queues, or has been  *)
(* counted out. While the counts of the threads are added up, a sum that is *)
(* still zero says that all threads visited so far were empty.              *)
CycleInv ==
    /\ pc \in {"getCurCount", "push"} => option.reader = "cycle"
    /\ (option.reader = "cycle" /\ pc \in {"pop", "countOut", "process", "getCurCount", "push"}) =>
           /\ reader.due \in [Threads -> Nat]
           /\ \A t \in Threads : reader.due[t] <= in[t]
           /\ reader.cur \in Nat
           /\ pc \in {"pop", "countOut", "process"} => reader.cur = 0
           /\ (pc = "getCurCount" /\ reader.cur = 0) =>
                  \A t \in Threads : t < reader.t => reader.due[t] <= out[t]
           /\ pc = "push" => \A t \in Threads : reader.due[t] <= out[t]

(* The emulator: where the trigger thread is says whether it is enabled,    *)
(* the word of padding is the last one of a burst, and what is left of a    *)
(* burst once the command buffer is empty is padding.                       *)
LinksRead ==
    \A c \in UsedChannels : link[c] = <<>> /\ rcv[1].packet \in {NoPacket, Padding(c)}

PaddingLast ==
    \A c \in UsedChannels :
        IF link[c] = <<>> THEN rcv[1].packet \in {NoPacket, Padding(c)}
        ELSE link[c][Len(link[c])] = Padding(c)

EmuInv ==
    Emu =>
        /\ pc # "countOut" /\ rcv[1].at \in {"idle", "half"}
        /\ pc = "setup" => rcv[1] = Idle /\ \A c \in Channels : link[c] = <<>>
        /\ pc # "setup" => \A c, d \in UsedChannels : c = d
        /\ ~m_trigEnabled => trig.at \in {"joinable", "off"}
        /\ trig.at \in {"end", "joinable", "off"} => LinksRead
        /\ trig.at = "drain" => PaddingLast

(* Its gatherer: the last pass begins after the trigger thread has ended,   *)
(* and takes all there is.                                                  *)
LastPass == pc \in {"pop", "process"} /\ ~reader.receiving

GatherInv ==
    (Emu /\ option.reader = "gather") =>
        /\ LastPass \/ pc \in {"wait", "flush", "flushing", "trigger", "done"} =>
               trig.at \in {"joinable", "off"}
        /\ \/ LastPass /\ pc = "process"
           \/ pc \in {"setup", "wait", "flush", "flushing", "trigger", "done"}
           => m_rawData[1] = <<>>

(* What a gatherer has handed over is closed by a marker at any time. *)
Closed(s) ==
    /\ \E S : s \in Seq(S)
    /\ \A k \in 1..(Len(s) - 1) : ~s[k].eoi => s[k + 1].eoi
    /\ s # <<>> => s[Len(s)].eoi

MarkerInv ==
    (option.reader = "gather") => \A id \in DOMAIN clip :
        /\ Closed(clip[id])
        /\ (pc \in {"wait", "flush"} /\ burst > 0) => clip[id] # <<>>

----------------------------------------------------------------------------
(* The scan is chosen at the beginning, and its threads with it. *)
LEMMA OptionKept ==
    ASSUME [ReadoutNext]_readoutVars
    PROVE  option' = option /\ Threads' = Threads /\ TrigCnt' = TrigCnt
<1>1. option' = option
  BY DEF ReadoutNext, readoutVars, EnterFrontEnds, StartReadout, MainStep, TriggerStep,
         TriggerRest, MonitorStep, Interrupt, ReceiverStep
<1> QED BY <1>1 DEF Threads, TrigCnt

(* What the assumption on the scans says of the one at hand. *)
LEMMA OptionTypes ==
    ASSUME option \in Options
    PROVE  /\ option.nThreads \in Nat \ {0} /\ TrigCnt \in Nat
           /\ Threads = 1..option.nThreads /\ 1 \in Threads
           /\ Emu => option.nThreads = 1
           /\ option.trigger \in {"count", "time"} /\ ~(Emu /\ Felix)
           /\ option.reader \in {"gather", "discard", "cycle"}
           /\ Emu => option.trigger = "count"
<1>1. /\ option.nThreads \in Nat \ {0} /\ option.trigCnt \in Nat
      /\ option.trigger \in {"count", "time"}
      /\ option.reader \in {"gather", "discard", "cycle"}
      /\ option.controller = "emu" => option.nThreads = 1 /\ option.trigger = "count"
  BY ReadoutAssumption
<1> QED BY <1>1 DEF Threads, TrigCnt, Emu, Felix

(* The record of a reader that is not reading. *)
LEMMA NoReaderTypes ==
    ASSUME option \in Options
    PROVE  /\ DOMAIN NoReader = {"t", "got", "rdcMap", "reads", "count", "receiving", "cur", "due"}
           /\ NoReader.t = 1 /\ NoReader.got = <<>> /\ NoReader.cur = 0
BY DEF NoReader

(* The channels in use are channels. *)
LEMMA UsedAreChannels == BookInv => UsedChannels \subseteq Channels
<1> SUFFICES ASSUME BookInv PROVE UsedChannels \subseteq Channels
  OBVIOUS
<1>1. bookEntries \in Seq(Entry)
  BY DEF BookInv, TablesInv
<1>2. \A i \in DOMAIN bookEntries : bookEntries[i] \in Entry
  BY <1>1
<1>3. \A e \in Entry : e.rxChannel \in Channels
  BY DEF Entry
<1> QED BY <1>2, <1>3 DEF UsedChannels

(* Queueing and taking packets keeps the types of queues. *)
LEMMA QueueTypes ==
    ASSUME NEW I, NEW q \in [I -> Seq(Packets)], NEW i \in I
    PROVE  /\ \A p \in Packets : [q EXCEPT ![i] = Append(@, p)] \in [I -> Seq(Packets)]
           /\ [q EXCEPT ![i] = <<>>] \in [I -> Seq(Packets)]
           /\ q[i] # <<>> => /\ Head(q[i]) \in Packets
                             /\ [q EXCEPT ![i] = Tail(@)] \in [I -> Seq(Packets)]
<1>1. q[i] \in Seq(Packets) /\ <<>> \in Seq(Packets)
  OBVIOUS
<1>2. \A p \in Packets : Append(q[i], p) \in Seq(Packets)
  BY <1>1
<1>3. q[i] # <<>> => Head(q[i]) \in Packets /\ Tail(q[i]) \in Seq(Packets)
  BY <1>1
<1>4. ASSUME NEW s \in Seq(Packets)
      PROVE  [q EXCEPT ![i] = s] \in [I -> Seq(Packets)]
  OBVIOUS
<1> QED BY <1>1, <1>2, <1>3, <1>4

Receivers == [at : {"idle", "count", "push", "half"}, packet : Packets]

(* Any step of a callback keeps the type of the callbacks at work. *)
LEMMA CallbackTypes ==
    ASSUME NEW I, NEW r \in [I -> Receivers], NEW i \in I
    PROVE  /\ r[i].packet \in Packets
           /\ [r EXCEPT ![i] = Idle] \in [I -> Receivers]
           /\ [r EXCEPT ![i].at = "push"] \in [I -> Receivers]
           /\ \A p \in Packets, a \in {"count", "half"} :
                 [r EXCEPT ![i] = [at |-> a, packet |-> p]] \in [I -> Receivers]
<1>1. r[i] \in Receivers
  OBVIOUS
<1>2. r[i].packet \in Packets /\ [r[i] EXCEPT !.at = "push"] \in Receivers
  BY <1>1 DEF Receivers
<1>3. Idle \in Receivers
  BY DEF Idle, Receivers, NoPacket, Packets
<1>4. \A p \in Packets, a \in {"count", "half"} : [at |-> a, packet |-> p] \in Receivers
  BY DEF Receivers
<1>5. ASSUME NEW x \in Receivers
      PROVE  [r EXCEPT ![i] = x] \in [I -> Receivers]
  OBVIOUS
<1> QED BY <1>2, <1>3, <1>4, <1>5

(* The steps of the receivers keep the types. *)
LEMMA ReceiverTypes ==
    ASSUME Types, BookInv, NEW t \in Threads, ReceiverStep(t)
    PROVE  Types'
<1>1. UNCHANGED <<option, pc, burst, trigVars, signaled, reader>>
  BY DEF ReceiverStep
<1>2. Threads' = Threads /\ TrigCnt' = TrigCnt
  BY <1>1 DEF Threads, TrigCnt
<1>3. TrigTypes' /\ ReaderTypes' /\ MainTypes'
  BY <1>1, <1>2 DEF Types, TrigTypes, ReaderTypes, MainTypes, trigVars
<1> SUFFICES RxTypes'
  BY <1>3 DEF Types
<1>4. /\ link \in [Channels -> Seq(Packets)] /\ rcv \in [Threads -> Receivers]
      /\ in \in [Threads -> Nat] /\ out \in [Threads -> Nat]
      /\ m_rawData \in [Threads -> Seq(Packets)]
  BY DEF Types, RxTypes, Receivers
<1>5. rcv[t].packet \in Packets
  BY <1>4, CallbackTypes
<1>6. [in EXCEPT ![t] = @ + 1] \in [Threads -> Nat]
  BY <1>4
<1>7. [m_rawData EXCEPT ![t] = Append(@, rcv[t].packet)] \in [Threads -> Seq(Packets)]
  BY <1>4, <1>5, QueueTypes
<1>8. CASE Callback(t)
  <2>1. UNCHANGED <<link, out>>
    BY <1>8 DEF Callback
  <2>2. in' \in [Threads -> Nat]
    BY <1>4, <1>6, <1>8 DEF Callback
  <2>3. m_rawData' \in [Threads -> Seq(Packets)]
    BY <1>4, <1>7, <1>8 DEF Callback
  <2>4. rcv' \in [Threads -> Receivers]
    <3>1. /\ [rcv EXCEPT ![t].at = "push"] \in [Threads -> Receivers]
          /\ [rcv EXCEPT ![t] = Idle] \in [Threads -> Receivers]
      BY <1>4, CallbackTypes
    <3> QED BY <1>8, <3>1 DEF Callback
  <2> QED BY <1>2, <1>4, <2>1, <2>2, <2>3, <2>4 DEF RxTypes, Receivers
<1>9. ASSUME NEW c \in UsedChannels, link[c] # <<>>
      PROVE  /\ c \in Channels /\ Head(link[c]) \in Packets
             /\ [link EXCEPT ![c] = Tail(@)] \in [Channels -> Seq(Packets)]
             /\ \A a \in {"count", "half"} :
                   [rcv EXCEPT ![t] = [at |-> a, packet |-> Head(link[c])]] \in [Threads -> Receivers]
  <2>1. c \in Channels
    BY UsedAreChannels
  <2>2. /\ Head(link[c]) \in Packets
        /\ [link EXCEPT ![c] = Tail(@)] \in [Channels -> Seq(Packets)]
    BY <1>4, <1>9, <2>1, QueueTypes
  <2> QED BY <1>4, <2>1, <2>2, CallbackTypes
<1>10. ASSUME NEW c \in UsedChannels, Receive(c), ThreadOf(c) = t
       PROVE  RxTypes'
  <2>1. link[c] # <<>> /\ link' = [link EXCEPT ![c] = Tail(@)] /\ UNCHANGED <<in, out, m_rawData>>
    BY <1>10 DEF Receive
  <2>2. rcv' = rcv \/ rcv' = [rcv EXCEPT ![t] = [at |-> "count", packet |-> Head(link[c])]]
    BY <1>10 DEF Receive
  <2>3. rcv' \in [Threads -> Receivers] /\ link' \in [Channels -> Seq(Packets)]
    BY <1>4, <1>9, <2>1, <2>2
  <2> QED BY <1>2, <1>4, <2>1, <2>3 DEF RxTypes, Receivers
<1>11. ASSUME NEW c \in UsedChannels, ExecuteLoop(c)
       PROVE  RxTypes'
  <2>1. Emu /\ link[c] # <<>> /\ out' = out
    BY <1>11 DEF ExecuteLoop
  <2>2. t = 1
    BY <2>1, OptionTypes DEF Types, MainTypes
  <2>3. link' = link \/ link' = [link EXCEPT ![c] = Tail(@)]
    BY <1>11 DEF ExecuteLoop
  <2>4. \/ rcv' = [rcv EXCEPT ![t] = [at |-> "half", packet |-> Head(link[c])]]
        \/ rcv' = [rcv EXCEPT ![t] = Idle]
    BY <1>11, <2>2 DEF ExecuteLoop
  <2>5. in' = in \/ in' = [in EXCEPT ![t] = @ + 1]
    BY <1>11, <2>2 DEF ExecuteLoop
  <2>6. \/ m_rawData' = m_rawData
        \/ m_rawData' = [m_rawData EXCEPT ![t] = Append(@, rcv[t].packet)]
    BY <1>11, <2>2 DEF ExecuteLoop
  <2>7. rcv' \in [Threads -> Receivers] /\ link' \in [Channels -> Seq(Packets)]
    <3>1. [rcv EXCEPT ![t] = Idle] \in [Threads -> Receivers]
      BY <1>4, CallbackTypes
    <3> QED BY <1>4, <1>9, <2>1, <2>3, <2>4, <3>1
  <2>8. in' \in [Threads -> Nat] /\ m_rawData' \in [Threads -> Seq(Packets)]
    BY <1>4, <1>6, <1>7, <2>5, <2>6
  <2> QED BY <1>2, <1>4, <2>1, <2>7, <2>8 DEF RxTypes, Receivers
<1> QED BY <1>8, <1>10, <1>11 DEF ReceiverStep

(* So do the steps of the trigger thread. *)
LEMMA TriggerTypes ==
    ASSUME Types, BookInv, TriggerTest \/ Trigger \/ DoTrigger \/ TriggerEnd \/ TimeUp, TriggerRest
    PROVE  Types'
<1>1. UNCHANGED <<option, pc, burst, rcv, in, out, m_rawData, signaled, reader>>
  BY DEF TriggerRest
<1>2. Threads' = Threads /\ TrigCnt' = TrigCnt
  BY <1>1 DEF Threads, TrigCnt
<1>3. ReaderTypes' /\ MainTypes'
  BY <1>1, <1>2 DEF Types, ReaderTypes, MainTypes
<1> DEFINE Places == {"off", "test", "send", "drain", "end", "joinable"}
<1>4. /\ trig \in [at : Places, trigs : 0..TrigCnt] /\ m_trigEnabled \in BOOLEAN
      /\ sent \in [Channels -> Nat] /\ link \in [Channels -> Seq(Packets)]
      /\ TrigCnt \in Nat
  BY OptionTypes DEF Types, RxTypes, TrigTypes, MainTypes
<1>5. ASSUME NEW a \in Places
      PROVE  [trig EXCEPT !.at = a] \in [at : Places, trigs : 0..TrigCnt]
  BY <1>4
<1>6. trig' \in [at : Places, trigs : 0..TrigCnt]
  <2>1. CASE Trigger
    <3>1. trig.trigs < TrigCnt =>
             [at |-> "test", trigs |-> trig.trigs + 1] \in [at : Places, trigs : 0..TrigCnt]
      BY <1>4
    <3> QED BY <1>5, <2>1, <3>1 DEF Trigger
  <2>2. CASE TriggerTest \/ DoTrigger \/ TriggerEnd \/ TimeUp
    <3>1. \E a \in Places : trig' = [trig EXCEPT !.at = a]
      BY <2>2 DEF TriggerTest, DoTrigger, TriggerEnd, TimeUp
    <3> QED BY <1>5, <3>1
  <2> QED BY <2>1, <2>2
<1>7. m_trigEnabled' \in BOOLEAN
  BY <1>4 DEF TriggerTest, Trigger, DoTrigger, TriggerEnd, TimeUp
<1>8. sent' \in [Channels -> Nat]
  <2>1. [c \in Channels |-> IF c \in UsedChannels THEN sent[c] + 1 ELSE sent[c]]
           \in [Channels -> Nat]
    BY <1>4
  <2>2. CASE Trigger
    BY <1>4, <2>1, <2>2 DEF Trigger
  <2>3. CASE TriggerTest \/ DoTrigger \/ TriggerEnd \/ TimeUp
    BY <1>4, <2>3 DEF TriggerTest, DoTrigger, TriggerEnd, TimeUp
  <2> QED BY <2>2, <2>3
<1>9. link' \in [Channels -> Seq(Packets)]
  <2>1. \A c \in Channels : [chn |-> c, n |-> sent'[c]] \in Packets /\ Padding(c) \in Packets
    BY <1>8 DEF Packets, Padding
  <2>2. \A c \in Channels : \A p \in Packets : Append(link[c], p) \in Seq(Packets)
    BY <1>4
  <2>3. CASE Trigger
    <3>1. CASE link' = [c \in Channels |->
                           IF c \in UsedChannels
                           THEN Append(link[c], [chn |-> c, n |-> sent'[c]]) ELSE link[c]]
      BY <1>4, <2>1, <2>2, <3>1
    <3> QED BY <1>4, <2>3, <3>1 DEF Trigger
  <2>4. CASE DoTrigger
    <3>1. CASE link' = [c \in Channels |->
                           IF c \in UsedChannels /\ trig'.at = "drain"
                           THEN Append(link[c], Padding(c)) ELSE link[c]]
      BY <1>4, <2>1, <2>2, <3>1
    <3> QED BY <1>4, <2>4, <3>1 DEF DoTrigger
  <2>5. CASE TriggerTest \/ TriggerEnd \/ TimeUp
    BY <1>4, <2>5 DEF TriggerTest, TriggerEnd, TimeUp
  <2> QED BY <2>3, <2>4, <2>5
<1> QED BY <1>1, <1>2, <1>3, <1>4, <1>6, <1>7, <1>8, <1>9 DEF Types, TrigTypes, RxTypes

(* The main thread: what a step of it leaves alone, and where it goes. *)
LEMMA MainTypesKept ==
    ASSUME Types, MainStep
    PROVE  Types'
<1>1. UNCHANGED option
  BY DEF MainStep
<1>2. Threads' = Threads /\ TrigCnt' = TrigCnt
  BY <1>1 DEF Threads, TrigCnt
<1>3. MainTypes'
  <2>1. pc' \in {"setup", "flush", "flushing", "trigger", "test", "pop", "countOut", "process",
                 "getCurCount", "push", "wait", "done"}
    BY DEF MainStep, Types, MainTypes, FlushBuffer, DisableRx, StartTrigger, BeginPass, ReadData,
           NextThread, Gather, Discard, Accumulate, GetCurCount, EndCycle, StopTrigger
  <2>2. burst' = burst \/ burst' = burst + 1
    BY DEF MainStep, FlushBuffer, DisableRx, StartTrigger, BeginPass, ReadData,
           Gather, Discard, Accumulate, GetCurCount, EndCycle, StopTrigger
  <2>3. signaled' = signaled \/ signaled' = FALSE
    BY DEF MainStep, FlushBuffer, DisableRx, StartTrigger, BeginPass, ReadData,
           Gather, Discard, Accumulate, GetCurCount, EndCycle, StopTrigger
  <2>4. burst \in Nat /\ signaled \in BOOLEAN /\ option \in Options
    BY DEF Types, MainTypes
  <2>5. burst' \in Nat
    BY <2>2, <2>4
  <2>6. signaled' \in BOOLEAN
    BY <2>3, <2>4
  <2> QED BY <1>1, <2>1, <2>4, <2>5, <2>6 DEF MainTypes
<1>4. ReaderTypes'
  <2>1. ReaderTypes /\ option \in Options
    BY DEF Types, MainTypes
  <2>2. CASE FlushBuffer \/ DisableRx \/ StopTrigger
    BY <1>2, <2>1, <2>2 DEF FlushBuffer, DisableRx, StopTrigger, ReaderTypes
  <2>3. CASE StartTrigger \/ EndCycle
    <3>1. reader' = NoReader
      BY <2>3 DEF StartTrigger, EndCycle
    <3> QED BY <1>2, <2>1, <3>1, NoReaderTypes, OptionTypes DEF ReaderTypes
  <2>4. CASE BeginPass
    <3>1. DOMAIN reader' = DOMAIN reader /\ reader'.t = 1
      BY <2>1, <2>4 DEF BeginPass, ReaderTypes
    <3> QED BY <1>2, <2>1, <3>1, OptionTypes DEF ReaderTypes
  <2>5. CASE ReadData
    <3>1. DOMAIN reader' = DOMAIN reader
      BY <2>5 DEF ReadData, NextThread
    <3>2. \/ reader'.t = reader.t
          \/ reader.t < option.nThreads /\ reader'.t = reader.t + 1
      BY <2>1, <2>5 DEF ReadData, NextThread, ReaderTypes
    <3> QED BY <1>2, <2>1, <3>1, <3>2, OptionTypes DEF ReaderTypes
  <2>6. CASE Gather \/ Discard
    <3>1. DOMAIN reader' = DOMAIN reader /\ reader'.t = reader.t
      BY <2>1, <2>6 DEF Gather, Discard, ReaderTypes
    <3> QED BY <1>2, <2>1, <3>1 DEF ReaderTypes
  <2>7. CASE Accumulate
    <3>1. DOMAIN reader' = DOMAIN reader /\ reader'.t = 1
      BY <2>1, <2>7 DEF Accumulate, ReaderTypes
    <3> QED BY <1>2, <2>1, <3>1, OptionTypes DEF ReaderTypes
  <2>8. CASE GetCurCount
    <3>1. DOMAIN reader' = DOMAIN reader
      BY <2>8 DEF GetCurCount
    <3>2. \/ reader'.t = reader.t
          \/ reader.t < option.nThreads /\ reader'.t = reader.t + 1
      BY <2>1, <2>8 DEF GetCurCount, ReaderTypes
    <3> QED BY <1>2, <2>1, <3>1, <3>2, OptionTypes DEF ReaderTypes
  <2> QED BY <2>2, <2>3, <2>4, <2>5, <2>6, <2>7, <2>8 DEF MainStep
<1>5. TrigTypes'
  <2>1. TrigTypes /\ option \in Options
    BY DEF Types, MainTypes
  <2>2. CASE StartTrigger
    <3>1. /\ trig' = [at |-> "test", trigs |-> 0] /\ m_trigEnabled' = TRUE /\ sent' = sent
      BY <2>2 DEF StartTrigger
    <3> QED BY <1>2, <2>1, <3>1, OptionTypes DEF TrigTypes
  <2>3. CASE StopTrigger
    <3>1. /\ trig' = [trig EXCEPT !.at = "off"] /\ m_trigEnabled' = FALSE /\ sent' = sent
      BY <2>3 DEF StopTrigger
    <3> QED BY <1>2, <2>1, <3>1 DEF TrigTypes
  <2>4. CASE Gather \/ Discard
    <3>1. trig' = trig /\ sent' = sent /\ m_trigEnabled' \in BOOLEAN
      BY <2>4 DEF Gather, Discard, Abort
    <3> QED BY <1>2, <2>1, <3>1 DEF TrigTypes
  <2>5. CASE FlushBuffer \/ DisableRx \/ BeginPass \/ ReadData \/ Accumulate \/ GetCurCount \/ EndCycle
    <3>1. UNCHANGED trigVars
      BY <2>5 DEF FlushBuffer, DisableRx, BeginPass, ReadData, Accumulate, GetCurCount, EndCycle
    <3> QED BY <1>2, <2>1, <3>1 DEF TrigTypes, trigVars
  <2> QED BY <2>2, <2>3, <2>4, <2>5 DEF MainStep
<1>6. RxTypes'
  <2>1. CASE ReadData
    <3>1. UNCHANGED <<link, rcv, in>>
      BY <2>1 DEF ReadData, rxVars
    <3>2. /\ m_rawData \in [Threads -> Seq(Packets)] /\ out \in [Threads -> Nat]
          /\ reader.t \in Threads
      BY DEF Types, RxTypes, ReaderTypes
    <3>3. m_rawData' \in [Threads -> Seq(Packets)]
      <4>1. \/ m_rawData' = m_rawData
            \/ m_rawData' = [m_rawData EXCEPT ![reader.t] = <<>>]
            \/ /\ m_rawData[reader.t] # <<>>
               /\ m_rawData' = [m_rawData EXCEPT ![reader.t] = Tail(@)]
        BY <2>1 DEF ReadData, rxVars
      <4>2. /\ [m_rawData EXCEPT ![reader.t] = <<>>] \in [Threads -> Seq(Packets)]
            /\ m_rawData[reader.t] # <<>> =>
                   [m_rawData EXCEPT ![reader.t] = Tail(@)] \in [Threads -> Seq(Packets)]
        BY <3>2, QueueTypes
      <4> QED BY <3>2, <4>1, <4>2
    <3>4. out' \in [Threads -> Nat]
      <4>1. Len(m_rawData[reader.t]) \in Nat
        BY <3>2
      <4>2. \/ out' = out
            \/ out' = [out EXCEPT ![reader.t] = @ + Len(m_rawData[reader.t])]
            \/ out' = [out EXCEPT ![reader.t] = @ + 1]
        BY <2>1 DEF ReadData, rxVars
      <4> QED BY <3>2, <4>1, <4>2
    <3> QED BY <1>2, <3>1, <3>3, <3>4 DEF Types, RxTypes
  <2>2. CASE ~ReadData
    <3>1. UNCHANGED <<link, rcv, in, out, m_rawData>>
      BY <2>2 DEF MainStep, FlushBuffer, DisableRx, StartTrigger, BeginPass, Gather, Discard,
                  Accumulate, GetCurCount, EndCycle, StopTrigger, rxVars
    <3> QED BY <1>2, <3>1 DEF Types, RxTypes
  <2> QED BY <2>1, <2>2
<1> QED BY <1>3, <1>4, <1>5, <1>6 DEF Types

(* All steps keep the types. *)
LEMMA TypesStep ==
    ASSUME Types, BookInv, [ReadoutNext]_readoutVars
    PROVE  Types'
<1>1. Threads' = Threads /\ TrigCnt' = TrigCnt /\ option' = option
  BY OptionKept
<1>2. CASE UNCHANGED <<pc, burst, link, rcv, in, out, m_rawData, trigVars, reader>> /\ signaled' \in BOOLEAN
  <2>1. RxTypes' /\ TrigTypes'
    BY <1>1, <1>2 DEF Types, RxTypes, TrigTypes, trigVars
  <2>2. ReaderTypes' /\ MainTypes'
    BY <1>1, <1>2 DEF Types, ReaderTypes, MainTypes
  <2> QED BY <2>1, <2>2 DEF Types
<1>3. signaled \in BOOLEAN
  BY DEF Types, MainTypes
<1>4. CASE UNCHANGED readoutVars
  BY <1>2, <1>3, <1>4 DEF readoutVars, rxVars
<1>5. CASE EnterFrontEnds
  BY <1>2, <1>3, <1>5 DEF EnterFrontEnds, rxVars
<1>6. CASE MonitorStep
  BY <1>2, <1>3, <1>6 DEF MonitorStep, MonitorLoad, MonitorCompare, MonitorStop
<1>7. CASE Interrupt
  BY <1>2, <1>7 DEF Interrupt, rxVars
<1>8. CASE StartReadout
  <2>1. /\ UNCHANGED <<burst, link, rcv, in, out, m_rawData, trigVars, signaled, reader>>
        /\ pc' = "flush"
    BY <1>8 DEF StartReadout
  <2>2. RxTypes' /\ TrigTypes'
    BY <1>1, <2>1 DEF Types, RxTypes, TrigTypes, trigVars
  <2>3. ReaderTypes' /\ MainTypes'
    BY <1>1, <2>1 DEF Types, ReaderTypes, MainTypes
  <2> QED BY <2>2, <2>3 DEF Types
<1>9. CASE MainStep
  BY <1>9, MainTypesKept
<1>10. CASE TriggerStep \/ (TimeUp /\ TriggerRest)
  BY <1>10, TriggerTypes DEF TriggerStep
<1>11. CASE \E t \in Threads : ReceiverStep(t)
  BY <1>11, ReceiverTypes
<1> QED BY <1>4, <1>5, <1>6, <1>7, <1>8, <1>9, <1>10, <1>11 DEF ReadoutNext

----------------------------------------------------------------------------
(* The counters *)

(* What is on its way between counters and queue. *)
ToQueue(t) == IF rcv[t].at = "push" THEN 1 ELSE 0
ToCount(t) == IF pc = "countOut" /\ reader.t = t THEN 1 ELSE 0

Balanced(t) == in[t] = out[t] + Len(m_rawData[t]) + ToQueue(t) + ToCount(t)

CountInv == \A t \in Threads : Balanced(t)

(* Steps that take place at neither end of the queues. *)
LEMMA CountUnchanged ==
    ASSUME CountInv, UNCHANGED <<in, out, m_rawData>>, Threads' = Threads,
           \A t \in Threads : ToQueue(t)' = ToQueue(t) /\ ToCount(t)' = ToCount(t)
    PROVE  CountInv'
BY DEF CountInv, Balanced

(* The receivers count before they queue. *)
LEMMA ReceiverCount ==
    ASSUME Types, CountInv, NEW t \in Threads, ReceiverStep(t)
    PROVE  CountInv'
<1>1. UNCHANGED <<option, pc, reader>> /\ Threads' = Threads
  BY DEF ReceiverStep, Threads
<1>2. \A u \in Threads : ToCount(u)' = ToCount(u)
  BY <1>1 DEF ToCount
<1>3. /\ rcv \in [Threads -> Receivers] /\ in \in [Threads -> Nat] /\ out \in [Threads -> Nat]
      /\ m_rawData \in [Threads -> Seq(Packets)]
  BY DEF Types, RxTypes, Receivers
<1>4. rcv[t] \in Receivers /\ rcv[t].packet \in Packets
  BY <1>3, CallbackTypes
<1>5. /\ ToQueue(t) = 0 <=> rcv[t].at # "push"
      /\ \A u \in Threads : ToQueue(u) \in Nat /\ ToCount(u) \in Nat /\ Len(m_rawData[u]) \in Nat
  BY <1>3 DEF ToQueue, ToCount
<1>6. ASSUME NEW u \in Threads, rcv'[u] = rcv[u] PROVE ToQueue(u)' = ToQueue(u)
  BY <1>6 DEF ToQueue
<1>7. CASE /\ in' = [in EXCEPT ![t] = @ + 1] /\ UNCHANGED <<out, m_rawData>>
           /\ rcv[t].at # "push" /\ rcv' = [rcv EXCEPT ![t].at = "push"]
  <2>1. rcv'[t].at = "push" /\ \A u \in Threads : u # t => rcv'[u] = rcv[u] /\ in'[u] = in[u]
    BY <1>3, <1>4, <1>7 DEF Receivers
  <2>2. ToQueue(t)' = 1 /\ ToQueue(t) = 0 /\ in'[t] = in[t] + 1
    BY <1>3, <1>7, <2>1 DEF ToQueue
  <2>3. ASSUME NEW u \in Threads, u # t PROVE Balanced(u)'
    <3>1. UNCHANGED <<in[u], out[u], m_rawData[u]>> /\ ToQueue(u)' = ToQueue(u)
      BY <1>6, <1>7, <2>1, <2>3
    <3> QED BY <1>2, <3>1 DEF CountInv, Balanced
  <2>4. Balanced(t)'
    <3>1. out'[t] = out[t] /\ ToCount(t)' = ToCount(t) /\ Balanced(t)
      BY <1>2, <1>7 DEF CountInv
    <3>2. in[t] \in Nat /\ out[t] \in Nat
      BY <1>3
    <3> QED BY <1>5, <1>7, <2>1, <2>2, <3>1, <3>2 DEF Balanced
  <2> QED BY <1>1, <2>3, <2>4 DEF CountInv
<1>8. CASE /\ m_rawData' = [m_rawData EXCEPT ![t] = Append(@, rcv[t].packet)]
           /\ rcv[t].at = "push" /\ rcv' = [rcv EXCEPT ![t] = Idle] /\ UNCHANGED <<in, out>>
  <2>1. /\ rcv'[t] = Idle /\ \A u \in Threads : u # t => rcv'[u] = rcv[u]
        /\ Len(m_rawData'[t]) = Len(m_rawData[t]) + 1
        /\ \A u \in Threads : u # t => m_rawData'[u] = m_rawData[u]
    BY <1>3, <1>4, <1>8
  <2>2. ToQueue(t)' = 0 /\ ToQueue(t) = 1
    BY <1>8, <2>1 DEF ToQueue, Idle
  <2>3. ASSUME NEW u \in Threads, u # t PROVE Balanced(u)'
    <3>1. UNCHANGED <<in[u], out[u], m_rawData[u]>> /\ ToQueue(u)' = ToQueue(u)
      BY <1>6, <1>8, <2>1, <2>3
    <3> QED BY <1>2, <3>1 DEF CountInv, Balanced
  <2>4. Balanced(t)'
    <3>1. out'[t] = out[t] /\ ToCount(t)' = ToCount(t) /\ Balanced(t)
      BY <1>2, <1>8 DEF CountInv
    <3>2. in[t] \in Nat /\ out[t] \in Nat
      BY <1>3
    <3> QED BY <1>5, <1>8, <2>1, <2>2, <3>1, <3>2 DEF Balanced
  <2> QED BY <1>1, <2>3, <2>4 DEF CountInv
<1>9. CASE /\ UNCHANGED <<in, out, m_rawData>> /\ rcv[t].at # "push"
           /\ rcv'[t].at # "push" /\ \A u \in Threads : u # t => rcv'[u] = rcv[u]
  <2>1. \A u \in Threads : ToQueue(u)' = ToQueue(u)
    BY <1>9 DEF ToQueue
  <2> QED BY <1>1, <1>2, <1>9, <2>1, CountUnchanged
<1>10. CASE /\ in' = [in EXCEPT ![t] = @ + 1] /\ UNCHANGED out
            /\ m_rawData' = [m_rawData EXCEPT ![t] = Append(@, rcv[t].packet)]
            /\ rcv[t].at # "push" /\ rcv' = [rcv EXCEPT ![t] = Idle]
  <2>1. /\ rcv'[t] = Idle /\ \A u \in Threads : u # t => rcv'[u] = rcv[u]
        /\ Len(m_rawData'[t]) = Len(m_rawData[t]) + 1 /\ in'[t] = in[t] + 1
        /\ \A u \in Threads : u # t => m_rawData'[u] = m_rawData[u] /\ in'[u] = in[u]
    BY <1>3, <1>4, <1>10
  <2>2. ToQueue(t)' = 0 /\ ToQueue(t) = 0
    BY <1>10, <2>1 DEF ToQueue, Idle
  <2>3. ASSUME NEW u \in Threads, u # t PROVE Balanced(u)'
    <3>1. UNCHANGED <<in[u], out[u], m_rawData[u]>> /\ ToQueue(u)' = ToQueue(u)
      BY <1>6, <1>10, <2>1, <2>3
    <3> QED BY <1>2, <3>1 DEF CountInv, Balanced
  <2>4. Balanced(t)'
    <3>1. out'[t] = out[t] /\ ToCount(t)' = ToCount(t) /\ Balanced(t)
      BY <1>2, <1>10 DEF CountInv
    <3>2. in[t] \in Nat /\ out[t] \in Nat
      BY <1>3
    <3> QED BY <1>5, <1>10, <2>1, <2>2, <3>1, <3>2 DEF Balanced
  <2> QED BY <1>1, <2>3, <2>4 DEF CountInv
<1>11. CASE Callback(t)
  BY <1>7, <1>8, <1>11 DEF Callback
<1>12. ASSUME NEW c \in UsedChannels, Receive(c), ThreadOf(c) = t
       PROVE  CountInv'
  <2>1. /\ rcv[t].at = "idle" /\ UNCHANGED <<in, out, m_rawData>>
        /\ rcv' = rcv \/ rcv' = [rcv EXCEPT ![t] = [at |-> "count", packet |-> Head(link[c])]]
    BY <1>12 DEF Receive
  <2>2. rcv'[t].at # "push" /\ \A u \in Threads : u # t => rcv'[u] = rcv[u]
    BY <1>3, <2>1
  <2> QED BY <1>9, <2>1, <2>2
<1>13. ASSUME NEW c \in UsedChannels, ExecuteLoop(c)
       PROVE  CountInv'
  <2>1. Emu /\ t = 1
    BY <1>13, OptionTypes DEF ExecuteLoop, Types, MainTypes
  <2>2. CASE /\ rcv[t].at = "idle" /\ UNCHANGED <<in, out, m_rawData>>
             /\ rcv' = [rcv EXCEPT ![t] = [at |-> "half", packet |-> Head(link[c])]]
    <3>1. rcv'[t].at # "push" /\ \A u \in Threads : u # t => rcv'[u] = rcv[u]
      BY <1>3, <2>2
    <3> QED BY <1>9, <2>2, <3>1
  <2>3. CASE rcv[t].at = "half" /\ rcv' = [rcv EXCEPT ![t] = Idle] /\ UNCHANGED <<in, out, m_rawData>>
    <3>1. rcv'[t].at # "push" /\ \A u \in Threads : u # t => rcv'[u] = rcv[u]
      BY <1>3, <2>3 DEF Idle
    <3> QED BY <1>9, <2>3, <3>1
  <2>4. CASE /\ rcv[t].at = "half" /\ rcv' = [rcv EXCEPT ![t] = Idle] /\ UNCHANGED out
             /\ in' = [in EXCEPT ![t] = @ + 1]
             /\ m_rawData' = [m_rawData EXCEPT ![t] = Append(@, rcv[t].packet)]
    BY <1>10, <2>4
  <2> QED BY <1>13, <2>1, <2>2, <2>3, <2>4 DEF ExecuteLoop
<1> QED BY <1>11, <1>12, <1>13 DEF ReceiverStep

(* The reader takes from the queue before it counts; the emulator's counts  *)
(* all it takes.                                                            *)
LEMMA ReadDataCount ==
    ASSUME Types, CountInv, ReadData, UNCHANGED option
    PROVE  CountInv'
<1>1. PICK t \in Threads : t = reader.t
  BY DEF Types, ReaderTypes
<1>2. Threads' = Threads
  BY DEF Threads
<1>3. /\ in \in [Threads -> Nat] /\ out \in [Threads -> Nat]
      /\ m_rawData \in [Threads -> Seq(Packets)]
  BY DEF Types, RxTypes
<1>4. \A u \in Threads : Len(m_rawData[u]) \in Nat /\ ToQueue(u) \in Nat
  BY <1>3 DEF ToQueue
<1>5. UNCHANGED <<in, rcv>> /\ \A u \in Threads : ToQueue(u)' = ToQueue(u)
  BY DEF ReadData, rxVars, ToQueue
<1>6. DOMAIN reader = {"t", "got", "rdcMap", "reads", "count", "receiving", "cur", "due"}
  BY DEF Types, ReaderTypes
<1>7. CASE /\ pc = "pop" /\ pc' = "process" /\ m_rawData' = [m_rawData EXCEPT ![t] = <<>>]
           /\ out' = [out EXCEPT ![t] = @ + Len(m_rawData[t])]
  <2>1. \A u \in Threads : ToCount(u)' = 0 /\ ToCount(u) = 0
    BY <1>7 DEF ToCount
  <2>2. /\ Len(m_rawData'[t]) = 0 /\ out'[t] = out[t] + Len(m_rawData[t])
        /\ \A u \in Threads : u # t => m_rawData'[u] = m_rawData[u] /\ out'[u] = out[u]
    BY <1>1, <1>3, <1>7
  <2>3. ASSUME NEW u \in Threads, u # t PROVE Balanced(u)'
    BY <1>5, <2>1, <2>2, <2>3 DEF CountInv, Balanced
  <2>4. Balanced(t)'
    BY <1>1, <1>3, <1>4, <1>5, <2>1, <2>2 DEF CountInv, Balanced
  <2> QED BY <1>2, <2>3, <2>4 DEF CountInv
<1>8. CASE /\ pc = "pop" /\ m_rawData[t] # <<>> /\ m_rawData' = [m_rawData EXCEPT ![t] = Tail(@)]
           /\ pc' = "countOut" /\ out' = out
           /\ reader' = [reader EXCEPT !.got = Append(@, Head(m_rawData[t]))]
  <2>1. reader'.t = t
    BY <1>1, <1>6, <1>8
  <2>2. /\ \A u \in Threads : ToCount(u) = 0 /\ (u # t => ToCount(u)' = 0)
        /\ ToCount(t)' = 1
    BY <1>1, <1>8, <2>1 DEF ToCount
  <2>3. /\ Len(m_rawData'[t]) = Len(m_rawData[t]) - 1
        /\ \A u \in Threads : u # t => m_rawData'[u] = m_rawData[u]
    BY <1>1, <1>3, <1>8
  <2>4. ASSUME NEW u \in Threads, u # t PROVE Balanced(u)'
    <3>1. out'[u] = out[u]
      BY <1>8
    <3> QED BY <1>5, <2>2, <2>3, <2>4, <3>1 DEF CountInv, Balanced
  <2>5. Balanced(t)'
    <3>1. out'[t] = out[t] /\ in[t] \in Nat /\ out[t] \in Nat
      BY <1>1, <1>3, <1>8
    <3>2. /\ Balanced(t) /\ in'[t] = in[t] /\ ToQueue(t)' = ToQueue(t)
          /\ ToCount(t) = 0 /\ ToCount(t)' = 1
          /\ ToQueue(t) \in Nat /\ Len(m_rawData[t]) \in Nat
      BY <1>4, <1>5, <2>2 DEF CountInv
    <3>3. Len(m_rawData'[t]) = Len(m_rawData[t]) - 1
      BY <2>3
    <3> QED BY <3>1, <3>2, <3>3 DEF Balanced
  <2> QED BY <1>2, <2>4, <2>5 DEF CountInv
<1>9. CASE pc = "pop" /\ pc' \in {"pop", "process"} /\ UNCHANGED <<m_rawData, out>>
  <2>1. \A u \in Threads : ToCount(u)' = ToCount(u)
    BY <1>9 DEF ToCount
  <2> QED BY <1>5, <1>9, <1>2, <2>1, CountUnchanged
<1>10. CASE /\ pc = "countOut" /\ pc' \in {"pop", "process"} /\ m_rawData' = m_rawData
           /\ out' = [out EXCEPT ![t] = @ + 1]
  <2>1. /\ \A u \in Threads : ToCount(u)' = 0 /\ (u # t => ToCount(u) = 0)
        /\ ToCount(t) = 1
    BY <1>1, <1>10 DEF ToCount
  <2>2. out'[t] = out[t] + 1 /\ \A u \in Threads : u # t => out'[u] = out[u]
    BY <1>1, <1>3, <1>10
  <2>3. ASSUME NEW u \in Threads, u # t PROVE Balanced(u)'
    <3>1. m_rawData'[u] = m_rawData[u]
      BY <1>10
    <3> QED BY <1>5, <2>1, <2>2, <2>3, <3>1 DEF CountInv, Balanced
  <2>4. Balanced(t)'
    <3>1. m_rawData'[t] = m_rawData[t] /\ in[t] \in Nat /\ out[t] \in Nat
      BY <1>1, <1>3, <1>10
    <3> QED BY <1>1, <1>4, <1>5, <2>1, <2>2, <3>1 DEF CountInv, Balanced
  <2> QED BY <1>2, <2>3, <2>4 DEF CountInv
<1>11. \/ /\ pc = "pop" /\ pc' = "process" /\ m_rawData' = [m_rawData EXCEPT ![t] = <<>>]
          /\ out' = [out EXCEPT ![t] = @ + Len(m_rawData[t])]
       \/ /\ pc = "pop" /\ m_rawData[t] # <<>> /\ m_rawData' = [m_rawData EXCEPT ![t] = Tail(@)]
          /\ pc' = "countOut" /\ out' = out
          /\ reader' = [reader EXCEPT !.got = Append(@, Head(m_rawData[t]))]
       \/ pc = "pop" /\ pc' \in {"pop", "process"} /\ UNCHANGED <<m_rawData, out>>
       \/ /\ pc = "countOut" /\ pc' \in {"pop", "process"} /\ m_rawData' = m_rawData
          /\ out' = [out EXCEPT ![t] = @ + 1]
  BY <1>1 DEF ReadData, NextThread, rxVars
<1> QED BY <1>7, <1>8, <1>9, <1>10, <1>11

(* The other steps of the main thread are not between the two. *)
LEMMA MainElsewhere ==
    ASSUME FlushBuffer \/ DisableRx \/ StartTrigger \/ BeginPass \/ Gather \/ Discard
              \/ Accumulate \/ GetCurCount \/ EndCycle \/ StopTrigger
    PROVE  UNCHANGED <<in, out, m_rawData, rcv>> /\ pc # "countOut" /\ pc' # "countOut"
<1>1. UNCHANGED <<in, out, m_rawData, rcv>>
  BY DEF FlushBuffer, DisableRx, StartTrigger, BeginPass, Gather, Discard,
         Accumulate, GetCurCount, EndCycle, StopTrigger, rxVars
<1>2. pc # "countOut"
  BY DEF FlushBuffer, DisableRx, StartTrigger, BeginPass, Gather, Discard,
         Accumulate, GetCurCount, EndCycle, StopTrigger
<1>3. pc' # "countOut"
  BY <1>2 DEF FlushBuffer, DisableRx, StartTrigger, BeginPass, Gather, Discard,
         Accumulate, GetCurCount, EndCycle, StopTrigger
<1> QED BY <1>1, <1>2, <1>3

(* No step of any thread breaks the balance. *)
LEMMA CountStep ==
    ASSUME Types, CountInv, [ReadoutNext]_readoutVars
    PROVE  CountInv'
<1>1. Threads' = Threads /\ option' = option
  BY OptionKept
<1>2. CASE UNCHANGED <<in, out, m_rawData, rcv, pc, reader>>
  <2>1. \A t \in Threads : ToQueue(t)' = ToQueue(t) /\ ToCount(t)' = ToCount(t)
    BY <1>2 DEF ToQueue, ToCount
  <2> QED BY <1>1, <1>2, <2>1, CountUnchanged
<1>3. CASE UNCHANGED <<in, out, m_rawData, rcv>> /\ pc # "countOut" /\ pc' # "countOut"
  <2>1. \A t \in Threads : ToQueue(t)' = ToQueue(t) /\ ToCount(t)' = ToCount(t)
    BY <1>3 DEF ToQueue, ToCount
  <2> QED BY <1>1, <1>3, <2>1, CountUnchanged
<1>4. CASE UNCHANGED readoutVars
  BY <1>2, <1>4 DEF readoutVars, rxVars
<1>5. CASE EnterFrontEnds
  BY <1>2, <1>5 DEF EnterFrontEnds, rxVars
<1>6. CASE MonitorStep
  BY <1>2, <1>6 DEF MonitorStep, MonitorLoad, MonitorCompare, MonitorStop
<1>7. CASE Interrupt
  BY <1>2, <1>7 DEF Interrupt, rxVars
<1>8. CASE StartReadout
  BY <1>3, <1>8 DEF StartReadout
<1>9. CASE MainStep
  BY <1>1, <1>3, <1>9, ReadDataCount, MainElsewhere DEF MainStep
<1>10. CASE TriggerStep \/ (TimeUp /\ TriggerRest)
  BY <1>2, <1>10 DEF TriggerStep, TriggerRest
<1>11. CASE \E t \in Threads : ReceiverStep(t)
  BY <1>11, ReceiverCount
<1> QED BY <1>4, <1>5, <1>6, <1>7, <1>8, <1>9, <1>10, <1>11 DEF ReadoutNext

----------------------------------------------------------------------------
(* Bursts *)

(* The trigger thread, which is alone in sending. *)
LEMMA TriggerBurst ==
    ASSUME Types, BurstInv, TriggerTest \/ Trigger \/ DoTrigger \/ TriggerEnd \/ TimeUp, TriggerRest
    PROVE  BurstInv'
<1>1. UNCHANGED <<option, pc, burst, signaled>> /\ TrigCnt' = TrigCnt
  BY DEF TriggerRest, TrigCnt
<1>2. /\ trig \in [at : {"off", "test", "send", "drain", "end", "joinable"}, trigs : 0..TrigCnt]
      /\ m_trigEnabled \in BOOLEAN /\ TrigCnt \in Nat
  BY OptionTypes DEF Types, TrigTypes, MainTypes
<1>3. trig.at # "off"
  BY DEF TriggerTest, Trigger, DoTrigger, TriggerEnd, TimeUp
<1>4. pc \notin {"setup", "flush", "flushing", "trigger", "done"}
  BY <1>3 DEF BurstInv
<1>5. ASSUME option.trigger = "count", ~signaled, burst > 0
      PROVE  /\ trig'.at \in {"test", "send"} => m_trigEnabled'
             /\ trig'.at \notin {"test", "send"} => trig'.trigs = TrigCnt
  <2>1. /\ trig.at \in {"test", "send"} => m_trigEnabled
        /\ trig.at \notin {"test", "send"} => trig.trigs = TrigCnt
    BY <1>5 DEF BurstInv
  <2>2. CASE TriggerTest
    <3>1. /\ trig.at = "test" /\ m_trigEnabled' = m_trigEnabled /\ trig'.trigs = trig.trigs
          /\ trig'.at = IF m_trigEnabled /\ trig.trigs # TrigCnt THEN "send" ELSE "end"
      BY <1>2, <1>5, <2>2 DEF TriggerTest
    <3> QED BY <2>1, <3>1
  <2>3. CASE Trigger
    <3>1. trig.at = "send" /\ m_trigEnabled' = m_trigEnabled /\ trig'.at = "test"
      BY <1>2, <2>3 DEF Trigger
    <3> QED BY <2>1, <3>1
  <2>4. CASE DoTrigger
    <3>1. /\ m_trigEnabled' = m_trigEnabled /\ trig'.trigs = trig.trigs
          /\ \/ trig.at = "test" /\ trig'.at = IF trig.trigs < TrigCnt THEN "send" ELSE "drain"
             \/ trig.at = "drain" /\ trig'.at = "end"
      BY <1>2, <2>4 DEF DoTrigger
    <3>2. trig.trigs < TrigCnt \/ trig.trigs = TrigCnt
      BY <1>2
    <3> QED BY <2>1, <3>1, <3>2
  <2>5. CASE TriggerEnd
    <3>1. trig.at = "end" /\ trig'.trigs = trig.trigs /\ trig'.at = "joinable"
      BY <1>2, <2>5 DEF TriggerEnd
    <3> QED BY <2>1, <3>1
  <2>6. CASE TimeUp
    BY <1>5, <2>6 DEF TimeUp
  <2> QED BY <2>2, <2>3, <2>4, <2>5, <2>6
<1> QED BY <1>1, <1>4, <1>5 DEF BurstInv

(* The main thread starts a trigger thread, and joins it; an interrupt,     *)
(* and nothing else, makes it take the permission back.                     *)
LEMMA MainBurst ==
    ASSUME Types, BurstInv, MainStep
    PROVE  BurstInv'
<1>1. UNCHANGED option /\ TrigCnt' = TrigCnt
  BY DEF MainStep, TrigCnt
<1>2. /\ trig \in [at : {"off", "test", "send", "drain", "end", "joinable"}, trigs : 0..TrigCnt]
      /\ m_trigEnabled \in BOOLEAN /\ signaled \in BOOLEAN /\ burst \in Nat
  BY DEF Types, TrigTypes, MainTypes
<1>3. CASE StartTrigger
  <2>1. /\ trig' = [at |-> "test", trigs |-> 0] /\ m_trigEnabled' = TRUE /\ pc' = "test"
    BY <1>3 DEF StartTrigger
  <2> QED BY <2>1 DEF BurstInv
<1>4. CASE StopTrigger
  <2>1. /\ trig.at = "joinable" /\ trig'.at = "off" /\ trig'.trigs = trig.trigs
        /\ UNCHANGED <<burst, signaled>> /\ pc' = "flush"
    BY <1>2, <1>4 DEF StopTrigger
  <2>2. (option.trigger = "count" /\ ~signaled /\ burst > 0) => trig.trigs = TrigCnt
    BY <2>1 DEF BurstInv
  <2> QED BY <1>1, <2>1, <2>2 DEF BurstInv
<1>5. CASE FlushBuffer \/ DisableRx
  <2>1. /\ pc \in {"flush", "flushing"} /\ pc' \in {"flushing", "trigger", "done"}
        /\ UNCHANGED <<burst, signaled, trig, m_trigEnabled>>
    BY <1>5 DEF FlushBuffer, DisableRx, trigVars
  <2>2. trig.at = "off"
    BY <2>1 DEF BurstInv
  <2> QED BY <1>1, <2>1, <2>2 DEF BurstInv
<1>6. CASE BeginPass \/ ReadData \/ Gather \/ Discard \/ Accumulate \/ GetCurCount \/ EndCycle
  <2>1. /\ UNCHANGED <<burst, signaled, trig>>
        /\ signaled \/ m_trigEnabled' = m_trigEnabled
    BY <1>2, <1>6 DEF BeginPass, ReadData, Gather, Discard, Accumulate, GetCurCount, EndCycle,
                      Abort, trigVars
  <2>2. pc' \notin {"setup", "flush", "flushing", "trigger", "done"}
    BY <1>6 DEF BeginPass, ReadData, NextThread, Gather, Discard, Accumulate, GetCurCount, EndCycle
  <2> QED BY <1>1, <2>1, <2>2 DEF BurstInv
<1> QED BY <1>3, <1>4, <1>5, <1>6 DEF MainStep

(* Every step keeps the bursts apart. *)
LEMMA BurstStep ==
    ASSUME Types, BurstInv, [ReadoutNext]_readoutVars
    PROVE  BurstInv'
<1>1. option' = option /\ TrigCnt' = TrigCnt
  BY OptionKept
<1>2. CASE UNCHANGED <<pc, burst, signaled, trig, m_trigEnabled>>
  BY <1>1, <1>2 DEF BurstInv
<1>3. CASE UNCHANGED readoutVars \/ EnterFrontEnds \/ MonitorStep \/ \E t \in Threads : ReceiverStep(t)
  <2>1. UNCHANGED <<pc, burst, signaled, trig, m_trigEnabled>>
    BY <1>3 DEF readoutVars, EnterFrontEnds, MonitorStep, ReceiverStep, trigVars
  <2> QED BY <1>2, <2>1
<1>4. CASE Interrupt
  <2>1. signaled' = TRUE /\ UNCHANGED <<pc, burst, trig, m_trigEnabled>>
    BY <1>4 DEF Interrupt, trigVars
  <2> QED BY <1>1, <2>1 DEF BurstInv
<1>5. CASE StartReadout
  <2>1. /\ pc = "setup" /\ pc' = "flush" /\ UNCHANGED <<burst, signaled, trig, m_trigEnabled>>
    BY <1>5 DEF StartReadout, trigVars
  <2> QED BY <1>1, <2>1 DEF BurstInv
<1>6. CASE MainStep
  BY <1>6, MainBurst
<1>7. CASE TriggerStep \/ (TimeUp /\ TriggerRest)
  BY <1>7, TriggerBurst DEF TriggerStep
<1> QED BY <1>3, <1>4, <1>5, <1>6, <1>7 DEF ReadoutNext

----------------------------------------------------------------------------
(* Read cycles *)

Reading == {"pop", "countOut", "process", "getCurCount", "push"}

(* Steps of others: a count may only grow. *)
LEMMA CycleOthers ==
    ASSUME Types, CycleInv, UNCHANGED <<option, pc, reader, out>>,
           in' \in [Threads -> Nat], \A t \in Threads : in'[t] >= in[t]
    PROVE  CycleInv'
<1>1. Threads' = Threads
  BY DEF Threads
<1>2. in \in [Threads -> Nat]
  BY DEF Types, RxTypes
<1>3. ASSUME option.reader = "cycle", pc \in Reading
      PROVE  \A t \in Threads : reader.due[t] <= in'[t]
  <2>1. reader.due \in [Threads -> Nat] /\ \A t \in Threads : reader.due[t] <= in[t]
    BY <1>3 DEF CycleInv, Reading
  <2> QED BY <1>2, <2>1
<1> QED BY <1>1, <1>3 DEF CycleInv, Reading

(* The counters of the receivers never go down. *)
LEMMA CountsGrow ==
    ASSUME Types, NEW t \in Threads, ReceiverStep(t)
    PROVE  /\ in' \in [Threads -> Nat] /\ \A u \in Threads : in'[u] >= in[u]
           /\ out' = out
<1>1. in \in [Threads -> Nat]
  BY DEF Types, RxTypes
<1>2. ASSUME NEW u \in Threads, in' = in \/ in' = [in EXCEPT ![u] = @ + 1]
      PROVE  in' \in [Threads -> Nat] /\ \A w \in Threads : in'[w] >= in[w]
  BY <1>1, <1>2
<1>3. CASE Callback(t)
  BY <1>2, <1>3 DEF Callback
<1>4. ASSUME NEW c \in UsedChannels, Receive(c)
      PROVE  in' = in /\ out' = out
  BY <1>4 DEF Receive
<1>5. ASSUME NEW c \in UsedChannels, ExecuteLoop(c)
      PROVE  1 \in Threads /\ (in' = in \/ in' = [in EXCEPT ![1] = @ + 1]) /\ out' = out
  BY <1>5, OptionTypes DEF ExecuteLoop, Types, MainTypes
<1> QED BY <1>2, <1>3, <1>4, <1>5 DEF ReceiverStep

(* getCurCount() of the threads, one after the other *)
LEMMA GetCurCountCycle ==
    ASSUME Types, CountInv, CycleInv, GetCurCount, UNCHANGED option
    PROVE  CycleInv'
<1>1. /\ pc = "getCurCount" /\ UNCHANGED <<in, out>> /\ Threads' = Threads
  BY DEF GetCurCount, rxVars, Threads
<1>2. /\ option.reader = "cycle" /\ reader.cur \in Nat /\ reader.due \in [Threads -> Nat]
      /\ \A t \in Threads : reader.due[t] <= in[t]
      /\ reader.cur = 0 => \A t \in Threads : t < reader.t => reader.due[t] <= out[t]
  BY <1>1 DEF CycleInv
<1>3. /\ in \in [Threads -> Nat] /\ out \in [Threads -> Nat] /\ reader.t \in Threads
      /\ m_rawData \in [Threads -> Seq(Packets)]
      /\ Threads = 1..option.nThreads /\ option.nThreads \in Nat
  BY OptionTypes DEF Types, RxTypes, ReaderTypes, MainTypes
<1> DEFINE left == CurCount(reader.t)
<1>4. left \in Nat /\ left = in[reader.t] - out[reader.t]
  <2>1. /\ Len(m_rawData[reader.t]) \in Nat /\ ToQueue(reader.t) \in Nat /\ ToCount(reader.t) \in Nat
        /\ in[reader.t] \in Nat /\ out[reader.t] \in Nat
    BY <1>3 DEF ToQueue, ToCount
  <2>2. in[reader.t] = out[reader.t] + Len(m_rawData[reader.t]) + ToQueue(reader.t) + ToCount(reader.t)
    BY <1>3 DEF CountInv, Balanced
  <2> QED BY <2>1, <2>2 DEF CurCount
<1>5. DOMAIN reader = {"t", "got", "rdcMap", "reads", "count", "receiving", "cur", "due"}
  BY DEF Types, ReaderTypes
<1>6. /\ reader'.due = reader.due /\ reader'.cur = reader.cur + left
      /\ \/ pc' = "getCurCount" /\ reader'.t = reader.t + 1
         \/ reader.t >= option.nThreads /\ pc' = IF reader'.cur = 0 THEN "push" ELSE "test"
  <2>1. CASE reader.t < option.nThreads
    <3>1. /\ reader' = [reader EXCEPT !.cur = reader.cur + left, !.t = @ + 1]
          /\ pc' = "getCurCount"
      BY <1>1, <2>1 DEF GetCurCount
    <3> QED BY <1>5, <3>1
  <2>2. CASE ~(reader.t < option.nThreads)
    <3>1. /\ reader' = [reader EXCEPT !.cur = reader.cur + left]
          /\ pc' = IF reader.cur + left = 0 THEN "push" ELSE "test"
      BY <2>2 DEF GetCurCount
    <3>2. reader.t >= option.nThreads
      BY <1>3, <2>2
    <3> QED BY <1>5, <3>1, <3>2
  <2> QED BY <2>1, <2>2
<1> HIDE DEF left
<1>7. ASSUME reader'.cur = 0
      PROVE  \A t \in Threads : t <= reader.t => reader.due[t] <= out[t]
  <2>1. reader.cur = 0 /\ left = 0
    BY <1>2, <1>4, <1>6, <1>7
  <2>2. in[reader.t] = out[reader.t]
    BY <1>3, <1>4, <2>1
  <2>3. reader.due[reader.t] <= out[reader.t]
    BY <1>2, <1>3, <2>2
  <2>4. \A t \in Threads : t < reader.t => reader.due[t] <= out[t]
    BY <1>2, <2>1
  <2>5. \A t \in Threads : t <= reader.t => t < reader.t \/ t = reader.t
    BY <1>3
  <2> QED BY <2>3, <2>4, <2>5
<1>8. reader'.cur \in Nat
  BY <1>2, <1>4, <1>6
<1>9. CASE pc' = "getCurCount" /\ reader'.t = reader.t + 1
  <2>1. \A t \in Threads : t < reader'.t => t <= reader.t
    BY <1>3, <1>9
  <2>2. reader'.cur = 0 => \A t \in Threads : t < reader'.t => reader'.due[t] <= out'[t]
    BY <1>1, <1>6, <1>7, <2>1
  <2>3. /\ reader'.due \in [Threads' -> Nat] /\ option'.reader = "cycle"
        /\ \A t \in Threads' : reader'.due[t] <= in'[t]
    BY <1>1, <1>2, <1>6
  <2> QED BY <1>1, <1>8, <1>9, <2>2, <2>3 DEF CycleInv
<1>10. CASE reader.t >= option.nThreads /\ pc' = "push" /\ reader'.cur = 0
  <2>1. \A t \in Threads : t <= reader.t
    BY <1>3, <1>10
  <2>2. \A t \in Threads' : reader'.due[t] <= out'[t]
    BY <1>1, <1>6, <1>7, <1>10, <2>1
  <2>3. /\ reader'.due \in [Threads' -> Nat] /\ option'.reader = "cycle"
        /\ \A t \in Threads' : reader'.due[t] <= in'[t]
    BY <1>1, <1>2, <1>6
  <2> QED BY <1>8, <1>10, <2>2, <2>3 DEF CycleInv
<1>11. CASE pc' = "test"
  BY <1>11 DEF CycleInv
<1> QED BY <1>6, <1>9, <1>10, <1>11

(* The other steps of the main thread. *)
LEMMA MainCycle ==
    ASSUME Types, CountInv, CycleInv, MainStep
    PROVE  CycleInv'
<1>1. option' = option /\ Threads' = Threads
  BY DEF MainStep, Threads
<1>2. DOMAIN reader = {"t", "got", "rdcMap", "reads", "count", "receiving", "cur", "due"}
  BY DEF Types, ReaderTypes
<1>3. /\ in \in [Threads -> Nat] /\ Threads = 1..option.nThreads /\ option.nThreads \in Nat
  BY OptionTypes DEF Types, RxTypes, MainTypes
<1>4. CASE GetCurCount
  BY <1>1, <1>4, GetCurCountCycle
<1>5. CASE pc' \notin Reading
  BY <1>5 DEF CycleInv, Reading
<1>6. CASE FlushBuffer \/ DisableRx \/ StartTrigger \/ EndCycle \/ StopTrigger \/ Gather \/ Discard
  <2>1. pc' \notin Reading
    BY <1>6 DEF FlushBuffer, DisableRx, StartTrigger, EndCycle, StopTrigger, Gather, Discard, Reading
  <2> QED BY <1>5, <2>1
<1>7. CASE BeginPass
  <2>1. /\ pc' = "pop" /\ in' = in /\ reader'.cur = 0
        /\ option.reader = "cycle" => reader'.due = in
    BY <1>2, <1>7 DEF BeginPass, rxVars
  <2> QED BY <1>1, <1>3, <2>1 DEF CycleInv
<1>8. CASE ReadData
  <2>1. /\ pc \in {"pop", "countOut"} /\ pc' \in {"pop", "countOut", "process"} /\ in' = in
        /\ reader'.cur = reader.cur /\ reader'.due = reader.due
    BY <1>2, <1>8 DEF ReadData, NextThread, rxVars
  <2> QED BY <1>1, <2>1 DEF CycleInv
<1>9. CASE Accumulate
  <2>1. /\ pc = "process" /\ pc' \in {"test", "getCurCount"} /\ in' = in /\ reader'.t = 1
        /\ reader'.cur = reader.cur /\ reader'.due = reader.due /\ option.reader = "cycle"
    BY <1>2, <1>9 DEF Accumulate, rxVars
  <2>2. \A t \in Threads : ~(t < 1)
    BY <1>3
  <2> QED BY <1>1, <2>1, <2>2 DEF CycleInv
<1> QED BY <1>4, <1>6, <1>7, <1>8, <1>9 DEF MainStep

(* Every step. *)
LEMMA CycleStep ==
    ASSUME Types, CountInv, CycleInv, [ReadoutNext]_readoutVars
    PROVE  CycleInv'
<1>1. option' = option
  BY OptionKept
<1>2. in \in [Threads -> Nat] /\ \A t \in Threads : in[t] >= in[t]
  BY DEF Types, RxTypes
<1>3. CASE UNCHANGED <<pc, reader, in, out>>
  BY <1>1, <1>2, <1>3, CycleOthers
<1>4. CASE UNCHANGED readoutVars \/ EnterFrontEnds \/ Interrupt
  <2>1. UNCHANGED <<pc, reader, in, out>>
    BY <1>4 DEF readoutVars, EnterFrontEnds, Interrupt, rxVars
  <2> QED BY <1>3, <2>1
<1>5. CASE MonitorStep \/ TriggerStep \/ (TimeUp /\ TriggerRest)
  <2>1. UNCHANGED <<pc, reader, in, out>>
    BY <1>5 DEF MonitorStep, MonitorLoad, MonitorCompare, MonitorStop, TriggerStep, TriggerRest
  <2> QED BY <1>3, <2>1
<1>6. CASE StartReadout
  <2>1. pc' = "flush"
    BY <1>6 DEF StartReadout
  <2> QED BY <2>1 DEF CycleInv
<1>7. CASE MainStep
  BY <1>7, MainCycle
<1>8. ASSUME NEW t \in Threads, ReceiverStep(t)
      PROVE  CycleInv'
  <2>1. UNCHANGED <<pc, reader>>
    BY <1>8 DEF ReceiverStep
  <2> QED BY <1>1, <1>8, <2>1, CountsGrow, CycleOthers
<1> QED BY <1>4, <1>5, <1>6, <1>7, <1>8 DEF ReadoutNext

----------------------------------------------------------------------------
(* The emulator *)

(* An emulated scan has one channel at most. *)
LEMMA OneChannel ==
    ASSUME BookInv, option \in Options, Emu, bookEntries = option.entries
    PROVE  \A c, d \in UsedChannels : c = d
<1> DEFINE n == Len(bookEntries)
           f == [i \in 1..n |-> bookEntries[i].rxChannel]
<1>1. DOMAIN bookEntries = 1..n /\ n \in Nat
  BY DEF BookInv, TablesInv
<1>2. IsFiniteSet(1..n)
  BY <1>1, FS_Interval
<1>3. UsedChannels = {bookEntries[i].rxChannel : i \in 1..n}
  BY <1>1 DEF UsedChannels
<1>4. f \in Surjection(1..n, UsedChannels)
  BY <1>3 DEF Surjection
<1> HIDE DEF f, n
<1>5. IsFiniteSet(UsedChannels)
  BY <1>2, <1>4, FS_Surjection
<1>6. Cardinality(UsedChannels) <= 1
  BY ReadoutAssumption DEF Emu, UsedChannels
<1>7. ASSUME NEW c \in UsedChannels, NEW d \in UsedChannels, c # d
      PROVE  FALSE
  <2>1. IsFiniteSet({c}) /\ Cardinality({c}) = 1
    BY FS_Singleton
  <2>a. d \notin {c}
    BY <1>7
  <2>b. Cardinality({c} \cup {d}) = Cardinality({c}) + 1
    BY <2>1, <2>a, FS_AddElement, Zenon
  <2>2. Cardinality({c} \cup {d}) = 2
    BY <2>1, <2>b
  <2>3. Cardinality({c} \cup {d}) <= Cardinality(UsedChannels)
    BY <1>5, FS_Subset
  <2>4. Cardinality(UsedChannels) \in Nat
    BY <1>5, FS_CardinalityType
  <2> QED BY <1>6, <2>2, <2>3, <2>4
<1> QED BY <1>7

(* The trigger thread writes the padding last, and waits. *)
LEMMA TriggerEmu ==
    ASSUME Types, BookInv, BurstInv, EmuInv, Emu, TriggerRest,
           TriggerTest \/ Trigger \/ DoTrigger \/ TriggerEnd \/ TimeUp
    PROVE  EmuInv'
<1>1. /\ UNCHANGED <<option, pc, rcv>> /\ UsedChannels' = UsedChannels /\ Emu'
      /\ option.trigger = "count" /\ ~Felix
  BY OptionTypes DEF TriggerRest, UsedChannels, vars, Emu, Types, MainTypes
<1>2. trig.at # "off" /\ pc # "setup"
  BY DEF TriggerTest, Trigger, DoTrigger, TriggerEnd, TimeUp, BurstInv
<1>3. /\ trig \in [at : {"off", "test", "send", "drain", "end", "joinable"}, trigs : 0..TrigCnt]
      /\ link \in [Channels -> Seq(Packets)] /\ UsedChannels \subseteq Channels
  BY UsedAreChannels DEF Types, TrigTypes, RxTypes
<1>4. /\ pc # "countOut" /\ rcv[1].at \in {"idle", "half"}
      /\ \A c, d \in UsedChannels : c = d
      /\ ~m_trigEnabled => trig.at \in {"joinable", "off"}
      /\ trig.at \in {"end", "joinable", "off"} => LinksRead
      /\ trig.at = "drain" => PaddingLast
  BY <1>2 DEF EmuInv
<1> SUFFICES /\ ~m_trigEnabled' => trig'.at \in {"joinable", "off"}
             /\ trig'.at \in {"end", "joinable", "off"} => LinksRead'
             /\ trig'.at = "drain" => PaddingLast'
  BY <1>1, <1>2, <1>4 DEF EmuInv
<1>5. CASE TriggerTest \/ TimeUp
  BY <1>1, <1>5 DEF TriggerTest, TimeUp
<1>6. CASE Trigger
  <2>1. trig.at = "send" /\ trig'.at = "test" /\ m_trigEnabled' = m_trigEnabled
    BY <1>3, <1>6 DEF Trigger
  <2> QED BY <1>4, <2>1
<1>7. CASE DoTrigger /\ trig.at = "test"
  <2>1. /\ trig'.at \in {"send", "drain"} /\ m_trigEnabled' = m_trigEnabled
        /\ link' = [c \in Channels |-> IF c \in UsedChannels /\ trig'.at = "drain"
                                       THEN Append(link[c], Padding(c)) ELSE link[c]]
    BY <1>3, <1>7 DEF DoTrigger
  <2>2. ASSUME trig'.at = "drain", NEW c \in UsedChannels
        PROVE  link'[c] # <<>> /\ link'[c][Len(link'[c])] = Padding(c)
    <3>1. link'[c] = Append(link[c], Padding(c)) /\ link[c] \in Seq(Packets)
      BY <1>3, <2>1, <2>2
    <3>2. Padding(c) \in Packets
      BY <1>3, ReadoutAssumption DEF Padding, Packets
    <3> QED BY <3>1, <3>2
  <2>3. trig'.at = "drain" => PaddingLast'
    BY <1>1, <2>2 DEF PaddingLast
  <2> QED BY <1>4, <1>7, <2>1, <2>3
<1>8. CASE DoTrigger /\ trig.at = "drain"
  <2>1. /\ trig'.at = "end" /\ m_trigEnabled' = m_trigEnabled /\ link' = link
        /\ \A c \in UsedChannels : link[c] = <<>>
    BY <1>3, <1>8 DEF DoTrigger
  <2>2. PaddingLast
    BY <1>4, <1>8
  <2>3. LinksRead'
    BY <1>1, <2>1, <2>2 DEF PaddingLast, LinksRead, Padding
  <2> QED BY <1>4, <1>8, <2>1, <2>3
<1>9. CASE TriggerEnd
  <2>1. trig.at = "end" /\ trig'.at = "joinable" /\ link' = link
    BY <1>3, <1>9 DEF TriggerEnd
  <2>2. LinksRead'
    BY <1>1, <1>4, <2>1 DEF LinksRead, Padding
  <2> QED BY <2>1, <2>2
<1>10. DoTrigger => trig.at \in {"test", "drain"}
  BY DEF DoTrigger
<1> QED BY <1>5, <1>6, <1>7, <1>8, <1>9, <1>10

(* The emulator reads the words in order, so that the last one it reads is  *)
(* the padding.                                                             *)
LEMMA ReceiverEmu ==
    ASSUME Types, BookInv, EmuInv, Emu, NEW t \in Threads, ReceiverStep(t)
    PROVE  /\ EmuInv'
           /\ pc # "setup" /\ trig.at \notin {"end", "joinable", "off"}
<1>1. /\ UNCHANGED <<option, pc, trig, m_trigEnabled>> /\ UsedChannels' = UsedChannels /\ Emu'
      /\ ~Felix /\ t = 1
  BY OptionTypes DEF ReceiverStep, UsedChannels, vars, trigVars, Emu, Types, MainTypes
<1>2. /\ rcv \in [Threads -> Receivers] /\ link \in [Channels -> Seq(Packets)]
      /\ UsedChannels \subseteq Channels
  BY UsedAreChannels DEF Types, RxTypes, Receivers
<1>3. /\ pc # "countOut" /\ rcv[1].at \in {"idle", "half"}
      /\ pc = "setup" => \A c \in Channels : link[c] = <<>>
      /\ pc # "setup" => \A c, d \in UsedChannels : c = d
      /\ ~m_trigEnabled => trig.at \in {"joinable", "off"}
      /\ trig.at \in {"end", "joinable", "off"} => LinksRead
      /\ trig.at = "drain" => PaddingLast
  BY DEF EmuInv
<1>4. PICK c \in UsedChannels : ExecuteLoop(c)
  BY <1>1, <1>3 DEF ReceiverStep, Callback, Receive
<1>5. link[c] # <<>> /\ c \in Channels
  BY <1>2, <1>4 DEF ExecuteLoop
<1>6. pc # "setup" /\ trig.at \notin {"end", "joinable", "off"}
  BY <1>3, <1>5 DEF LinksRead
<1>7. \/ /\ rcv' = [rcv EXCEPT ![1] = [at |-> "half", packet |-> Head(link[c])]]
         /\ link' = [link EXCEPT ![c] = Tail(@)]
      \/ rcv' = [rcv EXCEPT ![1] = Idle] /\ link' = link
  BY <1>4 DEF ExecuteLoop
<1>8. rcv'[1].at \in {"idle", "half"}
  BY <1>1, <1>2, <1>7 DEF Idle
<1>9. ASSUME trig.at = "drain" PROVE PaddingLast'
  <2>1. link[c][Len(link[c])] = Padding(c)
    BY <1>3, <1>5, <1>9 DEF PaddingLast
  <2>2. CASE rcv' = [rcv EXCEPT ![1] = Idle] /\ link' = link
    <3>1. \A d \in UsedChannels : d = c
      BY <1>3, <1>6
    <3>2. link'[c] # <<>> /\ link'[c][Len(link'[c])] = Padding(c)
      BY <1>5, <2>1, <2>2
    <3> QED BY <1>1, <3>1, <3>2 DEF PaddingLast
  <2>3. CASE /\ rcv' = [rcv EXCEPT ![1] = [at |-> "half", packet |-> Head(link[c])]]
             /\ link' = [link EXCEPT ![c] = Tail(@)]
    <3>1. \A d \in UsedChannels : d = c
      BY <1>3, <1>6
    <3>2. link'[c] = Tail(link[c]) /\ link[c] \in Seq(Packets) /\ rcv'[1].packet = Head(link[c])
      BY <1>1, <1>2, <1>5, <2>3
    <3>3. CASE Tail(link[c]) = <<>>
      <4>1. Len(link[c]) = 1
        <5>1. Len(Tail(link[c])) = Len(link[c]) - 1 /\ Len(link[c]) \in Nat
          BY <1>5, <3>2, HeadTailProperties
        <5>2. Len(Tail(link[c])) = 0
          <6>1. Len(<<>>) = 0
            OBVIOUS
          <6> QED BY <3>3, <6>1
        <5> QED BY <5>1, <5>2
      <4>2. Head(link[c]) = Padding(c)
        BY <2>1, <3>2, <4>1
      <4> QED BY <1>1, <3>1, <3>2, <3>3, <4>2 DEF PaddingLast
    <3>4. CASE Tail(link[c]) # <<>>
      <4>1. Tail(link[c])[Len(Tail(link[c]))] = link[c][Len(link[c])]
        BY <1>5, <3>2, <3>4
      <4> QED BY <1>1, <2>1, <3>1, <3>2, <3>4, <4>1 DEF PaddingLast
    <3> QED BY <3>3, <3>4
  <2> QED BY <1>7, <2>2, <2>3
<1> QED BY <1>1, <1>3, <1>6, <1>8, <1>9 DEF EmuInv

(* The main thread only lets the triggers begin, and joins the thread. *)
LEMMA MainEmu ==
    ASSUME Types, EmuInv, Emu, MainStep
    PROVE  EmuInv'
<1>1. /\ UNCHANGED option /\ UsedChannels' = UsedChannels /\ Emu' /\ ~Felix
  BY OptionTypes DEF MainStep, UsedChannels, vars, Emu, Types, MainTypes
<1>2. UNCHANGED <<link, rcv>>
  BY DEF MainStep, FlushBuffer, DisableRx, StartTrigger, BeginPass, ReadData, Gather, Discard,
         Accumulate, GetCurCount, EndCycle, StopTrigger, rxVars
<1>3. pc # "setup" /\ pc # "countOut"
  BY DEF MainStep, FlushBuffer, DisableRx, StartTrigger, BeginPass, ReadData, Gather, Discard,
         Accumulate, GetCurCount, EndCycle, StopTrigger, EmuInv
<1>4. pc' # "setup" /\ pc' # "countOut"
  <2>1. CASE ReadData
    BY <1>1, <1>3, <2>1 DEF ReadData
  <2>2. CASE ~ReadData
    BY <1>3, <2>2 DEF MainStep, FlushBuffer, DisableRx, StartTrigger, BeginPass, Gather,
         Discard, Accumulate, GetCurCount, EndCycle, StopTrigger
  <2> QED BY <2>1, <2>2
<1>5. LinksRead' = LinksRead /\ PaddingLast' = PaddingLast
  BY <1>1, <1>2 DEF LinksRead, PaddingLast, Padding, NoPacket
<1>6. /\ rcv[1].at \in {"idle", "half"}
      /\ \A c, d \in UsedChannels : c = d
      /\ ~m_trigEnabled => trig.at \in {"joinable", "off"}
      /\ trig.at \in {"end", "joinable", "off"} => LinksRead
      /\ trig.at = "drain" => PaddingLast
  BY <1>3 DEF EmuInv
<1> SUFFICES /\ ~m_trigEnabled' => trig'.at \in {"joinable", "off"}
             /\ trig'.at \in {"end", "joinable", "off"} => LinksRead
             /\ trig'.at = "drain" => PaddingLast
  BY <1>1, <1>2, <1>4, <1>5, <1>6 DEF EmuInv
<1>7. CASE StartTrigger
  <2>1. trig' = [at |-> "test", trigs |-> 0] /\ m_trigEnabled' = TRUE
    BY <1>7 DEF StartTrigger
  <2> QED BY <2>1
<1>8. CASE StopTrigger
  <2>1. trig \in [at : {"off", "test", "send", "drain", "end", "joinable"}, trigs : 0..TrigCnt]
    BY DEF Types, TrigTypes
  <2>2. trig.at = "joinable" /\ trig'.at = "off"
    BY <1>8, <2>1 DEF StopTrigger
  <2> QED BY <1>6, <2>2
<1>9. CASE ~StartTrigger /\ ~StopTrigger
  <2>1. m_trigEnabled \in BOOLEAN
    BY DEF Types, TrigTypes
  <2>2. trig' = trig /\ m_trigEnabled' = m_trigEnabled
    BY <1>1, <1>9, <2>1 DEF MainStep, FlushBuffer, DisableRx, BeginPass, ReadData, Gather, Discard,
         Accumulate, GetCurCount, EndCycle, Abort, trigVars
  <2> QED BY <1>6, <2>2
<1> QED BY <1>7, <1>8, <1>9

(* Every step. *)
LEMMA EmuStep ==
    ASSUME Types, BookInv, BookInv', BurstInv, EmuInv, [ReadoutNext]_readoutVars
    PROVE  EmuInv'
<1>1. option' = option /\ (Emu' <=> Emu)
  BY OptionKept DEF Emu
<1> SUFFICES ASSUME Emu PROVE EmuInv'
  BY <1>1 DEF EmuInv
<1>2. CASE UNCHANGED <<bookEntries, pc, rcv, link, trig, m_trigEnabled>>
  <2>1. UsedChannels' = UsedChannels
    BY <1>2 DEF UsedChannels
  <2>2. LinksRead' = LinksRead /\ PaddingLast' = PaddingLast
    BY <1>2, <2>1 DEF LinksRead, PaddingLast, Padding, NoPacket
  <2> QED BY <1>1, <1>2, <2>1, <2>2 DEF EmuInv, Idle, NoPacket
<1>3. CASE UNCHANGED readoutVars \/ Interrupt
  BY <1>2, <1>3 DEF readoutVars, Interrupt, vars, rxVars, trigVars
<1>4. CASE MonitorStep
  BY <1>2, <1>4 DEF MonitorStep, MonitorLoad, MonitorCompare, MonitorStop, vars, trigVars
<1>5. CASE EnterFrontEnds
  <2>1. pc = "setup" /\ UNCHANGED <<pc, rcv, link, trig, m_trigEnabled>>
    BY <1>5 DEF EnterFrontEnds, rxVars, trigVars
  <2>2. /\ trig.at = "off" /\ rcv[1] = Idle /\ rcv[1].at \in {"idle", "half"}
        /\ \A c \in Channels : link[c] = <<>>
    BY <2>1 DEF BurstInv, EmuInv
  <2>3. UsedChannels' \subseteq Channels
    <3>1. (UsedChannels \subseteq Channels)'
      BY UsedAreChannels, PTL
    <3> QED BY <3>1
  <2>4. LinksRead'
    BY <2>1, <2>2, <2>3 DEF LinksRead, Idle
  <2> QED BY <2>1, <2>2, <2>4 DEF EmuInv
<1>6. CASE StartReadout
  <2>1. /\ pc = "setup" /\ pc' = "flush" /\ UNCHANGED <<bookEntries, rcv, link, trig, m_trigEnabled>>
        /\ bookEntries = option.entries
    BY <1>6 DEF StartReadout, vars, trigVars
  <2>2. UsedChannels' = UsedChannels
    BY <2>1 DEF UsedChannels
  <2>3. trig.at = "off" /\ LinksRead /\ rcv[1].at \in {"idle", "half"}
    BY <2>1 DEF BurstInv, EmuInv
  <2>4. LinksRead'
    BY <2>1, <2>2, <2>3 DEF LinksRead, Padding, NoPacket
  <2>5. \A c, d \in UsedChannels : c = d
    BY <2>1, OneChannel DEF Types, MainTypes
  <2> QED BY <2>1, <2>2, <2>3, <2>4, <2>5 DEF EmuInv
<1>7. CASE MainStep
  BY <1>7, MainEmu
<1>8. CASE TriggerStep \/ (TimeUp /\ TriggerRest)
  BY <1>8, TriggerEmu DEF TriggerStep
<1>9. CASE \E t \in Threads : ReceiverStep(t)
  BY <1>9, ReceiverEmu
<1> QED BY <1>3, <1>4, <1>5, <1>6, <1>7, <1>8, <1>9 DEF ReadoutNext

----------------------------------------------------------------------------
(* The gatherer of the emulator *)

(* The main thread keeps what the gatherer's completeness rests on. *)
LEMMA MainGather ==
    ASSUME Types, CycleInv, EmuInv, GatherInv, Emu, option.reader = "gather", MainStep
    PROVE  GatherInv'
<1>1. UNCHANGED option /\ Emu' /\ ~Felix /\ option'.reader = "gather" /\ Threads = {1}
  BY OptionTypes DEF MainStep, Emu, Types, MainTypes
<1>2. DOMAIN reader = {"t", "got", "rdcMap", "reads", "count", "receiving", "cur", "due"}
  BY DEF Types, ReaderTypes
<1>3. /\ LastPass \/ pc \in {"wait", "flush", "flushing", "trigger", "done"} =>
             trig.at \in {"joinable", "off"}
      /\ \/ LastPass /\ pc = "process"
         \/ pc \in {"setup", "wait", "flush", "flushing", "trigger", "done"}
         => m_rawData[1] = <<>>
  BY DEF GatherInv
<1>4. CASE FlushBuffer \/ DisableRx
  <2>1. /\ pc \in {"flush", "flushing"} /\ pc' \in {"flushing", "trigger", "done"}
        /\ UNCHANGED <<trig, m_rawData>>
    BY <1>4 DEF FlushBuffer, DisableRx, trigVars
  <2> QED BY <1>1, <1>3, <2>1 DEF GatherInv
<1>5. CASE StartTrigger
  <2>1. pc' = "test"
    BY <1>5 DEF StartTrigger
  <2> QED BY <2>1 DEF GatherInv, LastPass
<1>6. CASE BeginPass
  <2>1. pc' = "pop" /\ trig' = trig /\ reader'.receiving = ~IsTrigDone
    <3>1. /\ pc' = "pop" /\ trig' = trig
          /\ reader' = [reader EXCEPT !.receiving = IF option.reader = "gather" THEN ~IsTrigDone ELSE @,
                                      !.t = 1, !.cur = 0, !.due = IF option.reader = "cycle" THEN in ELSE @]
      BY <1>6 DEF BeginPass, trigVars
    <3> QED BY <1>2, <3>1
  <2>2. IsTrigDone => trig.at \in {"joinable", "off"}
    BY DEF IsTrigDone, TrigDone, EmuInv
  <2> QED BY <2>1, <2>2 DEF GatherInv, LastPass
<1>7. CASE ReadData
  <2>1. pc # "countOut"
    BY DEF EmuInv
  <2>2. /\ pc = "pop" /\ pc' = "process" /\ trig' = trig
        /\ reader' = [reader EXCEPT !.got = m_rawData[reader.t]]
        /\ m_rawData' = [m_rawData EXCEPT ![reader.t] = <<>>]
    BY <1>1, <1>7, <2>1 DEF ReadData, trigVars
  <2>3. reader'.receiving = reader.receiving
    BY <1>2, <2>2
  <2>4. reader.t = 1 /\ m_rawData \in [Threads -> Seq(Packets)]
    BY <1>1 DEF Types, ReaderTypes, RxTypes
  <2>5. m_rawData'[1] = <<>>
    BY <1>1, <2>2, <2>4
  <2> QED BY <1>3, <2>2, <2>3, <2>5 DEF GatherInv, LastPass
<1>8. CASE Gather
  <2>1. /\ pc = "process" /\ UNCHANGED <<trig, m_rawData>>
        /\ pc' = IF reader.receiving THEN "test" ELSE "wait"
    BY <1>8 DEF Gather, Abort, rxVars
  <2>2. CASE reader.receiving
    BY <2>1, <2>2 DEF GatherInv, LastPass
  <2>3. CASE ~reader.receiving
    BY <1>3, <2>1, <2>3 DEF GatherInv, LastPass
  <2> QED BY <2>2, <2>3
<1>9. CASE StopTrigger
  <2>1. trig \in [at : {"off", "test", "send", "drain", "end", "joinable"}, trigs : 0..TrigCnt]
    BY DEF Types, TrigTypes
  <2>2. pc = "wait" /\ pc' = "flush" /\ trig'.at = "off" /\ m_rawData' = m_rawData
    BY <1>9, <2>1 DEF StopTrigger, rxVars
  <2> QED BY <1>3, <2>2 DEF GatherInv, LastPass
<1>10. CASE Discard \/ Accumulate \/ GetCurCount \/ EndCycle
  BY <1>10 DEF Discard, Accumulate, GetCurCount, EndCycle, CycleInv
<1> QED BY <1>4, <1>5, <1>6, <1>7, <1>8, <1>9, <1>10 DEF MainStep

(* Every step. *)
LEMMA GatherStep ==
    ASSUME Types, BookInv, BurstInv, CycleInv, EmuInv, GatherInv, [ReadoutNext]_readoutVars
    PROVE  GatherInv'
<1>1. option' = option /\ (Emu' <=> Emu)
  BY OptionKept DEF Emu
<1> SUFFICES ASSUME Emu, option.reader = "gather" PROVE GatherInv'
  BY <1>1 DEF GatherInv
<1>2. /\ LastPass \/ pc \in {"wait", "flush", "flushing", "trigger", "done"} =>
             trig.at \in {"joinable", "off"}
      /\ \/ LastPass /\ pc = "process"
         \/ pc \in {"setup", "wait", "flush", "flushing", "trigger", "done"}
         => m_rawData[1] = <<>>
  BY DEF GatherInv
<1>3. CASE UNCHANGED <<pc, reader, trig, m_rawData>>
  BY <1>1, <1>2, <1>3 DEF GatherInv, LastPass
<1>4. CASE UNCHANGED readoutVars \/ Interrupt \/ EnterFrontEnds
  BY <1>3, <1>4 DEF readoutVars, Interrupt, EnterFrontEnds, rxVars, trigVars
<1>5. CASE MonitorStep
  BY <1>3, <1>5 DEF MonitorStep, MonitorLoad, MonitorCompare, MonitorStop, trigVars
<1>6. CASE StartReadout
  <2>1. pc = "setup" /\ pc' = "flush" /\ UNCHANGED <<trig, m_rawData>>
    BY <1>6 DEF StartReadout, trigVars
  <2>2. trig.at = "off"
    BY <2>1 DEF BurstInv
  <2> QED BY <1>2, <2>1, <2>2 DEF GatherInv, LastPass
<1>7. CASE MainStep
  BY <1>7, MainGather
<1>8. CASE (TriggerTest \/ Trigger \/ DoTrigger \/ TriggerEnd \/ TimeUp) /\ TriggerRest
  <2>1. trig.at \notin {"joinable", "off"}
    BY <1>8 DEF TriggerTest, Trigger, DoTrigger, TriggerEnd, TimeUp
  <2>2. UNCHANGED <<pc, reader, m_rawData>>
    BY <1>8 DEF TriggerRest
  <2>3. LastPass' = LastPass
    BY <2>2 DEF LastPass
  <2> QED BY <1>2, <2>1, <2>2, <2>3 DEF GatherInv
<1>9. ASSUME NEW t \in Threads, ReceiverStep(t)
      PROVE  GatherInv'
  <2>1. UNCHANGED <<pc, reader, trig>>
    BY <1>9 DEF ReceiverStep, trigVars
  <2>2. pc # "setup" /\ trig.at \notin {"end", "joinable", "off"}
    BY <1>9, ReceiverEmu
  <2>3. LastPass' = LastPass
    BY <2>1 DEF LastPass
  <2> QED BY <1>2, <2>1, <2>2, <2>3 DEF GatherInv
<1> QED BY <1>4, <1>5, <1>6, <1>7, <1>8, <1>9 DEF ReadoutNext, TriggerStep

----------------------------------------------------------------------------
(* The markers of the gatherer *)

(* Two ways to hand more over, both of which end with a marker. *)
LEMMA CloseProperties ==
    ASSUME NEW s, Closed(s), NEW x
    PROVE  /\ Closed(Append(s, EoI)) /\ Append(s, EoI) # <<>>
           /\ Closed(s \o <<Data(x), EoI>>)
           /\ Closed(Append(s \o <<Data(x)>>, EoI)) /\ Append(s \o <<Data(x)>>, EoI) # <<>>
<1>1. PICK S : s \in Seq(S)
  BY DEF Closed
<1> DEFINE T == S \cup {Data(x), EoI}
           n == Len(s)
<1>2. s \in Seq(T) /\ n \in Nat
  BY <1>1, SeqMonotonic
<1>3. EoI \in T /\ Data(x) \in T /\ EoI.eoi = TRUE
  BY DEF EoI
<1>4. /\ \A k \in 1..(n - 1) : ~s[k].eoi => s[k + 1].eoi
      /\ n > 0 => s[n].eoi
  BY <1>1 DEF Closed
<1> HIDE DEF T
<1>5. ASSUME NEW u, u \in Seq(T), Len(u) = n + 1, u[n + 1] = EoI, \A i \in 1..n : u[i] = s[i]
      PROVE  Closed(u) /\ u # <<>>
  <2>1. \A k \in 1..n : k \in 1..(n - 1) \/ (k = n /\ n > 0)
    BY <1>2
  <2>2. \A k \in 1..n : ~u[k].eoi => u[k + 1].eoi
    BY <1>2, <1>4, <1>5, <2>1
  <2>3. u[Len(u)].eoi /\ Len(u) - 1 = n
    BY <1>2, <1>3, <1>5
  <2>4. u # <<>>
    BY <1>2, <1>5
  <2> QED BY <1>5, <2>2, <2>3, <2>4 DEF Closed
<1>6. ASSUME NEW u, u \in Seq(T), Len(u) = n + 2, u[n + 2] = EoI, \A i \in 1..n : u[i] = s[i]
      PROVE  Closed(u) /\ u # <<>>
  <2>1. \A k \in 1..(n + 1) : k \in 1..(n - 1) \/ (k = n /\ n > 0) \/ k = n + 1
    BY <1>2
  <2>2. ASSUME NEW k \in 1..(n + 1) PROVE ~u[k].eoi => u[k + 1].eoi
    <3>1. CASE k = n + 1
      BY <1>2, <1>3, <1>6, <3>1
    <3>2. CASE k \in 1..(n - 1) \/ (k = n /\ n > 0)
      BY <1>2, <1>4, <1>6, <3>2
    <3> QED BY <2>1, <3>1, <3>2
  <2>3. u[Len(u)].eoi /\ Len(u) - 1 = n + 1
    BY <1>2, <1>3, <1>6
  <2>4. u # <<>>
    BY <1>2, <1>6
  <2> QED BY <1>6, <2>2, <2>3, <2>4 DEF Closed
<1> DEFINE a == Append(s, EoI)
           b == s \o <<Data(x), EoI>>
           d == s \o <<Data(x)>>
           c == Append(d, EoI)
<1>7. /\ a \in Seq(T) /\ Len(a) = n + 1 /\ a[n + 1] = EoI /\ \A i \in 1..n : a[i] = s[i]
  BY <1>2, <1>3, AppendProperties
<1>8. /\ b \in Seq(T) /\ Len(b) = n + 2 /\ b[n + 2] = EoI /\ \A i \in 1..n : b[i] = s[i]
  <2> DEFINE two == <<Data(x), EoI>>
  <2>1. two \in Seq(T) /\ Len(two) = 2 /\ two[2] = EoI
    BY <1>3
  <2> HIDE DEF two
  <2>2. /\ s \o two \in Seq(T) /\ Len(s \o two) = n + Len(two)
        /\ \A i \in 1..(n + Len(two)) : (s \o two)[i] = IF i <= n THEN s[i] ELSE two[i - n]
    BY <1>2, <2>1, ConcatProperties
  <2>3. (n + 2) - n = 2 /\ n + 2 \in 1..(n + 2) /\ ~(n + 2 <= n)
    BY <1>2
  <2>4. (s \o two)[n + 2] = two[2]
    BY <2>1, <2>2, <2>3
  <2>5. \A i \in 1..n : i \in 1..(n + 2) /\ i <= n
    BY <1>2
  <2> QED BY <2>1, <2>2, <2>4, <2>5 DEF two
<1>9. /\ d \in Seq(T) /\ Len(d) = n + 1 /\ \A i \in 1..n : d[i] = s[i]
  <2> DEFINE one == <<Data(x)>>
  <2>1. one \in Seq(T) /\ Len(one) = 1
    BY <1>3
  <2> HIDE DEF one
  <2>2. /\ s \o one \in Seq(T) /\ Len(s \o one) = n + Len(one)
        /\ \A i \in 1..(n + Len(one)) : (s \o one)[i] = IF i <= n THEN s[i] ELSE one[i - n]
    BY <1>2, <2>1, ConcatProperties
  <2>3. \A i \in 1..n : i \in 1..(n + 1) /\ i <= n
    BY <1>2
  <2> QED BY <2>1, <2>2, <2>3 DEF one
<1> HIDE DEF a, b, d
<1>10. /\ c \in Seq(T) /\ Len(c) = n + 2 /\ c[n + 2] = EoI /\ \A i \in 1..n : c[i] = s[i]
  <2>1. /\ c \in Seq(T) /\ Len(c) = Len(d) + 1
        /\ \A i \in 1..Len(d) : c[i] = d[i]
        /\ c[Len(d) + 1] = EoI
    BY <1>3, <1>9, AppendProperties
  <2>2. (n + 1) + 1 = n + 2 /\ \A i \in 1..n : i \in 1..(n + 1)
    BY <1>2
  <2> HIDE DEF c
  <2> QED BY <1>9, <2>1, <2>2
<1> HIDE DEF c, n
<1>11. Closed(a) /\ a # <<>>
  BY <1>5, <1>7
<1>12. Closed(b) /\ Closed(c) /\ c # <<>>
  BY <1>6, <1>8, <1>10
<1> QED BY <1>11, <1>12 DEF a, b, c, d

(* The gatherer hands over data and markers only together. *)
LEMMA GatherMarkers ==
    ASSUME MarkerInv, Gather, UNCHANGED option
    PROVE  MarkerInv'
<1> SUFFICES ASSUME option.reader = "gather" PROVE MarkerInv'
  BY DEF Gather
<1>1. \A id \in DOMAIN clip : Closed(clip[id])
  BY DEF MarkerInv
<1> DEFINE map == AddChunks(reader.rdcMap, reader.got)
           Open == PushChunks(map, FALSE)
           Full == PushChunks(map, TRUE)
<1>2. ASSUME NEW id \in DOMAIN clip
      PROVE  /\ Closed(Full[id])
             /\ Closed(LastMarkers(Full)[id]) /\ LastMarkers(Full)[id] # <<>>
             /\ Closed(LastMarkers(Open)[id]) /\ LastMarkers(Open)[id] # <<>>
  <2> HIDE DEF map
  <2>1. /\ Full[id] = IF map[id] = <<>> THEN clip[id] ELSE clip[id] \o <<Data(map[id]), EoI>>
        /\ Open[id] = IF map[id] = <<>> THEN clip[id] ELSE clip[id] \o <<Data(map[id])>>
        /\ DOMAIN Full = DOMAIN clip /\ DOMAIN Open = DOMAIN clip
    BY DEF PushChunks
  <2> HIDE DEF Full, Open
  <2>2. LastMarkers(Full)[id] = Append(Full[id], EoI) /\ LastMarkers(Open)[id] = Append(Open[id], EoI)
    BY <2>1 DEF LastMarkers
  <2>3. Closed(clip[id])
    BY <1>1
  <2>4. Closed(Full[id])
    BY <2>1, <2>3, CloseProperties
  <2>5. Closed(Append(Full[id], EoI)) /\ Append(Full[id], EoI) # <<>>
    BY <2>4, CloseProperties
  <2>6. Closed(Append(Open[id], EoI)) /\ Append(Open[id], EoI) # <<>>
    BY <2>1, <2>3, CloseProperties
  <2> QED BY <2>2, <2>4, <2>5, <2>6
<1>3. DOMAIN Full = DOMAIN clip /\ DOMAIN LastMarkers(Full) = DOMAIN clip
      /\ DOMAIN LastMarkers(Open) = DOMAIN clip
  BY DEF PushChunks, LastMarkers
<1>4. \/ clip' \in {clip, Full} /\ pc' = "test"
      \/ clip' \in {LastMarkers(Full), LastMarkers(Open)} /\ pc' = "wait"
  BY DEF Gather
<1> HIDE DEF Full, Open
<1>5. CASE clip' \in {clip, Full} /\ pc' = "test"
  BY <1>1, <1>2, <1>3, <1>5 DEF MarkerInv
<1>6. CASE clip' \in {LastMarkers(Full), LastMarkers(Open)} /\ pc' = "wait"
  BY <1>2, <1>3, <1>6 DEF MarkerInv
<1> QED BY <1>4, <1>5, <1>6

(* Every step. *)
LEMMA MarkerStep ==
    ASSUME Types, BurstInv, CycleInv, MarkerInv, [ReadoutNext]_readoutVars
    PROVE  MarkerInv'
<1>1. option' = option
  BY OptionKept
<1> SUFFICES ASSUME option.reader = "gather" PROVE MarkerInv'
  BY <1>1 DEF MarkerInv
<1>2. CASE clip' = clip /\ burst' = burst /\ (pc' \in {"wait", "flush"} => pc \in {"wait", "flush"})
  BY <1>1, <1>2 DEF MarkerInv
<1>3. CASE clip' = clip /\ (pc' \notin {"wait", "flush"} \/ ~(burst' > 0))
  BY <1>1, <1>3 DEF MarkerInv
<1>4. CASE UNCHANGED readoutVars \/ EnterFrontEnds \/ MonitorStep \/ Interrupt
              \/ \E t \in Threads : ReceiverStep(t)
  BY <1>2, <1>4 DEF readoutVars, EnterFrontEnds, MonitorStep, Interrupt, ReceiverStep
<1>5. CASE TriggerStep \/ (TimeUp /\ TriggerRest)
  BY <1>2, <1>5 DEF TriggerStep, TriggerRest
<1>6. CASE StartReadout
  <2>1. clip' = clip /\ burst' = burst /\ pc = "setup"
    BY <1>6 DEF StartReadout
  <2>2. burst' = 0
    BY <2>1 DEF BurstInv
  <2> QED BY <1>3, <2>1, <2>2
<1>7. CASE MainStep
  <2>1. CASE Gather
    BY <1>1, <2>1, GatherMarkers
  <2>2. CASE Discard \/ Accumulate \/ GetCurCount \/ EndCycle
    BY <2>2 DEF Discard, Accumulate, GetCurCount, EndCycle, CycleInv
  <2>3. CASE StopTrigger
    BY <1>2, <2>3 DEF StopTrigger
  <2>4. CASE FlushBuffer \/ DisableRx \/ StartTrigger \/ BeginPass \/ ReadData
    <3>1. clip' = clip /\ pc' \notin {"wait", "flush"}
      BY <2>4 DEF FlushBuffer, DisableRx, StartTrigger, BeginPass, ReadData, NextThread
    <3> QED BY <1>3, <3>1
  <2> QED BY <1>7, <2>1, <2>2, <2>3, <2>4 DEF MainStep
<1> QED BY <1>4, <1>5, <1>6, <1>7 DEF ReadoutNext

----------------------------------------------------------------------------
(* The theorems *)

ReadoutInv ==
    /\ BookInv /\ Types /\ CountInv /\ BurstInv /\ CycleInv
    /\ EmuInv /\ GatherInv /\ MarkerInv

(* Nothing has been sent at the beginning. *)
LEMMA ReadoutStart == ReadoutInit => ReadoutInv
<1> SUFFICES ASSUME ReadoutInit PROVE ReadoutInv
  OBVIOUS
<1>1. BookInv
  BY BookStart DEF ReadoutInit
<1>2. option \in Options
  BY DEF ReadoutInit
<1>3. Types
  <2>1. MainTypes
    BY DEF ReadoutInit, MainTypes
  <2>2. ReaderTypes
    <3>1. reader = NoReader
      BY DEF ReadoutInit
    <3>2. 1 \in Threads
      BY <1>2, OptionTypes
    <3>3. reader.t = 1
      BY <1>2, <3>1, NoReaderTypes
    <3> QED BY <1>2, <3>1, <3>2, <3>3, NoReaderTypes DEF ReaderTypes
  <2>3. TrigTypes
    <3>1. /\ trig = [at |-> "off", trigs |-> 0] /\ m_trigEnabled = FALSE
          /\ sent = [c \in Channels |-> 0]
      BY DEF ReadoutInit
    <3>2. TrigCnt \in Nat
      BY <1>2, OptionTypes
    <3>3. trig \in [at : {"off", "test", "send", "drain", "end", "joinable"}, trigs : 0..TrigCnt]
      BY <3>1, <3>2
    <3>4. sent \in [Channels -> Nat] /\ m_trigEnabled \in BOOLEAN
      BY <3>1
    <3> QED BY <3>3, <3>4 DEF TrigTypes
  <2>4. RxTypes
    <3>1. Idle \in Receivers /\ <<>> \in Seq(Packets)
      BY DEF Idle, Receivers, NoPacket, Packets
    <3>2. /\ link = [c \in Channels |-> <<>>] /\ rcv = [t \in Threads |-> Idle]
          /\ in = [t \in Threads |-> 0] /\ out = [t \in Threads |-> 0]
          /\ m_rawData = [t \in Threads |-> <<>>]
      BY DEF ReadoutInit
    <3> QED BY <3>1, <3>2 DEF RxTypes, Receivers
  <2> QED BY <2>1, <2>2, <2>3, <2>4 DEF Types
<1>4. CountInv
  <2>1. /\ in = [t \in Threads |-> 0] /\ out = [t \in Threads |-> 0]
        /\ m_rawData = [t \in Threads |-> <<>>] /\ rcv = [t \in Threads |-> Idle] /\ pc = "setup"
    BY DEF ReadoutInit
  <2>2. ASSUME NEW t \in Threads
        PROVE  in[t] = 0 /\ out[t] = 0 /\ Len(m_rawData[t]) = 0 /\ ToQueue(t) = 0 /\ ToCount(t) = 0
    BY <2>1 DEF ToQueue, ToCount, Idle
  <2> QED BY <2>2 DEF CountInv, Balanced
<1>5. BurstInv /\ CycleInv
  BY DEF ReadoutInit, BurstInv, CycleInv
<1>6. EmuInv /\ GatherInv
  <2>1. /\ link = [c \in Channels |-> <<>>] /\ rcv = [t \in Threads |-> Idle] /\ pc = "setup"
        /\ m_rawData = [t \in Threads |-> <<>>] /\ bookEntries = <<>> /\ trig.at = "off"
    BY DEF ReadoutInit, Init
  <2>2. 1 \in Threads /\ UsedChannels = {}
    BY <1>2, <2>1, OptionTypes DEF UsedChannels
  <2>3. rcv[1] = Idle /\ m_rawData[1] = <<>> /\ rcv[1].at = "idle"
    BY <2>1, <2>2 DEF Idle
  <2>4. LinksRead
    BY <2>2 DEF LinksRead
  <2>5. EmuInv
    BY <2>1, <2>3, <2>4 DEF EmuInv
  <2> QED BY <2>1, <2>3, <2>5 DEF GatherInv, LastPass
<1>7. MarkerInv
  <2>1. clip = [id \in ScanIds |-> <<>>] /\ pc = "setup"
    BY DEF ReadoutInit
  <2>2. Closed(<<>>)
    BY EmptySeq DEF Closed
  <2> QED BY <2>1, <2>2 DEF MarkerInv
<1> QED BY <1>1, <1>3, <1>4, <1>5, <1>6, <1>7 DEF ReadoutInv

(* The front ends are entered one by one, and the tables stay as they are   *)
(* while data are read.                                                     *)
LEMMA BookkeeperStep ==
    ASSUME [ReadoutNext]_readoutVars
    PROVE  [Next]_vars
BY DEF ReadoutNext, readoutVars, EnterFrontEnds, StartReadout, MainStep, TriggerStep,
       TriggerRest, MonitorStep, Interrupt, ReceiverStep

(* The inductive invariant of the read-out holds in every state. *)
LEMMA ReadoutInvariant == ReadoutSpec => []ReadoutInv
<1>1. ReadoutInv /\ [ReadoutNext]_readoutVars => ReadoutInv'
  <2> SUFFICES ASSUME ReadoutInv, [ReadoutNext]_readoutVars PROVE ReadoutInv'
    OBVIOUS
  <2>1. /\ BookInv /\ Types /\ CountInv /\ BurstInv /\ CycleInv
        /\ EmuInv /\ GatherInv /\ MarkerInv
    BY DEF ReadoutInv
  <2>2. BookInv'
    BY <2>1, BookkeeperStep, BookStep
  <2>3. Types'
    BY <2>1, TypesStep
  <2>4. CountInv'
    BY <2>1, CountStep
  <2>5. BurstInv'
    BY <2>1, BurstStep
  <2>6. CycleInv'
    BY <2>1, CycleStep
  <2>7. EmuInv'
    BY <2>1, <2>2, EmuStep
  <2>8. GatherInv'
    BY <2>1, GatherStep
  <2>9. MarkerInv'
    BY <2>1, MarkerStep
  <2> QED BY <2>2, <2>3, <2>4, <2>5, <2>6, <2>7, <2>8, <2>9 DEF ReadoutInv
<1> QED BY <1>1, ReadoutStart, PTL DEF ReadoutSpec

(* The routing tables agree while data are read, too. *)
THEOREM ReadoutIdsConsistent == ReadoutSpec => []IdMapConsistent
<1>1. ReadoutInv => IdMapConsistent
  BY DEF ReadoutInv, BookInv, Consistent, IdMapConsistent
<1> QED BY <1>1, ReadoutInvariant, PTL

(* The difference of the two counters of a receiver thread is the length of *)
(* its queue and what is on its way in or out, whichever of the threads     *)
(* runs: in particular it is never negative (FelixRxThread counts before it *)
(* queues, FelixRxCore::readData takes before it counts).                   *)
THEOREM CountsCoverQueues == ReadoutSpec => []CountCoversQueue
<1>1. ReadoutInv => CountCoversQueue
  <2> SUFFICES ASSUME ReadoutInv, NEW t \in Threads
               PROVE  CurCount(t) = Len(m_rawData[t]) + ToQueue(t) + ToCount(t)
    BY DEF CountCoversQueue, ToQueue, ToCount
  <2>1. /\ in[t] \in Nat /\ out[t] \in Nat /\ m_rawData[t] \in Seq(Packets)
    BY DEF ReadoutInv, Types, RxTypes
  <2>2. Len(m_rawData[t]) \in Nat /\ ToQueue(t) \in Nat /\ ToCount(t) \in Nat
    BY <2>1 DEF ToQueue, ToCount
  <2>3. in[t] = out[t] + Len(m_rawData[t]) + ToQueue(t) + ToCount(t)
    BY DEF ReadoutInv, CountInv, Balanced
  <2> QED BY <2>1, <2>2, <2>3 DEF CurCount
<1> QED BY <1>1, ReadoutInvariant, PTL

(* A read cycle of StdDataLoop ends with everything read that had been      *)
(* received when its last pass began, although getCurCount() looks at one   *)
(* thread after the other and packets come in all the while.                *)
THEOREM CyclesDrain == ReadoutSpec => []CycleDrains
<1>1. ReadoutInv => CycleDrains
  <2> SUFFICES ASSUME ReadoutInv, pc = "push", NEW t \in Threads
               PROVE  out[t] >= reader.due[t]
    BY DEF CycleDrains
  <2>1. out[t] \in Nat /\ reader.due[t] \in Nat /\ reader.due[t] <= out[t]
    BY DEF ReadoutInv, Types, RxTypes, CycleInv
  <2> QED BY <2>1
<1> QED BY <1>1, ReadoutInvariant, PTL

(* A burst is over when the next one begins: the trigger thread has been    *)
(* joined before the buffers are flushed, and unless the user interrupted   *)
(* it a counted burst has sent all of its triggers.                         *)
THEOREM BurstsKeptApart == ReadoutSpec => []BurstsApart
<1>1. ReadoutInv => BurstsApart
  BY DEF ReadoutInv, BurstInv, BurstsApart
<1> QED BY <1>1, ReadoutInvariant, PTL

(* StdDataGatherer with the emulator leaves nothing behind: when it ends    *)
(* all data of the burst are with the front ends, because isTrigDone() was  *)
(* asked before the last read and is true only when the word of padding has *)
(* been read. And with any controller what it hands to a front end consists *)
(* of iterations closed by a marker, the last one too.                      *)
THEOREM GathererEndsComplete == ReadoutSpec => []GathererComplete
<1>1. ReadoutInv => GatheredAll
  <2> SUFFICES ASSUME ReadoutInv, Emu, option.reader = "gather", pc \in {"wait", "flush"}
               PROVE  /\ m_rawData[1] = <<>>
                      /\ \A c \in UsedChannels :
                            ToSet(link[c]) \cup {rcv[1].packet} \subseteq {NoPacket, Padding(c)}
    BY DEF GatheredAll
  <2>1. trig.at \in {"joinable", "off"} /\ m_rawData[1] = <<>>
    BY DEF ReadoutInv, GatherInv
  <2>2. LinksRead
    BY <2>1 DEF ReadoutInv, EmuInv
  <2>3. ToSet(<<>>) = {}
    BY DEF ToSet
  <2> QED BY <2>1, <2>2, <2>3 DEF LinksRead
<1>2. ReadoutInv => EndOfIterationLast
  BY DEF ReadoutInv, MarkerInv, Closed, EndOfIterationLast
<1> QED BY <1>1, <1>2, ReadoutInvariant, PTL DEF GathererComplete

----------------------------------------------------------------------------
(* Each packet once. The inductive invariant says besides EachOnce where a  *)
(* packet can be: on the link of its channel, with or in the queue of the   *)
(* thread of its channel; and when the reader holds none.                   *)

(* Before the read-out starts nothing has been sent or read. *)
SetupInv ==
    pc = "setup" =>
        /\ sent = [c \in Channels |-> 0] /\ dropped = [c \in Channels |-> {}]
        /\ link = [c \in Channels |-> <<>>] /\ rcv = [t \in Threads |-> Idle]
        /\ m_rawData = [t \in Threads |-> <<>>] /\ reader = NoReader
        /\ clip = [id \in ScanIds |-> <<>>] /\ monitor = MonitorIdle

(* Unless there were deletions a channel is routed to its front ends. *)
OnChannel(c) == {i \in DOMAIN bookEntries : bookEntries[i].rxChannel = c}

RouteInv ==
    /\ rxToIdMap \in [Channels -> Seq(Nat)]
    /\ deletions \in 0..MaxDel
    /\ deletions = 0 =>
           \A c \in Channels : ToSet(rxToIdMap[c]) = {Id(i) : i \in OnChannel(c)}

TablesFixed == pc # "setup" => deletions = 0 /\ bookEntries = option.entries

(* The packets of a link, of a thread, and of the reader. Words of padding  *)
(* are found only on the links of the emulator, and in its hands.           *)
LinkPackets(c) == [chn : {c}, n : IF Felix THEN Nat \ {0} ELSE Nat]
ReadPackets == [chn : UsedChannels, n : Nat \ {0}]
ThreadPackets(t) == {p \in ReadPackets : ThreadOf(p.chn) = t}
HeldPackets(t) == {p \in [chn : UsedChannels, n : Nat] :
                      ThreadOf(p.chn) = t /\ (Felix => p.n # 0)}

PlaceInv ==
    pc # "setup" =>
        /\ \A c \in Channels : link[c] \in Seq(LinkPackets(c))
        /\ \A t \in Threads :
               /\ m_rawData[t] \in Seq(ThreadPackets(t))
               /\ rcv[t].at = "idle" => rcv[t].packet = NoPacket
               /\ rcv[t].at # "idle" => rcv[t].packet \in HeldPackets(t)
        /\ reader.got \in Seq(ReadPackets)

DropInv == DOMAIN dropped = Channels

Boxes == [eoi : BOOLEAN, data : Seq(Packets)]

(* Between two bursts the reader has nothing. *)
ReaderInv ==
    /\ clip \in [ScanIds -> Seq(Boxes)]
    /\ reader.rdcMap \in [ScanIds -> Seq(Packets)]
    /\ (pc \notin {"pop", "countOut", "process"} \/ (Emu /\ pc = "pop")) => reader.got = <<>>
    /\ (pc \in {"flush", "flushing", "trigger", "wait", "done"} \/ option.reader = "discard") =>
           reader.rdcMap = NoReader.rdcMap

----------------------------------------------------------------------------
(* The packets of channel c with the numbers N, each once and in order. *)
Whole(s, c, N) ==
    /\ ToSet(s) = [chn : {c}, n : N]
    /\ \A j, k \in DOMAIN s : j < k => s[j].n < s[k].n

(* The packet sent last is the last one. *)
LEMMA WholeMore ==
    ASSUME NEW c, NEW s \in Seq(Packets), NEW k \in Nat, NEW D, D \subseteq 1..k,
           Whole(s, c, (1..k) \ D), [chn |-> c, n |-> k + 1] \in Packets
    PROVE  Whole(Append(s, [chn |-> c, n |-> k + 1]), c, (1..(k + 1)) \ D)
<1> DEFINE p == [chn |-> c, n |-> k + 1]
           t == Append(s, p)
<1>1. /\ DOMAIN s = 1..Len(s) /\ Len(s) \in Nat
      /\ DOMAIN t = 1..(Len(s) + 1)
      /\ \A i \in 1..Len(s) : t[i] = s[i]
      /\ t[Len(s) + 1] = p
  BY AppendProperties
<1>2. p.n = k + 1
  OBVIOUS
<1> HIDE DEF t
<1>3. \A i \in 1..Len(s) : s[i].n \in 1..k
  BY <1>1 DEF Whole, ToSet
<1>4. ASSUME NEW i \in DOMAIN t, NEW j \in DOMAIN t, i < j
      PROVE  t[i].n < t[j].n
  <2>1. i \in 1..Len(s) /\ t[i] = s[i] /\ t[i].n \in 1..k
    BY <1>1, <1>3, <1>4
  <2>2. CASE j = Len(s) + 1
    BY <1>1, <1>2, <2>1, <2>2
  <2>3. CASE j # Len(s) + 1
    <3>1. j \in 1..Len(s) /\ t[j] = s[j]
      BY <1>1, <2>3
    <3> QED BY <1>1, <1>4, <2>1, <3>1 DEF Whole
  <2> QED BY <2>2, <2>3
<1>5. ToSet(t) = ToSet(s) \cup {p}
  <2>1. \A i \in DOMAIN t : t[i] \in ToSet(s) \cup {p}
    BY <1>1 DEF ToSet
  <2>2. \A x \in ToSet(s) : x \in ToSet(t)
    BY <1>1 DEF ToSet
  <2>3. p \in ToSet(t)
    BY <1>1 DEF ToSet
  <2> QED BY <2>1, <2>2, <2>3 DEF ToSet
<1>6. (1..(k + 1)) \ D = ((1..k) \ D) \cup {k + 1}
  OBVIOUS
<1> DEFINE N == (1..k) \ D
<1>7. [chn : {c}, n : N \cup {k + 1}] = [chn : {c}, n : N] \cup {p}
  <2> HIDE DEF N
  <2>1. ASSUME NEW x \in [chn : {c}, n : N \cup {k + 1}], x \notin [chn : {c}, n : N]
        PROVE  x = p
    <3>1. x = [chn |-> x.chn, n |-> x.n] /\ x.chn = c /\ x.n = k + 1
      BY <2>1
    <3> QED BY <3>1
  <2>2. p \in [chn : {c}, n : N \cup {k + 1}]
    OBVIOUS
  <2>3. [chn : {c}, n : N] \subseteq [chn : {c}, n : N \cup {k + 1}]
    OBVIOUS
  <2> HIDE DEF p
  <2> QED BY <2>1, <2>2, <2>3
<1> QED BY <1>4, <1>5, <1>6, <1>7 DEF Whole, t

(* A part taken out takes its numbers with it, and no others. *)
LEMMA WholeLess ==
    ASSUME NEW c, NEW N, N \subseteq Nat,
           NEW a \in Seq(Packets), NEW b \in Seq(Packets), NEW d \in Seq(Packets),
           Whole((a \o b) \o d, c, N)
    PROVE  /\ Whole(a \o d, c, N \ {p.n : p \in ToSet(b)})
           /\ {p.n : p \in ToSet(b)} \subseteq N
<1> DEFINE la == Len(a)
           lb == Len(b)
           ld == Len(d)
           all == (a \o b) \o d
           left == a \o d
           At(i) == IF i <= la THEN i ELSE i + lb
<1>1. la \in Nat /\ lb \in Nat /\ ld \in Nat
  OBVIOUS
<1>2. /\ DOMAIN left = 1..(la + ld) /\ left \in Seq(Packets)
      /\ \A i \in 1..(la + ld) : left[i] = IF i <= la THEN a[i] ELSE d[i - la]
  BY ConcatProperties
<1>3. /\ DOMAIN all = 1..(la + lb + ld) /\ all \in Seq(Packets)
      /\ \A i \in 1..(la + lb + ld) :
            all[i] = IF i <= la THEN a[i]
                     ELSE IF i <= la + lb THEN b[i - la] ELSE d[i - (la + lb)]
  <2> DEFINE ab == a \o b
  <2>1. /\ ab \in Seq(Packets) /\ Len(ab) = la + lb
        /\ \A i \in 1..(la + lb) : ab[i] = IF i <= la THEN a[i] ELSE b[i - la]
    BY ConcatProperties
  <2> HIDE DEF ab
  <2>2. /\ ab \o d \in Seq(Packets) /\ Len(ab \o d) = (la + lb) + ld
        /\ \A i \in 1..((la + lb) + ld) :
              (ab \o d)[i] = IF i <= la + lb THEN ab[i] ELSE d[i - (la + lb)]
    BY <2>1, ConcatProperties
  <2> HIDE DEF la, lb, ld
  <2> QED BY <1>1, <2>1, <2>2 DEF ab
<1> HIDE DEF la, lb, ld, all, left
<1>4. /\ \A j, k \in 1..(la + lb + ld) : j < k => all[j].n < all[k].n
      /\ ToSet(all) = [chn : {c}, n : N]
  BY <1>3 DEF Whole, all
<1>5. \A i \in 1..(la + lb + ld) : all[i] \in [chn : {c}, n : N]
  BY <1>3, <1>4 DEF ToSet
<1>6. ASSUME NEW i \in 1..(la + ld)
      PROVE  /\ At(i) \in 1..(la + lb + ld) /\ left[i] = all[At(i)]
             /\ ~(At(i) > la /\ At(i) <= la + lb)
  <2>1. CASE i <= la
    <3>1. /\ At(i) = i /\ i \in 1..(la + lb + ld) /\ ~(i > la)
      BY <1>1, <2>1
    <3>2. left[i] = a[i] /\ all[i] = a[i]
      BY <1>2, <1>3, <2>1, <3>1
    <3> QED BY <3>1, <3>2
  <2>2. CASE ~(i <= la)
    <3>1. /\ At(i) = i + lb /\ i + lb \in 1..(la + lb + ld)
          /\ ~(i + lb <= la) /\ ~(i + lb <= la + lb) /\ (i + lb) - (la + lb) = i - la
      BY <1>1, <2>2
    <3> QED BY <1>1, <1>2, <1>3, <2>2, <3>1
  <2> QED BY <2>1, <2>2
<1>7. ASSUME NEW i \in DOMAIN left, NEW j \in DOMAIN left, i < j
      PROVE  left[i].n < left[j].n
  <2>1. At(i) < At(j)
    BY <1>1, <1>2, <1>7
  <2> HIDE DEF At
  <2> QED BY <1>2, <1>4, <1>6, <2>1
<1> DEFINE Gone == {p.n : p \in ToSet(b)}
<1>8. ASSUME NEW m \in 1..lb
      PROVE  la + m \in 1..(la + lb + ld) /\ all[la + m] = b[m]
  <2>1. la + m \in 1..(la + lb + ld) /\ ~(la + m <= la) /\ la + m <= la + lb /\ (la + m) - la = m
    BY <1>1
  <2> QED BY <1>3, <2>1
<1>9. ToSet(b) = {b[m] : m \in 1..lb}
  BY DEF ToSet, lb
<1>10. ASSUME NEW i \in 1..(la + ld)
       PROVE  left[i] \in [chn : {c}, n : N \ Gone]
  <2>1. left[i] \in [chn : {c}, n : N]
    BY <1>5, <1>6
  <2>2. ASSUME NEW m \in 1..lb PROVE left[i].n # b[m].n
    <3> DEFINE k == At(i)
               l == la + m
    <3>1. /\ k \in 1..(la + lb + ld) /\ l \in 1..(la + lb + ld)
          /\ left[i] = all[k] /\ b[m] = all[l]
      BY <1>6, <1>8
    <3>2. l > la /\ l <= la + lb
      BY <1>1
    <3>3. k # l
      BY <1>6, <3>2
    <3> HIDE DEF k, l
    <3>4. k < l \/ l < k
      BY <1>1, <3>1, <3>3
    <3>5. all[k].n \in Nat /\ all[l].n \in Nat
      BY <1>5, <3>1
    <3> QED BY <1>4, <3>1, <3>4, <3>5
  <2>3. left[i].n \notin Gone
    BY <1>9, <2>2
  <2> HIDE DEF Gone
  <2> QED BY <2>1, <2>3
<1>11. ASSUME NEW x \in [chn : {c}, n : N \ Gone]
       PROVE  \E i \in 1..(la + ld) : x = left[i]
  <2>1. x \in [chn : {c}, n : N] /\ x.n \notin Gone
    <3> HIDE DEF Gone
    <3> QED OBVIOUS
  <2>2. PICK j \in 1..(la + lb + ld) : x = all[j]
    BY <1>3, <1>4, <2>1 DEF ToSet
  <2>3. CASE j <= la
    <3>1. j \in 1..(la + ld)
      BY <1>1, <2>3
    <3>2. all[j] = left[j]
      BY <1>2, <1>3, <2>3, <3>1
    <3> QED BY <2>2, <3>1, <3>2
  <2>4. CASE ~(j <= la) /\ j <= la + lb
    <3>1. j - la \in 1..lb /\ all[j] = b[j - la]
      BY <1>1, <1>3, <2>4
    <3>2. x.n \in Gone
      BY <1>9, <2>2, <3>1
    <3> QED BY <2>1, <3>2
  <2>5. CASE ~(j <= la + lb)
    <3>1. /\ j - lb \in 1..(la + ld) /\ ~(j - lb <= la) /\ ~(j <= la)
          /\ (j - lb) - la = j - (la + lb)
      BY <1>1, <2>5
    <3>2. all[j] = left[j - lb]
      BY <1>2, <1>3, <2>5, <3>1
    <3> QED BY <2>2, <3>1, <3>2
  <2> QED BY <1>1, <2>3, <2>4, <2>5
<1>12. ToSet(left) = [chn : {c}, n : N \ Gone]
  <2>1. ToSet(left) = {left[i] : i \in 1..(la + ld)}
    BY <1>2 DEF ToSet
  <2> DEFINE W == [chn : {c}, n : N \ Gone]
  <2>2. \A i \in 1..(la + ld) : left[i] \in W
    BY <1>10
  <2>3. \A x \in W : \E i \in 1..(la + ld) : x = left[i]
    BY <1>11
  <2> HIDE DEF W
  <2>4. ToSet(left) = W
    BY <2>1, <2>2, <2>3
  <2> QED BY <2>4 DEF W
<1>13. Gone \subseteq N
  <2>1. ASSUME NEW m \in 1..lb PROVE b[m].n \in N
    BY <1>5, <1>8
  <2> QED BY <1>9, <2>1
<1> QED BY <1>7, <1>12, <1>13 DEF Whole, left

----------------------------------------------------------------------------
(* The stream of a channel to a front end: handed over, read, queued, in    *)
(* the callback, on the link. A packet moves from one part to the one       *)
(* before it, and the stream stays the same.                                *)
Stream(h, g, q, x, l) == Cat(h, Cat(Cat(g, Cat(q, x)), l))

(* It is a sequence of packets. *)
LEMMA StreamType ==
    ASSUME NEW h \in Seq(Packets), NEW g \in Seq(Packets), NEW q \in Seq(Packets),
           NEW x \in Seq(Packets), NEW l \in Seq(Packets)
    PROVE  Stream(h, g, q, x, l) \in Seq(Packets)
<1>1. /\ \A a, b \in Seq(Packets) : Cat(a, b) \in Seq(Packets)
      /\ \A a, b, c \in Seq(Packets) : Cat(Cat(a, b), c) = Cat(a, Cat(b, c))
      /\ \A a \in Seq(Packets) : Cat(a, <<>>) = a /\ Cat(<<>>, a) = a
  BY CatFacts
<1> DEFINE z == Cat(q, x)
           y == Cat(g, z)
<1>2. /\ z \in Seq(Packets) /\ y \in Seq(Packets) /\ Cat(y, l) \in Seq(Packets)
      /\ Cat(z, l) \in Seq(Packets)
  BY <1>1
<1> QED BY <1>1, <1>2 DEF Stream

(* What was read is handed over. *)
LEMMA StreamHand ==
    ASSUME NEW h \in Seq(Packets), NEW g \in Seq(Packets), NEW q \in Seq(Packets),
           NEW x \in Seq(Packets), NEW l \in Seq(Packets)
    PROVE  Stream(Cat(h, g), <<>>, q, x, l) = Stream(h, g, q, x, l)
<1>1. /\ \A a, b \in Seq(Packets) : Cat(a, b) \in Seq(Packets)
      /\ \A a, b, c \in Seq(Packets) : Cat(Cat(a, b), c) = Cat(a, Cat(b, c))
      /\ \A a \in Seq(Packets) : Cat(a, <<>>) = a /\ Cat(<<>>, a) = a
  BY CatFacts
<1> DEFINE z == Cat(q, x)
           y == Cat(g, z)
<1>2. /\ z \in Seq(Packets) /\ y \in Seq(Packets) /\ Cat(y, l) \in Seq(Packets)
      /\ Cat(z, l) \in Seq(Packets)
  BY <1>1
<1> QED BY <1>1, <1>2 DEF Stream

(* What was queued first is read. *)
LEMMA StreamRead ==
    ASSUME NEW h \in Seq(Packets), NEW g \in Seq(Packets), NEW q \in Seq(Packets),
           NEW x \in Seq(Packets), NEW l \in Seq(Packets), NEW p \in Seq(Packets)
    PROVE  Stream(h, Cat(g, p), q, x, l) = Stream(h, g, Cat(p, q), x, l)
<1>1. /\ \A a, b \in Seq(Packets) : Cat(a, b) \in Seq(Packets)
      /\ \A a, b, c \in Seq(Packets) : Cat(Cat(a, b), c) = Cat(a, Cat(b, c))
      /\ \A a \in Seq(Packets) : Cat(a, <<>>) = a /\ Cat(<<>>, a) = a
  BY CatFacts
<1> DEFINE z == Cat(q, x)
           y == Cat(g, z)
<1>2. /\ z \in Seq(Packets) /\ y \in Seq(Packets) /\ Cat(y, l) \in Seq(Packets)
      /\ Cat(z, l) \in Seq(Packets)
  BY <1>1
<1> QED BY <1>1, <1>2 DEF Stream

(* The packet of the callback is queued. *)
LEMMA StreamQueue ==
    ASSUME NEW h \in Seq(Packets), NEW g \in Seq(Packets), NEW q \in Seq(Packets),
           NEW x \in Seq(Packets), NEW l \in Seq(Packets)
    PROVE  Stream(h, g, Cat(q, x), <<>>, l) = Stream(h, g, q, x, l)
<1>1. /\ \A a, b \in Seq(Packets) : Cat(a, b) \in Seq(Packets)
      /\ \A a, b, c \in Seq(Packets) : Cat(Cat(a, b), c) = Cat(a, Cat(b, c))
      /\ \A a \in Seq(Packets) : Cat(a, <<>>) = a /\ Cat(<<>>, a) = a
  BY CatFacts
<1> DEFINE z == Cat(q, x)
           y == Cat(g, z)
<1>2. /\ z \in Seq(Packets) /\ y \in Seq(Packets) /\ Cat(y, l) \in Seq(Packets)
      /\ Cat(z, l) \in Seq(Packets)
  BY <1>1
<1> QED BY <1>1, <1>2 DEF Stream

(* The first packet of the link is received. *)
LEMMA StreamReceive ==
    ASSUME NEW h \in Seq(Packets), NEW g \in Seq(Packets), NEW q \in Seq(Packets),
           NEW x \in Seq(Packets), NEW l \in Seq(Packets)
    PROVE  Stream(h, g, q, <<>>, Cat(x, l)) = Stream(h, g, q, x, l)
<1>1. /\ \A a, b \in Seq(Packets) : Cat(a, b) \in Seq(Packets)
      /\ \A a, b, c \in Seq(Packets) : Cat(Cat(a, b), c) = Cat(a, Cat(b, c))
      /\ \A a \in Seq(Packets) : Cat(a, <<>>) = a /\ Cat(<<>>, a) = a
  BY CatFacts
<1> DEFINE z == Cat(q, x)
           y == Cat(g, z)
<1>2. /\ z \in Seq(Packets) /\ y \in Seq(Packets) /\ Cat(y, l) \in Seq(Packets)
      /\ Cat(z, l) \in Seq(Packets)
  BY <1>1
<1> QED BY <1>1, <1>2 DEF Stream

(* What is sent comes last. *)
LEMMA StreamSend ==
    ASSUME NEW h \in Seq(Packets), NEW g \in Seq(Packets), NEW q \in Seq(Packets),
           NEW x \in Seq(Packets), NEW l \in Seq(Packets), NEW o \in Seq(Packets)
    PROVE  Stream(h, g, q, x, Cat(l, o)) = Cat(Stream(h, g, q, x, l), o)
<1>1. /\ \A a, b \in Seq(Packets) : Cat(a, b) \in Seq(Packets)
      /\ \A a, b, c \in Seq(Packets) : Cat(Cat(a, b), c) = Cat(a, Cat(b, c))
  BY CatFacts
<1> DEFINE z == Cat(q, x)
           y == Cat(g, z)
<1>2. z \in Seq(Packets) /\ y \in Seq(Packets) /\ Cat(y, l) \in Seq(Packets)
  BY <1>1
<1> QED BY <1>1, <1>2 DEF Stream

(* Packets are taken out, by a receiver or by the reader. *)
LEMMA StreamLess ==
    ASSUME NEW c, NEW N, N \subseteq Nat,
           NEW h \in Seq(Packets), NEW g \in Seq(Packets), NEW q \in Seq(Packets),
           NEW x \in Seq(Packets), NEW l \in Seq(Packets), NEW p \in Seq(Packets)
    PROVE  /\ Whole(Stream(h, g, q, x, Cat(p, l)), c, N) =>
                 /\ Whole(Stream(h, g, q, x, l), c, N \ {r.n : r \in ToSet(p)})
                 /\ {r.n : r \in ToSet(p)} \subseteq N
           /\ Whole(Stream(h, p, q, x, l), c, N) =>
                 /\ Whole(Stream(h, <<>>, q, x, l), c, N \ {r.n : r \in ToSet(p)})
                 /\ {r.n : r \in ToSet(p)} \subseteq N
<1>1. /\ \A a, b \in Seq(Packets) : Cat(a, b) \in Seq(Packets)
      /\ \A a, b, d \in Seq(Packets) : Cat(Cat(a, b), d) = Cat(a, Cat(b, d))
      /\ \A a \in Seq(Packets) : Cat(a, <<>>) = a /\ Cat(<<>>, a) = a
  BY CatFacts
<1> DEFINE z == Cat(q, x)
           y == Cat(g, z)
           hy == Cat(h, y)
           zl == Cat(z, l)
<1>2. /\ z \in Seq(Packets) /\ y \in Seq(Packets) /\ hy \in Seq(Packets) /\ zl \in Seq(Packets)
  BY <1>1
<1>3. Stream(h, g, q, x, l) = Cat(hy, l)
  BY <1>1, <1>2 DEF Stream
<1>4. Stream(h, g, q, x, Cat(p, l)) = Cat(Cat(hy, p), l)
  BY <1>1, <1>2 DEF Stream
<1>5. Stream(h, <<>>, q, x, l) = Cat(h, zl)
  BY <1>1, <1>2 DEF Stream
<1>6. Stream(h, p, q, x, l) = Cat(Cat(h, p), zl)
  BY <1>1, <1>2 DEF Stream
<1>7. ASSUME NEW a \in Seq(Packets), NEW b \in Seq(Packets), Whole(Cat(Cat(a, p), b), c, N)
      PROVE  /\ Whole(Cat(a, b), c, N \ {r.n : r \in ToSet(p)})
             /\ {r.n : r \in ToSet(p)} \subseteq N
  BY <1>7, WholeLess DEF Cat
<1> HIDE DEF z, y, hy, zl
<1> QED BY <1>2, <1>3, <1>4, <1>5, <1>6, <1>7

----------------------------------------------------------------------------
(* Channels, threads and tables *)

(* Every channel in use is dealt to a thread. *)
LEMMA ChannelThread ==
    ASSUME BookInv, option \in Options, NEW c \in UsedChannels
    PROVE  ThreadOf(c) \in Threads
<1> DEFINE n == Len(bookEntries)
           f == [i \in 1..n |-> bookEntries[i].rxChannel]
           S == {d \in UsedChannels : d < c}
<1>1. DOMAIN bookEntries = 1..n /\ n \in Nat
  BY DEF BookInv, TablesInv
<1>2. IsFiniteSet(1..n)
  BY <1>1, FS_Interval
<1>3. UsedChannels = {bookEntries[i].rxChannel : i \in 1..n}
  BY <1>1 DEF UsedChannels
<1>4. f \in Surjection(1..n, UsedChannels)
  BY <1>3 DEF Surjection
<1> HIDE DEF f, n
<1>5. IsFiniteSet(UsedChannels)
  BY <1>2, <1>4, FS_Surjection
<1>6. S \subseteq UsedChannels
  OBVIOUS
<1> DEFINE k == Cardinality(S)
<1> HIDE DEF S
<1>7. k \in Nat
  BY <1>5, <1>6, FS_Subset, FS_CardinalityType
<1> HIDE DEF k
<1>8. option.nThreads \in Nat \ {0} /\ Threads = 1..option.nThreads
  BY OptionTypes
<1>9. (k % option.nThreads) + 1 \in 1..option.nThreads
  BY <1>7, <1>8
<1> QED BY <1>8, <1>9 DEF ThreadOf, k, S

(* What depends on tables and scan alone. *)
LEMMA TablesKept ==
    ASSUME UNCHANGED <<vars, option>>
    PROVE  /\ UsedChannels' = UsedChannels /\ ScanIds' = ScanIds /\ Threads' = Threads
           /\ Emu' = Emu /\ Felix' = Felix /\ bookEntries' = bookEntries /\ rxToIdMap' = rxToIdMap
           /\ deletions' = deletions
           /\ ReadPackets' = ReadPackets /\ NoReader' = NoReader
           /\ \A c : ThreadOf(c)' = ThreadOf(c)
           /\ \A c : LinkPackets(c)' = LinkPackets(c)
           /\ \A c : OnChannel(c)' = OnChannel(c)
           /\ \A t : ThreadPackets(t)' = ThreadPackets(t) /\ HeldPackets(t)' = HeldPackets(t)
<1>1. bookEntries' = bookEntries /\ rxToIdMap' = rxToIdMap /\ option' = option /\ deletions' = deletions
  BY DEF vars
<1>2. UsedChannels' = UsedChannels /\ ScanIds' = ScanIds /\ Threads' = Threads
  BY <1>1 DEF UsedChannels, ScanIds, Threads
<1>3. Emu' = Emu /\ Felix' = Felix
  BY <1>1 DEF Emu, Felix
<1>4. ReadPackets' = ReadPackets /\ NoReader' = NoReader
  BY <1>2 DEF ReadPackets, NoReader
<1>5. \A c : ThreadOf(c)' = ThreadOf(c)
  BY <1>1, <1>2 DEF ThreadOf
<1>6. \A c : LinkPackets(c)' = LinkPackets(c) /\ OnChannel(c)' = OnChannel(c)
  BY <1>1, <1>3 DEF LinkPackets, OnChannel
<1>7. \A t : ThreadPackets(t)' = ThreadPackets(t) /\ HeldPackets(t)' = HeldPackets(t)
  BY <1>1, <1>2, <1>3, <1>4, <1>5 DEF ThreadPackets, HeldPackets
<1> QED BY <1>1, <1>2, <1>3, <1>4, <1>5, <1>6, <1>7

(* Once the read-out has begun the tables stay as they are. *)
LEMMA TablesStep ==
    ASSUME TablesFixed, [ReadoutNext]_readoutVars
    PROVE  /\ TablesFixed'
           /\ pc # "setup" => UNCHANGED <<vars, option>> /\ pc' # "setup"
           /\ (pc = "setup" /\ ~EnterFrontEnds /\ ~StartReadout) => UNCHANGED vars
<1>1. option' = option
  BY OptionKept
<1>2. CASE EnterFrontEnds
  BY <1>1, <1>2 DEF EnterFrontEnds, TablesFixed
<1>3. CASE StartReadout
  BY <1>1, <1>3 DEF StartReadout, TablesFixed, vars
<1>4. CASE ~EnterFrontEnds /\ ~StartReadout
  <2>1. UNCHANGED vars
    BY <1>4 DEF ReadoutNext, readoutVars, MainStep, TriggerStep, TriggerRest, MonitorStep,
           Interrupt, ReceiverStep
  <2>2. pc # "setup" <=> pc' # "setup"
    BY <1>4 DEF ReadoutNext, readoutVars, MainStep, TriggerStep, TriggerRest, MonitorStep,
           Interrupt, ReceiverStep, FlushBuffer, DisableRx, StartTrigger, BeginPass, ReadData,
           NextThread, Gather, Discard, Accumulate, GetCurCount, EndCycle, StopTrigger
  <2> QED BY <1>1, <2>1, <2>2 DEF TablesFixed, vars
<1> QED BY <1>2, <1>3, <1>4

(* addFe enters the id under its channel; what delFe leaves has its type. *)
LEMMA RouteStep ==
    ASSUME BookInv, RouteInv, [Next]_vars
    PROVE  RouteInv'
<1>1. /\ rxToIdMap \in [Channels -> Seq(Nat)] /\ deletions \in 0..MaxDel /\ MaxDel \in Nat
      /\ bookEntries \in Seq(Entry)
  BY BookkeeperAssumption DEF RouteInv, BookInv, TablesInv
<1>2. CASE UNCHANGED vars
  BY <1>2 DEF RouteInv, vars, OnChannel
<1>3. ASSUME NEW fe \in FrontEnds, NEW rx \in Channels, AddFe(fe, rx)
      PROVE  RouteInv'
  <2> DEFINE uid == Len(bookEntries)
             e == BookEntry(fe, rx)
  <2>1. /\ bookEntries' = Append(bookEntries, e) /\ deletions' = deletions
        /\ rxToIdMap' = [rxToIdMap EXCEPT ![rx] = Append(@, uid)]
    BY <1>3 DEF AddFe
  <2>2. uid \in Nat /\ DOMAIN bookEntries = 1..uid /\ e \in Entry /\ e.rxChannel = rx
    BY <1>1 DEF BookEntry, Entry
  <2>3. /\ DOMAIN bookEntries' = 1..(uid + 1)
        /\ \A i \in 1..uid : bookEntries'[i] = bookEntries[i]
        /\ bookEntries'[uid + 1] = e
    BY <1>1, <2>1, <2>2, AppendProperties
  <2> HIDE DEF uid, e
  <2>4. Append(rxToIdMap[rx], uid) \in Seq(Nat)
    BY <1>1, <2>2
  <2>5. rxToIdMap' \in [Channels -> Seq(Nat)]
    BY <1>1, <2>1, <2>4
  <2>6. ASSUME NEW c \in Channels
        PROVE  OnChannel(c)' = OnChannel(c) \cup (IF c = rx THEN {uid + 1} ELSE {})
    <3>1. \A i \in 1..(uid + 1) : i \in 1..uid \/ i = uid + 1
      BY <2>2
    <3>2. uid + 1 \notin 1..uid /\ \A i \in 1..uid : i \in 1..(uid + 1)
      BY <2>2
    <3> QED BY <2>2, <2>3, <3>1, <3>2 DEF OnChannel
  <2>7. ASSUME NEW c \in Channels, ToSet(rxToIdMap[c]) = {Id(i) : i \in OnChannel(c)}
        PROVE  ToSet(rxToIdMap'[c]) = {Id(i) : i \in OnChannel(c)'}
    <3>1. CASE c # rx
      BY <1>1, <2>1, <2>6, <2>7, <3>1
    <3>2. CASE c = rx
      <4> DEFINE s == rxToIdMap[rx]
      <4>1. s \in Seq(Nat) /\ rxToIdMap'[c] = Append(s, uid)
        BY <1>1, <2>1, <3>2
      <4>2. /\ DOMAIN s = 1..Len(s) /\ Len(s) \in Nat
            /\ DOMAIN Append(s, uid) = 1..(Len(s) + 1)
            /\ \A i \in 1..Len(s) : Append(s, uid)[i] = s[i]
            /\ Append(s, uid)[Len(s) + 1] = uid
        <5> HIDE DEF s
        <5> QED BY <2>2, <4>1, AppendProperties
      <4> HIDE DEF s
      <4>3. ToSet(Append(s, uid)) = ToSet(s) \cup {uid}
        <5>1. \A i \in 1..(Len(s) + 1) : i \in 1..Len(s) \/ i = Len(s) + 1
          BY <4>2
        <5>2. \A i \in 1..Len(s) : i \in 1..(Len(s) + 1)
          BY <4>2
        <5>3. Len(s) + 1 \in 1..(Len(s) + 1)
          BY <4>2
        <5> QED BY <4>2, <5>1, <5>2, <5>3 DEF ToSet
      <4>4. Id(uid + 1) = uid
        BY <2>2 DEF Id
      <4> QED BY <2>6, <2>7, <3>2, <4>1, <4>3, <4>4 DEF s
    <3> QED BY <3>1, <3>2
  <2> QED BY <1>1, <2>1, <2>5, <2>7 DEF RouteInv
<1>4. ASSUME NEW id, NEW map, Erase(id, map), deletions < MaxDel, deletions' = deletions + 1
      PROVE  RouteInv'
  <2>1. deletions' \in 0..MaxDel /\ deletions' # 0
    BY <1>1, <1>4
  <2>2. rxToIdMap' \in [Channels -> Seq(Nat)]
    <3>1. CASE UNCHANGED rxToIdMap
      BY <1>1, <3>1
    <3>2. ASSUME NEW rx, rxToIdMap' = [rxToIdMap EXCEPT ![rx] = Selected(@, Nat \ {id})]
          PROVE  rxToIdMap' \in [Channels -> Seq(Nat)]
      <4>1. CASE rx \in Channels
        <5>1. Selected(rxToIdMap[rx], Nat \ {id}) \in Seq(Nat)
          <6> DEFINE s == rxToIdMap[rx]
          <6>1. s \in Seq(Nat) /\ \A e \in Nat : e \in Nat \ {id} => e \in Nat
            BY <1>1, <4>1
          <6> HIDE DEF s
          <6>2. Selected(s, Nat \ {id}) \in Seq(Nat)
            BY <6>1, SelectedType
          <6> QED BY <6>2 DEF s
        <5> QED BY <1>1, <3>2, <4>1, <5>1
      <4>2. CASE rx \notin Channels
        BY <1>1, <3>2, <4>2
      <4> QED BY <4>1, <4>2
    <3> QED BY <1>4, <3>1, <3>2 DEF Erase
  <2> QED BY <2>1, <2>2 DEF RouteInv
<1>5. CASE \E id \in 0..Len(bookEntries) : DelFe(id)
  BY <1>4, <1>5 DEF DelFe
<1>6. CASE \E fe \in FrontEnds : DelFePtr(fe)
  BY <1>4, <1>6 DEF DelFePtr
<1> QED BY <1>2, <1>3, <1>5, <1>6 DEF Next

----------------------------------------------------------------------------
(* Where packets are *)

(* Before the read-out begins only the Bookkeeper is at work. *)
LEMMA SetupOnly ==
    ASSUME BookInv, Types, BurstInv, SetupInv, pc = "setup", [ReadoutNext]_readoutVars
    PROVE  EnterFrontEnds \/ StartReadout \/ UNCHANGED readoutVars
<1>1. /\ link = [c \in Channels |-> <<>>] /\ rcv = [t \in Threads |-> Idle] /\ trig.at = "off"
  BY DEF SetupInv, BurstInv
<1>2. \A c \in UsedChannels : link[c] = <<>>
  BY <1>1, UsedAreChannels
<1>3. ASSUME NEW t \in Threads, ReceiverStep(t) PROVE FALSE
  <2>1. rcv[t].at = "idle"
    BY <1>1 DEF Idle
  <2> QED BY <1>2, <1>3, <2>1 DEF ReceiverStep, Callback, Receive, ExecuteLoop
<1>4. ~TriggerStep /\ ~TimeUp
  BY <1>1 DEF TriggerStep, TriggerTest, Trigger, DoTrigger, TriggerEnd, TimeUp
<1>5. ~MonitorStep /\ ~Interrupt
  BY DEF MonitorStep, MonitorLoad, MonitorCompare, MonitorStop, Interrupt, SetupInv, MonitorIdle
<1>6. ~MainStep
  BY DEF MainStep, FlushBuffer, DisableRx, StartTrigger, BeginPass, ReadData, Gather, Discard,
         Accumulate, GetCurCount, EndCycle, StopTrigger
<1> QED BY <1>3, <1>4, <1>5, <1>6 DEF ReadoutNext

(* All is as it was at the beginning until then. *)
LEMMA SetupStep ==
    ASSUME BookInv, Types, BurstInv, SetupInv, TablesFixed, [ReadoutNext]_readoutVars
    PROVE  SetupInv'
<1> SUFFICES ASSUME pc' = "setup" PROVE SetupInv'
  BY DEF SetupInv
<1>1. pc = "setup"
  BY TablesStep
<1>2. option' = option /\ Threads' = Threads
  BY OptionKept
<1>3. ScanIds' = ScanIds /\ NoReader' = NoReader
  BY <1>2 DEF ScanIds, NoReader
<1>4. UNCHANGED <<sent, dropped, link, rcv, m_rawData, reader, clip, monitor>>
  <2>1. ~StartReadout
    BY DEF StartReadout
  <2> QED BY <1>1, <2>1, SetupOnly DEF EnterFrontEnds, readoutVars, rxVars, trigVars
<1> QED BY <1>1, <1>2, <1>3, <1>4 DEF SetupInv

(* There are two controllers. *)
LEMMA Controllers == ASSUME option \in Options PROVE Emu <=> ~Felix
BY ReadoutAssumption DEF Emu, Felix

(* Packets on their way through the receivers. *)
LEMMA ReceiverPlace ==
    ASSUME BookInv, Types, EmuInv, PlaceInv, pc # "setup", NEW t \in Threads, ReceiverStep(t)
    PROVE  PlaceInv'
<1>1. UNCHANGED <<vars, option>> /\ reader' = reader /\ pc' = pc
  BY DEF ReceiverStep
<1>2. /\ UsedChannels' = UsedChannels /\ Threads' = Threads
      /\ ReadPackets' = ReadPackets
      /\ \A c : LinkPackets(c)' = LinkPackets(c)
      /\ \A u : ThreadPackets(u)' = ThreadPackets(u) /\ HeldPackets(u)' = HeldPackets(u)
  BY <1>1, TablesKept
<1>3. /\ \A c \in Channels : link[c] \in Seq(LinkPackets(c))
      /\ \A u \in Threads :
             /\ m_rawData[u] \in Seq(ThreadPackets(u))
             /\ rcv[u].at = "idle" => rcv[u].packet = NoPacket
             /\ rcv[u].at # "idle" => rcv[u].packet \in HeldPackets(u)
      /\ reader.got \in Seq(ReadPackets)
  BY DEF PlaceInv
<1>4. /\ link \in [Channels -> Seq(Packets)] /\ rcv \in [Threads -> Receivers]
      /\ m_rawData \in [Threads -> Seq(Packets)] /\ option \in Options
  BY DEF Types, RxTypes, Receivers, MainTypes
<1> DEFINE LinkKept == \A c \in Channels : link'[c] \in Seq(LinkPackets(c))
           QueueKept == \A u \in Threads : m_rawData'[u] \in Seq(ThreadPackets(u))
           HeldKept == \A u \in Threads :
                          /\ rcv'[u].at = "idle" => rcv'[u].packet = NoPacket
                          /\ rcv'[u].at # "idle" => rcv'[u].packet \in HeldPackets(u)
<1>5. SUFFICES LinkKept /\ QueueKept /\ HeldKept
  BY <1>1, <1>2, <1>3 DEF PlaceInv
<1>6. ASSUME NEW c \in UsedChannels, link[c] # <<>>, ThreadOf(c) = t
      PROVE  /\ c \in Channels /\ Head(link[c]) \in HeldPackets(t)
             /\ \A u \in Channels : [link EXCEPT ![c] = Tail(@)][u] \in Seq(LinkPackets(u))
  <2>1. c \in Channels
    BY UsedAreChannels
  <2> DEFINE l == link[c]
             L == LinkPackets(c)
  <2>2. l \in Seq(L) /\ l # <<>>
    BY <1>3, <1>6, <2>1
  <2> HIDE DEF l, L
  <2>3. Head(l) \in L /\ Tail(l) \in Seq(L)
    BY <2>2
  <2>4. Head(l) \in HeldPackets(t)
    <3>1. \A p \in L : p \in [chn : UsedChannels, n : Nat] /\ p.chn = c /\ (Felix => p.n # 0)
      BY DEF L, LinkPackets
    <3> QED BY <1>6, <2>3, <3>1 DEF HeldPackets
  <2> QED BY <1>3, <1>4, <2>1, <2>3, <2>4 DEF l, L
<1>7. ASSUME NEW p \in ThreadPackets(t)
      PROVE  \A u \in Threads : [m_rawData EXCEPT ![t] = Append(@, p)][u] \in Seq(ThreadPackets(u))
  <2> DEFINE q == m_rawData[t]
             Q == ThreadPackets(t)
  <2>1. q \in Seq(Q)
    BY <1>3
  <2> HIDE DEF q
  <2>2. Append(q, p) \in Seq(Q)
    BY <1>7, <2>1
  <2> HIDE DEF Q
  <2> QED BY <1>3, <1>4, <2>2 DEF q, Q
<1>8. \A u \in Threads : rcv[u] = [at |-> rcv[u].at, packet |-> rcv[u].packet]
  BY <1>4 DEF Receivers
<1>9. Idle.at = "idle" /\ Idle.packet = NoPacket
  BY DEF Idle
<1>10. CASE Callback(t)
  <2>1. link' = link
    BY <1>10 DEF Callback
  <2>2. CASE rcv[t].at = "count" /\ rcv' = [rcv EXCEPT ![t].at = "push"] /\ m_rawData' = m_rawData
    <3>1. \A u \in Threads : rcv'[u].packet = rcv[u].packet /\ (u # t => rcv'[u] = rcv[u])
      BY <1>4, <2>2 DEF Receivers
    <3>2. rcv'[t].at = "push"
      BY <1>4, <2>2 DEF Receivers
    <3>3. HeldKept
      BY <1>3, <2>2, <3>1, <3>2
    <3> QED BY <1>3, <2>1, <2>2, <3>3
  <2>3. CASE /\ rcv[t].at = "push" /\ rcv' = [rcv EXCEPT ![t] = Idle]
             /\ m_rawData' = [m_rawData EXCEPT ![t] = Append(@, rcv[t].packet)]
    <3>1. HeldKept
      BY <1>3, <1>4, <1>9, <2>3
    <3>2. Felix
      <4>1. Emu => t = 1
        BY <1>4, OptionTypes
      <4> QED BY <1>4, <2>3, <4>1, Controllers DEF EmuInv
    <3>3. rcv[t].packet \in ThreadPackets(t)
      <4>1. rcv[t].packet \in HeldPackets(t)
        BY <1>3, <2>3
      <4> QED BY <3>2, <4>1 DEF HeldPackets, ThreadPackets, ReadPackets
    <3>4. QueueKept
      BY <1>7, <2>3, <3>3
    <3> QED BY <1>3, <2>1, <3>1, <3>4
  <2> QED BY <1>10, <2>2, <2>3 DEF Callback
<1>11. ASSUME NEW c \in UsedChannels, Receive(c), ThreadOf(c) = t
       PROVE  LinkKept /\ QueueKept /\ HeldKept
  <2>1. link[c] # <<>> /\ link' = [link EXCEPT ![c] = Tail(@)] /\ m_rawData' = m_rawData
    BY <1>11 DEF Receive
  <2>2. rcv' = rcv \/ rcv' = [rcv EXCEPT ![t] = [at |-> "count", packet |-> Head(link[c])]]
    BY <1>11 DEF Receive
  <2>3. LinkKept /\ QueueKept
    BY <1>3, <1>6, <1>11, <2>1
  <2>4. Head(link[c]) \in HeldPackets(t)
    BY <1>6, <1>11, <2>1
  <2>5. HeldKept
    <3>1. CASE rcv' = rcv
      BY <1>3, <3>1
    <3>2. CASE rcv' = [rcv EXCEPT ![t] = [at |-> "count", packet |-> Head(link[c])]]
      BY <1>3, <1>4, <2>4, <3>2
    <3> QED BY <2>2, <3>1, <3>2
  <2> QED BY <2>3, <2>5
<1>12. ASSUME NEW c \in UsedChannels, ExecuteLoop(c), ThreadOf(c) = t
       PROVE  LinkKept /\ QueueKept /\ HeldKept
  <2>1. Emu /\ link[c] # <<>> /\ t = 1 /\ ~Felix
    BY <1>4, <1>12, OptionTypes, Controllers DEF ExecuteLoop
  <2>2. CASE /\ link' = [link EXCEPT ![c] = Tail(@)] /\ m_rawData' = m_rawData
             /\ rcv' = [rcv EXCEPT ![1] = [at |-> "half", packet |-> Head(link[c])]]
    <3>1. LinkKept /\ QueueKept
      BY <1>3, <1>6, <1>12, <2>1, <2>2
    <3>2. Head(link[c]) \in HeldPackets(t)
      BY <1>6, <1>12, <2>1
    <3>3. HeldKept
      BY <1>3, <1>4, <2>1, <2>2, <3>2
    <3> QED BY <3>1, <3>3
  <2>3. CASE /\ rcv[1].at = "half" /\ rcv' = [rcv EXCEPT ![1] = Idle] /\ link' = link
             /\ \/ rcv[1].packet = Padding(c) /\ m_rawData' = m_rawData
                \/ /\ rcv[1].packet # Padding(c)
                   /\ m_rawData' = [m_rawData EXCEPT ![1] = Append(@, rcv[1].packet)]
    <3>1. LinkKept
      BY <1>3, <2>3
    <3>2. HeldKept
      BY <1>3, <1>4, <1>9, <2>1, <2>3
    <3>3. rcv[t].packet # Padding(c) => rcv[t].packet \in ThreadPackets(t)
      <4> DEFINE p == rcv[t].packet
      <4>1. p \in [chn : UsedChannels, n : Nat] /\ ThreadOf(p.chn) = t
        BY <1>3, <2>1, <2>3 DEF HeldPackets
      <4> HIDE DEF p
      <4>2. p.chn = c
        BY <2>1, <4>1 DEF EmuInv
      <4>3. p = [chn |-> p.chn, n |-> p.n]
        BY <4>1
      <4>4. p # Padding(c) => p.n # 0
        BY <4>2, <4>3 DEF Padding
      <4>5. p # Padding(c) => p \in ThreadPackets(t)
        BY <4>1, <4>4 DEF ThreadPackets, ReadPackets
      <4> QED BY <4>5 DEF p
    <3>4. QueueKept
      BY <1>3, <1>7, <2>1, <2>3, <3>3
    <3> QED BY <3>1, <3>2, <3>4
  <2>4. \/ /\ link' = [link EXCEPT ![c] = Tail(@)] /\ m_rawData' = m_rawData
           /\ rcv' = [rcv EXCEPT ![1] = [at |-> "half", packet |-> Head(link[c])]]
        \/ /\ rcv[1].at = "half" /\ rcv' = [rcv EXCEPT ![1] = Idle] /\ link' = link
           /\ \/ rcv[1].packet = Padding(c) /\ m_rawData' = m_rawData
              \/ /\ rcv[1].packet # Padding(c)
                 /\ m_rawData' = [m_rawData EXCEPT ![1] = Append(@, rcv[1].packet)]
    BY <1>12 DEF ExecuteLoop
  <2> QED BY <2>2, <2>3, <2>4
<1> QED BY <1>10, <1>11, <1>12 DEF ReceiverStep

(* Packets the trigger thread sends. *)
LEMMA TriggerPlace ==
    ASSUME BookInv, Types, PlaceInv, pc # "setup",
           TriggerTest \/ Trigger \/ DoTrigger \/ TriggerEnd \/ TimeUp, TriggerRest
    PROVE  PlaceInv'
<1>1. UNCHANGED <<vars, option>> /\ UNCHANGED <<reader, pc, rcv, m_rawData>>
  BY DEF TriggerRest
<1>2. /\ Threads' = Threads
      /\ ReadPackets' = ReadPackets
      /\ \A c : LinkPackets(c)' = LinkPackets(c)
      /\ \A u : ThreadPackets(u)' = ThreadPackets(u) /\ HeldPackets(u)' = HeldPackets(u)
  BY <1>1, TablesKept
<1>3. \A c \in Channels : link[c] \in Seq(LinkPackets(c))
  BY DEF PlaceInv
<1>4. sent \in [Channels -> Nat] /\ link \in [Channels -> Seq(Packets)] /\ option \in Options
  BY DEF Types, RxTypes, TrigTypes, MainTypes
<1>5. SUFFICES ASSUME NEW c \in Channels PROVE link'[c] \in Seq(LinkPackets(c))
  BY <1>1, <1>2 DEF PlaceInv
<1>6. ASSUME NEW p \in LinkPackets(c) PROVE Append(link[c], p) \in Seq(LinkPackets(c))
  BY <1>3, <1>6
<1>7. CASE link' = link
  BY <1>3, <1>7
<1>8. CASE Trigger
  <2>1. CASE /\ sent' = [d \in Channels |-> IF d \in UsedChannels THEN sent[d] + 1 ELSE sent[d]]
             /\ link' = [d \in Channels |->
                           IF d \in UsedChannels
                           THEN Append(link[d], [chn |-> d, n |-> sent'[d]]) ELSE link[d]]
    <3>1. c \in UsedChannels => sent'[c] \in Nat \ {0}
      BY <1>4, <2>1
    <3>2. c \in UsedChannels => [chn |-> c, n |-> sent'[c]] \in LinkPackets(c)
      BY <3>1 DEF LinkPackets
    <3> QED BY <1>3, <1>6, <2>1, <3>2
  <2> QED BY <1>7, <1>8, <2>1 DEF Trigger
<1>9. CASE DoTrigger
  <2>1. Padding(c) \in LinkPackets(c)
    BY <1>4, <1>9, Controllers DEF DoTrigger, LinkPackets, Padding
  <2> QED BY <1>3, <1>6, <1>7, <1>9, <2>1 DEF DoTrigger
<1> QED BY <1>7, <1>8, <1>9 DEF TriggerTest, TriggerEnd, TimeUp

(* What the main thread leaves of the reader's packets, and what it reads. *)
LEMMA MainGot ==
    ASSUME Types, MainStep, ~ReadData
    PROVE  UNCHANGED <<link, rcv, m_rawData>> /\ reader'.got \in {reader.got, <<>>}
<1>1. "got" \in DOMAIN reader /\ option \in Options
  BY DEF Types, ReaderTypes, MainTypes
<1>2. UNCHANGED <<link, rcv, m_rawData>>
  BY DEF MainStep, FlushBuffer, DisableRx, StartTrigger, BeginPass, Gather, Discard,
         Accumulate, GetCurCount, EndCycle, StopTrigger, rxVars
<1>3. CASE FlushBuffer \/ DisableRx \/ StopTrigger
  BY <1>2, <1>3 DEF FlushBuffer, DisableRx, StopTrigger
<1>4. CASE StartTrigger \/ EndCycle
  <2>1. reader' = NoReader
    BY <1>4 DEF StartTrigger, EndCycle
  <2> QED BY <1>1, <1>2, <2>1, NoReaderTypes
<1>5. CASE BeginPass \/ GetCurCount
  BY <1>1, <1>2, <1>5 DEF BeginPass, GetCurCount
<1>6. CASE Gather \/ Discard \/ Accumulate
  BY <1>1, <1>2, <1>6 DEF Gather, Discard, Accumulate
<1> QED BY <1>2, <1>3, <1>4, <1>5, <1>6 DEF MainStep

(* Packets the main thread reads. *)
LEMMA MainPlace ==
    ASSUME BookInv, Types, PlaceInv, pc # "setup", MainStep
    PROVE  PlaceInv'
<1>1. UNCHANGED <<vars, option>>
  BY DEF MainStep
<1>2. /\ Threads' = Threads
      /\ ReadPackets' = ReadPackets
      /\ \A c : LinkPackets(c)' = LinkPackets(c)
      /\ \A u : ThreadPackets(u)' = ThreadPackets(u) /\ HeldPackets(u)' = HeldPackets(u)
  BY <1>1, TablesKept
<1>3. /\ \A u \in Threads : m_rawData[u] \in Seq(ThreadPackets(u))
      /\ reader.got \in Seq(ReadPackets) /\ <<>> \in Seq(ReadPackets)
  BY DEF PlaceInv
<1>4. /\ m_rawData \in [Threads -> Seq(Packets)] /\ reader.t \in Threads /\ "got" \in DOMAIN reader
      /\ DOMAIN reader = {"t", "got", "rdcMap", "reads", "count", "receiving", "cur", "due"}
  BY DEF Types, RxTypes, ReaderTypes
<1>5. CASE ~ReadData
  BY <1>2, <1>3, <1>5, MainGot DEF PlaceInv
<1>6. CASE ReadData
  <2> DEFINE t == reader.t
             q == m_rawData[t]
             Q == ThreadPackets(t)
             g == reader.got
  <2>1. UNCHANGED <<link, rcv>>
    BY <1>6 DEF ReadData, rxVars
  <2>2. q \in Seq(Q) /\ t \in Threads /\ \A p \in Q : p \in ReadPackets
    BY <1>3, <1>4 DEF ThreadPackets
  <2>3. SUFFICES /\ reader'.got \in Seq(ReadPackets)
                 /\ \A u \in Threads : m_rawData'[u] \in Seq(ThreadPackets(u))
    BY <1>2, <2>1 DEF PlaceInv
  <2>4. CASE reader' = [reader EXCEPT !.got = q] /\ m_rawData' = [m_rawData EXCEPT ![t] = <<>>]
    <3>1. reader'.got = q
      BY <1>4, <2>4
    <3> HIDE DEF q, Q
    <3>2. q \in Seq(ReadPackets)
      BY <2>2, SeqMonotonic
    <3> QED BY <1>3, <1>4, <2>2, <2>4, <3>1, <3>2
  <2>5. CASE /\ q # <<>> /\ m_rawData' = [m_rawData EXCEPT ![t] = Tail(@)]
             /\ reader' = [reader EXCEPT !.got = Append(@, Head(q))]
    <3>1. reader'.got = Append(g, Head(q))
      BY <1>4, <2>5
    <3>2. Head(q) \in Q /\ Tail(q) \in Seq(Q)
      <4> HIDE DEF q, Q
      <4> QED BY <2>2, <2>5
    <3>3. Append(g, Head(q)) \in Seq(ReadPackets)
      <4>1. g \in Seq(ReadPackets)
        BY <1>3
      <4> HIDE DEF q, Q, g
      <4> QED BY <2>2, <3>2, <4>1
    <3> QED BY <1>3, <1>4, <2>5, <3>1, <3>2, <3>3
  <2>6. CASE reader'.got = reader.got /\ m_rawData' = m_rawData
    BY <1>3, <2>6
  <2> QED BY <1>4, <1>6, <2>4, <2>5, <2>6 DEF ReadData, NextThread, rxVars
<1> QED BY <1>5, <1>6

(* Every step. *)
LEMMA PlaceStep ==
    ASSUME BookInv, Types, BurstInv, EmuInv, SetupInv, TablesFixed, PlaceInv, [ReadoutNext]_readoutVars
    PROVE  PlaceInv'
<1> SUFFICES ASSUME pc' # "setup" PROVE PlaceInv'
  BY DEF PlaceInv
<1>1. CASE pc = "setup"
  <2>1. StartReadout
    BY <1>1, SetupOnly DEF EnterFrontEnds, readoutVars
  <2>2. UNCHANGED <<link, rcv, m_rawData, reader, option>>
    BY <2>1 DEF StartReadout
  <2>3. /\ link = [c \in Channels |-> <<>>] /\ rcv = [t \in Threads |-> Idle]
        /\ m_rawData = [t \in Threads |-> <<>>] /\ reader = NoReader
    BY <1>1 DEF SetupInv
  <2>4. Threads' = Threads /\ NoReader.got = <<>> /\ Idle.at = "idle" /\ Idle.packet = NoPacket
    BY <2>2, NoReaderTypes DEF Threads, Idle, Types, MainTypes
  <2>5. \A S : <<>> \in Seq(S)
    OBVIOUS
  <2> QED BY <2>2, <2>3, <2>4, <2>5 DEF PlaceInv
<1>2. CASE pc # "setup"
  <2>1. UNCHANGED <<vars, option>>
    BY <1>2, TablesStep
  <2>2. CASE UNCHANGED <<link, rcv, m_rawData, reader>>
    <3>1. /\ Threads' = Threads /\ ReadPackets' = ReadPackets
          /\ \A c : LinkPackets(c)' = LinkPackets(c)
          /\ \A u : ThreadPackets(u)' = ThreadPackets(u) /\ HeldPackets(u)' = HeldPackets(u)
      BY <2>1, TablesKept
    <3> QED BY <1>2, <2>2, <3>1 DEF PlaceInv
  <2>3. CASE MainStep
    BY <1>2, <2>3, MainPlace
  <2>4. CASE TriggerStep \/ (TimeUp /\ TriggerRest)
    BY <1>2, <2>4, TriggerPlace DEF TriggerStep
  <2>5. CASE \E t \in Threads : ReceiverStep(t)
    BY <1>2, <2>5, ReceiverPlace
  <2>6. CASE MonitorStep \/ Interrupt \/ UNCHANGED readoutVars
    BY <2>2, <2>6 DEF MonitorStep, MonitorLoad, MonitorCompare, MonitorStop, Interrupt, readoutVars, rxVars
  <2> QED BY <1>2, <2>3, <2>4, <2>5, <2>6 DEF ReadoutNext, EnterFrontEnds, StartReadout
<1> QED BY <1>1, <1>2

----------------------------------------------------------------------------
(* What is handed over *)

(* The packets in the containers of a clipboard. *)
Content(s) == FlattenSeq([k \in DOMAIN s |-> s[k].data])

(* A container adds its packets; a marker has none. *)
LEMMA ContentFacts ==
    /\ Content(<<>>) = <<>>
    /\ \A s \in Seq(Boxes) : Content(s) \in Seq(Packets)
    /\ \A s \in Seq(Boxes), b \in Boxes : Content(Append(s, b)) = Cat(Content(s), b.data)
<1>1. Content(<<>>) = <<>>
  <2>1. [k \in DOMAIN <<>> |-> <<>>[k].data] = <<>>
    OBVIOUS
  <2> QED BY <2>1, FlattenEmpty DEF Content
<1>2. ASSUME NEW s \in Seq(Boxes)
      PROVE  [k \in DOMAIN s |-> s[k].data] \in Seq(Seq(Packets))
  <2>1. \A k \in 1..Len(s) : s[k] \in Boxes
    OBVIOUS
  <2>2. \A k \in 1..Len(s) : s[k].data \in Seq(Packets)
    BY <2>1 DEF Boxes
  <2> QED BY <2>2
<1>3. ASSUME NEW s \in Seq(Boxes), NEW b \in Boxes
      PROVE  Content(Append(s, b)) = Cat(Content(s), b.data)
  <2> DEFINE n == Len(s)
             ss == [k \in DOMAIN s |-> s[k].data]
             t == Append(s, b)
             tt == [k \in DOMAIN t |-> t[k].data]
             x == b.data
  <2>1. /\ DOMAIN s = 1..n /\ n \in Nat /\ t \in Seq(Boxes)
        /\ DOMAIN t = 1..(n + 1)
        /\ \A k \in 1..n : t[k] = s[k]
        /\ t[n + 1] = b
    BY AppendProperties
  <2>2. x \in Seq(Packets)
    BY DEF Boxes
  <2>3. ss \in Seq(Seq(Packets)) /\ tt \in Seq(Seq(Packets))
    <3> HIDE DEF t
    <3> QED BY <1>2, <2>1
  <2>4. Len(ss) = n /\ Len(tt) = n + 1
    <3> HIDE DEF t
    <3> QED BY <2>1
  <2>5. /\ \A k \in 1..n : tt[k] = ss[k]
        /\ tt[n + 1] = x
    <3> HIDE DEF t
    <3> QED BY <2>1
  <2> HIDE DEF tt, ss, t, x, n
  <2>6. /\ Append(ss, x) \in Seq(Seq(Packets)) /\ Len(Append(ss, x)) = n + 1
        /\ \A k \in 1..n : Append(ss, x)[k] = ss[k]
        /\ Append(ss, x)[n + 1] = x
    BY <2>2, <2>3, <2>4, AppendProperties
  <2>7. \A k \in 1..(n + 1) : tt[k] = Append(ss, x)[k]
    BY <2>1, <2>5, <2>6
  <2>8. tt = Append(ss, x)
    BY <2>3, <2>4, <2>6, <2>7, SeqEqual
  <2> QED BY <2>2, <2>3, <2>8, FlattenAppend DEF Content, Cat, tt, ss, t, x
<1>4. \A s \in Seq(Boxes) : Content(s) \in Seq(Packets)
  BY <1>2, FlattenType DEF Content
<1> QED BY <1>1, <1>3, <1>4

(* What is pushed: the packets that were waiting for each front end. *)
LEMMA PushFacts ==
    ASSUME clip \in [ScanIds -> Seq(Boxes)], NEW map \in [ScanIds -> Seq(Packets)],
           NEW marker \in BOOLEAN
    PROVE  /\ PushChunks(map, marker) \in [ScanIds -> Seq(Boxes)]
           /\ \A id \in ScanIds :
                 Content(PushChunks(map, marker)[id]) = Cat(Content(clip[id]), map[id])
<1>1. \A id \in ScanIds : Data(map[id]) \in Boxes /\ Data(map[id]).data = map[id]
  BY DEF Data, Boxes
<1>2. EoI \in Boxes /\ EoI.data = <<>>
  BY DEF EoI, Boxes
<1>3. ASSUME NEW id \in ScanIds
      PROVE  /\ PushChunks(map, marker)[id] \in Seq(Boxes)
             /\ Content(PushChunks(map, marker)[id]) = Cat(Content(clip[id]), map[id])
  <2> DEFINE s == clip[id]
             x == map[id]
             b == Data(x)
             e == EoI
             p == PushChunks(map, marker)[id]
  <2>1. /\ s \in Seq(Boxes) /\ x \in Seq(Packets) /\ b \in Boxes /\ b.data = x
        /\ e \in Boxes /\ e.data = <<>>
    BY <1>1, <1>2
  <2>2. p = IF x = <<>> THEN s ELSE s \o IF marker THEN <<b, e>> ELSE <<b>>
    BY DEF PushChunks
  <2> HIDE DEF s, x, b, e, p
  <2>3. s \o <<b>> = Append(s, b) /\ Append(s, b) \in Seq(Boxes)
    BY <2>1, AppendIsConcat
  <2>4. s \o <<b, e>> = Append(Append(s, b), e) /\ Append(Append(s, b), e) \in Seq(Boxes)
    <3> DEFINE one == <<b>>
    <3>1. <<b, e>> = Append(one, e) /\ one \in Seq(Boxes)
      BY <2>1
    <3> HIDE DEF one
    <3>2. s \o Append(one, e) = Append(s \o one, e)
      BY <2>1, <3>1, ConcatAppend
    <3>3. s \o one = Append(s, b)
      BY <2>3 DEF one
    <3> DEFINE sb == Append(s, b)
    <3>4. sb \in Seq(Boxes)
      BY <2>3
    <3> HIDE DEF sb
    <3>5. Append(sb, e) \in Seq(Boxes)
      BY <2>1, <3>4
    <3> QED BY <3>1, <3>2, <3>3, <3>5 DEF sb
  <2>5. Content(s) \in Seq(Packets)
    BY <2>1, ContentFacts
  <2>6. Content(Append(s, b)) = Cat(Content(s), x) /\ Cat(Content(s), x) \in Seq(Packets)
    BY <2>1, <2>5, ContentFacts, CatFacts
  <2>7. Content(Append(Append(s, b), e)) = Cat(Cat(Content(s), x), <<>>)
    <3> DEFINE sb == Append(s, b)
    <3>1. sb \in Seq(Boxes) /\ Content(sb) = Cat(Content(s), x)
      BY <2>3, <2>6
    <3> HIDE DEF sb
    <3>2. Content(Append(sb, e)) = Cat(Content(sb), e.data)
      BY <2>1, <3>1, ContentFacts
    <3> QED BY <2>1, <3>1, <3>2 DEF sb
  <2>8. /\ Cat(Cat(Content(s), x), <<>>) = Cat(Content(s), x)
        /\ Cat(Content(s), <<>>) = Content(s)
    BY <2>5, <2>6, CatFacts
  <2>9. CASE x = <<>>
    BY <2>1, <2>2, <2>8, <2>9 DEF s, x, p
  <2>10. CASE x # <<>> /\ marker = TRUE
    <3>1. p = Append(Append(s, b), e)
      BY <2>2, <2>4, <2>10
    <3> QED BY <2>4, <2>7, <2>8, <3>1 DEF s, x, p
  <2>11. CASE x # <<>> /\ marker = FALSE
    <3>1. p = Append(s, b)
      BY <2>2, <2>3, <2>11
    <3> QED BY <2>3, <2>6, <3>1 DEF s, x, p
  <2> QED BY <2>9, <2>10, <2>11
<1>4. PushChunks(map, marker) = [id \in ScanIds |-> PushChunks(map, marker)[id]]
  BY DEF PushChunks
<1> DEFINE P == PushChunks(map, marker)
<1>5. P = [id \in ScanIds |-> P[id]] /\ \A id \in ScanIds : P[id] \in Seq(Boxes)
  BY <1>3, <1>4
<1> HIDE DEF P
<1>6. P \in [ScanIds -> Seq(Boxes)]
  BY <1>5
<1> QED BY <1>3, <1>6 DEF P

(* The last markers add nothing. *)
LEMMA MarkFacts ==
    ASSUME NEW clips \in [ScanIds -> Seq(Boxes)]
    PROVE  /\ LastMarkers(clips) \in [ScanIds -> Seq(Boxes)]
           /\ \A id \in ScanIds : Content(LastMarkers(clips)[id]) = Content(clips[id])
<1>1. EoI \in Boxes /\ EoI.data = <<>>
  BY DEF EoI, Boxes
<1> DEFINE e == EoI
<1> HIDE DEF e
<1>2. ASSUME NEW id \in ScanIds
      PROVE  /\ Append(clips[id], e) \in Seq(Boxes)
             /\ Content(Append(clips[id], e)) = Content(clips[id])
  <2> DEFINE s == clips[id]
  <2>1. s \in Seq(Boxes) /\ e \in Boxes /\ e.data = <<>>
    BY <1>1 DEF e
  <2> HIDE DEF s
  <2>2. Append(s, e) \in Seq(Boxes)
    BY <2>1
  <2>3. Content(Append(s, e)) = Cat(Content(s), <<>>) /\ Content(s) \in Seq(Packets)
    BY <2>1, ContentFacts
  <2>4. Cat(Content(s), <<>>) = Content(s)
    BY <2>3, CatFacts
  <2> QED BY <2>2, <2>3, <2>4 DEF s
<1>3. LastMarkers(clips) = [id \in ScanIds |-> Append(clips[id], e)]
  BY DEF LastMarkers, e
<1> QED BY <1>2, <1>3

(* What is added for a front end: the packets that are routed to it. *)
LEMMA AddFacts ==
    ASSUME NEW map \in [ScanIds -> Seq(Packets)], NEW got \in Seq(Packets)
    PROVE  /\ AddChunks(map, got) \in [ScanIds -> Seq(Packets)]
           /\ \A id \in ScanIds : AddChunks(map, got)[id] = Cat(map[id], Selected(got, RoutedTo(id)))
           /\ \A id : Selected(got, RoutedTo(id)) \in Seq(Packets)
<1>1. ASSUME NEW id PROVE Selected(got, RoutedTo(id)) \in Seq(Packets)
  BY SelectedType
<1>2. \A id \in ScanIds : map[id] \in Seq(Packets)
  OBVIOUS
<1>3. \A id \in ScanIds : Cat(map[id], Selected(got, RoutedTo(id))) \in Seq(Packets)
  BY <1>1, <1>2, CatFacts
<1>4. AddChunks(map, got) = [id \in ScanIds |-> Cat(map[id], Selected(got, RoutedTo(id)))]
  BY DEF AddChunks, Cat
<1> QED BY <1>1, <1>3, <1>4

(* A reader with nothing to hand over. *)
LEMMA NothingWaits ==
    /\ NoReader.rdcMap = [id \in ScanIds |-> <<>>]
    /\ NoReader.rdcMap \in [ScanIds -> Seq(Packets)]
    /\ \A id \in ScanIds : NoReader.rdcMap[id] = <<>>
<1>1. NoReader.rdcMap = [id \in ScanIds |-> <<>>]
  BY DEF NoReader
<1>2. <<>> \in Seq(Packets)
  OBVIOUS
<1> QED BY <1>1, <1>2

(* The types of what the main thread keeps for the front ends. *)
HandTypes ==
    /\ clip \in [ScanIds -> Seq(Boxes)]
    /\ reader.rdcMap \in [ScanIds -> Seq(Packets)]

(* What has been handed over, in terms of the two. *)
LEMMA HandedParts ==
    ASSUME HandTypes, NEW id \in ScanIds
    PROVE  /\ Handed(id) = Cat(Content(clip[id]), reader.rdcMap[id])
           /\ Content(clip[id]) \in Seq(Packets) /\ Handed(id) \in Seq(Packets)
<1>1. Handed(id) = Cat(Content(clip[id]), reader.rdcMap[id])
  BY DEF Handed, Cat, Content
<1>2. clip[id] \in Seq(Boxes) /\ reader.rdcMap[id] \in Seq(Packets)
  BY DEF HandTypes
<1>3. Content(clip[id]) \in Seq(Packets)
  BY <1>2, ContentFacts
<1> QED BY <1>1, <1>2, <1>3, CatFacts

(* Whether a batch goes out now or later, with or without markers, what was *)
(* read is handed over.                                                     *)
LEMMA HandsOver ==
    ASSUME HandTypes, UNCHANGED option, NEW map \in [ScanIds -> Seq(Packets)],
           \/ clip' = clip /\ reader'.rdcMap = map
           \/ /\ reader'.rdcMap = NoReader.rdcMap
              /\ \E marker \in BOOLEAN :
                    clip' \in {PushChunks(map, marker), LastMarkers(PushChunks(map, marker))}
    PROVE  /\ HandTypes'
           /\ \A id \in ScanIds : Handed(id)' = Cat(Content(clip[id]), map[id])
<1>1. ScanIds' = ScanIds /\ clip \in [ScanIds -> Seq(Boxes)]
  BY DEF ScanIds, HandTypes
<1>2. ASSUME NEW id \in ScanIds
      PROVE  Handed(id)' = Cat(Content(clip'[id]), reader'.rdcMap[id])
  BY DEF Handed, Cat, Content
<1>3. CASE clip' = clip /\ reader'.rdcMap = map
  BY <1>1, <1>2, <1>3 DEF HandTypes
<1>4. ASSUME NEW marker \in BOOLEAN, reader'.rdcMap = NoReader.rdcMap,
             clip' \in {PushChunks(map, marker), LastMarkers(PushChunks(map, marker))}
      PROVE  /\ HandTypes'
             /\ \A id \in ScanIds : Handed(id)' = Cat(Content(clip[id]), map[id])
  <2> DEFINE P == PushChunks(map, marker)
  <2>1. /\ P \in [ScanIds -> Seq(Boxes)]
        /\ \A id \in ScanIds : Content(P[id]) = Cat(Content(clip[id]), map[id])
    BY <1>1, PushFacts
  <2> HIDE DEF P
  <2>2. /\ LastMarkers(P) \in [ScanIds -> Seq(Boxes)]
        /\ \A id \in ScanIds : Content(LastMarkers(P)[id]) = Content(P[id])
    BY <2>1, MarkFacts
  <2>3. /\ clip' \in [ScanIds -> Seq(Boxes)]
        /\ \A id \in ScanIds : Content(clip'[id]) = Cat(Content(clip[id]), map[id])
    BY <1>4, <2>1, <2>2 DEF P
  <2>4. ASSUME NEW id \in ScanIds
        PROVE  Handed(id)' = Cat(Content(clip[id]), map[id])
    <3>1. clip'[id] \in Seq(Boxes)
      BY <2>3
    <3>2. Content(clip'[id]) \in Seq(Packets)
      BY <3>1, ContentFacts
    <3>3. Cat(Content(clip'[id]), <<>>) = Content(clip'[id])
      BY <3>2, CatFacts
    <3> QED BY <1>2, <1>4, <2>3, <3>3, NothingWaits
  <2> QED BY <1>1, <1>4, <2>3, <2>4, NothingWaits DEF HandTypes
<1> QED BY <1>3, <1>4

(* The main thread: Gather and Accumulate hand over what was read, the      *)
(* others nothing.                                                          *)
LEMMA MainHands ==
    ASSUME Types, BookInv, CycleInv, EmuInv, PlaceInv, ReaderInv, pc # "setup", MainStep
    PROVE  /\ HandTypes'
           /\ Gather \/ Accumulate =>
                 /\ reader'.got = <<>>
                 /\ \A id \in ScanIds :
                       Handed(id)' = Cat(Handed(id), Selected(reader.got, RoutedTo(id)))
           /\ ~(Gather \/ Accumulate) => \A id \in ScanIds : Handed(id)' = Handed(id)
<1>1. HandTypes /\ UNCHANGED option /\ option \in Options /\ ScanIds' = ScanIds
  BY DEF ReaderInv, HandTypes, MainStep, Types, MainTypes, ScanIds
<1>2. DOMAIN reader = {"t", "got", "rdcMap", "reads", "count", "receiving", "cur", "due"}
  BY DEF Types, ReaderTypes
<1>3. reader.got \in Seq(Packets)
  <2>1. \A p \in ReadPackets : p \in Packets
    BY UsedAreChannels DEF ReadPackets, Packets
  <2>2. reader.got \in Seq(ReadPackets)
    BY DEF PlaceInv
  <2> QED BY <2>1, <2>2, SeqMonotonic
<1>4. CASE Gather \/ Accumulate
  <2> DEFINE map == AddChunks(reader.rdcMap, reader.got)
  <2>1. /\ map \in [ScanIds -> Seq(Packets)]
        /\ \A id \in ScanIds : map[id] = Cat(reader.rdcMap[id], Selected(reader.got, RoutedTo(id)))
        /\ \A id : Selected(reader.got, RoutedTo(id)) \in Seq(Packets)
    BY <1>1, <1>3, AddFacts DEF HandTypes
  <2>2. reader'.got = <<>>
    BY <1>2, <1>4 DEF Gather, Accumulate
  <2>3. \/ clip' = clip /\ reader'.rdcMap = map
        \/ /\ reader'.rdcMap = NoReader.rdcMap
           /\ \E marker \in BOOLEAN :
                 clip' \in {PushChunks(map, marker), LastMarkers(PushChunks(map, marker))}
    <3>1. CASE Gather
      <4> DEFINE full == reader.reads + 1 > MaxReads \/ reader.count + Len(reader.got) > MaxSize
      <4>1. CASE reader.receiving
        BY <1>2, <3>1, <4>1 DEF Gather
      <4>2. CASE ~reader.receiving
        <5>1. /\ reader'.rdcMap = NoReader.rdcMap
              /\ clip' = LastMarkers(IF full THEN PushChunks(map, TRUE) ELSE PushChunks(map, FALSE))
          BY <1>2, <3>1, <4>2 DEF Gather
        <5> HIDE DEF map, full
        <5>2. clip' = LastMarkers(PushChunks(map, TRUE)) \/ clip' = LastMarkers(PushChunks(map, FALSE))
          BY <5>1
        <5> QED BY <5>1, <5>2
      <4> QED BY <4>1, <4>2
    <3>2. CASE Accumulate
      BY <1>2, <3>2 DEF Accumulate
    <3> QED BY <1>4, <3>1, <3>2
  <2> HIDE DEF map
  <2>4. HandTypes' /\ \A id \in ScanIds : Handed(id)' = Cat(Content(clip[id]), map[id])
    BY <1>1, <2>1, <2>3, HandsOver
  <2>5. ASSUME NEW id \in ScanIds
        PROVE  Handed(id)' = Cat(Handed(id), Selected(reader.got, RoutedTo(id)))
    <3>1. /\ Handed(id) = Cat(Content(clip[id]), reader.rdcMap[id])
          /\ Content(clip[id]) \in Seq(Packets) /\ reader.rdcMap[id] \in Seq(Packets)
      BY <1>1, HandedParts DEF HandTypes
    <3> DEFINE a == Content(clip[id])
               b == reader.rdcMap[id]
               x == Selected(reader.got, RoutedTo(id))
    <3>2. a \in Seq(Packets) /\ b \in Seq(Packets) /\ x \in Seq(Packets)
      BY <2>1, <3>1
    <3>3. Handed(id)' = Cat(a, Cat(b, x)) /\ Handed(id) = Cat(a, b)
      BY <2>1, <2>4, <3>1
    <3> HIDE DEF a, b, x
    <3>4. Cat(Cat(a, b), x) = Cat(a, Cat(b, x))
      BY <3>2, CatFacts
    <3> QED BY <3>3, <3>4 DEF x
  <2> QED BY <1>4, <2>2, <2>4, <2>5
<1>5. CASE ~(Gather \/ Accumulate)
  <2>1. CASE clip' = clip /\ reader'.rdcMap = reader.rdcMap
    BY <1>1, <1>5, <2>1 DEF HandTypes, Handed
  <2>2. CASE StartTrigger
    <3>1. reader.rdcMap = NoReader.rdcMap /\ reader' = NoReader /\ clip' = clip
      BY <2>2 DEF StartTrigger, ReaderInv
    <3> QED BY <2>1, <3>1
  <2>3. CASE EndCycle
    <3>1. clip' = PushChunks(reader.rdcMap, FALSE) /\ reader'.rdcMap = NoReader.rdcMap
      BY <2>3 DEF EndCycle
    <3>2. reader.rdcMap \in [ScanIds -> Seq(Packets)]
      BY <1>1 DEF HandTypes
    <3>3. HandTypes' /\ \A id \in ScanIds : Handed(id)' = Cat(Content(clip[id]), reader.rdcMap[id])
      BY <1>1, <3>1, <3>2, HandsOver
    <3> QED BY <1>1, <1>5, <3>3, HandedParts
  <2>4. CASE FlushBuffer \/ DisableRx \/ StopTrigger \/ BeginPass \/ GetCurCount \/ Discard
    BY <1>2, <2>1, <2>4 DEF FlushBuffer, DisableRx, StopTrigger, BeginPass, GetCurCount, Discard
  <2>5. CASE ReadData
    BY <1>2, <2>1, <2>5 DEF ReadData, NextThread
  <2> QED BY <1>5, <2>2, <2>3, <2>4, <2>5 DEF MainStep
<1> QED BY <1>4, <1>5

(* Every step keeps what is said of the reader. *)
LEMMA ReaderStep ==
    ASSUME Types, BookInv, BurstInv, CycleInv, EmuInv, SetupInv, TablesFixed, PlaceInv, ReaderInv,
           [ReadoutNext]_readoutVars
    PROVE  ReaderInv'
<1>1. option' = option /\ option \in Options
  BY OptionKept DEF Types, MainTypes
<1>2. ScanIds' = ScanIds /\ NoReader' = NoReader /\ Emu' = Emu
  BY <1>1 DEF ScanIds, NoReader, Emu
<1>3. CASE UNCHANGED <<clip, reader, pc>>
  BY <1>1, <1>2, <1>3 DEF ReaderInv
<1>4. CASE pc = "setup"
  <2>1. UNCHANGED <<clip, reader>> /\ pc' \in {pc, "flush"}
    BY <1>4, SetupOnly DEF EnterFrontEnds, StartReadout, readoutVars
  <2>2. clip = [id \in ScanIds |-> <<>>] /\ reader = NoReader /\ <<>> \in Seq(Boxes)
    BY <1>4 DEF SetupInv
  <2>3. reader.got = <<>> /\ reader.rdcMap = NoReader.rdcMap
    BY <1>1, <2>2, NoReaderTypes
  <2>4. clip \in [ScanIds -> Seq(Boxes)] /\ reader.rdcMap \in [ScanIds -> Seq(Packets)]
    BY <2>2, <2>3, NothingWaits
  <2> QED BY <1>1, <1>2, <2>1, <2>3, <2>4 DEF ReaderInv
<1>5. CASE pc # "setup" /\ MainStep
  <2>1. HandTypes'
    BY <1>5, MainHands
  <2>2. DOMAIN reader = {"t", "got", "rdcMap", "reads", "count", "receiving", "cur", "due"}
    BY DEF Types, ReaderTypes
  <2> DEFINE NoGot == (pc \notin {"pop", "countOut", "process"} \/ (Emu /\ pc = "pop")) => reader.got = <<>>
             NoMap == (pc \in {"flush", "flushing", "trigger", "wait", "done"} \/ option.reader = "discard") =>
                         reader.rdcMap = NoReader.rdcMap
  <2>3. NoGot /\ NoMap
    BY DEF ReaderInv
  <2>4. SUFFICES NoGot' /\ NoMap'
    BY <1>2, <2>1 DEF ReaderInv, HandTypes
  <2>5. CASE FlushBuffer \/ DisableRx \/ StopTrigger
    BY <1>1, <1>2, <2>3, <2>5 DEF FlushBuffer, DisableRx, StopTrigger
  <2>6. CASE StartTrigger \/ EndCycle
    <3>1. reader' = NoReader
      BY <2>6 DEF StartTrigger, EndCycle
    <3> QED BY <1>1, <1>2, <3>1, NoReaderTypes
  <2>7. CASE BeginPass
    <3>1. reader'.got = reader.got /\ reader'.rdcMap = reader.rdcMap /\ pc = "test" /\ pc' = "pop"
      BY <2>2, <2>7 DEF BeginPass
    <3> QED BY <1>1, <1>2, <2>3, <3>1
  <2>8. CASE GetCurCount
    <3>1. /\ reader'.got = reader.got /\ reader'.rdcMap = reader.rdcMap /\ pc = "getCurCount"
          /\ pc' \in {"getCurCount", "push", "test"}
      BY <2>2, <2>8 DEF GetCurCount
    <3> QED BY <1>1, <1>2, <2>3, <3>1
  <2>9. CASE ReadData
    <3>1. reader'.rdcMap = reader.rdcMap /\ pc' \in {"pop", "countOut", "process"}
      BY <2>2, <2>9 DEF ReadData, NextThread
    <3>2. Emu => pc' = "process"
      BY <1>1, <2>9, Controllers DEF ReadData, EmuInv
    <3> QED BY <1>1, <1>2, <2>3, <3>1, <3>2
  <2>10. CASE Gather
    <3>1. /\ reader'.got = <<>> /\ option.reader = "gather" /\ pc' \in {"test", "wait"}
          /\ pc' = "wait" => reader'.rdcMap = NoReader.rdcMap
      <4>1. option.reader = "gather"
        BY <2>10 DEF Gather
      <4>2. CASE reader.receiving
        BY <2>2, <2>10, <4>2 DEF Gather
      <4>3. CASE ~reader.receiving
        BY <2>2, <2>10, <4>3 DEF Gather
      <4> QED BY <4>2, <4>3
    <3> QED BY <1>1, <1>2, <3>1
  <2>11. CASE Discard
    <3>1. reader'.got = <<>> /\ reader'.rdcMap = reader.rdcMap /\ option.reader = "discard"
      BY <2>2, <2>11 DEF Discard
    <3> QED BY <1>1, <1>2, <2>3, <3>1
  <2>12. CASE Accumulate
    <3>1. reader'.got = <<>> /\ option.reader = "cycle" /\ pc' \in {"test", "getCurCount"}
      BY <2>2, <2>12 DEF Accumulate
    <3> QED BY <1>1, <1>2, <3>1
  <2> QED BY <1>5, <2>5, <2>6, <2>7, <2>8, <2>9, <2>10, <2>11, <2>12 DEF MainStep
<1>6. CASE pc # "setup" /\ ~MainStep
  <2>1. UNCHANGED <<clip, reader, pc>>
    BY <1>6 DEF ReadoutNext, EnterFrontEnds, StartReadout, TriggerStep, TriggerRest, MonitorStep,
                Interrupt, ReceiverStep, readoutVars
  <2> QED BY <1>3, <2>1
<1> QED BY <1>4, <1>5, <1>6

----------------------------------------------------------------------------
(* The streams *)

SelOf(s, c) == Selected(s, PacketsOf(c))
One(p, c) == SelOf(<<p>>, c)

(* What is selected for a channel. *)
LEMMA SelFacts ==
    ASSUME NEW c
    PROVE  /\ SelOf(<<>>, c) = <<>>
           /\ \A s \in Seq(Packets) : SelOf(s, c) \in Seq(Packets)
           /\ \A p \in Packets : One(p, c) \in Seq(Packets)
           /\ \A p : One(p, c) = IF p \in PacketsOf(c) THEN <<p>> ELSE <<>>
           /\ \A s, t \in Seq(Packets) : SelOf(Cat(s, t), c) = Cat(SelOf(s, c), SelOf(t, c))
           /\ \A s \in Seq(Packets), p \in Packets :
                 SelOf(Append(s, p), c) = Cat(SelOf(s, c), One(p, c))
           /\ \A s \in Seq(Packets) : s # <<>> =>
                 SelOf(s, c) = Cat(One(Head(s), c), SelOf(Tail(s), c))
<1>1. SelOf(<<>>, c) = <<>>
  BY SelectedEmpty DEF SelOf
<1>2. ASSUME NEW s \in Seq(Packets) PROVE SelOf(s, c) \in Seq(Packets)
  BY SelectedType DEF SelOf
<1>3. ASSUME NEW p \in Packets PROVE One(p, c) \in Seq(Packets)
  <2> DEFINE s == <<p>>
  <2>1. s \in Seq(Packets)
    OBVIOUS
  <2> HIDE DEF s
  <2>2. SelOf(s, c) \in Seq(Packets)
    BY <1>2, <2>1
  <2> QED BY <2>2 DEF One, s
<1>4. ASSUME NEW p PROVE One(p, c) = IF p \in PacketsOf(c) THEN <<p>> ELSE <<>>
  BY SelectedOne DEF One, SelOf
<1>5. ASSUME NEW s \in Seq(Packets), NEW t \in Seq(Packets)
      PROVE  SelOf(Cat(s, t), c) = Cat(SelOf(s, c), SelOf(t, c))
  BY SelectedConcat DEF SelOf, Cat
<1>6. ASSUME NEW s \in Seq(Packets), NEW p \in Packets
      PROVE  SelOf(Append(s, p), c) = Cat(SelOf(s, c), One(p, c))
  BY SelectedAppend DEF SelOf, Cat, One
<1>7. ASSUME NEW s \in Seq(Packets), s # <<>>
      PROVE  SelOf(s, c) = Cat(One(Head(s), c), SelOf(Tail(s), c))
  BY <1>7, SelectedTail DEF SelOf, Cat, One
<1> QED BY <1>1, <1>2, <1>3, <1>4, <1>5, <1>6, <1>7

GotOf(c) == SelOf(reader.got, c)
QueueOf(c) == SelOf(m_rawData[ThreadOf(c)], c)
HeldOf(c) == One(rcv[ThreadOf(c)].packet, c)
LinkOf(c) == SelOf(link[c], c)

StreamOf(id, c) == Stream(Handed(id), GotOf(c), QueueOf(c), HeldOf(c), LinkOf(c))

(* The inductive form of EachOnce. What was discarded had been sent. *)
ChannelWhole(id, c) ==
    /\ Whole(StreamOf(id, c), c, (1..sent[c]) \ dropped[c])
    /\ dropped[c] \subseteq 1..sent[c]

StreamInv ==
    pc # "setup" => \A i \in DOMAIN bookEntries : ChannelWhole(Id(i), bookEntries[i].rxChannel)

OnceInv == SetupInv /\ RouteInv /\ TablesFixed /\ PlaceInv /\ DropInv /\ ReaderInv /\ StreamInv

(* The parts of a stream are sequences of packets. *)
LEMMA PartTypes ==
    ASSUME BookInv, Types, PlaceInv, pc # "setup", NEW c \in UsedChannels
    PROVE  /\ GotOf(c) \in Seq(Packets) /\ QueueOf(c) \in Seq(Packets)
           /\ HeldOf(c) \in Seq(Packets) /\ LinkOf(c) \in Seq(Packets)
           /\ reader.got \in Seq(Packets) /\ m_rawData[ThreadOf(c)] \in Seq(Packets)
           /\ rcv[ThreadOf(c)].packet \in Packets /\ link[c] \in Seq(Packets)
           /\ ThreadOf(c) \in Threads /\ c \in Channels
<1>1. ThreadOf(c) \in Threads /\ c \in Channels
  BY ChannelThread, UsedAreChannels DEF Types, MainTypes
<1>2. /\ link \in [Channels -> Seq(Packets)] /\ m_rawData \in [Threads -> Seq(Packets)]
      /\ rcv \in [Threads -> Receivers]
  BY DEF Types, RxTypes, Receivers
<1>3. /\ link[c] \in Seq(Packets) /\ m_rawData[ThreadOf(c)] \in Seq(Packets)
      /\ rcv[ThreadOf(c)].packet \in Packets
  BY <1>1, <1>2, CallbackTypes
<1>4. reader.got \in Seq(Packets)
  <2>1. \A p \in ReadPackets : p \in Packets
    BY UsedAreChannels DEF ReadPackets, Packets
  <2>2. reader.got \in Seq(ReadPackets)
    BY DEF PlaceInv
  <2> QED BY <2>1, <2>2, SeqMonotonic
<1> QED BY <1>1, <1>3, <1>4, SelFacts DEF GotOf, QueueOf, HeldOf, LinkOf

(* It says what EachOnce says. *)
LEMMA StreamEachOnce ==
    ASSUME BookInv, Types, PlaceInv, ReaderInv, TablesFixed, StreamInv
    PROVE  EachOnce
<1> SUFFICES ASSUME pc # "setup", NEW i \in DOMAIN bookEntries
             PROVE  LET c == bookEntries[i].rxChannel
                    IN  Handed(Id(i)) \o Selected(Underway(c), PacketsOf(c)) = StreamOf(Id(i), c)
  BY DEF EachOnce, StreamInv, ChannelWhole, Whole
<1> DEFINE c == bookEntries[i].rxChannel
           t == ThreadOf(c)
           q == m_rawData[t]
           p == rcv[t].packet
           g == reader.got
           l == link[c]
<1>1. c \in UsedChannels
  BY DEF UsedChannels
<1>2. g \in Seq(Packets) /\ q \in Seq(Packets) /\ p \in Packets /\ l \in Seq(Packets)
  BY <1>1, PartTypes
<1>3. Underway(c) = Cat(Cat(g, Append(q, p)), l)
  BY DEF Underway, Cat
<1>4. StreamOf(Id(i), c) = Cat(Handed(Id(i)), Cat(Cat(SelOf(g, c), Cat(SelOf(q, c), One(p, c))), SelOf(l, c)))
  BY DEF StreamOf, Stream, GotOf, QueueOf, HeldOf, LinkOf
<1> HIDE DEF c, t, q, p, g, l
<1> DEFINE qp == Append(q, p)
<1>5. qp \in Seq(Packets) /\ SelOf(qp, c) = Cat(SelOf(q, c), One(p, c))
  <2>1. qp \in Seq(Packets)
    BY <1>2
  <2>2. SelOf(Append(q, p), c) = Cat(SelOf(q, c), One(p, c))
    BY <1>2, SelFacts, Zenon
  <2> QED BY <2>1, <2>2
<1> HIDE DEF qp
<1>6. Cat(g, qp) \in Seq(Packets) /\ SelOf(Cat(g, qp), c) = Cat(SelOf(g, c), SelOf(qp, c))
  BY <1>2, <1>5, SelFacts, CatFacts
<1>7. SelOf(Cat(Cat(g, qp), l), c) = Cat(SelOf(Cat(g, qp), c), SelOf(l, c))
  BY <1>2, <1>6, SelFacts
<1>8. Handed(Id(i)) \o Selected(Underway(c), PacketsOf(c)) = Cat(Handed(Id(i)), SelOf(Underway(c), c))
  BY DEF Cat, SelOf
<1> QED BY <1>3, <1>4, <1>5, <1>6, <1>7, <1>8 DEF qp, c

(* Padding, no packet, and packets of other channels are not selected. *)
LEMMA NotSelected ==
    ASSUME NEW c
    PROVE  /\ One(NoPacket, c) = <<>>
           /\ \A d : One(Padding(d), c) = <<>>
           /\ \A p : p.chn # c => One(p, c) = <<>>
<1>1. NoPacket \notin PacketsOf(c) /\ \A d : Padding(d) \notin PacketsOf(c)
  BY DEF NoPacket, Padding, PacketsOf
<1>2. \A p \in PacketsOf(c) : p.chn = c
  BY DEF PacketsOf
<1>3. \A p : One(p, c) = IF p \in PacketsOf(c) THEN <<p>> ELSE <<>>
  BY SelFacts
<1> QED BY <1>1, <1>2, <1>3

(* A packet is received, or queued, or neither. *)
LEMMA SameStream ==
    ASSUME NEW h \in Seq(Packets), NEW g \in Seq(Packets), NEW q \in Seq(Packets),
           NEW x \in Seq(Packets), NEW l, NEW q2, NEW x2 \in Seq(Packets), NEW l2 \in Seq(Packets),
           \/ q2 = q /\ x2 = x /\ l2 = l
           \/ q2 = q /\ x = <<>> /\ l = Cat(x2, l2)
           \/ q2 = Cat(q, x) /\ x2 = <<>> /\ l2 = l
    PROVE  Stream(h, g, q2, x2, l2) = Stream(h, g, q, x, l)
<1>1. Stream(h, g, Cat(q, x), <<>>, l2) = Stream(h, g, q, x, l2)
  BY StreamQueue
<1>2. Stream(h, g, q, <<>>, Cat(x2, l2)) = Stream(h, g, q, x2, l2)
  BY StreamReceive
<1> QED BY <1>1, <1>2

(* So with the parts of a channel. *)
LEMMA StreamMoves ==
    ASSUME NEW id, NEW c, ChannelWhole(id, c), Handed(id) \in Seq(Packets),
           GotOf(c) \in Seq(Packets), QueueOf(c) \in Seq(Packets), HeldOf(c) \in Seq(Packets),
           LinkOf(c)' \in Seq(Packets), HeldOf(c)' \in Seq(Packets),
           Handed(id)' = Handed(id), GotOf(c)' = GotOf(c),
           sent'[c] = sent[c], dropped'[c] = dropped[c],
           \/ QueueOf(c)' = QueueOf(c) /\ HeldOf(c)' = HeldOf(c) /\ LinkOf(c)' = LinkOf(c)
           \/ /\ QueueOf(c)' = QueueOf(c) /\ HeldOf(c) = <<>>
              /\ LinkOf(c) = Cat(HeldOf(c)', LinkOf(c)')
           \/ /\ QueueOf(c)' = Cat(QueueOf(c), HeldOf(c)) /\ HeldOf(c)' = <<>>
              /\ LinkOf(c)' = LinkOf(c)
    PROVE  ChannelWhole(id, c)'
<1>1. Stream(Handed(id), GotOf(c), QueueOf(c)', HeldOf(c)', LinkOf(c)')
        = Stream(Handed(id), GotOf(c), QueueOf(c), HeldOf(c), LinkOf(c))
  BY SameStream
<1>2. StreamOf(id, c)' = StreamOf(id, c)
  BY <1>1 DEF StreamOf
<1> QED BY <1>2 DEF ChannelWhole

(* Packets are sent and received. *)
LEMMA ReceiverStream ==
    ASSUME BookInv, Types, EmuInv, PlaceInv, DropInv, Types', PlaceInv', BookInv', pc # "setup",
           NEW t \in Threads, ReceiverStep(t),
           NEW c \in UsedChannels, NEW id, ChannelWhole(id, c), Handed(id) \in Seq(Packets)
    PROVE  ChannelWhole(id, c)'
<1>1. UNCHANGED <<vars, option>> /\ UNCHANGED <<reader, pc, clip, sent>>
  BY DEF ReceiverStep, trigVars
<1>2. /\ UsedChannels' = UsedChannels /\ Threads' = Threads /\ Felix' = Felix
      /\ \A d : ThreadOf(d)' = ThreadOf(d)
  BY <1>1, TablesKept
<1>3. Handed(id)' = Handed(id) /\ GotOf(c)' = GotOf(c) /\ sent'[c] = sent[c]
  BY <1>1 DEF Handed, GotOf
<1>4. /\ GotOf(c) \in Seq(Packets) /\ QueueOf(c) \in Seq(Packets)
      /\ HeldOf(c) \in Seq(Packets) /\ LinkOf(c) \in Seq(Packets)
      /\ m_rawData[ThreadOf(c)] \in Seq(Packets)
      /\ rcv[ThreadOf(c)].packet \in Packets /\ link[c] \in Seq(Packets)
      /\ ThreadOf(c) \in Threads /\ c \in Channels
  BY PartTypes
<1>5. HeldOf(c)' \in Seq(Packets) /\ LinkOf(c)' \in Seq(Packets)
  <2>1. /\ BookInv' /\ Types' /\ PlaceInv' /\ (pc # "setup")' /\ c \in UsedChannels'
    BY <1>1, <1>2
  <2>2. /\ rcv' \in [Threads -> Receivers] /\ link' \in [Channels -> Seq(Packets)]
    BY <1>2 DEF Types, RxTypes, Receivers
  <2>3. /\ rcv'[ThreadOf(c)].packet \in Packets /\ link'[c] \in Seq(Packets)
    BY <1>4, <2>2, CallbackTypes
  <2>4. HeldOf(c)' = One(rcv'[ThreadOf(c)].packet, c) /\ LinkOf(c)' = SelOf(link'[c], c)
    BY <1>2 DEF HeldOf, LinkOf, One, SelOf, PacketsOf
  <2> QED BY <2>3, <2>4, SelFacts
<1>6. /\ QueueOf(c) = SelOf(m_rawData[ThreadOf(c)], c)
      /\ QueueOf(c)' = SelOf(m_rawData'[ThreadOf(c)], c)
      /\ HeldOf(c) = One(rcv[ThreadOf(c)].packet, c)
      /\ HeldOf(c)' = One(rcv'[ThreadOf(c)].packet, c)
      /\ LinkOf(c) = SelOf(link[c], c) /\ LinkOf(c)' = SelOf(link'[c], c)
  BY <1>2 DEF QueueOf, HeldOf, LinkOf, One, SelOf, PacketsOf
<1> DEFINE Same == QueueOf(c)' = QueueOf(c) /\ HeldOf(c)' = HeldOf(c) /\ LinkOf(c)' = LinkOf(c)
           Got == /\ QueueOf(c)' = QueueOf(c) /\ HeldOf(c) = <<>>
                  /\ LinkOf(c) = Cat(HeldOf(c)', LinkOf(c)')
           Put == /\ QueueOf(c)' = Cat(QueueOf(c), HeldOf(c)) /\ HeldOf(c)' = <<>>
                  /\ LinkOf(c)' = LinkOf(c)
<1>7. (Same \/ Got \/ Put) /\ dropped'[c] = dropped[c] => ChannelWhole(id, c)'
  BY <1>3, <1>4, <1>5, StreamMoves
<1> HIDE DEF Same, Got, Put
<1>8. /\ link \in [Channels -> Seq(Packets)] /\ rcv \in [Threads -> Receivers]
      /\ m_rawData \in [Threads -> Seq(Packets)] /\ option \in Options
  BY DEF Types, RxTypes, Receivers, MainTypes
<1>9. Idle.packet = NoPacket /\ One(NoPacket, c) = <<>>
  BY NotSelected DEF Idle
<1>10. ASSUME /\ m_rawData' = [m_rawData EXCEPT ![t] = Append(@, rcv[t].packet)]
              /\ rcv' = [rcv EXCEPT ![t] = Idle] /\ link' = link
       PROVE  Same \/ Put
  <2>1. CASE ThreadOf(c) # t
    BY <1>4, <1>6, <1>8, <1>10, <2>1 DEF Same
  <2>2. CASE ThreadOf(c) = t
    <3> DEFINE q == m_rawData[t]
               p == rcv[t].packet
    <3>1. q \in Seq(Packets) /\ p \in Packets
      BY <1>4, <2>2
    <3>2. m_rawData'[t] = Append(q, p) /\ rcv'[t] = Idle
      BY <1>8, <1>10
    <3> HIDE DEF q, p
    <3>3. SelOf(Append(q, p), c) = Cat(SelOf(q, c), One(p, c))
      BY <3>1, SelFacts, Zenon
    <3> QED BY <1>6, <1>9, <1>10, <2>2, <3>2, <3>3 DEF Put, q, p
  <2> QED BY <2>1, <2>2
<1>11. ASSUME NEW a, NEW d \in Channels, rcv[t].at = "idle", link[d] # <<>>, d = c => ThreadOf(d) = t,
              link' = [link EXCEPT ![d] = Tail(@)], m_rawData' = m_rawData,
              rcv' = [rcv EXCEPT ![t] = [at |-> a, packet |-> Head(link[d])]]
       PROVE  Same \/ Got
  <2> DEFINE p == Head(link[d])
             r == Tail(link[d])
  <2>1. rcv[t].packet = NoPacket /\ p.chn = d
    <3>1. link[d] \in Seq(LinkPackets(d)) /\ rcv[t].packet = NoPacket
      BY <1>11 DEF PlaceInv
    <3>2. p \in LinkPackets(d)
      BY <1>11, <3>1
    <3> QED BY <3>1, <3>2 DEF LinkPackets
  <2>2. rcv'[t].packet = p
    BY <1>8, <1>11
  <2>3. CASE d = c
    <3> DEFINE l == link[c]
    <3>1. link'[c] = Tail(l)
      BY <1>4, <1>8, <1>11, <2>3
    <3>2. l \in Seq(Packets) /\ l # <<>>
      BY <1>4, <1>11, <2>3
    <3> HIDE DEF l
    <3>3. SelOf(l, c) = Cat(One(Head(l), c), SelOf(Tail(l), c))
      BY <3>2, SelFacts, Zenon
    <3>4. HeldOf(c)' = One(p, c) /\ HeldOf(c) = <<>>
      BY <1>6, <1>9, <1>11, <2>1, <2>2, <2>3
    <3>5. One(p, c) = One(Head(l), c)
      BY <2>3 DEF l
    <3> HIDE DEF p, r
    <3>6. LinkOf(c) = Cat(HeldOf(c)', LinkOf(c)')
      BY <1>6, <3>1, <3>3, <3>4, <3>5 DEF l
    <3> QED BY <1>6, <1>11, <3>4, <3>6 DEF Got
  <2>4. CASE d # c
    <3>1. link'[c] = link[c]
      BY <1>4, <1>8, <1>11, <2>4
    <3>2. One(p, c) = <<>>
      BY <2>1, <2>4, NotSelected
    <3>3. HeldOf(c)' = HeldOf(c)
      <4>1. CASE ThreadOf(c) = t
        BY <1>6, <1>9, <2>1, <2>2, <3>2, <4>1
      <4>2. CASE ThreadOf(c) # t
        BY <1>4, <1>6, <1>8, <1>11, <4>2
      <4> QED BY <4>1, <4>2
    <3> QED BY <1>6, <1>11, <3>1, <3>3 DEF Same
  <2> QED BY <2>3, <2>4
<1>12. CASE Callback(t)
  <2>1. link' = link /\ dropped' = dropped
    BY <1>12 DEF Callback
  <2>2. CASE rcv' = [rcv EXCEPT ![t].at = "push"] /\ m_rawData' = m_rawData
    <3>1. rcv'[ThreadOf(c)].packet = rcv[ThreadOf(c)].packet
      BY <1>4, <1>8, <2>2 DEF Receivers
    <3> QED BY <1>6, <1>7, <2>1, <2>2, <3>1 DEF Same
  <2>3. CASE /\ m_rawData' = [m_rawData EXCEPT ![t] = Append(@, rcv[t].packet)]
             /\ rcv' = [rcv EXCEPT ![t] = Idle]
    BY <1>7, <1>10, <2>1, <2>3
  <2> QED BY <1>12, <2>2, <2>3 DEF Callback
<1>13. ASSUME NEW d \in UsedChannels, Receive(d), ThreadOf(d) = t
       PROVE  ChannelWhole(id, c)'
  <2>1. /\ Felix /\ link[d] # <<>> /\ rcv[t].at = "idle" /\ m_rawData' = m_rawData
        /\ link' = [link EXCEPT ![d] = Tail(@)]
    BY <1>13 DEF Receive
  <2>2. d \in Channels
    BY UsedAreChannels
  <2>3. CASE /\ rcv' = [rcv EXCEPT ![t] = [at |-> "count", packet |-> Head(link[d])]]
             /\ dropped' = dropped
    BY <1>7, <1>11, <1>13, <2>1, <2>2, <2>3
  <2>4. CASE dropped' = [dropped EXCEPT ![d] = @ \cup {Head(link[d]).n}] /\ rcv' = rcv
    <3>1. CASE d # c
      <4>1. link'[c] = link[c] /\ dropped'[c] = dropped[c]
        BY <1>4, <1>8, <2>1, <2>4, <3>1
      <4> QED BY <1>6, <1>7, <2>1, <2>4, <4>1 DEF Same
    <3>2. CASE d = c
      <4> DEFINE l == link[c]
                 p == Head(l)
                 s == One(p, c)
                 r == SelOf(Tail(l), c)
                 h == Handed(id)
                 g == GotOf(c)
                 q == QueueOf(c)
                 x == HeldOf(c)
                 N == (1..sent[c]) \ dropped[c]
      <4>1. l \in Seq(LinkPackets(c)) /\ l \in Seq(Packets) /\ l # <<>> /\ link'[c] = Tail(l)
        BY <1>4, <1>8, <2>1, <3>2 DEF PlaceInv
      <4>2. p \in LinkPackets(c) /\ Tail(l) \in Seq(Packets) /\ p \in Packets
        <5> HIDE DEF l
        <5> QED BY <4>1
      <4>3. s = <<p>>
        <5>1. p \in PacketsOf(c)
          BY <2>1, <4>2 DEF LinkPackets, PacketsOf
        <5> QED BY <5>1, SelFacts
      <4>4. SelOf(l, c) = Cat(s, r) /\ s \in Seq(Packets) /\ r \in Seq(Packets)
        <5> HIDE DEF l
        <5> QED BY <4>1, <4>2, SelFacts, Zenon
      <4>5. LinkOf(c) = Cat(s, r) /\ LinkOf(c)' = r /\ QueueOf(c)' = q /\ HeldOf(c)' = x
        BY <1>6, <2>1, <2>4, <4>1, <4>4
      <4>6. /\ Whole(Stream(h, g, q, x, Cat(s, r)), c, N) /\ N \subseteq Nat
            /\ dropped[c] \subseteq 1..sent[c]
        BY <4>5 DEF ChannelWhole, StreamOf
      <4>7. StreamOf(id, c)' = Stream(h, g, q, x, r)
        BY <1>3, <4>5 DEF StreamOf
      <4>8. {u.n : u \in ToSet(s)} = {p.n}
        BY <4>3 DEF ToSet
      <4>9. /\ Whole(Stream(h, g, q, x, r), c, N \ {u.n : u \in ToSet(s)})
            /\ {u.n : u \in ToSet(s)} \subseteq N
        <5> HIDE DEF s, r, h, g, q, x, N
        <5> QED BY <1>4, <4>4, <4>6, StreamLess DEF h, g, q, x
      <4>10. dropped'[c] = dropped[c] \cup {p.n}
        <5>1. c \in DOMAIN dropped
          BY <1>4 DEF DropInv
        <5> QED BY <2>4, <3>2, <5>1
      <4> HIDE DEF p, s, r, h, g, q, x
      <4>11. N \ {p.n} = (1..sent[c]) \ (dropped[c] \cup {p.n})
        OBVIOUS
      <4>12. dropped[c] \cup {p.n} \subseteq 1..sent[c]
        BY <4>6, <4>8, <4>9
      <4> QED BY <1>3, <4>7, <4>8, <4>9, <4>10, <4>11, <4>12 DEF ChannelWhole
    <3> QED BY <3>1, <3>2
  <2> QED BY <1>13, <2>3, <2>4 DEF Receive
<1>14. ASSUME NEW d \in UsedChannels, ExecuteLoop(d), ThreadOf(d) = t
       PROVE  ChannelWhole(id, c)'
  <2>1. Emu /\ link[d] # <<>> /\ t = 1 /\ dropped' = dropped
    BY <1>8, <1>14, OptionTypes DEF ExecuteLoop
  <2>2. d = c /\ ThreadOf(c) = t
    BY <1>14, <2>1 DEF EmuInv
  <2>3. CASE /\ link' = [link EXCEPT ![d] = Tail(@)] /\ m_rawData' = m_rawData /\ rcv[1].at = "idle"
             /\ rcv' = [rcv EXCEPT ![1] = [at |-> "half", packet |-> Head(link[d])]]
    <3>1. d \in Channels
      BY UsedAreChannels
    <3> QED BY <1>7, <1>11, <1>14, <2>1, <2>3, <3>1
  <2>4. CASE /\ rcv[1].packet = Padding(d) /\ m_rawData' = m_rawData
             /\ rcv' = [rcv EXCEPT ![1] = Idle] /\ link' = link
    <3>1. HeldOf(c)' = <<>> /\ HeldOf(c) = <<>>
      <4>1. rcv'[t] = Idle
        BY <1>8, <2>1, <2>4
      <4> QED BY <1>6, <1>9, <2>1, <2>2, <2>4, <4>1, NotSelected
    <3> QED BY <1>6, <1>7, <2>1, <2>4, <3>1 DEF Same
  <2>5. CASE /\ rcv' = [rcv EXCEPT ![1] = Idle] /\ link' = link
             /\ m_rawData' = [m_rawData EXCEPT ![1] = Append(@, rcv[1].packet)]
    BY <1>7, <1>10, <2>1, <2>5
  <2> QED BY <1>14, <2>3, <2>4, <2>5 DEF ExecuteLoop
<1> QED BY <1>12, <1>13, <1>14 DEF ReceiverStep

(* The next packet of a channel is sent. *)
IsNext(o, c, k) == o = <<[chn |-> c, n |-> k + 1]>> /\ [chn |-> c, n |-> k + 1] \in Packets

(* It makes the stream whole up to its number. *)
LEMMA SendStream ==
    ASSUME NEW h \in Seq(Packets), NEW g \in Seq(Packets), NEW q \in Seq(Packets),
           NEW x \in Seq(Packets), NEW l \in Seq(Packets), NEW o \in Seq(Packets),
           NEW c, NEW k \in Nat, NEW D, D \subseteq 1..k,
           Whole(Stream(h, g, q, x, l), c, (1..k) \ D), IsNext(o, c, k)
    PROVE  Whole(Stream(h, g, q, x, Cat(l, o)), c, (1..(k + 1)) \ D)
<1> DEFINE s == Stream(h, g, q, x, l)
           p == [chn |-> c, n |-> k + 1]
<1>1. Stream(h, g, q, x, Cat(l, o)) = Cat(s, o)
  BY StreamSend
<1>2. s \in Seq(Packets) /\ Whole(s, c, (1..k) \ D)
  BY StreamType
<1>3. o = <<p>> /\ p \in Packets
  BY DEF IsNext
<1>4. Cat(s, o) = Append(s, p)
  <2> HIDE DEF s, p
  <2> QED BY <1>2, <1>3, AppendIsConcat DEF Cat
<1>5. Whole(Append(s, p), c, (1..(k + 1)) \ D)
  <2> HIDE DEF s
  <2> QED BY <1>2, <1>3, WholeMore
<1> HIDE DEF s, p
<1> QED BY <1>1, <1>4, <1>5

(* A trigger adds a packet to the stream of every channel; padding adds     *)
(* nothing.                                                                 *)
LEMMA TriggerStream ==
    ASSUME BookInv, Types, PlaceInv, pc # "setup",
           TriggerTest \/ Trigger \/ DoTrigger \/ TriggerEnd \/ TimeUp, TriggerRest,
           NEW c \in UsedChannels, NEW id, ChannelWhole(id, c), Handed(id) \in Seq(Packets)
    PROVE  ChannelWhole(id, c)'
<1>1. UNCHANGED <<vars, option>> /\ UNCHANGED <<reader, pc, clip, rcv, m_rawData, dropped>>
  BY DEF TriggerRest
<1>2. \A d : ThreadOf(d)' = ThreadOf(d)
  BY <1>1, TablesKept
<1>3. /\ Handed(id)' = Handed(id) /\ GotOf(c)' = GotOf(c) /\ QueueOf(c)' = QueueOf(c)
      /\ HeldOf(c)' = HeldOf(c) /\ LinkOf(c) = SelOf(link[c], c) /\ LinkOf(c)' = SelOf(link'[c], c)
  BY <1>1, <1>2 DEF Handed, GotOf, QueueOf, HeldOf, LinkOf, One, SelOf, PacketsOf
<1>4. /\ GotOf(c) \in Seq(Packets) /\ QueueOf(c) \in Seq(Packets)
      /\ HeldOf(c) \in Seq(Packets) /\ LinkOf(c) \in Seq(Packets)
      /\ link[c] \in Seq(Packets) /\ c \in Channels
  BY PartTypes
<1>5. CASE LinkOf(c)' = LinkOf(c) /\ sent'[c] = sent[c]
  <2>1. StreamOf(id, c)' = StreamOf(id, c)
    BY <1>3, <1>5 DEF StreamOf
  <2> QED BY <1>1, <1>5, <2>1 DEF ChannelWhole
<1>6. CASE link' = link /\ sent' = sent
  BY <1>3, <1>5, <1>6
<1> DEFINE l == link[c]
<1>7. CASE Trigger
  <2>1. CASE /\ sent' = [d \in Channels |-> IF d \in UsedChannels THEN sent[d] + 1 ELSE sent[d]]
             /\ link' = [d \in Channels |->
                           IF d \in UsedChannels
                           THEN Append(link[d], [chn |-> d, n |-> sent'[d]]) ELSE link[d]]
    <3> DEFINE k == sent[c]
               new == [chn |-> c, n |-> k + 1]
    <3>1. k \in Nat /\ sent'[c] = k + 1 /\ link'[c] = Append(l, new)
      BY <1>4, <2>1 DEF Types, TrigTypes
    <3>2. new \in Packets /\ new \in PacketsOf(c)
      BY <1>4, <3>1 DEF Packets, PacketsOf
    <3>3. One(new, c) = <<new>>
      BY <3>2, SelFacts
    <3> DEFINE o == One(new, c)
    <3>4. LinkOf(c)' = Cat(LinkOf(c), o) /\ o \in Seq(Packets)
      <4> HIDE DEF l, new
      <4>1. l \in Seq(Packets) /\ new \in Packets
        BY <1>4, <3>2 DEF l
      <4>2. SelOf(Append(l, new), c) = Cat(SelOf(l, c), One(new, c))
        BY <4>1, SelFacts, Zenon
      <4>3. One(new, c) \in Seq(Packets)
        BY <4>1, SelFacts
      <4> QED BY <1>3, <3>1, <4>2, <4>3 DEF l
    <3>5. IsNext(o, c, k)
      BY <3>2, <3>3 DEF IsNext
    <3>6. /\ Whole(Stream(Handed(id), GotOf(c), QueueOf(c), HeldOf(c), LinkOf(c)), c, (1..k) \ dropped[c])
          /\ dropped[c] \subseteq 1..k
      BY DEF ChannelWhole, StreamOf
    <3> HIDE DEF new, k, o
    <3>7. StreamOf(id, c)' = Stream(Handed(id), GotOf(c), QueueOf(c), HeldOf(c), Cat(LinkOf(c), o))
      BY <1>3, <3>4 DEF StreamOf
    <3>8. Whole(Stream(Handed(id), GotOf(c), QueueOf(c), HeldOf(c), Cat(LinkOf(c), o)), c,
                (1..(k + 1)) \ dropped[c])
      BY <1>4, <3>1, <3>4, <3>5, <3>6, SendStream
    <3>9. dropped[c] \subseteq 1..(k + 1)
      BY <3>1, <3>6
    <3> QED BY <1>1, <3>1, <3>7, <3>8, <3>9 DEF ChannelWhole
  <2> QED BY <1>6, <1>7, <2>1 DEF Trigger
<1>8. CASE DoTrigger
  <2>1. /\ sent' = sent
        /\ link' = link \/ link' = [d \in Channels |-> IF d \in UsedChannels /\ trig'.at = "drain"
                                                       THEN Append(link[d], Padding(d)) ELSE link[d]]
    BY <1>8 DEF DoTrigger
  <2>2. link'[c] = l \/ link'[c] = Append(l, Padding(c))
    BY <1>4, <2>1
  <2> DEFINE p == Padding(c)
  <2>3. l \in Seq(Packets) /\ p \in Packets /\ One(p, c) = <<>>
    BY <1>4, NotSelected DEF Padding, Packets
  <2> HIDE DEF l, p
  <2>4. SelOf(Append(l, p), c) = Cat(SelOf(l, c), One(p, c))
    BY <2>3, SelFacts, Zenon
  <2>5. Cat(SelOf(l, c), <<>>) = SelOf(l, c)
    BY <1>3, <1>4, CatFacts DEF l
  <2> QED BY <1>3, <1>5, <2>1, <2>2, <2>3, <2>4, <2>5 DEF l, p
<1> QED BY <1>6, <1>7, <1>8 DEF TriggerTest, TriggerEnd, TimeUp

(* What is read of a channel is routed to its front ends. *)
LEMMA RoutedIsChannel ==
    ASSUME BookInv, RouteInv, TablesFixed, PlaceInv, pc # "setup", NEW i \in DOMAIN bookEntries
    PROVE  Selected(reader.got, RoutedTo(Id(i))) = GotOf(bookEntries[i].rxChannel)
<1> DEFINE c == bookEntries[i].rxChannel
<1>1. reader.got \in Seq(ReadPackets)
  BY DEF PlaceInv
<1>2. \A d \in Channels : ToSet(rxToIdMap[d]) = {Id(j) : j \in OnChannel(d)}
  BY DEF RouteInv, TablesFixed
<1>3. i \in Nat /\ \A j \in DOMAIN bookEntries : j \in Nat
  BY DEF BookInv, TablesInv
<1>4. \A j \in DOMAIN bookEntries : Id(i) = Id(j) => i = j
  BY <1>3 DEF Id
<1>5. ASSUME NEW p \in ReadPackets
      PROVE  p \in RoutedTo(Id(i)) <=> p \in PacketsOf(c)
  <2> DEFINE d == p.chn
  <2>1. d \in Channels /\ p = [chn |-> d, n |-> p.n] /\ p.n \in Nat \ {0}
    BY UsedAreChannels DEF ReadPackets
  <2>2. p \in RoutedTo(Id(i)) <=> Id(i) \in ToSet(rxToIdMap[d])
    <3>1. p \in RoutedTo(Id(i)) => d \in {e \in Channels : Id(i) \in ToSet(rxToIdMap[e])}
      BY DEF RoutedTo
    <3>2. d \in {e \in Channels : Id(i) \in ToSet(rxToIdMap[e])} => p \in RoutedTo(Id(i))
      <4> DEFINE E == {e \in Channels : Id(i) \in ToSet(rxToIdMap[e])}
      <4>1. RoutedTo(Id(i)) = [chn : E, n : Nat]
        BY DEF RoutedTo
      <4> HIDE DEF E
      <4>2. d \in E => [chn |-> d, n |-> p.n] \in [chn : E, n : Nat]
        BY <2>1
      <4> QED BY <2>1, <4>1, <4>2 DEF E
    <3> QED BY <2>1, <3>1, <3>2
  <2>3. Id(i) \in ToSet(rxToIdMap[d]) <=> i \in OnChannel(d)
    <3>1. ToSet(rxToIdMap[d]) = {Id(j) : j \in OnChannel(d)} /\ OnChannel(d) \subseteq DOMAIN bookEntries
      BY <1>2, <2>1 DEF OnChannel
    <3> HIDE DEF d
    <3> QED BY <1>4, <3>1
  <2>4. i \in OnChannel(d) <=> c = d
    BY DEF OnChannel
  <2>5. p \in PacketsOf(c) <=> d = c
    <3>1. p \in PacketsOf(c) => d = c
      BY DEF PacketsOf
    <3>2. d = c => p \in PacketsOf(c)
      BY <2>1 DEF PacketsOf
    <3> QED BY <3>1, <3>2
  <2> QED BY <2>2, <2>3, <2>4, <2>5
<1>6. Selected(reader.got, RoutedTo(Id(i))) = Selected(reader.got, PacketsOf(c))
  BY <1>1, <1>5, SelectedSame
<1> QED BY <1>6 DEF GotOf, SelOf

(* What is queued is read, at once or packet by packet. *)
LEMMA ReadStream ==
    ASSUME NEW h \in Seq(Packets), NEW g \in Seq(Packets), NEW q \in Seq(Packets),
           NEW x \in Seq(Packets), NEW l \in Seq(Packets), NEW g2, NEW q2 \in Seq(Packets),
           \/ g2 = g /\ q2 = q
           \/ g = <<>> /\ g2 = q /\ q2 = <<>>
           \/ \E o \in Seq(Packets) : q = Cat(o, q2) /\ g2 = Cat(g, o)
    PROVE  Stream(h, g2, q2, x, l) = Stream(h, g, q, x, l)
<1>1. ASSUME NEW o \in Seq(Packets), q = Cat(o, q2), g2 = Cat(g, o)
      PROVE  Stream(h, g2, q2, x, l) = Stream(h, g, q, x, l)
  <2>1. Stream(h, Cat(g, o), q2, x, l) = Stream(h, g, Cat(o, q2), x, l)
    BY StreamRead
  <2> QED BY <1>1, <2>1
<1>2. CASE g = <<>> /\ g2 = q /\ q2 = <<>>
  <2>1. Cat(q, <<>>) = q /\ Cat(<<>>, q) = q
    BY CatFacts
  <2> QED BY <1>1, <1>2, <2>1
<1> QED BY <1>1, <1>2

(* What the reader had is handed over. *)
LEMMA HandStream ==
    ASSUME NEW h \in Seq(Packets), NEW g \in Seq(Packets), NEW q \in Seq(Packets),
           NEW x \in Seq(Packets), NEW l \in Seq(Packets), NEW h2, NEW g2,
           h2 = Cat(h, g), g2 = <<>>
    PROVE  Stream(h2, g2, q, x, l) = Stream(h, g, q, x, l)
BY StreamHand

(* The main thread reads and hands over, or discards. *)
LEMMA MainStream ==
    ASSUME BookInv, Types, CycleInv, EmuInv, RouteInv, TablesFixed, PlaceInv, ReaderInv,
           pc # "setup", MainStep, NEW i \in DOMAIN bookEntries,
           ChannelWhole(Id(i), bookEntries[i].rxChannel)
    PROVE  ChannelWhole(Id(i), bookEntries[i].rxChannel)'
<1> DEFINE c == bookEntries[i].rxChannel
           id == Id(i)
<1>1. UNCHANGED <<vars, option>> /\ UNCHANGED sent
  <2>1. UNCHANGED <<vars, option>>
    BY DEF MainStep
  <2> QED BY <2>1 DEF MainStep, FlushBuffer, DisableRx, StartTrigger, BeginPass, ReadData, Gather,
         Discard, Abort, Accumulate, GetCurCount, EndCycle, StopTrigger, trigVars
<1>2. (\A d : ThreadOf(d)' = ThreadOf(d)) /\ bookEntries' = bookEntries /\ c' = c /\ id' = id
  BY <1>1, TablesKept DEF Id
<1>3. c \in UsedChannels /\ id \in ScanIds
  BY DEF UsedChannels, ScanIds, TablesFixed
<1>4. /\ HandTypes'
      /\ Gather \/ Accumulate =>
            /\ reader'.got = <<>>
            /\ Handed(id)' = Cat(Handed(id), Selected(reader.got, RoutedTo(id)))
      /\ ~(Gather \/ Accumulate) => Handed(id)' = Handed(id)
  BY <1>3, MainHands
<1>5. Handed(id) \in Seq(Packets)
  BY <1>3, HandedParts DEF HandTypes, ReaderInv
<1>6. Selected(reader.got, RoutedTo(id)) = GotOf(c)
  BY RoutedIsChannel
<1>7. ChannelWhole(id, c)
  OBVIOUS
<1>8. /\ GotOf(c) \in Seq(Packets) /\ QueueOf(c) \in Seq(Packets)
      /\ HeldOf(c) \in Seq(Packets) /\ LinkOf(c) \in Seq(Packets)
      /\ reader.got \in Seq(Packets) /\ m_rawData[ThreadOf(c)] \in Seq(Packets)
      /\ ThreadOf(c) \in Threads /\ c \in Channels
  BY <1>3, PartTypes
<1> SUFFICES ChannelWhole(id, c)'
  BY <1>2
<1> HIDE DEF c, id
<1>9. /\ GotOf(c) = SelOf(reader.got, c) /\ GotOf(c)' = SelOf(reader'.got, c)
      /\ QueueOf(c) = SelOf(m_rawData[ThreadOf(c)], c)
      /\ QueueOf(c)' = SelOf(m_rawData'[ThreadOf(c)], c)
      /\ LinkOf(c) = SelOf(link[c], c) /\ LinkOf(c)' = SelOf(link'[c], c)
      /\ HeldOf(c) = One(rcv[ThreadOf(c)].packet, c)
      /\ HeldOf(c)' = One(rcv'[ThreadOf(c)].packet, c)
  BY <1>2 DEF GotOf, QueueOf, HeldOf, LinkOf, One, SelOf, PacketsOf
<1>10. /\ reader.t \in Threads /\ option \in Options /\ m_rawData \in [Threads -> Seq(Packets)]
       /\ DOMAIN reader = {"t", "got", "rdcMap", "reads", "count", "receiving", "cur", "due"}
  BY DEF Types, ReaderTypes, MainTypes, RxTypes
<1>11. SelOf(<<>>, c) = <<>>
  BY SelFacts
<1>12. CASE ~ReadData /\ ~Discard
  <2>1. UNCHANGED <<link, rcv, m_rawData, dropped>>
    BY <1>12 DEF MainStep, FlushBuffer, DisableRx, StartTrigger, BeginPass, Gather,
           Accumulate, GetCurCount, EndCycle, StopTrigger, rxVars
  <2>2. QueueOf(c)' = QueueOf(c) /\ HeldOf(c)' = HeldOf(c) /\ LinkOf(c)' = LinkOf(c)
    BY <1>9, <2>1
  <2>3. CASE Gather \/ Accumulate
    <3>1. Handed(id)' = Cat(Handed(id), GotOf(c)) /\ GotOf(c)' = <<>>
      BY <1>4, <1>6, <1>9, <1>11, <2>3
    <3>2. Stream(Handed(id)', GotOf(c)', QueueOf(c), HeldOf(c), LinkOf(c))
            = Stream(Handed(id), GotOf(c), QueueOf(c), HeldOf(c), LinkOf(c))
      BY <1>5, <1>8, <3>1, HandStream
    <3>3. StreamOf(id, c)' = StreamOf(id, c)
      BY <2>2, <3>2 DEF StreamOf
    <3> QED BY <1>1, <1>2, <1>7, <2>1, <3>3 DEF ChannelWhole
  <2>4. CASE ~(Gather \/ Accumulate)
    <3>1. reader'.got = reader.got
      <4>1. CASE FlushBuffer \/ DisableRx \/ StopTrigger
        BY <4>1 DEF FlushBuffer, DisableRx, StopTrigger
      <4>2. CASE BeginPass \/ GetCurCount
        BY <1>10, <4>2 DEF BeginPass, GetCurCount
      <4>3. CASE StartTrigger \/ EndCycle
        <5>1. reader' = NoReader /\ reader.got = <<>>
          BY <4>3 DEF StartTrigger, EndCycle, ReaderInv
        <5> QED BY <1>10, <5>1, NoReaderTypes
      <4> QED BY <1>12, <2>4, <4>1, <4>2, <4>3 DEF MainStep
    <3>2. StreamOf(id, c)' = StreamOf(id, c)
      BY <1>4, <1>9, <2>2, <2>4, <3>1 DEF StreamOf
    <3> QED BY <1>1, <1>2, <1>7, <2>1, <3>2 DEF ChannelWhole
  <2> QED BY <2>3, <2>4
<1>13. CASE ReadData
  <2> DEFINE t == reader.t
             q == m_rawData[t]
             e == Head(q)
  <2>1. UNCHANGED <<link, rcv, dropped>> /\ Handed(id)' = Handed(id)
    <3>1. ~(Gather \/ Accumulate)
      BY <1>13 DEF ReadData, Gather, Accumulate
    <3> QED BY <1>4, <1>13, <3>1 DEF ReadData, rxVars
  <2>2. HeldOf(c)' = HeldOf(c) /\ LinkOf(c)' = LinkOf(c)
    BY <1>9, <2>1
  <2>3. ASSUME QueueOf(c)' \in Seq(Packets),
               \/ GotOf(c)' = GotOf(c) /\ QueueOf(c)' = QueueOf(c)
               \/ GotOf(c) = <<>> /\ GotOf(c)' = QueueOf(c) /\ QueueOf(c)' = <<>>
               \/ \E o \in Seq(Packets) : QueueOf(c) = Cat(o, QueueOf(c)') /\ GotOf(c)' = Cat(GotOf(c), o)
        PROVE  ChannelWhole(id, c)'
    <3>1. Stream(Handed(id), GotOf(c)', QueueOf(c)', HeldOf(c), LinkOf(c))
            = Stream(Handed(id), GotOf(c), QueueOf(c), HeldOf(c), LinkOf(c))
      BY <1>5, <1>8, <2>3, ReadStream
    <3>2. StreamOf(id, c)' = StreamOf(id, c)
      BY <2>1, <2>2, <3>1 DEF StreamOf
    <3> QED BY <1>1, <1>2, <1>7, <2>1, <3>2 DEF ChannelWhole
  <2>4. CASE /\ pc = "pop" /\ Emu /\ reader' = [reader EXCEPT !.got = q]
             /\ m_rawData' = [m_rawData EXCEPT ![t] = <<>>]
    <3>1. reader'.got = q /\ reader.got = <<>>
      BY <1>10, <2>4 DEF ReaderInv
    <3>2. ThreadOf(c) = t
      <4>1. option.nThreads = 1 /\ Threads = 1..option.nThreads
        BY <1>10, <2>4, OptionTypes
      <4>2. \A u \in 1..1 : u = 1
        OBVIOUS
      <4> QED BY <1>8, <1>10, <4>1, <4>2
    <3>3. m_rawData'[ThreadOf(c)] = <<>>
      BY <1>10, <2>4, <3>2
    <3>4. GotOf(c) = <<>> /\ GotOf(c)' = QueueOf(c) /\ QueueOf(c)' = <<>>
      BY <1>9, <1>11, <3>1, <3>2, <3>3
    <3>5. <<>> \in Seq(Packets)
      OBVIOUS
    <3> QED BY <2>3, <3>4, <3>5
  <2>5. CASE /\ q # <<>> /\ m_rawData' = [m_rawData EXCEPT ![t] = Tail(@)]
             /\ reader' = [reader EXCEPT !.got = Append(@, e)]
    <3> DEFINE g == reader.got
               r == Tail(q)
               o == One(e, c)
    <3>1. reader'.got = Append(g, e) /\ m_rawData'[t] = r
      BY <1>10, <2>5
    <3>2. q \in Seq(Packets) /\ q \in Seq(ThreadPackets(t)) /\ g \in Seq(Packets)
      BY <1>8, <1>10 DEF PlaceInv
    <3>3. e \in Packets /\ e \in ThreadPackets(t) /\ r \in Seq(Packets)
      <4> HIDE DEF q
      <4> QED BY <2>5, <3>2
    <3>4. SelOf(q, c) = Cat(o, SelOf(r, c))
      <4> HIDE DEF q
      <4> QED BY <2>5, <3>2, SelFacts, Zenon
    <3> HIDE DEF e, g
    <3>5. SelOf(Append(g, e), c) = Cat(SelOf(g, c), o)
      BY <3>2, <3>3, SelFacts, Zenon
    <3>6. o \in Seq(Packets) /\ SelOf(r, c) \in Seq(Packets)
      BY <3>3, SelFacts
    <3>7. GotOf(c)' = Cat(GotOf(c), o)
      BY <1>9, <3>1, <3>5 DEF g
    <3>8. CASE ThreadOf(c) = t
      <4>1. QueueOf(c) = Cat(o, QueueOf(c)') /\ QueueOf(c)' \in Seq(Packets)
        BY <1>9, <3>1, <3>4, <3>6, <3>8
      <4> HIDE DEF o
      <4> QED BY <2>3, <3>6, <3>7, <4>1
    <3>9. CASE ThreadOf(c) # t
      <4>1. e.chn # c
        BY <3>3, <3>9 DEF ThreadPackets
      <4>2. o = <<>>
        BY <4>1, NotSelected
      <4>3. QueueOf(c)' = QueueOf(c)
        BY <1>8, <1>9, <1>10, <2>5, <3>9
      <4>4. GotOf(c)' = GotOf(c)
        <5>1. Cat(GotOf(c), <<>>) = GotOf(c)
          BY <1>8, CatFacts
        <5> HIDE DEF o
        <5> QED BY <3>7, <4>2, <5>1
      <4> QED BY <1>8, <2>3, <4>3, <4>4
    <3> QED BY <3>8, <3>9
  <2>6. CASE reader'.got = reader.got /\ m_rawData' = m_rawData
    BY <1>8, <1>9, <2>3, <2>6
  <2> QED BY <1>10, <1>13, <2>4, <2>5, <2>6 DEF ReadData, NextThread, rxVars
<1>14. CASE Discard
  <2> DEFINE g == reader.got
             G == GotOf(c)
             N == (1..sent[c]) \ dropped[c]
             Gone == {u.n : u \in ToSet(G)}
  <2>1. /\ UNCHANGED <<link, rcv, m_rawData>> /\ reader'.got = <<>>
        /\ dropped'[c] = dropped[c] \cup {p.n : p \in {r \in ToSet(g) : r.chn = c}}
    BY <1>8, <1>10, <1>14 DEF Discard
  <2>2. Handed(id)' = Handed(id)
    <3>1. ~(Gather \/ Accumulate)
      BY <1>14 DEF Discard, Gather, Accumulate
    <3> QED BY <1>4, <3>1
  <2>3. {r \in ToSet(g) : r.chn = c} = ToSet(G)
    <3>1. g \in Seq(ReadPackets)
      BY DEF PlaceInv
    <3>2. ToSet(G) = {r \in ToSet(g) : r \in PacketsOf(c)}
      BY <3>1, SelectedToSet DEF GotOf, SelOf
    <3>3. \A r \in ToSet(g) : r \in ReadPackets
      BY <3>1 DEF ToSet
    <3>4. \A r \in ReadPackets : r \in PacketsOf(c) <=> r.chn = c
      <4> TAKE r \in ReadPackets
      <4>1. r = [chn |-> r.chn, n |-> r.n] /\ r.n \in Nat \ {0}
        BY DEF ReadPackets
      <4>2. r.chn = c => r \in PacketsOf(c)
        BY <4>1 DEF PacketsOf
      <4>3. r \in PacketsOf(c) => r.chn = c
        BY DEF PacketsOf
      <4> QED BY <4>2, <4>3
    <3> HIDE DEF g, G
    <3> QED BY <3>2, <3>3, <3>4
  <2>4. dropped'[c] = dropped[c] \cup Gone
    BY <2>1, <2>3
  <2>5. /\ GotOf(c)' = <<>> /\ QueueOf(c)' = QueueOf(c) /\ HeldOf(c)' = HeldOf(c)
        /\ LinkOf(c)' = LinkOf(c)
    BY <1>9, <1>11, <2>1
  <2>6. StreamOf(id, c)' = Stream(Handed(id), <<>>, QueueOf(c), HeldOf(c), LinkOf(c))
    BY <2>2, <2>5 DEF StreamOf
  <2>7. Whole(Stream(Handed(id), G, QueueOf(c), HeldOf(c), LinkOf(c)), c, N)
    BY <1>7 DEF ChannelWhole, StreamOf
  <2>8. /\ Whole(Stream(Handed(id), <<>>, QueueOf(c), HeldOf(c), LinkOf(c)), c, N \ Gone)
        /\ Gone \subseteq N
    <3>1. N \subseteq Nat
      OBVIOUS
    <3> HIDE DEF N
    <3> QED BY <1>5, <1>8, <2>7, <3>1, StreamLess
  <2> HIDE DEF Gone
  <2>9. N \ Gone = (1..sent[c]) \ (dropped[c] \cup Gone)
    OBVIOUS
  <2>10. dropped[c] \cup Gone \subseteq 1..sent[c]
    <3>1. dropped[c] \subseteq 1..sent[c]
      BY <1>7 DEF ChannelWhole
    <3> QED BY <2>8, <3>1
  <2> QED BY <1>1, <1>2, <2>4, <2>6, <2>8, <2>9, <2>10 DEF ChannelWhole
<1> QED BY <1>12, <1>13, <1>14

(* When the read-out begins the streams are empty. *)
LEMMA StreamBegins ==
    ASSUME BookInv, option \in Options, SetupInv, pc = "setup", StartReadout, Types,
           NEW c \in UsedChannels, NEW id \in ScanIds
    PROVE  ChannelWhole(id, c)'
<1>1. /\ UNCHANGED <<vars, option>> /\ UNCHANGED <<sent, dropped, link, rcv, m_rawData, reader, clip>>
  BY DEF StartReadout, trigVars
<1>2. \A d : ThreadOf(d)' = ThreadOf(d)
  BY <1>1, TablesKept
<1>3. /\ sent = [d \in Channels |-> 0] /\ dropped = [d \in Channels |-> {}]
      /\ link = [d \in Channels |-> <<>>] /\ rcv = [t \in Threads |-> Idle]
      /\ m_rawData = [t \in Threads |-> <<>>] /\ reader = NoReader
      /\ clip = [i \in ScanIds |-> <<>>]
  BY DEF SetupInv
<1>4. c \in Channels /\ ThreadOf(c) \in Threads
  BY UsedAreChannels, ChannelThread
<1>5. /\ sent[c] = 0 /\ dropped[c] = {} /\ link[c] = <<>> /\ rcv[ThreadOf(c)].packet = NoPacket
      /\ m_rawData[ThreadOf(c)] = <<>> /\ reader.got = <<>> /\ clip[id] = <<>>
      /\ reader.rdcMap[id] = <<>>
  BY <1>3, <1>4, NoReaderTypes, NothingWaits DEF Idle
<1>6. SelOf(<<>>, c) = <<>> /\ One(NoPacket, c) = <<>> /\ Content(<<>>) = <<>>
  BY SelFacts, NotSelected, ContentFacts
<1>7. /\ Handed(id)' = Cat(Content(clip[id]), reader.rdcMap[id]) /\ GotOf(c)' = <<>>
      /\ QueueOf(c)' = <<>> /\ HeldOf(c)' = <<>> /\ LinkOf(c)' = <<>>
  <2>1. Handed(id)' = Cat(Content(clip[id]), reader.rdcMap[id])
    BY <1>1 DEF Handed, Content, Cat
  <2>2. /\ GotOf(c)' = SelOf(reader.got, c) /\ LinkOf(c)' = SelOf(link[c], c)
        /\ QueueOf(c)' = SelOf(m_rawData[ThreadOf(c)], c)
        /\ HeldOf(c)' = One(rcv[ThreadOf(c)].packet, c)
    BY <1>1, <1>2 DEF GotOf, QueueOf, HeldOf, LinkOf, One, SelOf, PacketsOf
  <2> QED BY <1>5, <1>6, <2>1, <2>2
<1>8. \A a \in Seq(Packets) : Cat(a, <<>>) = a
  BY CatFacts
<1>9. <<>> \in Seq(Packets)
  OBVIOUS
<1>10. StreamOf(id, c)' = <<>>
  BY <1>5, <1>6, <1>7, <1>8, <1>9 DEF StreamOf, Stream
<1>11. Whole(<<>>, c, {})
  <2>1. ToSet(<<>>) = {} /\ [chn : {c}, n : {}] = {}
    BY DEF ToSet
  <2> QED BY <2>1 DEF Whole
<1>12. (1..0) \ {} = {}
  OBVIOUS
<1> QED BY <1>1, <1>5, <1>10, <1>11, <1>12 DEF ChannelWhole

(* Every step keeps the streams. *)
LEMMA StreamStep ==
    ASSUME ReadoutInv, OnceInv, ReadoutInv', PlaceInv', [ReadoutNext]_readoutVars
    PROVE  StreamInv'
<1>1. /\ BookInv /\ Types /\ BurstInv /\ CycleInv /\ EmuInv
      /\ SetupInv /\ RouteInv /\ TablesFixed /\ PlaceInv /\ DropInv /\ ReaderInv /\ StreamInv
      /\ BookInv' /\ Types' /\ TablesFixed' /\ option' = option /\ option \in Options
  <2>1. BookInv' /\ Types'
    BY DEF ReadoutInv
  <2>2. TablesFixed
    BY DEF OnceInv
  <2> QED BY <2>1, <2>2, TablesStep, OptionKept DEF ReadoutInv, OnceInv, Types, MainTypes
<1> SUFFICES ASSUME pc' # "setup", NEW i \in DOMAIN bookEntries'
             PROVE  ChannelWhole(Id(i), bookEntries[i].rxChannel)'
  BY DEF StreamInv
<1>2. CASE pc = "setup"
  <2>1. StartReadout
    BY <1>1, <1>2, SetupOnly DEF EnterFrontEnds, readoutVars
  <2>2. bookEntries' = bookEntries /\ bookEntries = option.entries
    BY <2>1 DEF StartReadout, vars
  <2>3. bookEntries[i].rxChannel \in UsedChannels /\ Id(i) \in ScanIds
    BY <2>2 DEF UsedChannels, ScanIds
  <2>4. \A c \in UsedChannels, id \in ScanIds : ChannelWhole(id, c)'
    BY <1>1, <1>2, <2>1, StreamBegins
  <2> QED BY <2>2, <2>3, <2>4 DEF Id
<1>3. CASE pc # "setup"
  <2>1. UNCHANGED <<vars, option>> /\ bookEntries' = bookEntries
    BY <1>1, <1>3, TablesStep DEF vars
  <2> DEFINE c == bookEntries[i].rxChannel
             id == Id(i)
  <2>2. i \in DOMAIN bookEntries /\ c \in UsedChannels /\ id \in ScanIds /\ ChannelWhole(id, c)
    BY <1>1, <1>3, <2>1 DEF UsedChannels, ScanIds, TablesFixed, StreamInv
  <2>3. Handed(id) \in Seq(Packets)
    BY <1>1, <2>2, HandedParts DEF HandTypes, ReaderInv
  <2>4. CASE MainStep
    BY <1>1, <1>3, <2>2, <2>4, MainStream
  <2>5. ASSUME \A d \in UsedChannels : \A j : ChannelWhole(j, d) /\ Handed(j) \in Seq(Packets) => ChannelWhole(j, d)'
        PROVE  ChannelWhole(Id(i), bookEntries[i].rxChannel)'
    <3>1. c' = c /\ id' = id
      BY <2>1 DEF Id
    <3> HIDE DEF c, id
    <3>2. \A d, j : d = c /\ j = id => ChannelWhole(j, d)'
      BY <2>2, <2>3, <2>5
    <3> QED BY <2>1, <3>2 DEF c, id, Id
  <2>6. CASE TriggerStep \/ (TimeUp /\ TriggerRest)
    BY <1>1, <1>3, <2>5, <2>6, TriggerStream DEF TriggerStep
  <2>7. CASE \E t \in Threads : ReceiverStep(t)
    BY <1>1, <1>3, <2>5, <2>7, ReceiverStream
  <2>8. CASE MonitorStep \/ Interrupt \/ UNCHANGED readoutVars
    <3>1. UNCHANGED <<sent, dropped, link, rcv, m_rawData, reader, clip>>
      BY <2>8
         DEF MonitorStep, MonitorLoad, MonitorCompare, MonitorStop, Interrupt, readoutVars, rxVars, trigVars
    <3>2. \A d : ThreadOf(d)' = ThreadOf(d)
      BY <2>1, TablesKept
    <3>3. ASSUME NEW d, NEW j
          PROVE  /\ Handed(j)' = Handed(j) /\ GotOf(d)' = GotOf(d) /\ QueueOf(d)' = QueueOf(d)
                 /\ HeldOf(d)' = HeldOf(d) /\ LinkOf(d)' = LinkOf(d)
      BY <3>1, <3>2 DEF Handed, GotOf, QueueOf, HeldOf, LinkOf
    <3>4. \A d, j : StreamOf(j, d)' = StreamOf(j, d)
      BY <3>3 DEF StreamOf
    <3> QED BY <2>5, <3>1, <3>4 DEF ChannelWhole
  <2> QED BY <1>3, <2>4, <2>6, <2>7, <2>8 DEF ReadoutNext, EnterFrontEnds, StartReadout
<1> QED BY <1>2, <1>3

(* The domain of what was discarded stays. *)
LEMMA DropStep ==
    ASSUME DropInv, [ReadoutNext]_readoutVars
    PROVE  DropInv'
<1>1. CASE dropped' = dropped
  BY <1>1 DEF DropInv
<1>2. CASE Discard
  BY <1>2 DEF Discard, DropInv
<1>3. CASE \E t \in Threads : ReceiverStep(t)
  BY <1>3 DEF ReceiverStep, Callback, Receive, ExecuteLoop, DropInv
<1>4. CASE MainStep /\ ~Discard
  BY <1>1, <1>4 DEF MainStep, FlushBuffer, DisableRx, StartTrigger, BeginPass, ReadData, Gather,
         Accumulate, GetCurCount, EndCycle, StopTrigger, rxVars
<1>5. CASE UNCHANGED readoutVars \/ EnterFrontEnds \/ StartReadout \/ TriggerStep
             \/ (TimeUp /\ TriggerRest) \/ MonitorStep \/ Interrupt
  BY <1>1, <1>5 DEF readoutVars, EnterFrontEnds, StartReadout, TriggerStep, TriggerRest, MonitorStep,
                    MonitorLoad, MonitorCompare, MonitorStop, Interrupt, rxVars
<1> QED BY <1>2, <1>3, <1>4, <1>5 DEF ReadoutNext

(* At the beginning. *)
LEMMA OnceStart == ReadoutInit => OnceInv
<1> SUFFICES ASSUME ReadoutInit PROVE OnceInv
  OBVIOUS
<1>1. SetupInv /\ DropInv
  BY DEF ReadoutInit, SetupInv, DropInv
<1>2. RouteInv
  <2>1. bookEntries = <<>> /\ rxToIdMap = [c \in Channels |-> <<>>] /\ deletions = 0
    BY DEF ReadoutInit, Init
  <2>2. ToSet(<<>>) = {} /\ <<>> \in Seq(Nat) /\ MaxDel \in Nat
    BY BookkeeperAssumption DEF ToSet
  <2>3. \A c : OnChannel(c) = {}
    BY <2>1 DEF OnChannel
  <2> QED BY <2>1, <2>2, <2>3 DEF RouteInv
<1>3. TablesFixed /\ PlaceInv /\ StreamInv
  BY DEF ReadoutInit, TablesFixed, PlaceInv, StreamInv
<1>4. ReaderInv
  <2>1. reader = NoReader /\ clip = [id \in ScanIds |-> <<>>] /\ option \in Options
    BY DEF ReadoutInit
  <2>2. reader.got = <<>> /\ reader.rdcMap = NoReader.rdcMap /\ <<>> \in Seq(Boxes)
    BY <2>1, NoReaderTypes
  <2> QED BY <2>1, <2>2, NothingWaits DEF ReaderInv
<1> QED BY <1>1, <1>2, <1>3, <1>4 DEF OnceInv

(* The second inductive invariant holds in every state. *)
LEMMA OnceInvariant == ReadoutSpec => []OnceInv
<1>1. ReadoutInv /\ ReadoutInv' /\ OnceInv /\ [ReadoutNext]_readoutVars => OnceInv'
  <2> SUFFICES ASSUME ReadoutInv, ReadoutInv', OnceInv, [ReadoutNext]_readoutVars PROVE OnceInv'
    OBVIOUS
  <2>1. /\ BookInv /\ Types /\ BurstInv /\ CycleInv /\ EmuInv
        /\ SetupInv /\ RouteInv /\ TablesFixed /\ PlaceInv /\ DropInv /\ ReaderInv
    BY DEF ReadoutInv, OnceInv
  <2>2. SetupInv'
    BY <2>1, SetupStep
  <2>3. RouteInv'
    BY <2>1, BookkeeperStep, RouteStep
  <2>4. TablesFixed'
    BY <2>1, TablesStep
  <2>5. PlaceInv'
    BY <2>1, PlaceStep
  <2>6. DropInv'
    BY <2>1, DropStep
  <2>7. ReaderInv'
    BY <2>1, ReaderStep
  <2>8. StreamInv'
    BY <2>5, StreamStep
  <2> QED BY <2>2, <2>3, <2>4, <2>5, <2>6, <2>7, <2>8 DEF OnceInv
<1> QED BY <1>1, OnceStart, ReadoutInvariant, PTL DEF ReadoutSpec

(* Whatever receiver threads, monitor, trigger thread and reader do in      *)
(* between, each front end is handed the packets of its channel once and in *)
(* the order they were sent: what it has and what is still on its way is    *)
(* what was sent and not discarded. For any number of channels, front ends, *)
(* threads and packets, with FELIX and with the emulator.                   *)
THEOREM HandedOnce == ReadoutSpec => []EachOnce
<1>1. ReadoutInv /\ OnceInv => EachOnce
  BY StreamEachOnce DEF ReadoutInv, OnceInv
<1> QED BY <1>1, ReadoutInvariant, OnceInvariant, PTL


----------------------------------------------------------------------------
(* The type invariant. What takes more than one step to see in it is the    *)
(* bound on the packets sent: a burst adds at most the triggers of a burst, *)
(* and of the one under way only those that were sent count.                *)
Quota == TrigCnt * burst

LimitInv ==
    /\ burst <= MaxBurst
    /\ pc \in {"flushing", "trigger"} => burst < MaxBurst
    /\ burst = 0 => pc \in {"setup", "flush", "flushing", "trigger", "done"}
    /\ enabled \subseteq Channels
    /\ flush \in [Threads -> BOOLEAN]
    /\ reader.receiving \in BOOLEAN
    /\ \A c \in Channels :
           IF burst = 0 THEN sent[c] = 0 ELSE sent[c] + TrigCnt <= Quota + trig.trigs


(* A burst more is as many triggers more. *)
LEMMA QuotaFacts ==
    ASSUME NEW T \in Nat, NEW b \in Nat
    PROVE  /\ T * b \in Nat /\ T * (b + 1) = T * b + T /\ T * 0 = 0
           /\ \A m \in Nat : b <= m => T * b <= T * m
<1>1. T * b \in Nat /\ T * (b + 1) = T * b + T /\ T * 0 = 0
  OBVIOUS
<1>2. ASSUME NEW m \in Nat, b <= m PROVE T * b <= T * m
  <2>1. m - b \in Nat /\ m = b + (m - b)
    BY <1>2
  <2>2. PICK d \in Nat : m = b + d
    BY <2>1
  <2>3. T * (b + d) = T * b + T * d /\ T * d \in Nat
    OBVIOUS
  <2> QED BY <1>1, <2>2, <2>3
<1> QED BY <1>1, <1>2

(* The trigger thread sends what is left of the burst's triggers. *)
LEMMA TriggerLimit ==
    ASSUME BookInv, Types, BurstInv, LimitInv, TriggerStep \/ (TimeUp /\ TriggerRest)
    PROVE  LimitInv'
<1>1. /\ UNCHANGED <<burst, pc, enabled, flush, reader, option>> /\ trig.at # "off"
      /\ \/ trig'.trigs = trig.trigs /\ sent' = sent
         \/ /\ trig'.trigs = trig.trigs + 1
            /\ sent' = [c \in Channels |-> IF c \in UsedChannels THEN sent[c] + 1 ELSE sent[c]]
  BY DEF TriggerStep, TimeUp, TriggerRest, TriggerTest, Trigger, DoTrigger, TriggerEnd, Types,
         TrigTypes
<1>2. /\ burst # 0 /\ TrigCnt \in Nat /\ Quota \in Nat /\ trig.trigs \in Nat
      /\ \A c \in Channels : sent[c] \in Nat
  <2>1. TrigCnt \in Nat /\ burst \in Nat
    BY OptionTypes DEF Types, MainTypes
  <2> QED BY <1>1, <2>1, QuotaFacts DEF BurstInv, LimitInv, Quota, Types, TrigTypes
<1>3. TrigCnt' = TrigCnt /\ Quota' = Quota /\ Threads' = Threads
  BY <1>1 DEF TrigCnt, Quota, Threads
<1>4. ASSUME NEW c \in Channels PROVE sent'[c] + TrigCnt <= Quota + trig'.trigs
  <2>1. sent[c] + TrigCnt <= Quota + trig.trigs
    BY <1>2 DEF LimitInv
  <2>2. \/ trig'.trigs = trig.trigs /\ sent'[c] = sent[c]
        \/ trig'.trigs = trig.trigs + 1 /\ sent'[c] \in {sent[c], sent[c] + 1}
    BY <1>1
  <2> QED BY <1>2, <2>1, <2>2
<1> QED BY <1>1, <1>2, <1>3, <1>4 DEF LimitInv

(* The main thread begins a burst when there is one left. *)
LEMMA MainLimit ==
    ASSUME BookInv, Types, BurstInv, LimitInv, MainStep
    PROVE  LimitInv'
<1>1. /\ TrigCnt \in Nat /\ burst \in Nat /\ MaxBurst \in Nat /\ trig.trigs \in 0..TrigCnt
      /\ \A c \in Channels : sent[c] \in Nat
      /\ DOMAIN reader = {"t", "got", "rdcMap", "reads", "count", "receiving", "cur", "due"}
  BY OptionTypes, ReadoutAssumption DEF Types, MainTypes, TrigTypes, ReaderTypes
<1>2. UNCHANGED option /\ TrigCnt' = TrigCnt /\ Threads' = Threads
  BY DEF MainStep, TrigCnt, Threads
<1>3. enabled' \subseteq Channels /\ flush' \in [Threads -> BOOLEAN]
  <2>1. \/ UNCHANGED <<enabled, flush>>
        \/ UNCHANGED enabled /\ flush' \in [Threads -> BOOLEAN]
        \/ enabled' = {} /\ UNCHANGED flush
    BY DEF MainStep, FlushBuffer, DisableRx, StartTrigger, BeginPass, ReadData, Gather, Discard,
           Accumulate, GetCurCount, EndCycle, StopTrigger, rxVars, Felix
  <2> QED BY <2>1 DEF LimitInv
<1>4. reader'.receiving \in BOOLEAN
  <2>1. NoReader.receiving \in BOOLEAN
    BY DEF NoReader
  <2> QED BY <1>1, <2>1
          DEF LimitInv, MainStep, FlushBuffer, DisableRx, StartTrigger, BeginPass, ReadData, Gather,
              Discard, Accumulate, GetCurCount, EndCycle, StopTrigger, NextThread, IsTrigDone, TrigDone
<1>5. CASE StartTrigger
  <2>1. /\ burst' = burst + 1 /\ trig'.trigs = 0 /\ sent' = sent /\ pc' = "test" /\ burst < MaxBurst
    BY <1>5 DEF StartTrigger, LimitInv
  <2>2. Quota' = Quota + TrigCnt /\ Quota \in Nat /\ (burst = 0 => Quota = 0)
    <3>1. Quota' = TrigCnt * (burst + 1)
      BY <1>2, <2>1 DEF Quota
    <3> QED BY <1>1, <3>1, QuotaFacts DEF Quota
  <2>3. ASSUME NEW c \in Channels PROVE sent'[c] + TrigCnt <= Quota' + trig'.trigs
    <3>1. IF burst = 0 THEN sent[c] = 0 ELSE sent[c] + TrigCnt <= Quota + trig.trigs
      BY DEF LimitInv
    <3> QED BY <1>1, <2>1, <2>2, <3>1
  <2> QED BY <1>1, <1>2, <1>3, <1>4, <2>1, <2>3 DEF LimitInv
<1>6. CASE ~StartTrigger
  <2>1. UNCHANGED <<burst, sent>> /\ trig'.trigs = trig.trigs /\ Quota' = Quota
    <3>1. UNCHANGED <<burst, sent>> /\ (UNCHANGED trig \/ trig' = [trig EXCEPT !.at = "off"])
      BY <1>6 DEF MainStep, FlushBuffer, DisableRx, BeginPass, ReadData, Gather, Discard,
             Accumulate, GetCurCount, EndCycle, StopTrigger, trigVars, Abort
    <3> QED BY <1>2, <3>1 DEF Quota, Types, TrigTypes
  <2>2. \/ pc' = "flushing" /\ pc = "flush" /\ burst < MaxBurst
        \/ pc' = "trigger" /\ pc = "flushing"
        \/ pc' = "done" /\ pc = "flush"
        \/ /\ pc \notin {"setup", "flush", "flushing", "trigger", "done"}
           /\ pc' \notin {"flushing", "trigger"}
    BY <1>6 DEF MainStep, FlushBuffer, DisableRx, BeginPass, ReadData, Gather, Discard,
             Accumulate, GetCurCount, EndCycle, StopTrigger, NextThread
  <2> QED BY <1>2, <1>3, <1>4, <2>1, <2>2 DEF LimitInv
<1> QED BY <1>5, <1>6

(* Every step keeps the bounds. *)
LEMMA LimitStep ==
    ASSUME BookInv, Types, BurstInv, LimitInv, [ReadoutNext]_readoutVars
    PROVE  LimitInv'
<1>1. CASE TriggerStep \/ (TimeUp /\ TriggerRest)
  BY <1>1, TriggerLimit
<1>2. CASE MainStep
  BY <1>2, MainLimit
<1> DEFINE Others == \/ UNCHANGED readoutVars \/ EnterFrontEnds \/ StartReadout \/ MonitorStep
                     \/ Interrupt \/ \E t \in Threads : ReceiverStep(t)
<1>3. CASE Others
  <2>1. UNCHANGED <<burst, sent, trig, reader, option>>
    BY <1>3 DEF readoutVars, EnterFrontEnds, StartReadout, MonitorStep, Interrupt, ReceiverStep,
                trigVars
  <2>2. enabled' \subseteq Channels
    BY <1>3, UsedAreChannels
       DEF readoutVars, EnterFrontEnds, StartReadout, MonitorStep, MonitorLoad, MonitorCompare,
           MonitorStop, Interrupt, ReceiverStep, Callback, Receive, ExecuteLoop, rxVars, LimitInv
  <2>3. flush' \in [Threads -> BOOLEAN]
    BY <1>3
       DEF readoutVars, EnterFrontEnds, StartReadout, MonitorStep, MonitorLoad, MonitorCompare,
           MonitorStop, Interrupt, ReceiverStep, Callback, Receive, ExecuteLoop, rxVars, LimitInv
  <2>4. pc' = pc \/ (pc = "setup" /\ pc' = "flush")
    BY <1>3 DEF readoutVars, EnterFrontEnds, StartReadout, MonitorStep, Interrupt, ReceiverStep
  <2>5. Quota' = Quota /\ TrigCnt' = TrigCnt /\ Threads' = Threads
    BY <2>1 DEF Quota, TrigCnt, Threads
  <2> QED BY <2>1, <2>2, <2>3, <2>4, <2>5 DEF LimitInv
<1> QED BY <1>1, <1>2, <1>3 DEF ReadoutNext

(* The bounds hold in every state. *)
LEMMA LimitInvariant == ReadoutSpec => []LimitInv
<1>1. ReadoutInit => LimitInv
  <2> SUFFICES ASSUME ReadoutInit PROVE LimitInv
    OBVIOUS
  <2>1. NoReader.receiving \in BOOLEAN
    BY DEF NoReader
  <2> QED BY <2>1, ReadoutAssumption DEF ReadoutInit, LimitInv
<1>2. ReadoutInv /\ LimitInv /\ [ReadoutNext]_readoutVars => LimitInv'
  BY LimitStep DEF ReadoutInv
<1> QED BY <1>1, <1>2, ReadoutInvariant, PTL DEF ReadoutSpec

(* What the monitor has loaded, and of which thread. *)
MonitorType == monitor \in [at : {"idle", "in", "out", "stop"}, t : Threads, load : Nat]

(* The monitor loads numbers, of threads that exist. *)
LEMMA MonitorTyped == ReadoutSpec => []MonitorType
<1>1. ASSUME option \in Options
      PROVE  MonitorIdle \in [at : {"idle", "in", "out", "stop"}, t : Threads, load : Nat]
  BY <1>1, OptionTypes DEF MonitorIdle
<1>2. ReadoutInit => MonitorType
  <2> SUFFICES ASSUME ReadoutInit PROVE MonitorType
    OBVIOUS
  <2>1. option \in Options /\ monitor = MonitorIdle
    BY DEF ReadoutInit
  <2> QED BY <1>1, <2>1 DEF MonitorType
<1>3. ReadoutInv /\ MonitorType /\ [ReadoutNext]_readoutVars => MonitorType'
  <2> SUFFICES ASSUME ReadoutInv, MonitorType, [ReadoutNext]_readoutVars PROVE MonitorType'
    OBVIOUS
  <2>1. /\ option \in Options /\ in \in [Threads -> Nat] /\ out \in [Threads -> Nat]
        /\ Threads' = Threads
    BY OptionKept DEF ReadoutInv, Types, RxTypes, MainTypes
  <2>2. CASE MonitorStep
    <3>1. CASE MonitorLoad
      BY <2>1, <3>1 DEF MonitorLoad, MonitorType
    <3>2. CASE MonitorCompare
      BY <1>1, <2>1, <3>2 DEF MonitorCompare, MonitorType
    <3>3. CASE MonitorStop
      BY <1>1, <2>1, <3>3 DEF MonitorStop, MonitorType
    <3> QED BY <2>2, <3>1, <3>2, <3>3 DEF MonitorStep
  <2>3. CASE ~MonitorStep
    <3>1. monitor' = monitor
      BY <2>3 DEF ReadoutNext, readoutVars, EnterFrontEnds, StartReadout, MainStep, TriggerStep,
                  TriggerRest, Interrupt, ReceiverStep
    <3> QED BY <2>1, <3>1 DEF MonitorType
  <2> QED BY <2>2, <2>3
<1> QED BY <1>2, <1>3, ReadoutInvariant, PTL DEF ReadoutSpec

(* Every variable of the read-out and of the Bookkeeper has its type, for   *)
(* every value of the constants: among them, a scan never begins more       *)
(* bursts than it has, and no channel is ever sent more triggers than the   *)
(* bursts that were begun have.                                             *)
THEOREM ReadoutTypes == ReadoutSpec => []ReadoutTypeOK
<1>1. ReadoutInv /\ OnceInv /\ LimitInv /\ MonitorType => ReadoutTypeOK
  <2> SUFFICES ASSUME ReadoutInv, OnceInv, LimitInv, MonitorType PROVE ReadoutTypeOK
    OBVIOUS
  <2>1. TypeOK
    BY DEF ReadoutInv, BookInv, TablesInv, IsIdMap, Entry, OnceInv, RouteInv, TypeOK
  <2>2. /\ TrigCnt \in Nat /\ burst \in Nat /\ MaxBurst \in Nat /\ trig.trigs \in 0..TrigCnt
        /\ sent \in [Channels -> Nat] /\ burst \in 0..MaxBurst
    BY OptionTypes, ReadoutAssumption DEF ReadoutInv, Types, MainTypes, TrigTypes, LimitInv
  <2>3. Quota \in Nat /\ Quota <= TrigCnt * MaxBurst /\ TrigCnt * MaxBurst \in Nat
    BY <2>2, QuotaFacts DEF Quota
  <2>4. ASSUME NEW c \in Channels PROVE sent[c] \in 0..(TrigCnt * MaxBurst)
    <3>1. IF burst = 0 THEN sent[c] = 0 ELSE sent[c] + TrigCnt <= Quota + trig.trigs
      BY DEF LimitInv
    <3> QED BY <2>2, <2>3, <3>1
  <2>5. sent \in [Channels -> 0..(TrigCnt * MaxBurst)]
    BY <2>2, <2>4
  <2> QED BY <2>1, <2>2, <2>5
          DEF ReadoutInv, Types, MainTypes, TrigTypes, RxTypes, ReaderTypes, LimitInv, MonitorType,
              ReadoutTypeOK
<1> QED BY <1>1, ReadoutInvariant, OnceInvariant, LimitInvariant, MonitorTyped, PTL
=============================================================================
