--------------------------- MODULE DataLoopProofs ---------------------------
(***************************************************************************)
(* Proofs about DataLoop: type correctness, that no packet is dropped or   *)
(* pushed twice between the receiver and the decoder, and that as long as  *)
(* no iteration is cut short, iterations are complete and kept apart, for  *)
(* any number of front ends, of triggers and of iterations.                *)
(*                                                                         *)
(* The argument counts: of a burst, the packets decoded and the packets    *)
(* under way are together at most the triggers sent. When the loop has     *)
(* counted as many events as there were triggers, nothing is under way, so *)
(* that nothing of this burst can meet the next one.                       *)
(***************************************************************************)
EXTENDS DataLoop, SequenceFacts, FiniteSetTheorems, FunctionTheorems, TLAPS

Containers == [label : Nat, chunks : Seq(Packets)]
Labelled == [pkt : Packets, label : Nat]
Reports == [iter : Nat, isTrigger : BOOLEAN]

(* The packets in a queue of containers, as positions. *)
Chunks(q) == UNION {{<<k, i>> : i \in DOMAIN q[k].chunks} : k \in DOMAIN q}

(* The length of a queue, a plain number to the arithmetic below.           *)
Size(q) == Len(q)

(* The packets of this iteration that were decoded, and how many packets    *)
(* are on their way.                                                        *)
Decoded(f) == {i \in DOMAIN decoded[f] : decoded[f][i].pkt.iter = iter}

UnderWay(f) ==
    Size(link[f]) + Size(rx[f]) + Size(rdcMap[f]) + Cardinality(Chunks(raw[f])) + Size(work[f])

(* Whatever is on its way is of this iteration, and labelled with it.       *)
Current(q) == \A i \in DOMAIN q : q[i].iter = iter

Fresh(f) ==
    /\ Current(link[f]) /\ Current(rx[f]) /\ Current(rdcMap[f])
    /\ \A k \in DOMAIN raw[f] : \A i \in DOMAIN raw[f][k].chunks :
          raw[f][k].label = iter /\ raw[f][k].chunks[i].iter = iter
    /\ \A i \in DOMAIN work[f] : work[f][i].label = iter /\ work[f][i].pkt.iter = iter

(* What was decoded is labelled with its burst, and not from the future.    *)
DecodedRight(f) ==
    \A i \in DOMAIN decoded[f] :
        decoded[f][i].label = decoded[f][i].pkt.iter /\ decoded[f][i].pkt.iter <= iter

(* The two counts. *)
Counted(f) ==
    /\ IsFiniteSet(Chunks(raw[f]))
    /\ Cardinality(Decoded(f)) + UnderWay(f) <= trigSent
    /\ cnt[f] + Size(fb[f]) <= Cardinality(Decoded(f))

FrontEndInv(f) == Fresh(f) /\ DecodedRight(f) /\ Counted(f)

(* Before the first burst there is nothing. *)
IdleInv ==
    iter = 0 =>
        /\ loopPc = "trigger" /\ trigSent = TrigCnt
        /\ \A f \in FE : /\ link[f] = <<>> /\ rx[f] = <<>> /\ rdcMap[f] = <<>>
                          /\ raw[f] = <<>> /\ work[f] = <<>> /\ fb[f] = <<>>

(* After the others all events have been counted. *)
ReceivedInv == (loopPc \in {"mark", "trigger", "done"} /\ iter > 0) => ReceivedAllTriggers

OnTimeInv ==
    (WaitsForAll /\ ~late) =>
        (\A f \in FE : FrontEndInv(f)) /\ IdleInv /\ ReceivedInv

----------------------------------------------------------------------------
(* A bijection from a finite set leads to a finite set of the same size.    *)
LEMMA SameSize ==
    ASSUME NEW S, NEW T, IsFiniteSet(S), NEW F \in [S -> T],
           \A a, b \in S : F[a] = F[b] => a = b,
           \A t \in T : \E s \in S : F[s] = t
    PROVE  IsFiniteSet(T) /\ Cardinality(T) = Cardinality(S)
<1>1. F \in Bijection(S, T)
  BY Fun_IsBij
<1>2. ExistsBijection(S, T)
  BY <1>1, Fun_ExistsBij
<1> QED  BY <1>2, FS_Bijection

(* Positions of the packets in a queue. *)
LEMMA InChunks ==
    \A q, x : x \in Chunks(q) <=>
        \E k \in DOMAIN q : \E i \in DOMAIN q[k].chunks : x = <<k, i>>
BY DEF Chunks

(* The packets of one container. *)
LEMMA RowSize ==
    ASSUME NEW k, NEW n \in Nat
    PROVE  /\ IsFiniteSet({<<k, i>> : i \in 1..n})
           /\ Cardinality({<<k, i>> : i \in 1..n}) = n
<1> DEFINE T == {<<k, i>> : i \in 1..n}
           F == [i \in 1..n |-> <<k, i>>]
<1>1. IsFiniteSet(1..n) /\ Cardinality(1..n) = n
  BY FS_Interval
<1>2. F \in [1..n -> T]
  OBVIOUS
<1>3. \A a, b \in 1..n : F[a] = F[b] => a = b
  OBVIOUS
<1>4. \A t \in T : \E s \in 1..n : F[s] = t
  OBVIOUS
<1> HIDE DEF T, F
<1>5. IsFiniteSet(T) /\ Cardinality(T) = Cardinality(1..n)
  BY <1>1, <1>2, <1>3, <1>4, SameSize
<1> QED  BY <1>1, <1>5 DEF T

(* A container pushed adds its packets. *)
LEMMA AppendChunks ==
    ASSUME NEW q \in Seq(Containers), NEW c \in Containers, IsFiniteSet(Chunks(q))
    PROVE  /\ IsFiniteSet(Chunks(Append(q, c)))
           /\ Cardinality(Chunks(Append(q, c))) = Cardinality(Chunks(q)) + Len(c.chunks)
<1> DEFINE n == Len(c.chunks)
           Row == {<<Len(q) + 1, i>> : i \in 1..n}
           r == Append(q, c)
<1>1. n \in Nat /\ DOMAIN c.chunks = 1..n /\ Len(q) \in Nat /\ DOMAIN q = 1..Len(q)
  BY DEF Containers
<1>2. IsFiniteSet(Row) /\ Cardinality(Row) = n
  BY <1>1, RowSize
<1>3. /\ DOMAIN r = 1..(Len(q) + 1) /\ r[Len(q) + 1] = c
      /\ \A k \in 1..Len(q) : r[k] = q[k]
  BY <1>1
<1>4. Chunks(r) = Chunks(q) \cup Row
  <2>1. ASSUME NEW x \in Chunks(r)
        PROVE  x \in Chunks(q) \cup Row
    <3> HIDE DEF r
    <3>1. PICK k \in DOMAIN r : \E i \in DOMAIN r[k].chunks : x = <<k, i>>
      BY <2>1, InChunks
    <3>2. CASE k = Len(q) + 1
      BY <1>1, <1>3, <3>1, <3>2
    <3>3. CASE k # Len(q) + 1
      <4>1. k \in DOMAIN q /\ r[k] = q[k]
        BY <1>1, <1>3, <3>3
      <4> QED  BY <3>1, <4>1, InChunks
    <3> QED  BY <3>2, <3>3
  <2>2. ASSUME NEW x \in Chunks(q)
        PROVE  x \in Chunks(r)
    <3>1. PICK k \in DOMAIN q : \E i \in DOMAIN q[k].chunks : x = <<k, i>>
      BY <2>2, InChunks
    <3>2. k \in DOMAIN r /\ r[k] = q[k]
      BY <1>1, <1>3
    <3> QED  BY <3>1, <3>2, InChunks
  <2>3. ASSUME NEW x \in Row
        PROVE  x \in Chunks(r)
    <3>1. PICK i \in 1..n : x = <<Len(q) + 1, i>>
      BY <2>3
    <3>2. Len(q) + 1 \in DOMAIN r /\ DOMAIN r[Len(q) + 1].chunks = 1..n
      BY <1>1, <1>3
    <3> HIDE DEF r, n
    <3> QED  BY <3>1, <3>2, InChunks
  <2> HIDE DEF r, Row
  <2> QED  BY <2>1, <2>2, <2>3
<1>5. Chunks(q) \cap Row = {}
  <2> SUFFICES ASSUME NEW x \in Chunks(q), x \in Row
               PROVE  FALSE
    OBVIOUS
  <2>1. PICK k \in DOMAIN q : \E i \in DOMAIN q[k].chunks : x = <<k, i>>
    BY InChunks
  <2>2. x[1] = k /\ x[1] = Len(q) + 1
    BY <2>1
  <2> QED  BY <1>1, <2>2
<1> HIDE DEF Row, n, r
<1>6. Cardinality(Chunks(q)) \in Nat
  BY FS_CardinalityType
<1>7. /\ IsFiniteSet(Chunks(q) \cup Row)
      /\ Cardinality(Chunks(q) \cup Row)
            = Cardinality(Chunks(q)) + Cardinality(Row) - Cardinality(Chunks(q) \cap Row)
  BY <1>2, FS_Union
<1>8. Cardinality(Chunks(q) \cap Row) = 0
  BY <1>5, FS_EmptySet
<1> QED  BY <1>1, <1>2, <1>4, <1>6, <1>7, <1>8 DEF r, n

(* A container popped takes its packets away. *)
LEMMA TailChunks ==
    ASSUME NEW q \in Seq(Containers), q # <<>>, IsFiniteSet(Chunks(q))
    PROVE  /\ IsFiniteSet(Chunks(Tail(q)))
           /\ Cardinality(Chunks(q)) = Cardinality(Chunks(Tail(q))) + Len(Head(q).chunks)
           /\ Cardinality(Chunks(Tail(q))) \in Nat
<1> DEFINE c == Head(q)
           n == Len(c.chunks)
           Row == {<<1, i>> : i \in 1..n}
           Rest == Chunks(q) \ Row
           t == Tail(q)
           F == [x \in Rest |-> <<x[1] - 1, x[2]>>]
<1>1. /\ c \in Containers /\ c = q[1] /\ n \in Nat /\ DOMAIN c.chunks = 1..n
      /\ Len(q) \in Nat \ {0} /\ DOMAIN q = 1..Len(q) /\ 1 \in DOMAIN q
  <2>1. /\ Len(q) \in Nat \ {0} /\ DOMAIN q = 1..Len(q) /\ 1 \in DOMAIN q
        /\ c = q[1] /\ c \in Containers
    OBVIOUS
  <2>2. c.chunks \in Seq(Packets)
    BY <2>1 DEF Containers
  <2> HIDE DEF c
  <2> QED  BY <2>1, <2>2
<1>2. DOMAIN t = 1..(Len(q) - 1) /\ \A k \in DOMAIN t : t[k] = q[k + 1]
  BY <1>1
<1>3. Row \subseteq Chunks(q)
  <2> SUFFICES ASSUME NEW i \in 1..n
               PROVE  <<1, i>> \in Chunks(q)
    OBVIOUS
  <2>1. 1 \in DOMAIN q /\ i \in DOMAIN q[1].chunks
    BY <1>1
  <2> QED  BY <2>1, InChunks
<1>4. IsFiniteSet(Row) /\ Cardinality(Row) = n
  BY <1>1, RowSize
<1>5. \A x \in Rest : \E k \in DOMAIN q : \E i \in DOMAIN q[k].chunks :
                        x = <<k, i>> /\ k # 1
  <2> SUFFICES ASSUME NEW x \in Rest
               PROVE  \E k \in DOMAIN q : \E i \in DOMAIN q[k].chunks : x = <<k, i>> /\ k # 1
    OBVIOUS
  <2>1. PICK k \in DOMAIN q : \E i \in DOMAIN q[k].chunks : x = <<k, i>>
    BY InChunks
  <2>2. PICK i \in DOMAIN q[k].chunks : x = <<k, i>>
    BY <2>1
  <2>3. k = 1 => x \in Row
    BY <1>1, <2>2
  <2> QED  BY <2>2, <2>3
<1>6. IsFiniteSet(Rest) /\ Cardinality(Rest) \in Nat
  BY FS_Subset, FS_CardinalityType
<1>7. Cardinality(Chunks(q)) = Cardinality(Rest) + n
  <2>1. Rest \cup Row = Chunks(q) /\ Rest \cap Row = {}
    BY <1>3
  <2>2. Cardinality(Rest \cup Row) = Cardinality(Rest) + Cardinality(Row) - Cardinality(Rest \cap Row)
    BY <1>4, <1>6, FS_Union
  <2>3. Cardinality(Rest \cap Row) = 0
    BY <2>1, FS_EmptySet
  <2>4. Cardinality(Rest \cup Row) = Cardinality(Chunks(q))
    BY <2>1
  <2> HIDE DEF Rest, Row, n
  <2> QED  BY <2>2, <2>3, <2>4, <1>1, <1>4, <1>6
<1>8. F \in [Rest -> Chunks(t)]
  <2> SUFFICES ASSUME NEW x \in Rest
               PROVE  <<x[1] - 1, x[2]>> \in Chunks(t)
    OBVIOUS
  <2>0. PICK k \in DOMAIN q : \E i \in DOMAIN q[k].chunks : x = <<k, i>> /\ k # 1
    BY <1>5
  <2>1. PICK i \in DOMAIN q[k].chunks : x = <<k, i>> /\ k # 1
    BY <2>0
  <2>2. k - 1 \in DOMAIN t /\ t[k - 1] = q[k]
    BY <1>1, <1>2, <2>1
  <2>3. i \in DOMAIN t[k - 1].chunks
    BY <2>1, <2>2
  <2>4. <<x[1] - 1, x[2]>> = <<k - 1, i>>
    BY <2>1
  <2> HIDE DEF t
  <2> QED  BY <2>2, <2>3, <2>4, InChunks
<1>9. \A a, b \in Rest : F[a] = F[b] => a = b
  <2> SUFFICES ASSUME NEW a \in Rest, NEW b \in Rest, F[a] = F[b]
               PROVE  a = b
    OBVIOUS
  <2>a. PICK k \in DOMAIN q : \E i \in DOMAIN q[k].chunks : a = <<k, i>>
    BY <1>5
  <2>b. PICK l \in DOMAIN q : \E j \in DOMAIN q[l].chunks : b = <<l, j>>
    BY <1>5
  <2>1. PICK i \in DOMAIN q[k].chunks : a = <<k, i>>
    BY <2>a
  <2>2. PICK j \in DOMAIN q[l].chunks : b = <<l, j>>
    BY <2>b
  <2>3. F[a] = <<k - 1, i>> /\ F[b] = <<l - 1, j>>
    BY <2>1, <2>2
  <2>4. k - 1 = l - 1 /\ i = j
    BY <2>3
  <2>5. k = l
    BY <2>4, <1>1
  <2> QED  BY <2>1, <2>2, <2>4, <2>5
<1>10. \A y \in Chunks(t) : \E x \in Rest : F[x] = y
  <2> SUFFICES ASSUME NEW y \in Chunks(t)
               PROVE  \E x \in Rest : F[x] = y
    OBVIOUS
  <2> HIDE DEF t
  <2>1. PICK k \in DOMAIN t : \E i \in DOMAIN t[k].chunks : y = <<k, i>>
    BY InChunks
  <2>2. PICK i \in DOMAIN t[k].chunks : y = <<k, i>>
    BY <2>1
  <2>3. k \in Nat /\ k >= 1 /\ k + 1 \in DOMAIN q /\ t[k] = q[k + 1]
    BY <1>1, <1>2
  <2>4. <<k + 1, i>> \in Chunks(q)
    BY <2>2, <2>3, InChunks
  <2>5. <<k + 1, i>> \notin Row
    BY <2>3
  <2>6. <<k + 1, i>> \in Rest
    BY <2>4, <2>5
  <2>7. F[<<k + 1, i>>] = <<(k + 1) - 1, i>>
    BY <2>6
  <2>8. (k + 1) - 1 = k
    BY <2>3
  <2> QED  BY <2>2, <2>6, <2>7, <2>8
<1> HIDE DEF Rest, F, t, n, c
<1>11. IsFiniteSet(Chunks(t)) /\ Cardinality(Chunks(t)) = Cardinality(Rest)
  BY <1>6, <1>8, <1>9, <1>10, SameSize
<1> QED  BY <1>6, <1>7, <1>11 DEF t, n, c

----------------------------------------------------------------------------
(* What the assumptions say of the scan at hand.                            *)
LEMMA SetupFacts ==
    ASSUME TypeOK
    PROVE  /\ NumFe \in Nat \ {0} /\ FE = 0..(NumFe - 1)
           /\ TrigCnt \in Nat /\ Active \subseteq FE
           /\ MaxReads \in Nat /\ MaxIter \in Nat /\ MaxFault \in Nat
BY DataLoopAssumption DEF TypeOK, NumFe, FE, TrigCnt, Active

(* The scan does not change while it runs.                                  *)
LEMMA SetupStays ==
    ASSUME [Next]_vars
    PROVE  /\ setup' = setup
           /\ NumFe' = NumFe /\ FE' = FE /\ TrigCnt' = TrigCnt
           /\ NtriggersToReceive' = NtriggersToReceive /\ WaitsForAll' = WaitsForAll
<1>1. setup' = setup
  BY DEF Next, Hardware, SendTrigger, Arrive, Lose, Tick, Processor, PopRawData, SendFeedback,
         LoopStep, StartTrigger, ReadData, ReadAgain, ReadNothing, PopFeedback, NextChannel,
         EndOfPass, Decide, MarkEnd, EndOfExecPart2, vars
<1> QED  BY <1>1 DEF NumFe, FE, TrigCnt, NtriggersToReceive, WaitsForAll, Tolerance

(* Queues of each front end keep their type when one of them is appended to *)
(* or loses its head.                                                       *)
LEMMA QueueFacts ==
    ASSUME NEW I, NEW S, NEW q \in [I -> Seq(S)], NEW f \in I
    PROVE  /\ \A x \in S : [q EXCEPT ![f] = Append(@, x)] \in [I -> Seq(S)]
           /\ q[f] # <<>> => /\ [q EXCEPT ![f] = Tail(@)] \in [I -> Seq(S)]
                             /\ Head(q[f]) \in S
<1>1. q[f] \in Seq(S)
  OBVIOUS
<1>2. \A x \in S : Append(q[f], x) \in Seq(S)
  BY <1>1
<1>3. q[f] # <<>> => Tail(q[f]) \in Seq(S) /\ Head(q[f]) \in S
  BY <1>1
<1> QED  BY <1>2, <1>3

(* pushData keeps the types of the clipboards, whatever was accumulated.    *)
LEMMA PushTypes ==
    ASSUME TypeOK, NEW m \in [FE -> Seq(Packets)], PushRdcMap(m)
    PROVE  /\ raw' \in [FE -> Seq(Containers)]
           /\ active' \subseteq FE
           /\ rdcMap' \in [FE -> Seq(Packets)]
<1>1. iter \in Nat /\ active \subseteq FE /\ raw \in [FE -> Seq(Containers)]
  <2>1. iter \in 0..MaxIter /\ active \subseteq FE /\ raw \in [FE -> Seq(Containers)]
    BY DEF TypeOK, Containers
  <2> QED  BY <2>1, SetupFacts
<1>2. \A f \in FE : RawDataContainer(iter, m[f]) \in Containers
  BY <1>1 DEF RawDataContainer, Containers
<1>3. \A f \in FE : Append(raw[f], RawDataContainer(iter, m[f])) \in Seq(Containers)
  BY <1>1, <1>2
<1>4. raw' \in [FE -> Seq(Containers)]
  BY <1>1, <1>3 DEF PushRdcMap
<1>5. <<>> \in Seq(Packets)
  OBVIOUS
<1> QED  BY <1>1, <1>4, <1>5 DEF PushRdcMap

(* Every step keeps the types.                                              *)
LEMMA TypeStep ==
    ASSUME TypeOK, [Next]_vars
    PROVE  TypeOK'
<1>s. /\ setup' = setup /\ NumFe' = NumFe /\ FE' = FE /\ TrigCnt' = TrigCnt
  BY SetupStays
<1>f. /\ NumFe \in Nat \ {0} /\ FE = 0..(NumFe - 1) /\ TrigCnt \in Nat
      /\ MaxReads \in Nat /\ MaxIter \in Nat /\ MaxFault \in Nat
  BY SetupFacts
<1>t. /\ setup \in Setups /\ trigSent \in 0..TrigCnt
      /\ link \in [FE -> Seq(Packets)] /\ rx \in [FE -> Seq(Packets)] /\ faults \in 0..MaxFault
      /\ loopPc \in {"trigger", "read", "feedback", "decide", "mark", "done"}
      /\ iter \in 0..MaxIter /\ rdcMap \in [FE -> Seq(Packets)] /\ nReads \in 0..MaxReads
      /\ newRaw \in BOOLEAN /\ timedOut \in BOOLEAN /\ active \subseteq FE /\ idx \in 0..NumFe
      /\ gotSome \in BOOLEAN /\ cnt \in [FE -> Nat] /\ own \in [FE -> Nat] /\ late \in BOOLEAN
  BY DEF TypeOK
<1>u. /\ raw \in [FE -> Seq(Containers)] /\ fb \in [FE -> Seq(Reports)]
      /\ work \in [FE -> Seq(Labelled)] /\ read \in [FE -> Seq(Packets)]
      /\ decoded \in [FE -> Seq(Labelled)]
  BY DEF TypeOK, Containers, Reports, Labelled
<1> USE DEF Containers, Reports, Labelled
<1> SUFFICES /\ trigSent' \in 0..TrigCnt
             /\ link' \in [FE -> Seq(Packets)] /\ rx' \in [FE -> Seq(Packets)]
             /\ faults' \in 0..MaxFault
             /\ loopPc' \in {"trigger", "read", "feedback", "decide", "mark", "done"}
             /\ iter' \in 0..MaxIter /\ rdcMap' \in [FE -> Seq(Packets)]
             /\ nReads' \in 0..MaxReads /\ newRaw' \in BOOLEAN /\ timedOut' \in BOOLEAN
             /\ active' \subseteq FE /\ idx' \in 0..NumFe /\ gotSome' \in BOOLEAN
             /\ cnt' \in [FE -> Nat] /\ own' \in [FE -> Nat] /\ late' \in BOOLEAN
             /\ raw' \in [FE -> Seq(Containers)] /\ fb' \in [FE -> Seq(Reports)]
             /\ work' \in [FE -> Seq(Labelled)] /\ read' \in [FE -> Seq(Packets)]
             /\ decoded' \in [FE -> Seq(Labelled)]
  BY <1>s, <1>t DEF TypeOK
<1> HIDE DEF Containers, Reports, Labelled
<1>e. <<>> \in Seq(Packets) /\ <<>> \in Seq(Reports)
  OBVIOUS
<1>1. CASE SendTrigger
  <2>1. trigSent' \in 0..TrigCnt /\ trigSent + 1 \in Nat /\ iter \in Nat
    BY <1>1, <1>f, <1>t DEF SendTrigger, TrigDone
  <2>2. Packet(iter, trigSent + 1) \in Packets
    BY <2>1 DEF Packet, Packets
  <2>3. \A f \in FE : Append(link[f], Packet(iter, trigSent + 1)) \in Seq(Packets)
    BY <2>2, <1>t
  <2>4. link' \in [FE -> Seq(Packets)]
    BY <1>1, <2>3 DEF SendTrigger
  <2> QED  BY <1>1, <2>1, <2>4, <1>t, <1>u DEF SendTrigger, loopVars, procVars
<1>2. CASE \E f \in FE : Arrive(f)
  <2> PICK f \in FE : Arrive(f)
    BY <1>2
  <2>1. rx' \in [FE -> Seq(Packets)] /\ link' \in [FE -> Seq(Packets)]
    BY <1>t, QueueFacts DEF Arrive
  <2> QED  BY <2>1, <1>t, <1>u DEF Arrive, loopVars, procVars
<1>3. CASE \E f \in FE : Lose(f)
  <2> PICK f \in FE : Lose(f)
    BY <1>3
  <2>1. faults' \in 0..MaxFault
    <3>1. faults' = faults + 1 /\ faults < MaxFault
      BY DEF Lose
    <3> QED  BY <3>1, <1>f, <1>t
  <2>2. link' \in [FE -> Seq(Packets)]
    <3>1. CASE link' = [link EXCEPT ![f] = Tail(@)]
      BY <3>1, <1>t, QueueFacts DEF Lose
    <3>2. CASE link' = [link EXCEPT ![f][1].ok = FALSE]
      <4>1. link[f] \in Seq(Packets) /\ link[f] # <<>> /\ link[f][1] \in Packets /\ 1 \in DOMAIN link[f]
        BY <1>t DEF Lose
      <4>2. [link[f][1] EXCEPT !.ok = FALSE] \in Packets
        BY <4>1 DEF Packets
      <4>3. [link[f] EXCEPT ![1].ok = FALSE] = [link[f] EXCEPT ![1] = [link[f][1] EXCEPT !.ok = FALSE]]
        OBVIOUS
      <4>4. [link[f] EXCEPT ![1].ok = FALSE] \in Seq(Packets)
        BY <4>1, <4>2, <4>3
      <4>5. link' = [link EXCEPT ![f] = [link[f] EXCEPT ![1].ok = FALSE]]
        BY <3>2
      <4> QED  BY <4>4, <4>5, <1>t
    <3> QED  BY <3>1, <3>2 DEF Lose
  <2> QED  BY <2>1, <2>2, <1>t, <1>u DEF Lose, loopVars, procVars
<1>4. CASE Tick
  BY <1>4, <1>t, <1>u DEF Tick, hwVars, procVars
<1>5. CASE \E f \in FE : PopRawData(f)
  <2> PICK f \in FE : PopRawData(f)
    BY <1>5
  <2>1. raw' \in [FE -> Seq(Containers)] /\ Head(raw[f]) \in Containers
    BY <1>u, QueueFacts DEF PopRawData
  <2> DEFINE c == Head(raw[f])
             w == [i \in DOMAIN c.chunks |-> [pkt |-> c.chunks[i], label |-> c.label]]
  <2>2. c.chunks \in Seq(Packets) /\ c.label \in Nat
    BY <2>1 DEF Containers
  <2>3. w \in Seq(Labelled)
    <3>1. \A i \in DOMAIN c.chunks : [pkt |-> c.chunks[i], label |-> c.label] \in Labelled
      BY <2>2 DEF Labelled
    <3> HIDE DEF c
    <3>2. DOMAIN c.chunks = 1..Len(c.chunks) /\ Len(c.chunks) \in Nat
      BY <2>2
    <3> QED  BY <3>1, <3>2
  <2>4. work' = [work EXCEPT ![f] = w]
    BY DEF PopRawData
  <2> HIDE DEF w
  <2>5. work' \in [FE -> Seq(Labelled)]
    BY <2>3, <2>4, <1>u
  <2> QED  BY <2>1, <2>5, <1>t, <1>u DEF PopRawData, hwVars, loopVars
<1>6. CASE \E f \in FE : SendFeedback(f)
  <2> PICK f \in FE : SendFeedback(f)
    BY <1>6
  <2>1. work' \in [FE -> Seq(Labelled)] /\ Head(work[f]) \in Labelled
    BY <1>u, QueueFacts DEF SendFeedback
  <2>2. [iter |-> Head(work[f]).pkt.iter, isTrigger |-> Head(work[f]).pkt.ok] \in Reports
    BY <2>1 DEF Labelled, Packets, Reports
  <2>3. fb' \in [FE -> Seq(Reports)]
    BY <2>2, <1>u, QueueFacts DEF SendFeedback
  <2>4. decoded' \in [FE -> Seq(Labelled)]
    BY <2>1, <1>u, QueueFacts DEF SendFeedback
  <2> QED  BY <2>1, <2>3, <2>4, <1>t, <1>u DEF SendFeedback, hwVars, loopVars
<1>7. CASE StartTrigger
  <2>1. iter' \in 0..MaxIter /\ trigSent' \in 0..TrigCnt /\ nReads' \in 0..MaxReads
    BY <1>7, <1>f, <1>t DEF StartTrigger
  <2>2. rx' \in [FE -> Seq(Packets)]
    BY <1>7, <1>t, <1>e DEF StartTrigger
  <2>3. cnt' \in [FE -> Nat] /\ own' \in [FE -> Nat]
    BY <1>7 DEF StartTrigger
  <2> QED  BY <1>7, <2>1, <2>2, <2>3, <1>t, <1>u DEF StartTrigger, procVars
<1>8. CASE \E S \in (SUBSET FE) \ {{}} : ReadData(S)
  <2> PICK S \in SUBSET FE : ReadData(S)
    BY <1>8
  <2> DEFINE m == [f \in FE |-> IF f \in S THEN Append(rdcMap[f], Head(rx[f])) ELSE rdcMap[f]]
  <2>1. \A f \in S : f \in FE /\ rx[f] # <<>> /\ rx[f] \in Seq(Packets)
    BY <1>t DEF ReadData
  <2>2. \A f \in S : Head(rx[f]) \in Packets /\ Tail(rx[f]) \in Seq(Packets)
    BY <2>1
  <2>3. \A f \in S : Append(rdcMap[f], Head(rx[f])) \in Seq(Packets)
    BY <2>1, <2>2, <1>t
  <2>4. m \in [FE -> Seq(Packets)]
    BY <2>3, <1>t
  <2>5. rx' \in [FE -> Seq(Packets)]
    BY <2>2, <1>t DEF ReadData
  <2>6. read' \in [FE -> Seq(Packets)]
    <3>1. \A f \in S : Append(read[f], Head(rx[f])) \in Seq(Packets)
      BY <2>1, <2>2, <1>u
    <3> QED  BY <3>1, <1>u DEF ReadData
  <2>7. /\ raw' \in [FE -> Seq(Containers)] /\ active' \subseteq FE
        /\ rdcMap' \in [FE -> Seq(Packets)] /\ nReads' \in 0..MaxReads
    <3>1. CASE nReads + 1 > MaxReads
      <4>1. PushRdcMap(m) /\ nReads' = 0
        BY <3>1 DEF ReadData
      <4> HIDE DEF m
      <4>2. raw' \in [FE -> Seq(Containers)] /\ active' \subseteq FE /\ rdcMap' \in [FE -> Seq(Packets)]
        BY <4>1, <2>4, PushTypes
      <4>3. nReads' \in 0..MaxReads
        BY <4>1, <1>f
      <4> QED  BY <4>2, <4>3
    <3>2. CASE ~(nReads + 1 > MaxReads)
      <4>1. rdcMap' = m /\ nReads' = nReads + 1 /\ raw' = raw /\ active' = active
        BY <3>2 DEF ReadData
      <4>2. nReads' \in 0..MaxReads
        BY <4>1, <3>2, <1>f, <1>t
      <4> HIDE DEF m
      <4> QED  BY <4>1, <4>2, <2>4, <1>t, <1>u
    <3> QED  BY <3>1, <3>2
  <2>8. newRaw' \in BOOLEAN
    BY DEF ReadData
  <2> QED  BY <2>5, <2>6, <2>7, <2>8, <1>t, <1>u DEF ReadData, hwVars, procVars
<1>9. CASE ReadAgain
  <2>1. nReads' \in 0..MaxReads
    BY <1>9, <1>f, <1>t DEF ReadAgain
  <2> QED  BY <1>9, <2>1, <1>t, <1>u DEF ReadAgain, hwVars, procVars
<1>10. CASE ReadNothing
  <2>1. raw' \in [FE -> Seq(Containers)] /\ active' \subseteq FE /\ rdcMap' \in [FE -> Seq(Packets)]
    BY <1>10, <1>t, PushTypes DEF ReadNothing
  <2>2. idx' \in 0..NumFe
    BY <1>10, <1>f DEF ReadNothing
  <2>3. timedOut' \in BOOLEAN /\ gotSome' \in BOOLEAN
    BY <1>10 DEF ReadNothing
  <2> QED  BY <1>10, <2>1, <2>2, <2>3, <1>t, <1>u DEF ReadNothing, hwVars, procVars
<1>11. CASE PopFeedback
  <2>1. idx \in FE /\ fb[idx] # <<>>
    BY <1>11, <1>t DEF PopFeedback
  <2>2. fb' \in [FE -> Seq(Reports)]
    BY <1>11, <2>1, <1>u, QueueFacts DEF PopFeedback
  <2>3. cnt' \in [FE -> Nat] /\ own' \in [FE -> Nat]
    <3>1. /\ cnt' = cnt \/ cnt' = [cnt EXCEPT ![idx] = cnt[idx] + 1]
          /\ own' = own \/ own' = [own EXCEPT ![idx] = own[idx] + 1]
      BY <1>11, <1>t DEF PopFeedback
    <3>2. cnt[idx] + 1 \in Nat /\ own[idx] + 1 \in Nat
      BY <2>1, <1>t
    <3> QED  BY <3>1, <3>2, <2>1, <1>t
  <2>4. gotSome' \in BOOLEAN
    BY <1>11 DEF PopFeedback
  <2> QED  BY <1>11, <2>2, <2>3, <2>4, <1>t, <1>u DEF PopFeedback, hwVars, procVars
<1>12. CASE NextChannel
  <2>1. idx' \in 0..NumFe
    BY <1>12, <1>f DEF NextChannel
  <2> QED  BY <1>12, <2>1, <1>t, <1>u DEF NextChannel, hwVars, procVars
<1>13. CASE EndOfPass
  <2>0. idx' = idx \/ idx' = 0
    BY <1>13 DEF EndOfPass
  <2>1. idx' \in 0..NumFe
    BY <2>0, <1>f, <1>t
  <2>2. gotSome' \in BOOLEAN
    BY <1>13, <1>t DEF EndOfPass
  <2> QED  BY <1>13, <2>1, <2>2, <1>t, <1>u DEF EndOfPass, hwVars, procVars
<1>14. CASE Decide
  <2>0. (idx' = idx \/ idx' = 0) /\ (nReads' = nReads \/ nReads' = 0)
    BY <1>14 DEF Decide
  <2>1. idx' \in 0..NumFe /\ nReads' \in 0..MaxReads
    <3>1. idx \in 0..NumFe /\ nReads \in 0..MaxReads
      BY <1>t
    <3>2. 0 \in 0..NumFe /\ 0 \in 0..MaxReads
      BY <1>f
    <3> QED  BY <2>0, <3>1, <3>2
  <2>2. newRaw' \in BOOLEAN
    BY <1>14, <1>t DEF Decide
  <2>3. late' \in BOOLEAN
    BY <1>14, <1>t DEF Decide
  <2> QED  BY <1>14, <2>1, <2>2, <2>3, <1>t, <1>u DEF Decide, hwVars, procVars
<1>15. CASE MarkEnd
  <2>1. EndOfIteration \in Containers
    BY DEF EndOfIteration, RawDataContainer, Containers
  <2>2. idx \in FE /\ idx' \in 0..NumFe
    BY <1>15, <1>f DEF MarkEnd
  <2>3. raw' \in [FE -> Seq(Containers)]
    BY <1>15, <2>1, <2>2, <1>u, QueueFacts DEF MarkEnd
  <2>4. fb' \in [FE -> Seq(Reports)]
    BY <1>15, <1>u, <1>e DEF MarkEnd
  <2> QED  BY <1>15, <2>2, <2>3, <2>4, <1>t, <1>u DEF MarkEnd, hwVars, procVars
<1>16. CASE EndOfExecPart2
  <2>1. loopPc' \in {"trigger", "done"}
    BY <1>16 DEF EndOfExecPart2
  <2> QED  BY <1>16, <2>1, <1>t, <1>u DEF EndOfExecPart2, hwVars, loopVars, procVars
<1>17. CASE UNCHANGED vars
  BY <1>17, <1>t, <1>u DEF vars, hwVars, loopVars, procVars
<1> QED  BY <1>1, <1>2, <1>3, <1>4, <1>5, <1>6, <1>7, <1>8, <1>9, <1>10, <1>11, <1>12, <1>13,
            <1>14, <1>15, <1>16, <1>17 DEF Next, Hardware, Processor, LoopStep

(* The types hold when the scan starts.                                     *)
LEMMA TypeStart ==
    ASSUME Init
    PROVE  TypeOK
<1>1. setup \in Setups /\ TrigCnt \in Nat /\ NumFe \in Nat
  BY DataLoopAssumption DEF Init, TrigCnt, NumFe
<1>2. MaxIter \in Nat /\ MaxFault \in Nat /\ MaxReads \in Nat
  BY DataLoopAssumption
<1>3. /\ trigSent \in 0..TrigCnt /\ faults \in 0..MaxFault /\ iter \in 0..MaxIter
      /\ nReads \in 0..MaxReads /\ idx \in 0..NumFe
  BY <1>1, <1>2 DEF Init
<1>4. \A S : <<>> \in Seq(S)
  OBVIOUS
<1>5. /\ link \in [FE -> Seq(Packets)] /\ rx \in [FE -> Seq(Packets)]
      /\ rdcMap \in [FE -> Seq(Packets)] /\ read \in [FE -> Seq(Packets)]
      /\ raw \in [FE -> Seq(Containers)] /\ fb \in [FE -> Seq(Reports)]
      /\ work \in [FE -> Seq(Labelled)] /\ decoded \in [FE -> Seq(Labelled)]
  BY <1>4 DEF Init
<1>6. cnt \in [FE -> Nat] /\ own \in [FE -> Nat]
  BY DEF Init
<1>7. /\ newRaw \in BOOLEAN /\ timedOut \in BOOLEAN /\ gotSome \in BOOLEAN /\ late \in BOOLEAN
      /\ active \subseteq FE /\ loopPc = "trigger"
  BY DEF Init
<1> QED  BY <1>1, <1>3, <1>5, <1>6, <1>7 DEF TypeOK, Containers, Reports, Labelled

(* Every variable of the data loop keeps its type: no counter leaves its    *)
(* range, and no channel outside the configured ones is ever visited.       *)
THEOREM TypeCorrect == Spec => []TypeOK
BY TypeStart, TypeStep, PTL DEF Spec

----------------------------------------------------------------------------
(* What is left of a queue without its head.                                *)
LEMMA TailFacts ==
    ASSUME NEW S, NEW q \in Seq(S), q # <<>>
    PROVE  /\ Size(q) \in Nat /\ Size(Tail(q)) = Size(q) - 1 /\ Size(Tail(q)) \in Nat
           /\ 1 \in DOMAIN q /\ Head(q) = q[1]
           /\ \A i \in DOMAIN Tail(q) : i + 1 \in DOMAIN q /\ Tail(q)[i] = q[i + 1]
<1>1. Len(q) \in Nat \ {0} /\ DOMAIN q = 1..Len(q)
  OBVIOUS
<1>2. Tail(q) \in Seq(S) /\ Len(Tail(q)) = Len(q) - 1 /\ DOMAIN Tail(q) = 1..(Len(q) - 1)
  OBVIOUS
<1> QED  BY <1>1, <1>2 DEF Size

(* What is in a queue after a push.                                         *)
LEMMA AppendFacts ==
    ASSUME NEW S, NEW q \in Seq(S), NEW x \in S
    PROVE  /\ Len(q) \in Nat /\ Size(q) \in Nat /\ Size(Append(q, x)) = Size(q) + 1
           /\ DOMAIN Append(q, x) = DOMAIN q \cup {Len(q) + 1} /\ Len(q) + 1 \notin DOMAIN q
           /\ Append(q, x)[Len(q) + 1] = x
           /\ \A i \in DOMAIN q : Append(q, x)[i] = q[i]
<1>1. Len(q) \in Nat /\ DOMAIN q = 1..Len(q) /\ DOMAIN Append(q, x) = 1..(Len(q) + 1)
  OBVIOUS
<1>2. 1..(Len(q) + 1) = 1..Len(q) \cup {Len(q) + 1}
  BY <1>1
<1> QED  BY <1>1, <1>2 DEF Size

(* Packets of an iteration stay so when the queue grows or shrinks.         *)
LEMMA AppendCurrent ==
    ASSUME NEW q \in Seq(Packets), NEW x \in Packets, NEW n,
           \A i \in DOMAIN q : q[i].iter = n, x.iter = n
    PROVE  \A i \in DOMAIN Append(q, x) : Append(q, x)[i].iter = n
<1> DEFINE r == Append(q, x)
<1>1. /\ DOMAIN r = DOMAIN q \cup {Len(q) + 1} /\ r[Len(q) + 1] = x
      /\ \A i \in DOMAIN q : r[i] = q[i]
  BY AppendFacts
<1> HIDE DEF r
<1>2. \A i \in DOMAIN r : r[i].iter = n
  BY <1>1
<1> QED  BY <1>2 DEF r

(* The same when the head is taken.                                         *)
LEMMA TailCurrent ==
    ASSUME NEW q \in Seq(Packets), q # <<>>, NEW n, \A i \in DOMAIN q : q[i].iter = n
    PROVE  Head(q).iter = n /\ \A i \in DOMAIN Tail(q) : Tail(q)[i].iter = n
<1> DEFINE r == Tail(q)
           h == Head(q)
<1>1. 1 \in DOMAIN q /\ h = q[1] /\ \A i \in DOMAIN r : i + 1 \in DOMAIN q /\ r[i] = q[i + 1]
  BY TailFacts
<1> HIDE DEF r, h
<1>2. h.iter = n /\ \A i \in DOMAIN r : r[i].iter = n
  BY <1>1
<1> QED  BY <1>2 DEF r, h

(* The quantities that are counted are numbers.                             *)
LEMMA Sizes ==
    ASSUME TypeOK, NEW f \in FE
    PROVE  /\ link[f] \in Seq(Packets) /\ rx[f] \in Seq(Packets) /\ rdcMap[f] \in Seq(Packets)
           /\ raw[f] \in Seq(Containers) /\ work[f] \in Seq(Labelled)
           /\ decoded[f] \in Seq(Labelled) /\ fb[f] \in Seq(Reports)
           /\ Size(link[f]) \in Nat /\ Size(rx[f]) \in Nat /\ Size(rdcMap[f]) \in Nat
           /\ Size(work[f]) \in Nat /\ Size(fb[f]) \in Nat /\ cnt[f] \in Nat
           /\ iter \in Nat /\ trigSent \in Nat /\ trigSent <= TrigCnt /\ TrigCnt \in Nat
           /\ IsFiniteSet(Decoded(f)) /\ Cardinality(Decoded(f)) \in Nat
           /\ IsFiniteSet(Chunks(raw[f])) => Cardinality(Chunks(raw[f])) \in Nat
<1>1. /\ link[f] \in Seq(Packets) /\ rx[f] \in Seq(Packets) /\ rdcMap[f] \in Seq(Packets)
      /\ raw[f] \in Seq(Containers) /\ work[f] \in Seq(Labelled)
      /\ decoded[f] \in Seq(Labelled) /\ fb[f] \in Seq(Reports) /\ cnt[f] \in Nat
  BY DEF TypeOK, Containers, Labelled, Reports
<1>2. /\ Size(link[f]) \in Nat /\ Size(rx[f]) \in Nat /\ Size(rdcMap[f]) \in Nat
      /\ Size(work[f]) \in Nat /\ Size(fb[f]) \in Nat
  BY <1>1 DEF Size
<1>3. /\ iter \in Nat /\ trigSent \in Nat /\ trigSent <= TrigCnt /\ TrigCnt \in Nat
  <2>1. iter \in 0..MaxIter /\ trigSent \in 0..TrigCnt
    BY DEF TypeOK
  <2> QED  BY <2>1, SetupFacts
<1>4. IsFiniteSet(Decoded(f)) /\ Cardinality(Decoded(f)) \in Nat
  <2>1. DOMAIN decoded[f] = 1..Len(decoded[f]) /\ Len(decoded[f]) \in Nat
    BY <1>1
  <2>2. IsFiniteSet(DOMAIN decoded[f])
    BY <2>1, FS_Interval
  <2>3. Decoded(f) \subseteq DOMAIN decoded[f]
    BY DEF Decoded
  <2> QED  BY <2>2, <2>3, FS_Subset, FS_CardinalityType
<1>5. IsFiniteSet(Chunks(raw[f])) => Cardinality(Chunks(raw[f])) \in Nat
  BY FS_CardinalityType
<1> QED  BY <1>1, <1>2, <1>3, <1>4, <1>5

(* The two counts, as inequalities between numbers.                         *)
LEMMA Amounts ==
    ASSUME TypeOK, NEW f \in FE, Counted(f)
    PROVE  /\ Size(link[f]) \in Nat /\ Size(rx[f]) \in Nat /\ Size(rdcMap[f]) \in Nat
           /\ Size(work[f]) \in Nat /\ Size(fb[f]) \in Nat /\ cnt[f] \in Nat
           /\ Cardinality(Chunks(raw[f])) \in Nat /\ UnderWay(f) \in Nat
           /\ Cardinality(Decoded(f)) \in Nat /\ trigSent \in Nat
           /\ Cardinality(Decoded(f)) + UnderWay(f) <= trigSent
           /\ cnt[f] + Size(fb[f]) <= Cardinality(Decoded(f))
<1>1. /\ Size(link[f]) \in Nat /\ Size(rx[f]) \in Nat /\ Size(rdcMap[f]) \in Nat
      /\ Size(work[f]) \in Nat /\ Size(fb[f]) \in Nat /\ cnt[f] \in Nat
      /\ Cardinality(Decoded(f)) \in Nat /\ trigSent \in Nat
  BY Sizes
<1>2. Cardinality(Chunks(raw[f])) \in Nat
  BY Sizes DEF Counted
<1>3. UnderWay(f) \in Nat
  BY <1>1, <1>2 DEF UnderWay
<1> QED  BY <1>1, <1>2, <1>3 DEF Counted

(* A front end whose packets nobody moves keeps its invariant.              *)
LEMMA Untouched ==
    ASSUME NEW f, FrontEndInv(f), iter' = iter, trigSent' = trigSent,
           link'[f] = link[f], rx'[f] = rx[f], rdcMap'[f] = rdcMap[f], raw'[f] = raw[f],
           work'[f] = work[f], decoded'[f] = decoded[f], fb'[f] = fb[f], cnt'[f] = cnt[f]
    PROVE  FrontEndInv(f)'
BY DEF FrontEndInv, Fresh, Current, DecodedRight, Counted, Decoded, UnderWay

(* A trigger adds a packet of this burst to each link.                      *)
LEMMA SendTriggerCounts ==
    ASSUME TypeOK, SendTrigger, NEW f \in FE, FrontEndInv(f)
    PROVE  FrontEndInv(f)'
<1>1. /\ trigSent' = trigSent + 1 /\ link'[f] = Append(link[f], Packet(iter, trigSent + 1))
      /\ iter' = iter /\ rx' = rx /\ rdcMap' = rdcMap /\ raw' = raw /\ work' = work
      /\ decoded' = decoded /\ fb' = fb /\ cnt' = cnt
  BY DEF SendTrigger, loopVars, procVars
<1>2. Packet(iter, trigSent + 1) \in Packets /\ Packet(iter, trigSent + 1).iter = iter
  BY Sizes DEF Packet, Packets
<1>3. Current(link[f])'
  <2>1. Current(link[f])
    BY DEF FrontEndInv, Fresh
  <2>2. \A i \in DOMAIN link'[f] : link'[f][i].iter = iter
    BY <1>1, <1>2, <2>1, Sizes, AppendCurrent DEF Current
  <2> QED  BY <1>1, <2>2 DEF Current
<1>4. Fresh(f)'
  BY <1>1, <1>3 DEF FrontEndInv, Fresh, Current
<1>5. DecodedRight(f)'
  BY <1>1 DEF FrontEndInv, DecodedRight
<1>6. Size(link'[f]) = Size(link[f]) + 1
  BY <1>1, <1>2, Sizes, AppendFacts
<1>7. Decoded(f)' = Decoded(f)
  BY <1>1 DEF Decoded
<1>8. UnderWay(f)' = UnderWay(f) + 1
  <2>1. UnderWay(f)' = Size(link'[f]) + Size(rx[f]) + Size(rdcMap[f])
                          + Cardinality(Chunks(raw[f])) + Size(work[f])
    BY <1>1 DEF UnderWay
  <2>u. UnderWay(f) = Size(link[f]) + Size(rx[f]) + Size(rdcMap[f])
                          + Cardinality(Chunks(raw[f])) + Size(work[f])
    BY DEF UnderWay
  <2>n. /\ Size(link[f]) \in Nat /\ Size(rx[f]) \in Nat /\ Size(rdcMap[f]) \in Nat
        /\ Size(work[f]) \in Nat /\ Cardinality(Chunks(raw[f])) \in Nat
    BY Amounts DEF FrontEndInv
  <2> QED  BY <1>6, <2>1, <2>u, <2>n
<1>9. Counted(f)'
  <2>1. Cardinality(Decoded(f)) + UnderWay(f)' <= trigSent + 1
    BY <1>8, Amounts DEF FrontEndInv
  <2> QED  BY <1>1, <1>7, <2>1 DEF FrontEndInv, Counted
<1> QED  BY <1>4, <1>5, <1>9 DEF FrontEndInv

(* A packet that arrives moves from the link to the receiver.               *)
LEMMA ArriveCounts ==
    ASSUME TypeOK, NEW f \in FE, Arrive(f), FrontEndInv(f)
    PROVE  FrontEndInv(f)'
<1>1. /\ link[f] # <<>> /\ rx'[f] = Append(rx[f], Head(link[f])) /\ link'[f] = Tail(link[f])
      /\ trigSent' = trigSent /\ iter' = iter /\ rdcMap' = rdcMap /\ raw' = raw /\ work' = work
      /\ decoded' = decoded /\ fb' = fb /\ cnt' = cnt
  <2>1. link \in [FE -> Seq(Packets)] /\ rx \in [FE -> Seq(Packets)]
    BY DEF TypeOK
  <2> QED  BY <2>1 DEF Arrive, loopVars, procVars
<1>2. link[f] \in Seq(Packets) /\ rx[f] \in Seq(Packets) /\ Head(link[f]) \in Packets
  BY <1>1, Sizes
<1>3. Current(link[f])' /\ Current(rx[f])'
  <2>1. Current(link[f]) /\ Current(rx[f])
    BY DEF FrontEndInv, Fresh
  <2>2. Head(link[f]).iter = iter /\ \A i \in DOMAIN link'[f] : link'[f][i].iter = iter
    BY <1>1, <1>2, <2>1, TailCurrent DEF Current
  <2>3. \A i \in DOMAIN rx'[f] : rx'[f][i].iter = iter
    BY <1>1, <1>2, <2>1, <2>2, AppendCurrent DEF Current
  <2> QED  BY <1>1, <2>2, <2>3 DEF Current
<1>4. Fresh(f)'
  BY <1>1, <1>3 DEF FrontEndInv, Fresh, Current
<1>5. DecodedRight(f)'
  BY <1>1 DEF FrontEndInv, DecodedRight
<1>6. Size(link'[f]) = Size(link[f]) - 1 /\ Size(rx'[f]) = Size(rx[f]) + 1
  BY <1>1, <1>2, TailFacts, AppendFacts
<1>7. Decoded(f)' = Decoded(f)
  BY <1>1 DEF Decoded
<1>8. UnderWay(f)' = UnderWay(f)
  <2>1. UnderWay(f)' = Size(link'[f]) + Size(rx'[f]) + Size(rdcMap[f])
                          + Cardinality(Chunks(raw[f])) + Size(work[f])
    BY <1>1 DEF UnderWay
  <2>u. UnderWay(f) = Size(link[f]) + Size(rx[f]) + Size(rdcMap[f])
                          + Cardinality(Chunks(raw[f])) + Size(work[f])
    BY DEF UnderWay
  <2>n. /\ Size(link[f]) \in Nat /\ Size(rx[f]) \in Nat /\ Size(rdcMap[f]) \in Nat
        /\ Size(work[f]) \in Nat /\ Cardinality(Chunks(raw[f])) \in Nat
    BY Amounts DEF FrontEndInv
  <2> QED  BY <1>6, <2>1, <2>u, <2>n
<1>9. Counted(f)'
  BY <1>1, <1>7, <1>8 DEF FrontEndInv, Counted
<1> QED  BY <1>4, <1>5, <1>9 DEF FrontEndInv

(* A packet that is lost leaves the link; a corrupted one stays.            *)
LEMMA LoseCounts ==
    ASSUME TypeOK, NEW f \in FE, Lose(f), FrontEndInv(f)
    PROVE  FrontEndInv(f)'
<1>1. /\ link[f] # <<>>
      /\ trigSent' = trigSent /\ iter' = iter /\ rx' = rx /\ rdcMap' = rdcMap /\ raw' = raw
      /\ work' = work /\ decoded' = decoded /\ fb' = fb /\ cnt' = cnt
  BY DEF Lose, loopVars, procVars
<1>2. link \in [FE -> Seq(Packets)] /\ link[f] \in Seq(Packets)
  BY DEF TypeOK
<1>3. Current(link[f])
  BY DEF FrontEndInv, Fresh
<1>4. Current(link[f])' /\ Size(link'[f]) <= Size(link[f]) /\ Size(link'[f]) \in Nat
  <2>1. CASE link' = [link EXCEPT ![f] = Tail(@)]
    <3>1. link'[f] = Tail(link[f])
      BY <2>1, <1>2
    <3>2. \A i \in DOMAIN link'[f] : link'[f][i].iter = iter
      BY <1>1, <1>2, <1>3, <3>1, TailCurrent DEF Current
    <3>3. Size(link'[f]) = Size(link[f]) - 1 /\ Size(link'[f]) \in Nat /\ Size(link[f]) \in Nat
      BY <1>1, <1>2, <3>1, TailFacts
    <3>4. Size(link'[f]) <= Size(link[f])
      BY <3>3
    <3> QED  BY <1>1, <3>2, <3>3, <3>4 DEF Current
  <2>2. CASE link' = [link EXCEPT ![f][1].ok = FALSE]
    <3> DEFINE q == link[f]
               p == [q[1] EXCEPT !.ok = FALSE]
               r == [q EXCEPT ![1] = p]
    <3>1. q \in Seq(Packets) /\ q # <<>> /\ 1 \in DOMAIN q /\ q[1] \in Packets
      BY <1>1, <1>2
    <3>2. p \in Packets /\ p.iter = q[1].iter
      BY <3>1 DEF Packets
    <3>3. link'[f] = r
      BY <2>2, <1>2
    <3> HIDE DEF p
    <3>4. r \in Seq(Packets) /\ Len(r) = Len(q) /\ DOMAIN r = DOMAIN q
      BY <3>1, <3>2
    <3>5. \A i \in DOMAIN r : r[i] = p \/ r[i] = q[i]
      BY <3>4
    <3>6. r[1] = p /\ \A i \in DOMAIN r : i # 1 => r[i] = q[i]
      BY <3>1, <3>4
    <3> HIDE DEF r
    <3>7. \A i \in DOMAIN q : q[i].iter = iter
      BY <1>3 DEF Current
    <3> HIDE DEF q
    <3>8. \A i \in DOMAIN r : r[i].iter = iter
      BY <3>1, <3>2, <3>4, <3>6, <3>7
    <3>9. Len(r) \in Nat /\ Len(q) \in Nat
      BY <3>1, <3>4
    <3>10. Size(r) <= Size(q) /\ Size(r) \in Nat
      BY <3>4, <3>9 DEF Size
    <3> QED  BY <1>1, <3>3, <3>8, <3>10 DEF Current, q
  <2> QED  BY <2>1, <2>2 DEF Lose
<1>5. Fresh(f)'
  BY <1>1, <1>4 DEF FrontEndInv, Fresh, Current
<1>6. DecodedRight(f)'
  BY <1>1 DEF FrontEndInv, DecodedRight
<1>7. Decoded(f)' = Decoded(f)
  BY <1>1 DEF Decoded
<1>8. UnderWay(f)' <= UnderWay(f) /\ UnderWay(f)' \in Nat
  <2>1. UnderWay(f)' = Size(link'[f]) + Size(rx[f]) + Size(rdcMap[f])
                          + Cardinality(Chunks(raw[f])) + Size(work[f])
    BY <1>1 DEF UnderWay
  <2>u. UnderWay(f) = Size(link[f]) + Size(rx[f]) + Size(rdcMap[f])
                          + Cardinality(Chunks(raw[f])) + Size(work[f])
    BY DEF UnderWay
  <2>n. /\ Size(link[f]) \in Nat /\ Size(rx[f]) \in Nat /\ Size(rdcMap[f]) \in Nat
        /\ Size(work[f]) \in Nat /\ Cardinality(Chunks(raw[f])) \in Nat
    BY Amounts DEF FrontEndInv
  <2> QED  BY <1>4, <2>1, <2>u, <2>n
<1>9. Counted(f)'
  <2>1. Cardinality(Decoded(f)) + UnderWay(f)' <= trigSent
    BY <1>8, Amounts DEF FrontEndInv
  <2> QED  BY <1>1, <1>7, <2>1 DEF FrontEndInv, Counted
<1> QED  BY <1>5, <1>6, <1>9 DEF FrontEndInv

(* A container popped moves its packets to the processor.                   *)
LEMMA PopRawDataCounts ==
    ASSUME TypeOK, NEW f \in FE, PopRawData(f), FrontEndInv(f)
    PROVE  FrontEndInv(f)'
<1> DEFINE c == Head(raw[f])
           w == [i \in DOMAIN c.chunks |-> [pkt |-> c.chunks[i], label |-> c.label]]
<1>1. /\ raw[f] # <<>> /\ work[f] = <<>> /\ raw'[f] = Tail(raw[f]) /\ work'[f] = w
      /\ trigSent' = trigSent /\ iter' = iter /\ link' = link /\ rx' = rx /\ rdcMap' = rdcMap
      /\ decoded' = decoded /\ fb' = fb /\ cnt' = cnt
  <2>1. raw \in [FE -> Seq(Containers)] /\ work \in [FE -> Seq(Labelled)]
    BY DEF TypeOK, Containers, Labelled
  <2> QED  BY <2>1 DEF PopRawData, hwVars, loopVars
<1>2. raw[f] \in Seq(Containers) /\ IsFiniteSet(Chunks(raw[f]))
  BY Sizes DEF FrontEndInv, Counted
<1>3. /\ c \in Containers /\ c = raw[f][1] /\ 1 \in DOMAIN raw[f]
      /\ \A k \in DOMAIN raw'[f] : k + 1 \in DOMAIN raw[f] /\ raw'[f][k] = raw[f][k + 1]
  <2>1. c \in Containers
    BY <1>1, <1>2
  <2> QED  BY <1>1, <1>2, <2>1, TailFacts
<1>4. /\ IsFiniteSet(Chunks(raw'[f])) /\ Cardinality(Chunks(raw'[f])) \in Nat
      /\ Cardinality(Chunks(raw[f])) = Cardinality(Chunks(raw'[f])) + Len(c.chunks)
  BY <1>1, <1>2, TailChunks
<1>5. c.chunks \in Seq(Packets)
  BY <1>3 DEF Containers
<1> HIDE DEF c
<1>6. DOMAIN c.chunks = 1..Len(c.chunks) /\ Len(c.chunks) \in Nat
  BY <1>5
<1>7. DOMAIN w = 1..Len(c.chunks)
  BY <1>6
<1>8. Len(w) = Len(c.chunks)
  BY <1>6, <1>7
<1>9. \A k \in DOMAIN raw[f] : \A i \in DOMAIN raw[f][k].chunks :
          raw[f][k].label = iter /\ raw[f][k].chunks[i].iter = iter
  BY DEF FrontEndInv, Fresh
<1>10. \A i \in DOMAIN w : w[i].label = iter /\ w[i].pkt.iter = iter
  <2>1. \A i \in DOMAIN c.chunks : c.label = iter /\ c.chunks[i].iter = iter
    BY <1>3, <1>9
  <2> QED  BY <2>1
<1> HIDE DEF w
<1>11. Fresh(f)'
  <2>1. \A k \in DOMAIN raw'[f] : \A i \in DOMAIN raw'[f][k].chunks :
          raw'[f][k].label = iter /\ raw'[f][k].chunks[i].iter = iter
    BY <1>3, <1>9
  <2>2. \A i \in DOMAIN work'[f] : work'[f][i].label = iter /\ work'[f][i].pkt.iter = iter
    BY <1>1, <1>10
  <2>3. Current(link[f])' /\ Current(rx[f])' /\ Current(rdcMap[f])'
    BY <1>1 DEF FrontEndInv, Fresh, Current
  <2> QED  BY <1>1, <2>1, <2>2, <2>3 DEF Fresh
<1>12. DecodedRight(f)'
  BY <1>1 DEF FrontEndInv, DecodedRight
<1>13. Decoded(f)' = Decoded(f)
  BY <1>1 DEF Decoded
<1>14. Size(work'[f]) = Len(c.chunks) /\ Size(work[f]) = 0
  <2>1. Len(work[f]) = 0
    BY <1>1
  <2> QED  BY <1>1, <1>8, <2>1 DEF Size
<1>15. UnderWay(f)' = UnderWay(f)
  <2>1. UnderWay(f)' = Size(link[f]) + Size(rx[f]) + Size(rdcMap[f])
                          + Cardinality(Chunks(raw'[f])) + Size(work'[f])
    BY <1>1 DEF UnderWay
  <2>2. Size(work'[f]) \in Nat
    BY <1>6, <1>14
  <2>3. Cardinality(Chunks(raw[f])) = Cardinality(Chunks(raw'[f])) + Size(work'[f])
    BY <1>4, <1>14
  <2>4. Cardinality(Chunks(raw'[f])) \in Nat /\ Size(work[f]) = 0
    BY <1>4, <1>14
  <2>u. UnderWay(f) = Size(link[f]) + Size(rx[f]) + Size(rdcMap[f])
                          + Cardinality(Chunks(raw[f])) + Size(work[f])
    BY DEF UnderWay
  <2>n. /\ Size(link[f]) \in Nat /\ Size(rx[f]) \in Nat /\ Size(rdcMap[f]) \in Nat
        /\ Size(work[f]) \in Nat /\ Cardinality(Chunks(raw[f])) \in Nat
    BY Amounts DEF FrontEndInv
  <2> QED  BY <2>1, <2>2, <2>3, <2>4, <2>u, <2>n
<1>16. Counted(f)'
  BY <1>1, <1>4, <1>13, <1>15 DEF FrontEndInv, Counted
<1> QED  BY <1>11, <1>12, <1>16 DEF FrontEndInv

(* A packet decoded is no longer under way, and reported.                   *)
LEMMA SendFeedbackCounts ==
    ASSUME TypeOK, NEW f \in FE, SendFeedback(f), FrontEndInv(f)
    PROVE  FrontEndInv(f)'
<1> DEFINE x == Head(work[f])
           y == [iter |-> x.pkt.iter, isTrigger |-> x.pkt.ok]
           n == Len(decoded[f]) + 1
<1>1. /\ work[f] # <<>> /\ work'[f] = Tail(work[f]) /\ decoded'[f] = Append(decoded[f], x)
      /\ fb'[f] = Append(fb[f], y)
      /\ trigSent' = trigSent /\ iter' = iter /\ link' = link /\ rx' = rx /\ rdcMap' = rdcMap
      /\ raw' = raw /\ cnt' = cnt
  <2>1. /\ fb \in [FE -> Seq(Reports)] /\ work \in [FE -> Seq(Labelled)]
        /\ decoded \in [FE -> Seq(Labelled)]
    BY DEF TypeOK, Reports, Labelled
  <2> QED  BY <2>1 DEF SendFeedback, hwVars, loopVars
<1>2. /\ work[f] \in Seq(Labelled) /\ decoded[f] \in Seq(Labelled) /\ fb[f] \in Seq(Reports)
      /\ iter \in Nat
  BY Sizes
<1>3. x \in Labelled
  BY <1>1, <1>2
<1>4. y \in Reports
  BY <1>3 DEF Labelled, Packets, Reports
<1>5. /\ x = work[f][1] /\ 1 \in DOMAIN work[f] /\ Size(work'[f]) = Size(work[f]) - 1
      /\ \A i \in DOMAIN work'[f] : i + 1 \in DOMAIN work[f] /\ work'[f][i] = work[f][i + 1]
  BY <1>1, <1>2, TailFacts
<1> HIDE DEF x, y
<1>6. /\ DOMAIN decoded'[f] = DOMAIN decoded[f] \cup {n} /\ n \notin DOMAIN decoded[f]
      /\ decoded'[f][n] = x /\ \A i \in DOMAIN decoded[f] : decoded'[f][i] = decoded[f][i]
  BY <1>1, <1>2, <1>3, AppendFacts
<1>7. Size(fb'[f]) = Size(fb[f]) + 1
  BY <1>1, <1>2, <1>4, AppendFacts
<1>8. \A i \in DOMAIN work[f] : work[f][i].label = iter /\ work[f][i].pkt.iter = iter
  BY DEF FrontEndInv, Fresh
<1>9. x.label = iter /\ x.pkt.iter = iter
  BY <1>5, <1>8
<1>10. Fresh(f)'
  <2>1. \A i \in DOMAIN work'[f] : work'[f][i].label = iter /\ work'[f][i].pkt.iter = iter
    BY <1>5, <1>8
  <2>2. Current(link[f])' /\ Current(rx[f])' /\ Current(rdcMap[f])'
    BY <1>1 DEF FrontEndInv, Fresh, Current
  <2>3. \A k \in DOMAIN raw[f] : \A i \in DOMAIN raw[f][k].chunks :
            raw[f][k].label = iter /\ raw[f][k].chunks[i].iter = iter
    BY DEF FrontEndInv, Fresh
  <2> QED  BY <1>1, <2>1, <2>2, <2>3 DEF Fresh
<1> HIDE DEF n
<1>11. DecodedRight(f)'
  <2>1. \A i \in DOMAIN decoded[f] :
          decoded[f][i].label = decoded[f][i].pkt.iter /\ decoded[f][i].pkt.iter <= iter
    BY DEF FrontEndInv, DecodedRight
  <2>2. x.label = x.pkt.iter /\ x.pkt.iter <= iter
    BY <1>2, <1>9
  <2>3. \A i \in DOMAIN decoded'[f] :
          decoded'[f][i].label = decoded'[f][i].pkt.iter /\ decoded'[f][i].pkt.iter <= iter
    BY <1>6, <2>1, <2>2
  <2> QED  BY <1>1, <2>3 DEF DecodedRight
<1>12. Decoded(f)' = Decoded(f) \cup {n} /\ n \notin Decoded(f)
  BY <1>1, <1>6, <1>9 DEF Decoded
<1>13. Cardinality(Decoded(f)') = Cardinality(Decoded(f)) + 1
  BY <1>12, Sizes, FS_AddElement
<1>14. UnderWay(f)' = UnderWay(f) - 1
  <2>1. UnderWay(f)' = Size(link[f]) + Size(rx[f]) + Size(rdcMap[f])
                          + Cardinality(Chunks(raw[f])) + Size(work'[f])
    BY <1>1 DEF UnderWay
  <2>u. UnderWay(f) = Size(link[f]) + Size(rx[f]) + Size(rdcMap[f])
                          + Cardinality(Chunks(raw[f])) + Size(work[f])
    BY DEF UnderWay
  <2>n. /\ Size(link[f]) \in Nat /\ Size(rx[f]) \in Nat /\ Size(rdcMap[f]) \in Nat
        /\ Size(work[f]) \in Nat /\ Cardinality(Chunks(raw[f])) \in Nat
    BY Amounts DEF FrontEndInv
  <2> QED  BY <1>5, <2>1, <2>u, <2>n
<1>15. Counted(f)'
  <2>1. Cardinality(Decoded(f)') + UnderWay(f)' <= trigSent
    BY <1>13, <1>14, Amounts DEF FrontEndInv
  <2>2. cnt[f] + Size(fb'[f]) <= Cardinality(Decoded(f)')
    BY <1>7, <1>13, Amounts DEF FrontEndInv
  <2> QED  BY <1>1, <2>1, <2>2 DEF FrontEndInv, Counted
<1> QED  BY <1>10, <1>11, <1>15 DEF FrontEndInv

(* What is pushed is labelled with this iteration, and nothing is dropped.  *)
LEMMA PushCounts ==
    ASSUME TypeOK, NEW m \in [FE -> Seq(Packets)], PushRdcMap(m), NEW f \in FE, FrontEndInv(f),
           \A i \in DOMAIN m[f] : m[f][i].iter = iter
    PROVE  /\ rdcMap'[f] = <<>> /\ Size(rdcMap'[f]) = 0 /\ Size(m[f]) \in Nat
           /\ IsFiniteSet(Chunks(raw'[f]))
           /\ Cardinality(Chunks(raw'[f])) = Cardinality(Chunks(raw[f])) + Size(m[f])
           /\ \A k \in DOMAIN raw'[f] : \A i \in DOMAIN raw'[f][k].chunks :
                 raw'[f][k].label = iter /\ raw'[f][k].chunks[i].iter = iter
<1> DEFINE c == RawDataContainer(iter, m[f])
<1>1. /\ rdcMap'[f] = <<>>
      /\ m[f] = <<>> => raw'[f] = raw[f]
      /\ m[f] # <<>> => raw'[f] = Append(raw[f], c)
  BY DEF PushRdcMap
<1>2. Size(rdcMap'[f]) = 0
  <2>1. Len(<<>>) = 0
    OBVIOUS
  <2> QED  BY <1>1, <2>1 DEF Size
<1>3. m[f] \in Seq(Packets) /\ Len(m[f]) \in Nat /\ Size(m[f]) \in Nat
  <2>1. m[f] \in Seq(Packets) /\ Len(m[f]) \in Nat
    OBVIOUS
  <2> QED  BY <2>1 DEF Size
<1>4. /\ raw[f] \in Seq(Containers) /\ IsFiniteSet(Chunks(raw[f])) /\ iter \in Nat
      /\ Cardinality(Chunks(raw[f])) \in Nat
  BY Sizes DEF FrontEndInv, Counted
<1>5. \A k \in DOMAIN raw[f] : \A i \in DOMAIN raw[f][k].chunks :
          raw[f][k].label = iter /\ raw[f][k].chunks[i].iter = iter
  BY DEF FrontEndInv, Fresh
<1>6. CASE m[f] = <<>>
  <2>1. Len(m[f]) = 0
    BY <1>6
  <2>2. Size(m[f]) = 0
    BY <2>1 DEF Size
  <2>3. Cardinality(Chunks(raw'[f])) = Cardinality(Chunks(raw[f])) + Size(m[f])
    BY <1>1, <1>4, <1>6, <2>2
  <2>4. \A k \in DOMAIN raw'[f] : \A i \in DOMAIN raw'[f][k].chunks :
           raw'[f][k].label = iter /\ raw'[f][k].chunks[i].iter = iter
    BY <1>1, <1>5, <1>6
  <2>5. IsFiniteSet(Chunks(raw'[f]))
    BY <1>1, <1>4, <1>6
  <2> QED  BY <1>1, <1>2, <1>3, <2>3, <2>4, <2>5
<1>7. CASE m[f] # <<>>
  <2>1. c \in Containers /\ c.chunks = m[f] /\ c.label = iter
    BY <1>3, <1>4 DEF RawDataContainer, Containers
  <2> HIDE DEF c
  <2>2. /\ DOMAIN raw'[f] = DOMAIN raw[f] \cup {Len(raw[f]) + 1} /\ raw'[f][Len(raw[f]) + 1] = c
        /\ \A k \in DOMAIN raw[f] : raw'[f][k] = raw[f][k]
    BY <1>1, <1>4, <1>7, <2>1, AppendFacts
  <2>3. \A i \in DOMAIN c.chunks : c.label = iter /\ c.chunks[i].iter = iter
    BY <2>1
  <2>4. \A k \in DOMAIN raw'[f] : \A i \in DOMAIN raw'[f][k].chunks :
           raw'[f][k].label = iter /\ raw'[f][k].chunks[i].iter = iter
    BY <1>5, <2>2, <2>3
  <2>5. /\ IsFiniteSet(Chunks(raw'[f]))
        /\ Cardinality(Chunks(raw'[f])) = Cardinality(Chunks(raw[f])) + Len(c.chunks)
    BY <1>1, <1>4, <1>7, <2>1, AppendChunks
  <2>6. Len(c.chunks) = Size(m[f])
    BY <2>1 DEF Size
  <2>7. Cardinality(Chunks(raw'[f])) = Cardinality(Chunks(raw[f])) + Size(m[f])
    BY <2>5, <2>6
  <2> QED  BY <1>1, <1>2, <1>3, <2>4, <2>5, <2>7
<1> QED  BY <1>6, <1>7

(* What was read is accumulated, or pushed with what was accumulated.       *)
LEMMA ReadDataCounts ==
    ASSUME TypeOK, NEW S \in SUBSET FE, ReadData(S), NEW f \in FE, FrontEndInv(f)
    PROVE  FrontEndInv(f)'
<1> DEFINE m == [g \in FE |-> IF g \in S THEN Append(rdcMap[g], Head(rx[g])) ELSE rdcMap[g]]
<1>1. /\ trigSent' = trigSent /\ iter' = iter /\ link' = link /\ work' = work
      /\ decoded' = decoded /\ fb' = fb /\ cnt' = cnt
      /\ rx'[f] = IF f \in S THEN Tail(rx[f]) ELSE rx[f]
      /\ \A g \in S : rx[g] # <<>>
  BY DEF ReadData, hwVars, procVars
<1>2. rx \in [FE -> Seq(Packets)] /\ rdcMap \in [FE -> Seq(Packets)]
  BY DEF TypeOK
<1>3. \A g \in S : rx[g] \in Seq(Packets) /\ Head(rx[g]) \in Packets
  BY <1>1, <1>2
<1>4. m \in [FE -> Seq(Packets)]
  BY <1>2, <1>3
<1>5. m[f] = IF f \in S THEN Append(rdcMap[f], Head(rx[f])) ELSE rdcMap[f]
  OBVIOUS
<1>6. \/ PushRdcMap(m)
      \/ rdcMap' = m /\ raw' = raw
  BY DEF ReadData
<1> HIDE DEF m
<1>7. Current(rx[f]) /\ Current(rdcMap[f])
  BY DEF FrontEndInv, Fresh
<1>8. /\ \A i \in DOMAIN m[f] : m[f][i].iter = iter
      /\ \A i \in DOMAIN rx'[f] : rx'[f][i].iter = iter
      /\ Size(m[f]) \in Nat /\ Size(rx'[f]) \in Nat
      /\ Size(m[f]) + Size(rx'[f]) = Size(rdcMap[f]) + Size(rx[f])
  <2>1. CASE f \in S
    <3>1. /\ rx[f] \in Seq(Packets) /\ rx[f] # <<>> /\ Head(rx[f]) \in Packets
          /\ rdcMap[f] \in Seq(Packets)
          /\ m[f] = Append(rdcMap[f], Head(rx[f])) /\ rx'[f] = Tail(rx[f])
      BY <1>1, <1>2, <1>3, <1>5, <2>1
    <3>2. Head(rx[f]).iter = iter /\ \A i \in DOMAIN rx'[f] : rx'[f][i].iter = iter
      BY <1>7, <3>1, TailCurrent DEF Current
    <3>3. \A i \in DOMAIN m[f] : m[f][i].iter = iter
      BY <1>7, <3>1, <3>2, AppendCurrent DEF Current
    <3>4. /\ Size(rx'[f]) = Size(rx[f]) - 1 /\ Size(rx'[f]) \in Nat
          /\ Size(rx[f]) \in Nat
      BY <3>1, TailFacts
    <3>5. Size(m[f]) = Size(rdcMap[f]) + 1 /\ Size(rdcMap[f]) \in Nat
      BY <3>1, AppendFacts
    <3>6. /\ Size(m[f]) \in Nat
          /\ Size(m[f]) + Size(rx'[f]) = Size(rdcMap[f]) + Size(rx[f])
      BY <3>4, <3>5
    <3> QED  BY <3>2, <3>3, <3>4, <3>6
  <2>2. CASE f \notin S
    <3>1. m[f] = rdcMap[f] /\ rx'[f] = rx[f]
      BY <1>1, <1>5, <2>2
    <3>2. Size(rx[f]) \in Nat /\ Size(rdcMap[f]) \in Nat
      BY Sizes
    <3> QED  BY <1>7, <3>1, <3>2 DEF Current
  <2> QED  BY <2>1, <2>2
<1>9. /\ \A i \in DOMAIN rdcMap'[f] : rdcMap'[f][i].iter = iter
      /\ \A k \in DOMAIN raw'[f] : \A i \in DOMAIN raw'[f][k].chunks :
            raw'[f][k].label = iter /\ raw'[f][k].chunks[i].iter = iter
      /\ IsFiniteSet(Chunks(raw'[f]))
      /\ Size(rdcMap'[f]) \in Nat /\ Cardinality(Chunks(raw'[f])) \in Nat
      /\ Size(rdcMap'[f]) + Cardinality(Chunks(raw'[f]))
            = Size(m[f]) + Cardinality(Chunks(raw[f]))
  <2>0. Cardinality(Chunks(raw[f])) \in Nat
    BY Amounts DEF FrontEndInv
  <2>1. CASE PushRdcMap(m)
    <3>1. /\ rdcMap'[f] = <<>> /\ Size(rdcMap'[f]) = 0
          /\ IsFiniteSet(Chunks(raw'[f]))
          /\ Cardinality(Chunks(raw'[f])) = Cardinality(Chunks(raw[f])) + Size(m[f])
          /\ \A k \in DOMAIN raw'[f] : \A i \in DOMAIN raw'[f][k].chunks :
                raw'[f][k].label = iter /\ raw'[f][k].chunks[i].iter = iter
      BY <1>4, <1>8, <2>1, PushCounts
    <3>2. \A i \in DOMAIN rdcMap'[f] : rdcMap'[f][i].iter = iter
      BY <3>1
    <3>3. /\ Size(rdcMap'[f]) \in Nat /\ Cardinality(Chunks(raw'[f])) \in Nat
          /\ Size(rdcMap'[f]) + Cardinality(Chunks(raw'[f]))
                = Size(m[f]) + Cardinality(Chunks(raw[f]))
      BY <1>8, <2>0, <3>1
    <3> QED  BY <3>1, <3>2, <3>3
  <2>2. CASE rdcMap' = m /\ raw' = raw
    <3>1. /\ IsFiniteSet(Chunks(raw[f]))
          /\ \A k \in DOMAIN raw[f] : \A i \in DOMAIN raw[f][k].chunks :
                raw[f][k].label = iter /\ raw[f][k].chunks[i].iter = iter
      BY DEF FrontEndInv, Counted, Fresh
    <3> QED  BY <1>8, <2>0, <2>2, <3>1
  <2> QED  BY <1>6, <2>1, <2>2
<1>10. Fresh(f)'
  <2>1. Current(link[f])'
    BY <1>1 DEF FrontEndInv, Fresh, Current
  <2>2. Current(rx[f])' /\ Current(rdcMap[f])'
    BY <1>1, <1>8, <1>9 DEF Current
  <2>3. \A i \in DOMAIN work[f] : work[f][i].label = iter /\ work[f][i].pkt.iter = iter
    BY DEF FrontEndInv, Fresh
  <2> QED  BY <1>1, <1>9, <2>1, <2>2, <2>3 DEF Fresh
<1>11. DecodedRight(f)'
  BY <1>1 DEF FrontEndInv, DecodedRight
<1>12. Decoded(f)' = Decoded(f)
  BY <1>1 DEF Decoded
<1>13. UnderWay(f)' = UnderWay(f)
  <2>1. UnderWay(f)' = Size(link[f]) + Size(rx'[f]) + Size(rdcMap'[f])
                          + Cardinality(Chunks(raw'[f])) + Size(work[f])
    BY <1>1 DEF UnderWay
  <2>u. UnderWay(f) = Size(link[f]) + Size(rx[f]) + Size(rdcMap[f])
                          + Cardinality(Chunks(raw[f])) + Size(work[f])
    BY DEF UnderWay
  <2>n. /\ Size(link[f]) \in Nat /\ Size(rx[f]) \in Nat /\ Size(rdcMap[f]) \in Nat
        /\ Size(work[f]) \in Nat /\ Cardinality(Chunks(raw[f])) \in Nat
    BY Amounts DEF FrontEndInv
  <2> QED  BY <1>8, <1>9, <2>1, <2>u, <2>n
<1>14. Counted(f)'
  BY <1>1, <1>9, <1>12, <1>13 DEF FrontEndInv, Counted
<1> QED  BY <1>10, <1>11, <1>14 DEF FrontEndInv

(* The end of a read cycle pushes what is accumulated.                      *)
LEMMA ReadNothingCounts ==
    ASSUME TypeOK, ReadNothing, NEW f \in FE, FrontEndInv(f)
    PROVE  FrontEndInv(f)'
<1>1. /\ trigSent' = trigSent /\ iter' = iter /\ link' = link /\ rx' = rx /\ work' = work
      /\ decoded' = decoded /\ fb' = fb /\ cnt' = cnt /\ PushRdcMap(rdcMap)
  BY DEF ReadNothing, hwVars, procVars
<1>2. rdcMap \in [FE -> Seq(Packets)] /\ \A i \in DOMAIN rdcMap[f] : rdcMap[f][i].iter = iter
  BY DEF TypeOK, FrontEndInv, Fresh, Current
<1>3. /\ rdcMap'[f] = <<>> /\ Size(rdcMap'[f]) = 0
      /\ IsFiniteSet(Chunks(raw'[f]))
      /\ Cardinality(Chunks(raw'[f])) = Cardinality(Chunks(raw[f])) + Size(rdcMap[f])
      /\ \A k \in DOMAIN raw'[f] : \A i \in DOMAIN raw'[f][k].chunks :
            raw'[f][k].label = iter /\ raw'[f][k].chunks[i].iter = iter
  BY <1>1, <1>2, PushCounts
<1>4. Fresh(f)'
  <2>1. Current(link[f])' /\ Current(rx[f])'
    BY <1>1 DEF FrontEndInv, Fresh, Current
  <2>2. Current(rdcMap[f])'
    BY <1>3 DEF Current
  <2>3. \A i \in DOMAIN work[f] : work[f][i].label = iter /\ work[f][i].pkt.iter = iter
    BY DEF FrontEndInv, Fresh
  <2> QED  BY <1>1, <1>3, <2>1, <2>2, <2>3 DEF Fresh
<1>5. DecodedRight(f)'
  BY <1>1 DEF FrontEndInv, DecodedRight
<1>6. Decoded(f)' = Decoded(f)
  BY <1>1 DEF Decoded
<1>7. UnderWay(f)' = UnderWay(f)
  <2>1. UnderWay(f)' = Size(link[f]) + Size(rx[f]) + Size(rdcMap'[f])
                          + Cardinality(Chunks(raw'[f])) + Size(work[f])
    BY <1>1 DEF UnderWay
  <2>u. UnderWay(f) = Size(link[f]) + Size(rx[f]) + Size(rdcMap[f])
                          + Cardinality(Chunks(raw[f])) + Size(work[f])
    BY DEF UnderWay
  <2>n. /\ Size(link[f]) \in Nat /\ Size(rx[f]) \in Nat /\ Size(rdcMap[f]) \in Nat
        /\ Size(work[f]) \in Nat /\ Cardinality(Chunks(raw[f])) \in Nat
    BY Amounts DEF FrontEndInv
  <2> QED  BY <1>3, <2>1, <2>u, <2>n
<1>8. Counted(f)'
  BY <1>1, <1>3, <1>6, <1>7 DEF FrontEndInv, Counted
<1> QED  BY <1>4, <1>5, <1>8 DEF FrontEndInv

(* A report taken is counted at most once.                                  *)
LEMMA PopFeedbackCounts ==
    ASSUME TypeOK, PopFeedback, FrontEndInv(idx)
    PROVE  FrontEndInv(idx)'
<1> DEFINE f == idx
<1>1. /\ f \in FE /\ fb[f] # <<>> /\ fb'[f] = Tail(fb[f]) /\ idx' = idx
      /\ cnt'[f] = cnt[f] \/ cnt'[f] = cnt[f] + 1
      /\ trigSent' = trigSent /\ iter' = iter /\ link' = link /\ rx' = rx /\ rdcMap' = rdcMap
      /\ raw' = raw /\ work' = work /\ decoded' = decoded
  <2>1. /\ active \subseteq FE /\ cnt \in [FE -> Nat] /\ fb \in [FE -> Seq(Reports)]
    BY DEF TypeOK, Reports
  <2>2. idx \in active
    BY DEF PopFeedback
  <2>3. idx \in FE
    BY <2>1, <2>2
  <2>4. cnt'[idx] = cnt[idx] \/ cnt'[idx] = cnt[idx] + 1
    BY <2>1, <2>3 DEF PopFeedback
  <2>5. fb'[idx] = Tail(fb[idx])
    BY <2>1, <2>3 DEF PopFeedback
  <2> QED  BY <2>3, <2>4, <2>5 DEF PopFeedback, hwVars, procVars
<1>2. Size(fb'[f]) = Size(fb[f]) - 1
  <2>1. fb[f] \in Seq(Reports)
    BY <1>1, Sizes
  <2> QED  BY <1>1, <2>1, TailFacts
<1>3. Fresh(f)'
  BY <1>1 DEF FrontEndInv, Fresh, Current
<1>4. DecodedRight(f)'
  BY <1>1 DEF FrontEndInv, DecodedRight
<1>5. Decoded(f)' = Decoded(f) /\ UnderWay(f)' = UnderWay(f)
  BY <1>1 DEF Decoded, UnderWay
<1>6. Counted(f)'
  <2>1. /\ cnt[f] \in Nat /\ Size(fb[f]) \in Nat /\ Cardinality(Decoded(f)) \in Nat
        /\ cnt[f] + Size(fb[f]) <= Cardinality(Decoded(f))
    BY <1>1, Amounts DEF FrontEndInv
  <2>2. cnt'[f] + Size(fb'[f]) <= Cardinality(Decoded(f))
    BY <1>1, <1>2, <2>1
  <2> QED  BY <1>1, <1>5, <2>2 DEF FrontEndInv, Counted
<1> QED  BY <1>3, <1>4, <1>6 DEF FrontEndInv

(* The end of iteration marker holds no packet, and the reports that are    *)
(* reset with it are none that is still to be counted.                      *)
LEMMA MarkEndCounts ==
    ASSUME TypeOK, MarkEnd, NEW f \in FE, f = idx, FrontEndInv(f)
    PROVE  FrontEndInv(f)'
<1>1. /\ raw'[f] = Append(raw[f], EndOfIteration) /\ fb'[f] = <<>>
      /\ trigSent' = trigSent /\ iter' = iter /\ link' = link /\ rx' = rx /\ rdcMap' = rdcMap
      /\ cnt' = cnt /\ work' = work /\ decoded' = decoded
  <2>1. raw \in [FE -> Seq(Containers)] /\ fb \in [FE -> Seq(Reports)]
    BY DEF TypeOK, Containers, Reports
  <2> QED  BY <2>1 DEF MarkEnd, hwVars, procVars
<1>2. EndOfIteration \in Containers /\ EndOfIteration.chunks = <<>>
  BY DEF EndOfIteration, RawDataContainer, Containers
<1>3. raw[f] \in Seq(Containers) /\ IsFiniteSet(Chunks(raw[f]))
  BY Sizes DEF FrontEndInv, Counted
<1>4. /\ DOMAIN raw'[f] = DOMAIN raw[f] \cup {Len(raw[f]) + 1}
      /\ raw'[f][Len(raw[f]) + 1] = EndOfIteration
      /\ \A k \in DOMAIN raw[f] : raw'[f][k] = raw[f][k]
  BY <1>1, <1>2, <1>3, AppendFacts
<1>5. /\ IsFiniteSet(Chunks(raw'[f]))
      /\ Cardinality(Chunks(raw'[f])) = Cardinality(Chunks(raw[f])) + Len(EndOfIteration.chunks)
  BY <1>1, <1>2, <1>3, AppendChunks
<1>6. Len(EndOfIteration.chunks) = 0 /\ Len(fb'[f]) = 0 /\ Size(fb'[f]) = 0
  <2>1. Len(EndOfIteration.chunks) = 0
    BY <1>2
  <2>2. Len(fb'[f]) = 0
    BY <1>1
  <2> QED  BY <2>1, <2>2 DEF Size
<1>7. Cardinality(Chunks(raw'[f])) = Cardinality(Chunks(raw[f]))
  BY <1>5, <1>6, Amounts DEF FrontEndInv
<1>8. Fresh(f)'
  <2>1. \A k \in DOMAIN raw[f] : \A i \in DOMAIN raw[f][k].chunks :
          raw[f][k].label = iter /\ raw[f][k].chunks[i].iter = iter
    BY DEF FrontEndInv, Fresh
  <2>2. DOMAIN EndOfIteration.chunks = {}
    BY <1>2
  <2>3. \A k \in DOMAIN raw'[f] : \A i \in DOMAIN raw'[f][k].chunks :
          raw'[f][k].label = iter /\ raw'[f][k].chunks[i].iter = iter
    BY <1>4, <2>1, <2>2
  <2>4. Current(link[f])' /\ Current(rx[f])' /\ Current(rdcMap[f])'
    BY <1>1 DEF FrontEndInv, Fresh, Current
  <2>5. \A i \in DOMAIN work[f] : work[f][i].label = iter /\ work[f][i].pkt.iter = iter
    BY DEF FrontEndInv, Fresh
  <2> QED  BY <1>1, <2>3, <2>4, <2>5 DEF Fresh
<1>9. DecodedRight(f)'
  BY <1>1 DEF FrontEndInv, DecodedRight
<1>10. Decoded(f)' = Decoded(f)
  BY <1>1 DEF Decoded
<1>11. UnderWay(f)' = UnderWay(f)
  BY <1>1, <1>7 DEF UnderWay
<1>12. Counted(f)'
  <2>1. cnt[f] + Size(fb'[f]) <= Cardinality(Decoded(f))
    BY <1>6, Amounts DEF FrontEndInv
  <2> QED  BY <1>1, <1>5, <1>10, <1>11, <2>1 DEF FrontEndInv, Counted
<1> QED  BY <1>8, <1>9, <1>12 DEF FrontEndInv

(* Once all events are counted nothing is under way, of this burst or of an *)
(* earlier one, and no report is waiting.                                   *)
LEMMA NothingLeft ==
    ASSUME TypeOK, WaitsForAll, ReceivedAllTriggers, NEW f \in FE, FrontEndInv(f)
    PROVE  UnderWay(f) = 0 /\ Size(fb[f]) = 0
<1>1. cnt[f] >= NtriggersToReceive /\ NtriggersToReceive >= TrigCnt
  BY DEF ReceivedAllTriggers, WaitsForAll
<1>2. trigSent \in Nat /\ trigSent <= TrigCnt /\ TrigCnt \in Nat
  BY Sizes
<1>3. NtriggersToReceive \in Int
  <2>1. TrigCnt \in Int /\ Tolerance \in Int /\ WordSize \in Nat \ {0}
    BY DataLoopAssumption DEF TypeOK, TrigCnt, Tolerance
  <2> QED  BY <2>1 DEF NtriggersToReceive
<1>4. /\ cnt[f] \in Nat /\ Size(fb[f]) \in Nat /\ Cardinality(Decoded(f)) \in Nat
      /\ UnderWay(f) \in Nat /\ Cardinality(Decoded(f)) + UnderWay(f) <= trigSent
      /\ cnt[f] + Size(fb[f]) <= Cardinality(Decoded(f))
  BY Amounts DEF FrontEndInv
<1> QED  BY <1>1, <1>2, <1>3, <1>4

(* An empty queue is the one of size zero.                                  *)
LEMMA SizeZero ==
    ASSUME NEW S, NEW q \in Seq(S)
    PROVE  Size(q) = 0 <=> q = <<>>
BY DEF Size

(* The next burst meets no packet of the last one.                          *)
LEMMA StartTriggerCounts ==
    ASSUME TypeOK, WaitsForAll, StartTrigger, IdleInv, ReceivedInv, NEW f \in FE, FrontEndInv(f)
    PROVE  FrontEndInv(f)'
<1>1. /\ loopPc = "trigger" /\ trigSent' = 0 /\ iter' = iter + 1
      /\ rx'[f] = <<>> \/ rx'[f] = rx[f]
      /\ cnt'[f] = 0 /\ link' = link /\ rdcMap' = rdcMap /\ raw' = raw /\ work' = work
      /\ fb' = fb /\ decoded' = decoded
  BY DEF StartTrigger, procVars
<1>2. /\ link[f] \in Seq(Packets) /\ rx[f] \in Seq(Packets) /\ rdcMap[f] \in Seq(Packets)
      /\ raw[f] \in Seq(Containers) /\ work[f] \in Seq(Labelled) /\ fb[f] \in Seq(Reports)
      /\ iter \in Nat
  BY Sizes
<1>3. /\ link[f] = <<>> /\ rx[f] = <<>> /\ rdcMap[f] = <<>> /\ work[f] = <<>> /\ fb[f] = <<>>
      /\ Chunks(raw[f]) = {}
  <2>1. CASE iter = 0
    <3>1. raw[f] = <<>>
      BY <2>1 DEF IdleInv
    <3>2. Chunks(raw[f]) = {}
      BY <3>1 DEF Chunks
    <3> QED  BY <2>1, <3>2 DEF IdleInv
  <2>2. CASE iter # 0
    <3>1. ReceivedAllTriggers
      BY <1>1, <1>2, <2>2 DEF ReceivedInv
    <3>2. UnderWay(f) = 0 /\ Size(fb[f]) = 0
      BY <3>1, NothingLeft
    <3>3. /\ Size(link[f]) \in Nat /\ Size(rx[f]) \in Nat /\ Size(rdcMap[f]) \in Nat
          /\ Size(work[f]) \in Nat /\ Cardinality(Chunks(raw[f])) \in Nat
      BY Amounts DEF FrontEndInv
    <3>4. /\ Size(link[f]) = 0 /\ Size(rx[f]) = 0 /\ Size(rdcMap[f]) = 0
          /\ Size(work[f]) = 0 /\ Cardinality(Chunks(raw[f])) = 0
      BY <3>2, <3>3 DEF UnderWay
    <3>5. IsFiniteSet(Chunks(raw[f]))
      BY DEF FrontEndInv, Counted
    <3>6. Chunks(raw[f]) = {}
      BY <3>4, <3>5, FS_EmptySet
    <3> QED  BY <1>2, <3>2, <3>4, <3>6, SizeZero
  <2> QED  BY <2>1, <2>2
<1>4. rx'[f] = <<>>
  BY <1>1, <1>3
<1>5. DOMAIN <<>> = {}
  OBVIOUS
<1>6. Fresh(f)'
  <2>1. \A k \in DOMAIN raw[f] : \A i \in DOMAIN raw[f][k].chunks : FALSE
    <3> SUFFICES ASSUME NEW k \in DOMAIN raw[f], NEW i \in DOMAIN raw[f][k].chunks
                 PROVE  FALSE
      OBVIOUS
    <3>1. <<k, i>> \in Chunks(raw[f])
      BY InChunks
    <3> QED  BY <1>3, <3>1
  <2>2. Current(link[f])' /\ Current(rx[f])' /\ Current(rdcMap[f])'
    BY <1>1, <1>3, <1>4, <1>5 DEF Current
  <2>3. \A i \in DOMAIN work'[f] : work'[f][i].label = iter' /\ work'[f][i].pkt.iter = iter'
    BY <1>1, <1>3, <1>5
  <2> QED  BY <1>1, <2>1, <2>2, <2>3 DEF Fresh
<1>7. \A i \in DOMAIN decoded[f] :
          /\ decoded[f][i].label = decoded[f][i].pkt.iter
          /\ decoded[f][i].pkt.iter <= iter /\ decoded[f][i].pkt.iter \in Nat
  <2>1. \A i \in DOMAIN decoded[f] : decoded[f][i] \in Labelled
    BY Sizes
  <2>2. \A i \in DOMAIN decoded[f] : decoded[f][i].pkt.iter \in Nat
    BY <2>1 DEF Labelled, Packets
  <2> QED  BY <2>2 DEF FrontEndInv, DecodedRight
<1>8. \A i \in DOMAIN decoded[f] :
          decoded[f][i].pkt.iter <= iter + 1 /\ decoded[f][i].pkt.iter # iter + 1
  BY <1>2, <1>7
<1>9. DecodedRight(f)'
  BY <1>1, <1>7, <1>8 DEF DecodedRight
<1>10. Cardinality(Decoded(f)') = 0
  <2>1. Decoded(f)' = {}
    BY <1>1, <1>8 DEF Decoded
  <2> QED  BY <2>1, FS_EmptySet
<1>11. Counted(f)'
  <2>1. Size(<<>>) = 0
    BY DEF Size
  <2>2. IsFiniteSet(Chunks(raw[f])) /\ Cardinality(Chunks(raw[f])) = 0
    BY <1>3, FS_EmptySet
  <2>3. UnderWay(f)' = 0
    BY <1>1, <1>3, <1>4, <2>1, <2>2 DEF UnderWay
  <2>4. Size(fb'[f]) = 0
    BY <1>1, <1>3, <2>1
  <2> QED  BY <1>1, <1>10, <2>2, <2>3, <2>4 DEF Counted
<1> QED  BY <1>6, <1>9, <1>11 DEF FrontEndInv

----------------------------------------------------------------------------
(* Every step keeps the counts of every front end.                          *)
LEMMA FrontEndStep ==
    ASSUME TypeOK, WaitsForAll, [Next]_vars, IdleInv, ReceivedInv,
           \A f \in FE : FrontEndInv(f), NEW f \in FE
    PROVE  FrontEndInv(f)'
<1>0. FrontEndInv(f)
  OBVIOUS
<1>1. CASE SendTrigger
  BY <1>0, <1>1, SendTriggerCounts
<1>2. CASE \E g \in FE : Arrive(g)
  <2> PICK g \in FE : Arrive(g)
    BY <1>2
  <2>1. CASE g = f
    BY <1>0, <2>1, ArriveCounts
  <2>2. CASE g # f
    <3>1. link'[f] = link[f] /\ rx'[f] = rx[f]
      BY <2>2 DEF Arrive, TypeOK
    <3> QED  BY <1>0, <3>1, Untouched DEF Arrive, loopVars, procVars
  <2> QED  BY <2>1, <2>2
<1>3. CASE \E g \in FE : Lose(g)
  <2> PICK g \in FE : Lose(g)
    BY <1>3
  <2>1. CASE g = f
    BY <1>0, <2>1, LoseCounts
  <2>2. CASE g # f
    <3>1. link'[f] = link[f]
      BY <2>2 DEF Lose, TypeOK
    <3> QED  BY <1>0, <3>1, Untouched DEF Lose, loopVars, procVars
  <2> QED  BY <2>1, <2>2
<1>4. CASE Tick \/ ReadAgain
  BY <1>0, <1>4, Untouched DEF Tick, ReadAgain, hwVars, procVars
<1>5. CASE \E g \in FE : PopRawData(g)
  <2> PICK g \in FE : PopRawData(g)
    BY <1>5
  <2>1. CASE g = f
    BY <1>0, <2>1, PopRawDataCounts
  <2>2. CASE g # f
    <3>1. raw'[f] = raw[f] /\ work'[f] = work[f]
      BY <2>2 DEF PopRawData, TypeOK
    <3> QED  BY <1>0, <3>1, Untouched DEF PopRawData, hwVars, loopVars
  <2> QED  BY <2>1, <2>2
<1>6. CASE \E g \in FE : SendFeedback(g)
  <2> PICK g \in FE : SendFeedback(g)
    BY <1>6
  <2>1. CASE g = f
    BY <1>0, <2>1, SendFeedbackCounts
  <2>2. CASE g # f
    <3>1. fb'[f] = fb[f] /\ work'[f] = work[f] /\ decoded'[f] = decoded[f]
      BY <2>2 DEF SendFeedback, TypeOK
    <3> QED  BY <1>0, <3>1, Untouched DEF SendFeedback, hwVars, loopVars
  <2> QED  BY <2>1, <2>2
<1>7. CASE StartTrigger
  BY <1>0, <1>7, StartTriggerCounts
<1>8. CASE \E S \in (SUBSET FE) \ {{}} : ReadData(S)
  BY <1>0, <1>8, ReadDataCounts
<1>9. CASE ReadNothing
  BY <1>0, <1>9, ReadNothingCounts
<1>10. CASE PopFeedback
  <2>1. CASE idx = f
    <3>1. FrontEndInv(idx)' /\ idx' = idx
      BY <1>0, <1>10, <2>1, PopFeedbackCounts DEF PopFeedback
    <3> QED  BY <2>1, <3>1 DEF FrontEndInv, Fresh, Current, DecodedRight, Counted, Decoded, UnderWay
  <2>2. CASE idx # f
    <3>1. fb'[f] = fb[f] /\ cnt'[f] = cnt[f]
      BY <1>10, <2>2 DEF PopFeedback, TypeOK
    <3> QED  BY <1>0, <1>10, <3>1, Untouched DEF PopFeedback, hwVars, procVars
  <2> QED  BY <2>1, <2>2
<1>11. CASE NextChannel \/ EndOfPass
  BY <1>0, <1>11, Untouched DEF NextChannel, EndOfPass, hwVars, procVars
<1>12. CASE Decide
  BY <1>0, <1>12, Untouched DEF Decide, hwVars, procVars
<1>13. CASE MarkEnd
  <2>1. CASE idx = f
    BY <1>0, <1>13, <2>1, MarkEndCounts
  <2>2. CASE idx # f
    <3>1. fb'[f] = fb[f] /\ raw'[f] = raw[f]
      BY <1>13, <2>2 DEF MarkEnd, TypeOK
    <3> QED  BY <1>0, <1>13, <3>1, Untouched DEF MarkEnd, hwVars, procVars
  <2> QED  BY <2>1, <2>2
<1>14. CASE EndOfExecPart2
  BY <1>0, <1>14, Untouched DEF EndOfExecPart2, hwVars, loopVars, procVars
<1>15. CASE UNCHANGED vars
  BY <1>0, <1>15, Untouched DEF vars, hwVars, loopVars, procVars
<1> QED  BY <1>1, <1>2, <1>3, <1>4, <1>5, <1>6, <1>7, <1>8, <1>9, <1>10, <1>11, <1>12, <1>13,
            <1>14, <1>15 DEF Next, Hardware, Processor, LoopStep

(* Before the first burst only the start of the first burst can happen.     *)
LEMMA IdleStep ==
    ASSUME TypeOK, IdleInv, [Next]_vars
    PROVE  IdleInv'
<1>f. FE' = FE /\ TrigCnt' = TrigCnt
  BY SetupStays
<1>t. iter \in Nat
  <2>1. iter \in 0..MaxIter
    BY DEF TypeOK
  <2> QED  BY <2>1, SetupFacts
<1>1. CASE StartTrigger
  <2>1. iter' = iter + 1
    BY <1>1 DEF StartTrigger
  <2>2. iter' # 0
    BY <2>1, <1>t
  <2> QED  BY <2>2 DEF IdleInv
<1>2. CASE ~StartTrigger
  <2>1. iter' = iter
    BY <1>2 DEF Next, Hardware, SendTrigger, Arrive, Lose, Tick, Processor, PopRawData,
         SendFeedback, LoopStep, ReadData, ReadAgain, ReadNothing, PopFeedback,
         NextChannel, EndOfPass, Decide, MarkEnd, EndOfExecPart2, vars, loopVars
  <2>2. CASE iter # 0
    BY <2>1, <2>2 DEF IdleInv
  <2>3. CASE iter = 0
    <3>1. /\ loopPc = "trigger" /\ trigSent = TrigCnt
          /\ \A f \in FE : /\ link[f] = <<>> /\ rx[f] = <<>> /\ rdcMap[f] = <<>>
                            /\ raw[f] = <<>> /\ work[f] = <<>> /\ fb[f] = <<>>
      BY <2>3 DEF IdleInv
    <3>2. ~SendTrigger
      BY <3>1 DEF SendTrigger, TrigDone
    <3>3. \A f \in FE : ~Arrive(f) /\ ~Lose(f)
      BY <3>1 DEF Arrive, Lose
    <3>4. \A f \in FE : ~Processor(f)
      BY <3>1 DEF Processor, PopRawData, SendFeedback
    <3>5. ~Tick
      BY <3>1 DEF Tick
    <3>6. ~LoopStep
      BY <3>1, <1>2 DEF LoopStep, ReadData, ReadAgain, ReadNothing, PopFeedback, NextChannel,
         EndOfPass, Decide, MarkEnd, EndOfExecPart2
    <3>7. UNCHANGED vars
      BY <3>2, <3>3, <3>4, <3>5, <3>6 DEF Next, Hardware
    <3> QED  BY <1>f, <3>1, <3>7 DEF IdleInv, vars, hwVars, loopVars, procVars
  <2> QED  BY <2>2, <2>3
<1> QED  BY <1>1, <1>2

(* Events counted stay counted until the next burst starts, and the loop    *)
(* leaves for the marker only with all of them, or cut short.               *)
LEMMA ReceivedStep ==
    ASSUME TypeOK, IdleInv, ReceivedInv, ~late', [Next]_vars
    PROVE  ReceivedInv'
<1>f. FE' = FE /\ NtriggersToReceive' = NtriggersToReceive
  BY SetupStays
<1>1. CASE StartTrigger \/ PopFeedback
  <2>1. loopPc' \notin {"mark", "trigger", "done"}
    BY <1>1 DEF StartTrigger, PopFeedback
  <2> QED  BY <2>1 DEF ReceivedInv
<1>2. CASE Decide
  <2>1. cnt' = cnt /\ iter' = iter
    BY <1>2 DEF Decide
  <2>2. loopPc' = "read" \/ (loopPc' = "mark" /\ late' = (late \/ ~ReceivedAllTriggers))
    BY <1>2 DEF Decide
  <2>3. CASE loopPc' = "read"
    BY <2>3 DEF ReceivedInv
  <2>4. CASE late' = (late \/ ~ReceivedAllTriggers)
    <3>1. ReceivedAllTriggers
      BY <2>4
    <3>2. ReceivedAllTriggers'
      BY <3>1, <2>1, <1>f DEF ReceivedAllTriggers
    <3> QED  BY <3>2 DEF ReceivedInv
  <2> QED  BY <2>2, <2>3, <2>4
<1>3. CASE ~StartTrigger /\ ~PopFeedback /\ ~Decide
  <2>1. cnt' = cnt /\ iter' = iter
    BY <1>3 DEF Next, Hardware, SendTrigger, Arrive, Lose, Tick, Processor, PopRawData,
         SendFeedback, LoopStep, ReadData, ReadAgain, ReadNothing,
         NextChannel, EndOfPass, MarkEnd, EndOfExecPart2, vars, loopVars
  <2>2. \/ loopPc' = loopPc
        \/ loopPc' \in {"feedback", "decide"}
        \/ loopPc = "mark"
    BY <1>3 DEF Next, Hardware, SendTrigger, Arrive, Lose, Tick, Processor, PopRawData,
         SendFeedback, LoopStep, ReadData, ReadAgain, ReadNothing,
         NextChannel, EndOfPass, MarkEnd, EndOfExecPart2, vars, loopVars
  <2>3. ReceivedAllTriggers => ReceivedAllTriggers'
    BY <2>1, <1>f DEF ReceivedAllTriggers
  <2> QED  BY <2>1, <2>2, <2>3 DEF ReceivedInv
<1> QED  BY <1>1, <1>2, <1>3

(* An iteration that was cut short stays so in the history.                 *)
LEMMA LateStays ==
    ASSUME [Next]_vars, late
    PROVE  late'
BY DEF Next, Hardware, SendTrigger, Arrive, Lose, Tick, Processor, PopRawData, SendFeedback,
       LoopStep, StartTrigger, ReadData, ReadAgain, ReadNothing, PopFeedback, NextChannel,
       EndOfPass, Decide, MarkEnd, EndOfExecPart2, vars, loopVars

(* The counting invariant is kept by every step.                            *)
LEMMA OnTimeStep ==
    ASSUME TypeOK, OnTimeInv, [Next]_vars
    PROVE  OnTimeInv'
<1> SUFFICES ASSUME WaitsForAll', ~late'
             PROVE  (\A f \in FE : FrontEndInv(f))' /\ IdleInv' /\ ReceivedInv'
  BY DEF OnTimeInv
<1>1. WaitsForAll /\ FE' = FE
  BY SetupStays
<1>2. ~late
  BY LateStays
<1>3. (\A f \in FE : FrontEndInv(f)) /\ IdleInv /\ ReceivedInv
  BY <1>1, <1>2 DEF OnTimeInv
<1>4. \A f \in FE : FrontEndInv(f)'
  BY <1>1, <1>3, FrontEndStep
<1>5. (\A f \in FE : FrontEndInv(f))'
  BY <1>1, <1>4
<1> QED  BY <1>3, <1>5, IdleStep, ReceivedStep

(* It holds when the scan starts.                                           *)
LEMMA OnTimeStart ==
    ASSUME Init
    PROVE  OnTimeInv
<1>1. TypeOK
  BY TypeStart
<1>2. IdleInv /\ ReceivedInv
  BY DEF Init, IdleInv, ReceivedInv
<1>3. ASSUME NEW f \in FE
      PROVE  FrontEndInv(f)
  <2>1. /\ link[f] = <<>> /\ rx[f] = <<>> /\ rdcMap[f] = <<>> /\ raw[f] = <<>>
        /\ work[f] = <<>> /\ fb[f] = <<>> /\ decoded[f] = <<>> /\ cnt[f] = 0
        /\ trigSent = TrigCnt
    BY DEF Init
  <2>2. DOMAIN <<>> = {} /\ Size(<<>>) = 0
    BY DEF Size
  <2>3. Fresh(f) /\ DecodedRight(f)
    BY <2>1, <2>2 DEF Fresh, Current, DecodedRight
  <2>4. Decoded(f) = {} /\ Chunks(raw[f]) = {}
    BY <2>1, <2>2 DEF Decoded, Chunks
  <2>5. /\ IsFiniteSet(Chunks(raw[f])) /\ Cardinality(Chunks(raw[f])) = 0
        /\ Cardinality(Decoded(f)) = 0
    BY <2>4, FS_EmptySet
  <2>6. UnderWay(f) = 0
    BY <2>1, <2>2, <2>5 DEF UnderWay
  <2>7. TrigCnt \in Nat
    BY <1>1, SetupFacts
  <2>8. Counted(f)
    BY <2>1, <2>2, <2>5, <2>6, <2>7 DEF Counted
  <2> QED  BY <2>3, <2>8 DEF FrontEndInv
<1> QED  BY <1>2, <1>3 DEF OnTimeInv

(* The invariant is strong enough.                                          *)
LEMMA OnTimeFollows ==
    ASSUME TypeOK, OnTimeInv
    PROVE  OnTime
<1> SUFFICES ASSUME WaitsForAll, ~late
             PROVE  OnTimeComplete /\ OnTimeLabels
  BY DEF OnTime, OnTimeComplete, OnTimeLabels
<1>1. (\A f \in FE : FrontEndInv(f)) /\ IdleInv /\ ReceivedInv
  BY DEF OnTimeInv
<1>2. OnTimeLabels
  BY <1>1 DEF OnTimeLabels, FrontEndInv, DecodedRight
<1>3. ASSUME loopPc = "mark", NEW f \in FE
      PROVE  Cardinality(Decoded(f)) >= NtriggersToReceive
  <2>1. iter \in Nat
    BY Sizes
  <2>2. iter > 0
    BY <1>1, <1>3, <2>1 DEF IdleInv
  <2>3. cnt[f] >= NtriggersToReceive
    BY <1>1, <1>3, <2>2 DEF ReceivedInv, ReceivedAllTriggers
  <2>4. FrontEndInv(f)
    BY <1>1
  <2>5. /\ cnt[f] \in Nat /\ Size(fb[f]) \in Nat /\ Cardinality(Decoded(f)) \in Nat
        /\ cnt[f] + Size(fb[f]) <= Cardinality(Decoded(f))
    BY <2>4, Amounts DEF FrontEndInv
  <2>6. NtriggersToReceive \in Int
    <3>1. TrigCnt \in Int /\ Tolerance \in Int /\ WordSize \in Nat \ {0}
      BY DataLoopAssumption DEF TypeOK, TrigCnt, Tolerance
    <3> QED  BY <3>1 DEF NtriggersToReceive
  <2> QED  BY <2>3, <2>5, <2>6
<1>4. OnTimeComplete
  BY <1>3 DEF OnTimeComplete, Decoded
<1> QED  BY <1>2, <1>4

(* As long as no iteration was cut short by the time limit, an iteration    *)
(* ends only with all the events of its burst decoded, and whatever is      *)
(* decoded carries the loop status of the burst that made it: for any       *)
(* number of front ends, triggers and iterations, and any interleaving of   *)
(* hardware, processors, clock and loop.                                    *)
THEOREM IterationsKeptApart == Spec => []OnTime
<1>1. Init => TypeOK /\ OnTimeInv
  BY TypeStart, OnTimeStart
<1>2. TypeOK /\ OnTimeInv /\ [Next]_vars => (TypeOK /\ OnTimeInv)'
  BY TypeStep, OnTimeStep
<1>3. TypeOK /\ OnTimeInv => OnTime
  BY OnTimeFollows
<1> QED  BY <1>1, <1>2, <1>3, PTL DEF Spec


----------------------------------------------------------------------------
(* What was read, on its way to the decoder. *)
PktOf == [x \in Labelled |-> x.pkt]
ChunksOf == [x \in Containers |-> x.chunks]

(* Decoded, with the processor, in its clipboard, and not pushed yet. *)
Way(d, w, r, m) == Cat(Cat(Cat(d, w), r), m)

WayOf(f) ==
    Way(Mapped(decoded[f], PktOf), Mapped(work[f], PktOf),
        FlattenSeq(Mapped(raw[f], ChunksOf)), rdcMap[f])

Conserved(f) == read[f] = WayOf(f)

(* What is read comes last. *)
LEMMA WayRead ==
    ASSUME NEW S, NEW d \in Seq(S), NEW w \in Seq(S), NEW r \in Seq(S), NEW m \in Seq(S),
           NEW o \in Seq(S)
    PROVE  Way(d, w, r, Cat(m, o)) = Cat(Way(d, w, r, m), o)
<1>1. /\ \A a, b \in Seq(S) : Cat(a, b) \in Seq(S)
      /\ \A a, b, c \in Seq(S) : Cat(Cat(a, b), c) = Cat(a, Cat(b, c))
  BY CatFacts
<1> DEFINE dw == Cat(d, w)
           dwr == Cat(dw, r)
<1>2. dw \in Seq(S) /\ dwr \in Seq(S)
  BY <1>1
<1> HIDE DEF dwr
<1>3. Cat(dwr, Cat(m, o)) = Cat(Cat(dwr, m), o)
  BY <1>1, <1>2
<1> QED BY <1>3 DEF Way, dwr

(* What was accumulated is pushed. *)
LEMMA WayPush ==
    ASSUME NEW S, NEW d \in Seq(S), NEW w \in Seq(S), NEW r \in Seq(S), NEW m \in Seq(S)
    PROVE  Way(d, w, Cat(r, m), <<>>) = Way(d, w, r, m)
<1>1. /\ \A a, b \in Seq(S) : Cat(a, b) \in Seq(S)
      /\ \A a, b, c \in Seq(S) : Cat(Cat(a, b), c) = Cat(a, Cat(b, c))
      /\ \A a \in Seq(S) : Cat(a, <<>>) = a
  BY CatFacts
<1> DEFINE dw == Cat(d, w)
           rm == Cat(r, m)
<1>2. dw \in Seq(S) /\ rm \in Seq(S)
  BY <1>1
<1> HIDE DEF dw
<1>3. Cat(dw, rm) \in Seq(S) /\ Cat(Cat(dw, r), m) = Cat(dw, rm)
  BY <1>1, <1>2
<1>4. Cat(Cat(dw, rm), <<>>) = Cat(dw, rm)
  BY <1>1, <1>3
<1> QED BY <1>3, <1>4 DEF Way, dw

(* A processor takes the container that was pushed first. *)
LEMMA WayPop ==
    ASSUME NEW S, NEW d \in Seq(S), NEW w \in Seq(S), NEW r \in Seq(S), NEW m \in Seq(S)
    PROVE  Way(d, w, r, m) = Way(d, <<>>, Cat(w, r), m)
<1>1. /\ \A a, b \in Seq(S) : Cat(a, b) \in Seq(S)
      /\ \A a, b, c \in Seq(S) : Cat(Cat(a, b), c) = Cat(a, Cat(b, c))
      /\ \A a \in Seq(S) : Cat(a, <<>>) = a
  BY CatFacts
<1>2. Cat(Cat(d, w), r) = Cat(d, Cat(w, r)) /\ Cat(d, <<>>) = d
  BY <1>1
<1> QED BY <1>2 DEF Way

(* It decodes the packet it has first. *)
LEMMA WayDecode ==
    ASSUME NEW S, NEW d \in Seq(S), NEW w \in Seq(S), NEW r \in Seq(S), NEW m \in Seq(S), w # <<>>
    PROVE  Way(Append(d, Head(w)), Tail(w), r, m) = Way(d, w, r, m)
<1> DEFINE h == <<Head(w)>>
           t == Tail(w)
<1>1. h \in Seq(S) /\ t \in Seq(S) /\ w = Cat(h, t) /\ Append(d, Head(w)) = Cat(d, h)
  <2>1. h \in Seq(S) /\ t \in Seq(S)
    OBVIOUS
  <2>2. w = h \o t
    <3>1. h \o t \in Seq(S)
      BY <2>1, ConcatProperties
    <3> QED BY <3>1, SeqEqual
  <2>3. Append(d, Head(w)) = d \o h
    <3>1. Head(w) \in S
      OBVIOUS
    <3> QED BY <3>1, AppendIsConcat
  <2> HIDE DEF h, t
  <2> QED BY <2>1, <2>2, <2>3 DEF Cat
<1> HIDE DEF h, t
<1>2. Cat(Cat(d, h), t) = Cat(d, Cat(h, t))
  BY <1>1, CatFacts
<1> QED BY <1>1, <1>2 DEF Way, t


(* The two functions, and what is kept in the queues. *)
LEMMA WayTypes ==
    ASSUME TypeOK, NEW f \in FE
    PROVE  /\ PktOf \in Maps(Labelled, Packets) /\ ChunksOf \in Maps(Containers, Seq(Packets))
           /\ decoded[f] \in Seq(Labelled) /\ work[f] \in Seq(Labelled)
           /\ raw[f] \in Seq(Containers) /\ rdcMap[f] \in Seq(Packets) /\ rx[f] \in Seq(Packets)
           /\ Mapped(decoded[f], PktOf) \in Seq(Packets) /\ Mapped(work[f], PktOf) \in Seq(Packets)
           /\ Mapped(raw[f], ChunksOf) \in Seq(Seq(Packets))
           /\ FlattenSeq(Mapped(raw[f], ChunksOf)) \in Seq(Packets)
<1>1. PktOf \in Maps(Labelled, Packets) /\ ChunksOf \in Maps(Containers, Seq(Packets))
  BY DEF PktOf, ChunksOf, Maps, Labelled, Containers
<1>2. /\ decoded[f] \in Seq(Labelled) /\ work[f] \in Seq(Labelled)
      /\ raw[f] \in Seq(Containers) /\ rdcMap[f] \in Seq(Packets) /\ rx[f] \in Seq(Packets)
  BY DEF TypeOK, Labelled, Containers
<1>3. /\ Mapped(decoded[f], PktOf) \in Seq(Packets) /\ Mapped(work[f], PktOf) \in Seq(Packets)
      /\ Mapped(raw[f], ChunksOf) \in Seq(Seq(Packets))
  BY <1>1, <1>2, MapType
<1>4. FlattenSeq(Mapped(raw[f], ChunksOf)) \in Seq(Packets)
  BY <1>3, FlattenType
<1> QED BY <1>1, <1>2, <1>3, <1>4

(* A container pushed adds its chunks, a marker none. *)
LEMMA PushedChunks ==
    ASSUME NEW q \in Seq(Containers), NEW i \in Nat, NEW m \in Seq(Packets)
    PROVE  FlattenSeq(Mapped(Append(q, RawDataContainer(i, m)), ChunksOf))
             = Cat(FlattenSeq(Mapped(q, ChunksOf)), m)
<1> DEFINE c == RawDataContainer(i, m)
           mq == Mapped(q, ChunksOf)
<1>1. ChunksOf \in Maps(Containers, Seq(Packets))
  BY DEF ChunksOf, Maps, Containers
<1>2. c \in Containers /\ ChunksOf[c] = m
  BY DEF ChunksOf, Containers, RawDataContainer
<1> HIDE DEF c
<1>3. Mapped(Append(q, c), ChunksOf) = Append(mq, ChunksOf[c])
  BY <1>1, <1>2, MapAppend
<1>4. mq \in Seq(Seq(Packets))
  BY <1>1, MapType
<1> HIDE DEF mq
<1>5. FlattenSeq(Append(mq, m)) = FlattenSeq(mq) \o m
  BY <1>4, FlattenAppend
<1> QED BY <1>2, <1>3, <1>5 DEF c, mq, Cat

(* A front end that a step does not touch. *)
LEMMA WaySame ==
    ASSUME NEW f, decoded'[f] = decoded[f], work'[f] = work[f], raw'[f] = raw[f],
           rdcMap'[f] = rdcMap[f], read'[f] = read[f], Conserved(f)
    PROVE  Conserved(f)'
<1>1. PktOf' = PktOf /\ ChunksOf' = ChunksOf
  BY DEF PktOf, ChunksOf, Labelled, Containers, Packets
<1> QED BY <1>1 DEF Conserved, WayOf

(* pushData of what was accumulated: nothing for a front end without chunks. *)
LEMMA PushWay ==
    ASSUME TypeOK, NEW m \in [FE -> Seq(Packets)], PushRdcMap(m), NEW f \in FE,
           UNCHANGED <<decoded, work>>
    PROVE  WayOf(f)' = Way(Mapped(decoded[f], PktOf), Mapped(work[f], PktOf),
                           FlattenSeq(Mapped(raw[f], ChunksOf)), m[f])
<1> DEFINE d == Mapped(decoded[f], PktOf)
           w == Mapped(work[f], PktOf)
           r == FlattenSeq(Mapped(raw[f], ChunksOf))
           rn == FlattenSeq(Mapped(raw'[f], ChunksOf))
           x == m[f]
<1>1. /\ d \in Seq(Packets) /\ w \in Seq(Packets) /\ r \in Seq(Packets) /\ x \in Seq(Packets)
      /\ raw[f] \in Seq(Containers)
  BY WayTypes
<1>2. iter \in Nat
  <2>1. iter \in 0..MaxIter
    BY DEF TypeOK
  <2> QED BY <2>1, SetupFacts
<1>3. WayOf(f)' = Way(d, w, rn, <<>>)
  <2>1. rdcMap'[f] = <<>>
    BY DEF PushRdcMap
  <2> QED BY <2>1 DEF WayOf, PktOf, ChunksOf, Labelled, Containers, Packets
<1>4. rn = Cat(r, x)
  <2>1. CASE m[f] = <<>>
    <3>1. rn = r
      BY <2>1 DEF PushRdcMap
    <3> HIDE DEF r, rn
    <3> QED BY <1>1, <2>1, <3>1, CatFacts
  <2>2. CASE m[f] # <<>>
    <3>1. raw'[f] = Append(raw[f], RawDataContainer(iter, m[f]))
      BY <2>2 DEF PushRdcMap
    <3> QED BY <1>1, <1>2, <3>1, PushedChunks
  <2> QED BY <2>1, <2>2
<1> HIDE DEF d, w, r, rn, x
<1>5. Way(d, w, Cat(r, x), <<>>) = Way(d, w, r, x)
  BY <1>1, WayPush
<1> QED BY <1>3, <1>4, <1>5 DEF d, w, r, x

(* Reading adds the packets that were read. *)
LEMMA ReadDataWay ==
    ASSUME TypeOK, NEW f \in FE, Conserved(f), NEW S \in SUBSET FE, ReadData(S)
    PROVE  Conserved(f)'
<1> DEFINE m == [g \in FE |-> IF g \in S THEN Append(rdcMap[g], Head(rx[g])) ELSE rdcMap[g]]
           d == Mapped(decoded[f], PktOf)
           w == Mapped(work[f], PktOf)
           r == FlattenSeq(Mapped(raw[f], ChunksOf))
           x == rdcMap[f]
<1>1. /\ d \in Seq(Packets) /\ w \in Seq(Packets) /\ r \in Seq(Packets) /\ x \in Seq(Packets)
  BY WayTypes
<1>2. m \in [FE -> Seq(Packets)]
  <2>1. ASSUME NEW g \in FE, g \in S PROVE Append(rdcMap[g], Head(rx[g])) \in Seq(Packets)
    <3>1. rdcMap[g] \in Seq(Packets) /\ rx[g] \in Seq(Packets) /\ rx[g] # <<>>
      BY <2>1, WayTypes DEF ReadData
    <3> QED BY <3>1
  <2>2. \A g \in FE : rdcMap[g] \in Seq(Packets)
    BY WayTypes
  <2> QED BY <2>1, <2>2
<1>3. WayOf(f)' = Way(d, w, r, m[f])
  <2>1. UNCHANGED <<decoded, work>>
    BY DEF ReadData, procVars
  <2>2. CASE nReads + 1 > MaxReads
    <3>1. PushRdcMap(m)
      BY <2>2 DEF ReadData
    <3> HIDE DEF m
    <3> QED BY <1>2, <2>1, <3>1, PushWay
  <2>3. CASE ~(nReads + 1 > MaxReads)
    <3>1. rdcMap' = m /\ raw' = raw
      BY <2>3 DEF ReadData
    <3> HIDE DEF m
    <3> QED BY <2>1, <3>1 DEF WayOf, PktOf, ChunksOf, Labelled, Containers, Packets
  <2> QED BY <2>2, <2>3
<1>4. read'[f] = IF f \in S THEN Append(read[f], Head(rx[f])) ELSE read[f]
  BY DEF ReadData
<1>5. read[f] = Way(d, w, r, x)
  BY DEF Conserved, WayOf
<1>6. CASE f \in S
  <2> DEFINE o == <<Head(rx[f])>>
  <2>1. Head(rx[f]) \in Packets
    <3>1. rx[f] \in Seq(Packets) /\ rx[f] # <<>>
      BY <1>6, WayTypes DEF ReadData
    <3> QED BY <3>1
  <2>2. o \in Seq(Packets)
    BY <2>1
  <2>3. m[f] = Cat(x, o)
    BY <1>1, <1>6, <2>1, AppendIsConcat DEF Cat
  <2>4. read'[f] = Cat(read[f], o)
    <3>1. read[f] \in Seq(Packets) /\ read'[f] = Append(read[f], Head(rx[f]))
      BY <1>4, <1>6 DEF TypeOK
    <3> QED BY <2>1, <3>1, AppendIsConcat DEF Cat
  <2> HIDE DEF d, w, r, x, o, m
  <2>5. Way(d, w, r, Cat(x, o)) = Cat(Way(d, w, r, x), o)
    BY <1>1, <2>2, WayRead
  <2> QED BY <1>3, <1>5, <2>3, <2>4, <2>5 DEF Conserved
<1>7. CASE f \notin S
  <2>1. m[f] = x /\ read'[f] = read[f]
    BY <1>4, <1>7
  <2> HIDE DEF d, w, r, x, m
  <2> QED BY <1>3, <1>5, <2>1 DEF Conserved
<1> QED BY <1>6, <1>7

(* A processor takes the first container and labels its packets. *)
LEMMA PopRawDataWay ==
    ASSUME TypeOK, NEW f \in FE, Conserved(f), PopRawData(f)
    PROVE  Conserved(f)'
<1> DEFINE d == Mapped(decoded[f], PktOf)
           q == Mapped(raw[f], ChunksOf)
           h == Head(raw[f]).chunks
           x == rdcMap[f]
           rt == FlattenSeq(Mapped(Tail(raw[f]), ChunksOf))
           hl == [i \in DOMAIN h |-> [pkt |-> h[i], label |-> Head(raw[f]).label]]
<1>1. /\ d \in Seq(Packets) /\ x \in Seq(Packets) /\ q \in Seq(Seq(Packets))
      /\ raw[f] \in Seq(Containers) /\ raw[f] # <<>> /\ work[f] = <<>>
      /\ ChunksOf \in Maps(Containers, Seq(Packets))
  BY WayTypes DEF PopRawData
<1>2. Head(raw[f]) \in Containers /\ Tail(raw[f]) \in Seq(Containers)
  BY <1>1
<1>3. h \in Seq(Packets) /\ ChunksOf[Head(raw[f])] = h /\ Head(raw[f]).label \in Nat
  BY <1>2 DEF ChunksOf, Containers
<1>4. q # <<>> /\ Head(q) = h /\ Mapped(Tail(raw[f]), ChunksOf) = Tail(q)
  BY <1>1, <1>3, MapTail
<1>5. FlattenSeq(q) = Cat(h, rt) /\ rt \in Seq(Packets)
  <2>1. Tail(q) \in Seq(Seq(Packets))
    BY <1>1, <1>4
  <2>2. FlattenSeq(q) = Head(q) \o FlattenSeq(Tail(q)) /\ FlattenSeq(Tail(q)) \in Seq(Packets)
    BY <1>1, <1>4, <2>1, FlattenHead, FlattenType
  <2> QED BY <1>4, <2>2 DEF Cat
<1>6. Mapped(hl, PktOf) = h
  <2>1. /\ Len(h) \in Nat /\ DOMAIN h = 1..Len(h) /\ \A i \in 1..Len(h) : h[i] \in Packets
    BY <1>3
  <2>2. \A i \in 1..Len(h) : [pkt |-> h[i], label |-> Head(raw[f]).label] \in Labelled
    BY <1>3, <2>1 DEF Labelled
  <2>3. DOMAIN hl = 1..Len(h) /\ \A i \in 1..Len(h) : PktOf[hl[i]] = h[i]
    BY <2>1, <2>2 DEF PktOf
  <2>4. h = [i \in 1..Len(h) |-> h[i]]
    BY <1>3, <2>1
  <2> HIDE DEF hl, h
  <2> QED BY <2>3, <2>4 DEF Mapped
<1>7. WayOf(f)' = Way(d, h, rt, x)
  <2>1. work'[f] = hl /\ raw'[f] = Tail(raw[f]) /\ decoded'[f] = decoded[f] /\ rdcMap'[f] = rdcMap[f]
    BY DEF PopRawData, loopVars, TypeOK
  <2>2. PktOf' = PktOf /\ ChunksOf' = ChunksOf
    BY DEF PktOf, ChunksOf, Labelled, Containers, Packets
  <2> HIDE DEF hl
  <2> QED BY <1>6, <2>1, <2>2 DEF WayOf
<1>8. read'[f] = read[f] /\ read[f] = Way(d, <<>>, Cat(h, rt), x)
  <2>1. Mapped(work[f], PktOf) = <<>>
    BY <1>1, MapEmpty
  <2> QED BY <1>5, <2>1 DEF Conserved, WayOf, PopRawData
<1> HIDE DEF d, h, rt, x
<1>9. Way(d, h, rt, x) = Way(d, <<>>, Cat(h, rt), x)
  BY <1>1, <1>3, <1>5, WayPop
<1> QED BY <1>7, <1>8, <1>9 DEF Conserved

(* A processor decodes its first packet. *)
LEMMA SendFeedbackWay ==
    ASSUME TypeOK, NEW f \in FE, Conserved(f), SendFeedback(f)
    PROVE  Conserved(f)'
<1> DEFINE d == Mapped(decoded[f], PktOf)
           w == Mapped(work[f], PktOf)
           r == FlattenSeq(Mapped(raw[f], ChunksOf))
           x == rdcMap[f]
<1>1. /\ d \in Seq(Packets) /\ w \in Seq(Packets) /\ r \in Seq(Packets) /\ x \in Seq(Packets)
      /\ decoded[f] \in Seq(Labelled) /\ work[f] \in Seq(Labelled) /\ work[f] # <<>>
      /\ PktOf \in Maps(Labelled, Packets)
  BY WayTypes DEF SendFeedback
<1>2. Head(work[f]) \in Labelled
  BY <1>1
<1>3. w # <<>> /\ Head(w) = PktOf[Head(work[f])] /\ Mapped(Tail(work[f]), PktOf) = Tail(w)
  BY <1>1, MapTail
<1>4. Mapped(Append(decoded[f], Head(work[f])), PktOf) = Append(d, Head(w))
  <2>1. Mapped(Append(decoded[f], Head(work[f])), PktOf) = Append(d, PktOf[Head(work[f])])
    BY <1>1, <1>2, MapAppend
  <2> QED BY <1>3, <2>1
<1>5. WayOf(f)' = Way(Append(d, Head(w)), Tail(w), r, x)
  <2>1. /\ decoded'[f] = Append(decoded[f], Head(work[f])) /\ work'[f] = Tail(work[f])
        /\ raw'[f] = raw[f] /\ rdcMap'[f] = rdcMap[f]
    BY DEF SendFeedback, loopVars, TypeOK
  <2>2. PktOf' = PktOf /\ ChunksOf' = ChunksOf
    BY DEF PktOf, ChunksOf, Labelled, Containers, Packets
  <2> QED BY <1>3, <1>4, <2>1, <2>2 DEF WayOf
<1>6. read'[f] = read[f] /\ read[f] = Way(d, w, r, x)
  BY DEF Conserved, WayOf, SendFeedback
<1> HIDE DEF d, w, r, x
<1>7. Way(Append(d, Head(w)), Tail(w), r, x) = Way(d, w, r, x)
  BY <1>1, <1>3, WayDecode
<1> QED BY <1>5, <1>6, <1>7 DEF Conserved

(* The marker holds no packets. *)
LEMMA MarkEndWay ==
    ASSUME TypeOK, NEW f \in FE, Conserved(f), MarkEnd, idx = f
    PROVE  Conserved(f)'
<1> DEFINE r == FlattenSeq(Mapped(raw[f], ChunksOf))
<1>1. r \in Seq(Packets) /\ raw[f] \in Seq(Containers)
  BY WayTypes
<1>2. /\ raw'[f] = Append(raw[f], RawDataContainer(0, <<>>)) /\ decoded'[f] = decoded[f]
      /\ work'[f] = work[f] /\ rdcMap'[f] = rdcMap[f] /\ read'[f] = read[f]
  BY DEF MarkEnd, EndOfIteration, procVars, TypeOK
<1>3. FlattenSeq(Mapped(raw'[f], ChunksOf)) = Cat(r, <<>>)
  <2>1. <<>> \in Seq(Packets) /\ 0 \in Nat
    OBVIOUS
  <2>2. FlattenSeq(Mapped(Append(raw[f], RawDataContainer(0, <<>>)), ChunksOf)) = Cat(r, <<>>)
    BY <1>1, <2>1, PushedChunks, Zenon
  <2> QED BY <1>2, <2>2, Zenon
<1>4. Cat(r, <<>>) = r
  <2> HIDE DEF r
  <2> QED BY <1>1, CatFacts
<1>5. PktOf' = PktOf /\ ChunksOf' = ChunksOf
  BY DEF PktOf, ChunksOf, Labelled, Containers, Packets
<1> QED BY <1>2, <1>3, <1>4, <1>5 DEF Conserved, WayOf

(* Every step conserves what was read. *)
LEMMA ConservedStep ==
    ASSUME TypeOK, NEW f \in FE, Conserved(f), [Next]_vars
    PROVE  Conserved(f)'
<1>1. CASE \E S \in SUBSET FE : ReadData(S)
  BY <1>1, ReadDataWay
<1>2. CASE ReadNothing
  <2>1. UNCHANGED <<decoded, work, read>> /\ PushRdcMap(rdcMap)
    BY <1>2 DEF ReadNothing, procVars
  <2>2. rdcMap \in [FE -> Seq(Packets)]
    BY DEF TypeOK
  <2>3. WayOf(f)' = WayOf(f)
    BY <2>1, <2>2, PushWay DEF WayOf
  <2> QED BY <2>1, <2>3 DEF Conserved
<1>3. CASE \E g \in FE : PopRawData(g)
  <2> PICK g \in FE : PopRawData(g)
    BY <1>3
  <2>1. CASE g = f
    BY <2>1, PopRawDataWay
  <2>2. CASE g # f
    <3>1. raw'[f] = raw[f] /\ work'[f] = work[f]
      BY <2>2 DEF PopRawData, TypeOK
    <3> QED BY <3>1, WaySame DEF PopRawData, loopVars
  <2> QED BY <2>1, <2>2
<1>4. CASE \E g \in FE : SendFeedback(g)
  <2> PICK g \in FE : SendFeedback(g)
    BY <1>4
  <2>1. CASE g = f
    BY <2>1, SendFeedbackWay
  <2>2. CASE g # f
    <3>1. decoded'[f] = decoded[f] /\ work'[f] = work[f]
      BY <2>2 DEF SendFeedback, TypeOK
    <3> QED BY <3>1, WaySame DEF SendFeedback, loopVars
  <2> QED BY <2>1, <2>2
<1>5. CASE MarkEnd
  <2>1. CASE idx = f
    BY <1>5, <2>1, MarkEndWay
  <2>2. CASE idx # f
    <3>1. raw'[f] = raw[f]
      BY <1>5, <2>2 DEF MarkEnd, TypeOK
    <3> QED BY <1>5, <3>1, WaySame DEF MarkEnd, procVars
  <2> QED BY <2>1, <2>2
<1> DEFINE Others == \/ Hardware \/ (\E g \in FE : Lose(g)) \/ Tick \/ StartTrigger \/ ReadAgain
                     \/ PopFeedback \/ NextChannel \/ EndOfPass \/ Decide \/ EndOfExecPart2
                     \/ UNCHANGED vars
<1>6. CASE Others
  <2>1. UNCHANGED <<decoded, work, raw, rdcMap, read>>
    BY <1>6 DEF Hardware, SendTrigger, Arrive, Lose, Tick, StartTrigger, ReadAgain, PopFeedback,
                NextChannel, EndOfPass, Decide, EndOfExecPart2, vars, loopVars, procVars
  <2> QED BY <2>1, WaySame
<1> QED BY <1>1, <1>2, <1>3, <1>4, <1>5, <1>6 DEF Next, Processor, LoopStep

(* Every packet the data loop read is in exactly one place on its way to    *)
(* the decoder, in the order it was read: whatever the accumulation over    *)
(* several reads, the push when the limit of reads is passed, the push at   *)
(* the end of a read cycle and the markers do, none is dropped between two  *)
(* pushes and none is pushed twice. For any number of front ends, reads,    *)
(* triggers and iterations.                                                 *)
THEOREM ReadIsConserved == Spec => []ChunksConserved
<1> DEFINE Inv == \A f \in FE : Conserved(f)
<1>1. Init => TypeOK /\ Inv
  <2> SUFFICES ASSUME Init PROVE Inv
    BY TypeStart
  <2> SUFFICES ASSUME NEW f \in FE PROVE Conserved(f)
    OBVIOUS
  <2>1. /\ decoded[f] = <<>> /\ work[f] = <<>> /\ raw[f] = <<>> /\ rdcMap[f] = <<>>
        /\ read[f] = <<>>
    BY DEF Init
  <2>2. Cat(<<>>, <<>>) = <<>>
    BY DEF Cat
  <2> QED BY <2>1, <2>2, MapEmpty, FlattenEmpty DEF Conserved, WayOf, Way
<1>2. TypeOK /\ Inv /\ [Next]_vars => (TypeOK /\ Inv)'
  BY TypeStep, ConservedStep, SetupStays
<1>3. TypeOK /\ Inv => ChunksConserved
  <2> SUFFICES ASSUME TypeOK, Inv, NEW f \in FE
               PROVE  read[f] = [i \in DOMAIN decoded[f] |-> decoded[f][i].pkt]
                                  \o [i \in DOMAIN work[f] |-> work[f][i].pkt]
                                  \o FlattenSeq([i \in DOMAIN raw[f] |-> raw[f][i].chunks])
                                  \o rdcMap[f]
    BY DEF ChunksConserved
  <2>1. decoded[f] \in Seq(Labelled) /\ work[f] \in Seq(Labelled) /\ raw[f] \in Seq(Containers)
    BY WayTypes
  <2>2. ASSUME NEW q \in Seq(Labelled) PROVE Mapped(q, PktOf) = [i \in DOMAIN q |-> q[i].pkt]
    <3>1. \A i \in DOMAIN q : q[i] \in Labelled
      OBVIOUS
    <3> QED BY <3>1 DEF Mapped, PktOf
  <2>3. Mapped(raw[f], ChunksOf) = [i \in DOMAIN raw[f] |-> raw[f][i].chunks]
    <3>1. \A i \in DOMAIN raw[f] : raw[f][i] \in Containers
      BY <2>1
    <3> QED BY <3>1 DEF Mapped, ChunksOf
  <2>4. read[f] = WayOf(f)
    BY DEF Conserved
  <2>5. /\ Mapped(decoded[f], PktOf) = [i \in DOMAIN decoded[f] |-> decoded[f][i].pkt]
        /\ Mapped(work[f], PktOf) = [i \in DOMAIN work[f] |-> work[f][i].pkt]
    BY <2>1, <2>2
  <2> QED BY <2>3, <2>4, <2>5 DEF WayOf, Way, Cat
<1> QED BY <1>1, <1>2, <1>3, PTL DEF Spec
=============================================================================
