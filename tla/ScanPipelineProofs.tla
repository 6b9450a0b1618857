------------------------ MODULE ScanPipelineProofs ------------------------
(***************************************************************************)
(* Proofs about ScanPipeline, for any number of front ends, whichever are  *)
(* active, any number of tiers, iterations and data: no thread pushes to a *)
(* clipboard that was finished; every thread that has returned has emptied *)
(* its input, unless it is a processor that stops at markers; and the scan *)
(* ends with the results of a sequential run over all iterations.          *)
(*                                                                         *)
(* The first two rest on the order in which the main thread finishes and   *)
(* joins: what it has joined in each of its phases, and that a returned    *)
(* thread has nothing left to push. The third adds where the data are: the *)
(* queues in front of the histogrammer hold whole iterations, each number  *)
(* ended by its marker (FlowInv), and what each later stage has read,      *)
(* finds in its clipboard and is still to get is what the one before it    *)
(* made of its own input (TierInv).                                        *)
(***************************************************************************)
EXTENDS ScanPipeline, SequenceFacts, SequenceTheorems, TLAPS

----------------------------------------------------------------------------
(* The inductive invariant *)

(* TypeOK does not say where clip and out are defined, nor that only an     *)
(* analysis has a summary to push.                                          *)
Shape ==
    /\ DOMAIN clip = FE \X Clips
    /\ DOMAIN out = FE \X Stages
    /\ \A t \in FE \X Stages : pc[t] \in {"end", "exit"} => t[2] > 2

Downstream(t) == <<t[1], t[2] + 1>>

(* A clipboard is finished after the thread that writes it has returned, or *)
(* after the scan for raw data.                                             *)
FinishedInv ==
    /\ \A f \in FE : done[<<f, 1>>] => mainPc # "scan"
    /\ \A t \in FE \X Stages : done[Downstream(t)] => pc[t] = "returned"

(* Only a thread in process_core, or after end(), has something to push. *)
OutInv ==
    \A t \in FE \X Stages :
        pc[t] \notin {"core1", "core2", "core3", "exit"} => out[t] = <<>>

AllReturned(s) == \A f \in active : pc[<<f, s>>] = "returned"

(* What the main thread has joined, in each of its phases. *)
JoinInv ==
    /\ mainPc = "joinProcs" => \A f \in active : f < feIdx => pc[<<f, 1>>] = "returned"
    /\ mainPc \in {"finishData", "joinHistogrammers", "finishHisto", "joinAnalyses", "done"}
          => AllReturned(1)
    /\ mainPc = "joinHistogrammers" => \A f \in active : f < feIdx => pc[<<f, 2>>] = "returned"
    /\ mainPc \in {"finishHisto", "joinAnalyses", "done"} => AllReturned(2)
    /\ mainPc = "joinAnalyses" =>
          \A f \in active : \A s \in 3..(2 + Tiers) :
              f < feIdx \/ (f = feIdx /\ s < 2 + tier) => pc[<<f, s>>] = "returned"
    /\ mainPc = "done" => \A s \in Stages : AllReturned(s)

(* A thread leaves the loop of process() only when its input is finished. *)
DoneInv ==
    \A t \in FE \X Stages :
        pc[t] \in {"core2", "core3", "end", "exit", "returned"} => done[t]

(* Everything but a segment processor runs until its input is empty. *)
Drains(t) == t[2] > 1 \/ style = "drain"

DrainInv ==
    /\ \A t \in FE \X Stages :
          Drains(t) /\ pc[t] \in {"core3", "end", "exit", "returned"} => clip[t] = <<>>
    /\ style = "drain" => \A f \in FE : ~proc[f].atMarker

OrderInv == FinishedInv /\ OutInv /\ JoinInv /\ DoneInv /\ DrainInv

IInv == TypeOK /\ Shape /\ OrderInv

----------------------------------------------------------------------------
(* Lemmas on the threads and the clipboards *)

(* Thread t reads clipboard t and writes the one after it. *)
LEMMA Pairs ==
    ASSUME NEW t \in FE \X Stages
    PROVE  /\ t[1] \in FE /\ t[2] \in Stages /\ t[2] \in Nat \ {0}
           /\ t = <<t[1], t[2]>>
           /\ t \in FE \X Clips
           /\ Downstream(t) \in FE \X Clips
           /\ Downstream(t)[2] = t[2] + 1
BY PipelineAssumption DEF Stages, Clips, Downstream

(* Stages and clipboards by their number. *)
LEMMA StageNumbers ==
    ASSUME NEW f \in FE
    PROVE  /\ <<f, 1>> \in FE \X Clips
           /\ \A s \in Stages : <<f, s>> \in FE \X Stages
           /\ {1, 2} \subseteq Stages
           /\ \A k \in 1..Tiers : 2 + k \in Stages /\ 3 + k \in Clips
BY PipelineAssumption DEF Stages, Clips

(* A push keeps the types of the queues. *)
LEMMA PushType ==
    ASSUME TypeOK, Shape, NEW c \in FE \X Clips, NEW x \in ItemOf(c[2]), Push(c, x)
    PROVE  /\ DOMAIN clip' = FE \X Clips
           /\ \A d \in FE \X Clips : clip'[d] \in Seq(ItemOf(d[2]))
<1>1. Append(clip[c], x) \in Seq(ItemOf(c[2]))
  BY AppendProperties DEF TypeOK
<1>2. /\ DOMAIN clip' = FE \X Clips
      /\ clip'[c] = Append(clip[c], x)
      /\ \A d \in FE \X Clips : d # c => clip'[d] = clip[d]
  BY DEF Push, Shape
<1> QED BY <1>1, <1>2 DEF TypeOK

(* A pop keeps them, and what it takes has its type. *)
LEMMA PopType ==
    ASSUME TypeOK, Shape, NEW t \in FE \X Stages, Pop(t)
    PROVE  /\ Head(clip[t]) \in ItemOf(t[2])
           /\ DOMAIN clip' = FE \X Clips
           /\ \A d \in FE \X Clips : clip'[d] \in Seq(ItemOf(d[2]))
<1>1. t \in FE \X Clips
  BY Pairs
<1>2. clip[t] \in Seq(ItemOf(t[2])) /\ clip[t] # <<>>
  BY <1>1 DEF TypeOK, Pop
<1>3. Head(clip[t]) \in ItemOf(t[2]) /\ Tail(clip[t]) \in Seq(ItemOf(t[2]))
  BY <1>2, HeadTailProperties
<1>4. /\ DOMAIN clip' = FE \X Clips
      /\ clip'[t] = Tail(clip[t])
      /\ \A d \in FE \X Clips : d # t => clip'[d] = clip[d]
  BY <1>1 DEF Pop, Shape
<1> QED BY <1>3, <1>4 DEF TypeOK

(* What a thread is about to push has the type of its output clipboard. *)
LEMMA OutType ==
    ASSUME TypeOK, Shape, NEW t \in FE \X Stages, NEW o \in Seq(ItemOf(t[2] + 1)),
           out' = [out EXCEPT ![t] = o]
    PROVE  /\ DOMAIN out' = FE \X Stages
           /\ \A u \in FE \X Stages : out'[u] \in Seq(ItemOf(u[2] + 1))
<1>1. /\ DOMAIN out' = FE \X Stages
      /\ out'[t] = o
      /\ \A u \in FE \X Stages : u # t => out'[u] = out[u]
  BY DEF Shape
<1> QED BY <1>1 DEF TypeOK

(* The containers of the data loop and the decoded ones. *)
LEMMA DecodeType ==
    ASSUME TypeOK, NEW f \in FE, NEW x \in Raw
    PROVE  /\ Decode(f, x) \in Seq(Raw)
           /\ ProcAfter(x) \in [label : Nat, atMarker : BOOLEAN]
<1>1. proc[f].label \in Nat
  BY DEF TypeOK
<1>2. Container("void", proc[f].label, 0) \in Raw
  BY <1>1 DEF Container, Raw
<1>3. Decode(f, x) \in {<<x>>, <<>>, <<Container("void", proc[f].label, 0), x>>}
  BY DEF Decode, Raw
<1>4. <<x>> \in Seq(Raw) /\ <<>> \in Seq(Raw)
      /\ <<Container("void", proc[f].label, 0), x>> \in Seq(Raw)
  BY <1>2, EmptySeq
<1>5. ProcAfter(x) \in [label : Nat, atMarker : BOOLEAN]
  BY DEF ProcAfter, Raw
<1> QED BY <1>3, <1>4, <1>5

HistoState == [isNew : BOOLEAN, label : Nat, events : Seq(Raw)]

(* The histogram of an iteration, and what is published of it. *)
LEMMA FillType ==
    ASSUME NEW h \in HistoState, NEW x \in Raw
    PROVE  /\ Fill(h, x) \in HistoState
           /\ [a \in 1..NumHisto |-> Histogram(a, Fill(h, x))] \in Seq(Histo)
<1> DEFINE g == Fill(h, x)
           e1 == IF h.isNew THEN <<>> ELSE h.events
           e2 == IF x.kind = "data" THEN <<x>> ELSE <<>>
<1>1. h.isNew \in BOOLEAN /\ h.label \in Nat /\ h.events \in Seq(Raw) /\ x.label \in Nat
  BY DEF HistoState, Raw
<1>2. e1 \in Seq(Raw) /\ e2 \in Seq(Raw)
  BY <1>1, EmptySeq
<1>3. e1 \o e2 \in Seq(Raw)
  BY <1>2, ConcatProperties
<1>4. /\ g.isNew = FALSE /\ g.events = e1 \o e2
      /\ g.label = IF h.isNew THEN x.label ELSE h.label
      /\ g = [isNew |-> g.isNew, label |-> g.label, events |-> g.events]
  BY DEF Fill
<1> HIDE DEF e1, e2, g
<1>5. g.label \in Nat /\ g.events \in Seq(Raw) /\ g.isNew \in BOOLEAN
  BY <1>1, <1>3, <1>4
<1>6. g \in HistoState
  BY <1>4, <1>5 DEF HistoState
<1>7. \A a \in 1..NumHisto : Histogram(a, g) \in Histo
  BY <1>5, EmptySeq DEF Histogram, Histo
<1>8. [a \in 1..NumHisto |-> Histogram(a, g)] \in Seq(Histo)
  <2> DEFINE F(a) == Histogram(a, g)
  <2>1. \A a \in 1..NumHisto : F(a) \in Histo
    BY <1>7
  <2> HIDE DEF F
  <2>2. [a \in 1..NumHisto |-> F(a)] \in Seq(Histo)
    BY <2>1, PipelineAssumption
  <2> QED BY <2>2 DEF F
<1> QED BY <1>6, <1>8 DEF g

(* What an analysis makes of a histogram. *)
LEMMA AnalyseType ==
    ASSUME NEW k \in Nat, NEW x \in Histo
    PROVE  /\ Analyse(k, x) \in Seq(Histo)
           /\ <<Summary(k)>> \in Seq(Histo)
<1>1. x.by \in Seq(Nat) /\ Append(x.by, k) \in Seq(Nat)
  BY AppendProperties DEF Histo
<1>2. [x EXCEPT !.by = Append(@, k)] \in Histo
  BY <1>1 DEF Histo
<1>3. /\ <<[x EXCEPT !.by = Append(@, k)]>> \in Seq(Histo)
      /\ (IF k > 1 THEN <<x>> ELSE <<>>) \in Seq(Histo)
  BY <1>2, EmptySeq
<1>4. Analyse(k, x) \in Seq(Histo)
  BY <1>3, ConcatProperties DEF Analyse
<1>5. Summary(k) \in Histo
  BY EmptySeq DEF Summary, Histo
<1> QED BY <1>4, <1>5

----------------------------------------------------------------------------
(* Type correctness *)

Types == TypeOK /\ Shape

(* All queues are empty, and the threads of the active front ends wait. *)
LEMMA InitType == Init => Types
<1> SUFFICES ASSUME Init PROVE Types
  OBVIOUS
<1>1. active \in SUBSET FE /\ style \in {"drain", "segment"}
  BY PipelineAssumption DEF Init
<1>2. /\ \A c \in FE \X Clips : clip[c] = <<>>
      /\ \A t \in FE \X Stages : out[t] = <<>>
      /\ DOMAIN clip = FE \X Clips /\ DOMAIN out = FE \X Stages
  BY DEF Init
<1>3. /\ \A c \in FE \X Clips : clip[c] \in Seq(ItemOf(c[2]))
      /\ \A t \in FE \X Stages : out[t] \in Seq(ItemOf(t[2] + 1))
  BY <1>2, EmptySeq
<1>4. /\ done \in [FE \X Clips -> BOOLEAN]
      /\ pc \in [FE \X Stages -> {"none", "wait", "core1", "isDone", "core2",
                                  "core3", "end", "exit", "returned"}]
  BY DEF Init
<1>5. /\ proc \in [FE -> [label : Nat, atMarker : BOOLEAN]]
      /\ mainPc \in {"scan", "joinProcs", "finishData", "joinHistogrammers",
                     "finishHisto", "joinAnalyses", "done", "crashed"}
  BY DEF Init
<1>6. histo \in [FE -> [isNew : BOOLEAN, label : Nat, events : Seq(Raw)]]
  BY EmptySeq DEF Init, NewIteration
<1>7. published \in [FE -> Seq([isNew : BOOLEAN, label : Nat, events : Seq(Raw)])]
  BY EmptySeq DEF Init
<1>8. pushed \in [FE -> Seq(Raw)]
  BY EmptySeq DEF Init
<1>9. feIdx \in 0..NumFe /\ tier \in 1..(Tiers + 1) /\ iter \in 1..(MaxIter + 1)
  BY PipelineAssumption DEF Init
<1>10. \A t \in FE \X Stages : pc[t] \notin {"end", "exit"}
  BY DEF Init
<1> QED BY <1>1, <1>2, <1>3, <1>4, <1>5, <1>6, <1>7, <1>8, <1>9, <1>10 DEF Types, TypeOK, Shape

(* The data loop pushes raw data. *)
LEMMA DataLoopType ==
    ASSUME Types, (\E f \in FE, kind \in {"data", "void"} : PushRawData(f, kind))
                     \/ PushEndOfIteration
    PROVE  Types'
<1> USE PipelineAssumption
<1>1. UNCHANGED <<done, pc, out, proc, histo, published, active, style, mainPc, feIdx, tier>>
  BY DEF PushRawData, PushEndOfIteration, config
<1>2. /\ iter' \in 1..(MaxIter + 1)
      /\ pushed' \in [FE -> Seq(Raw)]
      /\ DOMAIN clip' = FE \X Clips
      /\ \A c \in FE \X Clips : clip'[c] \in Seq(ItemOf(c[2]))
  <2>1. ASSUME NEW f \in FE, NEW kind \in {"data", "void"}, PushRawData(f, kind)
        PROVE  /\ iter' \in 1..(MaxIter + 1)
               /\ pushed' \in [FE -> Seq(Raw)]
               /\ DOMAIN clip' = FE \X Clips
               /\ \A c \in FE \X Clips : clip'[c] \in Seq(ItemOf(c[2]))
    <3> DEFINE x == Container(kind, iter, Len(pushed[f]) + 1)
    <3>1. pushed[f] \in Seq(Raw) /\ iter \in Nat /\ iter \in 1..(MaxIter + 1)
      BY DEF Types, TypeOK
    <3>2. Len(pushed[f]) \in Nat
      BY <3>1, LenProperties
    <3>3. x \in Raw
      BY <3>1, <3>2 DEF Container, Raw
    <3>4. /\ iter' = iter /\ Push(<<f, 1>>, x)
          /\ pushed' = [pushed EXCEPT ![f] = Append(@, x)]
      BY <2>1 DEF PushRawData
    <3> HIDE DEF x
    <3>5. Append(pushed[f], x) \in Seq(Raw)
      BY <3>1, <3>3, AppendProperties
    <3>6. pushed' \in [FE -> Seq(Raw)]
      BY <3>4, <3>5 DEF Types, TypeOK
    <3>7. <<f, 1>> \in FE \X Clips /\ x \in ItemOf(<<f, 1>>[2])
      BY <3>3, StageNumbers DEF ItemOf
    <3>8. /\ DOMAIN clip' = FE \X Clips
          /\ \A c \in FE \X Clips : clip'[c] \in Seq(ItemOf(c[2]))
      BY <3>4, <3>7, PushType DEF Types
    <3> QED BY <3>1, <3>4, <3>6, <3>8
  <2>2. CASE PushEndOfIteration
    <3>1. EndOfIteration \in Raw
      BY DEF EndOfIteration, Container, Raw
    <3>2. /\ iter <= MaxIter /\ iter' = iter + 1
          /\ pushed' = [f \in FE |-> Append(pushed[f], EndOfIteration)]
          /\ clip' = [c \in FE \X Clips |->
                         IF c[2] = 1 THEN Append(clip[c], EndOfIteration) ELSE clip[c]]
      BY <2>2 DEF PushEndOfIteration
    <3>3. \A f \in FE : Append(pushed[f], EndOfIteration) \in Seq(Raw)
      BY <3>1, AppendProperties DEF Types, TypeOK
    <3>4. pushed' \in [FE -> Seq(Raw)]
      BY <3>2, <3>3
    <3>5. ASSUME NEW c \in FE \X Clips PROVE clip'[c] \in Seq(ItemOf(c[2]))
      <4>1. clip[c] \in Seq(ItemOf(c[2]))
        BY DEF Types, TypeOK
      <4>2. CASE c[2] = 1
        <5>1. EndOfIteration \in ItemOf(c[2])
          BY <3>1, <4>2 DEF ItemOf
        <5> QED BY <3>2, <4>1, <4>2, <5>1, AppendProperties
      <4>3. CASE c[2] # 1
        BY <3>2, <4>1, <4>3
      <4> QED BY <4>2, <4>3
    <3>6. iter' \in 1..(MaxIter + 1)
      BY <3>2 DEF Types, TypeOK
    <3> QED BY <3>2, <3>4, <3>5, <3>6
  <2> QED BY <2>1, <2>2
<1> QED BY <1>1, <1>2 DEF Types, TypeOK, Shape

(* Finishing and joining. *)
LEMMA JoinType ==
    ASSUME Types,
           \/ \E here, next \in {"scan", "joinProcs", "finishData", "joinHistogrammers",
                                  "finishHisto", "joinAnalyses"}, s \in Clips : Finish(here, s, next)
           \/ JoinProcs \/ JoinHistogrammers \/ JoinAnalyses
    PROVE  Types'
<1> USE PipelineAssumption
<1>1. UNCHANGED <<clip, pc, out, proc, histo, published, active, style, iter, pushed>>
  BY DEF Finish, JoinProcs, JoinHistogrammers, JoinAnalyses, pipeVars, config
<1>2. done' \in [FE \X Clips -> BOOLEAN]
  BY DEF Finish, FinishClips, JoinProcs, JoinHistogrammers, JoinAnalyses, pipeVars, Types, TypeOK
<1>3. mainPc' \in {"scan", "joinProcs", "finishData", "joinHistogrammers",
                    "finishHisto", "joinAnalyses", "done", "crashed"}
  BY DEF Finish, MainGoto, JoinProcs, JoinHistogrammers, JoinAnalyses, Types, TypeOK
<1>4. feIdx' \in 0..NumFe
  <2>1. active \subseteq FE /\ feIdx \in 0..NumFe
    BY DEF Types, TypeOK
  <2>2. feIdx' \in {0, feIdx} \/ (feIdx \in FE /\ feIdx' = feIdx + 1)
    BY <2>1 DEF Finish, MainGoto, JoinProcs, JoinHistogrammers, JoinAnalyses
  <2> QED BY <2>1, <2>2 DEF FE
<1>5. tier' \in 1..(Tiers + 1)
  BY DEF Finish, MainGoto, JoinProcs, JoinHistogrammers, JoinAnalyses, Types, TypeOK
<1> QED BY <1>1, <1>2, <1>3, <1>4, <1>5 DEF Types, TypeOK, Shape

(* process() of the threads. *)
LEMMA ThreadType ==
    ASSUME Types, NEW t \in FE \X Stages, ThreadStep(t)
    PROVE  Types'
<1> USE PipelineAssumption
<1> DEFINE Places == {"none", "wait", "core1", "isDone", "core2", "core3", "end", "exit", "returned"}
<1>1. UNCHANGED <<done, active, style, mainPc, feIdx, tier, iter, pushed>>
  BY DEF ThreadStep, Wait, PopStep, PopRawData, PopData, PopHisto, PushOut, CoreReturn, IsDone,
         End, Return, mainVars, config
<1>2. pc' \in [FE \X Stages -> Places]
  <2>1. pc \in [FE \X Stages -> Places]
    BY DEF Types, TypeOK
  <2>2. CASE UNCHANGED pc
    BY <2>1, <2>2
  <2>3. CASE \E l \in Places : ThreadGoto(t, l)
    BY <2>1, <2>3 DEF ThreadGoto
  <2>4. CASE CoreReturn(t)
    BY <2>1, <2>3, <2>4 DEF CoreReturn, InCore, AfterCore
  <2> QED BY <2>2, <2>3, <2>4 DEF ThreadStep, Wait, PopStep, PopRawData, PopData, PopHisto,
                                PushOut, IsDone, End, Return
<1>3. /\ DOMAIN clip' = FE \X Clips
      /\ \A c \in FE \X Clips : clip'[c] \in Seq(ItemOf(c[2]))
  <2>1. CASE UNCHANGED clip
    BY <2>1 DEF Types, TypeOK, Shape
  <2>2. CASE Pop(t)
    BY <2>2, PopType DEF Types
  <2>3. CASE PushOut(t)
    <3>1. out[t] \in Seq(ItemOf(t[2] + 1)) /\ out[t] # <<>>
      BY <2>3 DEF PushOut, Types, TypeOK
    <3>2. Head(out[t]) \in ItemOf(t[2] + 1)
      BY <3>1, HeadTailProperties
    <3>3. Push(Downstream(t), Head(out[t]))
      BY <2>3 DEF PushOut, Downstream
    <3> QED BY <3>2, <3>3, Pairs, PushType DEF Types
  <2>4. PopStep(t) => Pop(t)
    <3>1. t = <<t[1], t[2]>> /\ t[2] \in Nat
      BY Pairs
    <3>2. t[2] > 2 => 2 + (t[2] - 2) = t[2]
      BY <3>1
    <3> QED BY <3>1, <3>2 DEF PopStep, PopRawData, PopData, PopHisto
  <2> QED BY <2>1, <2>2, <2>3, <2>4 DEF ThreadStep, Wait, CoreReturn, IsDone, End, Return
<1>4. /\ t[1] \in FE /\ t[2] \in Nat \ {0} /\ t = <<t[1], t[2]>>
      /\ out[t] \in Seq(ItemOf(t[2] + 1))
  BY Pairs DEF Types, TypeOK
<1> DEFINE Out == /\ DOMAIN out' = FE \X Stages
                  /\ \A u \in FE \X Stages : out'[u] \in Seq(ItemOf(u[2] + 1))
           Proc == proc' \in [FE -> [label : Nat, atMarker : BOOLEAN]]
           Histos == /\ histo' \in [FE -> HistoState]
                     /\ published' \in [FE -> Seq(HistoState)]
<1>5. /\ proc \in [FE -> [label : Nat, atMarker : BOOLEAN]]
      /\ histo \in [FE -> HistoState]
      /\ published \in [FE -> Seq(HistoState)]
  BY DEF Types, TypeOK, HistoState
<1>6. UNCHANGED out => Out
  BY DEF Types, TypeOK, Shape
<1>7. \A o \in Seq(ItemOf(t[2] + 1)) : out' = [out EXCEPT ![t] = o] => Out
  BY OutType DEF Types
<1> HIDE DEF Out
<1>8. \A u \in FE \X Stages : pc'[u] \in {"end", "exit"} => u[2] > 2
  <2>1. pc \in [FE \X Stages -> Places] /\ \A u \in FE \X Stages : pc[u] \in {"end", "exit"} => u[2] > 2
    BY DEF Types, TypeOK, Shape
  <2>2. CASE UNCHANGED pc
    BY <2>1, <2>2
  <2>3. CASE \E l \in Places \ {"end", "exit"} : ThreadGoto(t, l)
    BY <2>1, <2>3 DEF ThreadGoto
  <2>4. CASE CoreReturn(t)
    BY <2>1, <2>4 DEF CoreReturn, InCore, AfterCore, ThreadGoto
  <2>5. CASE End(t)
    BY <2>1, <2>5 DEF End, ThreadGoto
  <2> QED BY <2>2, <2>3, <2>4, <2>5 DEF ThreadStep, Wait, PopStep, PopRawData, PopData, PopHisto,
                                     PushOut, IsDone, Return
<1> DEFINE Rest == Out /\ Histos /\ Proc
<1>9. Rest => Types'
  BY <1>1, <1>2, <1>3, <1>8 DEF Types, TypeOK, Shape, Out, HistoState
<1>10. CASE Wait(t) \/ IsDone(t) \/ Return(t)
  <2>1. UNCHANGED <<out, proc, histo, published>>
    BY <1>10 DEF Wait, IsDone, Return
  <2> QED BY <1>5, <1>6, <1>9, <2>1
<1>11. CASE CoreReturn(t)
  <2>1. /\ UNCHANGED <<out, histo, published>>
        /\ proc' = IF t[2] = 1 THEN [proc EXCEPT ![t[1]].atMarker = FALSE] ELSE proc
    BY <1>11 DEF CoreReturn
  <2>2. [proc[t[1]] EXCEPT !.atMarker = FALSE] \in [label : Nat, atMarker : BOOLEAN]
    <3>1. ASSUME NEW r \in [label : Nat, atMarker : BOOLEAN]
          PROVE  [r EXCEPT !.atMarker = FALSE] \in [label : Nat, atMarker : BOOLEAN]
      OBVIOUS
    <3>2. proc[t[1]] \in [label : Nat, atMarker : BOOLEAN]
      BY <1>4, <1>5
    <3> QED BY <3>1, <3>2
  <2>3. Proc
    BY <1>4, <1>5, <2>1, <2>2
  <2> QED BY <1>5, <1>6, <1>9, <2>1, <2>3
<1>12. CASE PushOut(t)
  <2>1. Tail(out[t]) \in Seq(ItemOf(t[2] + 1))
    BY <1>4, <1>12, HeadTailProperties DEF PushOut
  <2>2. out' = [out EXCEPT ![t] = Tail(out[t])] /\ UNCHANGED <<proc, histo, published>>
    BY <1>12 DEF PushOut
  <2> QED BY <1>5, <1>7, <1>9, <2>1, <2>2
<1>13. CASE End(t)
  <2>1. /\ pc[t] = "end"
        /\ out' = [out EXCEPT ![t] = <<Summary(t[2] - 2)>>]
        /\ UNCHANGED <<proc, histo, published>>
    BY <1>13 DEF End
  <2>2. t[2] > 2
    BY <2>1 DEF Types, Shape
  <2>3. t[2] - 2 \in Nat /\ ItemOf(t[2] + 1) = Histo
    BY <1>4, <2>2 DEF ItemOf
  <2>4. <<Summary(t[2] - 2)>> \in Seq(Histo)
    <3>1. [algo |-> 0, label |-> 0, events |-> <<>>, by |-> <<>>] \in Histo
      BY EmptySeq DEF Histo
    <3> QED BY <2>3, <3>1, AnalyseType
  <2> QED BY <1>5, <1>7, <1>9, <2>1, <2>3, <2>4
<1>14. CASE t[2] = 1 /\ PopRawData(t[1])
  <2> DEFINE x == Head(clip[t])
  <2>1. /\ Pop(t) /\ UNCHANGED <<histo, published>>
        /\ out' = [out EXCEPT ![t] = Decode(t[1], x)]
        /\ proc' = [proc EXCEPT ![t[1]] = ProcAfter(x)]
    BY <1>4, <1>14 DEF PopRawData
  <2>2. x \in Raw
    BY <1>14, <2>1, PopType DEF Types, ItemOf
  <2> HIDE DEF x
  <2>3. /\ Decode(t[1], x) \in Seq(Raw)
        /\ ProcAfter(x) \in [label : Nat, atMarker : BOOLEAN]
    BY <1>4, <2>2, DecodeType DEF Types
  <2>4. Seq(ItemOf(t[2] + 1)) = Seq(Raw)
    BY <1>14 DEF ItemOf
  <2>5. Out
    BY <1>7, <2>1, <2>3, <2>4
  <2>6. Proc
    BY <1>4, <1>5, <2>1, <2>3
  <2> QED BY <1>5, <1>9, <2>1, <2>5, <2>6
<1>15. CASE t[2] = 2 /\ PopData(t[1])
  <2> DEFINE f == t[1]
             x == Head(clip[t])
             h == Fill(histo[f], x)
  <2>1. /\ Pop(t) /\ UNCHANGED proc
        /\ IF x.kind = "eoi"
           THEN /\ histo' = [histo EXCEPT ![f] = NewIteration]
                /\ published' = [published EXCEPT ![f] = Append(@, h)]
                /\ out' = [out EXCEPT ![t] = [a \in 1..NumHisto |-> Histogram(a, h)]]
           ELSE /\ histo' = [histo EXCEPT ![f] = h]
                /\ UNCHANGED <<published, out>>
    BY <1>4, <1>15 DEF PopData
  <2>2. x \in Raw
    BY <1>15, <2>1, PopType DEF Types, ItemOf
  <2>3. f \in FE /\ histo[f] \in HistoState /\ published[f] \in Seq(HistoState)
    BY <1>4, <1>5
  <2>4. /\ h \in HistoState
        /\ [a \in 1..NumHisto |-> Histogram(a, h)] \in Seq(Histo)
    BY <2>2, <2>3, FillType
  <2>5. Seq(ItemOf(t[2] + 1)) = Seq(Histo)
    BY <1>15 DEF ItemOf
  <2>6. NewIteration \in HistoState
    BY EmptySeq DEF NewIteration, HistoState
  <2>7. Append(published[f], h) \in Seq(HistoState)
    BY <2>3, <2>4, AppendProperties
  <2> HIDE DEF x, h, f
  <2>8. Out
    BY <1>6, <1>7, <2>1, <2>4, <2>5
  <2>9. Histos
    <3>1. CASE x.kind = "eoi"
      <4>1. /\ histo' = [histo EXCEPT ![f] = NewIteration]
            /\ published' = [published EXCEPT ![f] = Append(published[f], h)]
        BY <2>1, <3>1
      <4>2. histo' \in [FE -> HistoState]
        BY <1>5, <2>6, <4>1
      <4>3. published' \in [FE -> Seq(HistoState)]
        BY <1>5, <2>7, <4>1
      <4> QED BY <4>2, <4>3
    <3>2. CASE x.kind # "eoi"
      <4>1. histo' = [histo EXCEPT ![f] = h] /\ published' = published
        BY <2>1, <3>2
      <4> QED BY <1>5, <2>4, <4>1
    <3> QED BY <3>1, <3>2
  <2> QED BY <1>5, <1>9, <2>1, <2>8, <2>9
<1>16. CASE t[2] > 2 /\ PopHisto(t[1], t[2] - 2)
  <2> DEFINE x == Head(clip[t])
             k == t[2] - 2
  <2>1. k \in Nat /\ 2 + k = t[2] /\ ItemOf(t[2]) = Histo /\ ItemOf(t[2] + 1) = Histo
    BY <1>4, <1>16 DEF ItemOf
  <2>2. <<t[1], 2 + k>> = t
    BY <1>4, <2>1
  <2>3. /\ Pop(t) /\ UNCHANGED <<proc, histo, published>>
        /\ out' = [out EXCEPT ![t] = Analyse(k, x)]
    BY <1>16, <2>2 DEF PopHisto
  <2>4. x \in Histo
    BY <2>1, <2>3, PopType DEF Types
  <2> HIDE DEF x, k
  <2>5. Analyse(k, x) \in Seq(ItemOf(t[2] + 1))
    BY <2>1, <2>4, AnalyseType
  <2> QED BY <1>5, <1>7, <1>9, <2>3, <2>5
<1> QED BY <1>10, <1>11, <1>12, <1>13, <1>14, <1>15, <1>16 DEF ThreadStep, PopStep

(* Every step keeps the types. *)
LEMMA NextType == Types /\ [Next]_vars => Types'
<1> SUFFICES ASSUME Types, [Next]_vars PROVE Types'
  OBVIOUS
<1>1. CASE \E f \in FE, kind \in {"data", "void"} : PushRawData(f, kind)
  BY <1>1, DataLoopType
<1>2. CASE MainStep
  <2>1. {1, 2, 3} \subseteq Clips
    BY PipelineAssumption DEF Clips
  <2> QED BY <1>2, <2>1, DataLoopType, JoinType DEF MainStep
<1>3. ASSUME NEW t \in FE \X Stages, ThreadStep(t) PROVE Types'
  BY <1>3, ThreadType
<1>4. CASE UNCHANGED vars
  BY <1>4 DEF vars, pipeVars, mainVars, config, Types, TypeOK, Shape
<1> QED BY <1>1, <1>2, <1>3, <1>4 DEF Next

(* Every container, histogram and result that is queued or about to be      *)
(* pushed has the type its reader expects, and the main thread never joins  *)
(* past the last front end or tier.                                         *)
THEOREM TypeCorrect == Spec => []TypeOK
<1>1. Types => TypeOK
  BY DEF Types
<1> QED BY <1>1, InitType, NextType, PTL DEF Spec

----------------------------------------------------------------------------
(* The order of finishing and joining *)

(* Nothing is finished, nothing joined, and nobody has anything to push. *)
LEMMA InitOrder == Init => OrderInv
<1> SUFFICES ASSUME Init PROVE OrderInv
  OBVIOUS
<1>1. /\ \A c \in FE \X Clips : ~done[c]
      /\ \A t \in FE \X Stages : pc[t] \in {"none", "wait"} /\ out[t] = <<>>
      /\ \A f \in FE : ~proc[f].atMarker
      /\ mainPc = "scan"
  BY DEF Init
<1>2. FinishedInv
  BY <1>1, Pairs, StageNumbers DEF FinishedInv
<1>3. OutInv
  BY <1>1 DEF OutInv
<1>4. JoinInv
  BY <1>1 DEF JoinInv
<1>5. DoneInv /\ DrainInv
  BY <1>1 DEF DoneInv, DrainInv
<1> QED BY <1>2, <1>3, <1>4, <1>5 DEF OrderInv

(* A thread that pushes writes to a clipboard that is not finished, whose   *)
(* reader is still in the loop of process().                                *)
LEMMA OpenDownstream ==
    ASSUME Types, OrderInv, NEW t \in FE \X Stages, out[t] # <<>>
    PROVE  /\ ~done[Downstream(t)]
           /\ \A u \in FE \X Stages : u = Downstream(t) =>
                  pc[u] \notin {"core2", "core3", "end", "exit", "returned"}
<1>1. pc[t] # "returned"
  BY DEF OrderInv, OutInv
<1>2. ~done[Downstream(t)]
  BY <1>1 DEF OrderInv, FinishedInv
<1> QED BY <1>2 DEF OrderInv, DoneInv

(* What a step of a thread leaves alone, and that it has not returned. *)
LEMMA ThreadFacts ==
    ASSUME Types, NEW t \in FE \X Stages, ThreadStep(t)
    PROVE  /\ UNCHANGED <<done, active, style, mainPc, feIdx, tier>>
           /\ \A u \in FE \X Stages : u # t => pc'[u] = pc[u] /\ out'[u] = out[u]
           /\ \A u \in FE \X Stages : pc[u] = "returned" => pc'[u] = "returned"
<1>1. UNCHANGED <<done, active, style, mainPc, feIdx, tier>>
  BY DEF ThreadStep, Wait, PopStep, PopRawData, PopData, PopHisto, PushOut, CoreReturn, IsDone,
         End, Return, mainVars, config
<1>2. \/ UNCHANGED pc
      \/ pc[t] # "returned" /\ \E l : pc' = [pc EXCEPT ![t] = l]
  BY DEF ThreadStep, Wait, PopStep, PopRawData, PopData, PopHisto, PushOut, CoreReturn, IsDone,
         End, Return, ThreadGoto, InCore
<1>3. t[2] \in Nat /\ t = <<t[1], t[2]>> /\ (t[2] > 2 => 2 + (t[2] - 2) = t[2])
  BY Pairs
<1>4. UNCHANGED out \/ \E o : out' = [out EXCEPT ![t] = o]
  BY <1>3 DEF ThreadStep, Wait, PopStep, PopRawData, PopData, PopHisto, PushOut, CoreReturn,
              IsDone, End, Return
<1>5. \A u \in FE \X Stages : u # t => out'[u] = out[u]
  BY <1>4 DEF Types, Shape
<1>6. pc \in [FE \X Stages -> {"none", "wait", "core1", "isDone", "core2", "core3", "end", "exit",
                             "returned"}]
  BY DEF Types, TypeOK
<1>7. /\ \A u \in FE \X Stages : u # t => pc'[u] = pc[u]
      /\ \A u \in FE \X Stages : pc[u] = "returned" => pc'[u] = "returned"
  BY <1>2, <1>6
<1> QED BY <1>1, <1>5, <1>7

(* What stays of the main thread's view while threads run. *)
LEMMA ReturnedStays ==
    ASSUME Types, OrderInv, UNCHANGED <<done, active, mainPc, feIdx, tier>>,
           \A u \in FE \X Stages : pc[u] = "returned" => pc'[u] = "returned"
    PROVE  FinishedInv' /\ JoinInv'
<1>1. active \subseteq FE /\ 3..(2 + Tiers) \subseteq Stages
  BY PipelineAssumption DEF Types, TypeOK, Stages
<1>2. \A f \in active, s \in Stages : pc[<<f, s>>] = "returned" => pc'[<<f, s>>] = "returned"
  BY <1>1
<1>3. {1, 2} \subseteq Stages
  BY PipelineAssumption DEF Stages
<1>4. FinishedInv'
  BY DEF OrderInv, FinishedInv, Downstream
<1>5. \A s \in Stages : AllReturned(s) => AllReturned(s)'
  BY <1>2 DEF AllReturned
<1>6. JoinInv'
  BY <1>1, <1>2, <1>3, <1>5 DEF OrderInv, JoinInv
<1> QED BY <1>4, <1>6

(* A thread has emptied its input, finished before, when it has returned,   *)
(* and has nothing to push.                                                 *)
LEMMA ThreadOrder ==
    ASSUME Types, OrderInv, NEW t \in FE \X Stages, ThreadStep(t)
    PROVE  OrderInv'
<1>1. /\ UNCHANGED <<done, active, style, mainPc, feIdx, tier>>
      /\ \A u \in FE \X Stages : u # t => pc'[u] = pc[u] /\ out'[u] = out[u]
      /\ \A u \in FE \X Stages : pc[u] = "returned" => pc'[u] = "returned"
  BY ThreadFacts
<1>2. FinishedInv' /\ JoinInv'
  BY <1>1, ReturnedStays
<1>3. /\ t[1] \in FE /\ t[2] \in Nat \ {0} /\ t = <<t[1], t[2]>> /\ t \in FE \X Clips
      /\ (t[2] > 2 => 2 + (t[2] - 2) = t[2])
      /\ Downstream(t) \in FE \X Clips /\ Downstream(t) # t
  BY Pairs DEF Downstream
<1>4. /\ DOMAIN pc = FE \X Stages /\ DOMAIN clip = FE \X Clips /\ DOMAIN out = FE \X Stages
      /\ DOMAIN proc = FE
  BY DEF Types, TypeOK, Shape
<1> DEFINE Ended == {"core2", "core3", "end", "exit", "returned"}
           Late  == {"core3", "end", "exit", "returned"}
           OutT  == pc'[t] \notin {"core1", "core2", "core3", "exit"} => out'[t] = <<>>
           DoneT == pc'[t] \in Ended => done[t]
           DrainT == Drains(t) /\ pc'[t] \in Late => clip'[t] = <<>>
           ProcT == style = "drain" => \A f \in FE : ~proc'[f].atMarker
           ClipT == \A u \in FE \X Stages : u # t /\ pc[u] \in Late => clip'[u] = clip[u]
<1>5. ASSUME OutT, DoneT, DrainT, ProcT, ClipT PROVE OrderInv'
  <2>1. OutInv' /\ DoneInv'
    BY <1>1, <1>5 DEF OrderInv, OutInv, DoneInv
  <2>2. DrainInv'
    BY <1>1, <1>5 DEF OrderInv, DrainInv, Drains
  <2> QED BY <1>2, <2>1, <2>2 DEF OrderInv
<1>6. /\ pc[t] \notin {"core1", "core2", "core3", "exit"} => out[t] = <<>>
      /\ pc[t] \in Ended => done[t]
      /\ Drains(t) /\ pc[t] \in Late => clip[t] = <<>>
      /\ style = "drain" => \A f \in FE : ~proc[f].atMarker
  BY DEF OrderInv, OutInv, DoneInv, DrainInv
<1>7. CASE Wait(t)
  <2>1. pc'[t] = "core1" /\ UNCHANGED <<clip, proc>>
    BY <1>4, <1>7 DEF Wait, ThreadGoto
  <2> QED BY <1>5, <1>6, <2>1
<1>8. CASE IsDone(t)
  <2>1. /\ pc[t] = "isDone" /\ UNCHANGED <<clip, proc, out>>
        /\ pc'[t] = IF done[t] THEN "core2" ELSE "wait"
    BY <1>4, <1>8 DEF IsDone, ThreadGoto
  <2> QED BY <1>5, <1>6, <2>1
<1>9. CASE End(t)
  <2>1. pc[t] = "end" /\ pc'[t] = "exit" /\ UNCHANGED <<clip, proc>>
    BY <1>4, <1>9 DEF End, ThreadGoto
  <2> QED BY <1>5, <1>6, <2>1
<1>10. CASE Return(t)
  <2>1. pc[t] = "exit" /\ out[t] = <<>> /\ pc'[t] = "returned" /\ UNCHANGED <<clip, proc, out>>
    BY <1>4, <1>10 DEF Return, ThreadGoto
  <2> QED BY <1>5, <1>6, <2>1
<1>11. CASE PushOut(t)
  <2>1. UNCHANGED <<pc, proc>> /\ out[t] # <<>>
    BY <1>11 DEF PushOut
  <2>2. /\ clip'[t] = clip[t]
        /\ \A u \in FE \X Stages : u # Downstream(t) => clip'[u] = clip[u]
    <3>1. \A u \in FE \X Stages : u \in FE \X Clips
      BY Pairs
    <3> QED BY <1>3, <1>4, <1>11, <3>1 DEF PushOut, Push, Downstream
  <2>3. ClipT
    BY <2>1, <2>2, OpenDownstream
  <2>4. OutT
    BY <1>6, <2>1
  <2> QED BY <1>5, <1>6, <2>1, <2>2, <2>3, <2>4
<1>12. CASE CoreReturn(t)
  <2>1. /\ InCore(t) /\ out[t] = <<>> /\ UNCHANGED <<clip, out>>
        /\ clip[t] = <<>> \/ AtMarker(t)
        /\ pc'[t] = AfterCore(t)
        /\ proc' = IF t[2] = 1 THEN [proc EXCEPT ![t[1]].atMarker = FALSE] ELSE proc
    BY <1>4, <1>12 DEF CoreReturn, ThreadGoto
  <2>2. Drains(t) => clip[t] = <<>>
    BY <1>3, <1>6, <2>1 DEF Drains, AtMarker
  <2>3. /\ pc'[t] \in {"isDone", "core3", "end", "returned"}
        /\ pc'[t] \in Ended => pc[t] \in {"core2", "core3"}
    BY <2>1 DEF InCore, AfterCore
  <2>4. ProcT
    <3>1. \A f \in FE : f # t[1] => proc'[f] = proc[f]
      BY <1>3, <1>4, <2>1
    <3>2. proc'[t[1]].atMarker => proc[t[1]].atMarker
      <4>1. proc[t[1]] \in [label : Nat, atMarker : BOOLEAN]
        BY <1>3 DEF Types, TypeOK
      <4> QED BY <1>3, <1>4, <2>1, <4>1
    <3> QED BY <1>3, <1>6, <3>1, <3>2
  <2> QED BY <1>5, <1>6, <2>1, <2>2, <2>3, <2>4
<1>13. CASE PopStep(t)
  <2>1. Pop(t) /\ UNCHANGED pc
    BY <1>3, <1>13 DEF PopStep, PopRawData, PopData, PopHisto
  <2>2. /\ pc[t] \in {"core1", "core2", "core3"} /\ clip[t] # <<>>
        /\ clip' = [clip EXCEPT ![t] = Tail(@)]
    BY <2>1 DEF Pop, InCore
  <2>3. ClipT
    BY <1>3, <1>4, <2>2, Pairs
  <2>4. DrainT
    BY <1>6, <2>1, <2>2
  <2>5. ProcT
    <3>1. \/ UNCHANGED proc
          \/ \E x : proc' = [proc EXCEPT ![t[1]] = ProcAfter(x)]
      BY <1>13 DEF PopStep, PopRawData, PopData, PopHisto
    <3>2. CASE UNCHANGED proc
      BY <1>6, <3>2
    <3>3. ASSUME NEW x, proc' = [proc EXCEPT ![t[1]] = ProcAfter(x)] PROVE ProcT
      <4>1. style = "drain" => ~ProcAfter(x).atMarker
        BY DEF ProcAfter
      <4>2. \A f \in FE : proc'[f] = IF f = t[1] THEN ProcAfter(x) ELSE proc[f]
        BY <1>4, <3>3
      <4> QED BY <1>6, <4>1, <4>2
    <3> QED BY <3>1, <3>2, <3>3
  <2>6. OutT /\ DoneT
    BY <1>6, <2>1, <2>2
  <2> QED BY <1>5, <2>3, <2>4, <2>5, <2>6
<1> QED BY <1>7, <1>8, <1>9, <1>10, <1>11, <1>12, <1>13 DEF ThreadStep

(* What a step of the main thread that finishes or joins leaves of the      *)
(* threads; a flag that is set stays set.                                   *)
LEMMA MainOrder ==
    ASSUME Types, OrderInv, UNCHANGED <<pc, out, proc, active, style>>,
           done' \in [FE \X Clips -> BOOLEAN],
           \A c \in FE \X Clips : done[c] => done'[c],
           \A t \in FE \X Stages : pc[t] \in {"core3", "end", "exit", "returned"} => clip'[t] = clip[t]
    PROVE  OutInv' /\ DoneInv' /\ DrainInv'
<1>1. OutInv'
  BY DEF OrderInv, OutInv
<1>2. DoneInv'
  BY Pairs DEF OrderInv, DoneInv
<1>3. DrainInv'
  BY DEF OrderInv, DrainInv, Drains
<1> QED BY <1>1, <1>2, <1>3

(* The data loop pushes only to clipboards of a scan that is not over. *)
LEMMA DataLoopOrder ==
    ASSUME Types, OrderInv,
           (\E f \in FE, kind \in {"data", "void"} : PushRawData(f, kind)) \/ PushEndOfIteration
    PROVE  OrderInv'
<1>1. /\ mainPc = "scan"
      /\ UNCHANGED <<done, pc, out, proc, active, style, mainPc, feIdx, tier>>
  BY DEF PushRawData, PushEndOfIteration, config
<1>2. DOMAIN clip = FE \X Clips /\ done \in [FE \X Clips -> BOOLEAN]
  BY DEF Types, TypeOK, Shape
<1>3. \A c \in FE \X Clips : c[2] # 1 => clip'[c] = clip[c]
  <2>1. CASE PushEndOfIteration
    BY <1>2, <2>1 DEF PushEndOfIteration
  <2>2. ASSUME NEW f \in FE, NEW kind \in {"data", "void"}, PushRawData(f, kind),
               NEW c \in FE \X Clips, c[2] # 1
        PROVE  clip'[c] = clip[c]
    <3>1. \E x : clip' = [clip EXCEPT ![<<f, 1>>] = x]
      BY <2>2 DEF PushRawData, Push
    <3>2. c # <<f, 1>>
      BY <2>2
    <3> QED BY <1>2, <3>1, <3>2
  <2> QED BY <2>1, <2>2
<1>4. ASSUME NEW t \in FE \X Stages, pc[t] \in {"core3", "end", "exit", "returned"}
      PROVE  clip'[t] = clip[t]
  <2>1. done[t] /\ t \in FE \X Clips /\ t = <<t[1], t[2]>> /\ t[1] \in FE
    BY <1>4, Pairs DEF OrderInv, DoneInv
  <2>2. t[2] # 1
    BY <1>1, <2>1 DEF OrderInv, FinishedInv
  <2> QED BY <1>3, <2>1, <2>2
<1>5. OutInv' /\ DoneInv' /\ DrainInv'
  BY <1>1, <1>2, <1>4, MainOrder
<1>6. FinishedInv' /\ JoinInv'
  BY <1>1, ReturnedStays
<1> QED BY <1>5, <1>6 DEF OrderInv

(* finish() of the raw data after the scan, of the data after the           *)
(* processors and of the histograms after the histogrammers were joined.    *)
LEMMA FinishOrder ==
    ASSUME Types, OrderInv,
           \/ Finish("scan", 1, "joinProcs")
           \/ Finish("finishData", 2, "joinHistogrammers")
           \/ Finish("finishHisto", 3, "joinAnalyses")
    PROVE  OrderInv'
<1> USE PipelineAssumption
<1>1. /\ UNCHANGED <<clip, pc, out, proc, active, style>>
      /\ feIdx' = 0 /\ tier' = 1
  BY DEF Finish, MainGoto, config
<1>2. PICK s \in {1, 2, 3} :
        /\ done' = [c \in FE \X Clips |-> done[c] \/ (c[2] = s /\ c[1] \in active)]
        /\ s = 1 => mainPc = "scan" /\ mainPc' = "joinProcs"
        /\ s = 2 => mainPc = "finishData" /\ mainPc' = "joinHistogrammers"
        /\ s = 3 => mainPc = "finishHisto" /\ mainPc' = "joinAnalyses"
  BY DEF Finish, FinishClips, MainGoto
<1>3. done \in [FE \X Clips -> BOOLEAN] /\ active \subseteq FE /\ FE \subseteq Nat
  BY DEF Types, TypeOK, FE
<1>4. /\ done' \in [FE \X Clips -> BOOLEAN]
      /\ \A c \in FE \X Clips : done'[c] <=> done[c] \/ (c[2] = s /\ c[1] \in active)
  BY <1>2, <1>3
<1>5. OutInv' /\ DoneInv' /\ DrainInv'
  BY <1>1, <1>4, MainOrder
<1>6. FinishedInv'
  <2>1. ASSUME NEW f \in FE, done'[<<f, 1>>] PROVE mainPc' # "scan"
    BY <1>2
  <2>2. ASSUME NEW t \in FE \X Stages, done'[Downstream(t)] PROVE pc[t] = "returned"
    <3>1. /\ Downstream(t) \in FE \X Clips /\ t[2] \in Nat \ {0} /\ t = <<t[1], t[2]>>
          /\ Downstream(t)[2] = t[2] + 1 /\ Downstream(t)[1] = t[1]
      BY Pairs DEF Downstream
    <3>2. CASE done[Downstream(t)]
      BY <3>2 DEF OrderInv, FinishedInv
    <3>3. CASE t[2] + 1 = s /\ t[1] \in active
      <4>1. (s = 2 => AllReturned(1)) /\ (s = 3 => AllReturned(2))
        BY <1>2 DEF OrderInv, JoinInv
      <4>2. t[2] = s - 1
        BY <3>1, <3>3
      <4>3. AllReturned(t[2])
        BY <3>1, <4>1, <4>2
      <4> QED BY <3>1, <3>3, <4>3 DEF AllReturned
    <3> QED BY <1>4, <2>2, <3>1, <3>2, <3>3
  <2> QED BY <1>1, <2>1, <2>2 DEF FinishedInv, Downstream
<1>7. JoinInv'
  <2>1. /\ s = 2 => AllReturned(1)'
        /\ s = 3 => AllReturned(1)' /\ AllReturned(2)'
    BY <1>1, <1>2 DEF OrderInv, JoinInv, AllReturned
  <2>2. \A f \in active : ~(f < feIdx')
    BY <1>1, <1>3
  <2>3. \A k \in 3..(2 + Tiers) : ~(k < 2 + tier')
    BY <1>1
  <2> QED BY <1>1, <1>2, <2>1, <2>2, <2>3 DEF JoinInv
<1> QED BY <1>5, <1>6, <1>7 DEF OrderInv

(* Joining the processors and the histogrammers one after the other. *)
LEMMA JoinOrder ==
    ASSUME Types, OrderInv, JoinProcs \/ JoinHistogrammers
    PROVE  OrderInv'
<1> USE PipelineAssumption
<1>1. UNCHANGED <<clip, done, pc, out, proc, active, style>>
  BY DEF JoinProcs, JoinHistogrammers, pipeVars, config
<1>2. done \in [FE \X Clips -> BOOLEAN] /\ active \subseteq FE /\ feIdx \in Nat
  BY DEF Types, TypeOK
<1>3. FE \subseteq Nat /\ \A f \in FE : f < NumFe
  BY DEF FE
<1>4. OutInv' /\ DoneInv' /\ DrainInv'
  BY <1>1, <1>2, MainOrder
<1>5. FinishedInv'
  <2>1. mainPc' # "scan"
    BY DEF JoinProcs, JoinHistogrammers, MainGoto
  <2> QED BY <1>1, <2>1 DEF OrderInv, FinishedInv, Downstream
<1>6. \A k : AllReturned(k)' <=> AllReturned(k)
  BY <1>1 DEF AllReturned
<1>7. JoinInv'
  <2>1. CASE JoinProcs
    <3>1. mainPc = "joinProcs" /\ \A f \in active : f < feIdx => pc[<<f, 1>>] = "returned"
      BY <2>1 DEF JoinProcs, OrderInv, JoinInv
    <3>2. CASE /\ feIdx \in active /\ pc[<<feIdx, 1>>] = "returned"
               /\ feIdx' = feIdx + 1 /\ UNCHANGED <<mainPc, tier>>
      <4>1. \A f \in active : f < feIdx' => f < feIdx \/ f = feIdx
        BY <1>2, <1>3, <3>2
      <4> QED BY <1>1, <3>1, <3>2, <4>1 DEF JoinInv
    <3>3. CASE mainPc' = "crashed"
      BY <3>3 DEF JoinInv
    <3>4. CASE feIdx = NumFe /\ MainGoto("finishData")
      <4>1. AllReturned(1)
        BY <1>2, <1>3, <3>1, <3>4 DEF AllReturned
      <4> QED BY <1>6, <3>4, <4>1 DEF JoinInv, MainGoto
    <3> QED BY <2>1, <3>2, <3>3, <3>4 DEF JoinProcs
  <2>2. CASE JoinHistogrammers
    <3>1. /\ mainPc = "joinHistogrammers" /\ AllReturned(1)
          /\ \A f \in active : f < feIdx => pc[<<f, 2>>] = "returned"
      BY <2>2 DEF JoinHistogrammers, OrderInv, JoinInv
    <3>2. CASE /\ feIdx \in FE
               /\ feIdx \in active => pc[<<feIdx, 2>>] = "returned"
               /\ feIdx' = feIdx + 1 /\ UNCHANGED <<mainPc, tier>>
      <4>4. feIdx' = feIdx + 1
        BY <3>2
      <4>5. feIdx \in Nat /\ \A f \in active : f \in Nat
        BY <1>2, <1>3
      <4>1. \A f \in active : f < feIdx' => f < feIdx \/ f = feIdx
        BY <4>4, <4>5
      <4>2. \A f \in active : f < feIdx' => pc[<<f, 2>>] = "returned"
        BY <3>1, <3>2, <4>1
      <4>3. AllReturned(1)' /\ mainPc' = "joinHistogrammers"
        BY <1>6, <3>1, <3>2
      <4> QED BY <1>1, <4>2, <4>3 DEF JoinInv
    <3>3. CASE feIdx = NumFe /\ MainGoto("finishHisto")
      <4>1. AllReturned(2)
        BY <1>2, <1>3, <3>1, <3>3 DEF AllReturned
      <4>2. AllReturned(1)' /\ AllReturned(2)' /\ mainPc' = "finishHisto"
        BY <1>6, <3>1, <3>3, <4>1 DEF MainGoto
      <4> QED BY <4>2 DEF JoinInv
    <3> QED BY <2>2, <3>2, <3>3 DEF JoinHistogrammers
  <2> QED BY <2>1, <2>2
<1> QED BY <1>4, <1>5, <1>7 DEF OrderInv

(* The tiers of a front end are joined in order, and the output of each is  *)
(* finished after it.                                                       *)
LEMMA JoinAnalysesOrder ==
    ASSUME Types, OrderInv, JoinAnalyses
    PROVE  OrderInv'
<1> USE PipelineAssumption
<1>1. /\ UNCHANGED <<clip, pc, out, proc, active, style>>
      /\ mainPc = "joinAnalyses" /\ mainPc' \in {"joinAnalyses", "done"}
  BY DEF JoinAnalyses, config, MainGoto
<1>2. /\ done \in [FE \X Clips -> BOOLEAN] /\ active \subseteq FE
      /\ feIdx \in Nat /\ tier \in Nat \ {0}
  BY DEF Types, TypeOK
<1>3. FE \subseteq Nat /\ \A f \in FE : f < NumFe
  BY DEF FE
<1> DEFINE Joined == feIdx \in active /\ tier <= Tiers /\ pc[<<feIdx, 2 + tier>>] = "returned"
<1>4. \/ UNCHANGED done
      \/ Joined /\ done' = [done EXCEPT ![<<feIdx, 3 + tier>>] = TRUE]
  BY DEF JoinAnalyses
<1>5. /\ done' \in [FE \X Clips -> BOOLEAN]
      /\ \A c \in FE \X Clips : done[c] => done'[c]
      /\ \A c \in FE \X Clips : done'[c] /\ ~done[c] => Joined /\ c = <<feIdx, 3 + tier>>
  BY <1>2, <1>4
<1>6. OutInv' /\ DoneInv' /\ DrainInv'
  BY <1>1, <1>5, MainOrder
<1>7. FinishedInv'
  <2>1. ASSUME NEW t \in FE \X Stages, done'[Downstream(t)] PROVE pc[t] = "returned"
    <3>1. /\ Downstream(t) \in FE \X Clips /\ t[2] \in Nat \ {0} /\ t = <<t[1], t[2]>>
      BY Pairs
    <3>2. CASE done[Downstream(t)]
      BY <3>2 DEF OrderInv, FinishedInv
    <3>3. CASE Joined /\ Downstream(t) = <<feIdx, 3 + tier>>
      <4>1. t[1] = feIdx /\ t[2] + 1 = 3 + tier
        BY <3>3 DEF Downstream
      <4>2. t[2] = 2 + tier
        BY <1>2, <3>1, <4>1
      <4> QED BY <3>1, <3>3, <4>1, <4>2
    <3> QED BY <1>5, <2>1, <3>1, <3>2, <3>3
  <2> QED BY <1>1, <2>1 DEF FinishedInv, Downstream
<1>8. \A k : AllReturned(k)' <=> AllReturned(k)
  BY <1>1 DEF AllReturned
<1>9. JoinInv'
  <2> DEFINE Before(f, k, i, j) == f < i \/ (f = i /\ k < 2 + j)
  <2>1. /\ AllReturned(1) /\ AllReturned(2)
        /\ \A f \in active : \A k \in 3..(2 + Tiers) :
              Before(f, k, feIdx, tier) => pc[<<f, k>>] = "returned"
    BY <1>1 DEF OrderInv, JoinInv
  <2>2. CASE Joined /\ tier' = tier + 1 /\ UNCHANGED <<mainPc, feIdx>>
    <3>1. \A f \in active : \A k \in 3..(2 + Tiers) :
            Before(f, k, feIdx', tier') =>
              Before(f, k, feIdx, tier) \/ (f = feIdx /\ k = 2 + tier)
      BY <1>2, <1>3, <2>2
    <3>2. \A f \in active : \A k \in 3..(2 + Tiers) :
            Before(f, k, feIdx', tier') => pc[<<f, k>>] = "returned"
      BY <2>1, <2>2, <3>1
    <3> QED BY <1>1, <1>8, <2>1, <2>2, <3>2 DEF JoinInv
  <2>3. CASE /\ feIdx \in FE
             /\ feIdx \in active => tier > Tiers
             /\ feIdx' = feIdx + 1 /\ tier' = 1 /\ UNCHANGED mainPc
    <3>1. \A f \in active : \A k \in 3..(2 + Tiers) :
            Before(f, k, feIdx', tier') => Before(f, k, feIdx, tier)
      BY <1>2, <1>3, <2>3
    <3>2. \A f \in active : \A k \in 3..(2 + Tiers) :
            Before(f, k, feIdx', tier') => pc[<<f, k>>] = "returned"
      BY <2>1, <3>1
    <3> QED BY <1>1, <1>8, <2>1, <2>3, <3>2 DEF JoinInv
  <2>4. CASE feIdx = NumFe /\ MainGoto("done")
    <3>1. \A f \in active : \A k \in 3..(2 + Tiers) : pc[<<f, k>>] = "returned"
      BY <1>2, <1>3, <2>1, <2>4
    <3>2. \A k \in Stages : k \in {1, 2} \/ k \in 3..(2 + Tiers)
      BY DEF Stages
    <3>3. \A k \in Stages : AllReturned(k)
      BY <2>1, <3>1, <3>2 DEF AllReturned
    <3> QED BY <1>8, <2>1, <2>4, <3>3 DEF JoinInv, MainGoto
  <2> QED BY <2>2, <2>3, <2>4 DEF JoinAnalyses
<1> QED BY <1>6, <1>7, <1>9 DEF OrderInv

----------------------------------------------------------------------------
(* The theorems *)

(* Every step keeps the order. *)
LEMMA NextOrder == Types /\ OrderInv /\ [Next]_vars => OrderInv'
<1> SUFFICES ASSUME Types, OrderInv, [Next]_vars PROVE OrderInv'
  OBVIOUS
<1>1. CASE (\E f \in FE, kind \in {"data", "void"} : PushRawData(f, kind)) \/ PushEndOfIteration
  BY <1>1, DataLoopOrder
<1>2. CASE \/ Finish("scan", 1, "joinProcs")
           \/ Finish("finishData", 2, "joinHistogrammers")
           \/ Finish("finishHisto", 3, "joinAnalyses")
  BY <1>2, FinishOrder
<1>3. CASE JoinProcs \/ JoinHistogrammers
  BY <1>3, JoinOrder
<1>4. CASE JoinAnalyses
  BY <1>4, JoinAnalysesOrder
<1>5. ASSUME NEW t \in FE \X Stages, ThreadStep(t) PROVE OrderInv'
  BY <1>5, ThreadOrder
<1>6. CASE UNCHANGED vars
  <2>1. UNCHANGED <<clip, done, pc, out, proc, active, style, mainPc, feIdx, tier>>
    BY <1>6 DEF vars, pipeVars, mainVars, config
  <2>2. done \in [FE \X Clips -> BOOLEAN]
    BY DEF Types, TypeOK
  <2>3. FinishedInv' /\ JoinInv'
    BY <2>1, ReturnedStays
  <2>4. OutInv' /\ DoneInv' /\ DrainInv'
    BY <2>1, <2>2, MainOrder
  <2> QED BY <2>3, <2>4 DEF OrderInv
<1> QED BY <1>1, <1>2, <1>3, <1>4, <1>5, <1>6 DEF Next, MainStep

(* "Join from upstream to downstream" (ScanConsoleImpl::run): nobody pushes *)
(* to a clipboard after finish(), whatever the threads were doing when the  *)
(* main thread went on.                                                     *)
THEOREM PushBeforeFinish == Spec => NoPushAfterFinish
<1> DEFINE NoPush == \A c \in FE \X Clips : Len(clip'[c]) > Len(clip[c]) => ~done[c]
<1>1. ASSUME Types, OrderInv, [Next]_vars PROVE NoPush \/ UNCHANGED vars
  <2> SUFFICES ASSUME Next, NEW c \in FE \X Clips, Len(clip'[c]) > Len(clip[c]) PROVE ~done[c]
    BY <1>1
  <2>1. DOMAIN clip = FE \X Clips /\ clip[c] \in Seq(ItemOf(c[2])) /\ Len(clip[c]) \in Nat
    BY <1>1, LenProperties DEF Types, TypeOK, Shape
  <2>2. clip'[c] # clip[c]
    BY <2>1
  <2>3. ASSUME c[2] = 1, mainPc = "scan" PROVE ~done[c]
    <3>1. c = <<c[1], 1>> /\ c[1] \in FE
      BY <2>3
    <3> QED BY <1>1, <2>3, <3>1 DEF OrderInv, FinishedInv
  <2>4. ASSUME NEW f \in FE, NEW kind \in {"data", "void"}, PushRawData(f, kind) PROVE ~done[c]
    <3>1. mainPc = "scan" /\ \E x : clip' = [clip EXCEPT ![<<f, 1>>] = x]
      BY <2>4 DEF PushRawData, Push
    <3>2. c = <<f, 1>>
      BY <2>1, <2>2, <3>1
    <3> QED BY <2>3, <3>1, <3>2
  <2>5. CASE PushEndOfIteration
    <3>1. mainPc = "scan" /\ c[2] = 1
      BY <2>2, <2>5 DEF PushEndOfIteration
    <3> QED BY <2>3, <3>1
  <2>6. ASSUME NEW t \in FE \X Stages, ThreadStep(t) PROVE ~done[c]
    <3>1. CASE PushOut(t)
      <4>1. out[t] # <<>> /\ \E x : clip' = [clip EXCEPT ![Downstream(t)] = x]
        BY <3>1 DEF PushOut, Push, Downstream
      <4>2. c = Downstream(t)
        BY <2>1, <2>2, <4>1
      <4> QED BY <1>1, <4>1, <4>2, OpenDownstream
    <3>2. CASE PopStep(t)
      <4>1. t = <<t[1], t[2]>> /\ (t[2] > 2 => 2 + (t[2] - 2) = t[2]) /\ t \in FE \X Clips
        BY Pairs
      <4>2. clip' = [clip EXCEPT ![t] = Tail(@)] /\ clip[t] # <<>>
        BY <3>2, <4>1 DEF PopStep, PopRawData, PopData, PopHisto, Pop
      <4>3. c = t /\ clip'[c] = Tail(clip[c])
        BY <2>1, <2>2, <4>1, <4>2
      <4>4. Len(clip'[c]) = Len(clip[c]) - 1
        BY <2>1, <4>2, <4>3, HeadTailProperties
      <4> QED BY <2>1, <4>4
    <3>3. CASE Wait(t) \/ CoreReturn(t) \/ IsDone(t) \/ End(t) \/ Return(t)
      BY <2>2, <3>3 DEF Wait, CoreReturn, IsDone, End, Return
    <3> QED BY <2>6, <3>1, <3>2, <3>3 DEF ThreadStep
  <2>7. CASE MainStep /\ ~PushEndOfIteration
    BY <2>2, <2>7 DEF MainStep, Finish, JoinProcs, JoinHistogrammers, JoinAnalyses, pipeVars
  <2> QED BY <2>4, <2>5, <2>6, <2>7 DEF Next
<1>2. Types /\ OrderInv /\ [Next]_vars => [NoPush]_vars
  BY <1>1
<1> QED BY <1>2, InitType, InitOrder, NextType, NextOrder, PTL DEF Spec, NoPushAfterFinish

(* The scan is over and every input is empty, except for that of a          *)
(* processor that returns at a marker (Rd53b, Itkpixv2), which may be left  *)
(* with a backlog.                                                          *)
ProcessedUnlessSegmented ==
    mainPc = "done" => \A t \in active \X Stages : Drains(t) => clip[t] = <<>>

(* process() calls process_core() once more after it has seen isDone(), and *)
(* by then nobody pushes: the histogrammers, the analyses and the           *)
(* processors that drain their input leave nothing behind.                  *)
THEOREM InputsDrained == Spec => []ProcessedUnlessSegmented
<1>1. Types /\ OrderInv => ProcessedUnlessSegmented
  <2> SUFFICES ASSUME Types, OrderInv, mainPc = "done", NEW t \in active \X Stages, Drains(t)
               PROVE  clip[t] = <<>>
    BY DEF ProcessedUnlessSegmented
  <2>1. t \in FE \X Stages /\ t[1] \in active /\ t[2] \in Stages /\ t = <<t[1], t[2]>>
    BY DEF Types, TypeOK
  <2>2. pc[t] = "returned"
    BY <2>1 DEF OrderInv, JoinInv, AllReturned
  <2> QED BY <2>1, <2>2 DEF OrderInv, DrainInv
<1> QED BY <1>1, InitType, InitOrder, NextType, NextOrder, PTL DEF Spec

----------------------------------------------------------------------------
(* What becomes of the data: from the data loop to the histograms           *)

(* The containers of a queue belong to the iterations from a to b: each     *)
(* carries the number of its own, which the marker ends, whose label is 0.  *)
Numbers(q, a, b, g) ==
    /\ g[1] = a /\ g[Len(q) + 1] = b
    /\ \A i \in 1..Len(q) : IF q[i].kind = "eoi" THEN g[i + 1] = g[i] + 1 /\ q[i].label = 0
                            ELSE g[i + 1] = g[i] /\ q[i].label = g[i]

Numbered(q, a, b) == \E g \in [1..(Len(q) + 1) -> Nat] : Numbers(q, a, b, g)

(* An empty container follows one with data, so that it is never the first  *)
(* of its iteration; fresh: the histogrammer has just begun one.            *)
EmptyFollow(q, fresh) ==
    \A i \in 1..Len(q) : q[i].kind = "void" => IF i = 1 THEN ~fresh ELSE q[i - 1].kind = "data"

EndsWithData(q, fresh) == IF q = <<>> THEN ~fresh ELSE q[Len(q)].kind = "data"

(* The events of iteration k that the histogrammer h has filled or          *)
(* published.                                                               *)
Filled(k, h, pub) ==
    IF k \in 1..Len(pub) THEN pub[k].events
    ELSE IF k = Len(pub) + 1 /\ ~h.isNew THEN h.events ELSE <<>>

(* A front end with the raw data r in front of the processor, which works   *)
(* on iteration b and has the container of label open, and q between it and *)
(* the histogrammer; p is what was pushed and n the iteration of the loop.  *)
Flow(b, r, label, q, h, pub, p, n) ==
    /\ Numbered(q, Len(pub) + 1, b) /\ Numbered(r, b, n)
    /\ EmptyFollow(q, h.isNew)
    /\ label # 0 => label = b /\ EndsWithData(q, h.isNew)
    /\ ~h.isNew => h.label = Len(pub) + 1 /\ h.events # <<>>
    /\ \A k \in 1..Len(pub) : pub[k].label = IF pub[k].events = <<>> THEN 0 ELSE k
    /\ \A k \in Nat \ {0} :
          Selected(p, DataOf(k)) = Cat(Cat(Filled(k, h, pub), Selected(q, DataOf(k))),
                                       Selected(r, DataOf(k)))

(* The processor's last two calls of process_core, after finish(): with at  *)
(* most two iterations each of them has at most one marker to find.         *)
Backlog(b, at, marker, n) ==
    /\ marker => at \in {"core1", "core2", "core3"}
    /\ n <= 3 => /\ at = "core2" /\ marker => n <= b + 1
                 /\ at = "core3" => n <= b + 1
                 /\ at = "core3" /\ marker => n <= b
                 /\ at = "returned" => n <= b

Queued(f) == Cat(clip[<<f, 2>>], out[<<f, 1>>])

FlowOf(f, b) ==
    /\ Flow(b, clip[<<f, 1>>], proc[f].label, Queued(f), histo[f], published[f], pushed[f], iter)
    /\ Backlog(b, pc[<<f, 1>>], proc[f].atMarker, iter)

FlowInv == \A f \in FE : \E b \in Nat \ {0} : FlowOf(f, b)

----------------------------------------------------------------------------
(* Lemmas on numbered queues *)

(* Nothing is numbered from a to a. *)
LEMMA NumberedEmpty ==
    ASSUME NEW a \in Nat, NEW b \in Nat
    PROVE  Numbered(<<>>, a, b) <=> a = b
<1>1. Len(<<>>) = 0
  OBVIOUS
<1>2. ASSUME a = b PROVE Numbered(<<>>, a, b)
  <2> DEFINE g == [i \in 1..1 |-> a]
  <2>1. g \in [1..(Len(<<>>) + 1) -> Nat] /\ Numbers(<<>>, a, b, g)
    BY <1>1, <1>2 DEF Numbers
  <2> QED BY <2>1 DEF Numbered
<1>3. Numbered(<<>>, a, b) => a = b
  BY <1>1 DEF Numbered, Numbers
<1> QED BY <1>2, <1>3

(* One more container of the last iteration, or the marker that ends it. *)
LEMMA NumberedAppend ==
    ASSUME NEW q \in Seq(Raw), NEW a \in Nat, NEW b \in Nat, Numbered(q, a, b), NEW x \in Raw
    PROVE  /\ x.kind = "eoi" /\ x.label = 0 => Numbered(Append(q, x), a, b + 1)
           /\ x.kind # "eoi" /\ x.label = b => Numbered(Append(q, x), a, b)
<1> DEFINE n == Len(q)
           t == Append(q, x)
<1>1. n \in Nat /\ Len(t) = n + 1 /\ (\A i \in 1..n : t[i] = q[i]) /\ t[n + 1] = x
  BY AppendProperties
<1>2. PICK g \in [1..(n + 1) -> Nat] : Numbers(q, a, b, g)
  BY DEF Numbered
<1>3. g[1] = a /\ g[n + 1] = b
  BY <1>2 DEF Numbers
<1>4. \A i \in 1..n : IF q[i].kind = "eoi" THEN g[i + 1] = g[i] + 1 /\ q[i].label = 0
                      ELSE g[i + 1] = g[i] /\ q[i].label = g[i]
  BY <1>2 DEF Numbers
<1> HIDE DEF t, n
<1>5. ASSUME NEW c \in Nat, IF x.kind = "eoi" THEN c = b + 1 /\ x.label = 0 ELSE c = b /\ x.label = b
      PROVE  Numbered(t, a, c)
  <2> DEFINE e == [i \in 1..(n + 2) |-> IF i <= n + 1 THEN g[i] ELSE c]
  <2>1. e \in [1..(Len(t) + 1) -> Nat]
    BY <1>1
  <2>2. (\A i \in 1..(n + 1) : e[i] = g[i]) /\ e[n + 2] = c
    BY <1>1
  <2> HIDE DEF e
  <2>3. e[1] = a /\ e[Len(t) + 1] = c
    BY <1>1, <1>3, <2>2
  <2>4. ASSUME NEW i \in 1..Len(t)
        PROVE  IF t[i].kind = "eoi" THEN e[i + 1] = e[i] + 1 /\ t[i].label = 0
               ELSE e[i + 1] = e[i] /\ t[i].label = e[i]
    <3>1. CASE i \in 1..n
      <4>1. i \in 1..(n + 1) /\ i + 1 \in 1..(n + 1)
        BY <1>1, <3>1
      <4> QED BY <1>1, <1>4, <2>2, <3>1, <4>1
    <3>2. CASE i = n + 1
      <4>1. i \in 1..(n + 1) /\ i + 1 = n + 2
        BY <1>1, <3>2
      <4> QED BY <1>1, <1>3, <1>5, <2>2, <3>2, <4>1
    <3> QED BY <1>1, <3>1, <3>2
  <2> QED BY <2>1, <2>3, <2>4 DEF Numbered, Numbers
<1> QED BY <1>5 DEF t

(* What is first belongs to the first iteration, or ends it. *)
LEMMA NumberedTail ==
    ASSUME NEW q \in Seq(Raw), NEW a \in Nat, NEW b \in Nat, Numbered(q, a, b), q # <<>>
    PROVE  /\ Head(q).kind = "eoi" => Head(q).label = 0 /\ Numbered(Tail(q), a + 1, b)
           /\ Head(q).kind # "eoi" => Head(q).label = a /\ Numbered(Tail(q), a, b)
<1> DEFINE n == Len(q)
           t == Tail(q)
           x == Head(q)
<1>1. /\ n \in Nat \ {0} /\ t \in Seq(Raw) /\ Len(t) = n - 1 /\ x = q[1]
      /\ \A i \in 1..(n - 1) : t[i] = q[i + 1]
  OBVIOUS
<1>2. PICK g \in [1..(n + 1) -> Nat] : Numbers(q, a, b, g)
  BY DEF Numbered
<1>3. g[1] = a /\ g[n + 1] = b
  BY <1>2 DEF Numbers
<1>4. \A i \in 1..n : IF q[i].kind = "eoi" THEN g[i + 1] = g[i] + 1 /\ q[i].label = 0
                      ELSE g[i + 1] = g[i] /\ q[i].label = g[i]
  BY <1>2 DEF Numbers
<1>5. IF x.kind = "eoi" THEN g[2] = a + 1 /\ x.label = 0 ELSE g[2] = a /\ x.label = a
  <2>1. 1 \in 1..n
    BY <1>1
  <2> QED BY <1>1, <1>3, <1>4, <2>1
<1> DEFINE e == [i \in 1..n |-> g[i + 1]]
<1> HIDE DEF t, x, n
<1>6. e \in [1..(Len(t) + 1) -> Nat]
  BY <1>1
<1>7. e[1] = g[2] /\ e[Len(t) + 1] = b
  BY <1>1, <1>3
<1>8. ASSUME NEW i \in 1..Len(t)
      PROVE  IF t[i].kind = "eoi" THEN e[i + 1] = e[i] + 1 /\ t[i].label = 0
             ELSE e[i + 1] = e[i] /\ t[i].label = e[i]
  <2>1. i \in 1..n /\ i + 1 \in 1..n /\ i \in 1..(n - 1) /\ e[i] = g[i + 1] /\ e[i + 1] = g[(i + 1) + 1]
    BY <1>1
  <2> QED BY <1>1, <1>4, <2>1
<1> HIDE DEF e
<1>9. Numbered(t, g[2], b)
  BY <1>6, <1>7, <1>8 DEF Numbered, Numbers
<1> QED BY <1>5, <1>9 DEF t, x

(* No container carries a number below the first. *)
LEMMA NumberedBounds ==
    ASSUME NEW q \in Seq(Raw), NEW a \in Nat, NEW b \in Nat, Numbered(q, a, b)
    PROVE  /\ a <= b
           /\ \A i \in 1..Len(q) : q[i].kind # "eoi" => a <= q[i].label
<1> DEFINE n == Len(q)
<1>1. n \in Nat
  OBVIOUS
<1>2. PICK g \in [1..(n + 1) -> Nat] : Numbers(q, a, b, g)
  BY DEF Numbered
<1>3. g[1] = a /\ g[n + 1] = b
  BY <1>2 DEF Numbers
<1>4. \A i \in 1..n : IF q[i].kind = "eoi" THEN g[i + 1] = g[i] + 1 /\ q[i].label = 0
                      ELSE g[i + 1] = g[i] /\ q[i].label = g[i]
  BY <1>2 DEF Numbers
<1> HIDE DEF n
<1> DEFINE T == {i \in Nat : i \in 0..n => a <= g[i + 1]}
<1>5. 0 \in T
  BY <1>1, <1>3
<1>6. ASSUME NEW i \in Nat, i \in T PROVE i + 1 \in T
  <2>1. CASE i + 1 \in 0..n
    <3>1. i \in 0..n /\ i + 1 \in 1..n /\ i + 1 \in 1..(n + 1) /\ (i + 1) + 1 \in 1..(n + 1)
      BY <1>1, <2>1
    <3>2. a <= g[i + 1] /\ g[i + 1] \in Nat
      BY <1>2, <1>6, <3>1
    <3>3. g[(i + 1) + 1] \in {g[i + 1], g[i + 1] + 1}
      BY <1>4, <3>1
    <3>4. a <= g[(i + 1) + 1]
      BY <3>2, <3>3
    <3> QED BY <3>4
  <2>2. CASE ~(i + 1 \in 0..n)
    BY <2>2
  <2> QED BY <2>1, <2>2
<1>7. \A i \in 0..n : a <= g[i + 1]
  <2> HIDE DEF T
  <2>1. Nat \subseteq T
    BY <1>5, <1>6, NatAll
  <2>2. \A i \in T : i \in 0..n => a <= g[i + 1]
    BY DEF T
  <2>3. \A i \in 0..n : i \in T
    BY <1>1, <2>1
  <2> QED BY <2>2, <2>3
<1>8. ASSUME NEW i \in 1..n PROVE a <= g[i]
  <2>1. i - 1 \in 0..n /\ (i - 1) + 1 = i
    BY <1>1
  <2> QED BY <1>7, <2>1
<1>9. a <= b
  <2>1. n \in 0..n
    BY <1>1
  <2> QED BY <1>3, <1>7, <2>1
<1> QED BY <1>4, <1>8, <1>9 DEF n

(* So that nothing is selected for an iteration before it. *)
LEMMA NumberedNone ==
    ASSUME NEW q \in Seq(Raw), NEW a \in Nat, NEW b \in Nat, Numbered(q, a, b), NEW k \in Nat, k < a
    PROVE  Selected(q, DataOf(k)) = <<>>
<1> DEFINE U == {q[i] : i \in 1..Len(q)}
<1>1. q \in Seq(U)
  OBVIOUS
<1>2. \A i \in 1..Len(q) : q[i].kind # "eoi" => a <= q[i].label
  BY NumberedBounds
<1>3. U \cap DataOf(k) = {}
  <2> SUFFICES ASSUME NEW i \in 1..Len(q), q[i] \in DataOf(k) PROVE FALSE
    OBVIOUS
  <2>1. q[i].kind = "data" /\ q[i].label = k
    BY DEF DataOf
  <2>2. a <= k
    BY <1>2, <2>1
  <2> QED BY <2>2
<1> HIDE DEF U
<1> QED BY <1>1, <1>3, SelectedNone

----------------------------------------------------------------------------
(* What is selected for an iteration *)

OfIteration(k, s) == Selected(s, DataOf(k))

One(x) == <<x>>

(* It is made of raw data, and selected from each part of a queue. *)
LEMMA OfIterationFacts ==
    ASSUME NEW k
    PROVE  /\ OfIteration(k, <<>>) = <<>>
           /\ \A s \in Seq(Raw) : OfIteration(k, s) \in Seq(Raw)
           /\ \A s, t \in Seq(Raw) : OfIteration(k, Cat(s, t)) = Cat(OfIteration(k, s), OfIteration(k, t))
<1>1. ASSUME NEW s \in Seq(Raw) PROVE OfIteration(k, s) \in Seq(Raw)
  BY SelectedType DEF OfIteration
<1>2. ASSUME NEW s \in Seq(Raw), NEW t \in Seq(Raw)
      PROVE  OfIteration(k, Cat(s, t)) = Cat(OfIteration(k, s), OfIteration(k, t))
  BY SelectedConcat DEF OfIteration, Cat
<1> QED BY <1>1, <1>2, SelectedEmpty DEF OfIteration

(* A container alone, and put at the end or taken from the front. *)
LEMMA OneFacts ==
    ASSUME NEW x \in Raw
    PROVE  /\ One(x) \in Seq(Raw)
           /\ \A s \in Seq(Raw) : Append(s, x) = Cat(s, One(x))
           /\ \A s \in Seq(Raw) : s # <<>> /\ Head(s) = x => s = Cat(One(x), Tail(s))
           /\ \A k : OfIteration(k, One(x)) = IF x.kind = "data" /\ x.label = k THEN One(x) ELSE <<>>
<1>1. One(x) \in Seq(Raw)
  BY DEF One
<1>2. ASSUME NEW s \in Seq(Raw) PROVE Append(s, x) = Cat(s, One(x))
  BY AppendIsConcat DEF Cat, One
<1>3. ASSUME NEW s \in Seq(Raw), s # <<>>, Head(s) = x PROVE s = Cat(One(x), Tail(s))
  BY <1>3 DEF Cat, One
<1>4. ASSUME NEW k PROVE OfIteration(k, One(x)) = IF x.kind = "data" /\ x.label = k THEN One(x) ELSE <<>>
  <2>1. x \in DataOf(k) <=> x.kind = "data" /\ x.label = k
    BY DEF DataOf, Raw
  <2>2. Selected(One(x), DataOf(k)) = IF x \in DataOf(k) THEN One(x) ELSE <<>>
    BY SelectedOne DEF One
  <2> QED BY <2>1, <2>2 DEF OfIteration
<1> QED BY <1>1, <1>2, <1>3, <1>4

(* Containers stay in order however they are grouped. *)
LEMMA Regroup ==
    ASSUME NEW u1 \in Seq(Raw), NEW u2 \in Seq(Raw), NEW u3 \in Seq(Raw), NEW u4 \in Seq(Raw)
    PROVE  /\ Cat(Cat(Cat(u1, u2), u3), u4) = Cat(Cat(u1, u2), Cat(u3, u4))
           /\ Cat(Cat(u1, u2), Cat(u3, u4)) = Cat(Cat(u1, Cat(u2, u3)), u4)
<1>1. \A v1, v2 \in Seq(Raw) : Cat(v1, v2) \in Seq(Raw)
  BY CatFacts
<1>2. \A v1, v2, v3 \in Seq(Raw) : Cat(Cat(v1, v2), v3) = Cat(v1, Cat(v2, v3))
  BY CatFacts
<1>3. Cat(u1, u2) \in Seq(Raw)
  BY <1>1
<1>4. Cat(Cat(Cat(u1, u2), u3), u4) = Cat(Cat(u1, u2), Cat(u3, u4))
  BY <1>2, <1>3
<1>5. Cat(Cat(u1, u2), u3) = Cat(u1, Cat(u2, u3))
  BY <1>2
<1> QED BY <1>4, <1>5

(* What has been filled is raw data. *)
LEMMA FilledType ==
    ASSUME NEW h \in HistoState, NEW pub \in Seq(HistoState)
    PROVE  \A k : Filled(k, h, pub) \in Seq(Raw)
<1>1. h.events \in Seq(Raw)
  BY DEF HistoState
<1>2. \A k \in 1..Len(pub) : pub[k] \in HistoState
  OBVIOUS
<1>3. \A k \in 1..Len(pub) : pub[k].events \in Seq(Raw)
  BY <1>2 DEF HistoState
<1> QED BY <1>1, <1>3, EmptySeq DEF Filled

----------------------------------------------------------------------------
(* The steps of a front end's data *)

(* Where the data of iteration k are. *)
Kept(k, r, q, h, pub, p) ==
    OfIteration(k, p) = Cat(Cat(Filled(k, h, pub), OfIteration(k, q)), OfIteration(k, r))

(* The data loop pushes a container of its iteration, or the marker. *)
LEMMA ArriveFlow ==
    ASSUME NEW r \in Seq(Raw), NEW label \in Nat, NEW q \in Seq(Raw), NEW h \in HistoState,
           NEW pub \in Seq(HistoState), NEW p \in Seq(Raw), NEW n \in Nat, NEW b \in Nat \ {0},
           NEW x \in Raw, NEW m \in Nat, Flow(b, r, label, q, h, pub, p, n),
           IF x.kind = "eoi" THEN m = n + 1 /\ x.label = 0 ELSE m = n /\ x.label = n
    PROVE  Flow(b, Append(r, x), label, q, h, pub, Append(p, x), m)
<1> DEFINE r1 == Append(r, x)
           p1 == Append(p, x)
<1>1. Numbered(r, b, n)
  BY DEF Flow
<1>2. Numbered(r1, b, m)
  BY <1>1, NumberedAppend
<1>3. ASSUME NEW k \in Nat \ {0}, Kept(k, r, q, h, pub, p) PROVE Kept(k, r1, q, h, pub, p1)
  <2> DEFINE fk == Filled(k, h, pub)
             qk == OfIteration(k, q)
             rk == OfIteration(k, r)
             xk == OfIteration(k, One(x))
  <2>1. fk \in Seq(Raw) /\ qk \in Seq(Raw) /\ rk \in Seq(Raw) /\ xk \in Seq(Raw) /\ One(x) \in Seq(Raw)
    BY FilledType, OfIterationFacts, OneFacts
  <2>2. r1 = Cat(r, One(x)) /\ p1 = Cat(p, One(x))
    BY OneFacts
  <2> HIDE DEF r1, p1
  <2>3. OfIteration(k, r1) = Cat(rk, xk) /\ OfIteration(k, p1) = Cat(OfIteration(k, p), xk)
    BY <2>1, <2>2, OfIterationFacts
  <2>4. OfIteration(k, p) = Cat(Cat(fk, qk), rk)
    BY <1>3 DEF Kept
  <2> HIDE DEF fk, qk, rk, xk
  <2>5. Cat(Cat(Cat(fk, qk), rk), xk) = Cat(Cat(fk, qk), Cat(rk, xk))
    BY <2>1, Regroup
  <2> QED BY <2>3, <2>4, <2>5 DEF Kept, fk, qk
<1>4. \A k \in Nat \ {0} : Kept(k, r, q, h, pub, p)
  BY DEF Flow, Kept, OfIteration
<1>5. \A k \in Nat \ {0} : Kept(k, r1, q, h, pub, p1)
  BY <1>3, <1>4
<1> HIDE DEF r1, p1
<1>6. Flow(b, r1, label, q, h, pub, p1, m)
  BY <1>2, <1>5 DEF Flow, Kept, OfIteration
<1> QED BY <1>6 DEF r1, p1

(* An empty container is put behind one with data. *)
LEMMA EmitFollow ==
    ASSUME NEW q \in Seq(Raw), NEW x \in Raw, NEW fresh \in BOOLEAN, EmptyFollow(q, fresh),
           x.kind = "void" => EndsWithData(q, fresh)
    PROVE  /\ EmptyFollow(Append(q, x), fresh)
           /\ x.kind = "data" => EndsWithData(Append(q, x), fresh)
<1> DEFINE n == Len(q)
           t == Append(q, x)
<1>1. n \in Nat /\ Len(t) = n + 1 /\ (\A i \in 1..n : t[i] = q[i]) /\ t[n + 1] = x /\ t # <<>>
  BY AppendProperties
<1>2. q = <<>> <=> n = 0
  OBVIOUS
<1>3. \A i \in 1..n : q[i].kind = "void" => IF i = 1 THEN ~fresh ELSE q[i - 1].kind = "data"
  BY DEF EmptyFollow
<1>4. x.kind = "void" => IF n = 0 THEN ~fresh ELSE q[n].kind = "data"
  BY <1>2 DEF EndsWithData
<1> HIDE DEF n, t
<1>5. ASSUME NEW i \in 1..Len(t), t[i].kind = "void"
      PROVE  IF i = 1 THEN ~fresh ELSE t[i - 1].kind = "data"
  <2>1. CASE i \in 1..n
    <3>1. i # 1 => i - 1 \in 1..n
      BY <1>1, <2>1
    <3> QED BY <1>1, <1>3, <1>5, <2>1, <3>1
  <2>2. CASE i = n + 1
    <3>1. x.kind = "void" /\ (i = 1 <=> n = 0) /\ i - 1 = n /\ (n # 0 => n \in 1..n)
      BY <1>1, <1>5, <2>2
    <3> QED BY <1>1, <1>4, <3>1
  <2> QED BY <1>1, <2>1, <2>2
<1>6. EmptyFollow(t, fresh)
  BY <1>5 DEF EmptyFollow
<1>7. x.kind = "data" => EndsWithData(t, fresh)
  BY <1>1 DEF EndsWithData
<1> QED BY <1>6, <1>7 DEF t

(* The processor takes the first container and puts y for it, which holds   *)
(* the same data.                                                           *)
LEMMA ForwardFlow ==
    ASSUME NEW r \in Seq(Raw), NEW label \in Nat, NEW q \in Seq(Raw), NEW h \in HistoState,
           NEW pub \in Seq(HistoState), NEW p \in Seq(Raw), NEW n \in Nat, NEW b \in Nat \ {0},
           Flow(b, r, label, q, h, pub, p, n), r # <<>>,
           NEW y \in Seq(Raw), NEW c \in Nat \ {0}, NEW open \in Nat,
           Numbered(Cat(q, y), Len(pub) + 1, c), Numbered(Tail(r), c, n),
           EmptyFollow(Cat(q, y), h.isNew),
           open # 0 => open = c /\ EndsWithData(Cat(q, y), h.isNew),
           \A k \in Nat \ {0} : OfIteration(k, y) = OfIteration(k, One(Head(r)))
    PROVE  Flow(c, Tail(r), open, Cat(q, y), h, pub, p, n)
<1> DEFINE x == Head(r)
           r1 == Tail(r)
           q1 == Cat(q, y)
<1>1. x \in Raw /\ r1 \in Seq(Raw)
  OBVIOUS
<1>2. ASSUME NEW k \in Nat \ {0}, Kept(k, r, q, h, pub, p) PROVE Kept(k, r1, q1, h, pub, p)
  <2> DEFINE fk == Filled(k, h, pub)
             qk == OfIteration(k, q)
             rk == OfIteration(k, r1)
             xk == OfIteration(k, One(x))
  <2>1. One(x) \in Seq(Raw) /\ r = Cat(One(x), r1)
    BY <1>1, OneFacts
  <2> HIDE DEF x, r1
  <2>2. fk \in Seq(Raw) /\ qk \in Seq(Raw) /\ rk \in Seq(Raw) /\ xk \in Seq(Raw)
    BY <1>1, <2>1, FilledType, OfIterationFacts
  <2>3. OfIteration(k, Cat(One(x), r1)) = Cat(xk, rk)
    BY <1>1, <2>1, OfIterationFacts
  <2>4. OfIteration(k, q1) = Cat(qk, OfIteration(k, y))
    BY OfIterationFacts
  <2>5. OfIteration(k, y) = xk
    BY DEF x
  <2>6. OfIteration(k, p) = Cat(Cat(fk, qk), OfIteration(k, r))
    BY <1>2 DEF Kept
  <2> HIDE DEF fk, qk, rk, xk, q1
  <2>7. Cat(Cat(fk, qk), Cat(xk, rk)) = Cat(Cat(fk, Cat(qk, xk)), rk)
    BY <2>2, Regroup
  <2> QED BY <2>1, <2>3, <2>4, <2>5, <2>6, <2>7 DEF Kept, fk, rk
<1>3. \A k \in Nat \ {0} : Kept(k, r, q, h, pub, p)
  BY DEF Flow, Kept, OfIteration
<1>4. \A k \in Nat \ {0} : Kept(k, r1, q1, h, pub, p)
  BY <1>2, <1>3
<1> HIDE DEF r1, q1
<1>5. Flow(c, r1, open, q1, h, pub, p, n)
  BY <1>4 DEF Flow, Kept, OfIteration, r1, q1
<1> QED BY <1>5 DEF r1, q1

(* Decode and ProcAfter of a processor with the container of label open. *)
DecodeAt(label, x) ==
    CASE x.kind = "data" -> One(x)
      [] x.kind = "void" -> <<>>
      [] x.kind = "eoi"  -> IF label = 0 THEN One(x) ELSE Cat(One(Container("void", label, 0)), One(x))

(* The iteration the processor works on after x. *)
After(b, x) == IF x.kind = "eoi" THEN b + 1 ELSE b

(* A container without data brings none. *)
LEMMA NoData ==
    ASSUME NEW x \in Raw, x.kind # "data"
    PROVE  \A k : OfIteration(k, One(x)) = <<>>
BY OneFacts

(* The processor decodes a container. *)
LEMMA DecodeFlow ==
    ASSUME NEW r \in Seq(Raw), NEW label \in Nat, NEW q \in Seq(Raw), NEW h \in HistoState,
           NEW pub \in Seq(HistoState), NEW p \in Seq(Raw), NEW n \in Nat, NEW b \in Nat \ {0},
           Flow(b, r, label, q, h, pub, p, n), r # <<>>, NEW open \in Nat,
           open # 0 => Head(r).kind = "data" /\ open = Head(r).label
    PROVE  /\ DecodeAt(label, Head(r)) \in Seq(Raw)
           /\ Flow(After(b, Head(r)), Tail(r), open, Cat(q, DecodeAt(label, Head(r))), h, pub, p, n)
<1> DEFINE x == Head(r)
           r1 == Tail(r)
           c == After(b, x)
           len == Len(pub) + 1
           fresh == h.isNew
<1>1. x \in Raw /\ x.kind \in {"data", "void", "eoi"} /\ r1 \in Seq(Raw) /\ len \in Nat /\ fresh \in BOOLEAN
  <2>1. x \in Raw /\ r1 \in Seq(Raw) /\ len \in Nat
    OBVIOUS
  <2>2. x.kind \in {"data", "void", "eoi"}
    BY <2>1 DEF Raw
  <2>3. fresh \in BOOLEAN
    BY DEF HistoState
  <2> QED BY <2>1, <2>2, <2>3
<1>2. /\ Numbered(q, len, b) /\ Numbered(r, b, n) /\ EmptyFollow(q, fresh)
      /\ label # 0 => label = b /\ EndsWithData(q, fresh)
  BY DEF Flow
<1>3. /\ x.kind = "eoi" => x.label = 0 /\ Numbered(r1, b + 1, n)
      /\ x.kind # "eoi" => x.label = b /\ Numbered(r1, b, n)
  BY <1>2, NumberedTail
<1>4. One(x) \in Seq(Raw) /\ <<>> \in Seq(Raw) /\ Append(q, x) = Cat(q, One(x)) /\ Cat(q, <<>>) = q
  BY <1>1, OneFacts, CatFacts, EmptySeq
<1> HIDE DEF x, r1, len, fresh
<1>5. CASE x.kind = "data"
  <2>1. DecodeAt(label, x) = One(x) /\ c = b
    BY <1>5 DEF DecodeAt, After
  <2>2. Numbered(Append(q, x), len, b)
    BY <1>1, <1>2, <1>3, <1>5, NumberedAppend
  <2>3. EmptyFollow(Append(q, x), fresh) /\ EndsWithData(Append(q, x), fresh)
    BY <1>1, <1>2, <1>5, EmitFollow
  <2>4. open # 0 => open = b
    BY <1>3, <1>5 DEF x
  <2>5. Flow(b, r1, open, Cat(q, One(x)), h, pub, p, n)
    BY <1>3, <1>4, <1>5, <2>2, <2>3, <2>4, ForwardFlow DEF x, r1, len, fresh
  <2> QED BY <1>4, <2>1, <2>5 DEF x, r1
<1>6. CASE x.kind = "void"
  <2>1. DecodeAt(label, x) = <<>> /\ c = b
    BY <1>6 DEF DecodeAt, After
  <2>2. open = 0
    BY <1>6 DEF x
  <2>3. \A k \in Nat \ {0} : OfIteration(k, <<>>) = OfIteration(k, One(x))
    BY <1>1, <1>6, NoData, OfIterationFacts
  <2>4. Flow(b, r1, open, Cat(q, <<>>), h, pub, p, n)
    BY <1>2, <1>3, <1>4, <1>6, <2>2, <2>3, ForwardFlow DEF x, r1, len, fresh
  <2> QED BY <1>4, <2>1, <2>4 DEF x, r1
<1>7. CASE x.kind = "eoi"
  <2>1. c = b + 1 /\ open = 0 /\ b + 1 \in Nat \ {0}
    BY <1>7 DEF After, x
  <2>2. CASE label = 0
    <3>1. DecodeAt(label, x) = One(x)
      BY <1>7, <2>2 DEF DecodeAt
    <3>2. Numbered(Append(q, x), len, b + 1)
      BY <1>1, <1>2, <1>3, <1>7, NumberedAppend
    <3>3. EmptyFollow(Append(q, x), fresh)
      BY <1>1, <1>2, <1>7, EmitFollow
    <3>4. Flow(b + 1, r1, open, Cat(q, One(x)), h, pub, p, n)
      BY <1>3, <1>4, <1>7, <2>1, <3>2, <3>3, ForwardFlow DEF x, r1, len, fresh
    <3> QED BY <1>4, <2>1, <3>1, <3>4 DEF x, r1
  <2>3. CASE label # 0
    <3> DEFINE v == Container("void", label, 0)
               y == Cat(One(v), One(x))
               q1 == Append(q, v)
    <3>1. v \in Raw /\ v.kind = "void" /\ v.label = b
      BY <1>2, <2>3 DEF Container, Raw
    <3>2. DecodeAt(label, x) = y
      BY <1>7, <2>3 DEF DecodeAt
    <3> HIDE DEF v
    <3>3. One(v) \in Seq(Raw) /\ q1 \in Seq(Raw) /\ q1 = Cat(q, One(v))
      BY <3>1, OneFacts, AppendProperties
    <3>4. Numbered(q1, len, b)
      BY <1>1, <1>2, <3>1, NumberedAppend
    <3>5. EmptyFollow(q1, fresh)
      BY <1>1, <1>2, <2>3, <3>1, EmitFollow
    <3> HIDE DEF q1
    <3>6. Numbered(Append(q1, x), len, b + 1)
      BY <1>1, <1>3, <1>7, <3>3, <3>4, NumberedAppend
    <3>7. EmptyFollow(Append(q1, x), fresh)
      BY <1>1, <1>7, <3>3, <3>5, EmitFollow
    <3>8. Append(q1, x) = Cat(q1, One(x))
      BY <1>1, <3>3, OneFacts
    <3>9. Cat(q, y) = Cat(Cat(q, One(v)), One(x)) /\ y \in Seq(Raw)
      BY <1>4, <3>3, CatFacts
    <3>10. \A k \in Nat \ {0} : OfIteration(k, y) = OfIteration(k, One(x))
      <4>1. ASSUME NEW k \in Nat \ {0} PROVE OfIteration(k, y) = OfIteration(k, One(x))
        <5>1. OfIteration(k, One(x)) = <<>> /\ OfIteration(k, One(v)) = <<>>
          BY <1>1, <1>7, <3>1, NoData
        <5>2. OfIteration(k, y) = Cat(OfIteration(k, One(v)), OfIteration(k, One(x)))
          BY <1>4, <3>3, OfIterationFacts
        <5>3. Cat(<<>>, <<>>) = <<>>
          BY DEF Cat
        <5> QED BY <5>1, <5>2, <5>3
      <4> QED BY <4>1
    <3> HIDE DEF y
    <3>11. Numbered(Cat(q, y), len, b + 1) /\ EmptyFollow(Cat(q, y), fresh)
      BY <3>3, <3>6, <3>7, <3>8, <3>9
    <3>12. Flow(b + 1, r1, open, Cat(q, y), h, pub, p, n)
      BY <1>3, <1>7, <2>1, <3>9, <3>10, <3>11, ForwardFlow DEF x, r1, len, fresh
    <3> QED BY <2>1, <3>2, <3>9, <3>12 DEF x, r1
  <2> QED BY <2>2, <2>3
<1> QED BY <1>1, <1>5, <1>6, <1>7

(* What is left when the histogrammer has taken the first container: after  *)
(* a marker an iteration is fresh.                                          *)
LEMMA TakeFollow ==
    ASSUME NEW q \in Seq(Raw), NEW fresh \in BOOLEAN, EmptyFollow(q, fresh), q # <<>>,
           NEW next \in BOOLEAN, next => Head(q).kind = "eoi"
    PROVE  /\ EmptyFollow(Tail(q), next)
           /\ EndsWithData(q, fresh) => EndsWithData(Tail(q), next)
           /\ Head(q).kind = "void" => ~fresh
<1> DEFINE n == Len(q)
           t == Tail(q)
<1>1. /\ n \in Nat \ {0} /\ t \in Seq(Raw) /\ Len(t) = n - 1 /\ Head(q) = q[1]
      /\ \A i \in 1..(n - 1) : t[i] = q[i + 1]
  OBVIOUS
<1>2. t = <<>> <=> n = 1
  <2> HIDE DEF n, t
  <2>1. t = <<>> <=> Len(t) = 0
    BY <1>1
  <2> QED BY <1>1, <2>1
<1>3. \A i \in 1..n : q[i].kind = "void" => IF i = 1 THEN ~fresh ELSE q[i - 1].kind = "data"
  BY DEF EmptyFollow
<1>4. EndsWithData(q, fresh) => q[n].kind = "data"
  BY DEF EndsWithData
<1> HIDE DEF n, t
<1>5. ASSUME NEW i \in 1..Len(t), t[i].kind = "void"
      PROVE  IF i = 1 THEN ~next ELSE t[i - 1].kind = "data"
  <2>1. i \in 1..(n - 1) /\ i + 1 \in 1..n /\ i + 1 # 1 /\ (i + 1) - 1 = i
    BY <1>1
  <2>2. q[i].kind = "data"
    BY <1>1, <1>3, <1>5, <2>1
  <2>3. CASE i = 1
    BY <1>1, <2>2, <2>3
  <2>4. CASE i # 1
    <3>1. i - 1 \in 1..(n - 1) /\ (i - 1) + 1 = i
      BY <1>1, <2>1, <2>4
    <3>2. t[i - 1] = q[i]
      BY <1>1, <3>1
    <3> QED BY <2>2, <2>4, <3>2
  <2> QED BY <2>3, <2>4
<1>6. EmptyFollow(t, next)
  BY <1>5 DEF EmptyFollow
<1>7. EndsWithData(q, fresh) => EndsWithData(t, next)
  <2>1. CASE n = 1
    BY <1>1, <1>2, <1>4, <2>1 DEF EndsWithData
  <2>2. CASE n # 1
    <3>1. n - 1 \in 1..(n - 1) /\ (n - 1) + 1 = n
      BY <1>1, <2>2
    <3>2. t[Len(t)] = q[n]
      BY <1>1, <3>1
    <3> QED BY <1>2, <1>4, <2>2, <3>2 DEF EndsWithData
  <2> QED BY <2>1, <2>2
<1>8. Head(q).kind = "void" => ~fresh
  <2>1. 1 \in 1..n
    BY <1>1
  <2> QED BY <1>1, <1>3, <2>1
<1> QED BY <1>6, <1>7, <1>8 DEF t

(* The histogrammer takes a container x and goes on with g and pub1, which  *)
(* hold its data as well.                                                   *)
Takes(q, h, pub, b, g, pub1) ==
    /\ Numbered(Tail(q), Len(pub1) + 1, b)
    /\ g.isNew => Head(q).kind = "eoi"
    /\ ~g.isNew => g.label = Len(pub1) + 1 /\ g.events # <<>>
    /\ \A k \in 1..Len(pub1) : pub1[k].label = IF pub1[k].events = <<>> THEN 0 ELSE k
    /\ \A k \in Nat \ {0} :
          Filled(k, g, pub1) = Cat(Filled(k, h, pub), OfIteration(k, One(Head(q))))

(* Then the flow goes on. *)
LEMMA TakeFlow ==
    ASSUME NEW r \in Seq(Raw), NEW label \in Nat, NEW q \in Seq(Raw), NEW h \in HistoState,
           NEW pub \in Seq(HistoState), NEW p \in Seq(Raw), NEW n \in Nat, NEW b \in Nat \ {0},
           Flow(b, r, label, q, h, pub, p, n), q # <<>>,
           NEW g \in HistoState, NEW pub1 \in Seq(HistoState),
           Takes(q, h, pub, b, g, pub1)
    PROVE  Flow(b, r, label, Tail(q), g, pub1, p, n)
<1> DEFINE x == Head(q)
           q1 == Tail(q)
<1>1. x \in Raw /\ q1 \in Seq(Raw)
  OBVIOUS
<1>2. ASSUME NEW k \in Nat \ {0}, Kept(k, r, q, h, pub, p) PROVE Kept(k, r, q1, g, pub1, p)
  <2> DEFINE fk == Filled(k, h, pub)
             gk == Filled(k, g, pub1)
             qk == OfIteration(k, q1)
             rk == OfIteration(k, r)
             xk == OfIteration(k, One(x))
  <2>1. One(x) \in Seq(Raw) /\ q = Cat(One(x), q1)
    BY <1>1, OneFacts
  <2>2. gk = Cat(fk, xk)
    BY DEF Takes
  <2> HIDE DEF x, q1
  <2>3. fk \in Seq(Raw) /\ qk \in Seq(Raw) /\ rk \in Seq(Raw) /\ xk \in Seq(Raw)
    BY <1>1, <2>1, FilledType, OfIterationFacts
  <2>4. OfIteration(k, Cat(One(x), q1)) = Cat(xk, qk)
    BY <1>1, <2>1, OfIterationFacts
  <2>5. OfIteration(k, p) = Cat(Cat(fk, OfIteration(k, q)), rk)
    BY <1>2 DEF Kept
  <2> HIDE DEF fk, qk, rk, xk, gk
  <2>6. Cat(fk, Cat(xk, qk)) = Cat(Cat(fk, xk), qk)
    BY <2>3, CatFacts
  <2> QED BY <2>1, <2>2, <2>4, <2>5, <2>6 DEF Kept, gk, qk, rk
<1>3. \A k \in Nat \ {0} : Kept(k, r, q, h, pub, p)
  BY DEF Flow, Kept, OfIteration
<1>4. \A k \in Nat \ {0} : Kept(k, r, q1, g, pub1, p)
  BY <1>2, <1>3
<1>5. h.isNew \in BOOLEAN /\ g.isNew \in BOOLEAN
  BY DEF HistoState
<1>6. EmptyFollow(q, h.isNew) /\ (label # 0 => label = b /\ EndsWithData(q, h.isNew)) /\ Numbered(r, b, n)
  BY DEF Flow
<1>7. EmptyFollow(q1, g.isNew) /\ (label # 0 => EndsWithData(q1, g.isNew))
  <2>1. g.isNew => Head(q).kind = "eoi"
    BY DEF Takes
  <2> QED BY <1>5, <1>6, <2>1, TakeFollow
<1> HIDE DEF q1
<1>8. Flow(b, r, label, q1, g, pub1, p, n)
  BY <1>4, <1>6, <1>7 DEF Flow, Kept, OfIteration, q1, Takes
<1> QED BY <1>8 DEF q1

(* The histogram of an iteration, with x filled in. *)
LEMMA FillFacts ==
    ASSUME NEW h \in HistoState, NEW x \in Raw
    PROVE  /\ Fill(h, x) \in HistoState
           /\ ~Fill(h, x).isNew
           /\ Fill(h, x).label = IF h.isNew THEN x.label ELSE h.label
           /\ Fill(h, x).events = Cat(IF h.isNew THEN <<>> ELSE h.events,
                                      IF x.kind = "data" THEN One(x) ELSE <<>>)
<1>1. Fill(h, x) \in HistoState
  BY FillType
<1> QED BY <1>1 DEF Fill, Cat, One

(* The histogrammer fills a container in. *)
LEMMA FillFlow ==
    ASSUME NEW r \in Seq(Raw), NEW label \in Nat, NEW q \in Seq(Raw), NEW h \in HistoState,
           NEW pub \in Seq(HistoState), NEW p \in Seq(Raw), NEW n \in Nat, NEW b \in Nat \ {0},
           Flow(b, r, label, q, h, pub, p, n), q # <<>>, Head(q).kind # "eoi"
    PROVE  Flow(b, r, label, Tail(q), Fill(h, Head(q)), pub, p, n)
<1> DEFINE x == Head(q)
           g == Fill(h, x)
           old == IF h.isNew THEN <<>> ELSE h.events
           new == IF x.kind = "data" THEN One(x) ELSE <<>>
           len == Len(pub)
<1>1. x \in Raw /\ len \in Nat
  OBVIOUS
<1>2. /\ Numbered(q, len + 1, b) /\ EmptyFollow(q, h.isNew) /\ h.isNew \in BOOLEAN
      /\ ~h.isNew => h.label = len + 1 /\ h.events # <<>>
      /\ \A k \in 1..len : pub[k].label = IF pub[k].events = <<>> THEN 0 ELSE k
  BY DEF Flow, HistoState
<1>3. x.label = len + 1 /\ Numbered(Tail(q), len + 1, b)
  BY <1>1, <1>2, NumberedTail
<1>4. x.kind = "void" => ~h.isNew
  BY <1>2, TakeFollow
<1>5. x.kind \in {"data", "void"}
  BY <1>1 DEF Raw
<1> HIDE DEF x
<1>6. /\ g \in HistoState /\ ~g.isNew /\ g.label = (IF h.isNew THEN x.label ELSE h.label)
      /\ g.events = Cat(old, new)
  BY <1>1, FillFacts
<1>7. old \in Seq(Raw) /\ new \in Seq(Raw) /\ One(x) \in Seq(Raw)
  <2>1. h.events \in Seq(Raw)
    BY DEF HistoState
  <2> QED BY <1>1, <2>1, OneFacts, EmptySeq
<1>8. g.label = len + 1
  BY <1>2, <1>3, <1>6
<1>9. g.events # <<>>
  <2>1. old # <<>> \/ new # <<>>
    <3>1. One(x) # <<>>
      BY DEF One
    <3> QED BY <1>2, <1>4, <1>5, <3>1
  <2> HIDE DEF old, new
  <2>2. Cat(old, new) # <<>>
    <3>1. Len(old) \in Nat /\ Len(new) \in Nat /\ (Len(old) # 0 \/ Len(new) # 0)
      BY <1>7, <2>1, EmptySeq
    <3>2. Len(old \o new) = Len(old) + Len(new)
      BY <1>7, ConcatProperties
    <3> QED BY <3>1, <3>2 DEF Cat
  <2> QED BY <1>6, <2>2
<1>10. ASSUME NEW k \in Nat \ {0}
       PROVE  Filled(k, g, pub) = Cat(Filled(k, h, pub), OfIteration(k, One(x)))
  <2>1. OfIteration(k, One(x)) = IF k = len + 1 THEN new ELSE <<>>
    BY <1>1, <1>3, <1>5, OneFacts
  <2>2. Filled(k, h, pub) \in Seq(Raw)
    BY FilledType
  <2> HIDE DEF g
  <2>3. CASE k = len + 1
    <3>1. ~(k \in 1..len)
      BY <1>1, <2>3
    <3>2. Filled(k, h, pub) = old /\ Filled(k, g, pub) = g.events
      BY <1>2, <1>6, <2>3, <3>1 DEF Filled
    <3> QED BY <1>6, <2>1, <2>3, <3>2
  <2>4. CASE k # len + 1
    <3>1. Filled(k, g, pub) = Filled(k, h, pub)
      BY <2>4 DEF Filled
    <3>2. Cat(Filled(k, h, pub), <<>>) = Filled(k, h, pub)
      BY <2>2, CatFacts
    <3> QED BY <2>1, <2>4, <3>1, <3>2
  <2> QED BY <2>3, <2>4
<1> HIDE DEF g
<1>11. Flow(b, r, label, Tail(q), g, pub, p, n)
  <2>1. Takes(q, h, pub, b, g, pub)
    BY <1>2, <1>3, <1>6, <1>8, <1>9, <1>10 DEF Takes, x
  <2> QED BY <1>6, <2>1, TakeFlow
<1> QED BY <1>11 DEF g, x

(* The histogrammer publishes an iteration. *)
LEMMA PublishFlow ==
    ASSUME NEW r \in Seq(Raw), NEW label \in Nat, NEW q \in Seq(Raw), NEW h \in HistoState,
           NEW pub \in Seq(HistoState), NEW p \in Seq(Raw), NEW n \in Nat, NEW b \in Nat \ {0},
           Flow(b, r, label, q, h, pub, p, n), q # <<>>, Head(q).kind = "eoi"
    PROVE  Flow(b, r, label, Tail(q), NewIteration, Append(pub, Fill(h, Head(q))), p, n)
<1> DEFINE x == Head(q)
           g == Fill(h, x)
           old == IF h.isNew THEN <<>> ELSE h.events
           len == Len(pub)
           pub1 == Append(pub, g)
           new == NewIteration
<1>1. x \in Raw /\ len \in Nat
  OBVIOUS
<1>2. /\ Numbered(q, len + 1, b) /\ h.isNew \in BOOLEAN
      /\ ~h.isNew => h.label = len + 1 /\ h.events # <<>>
      /\ \A k \in 1..len : pub[k].label = IF pub[k].events = <<>> THEN 0 ELSE k
  BY DEF Flow, HistoState
<1>3. x.label = 0 /\ Numbered(Tail(q), (len + 1) + 1, b)
  BY <1>1, <1>2, NumberedTail
<1>4. x.kind = "eoi"
  OBVIOUS
<1> HIDE DEF x
<1>5. old \in Seq(Raw) /\ Cat(old, <<>>) = old
  <2>1. h.events \in Seq(Raw)
    BY DEF HistoState
  <2>2. old \in Seq(Raw)
    BY <2>1, EmptySeq
  <2> QED BY <2>2, CatFacts
<1>6. g \in HistoState /\ g.label = (IF h.isNew THEN x.label ELSE h.label) /\ g.events = old
  BY <1>1, <1>4, <1>5, FillFacts
<1>7. g.label = IF g.events = <<>> THEN 0 ELSE len + 1
  BY <1>2, <1>3, <1>6
<1>8. new \in HistoState /\ new.isNew
  BY EmptySeq DEF NewIteration, HistoState
<1> HIDE DEF g, new
<1>9. /\ pub1 \in Seq(HistoState) /\ Len(pub1) = len + 1 /\ pub1[len + 1] = g
      /\ \A k \in 1..len : pub1[k] = pub[k]
  BY <1>6, AppendProperties
<1> HIDE DEF pub1
<1>10. ASSUME NEW k \in 1..Len(pub1)
       PROVE  pub1[k].label = IF pub1[k].events = <<>> THEN 0 ELSE k
  <2>1. CASE k \in 1..len
    BY <1>2, <1>9, <2>1
  <2>2. CASE k = len + 1
    BY <1>7, <1>9, <2>2
  <2> QED BY <1>1, <1>9, <2>1, <2>2
<1>11. ASSUME NEW k \in Nat \ {0}
       PROVE  Filled(k, new, pub1) = Cat(Filled(k, h, pub), OfIteration(k, One(x)))
  <2>1. OfIteration(k, One(x)) = <<>>
    BY <1>1, <1>4, NoData
  <2>2. Filled(k, h, pub) \in Seq(Raw)
    BY FilledType
  <2>3. Cat(Filled(k, h, pub), <<>>) = Filled(k, h, pub)
    BY <2>2, CatFacts
  <2>4. Filled(k, new, pub1) = Filled(k, h, pub)
    <3>1. CASE k \in 1..len
      <4>1. k \in 1..(len + 1)
        BY <1>1, <3>1
      <4> QED BY <1>9, <3>1, <4>1 DEF Filled
    <3>2. CASE k = len + 1
      <4>1. k \in 1..(len + 1) /\ ~(k \in 1..len)
        BY <1>1, <3>2
      <4>2. Filled(k, new, pub1) = g.events
        BY <1>9, <3>2, <4>1 DEF Filled
      <4>3. Filled(k, h, pub) = old
        BY <3>2, <4>1, <1>2 DEF Filled
      <4> QED BY <1>6, <4>2, <4>3
    <3>3. CASE k \in Nat /\ k > len + 1
      <4>1. ~(k \in 1..(len + 1)) /\ ~(k \in 1..len) /\ k # len + 1
        BY <1>1, <3>3
      <4>2. Filled(k, new, pub1) = <<>>
        BY <1>8, <1>9, <4>1 DEF Filled
      <4>3. Filled(k, h, pub) = <<>>
        BY <4>1 DEF Filled
      <4> QED BY <4>2, <4>3
    <3> QED BY <1>1, <3>1, <3>2, <3>3
  <2> QED BY <2>1, <2>3, <2>4
<1>12. Numbered(Tail(q), Len(pub1) + 1, b)
  BY <1>3, <1>9
<1>13. Flow(b, r, label, Tail(q), new, pub1, p, n)
  <2>1. Takes(q, h, pub, b, new, pub1)
    BY <1>4, <1>8, <1>9, <1>10, <1>11, <1>12 DEF Takes, x
  <2> QED BY <1>8, <1>9, <2>1, TakeFlow
<1> QED BY <1>13 DEF pub1, g, x, new

----------------------------------------------------------------------------
(* Every step keeps the flow of every front end *)

(* The variables of a front end's data. *)
LEMMA FrontEndTypes ==
    ASSUME Types, NEW f \in FE
    PROVE  /\ clip[<<f, 1>>] \in Seq(Raw) /\ clip[<<f, 2>>] \in Seq(Raw) /\ out[<<f, 1>>] \in Seq(Raw)
           /\ Queued(f) \in Seq(Raw) /\ proc[f].label \in Nat /\ proc[f].atMarker \in BOOLEAN
           /\ histo[f] \in HistoState /\ published[f] \in Seq(HistoState) /\ pushed[f] \in Seq(Raw)
           /\ iter \in Nat /\ iter >= 1
<1>1. <<f, 1>> \in FE \X Clips /\ <<f, 2>> \in FE \X Clips /\ <<f, 1>> \in FE \X Stages
  BY PipelineAssumption DEF Clips, Stages
<1>2. clip[<<f, 1>>] \in Seq(ItemOf(1)) /\ clip[<<f, 2>>] \in Seq(ItemOf(2))
      /\ out[<<f, 1>>] \in Seq(ItemOf(1 + 1))
  BY <1>1 DEF Types, TypeOK
<1>3. clip[<<f, 1>>] \in Seq(Raw) /\ clip[<<f, 2>>] \in Seq(Raw) /\ out[<<f, 1>>] \in Seq(Raw)
  BY <1>2 DEF ItemOf
<1>4. Queued(f) \in Seq(Raw)
  BY <1>3, CatFacts DEF Queued
<1>5. proc[f].label \in Nat /\ proc[f].atMarker \in BOOLEAN
  BY DEF Types, TypeOK
<1>6. histo[f] \in HistoState /\ published[f] \in Seq(HistoState) /\ pushed[f] \in Seq(Raw)
  BY DEF Types, TypeOK, HistoState
<1>7. iter \in Nat /\ iter >= 1
  BY PipelineAssumption DEF Types, TypeOK
<1> QED BY <1>3, <1>4, <1>5, <1>6, <1>7

(* A step that leaves a front end's data alone. *)
Same(f) ==
    /\ UNCHANGED <<clip[<<f, 1>>], clip[<<f, 2>>], out[<<f, 1>>], pc[<<f, 1>>], proc[f], histo[f],
                   published[f], pushed[f], iter>>

(* It keeps the flow of that front end. *)
LEMMA SameFlow ==
    ASSUME NEW f \in FE, NEW b, FlowOf(f, b), Same(f)
    PROVE  FlowOf(f, b)'
BY DEF FlowOf, Same, Queued

(* The scan is not over while the processor is in its loop, or has not yet  *)
(* seen that it is.                                                         *)
LEMMA ScanLoop ==
    ASSUME Types, OrderInv, NEW f \in FE, mainPc = "scan"
    PROVE  pc[<<f, 1>>] \notin {"core2", "core3", "returned"}
<1>1. <<f, 1>> \in FE \X Stages
  BY StageNumbers
<1>2. ~done[<<f, 1>>]
  BY DEF OrderInv, FinishedInv
<1> QED BY <1>1, <1>2 DEF OrderInv, DoneInv

(* The data loop. *)
LEMMA PushDataFlow ==
    ASSUME Types, NEW f \in FE, NEW b \in Nat \ {0}, FlowOf(f, b),
           NEW g \in FE, NEW kind \in {"data", "void"}, PushRawData(g, kind)
    PROVE  FlowOf(f, b)'
<1> DEFINE x == Container(kind, iter, Len(pushed[g]) + 1)
<1>1. /\ clip' = [clip EXCEPT ![<<g, 1>>] = Append(@, x)]
      /\ pushed' = [pushed EXCEPT ![g] = Append(@, x)]
      /\ UNCHANGED <<pc, out, proc, histo, published, iter>>
  BY DEF PushRawData, Push
<1>2. DOMAIN clip = FE \X Clips /\ DOMAIN pushed = FE /\ <<g, 1>> \in FE \X Clips
  BY StageNumbers DEF Types, TypeOK, Shape
<1>3. x \in Raw /\ x.kind # "eoi" /\ x.label = iter
  <2>1. Len(pushed[g]) \in Nat /\ iter \in Nat
    BY FrontEndTypes, LenProperties
  <2> QED BY <2>1 DEF Container, Raw
<1> HIDE DEF x
<1>4. CASE f # g
  <2>1. Same(f)
    BY <1>1, <1>2, <1>4 DEF Same
  <2> QED BY <2>1, SameFlow
<1>5. CASE f = g
  <2>1. /\ clip'[<<f, 1>>] = Append(clip[<<f, 1>>], x) /\ clip'[<<f, 2>>] = clip[<<f, 2>>]
        /\ pushed'[f] = Append(pushed[f], x)
    BY <1>1, <1>2, <1>5
  <2>2. Queued(f)' = Queued(f)
    BY <1>1, <2>1 DEF Queued
  <2>3. Flow(b, clip[<<f, 1>>], proc[f].label, Queued(f), histo[f], published[f], pushed[f], iter)
    BY DEF FlowOf
  <2> DEFINE r == clip[<<f, 1>>]
             q == Queued(f)
             l == proc[f].label
             h == histo[f]
             pub == published[f]
             p == pushed[f]
  <2>4. /\ r \in Seq(Raw) /\ q \in Seq(Raw) /\ l \in Nat /\ h \in HistoState
        /\ pub \in Seq(HistoState) /\ p \in Seq(Raw) /\ iter \in Nat
    BY FrontEndTypes
  <2>5. Flow(b, r, l, q, h, pub, p, iter)
    BY <2>3
  <2> HIDE DEF r, l, q, h, pub, p
  <2>6. Flow(b, Append(r, x), l, q, h, pub, Append(p, x), iter)
    BY <1>3, <2>4, <2>5, ArriveFlow
  <2> QED BY <1>1, <2>1, <2>2, <2>6 DEF FlowOf, r, l, q, h, pub, p
<1> QED BY <1>4, <1>5

(* The marker goes to every front end while its processor is in its loop. *)
LEMMA MarkFlow ==
    ASSUME Types, OrderInv, NEW f \in FE, NEW b \in Nat \ {0}, FlowOf(f, b), PushEndOfIteration
    PROVE  FlowOf(f, b)'
<1> DEFINE x == EndOfIteration
           r == clip[<<f, 1>>]
           q == Queued(f)
           l == proc[f].label
           h == histo[f]
           pub == published[f]
           p == pushed[f]
<1>1. /\ clip'[<<f, 1>>] = Append(r, x) /\ clip'[<<f, 2>>] = clip[<<f, 2>>]
      /\ pushed'[f] = Append(p, x) /\ iter' = iter + 1 /\ mainPc = "scan"
      /\ UNCHANGED <<pc, out, proc, histo, published>>
  <2>1. <<f, 1>> \in FE \X Clips /\ <<f, 2>> \in FE \X Clips
    BY PipelineAssumption DEF Clips
  <2> QED BY <2>1 DEF PushEndOfIteration
<1>2. x \in Raw /\ x.kind = "eoi" /\ x.label = 0
  BY DEF EndOfIteration, Container, Raw
<1>3. Queued(f)' = q
  BY <1>1 DEF Queued
<1>4. /\ r \in Seq(Raw) /\ q \in Seq(Raw) /\ l \in Nat /\ h \in HistoState
      /\ pub \in Seq(HistoState) /\ p \in Seq(Raw) /\ iter \in Nat
  BY FrontEndTypes
<1>9. iter + 1 \in Nat
  BY <1>4
<1>5. Flow(b, r, l, q, h, pub, p, iter) /\ Backlog(b, pc[<<f, 1>>], proc[f].atMarker, iter)
  BY DEF FlowOf
<1>6. pc[<<f, 1>>] \notin {"core2", "core3", "returned"}
  BY <1>1, ScanLoop
<1>7. Backlog(b, pc[<<f, 1>>], proc[f].atMarker, iter + 1)
  BY <1>5, <1>6 DEF Backlog
<1> HIDE DEF x, r, l, q, h, pub, p
<1>8. Flow(b, Append(r, x), l, q, h, pub, Append(p, x), iter + 1)
  BY <1>2, <1>4, <1>5, <1>9, ArriveFlow
<1> QED BY <1>1, <1>3, <1>7, <1>8 DEF FlowOf, l, h, pub

(* The processor takes a container. *)
LEMMA PopRawFlow ==
    ASSUME Types, NEW f \in FE, NEW b \in Nat \ {0}, FlowOf(f, b), PopRawData(f)
    PROVE  \E c \in Nat \ {0} : FlowOf(f, c)'
<1> DEFINE r == clip[<<f, 1>>]
           q == Queued(f)
           l == proc[f].label
           h == histo[f]
           pub == published[f]
           p == pushed[f]
           x == Head(r)
           at == pc[<<f, 1>>]
           y == DecodeAt(l, x)
           open == ProcAfter(x).label
<1>1. /\ r \in Seq(Raw) /\ q \in Seq(Raw) /\ l \in Nat /\ h \in HistoState
      /\ pub \in Seq(HistoState) /\ p \in Seq(Raw) /\ iter \in Nat
  BY FrontEndTypes
<1>2. Flow(b, r, l, q, h, pub, p, iter) /\ Backlog(b, at, proc[f].atMarker, iter)
  BY DEF FlowOf
<1>3. <<f, 1>> \in FE \X Clips /\ <<f, 2>> \in FE \X Clips /\ <<f, 1>> \in FE \X Stages
  BY PipelineAssumption DEF Clips, Stages
<1>4. /\ DOMAIN clip = FE \X Clips /\ DOMAIN out = FE \X Stages /\ DOMAIN proc = FE
  BY DEF Types, TypeOK, Shape
<1>5. /\ r # <<>> /\ out[<<f, 1>>] = <<>> /\ at \in {"core1", "core2", "core3"}
      /\ clip' = [clip EXCEPT ![<<f, 1>>] = Tail(@)]
      /\ out' = [out EXCEPT ![<<f, 1>>] = Decode(f, x)]
      /\ proc' = [proc EXCEPT ![f] = ProcAfter(x)]
      /\ UNCHANGED <<pc, histo, published, pushed, iter>>
  BY DEF PopRawData, Pop, InCore, mainVars
<1>6. x \in Raw
  BY <1>1, <1>5, HeadTailProperties
<1>7. /\ clip'[<<f, 1>>] = Tail(r) /\ clip'[<<f, 2>>] = clip[<<f, 2>>]
      /\ out'[<<f, 1>>] = Decode(f, x) /\ proc'[f] = ProcAfter(x)
  BY <1>3, <1>4, <1>5
<1>8. Decode(f, x) = y
  BY DEF Decode, DecodeAt, One, Cat
<1>9. open \in Nat /\ (open # 0 => x.kind = "data" /\ open = x.label)
      /\ (ProcAfter(x).atMarker => x.kind = "eoi") /\ ProcAfter(x).atMarker \in BOOLEAN
  BY <1>6 DEF ProcAfter, Raw
<1>10. q = clip[<<f, 2>>]
  <2>1. clip[<<f, 2>>] \in Seq(Raw)
    BY FrontEndTypes
  <2>2. Cat(clip[<<f, 2>>], <<>>) = clip[<<f, 2>>]
    BY <2>1, CatFacts
  <2> QED BY <1>5, <2>2 DEF Queued
<1>11. Queued(f)' = Cat(q, y)
  BY <1>7, <1>8, <1>10 DEF Queued
<1>12. PICK c \in Nat \ {0} : c = After(b, x) /\ c >= b /\ (x.kind = "eoi" => c = b + 1)
  BY DEF After
<1>13. Backlog(c, at, ProcAfter(x).atMarker, iter)
  BY <1>1, <1>2, <1>5, <1>9, <1>12 DEF Backlog
<1> HIDE DEF r, l, q, h, pub, p, at, open
<1>14. Flow(c, Tail(r), open, Cat(q, y), h, pub, p, iter)
  BY <1>1, <1>2, <1>5, <1>9, <1>12, DecodeFlow
<1> HIDE DEF x, y
<1>15. FlowOf(f, c)'
  BY <1>5, <1>7, <1>11, <1>13, <1>14 DEF FlowOf, h, pub, p, at, open
<1> QED BY <1>12, <1>15

(* Its other steps. *)
LEMMA ProcessorFlow ==
    ASSUME Types, NEW f \in FE, NEW b \in Nat \ {0}, FlowOf(f, b),
           NEW t \in FE \X Stages, t = <<f, 1>>, ThreadStep(t)
    PROVE  \E c \in Nat \ {0} : FlowOf(f, c)'
<1> DEFINE at == pc[t]
           marker == proc[f].atMarker
<1>1. Flow(b, clip[t], proc[f].label, Queued(f), histo[f], published[f], pushed[f], iter)
      /\ Backlog(b, at, marker, iter)
  BY DEF FlowOf
<1>2. t[1] = f /\ t[2] = 1 /\ t \in FE \X Clips /\ <<f, 2>> \in FE \X Clips /\ t # <<f, 2>>
  BY PipelineAssumption DEF Clips, Stages
<1>3. DOMAIN clip = FE \X Clips /\ DOMAIN out = FE \X Stages /\ DOMAIN proc = FE
      /\ DOMAIN pc = FE \X Stages /\ at \notin {"end", "exit"}
  BY <1>2 DEF Types, TypeOK, Shape
<1>4. clip[t] \in Seq(Raw) /\ out[t] \in Seq(Raw) /\ clip[<<f, 2>>] \in Seq(Raw) /\ iter \in Nat
  BY FrontEndTypes
<1>5. CASE PopStep(t)
  <2>1. PopRawData(f)
    BY <1>2, <1>5 DEF PopStep
  <2> QED BY <2>1, PopRawFlow
<1>6. CASE PushOut(t)
  <2> DEFINE x0 == Head(out[t])
             z == clip[<<f, 2>>]
             w == Tail(out[t])
  <2>1. /\ out[t] # <<>> /\ clip' = [clip EXCEPT ![<<f, 2>>] = Append(@, x0)]
        /\ out' = [out EXCEPT ![t] = w]
        /\ UNCHANGED <<pc, proc, histo, published, pushed, iter>>
    BY <1>2, <1>6 DEF PushOut, Push, mainVars
  <2>2. clip'[t] = clip[t] /\ clip'[<<f, 2>>] = Append(z, x0) /\ out'[t] = w
    BY <1>2, <1>3, <2>1
  <2>3. x0 \in Raw /\ w \in Seq(Raw) /\ out[t] = Cat(One(x0), w)
    <3>1. x0 \in Raw /\ w \in Seq(Raw)
      BY <1>4, <2>1, HeadTailProperties
    <3> QED BY <1>4, <2>1, <3>1, OneFacts
  <2>4. One(x0) \in Seq(Raw) /\ Append(z, x0) = Cat(z, One(x0))
    BY <1>4, <2>3, OneFacts
  <2>5. Queued(f)' = Cat(Append(z, x0), w) /\ Queued(f) = Cat(z, out[t])
    BY <2>2 DEF Queued
  <2> HIDE DEF z, x0, w
  <2>6. Cat(Cat(z, One(x0)), w) = Cat(z, Cat(One(x0), w))
    <3>1. z \in Seq(Raw)
      BY <1>4 DEF z
    <3> QED BY <2>3, <2>4, <3>1, CatFacts
  <2>7. Queued(f)' = Queued(f)
    BY <2>3, <2>4, <2>5, <2>6
  <2>8. FlowOf(f, b)'
    BY <1>1, <2>1, <2>2, <2>7 DEF FlowOf
  <2> QED BY <2>8
<1>7. CASE Wait(t) \/ IsDone(t)
  <2>1. UNCHANGED <<clip, out, proc, histo, published, pushed, iter>>
    BY <1>7 DEF Wait, IsDone, mainVars
  <2>2. /\ at \in {"wait", "isDone"} /\ pc'[t] \in {"core1", "core2", "wait"}
    BY <1>3, <1>7 DEF Wait, IsDone, ThreadGoto
  <2>3. Queued(f)' = Queued(f)
    BY <2>1 DEF Queued
  <2>4. Backlog(b, pc'[t], marker, iter)
    BY <1>1, <2>2 DEF Backlog
  <2>5. FlowOf(f, b)'
    BY <1>1, <2>1, <2>3, <2>4 DEF FlowOf
  <2> QED BY <2>5
<1>8. CASE CoreReturn(t)
  <2>1. /\ at \in {"core1", "core2", "core3"} /\ (clip[t] = <<>> \/ marker)
        /\ pc' = [pc EXCEPT ![t] = AfterCore(t)]
        /\ proc' = [proc EXCEPT ![f].atMarker = FALSE]
        /\ UNCHANGED <<clip, out, histo, published, pushed, iter>>
    BY <1>2, <1>8 DEF CoreReturn, InCore, ThreadGoto, AtMarker, mainVars
  <2>2. Queued(f)' = Queued(f)
    BY <2>1 DEF Queued
  <2>3. /\ pc'[t] = AfterCore(t) /\ proc'[f].label = proc[f].label /\ proc'[f].atMarker = FALSE
    BY <1>3, <2>1 DEF Types, TypeOK
  <2>4. /\ at = "core1" => pc'[t] = "isDone"
        /\ at = "core2" => pc'[t] = "core3"
        /\ at = "core3" => pc'[t] = "returned"
    BY <1>2, <2>3 DEF AfterCore
  <2>5. clip[t] = <<>> => b = iter
    BY <1>1, <1>4, NumberedEmpty DEF Flow
  <2>6. Backlog(b, pc'[t], FALSE, iter)
    BY <1>1, <1>4, <2>1, <2>4, <2>5 DEF Backlog
  <2>7. FlowOf(f, b)'
    BY <1>1, <2>1, <2>2, <2>3, <2>6 DEF FlowOf
  <2> QED BY <2>7
<1>9. CASE End(t) \/ Return(t)
  BY <1>3, <1>9 DEF End, Return
<1> QED BY <1>5, <1>6, <1>7, <1>8, <1>9 DEF ThreadStep

(* The histogrammer takes a container. *)
LEMMA PopDataFlow ==
    ASSUME Types, NEW f \in FE, NEW b \in Nat \ {0}, FlowOf(f, b), PopData(f)
    PROVE  FlowOf(f, b)'
<1> DEFINE r == clip[<<f, 1>>]
           z == clip[<<f, 2>>]
           o == out[<<f, 1>>]
           q == Queued(f)
           l == proc[f].label
           h == histo[f]
           pub == published[f]
           p == pushed[f]
           x == Head(z)
           g == Fill(h, x)
<1>1. /\ r \in Seq(Raw) /\ q \in Seq(Raw) /\ l \in Nat /\ h \in HistoState
      /\ pub \in Seq(HistoState) /\ p \in Seq(Raw) /\ iter \in Nat
      /\ z \in Seq(Raw) /\ o \in Seq(Raw)
  BY FrontEndTypes
<1>2. Flow(b, r, l, q, h, pub, p, iter) /\ Backlog(b, pc[<<f, 1>>], proc[f].atMarker, iter)
  BY DEF FlowOf
<1>3. <<f, 1>> \in FE \X Clips /\ <<f, 2>> \in FE \X Clips
      /\ <<f, 1>> \in FE \X Stages /\ <<f, 2>> \in FE \X Stages /\ <<f, 1>> # <<f, 2>>
  BY PipelineAssumption DEF Clips, Stages
<1>4. /\ DOMAIN clip = FE \X Clips /\ DOMAIN out = FE \X Stages
      /\ DOMAIN histo = FE /\ DOMAIN published = FE
  BY DEF Types, TypeOK, Shape
<1>5. /\ z # <<>> /\ clip' = [clip EXCEPT ![<<f, 2>>] = Tail(@)]
      /\ UNCHANGED <<pc, proc, pushed, iter>>
      /\ IF x.kind = "eoi"
         THEN /\ histo' = [histo EXCEPT ![f] = NewIteration]
              /\ published' = [published EXCEPT ![f] = Append(@, g)]
         ELSE histo' = [histo EXCEPT ![f] = g] /\ UNCHANGED published
  BY DEF PopData, Pop, mainVars
<1>6. out'[<<f, 1>>] = o
  BY <1>3, <1>4 DEF PopData
<1>7. /\ clip'[<<f, 1>>] = r /\ clip'[<<f, 2>>] = Tail(z)
      /\ IF x.kind = "eoi" THEN histo'[f] = NewIteration /\ published'[f] = Append(pub, g)
         ELSE histo'[f] = g /\ published'[f] = pub
  BY <1>3, <1>4, <1>5
<1>8. q = Cat(z, o) /\ Queued(f)' = Cat(Tail(z), o)
  BY <1>6, <1>7 DEF Queued
<1>9. q # <<>> /\ Head(q) = x /\ Tail(q) = Cat(Tail(z), o)
  <2>1. q = z \o o
    BY <1>8 DEF Cat
  <2> HIDE DEF q, z, o
  <2>2. z \o o # <<>> /\ Head(z \o o) = Head(z) /\ Tail(z \o o) = Tail(z) \o o
    BY <1>1, <1>5
  <2> QED BY <2>1, <2>2 DEF Cat
<1> HIDE DEF r, z, o, l, q, h, pub, p, x
<1>10. CASE x.kind = "eoi"
  <2>1. Flow(b, r, l, Tail(q), NewIteration, Append(pub, g), p, iter)
    BY <1>1, <1>2, <1>9, <1>10, PublishFlow
  <2> QED BY <1>2, <1>5, <1>7, <1>8, <1>9, <1>10, <2>1 DEF FlowOf, l, p
<1>11. CASE x.kind # "eoi"
  <2>1. Flow(b, r, l, Tail(q), g, pub, p, iter)
    BY <1>1, <1>2, <1>9, <1>11, FillFlow
  <2> QED BY <1>2, <1>5, <1>7, <1>8, <1>9, <1>11, <2>1 DEF FlowOf, l, p
<1> QED BY <1>10, <1>11

(* The other threads leave the front end's data alone. *)
LEMMA OtherFlow ==
    ASSUME Types, NEW f \in FE, NEW b \in Nat \ {0}, FlowOf(f, b),
           NEW t \in FE \X Stages, t # <<f, 1>>, ThreadStep(t), ~(t = <<f, 2>> /\ PopStep(t))
    PROVE  FlowOf(f, b)'
<1>1. /\ t[1] \in FE /\ t[2] \in Nat \ {0} /\ t = <<t[1], t[2]>> /\ t \in FE \X Clips
      /\ <<t[1], t[2] + 1>> \in FE \X Clips
  BY Pairs DEF Downstream
<1>2. /\ DOMAIN clip = FE \X Clips /\ DOMAIN out = FE \X Stages /\ DOMAIN pc = FE \X Stages
      /\ DOMAIN histo = FE /\ DOMAIN published = FE /\ DOMAIN proc = FE
  BY DEF Types, TypeOK, Shape
<1>3. /\ <<f, 1>> \in FE \X Clips /\ <<f, 2>> \in FE \X Clips /\ <<f, 1>> \in FE \X Stages
      /\ <<t[1], t[2] + 1>> # <<f, 1>> /\ <<t[1], t[2] + 1>> # <<f, 2>>
  BY <1>1, PipelineAssumption DEF Clips, Stages
<1>4. UNCHANGED <<pushed, iter>>
  BY DEF ThreadStep, Wait, PopStep, PopRawData, PopData, PopHisto, PushOut, CoreReturn, IsDone,
         End, Return, mainVars
<1>5. CASE Wait(t) \/ CoreReturn(t) \/ IsDone(t) \/ End(t) \/ Return(t)
  <2>1. UNCHANGED <<clip, histo, published>>
    BY <1>5 DEF Wait, CoreReturn, IsDone, End, Return
  <2>2. \E v : pc' = [pc EXCEPT ![t] = v]
    BY <1>5 DEF Wait, CoreReturn, IsDone, End, Return, ThreadGoto
  <2>3. UNCHANGED out \/ \E v : out' = [out EXCEPT ![t] = v]
    BY <1>5 DEF Wait, CoreReturn, IsDone, End, Return
  <2>4. UNCHANGED proc \/ (t[2] = 1 /\ proc' = [proc EXCEPT ![t[1]].atMarker = FALSE])
    BY <1>5 DEF Wait, CoreReturn, IsDone, End, Return
  <2>5. pc'[<<f, 1>>] = pc[<<f, 1>>]
    BY <1>2, <1>3, <2>2
  <2>6. out'[<<f, 1>>] = out[<<f, 1>>]
    BY <1>2, <1>3, <2>3
  <2>7. proc'[f] = proc[f]
    BY <1>1, <1>2, <2>4
  <2>8. Same(f)
    BY <1>4, <2>1, <2>5, <2>6, <2>7 DEF Same
  <2> QED BY <2>8, SameFlow
<1>6. CASE PushOut(t)
  <2>1. /\ \E v : clip' = [clip EXCEPT ![<<t[1], t[2] + 1>>] = v]
        /\ \E v : out' = [out EXCEPT ![t] = v]
        /\ UNCHANGED <<pc, proc, histo, published>>
    BY <1>6 DEF PushOut, Push
  <2>2. clip'[<<f, 1>>] = clip[<<f, 1>>] /\ clip'[<<f, 2>>] = clip[<<f, 2>>]
    BY <1>2, <1>3, <2>1
  <2>3. out'[<<f, 1>>] = out[<<f, 1>>]
    BY <1>2, <1>3, <2>1
  <2>4. Same(f)
    BY <1>4, <2>1, <2>2, <2>3 DEF Same
  <2> QED BY <2>4, SameFlow
<1>7. CASE PopStep(t)
  <2>1. t # <<f, 2>>
    BY <1>7
  <2>2. t[2] > 2 => 2 + (t[2] - 2) = t[2]
    BY <1>1
  <2>3. /\ \E v : clip' = [clip EXCEPT ![t] = v]
        /\ UNCHANGED out \/ \E v : out' = [out EXCEPT ![t] = v]
        /\ UNCHANGED pc
    BY <1>1, <1>7, <2>2 DEF PopStep, PopRawData, PopData, PopHisto, Pop
  <2>4. clip'[<<f, 1>>] = clip[<<f, 1>>] /\ clip'[<<f, 2>>] = clip[<<f, 2>>]
    BY <1>2, <1>3, <2>1, <2>3
  <2>5. out'[<<f, 1>>] = out[<<f, 1>>]
    BY <1>2, <1>3, <2>3
  <2>6. /\ UNCHANGED proc \/ (t[2] = 1 /\ \E v : proc' = [proc EXCEPT ![t[1]] = v])
        /\ UNCHANGED histo \/ (t[2] = 2 /\ \E v : histo' = [histo EXCEPT ![t[1]] = v])
        /\ UNCHANGED published \/ (t[2] = 2 /\ \E v : published' = [published EXCEPT ![t[1]] = v])
    BY <1>7 DEF PopStep, PopRawData, PopData, PopHisto
  <2>7. t[2] \in {1, 2} => t[1] # f
    BY <1>1, <2>1
  <2>8. proc'[f] = proc[f] /\ histo'[f] = histo[f] /\ published'[f] = published[f]
    BY <1>2, <2>6, <2>7
  <2>9. Same(f)
    BY <1>4, <2>3, <2>4, <2>5, <2>8 DEF Same
  <2> QED BY <2>9, SameFlow
<1> QED BY <1>5, <1>6, <1>7 DEF ThreadStep

(* Every step keeps the flow. *)
LEMMA FlowStep == Types /\ OrderInv /\ FlowInv /\ [Next]_vars => FlowInv'
<1> SUFFICES ASSUME Types, OrderInv, FlowInv, [Next]_vars, NEW f \in FE
             PROVE  \E c \in Nat \ {0} : FlowOf(f, c)'
  BY DEF FlowInv
<1>1. PICK b \in Nat \ {0} : FlowOf(f, b)
  BY DEF FlowInv
<1>2. ASSUME NEW g \in FE, NEW kind \in {"data", "void"}, PushRawData(g, kind) PROVE FlowOf(f, b)'
  BY <1>1, <1>2, PushDataFlow
<1>3. CASE PushEndOfIteration
  BY <1>1, <1>3, MarkFlow
<1>4. CASE UNCHANGED vars \/ (MainStep /\ ~PushEndOfIteration)
  <2>1. UNCHANGED <<clip, pc, out, proc, histo, published, pushed, iter>>
    BY <1>4 DEF vars, pipeVars, mainVars, config, MainStep, Finish, JoinProcs, JoinHistogrammers,
                JoinAnalyses
  <2>2. Same(f)
    BY <2>1 DEF Same
  <2>3. FlowOf(f, b)'
    BY <1>1, <2>2, SameFlow
  <2> QED BY <2>3
<1>5. ASSUME NEW t \in FE \X Stages, ThreadStep(t) PROVE \E c \in Nat \ {0} : FlowOf(f, c)'
  <2>1. CASE t = <<f, 1>>
    BY <1>1, <1>5, <2>1, ProcessorFlow
  <2>2. CASE t = <<f, 2>> /\ PopStep(t)
    <3>1. PopData(f)
      BY <2>2 DEF PopStep
    <3>2. FlowOf(f, b)'
      BY <1>1, <3>1, PopDataFlow
    <3> QED BY <3>2
  <2>3. CASE t # <<f, 1>> /\ ~(t = <<f, 2>> /\ PopStep(t))
    <3>1. FlowOf(f, b)'
      BY <1>1, <1>5, <2>3, OtherFlow
    <3> QED BY <3>1
  <2> QED BY <2>1, <2>2, <2>3
<1> QED BY <1>2, <1>3, <1>4, <1>5 DEF Next

(* Nothing has been pushed. *)
LEMMA FlowInit == Init => FlowInv
<1> SUFFICES ASSUME Init, NEW f \in FE PROVE FlowOf(f, 1)
  BY DEF FlowInv
<1> DEFINE e0 == <<>>
<1>1. <<f, 1>> \in FE \X Clips /\ <<f, 2>> \in FE \X Clips /\ <<f, 1>> \in FE \X Stages
  BY PipelineAssumption DEF Clips, Stages
<1>2. /\ clip[<<f, 1>>] = e0 /\ clip[<<f, 2>>] = e0 /\ out[<<f, 1>>] = e0
      /\ histo[f] = NewIteration /\ published[f] = e0 /\ pushed[f] = e0 /\ iter = 1
      /\ pc[<<f, 1>>] \in {"wait", "none"}
  BY <1>1 DEF Init
<1>3. proc[f].label = 0 /\ proc[f].atMarker = FALSE
  BY DEF Init
<1>4. Cat(e0, e0) = e0 /\ Len(e0) = 0 /\ NewIteration.isNew
  BY DEF Cat, NewIteration
<1>5. Queued(f) = e0
  BY <1>2, <1>4 DEF Queued
<1>6. Numbered(e0, Len(e0) + 1, 1) /\ Numbered(e0, 1, 1)
  BY <1>4, NumberedEmpty
<1>7. EmptyFollow(e0, NewIteration.isNew)
  BY <1>4 DEF EmptyFollow
<1>8. ASSUME NEW k \in Nat \ {0}
      PROVE  Selected(e0, DataOf(k)) = Cat(Cat(Filled(k, NewIteration, e0), Selected(e0, DataOf(k))),
                                           Selected(e0, DataOf(k)))
  <2>1. Selected(e0, DataOf(k)) = e0
    BY SelectedEmpty
  <2>2. Filled(k, NewIteration, e0) = e0
    BY <1>4 DEF Filled
  <2> QED BY <1>4, <2>1, <2>2
<1> HIDE DEF e0
<1>9. Flow(1, e0, 0, e0, NewIteration, e0, e0, 1)
  <2>1. \A k \in 1..Len(e0) : FALSE
    BY <1>4
  <2> QED BY <1>4, <1>6, <1>7, <1>8, <2>1, Zenon DEF Flow
<1>10. Backlog(1, pc[<<f, 1>>], FALSE, 1)
  BY <1>2 DEF Backlog
<1> QED BY <1>2, <1>3, <1>5, <1>9, <1>10 DEF FlowOf

(* What is published of iteration k is all there is of it: what is still in *)
(* the queues belongs to later ones.                                        *)
LEMMA FlowHistograms == Types /\ FlowInv => HistogramPerIteration
<1> SUFFICES ASSUME Types, FlowInv, NEW f \in FE, NEW k \in 1..Len(published[f])
             PROVE  /\ published[f][k].events = IterationData(f, k)
                    /\ published[f][k].label = IF IterationData(f, k) = <<>> THEN 0 ELSE k
  BY DEF HistogramPerIteration
<1> DEFINE r == clip[<<f, 1>>]
           q == Queued(f)
           h == histo[f]
           pub == published[f]
           p == pushed[f]
<1>1. PICK b \in Nat \ {0} : Flow(b, r, proc[f].label, q, h, pub, p, iter)
  BY DEF FlowInv, FlowOf
<1>2. r \in Seq(Raw) /\ q \in Seq(Raw) /\ h \in HistoState /\ pub \in Seq(HistoState) /\ iter \in Nat
  BY FrontEndTypes
<1> HIDE DEF r, q, h, p
<1>3. /\ Numbered(q, Len(pub) + 1, b) /\ Numbered(r, b, iter)
      /\ \A j \in 1..Len(pub) : pub[j].label = IF pub[j].events = <<>> THEN 0 ELSE j
      /\ \A j \in Nat \ {0} :
            Selected(p, DataOf(j)) = Cat(Cat(Filled(j, h, pub), Selected(q, DataOf(j))),
                                         Selected(r, DataOf(j)))
  BY <1>1 DEF Flow
<1>4. Len(pub) \in Nat /\ k \in Nat \ {0} /\ k < Len(pub) + 1
  BY <1>2, LenProperties
<1>5. Len(pub) + 1 \in Nat /\ Len(pub) + 1 <= b
  BY <1>2, <1>3, <1>4, NumberedBounds
<1>6. k < b
  BY <1>4, <1>5
<1>7. Selected(q, DataOf(k)) = <<>> /\ Selected(r, DataOf(k)) = <<>>
  BY <1>2, <1>3, <1>4, <1>5, <1>6, NumberedNone
<1>8. Filled(k, h, pub) = pub[k].events /\ Filled(k, h, pub) \in Seq(Raw)
  BY <1>2, FilledType DEF Filled
<1>9. Cat(Cat(Filled(k, h, pub), <<>>), <<>>) = Filled(k, h, pub)
  BY <1>8, CatFacts
<1>10. Selected(p, DataOf(k)) = pub[k].events
  BY <1>3, <1>4, <1>7, <1>8, <1>9
<1>11. IterationData(f, k) = pub[k].events
  BY <1>10 DEF IterationData, p
<1> QED BY <1>3, <1>11

----------------------------------------------------------------------------
(* From the histograms to the results *)

Batch(h) == [a \in 1..NumHisto |-> Histogram(a, h)]

BatchOf == [h \in HistoState |-> Batch(h)]
AnalyseOf(k) == [x \in Histo |-> Analyse(k, x)]

(* What is published of an iteration is one batch more. *)
LEMMA BatchFacts ==
    ASSUME NEW h \in HistoState
    PROVE  Batch(h) \in Seq(Histo) /\ BatchOf[h] = Batch(h)
<1>1. h.label \in Nat /\ h.events \in Seq(Raw)
  BY DEF HistoState
<1>2. \A a \in 1..NumHisto : Histogram(a, h) \in Histo
  BY <1>1, EmptySeq DEF Histogram, Histo
<1>3. [a \in 1..NumHisto |-> Histogram(a, h)] \in Seq(Histo)
  <2> DEFINE F(a) == Histogram(a, h)
  <2>1. \A a \in 1..NumHisto : F(a) \in Histo
    BY <1>2
  <2> HIDE DEF F
  <2>2. [a \in 1..NumHisto |-> F(a)] \in Seq(Histo)
    BY <2>1, PipelineAssumption
  <2> QED BY <2>2 DEF F
<1> QED BY <1>3 DEF Batch, BatchOf

(* The functions that the output of a histogrammer and of a tier maps. *)
LEMMA StageMaps ==
    /\ BatchOf \in Maps(HistoState, Seq(Histo))
    /\ \A k \in Nat : AnalyseOf(k) \in Maps(Histo, Seq(Histo))
    /\ \A k \in Nat : \A x \in Histo : AnalyseOf(k)[x] = Analyse(k, x)
<1>1. \A h \in HistoState : Batch(h) \in Seq(Histo)
  BY BatchFacts
<1>2. \A k \in Nat : \A x \in Histo : Analyse(k, x) \in Seq(Histo)
  BY AnalyseType
<1> QED BY <1>1, <1>2 DEF BatchOf, AnalyseOf, Maps

(* All histograms, as a mapped sequence. *)
Histograms(pub) == FlattenSeq(Mapped(pub, BatchOf))

(* They are histograms, and a batch is put at the end. *)
LEMMA HistogramsFacts ==
    /\ \A pub \in Seq(HistoState) : Histograms(pub) \in Seq(Histo)
    /\ \A pub \in Seq(HistoState) : \A h \in HistoState :
          Histograms(Append(pub, h)) = Cat(Histograms(pub), Batch(h))
    /\ Histograms(<<>>) = <<>>
<1>1. ASSUME NEW pub \in Seq(HistoState) PROVE Histograms(pub) \in Seq(Histo)
  BY StageMaps, MapType, FlattenType DEF Histograms
<1>2. ASSUME NEW pub \in Seq(HistoState), NEW h \in HistoState
      PROVE  Histograms(Append(pub, h)) = Cat(Histograms(pub), Batch(h))
  <2> DEFINE ss == Mapped(pub, BatchOf)
             s == Batch(h)
  <2>1. ss \in Seq(Seq(Histo))
    BY StageMaps, MapType
  <2>2. s \in Seq(Histo) /\ BatchOf[h] = s
    BY BatchFacts
  <2>3. Mapped(Append(pub, h), BatchOf) = Append(ss, s)
    BY <2>2, StageMaps, MapAppend
  <2> HIDE DEF ss, s
  <2>4. FlattenSeq(Append(ss, s)) = FlattenSeq(ss) \o s
    BY <2>1, <2>2, FlattenAppend
  <2> QED BY <2>3, <2>4 DEF Histograms, Cat, ss, s
<1> QED BY <1>1, <1>2, MapEmpty, FlattenEmpty DEF Histograms

(* That is what AllHistograms says. *)
LEMMA AllHistogramsFacts ==
    ASSUME Types, NEW f \in FE
    PROVE  AllHistograms(f) = Histograms(published[f])
<1> DEFINE pub == published[f]
<1>1. pub \in Seq(HistoState)
  BY FrontEndTypes
<1> HIDE DEF pub
<1>2. \A k \in DOMAIN pub : BatchOf[pub[k]] = [a \in 1..NumHisto |-> Histogram(a, pub[k])]
  <2>1. \A k \in DOMAIN pub : pub[k] \in HistoState
    BY <1>1
  <2> QED BY <2>1, BatchFacts DEF Batch
<1>3. [k \in DOMAIN pub |-> [a \in 1..NumHisto |-> Histogram(a, pub[k])]] = Mapped(pub, BatchOf)
  BY <1>2 DEF Mapped
<1> QED BY <1>3 DEF AllHistograms, Histograms, pub

(* What a tier makes of its whole input grows with the input. *)
LEMMA AnalysedFacts ==
    ASSUME NEW k \in Nat
    PROVE  /\ \A s \in Seq(Histo) : Analysed(k, s) \in Seq(Histo)
           /\ \A s \in Seq(Histo) : \A x \in Histo :
                 Analysed(k, Append(s, x)) = Cat(Analysed(k, s), Analyse(k, x))
           /\ Analysed(k, <<>>) = <<>>
<1>1. ASSUME NEW s \in Seq(Histo) PROVE Analysed(k, s) = FlattenSeq(Mapped(s, AnalyseOf(k)))
  <2>1. \A i \in DOMAIN s : s[i] \in Histo
    OBVIOUS
  <2>2. \A i \in DOMAIN s : AnalyseOf(k)[s[i]] = Analyse(k, s[i])
    BY <2>1, StageMaps
  <2> QED BY <2>2 DEF Analysed, Mapped
<1>2. ASSUME NEW s \in Seq(Histo) PROVE Analysed(k, s) \in Seq(Histo)
  BY <1>1, StageMaps, MapType, FlattenType
<1>3. ASSUME NEW s \in Seq(Histo), NEW x \in Histo
      PROVE  Analysed(k, Append(s, x)) = Cat(Analysed(k, s), Analyse(k, x))
  <2> DEFINE F == AnalyseOf(k)
             ss == Mapped(s, F)
             y == Analyse(k, x)
  <2>1. F \in Maps(Histo, Seq(Histo)) /\ F[x] = y
    BY StageMaps
  <2>2. y \in Seq(Histo)
    BY AnalyseType
  <2>3. Append(s, x) \in Seq(Histo)
    BY AppendProperties
  <2>4. Analysed(k, Append(s, x)) = FlattenSeq(Mapped(Append(s, x), F)) /\ Analysed(k, s) = FlattenSeq(ss)
    BY <1>1, <2>3
  <2> HIDE DEF F, y
  <2>5. ss \in Seq(Seq(Histo)) /\ Mapped(Append(s, x), F) = Append(ss, y)
    BY <2>1, MapType, MapAppend
  <2> HIDE DEF ss
  <2>6. FlattenSeq(Append(ss, y)) = FlattenSeq(ss) \o y
    BY <2>2, <2>5, FlattenAppend
  <2> QED BY <2>4, <2>5, <2>6 DEF Cat, y
<1>4. Analysed(k, <<>>) = <<>>
  <2>1. <<>> \in Seq(Histo)
    BY EmptySeq
  <2> QED BY <1>1, <2>1, MapEmpty, FlattenEmpty
<1> QED BY <1>2, <1>3, <1>4

(* The summary of a tier that has called end(). *)
Ended(f, s) == IF pc[<<f, s>>] \in {"exit", "returned"} THEN One(Summary(s - 2)) ELSE <<>>

(* What stage s has produced, when rd is what each stage has read. *)
Made(f, s, rd) ==
    IF s = 2 THEN Histograms(published[f]) ELSE Cat(Analysed(s - 2, rd[s]), Ended(f, s))

(* All of it was read by the next stage, is in the clipboard between them,  *)
(* or is still to be pushed.                                                *)
Link(f, s, rd) ==
    Cat(Cat(rd[s + 1], clip[<<f, s + 1>>]), out[<<f, s>>]) = Made(f, s, rd)

Producers == 2..(2 + Tiers)
Readers == 3..(3 + Tiers)

Chain(f, rd) ==
    /\ rd[3 + Tiers] = <<>>
    /\ \A s \in Producers : Link(f, s, rd)

TierInv == \A f \in FE : \E rd \in Maps(Readers, Seq(Histo)) : Chain(f, rd)

(* The variables of a link. *)
LEMMA LinkTypes ==
    ASSUME Types, NEW f \in FE, NEW s \in Producers, NEW rd \in Maps(Readers, Seq(Histo))
    PROVE  /\ s \in Nat /\ <<f, s>> \in FE \X Stages /\ <<f, s + 1>> \in FE \X Clips
           /\ clip[<<f, s + 1>>] \in Seq(Histo) /\ out[<<f, s>>] \in Seq(Histo) /\ rd[s + 1] \in Seq(Histo)
           /\ s > 2 => s \in Readers /\ s - 2 \in Nat \ {0} /\ rd[s] \in Seq(Histo) /\ clip[<<f, s>>] \in Seq(Histo)
<1>1. /\ s \in Nat /\ <<f, s>> \in FE \X Stages /\ <<f, s + 1>> \in FE \X Clips /\ s + 1 \in Readers
      /\ s > 2 => s \in Readers /\ s - 2 \in Nat \ {0} /\ <<f, s>> \in FE \X Clips
      /\ s + 1 > 2 /\ ~(s + 1 <= 2) /\ (s > 2 => ~(s <= 2))
  BY PipelineAssumption DEF Producers, Readers, Stages, Clips
<1>2. /\ clip[<<f, s + 1>>] \in Seq(ItemOf(s + 1)) /\ out[<<f, s>>] \in Seq(ItemOf(s + 1))
      /\ s > 2 => clip[<<f, s>>] \in Seq(ItemOf(s))
  BY <1>1 DEF Types, TypeOK
<1>3. ItemOf(s + 1) = Histo /\ (s > 2 => ItemOf(s) = Histo)
  BY <1>1 DEF ItemOf
<1>4. rd[s + 1] \in Seq(Histo) /\ (s > 2 => rd[s] \in Seq(Histo))
  BY <1>1 DEF Maps
<1> QED BY <1>1, <1>2, <1>3, <1>4

(* Histograms that are put at the end or taken from the front. *)
LEMMA OneHisto ==
    ASSUME NEW x \in Histo
    PROVE  /\ One(x) \in Seq(Histo)
           /\ \A s \in Seq(Histo) : Append(s, x) = Cat(s, One(x))
           /\ \A s \in Seq(Histo) : s # <<>> /\ Head(s) = x => s = Cat(One(x), Tail(s))
<1>1. ASSUME NEW s \in Seq(Histo) PROVE Append(s, x) = Cat(s, One(x))
  BY AppendIsConcat DEF Cat, One
<1>2. ASSUME NEW s \in Seq(Histo), s # <<>>, Head(s) = x PROVE s = Cat(One(x), Tail(s))
  BY <1>2 DEF Cat, One
<1> QED BY <1>1, <1>2 DEF One

(* Moving the first product to the clipboard changes nothing. *)
LEMMA HandOver ==
    ASSUME NEW u \in Seq(Histo), NEW z \in Seq(Histo), NEW o \in Seq(Histo), o # <<>>
    PROVE  Cat(Cat(u, Append(z, Head(o))), Tail(o)) = Cat(Cat(u, z), o)
<1> DEFINE x == Head(o)
           w == Tail(o)
<1>1. x \in Histo /\ w \in Seq(Histo)
  BY HeadTailProperties
<1>2. One(x) \in Seq(Histo) /\ Append(z, x) = Cat(z, One(x)) /\ o = Cat(One(x), w)
  BY <1>1, OneHisto
<1> HIDE DEF x, w
<1>3. Cat(u, z) \in Seq(Histo) /\ Cat(u, Cat(z, One(x))) = Cat(Cat(u, z), One(x))
  BY <1>2, CatFacts
<1>4. Cat(Cat(Cat(u, z), One(x)), w) = Cat(Cat(u, z), Cat(One(x), w))
  BY <1>1, <1>2, <1>3, CatFacts
<1> QED BY <1>2, <1>3, <1>4 DEF x, w

(* So does reading it from there. *)
LEMMA TakeOver ==
    ASSUME NEW u \in Seq(Histo), NEW z \in Seq(Histo), z # <<>>
    PROVE  Cat(Append(u, Head(z)), Tail(z)) = Cat(u, z)
<1> DEFINE x == Head(z)
           w == Tail(z)
<1>1. x \in Histo /\ w \in Seq(Histo)
  BY HeadTailProperties
<1>2. One(x) \in Seq(Histo) /\ Append(u, x) = Cat(u, One(x)) /\ z = Cat(One(x), w)
  BY <1>1, OneHisto
<1> HIDE DEF x, w
<1>3. Cat(Cat(u, One(x)), w) = Cat(u, Cat(One(x), w))
  BY <1>1, <1>2, CatFacts
<1> QED BY <1>2, <1>3 DEF x, w

(* A step that leaves a link alone. *)
SameLink(f, s) ==
    /\ UNCHANGED <<clip[<<f, s + 1>>], out[<<f, s>>]>>
    /\ s = 2 => UNCHANGED published[f]
    /\ s # 2 => UNCHANGED Ended(f, s)

(* The link holds after it. *)
LEMMA LinkStays ==
    ASSUME NEW f, NEW s, NEW rd, Link(f, s, rd), SameLink(f, s)
    PROVE  Link(f, s, rd)'
BY DEF Link, SameLink, Made

(* And so do all of them, if it leaves all alone. *)
LEMMA ChainStays ==
    ASSUME NEW f, NEW rd, Chain(f, rd), \A s \in Producers : SameLink(f, s)
    PROVE  Chain(f, rd)'
BY LinkStays DEF Chain

(* A pushed product. *)
LEMMA PushChain ==
    ASSUME Types, NEW f \in FE, NEW s \in Producers, NEW rd \in Maps(Readers, Seq(Histo)),
           Chain(f, rd), PushOut(<<f, s>>)
    PROVE  Chain(f, rd)'
<1> DEFINE o == out[<<f, s>>]
           z == clip[<<f, s + 1>>]
<1>1. /\ <<f, s>> \in FE \X Stages /\ <<f, s + 1>> \in FE \X Clips
      /\ z \in Seq(Histo) /\ o \in Seq(Histo) /\ rd[s + 1] \in Seq(Histo)
  BY LinkTypes
<1>2. /\ o # <<>> /\ clip' = [clip EXCEPT ![<<f, s + 1>>] = Append(@, Head(o))]
      /\ out' = [out EXCEPT ![<<f, s>>] = Tail(@)] /\ UNCHANGED <<pc, published>>
  BY DEF PushOut, Push
<1>3. DOMAIN clip = FE \X Clips /\ DOMAIN out = FE \X Stages
  BY DEF Types, Shape
<1>4. clip'[<<f, s + 1>>] = Append(z, Head(o)) /\ out'[<<f, s>>] = Tail(o)
  BY <1>1, <1>2, <1>3
<1>5. Link(f, s, rd)'
  <2>1. Made(f, s, rd)' = Made(f, s, rd)
    BY <1>2 DEF Made, Ended
  <2>2. Cat(Cat(rd[s + 1], z), o) = Made(f, s, rd)
    BY DEF Chain, Link
  <2>3. Cat(Cat(rd[s + 1], Append(z, Head(o))), Tail(o)) = Cat(Cat(rd[s + 1], z), o)
    <3> DEFINE u == rd[s + 1]
    <3>1. u \in Seq(Histo)
      BY <1>1
    <3> HIDE DEF u, z, o
    <3>2. Cat(Cat(u, Append(z, Head(o))), Tail(o)) = Cat(Cat(u, z), o)
      BY <1>1, <1>2, <3>1, HandOver
    <3> QED BY <3>2 DEF u
  <2> QED BY <1>4, <2>1, <2>2, <2>3 DEF Link
<1>6. ASSUME NEW j \in Producers, j # s PROVE Link(f, j, rd)'
  <2>1. j \in Nat /\ s \in Nat /\ j + 1 # s + 1
    BY <1>6, PipelineAssumption DEF Producers
  <2>2. SameLink(f, j)
    BY <1>2, <1>3, <1>6, <2>1 DEF SameLink, Ended
  <2> QED BY <2>2, LinkStays DEF Chain
<1> QED BY <1>5, <1>6 DEF Chain

(* The histogrammer publishes. *)
LEMMA PublishChain ==
    ASSUME Types, NEW f \in FE, NEW rd \in Maps(Readers, Seq(Histo)), Chain(f, rd), PopData(f)
    PROVE  Chain(f, rd)'
<1> DEFINE x == Head(clip[<<f, 2>>])
           g == Fill(histo[f], x)
<1>1. /\ 2 \in Producers /\ <<f, 2>> \in FE \X Stages /\ <<f, 2>> \in FE \X Clips
  BY PipelineAssumption DEF Producers, Stages, Clips
<1>2. /\ DOMAIN clip = FE \X Clips /\ DOMAIN out = FE \X Stages /\ DOMAIN published = FE
  BY DEF Types, TypeOK, Shape
<1>3. /\ clip[<<f, 2>>] # <<>> /\ out[<<f, 2>>] = <<>> /\ UNCHANGED pc
      /\ clip' = [clip EXCEPT ![<<f, 2>>] = Tail(@)]
  BY DEF PopData, Pop
<1>4. \/ UNCHANGED <<published, out>>
      \/ /\ published' = [published EXCEPT ![f] = Append(@, g)]
         /\ out' = [out EXCEPT ![<<f, 2>>] = Batch(g)]
  BY DEF PopData, Batch
<1>5. \A j \in Producers : j \in Nat /\ j + 1 # 2
  BY PipelineAssumption DEF Producers
<1>6. \A j \in Producers : clip'[<<f, j + 1>>] = clip[<<f, j + 1>>]
  BY <1>2, <1>3, <1>5
<1>7. CASE UNCHANGED <<published, out>>
  <2>1. \A j \in Producers : SameLink(f, j)
    BY <1>3, <1>6, <1>7 DEF SameLink, Ended
  <2> QED BY <2>1, ChainStays
<1>8. CASE /\ published' = [published EXCEPT ![f] = Append(@, g)]
           /\ out' = [out EXCEPT ![<<f, 2>>] = Batch(g)]
  <2>1. g \in HistoState /\ published[f] \in Seq(HistoState)
    <3>1. clip[<<f, 2>>] \in Seq(Raw) /\ histo[f] \in HistoState /\ published[f] \in Seq(HistoState)
      BY FrontEndTypes
    <3>2. x \in Raw
      BY <1>3, <3>1, HeadTailProperties
    <3> QED BY <3>1, <3>2, FillType
  <2> HIDE DEF g, x
  <2>2. published'[f] = Append(published[f], g) /\ out'[<<f, 2>>] = Batch(g)
    BY <1>1, <1>2, <1>8
  <2>3. Link(f, 2, rd)'
    <3> DEFINE u == rd[2 + 1]
               z == clip[<<f, 2 + 1>>]
               m == Histograms(published[f])
    <3>1. u \in Seq(Histo) /\ z \in Seq(Histo) /\ m \in Seq(Histo)
      BY <1>1, <2>1, LinkTypes, HistogramsFacts
    <3>2. Cat(Cat(u, z), <<>>) = m
      BY <1>1, <1>3 DEF Chain, Link, Made
    <3>3. Histograms(Append(published[f], g)) = Cat(m, Batch(g))
      BY <2>1, HistogramsFacts
    <3>4. clip'[<<f, 2 + 1>>] = z
      BY <1>1, <1>6
    <3> HIDE DEF u, z, m
    <3>5. Cat(u, z) = m
      <4>1. Cat(u, z) \in Seq(Histo)
        BY <3>1, CatFacts
      <4> QED BY <3>2, <4>1, CatFacts
    <3> QED BY <2>2, <3>3, <3>4, <3>5 DEF Link, Made, u
  <2>4. ASSUME NEW j \in Producers, j # 2 PROVE Link(f, j, rd)'
    <3>1. out'[<<f, j>>] = out[<<f, j>>]
      BY <1>2, <1>8, <2>4
    <3>2. SameLink(f, j)
      BY <1>3, <1>6, <2>4, <3>1 DEF SameLink, Ended
    <3> QED BY <3>2, LinkStays DEF Chain
  <2> QED BY <2>3, <2>4 DEF Chain
<1> QED BY <1>4, <1>7, <1>8

(* An analysis reads a histogram. *)
LEMMA AnalyseChain ==
    ASSUME Types, NEW f \in FE, NEW s \in Producers, s > 2, NEW rd \in Maps(Readers, Seq(Histo)),
           Chain(f, rd), PopHisto(f, s - 2)
    PROVE  \E rd1 \in Maps(Readers, Seq(Histo)) : Chain(f, rd1)'
<1> DEFINE k == s - 2
           z == clip[<<f, s>>]
           y == Analyse(k, Head(z))
<1>1. /\ s \in Nat /\ <<f, s>> \in FE \X Stages /\ <<f, s + 1>> \in FE \X Clips
      /\ s \in Readers /\ k \in Nat \ {0} /\ rd[s] \in Seq(Histo) /\ z \in Seq(Histo)
      /\ rd[s + 1] \in Seq(Histo) /\ clip[<<f, s + 1>>] \in Seq(Histo)
  BY LinkTypes
<1>2. 2 + k = s /\ <<f, s>> \in FE \X Clips /\ s - 1 \in Producers /\ (s - 1) + 1 = s /\ s # 3 + Tiers
  BY <1>1, PipelineAssumption DEF Producers, Clips
<1>3. /\ z # <<>> /\ out[<<f, s>>] = <<>> /\ UNCHANGED <<pc, published>>
      /\ pc[<<f, s>>] \notin {"exit", "returned"}
      /\ clip' = [clip EXCEPT ![<<f, s>>] = Tail(@)]
      /\ out' = [out EXCEPT ![<<f, s>>] = y]
  <2>1. Pop(<<f, s>>) /\ out' = [out EXCEPT ![<<f, s>>] = y] /\ UNCHANGED <<pc, published>>
    BY <1>2 DEF PopHisto
  <2> QED BY <2>1 DEF Pop, InCore
<1>4. DOMAIN clip = FE \X Clips /\ DOMAIN out = FE \X Stages
  BY DEF Types, Shape
<1> HIDE DEF k
<1>5. Head(z) \in Histo /\ Tail(z) \in Seq(Histo)
  BY <1>1, <1>3, HeadTailProperties
<1>6. PICK x \in Histo : x = Head(z)
  BY <1>5
<1>7. PICK u \in Seq(Histo) : u = Append(rd[s], x)
  BY <1>1, <1>6, AppendProperties
<1> DEFINE rd1 == [i \in Readers |-> IF i = s THEN u ELSE rd[i]]
<1>8. /\ rd1 \in Maps(Readers, Seq(Histo)) /\ rd1[s] = u
      /\ \A i \in Readers : i # s => rd1[i] = rd[i]
  BY <1>1, <1>7 DEF Maps
<1>9. \A j \in Producers : j \in Nat /\ j + 1 \in Readers /\ (j # 2 => j \in Readers)
  BY PipelineAssumption DEF Producers, Readers
<1> HIDE DEF rd1
<1>10. rd1[3 + Tiers] = <<>>
  <2>1. 3 + Tiers \in Readers
    BY PipelineAssumption DEF Readers
  <2> QED BY <1>2, <1>8, <2>1 DEF Chain
<1>11. clip'[<<f, s>>] = Tail(z) /\ out'[<<f, s>>] = y
  BY <1>1, <1>2, <1>3, <1>4
<1>12. Link(f, s, rd1)'
  <2> DEFINE m == Analysed(k, rd[s])
             v == rd[s + 1]
             w == clip[<<f, s + 1>>]
  <2>1. Link(f, s, rd)
    BY DEF Chain
  <2>2. Made(f, s, rd) = Cat(m, <<>>)
    BY <1>2, <1>3 DEF Made, Ended, k
  <2>3. m \in Seq(Histo) /\ v \in Seq(Histo) /\ w \in Seq(Histo)
    BY <1>1, AnalysedFacts
  <2>4. Cat(Cat(v, w), <<>>) = Cat(m, <<>>)
    BY <1>3, <2>1, <2>2 DEF Link
  <2>5. rd1[s + 1] = v /\ clip'[<<f, s + 1>>] = w
    <3>1. s + 1 # s
      BY <1>1
    <3> QED BY <1>3, <1>4, <1>8, <1>9, <3>1
  <2>6. Analysed(k, u) = Cat(m, y)
    BY <1>1, <1>6, <1>7, AnalysedFacts
  <2>7. Analysed(k, u) \in Seq(Histo)
    BY <1>1, AnalysedFacts
  <2>8. Made(f, s, rd1)' = Cat(Analysed(k, u), <<>>)
    BY <1>2, <1>3, <1>8 DEF Made, Ended, k
  <2> HIDE DEF m, v, w, y
  <2>9. Cat(v, w) = m
    <3>1. Cat(v, w) \in Seq(Histo)
      BY <2>3, CatFacts
    <3> QED BY <2>3, <2>4, <3>1, CatFacts
  <2>10. Made(f, s, rd1)' = Cat(m, y)
    <3>1. Cat(Analysed(k, u), <<>>) = Analysed(k, u)
      BY <2>7, CatFacts
    <3> QED BY <2>6, <2>8, <3>1
  <2> QED BY <1>11, <2>5, <2>9, <2>10 DEF Link
<1>13. Link(f, s - 1, rd1)'
  <2> DEFINE o == out[<<f, s - 1>>]
             p == s - 1
  <2>1. Cat(u, Tail(z)) = Cat(rd[s], z)
    <3> DEFINE v == rd[s]
    <3>1. v \in Seq(Histo)
      BY <1>1
    <3> HIDE DEF v, z
    <3>2. Cat(Append(v, Head(z)), Tail(z)) = Cat(v, z)
      BY <1>1, <1>3, <3>1, TakeOver
    <3> QED BY <1>6, <1>7, <3>2 DEF v
  <2>2. Cat(Cat(rd[s], z), o) = Made(f, p, rd)
    BY <1>2 DEF Chain, Link
  <2>3. out'[<<f, p>>] = o
    <3>1. p # s
      BY <1>1
    <3> QED BY <1>3, <1>4, <3>1
  <2>4. Made(f, p, rd1)' = Made(f, p, rd)
    <3>1. p # s /\ p \in Producers
      BY <1>1, <1>2
    <3> HIDE DEF p
    <3>2. p # 2 => rd1[p] = rd[p]
      BY <1>8, <1>9, <3>1
    <3> QED BY <1>3, <3>2 DEF Made, Ended
  <2> QED BY <1>2, <1>8, <1>11, <2>1, <2>2, <2>3, <2>4 DEF Link
<1>14. ASSUME NEW j \in Producers, j # s, j # s - 1 PROVE Link(f, j, rd1)'
  <2>1. j + 1 # s
    BY <1>1, <1>9, <1>14
  <2>2. SameLink(f, j)
    BY <1>3, <1>4, <1>14, <2>1 DEF SameLink, Ended
  <2>3. Link(f, j, rd)'
    BY <2>2, LinkStays DEF Chain
  <2>4. rd1[j + 1] = rd[j + 1] /\ (j # 2 => rd1[j] = rd[j])
    BY <1>8, <1>9, <1>14, <2>1
  <2> QED BY <2>3, <2>4 DEF Link, Made
<1>15. Chain(f, rd1)'
  BY <1>10, <1>12, <1>13, <1>14 DEF Chain
<1> QED BY <1>8, <1>15

(* end() of a tier. *)
LEMMA EndChain ==
    ASSUME Types, OrderInv, NEW f \in FE, NEW s \in Producers, NEW rd \in Maps(Readers, Seq(Histo)),
           Chain(f, rd), End(<<f, s>>)
    PROVE  Chain(f, rd)'
<1> DEFINE x == Summary(s - 2)
<1>1. <<f, s>> \in FE \X Stages /\ s \in Nat
  BY LinkTypes
<1>2. s > 2 /\ s # 2
  BY <1>1 DEF End, Types, Shape
<1>3. /\ s - 2 \in Nat \ {0} /\ rd[s] \in Seq(Histo)
      /\ rd[s + 1] \in Seq(Histo) /\ clip[<<f, s + 1>>] \in Seq(Histo)
  BY <1>2, LinkTypes
<1>4. DOMAIN pc = FE \X Stages /\ DOMAIN out = FE \X Stages
  BY DEF Types, TypeOK, Shape
<1>5. /\ pc[<<f, s>>] = "end" /\ UNCHANGED <<clip, published>>
      /\ pc' = [pc EXCEPT ![<<f, s>>] = "exit"]
      /\ out' = [out EXCEPT ![<<f, s>>] = One(x)]
  BY DEF End, ThreadGoto, One
<1>6. out[<<f, s>>] = <<>>
  BY <1>1, <1>5 DEF OrderInv, OutInv
<1>7. pc'[<<f, s>>] = "exit" /\ out'[<<f, s>>] = One(x)
  BY <1>1, <1>4, <1>5
<1>8. Link(f, s, rd)'
  <2> DEFINE m == Analysed(s - 2, rd[s])
             v == rd[s + 1]
             w == clip[<<f, s + 1>>]
  <2>1. m \in Seq(Histo) /\ v \in Seq(Histo) /\ w \in Seq(Histo)
    BY <1>3, AnalysedFacts
  <2>2. Cat(Cat(v, w), <<>>) = Cat(m, <<>>)
    BY <1>2, <1>5, <1>6 DEF Chain, Link, Made, Ended
  <2>3. Made(f, s, rd)' = Cat(m, One(x))
    BY <1>2, <1>7 DEF Made, Ended
  <2> HIDE DEF m, v, w
  <2>4. Cat(v, w) = m
    <3>1. Cat(v, w) \in Seq(Histo)
      BY <2>1, CatFacts
    <3> QED BY <2>1, <2>2, <3>1, CatFacts
  <2> QED BY <1>5, <1>7, <2>3, <2>4 DEF Link, v, w
<1>9. ASSUME NEW j \in Producers, j # s PROVE Link(f, j, rd)'
  <2>1. SameLink(f, j)
    BY <1>4, <1>5, <1>9 DEF SameLink, Ended
  <2> QED BY <2>1, LinkStays DEF Chain
<1> QED BY <1>8, <1>9 DEF Chain

(* The other steps of the thread. *)
LEMMA GotoChain ==
    ASSUME Types, NEW f \in FE, NEW s \in Producers, NEW rd, Chain(f, rd),
           Wait(<<f, s>>) \/ CoreReturn(<<f, s>>) \/ IsDone(<<f, s>>) \/ Return(<<f, s>>)
    PROVE  Chain(f, rd)'
<1> DEFINE t == <<f, s>>
<1>1. t \in FE \X Stages /\ s \in Nat /\ (s # 2 => s > 2)
  BY PipelineAssumption DEF Producers, Stages
<1>2. DOMAIN pc = FE \X Stages
  BY DEF Types, TypeOK
<1>3. UNCHANGED <<clip, out, published>>
  BY DEF Wait, CoreReturn, IsDone, Return
<1>4. \E v : pc' = [pc EXCEPT ![t] = v]
  BY DEF Wait, CoreReturn, IsDone, Return, ThreadGoto
<1>5. s # 2 => (pc'[t] \in {"exit", "returned"} <=> pc[t] \in {"exit", "returned"})
  <2> SUFFICES ASSUME s > 2
               PROVE  pc'[t] \in {"exit", "returned"} <=> pc[t] \in {"exit", "returned"}
    BY <1>1
  <2>1. CASE Wait(t) \/ IsDone(t) \/ Return(t)
    BY <1>1, <1>2, <2>1 DEF Wait, IsDone, Return, ThreadGoto
  <2>2. CASE CoreReturn(t)
    <3>1. pc[t] \in {"core1", "core2", "core3"} /\ pc'[t] = AfterCore(t)
      BY <1>1, <1>2, <2>2 DEF CoreReturn, InCore, ThreadGoto
    <3>2. AfterCore(t) \in {"isDone", "core3", "end"}
      BY <3>1 DEF AfterCore
    <3> QED BY <3>1, <3>2
  <2> QED BY <2>1, <2>2
<1>6. ASSUME NEW j \in Producers PROVE SameLink(f, j)
  <2>1. CASE j = s
    BY <1>3, <1>5, <2>1 DEF SameLink, Ended
  <2>2. CASE j # s
    <3>1. <<f, j>> \in FE \X Stages /\ <<f, j>> # t
      BY <2>2, PipelineAssumption DEF Producers, Stages
    <3>2. pc'[<<f, j>>] = pc[<<f, j>>]
      BY <1>2, <1>4, <3>1
    <3> QED BY <1>3, <3>2 DEF SameLink, Ended
  <2> QED BY <2>1, <2>2
<1> QED BY <1>6, ChainStays

(* The processor, and the threads of the other front ends. *)
LEMMA ElsewhereChain ==
    ASSUME Types, NEW f \in FE, NEW rd, Chain(f, rd),
           NEW t \in FE \X Stages, t[1] # f \/ t[2] = 1, ThreadStep(t)
    PROVE  Chain(f, rd)'
<1>1. /\ t[1] \in FE /\ t[2] \in Nat \ {0} /\ t = <<t[1], t[2]>>
  BY Pairs
<1>2. /\ DOMAIN clip = FE \X Clips /\ DOMAIN out = FE \X Stages /\ DOMAIN pc = FE \X Stages
      /\ DOMAIN published = FE
  BY DEF Types, TypeOK, Shape
<1>3. t[2] > 2 => 2 + (t[2] - 2) = t[2]
  BY <1>1
<1>4. /\ UNCHANGED pc \/ \E v : pc' = [pc EXCEPT ![t] = v]
      /\ UNCHANGED out \/ \E v : out' = [out EXCEPT ![t] = v]
      /\ UNCHANGED published \/ (t[2] = 2 /\ \E v : published' = [published EXCEPT ![t[1]] = v])
      /\ \/ UNCHANGED clip
         \/ \E v : clip' = [clip EXCEPT ![t] = v]
         \/ \E v : clip' = [clip EXCEPT ![<<t[1], t[2] + 1>>] = v]
  <2>1. CASE Wait(t) \/ CoreReturn(t) \/ IsDone(t) \/ End(t) \/ Return(t)
    BY <2>1 DEF Wait, CoreReturn, IsDone, End, Return, ThreadGoto
  <2>2. CASE PushOut(t)
    BY <2>2 DEF PushOut, Push
  <2>3. CASE PopStep(t)
    BY <1>1, <1>3, <2>3 DEF PopStep, PopRawData, PopData, PopHisto, Pop
  <2> QED BY <2>1, <2>2, <2>3 DEF ThreadStep
<1>5. ASSUME NEW j \in Producers PROVE SameLink(f, j)
  <2>1. j \in Nat /\ j >= 2 /\ <<f, j>> \in FE \X Stages /\ <<f, j + 1>> \in FE \X Clips
    BY PipelineAssumption DEF Producers, Stages, Clips
  <2>2. <<f, j>> # t /\ <<f, j + 1>> # t /\ <<f, j + 1>> # <<t[1], t[2] + 1>>
    BY <1>1, <2>1
  <2> DEFINE u == <<f, j>>
             w == <<f, j + 1>>
             d == <<t[1], t[2] + 1>>
  <2>6. u \in FE \X Stages /\ w \in FE \X Clips /\ u # t /\ w # t /\ w # d
    BY <2>1, <2>2
  <2>7. \/ UNCHANGED clip
        \/ \E v : clip' = [clip EXCEPT ![t] = v]
        \/ \E v : clip' = [clip EXCEPT ![d] = v]
    BY <1>4
  <2> HIDE DEF u, w, d
  <2>3. pc'[u] = pc[u] /\ out'[u] = out[u]
    BY <1>2, <1>4, <2>6
  <2>4. clip'[w] = clip[w]
    BY <1>2, <2>6, <2>7
  <2>5. published'[f] = published[f]
    BY <1>2, <1>4
  <2> QED BY <2>3, <2>4, <2>5 DEF SameLink, Ended, u, w
<1> QED BY <1>5, ChainStays

(* Every step keeps the links. *)
LEMMA TierStep == Types /\ OrderInv /\ TierInv /\ [Next]_vars => TierInv'
<1> SUFFICES ASSUME Types, OrderInv, TierInv, [Next]_vars, NEW f \in FE
             PROVE  \E rd \in Maps(Readers, Seq(Histo)) : Chain(f, rd)'
  BY DEF TierInv
<1>1. PICK rd \in Maps(Readers, Seq(Histo)) : Chain(f, rd)
  BY DEF TierInv
<1>2. \A j \in Producers : j + 1 # 1 /\ <<f, j + 1>> \in FE \X Clips
  BY PipelineAssumption DEF Producers, Clips
<1>3. DOMAIN clip = FE \X Clips
  BY DEF Types, Shape
<1>4. CASE (\E g \in FE, kind \in {"data", "void"} : PushRawData(g, kind)) \/ PushEndOfIteration
  <2>1. UNCHANGED <<pc, out, published>>
    BY <1>4 DEF PushRawData, PushEndOfIteration
  <2>2. \A j \in Producers : clip'[<<f, j + 1>>] = clip[<<f, j + 1>>]
    <3>1. CASE PushEndOfIteration
      BY <1>2, <3>1 DEF PushEndOfIteration
    <3>2. ASSUME NEW g \in FE, NEW kind \in {"data", "void"}, PushRawData(g, kind)
          PROVE  \A j \in Producers : clip'[<<f, j + 1>>] = clip[<<f, j + 1>>]
      <4>1. \E v : clip' = [clip EXCEPT ![<<g, 1>>] = v]
        BY <3>2 DEF PushRawData, Push
      <4> QED BY <1>2, <1>3, <4>1
    <3> QED BY <1>4, <3>1, <3>2
  <2>3. \A j \in Producers : SameLink(f, j)
    BY <2>1, <2>2 DEF SameLink, Ended
  <2> QED BY <1>1, <2>3, ChainStays
<1>5. CASE UNCHANGED vars \/ (MainStep /\ ~PushEndOfIteration)
  <2>1. UNCHANGED <<clip, pc, out, published>>
    BY <1>5 DEF vars, pipeVars, MainStep, Finish, JoinProcs, JoinHistogrammers, JoinAnalyses
  <2>2. \A j \in Producers : SameLink(f, j)
    BY <2>1 DEF SameLink, Ended
  <2> QED BY <1>1, <2>2, ChainStays
<1>6. ASSUME NEW t \in FE \X Stages, ThreadStep(t)
      PROVE  \E rd1 \in Maps(Readers, Seq(Histo)) : Chain(f, rd1)'
  <2>1. t[2] \in Stages /\ t[2] \in Nat \ {0} /\ t = <<t[1], t[2]>>
    BY Pairs
  <2>2. CASE t[1] # f \/ t[2] = 1
    BY <1>1, <1>6, <2>2, ElsewhereChain
  <2>3. CASE t[1] = f /\ t[2] # 1
    <3>1. PICK s \in Producers : t = <<f, s>> /\ t[2] = s /\ s \in Nat
      BY <2>1, <2>3, PipelineAssumption DEF Stages, Producers
    <3>2. CASE PushOut(t)
      BY <1>1, <3>1, <3>2, PushChain
    <3>3. CASE PopStep(t)
      <4>1. CASE s = 2
        <5>1. PopData(f)
          BY <3>1, <3>3, <4>1 DEF PopStep
        <5> QED BY <1>1, <5>1, PublishChain
      <4>2. CASE s # 2
        <5>1. s > 2
          BY <4>2, PipelineAssumption DEF Producers
        <5>2. PopHisto(f, s - 2)
          BY <2>3, <3>1, <3>3, <5>1 DEF PopStep
        <5> QED BY <1>1, <5>1, <5>2, AnalyseChain
      <4> QED BY <4>1, <4>2
    <3>4. CASE End(t)
      BY <1>1, <3>1, <3>4, EndChain
    <3>5. CASE Wait(t) \/ CoreReturn(t) \/ IsDone(t) \/ Return(t)
      BY <1>1, <3>1, <3>5, GotoChain
    <3> QED BY <1>6, <3>2, <3>3, <3>4, <3>5 DEF ThreadStep
  <2> QED BY <2>2, <2>3
<1> QED BY <1>4, <1>5, <1>6 DEF Next

(* Nothing has been produced. *)
LEMMA TierInit == Init => TierInv
<1> SUFFICES ASSUME Init, NEW f \in FE
             PROVE  \E rd \in Maps(Readers, Seq(Histo)) : Chain(f, rd)
  BY DEF TierInv
<1> DEFINE rd == [i \in Readers |-> <<>>]
<1>1. rd \in Maps(Readers, Seq(Histo))
  BY EmptySeq DEF Maps
<1>2. 3 + Tiers \in Readers /\ \A j \in Producers :
         /\ j + 1 \in Readers /\ <<f, j>> \in FE \X Stages /\ <<f, j + 1>> \in FE \X Clips
         /\ j # 2 => j \in Readers /\ j - 2 \in Nat
  BY PipelineAssumption DEF Producers, Readers, Stages, Clips
<1>3. \A i \in Readers : rd[i] = <<>>
  OBVIOUS
<1> HIDE DEF rd
<1>4. ASSUME NEW j \in Producers PROVE Link(f, j, rd)
  <2>1. clip[<<f, j + 1>>] = <<>> /\ out[<<f, j>>] = <<>> /\ published[f] = <<>>
        /\ pc[<<f, j>>] \notin {"exit", "returned"}
    BY <1>2 DEF Init
  <2>2. Cat(<<>>, <<>>) = <<>>
    BY DEF Cat
  <2>3. Made(f, j, rd) = <<>>
    <3>1. CASE j = 2
      BY <2>1, <3>1, HistogramsFacts DEF Made
    <3>2. CASE j # 2
      <4>1. rd[j] = <<>> /\ j - 2 \in Nat
        BY <1>2, <1>3, <3>2
      <4>2. Analysed(j - 2, <<>>) = <<>>
        BY <4>1, AnalysedFacts
      <4>3. Ended(f, j) = <<>>
        BY <2>1 DEF Ended
      <4> QED BY <2>2, <3>2, <4>1, <4>2, <4>3 DEF Made
    <3> QED BY <3>1, <3>2
  <2>4. rd[j + 1] = <<>>
    BY <1>2, <1>3
  <2> QED BY <2>1, <2>2, <2>3, <2>4 DEF Link
<1>5. Chain(f, rd)
  BY <1>2, <1>3, <1>4 DEF Chain
<1> QED BY <1>1, <1>5

----------------------------------------------------------------------------
(* The end of the scan *)

(* TierOutput is a recursive function: one that satisfies its equation. *)
IsTiers(g, n) ==
    g = [t \in 0..n |->
           [f \in FE |-> IF t = 0 THEN AllHistograms(f)
                         ELSE Append(Analysed(t, g[t - 1][f]), Summary(t))]]

(* There is one for every number of tiers. *)
LEMMA TiersExist == \A n \in Nat : \E g : IsTiers(g, n)
<1> DEFINE T == {n \in Nat : \E g : IsTiers(g, n)}
           First == [f \in FE |-> AllHistograms(f)]
           Then(t, o) == [f \in FE |-> Append(Analysed(t, o[f]), Summary(t))]
<1>1. \A g, n : IsTiers(g, n) <=>
          g = [t \in 0..n |-> IF t = 0 THEN First ELSE Then(t, g[t - 1])]
  <2> SUFFICES ASSUME NEW g, NEW n
               PROVE  \A t \in 0..n : [f \in FE |-> IF t = 0 THEN AllHistograms(f)
                                           ELSE Append(Analysed(t, g[t - 1][f]), Summary(t))]
                          = IF t = 0 THEN First ELSE Then(t, g[t - 1])
    BY DEF IsTiers
  <2> TAKE t \in 0..n
  <2>1. CASE t = 0
    BY <2>1
  <2>2. CASE t # 0
    BY <2>2
  <2> QED BY <2>1, <2>2
<1> HIDE DEF First, Then
<1>2. 0 \in T
  <2> DEFINE g == [t \in 0..0 |-> First]
  <2>1. g = [t \in 0..0 |-> IF t = 0 THEN First ELSE Then(t, g[t - 1])]
    <3>1. \A t \in 0..0 : t = 0
      OBVIOUS
    <3> QED BY <3>1
  <2> HIDE DEF g
  <2>2. IsTiers(g, 0)
    BY <1>1, <2>1
  <2> QED BY <2>2
<1>3. ASSUME NEW n \in Nat, n \in T PROVE n + 1 \in T
  <2>1. PICK g : IsTiers(g, n)
    BY <1>3
  <2>2. \A t \in 0..n : g[t] = IF t = 0 THEN First ELSE Then(t, g[t - 1])
    <3>1. g = [t \in 0..n |-> IF t = 0 THEN First ELSE Then(t, g[t - 1])]
      BY <1>1, <2>1
    <3> QED BY <3>1
  <2> DEFINE last == Then(n + 1, g[n])
             e == [t \in 0..(n + 1) |-> IF t = n + 1 THEN last ELSE g[t]]
  <2>3. e[n + 1] = last /\ \A t \in 0..n : e[t] = g[t]
    <3>1. n + 1 \in 0..(n + 1) /\ \A t \in 0..n : t \in 0..(n + 1) /\ t # n + 1
      OBVIOUS
    <3> HIDE DEF last
    <3> QED BY <3>1
  <2>4. e = [t \in 0..(n + 1) |-> e[t]]
    OBVIOUS
  <2> HIDE DEF e
  <2>5. ASSUME NEW t \in 0..(n + 1) PROVE e[t] = IF t = 0 THEN First ELSE Then(t, e[t - 1])
    <3>1. CASE t = n + 1
      <4>1. t # 0 /\ t - 1 = n /\ n \in 0..n
        BY <3>1
      <4> QED BY <2>3, <3>1, <4>1
    <3>2. CASE t \in 0..n
      <4>1. t # 0 => t - 1 \in 0..n
        BY <3>2
      <4> QED BY <2>2, <2>3, <3>2, <4>1
    <3> QED BY <3>1, <3>2
  <2>6. IsTiers(e, n + 1)
    BY <1>1, <2>4, <2>5
  <2> QED BY <2>6
<1> HIDE DEF T
<1>4. Nat \subseteq T
  BY <1>2, <1>3, NatAll
<1> QED BY <1>4 DEF T

(* So that TierOutput has the values its definition says. *)
LEMMA TierOutputFacts ==
    ASSUME NEW f \in FE
    PROVE  /\ TierOutput[0][f] = AllHistograms(f)
           /\ \A t \in 1..Tiers :
                 TierOutput[t][f] = Append(Analysed(t, TierOutput[t - 1][f]), Summary(t))
<1>1. TierOutput = CHOOSE g : IsTiers(g, Tiers)
  BY DEF TierOutput, IsTiers
<1>2. IsTiers(TierOutput, Tiers)
  <2>1. \E g : IsTiers(g, Tiers)
    BY TiersExist, PipelineAssumption
  <2> QED BY <1>1, <2>1
<1> DEFINE G == TierOutput
<1>3. G = [t \in 0..Tiers |->
              [h \in FE |-> IF t = 0 THEN AllHistograms(h)
                            ELSE Append(Analysed(t, G[t - 1][h]), Summary(t))]]
  BY <1>2 DEF IsTiers
<1> HIDE DEF G
<1>4. \A t \in 0..Tiers : G[t][f] = IF t = 0 THEN AllHistograms(f)
                                    ELSE Append(Analysed(t, G[t - 1][f]), Summary(t))
  <2> TAKE t \in 0..Tiers
  <2>1. G[t] = [h \in FE |-> IF t = 0 THEN AllHistograms(h)
                             ELSE Append(Analysed(t, G[t - 1][h]), Summary(t))]
    BY <1>3, Zenon
  <2> QED BY <2>1, Zenon
<1>5. 0 \in 0..Tiers /\ \A t \in 1..Tiers : t \in 0..Tiers /\ t # 0
  BY PipelineAssumption
<1> QED BY <1>4, <1>5 DEF G

(* The threads of an active front end have returned and left nothing, but   *)
(* for the raw data in front of a segment processor.                        *)
LEMMA AllOver ==
    ASSUME Types, OrderInv, mainPc = "done", NEW f \in active
    PROVE  /\ f \in FE
           /\ \A s \in Stages : pc[<<f, s>>] = "returned" /\ out[<<f, s>>] = <<>>
           /\ \A s \in Stages : s > 1 \/ style = "drain" => clip[<<f, s>>] = <<>>
<1>1. f \in FE
  BY DEF Types, TypeOK
<1>2. ASSUME NEW s \in Stages
      PROVE  /\ pc[<<f, s>>] = "returned" /\ out[<<f, s>>] = <<>>
             /\ s > 1 \/ style = "drain" => clip[<<f, s>>] = <<>>
  <2>1. <<f, s>> \in FE \X Stages
    BY <1>1
  <2>2. pc[<<f, s>>] = "returned"
    BY DEF OrderInv, JoinInv, AllReturned
  <2>3. out[<<f, s>>] = <<>>
    BY <2>1, <2>2 DEF OrderInv, OutInv
  <2>4. s > 1 \/ style = "drain" => clip[<<f, s>>] = <<>>
    BY <2>1, <2>2 DEF OrderInv, DrainInv, Drains
  <2> QED BY <2>2, <2>3, <2>4
<1> QED BY <1>1, <1>2

(* Every iteration has been published. *)
LEMMA AllPublished ==
    ASSUME Types, OrderInv, FlowInv, mainPc = "done", BacklogFits, NEW f \in active
    PROVE  Len(published[f]) = iter - 1
<1> DEFINE r == clip[<<f, 1>>]
           len == Len(published[f])
<1>1. f \in FE /\ 1 \in Stages /\ 2 \in Stages
  BY AllOver, PipelineAssumption DEF Stages
<1>2. /\ pc[<<f, 1>>] = "returned" /\ out[<<f, 1>>] = <<>> /\ clip[<<f, 2>>] = <<>>
      /\ style = "drain" => r = <<>>
  BY <1>1, AllOver
<1>3. r \in Seq(Raw) /\ iter \in Nat /\ published[f] \in Seq(HistoState)
  BY <1>1, FrontEndTypes
<1>4. len \in Nat /\ len + 1 \in Nat
  BY <1>3, LenProperties
<1>5. Queued(f) = <<>>
  BY <1>2 DEF Queued, Cat
<1>6. PICK b \in Nat \ {0} : FlowOf(f, b)
  BY <1>1 DEF FlowInv
<1>7. /\ Numbered(<<>>, len + 1, b) /\ Numbered(r, b, iter)
      /\ iter <= 3 => iter <= b
  BY <1>2, <1>5, <1>6 DEF FlowOf, Flow, Backlog
<1>8. len + 1 = b
  BY <1>4, <1>7, NumberedEmpty
<1>9. b <= iter
  BY <1>3, <1>7, NumberedBounds
<1>10. b = iter
  <2>1. CASE style = "drain"
    BY <1>2, <1>3, <1>7, <2>1, NumberedEmpty
  <2>2. CASE iter - 1 <= 2
    BY <1>3, <1>7, <1>9, <2>2
  <2> QED BY <2>1, <2>2 DEF BacklogFits
<1> QED BY <1>4, <1>8, <1>10

(* The last clipboard holds what the tiers make of the histograms. *)
LEMMA AllAnalysed ==
    ASSUME Types, OrderInv, TierInv, mainPc = "done", NEW f \in active
    PROVE  clip[<<f, 3 + Tiers>>] = TierOutput[Tiers][f]
<1>1. f \in FE
  BY AllOver
<1>2. PICK rd \in Maps(Readers, Seq(Histo)) : Chain(f, rd)
  BY <1>1 DEF TierInv
<1>3. ASSUME NEW s \in Producers
      PROVE  Cat(rd[s + 1], clip[<<f, s + 1>>]) = Made(f, s, rd)
  <2>1. s \in Stages
    BY PipelineAssumption DEF Producers, Stages
  <2>2. out[<<f, s>>] = <<>>
    BY <2>1, AllOver
  <2>3. Cat(Cat(rd[s + 1], clip[<<f, s + 1>>]), <<>>) = Made(f, s, rd)
    BY <1>2, <2>2 DEF Chain, Link
  <2> DEFINE u == rd[s + 1]
             z == clip[<<f, s + 1>>]
  <2>4. u \in Seq(Histo) /\ z \in Seq(Histo)
    BY <1>1, LinkTypes
  <2> HIDE DEF u, z
  <2>5. Cat(u, z) \in Seq(Histo)
    BY <2>4, CatFacts
  <2>6. Cat(Cat(u, z), <<>>) = Cat(u, z)
    BY <2>5, CatFacts
  <2> QED BY <2>3, <2>6 DEF u, z
<1>4. ASSUME NEW s \in Producers, s # 2 PROVE rd[s] = Made(f, s - 1, rd)
  <2>1. s - 1 \in Producers /\ (s - 1) + 1 = s /\ s \in Stages /\ s > 1 /\ s > 2
    BY <1>4, PipelineAssumption DEF Producers, Stages
  <2>2. clip[<<f, s>>] = <<>>
    BY <2>1, AllOver
  <2>3. Cat(rd[s], <<>>) = Made(f, s - 1, rd)
    BY <1>3, <2>1, <2>2
  <2>4. rd[s] \in Seq(Histo)
    BY <1>1, <2>1, LinkTypes
  <2> QED BY <2>3, <2>4, CatFacts
<1>5. ASSUME NEW t \in 1..Tiers
      PROVE  Made(f, 2 + t, rd) = Append(Analysed(t, rd[2 + t]), Summary(t))
  <2>1. 2 + t \in Producers /\ 2 + t # 2 /\ (2 + t) - 2 = t /\ 2 + t \in Stages /\ 2 + t > 2 /\ t \in Nat
    BY PipelineAssumption DEF Producers, Stages
  <2>2. pc[<<f, 2 + t>>] = "returned"
    BY <2>1, AllOver
  <2>3. Made(f, 2 + t, rd) = Cat(Analysed(t, rd[2 + t]), One(Summary(t)))
    BY <2>1, <2>2 DEF Made, Ended
  <2>4. rd[2 + t] \in Seq(Histo)
    BY <1>1, <2>1, LinkTypes
  <2>5. Analysed(t, rd[2 + t]) \in Seq(Histo)
    BY <2>1, <2>4, AnalysedFacts
  <2>6. Summary(t) \in Histo
    BY <2>1, EmptySeq DEF Summary, Histo
  <2>7. Append(Analysed(t, rd[2 + t]), Summary(t)) = Cat(Analysed(t, rd[2 + t]), One(Summary(t)))
    BY <2>5, <2>6, OneHisto
  <2> QED BY <2>3, <2>7
<1> DEFINE T == {t \in Nat : t \in 0..Tiers => TierOutput[t][f] = Made(f, 2 + t, rd)}
<1>6. 0 \in T
  <2>1. Made(f, 2 + 0, rd) = Histograms(published[f])
    BY DEF Made
  <2>2. TierOutput[0][f] = Made(f, 2 + 0, rd)
    BY <1>1, <2>1, AllHistogramsFacts, TierOutputFacts
  <2> QED BY <2>2
<1>7. ASSUME NEW t \in Nat, t \in T PROVE t + 1 \in T
  <2> SUFFICES ASSUME t + 1 \in 0..Tiers
               PROVE  TierOutput[t + 1][f] = Made(f, 2 + (t + 1), rd)
    OBVIOUS
  <2>1. /\ t + 1 \in 1..Tiers /\ t \in 0..Tiers /\ (t + 1) - 1 = t
        /\ 2 + (t + 1) \in Producers /\ 2 + (t + 1) # 2 /\ (2 + (t + 1)) - 1 = 2 + t
    BY PipelineAssumption DEF Producers
  <2>2. TierOutput[t][f] = Made(f, 2 + t, rd)
    BY <1>7, <2>1
  <2>3. rd[2 + (t + 1)] = Made(f, 2 + t, rd)
    BY <1>4, <2>1
  <2>4. TierOutput[t + 1][f] = Append(Analysed(t + 1, TierOutput[t][f]), Summary(t + 1))
    BY <1>1, <2>1, TierOutputFacts
  <2>5. Made(f, 2 + (t + 1), rd) = Append(Analysed(t + 1, rd[2 + (t + 1)]), Summary(t + 1))
    BY <1>5, <2>1
  <2> QED BY <2>2, <2>3, <2>4, <2>5
<1>8. TierOutput[Tiers][f] = Made(f, 2 + Tiers, rd)
  <2> HIDE DEF T
  <2>1. Nat \subseteq T
    BY <1>6, <1>7, NatAll
  <2>2. Tiers \in T /\ Tiers \in 0..Tiers
    BY <2>1, PipelineAssumption
  <2> QED BY <2>2 DEF T
<1>9. 2 + Tiers \in Producers /\ (2 + Tiers) + 1 = 3 + Tiers
  BY PipelineAssumption DEF Producers
<1>10. Cat(rd[3 + Tiers], clip[<<f, 3 + Tiers>>]) = Made(f, 2 + Tiers, rd)
  BY <1>3, <1>9
<1>11. clip[<<f, 3 + Tiers>>] \in Seq(Histo)
  BY <1>1, <1>9, LinkTypes
<1>12. Cat(<<>>, clip[<<f, 3 + Tiers>>]) = clip[<<f, 3 + Tiers>>]
  BY <1>11, CatFacts
<1> QED BY <1>2, <1>8, <1>10, <1>12 DEF Chain

(* At any time a published histogram holds the events of its own iteration, *)
(* whatever the threads were doing when the markers went by; and the scan   *)
(* leaves in the last clipboard exactly what a sequential run would: every  *)
(* iteration, the results of every tier on each histogram, and every        *)
(* summary. A processor that returns at markers (Rd53b, Itkpixv2) is only   *)
(* sure to have done so with at most two iterations.                        *)
THEOREM ResultsAreComplete == Spec => []ResultsComplete
<1>1. Types /\ OrderInv /\ FlowInv /\ TierInv => ResultsComplete
  BY FlowHistograms, AllPublished, AllAnalysed DEF ResultsComplete
<1>2. Init => Types /\ OrderInv /\ FlowInv /\ TierInv
  BY InitType, InitOrder, FlowInit, TierInit
<1>3. Types /\ OrderInv /\ FlowInv /\ TierInv /\ [Next]_vars
        => (Types /\ OrderInv /\ FlowInv /\ TierInv)'
  BY NextType, NextOrder, FlowStep, TierStep
<1> QED BY <1>1, <1>2, <1>3, PTL DEF Spec
============================================================================
