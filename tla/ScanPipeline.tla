--------------------------- MODULE ScanPipeline ---------------------------
(***************************************************************************)
(* The data pipeline of a scan: for every front end a raw data processor,  *)
(* a histogrammer and a chain of analysis tiers, each a thread, joined by  *)
(* clipboards; and the main thread, which runs the scan loops, then        *)
(* finishes the clipboards and joins the threads from upstream to          *)
(* downstream (ScanConsoleImpl::run).                                      *)
(*                                                                         *)
(* Thread <<f, s>> reads clipboard <<f, s>> and writes <<f, s+1>>.  A      *)
(* clipboard operation is one step and a wait is enabled exactly when its  *)
(* predicate holds; module ClipBoard looks inside those operations.        *)
(***************************************************************************)
EXTENDS SequenceOps

CONSTANTS NumFe,     \* entries of the Bookkeeper
          Actives,   \* the sets of ids whose "active" flag may be set
          Tiers,     \* tiers of the analysis hierarchy
          NumHisto,  \* histogramming algorithms of a histogrammer
          Styles,    \* the processors: "drain" (Rd53a, Fei4, Star) or
                     \* "segment" (Rd53b, Itkpixv2)
          MaxIter,   \* bound on the iterations of the scan's data loop
          MaxData    \* bound on the data containers pushed for a front end

FE == 0..(NumFe - 1)

ASSUME PipelineAssumption ==
    /\ NumFe \in Nat \ {0}
    /\ Actives \subseteq SUBSET FE
    /\ Tiers \in Nat \ {0}
    /\ NumHisto \in Nat
    /\ Styles \subseteq {"drain", "segment"}
    /\ MaxIter \in Nat
    /\ MaxData \in Nat

Stages == 1..(2 + Tiers)       \* 1: processor, 2: histogrammer, then analyses
Clips  == 1..(3 + Tiers)       \* 1: raw data, 2: data, 3: histograms, then results

VARIABLES
    active,    \* the active front ends of the connectivity file
    style,     \* the kind of raw data processor of the chips
    clip,      \* the queue of each clipboard
    done,      \* the done flag of each clipboard
    pc,        \* where each thread is in its process()
    out,       \* what a thread has produced and not pushed yet
    proc,      \* the raw data processor: label of the output container it has
               \* open (or 0), and whether its last input ended an iteration
    histo,     \* the histogrammer's current iteration
    mainPc,    \* where the main thread is
    feIdx,     \* the front end the main thread joins next
    tier,      \* the analysis tier the main thread joins next
    iter,      \* number of the current data loop iteration
    pushed,    \* history: the raw data containers pushed
    published  \* history: the histograms published, one per end of iteration

pipeVars == <<clip, done, pc, out, proc, histo, published>>
config == <<active, style>>
mainVars == <<config, mainPc, feIdx, tier, iter, pushed>>
vars == <<pipeVars, mainVars>>

(* A container carries the loop status of its iteration; "void" holds data  *)
(* that decode to no event, "eoi" marks the end of an iteration and has     *)
(* loop status {0}.                                                         *)
Container(kind, label, id) == [kind |-> kind, label |-> label, id |-> id]
EndOfIteration == Container("eoi", 0, 0)

NewIteration == [isNew |-> TRUE, label |-> 0, events |-> <<>>]

Init ==
    /\ active \in Actives
    /\ style \in Styles
    /\ clip = [c \in FE \X Clips |-> <<>>]
    /\ done = [c \in FE \X Clips |-> FALSE]
    /\ pc = [t \in FE \X Stages |-> IF t[1] \in active THEN "wait" ELSE "none"]
    /\ out = [t \in FE \X Stages |-> <<>>]
    /\ proc = [f \in FE |-> [label |-> 0, atMarker |-> FALSE]]
    /\ histo = [f \in FE |-> NewIteration]
    /\ mainPc = "scan"
    /\ feIdx = 0
    /\ tier = 1
    /\ iter = 1
    /\ pushed = [f \in FE |-> <<>>]
    /\ published = [f \in FE |-> <<>>]

----------------------------------------------------------------------------
(* The main thread: the data loop *)

Push(c, x) == clip' = [clip EXCEPT ![c] = Append(@, x)]

DataCount(f) == Len(Selected(pushed[f], [kind : {"data", "void"}, label : Nat, id : Nat]))

(* A container with the current loop status goes to one front end. *)
PushRawData(f, kind) ==
    /\ mainPc = "scan"
    /\ iter <= MaxIter
    /\ DataCount(f) < MaxData
    /\ LET x == Container(kind, iter, Len(pushed[f]) + 1)
       IN  /\ Push(<<f, 1>>, x)
           /\ pushed' = [pushed EXCEPT ![f] = Append(@, x)]
    /\ UNCHANGED <<done, pc, out, proc, histo, published, config, mainPc, feIdx, tier, iter>>

(* The data loop's iteration is over: every front end gets the marker. *)
PushEndOfIteration ==
    /\ mainPc = "scan"
    /\ iter <= MaxIter
    /\ clip' = [c \in FE \X Clips |->
                    IF c[2] = 1 THEN Append(clip[c], EndOfIteration) ELSE clip[c]]
    /\ pushed' = [f \in FE |-> Append(pushed[f], EndOfIteration)]
    /\ iter' = iter + 1
    /\ UNCHANGED <<done, pc, out, proc, histo, published, config, mainPc, feIdx, tier>>

----------------------------------------------------------------------------
(* The main thread: finishing and joining *)

MainGoto(l) == mainPc' = l /\ feIdx' = 0 /\ tier' = 1

(* Mutation: finish() does not set the flag. *)
FinishClipsNot(s) == UNCHANGED done

FinishClips(s) == done' = [c \in FE \X Clips |->
                              done[c] \/ (c[2] = s /\ c[1] \in active)]

(* finish() of one kind of clipboard for every active front end. *)
Finish(here, s, next) ==
    /\ mainPc = here
    /\ FinishClips(s)
    /\ MainGoto(next)
    /\ UNCHANGED <<clip, pc, out, proc, histo, published, config, iter, pushed>>

(* procs has an entry for every front end, and only those of the active     *)
(* ones have a thread: join() on any other dereferences a null pointer.     *)
JoinProcs ==
    /\ mainPc = "joinProcs"
    /\ \/ /\ feIdx \in active
          /\ pc[<<feIdx, 1>>] = "returned"
          /\ feIdx' = feIdx + 1
          /\ UNCHANGED <<mainPc, tier>>
       \/ /\ feIdx \in FE \ active
          /\ mainPc' = "crashed"
          /\ UNCHANGED <<feIdx, tier>>
       \/ /\ feIdx = NumFe
          /\ MainGoto("finishData")
    /\ UNCHANGED <<pipeVars, config, iter, pushed>>

(* Mutations: the histogrammers are not joined; the loop runs past its end. *)
JoinHistogrammersNot ==
    /\ mainPc = "joinHistogrammers"
    /\ MainGoto("finishHisto")
    /\ UNCHANGED <<pipeVars, config, iter, pushed>>

JoinHistogrammersPastEnd ==
    /\ mainPc = "joinHistogrammers"
    /\ \/ /\ feIdx \in 0..NumFe
          /\ feIdx \in active => pc[<<feIdx, 2>>] = "returned"
          /\ feIdx' = feIdx + 1
          /\ UNCHANGED <<mainPc, tier>>
       \/ /\ feIdx > NumFe
          /\ MainGoto("finishHisto")
    /\ UNCHANGED <<pipeVars, config, iter, pushed>>

(* histogrammers has an entry for every active front end. *)
JoinHistogrammers ==
    /\ mainPc = "joinHistogrammers"
    /\ \/ /\ feIdx \in FE
          /\ feIdx \in active => pc[<<feIdx, 2>>] = "returned"
          /\ feIdx' = feIdx + 1
          /\ UNCHANGED <<mainPc, tier>>
       \/ /\ feIdx = NumFe
          /\ MainGoto("finishHisto")
    /\ UNCHANGED <<pipeVars, config, iter, pushed>>

(* Each tier is joined, then its output clipboard finished, which is what   *)
(* lets the next tier return.                                               *)
JoinAnalyses ==
    /\ mainPc = "joinAnalyses"
    /\ \/ /\ feIdx \in active
          /\ tier <= Tiers
          /\ pc[<<feIdx, 2 + tier>>] = "returned"
          /\ done' = [done EXCEPT ![<<feIdx, 3 + tier>>] = TRUE]
          /\ tier' = tier + 1
          /\ UNCHANGED <<mainPc, feIdx>>
       \/ /\ feIdx \in FE
          /\ (feIdx \in active) => (tier > Tiers)
          /\ feIdx' = feIdx + 1
          /\ tier' = 1
          /\ UNCHANGED <<mainPc, done>>
       \/ /\ feIdx = NumFe
          /\ MainGoto("done")
          /\ UNCHANGED done
    /\ UNCHANGED <<clip, pc, out, proc, histo, published, config, iter, pushed>>

MainStep ==
    \/ PushEndOfIteration
    \/ Finish("scan", 1, "joinProcs")
    \/ JoinProcs
    \/ Finish("finishData", 2, "joinHistogrammers")
    \/ JoinHistogrammers
    \/ Finish("finishHisto", 3, "joinAnalyses")
    \/ JoinAnalyses

----------------------------------------------------------------------------
(* What the threads do with one input *)

(* FeDataProcessor::process_core.  A "drain" processor forwards what has    *)
(* events; a "segment" processor also pushes the empty container it opened  *)
(* after its last output when the iteration ends.                           *)
Decode(f, x) ==
    CASE x.kind = "data" -> <<x>>
      [] x.kind = "void" -> <<>>
      [] x.kind = "eoi"  -> IF proc[f].label = 0 THEN <<x>>
                            ELSE <<Container("void", proc[f].label, 0), x>>

(* A "segment" processor keeps a container open between two inputs, and its *)
(* process_core returns at the marker.                                      *)
ProcAfter(x) ==
    [label    |-> IF style = "segment" /\ x.kind = "data" THEN x.label ELSE 0,
     atMarker |-> style = "segment" /\ x.kind = "eoi"]

(* HistogrammerProcessor::process_core: the histograms of an iteration are  *)
(* created with the loop status of its first input.                         *)
Fill(h, x) ==
    [isNew  |-> FALSE,
     label  |-> IF h.isNew THEN x.label ELSE h.label,
     events |-> (IF h.isNew THEN <<>> ELSE h.events)
                    \o (IF x.kind = "data" THEN <<x>> ELSE <<>>)]

Histogram(algo, h) == [algo |-> algo, label |-> h.label, events |-> h.events, by |-> <<>>]

(* AnalysisProcessor::process_core: one result for the input, and the input *)
(* itself behind it unless this is the first tier.                          *)
Analyse(t, x) == <<[x EXCEPT !.by = Append(@, t)]>> \o (IF t > 1 THEN <<x>> ELSE <<>>)

(* AnalysisProcessor::end: what the tier has to say about the whole scan. *)
Summary(t) == [algo |-> 0, label |-> 0, events |-> <<>>, by |-> <<t>>]

----------------------------------------------------------------------------
(* The threads: process() *)

ThreadGoto(t, l) == pc' = [pc EXCEPT ![t] = l]

AtMarker(t) == t[2] = 1 /\ proc[t[1]].atMarker

InCore(t) == pc[t] \in {"core1", "core2", "core3"}

(* Where process() goes on after each call of process_core: only the        *)
(* analyses call end() before they return.                                  *)
AfterCore(t) ==
    CASE pc[t] = "core1" -> "isDone"
      [] pc[t] = "core2" -> "core3"
      [] pc[t] = "core3" -> IF t[2] > 2 THEN "end" ELSE "returned"

(* waitNotEmptyOrDone *)
Wait(t) ==
    /\ pc[t] = "wait"
    /\ clip[t] # <<>> \/ done[t]
    /\ ThreadGoto(t, "core1")
    /\ UNCHANGED <<clip, done, out, proc, histo, published, mainVars>>

(* popData in process_core, and the work on what it returns. *)
Pop(t) ==
    /\ InCore(t)
    /\ out[t] = <<>>
    /\ clip[t] # <<>>
    /\ ~AtMarker(t)
    /\ clip' = [clip EXCEPT ![t] = Tail(@)]

PopRawData(f) ==
    /\ Pop(<<f, 1>>)
    /\ LET x == Head(clip[<<f, 1>>])
       IN  /\ out' = [out EXCEPT ![<<f, 1>>] = Decode(f, x)]
           /\ proc' = [proc EXCEPT ![f] = ProcAfter(x)]
    /\ UNCHANGED <<done, pc, histo, published, mainVars>>

PopData(f) ==
    /\ Pop(<<f, 2>>)
    /\ LET x == Head(clip[<<f, 2>>])
           h == Fill(histo[f], x)
       IN  IF x.kind = "eoi"
           THEN /\ histo' = [histo EXCEPT ![f] = NewIteration]
                /\ published' = [published EXCEPT ![f] = Append(@, h)]
                /\ out' = [out EXCEPT ![<<f, 2>>] =
                              [a \in 1..NumHisto |-> Histogram(a, h)]]
           ELSE /\ histo' = [histo EXCEPT ![f] = h]
                /\ UNCHANGED <<published, out>>
    /\ UNCHANGED <<done, pc, proc, mainVars>>

PopHisto(f, t) ==
    /\ Pop(<<f, 2 + t>>)
    /\ out' = [out EXCEPT ![<<f, 2 + t>>] = Analyse(t, Head(clip[<<f, 2 + t>>]))]
    /\ UNCHANGED <<done, pc, proc, histo, published, mainVars>>

(* pushData of the thread's next product. *)
PushOut(t) ==
    /\ out[t] # <<>>
    /\ Push(<<t[1], t[2] + 1>>, Head(out[t]))
    /\ out' = [out EXCEPT ![t] = Tail(@)]
    /\ UNCHANGED <<done, pc, proc, histo, published, mainVars>>

(* process_core finds its input empty, or was ended by the marker. *)
CoreReturn(t) ==
    /\ InCore(t)
    /\ out[t] = <<>>
    /\ clip[t] = <<>> \/ AtMarker(t)
    /\ ThreadGoto(t, AfterCore(t))
    /\ proc' = IF t[2] = 1 THEN [proc EXCEPT ![t[1]].atMarker = FALSE] ELSE proc
    /\ UNCHANGED <<clip, done, out, histo, published, mainVars>>

(* Mutation: process() breaks out of its loop and returns at once. *)
IsDoneReturns(t) ==
    /\ pc[t] = "isDone"
    /\ ThreadGoto(t, IF done[t] THEN "returned" ELSE "wait")
    /\ UNCHANGED <<clip, done, out, proc, histo, published, mainVars>>

(* if (isDone()) { process_core(); break; } *)
IsDone(t) ==
    /\ pc[t] = "isDone"
    /\ ThreadGoto(t, IF done[t] THEN "core2" ELSE "wait")
    /\ UNCHANGED <<clip, done, out, proc, histo, published, mainVars>>

(* end() of the tier's algorithms; process() returns once it has pushed. *)
End(t) ==
    /\ pc[t] = "end"
    /\ out' = [out EXCEPT ![t] = <<Summary(t[2] - 2)>>]
    /\ ThreadGoto(t, "exit")
    /\ UNCHANGED <<clip, done, proc, histo, published, mainVars>>

Return(t) ==
    /\ pc[t] = "exit"
    /\ out[t] = <<>>
    /\ ThreadGoto(t, "returned")
    /\ UNCHANGED <<clip, done, out, proc, histo, published, mainVars>>

PopStep(t) ==
    \/ t[2] = 1 /\ PopRawData(t[1])
    \/ t[2] = 2 /\ PopData(t[1])
    \/ t[2] > 2 /\ PopHisto(t[1], t[2] - 2)

ThreadStep(t) ==
    \/ Wait(t) \/ PopStep(t) \/ PushOut(t) \/ CoreReturn(t)
    \/ IsDone(t) \/ End(t) \/ Return(t)

----------------------------------------------------------------------------
Next ==
    \/ \E f \in FE, kind \in {"data", "void"} : PushRawData(f, kind)
    \/ MainStep
    \/ \E t \in FE \X Stages : ThreadStep(t)

Spec == Init /\ [][Next]_vars

(* The scheduler runs every thread, and the scan loops come to an end. *)
Fairness ==
    /\ WF_vars(MainStep)
    /\ \A t \in FE \X Stages : WF_vars(ThreadStep(t))

FairSpec == Spec /\ Fairness

----------------------------------------------------------------------------
Raw   == [kind : {"data", "void", "eoi"}, label : Nat, id : Nat]
Histo == [algo : Nat, label : Nat, events : Seq(Raw), by : Seq(Nat)]

(* What a clipboard of each level may hold. *)
ItemOf(c) == IF c <= 2 THEN Raw ELSE Histo

(* Every variable has its type. *)
TypeOK ==
    /\ active \in SUBSET FE
    /\ style \in {"drain", "segment"}
    /\ \A c \in FE \X Clips : clip[c] \in Seq(ItemOf(c[2]))
    /\ done \in [FE \X Clips -> BOOLEAN]
    /\ pc \in [FE \X Stages -> {"none", "wait", "core1", "isDone", "core2",
                                 "core3", "end", "exit", "returned"}]
    /\ \A t \in FE \X Stages : out[t] \in Seq(ItemOf(t[2] + 1))
    /\ proc \in [FE -> [label : Nat, atMarker : BOOLEAN]]
    /\ histo \in [FE -> [isNew : BOOLEAN, label : Nat, events : Seq(Raw)]]
    /\ published \in [FE -> Seq([isNew : BOOLEAN, label : Nat, events : Seq(Raw)])]
    /\ mainPc \in {"scan", "joinProcs", "finishData", "joinHistogrammers",
                   "finishHisto", "joinAnalyses", "done", "crashed"}
    /\ feIdx \in 0..NumFe
    /\ tier \in 1..(Tiers + 1)
    /\ iter \in 1..(MaxIter + 1)
    /\ pushed \in [FE -> Seq(Raw)]

(* The containers of iteration k that hold events, in the order of arrival. *)
DataOf(k) == [kind : {"data"}, label : {k}, id : Nat]
IterationData(f, k) == Selected(pushed[f], DataOf(k))

(* The k-th histogram published holds the events of the k-th iteration, all *)
(* of them and no others, and is labelled with that iteration's loop status *)
(* (with the marker's {0} when the iteration had no events).                *)
HistogramPerIteration ==
    \A f \in FE : \A k \in 1..Len(published[f]) :
        LET h == published[f][k]
            d == IterationData(f, k)
        IN  /\ h.events = d
            /\ h.label = IF d = <<>> THEN 0 ELSE k

(* All histograms of a front end, in the order they were published. *)
AllHistograms(f) ==
    FlattenSeq([k \in DOMAIN published[f] |->
                   [a \in 1..NumHisto |-> Histogram(a, published[f][k])]])

(* The output of tier t, were it run over the whole input at once. *)
Analysed(t, s) == FlattenSeq([i \in DOMAIN s |-> Analyse(t, s[i])])

TierOutput[t \in 0..Tiers] ==
    [f \in FE |-> IF t = 0 THEN AllHistograms(f)
                  ELSE Append(Analysed(t, TierOutput[t - 1][f]), Summary(t))]

(* After finish() process() calls process_core twice more: all a processor  *)
(* needs that empties its input, and enough for two markers otherwise.      *)
BacklogFits == style = "drain" \/ iter - 1 <= 2

(* At any time each histogram published holds one iteration. When the scan  *)
(* is over each iteration has its histograms, and the last tier's clipboard *)
(* holds the results of every tier on every one of them, and every summary, *)
(* in the order of a sequential run.                                        *)
ResultsComplete ==
    /\ HistogramPerIteration
    /\ (mainPc = "done" /\ BacklogFits) => \A f \in active :
           /\ Len(published[f]) = iter - 1
           /\ clip[<<f, 3 + Tiers>>] = TierOutput[Tiers][f]

(* When the scan is over every clipboard but the last has been emptied:     *)
(* process() has processed all the data in its input.                       *)
AllProcessed ==
    (mainPc = "done") => \A t \in active \X Stages : clip[t] = <<>>

(* "Join from upstream to downstream": a clipboard is finished only when    *)
(* the thread that writes it has returned, so that no thread pushes to one  *)
(* that was finished.                                                       *)
NoPushAfterFinish ==
    [][\A c \in FE \X Clips : Len(clip'[c]) > Len(clip[c]) => ~done[c]]_vars

(* When every front end is active the main thread gets through run(): the   *)
(* clipboards are finished and the threads joined in an order in which none *)
(* waits for a later step of the other.  That finish() wakes the reader is  *)
(* taken for granted here; ClipBoard's FinishStopsConsumer is about that.   *)
ScanTerminates == [](active = FE) => <>(mainPc = "done")

(* "ChipA will function as normal": an inactive front end does not keep     *)
(* the scan from completing.                                                *)
InactiveIsHarmless == mainPc # "crashed"
============================================================================
