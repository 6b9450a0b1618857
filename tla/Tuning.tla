------------------------------- MODULE Tuning -------------------------------
(***************************************************************************)
(* A scan whose loops and whose analyses work on the same front ends: the  *)
(* loop engine of LoopEngine, in the main thread, and for every active     *)
(* front end an analysis thread that adds up the histograms of the data    *)
(* takings.                                                                *)
(*                                                                         *)
(*  - A global feedback loop (Fei4, Rd53a, Rd53bGlobalFeedback) searches   *)
(*    the setting of a register, a pixel feedback loop (Rd53a, Rd53bPixel- *)
(*    Feedback) the TDACs: an iteration takes data at all mask stages,     *)
(*    waits for the answer of each front end's analysis, and applies it.   *)
(*  - A mask loop (Rd53aMaskLoop, Rd53bMaskLoop) saves the pixel registers *)
(*    of the configuration, works on them, and puts them back at its end.  *)
(*  - OccupancyAnalysis masks bad pixels in the same registers.            *)
(*                                                                         *)
(* Histogrammers are left out (ScanPipeline): every data taking gives each *)
(* active front end one histogram, in order. One pixel stands for all; it  *)
(* belongs to the first mask stage. What an analysis reads out of its      *)
(* histograms is arbitrary, within the answers its code can give.          *)
(***************************************************************************)
EXTENDS LoopEngine, FiniteSets

CONSTANTS
    FE,           \* the ids of the front ends
    Setups,       \* the scans considered, with their front ends and analysis
    PixelSteps,   \* "steps" of the pixel feedback loops
    PixelReg,     \* the TDAC a feedback loop starts from
    LowLimit,     \* 50 in the code: Fei4GlobalFeedback gives up below it
    MaxAway       \* bound on the answers that lead a search away from its end

(* As in the scans of configs/scans, a feedback loop is the outermost one;  *)
(* the range of a global one is that of an unsigned register, and the       *)
(* analysis answers the kind of feedback the loop waits for.                *)
ASSUME TuningAssumption ==
    /\ FE \subseteq Nat /\ IsFiniteSet(FE) /\ FE # {}
    /\ PixelSteps \in Seq(Nat) /\ Len(PixelSteps) > 0
    /\ PixelReg \in Int /\ LowLimit \in Nat /\ MaxAway \in Nat
    /\ \A s \in Setups :
          /\ s.loops \in Configs /\ s.active \subseteq FE /\ s.reset \in BOOLEAN
          /\ s.chip \in {"fei4", "rd53a", "rd53b"}
          /\ s.applyEnMask \in BOOLEAN /\ (s.applyEnMask => s.chip = "rd53b")
          /\ s.algorithm \in {"occupancy", "occTune", "tot", "noise", "pixel"}
          /\ \A i \in DOMAIN s.loops :
                /\ s.loops[i].kind \in Feedbacks => i = 1
                /\ s.loops[i].kind = "globalFeedback" =>
                      /\ 0 <= s.loops[i].min /\ s.loops[i].min <= s.loops[i].max
                      /\ s.loops[i].max < WordSize
                      /\ s.algorithm \in {"occTune", "tot", "noise"}
                /\ s.loops[i].kind = "pixelFeedback" => s.algorithm = "pixel"

VARIABLES
    setup,      \* the scan: chip, analysis algorithm, active front ends
    tune,       \* per front end, the state of a global search (fbDoneMap too)
    dac,        \* what the chip itself has been sent: the register, the TDAC
    pix,        \* the pixel registers of the configuration
    m_pixRegs,  \* the copy the mask loop made
    waited,     \* front ends whose answer execPart2 has got
    takenDac,   \* history: dac at each data taking
    seen,       \* data takings the analysis of a front end has processed
    acc,        \* per front end and identifier: innerCnt, and the data takings
                \* added up in occMaps
    fb,         \* the feedback clipboards
    results,    \* what an analysis put out: the data takings of each result
    away,       \* answers that led away so far (bounds the model)
    masked      \* history: the analysis has masked the pixel

tuning == <<tune, dac, pix, m_pixRegs, waited>>
analysis == <<seen, acc, results, away, masked>>
tuningVars == <<vars, setup, tuning, takenDac, analysis, fb>>

active == setup.active
chip == setup.chip

TuningInit ==
    /\ Init
    /\ setup \in {s \in Setups : s.loops = loops}
    /\ tune = [f \in FE |-> [value |-> 0, step |-> 0, oldSign |-> 0, done |-> FALSE]]
    /\ dac = [f \in FE |-> [reg |-> 0, tdac |-> 0]]
    /\ pix = [f \in FE |-> [tdac |-> 0, en |-> TRUE]]
    /\ m_pixRegs = pix
    /\ waited = {}
    /\ takenDac = <<>>
    /\ seen = [f \in FE |-> 0]
    /\ acc = [f \in FE |-> <<>>]
    /\ fb = [f \in FE |-> <<>>]
    /\ results = [f \in FE |-> <<>>]
    /\ away = [f \in FE |-> 0]
    /\ masked = [f \in FE |-> FALSE]

----------------------------------------------------------------------------
(* What an answer does to a search. The settings are unsigned and computed  *)
(* in double: converting a negative double to unsigned, or one too large to *)
(* int, is undefined, and each outcome is one of these.                     *)
ToUnsigned(x) == IF x < 0 THEN {0, WordSize - 1} ELSE {x}
ToInt(x) == IF x < WordSize \div 2 THEN {x} ELSE {-(WordSize \div 2), (WordSize \div 2) - 1}

Clamp(x, lo, hi) == IF x > hi THEN hi ELSE IF x < lo THEN lo ELSE x

(* The step is halved when the sign is a new one. Rd53b remembers the sign; *)
(* the others forget it, so that from then on every answer halves the step, *)
(* and Fei4 keeps it unsigned, where it never is -1.                        *)
Halve(t, sign) ==
    IF sign = t.oldSign THEN t
    ELSE [t EXCEPT !.step = t.step \div 2, !.oldSign = IF chip = "rd53b" THEN sign ELSE 0]

(* Mutation: the new value is not clamped. *)
FeedbackNoClamp(l, t, sign, last) ==
    LET h == Halve(t, sign)
    IN  {[h EXCEPT !.value = v, !.done = @ \/ h.step = 0] :
            v \in UNION {ToUnsigned(x) : x \in ToInt(t.value + h.step * sign)}}

(* feedback(): step down until the answers turn. *)
Feedback(l, t, sign, last) ==
    LET h == Halve(t, sign)
        low == IF chip = "fei4" THEN 0 ELSE l.min
        vals == {Clamp(x, low, l.max) : x \in ToInt(t.value + h.step * sign)}
        TooLow(v) == IF chip = "fei4" THEN v < LowLimit ELSE v <= l.min
    IN  CASE chip = "rd53b" /\ h.step = 0 ->
               {[h EXCEPT !.value = v, !.done = TRUE] :
                    v \in UNION {ToUnsigned(x + sign) : x \in vals}}
          [] chip = "rd53b" /\ h.step # 0 ->
               {[h EXCEPT !.value = v, !.done = @ \/ TooLow(v)] : v \in vals}
          [] OTHER ->
               {[h EXCEPT !.value = v, !.done = @ \/ last \/ h.step = 1 \/ TooLow(v)] :
                    v \in vals}

(* feedbackBinary(): binary search, without an upper limit. *)
FeedbackBinary(t, sign, last) ==
    {[t EXCEPT !.value = v, !.step = @ \div 2,
               !.done = @ \/ last \/ t.step \div 2 = 1 \/ (chip = "rd53b" /\ v = 0)] :
        v \in {IF x < 0 THEN 0 ELSE x : x \in ToInt(t.value + t.step * sign)}}

(* feedbackStep() *)
FeedbackStep(t, sign, last) ==
    {[t EXCEPT !.value = v, !.done = @ \/ last] : v \in ToUnsigned(t.value + sign)}

(* GlobalFeedbackReceiver::waitForFeedback() chooses by the answer. *)
Apply(l, t, a) ==
    CASE a.mode = "binary" -> FeedbackBinary(t, a.sign, a.last)
      [] a.mode = "step" -> FeedbackStep(t, a.sign, a.last)
      [] a.mode = "plain" -> Feedback(l, t, a.sign, a.last)

(* PixelFeedback::feedback() for one pixel *)
ApplyPixel(l, v, a) == Clamp(v - PixelSteps[m_cur[level] + 1] * a.sign, l.min, l.max)

(* writePar() sends the settings to the chips of the active front ends,     *)
(* configurePixels() the TDACs of the configuration.                        *)
WritePar(t) == [f \in FE |-> IF f \in active THEN [dac[f] EXCEPT !.reg = t[f].value] ELSE dac[f]]
ConfigurePixels(d, p, S) == [f \in FE |-> IF f \in S THEN [d[f] EXCEPT !.tdac = p[f].tdac] ELSE d[f]]

(* Mutation: one front end that is done is enough. *)
IsFeedbackDoneAny(S) == \E f \in S : tune[f].done

IsFeedbackDone(S) == \A f \in S : tune[f].done

----------------------------------------------------------------------------
(* init() of the loops *)
InitGlobalFeedback ==
    /\ This.kind = "globalFeedback"
    /\ LET reset == setup.reset /\ chip # "fei4"
           start == [value |-> Unsigned(This.max), step |-> This.step,
                     oldSign |-> IF chip = "fei4" THEN Unsigned(-1) ELSE -1, done |-> FALSE]
       IN  /\ tune' = [f \in FE |-> IF f \in active THEN start ELSE tune[f]]
           /\ pix' = [f \in FE |-> IF f \in active /\ reset
                                   THEN [pix[f] EXCEPT !.tdac = PixelReg] ELSE pix[f]]
           /\ dac' = ConfigurePixels(WritePar(tune'), pix',
                                   IF reset \/ chip = "rd53a" THEN active ELSE {})
    /\ UNCHANGED m_pixRegs

(* Rd53aPixelFeedback starts with every front end done. *)
InitPixelFeedback ==
    /\ This.kind = "pixelFeedback"
    /\ tune' = [f \in FE |-> [tune[f] EXCEPT !.done = (chip = "rd53a")]]
    /\ pix' = [f \in FE |-> IF f \in active /\ setup.reset
                            THEN [pix[f] EXCEPT !.tdac = PixelReg] ELSE pix[f]]
    /\ UNCHANGED <<dac, m_pixRegs>>

(* Mutation: the registers are saved when the loop runs for the first time. *)
InitMaskOnce ==
    /\ This.kind = "mask"
    /\ m_pixRegs' = IF taken = <<>> THEN pix ELSE m_pixRegs
    /\ pix' = [f \in FE |-> [pix[f] EXCEPT !.en = FALSE]]
    /\ dac' = ConfigurePixels(dac, pix', FE)
    /\ UNCHANGED tune

InitMask ==
    /\ This.kind = "mask"
    /\ m_pixRegs' = pix
    /\ pix' = [f \in FE |-> [pix[f] EXCEPT !.en = FALSE]]
    /\ dac' = ConfigurePixels(dac, pix', FE)
    /\ UNCHANGED tune

LoopInit ==
    /\ InitLoop
    /\ \/ InitGlobalFeedback \/ InitPixelFeedback \/ InitMask
       \/ This.kind \notin Feedbacks \cup {"mask"} /\ UNCHANGED <<tune, dac, pix, m_pixRegs>>
    /\ UNCHANGED <<setup, waited, takenDac, analysis, fb>>

(* The pixels a mask loop enables: those of its stage, and with             *)
(* m_applyEnMask only those that were enabled before.                       *)
EnabledAtStage(f) ==
    /\ m_cur[level] = Start(This)
    /\ setup.applyEnMask => m_pixRegs[f].en

(* execPart1(): a mask loop enables the pixels of its stage, a pixel loop   *)
(* sends the TDACs; Fei4GlobalFeedback decides here if it is done, that is  *)
(* one iteration after the answers were.                                    *)
LoopPart1 ==
    /\ ExecPart1(This.kind = "globalFeedback" /\ chip = "fei4" /\ IsFeedbackDone(active))
    /\ pix' = IF This.kind = "mask"
              THEN [f \in FE |-> [pix[f] EXCEPT !.en = EnabledAtStage(f)]]
              ELSE pix
    /\ dac' = ConfigurePixels(dac, pix, CASE This.kind = "mask" -> FE
                                         [] This.kind = "pixelFeedback" -> active
                                         [] OTHER -> {})
    /\ UNCHANGED <<setup, tune, m_pixRegs, waited, takenDac, analysis, fb>>

(* execPart2() of the loops that do not wait for feedback *)
LoopPart2 ==
    /\ ExecPart2
    /\ takenDac' = IF This.kind = "data" THEN Append(takenDac, dac) ELSE takenDac
    /\ UNCHANGED <<setup, tuning, analysis, fb>>

(* execPart2() of a feedback loop waits for the active front ends one after *)
(* the other, and applies what it gets.                                     *)
WaitForFeedback(f) ==
    /\ phase = "part2" /\ This.kind \in Feedbacks
    /\ f \in active \ waited /\ \A g \in active \ waited : f <= g
    /\ fb[f] # <<>>
    /\ fb' = [fb EXCEPT ![f] = Tail(@)]
    /\ waited' = waited \cup {f}
    /\ \/ /\ This.kind = "globalFeedback"
          /\ \E t \in Apply(This, tune[f], Head(fb[f])) : tune' = [tune EXCEPT ![f] = t]
          /\ UNCHANGED pix
       \/ /\ This.kind = "pixelFeedback"
          /\ pix' = [pix EXCEPT ![f].tdac = ApplyPixel(This, @, Head(fb[f]))]
          /\ UNCHANGED tune
    /\ UNCHANGED <<vars, setup, dac, m_pixRegs, takenDac, analysis>>

(* Mutation: the new settings are not written. *)
FeedbackPart2NoWrite ==
    /\ phase = "part2" /\ This.kind \in Feedbacks
    /\ waited = active
    /\ waited' = {}
    /\ phase' = "test"
    /\ m_cur' = Set(m_cur, m_cur[level] + 1)
    /\ m_done' = Set(m_done, IsFeedbackDone(active))
    /\ UNCHANGED <<loops, level, g_stat, reg, taken, closed, setup, tune, dac, pix,
                   m_pixRegs, takenDac, analysis, fb>>

(* Then it writes the new settings and decides if it is done. *)
FeedbackPart2 ==
    /\ phase = "part2" /\ This.kind \in Feedbacks
    /\ waited = active
    /\ waited' = {}
    /\ phase' = "test"
    /\ m_cur' = Set(m_cur, m_cur[level] + 1)
    /\ \/ /\ This.kind = "globalFeedback"
          /\ dac' = WritePar(tune)
          /\ m_done' = IF chip = "fei4" THEN m_done ELSE Set(m_done, IsFeedbackDone(active))
       \/ /\ This.kind = "pixelFeedback"
          /\ m_done' = Set(m_done, m_cur'[level] = Len(PixelSteps) \/ IsFeedbackDone(FE))
          /\ UNCHANGED dac
    /\ UNCHANGED <<loops, level, g_stat, reg, taken, closed, setup, tune, pix,
                   m_pixRegs, takenDac, analysis, fb>>

(* end(): a mask loop puts the registers it saved back. *)
LoopEnd ==
    /\ EndLoop
    /\ pix' = IF This.kind = "mask" THEN m_pixRegs ELSE pix
    /\ dac' = IF This.kind = "globalFeedback" /\ chip # "fei4" THEN WritePar(tune) ELSE dac
    /\ UNCHANGED <<setup, tune, m_pixRegs, waited, takenDac, analysis, fb>>

LoopCloseOut == CloseOut /\ UNCHANGED <<setup, tuning, takenDac, analysis, fb>>

----------------------------------------------------------------------------
(* The analyses. A loop over masks, repetitions or data adds to a result,   *)
(* every other loop (loops of the analysis) tells results apart.            *)
Adds(l) == l.kind \in {"repeater", "data"} \cup Stages

(* Mutation: one stage more is expected than a mask loop has. *)
CountInclusive(l) == IF Adds(l) THEN Unsigned(l.max - l.min) \div l.step + 1 ELSE 1

(* What a loop contributes to n_count. *)
Count(l) ==
    LET cnt == Unsigned(l.max - l.min) \div l.step
    IN  IF Adds(l) /\ cnt # 0 THEN cnt ELSE 1

NCount ==
    LET prod[l \in 0..Len(loops)] == IF l = 0 THEN 1 ELSE prod[l - 1] * Count(loops[l])
    IN  prod[Len(loops)]

(* Mutation: the position of the outer loop is left out. *)
IdentZero(stat) == 0

(* The identifier of a result. *)
Ident(stat) ==
    LET id[l \in 0..Len(loops)] ==
            IF l = 0 THEN [ident |-> 0, offset |-> 1]
            ELSE IF Adds(loops[l]) THEN id[l - 1]
            ELSE [ident |-> id[l - 1].ident + stat[l] * id[l - 1].offset,
                  offset |-> id[l - 1].offset * Unsigned(loops[l].max)]
    IN  id[Len(loops)].ident

Lookup(fun, x, default) == IF x \in DOMAIN fun THEN fun[x] ELSE default
Update(fun, x, y) == [z \in DOMAIN fun \cup {x} |-> IF z = x THEN y ELSE fun[z]]

Answer(mode, sign, last) == [mode |-> mode, sign |-> sign, last |-> last]

(* What each analysis may answer. Answers that lead a search away from its  *)
(* end are bounded.                                                         *)
MayLeadAway(f) == away[f] < MaxAway

(* OccGlobalThresholdTune: the sign turns when fewer pixels fire than       *)
(* before; the first answer is always -1.                                   *)
OccTuneAnswers(f) ==
    {Answer("plain", -1, FALSE)}
        \cup (IF MayLeadAway(f) /\ results[f] # <<>> THEN {Answer("plain", 1, FALSE)} ELSE {})

(* TotAnalysis: below, above or at the target *)
TotAnswers == {Answer("binary", -1, FALSE), Answer("binary", 1, FALSE), Answer("binary", 0, TRUE)}

(* NoiseTuning: go down until enough pixels fire *)
NoiseAnswers(f) ==
    {Answer("step", 0, TRUE)} \cup (IF MayLeadAway(f) THEN {Answer("step", -1, FALSE)} ELSE {})

(* OccPixelThresholdTune, for the pixel *)
PixelAnswers == {Answer("pixel", x, FALSE) : x \in -1..1}

Answers(f) ==
    CASE setup.algorithm = "occTune" -> OccTuneAnswers(f)
      [] setup.algorithm = "tot" -> TotAnswers
      [] setup.algorithm = "noise" -> NoiseAnswers(f)
      [] setup.algorithm = "pixel" -> PixelAnswers

Away(a) == (a.mode = "plain" /\ a.sign = 1) \/ (a.mode = "step" /\ a.sign = -1)

(* The tuning analyses answer. *)
Send(f, from) ==
    /\ setup.algorithm # "occupancy"
    /\ \E a \in Answers(f) :
          /\ fb' = [fb EXCEPT ![f] = Append(@, [mode |-> a.mode, sign |-> a.sign,
                                               last |-> a.last, from |-> from])]
          /\ away' = [away EXCEPT ![f] = IF Away(a) THEN @ + 1 ELSE @]
    /\ UNCHANGED <<pix, masked>>

(* OccupancyAnalysis masks the pixel if it is bad. *)
MaskPixel(f) ==
    /\ setup.algorithm = "occupancy"
    /\ \/ /\ pix' = [pix EXCEPT ![f].en = FALSE]
          /\ masked' = [masked EXCEPT ![f] = TRUE]
       \/ UNCHANGED <<pix, masked>>
    /\ UNCHANGED <<fb, away>>

(* The count after a result: only OccupancyAnalysis leaves it as it is. *)
CountAfter(n) == IF setup.algorithm = "occupancy" THEN n ELSE 0

(* processHistogram() for the next histogram of a front end. *)
ProcessHistogram(f) ==
    /\ f \in active
    /\ seen[f] < Len(taken)
    /\ seen' = [seen EXCEPT ![f] = @ + 1]
    /\ LET i == seen'[f]
           id == Ident(taken[i].stat)
           old == Lookup(acc[f], id, [innerCnt |-> 0, from |-> <<>>])
           n == old.innerCnt + 1
           from == Append(old.from, i)
       IN  IF n = NCount
           THEN /\ results' = [results EXCEPT ![f] = Append(@, from)]
                /\ acc' = [acc EXCEPT ![f] =
                              Update(@, id, [innerCnt |-> CountAfter(n), from |-> <<>>])]
                /\ Send(f, from) \/ MaskPixel(f)
           ELSE /\ acc' = [acc EXCEPT ![f] = Update(@, id, [innerCnt |-> n, from |-> from])]
                /\ UNCHANGED <<fb, results, away, masked, pix>>
    /\ UNCHANGED <<vars, setup, tune, dac, m_pixRegs, waited, takenDac>>

EngineStep ==
    \/ LoopInit \/ LoopPart1 \/ LoopPart2 \/ FeedbackPart2 \/ LoopEnd \/ LoopCloseOut
    \/ \E f \in FE : WaitForFeedback(f)

TuningNext == EngineStep \/ \E f \in FE : ProcessHistogram(f)

TuningSpec == TuningInit /\ [][TuningNext]_tuningVars

(* The engine runs in the main thread, each analysis in a thread of its own *)
(* that is woken by new histograms.                                         *)
TuningFairSpec ==
    /\ TuningSpec
    /\ WF_tuningVars(EngineStep)
    /\ \A f \in FE : WF_tuningVars(ProcessHistogram(f))

----------------------------------------------------------------------------
(* Every variable has its type. *)
TuningTypeOK ==
    /\ TypeOK
    /\ setup \in Setups
    /\ tune \in [FE -> [value : Nat, step : Nat, oldSign : Int, done : BOOLEAN]]
    /\ dac \in [FE -> [reg : Nat, tdac : Int]]
    /\ pix \in [FE -> [tdac : Int, en : BOOLEAN]]
    /\ m_pixRegs \in [FE -> [tdac : Int, en : BOOLEAN]]
    /\ waited \subseteq active
    /\ Len(takenDac) = Len(taken)
    /\ \A f \in FE : seen[f] \in 0..Len(taken) /\ away[f] \in 0..MaxAway

Searching == {l \in Levels : loops[l].kind \in Feedbacks}

(* The tunings whose analysis expects as many histograms as the loops give: *)
(* inside the feedback loop every loop adds to the result, and its range is *)
(* a multiple of its step (Count rounds down where a mask loop rounds up).  *)
Even(l) ==
    /\ Adds(l)
    /\ CASE l.kind = "data" -> l.min = l.max
         [] l.kind = "repeater" -> l.step = 1 /\ l.max - l.min < WordSize
         [] OTHER -> l.min < l.max /\ (l.max - l.min) % l.step = 0

EvenTuning ==
    /\ RegularFrom(loops, 2) /\ loops[1].kind \in Feedbacks
    /\ \A l \in 2..Len(loops) : Even(loops[l])

(* The answer a feedback loop gets is about the iteration it has just run:  *)
(* there is at most one, made from the data of all stages taken since the   *)
(* loop's execPart1 and from no others, and the chip had the present        *)
(* setting while they were taken. An answer left over from an earlier       *)
(* iteration would move the search by data of another setting.              *)
AnswerOfIteration ==
    EvenTuning => \A f \in active : \A k \in DOMAIN fb[f] :
        LET from == fb[f][k].from
            now == {i \in DOMAIN taken : taken[i].stat[1] = m_cur[1]}
        IN  /\ k = 1
            /\ {from[i] : i \in DOMAIN from} = now
            /\ f \notin waited
            /\ \A i \in now :
                  IF loops[1].kind = "globalFeedback"
                  THEN takenDac[i][f].reg = tune[f].value
                  ELSE takenDac[i][f].tdac = pix[f].tdac

(* The threshold search stays in the configured range (for Fei4 in that     *)
(* from zero) for as long as it has not ended, and for Rd53a and Fei4       *)
(* afterwards too (while the search of another front end goes on, Rd53b     *)
(* moves a value that was found by one at every further answer, without a   *)
(* limit).                                                                  *)
ValueInRange ==
    (setup.algorithm = "occTune") =>
        \A l \in Searching : \A f \in active :
            (phase # "init" \/ level > l) /\ (chip # "rd53b" \/ ~tune[f].done)
                => tune[f].value \in (IF chip = "fei4" THEN 0 ELSE loops[l].min)..loops[l].max

(* The value a search ends with is the one its chip is left with.           *)
FinalValueWritten ==
    (phase \in {"closeOut", "done"} /\ \E l \in Searching : loops[l].kind = "globalFeedback")
        => \A f \in active : dac[f].reg = tune[f].value /\ tune[f].done

(* A Rd53b pixel tuning performs all of its steps (docs/rd53.md: "size and  *)
(* number of tuning steps to be performed"). A Rd53a one ends after the     *)
(* first, because its flags start as done.                                  *)
AllStepsPerformed ==
    (phase \in {"closeOut", "done"} /\ chip # "rd53a") =>
        \A l \in Searching : loops[l].kind = "pixelFeedback" => m_cur[l] = Len(PixelSteps)

(* A tuning that has ended was completed: every search found its value and  *)
(* left it on its chip, and every pixel tuning went through its steps.      *)
TuningCompleted == FinalValueWritten /\ AllStepsPerformed

(* No one undoes a tuning: the TDACs change by a reset or an answer of the  *)
(* feedback loop only, and in particular not when a mask loop puts back the *)
(* pixel registers it saved.                                                *)
TuningNotUndone ==
    [][\A f \in FE : pix'[f].tdac # pix[f].tdac => This.kind \in Feedbacks]_tuningVars

(* The loops whose positions tell results apart, and what they tell of a    *)
(* data taking.                                                             *)
Outer == {l \in Levels : ~Adds(loops[l])}
OuterPosition(i) == [l \in Outer |-> taken[i].stat[l]]

(* The scans of loops that do not run over and whose analysis expects as    *)
(* many histograms at a position as the loops give.                         *)
EvenScan ==
    /\ RegularFrom(loops, 1)
    /\ \A l \in Levels : Adds(loops[l]) => Even(loops[l])

(* Each result of OccupancyAnalysis comes from the data of one position of  *)
(* the parameter loop, all of them, and each position has its result once   *)
(* the histograms are processed. With two such loops identifiers collide:   *)
(* a parameter loop includes its maximum, the offset does not count it.     *)
ResultPerPosition ==
    (setup.algorithm = "occupancy" /\ EvenScan /\ Cardinality(Outer) <= 1) =>
        \A f \in active :
            /\ \A r \in DOMAIN results[f] : LET from == results[f][r] IN
                   {from[i] : i \in DOMAIN from}
                      = {i \in DOMAIN taken : OuterPosition(i) = OuterPosition(from[1])}
            /\ phase = "done" /\ seen[f] = Len(taken) =>
                   Len(results[f]) = Cardinality({OuterPosition(i) : i \in DOMAIN taken})

(* "mask digital and analog bad pixels ... by running digital, analog ...   *)
(* scans": a pixel that the analysis masked is masked after the scan.       *)
MaskKept == \A f \in FE : (phase = "done" /\ masked[f]) => ~pix[f].en
============================================================================
