---------------------------- MODULE TuningProofs ----------------------------
(***************************************************************************)
(* Proofs about Tuning and the loop engine it runs: for every scan of the  *)
(* shape the assumptions describe, any number of front ends, of loops and  *)
(* of steps, data are labelled with the parameters they were taken with,   *)
(* and taken in the order of nested for loops, a threshold search keeps to *)
(* its range, a tuning that has ended was completed, the mask loops do not *)
(* undo it, the answers a feedback loop gets are of its iteration, and     *)
(* each position of a scan has its result.                                 *)
(***************************************************************************)
EXTENDS Tuning, SequenceFacts, FiniteSetTheorems, FunctionTheorems, TLAPS

LoopType == [kind : Kinds, min : Int, max : Int, step : Nat \ {0}]
Search == [value : Nat, step : Nat, oldSign : Int, done : BOOLEAN]
Chip == [reg : Nat, tdac : Int]
PixelRegs == [tdac : Int, en : BOOLEAN]
Accumulated == [innerCnt : Nat, from : Seq(Nat)]
Modes == {"plain", "binary", "step", "pixel"}
AnswerType == [mode : Modes, sign : -1..1, last : BOOLEAN, from : Seq(Nat)]

(* The loop at level l is between its init() and its end(). *)
Inside(l) == l < level \/ (l = level /\ phase # "init")

(* It is between execPart1() and execPart2(). *)
Executing(l) == l < level \/ (l = level /\ phase = "part2")

Outermost(kind) == loops # <<>> /\ loops[1].kind = kind

(* Types of the engine: while a loop runs there is one at the level. *)
EngineTypes ==
    /\ TypeOK
    /\ phase \in {"init", "test", "part2"} => level \in Levels
    /\ level = 1 \/ level \in Levels

(* Types of the rest: answers are of the kind the algorithm gives.          *)
SearchTypes ==
    /\ setup \in Setups /\ setup.loops = loops
    /\ tune \in [FE -> Search]
    /\ dac \in [FE -> Chip]
    /\ pix \in [FE -> PixelRegs]
    /\ m_pixRegs \in [FE -> PixelRegs]
    /\ waited \subseteq active
    /\ takenDac \in Seq([FE -> Chip]) /\ Len(takenDac) = Len(taken)

AnalysisTypes ==
    /\ seen \in [FE -> Nat] /\ \A f \in FE : seen[f] <= Len(taken)
    /\ away \in [FE -> Nat] /\ \A f \in FE : away[f] <= MaxAway
    /\ fb \in [FE -> Seq(AnswerType)]
    /\ \A f \in FE : \A k \in DOMAIN fb[f] :
          /\ setup.algorithm # "pixel" => fb[f][k].mode # "pixel"
          /\ setup.algorithm = "occTune" => fb[f][k].mode = "plain"
    /\ results \in [FE -> Seq(Seq(Nat))]
    /\ acc = [f \in FE |-> acc[f]]
    /\ \A f \in FE : \A z \in DOMAIN acc[f] : acc[f][z] \in Accumulated
    /\ masked \in [FE -> BOOLEAN]

(* A loop that is executing its inner loop is not done, except a global     *)
(* search, which may know that its last iteration is on.                    *)
ExecutingInv ==
    \A l \in Levels :
        (Executing(l) /\ loops[l].kind # "globalFeedback") => ~m_done[l]

(* A parameter loop has written its counter to the register, and in the     *)
(* middle of an iteration the loop status has it too.                       *)
ParameterInv ==
    \A l \in Levels : (loops[l].kind = "parameter") =>
        /\ Executing(l) => g_stat[l] = m_cur[l] /\ m_cur[l] = reg[l]
        /\ (l = level /\ phase = "test" /\ ~m_done[l]) => m_cur[l] = reg[l]

(* A pixel loop that is not done has steps left, and its flags are down.    *)
PixelInv ==
    (Outermost("pixelFeedback") /\ Inside(1)) =>
        /\ ~m_done[1] => m_cur[1] \in 0..(Len(PixelSteps) - 1)
        /\ chip # "rd53a" => \A f \in FE : ~tune[f].done
        /\ (m_done[1] /\ chip # "rd53a") => m_cur[1] = Len(PixelSteps)

(* A global loop that is done has found the values of all front ends, and   *)
(* has written them when its iteration is over.                             *)
GlobalInv ==
    (Outermost("globalFeedback") /\ Inside(1) /\ m_done[1]) =>
        /\ \A f \in active : tune[f].done
        /\ (level = 1 /\ phase # "part2") => \A f \in active : dac[f].reg = tune[f].value

(* The scan is over when its outermost loop is done. *)
EndInv == (phase \in {"closeOut", "done"} /\ loops # <<>>) => level = 1 /\ m_done[1]

(* Inside a mask loop the TDACs it saved are those of the configuration.    *)
MaskInv ==
    \A l \in Levels : (loops[l].kind = "mask" /\ Inside(l)) =>
        \A f \in FE : m_pixRegs[f].tdac = pix[f].tdac

Types == EngineTypes /\ SearchTypes /\ AnalysisTypes

TuningInv ==
    /\ Types /\ ExecutingInv /\ ParameterInv /\ LabelledWithParameters
    /\ PixelInv /\ GlobalInv /\ EndInv /\ MaskInv /\ ValueInRange

----------------------------------------------------------------------------
(* The counters of the loops are words: Unsigned() is a natural number.     *)
LEMMA UnsignedNat == \A x \in Int : Unsigned(x) \in 0..(WordSize - 1)
BY LoopEngineAssumption DEF Unsigned

(* The value a loop starts with is an integer.                              *)
LEMMA StartInt == \A l \in LoopType : Start(l) \in Int
BY UnsignedNat, LoopEngineAssumption DEF Start, LoopType

(* The loops of a scan are a sequence of loops, and the one at hand is one  *)
(* of them while it runs.                                                   *)
LEMMA LoopFacts ==
    ASSUME EngineTypes
    PROVE  /\ loops \in Seq(LoopType)
           /\ Len(loops) \in Nat /\ Levels = 1..Len(loops)
           /\ \A l \in Levels : loops[l] \in LoopType
           /\ level \in Nat
           /\ phase \in {"init", "test", "part2"} => level \in Levels /\ This \in LoopType
<1>1. loops \in Configs /\ level \in 1..(Len(loops) + 1)
  BY DEF EngineTypes, TypeOK
<1>2. loops \in Seq(LoopType)
  BY <1>1, LoopEngineAssumption DEF LoopType
<1>3. /\ Len(loops) \in Nat /\ Levels = 1..Len(loops)
      /\ \A l \in Levels : loops[l] \in LoopType
  BY <1>2 DEF Levels
<1>4. level \in Nat
  BY <1>1, <1>3
<1>5. phase \in {"init", "test", "part2"} => level \in Levels /\ This \in LoopType
  BY <1>3 DEF EngineTypes, This
<1> QED  BY <1>2, <1>3, <1>4, <1>5

(* What a feedback loop does to the engine at the end of an iteration. *)
CountIteration ==
    /\ phase = "part2" /\ This.kind \in Feedbacks
    /\ phase' = "test"
    /\ m_cur' = Set(m_cur, m_cur[level] + 1)
    /\ \E d \in BOOLEAN : m_done' = Set(m_done, d)
    /\ UNCHANGED <<loops, level, g_stat, reg, taken, closed>>

(* A step of the scan as the engine sees it. *)
EngineMove ==
    \/ InitLoop
    \/ \E d \in BOOLEAN : ExecPart1(d) /\ (d => This.kind = "globalFeedback")
    \/ ExecPart2
    \/ CountIteration
    \/ EndLoop
    \/ CloseOut
    \/ UNCHANGED vars

(* Every step of a tuning is a move of the engine or leaves it alone.       *)
LEMMA StepIsMove ==
    ASSUME EngineTypes, [TuningNext]_tuningVars
    PROVE  EngineMove
<1> USE DEF EngineMove
<1>1. CASE LoopInit
  BY <1>1 DEF LoopInit
<1>2. CASE LoopPart1
  <2> DEFINE d == This.kind = "globalFeedback" /\ chip = "fei4" /\ IsFeedbackDone(active)
  <2>1. d \in BOOLEAN /\ (d => This.kind = "globalFeedback")
    OBVIOUS
  <2>2. ExecPart1(d)
    BY <1>2 DEF LoopPart1
  <2> QED  BY <2>1, <2>2
<1>3. CASE LoopPart2
  BY <1>3 DEF LoopPart2
<1>4. CASE FeedbackPart2
  <2>1. m_done' = m_done \/ \E d \in BOOLEAN : m_done' = Set(m_done, d)
    <3>1. (m_cur'[level] = Len(PixelSteps) \/ IsFeedbackDone(FE)) \in BOOLEAN
      OBVIOUS
    <3>2. IsFeedbackDone(active) \in BOOLEAN
      BY DEF IsFeedbackDone
    <3> QED  BY <1>4, <3>1, <3>2 DEF FeedbackPart2
  <2>2. m_done \in [Levels -> BOOLEAN] /\ level \in Levels
    BY <1>4 DEF EngineTypes, TypeOK, FeedbackPart2
  <2>3. m_done = Set(m_done, m_done[level]) /\ m_done[level] \in BOOLEAN
    BY <2>2 DEF Set
  <2>4. \E d \in BOOLEAN : m_done' = Set(m_done, d)
    BY <2>1, <2>3
  <2> QED  BY <1>4, <2>4 DEF FeedbackPart2, CountIteration
<1>5. CASE LoopEnd
  BY <1>5 DEF LoopEnd
<1>6. CASE LoopCloseOut
  BY <1>6 DEF LoopCloseOut
<1>7. CASE \E f \in FE : WaitForFeedback(f)
  BY <1>7 DEF WaitForFeedback
<1>8. CASE \E f \in FE : ProcessHistogram(f)
  BY <1>8 DEF ProcessHistogram
<1>9. CASE UNCHANGED tuningVars
  BY <1>9 DEF tuningVars
<1> QED  BY <1>1, <1>2, <1>3, <1>4, <1>5, <1>6, <1>7, <1>8, <1>9 DEF TuningNext, EngineStep

(* The counters, flags and histories of the engine keep their types.        *)
LEMMA MoveTypes ==
    ASSUME EngineTypes, EngineMove
    PROVE  EngineTypes'
<1> DEFINE Position == [Levels -> Int]
<1>a. /\ Len(loops) \in Nat /\ Levels = 1..Len(loops) /\ level \in Nat
      /\ phase \in {"init", "test", "part2"} => level \in Levels /\ This \in LoopType
  BY LoopFacts
<1>b. /\ loops \in Configs /\ level \in 1..(Len(loops) + 1)
      /\ phase \in {"init", "test", "part2", "closeOut", "done"}
      /\ m_cur \in Position /\ m_done \in [Levels -> BOOLEAN]
      /\ g_stat \in Position /\ reg \in Position
      /\ taken \in Seq([stat : Position, reg : Position])
      /\ closed \in Seq(Levels)
      /\ level = 1 \/ level \in Levels
  BY DEF EngineTypes, TypeOK
<1>s. /\ \A v \in Position : \A x \in Int : level \in Levels => Set(v, x) \in Position
      /\ \A v \in [Levels -> BOOLEAN] : \A x \in BOOLEAN :
            level \in Levels => Set(v, x) \in [Levels -> BOOLEAN]
  BY DEF Set
<1>t. phase \in {"init", "test", "part2"} => Start(This) \in Int
  BY <1>a, StartInt
<1> SUFFICES /\ loops' = loops /\ level' \in 1..(Len(loops) + 1)
             /\ phase' \in {"init", "test", "part2", "closeOut", "done"}
             /\ m_cur' \in Position /\ m_done' \in [Levels -> BOOLEAN]
             /\ g_stat' \in Position /\ reg' \in Position
             /\ taken' \in Seq([stat : Position, reg : Position])
             /\ closed' \in Seq(Levels)
             /\ phase' \in {"init", "test", "part2"} => level' \in Levels
             /\ level' = 1 \/ level' \in Levels
  BY <1>b DEF EngineTypes, TypeOK, Levels
<1>1. CASE InitLoop
  BY <1>1, <1>a, <1>b, <1>s, <1>t DEF InitLoop
<1>2. CASE \E d \in BOOLEAN : ExecPart1(d) /\ (d => This.kind = "globalFeedback")
  <2> PICK d \in BOOLEAN : ExecPart1(d)
    BY <1>2
  <2>1. level \in Levels /\ m_cur[level] \in Int
    BY <1>a, <1>b DEF ExecPart1
  <2>2. m_done' \in [Levels -> BOOLEAN]
    BY <2>1, <1>b, <1>s DEF ExecPart1
  <2>3. g_stat' \in Position
    <3>1. g_stat' = g_stat \/ g_stat' = Set(g_stat, m_cur[level])
      BY DEF ExecPart1
    <3> HIDE DEF Position
    <3>2. Set(g_stat, m_cur[level]) \in Position
      BY <2>1, <1>b, <1>s
    <3> QED  BY <3>1, <3>2, <1>b
  <2>4. m_cur' \in Position
    <3>1. m_cur' = m_cur \/ m_cur' = Set(m_cur, m_cur[level] + 1)
      BY DEF ExecPart1
    <3>2. m_cur[level] + 1 \in Int
      BY <2>1
    <3> HIDE DEF Position
    <3>3. Set(m_cur, m_cur[level] + 1) \in Position
      BY <2>1, <3>2, <1>b, <1>s
    <3> QED  BY <3>1, <3>3, <1>b
  <2> QED  BY <2>1, <2>2, <2>3, <2>4, <1>a, <1>b DEF ExecPart1
<1>3. CASE ExecPart2
  <2>1. level \in Levels /\ m_cur[level] \in Int /\ This \in LoopType
    BY <1>3, <1>a, <1>b DEF ExecPart2
  <2>2. Unsigned(m_cur[level] + This.step) \in Int
    <3>1. m_cur[level] + This.step \in Int
      BY <2>1 DEF LoopType
    <3>2. WordSize \in Nat
      BY LoopEngineAssumption
    <3> QED  BY <3>1, <3>2, UnsignedNat
  <2>3. Set(m_cur, Unsigned(m_cur[level] + This.step)) \in Position
    BY <2>1, <2>2, <1>b, <1>s
  <2>4. CASE ParameterPart2
    <3>1. m_cur' \in Position /\ m_cur'[level] \in Int
      BY <2>1, <2>3, <2>4 DEF ParameterPart2
    <3>2. m_done' \in [Levels -> BOOLEAN] /\ reg' \in Position /\ taken' = taken
      BY <2>1, <2>4, <3>1, <1>b, <1>s DEF ParameterPart2
    <3> QED  BY <1>3, <3>1, <3>2, <2>1, <1>a, <1>b DEF ExecPart2
  <2>5. CASE RepeaterPart2
    BY <1>3, <2>5, <2>1, <1>a, <1>b, <1>s DEF ExecPart2, RepeaterPart2
  <2>6. CASE MaskPart2
    BY <1>3, <2>6, <2>1, <2>3, <1>a, <1>b, <1>s DEF ExecPart2, MaskPart2
  <2>7. CASE DataPart2
    <3>1. taken' \in Seq([stat : Position, reg : Position])
      BY <2>7, <1>b DEF DataPart2
    <3> QED  BY <1>3, <2>7, <3>1, <2>1, <1>a, <1>b, <1>s DEF ExecPart2, DataPart2
  <2> QED  BY <1>3, <2>4, <2>5, <2>6, <2>7 DEF ExecPart2
<1>4. CASE CountIteration
  <2>1. level \in Levels /\ m_cur[level] \in Int
    BY <1>4, <1>a, <1>b DEF CountIteration
  <2>2. m_cur[level] + 1 \in Int
    BY <2>1
  <2>3. m_cur' \in Position
    BY <1>4, <2>1, <2>2, <1>b, <1>s DEF CountIteration
  <2>4. m_done' \in [Levels -> BOOLEAN]
    BY <1>4, <2>1, <1>b, <1>s DEF CountIteration
  <2> QED  BY <1>4, <2>1, <2>3, <2>4, <1>a, <1>b DEF CountIteration
<1>5. CASE EndLoop
  <2>1. level \in Levels /\ Start(This) \in Int
    BY <1>5, <1>a, <1>t DEF EndLoop
  <2>2. m_cur' \in Position /\ reg' \in Position
    BY <1>5, <2>1, <1>b, <1>s DEF EndLoop
  <2>3. /\ level' \in Levels
        /\ phase' \in {"part2", "closeOut"}
    BY <1>5, <2>1, <1>a DEF EndLoop
  <2> QED  BY <1>5, <2>2, <2>3, <1>a, <1>b DEF EndLoop
<1>6. CASE CloseOut
  <2>1. closed' \in Seq(Levels)
    <3>1. CASE Len(closed) < Len(loops)
      <4>1. Len(closed) + 1 \in Levels
        BY <3>1, <1>a, <1>b
      <4>2. closed' = Append(closed, Len(closed) + 1)
        BY <1>6, <3>1 DEF CloseOut
      <4>3. closed \in Seq(Levels)
        BY <1>b
      <4> HIDE DEF Levels
      <4> QED  BY <4>1, <4>2, <4>3
    <3> QED  BY <1>6, <3>1, <1>b DEF CloseOut
  <2> QED  BY <1>6, <2>1, <1>a, <1>b DEF CloseOut
<1>7. CASE UNCHANGED vars
  BY <1>7, <1>a, <1>b, EngineTypes DEF vars, EngineTypes
<1> QED  BY <1>1, <1>2, <1>3, <1>4, <1>5, <1>6, <1>7 DEF EngineMove

(* Setting the entry of the loop at hand. *)
LEMMA SetApply ==
    \A v, x : (level \in Levels /\ DOMAIN v = Levels) =>
        \A l \in Levels : Set(v, x)[l] = IF l = level THEN x ELSE v[l]
BY DEF Set

(* The domains of the engine's tables are the levels. *)
LEMMA Domains ==
    ASSUME EngineTypes
    PROVE  /\ DOMAIN m_cur = Levels /\ DOMAIN m_done = Levels
           /\ DOMAIN g_stat = Levels /\ DOMAIN reg = Levels
BY DEF EngineTypes, TypeOK

(* A loop that runs an iteration is not done (ExecutingInv).                *)
LEMMA MoveExecuting ==
    ASSUME EngineTypes, EngineMove, ExecutingInv
    PROVE  ExecutingInv'
<1> SUFFICES ASSUME NEW l \in Levels, loops' = loops,
                    Executing(l)', loops[l].kind # "globalFeedback"
             PROVE  ~m_done'[l]
  <2>1. loops' = loops
    BY DEF EngineMove, InitLoop, ExecPart1, ExecPart2, CountIteration, EndLoop, CloseOut, vars
  <2> QED  BY <2>1 DEF ExecutingInv, Levels
<1>a. /\ Levels = 1..Len(loops) /\ Len(loops) \in Nat /\ level \in Nat
      /\ phase \in {"init", "test", "part2"} => level \in Levels
  BY LoopFacts
<1>b. Executing(l) => ~m_done[l]
  BY DEF ExecutingInv
<1>c. level \in Levels => \A x : Set(m_done, x)[l] = IF l = level THEN x ELSE m_done[l]
  BY SetApply, Domains
<1>1. CASE InitLoop
  BY <1>1, <1>a, <1>b, <1>c DEF InitLoop, Executing
<1>2. CASE \E d \in BOOLEAN : ExecPart1(d) /\ (d => This.kind = "globalFeedback")
  <2> PICK d \in BOOLEAN : ExecPart1(d) /\ (d => This.kind = "globalFeedback")
    BY <1>2
  <2>1. m_done'[l] = IF l = level THEN d ELSE m_done[l]
    BY <1>a, <1>c DEF ExecPart1
  <2>2. l = level => ~d
    BY DEF This
  <2>3. l <= level
    BY <1>a DEF ExecPart1, Executing
  <2> QED  BY <2>1, <2>2, <2>3, <1>a, <1>b DEF Executing
<1>3. CASE ExecPart2
  <2>1. l < level /\ level \in Levels
    BY <1>3, <1>a DEF ExecPart2, Executing
  <2>2. m_done'[l] = m_done[l]
    <3>1. m_done' = m_done \/ \E x : m_done' = Set(m_done, x)
      BY <1>3 DEF ExecPart2, ParameterPart2, RepeaterPart2, MaskPart2, DataPart2
    <3> QED  BY <3>1, <2>1, <1>a, <1>c
  <2> QED  BY <2>1, <2>2, <1>b DEF Executing
<1>4. CASE CountIteration
  <2>1. l < level /\ level \in Levels
    BY <1>4, <1>a DEF CountIteration, Executing
  <2> QED  BY <1>4, <2>1, <1>a, <1>b, <1>c DEF CountIteration, Executing
<1>5. CASE EndLoop
  BY <1>5, <1>a, <1>b DEF EndLoop, Executing
<1>6. CASE CloseOut
  BY <1>6, <1>b DEF CloseOut, Executing
<1>7. CASE UNCHANGED vars
  BY <1>7, <1>b DEF vars, Executing
<1> QED  BY <1>1, <1>2, <1>3, <1>4, <1>5, <1>6, <1>7 DEF EngineMove

(* A parameter loop keeps counter, register and loop status together        *)
(* (ParameterInv).                                                          *)
LEMMA MoveParameter ==
    ASSUME EngineTypes, EngineMove, ParameterInv
    PROVE  ParameterInv'
<1> SUFFICES ASSUME NEW l \in Levels, loops' = loops, loops[l].kind = "parameter"
             PROVE  /\ Executing(l)' => g_stat'[l] = m_cur'[l] /\ m_cur'[l] = reg'[l]
                    /\ (l = level' /\ phase' = "test" /\ ~m_done'[l]) => m_cur'[l] = reg'[l]
  <2>1. loops' = loops
    BY DEF EngineMove, InitLoop, ExecPart1, ExecPart2, CountIteration, EndLoop, CloseOut, vars
  <2> QED  BY <2>1 DEF ParameterInv, Levels
<1>a. /\ Levels = 1..Len(loops) /\ Len(loops) \in Nat /\ level \in Nat
      /\ phase \in {"init", "test", "part2"} => level \in Levels
  BY LoopFacts
<1>b. /\ Executing(l) => g_stat[l] = m_cur[l] /\ m_cur[l] = reg[l]
      /\ (l = level /\ phase = "test" /\ ~m_done[l]) => m_cur[l] = reg[l]
  BY DEF ParameterInv
<1>c. level \in Levels => \A x :
        /\ Set(m_done, x)[l] = IF l = level THEN x ELSE m_done[l]
        /\ Set(m_cur, x)[l] = IF l = level THEN x ELSE m_cur[l]
        /\ Set(g_stat, x)[l] = IF l = level THEN x ELSE g_stat[l]
        /\ Set(reg, x)[l] = IF l = level THEN x ELSE reg[l]
  BY SetApply, Domains
<1>1. CASE InitLoop
  <2>1. level \in Levels
    BY <1>1, <1>a DEF InitLoop
  <2>2. CASE l = level
    <3>1. m_cur'[l] = Start(This) /\ reg'[l] = Start(This)
      BY <1>1, <2>1, <2>2, <1>c DEF InitLoop, This
    <3>2. ~Executing(l)'
      BY <1>1, <2>2, <1>a DEF InitLoop, Executing
    <3> QED  BY <3>1, <3>2
  <2>3. CASE l # level
    <3>1. m_cur'[l] = m_cur[l] /\ reg'[l] = reg[l] /\ g_stat' = g_stat
      BY <1>1, <2>1, <2>3, <1>c DEF InitLoop
    <3> QED  BY <1>1, <2>3, <3>1, <1>a, <1>b DEF InitLoop, Executing
  <2> QED  BY <2>2, <2>3
<1>2. CASE \E d \in BOOLEAN : ExecPart1(d) /\ (d => This.kind = "globalFeedback")
  <2> PICK d \in BOOLEAN : ExecPart1(d)
    BY <1>2
  <2>1. level \in Levels /\ reg' = reg
    BY <1>a DEF ExecPart1
  <2>2. CASE l = level
    <3>1. m_cur' = m_cur /\ g_stat' = Set(g_stat, m_cur[level]) /\ m_cur[l] = reg[l]
      BY <2>2, <1>b DEF ExecPart1, This
    <3> QED  BY <2>1, <2>2, <3>1, <1>c DEF ExecPart1
  <2>3. CASE l # level
    <3>1. m_cur'[l] = m_cur[l] /\ g_stat'[l] = g_stat[l]
      BY <2>1, <2>3, <1>c DEF ExecPart1
    <3>2. Executing(l)' => Executing(l)
      BY <2>3, <1>a DEF ExecPart1, Executing
    <3>3. ~(l = level' /\ phase' = "test")
      BY <2>3, <1>a DEF ExecPart1
    <3> QED  BY <2>1, <3>1, <3>2, <3>3, <1>b
  <2> QED  BY <2>2, <2>3
<1>3. CASE ExecPart2
  <2>1. level \in Levels /\ level' = level /\ phase' = "test" /\ g_stat' = g_stat
    BY <1>3, <1>a DEF ExecPart2
  <2>2. CASE l = level
    <3>1. ParameterPart2
      BY <1>3, <2>2 DEF ExecPart2, This, Stages
    <3>2. ~m_done'[l] => m_cur'[l] = reg'[l]
      BY <2>1, <2>2, <3>1, <1>c DEF ParameterPart2
    <3> QED  BY <2>1, <2>2, <3>2, <1>a DEF Executing
  <2>3. CASE l # level
    <3>1. m_cur'[l] = m_cur[l] /\ reg'[l] = reg[l]
      BY <1>3, <2>1, <2>3, <1>c
         DEF ExecPart2, ParameterPart2, RepeaterPart2, MaskPart2, DataPart2
    <3> QED  BY <2>1, <2>3, <3>1, <1>b DEF Executing
  <2> QED  BY <2>2, <2>3
<1>4. CASE CountIteration
  <2>1. level \in Levels /\ l # level
    BY <1>4, <1>a DEF CountIteration, This, Feedbacks
  <2>2. m_cur'[l] = m_cur[l] /\ reg' = reg /\ g_stat' = g_stat
    BY <1>4, <2>1, <1>c DEF CountIteration
  <2> QED  BY <1>4, <2>1, <2>2, <1>b DEF CountIteration, Executing
<1>5. CASE EndLoop
  <2>1. level \in Levels
    BY <1>5, <1>a DEF EndLoop
  <2>2. l < level => m_cur'[l] = m_cur[l] /\ reg'[l] = reg[l] /\ g_stat' = g_stat
    BY <1>5, <2>1, <1>a, <1>c DEF EndLoop
  <2>3. phase' # "test" /\ (Executing(l)' => l < level)
    BY <1>5, <2>1, <1>a DEF EndLoop, Executing
  <2> QED  BY <2>2, <2>3, <1>b DEF Executing
<1>6. CASE CloseOut
  BY <1>6, <1>b DEF CloseOut, Executing
<1>7. CASE UNCHANGED vars
  BY <1>7, <1>b DEF vars, Executing
<1> QED  BY <1>1, <1>2, <1>3, <1>4, <1>5, <1>6, <1>7 DEF EngineMove

(* When data are taken no parameter loop is inside the data loop, so that   *)
(* each of them has written the position in the loop status.                *)
LEMMA MoveLabelled ==
    ASSUME EngineTypes, EngineMove, ParameterInv, LabelledWithParameters
    PROVE  LabelledWithParameters'
<1>0. loops' = loops
  BY DEF EngineMove, InitLoop, ExecPart1, ExecPart2, CountIteration, EndLoop, CloseOut, vars
<1>1. CASE taken' = taken
  BY <1>0, <1>1 DEF LabelledWithParameters, Levels
<1>2. CASE taken' # taken
  <2>1. ExecPart2 /\ This.kind = "data" /\ DataPart2
    BY <1>2 DEF EngineMove, InitLoop, ExecPart1, ExecPart2, CountIteration, EndLoop, CloseOut,
                vars, ParameterPart2, RepeaterPart2, MaskPart2
  <2>2. level \in Levels /\ phase = "part2" /\ loops \in Configs
    BY <2>1, LoopFacts DEF ExecPart2, EngineTypes, TypeOK
  <2>3. ASSUME NEW l \in Levels, loops[l].kind = "parameter"
        PROVE  g_stat[l] = reg[l]
    <3>1. l < level
      BY <2>1, <2>2, <2>3, LoopEngineAssumption DEF This, Levels
    <3> QED  BY <3>1, <2>3 DEF ParameterInv, Executing
  <2>4. taken' = Append(taken, [stat |-> g_stat, reg |-> reg])
    BY <2>1 DEF DataPart2
  <2>5. taken \in Seq([stat : [Levels -> Int], reg : [Levels -> Int]])
        /\ [stat |-> g_stat, reg |-> reg] \in [stat : [Levels -> Int], reg : [Levels -> Int]]
    BY DEF EngineTypes, TypeOK
  <2>6. \A k \in DOMAIN taken' :
          taken'[k] = [stat |-> g_stat, reg |-> reg] \/ (k \in DOMAIN taken /\ taken'[k] = taken[k])
    BY <2>4, <2>5
  <2> QED  BY <2>3, <2>6, <1>0 DEF LabelledWithParameters, Levels
<1> QED  BY <1>1, <1>2

(* The scan is over when its outermost loop is done (EndInv).               *)
LEMMA MoveEnd ==
    ASSUME EngineTypes, EngineMove, EndInv
    PROVE  EndInv'
<1> USE DEF EndInv
<1>a. phase \in {"init", "test", "part2"} => level \in Levels
  BY LoopFacts
<1>b. level \in Nat
  BY LoopFacts
<1>1. CASE EndLoop
  BY <1>1, <1>a, <1>b, LoopFacts DEF EndLoop
<1>2. CASE CloseOut \/ UNCHANGED vars
  BY <1>2 DEF CloseOut, vars
<1>3. CASE phase' \in {"init", "test", "part2"}
  BY <1>3
<1> QED  BY <1>1, <1>2, <1>3 DEF EngineMove, InitLoop, ExecPart1, ExecPart2, CountIteration

----------------------------------------------------------------------------
(* The conversions of a setting: what comes out is an integer, an unsigned  *)
(* number, or within the limits.                                            *)
LEMMA ConversionTypes ==
    /\ \A x \in Int : ToInt(x) \subseteq Int
    /\ \A x \in Int : ToUnsigned(x) \subseteq Nat
    /\ \A x, lo, hi \in Int : lo <= hi => Clamp(x, lo, hi) \in lo..hi
<1>1. WordSize \in Nat /\ WordSize > 0 /\ (WordSize \div 2) \in Int
  BY LoopEngineAssumption
<1>2. \A x \in Int : ToInt(x) \subseteq Int
  BY <1>1 DEF ToInt
<1>3. \A x \in Int : ToUnsigned(x) \subseteq Nat
  BY <1>1 DEF ToUnsigned
<1>4. \A x, lo, hi \in Int : lo <= hi => Clamp(x, lo, hi) \in lo..hi
  BY DEF Clamp
<1> QED  BY <1>2, <1>3, <1>4

(* Halving the step leaves value and flag of a search alone.                *)
LEMMA HalveType ==
    ASSUME NEW t \in Search, NEW sign \in -1..1
    PROVE  /\ Halve(t, sign) \in Search
           /\ Halve(t, sign).done = t.done
<1>1. CASE sign = t.oldSign
  BY <1>1 DEF Halve
<1>2. CASE sign # t.oldSign
  <2> DEFINE o == IF chip = "rd53b" THEN sign ELSE 0
  <2>1. o \in Int /\ t.step \div 2 \in Nat
    BY DEF Search
  <2>2. Halve(t, sign) = [t EXCEPT !.step = t.step \div 2, !.oldSign = o]
    BY <1>2 DEF Halve
  <2> QED  BY <2>1, <2>2 DEF Search
<1> QED  BY <1>1, <1>2

(* The range a search moves in. *)
LowEnd(l) == IF chip = "fei4" THEN 0 ELSE l.min
RangeOK(l) == l \in LoopType /\ 0 <= l.min /\ l.min <= l.max

(* feedback(): the flag stays up, and the value is in the range unless      *)
(* Rd53b has found it.                                                      *)
LEMMA FeedbackRange ==
    ASSUME NEW l, RangeOK(l), NEW t \in Search, NEW sign \in -1..1, NEW last \in BOOLEAN,
           NEW u \in Feedback(l, t, sign, last)
    PROVE  /\ u \in Search
           /\ t.done => u.done
           /\ (chip # "rd53b" \/ ~u.done) => u.value \in LowEnd(l)..l.max
<1> DEFINE h == Halve(t, sign)
           low == IF chip = "fei4" THEN 0 ELSE l.min
           vals == {Clamp(x, low, l.max) : x \in ToInt(t.value + h.step * sign)}
           TooLow(v) == IF chip = "fei4" THEN v < LowLimit ELSE v <= l.min
<1>1. h \in Search /\ h.done = t.done
  BY HalveType
<1>2. low \in Int /\ l.max \in Int /\ 0 <= low /\ low <= l.max /\ low = LowEnd(l)
  BY DEF RangeOK, LoopType, LowEnd
<1>3. t.value + h.step * sign \in Int
  <2>1. t.value \in Nat /\ h.step \in Nat /\ sign \in Int
    BY <1>1 DEF Search
  <2> QED  BY <2>1
<1>4. \A v \in vals : v \in low..l.max /\ v \in Nat
  <2>1. \A x \in ToInt(t.value + h.step * sign) : x \in Int
    BY <1>3, ConversionTypes
  <2>2. \A x \in Int : Clamp(x, low, l.max) \in low..l.max
    BY <1>2, ConversionTypes
  <2>3. \A v \in low..l.max : v \in Nat
    BY <1>2
  <2> QED  BY <2>1, <2>2, <2>3
<1>5. CASE chip = "rd53b" /\ h.step = 0
  <2>1. PICK v \in UNION {ToUnsigned(x + sign) : x \in vals} :
              u = [h EXCEPT !.value = v, !.done = TRUE]
    BY <1>5 DEF Feedback
  <2>2. v \in Nat
    <3>1. PICK x \in vals : v \in ToUnsigned(x + sign)
      BY <2>1
    <3>2. x + sign \in Int
      BY <1>4, <3>1
    <3> QED  BY <3>1, <3>2, ConversionTypes
  <2> QED  BY <1>1, <1>5, <2>1, <2>2 DEF Search
<1>6. CASE chip = "rd53b" /\ h.step # 0
  <2>1. PICK v \in vals : u = [h EXCEPT !.value = v, !.done = @ \/ TooLow(v)]
    BY <1>6 DEF Feedback
  <2>2. v \in Nat /\ v \in low..l.max
    BY <1>4
  <2>3. u = [value |-> v, step |-> h.step, oldSign |-> h.oldSign, done |-> h.done \/ TooLow(v)]
    BY <1>1, <2>1 DEF Search
  <2>4. (h.done \/ TooLow(v)) \in BOOLEAN
    BY <1>1 DEF Search
  <2>5. u \in Search /\ u.value = v /\ (h.done => u.done)
    BY <1>1, <2>2, <2>3, <2>4 DEF Search
  <2> QED  BY <1>1, <1>2, <2>2, <2>5
<1>7. CASE chip # "rd53b"
  <2>1. PICK v \in vals :
              u = [h EXCEPT !.value = v, !.done = @ \/ last \/ h.step = 1 \/ TooLow(v)]
    BY <1>7 DEF Feedback
  <2>2. v \in Nat /\ v \in low..l.max
    BY <1>4
  <2>3. u = [value |-> v, step |-> h.step, oldSign |-> h.oldSign,
             done |-> h.done \/ last \/ h.step = 1 \/ TooLow(v)]
    BY <1>1, <2>1 DEF Search
  <2>4. (h.done \/ last \/ h.step = 1 \/ TooLow(v)) \in BOOLEAN
    BY <1>1 DEF Search
  <2>5. u \in Search /\ u.value = v /\ (h.done => u.done)
    BY <1>1, <2>2, <2>3, <2>4 DEF Search
  <2> QED  BY <1>1, <1>2, <2>2, <2>5
<1> QED  BY <1>5, <1>6, <1>7

(* feedbackBinary() and feedbackStep(): the flag stays up.                  *)
LEMMA OtherFeedback ==
    ASSUME NEW t \in Search, NEW sign \in -1..1, NEW last \in BOOLEAN,
           NEW u \in FeedbackBinary(t, sign, last) \cup FeedbackStep(t, sign, last)
    PROVE  u \in Search /\ (t.done => u.done)
<1>1. CASE u \in FeedbackBinary(t, sign, last)
  <2> DEFINE vals == {IF x < 0 THEN 0 ELSE x : x \in ToInt(t.value + t.step * sign)}
             end(v) == t.done \/ last \/ t.step \div 2 = 1 \/ (chip = "rd53b" /\ v = 0)
  <2>1. PICK v \in vals :
              u = [t EXCEPT !.value = v, !.step = @ \div 2,
                            !.done = @ \/ last \/ t.step \div 2 = 1 \/ (chip = "rd53b" /\ v = 0)]
    BY <1>1 DEF FeedbackBinary
  <2>2. t.value \in Nat /\ t.step \in Nat /\ t.step \div 2 \in Nat /\ sign \in Int
    BY DEF Search
  <2>3. t.value + t.step * sign \in Int
    BY <2>2
  <2>4. v \in Nat
    <3>1. PICK x \in ToInt(t.value + t.step * sign) : v = IF x < 0 THEN 0 ELSE x
      BY <2>1
    <3>2. x \in Int
      BY <2>3, <3>1, ConversionTypes
    <3> QED  BY <3>1, <3>2
  <2>5. u = [value |-> v, step |-> t.step \div 2, oldSign |-> t.oldSign, done |-> end(v)]
    BY <2>1 DEF Search
  <2>6. end(v) \in BOOLEAN /\ (t.done => end(v))
    BY DEF Search
  <2> HIDE DEF end
  <2> QED  BY <2>2, <2>4, <2>5, <2>6 DEF Search
<1>2. CASE u \in FeedbackStep(t, sign, last)
  <2>1. PICK v \in ToUnsigned(t.value + sign) : u = [t EXCEPT !.value = v, !.done = @ \/ last]
    BY <1>2 DEF FeedbackStep
  <2>2. t.value + sign \in Int
    BY DEF Search
  <2>3. v \in Nat
    BY <2>2, ConversionTypes
  <2>4. u = [value |-> v, step |-> t.step, oldSign |-> t.oldSign, done |-> t.done \/ last]
    BY <2>1 DEF Search
  <2>5. (t.done \/ last) \in BOOLEAN /\ (t.done => t.done \/ last)
    BY DEF Search
  <2> QED  BY <2>3, <2>4, <2>5 DEF Search
<1> QED  BY <1>1, <1>2

(* An answer a global loop can get moves its search to a search.            *)
LEMMA ApplyType ==
    ASSUME NEW l, RangeOK(l), NEW t \in Search, NEW a \in AnswerType,
           a.mode # "pixel", NEW u \in Apply(l, t, a)
    PROVE  /\ u \in Search
           /\ t.done => u.done
           /\ (a.mode = "plain" /\ (chip # "rd53b" \/ ~u.done))
                 => u.value \in LowEnd(l)..l.max
<1>1. a.sign \in -1..1 /\ a.last \in BOOLEAN /\ a.mode \in {"plain", "binary", "step"}
  BY DEF AnswerType, Modes
<1>2. CASE a.mode = "plain"
  <2>1. u \in Feedback(l, t, a.sign, a.last)
    BY <1>2 DEF Apply
  <2> QED  BY <1>1, <2>1, FeedbackRange
<1>3. CASE a.mode # "plain"
  <2>1. u \in FeedbackBinary(t, a.sign, a.last) \cup FeedbackStep(t, a.sign, a.last)
    BY <1>1, <1>3 DEF Apply
  <2> QED  BY <1>1, <1>3, <2>1, OtherFeedback
<1> QED  BY <1>2, <1>3

----------------------------------------------------------------------------
(* What the assumptions say of the scan at hand.                            *)
LEMMA SetupFacts ==
    ASSUME EngineTypes, SearchTypes
    PROVE  /\ active \subseteq FE /\ chip \in {"fei4", "rd53a", "rd53b"}
           /\ setup.reset \in BOOLEAN
           /\ setup.algorithm \in {"occupancy", "occTune", "tot", "noise", "pixel"}
           /\ \A l \in Levels :
                 /\ loops[l].kind \in Feedbacks => l = 1
                 /\ loops[l].kind = "globalFeedback" =>
                       /\ RangeOK(loops[l]) /\ loops[l].max < WordSize
                       /\ setup.algorithm \in {"occTune", "tot", "noise"}
                 /\ loops[l].kind = "pixelFeedback" => setup.algorithm = "pixel"
<1>1. setup \in Setups /\ setup.loops = loops
  BY DEF SearchTypes
<1>2. \A l \in Levels : loops[l] \in LoopType
  BY LoopFacts
<1> QED  BY <1>1, <1>2, TuningAssumption DEF active, chip, Levels, RangeOK

(* Sending the settings, and sending the TDACs.                             *)
LEMMA WriteFacts ==
    /\ \A t : (t \in [FE -> Search] /\ dac \in [FE -> Chip]) =>
          /\ WritePar(t) \in [FE -> Chip]
          /\ \A f \in FE : f \in active => WritePar(t)[f].reg = t[f].value
    /\ \A d, p, S : (d \in [FE -> Chip] /\ p \in [FE -> PixelRegs]) =>
          /\ ConfigurePixels(d, p, S) \in [FE -> Chip]
          /\ \A f \in FE : ConfigurePixels(d, p, S)[f].reg = d[f].reg
<1>1. ASSUME NEW t \in [FE -> Search], dac \in [FE -> Chip]
      PROVE  /\ WritePar(t) \in [FE -> Chip]
             /\ \A f \in FE : f \in active => WritePar(t)[f].reg = t[f].value
  <2>1. \A f \in FE : [dac[f] EXCEPT !.reg = t[f].value] \in Chip
    BY <1>1 DEF Chip, Search
  <2>2. \A f \in FE : [dac[f] EXCEPT !.reg = t[f].value].reg = t[f].value
    BY <1>1 DEF Chip
  <2> QED  BY <1>1, <2>1, <2>2 DEF WritePar
<1>2. ASSUME NEW d \in [FE -> Chip], NEW p \in [FE -> PixelRegs], NEW S
      PROVE  /\ ConfigurePixels(d, p, S) \in [FE -> Chip]
             /\ \A f \in FE : ConfigurePixels(d, p, S)[f].reg = d[f].reg
  <2>1. \A f \in FE : /\ [d[f] EXCEPT !.tdac = p[f].tdac] \in Chip
                      /\ [d[f] EXCEPT !.tdac = p[f].tdac].reg = d[f].reg
    BY DEF Chip, PixelRegs
  <2> QED  BY <2>1 DEF ConfigurePixels
<1> QED  BY <1>1, <1>2

(* Setting one field of the pixel registers.                                *)
LEMMA PixelFacts ==
    \A r \in PixelRegs :
        /\ \A x \in Int : [r EXCEPT !.tdac = x] \in PixelRegs
        /\ \A b \in BOOLEAN : [r EXCEPT !.en = b] \in PixelRegs /\ [r EXCEPT !.en = b].tdac = r.tdac
BY DEF PixelRegs

(* init() of a global search starts at the maximum, with the flag down.     *)
LEMMA InitGlobalEffect ==
    ASSUME EngineTypes, SearchTypes, level \in Levels, InitGlobalFeedback
    PROVE  /\ tune' \in [FE -> Search] /\ dac' \in [FE -> Chip] /\ pix' \in [FE -> PixelRegs]
           /\ \A f \in active : tune'[f].value = This.max /\ ~tune'[f].done
<1> DEFINE reset == setup.reset /\ chip # "fei4"
           start == [value |-> Unsigned(This.max), step |-> This.step,
                     oldSign |-> IF chip = "fei4" THEN Unsigned(-1) ELSE -1, done |-> FALSE]
<1>1. This \in LoopType /\ This.max \in 0..(WordSize - 1)
  <2>1. This \in LoopType /\ This.kind = "globalFeedback"
    BY LoopFacts DEF This, InitGlobalFeedback
  <2>2. RangeOK(This) /\ This.max < WordSize
    BY <2>1, SetupFacts DEF This
  <2> QED  BY <2>1, <2>2, LoopEngineAssumption DEF RangeOK, LoopType
<1>2. Unsigned(This.max) = This.max /\ This.max \in Nat /\ Unsigned(-1) \in Int
  <2>1. WordSize \in Nat /\ WordSize > 0 /\ -1 \in Int
    BY LoopEngineAssumption
  <2>2. \A x \in 0..(WordSize - 1) : x % WordSize = x
    BY <2>1
  <2>3. Unsigned(-1) \in Int
    BY <2>1, UnsignedNat
  <2> QED  BY <1>1, <2>1, <2>2, <2>3 DEF Unsigned
<1>3. start \in Search
  BY <1>1, <1>2 DEF Search, LoopType
<1>4. tune' = [f \in FE |-> IF f \in active THEN start ELSE tune[f]]
  BY DEF InitGlobalFeedback
<1>5. tune' \in [FE -> Search]
  BY <1>3, <1>4 DEF SearchTypes
<1>6. pix' = [f \in FE |-> IF f \in active /\ reset
                            THEN [pix[f] EXCEPT !.tdac = PixelReg] ELSE pix[f]]
  BY DEF InitGlobalFeedback
<1>7. pix' \in [FE -> PixelRegs]
  BY <1>6, PixelFacts, TuningAssumption DEF SearchTypes
<1>8. dac' \in [FE -> Chip]
  <2>1. WritePar(tune') \in [FE -> Chip]
    BY <1>5, WriteFacts DEF SearchTypes
  <2>2. \E S : dac' = ConfigurePixels(WritePar(tune'), pix', S)
    BY DEF InitGlobalFeedback
  <2> QED  BY <2>1, <2>2, <1>7, WriteFacts
<1>9. \A f \in active : tune'[f].value = This.max /\ ~tune'[f].done
  BY <1>2, <1>4, SetupFacts
<1> QED  BY <1>5, <1>7, <1>8, <1>9

(* init() of a pixel loop.                                                  *)
LEMMA InitPixelEffect ==
    ASSUME SearchTypes, InitPixelFeedback
    PROVE  /\ tune' \in [FE -> Search] /\ pix' \in [FE -> PixelRegs]
           /\ chip # "rd53a" => \A f \in FE : ~tune'[f].done
<1>1. (chip = "rd53a") \in BOOLEAN
  OBVIOUS
<1>2. \A f \in FE : tune[f] \in Search /\ pix[f] \in PixelRegs
  BY DEF SearchTypes
<1>3. \A t \in Search : \A b \in BOOLEAN :
        [t EXCEPT !.done = b] \in Search /\ [t EXCEPT !.done = b].done = b
  BY DEF Search
<1>4. tune' = [f \in FE |-> [tune[f] EXCEPT !.done = (chip = "rd53a")]]
  BY DEF InitPixelFeedback
<1>5. tune' \in [FE -> Search]
  BY <1>1, <1>2, <1>3, <1>4
<1>6. \A f \in FE : tune'[f].done = (chip = "rd53a")
  BY <1>1, <1>2, <1>3, <1>4
<1>7. pix' \in [FE -> PixelRegs]
  BY <1>2, PixelFacts, TuningAssumption DEF InitPixelFeedback
<1> QED  BY <1>5, <1>6, <1>7

(* init() of a mask loop saves the registers and disables the pixels.       *)
LEMMA InitMaskEffect ==
    ASSUME SearchTypes, InitMask
    PROVE  /\ pix' \in [FE -> PixelRegs] /\ dac' \in [FE -> Chip]
           /\ \A f \in FE : pix'[f].tdac = pix[f].tdac /\ dac'[f].reg = dac[f].reg
<1>1. pix' = [f \in FE |-> [pix[f] EXCEPT !.en = FALSE]]
  BY DEF InitMask
<1>2. pix' \in [FE -> PixelRegs] /\ \A f \in FE : pix'[f].tdac = pix[f].tdac
  BY <1>1, PixelFacts DEF SearchTypes
<1>3. dac' = ConfigurePixels(dac, pix', FE)
  BY DEF InitMask
<1> QED  BY <1>2, <1>3, WriteFacts DEF SearchTypes

(* execPart1() changes neither TDACs of the configuration nor settings.     *)
LEMMA Part1Effect ==
    ASSUME SearchTypes, LoopPart1
    PROVE  /\ pix' \in [FE -> PixelRegs] /\ dac' \in [FE -> Chip]
           /\ \A f \in FE : pix'[f].tdac = pix[f].tdac /\ dac'[f].reg = dac[f].reg
<1>1. \A f \in FE : EnabledAtStage(f) \in BOOLEAN
  BY DEF EnabledAtStage
<1>2. pix' = pix \/ pix' = [f \in FE |-> [pix[f] EXCEPT !.en = EnabledAtStage(f)]]
  BY DEF LoopPart1
<1>3. pix' \in [FE -> PixelRegs] /\ \A f \in FE : pix'[f].tdac = pix[f].tdac
  <2>1. \A f \in FE : pix[f] \in PixelRegs
    BY DEF SearchTypes
  <2>2. CASE pix' = pix
    BY <2>1, <2>2 DEF SearchTypes
  <2>3. CASE pix' = [f \in FE |-> [pix[f] EXCEPT !.en = EnabledAtStage(f)]]
    BY <1>1, <2>1, <2>3, PixelFacts
  <2> QED  BY <1>2, <2>2, <2>3
<1>4. \E S : dac' = ConfigurePixels(dac, pix, S)
  BY DEF LoopPart1
<1> QED  BY <1>3, <1>4, WriteFacts DEF SearchTypes

(* The answer a loop waits for moves the search of one front end, or its    *)
(* TDAC.                                                                    *)
LEMMA WaitEffect ==
    ASSUME EngineTypes, SearchTypes, AnalysisTypes, ExecutingInv, PixelInv,
           NEW f \in FE, WaitForFeedback(f)
    PROVE  /\ level = 1 /\ 1 \in Levels /\ f \in active
           /\ tune' \in [FE -> Search] /\ pix' \in [FE -> PixelRegs]
           /\ \A g \in FE : g # f => tune'[g] = tune[g]
           /\ tune[f].done => tune'[f].done
           /\ This.kind = "pixelFeedback" => tune' = tune
           /\ (setup.algorithm = "occTune" /\ (chip # "rd53b" \/ ~tune'[f].done))
                 => tune'[f].value \in LowEnd(loops[1])..loops[1].max
<1>1. /\ phase = "part2" /\ level \in Levels /\ This \in LoopType /\ This = loops[level]
      /\ This.kind \in Feedbacks /\ f \in active
  BY LoopFacts DEF WaitForFeedback, This
<1>2. level = 1
  BY <1>1, SetupFacts
<1>3. tune \in [FE -> Search] /\ pix \in [FE -> PixelRegs]
  BY DEF SearchTypes
<1> DEFINE a == Head(fb[f])
<1>4. a \in AnswerType /\ a = fb[f][1] /\ 1 \in DOMAIN fb[f]
  <2>1. fb[f] \in Seq(AnswerType) /\ fb[f] # <<>>
    BY DEF AnalysisTypes, WaitForFeedback
  <2> QED  BY <2>1
<1>5. /\ setup.algorithm # "pixel" => a.mode # "pixel"
      /\ setup.algorithm = "occTune" => a.mode = "plain"
  BY <1>4 DEF AnalysisTypes
<1>6. CASE This.kind = "globalFeedback"
  <2>1. PICK t \in Apply(This, tune[f], a) : tune' = [tune EXCEPT ![f] = t]
    BY <1>6 DEF WaitForFeedback
  <2>2. RangeOK(This) /\ setup.algorithm # "pixel"
    BY <1>1, <1>6, SetupFacts
  <2>3. tune[f] \in Search
    BY <1>3
  <2>4. /\ t \in Search /\ (tune[f].done => t.done)
        /\ (a.mode = "plain" /\ (chip # "rd53b" \/ ~t.done)) => t.value \in LowEnd(This)..This.max
    BY <1>4, <1>5, <2>1, <2>2, <2>3, ApplyType
  <2>5. tune' \in [FE -> Search] /\ tune'[f] = t /\ \A g \in FE : g # f => tune'[g] = tune[g]
    BY <1>3, <2>1, <2>4
  <2>6. pix' = pix
    BY <1>6 DEF WaitForFeedback
  <2> QED  BY <1>1, <1>2, <1>3, <1>5, <1>6, <2>4, <2>5, <2>6
<1>7. CASE This.kind = "pixelFeedback"
  <2>1. tune' = tune /\ pix' = [pix EXCEPT ![f].tdac = ApplyPixel(This, @, a)]
    BY <1>7 DEF WaitForFeedback
  <2>2. m_cur[1] \in 0..(Len(PixelSteps) - 1)
    <3>1. Outermost("pixelFeedback") /\ Inside(1)
      BY <1>1, <1>2, <1>7, LoopFacts DEF Outermost, Inside
    <3>2. ~m_done[1]
      BY <1>1, <1>2, <1>7 DEF ExecutingInv, Executing
    <3> QED  BY <3>1, <3>2 DEF PixelInv
  <2>3. PixelSteps[m_cur[level] + 1] \in Int
    BY <1>2, <2>2, TuningAssumption
  <2>4. pix[f] \in PixelRegs /\ pix[f].tdac \in Int /\ a.sign \in Int
    BY <1>3, <1>4 DEF PixelRegs, AnswerType
  <2>5. ApplyPixel(This, pix[f].tdac, a) \in Int
    <3>1. This.min \in Int /\ This.max \in Int
      BY <1>1 DEF LoopType
    <3>2. pix[f].tdac - PixelSteps[m_cur[level] + 1] * a.sign \in Int
      BY <2>3, <2>4
    <3>3. \A x, lo, hi \in Int : Clamp(x, lo, hi) \in Int
      BY DEF Clamp
    <3> QED  BY <3>1, <3>2, <3>3 DEF ApplyPixel
  <2>6. pix' = [pix EXCEPT ![f] = [pix[f] EXCEPT !.tdac = ApplyPixel(This, pix[f].tdac, a)]]
    BY <2>1, <1>3
  <2>7. pix' \in [FE -> PixelRegs]
    BY <1>3, <2>4, <2>5, <2>6, PixelFacts
  <2>8. setup.algorithm # "occTune"
    BY <1>1, <1>7, SetupFacts
  <2> QED  BY <1>1, <1>2, <1>3, <2>1, <2>7, <2>8
<1> QED  BY <1>1, <1>6, <1>7 DEF Feedbacks

(* Searches, chips and pixel registers keep their types.                    *)
LEMMA StepSearchTypes ==
    ASSUME EngineTypes, SearchTypes, AnalysisTypes, ExecutingInv, PixelInv,
           [TuningNext]_tuningVars
    PROVE  SearchTypes'
<1>0. /\ setup \in Setups /\ setup.loops = loops
      /\ tune \in [FE -> Search] /\ dac \in [FE -> Chip]
      /\ pix \in [FE -> PixelRegs] /\ m_pixRegs \in [FE -> PixelRegs]
      /\ waited \subseteq active
      /\ takenDac \in Seq([FE -> Chip]) /\ Len(takenDac) = Len(taken)
  BY DEF SearchTypes
<1>t. taken \in Seq([stat : [Levels -> Int], reg : [Levels -> Int]])
  BY DEF EngineTypes, TypeOK
<1>1. CASE LoopInit
  <2>1. /\ setup' = setup /\ loops' = loops /\ waited' = waited
        /\ takenDac' = takenDac /\ taken' = taken
    BY <1>1 DEF LoopInit, InitLoop
  <2>2. level \in Levels
    BY <1>1, LoopFacts DEF LoopInit, InitLoop
  <2>3. /\ tune' \in [FE -> Search] /\ dac' \in [FE -> Chip]
        /\ pix' \in [FE -> PixelRegs] /\ m_pixRegs' \in [FE -> PixelRegs]
    <3>1. CASE InitGlobalFeedback
      BY <3>1, <2>2, <1>0, InitGlobalEffect DEF InitGlobalFeedback
    <3>2. CASE InitPixelFeedback
      BY <3>2, <1>0, InitPixelEffect DEF InitPixelFeedback
    <3>3. CASE InitMask
      BY <3>3, <1>0, InitMaskEffect DEF InitMask
    <3>4. CASE UNCHANGED <<tune, dac, pix, m_pixRegs>>
      BY <3>4, <1>0
    <3> QED  BY <1>1, <3>1, <3>2, <3>3, <3>4 DEF LoopInit
  <2> QED  BY <1>0, <2>1, <2>3 DEF SearchTypes, active
<1>2. CASE LoopPart1
  BY <1>2, <1>0, Part1Effect DEF LoopPart1, ExecPart1, SearchTypes, active
<1>3. CASE LoopPart2
  <2>1. /\ setup' = setup /\ loops' = loops
        /\ UNCHANGED <<tune, dac, pix, m_pixRegs, waited>>
    BY <1>3 DEF LoopPart2, ExecPart2, tuning
  <2>2. takenDac' \in Seq([FE -> Chip]) /\ Len(takenDac') = Len(taken')
    <3>1. CASE This.kind = "data"
      <4>1. taken' = Append(taken, [stat |-> g_stat, reg |-> reg])
        BY <1>3, <3>1 DEF LoopPart2, ExecPart2, DataPart2, Stages
      <4>2. takenDac' = Append(takenDac, dac)
        BY <1>3, <3>1 DEF LoopPart2
      <4> QED  BY <4>1, <4>2, <1>0, <1>t
    <3>2. CASE This.kind # "data"
      <4>1. taken' = taken
        BY <1>3, <3>2 DEF LoopPart2, ExecPart2, ParameterPart2, RepeaterPart2, MaskPart2
      <4> QED  BY <1>3, <3>2, <4>1, <1>0 DEF LoopPart2
    <3> QED  BY <3>1, <3>2
  <2> QED  BY <1>0, <2>1, <2>2 DEF SearchTypes, active
<1>4. CASE FeedbackPart2
  <2>1. dac' \in [FE -> Chip]
    BY <1>4, <1>0, WriteFacts DEF FeedbackPart2
  <2> QED  BY <1>4, <1>0, <2>1 DEF FeedbackPart2, SearchTypes, active
<1>5. CASE LoopEnd
  <2>1. dac' \in [FE -> Chip] /\ pix' \in [FE -> PixelRegs]
    BY <1>5, <1>0, WriteFacts DEF LoopEnd
  <2> QED  BY <1>5, <1>0, <2>1 DEF LoopEnd, EndLoop, SearchTypes, active
<1>6. CASE LoopCloseOut
  BY <1>6, <1>0 DEF LoopCloseOut, CloseOut, tuning, SearchTypes, active
<1>7. CASE \E f \in FE : WaitForFeedback(f)
  <2> PICK f \in FE : WaitForFeedback(f)
    BY <1>7
  <2>1. tune' \in [FE -> Search] /\ pix' \in [FE -> PixelRegs] /\ f \in active
    BY WaitEffect
  <2>2. /\ setup' = setup /\ loops' = loops /\ taken' = taken /\ takenDac' = takenDac
        /\ dac' = dac /\ m_pixRegs' = m_pixRegs /\ waited' = waited \cup {f}
    BY DEF WaitForFeedback, vars
  <2> QED  BY <1>0, <2>1, <2>2 DEF SearchTypes, active
<1>8. CASE \E f \in FE : ProcessHistogram(f)
  <2> PICK f \in FE : ProcessHistogram(f)
    BY <1>8
  <2>1. pix' = pix \/ pix' = [pix EXCEPT ![f].en = FALSE]
    BY DEF ProcessHistogram, Send, MaskPixel
  <2>2. pix' \in [FE -> PixelRegs]
    <3>1. pix[f] \in PixelRegs /\ [pix[f] EXCEPT !.en = FALSE] \in PixelRegs
      BY <1>0, PixelFacts
    <3>2. [pix EXCEPT ![f].en = FALSE] = [pix EXCEPT ![f] = [pix[f] EXCEPT !.en = FALSE]]
      BY <1>0
    <3> QED  BY <1>0, <2>1, <3>1, <3>2
  <2>3. /\ setup' = setup /\ loops' = loops /\ taken' = taken /\ takenDac' = takenDac
        /\ UNCHANGED <<tune, dac, m_pixRegs, waited>>
    BY DEF ProcessHistogram, vars
  <2> QED  BY <1>0, <2>2, <2>3 DEF SearchTypes, active
<1>9. CASE UNCHANGED tuningVars
  BY <1>9, <1>0 DEF tuningVars, vars, tuning, SearchTypes, active
<1> QED  BY <1>1, <1>2, <1>3, <1>4, <1>5, <1>6, <1>7, <1>8, <1>9 DEF TuningNext, EngineStep

(* Looking up and updating the accumulated data takings of one identifier.  *)
LEMMA UpdateFacts ==
    \A fun, x, y :
        /\ DOMAIN Update(fun, x, y) = DOMAIN fun \cup {x}
        /\ \A z \in DOMAIN Update(fun, x, y) :
              Update(fun, x, y)[z] = y \/ (z \in DOMAIN fun /\ Update(fun, x, y)[z] = fun[z])
BY DEF Update

(* An analysis answers in its own mode, and leads away within the bound.    *)
LEMMA AnswerFacts ==
    ASSUME EngineTypes, SearchTypes, NEW f \in FE, away[f] \in Nat, away[f] <= MaxAway,
           setup.algorithm # "occupancy", NEW a \in Answers(f)
    PROVE  /\ a.mode \in Modes /\ a.sign \in -1..1 /\ a.last \in BOOLEAN
           /\ setup.algorithm # "pixel" => a.mode # "pixel"
           /\ setup.algorithm = "occTune" => a.mode = "plain"
           /\ Away(a) => away[f] < MaxAway
<1>0. setup.algorithm \in {"occTune", "tot", "noise", "pixel"}
  BY SetupFacts
<1>1. CASE setup.algorithm = "occTune"
  <2>1. a \in OccTuneAnswers(f)
    BY <1>1 DEF Answers
  <2>2. a = Answer("plain", -1, FALSE) \/ (a = Answer("plain", 1, FALSE) /\ away[f] < MaxAway)
    BY <2>1 DEF OccTuneAnswers, MayLeadAway
  <2>3. a.mode = "plain" /\ a.sign \in {-1, 1} /\ a.last = FALSE
    BY <2>2 DEF Answer
  <2>4. Away(a) => away[f] < MaxAway
    BY <2>2 DEF Answer, Away
  <2>5. a.sign \in -1..1
    BY <2>3
  <2>6. a.last \in BOOLEAN /\ a.mode \in Modes
    BY <2>3 DEF Modes
  <2> QED  BY <1>1, <2>3, <2>4, <2>5, <2>6
<1>2. CASE setup.algorithm = "tot"
  <2>1. a \in TotAnswers
    BY <1>2 DEF Answers
  <2>2. a.mode = "binary" /\ a.sign \in {-1, 0, 1} /\ a.last \in BOOLEAN
    <3>1. \/ a = [mode |-> "binary", sign |-> -1, last |-> FALSE]
          \/ a = [mode |-> "binary", sign |-> 1, last |-> FALSE]
          \/ a = [mode |-> "binary", sign |-> 0, last |-> TRUE]
      BY <2>1 DEF TotAnswers, Answer
    <3>2. a.mode = "binary"
      BY <3>1
    <3>3. a.sign \in {-1, 0, 1}
      BY <3>1
    <3>4. a.last \in BOOLEAN
      <4>1. ASSUME NEW m, NEW x, NEW b \in BOOLEAN, a = [mode |-> m, sign |-> x, last |-> b]
            PROVE  a.last \in BOOLEAN
        BY <4>1
      <4>2. TRUE \in BOOLEAN /\ FALSE \in BOOLEAN
        OBVIOUS
      <4> QED  BY <3>1, <4>1, <4>2, Zenon
    <3> QED  BY <3>2, <3>3, <3>4
  <2>3. ~Away(a)
    BY <2>2 DEF Away
  <2> QED  BY <1>2, <2>2, <2>3 DEF Modes
<1>3. CASE setup.algorithm = "noise"
  <2>1. a \in NoiseAnswers(f)
    BY <1>3 DEF Answers
  <2>2. a = Answer("step", 0, TRUE) \/ (a = Answer("step", -1, FALSE) /\ away[f] < MaxAway)
    BY <2>1 DEF NoiseAnswers, MayLeadAway
  <2>3. a.mode = "step" /\ a.sign \in {-1, 0} /\ a.last \in BOOLEAN
    <3>1. \/ a = [mode |-> "step", sign |-> 0, last |-> TRUE]
          \/ a = [mode |-> "step", sign |-> -1, last |-> FALSE]
      BY <2>2 DEF Answer
    <3>2. a.mode = "step"
      BY <3>1
    <3>3. a.sign \in {-1, 0}
      BY <3>1
    <3>4. a.last \in BOOLEAN
      <4>1. ASSUME NEW m, NEW x, NEW b \in BOOLEAN, a = [mode |-> m, sign |-> x, last |-> b]
            PROVE  a.last \in BOOLEAN
        BY <4>1
      <4>2. TRUE \in BOOLEAN /\ FALSE \in BOOLEAN
        OBVIOUS
      <4> QED  BY <3>1, <4>1, <4>2, Zenon
    <3> QED  BY <3>2, <3>3, <3>4
  <2>4. Away(a) => away[f] < MaxAway
    BY <2>2 DEF Answer, Away
  <2> QED  BY <1>3, <2>3, <2>4 DEF Modes
<1>4. CASE setup.algorithm = "pixel"
  <2>1. a \in PixelAnswers
    BY <1>4 DEF Answers
  <2>2. a.mode = "pixel" /\ a.sign \in -1..1 /\ a.last = FALSE
    BY <2>1 DEF PixelAnswers, Answer
  <2>3. ~Away(a)
    BY <2>2 DEF Away
  <2> QED  BY <1>4, <2>2, <2>3 DEF Modes
<1> QED  BY <1>0, <1>1, <1>2, <1>3, <1>4

(* A histogram is added up, and a complete result is put out and answered.  *)
LEMMA ProcessTypes ==
    ASSUME EngineTypes, SearchTypes, AnalysisTypes, NEW f \in FE, ProcessHistogram(f)
    PROVE  AnalysisTypes'
<1>0. /\ seen \in [FE -> Nat] /\ away \in [FE -> Nat]
      /\ \A g \in FE : seen[g] <= Len(taken) /\ away[g] <= MaxAway
      /\ fb \in [FE -> Seq(AnswerType)]
      /\ results \in [FE -> Seq(Seq(Nat))] /\ masked \in [FE -> BOOLEAN]
      /\ acc = [g \in FE |-> acc[g]]
      /\ \A g \in FE : \A z \in DOMAIN acc[g] : acc[g][z] \in Accumulated
      /\ \A g \in FE : \A k \in DOMAIN fb[g] :
            /\ setup.algorithm # "pixel" => fb[g][k].mode # "pixel"
            /\ setup.algorithm = "occTune" => fb[g][k].mode = "plain"
  BY DEF AnalysisTypes
<1>1. Len(taken) \in Nat /\ MaxAway \in Nat
  BY TuningAssumption DEF EngineTypes, TypeOK
<1>2. setup' = setup /\ taken' = taken
  BY DEF ProcessHistogram, vars
<1>3. seen' = [seen EXCEPT ![f] = @ + 1] /\ seen[f] < Len(taken)
  BY DEF ProcessHistogram
<1>4. seen' \in [FE -> Nat] /\ (\A g \in FE : seen'[g] <= Len(taken)) /\ seen'[f] \in Nat
  BY <1>0, <1>1, <1>3
<1> DEFINE i == seen'[f]
           id == Ident(taken[i].stat)
           old == Lookup(acc[f], id, [innerCnt |-> 0, from |-> <<>>])
           n == old.innerCnt + 1
           from == Append(old.from, i)
<1>5. old \in Accumulated
  <2>1. [innerCnt |-> 0, from |-> <<>>] \in Accumulated
    BY DEF Accumulated
  <2> QED  BY <2>1, <1>0 DEF Lookup
<1>6. n \in Nat /\ from \in Seq(Nat)
  BY <1>4, <1>5 DEF Accumulated
<1>7. \A e \in Accumulated : \A x :
        LET upd == [acc EXCEPT ![f] = Update(@, x, e)]
        IN  /\ upd = [g \in FE |-> upd[g]]
            /\ \A g \in FE : \A z \in DOMAIN upd[g] : upd[g][z] \in Accumulated
  <2> SUFFICES ASSUME NEW e \in Accumulated, NEW x
               PROVE  LET upd == [acc EXCEPT ![f] = Update(@, x, e)]
                      IN  /\ upd = [g \in FE |-> upd[g]]
                          /\ \A g \in FE : \A z \in DOMAIN upd[g] : upd[g][z] \in Accumulated
    OBVIOUS
  <2> DEFINE u == Update(acc[f], x, e)
             upd == [acc EXCEPT ![f] = u]
  <2>1. \A z \in DOMAIN u : u[z] \in Accumulated
    <3> TAKE z \in DOMAIN u
    <3>1. u[z] = e \/ (z \in DOMAIN acc[f] /\ u[z] = acc[f][z])
      BY UpdateFacts
    <3> QED  BY <3>1, <1>0
  <2> HIDE DEF u
  <2>2. /\ upd = [g \in FE |-> upd[g]] /\ upd[f] = u
        /\ \A g \in FE : g # f => upd[g] = acc[g]
    BY <1>0
  <2>3. \A g \in FE : \A z \in DOMAIN upd[g] : upd[g][z] \in Accumulated
    BY <1>0, <2>1, <2>2
  <2> QED  BY <2>2, <2>3 DEF u
<1>8. CASE n # NCount
  <2>1. /\ acc' = [acc EXCEPT ![f] = Update(@, id, [innerCnt |-> n, from |-> from])]
        /\ UNCHANGED <<fb, results, away, masked>>
    BY <1>8 DEF ProcessHistogram
  <2>2. [innerCnt |-> n, from |-> from] \in Accumulated
    BY <1>6 DEF Accumulated
  <2> HIDE DEF n, from, id
  <2>3. /\ acc' = [g \in FE |-> acc'[g]]
        /\ \A g \in FE : \A z \in DOMAIN acc'[g] : acc'[g][z] \in Accumulated
    BY <2>1, <2>2, <1>7
  <2> QED  BY <1>0, <1>2, <1>4, <2>1, <2>3 DEF AnalysisTypes
<1>9. CASE n = NCount
  <2>1. /\ results' = [results EXCEPT ![f] = Append(@, from)]
        /\ acc' = [acc EXCEPT ![f] = Update(@, id, [innerCnt |-> CountAfter(n), from |-> <<>>])]
        /\ Send(f, from) \/ MaskPixel(f)
    BY <1>9 DEF ProcessHistogram
  <2>2. [innerCnt |-> CountAfter(n), from |-> <<>>] \in Accumulated
    BY <1>6 DEF Accumulated, CountAfter
  <2> HIDE DEF n, from, id
  <2>3. /\ acc' = [g \in FE |-> acc'[g]]
        /\ \A g \in FE : \A z \in DOMAIN acc'[g] : acc'[g][z] \in Accumulated
    BY <2>1, <2>2, <1>7
  <2>4. results' \in [FE -> Seq(Seq(Nat))]
    <3>1. results[f] \in Seq(Seq(Nat)) /\ Append(results[f], from) \in Seq(Seq(Nat))
      BY <1>0, <1>6
    <3> QED  BY <1>0, <2>1, <3>1
  <2>5. CASE Send(f, from)
    <3>1. PICK a \in Answers(f) :
            /\ fb' = [fb EXCEPT ![f] = Append(@, [mode |-> a.mode, sign |-> a.sign,
                                                 last |-> a.last, from |-> from])]
            /\ away' = [away EXCEPT ![f] = IF Away(a) THEN @ + 1 ELSE @]
            /\ masked' = masked
      BY <2>5 DEF Send
    <3>2. setup.algorithm # "occupancy"
      BY <2>5 DEF Send
    <3>3. /\ a.mode \in Modes /\ a.sign \in -1..1 /\ a.last \in BOOLEAN
          /\ setup.algorithm # "pixel" => a.mode # "pixel"
          /\ setup.algorithm = "occTune" => a.mode = "plain"
          /\ Away(a) => away[f] < MaxAway
      BY <1>0, <3>2, AnswerFacts
    <3>4. away' \in [FE -> Nat] /\ \A g \in FE : away'[g] <= MaxAway
      BY <1>0, <1>1, <3>1, <3>3
    <3> DEFINE r == [mode |-> a.mode, sign |-> a.sign, last |-> a.last, from |-> from]
    <3>5. r \in AnswerType /\ r.mode = a.mode
      BY <1>6, <3>3 DEF AnswerType
    <3>6. fb' = [fb EXCEPT ![f] = Append(fb[f], r)]
      BY <3>1
    <3> HIDE DEF r
    <3>7. fb[f] \in Seq(AnswerType)
      BY <1>0
    <3>8. /\ Append(fb[f], r) \in Seq(AnswerType)
          /\ \A k \in DOMAIN Append(fb[f], r) :
                Append(fb[f], r)[k] = r
                \/ (k \in DOMAIN fb[f] /\ Append(fb[f], r)[k] = fb[f][k])
      BY <3>5, <3>7
    <3>9. /\ fb' \in [FE -> Seq(AnswerType)]
          /\ fb'[f] = Append(fb[f], r)
          /\ \A g \in FE : g # f => fb'[g] = fb[g]
      BY <1>0, <3>6, <3>8
    <3>10. \A g \in FE : \A k \in DOMAIN fb'[g] :
            /\ setup.algorithm # "pixel" => fb'[g][k].mode # "pixel"
            /\ setup.algorithm = "occTune" => fb'[g][k].mode = "plain"
      <4> TAKE g \in FE
      <4> TAKE k \in DOMAIN fb'[g]
      <4>1. CASE g # f
        BY <1>0, <3>9, <4>1
      <4>2. CASE g = f
        <5>1. fb'[g][k].mode = a.mode \/ (k \in DOMAIN fb[f] /\ fb'[g][k] = fb[f][k])
          BY <3>5, <3>8, <3>9, <4>2
        <5> QED  BY <1>0, <3>3, <5>1
      <4> QED  BY <4>1, <4>2
    <3> QED  BY <1>0, <1>2, <1>4, <2>3, <2>4, <3>1, <3>4, <3>9, <3>10 DEF AnalysisTypes
  <2>6. CASE MaskPixel(f)
    <3>1. fb' = fb /\ away' = away /\ (masked' = masked \/ masked' = [masked EXCEPT ![f] = TRUE])
      BY <2>6 DEF MaskPixel
    <3>2. masked' \in [FE -> BOOLEAN]
      BY <1>0, <3>1
    <3> QED  BY <1>0, <1>2, <1>4, <2>3, <2>4, <3>1, <3>2 DEF AnalysisTypes
  <2> QED  BY <2>1, <2>5, <2>6
<1> QED  BY <1>8, <1>9

(* The analyses and their clipboards keep their types.                      *)
LEMMA StepAnalysisTypes ==
    ASSUME EngineTypes, SearchTypes, AnalysisTypes, [TuningNext]_tuningVars
    PROVE  AnalysisTypes'
<1>1. taken \in Seq([stat : [Levels -> Int], reg : [Levels -> Int]])
  BY DEF EngineTypes, TypeOK
<1>2. CASE \E f \in FE : ProcessHistogram(f)
  BY <1>2, ProcessTypes
<1>3. CASE \E f \in FE : WaitForFeedback(f)
  <2> PICK f \in FE : WaitForFeedback(f)
    BY <1>3
  <2>1. /\ fb' = [fb EXCEPT ![f] = Tail(@)] /\ fb[f] # <<>>
        /\ UNCHANGED <<setup, taken, seen, away, results, acc, masked>>
    BY DEF WaitForFeedback, vars, analysis
  <2>2. fb \in [FE -> Seq(AnswerType)] /\ fb[f] \in Seq(AnswerType)
    BY DEF AnalysisTypes
  <2>3. /\ Tail(fb[f]) \in Seq(AnswerType)
        /\ \A k \in DOMAIN Tail(fb[f]) : k + 1 \in DOMAIN fb[f] /\ Tail(fb[f])[k] = fb[f][k + 1]
    BY <2>1, <2>2
  <2>4. /\ fb' \in [FE -> Seq(AnswerType)] /\ fb'[f] = Tail(fb[f])
        /\ \A g \in FE : g # f => fb'[g] = fb[g]
    BY <2>1, <2>2, <2>3
  <2>5. \A g \in FE : \A k \in DOMAIN fb'[g] :
            /\ setup.algorithm # "pixel" => fb'[g][k].mode # "pixel"
            /\ setup.algorithm = "occTune" => fb'[g][k].mode = "plain"
    <3> TAKE g \in FE
    <3> TAKE k \in DOMAIN fb'[g]
    <3>1. \E j \in DOMAIN fb[g] : fb'[g][k] = fb[g][j]
      BY <2>3, <2>4
    <3> QED  BY <3>1 DEF AnalysisTypes
  <2> QED  BY <2>1, <2>4, <2>5 DEF AnalysisTypes
<1>4. CASE LoopPart2
  <2>1. UNCHANGED <<setup, seen, away, fb, results, acc, masked>>
    BY <1>4 DEF LoopPart2, analysis
  <2>2. Len(taken') >= Len(taken) /\ Len(taken') \in Nat /\ Len(taken) \in Nat
    <3>1. taken' = taken \/ taken' = Append(taken, [stat |-> g_stat, reg |-> reg])
      BY <1>4 DEF LoopPart2, ExecPart2, ParameterPart2, RepeaterPart2, MaskPart2, DataPart2
    <3> QED  BY <1>1, <3>1
  <2>3. \A f \in FE : seen[f] \in Nat /\ seen[f] <= Len(taken)
    BY DEF AnalysisTypes
  <2>4. \A f \in FE : seen[f] <= Len(taken')
    BY <2>2, <2>3
  <2> QED  BY <2>1, <2>4 DEF AnalysisTypes
<1>5. CASE UNCHANGED <<setup, taken, seen, away, fb, results, acc, masked>>
  BY <1>5 DEF AnalysisTypes
<1>6. \/ \E f \in FE : ProcessHistogram(f) \/ WaitForFeedback(f)
      \/ LoopPart2
      \/ UNCHANGED <<setup, taken, seen, away, fb, results, acc, masked>>
  BY DEF TuningNext, EngineStep, LoopInit, InitLoop, LoopPart1, ExecPart1, FeedbackPart2,
         LoopEnd, EndLoop, LoopCloseOut, CloseOut, tuningVars, vars, analysis
<1> QED  BY <1>2, <1>3, <1>4, <1>5, <1>6

----------------------------------------------------------------------------
(* A loop inside another one is no feedback loop: it leaves the searches    *)
(* alone.                                                                   *)
LEMMA InnerInit ==
    ASSUME EngineTypes, SearchTypes, LoopInit, level # 1
    PROVE  /\ tune' = tune
           /\ InitMask \/ UNCHANGED <<dac, pix, m_pixRegs>>
<1>1. This.kind \notin Feedbacks
  <2>1. level \in Levels
    BY LoopFacts DEF LoopInit, InitLoop
  <2> QED  BY <2>1, SetupFacts DEF This
<1> QED  BY <1>1 DEF LoopInit, InitGlobalFeedback, InitPixelFeedback, InitMask, Feedbacks

(* Entries of outer loops do not change.                                    *)
LEMMA OuterEntries ==
    ASSUME EngineTypes, level \in Levels, 1 \in Levels
    PROVE  \A x : /\ Set(m_done, x)[1] = IF level = 1 THEN x ELSE m_done[1]
                  /\ Set(m_cur, x)[1] = IF level = 1 THEN x ELSE m_cur[1]
BY SetApply, Domains

(* A pixel loop goes through its steps (PixelInv).                          *)
LEMMA StepPixel ==
    ASSUME Types, ExecutingInv, PixelInv, [TuningNext]_tuningVars
    PROVE  PixelInv'
<1> USE DEF Types
<1>0. EngineMove /\ loops' = loops /\ setup' = setup
  <2>1. EngineMove
    BY StepIsMove
  <2>2. setup' = setup
    BY DEF TuningNext, EngineStep, LoopInit, LoopPart1, LoopPart2, FeedbackPart2, LoopEnd,
           LoopCloseOut, WaitForFeedback, ProcessHistogram, tuningVars
  <2> QED  BY <2>1, <2>2 DEF EngineMove, InitLoop, ExecPart1, ExecPart2, CountIteration,
                             EndLoop, CloseOut, vars
<1> SUFFICES ASSUME Outermost("pixelFeedback"), Inside(1)'
             PROVE  /\ ~m_done'[1] => m_cur'[1] \in 0..(Len(PixelSteps) - 1)
                    /\ chip # "rd53a" => \A f \in FE : ~tune'[f].done
                    /\ (m_done'[1] /\ chip # "rd53a") => m_cur'[1] = Len(PixelSteps)
  BY <1>0 DEF PixelInv, Outermost, chip
<1>a. /\ 1 \in Levels /\ loops[1].kind = "pixelFeedback" /\ level \in Nat
      /\ Levels = 1..Len(loops) /\ Len(loops) \in Nat
      /\ phase \in {"init", "test", "part2"} => level \in Levels
      /\ Len(PixelSteps) \in Nat \ {0}
  BY LoopFacts, TuningAssumption DEF Outermost
<1>b. Inside(1) => /\ ~m_done[1] => m_cur[1] \in 0..(Len(PixelSteps) - 1)
                   /\ chip # "rd53a" => \A f \in FE : ~tune[f].done
                   /\ (m_done[1] /\ chip # "rd53a") => m_cur[1] = Len(PixelSteps)
  BY DEF PixelInv
<1>c. level \in Levels => \A x : /\ Set(m_done, x)[1] = IF level = 1 THEN x ELSE m_done[1]
                                 /\ Set(m_cur, x)[1] = IF level = 1 THEN x ELSE m_cur[1]
  BY <1>a, OuterEntries
<1>u. ASSUME Inside(1), tune' = tune, m_done'[1] = m_done[1], m_cur'[1] = m_cur[1]
      PROVE  /\ ~m_done'[1] => m_cur'[1] \in 0..(Len(PixelSteps) - 1)
             /\ chip # "rd53a" => \A f \in FE : ~tune'[f].done
             /\ (m_done'[1] /\ chip # "rd53a") => m_cur'[1] = Len(PixelSteps)
  BY <1>b, <1>u
<1>1. CASE LoopInit
  <2>0. InitLoop /\ level \in Levels
    BY <1>1, <1>a DEF LoopInit, InitLoop
  <2>1. CASE level = 1
    <3>1. This.kind = "pixelFeedback"
      BY <2>1, <1>a DEF This
    <3>2. InitPixelFeedback
      BY <1>1, <3>1 DEF LoopInit, InitGlobalFeedback, InitMask, Feedbacks
    <3>3. ~m_done'[1]
      BY <2>0, <2>1, <1>c DEF InitLoop
    <3>4. m_cur'[1] = 0
      BY <2>0, <2>1, <3>1, <1>c DEF InitLoop, Start, Stages, Feedbacks
    <3> QED  BY <3>2, <3>3, <3>4, <1>a, InitPixelEffect
  <2>2. CASE level # 1
    <3>1. m_done'[1] = m_done[1] /\ m_cur'[1] = m_cur[1]
      BY <2>0, <2>2, <1>c DEF InitLoop
    <3>2. Inside(1)
      BY <2>0, <2>2, <1>a DEF Inside
    <3> QED  BY <1>1, <2>2, <3>1, <3>2, <1>u, InnerInit
  <2> QED  BY <2>1, <2>2
<1>2. CASE LoopPart1
  <2> DEFINE d == This.kind = "globalFeedback" /\ chip = "fei4" /\ IsFeedbackDone(active)
  <2>0. ExecPart1(d) /\ tune' = tune /\ phase = "test" /\ level \in Levels /\ Inside(1)
    BY <1>2, <1>a DEF LoopPart1, ExecPart1, Inside
  <2>1. level = 1 => ~d /\ ~m_done[1] /\ This.kind = "pixelFeedback"
    BY <2>0, <1>a DEF This, ExecPart1
  <2>2. m_done'[1] = m_done[1]
    <3>1. m_done'[1] = IF level = 1 THEN d ELSE m_done[1]
      BY <2>0, <1>c DEF ExecPart1
    <3>2. m_done[1] \in BOOLEAN
      BY <1>a DEF EngineTypes, TypeOK
    <3> QED  BY <2>1, <3>1, <3>2
  <2>3. m_cur'[1] = m_cur[1]
    BY <2>0, <2>1, <1>c DEF ExecPart1
  <2> QED  BY <2>0, <2>2, <2>3, <1>u
<1>3. CASE LoopPart2
  <2>0. ExecPart2 /\ tune' = tune /\ level \in Levels /\ phase = "part2"
    BY <1>3, <1>a DEF LoopPart2, ExecPart2, tuning
  <2>1. level # 1
    BY <2>0, <1>a DEF ExecPart2, This, Stages
  <2>2. m_done'[1] = m_done[1] /\ m_cur'[1] = m_cur[1]
    <3>1. (m_done' = m_done \/ \E x : m_done' = Set(m_done, x))
          /\ (m_cur' = m_cur \/ \E x : m_cur' = Set(m_cur, x))
      BY <2>0 DEF ExecPart2, ParameterPart2, RepeaterPart2, MaskPart2, DataPart2
    <3> QED  BY <2>0, <2>1, <3>1, <1>c
  <2> QED  BY <2>0, <2>1, <2>2, <1>a, <1>u DEF Inside
<1>4. CASE FeedbackPart2
  <2>0. level \in Levels /\ phase = "part2" /\ This.kind \in Feedbacks /\ tune' = tune
    BY <1>4, <1>a DEF FeedbackPart2
  <2>1. level = 1
    BY <2>0, SetupFacts DEF This
  <2>2. This.kind = "pixelFeedback"
    BY <2>1, <1>a DEF This
  <2>3. Inside(1) /\ ~m_done[1]
    BY <2>0, <2>1, <1>a DEF Inside, ExecutingInv, Executing
  <2>4. m_cur[1] \in 0..(Len(PixelSteps) - 1)
    BY <2>3, <1>b
  <2>5. m_cur'[1] = m_cur[1] + 1
    BY <1>4, <2>0, <2>1, <1>c DEF FeedbackPart2
  <2>6. m_done'[1] = (m_cur'[1] = Len(PixelSteps) \/ IsFeedbackDone(FE))
    BY <1>4, <2>0, <2>1, <2>2, <1>c DEF FeedbackPart2
  <2>7. chip # "rd53a" => ~IsFeedbackDone(FE)
    BY <1>b, <2>3, TuningAssumption DEF IsFeedbackDone
  <2>8. ~m_done'[1] => m_cur'[1] \in 0..(Len(PixelSteps) - 1)
    <3>1. ~m_done'[1] => m_cur'[1] # Len(PixelSteps)
      BY <2>6
    <3>2. m_cur'[1] # Len(PixelSteps) => m_cur'[1] \in 0..(Len(PixelSteps) - 1)
      BY <2>4, <2>5, <1>a
    <3> QED  BY <3>1, <3>2
  <2> QED  BY <2>0, <2>3, <2>6, <2>7, <2>8, <1>b
<1>5. CASE LoopEnd
  <2>0. EndLoop /\ tune' = tune /\ level \in Levels /\ phase = "test" /\ m_done' = m_done
    BY <1>5, <1>a DEF LoopEnd, EndLoop
  <2>1. m_cur'[1] = m_cur[1]
    BY <2>0, <1>a, <1>c DEF EndLoop, This
  <2> QED  BY <2>0, <2>1, <1>a, <1>u DEF Inside
<1>6. CASE LoopCloseOut
  <2>1. tune' = tune /\ m_done' = m_done /\ m_cur' = m_cur /\ level' = level /\ phase = "closeOut"
    BY <1>6 DEF LoopCloseOut, CloseOut, tuning
  <2> QED  BY <2>1, <1>u DEF Inside
<1>7. CASE \E f \in FE : WaitForFeedback(f)
  <2> PICK f \in FE : WaitForFeedback(f)
    BY <1>7
  <2>1. level = 1 /\ (This.kind = "pixelFeedback" => tune' = tune)
    BY WaitEffect
  <2>2. tune' = tune
    BY <2>1, <1>a DEF This
  <2>3. UNCHANGED vars
    BY DEF WaitForFeedback
  <2> QED  BY <2>2, <2>3, <1>u DEF vars, Inside
<1>8. CASE \E f \in FE : ProcessHistogram(f)
  <2>1. UNCHANGED vars /\ tune' = tune
    BY <1>8 DEF ProcessHistogram
  <2> QED  BY <2>1, <1>u DEF vars, Inside
<1>9. CASE UNCHANGED tuningVars
  BY <1>9, <1>u DEF tuningVars, vars, tuning, Inside
<1> QED  BY <1>1, <1>2, <1>3, <1>4, <1>5, <1>6, <1>7, <1>8, <1>9 DEF TuningNext, EngineStep

(* A global loop that is done has all values, and has written them          *)
(* (GlobalInv).                                                             *)
LEMMA StepGlobal ==
    ASSUME Types, ExecutingInv, PixelInv, GlobalInv, EndInv, [TuningNext]_tuningVars
    PROVE  GlobalInv'
<1> USE DEF Types
<1>0. loops' = loops /\ setup' = setup
  <2>1. EngineMove
    BY StepIsMove
  <2>2. setup' = setup
    BY DEF TuningNext, EngineStep, LoopInit, LoopPart1, LoopPart2, FeedbackPart2, LoopEnd,
           LoopCloseOut, WaitForFeedback, ProcessHistogram, tuningVars
  <2> QED  BY <2>1, <2>2 DEF EngineMove, InitLoop, ExecPart1, ExecPart2, CountIteration,
                             EndLoop, CloseOut, vars
<1> DEFINE Found == \A f \in active : tune[f].done
           Written == \A f \in active : dac[f].reg = tune[f].value
<1> SUFFICES ASSUME Outermost("globalFeedback"), Inside(1)', m_done'[1]
             PROVE  /\ \A f \in active : tune'[f].done
                    /\ (level' = 1 /\ phase' # "part2")
                          => \A f \in active : dac'[f].reg = tune'[f].value
  BY <1>0 DEF GlobalInv, Outermost, active
<1>a. /\ 1 \in Levels /\ loops[1].kind = "globalFeedback" /\ level \in Nat
      /\ Levels = 1..Len(loops) /\ Len(loops) \in Nat
      /\ phase \in {"init", "test", "part2"} => level \in Levels
  BY LoopFacts DEF Outermost
<1>b. (Inside(1) /\ m_done[1]) => Found /\ ((level = 1 /\ phase # "part2") => Written)
  BY DEF GlobalInv
<1>c. level \in Levels => \A x : Set(m_done, x)[1] = IF level = 1 THEN x ELSE m_done[1]
  BY <1>a, OuterEntries
<1>s. active \subseteq FE
  BY SetupFacts
<1>1. CASE LoopInit
  <2>0. InitLoop /\ level \in Levels
    BY <1>1, <1>a DEF LoopInit, InitLoop
  <2>1. level # 1
    BY <2>0, <1>c DEF InitLoop
  <2>2. m_done[1] /\ Inside(1) /\ level' # 1
    BY <2>0, <2>1, <1>a, <1>c DEF InitLoop, Inside
  <2> QED  BY <1>1, <2>1, <2>2, <1>b, InnerInit
<1>2. CASE LoopPart1
  <2> DEFINE d == This.kind = "globalFeedback" /\ chip = "fei4" /\ IsFeedbackDone(active)
  <2>0. ExecPart1(d) /\ tune' = tune /\ phase = "test" /\ level \in Levels /\ Inside(1)
    BY <1>2, <1>a DEF LoopPart1, ExecPart1, Inside
  <2>1. m_done'[1] = IF level = 1 THEN d ELSE m_done[1]
    BY <2>0, <1>c DEF ExecPart1
  <2>2. Found
    BY <2>0, <2>1, <1>b DEF IsFeedbackDone
  <2>3. ~(level' = 1 /\ phase' # "part2")
    BY <2>0, <1>a DEF ExecPart1
  <2> QED  BY <2>0, <2>2, <2>3
<1>3. CASE LoopPart2
  <2>0. ExecPart2 /\ tune' = tune /\ level \in Levels /\ level' = level
    BY <1>3, <1>a DEF LoopPart2, ExecPart2, tuning
  <2>1. level # 1
    BY <2>0, <1>a DEF ExecPart2, This, Stages
  <2>2. m_done'[1] = m_done[1]
    <3>1. m_done' = m_done \/ \E x : m_done' = Set(m_done, x)
      BY <2>0 DEF ExecPart2, ParameterPart2, RepeaterPart2, MaskPart2, DataPart2
    <3> QED  BY <2>0, <2>1, <3>1, <1>c
  <2> QED  BY <2>0, <2>1, <2>2, <1>a, <1>b DEF Inside
<1>4. CASE FeedbackPart2
  <2>0. level \in Levels /\ phase = "part2" /\ This.kind \in Feedbacks /\ tune' = tune
    BY <1>4, <1>a DEF FeedbackPart2
  <2>1. level = 1 /\ Inside(1)
    BY <2>0, SetupFacts DEF This, Inside
  <2>2. This.kind = "globalFeedback"
    BY <2>1, <1>a DEF This
  <2>3. dac' = WritePar(tune)
    BY <1>4, <2>2 DEF FeedbackPart2
  <2>4. \A f \in active : dac'[f].reg = tune[f].value
    BY <2>3, <1>s, WriteFacts DEF SearchTypes
  <2>5. Found
    <3>1. CASE chip = "fei4"
      <4>1. m_done' = m_done
        BY <1>4, <2>2, <3>1 DEF FeedbackPart2
      <4> QED  BY <4>1, <2>1, <1>b
    <3>2. CASE chip # "fei4"
      <4>1. m_done' = Set(m_done, IsFeedbackDone(active))
        BY <1>4, <2>2, <3>2 DEF FeedbackPart2
      <4>2. m_done'[1] = IsFeedbackDone(active)
        BY <4>1, <2>0, <2>1, <1>c
      <4> QED  BY <4>2 DEF IsFeedbackDone
    <3> QED  BY <3>1, <3>2
  <2> QED  BY <2>0, <2>4, <2>5
<1>5. CASE LoopEnd
  <2>0. EndLoop /\ tune' = tune /\ level \in Levels /\ phase = "test" /\ m_done' = m_done
    BY <1>5, <1>a DEF LoopEnd, EndLoop
  <2>1. Inside(1) /\ Found
    BY <2>0, <1>a, <1>b DEF Inside
  <2>2. CASE level = 1
    <3>1. Written
      BY <2>0, <2>1, <2>2, <1>b
    <3>2. dac' = dac \/ dac' = WritePar(tune)
      BY <1>5 DEF LoopEnd
    <3>3. \A f \in active : dac'[f].reg = tune[f].value
      BY <3>1, <3>2, <1>s, WriteFacts DEF SearchTypes
    <3> QED  BY <2>0, <2>1, <3>3
  <2>3. CASE level # 1
    <3>1. phase' = "part2"
      BY <2>0, <2>3, <1>a DEF EndLoop
    <3> QED  BY <2>0, <2>1, <3>1
  <2> QED  BY <2>2, <2>3
<1>6. CASE LoopCloseOut
  <2>1. /\ tune' = tune /\ dac' = dac /\ m_done' = m_done
        /\ level' = level /\ phase = "closeOut"
    BY <1>6 DEF LoopCloseOut, CloseOut, tuning
  <2>2. level = 1 /\ Inside(1)
    BY <2>1 DEF EndInv, Inside, Outermost
  <2> QED  BY <2>1, <2>2, <1>b
<1>7. CASE \E f \in FE : WaitForFeedback(f)
  <2> PICK f \in FE : WaitForFeedback(f)
    BY <1>7
  <2>1. /\ level = 1
        /\ \A g \in FE : g # f => tune'[g] = tune[g]
        /\ tune[f].done => tune'[f].done
    BY WaitEffect
  <2>2. phase = "part2" /\ UNCHANGED vars
    BY DEF WaitForFeedback
  <2>3. Found
    BY <2>1, <2>2, <1>b DEF vars, Inside
  <2>4. \A g \in active : tune'[g].done
    BY <2>1, <2>3, <1>s
  <2> QED  BY <2>2, <2>4 DEF vars
<1>8. CASE \E f \in FE : ProcessHistogram(f)
  <2>1. UNCHANGED vars /\ tune' = tune /\ dac' = dac
    BY <1>8 DEF ProcessHistogram
  <2> QED  BY <2>1, <1>b DEF vars, Inside
<1>9. CASE UNCHANGED tuningVars
  BY <1>9, <1>b DEF tuningVars, vars, tuning, Inside
<1> QED  BY <1>1, <1>2, <1>3, <1>4, <1>5, <1>6, <1>7, <1>8, <1>9 DEF TuningNext, EngineStep

(* Who changes the TDACs: a feedback loop, or nobody. The registers a mask  *)
(* loop puts back have the TDACs of the configuration.                      *)
LEMMA TdacStep ==
    ASSUME Types, ExecutingInv, PixelInv, MaskInv, [TuningNext]_tuningVars,
           NEW f \in FE, pix'[f].tdac # pix[f].tdac
    PROVE  level = 1 /\ This.kind \in Feedbacks /\ (LoopInit \/ \E g \in FE : WaitForFeedback(g))
<1> USE DEF Types
<1>0. \A g \in FE : pix[g] \in PixelRegs
  BY DEF SearchTypes
<1>1. CASE LoopInit
  <2>1. level = 1
    BY <1>1, InnerInit, InitMaskEffect
  <2>2. This.kind \in Feedbacks
    BY <1>1, InitMaskEffect DEF LoopInit, InitGlobalFeedback, InitPixelFeedback, Feedbacks
  <2> QED  BY <1>1, <2>1, <2>2
<1>2. CASE LoopPart1
  BY <1>2, Part1Effect
<1>3. CASE LoopEnd
  <2>1. EndLoop /\ This.kind = "mask" /\ pix' = m_pixRegs
    BY <1>3 DEF LoopEnd
  <2>2. level \in Levels /\ phase = "test"
    BY <2>1, LoopFacts DEF EndLoop
  <2>3. m_pixRegs[f].tdac = pix[f].tdac
    BY <2>1, <2>2 DEF MaskInv, Inside, This
  <2> QED  BY <2>1, <2>3
<1>4. CASE \E g \in FE : WaitForFeedback(g)
  <2> PICK g \in FE : WaitForFeedback(g)
    BY <1>4
  <2>1. level = 1
    BY WaitEffect
  <2>2. This.kind \in Feedbacks
    BY DEF WaitForFeedback
  <2> QED  BY <2>1, <2>2, <1>4
<1>5. CASE \E g \in FE : ProcessHistogram(g)
  <2> PICK g \in FE : ProcessHistogram(g)
    BY <1>5
  <2>1. pix' = pix \/ pix' = [pix EXCEPT ![g].en = FALSE]
    BY DEF ProcessHistogram, Send, MaskPixel
  <2>2. [pix EXCEPT ![g].en = FALSE][f].tdac = pix[f].tdac
    <3>1. [pix[g] EXCEPT !.en = FALSE].tdac = pix[g].tdac
      BY <1>0, PixelFacts
    <3>2. [pix EXCEPT ![g].en = FALSE][f] = IF f = g THEN [pix[g] EXCEPT !.en = FALSE] ELSE pix[f]
      BY DEF SearchTypes
    <3> QED  BY <3>1, <3>2
  <2> QED  BY <2>1, <2>2
<1>6. CASE pix' = pix
  BY <1>6
<1>7. LoopPart2 \/ FeedbackPart2 \/ LoopCloseOut \/ UNCHANGED tuningVars => pix' = pix
  BY DEF LoopPart2, FeedbackPart2, LoopCloseOut, tuningVars, tuning
<1> QED  BY <1>1, <1>2, <1>3, <1>4, <1>5, <1>6, <1>7 DEF TuningNext, EngineStep

(* A mask loop keeps what it saved until it puts it back (MaskInv).         *)
LEMMA StepMask ==
    ASSUME Types, ExecutingInv, PixelInv, MaskInv, [TuningNext]_tuningVars
    PROVE  MaskInv'
<1> USE DEF Types
<1>0. EngineMove /\ loops' = loops
  <2>1. EngineMove
    BY StepIsMove
  <2> QED  BY <2>1 DEF EngineMove, InitLoop, ExecPart1, ExecPart2, CountIteration,
                       EndLoop, CloseOut, vars
<1> SUFFICES ASSUME NEW l \in Levels, loops[l].kind = "mask", Inside(l)', NEW f \in FE
             PROVE  m_pixRegs'[f].tdac = pix'[f].tdac
  BY <1>0 DEF MaskInv, Levels
<1>a. /\ level \in Nat /\ l \in Nat /\ l >= 1
      /\ phase \in {"init", "test", "part2"} => level \in Levels
  BY LoopFacts
<1>1. CASE LoopInit /\ l = level
  <2>1. This.kind = "mask"
    BY <1>1 DEF This
  <2>2. InitMask
    BY <1>1, <2>1 DEF LoopInit, InitGlobalFeedback, InitPixelFeedback
  <2> QED  BY <2>2, InitMaskEffect DEF InitMask
<1>2. CASE ~(LoopInit /\ l = level)
  <2>1. Inside(l)
    <3>1. CASE InitLoop
      <4>1. LoopInit
        BY <3>1 DEF TuningNext, EngineStep, InitLoop, LoopPart1, ExecPart1, LoopPart2, ExecPart2,
                    FeedbackPart2, LoopEnd, EndLoop, LoopCloseOut, CloseOut, WaitForFeedback,
                    ProcessHistogram, tuningVars, vars
      <4> QED  BY <3>1, <4>1, <1>2, <1>a DEF InitLoop, Inside
    <3>2. CASE \E d \in BOOLEAN : ExecPart1(d) /\ (d => This.kind = "globalFeedback")
      <4> PICK d \in BOOLEAN : ExecPart1(d)
        BY <3>2
      <4> QED  BY <1>a DEF ExecPart1, Inside
    <3>3. CASE ExecPart2
      BY <3>3 DEF ExecPart2, Inside
    <3>4. CASE CountIteration
      BY <3>4 DEF CountIteration, Inside
    <3>5. CASE EndLoop
      BY <3>5, <1>a DEF EndLoop, Inside
    <3>6. CASE CloseOut
      BY <3>6 DEF CloseOut, Inside
    <3>7. CASE UNCHANGED vars
      BY <3>7 DEF vars, Inside
    <3> QED  BY <1>0, <3>1, <3>2, <3>3, <3>4, <3>5, <3>6, <3>7 DEF EngineMove
  <2>2. m_pixRegs[f].tdac = pix[f].tdac
    BY <2>1 DEF MaskInv
  <2>3. pix'[f].tdac = pix[f].tdac
    <3>1. SUFFICES ASSUME pix'[f].tdac # pix[f].tdac
                   PROVE  FALSE
      OBVIOUS
    <3>2. level = 1 /\ This.kind \in Feedbacks /\ (LoopInit \/ \E g \in FE : WaitForFeedback(g))
      BY <3>1, TdacStep
    <3>3. level' = level
      BY <3>2 DEF LoopInit, InitLoop, WaitForFeedback, vars
    <3>4. l = level
      BY <3>2, <3>3, <1>a DEF Inside
    <3> QED  BY <3>2, <3>4 DEF This, Feedbacks
  <2>4. m_pixRegs' = m_pixRegs \/ m_pixRegs' = pix
    BY DEF TuningNext, EngineStep, LoopInit, InitGlobalFeedback, InitPixelFeedback, InitMask,
           LoopPart1, LoopPart2, FeedbackPart2, LoopEnd, LoopCloseOut, WaitForFeedback,
           ProcessHistogram, tuningVars, tuning
  <2> QED  BY <2>2, <2>3, <2>4
<1> QED  BY <1>1, <1>2

(* The threshold search keeps to its range (ValueInRange).                  *)
LEMMA StepValue ==
    ASSUME Types, ExecutingInv, PixelInv, ValueInRange, [TuningNext]_tuningVars
    PROVE  ValueInRange'
<1> USE DEF Types
<1>0. EngineMove /\ loops' = loops /\ setup' = setup
  <2>1. EngineMove
    BY StepIsMove
  <2>2. setup' = setup
    BY DEF TuningNext, EngineStep, LoopInit, LoopPart1, LoopPart2, FeedbackPart2, LoopEnd,
           LoopCloseOut, WaitForFeedback, ProcessHistogram, tuningVars
  <2> QED  BY <2>1, <2>2 DEF EngineMove, InitLoop, ExecPart1, ExecPart2, CountIteration,
                             EndLoop, CloseOut, vars
<1> SUFFICES ASSUME setup.algorithm = "occTune",
                    NEW l \in Levels, loops[l].kind \in Feedbacks, NEW f \in active,
                    phase' # "init" \/ level' > l, chip # "rd53b" \/ ~tune'[f].done
             PROVE  tune'[f].value \in LowEnd(loops[l])..loops[l].max
  BY <1>0 DEF ValueInRange, Searching, active, chip, Levels, LowEnd
<1>a. /\ l = 1 /\ loops[1].kind = "globalFeedback" /\ RangeOK(loops[1]) /\ f \in FE
      /\ level \in Nat /\ 1 \in Levels
      /\ phase \in {"init", "test", "part2"} => level \in Levels
  BY LoopFacts, SetupFacts DEF Feedbacks
<1>b. ((phase # "init" \/ level > 1) /\ (chip # "rd53b" \/ ~tune[f].done))
        => tune[f].value \in LowEnd(loops[1])..loops[1].max
  BY <1>a DEF ValueInRange, Searching, LowEnd
<1>1. CASE LoopInit
  <2>0. level \in Levels
    BY <1>1, <1>a DEF LoopInit, InitLoop
  <2>1. CASE level = 1
    <3>1. This = loops[1] /\ This.kind = "globalFeedback"
      BY <2>1, <1>a DEF This
    <3>2. InitGlobalFeedback
      BY <1>1, <3>1 DEF LoopInit, InitPixelFeedback, InitMask, Feedbacks
    <3>3. tune'[f].value = loops[1].max
      BY <2>0, <3>1, <3>2, InitGlobalEffect
    <3>4. loops[1].max \in LowEnd(loops[1])..loops[1].max
      BY <1>a DEF RangeOK, LowEnd, LoopType
    <3> QED  BY <3>3, <3>4, <1>a
  <2>2. CASE level # 1
    BY <1>1, <2>0, <2>2, <1>a, <1>b, LoopFacts, InnerInit
  <2> QED  BY <2>1, <2>2
<1>2. CASE \E g \in FE : WaitForFeedback(g)
  <2> PICK g \in FE : WaitForFeedback(g)
    BY <1>2
  <2>1. /\ \A h \in FE : h # g => tune'[h] = tune[h]
        /\ (chip # "rd53b" \/ ~tune'[g].done)
              => tune'[g].value \in LowEnd(loops[1])..loops[1].max
    BY WaitEffect
  <2>2. phase = "part2"
    BY DEF WaitForFeedback
  <2> QED  BY <2>1, <2>2, <1>a, <1>b
<1>3. CASE tune' = tune /\ phase # "init"
  BY <1>3, <1>a, <1>b
<1>4. CASE tune' = tune /\ UNCHANGED <<phase, level>>
  BY <1>4, <1>a, <1>b
<1>5. \/ LoopInit \/ (\E g \in FE : WaitForFeedback(g))
      \/ tune' = tune /\ (phase # "init" \/ UNCHANGED <<phase, level>>)
  BY DEF TuningNext, EngineStep, LoopPart1, ExecPart1, LoopPart2, ExecPart2, FeedbackPart2,
         LoopEnd, EndLoop, LoopCloseOut, CloseOut, ProcessHistogram, tuningVars, vars, tuning
<1> QED  BY <1>1, <1>2, <1>3, <1>4, <1>5

----------------------------------------------------------------------------
(* The invariant holds when the scan starts.                                *)
LEMMA InvStart ==
    ASSUME TuningInit
    PROVE  TuningInv
<1>0. Init /\ loops \in Configs /\ setup \in Setups /\ setup.loops = loops
  BY DEF TuningInit, Init
<1>1. loops \in Seq(LoopType) /\ Len(loops) \in Nat /\ Levels = 1..Len(loops)
  <2>1. loops \in Seq(LoopType)
    BY <1>0, LoopEngineAssumption DEF LoopType
  <2> QED  BY <2>1 DEF Levels
<1>2. EngineTypes
  <2>1. level = 1 /\ phase = IF loops = <<>> THEN "closeOut" ELSE "init"
    BY <1>0 DEF Init
  <2>2. loops # <<>> => 1 \in Levels
    BY <1>1
  <2>3. /\ m_cur \in [Levels -> Int] /\ m_done \in [Levels -> BOOLEAN]
        /\ g_stat \in [Levels -> Int] /\ reg \in [Levels -> Int]
    BY <1>0 DEF Init, Levels
  <2>4. taken = <<>> /\ closed = <<>>
    BY <1>0 DEF Init
  <2> QED  BY <1>0, <1>1, <2>1, <2>2, <2>3, <2>4 DEF EngineTypes, TypeOK
<1>3. SearchTypes
  <2>1. tune \in [FE -> Search] /\ dac \in [FE -> Chip] /\ pix \in [FE -> PixelRegs]
    BY DEF TuningInit, Search, Chip, PixelRegs
  <2>2. m_pixRegs = pix /\ waited = {} /\ takenDac = <<>> /\ taken = <<>>
    BY DEF TuningInit, Init
  <2> QED  BY <1>0, <2>1, <2>2 DEF SearchTypes
<1>4. AnalysisTypes
  <2>1. /\ seen = [f \in FE |-> 0] /\ away = [f \in FE |-> 0] /\ taken = <<>>
        /\ fb = [f \in FE |-> <<>>] /\ results = [f \in FE |-> <<>>]
        /\ acc = [f \in FE |-> <<>>] /\ masked = [f \in FE |-> FALSE]
    BY DEF TuningInit, Init
  <2> QED  BY <2>1, TuningAssumption DEF AnalysisTypes
<1>5. level = 1 /\ (loops # <<>> => phase = "init") /\ (loops = <<>> => Levels = {})
  BY <1>0, <1>1 DEF Init
<1>6. ExecutingInv /\ ParameterInv /\ MaskInv
  BY <1>1, <1>5 DEF ExecutingInv, ParameterInv, MaskInv, Executing, Inside
<1>7. PixelInv /\ GlobalInv /\ EndInv
  BY <1>5 DEF PixelInv, GlobalInv, EndInv, Outermost, Inside
<1>8. LabelledWithParameters
  BY <1>0 DEF LabelledWithParameters, Init
<1>9. ValueInRange
  BY <1>1, <1>5 DEF ValueInRange, Searching
<1> QED  BY <1>2, <1>3, <1>4, <1>6, <1>7, <1>8, <1>9 DEF TuningInv, Types

(* Every step keeps it.                                                     *)
LEMMA InvStep ==
    ASSUME TuningInv, [TuningNext]_tuningVars
    PROVE  TuningInv'
<1> USE DEF TuningInv, Types
<1>1. EngineMove
  BY StepIsMove
<1>2. EngineTypes' /\ ExecutingInv' /\ ParameterInv' /\ LabelledWithParameters' /\ EndInv'
  BY <1>1, MoveTypes, MoveExecuting, MoveParameter, MoveLabelled, MoveEnd
<1>3. SearchTypes' /\ AnalysisTypes'
  BY StepSearchTypes, StepAnalysisTypes
<1>4. PixelInv' /\ GlobalInv' /\ MaskInv' /\ ValueInRange'
  BY StepPixel, StepGlobal, StepMask, StepValue
<1> QED  BY <1>2, <1>3, <1>4

(* The inductive invariant of tuning holds in every reachable state.        *)
LEMMA TuningInvariant == TuningSpec => []TuningInv
<1>1. TuningInit => TuningInv
  BY InvStart
<1>2. TuningInv /\ [TuningNext]_tuningVars => TuningInv'
  BY InvStep
<1> QED  BY <1>1, <1>2, PTL DEF TuningSpec

(* Engine, searches, chips, pixel registers and analyses keep their types   *)
(* in every scan; in particular no setting becomes negative, and a pixel    *)
(* loop never reads past its steps.                                         *)
THEOREM TypeCorrect == TuningSpec => []TuningTypeOK
<1>1. TuningInv => TuningTypeOK
  <2> SUFFICES ASSUME TuningInv
               PROVE  TuningTypeOK
    OBVIOUS
  <2>1. TypeOK /\ SearchTypes /\ AnalysisTypes
    BY DEF TuningInv, Types, EngineTypes
  <2>2. Len(taken) \in Nat /\ MaxAway \in Nat
    BY <2>1, TuningAssumption DEF TypeOK
  <2>3. \A f \in FE : seen[f] \in 0..Len(taken) /\ away[f] \in 0..MaxAway
    BY <2>1, <2>2 DEF AnalysisTypes
  <2> QED  BY <2>1, <2>3 DEF TuningTypeOK, SearchTypes, Search, Chip, PixelRegs
<1> QED  BY <1>1, TuningInvariant, PTL

(* For any nesting of loops, data are labelled with the parameters that     *)
(* were in the registers when they were taken.                              *)
THEOREM DataLabelled == TuningSpec => []LabelledWithParameters
<1>1. TuningInv => LabelledWithParameters
  BY DEF TuningInv
<1> QED  BY <1>1, TuningInvariant, PTL

(* For any number of front ends, any answers and any range and step, the    *)
(* threshold search keeps to its range.                                     *)
THEOREM SearchInRange == TuningSpec => []ValueInRange
<1>1. TuningInv => ValueInRange
  BY DEF TuningInv
<1> QED  BY <1>1, TuningInvariant, PTL

(* When a scan has ended, every search has found its value and left it on   *)
(* the chip, and every pixel tuning went through all of its steps.          *)
THEOREM TuningsComplete == TuningSpec => []TuningCompleted
<1>1. TuningInv => TuningCompleted
  <2> SUFFICES ASSUME TuningInv, phase \in {"closeOut", "done"}
               PROVE  TuningCompleted
    BY DEF TuningCompleted, FinalValueWritten, AllStepsPerformed
  <2> USE DEF TuningInv, Types
  <2>1. ASSUME NEW l \in Searching
        PROVE  l = 1 /\ loops # <<>> /\ l \in Levels
    BY <2>1, SetupFacts, LoopFacts DEF Searching
  <2>2. loops # <<>> => level = 1 /\ m_done[1] /\ Inside(1)
    BY DEF EndInv, Inside
  <2>3. FinalValueWritten
    <3> SUFFICES ASSUME NEW l \in Searching, loops[l].kind = "globalFeedback"
                 PROVE  \A f \in active : dac[f].reg = tune[f].value /\ tune[f].done
      BY DEF FinalValueWritten
    <3>1. Outermost("globalFeedback") /\ Inside(1) /\ m_done[1] /\ level = 1
      BY <2>1, <2>2 DEF Outermost
    <3> QED  BY <3>1 DEF GlobalInv
  <2>4. AllStepsPerformed
    <3> SUFFICES ASSUME NEW l \in Searching, loops[l].kind = "pixelFeedback", chip # "rd53a"
                 PROVE  m_cur[l] = Len(PixelSteps)
      BY DEF AllStepsPerformed
    <3>1. Outermost("pixelFeedback") /\ Inside(1) /\ m_done[1] /\ l = 1
      BY <2>1, <2>2 DEF Outermost
    <3> QED  BY <3>1 DEF PixelInv
  <2> QED  BY <2>3, <2>4 DEF TuningCompleted
<1> QED  BY <1>1, TuningInvariant, PTL

(* The TDACs are changed by the feedback loop only: neither the mask loops  *)
(* inside it nor the analyses undo a tuning.                                *)
THEOREM MasksKeepTuning == TuningSpec => TuningNotUndone
<1> DEFINE Kept == \A f \in FE : pix'[f].tdac # pix[f].tdac => This.kind \in Feedbacks
<1>1. TuningInv /\ [TuningNext]_tuningVars => [Kept]_tuningVars
  BY TdacStep DEF TuningInv
<1> QED  BY <1>1, TuningInvariant, PTL DEF TuningSpec, TuningNotUndone

----------------------------------------------------------------------------
(* A quotient lies between what it divides and one step more. *)
LEMMA DivFacts ==
    ASSUME NEW x \in Nat, NEW s \in Nat \ {0}
    PROVE  /\ x \div s \in Nat
           /\ (x \div s) * s <= x
           /\ x < (x \div s) * s + s
OBVIOUS

(* Multiples grow with the factor. *)
LEMMA Multiples ==
    ASSUME NEW s \in Nat \ {0}, NEW i \in Nat
    PROVE  /\ i * s \in Nat /\ (i + 1) * s = i * s + s
           /\ \A j \in Nat : i <= j => i * s <= j * s
           /\ \A j \in Nat : i > j => i * s >= j * s + s
OBVIOUS

(* The conversions keep a value within the range of int. *)
LEMMA Converted ==
    ASSUME NEW x \in Int, -(WordSize \div 2) <= x, x < WordSize \div 2
    PROVE  Signed(Unsigned(x)) = x /\ Unsigned(x) = IF x < 0 THEN x + WordSize ELSE x
BY LoopEngineAssumption DEF Signed, Unsigned

(* A full turn does not change what is left of a word. *)
LEMMA OneTurn ==
    ASSUME NEW z \in Int, -(WordSize \div 2) <= z, z < WordSize \div 2
    PROVE  (z + WordSize) % WordSize = z % WordSize
<1>0. WordSize \in Nat \ {0, 1} /\ WordSize \div 2 \in Nat /\ WordSize \div 2 < WordSize
  BY LoopEngineAssumption
<1>1. CASE z >= 0
  <2>1. z % WordSize = z
    BY <1>0, <1>1
  <2>2. z + WordSize = 1 * WordSize + z /\ 0 <= z /\ z < WordSize
    BY <1>0, <1>1
  <2>3. (z + WordSize) % WordSize = z
    BY <1>0, <2>2
  <2> QED BY <2>1, <2>3
<1>2. CASE z < 0
  BY <1>0, <1>2
<1> QED BY <1>1, <1>2

Counted == {"parameter"} \cup Stages

(* A regular loop runs at least once. Counting on from the value of an      *)
(* iteration gives that of the next, and shows exactly at the last that     *)
(* the loop is over.                                                        *)
LEMMA RunFacts ==
    ASSUME NEW l \in LoopType, Regular(l)
    PROVE  /\ Runs(l) \in Nat \ {0}
           /\ \A i \in Nat : Value(l, i) \in Int
           /\ l.kind \in Counted => \A i \in Nat : i < Runs(l) =>
                 LET next == Unsigned(Value(l, i + 1) + l.step)
                 IN  /\ next = Value(l, i + 2)
                     /\ (Signed(next) > Final(l)) <=> (i + 1 = Runs(l))
           /\ l.kind = "repeater" => \A i \in Nat : (l.min + i + 1 = l.max) <=> (i + 1 = Runs(l))
<1> DEFINE n == (Final(l) - l.min) \div l.step + 1
           Y(i) == l.min + i * l.step
           H == WordSize \div 2
<1>1. /\ l.kind \in Kinds /\ l.min \in Int /\ l.max \in Int /\ l.step \in Nat \ {0}
      /\ Final(l) \in Int /\ H \in Nat /\ WordSize \in Nat
  BY LoopEngineAssumption DEF LoopType, Final
<1>2. \A i \in Nat : Value(l, i) \in Int
  <2>1. ASSUME NEW i \in Nat PROVE l.min + (i - 1) * l.step \in Int
    BY <1>1
  <2> QED BY <2>1, UnsignedNat DEF Value
<1>3. CASE l.kind \in Counted
  <2>1. l.kind \notin {"repeater", "data"} /\ l.kind \notin Feedbacks
    BY <1>3 DEF Counted, Stages, Feedbacks
  <2>2. Runs(l) = IF Final(l) < l.min THEN 1 ELSE n
    BY <2>1 DEF Runs
  <2>3. -H <= l.min /\ l.min + l.step < H /\ Final(l) + l.step < H
    BY <2>1 DEF Regular
  <2>4. Runs(l) \in Nat \ {0}
    BY <1>1, <2>2, DivFacts
  <2>5. /\ Final(l) < Y(Runs(l))
        /\ \A i \in Nat : (i < Runs(l) /\ i # 0) => Y(i) <= Final(l)
    <3>1. CASE Final(l) < l.min
      BY <1>1, <2>2, <3>1
    <3>2. CASE ~(Final(l) < l.min)
      <4> DEFINE d == Final(l) - l.min
                 q == d \div l.step
      <4>0. d \in Nat
        BY <1>1, <3>2
      <4> HIDE DEF d
      <4>1. q \in Nat /\ q * l.step <= d /\ d < q * l.step + l.step
        BY <1>1, <4>0, DivFacts
      <4>2. Runs(l) = q + 1 /\ (q + 1) * l.step = q * l.step + l.step
        BY <2>2, <3>2, <4>1, <1>1, Multiples DEF d
      <4> HIDE DEF q
      <4>3. Final(l) < Y(Runs(l))
        BY <1>1, <4>1, <4>2 DEF d
      <4>4. ASSUME NEW i \in Nat, i < Runs(l) PROVE Y(i) <= Final(l)
        <5>1. i <= q
          BY <4>1, <4>2, <4>4
        <5>2. i * l.step <= q * l.step
          BY <5>1, <4>1, <1>1, Multiples
        <5> QED BY <1>1, <4>1, <5>2 DEF d
      <4> QED BY <4>3, <4>4
    <3> QED BY <3>1, <3>2
  <2>6. ASSUME NEW i \in Nat, i < Runs(l)
        PROVE  /\ Unsigned(Value(l, i + 1) + l.step) = Value(l, i + 2)
               /\ (Signed(Value(l, i + 2)) > Final(l)) <=> (i + 1 = Runs(l))
    <3>1. /\ Value(l, i + 1) = Unsigned(Y(i)) /\ Value(l, i + 2) = Unsigned(Y(i + 1))
      <4>1. (i + 1) - 1 = i /\ (i + 2) - 1 = i + 1
        OBVIOUS
      <4> QED BY <2>1, <4>1 DEF Value
    <3>2. Y(i) \in Int /\ Y(i + 1) = Y(i) + l.step /\ Y(i) >= l.min
      BY <1>1, Multiples
    <3>3. Y(i) <= Final(l) \/ Y(i) = l.min
      BY <2>5, <2>6, <1>1
    <3>4. Y(i + 1) > Final(l) <=> i + 1 = Runs(l)
      <4>1. CASE i + 1 = Runs(l)
        BY <2>5, <4>1
      <4>2. CASE i + 1 # Runs(l)
        <5>1. Y(i + 1) <= Final(l)
          BY <2>5, <2>6, <4>2, <2>4
        <5> QED BY <5>1, <4>2, <3>2, <1>1
      <4> QED BY <4>1, <4>2
    <3> DEFINE y == Y(i)
               z == Y(i + 1)
    <3> HIDE DEF y, z
    <3>5. y \in Int /\ z = y + l.step /\ z \in Int /\ -H <= y /\ y < H /\ -H <= z /\ z < H
      BY <1>1, <2>3, <3>2, <3>3 DEF y, z
    <3>6. Signed(Unsigned(z)) = z /\ Unsigned(y) = IF y < 0 THEN y + WordSize ELSE y
      BY <3>5, Converted
    <3>7. Unsigned(Unsigned(y) + l.step) = Unsigned(z)
      <4>1. CASE y >= 0
        BY <3>5, <3>6, <4>1, <1>1
      <4>2. CASE y < 0
        <5>1. Unsigned(y) + l.step = z + WordSize
          BY <3>5, <3>6, <4>2, <1>1
        <5>2. (z + WordSize) % WordSize = z % WordSize
          BY <3>5, <1>1, OneTurn
        <5> QED BY <5>1, <5>2 DEF Unsigned
      <4> QED BY <4>1, <4>2, <3>5
    <3> QED BY <3>1, <3>4, <3>6, <3>7 DEF y, z
  <2> QED BY <1>2, <2>1, <2>4, <2>6
<1>4. CASE l.kind = "repeater"
  <2>1. l.min < l.max /\ Runs(l) = l.max - l.min /\ "repeater" \notin Counted
    BY <1>4 DEF Regular, Runs, Counted, Stages
  <2> QED BY <1>1, <1>2, <1>4, <2>1
<1>5. CASE l.kind = "data"
  <2>1. Runs(l) = 1 /\ "data" \notin Counted
    BY <1>5 DEF Runs, Counted, Stages
  <2> QED BY <1>2, <1>5, <2>1
<1>6. l.kind \in Counted \/ l.kind = "repeater" \/ l.kind = "data"
  BY DEF Regular, Counted
<1> QED BY <1>3, <1>4, <1>5, <1>6

----------------------------------------------------------------------------
Positions == Seq(Seq(Int))

(* The positions a loop still has after i runs, and all of them. *)
Later(l, s, i) == FlattenSeq([j \in 1..(Runs(l) - i) |-> Within(Value(l, i + j), s)])
Block(l, s) == FlattenSeq([i \in 1..Runs(l) |-> Within(Value(l, i), s)])

(* Positions with one more loop around them are positions, as many.         *)
LEMMA WithinType ==
    ASSUME NEW v \in Int, NEW s \in Positions
    PROVE  /\ Within(v, s) \in Positions /\ Len(Within(v, s)) = Len(s)
           /\ \A j \in 1..Len(s) : Within(v, s)[j] = <<v>> \o s[j]
<1>1. DOMAIN s = 1..Len(s) /\ Len(s) \in Nat /\ \A j \in 1..Len(s) : s[j] \in Seq(Int)
  BY DEF Positions
<1>2. ASSUME NEW j \in 1..Len(s) PROVE <<v>> \o s[j] \in Seq(Int)
  <2>1. s[j] \in Seq(Int) /\ <<v>> \in Seq(Int)
    BY <1>1
  <2> QED BY <2>1, ConcatProperties
<1> DEFINE P(j) == <<v>> \o s[j]
<1>3. Within(v, s) = [j \in 1..Len(s) |-> P(j)]
  BY <1>1 DEF Within
<1>4. \A j \in 1..Len(s) : P(j) \in Seq(Int)
  BY <1>2
<1> HIDE DEF P
<1>5. /\ Within(v, s) \in Seq(Seq(Int)) /\ Len(Within(v, s)) = Len(s)
      /\ \A j \in 1..Len(s) : Within(v, s)[j] = P(j)
  BY <1>1, <1>3, <1>4
<1> QED BY <1>5 DEF P, Positions

(* Around nothing there is nothing. *)
LEMMA WithinEmpty == ASSUME NEW v PROVE Within(v, <<>>) = <<>>
BY DEF Within

(* The first position comes first with a loop around it too. *)
LEMMA WithinHead ==
    ASSUME NEW v \in Int, NEW p \in Seq(Int), NEW s \in Positions
    PROVE  Within(v, Cat(<<p>>, s)) = Cat(<<<<v>> \o p>>, Within(v, s))
<1> DEFINE u == <<p>> \o s
           q == <<v>> \o p
           w == Within(v, u)
           x == <<q>> \o Within(v, s)
<1>1. <<p>> \in Positions /\ s \in Seq(Seq(Int))
  BY DEF Positions
<1>2. /\ u \in Positions /\ Len(u) = Len(s) + 1 /\ Len(s) \in Nat
      /\ u[1] = p /\ \A j \in 1..Len(s) : u[j + 1] = s[j]
  BY <1>1 DEF Positions
<1>3. q \in Seq(Int)
  <2>1. <<v>> \in Seq(Int)
    OBVIOUS
  <2> QED BY <2>1, ConcatProperties
<1>4. Within(v, s) \in Seq(Seq(Int)) /\ Len(Within(v, s)) = Len(s)
      /\ \A j \in 1..Len(s) : Within(v, s)[j] = <<v>> \o s[j]
  BY WithinType DEF Positions
<1>5. w \in Seq(Seq(Int)) /\ Len(w) = Len(s) + 1 /\ \A j \in 1..(Len(s) + 1) : w[j] = <<v>> \o u[j]
  <2> HIDE DEF u
  <2>1. w \in Positions /\ Len(w) = Len(u) /\ \A j \in 1..Len(u) : w[j] = <<v>> \o u[j]
    BY <1>2, WithinType
  <2> QED BY <2>1, <1>2 DEF Positions
<1>6. /\ x \in Seq(Seq(Int)) /\ Len(x) = Len(s) + 1 /\ x[1] = q
      /\ \A j \in 1..Len(s) : x[j + 1] = Within(v, s)[j]
  <2> HIDE DEF q
  <2> DEFINE y == Within(v, s)
  <2>1. y \in Seq(Seq(Int)) /\ Len(y) = Len(s) /\ <<q>> \in Seq(Seq(Int))
    BY <1>3, <1>4
  <2> HIDE DEF y
  <2>2. /\ <<q>> \o y \in Seq(Seq(Int)) /\ Len(<<q>> \o y) = Len(s) + 1 /\ (<<q>> \o y)[1] = q
        /\ \A j \in 1..Len(s) : (<<q>> \o y)[j + 1] = y[j]
    BY <2>1, <1>2
  <2> QED BY <2>2 DEF y
<1>7. ASSUME NEW j \in 1..(Len(s) + 1) PROVE w[j] = x[j]
  <2>1. CASE j = 1
    BY <2>1, <1>2, <1>5, <1>6
  <2>2. CASE j # 1
    <3>1. j - 1 \in 1..Len(s) /\ (j - 1) + 1 = j
      BY <2>2, <1>2
    <3>2. x[j] = <<v>> \o s[j - 1] /\ u[j] = s[j - 1]
      <4> HIDE DEF x, u
      <4> QED BY <3>1, <1>2, <1>4, <1>6
    <3> QED BY <3>2, <1>5
  <2> QED BY <2>1, <2>2
<1>8. w = x
  <2> HIDE DEF w, x
  <2> QED BY <1>2, <1>5, <1>6, <1>7, SeqEqual
<1> QED BY <1>8 DEF Cat

(* What is left of a loop is positions: at first all, at the end none, and  *)
(* before that those of the next run and then the rest.                     *)
LEMMA LaterFacts ==
    ASSUME NEW l \in LoopType, Regular(l), NEW s \in Positions
    PROVE  /\ \A i \in 0..Runs(l) : Later(l, s, i) \in Positions
           /\ Later(l, s, 0) = Block(l, s)
           /\ Later(l, s, Runs(l)) = <<>>
           /\ \A i \in 0..(Runs(l) - 1) :
                 Later(l, s, i) = Cat(Within(Value(l, i + 1), s), Later(l, s, i + 1))
<1> DEFINE B(i) == [j \in 1..(Runs(l) - i) |-> Within(Value(l, i + j), s)]
<1>1. Runs(l) \in Nat \ {0} /\ \A i \in Nat : Value(l, i) \in Int
  BY RunFacts
<1>2. ASSUME NEW i \in 0..Runs(l)
      PROVE  /\ B(i) \in Seq(Positions) /\ Len(B(i)) = Runs(l) - i
             /\ \A j \in 1..(Runs(l) - i) : B(i)[j] = Within(Value(l, i + j), s)
  <2>1. Runs(l) - i \in Nat /\ \A j \in 1..(Runs(l) - i) : i + j \in Nat
    BY <1>1
  <2> DEFINE W(j) == Within(Value(l, i + j), s)
  <2>2. \A j \in 1..(Runs(l) - i) : W(j) \in Positions
    BY <1>1, <2>1, WithinType
  <2> HIDE DEF W
  <2>3. /\ [j \in 1..(Runs(l) - i) |-> W(j)] \in Seq(Positions)
        /\ Len([j \in 1..(Runs(l) - i) |-> W(j)]) = Runs(l) - i
        /\ \A j \in 1..(Runs(l) - i) : [k \in 1..(Runs(l) - i) |-> W(k)][j] = W(j)
    BY <2>1, <2>2
  <2> QED BY <2>3 DEF W
<1>3. \A i \in 0..Runs(l) : Later(l, s, i) = FlattenSeq(B(i))
  BY DEF Later
<1>4. \A i \in 0..Runs(l) : Later(l, s, i) \in Positions
  BY <1>2, <1>3, FlattenType DEF Positions
<1>5. Later(l, s, 0) = Block(l, s)
  <2>1. Runs(l) - 0 = Runs(l) /\ \A j \in 1..Runs(l) : 0 + j = j
    BY <1>1
  <2>2. [j \in 1..(Runs(l) - 0) |-> Within(Value(l, 0 + j), s)] = [i \in 1..Runs(l) |-> Within(Value(l, i), s)]
    BY <2>1
  <2> QED BY <2>2 DEF Later, Block
<1>6. Later(l, s, Runs(l)) = <<>>
  <2>1. Runs(l) \in 0..Runs(l) /\ Runs(l) - Runs(l) = 0
    BY <1>1
  <2>2. B(Runs(l)) = <<>>
    <3> HIDE DEF B
    <3>1. B(Runs(l)) \in Seq(Positions) /\ Len(B(Runs(l))) = 0
      BY <1>2, <2>1
    <3> QED BY <3>1
  <2> QED BY <1>3, <2>1, <2>2, FlattenEmpty
<1>7. ASSUME NEW i \in 0..(Runs(l) - 1)
      PROVE  Later(l, s, i) = Cat(Within(Value(l, i + 1), s), Later(l, s, i + 1))
  <2>1. i \in 0..Runs(l) /\ i + 1 \in 0..Runs(l) /\ Runs(l) - i \in Nat \ {0} /\ 1 \in 1..(Runs(l) - i)
        /\ Runs(l) - (i + 1) = (Runs(l) - i) - 1
    BY <1>1
  <2> DEFINE a0 == B(i)
             a1 == B(i + 1)
             m == Runs(l) - i
  <2>2. a0 \in Seq(Positions) /\ Len(a0) = m /\ \A j \in 1..m : a0[j] = Within(Value(l, i + j), s)
    BY <1>2, <2>1
  <2>3. a1 \in Seq(Positions) /\ Len(a1) = m - 1
        /\ \A j \in 1..(m - 1) : a1[j] = Within(Value(l, (i + 1) + j), s)
    <3> HIDE DEF B
    <3> QED BY <1>2, <2>1
  <2>3a. m \in Nat \ {0}
    BY <2>1
  <2>4. Tail(a0) = a1
    <3>0. \A j \in 1..(m - 1) : (i + 1) + j = i + (j + 1) /\ j + 1 \in 1..m
      BY <2>3a
    <3>1. \A j \in 1..(m - 1) : a0[j + 1] = a1[j]
      <4> HIDE DEF a0, a1, m
      <4> QED BY <2>2, <2>3, <3>0
    <3> HIDE DEF a0, a1, m
    <3>2. Tail(a0) \in Seq(Positions) /\ Len(Tail(a0)) = m - 1 /\ \A j \in 1..(m - 1) : Tail(a0)[j] = a0[j + 1]
      BY <2>2, <2>3a
    <3> QED BY <2>3, <3>1, <3>2, SeqEqual
  <2>5. Head(a0) = Within(Value(l, i + 1), s) /\ a0 # <<>>
    <3> HIDE DEF a0, m
    <3> QED BY <2>2, <2>3a
  <2>6. FlattenSeq(a0) = Head(a0) \o FlattenSeq(Tail(a0))
    <3> HIDE DEF a0
    <3> QED BY <2>2, <2>5, FlattenHead DEF Positions
  <2>7. Later(l, s, i) = FlattenSeq(a0) /\ Later(l, s, i + 1) = FlattenSeq(a1)
    BY <1>3, <2>1
  <2> HIDE DEF a0, a1
  <2> QED BY <2>4, <2>5, <2>6, <2>7 DEF Cat
<1> QED BY <1>4, <1>5, <1>6, <1>7

(* The function Nested(c) chooses, up to the n innermost loops. *)
IsNest(g, c, n) ==
    g = [k \in 0..n |->
            IF k = 0 THEN <<<<>>>>
            ELSE LET l == c[Len(c) - k + 1]
                 IN  FlattenSeq([i \in 1..Runs(l) |-> Within(Value(l, i), g[k - 1])])]

(* There is such a function, by induction over the number of loops. *)
LEMMA NestsExist ==
    ASSUME NEW c
    PROVE  \A n \in Nat : \E g : IsNest(g, c, n)
<1> DEFINE T == {n \in Nat : \E g : IsNest(g, c, n)}
           Then(k, o) == Block(c[Len(c) - k + 1], o)
           One == <<<<>>>>
<1>1. \A g, n : IsNest(g, c, n) <=> g = [k \in 0..n |-> IF k = 0 THEN One ELSE Then(k, g[k - 1])]
  BY DEF IsNest, Block
<1> HIDE DEF Then, One
<1>2. 0 \in T
  <2> DEFINE g == [k \in 0..0 |-> One]
  <2>1. g = [k \in 0..0 |-> IF k = 0 THEN One ELSE Then(k, g[k - 1])]
    <3>1. \A k \in 0..0 : k = 0
      OBVIOUS
    <3> QED BY <3>1
  <2> HIDE DEF g
  <2>2. IsNest(g, c, 0)
    BY <1>1, <2>1
  <2> QED BY <2>2
<1>3. ASSUME NEW n \in Nat, n \in T PROVE n + 1 \in T
  <2>1. PICK g : IsNest(g, c, n)
    BY <1>3
  <2>2. \A k \in 0..n : g[k] = IF k = 0 THEN One ELSE Then(k, g[k - 1])
    <3>1. g = [k \in 0..n |-> IF k = 0 THEN One ELSE Then(k, g[k - 1])]
      BY <1>1, <2>1
    <3> QED BY <3>1
  <2> DEFINE last == Then(n + 1, g[n])
             h == [k \in 0..(n + 1) |-> IF k = n + 1 THEN last ELSE g[k]]
  <2>3. h[n + 1] = last /\ \A k \in 0..n : h[k] = g[k]
    <3>1. n + 1 \in 0..(n + 1) /\ \A k \in 0..n : k \in 0..(n + 1) /\ k # n + 1
      OBVIOUS
    <3> HIDE DEF last
    <3> QED BY <3>1
  <2>4. h = [k \in 0..(n + 1) |-> h[k]]
    OBVIOUS
  <2> HIDE DEF h
  <2>5. ASSUME NEW k \in 0..(n + 1) PROVE h[k] = IF k = 0 THEN One ELSE Then(k, h[k - 1])
    <3>1. CASE k = n + 1
      <4>1. k # 0 /\ k - 1 = n /\ n \in 0..n
        BY <3>1
      <4> QED BY <2>3, <3>1, <4>1
    <3>2. CASE k # n + 1
      <4>1. k \in 0..n /\ (k # 0 => k - 1 \in 0..n)
        BY <3>2
      <4> QED BY <2>2, <2>3, <4>1
    <3> QED BY <3>1, <3>2
  <2>6. h = [k \in 0..(n + 1) |-> IF k = 0 THEN One ELSE Then(k, h[k - 1])]
    BY <2>4, <2>5
  <2>7. IsNest(h, c, n + 1)
    BY <1>1, <2>6
  <2> QED BY <2>7
<1> HIDE DEF T
<1>4. Nat \subseteq T
  BY <1>2, <1>3, NatAll
<1> QED BY <1>4 DEF T

(* The positions from level l of a scan on. *)
From(c, l) == Nested(c)[Len(c) - l + 1]

(* They are those of the loop at the level, with what is inside it. *)
LEMMA FromFacts ==
    ASSUME NEW c, Len(c) \in Nat
    PROVE  /\ From(c, Len(c) + 1) = <<<<>>>>
           /\ \A l \in 1..Len(c) : From(c, l) = Block(c[l], From(c, l + 1))
           /\ From(c, 1) = Nested(c)[Len(c)]
<1> DEFINE n == Len(c)
           g == Nested(c)
<1>1. IsNest(g, c, n)
  <2>1. g = CHOOSE x : IsNest(x, c, n)
    BY DEF Nested, IsNest
  <2>2. \E x : IsNest(x, c, n)
    BY NestsExist
  <2> QED BY <2>1, <2>2
<1> HIDE DEF g
<1>2. \A k \in 0..n : g[k] = IF k = 0 THEN <<<<>>>> ELSE Block(c[n - k + 1], g[k - 1])
  <2>1. g = [k \in 0..n |-> IF k = 0 THEN <<<<>>>> ELSE Block(c[n - k + 1], g[k - 1])]
    BY <1>1 DEF IsNest, Block
  <2> QED BY <2>1, Zenon
<1>3. n - (n + 1) + 1 = 0 /\ 0 \in 0..n /\ n - 1 + 1 = n
  OBVIOUS
<1>4. g[0] = <<<<>>>>
  BY <1>2, <1>3
<1>5. ASSUME NEW l \in 1..n PROVE g[n - l + 1] = Block(c[l], g[n - (l + 1) + 1])
  <2>1. n - l + 1 \in 0..n /\ n - l + 1 # 0 /\ n - (n - l + 1) + 1 = l
        /\ (n - l + 1) - 1 = n - (l + 1) + 1
    OBVIOUS
  <2> DEFINE k == n - l + 1
  <2>2. g[k] = Block(c[n - k + 1], g[k - 1])
    BY <1>2, <2>1
  <2> QED BY <2>1, <2>2
<1> QED BY <1>3, <1>4, <1>5 DEF From, g

(* Where the loops are regular they are positions. *)
LEMMA FromType ==
    ASSUME NEW c \in Seq(LoopType), NEW b \in 1..2, RegularFrom(c, b)
    PROVE  \A l \in b..(Len(c) + 1) : From(c, l) \in Positions
<1> DEFINE n == Len(c)
           T == {k \in Nat : n + 1 - k \in b..(n + 1) => From(c, n + 1 - k) \in Positions}
<1>1. n \in Nat /\ \A l \in b..n : c[l] \in LoopType /\ Regular(c[l])
  BY DEF RegularFrom
<1>2. 0 \in T
  <2>1. From(c, n + 1) = <<<<>>>> /\ n + 1 - 0 = n + 1
    BY <1>1, FromFacts
  <2>2. <<<<>>>> \in Positions
    BY DEF Positions
  <2> QED BY <2>1, <2>2
<1>3. ASSUME NEW k \in Nat, k \in T PROVE k + 1 \in T
  <2> SUFFICES ASSUME n + 1 - (k + 1) \in b..(n + 1)
               PROVE  From(c, n + 1 - (k + 1)) \in Positions
    OBVIOUS
  <2> DEFINE l == n + 1 - (k + 1)
  <2>1. l \in b..n /\ l \in 1..n /\ l + 1 = n + 1 - k /\ l + 1 \in b..(n + 1)
    BY <1>1
  <2> HIDE DEF l
  <2>2. From(c, l + 1) \in Positions
    BY <1>3, <2>1
  <2>3. From(c, l) = Block(c[l], From(c, l + 1))
    BY <1>1, <2>1, FromFacts
  <2>4. c[l] \in LoopType /\ Regular(c[l])
    BY <1>1, <2>1
  <2> DEFINE inner == From(c, l + 1)
             loop == c[l]
  <2> HIDE DEF inner, loop
  <2>5. Block(loop, inner) \in Positions
    <3>1. inner \in Positions /\ loop \in LoopType /\ Regular(loop)
      BY <2>2, <2>4 DEF inner, loop
    <3>2. Later(loop, inner, 0) = Block(loop, inner) /\ Later(loop, inner, 0) \in Positions
      <4>1. 0 \in 0..Runs(loop)
        BY <3>1, RunFacts
      <4> QED BY <3>1, <4>1, LaterFacts
    <3> QED BY <3>2
  <2>6. From(c, l) \in Positions
    BY <2>3, <2>5 DEF inner, loop
  <2> QED BY <2>6 DEF l
<1> HIDE DEF T
<1>4. Nat \subseteq T
  BY <1>2, <1>3, NatAll
<1>5. ASSUME NEW l \in b..(n + 1) PROVE From(c, l) \in Positions
  <2>1. n + 1 - l \in Nat /\ n + 1 - (n + 1 - l) = l
    BY <1>1
  <2> DEFINE k == n + 1 - l
  <2> HIDE DEF k
  <2>2. k \in T /\ n + 1 - k = l
    BY <1>4, <2>1 DEF k
  <2> QED BY <2>2 DEF T
<1> QED BY <1>5

----------------------------------------------------------------------------
(* The data takings after the first t, as positions of the loops from level *)
(* b on.                                                                    *)
Since(t, b) == [k \in 1..(Len(taken) - t) |-> SubSeq(taken[t + k].stat, b, Len(loops))]

(* Those after t belong to the iteration of the feedback loop that is on.   *)
Split(t, b) ==
    /\ t \in 0..Len(taken)
    /\ b = 1 => t = 0
    /\ b = 2 => \A k \in 1..Len(taken) :
                   IF k <= t THEN taken[k].stat[1] < m_cur[1] ELSE taken[k].stat[1] = m_cur[1]

(* The counter of loop l after i runs, or in the run after them. *)
CountOf(l, i, run) ==
    /\ loops[l].kind \in Counted => m_cur[l] = Value(loops[l], i + 1)
    /\ loops[l].kind = "repeater" => m_cur[l] = loops[l].min + i + run

(* What loop l has left after i runs. *)
Left(l, i) == Later(loops[l], From(loops, l + 1), i)

(* Loop l is in a run: i are over, and r is left of the loops inside it. *)
InRun(l, i, left, r) ==
    /\ i < Runs(loops[l])
    /\ CountOf(l, i, 1)
    /\ g_stat[l] = Value(loops[l], i + 1)
    /\ left = Cat(Within(Value(loops[l], i + 1), r), Left(l, i + 1))

(* Loop l is between two runs. *)
BetweenRuns(l, i, left) ==
    /\ i <= Runs(loops[l])
    /\ CountOf(l, i, 0)
    /\ m_done[l] <=> i = Runs(loops[l])
    /\ left = Left(l, i)

(* Where the loops from level b on are: i counts the runs of each that are  *)
(* over, todo holds what each has left to do.                               *)
NestAt(b, t, i, todo) ==
    /\ Split(t, b)
    /\ i \in Maps(b..Len(loops), Nat) /\ todo \in Maps(b..Len(loops), Positions)
    /\ Cat(Since(t, b), todo[b]) = From(loops, b)
    /\ \A l \in b..(level - 1) : InRun(l, i[l], todo[l], todo[l + 1])
    /\ phase = "init" => todo[level] = From(loops, level)
    /\ phase = "test" => BetweenRuns(level, i[level], todo[level])
    /\ phase = "part2" => InRun(level, i[level], todo[level],
                                IF level = Len(loops) THEN <<<<>>>> ELSE <<>>)

Running == phase \in {"init", "test", "part2"}

(* All loops of c from level b on are regular, and a feedback loop, if b   *)
(* leaves one out, is around them.                                          *)
Nest(c, b) == RegularFrom(c, b) /\ (b = 2 => c[1].kind \in Feedbacks)

Unset == \A l \in Levels : loops[l].kind \in {"repeater", "data"} => g_stat[l] = 0

----------------------------------------------------------------------------
One(p) == <<p>>

(* A list begun with one element: its tail, and a list before it. *)
LEMMA OneFirst ==
    ASSUME NEW S, NEW p \in S, NEW q \in Seq(S)
    PROVE  /\ Cat(One(p), q) \in Seq(S) /\ Tail(Cat(One(p), q)) = q
           /\ \A s \in Seq(S) : Cat(Append(s, p), q) = Cat(s, Cat(One(p), q))
<1>1. One(p) \in Seq(S)
  BY DEF One
<1>2. Cat(One(p), q) \in Seq(S)
  BY <1>1, CatFacts
<1>3. Tail(Cat(One(p), q)) = q
  <2>1. /\ One(p) \o q \in Seq(S) /\ Len(One(p) \o q) = Len(q) + 1 /\ Len(q) \in Nat
        /\ \A j \in 1..Len(q) : (One(p) \o q)[j + 1] = q[j]
    BY DEF One
  <2> DEFINE x == One(p) \o q
  <2> HIDE DEF x
  <2>2. /\ Tail(x) \in Seq(S) /\ Len(Tail(x)) = Len(q) /\ \A j \in 1..Len(q) : Tail(x)[j] = q[j]
    BY <2>1 DEF x
  <2>3. Tail(x) = q
    BY <2>2, SeqEqual
  <2> QED BY <2>3 DEF x, Cat
<1>4. ASSUME NEW s \in Seq(S) PROVE Cat(Append(s, p), q) = Cat(s, Cat(One(p), q))
  <2>1. Append(s, p) = Cat(s, One(p))
    BY AppendIsConcat DEF Cat, One
  <2>2. Cat(Cat(s, One(p)), q) = Cat(s, Cat(One(p), q))
    BY <1>1, CatFacts
  <2> QED BY <2>1, <2>2
<1> QED BY <1>2, <1>3, <1>4

(* The same for lists of positions, with what concatenation does. *)
LEMMA PositionsFacts ==
    /\ <<>> \in Positions
    /\ \A u, w \in Positions : Cat(u, w) \in Positions
    /\ \A u, w, x \in Positions : Cat(Cat(u, w), x) = Cat(u, Cat(w, x))
    /\ \A u \in Positions : Cat(u, <<>>) = u /\ Cat(<<>>, u) = u
    /\ \A p \in Seq(Int) : One(p) \in Positions
    /\ \A p \in Seq(Int) : \A q \in Positions : Tail(Cat(One(p), q)) = q
    /\ \A p \in Seq(Int) : \A q, s \in Positions : Cat(Append(s, p), q) = Cat(s, Cat(One(p), q))
    /\ \A p \in Seq(Int) : \A s \in Positions : Append(s, p) \in Positions
<1> DEFINE S == Seq(Int)
<1> HIDE DEF S
<1>1. /\ <<>> \in Seq(S)
      /\ \A u, w \in Seq(S) : Cat(u, w) \in Seq(S)
      /\ \A u, w, x \in Seq(S) : Cat(Cat(u, w), x) = Cat(u, Cat(w, x))
      /\ \A u \in Seq(S) : Cat(u, <<>>) = u /\ Cat(<<>>, u) = u
  BY CatFacts
<1>2. ASSUME NEW p \in S PROVE One(p) \in Seq(S) /\ \A s \in Seq(S) : Append(s, p) \in Seq(S)
  BY DEF One
<1>3. ASSUME NEW p \in S, NEW q \in Seq(S)
      PROVE  Tail(Cat(One(p), q)) = q /\ \A s \in Seq(S) : Cat(Append(s, p), q) = Cat(s, Cat(One(p), q))
  <2>1. Tail(Cat(One(p), q)) = q
    BY OneFirst
  <2>2. ASSUME NEW s \in Seq(S) PROVE Cat(Append(s, p), q) = Cat(s, Cat(One(p), q))
    BY OneFirst
  <2> QED BY <2>1, <2>2
<1>4. Positions = Seq(S)
  BY DEF Positions, S
<1>5. /\ \A p \in S : One(p) \in Seq(S)
      /\ \A p \in S : \A q \in Seq(S) : Tail(Cat(One(p), q)) = q
      /\ \A p \in S : \A q, s \in Seq(S) : Cat(Append(s, p), q) = Cat(s, Cat(One(p), q))
      /\ \A p \in S : \A s \in Seq(S) : Append(s, p) \in Seq(S)
  BY <1>2, <1>3
<1> DEFINE P == Positions
           I == Seq(Int)
<1>6. P = Seq(S) /\ I = S
  BY <1>4 DEF S
<1> HIDE DEF P, I
<1>7. /\ <<>> \in P
      /\ \A u, w \in P : Cat(u, w) \in P
      /\ \A u, w, x \in P : Cat(Cat(u, w), x) = Cat(u, Cat(w, x))
      /\ \A u \in P : Cat(u, <<>>) = u /\ Cat(<<>>, u) = u
  BY <1>1, <1>6
<1>8. /\ \A p \in I : One(p) \in P
      /\ \A p \in I : \A q \in P : Tail(Cat(One(p), q)) = q
      /\ \A p \in I : \A q, s \in P : Cat(Append(s, p), q) = Cat(s, Cat(One(p), q))
      /\ \A p \in I : \A s \in P : Append(s, p) \in P
  BY <1>5, <1>6
<1> QED BY <1>7, <1>8 DEF P, I

(* The end of a sequence of integers from one place on. *)
LEMMA EndFrom ==
    ASSUME NEW st \in Seq(Int), NEW l \in 1..Len(st)
    PROVE  /\ SubSeq(st, l, Len(st)) \in Seq(Int)
           /\ SubSeq(st, l, Len(st)) = <<st[l]>> \o SubSeq(st, l + 1, Len(st))
           /\ SubSeq(st, 1, Len(st)) = st
<1> DEFINE n == Len(st)
           u == SubSeq(st, l, n)
           w == SubSeq(st, l + 1, n)
           x == <<st[l]>> \o w
<1>1. n \in Nat /\ l \in 1..n /\ st[l] \in Int
  OBVIOUS
<1>2. u \in Seq(Int) /\ Len(u) = n - l + 1 /\ \A j \in 1..(n - l + 1) : u[j] = st[l + j - 1]
  BY <1>1
<1>3. w \in Seq(Int) /\ Len(w) = n - l /\ \A j \in 1..(n - l) : w[j] = st[l + j]
  BY <1>1
<1>4. /\ x \in Seq(Int) /\ Len(x) = n - l + 1 /\ x[1] = st[l]
      /\ \A j \in 1..(n - l) : x[j + 1] = w[j]
  <2> HIDE DEF w
  <2> QED BY <1>1, <1>3
<1>5. u = x
  <2> HIDE DEF u, w, x, n
  <2>1. ASSUME NEW j \in 1..(n - l + 1) PROVE u[j] = x[j]
    <3>1. CASE j = 1
      BY <1>1, <1>2, <1>4, <3>1
    <3>2. CASE j # 1
      <4>1. j - 1 \in 1..(n - l) /\ (j - 1) + 1 = j /\ l + j - 1 = l + (j - 1)
        BY <3>2, <1>1
      <4>2. x[j] = w[j - 1] /\ w[j - 1] = st[l + (j - 1)]
        BY <4>1, <1>3, <1>4
      <4> QED BY <4>1, <4>2, <1>2
    <3> QED BY <3>1, <3>2
  <2> QED BY <1>2, <1>4, <2>1, SeqEqual
<1>6. SubSeq(st, 1, n) = st
  OBVIOUS
<1> QED BY <1>2, <1>5, <1>6

(* The first of what is left to do is the present position of all loops:    *)
(* the rest of each loop is what its inner ones leave, and then its own.    *)
LEMMA FirstPosition ==
    ASSUME NEW b \in 1..2, NEW n \in Nat, b <= n, NEW st \in Seq(Int), Len(st) = n,
           NEW todo \in Maps(b..n, Positions), NEW later \in Maps(b..n, Positions),
           \A l \in b..(n - 1) : todo[l] = Cat(Within(st[l], todo[l + 1]), later[l]),
           todo[n] = Cat(One(<<st[n]>>), later[n])
    PROVE  \E rest \in Maps(b..n, Positions) :
              /\ todo[b] = Cat(One(SubSeq(st, b, n)), rest[b])
              /\ rest[n] = later[n]
              /\ \A l \in b..(n - 1) : rest[l] = Cat(Within(st[l], rest[l + 1]), later[l])
<1> DEFINE rest == [l \in b..n |-> Tail(todo[l])]
           End(l) == SubSeq(st, l, n)
           Fits(l) == rest[l] \in Positions /\ todo[l] = Cat(One(End(l)), rest[l])
           T == {k \in Nat : n - k \in b..n => Fits(n - k)}
<1>1. \A l \in b..n : todo[l] \in Positions /\ later[l] \in Positions /\ rest[l] = Tail(todo[l])
  BY DEF Maps
<1>1a. \A l \in b..n : l \in 1..n /\ st[l] \in Int /\ End(l) \in Seq(Int)
  BY EndFrom
<1>1b. \A l \in b..(n - 1) : End(l) = <<st[l]>> \o End(l + 1)
  BY EndFrom
<1>1c. End(n) = <<st[n]>>
  <2>1. n \in 1..n /\ SubSeq(st, n, n) = <<st[n]>> \o SubSeq(st, n + 1, n)
    BY EndFrom
  <2>2. SubSeq(st, n + 1, n) = <<>> /\ st[n] \in Int
    BY <2>1
  <2>3. <<st[n]>> \o <<>> = <<st[n]>>
    BY <2>2
  <2> QED BY <2>1, <2>2, <2>3
<1>2. rest[n] = later[n] /\ Fits(n)
  <2>1. n \in b..n /\ todo[n] = Cat(One(End(n)), later[n]) /\ later[n] \in Positions /\ End(n) \in Seq(Int)
    BY <1>1, <1>1a, <1>1c
  <2> HIDE DEF rest, End
  <2>2. Tail(Cat(One(End(n)), later[n])) = later[n]
    BY <2>1, PositionsFacts, Zenon
  <2> QED BY <2>1, <2>2, <1>1
<1>3. ASSUME NEW l \in b..(n - 1), Fits(l + 1)
      PROVE  rest[l] = Cat(Within(st[l], rest[l + 1]), later[l]) /\ Fits(l)
  <2>1. l \in b..n /\ l + 1 \in b..n /\ st[l] \in Int /\ later[l] \in Positions
        /\ End(l + 1) \in Seq(Int) /\ End(l) \in Seq(Int) /\ End(l) = <<st[l]>> \o End(l + 1)
    BY <1>1, <1>1a, <1>1b
  <2> DEFINE q == rest[l + 1]
             v == st[l]
             x == Cat(Within(v, q), later[l])
  <2> HIDE DEF rest, End
  <2>2. q \in Positions /\ todo[l + 1] = Cat(One(End(l + 1)), q)
    BY <1>3
  <2>3. todo[l] = Cat(Within(v, todo[l + 1]), later[l])
    OBVIOUS
  <2> HIDE DEF q, v
  <2>4. Within(v, Cat(One(End(l + 1)), q)) = Cat(One(End(l)), Within(v, q)) /\ Within(v, q) \in Positions
    <3> DEFINE p == End(l + 1)
    <3>1. v \in Int /\ p \in Seq(Int) /\ End(l) = <<v>> \o p
      BY <2>1 DEF v
    <3> HIDE DEF p
    <3>2. Within(v, Cat(One(p), q)) = Cat(One(<<v>> \o p), Within(v, q)) /\ Within(v, q) \in Positions
      BY <2>2, <3>1, WithinHead, WithinType DEF One
    <3> QED BY <3>1, <3>2 DEF p
  <2>5. x \in Positions
    BY <2>1, <2>4, PositionsFacts
  <2>6. todo[l] = Cat(One(End(l)), x)
    <3>1. One(End(l)) \in Positions
      BY <2>1, PositionsFacts
    <3>2. todo[l] = Cat(Cat(One(End(l)), Within(v, q)), later[l])
      BY <2>2, <2>3, <2>4
    <3>3. Cat(Cat(One(End(l)), Within(v, q)), later[l]) = Cat(One(End(l)), Cat(Within(v, q), later[l]))
      <4> DEFINE o1 == One(End(l))
                 o2 == Within(v, q)
                 o3 == later[l]
      <4>1. o1 \in Positions /\ o2 \in Positions /\ o3 \in Positions
        BY <3>1, <2>1, <2>4
      <4> HIDE DEF o1, o2, o3
      <4>2. Cat(Cat(o1, o2), o3) = Cat(o1, Cat(o2, o3))
        BY <4>1, PositionsFacts
      <4> QED BY <4>2 DEF o1, o2, o3
    <3> QED BY <3>2, <3>3
  <2> HIDE DEF x
  <2>7. Tail(todo[l]) = x
    BY <2>1, <2>5, <2>6, PositionsFacts
  <2>8. rest[l] = x
    BY <2>1, <2>7, <1>1
  <2>9. rest[l] = Cat(Within(st[l], rest[l + 1]), later[l])
    BY <2>8 DEF x, q, v
  <2> QED BY <2>5, <2>6, <2>8, <2>9
<1> HIDE DEF rest, End, Fits
<1>4. 0 \in T
  <2>1. n - 0 = n
    OBVIOUS
  <2> QED BY <1>2, <2>1
<1>5. ASSUME NEW k \in Nat, k \in T PROVE k + 1 \in T
  <2> SUFFICES ASSUME n - (k + 1) \in b..n PROVE Fits(n - (k + 1))
    OBVIOUS
  <2> DEFINE l == n - (k + 1)
  <2>1. l \in b..(n - 1) /\ l + 1 = n - k /\ n - k \in b..n
    OBVIOUS
  <2> HIDE DEF l
  <2>2. Fits(l + 1)
    BY <1>5, <2>1
  <2>3. Fits(l)
    BY <1>3, <2>1, <2>2
  <2> QED BY <2>3 DEF l
<1> HIDE DEF T
<1>6. Nat \subseteq T
  BY <1>4, <1>5, NatAll
<1>7. ASSUME NEW l \in b..n PROVE Fits(l)
  <2> DEFINE k == n - l
  <2>1. k \in Nat /\ n - k = l
    OBVIOUS
  <2> HIDE DEF k
  <2>2. k \in T
    BY <1>6, <2>1
  <2> QED BY <2>1, <2>2 DEF T
<1>8. rest \in Maps(b..n, Positions)
  <2>1. rest = [l \in b..n |-> rest[l]]
    BY DEF rest
  <2>2. \A l \in b..n : rest[l] \in Positions
    BY <1>7 DEF Fits
  <2> QED BY <2>1, <2>2 DEF Maps
<1>9. b \in b..n /\ \A l \in b..(n - 1) : l + 1 \in b..n
  OBVIOUS
<1>10. todo[b] = Cat(One(SubSeq(st, b, n)), rest[b])
  BY <1>7, <1>9 DEF Fits, End
<1>11. \A l \in b..(n - 1) : rest[l] = Cat(Within(st[l], rest[l + 1]), later[l])
  BY <1>3, <1>7, <1>9
<1> QED BY <1>2, <1>8, <1>10, <1>11

----------------------------------------------------------------------------
Put(F, x, y) == [F EXCEPT ![x] = y]

(* A table with one entry changed. *)
LEMMA PutFacts ==
    ASSUME NEW S, NEW T, NEW F \in Maps(S, T), NEW x \in S, NEW y \in T
    PROVE  /\ Put(F, x, y) \in Maps(S, T) /\ Put(F, x, y)[x] = y
           /\ \A z \in S : z # x => Put(F, x, y)[z] = F[z]
<1>1. F \in [S -> T]
  BY DEF Maps
<1>2. [F EXCEPT ![x] = y] \in [S -> T] /\ [F EXCEPT ![x] = y][x] = y
      /\ \A z \in S : z # x => [F EXCEPT ![x] = y][z] = F[z]
  BY <1>1
<1> QED BY <1>2 DEF Put, Maps

(* What is known of the loops of a nest. *)
LEMMA NestFacts ==
    ASSUME EngineTypes, NEW b \in 1..2, Nest(loops, b)
    PROVE  /\ Len(loops) \in Nat /\ b <= Len(loops) /\ Levels = 1..Len(loops)
           /\ \A l \in b..Len(loops) :
                 /\ l \in Levels /\ loops[l] \in LoopType /\ Regular(loops[l])
                 /\ loops[l].kind = "data" <=> l = Len(loops)
                 /\ loops[l].kind \in Counted \cup {"repeater", "data"}
                 /\ loops[l].kind \notin Feedbacks
                 /\ Runs(loops[l]) \in Nat \ {0}
                 /\ \A i \in Nat : Value(loops[l], i) \in Int
           /\ b = 2 => loops[1].kind \in Feedbacks
<1>1. /\ Len(loops) \in Nat /\ Levels = 1..Len(loops) /\ \A l \in Levels : loops[l] \in LoopType
  BY LoopFacts
<1>2. /\ b <= Len(loops)
      /\ \A l \in b..Len(loops) : Regular(loops[l]) /\ (loops[l].kind = "data" <=> l = Len(loops))
      /\ b = 2 => loops[1].kind \in Feedbacks
  BY DEF Nest, RegularFrom
<1>3. ASSUME NEW l \in b..Len(loops)
      PROVE  /\ l \in Levels /\ loops[l] \in LoopType /\ Regular(loops[l])
             /\ loops[l].kind \in Counted \cup {"repeater", "data"}
             /\ loops[l].kind \notin Feedbacks
             /\ Runs(loops[l]) \in Nat \ {0}
             /\ \A i \in Nat : Value(loops[l], i) \in Int
  <2>1. l \in Levels /\ loops[l] \in LoopType /\ Regular(loops[l])
    BY <1>1, <1>2
  <2>2. loops[l].kind \in Counted \cup {"repeater", "data"}
    BY <2>1 DEF Regular, Counted
  <2>3. loops[l].kind \notin Feedbacks
    BY <2>2 DEF Counted, Stages, Feedbacks
  <2> QED BY <2>1, <2>2, <2>3, RunFacts
<1> QED BY <1>1, <1>2, <1>3

(* What each of them has left. *)
LEMMA LeftFacts ==
    ASSUME EngineTypes, NEW b \in 1..2, Nest(loops, b)
    PROVE  /\ From(loops, Len(loops) + 1) = <<<<>>>>
           /\ \A l \in b..(Len(loops) + 1) : From(loops, l) \in Positions
           /\ \A l \in b..Len(loops) :
                 /\ From(loops, l) = Left(l, 0)
                 /\ Left(l, Runs(loops[l])) = <<>>
                 /\ \A i \in 0..Runs(loops[l]) : Left(l, i) \in Positions
                 /\ \A i \in 0..(Runs(loops[l]) - 1) :
                       Left(l, i) = Cat(Within(Value(loops[l], i + 1), From(loops, l + 1)), Left(l, i + 1))
<1>1. loops \in Seq(LoopType) /\ Len(loops) \in Nat
  BY LoopFacts
<1>2. \A l \in b..(Len(loops) + 1) : From(loops, l) \in Positions
  BY <1>1, FromType DEF Nest
<1>3. ASSUME NEW l \in b..Len(loops)
      PROVE  /\ From(loops, l) = Left(l, 0)
             /\ Left(l, Runs(loops[l])) = <<>>
             /\ \A i \in 0..Runs(loops[l]) : Left(l, i) \in Positions
             /\ \A i \in 0..(Runs(loops[l]) - 1) :
                   Left(l, i) = Cat(Within(Value(loops[l], i + 1), From(loops, l + 1)), Left(l, i + 1))
  <2> DEFINE loop == loops[l]
             inner == From(loops, l + 1)
  <2>1. loop \in LoopType /\ Regular(loop) /\ inner \in Positions
    <3>1. l + 1 \in b..(Len(loops) + 1)
      BY <1>1
    <3> QED BY <1>2, <3>1, NestFacts
  <2>2. From(loops, l) = Block(loop, inner)
    <3>1. l \in 1..Len(loops)
      BY <1>1
    <3> QED BY <1>1, <3>1, FromFacts
  <2> HIDE DEF loop, inner
  <2>3. /\ \A i \in 0..Runs(loop) : Later(loop, inner, i) \in Positions
        /\ Later(loop, inner, 0) = Block(loop, inner)
        /\ Later(loop, inner, Runs(loop)) = <<>>
        /\ \A i \in 0..(Runs(loop) - 1) :
              Later(loop, inner, i) = Cat(Within(Value(loop, i + 1), inner), Later(loop, inner, i + 1))
    BY <2>1, LaterFacts
  <2>4. \A i : Left(l, i) = Later(loop, inner, i)
    BY DEF Left, loop, inner
  <2>5. /\ From(loops, l) = Left(l, 0)
        /\ Left(l, Runs(loop)) = <<>>
        /\ \A i \in 0..Runs(loop) : Left(l, i) \in Positions
        /\ \A i \in 0..(Runs(loop) - 1) :
              Left(l, i) = Cat(Within(Value(loop, i + 1), inner), Left(l, i + 1))
    BY <2>2, <2>3, <2>4
  <2> QED BY <2>5 DEF loop, inner
<1> QED BY <1>1, <1>2, <1>3, FromFacts

(* A loop that is not touched stays where it is. *)
LEMMA RunFrame ==
    ASSUME loops' = loops, NEW l, m_cur'[l] = m_cur[l], g_stat'[l] = g_stat[l],
           NEW i, NEW x, NEW r
    PROVE  InRun(l, i, x, r)' <=> InRun(l, i, x, r)
BY DEF InRun, CountOf, Left

(* The positions taken stay while no data are. *)
LEMMA SinceFrame ==
    ASSUME loops' = loops, taken' = taken, NEW t, NEW b
    PROVE  /\ Since(t, b)' = Since(t, b)
           /\ From(loops, b)' = From(loops, b)
           /\ (b = 2 => m_cur'[1] = m_cur[1]) => (Split(t, b)' <=> Split(t, b))
BY DEF Since, Split, From

(* The loop at hand is one of the nest. *)
LEMMA AtHand ==
    ASSUME EngineTypes, NEW b \in 1..2, Nest(loops, b), level >= b, Running
    PROVE  /\ Len(loops) \in Nat /\ b <= Len(loops) /\ Levels = 1..Len(loops)
           /\ level \in b..Len(loops) /\ level \in Levels /\ level \in Nat
           /\ This \in LoopType /\ This = loops[level] /\ Regular(This)
           /\ This.kind = "data" <=> level = Len(loops)
           /\ This.kind \in Counted \cup {"repeater", "data"} /\ This.kind \notin Feedbacks
           /\ Runs(This) \in Nat \ {0}
           /\ b = 2 => level # 1 /\ 1 \in Levels
<1>2. Len(loops) \in Nat /\ Levels = 1..Len(loops) /\ level \in Levels /\ This \in LoopType /\ level \in Nat
  BY LoopFacts DEF Running
<1>3. level \in b..Len(loops) /\ b <= Len(loops)
  BY <1>2, NestFacts
<1>4. This = loops[level]
  BY DEF This
<1>5. /\ Regular(loops[level])
      /\ loops[level].kind = "data" <=> level = Len(loops)
      /\ loops[level].kind \in Counted \cup {"repeater", "data"} /\ loops[level].kind \notin Feedbacks
      /\ Runs(loops[level]) \in Nat \ {0}
  BY <1>3, NestFacts
<1>6. b = 2 => level # 1 /\ 1 \in Levels
  BY <1>2, <1>3
<1> QED BY <1>2, <1>3, <1>4, <1>5, <1>6

(* The loops around the one at hand stay where they are. *)
LEMMA OuterFrame ==
    ASSUME EngineTypes, NEW b \in 1..2, Nest(loops, b), level >= b, Running,
           loops' = loops,
           \A l \in Levels : l # level => m_cur'[l] = m_cur[l] /\ g_stat'[l] = g_stat[l],
           NEW i, NEW todo, NEW j, NEW rest,
           \A l \in b..(level - 1) : j[l] = i[l],
           \A l \in b..level : rest[l] = todo[l],
           \A l \in b..(level - 1) : InRun(l, i[l], todo[l], todo[l + 1])
    PROVE  \A l \in b..(level - 1) : InRun(l, j[l], rest[l], rest[l + 1])'
<1> TAKE l \in b..(level - 1)
<1>1. l \in Levels /\ l # level /\ l \in b..level /\ l + 1 \in b..level
  BY AtHand
<1> DEFINE jl == j[l]
           rl == rest[l]
           rn == rest[l + 1]
<1>2. InRun(l, jl, rl, rn)
  BY <1>1
<1>3. m_cur'[l] = m_cur[l] /\ g_stat'[l] = g_stat[l]
  BY <1>1
<1> HIDE DEF jl, rl, rn
<1>4. InRun(l, jl, rl, rn)'
  BY <1>2, <1>3, RunFrame
<1> QED BY <1>4 DEF jl, rl, rn

(* Init of a loop of the nest. *)
LEMMA NestInit ==
    ASSUME EngineTypes, NEW b \in 1..2, Nest(loops, b), level >= b,
           NEW t, NEW i, NEW todo, NestAt(b, t, i, todo), InitLoop
    PROVE  \E j : NestAt(b, t, j, todo)'
<1> DEFINE n == Len(loops)
<1>0. Running
  BY DEF InitLoop, Running
<1>1. /\ n \in Nat /\ b <= n /\ Levels = 1..n
      /\ level \in b..n /\ level \in Levels /\ level \in Nat /\ This \in LoopType /\ This = loops[level]
      /\ Regular(This) /\ This.kind \in Counted \cup {"repeater", "data"} /\ Runs(This) \in Nat \ {0}
      /\ b = 2 => level # 1 /\ 1 \in Levels
  BY <1>0, AtHand
<1>2. /\ loops' = loops /\ level' = level /\ g_stat' = g_stat /\ taken' = taken /\ phase' = "test"
      /\ m_done' = Set(m_done, FALSE)
      /\ m_cur' = IF This.kind = "data" THEN m_cur ELSE Set(m_cur, Start(This))
  BY DEF InitLoop
<1>2a. m_done'[level] = FALSE
  BY <1>1, <1>2, SetApply, Domains
<1>2b. \A l \in Levels : l # level => m_cur'[l] = m_cur[l]
  BY <1>1, <1>2, SetApply, Domains
<1>2c. This.kind # "data" => m_cur'[level] = Start(This)
  BY <1>1, <1>2, SetApply, Domains
<1>3. /\ i \in Maps(b..n, Nat) /\ todo \in Maps(b..n, Positions)
      /\ Split(t, b) /\ Cat(Since(t, b), todo[b]) = From(loops, b)
      /\ \A l \in b..(level - 1) : InRun(l, i[l], todo[l], todo[l + 1])
      /\ todo[level] = From(loops, level)
  BY DEF NestAt, InitLoop
<1> PICK lv : lv = level
  OBVIOUS
<1> DEFINE j == Put(i, lv, 0)
<1>4. j \in Maps(b..n, Nat) /\ j[lv] = 0 /\ \A l \in b..(lv - 1) : j[l] = i[l]
  <2>1. lv \in b..n /\ 0 \in Nat /\ \A l \in b..(lv - 1) : l \in b..n /\ l # lv
    BY <1>1
  <2> DEFINE dom == b..n
  <2>2. lv \in dom /\ i \in Maps(dom, Nat) /\ \A l \in b..(lv - 1) : l \in dom /\ l # lv
    BY <1>3, <2>1
  <2> HIDE DEF dom
  <2>3. j \in Maps(dom, Nat) /\ j[lv] = 0 /\ \A l \in dom : l # lv => j[l] = i[l]
    BY <2>1, <2>2, PutFacts
  <2> QED BY <2>2, <2>3 DEF dom
<1>5. (Split(t, b) /\ Cat(Since(t, b), todo[b]) = From(loops, b))'
  <2>1. b = 2 => m_cur'[1] = m_cur[1]
    BY <1>1, <1>2b
  <2> QED BY <1>2, <1>3, <2>1, SinceFrame
<1> HIDE DEF j
<1>6. \A l \in b..(level - 1) : InRun(l, j[l], todo[l], todo[l + 1])'
  BY <1>0, <1>2, <1>2b, <1>3, <1>4, OuterFrame
<1>7. BetweenRuns(lv, 0, todo[lv])'
  <2>1. todo[lv] = Left(lv, 0) /\ Left(lv, 0)' = Left(lv, 0)
    <3>1. From(loops, level) = Left(level, 0)
      BY <1>1, LeftFacts
    <3> QED BY <1>2, <1>3, <3>1 DEF Left
  <2>2. CountOf(lv, 0, 0)'
    <3>1. This.kind \in Counted => m_cur'[level] = Value(This, 1)
      <4> SUFFICES ASSUME This.kind \in Counted PROVE m_cur'[level] = Value(This, 1)
        OBVIOUS
      <4>1. This.min + (1 - 1) * This.step = This.min
        BY <1>1 DEF LoopType
      <4>2. This.kind \notin {"repeater", "data"}
        BY DEF Counted, Stages
      <4>3. Value(This, 1) = Unsigned(This.min)
        BY <4>1, <4>2 DEF Value
      <4>4. Start(This) = Unsigned(This.min)
        <5>1. This.kind \in {"parameter"} \cup Stages
          BY DEF Counted
        <5> QED BY <5>1 DEF Start, Stages, Feedbacks
      <4> QED BY <1>2c, <4>2, <4>3, <4>4
    <3>2. This.kind = "repeater" => m_cur'[level] = This.min
      <4>1. This.kind = "repeater" => Start(This) = This.min
        BY DEF Start, Stages, Feedbacks
      <4> QED BY <1>2c, <4>1
    <3>3. This.min \in Int /\ This.min + 0 + 0 = This.min /\ 0 + 1 = 1
      BY <1>1 DEF LoopType
    <3> QED BY <1>1, <1>2, <3>1, <3>2, <3>3 DEF CountOf
  <2>3. ~m_done'[lv] /\ 0 # Runs(loops'[lv]) /\ 0 <= Runs(loops'[lv])
    <3>1. loops'[lv] = This
      BY <1>1, <1>2
    <3>2. 0 # Runs(This) /\ 0 <= Runs(This)
      BY <1>1
    <3> QED BY <1>2a, <3>1, <3>2
  <2> QED BY <2>1, <2>2, <2>3 DEF BetweenRuns
<1>8. NestAt(b, t, j, todo)'
  BY <1>2, <1>3, <1>4, <1>5, <1>6, <1>7 DEF NestAt
<1> QED BY <1>8

(* What NestAt says of the loop at hand. *)
LEMMA AtParts ==
    ASSUME NEW b, NEW t, NEW i, NEW todo, NestAt(b, t, i, todo)
    PROVE  /\ i \in Maps(b..Len(loops), Nat) /\ todo \in Maps(b..Len(loops), Positions)
           /\ Split(t, b) /\ Cat(Since(t, b), todo[b]) = From(loops, b)
           /\ \A l \in b..(level - 1) : InRun(l, i[l], todo[l], todo[l + 1])
           /\ phase = "test" => BetweenRuns(level, i[level], todo[level])
           /\ phase = "part2" => InRun(level, i[level], todo[level],
                                       IF level = Len(loops) THEN <<<<>>>> ELSE <<>>)
BY DEF NestAt

(* Execution of a loop of the nest begins. *)
LEMMA NestPart1 ==
    ASSUME EngineTypes, Unset, NEW b \in 1..2, Nest(loops, b), level >= b,
           NEW t, NEW i, NEW todo, NestAt(b, t, i, todo), NEW d, ExecPart1(d)
    PROVE  \E rest : NestAt(b, t, i, rest)'
<1> DEFINE n == Len(loops)
<1>0. Running /\ phase = "test" /\ ~m_done[level]
  BY DEF ExecPart1, Running
<1>1. /\ n \in Nat /\ b <= n /\ Levels = 1..n
      /\ level \in b..n /\ level \in Levels /\ level \in Nat /\ This \in LoopType /\ This = loops[level]
      /\ Regular(This) /\ This.kind \in Counted \cup {"repeater", "data"} /\ Runs(This) \in Nat \ {0}
      /\ b = 2 => level # 1 /\ 1 \in Levels
  BY <1>0, AtHand
<1>2. /\ loops' = loops /\ taken' = taken
      /\ g_stat' = IF This.kind \in {"repeater", "data"} THEN g_stat ELSE Set(g_stat, m_cur[level])
      /\ m_cur' = IF This.kind = "repeater" THEN Set(m_cur, m_cur[level] + 1) ELSE m_cur
      /\ IF level < Len(loops) THEN level' = level + 1 /\ phase' = "init"
         ELSE phase' = "part2" /\ level' = level
  BY DEF ExecPart1
<1>2b. \A l \in Levels : l # level => m_cur'[l] = m_cur[l] /\ g_stat'[l] = g_stat[l]
  BY <1>1, <1>2, SetApply, Domains
<1>2c. /\ This.kind = "repeater" => m_cur'[level] = m_cur[level] + 1 /\ g_stat'[level] = 0
       /\ This.kind = "data" => g_stat'[level] = 0
       /\ This.kind \in Counted => m_cur'[level] = m_cur[level] /\ g_stat'[level] = m_cur[level]
  <2>1. This.kind \in {"repeater", "data"} => g_stat[level] = 0
    BY <1>1 DEF Unset
  <2>2. Set(m_cur, m_cur[level] + 1)[level] = m_cur[level] + 1 /\ Set(g_stat, m_cur[level])[level] = m_cur[level]
    BY <1>1, SetApply, Domains
  <2>3. This.kind \in Counted => This.kind \notin {"repeater", "data"}
    BY DEF Counted, Stages
  <2> QED BY <1>2, <2>1, <2>2, <2>3
<1>3. /\ i \in Maps(b..n, Nat) /\ todo \in Maps(b..n, Positions)
      /\ Split(t, b) /\ Cat(Since(t, b), todo[b]) = From(loops, b)
      /\ \A l \in b..(level - 1) : InRun(l, i[l], todo[l], todo[l + 1])
      /\ BetweenRuns(level, i[level], todo[level])
  BY <1>0, AtParts
<1> PICK lv, fr : lv = level /\ fr = From(loops, level + 1)
  OBVIOUS
<1>4. i[lv] \in Nat /\ i[lv] < Runs(This) /\ i[lv] \in 0..(Runs(This) - 1)
      /\ todo[lv] = Cat(Within(Value(This, i[lv] + 1), fr), Left(lv, i[lv] + 1))
  <2>1. i[lv] \in Nat
    BY <1>1, <1>3 DEF Maps
  <2>2. i[lv] <= Runs(This) /\ i[lv] # Runs(This) /\ todo[lv] = Left(lv, i[lv])
    BY <1>0, <1>1, <1>3 DEF BetweenRuns
  <2>3. i[lv] \in 0..(Runs(This) - 1)
    BY <1>1, <2>1, <2>2
  <2>4. Left(level, i[lv]) = Cat(Within(Value(loops[level], i[lv] + 1), From(loops, level + 1)), Left(level, i[lv] + 1))
    BY <1>1, <2>3, LeftFacts
  <2> QED BY <1>1, <2>1, <2>2, <2>3, <2>4
<1>5. (Split(t, b) /\ Cat(Since(t, b), todo[b]) = From(loops, b))'
  <2>1. b = 2 => m_cur'[1] = m_cur[1]
    BY <1>1, <1>2b
  <2> QED BY <1>2, <1>3, <2>1, SinceFrame
<1>6. InRun(lv, i[lv], todo[lv], fr)'
  <2> DEFINE k == i[lv]
  <2>1. CountOf(lv, k, 0)
    BY <1>3 DEF BetweenRuns
  <2>2. loops'[lv] = This /\ loops[lv] = This
    BY <1>1, <1>2
  <2>3. CountOf(lv, k, 1)'
    <3>1. This.kind = "repeater" => m_cur'[lv] = This.min + k + 1
      <4>1. This.kind = "repeater" => m_cur[lv] = This.min + k + 0
        BY <2>1, <2>2 DEF CountOf
      <4>2. This.min \in Int /\ This.min + k + 0 = This.min + k
        BY <1>1, <1>4 DEF LoopType
      <4> QED BY <1>2c, <4>1, <4>2
    <3>2. This.kind \in Counted => m_cur'[lv] = Value(This, k + 1)
      BY <1>2c, <2>1, <2>2 DEF CountOf
    <3> QED BY <2>2, <3>1, <3>2 DEF CountOf
  <2>4. g_stat'[lv] = Value(This, k + 1)
    <3>1. This.kind \in {"repeater", "data"} => Value(This, k + 1) = 0
      BY DEF Value
    <3>2. This.kind \in Counted => m_cur[lv] = Value(This, k + 1)
      BY <2>1, <2>2 DEF CountOf
    <3> QED BY <1>1, <1>2c, <3>1, <3>2
  <2>5. Left(lv, k + 1)' = Left(lv, k + 1)
    BY <1>2 DEF Left
  <2> HIDE DEF k
  <2>6. InRun(lv, k, todo[lv], fr)'
    BY <1>4, <2>2, <2>3, <2>4, <2>5 DEF InRun, k
  <2> QED BY <2>6 DEF k
<1>7. CASE level < n
  <2> DEFINE rest == Put(todo, lv + 1, fr)
  <2>1. rest \in Maps(b..n, Positions) /\ rest[lv + 1] = fr /\ \A l \in b..lv : rest[l] = todo[l]
    <3>1. lv + 1 \in b..n /\ \A l \in b..lv : l \in b..n /\ l # lv + 1
      BY <1>1, <1>7
    <3>2. fr \in Positions
      <4>1. level + 1 \in b..(Len(loops) + 1)
        BY <1>1
      <4> QED BY <4>1, LeftFacts
    <3> DEFINE dom == b..n
    <3>3. lv + 1 \in dom /\ todo \in Maps(dom, Positions) /\ \A l \in b..lv : l \in dom /\ l # lv + 1
      BY <1>3, <3>1
    <3> HIDE DEF dom
    <3>4. rest \in Maps(dom, Positions) /\ rest[lv + 1] = fr /\ \A l \in dom : l # lv + 1 => rest[l] = todo[l]
      BY <3>2, <3>3, PutFacts
    <3> QED BY <3>3, <3>4 DEF dom
  <2> HIDE DEF rest
  <2>2. \A l \in b..(level - 1) : InRun(l, i[l], rest[l], rest[l + 1])'
    BY <1>0, <1>2, <1>2b, <1>3, <2>1, OuterFrame
  <2>3. level' = lv + 1 /\ phase' = "init" /\ level' - 1 = lv
    BY <1>1, <1>2, <1>7
  <2>4. \A l \in b..(level' - 1) : InRun(l, i[l], rest[l], rest[l + 1])'
    <3>1. InRun(lv, i[lv], rest[lv], rest[lv + 1])'
      <4>1. lv \in b..lv
        BY <1>1
      <4> QED BY <1>6, <2>1, <4>1
    <3>2. \A l \in b..(level' - 1) : l = lv \/ l \in b..(level - 1)
      BY <1>1, <2>3
    <3> QED BY <2>2, <3>1, <3>2
  <2>5. rest[level'] = From(loops', level')
    BY <1>2, <2>1, <2>3
  <2>6. rest[b] = todo[b]
    BY <1>1, <2>1
  <2>7. NestAt(b, t, i, rest)'
    BY <1>2, <1>3, <1>5, <2>1, <2>3, <2>4, <2>5, <2>6 DEF NestAt
  <2> QED BY <2>7
<1>8. CASE ~(level < n)
  <2>1. level = n /\ level' = lv /\ phase' = "part2" /\ fr = <<<<>>>>
    <3>1. level = n /\ level' = lv /\ phase' = "part2"
      BY <1>1, <1>2, <1>8
    <3> QED BY <3>1, LeftFacts
  <2>2. \A l \in b..(level - 1) : InRun(l, i[l], todo[l], todo[l + 1])'
    BY <1>0, <1>2, <1>2b, <1>3, OuterFrame
  <2>3. NestAt(b, t, i, todo)'
    BY <1>2, <1>3, <1>5, <1>6, <2>1, <2>2 DEF NestAt
  <2> QED BY <2>3
<1> QED BY <1>7, <1>8

(* A loop status kept with the data has a position for each loop. *)
LEMMA TakenStat ==
    ASSUME EngineTypes
    PROVE  /\ Len(taken) \in Nat /\ DOMAIN taken = 1..Len(taken)
           /\ \A k \in 1..Len(taken) : taken[k].stat \in [1..Len(loops) -> Int]
<1> DEFINE R == [stat : [Levels -> Int], reg : [Levels -> Int]]
<1>1. taken \in Seq(R) /\ \A r \in R : r.stat \in [Levels -> Int]
  BY DEF EngineTypes, TypeOK
<1> HIDE DEF R
<1>2. Len(taken) \in Nat /\ DOMAIN taken = 1..Len(taken) /\ \A k \in 1..Len(taken) : taken[k] \in R
  BY <1>1
<1> QED BY <1>1, <1>2, LoopFacts

(* The positions taken are positions. *)
LEMMA SinceType ==
    ASSUME EngineTypes, NEW b \in 1..2, b <= Len(loops), NEW t \in 0..Len(taken)
    PROVE  Since(t, b) \in Positions /\ Len(Since(t, b)) = Len(taken) - t
<1>1. Len(loops) \in Nat /\ Levels = 1..Len(loops)
  BY LoopFacts
<1>2. Len(taken) \in Nat /\ \A k \in 1..Len(taken) : taken[k].stat \in [1..Len(loops) -> Int]
  BY TakenStat
<1> DEFINE P(k) == SubSeq(taken[t + k].stat, b, Len(loops))
<1>3. ASSUME NEW k \in 1..(Len(taken) - t) PROVE P(k) \in Seq(Int)
  <2> DEFINE st == taken[t + k].stat
  <2>1. st \in [1..Len(loops) -> Int]
    BY <1>2
  <2> HIDE DEF st
  <2>2. st \in Seq(Int) /\ Len(st) = Len(loops) /\ b \in 1..Len(st)
    BY <1>1, <2>1
  <2>3. SubSeq(st, b, Len(st)) \in Seq(Int)
    BY <2>2, EndFrom
  <2> QED BY <2>2, <2>3 DEF st
<1>4. Len(taken) - t \in Nat
  BY <1>2
<1> HIDE DEF P
<1>5. /\ [k \in 1..(Len(taken) - t) |-> P(k)] \in Seq(Seq(Int))
      /\ Len([k \in 1..(Len(taken) - t) |-> P(k)]) = Len(taken) - t
  BY <1>3, <1>4
<1> QED BY <1>5 DEF Since, P, Positions

(* What execPart2 does to the counter and the flag of a loop that counts or *)
(* repeats.                                                                 *)
LEMMA CountOn ==
    ASSUME EngineTypes, ExecutingInv, NEW b \in 1..2, Nest(loops, b), level >= b, ExecPart2,
           This.kind # "data", NEW k \in Nat, k < Runs(This), CountOf(level, k, 1)
    PROVE  /\ taken' = taken
           /\ \A l \in Levels : l # level => m_cur'[l] = m_cur[l]
           /\ CountOf(level, k + 1, 0)'
           /\ m_done'[level] <=> k + 1 = Runs(This)
<1>0. Running /\ phase = "part2" /\ loops' = loops /\ level' = level
  BY DEF ExecPart2, Running
<1>1. /\ level \in Levels /\ This \in LoopType /\ This = loops[level] /\ Regular(This)
      /\ This.kind \in Counted \cup {"repeater", "data"} /\ This.kind \notin Feedbacks
      /\ Runs(This) \in Nat \ {0}
  BY <1>0, AtHand
<1>2. ~m_done[level]
  BY <1>0, <1>1 DEF ExecutingInv, Executing, Feedbacks
<1>3. /\ This.min \in Int /\ This.max \in Int /\ Final(This) \in Int /\ (k + 1) + 1 = k + 2
      /\ loops'[level'] = This
  BY <1>0, <1>1 DEF LoopType, Final
<1>4. \A x : /\ Set(m_cur, x)[level] = x /\ Set(m_done, x)[level] = x
             /\ \A l \in Levels : l # level => Set(m_cur, x)[l] = m_cur[l]
  BY <1>1, SetApply, Domains
<1>5. CASE This.kind \in Counted
  <2> DEFINE next == Unsigned(Value(This, k + 1) + This.step)
  <2>1. next = Value(This, k + 2) /\ ((Signed(next) > Final(This)) <=> (k + 1 = Runs(This)))
    BY <1>1, <1>5, RunFacts
  <2>2. m_cur[level] = Value(This, k + 1)
    BY <1>1, <1>5 DEF CountOf
  <2>3. This.kind # "repeater"
    BY <1>5 DEF Counted, Stages
  <2>4. m_cur' = Set(m_cur, next) /\ taken' = taken /\ (m_done'[level] <=> Signed(next) > Final(This))
    <3>1. Value(This, k + 2) \in Int /\ next \in 0..(WordSize - 1) /\ Signed(next) \in Int
      <4>1. Value(This, k + 1) \in Int /\ This.step \in Int
        BY <1>1, RunFacts DEF LoopType
      <4>2. next \in 0..(WordSize - 1)
        BY <4>1, UnsignedNat
      <4> HIDE DEF next
      <4> QED BY <2>1, <4>2, LoopEngineAssumption DEF Signed
    <3>2. CASE This.kind = "parameter"
      <4>1. ParameterPart2
        BY <3>2, <1>5 DEF ExecPart2, Stages
      <4>2. m_cur' = Set(m_cur, next) /\ taken' = taken
        BY <4>1, <2>2 DEF ParameterPart2
      <4>3. m_cur'[level] = next
        BY <4>2, <1>4
      <4>4. Final(This) = This.max
        BY <3>2 DEF Final
      <4> HIDE DEF next
      <4>5. IF Signed(next) > This.max THEN m_done' = Set(m_done, TRUE) ELSE m_done' = m_done
        BY <4>1, <4>3 DEF ParameterPart2
      <4>6. m_done'[level] <=> Signed(next) > Final(This)
        BY <4>4, <4>5, <1>2, <1>4
      <4> QED BY <4>2, <4>6 DEF next
    <3>3. CASE This.kind # "parameter"
      <4>1. This.kind \in Stages
        BY <3>3, <1>5 DEF Counted
      <4>2. MaskPart2
        BY <4>1, <3>3, <2>3 DEF ExecPart2
      <4>3. m_cur' = Set(m_cur, next) /\ taken' = taken
        BY <4>2, <2>2 DEF MaskPart2
      <4>4. m_cur'[level] = next
        BY <4>3, <1>4
      <4>5. Final(This) = This.max - 1
        BY <3>3 DEF Final
      <4> HIDE DEF next
      <4>6. m_done' = Set(m_done, ~(Signed(next) < This.max))
        BY <4>2, <4>4 DEF MaskPart2
      <4>7. m_done'[level] = ~(Signed(next) < This.max)
        BY <4>6, <1>4
      <4>8. ~(Signed(next) < This.max) <=> Signed(next) > Final(This)
        BY <4>5, <3>1, <1>3
      <4> QED BY <4>3, <4>7, <4>8 DEF next
    <3> QED BY <3>2, <3>3
  <2> HIDE DEF next
  <2>5. m_cur'[level] = Value(This, k + 2)
    BY <2>1, <2>4, <1>4
  <2>6. CountOf(level, k + 1, 0)'
    BY <1>0, <1>3, <2>3, <2>5 DEF CountOf
  <2>7. \A l \in Levels : l # level => m_cur'[l] = m_cur[l]
    BY <2>4, <1>4
  <2> QED BY <2>1, <2>4, <2>6, <2>7
<1>6. CASE This.kind = "repeater"
  <2>1. RepeaterPart2 /\ This.kind \notin Counted
    BY <1>6 DEF ExecPart2, Stages, Counted
  <2>2. m_cur' = m_cur /\ taken' = taken /\ m_done' = Set(m_done, m_cur[level] = This.max)
    BY <2>1 DEF RepeaterPart2
  <2>3. m_cur[level] = This.min + k + 1
    BY <1>1, <1>6 DEF CountOf
  <2>4. (This.min + k + 1 = This.max) <=> (k + 1 = Runs(This))
    BY <1>1, <1>6, RunFacts
  <2>5. m_done'[level] <=> k + 1 = Runs(This)
    <3>1. m_done'[level] = (m_cur[level] = This.max)
      BY <2>2, <1>4
    <3> QED BY <2>3, <2>4, <3>1
  <2>6. CountOf(level, k + 1, 0)'
    <3>1. This.min + (k + 1) + 0 = This.min + k + 1
      BY <1>3
    <3> QED BY <1>0, <1>3, <2>1, <2>2, <2>3, <3>1 DEF CountOf
  <2> QED BY <2>2, <2>5, <2>6
<1> QED BY <1>1, <1>5, <1>6

(* A loop of the nest that is around others has finished a run. *)
LEMMA NestPart2 ==
    ASSUME EngineTypes, ExecutingInv, NEW b \in 1..2, Nest(loops, b), level >= b,
           NEW t, NEW i, NEW todo, NestAt(b, t, i, todo), ExecPart2, This.kind # "data"
    PROVE  \E j : NestAt(b, t, j, todo)'
<1> DEFINE n == Len(loops)
<1>0. Running /\ phase = "part2" /\ phase' = "test"
      /\ loops' = loops /\ level' = level /\ g_stat' = g_stat
  BY DEF ExecPart2, Running
<1>1. /\ n \in Nat /\ b <= n /\ Levels = 1..n
      /\ level \in b..n /\ level \in Levels /\ level \in Nat /\ This \in LoopType /\ This = loops[level]
      /\ Regular(This) /\ Runs(This) \in Nat \ {0} /\ level # n
      /\ b = 2 => level # 1 /\ 1 \in Levels
  BY <1>0, AtHand
<1>3. /\ i \in Maps(b..n, Nat) /\ todo \in Maps(b..n, Positions)
      /\ Split(t, b) /\ Cat(Since(t, b), todo[b]) = From(loops, b)
      /\ \A l \in b..(level - 1) : InRun(l, i[l], todo[l], todo[l + 1])
      /\ InRun(level, i[level], todo[level], <<>>)
  BY <1>0, <1>1, AtParts
<1> PICK lv : lv = level
  OBVIOUS
<1> PICK k : k = i[lv]
  OBVIOUS
<1>4. k \in Nat /\ k < Runs(This) /\ CountOf(level, k, 1)
      /\ todo[lv] = Cat(Within(Value(This, k + 1), <<>>), Left(lv, k + 1))
  <2>1. k \in Nat
    BY <1>1, <1>3 DEF Maps
  <2> QED BY <1>1, <1>3, <2>1 DEF InRun
<1>5. todo[lv] = Left(lv, k + 1)
  <2>1. k + 1 \in 0..Runs(This)
    BY <1>1, <1>4
  <2>2. Left(level, k + 1) \in Positions
    BY <1>1, <2>1, LeftFacts
  <2> QED BY <1>4, <2>2, WithinEmpty, PositionsFacts
<1>6. /\ taken' = taken
      /\ \A l \in Levels : l # level => m_cur'[l] = m_cur[l]
      /\ CountOf(level, k + 1, 0)'
      /\ m_done'[level] <=> k + 1 = Runs(This)
  BY <1>4, CountOn
<1> DEFINE j == Put(i, lv, k + 1)
<1>7. j \in Maps(b..n, Nat) /\ j[lv] = k + 1 /\ \A l \in b..(lv - 1) : j[l] = i[l]
  <2>1. lv \in b..n /\ k + 1 \in Nat /\ \A l \in b..(lv - 1) : l \in b..n /\ l # lv
    BY <1>1, <1>4
  <2> DEFINE dom == b..n
  <2>2. lv \in dom /\ i \in Maps(dom, Nat) /\ \A l \in b..(lv - 1) : l \in dom /\ l # lv
    BY <1>3, <2>1
  <2> HIDE DEF dom
  <2>3. j \in Maps(dom, Nat) /\ j[lv] = k + 1 /\ \A l \in dom : l # lv => j[l] = i[l]
    BY <2>1, <2>2, PutFacts
  <2> QED BY <2>2, <2>3 DEF dom
<1> HIDE DEF j
<1>8. (Split(t, b) /\ Cat(Since(t, b), todo[b]) = From(loops, b))'
  <2>1. b = 2 => m_cur'[1] = m_cur[1]
    BY <1>1, <1>6
  <2> QED BY <1>0, <1>3, <1>6, <2>1, SinceFrame
<1>9. \A l \in b..(level - 1) : InRun(l, j[l], todo[l], todo[l + 1])'
  BY <1>0, <1>3, <1>6, <1>7, OuterFrame
<1>10. BetweenRuns(lv, k + 1, todo[lv])'
  <2>1. loops'[lv] = This /\ k + 1 <= Runs(This)
    BY <1>0, <1>1, <1>4
  <2>2. Left(lv, k + 1)' = Left(lv, k + 1)
    BY <1>0 DEF Left
  <2>3. CountOf(lv, k + 1, 0)' /\ (m_done'[lv] <=> k + 1 = Runs(This))
    BY <1>0, <1>6
  <2> QED BY <1>5, <2>1, <2>2, <2>3 DEF BetweenRuns
<1>11. NestAt(b, t, j, todo)'
  BY <1>0, <1>3, <1>7, <1>8, <1>9, <1>10 DEF NestAt
<1> QED BY <1>11

(* A loop of the nest ends, and the one around it goes on. *)
LEMMA NestEnd ==
    ASSUME EngineTypes, NEW b \in 1..2, Nest(loops, b), level >= b,
           NEW t, NEW i, NEW todo, NestAt(b, t, i, todo), EndLoop
    PROVE  /\ level > b => NestAt(b, t, i, todo)'
           /\ level = b => (Split(t, b) /\ Since(t, b) = From(loops, b))'
<1> DEFINE n == Len(loops)
<1>0. Running /\ phase = "test" /\ m_done[level]
      /\ loops' = loops /\ g_stat' = g_stat /\ taken' = taken
  BY DEF EndLoop, Running
<1>1. /\ n \in Nat /\ b <= n /\ Levels = 1..n
      /\ level \in b..n /\ level \in Levels /\ level \in Nat /\ This = loops[level]
      /\ b = 2 => level # 1 /\ 1 \in Levels
  BY <1>0, AtHand
<1>2. \A l \in Levels : l # level => m_cur'[l] = m_cur[l] /\ g_stat'[l] = g_stat[l]
  BY <1>0, <1>1, SetApply, Domains DEF EndLoop
<1>3. /\ i \in Maps(b..n, Nat) /\ todo \in Maps(b..n, Positions)
      /\ Split(t, b) /\ Cat(Since(t, b), todo[b]) = From(loops, b)
      /\ \A l \in b..(level - 1) : InRun(l, i[l], todo[l], todo[l + 1])
      /\ BetweenRuns(level, i[level], todo[level])
  BY <1>0, AtParts
<1>4. todo[level] = <<>>
  <2>1. todo[level] = Left(level, Runs(loops[level]))
    BY <1>0, <1>3 DEF BetweenRuns
  <2> QED BY <1>1, <2>1, LeftFacts
<1>5. (Split(t, b) /\ Cat(Since(t, b), todo[b]) = From(loops, b))'
  <2>1. b = 2 => m_cur'[1] = m_cur[1]
    BY <1>1, <1>2
  <2> QED BY <1>0, <1>3, <2>1, SinceFrame
<1>6. \A l \in b..(level - 1) : InRun(l, i[l], todo[l], todo[l + 1])'
  BY <1>0, <1>2, <1>3, OuterFrame
<1>7. CASE level > b
  <2>1. level' = level - 1 /\ phase' = "part2"
    BY <1>1, <1>7 DEF EndLoop
  <2> PICK lv : lv = level - 1
    OBVIOUS
  <2>2. lv \in b..(level - 1) /\ lv + 1 = level /\ lv # n /\ level' = lv
        /\ \A l \in b..(lv - 1) : l \in b..(level - 1)
    BY <1>1, <1>7, <2>1
  <2>3. InRun(lv, i[lv], todo[lv], <<>>)'
    BY <1>4, <1>6, <2>2
  <2>4. \A l \in b..(level' - 1) : InRun(l, i[l], todo[l], todo[l + 1])'
    BY <1>6, <2>2
  <2>5. NestAt(b, t, i, todo)'
    BY <1>0, <1>3, <1>5, <2>1, <2>2, <2>3, <2>4 DEF NestAt
  <2> QED BY <1>7, <2>5
<1>8. CASE level = b
  <2>1. Cat(Since(t, b), <<>>)' = From(loops, b)'
    BY <1>4, <1>5, <1>8
  <2>2. Since(t, b)' \in Positions
    <3>1. t \in 0..Len(taken)
      BY <1>3 DEF Split
    <3> QED BY <1>0, <1>1, <3>1, SinceType, SinceFrame
  <2>3. Since(t, b)' = From(loops, b)'
    BY <2>1, <2>2, PositionsFacts
  <2> QED BY <1>5, <1>8, <2>3
<1> QED BY <1>1, <1>7, <1>8


(* A position taken is added to those taken before. *)
LEMMA SinceTaken ==
    ASSUME EngineTypes, NEW b \in 1..2, b <= Len(loops), NEW t \in 0..Len(taken), loops' = loops,
           NEW x, taken' = Append(taken, x)
    PROVE  /\ Since(t, b)' = Append(Since(t, b), SubSeq(x.stat, b, Len(loops)))
           /\ Len(taken') = Len(taken) + 1 /\ taken'[Len(taken) + 1] = x
           /\ \A k \in 1..Len(taken) : taken'[k] = taken[k]
<1>1. PICK S : taken \in Seq(S)
  BY DEF EngineTypes, TypeOK
<1>2. Len(taken) \in Nat
  BY <1>1
<1>3. /\ Len(taken') = Len(taken) + 1 /\ taken'[Len(taken) + 1] = x
      /\ \A k \in 1..Len(taken) : taken'[k] = taken[k]
  BY <1>1
<1> DEFINE m == Len(taken) - t
           P(k) == SubSeq(taken[t + k].stat, b, Len(loops))
           Q(k) == SubSeq(taken'[t + k].stat, b, Len(loops))
           old == [k \in 1..m |-> P(k)]
           new == [k \in 1..(m + 1) |-> Q(k)]
           p == SubSeq(x.stat, b, Len(loops))
<1>4. m \in Nat /\ Len(taken') - t = m + 1 /\ t + (m + 1) = Len(taken) + 1
      /\ \A k \in 1..m : t + k \in 1..Len(taken)
  <2>1. ASSUME NEW n \in Nat, t \in 0..n
        PROVE  n - t \in Nat /\ n + 1 - t = (n - t) + 1 /\ t + ((n - t) + 1) = n + 1
               /\ \A k \in 1..(n - t) : t + k \in 1..n
    BY <2>1
  <2> QED BY <1>2, <1>3, <2>1
<1>5. Since(t, b) = old /\ Since(t, b)' = new
  BY <1>4 DEF Since
<1>6. Q(m + 1) = p /\ \A k \in 1..m : Q(k) = P(k)
  BY <1>3, <1>4
<1> HIDE DEF m, P, Q, p
<1>7. new = Append(old, p)
  <2>1. old \in Seq({P(k) : k \in 1..m}) /\ Len(old) = m
    BY <1>4
  <2>2. Append(old, p) = [k \in 1..(m + 1) |-> IF k = m + 1 THEN p ELSE old[k]]
    BY <2>1, <1>4
  <2>3. \A k \in 1..(m + 1) : (IF k = m + 1 THEN p ELSE old[k]) = Q(k)
    <3>1. \A k \in 1..(m + 1) : k # m + 1 => k \in 1..m
      BY <1>4
    <3> QED BY <1>6, <3>1
  <2> QED BY <2>2, <2>3
<1> QED BY <1>3, <1>5, <1>7 DEF p

(* Data are taken: the first of the positions left to do is done. *)
LEMMA NestData ==
    ASSUME EngineTypes, NEW b \in 1..2, Nest(loops, b), level >= b, b = 2 => g_stat[1] = m_cur[1],
           NEW t, NEW i, NEW todo, NestAt(b, t, i, todo), ExecPart2, This.kind = "data"
    PROVE  \E j, rest : NestAt(b, t, j, rest)'
<1> PICK n : n = Len(loops)
  OBVIOUS
<1>0. Running /\ phase = "part2" /\ phase' = "test"
      /\ loops' = loops /\ level' = level /\ g_stat' = g_stat
  BY DEF ExecPart2, Running
<1>1. /\ n \in Nat /\ b <= n /\ Levels = 1..n
      /\ level = n /\ level \in Levels /\ This = loops[n] /\ n \in b..n
      /\ b = 2 => 1 \in Levels
  BY <1>0, AtHand
<1>2. DataPart2
  BY DEF ExecPart2, Stages
<1>3. /\ taken' = Append(taken, [stat |-> g_stat, reg |-> reg]) /\ m_cur' = m_cur
      /\ m_done'[n] = TRUE
  BY <1>1, <1>2, SetApply, Domains DEF DataPart2
<1>4. /\ i \in Maps(b..n, Nat) /\ todo \in Maps(b..n, Positions)
      /\ Split(t, b) /\ Cat(Since(t, b), todo[b]) = From(loops, b)
      /\ \A l \in b..(n - 1) : InRun(l, i[l], todo[l], todo[l + 1])
      /\ InRun(n, i[n], todo[n], <<<<>>>>)
  BY <1>0, <1>1, AtParts
<1>5. /\ \A l \in b..n : /\ Runs(loops[l]) \in Nat \ {0} /\ i[l] \in Nat /\ i[l] < Runs(loops[l])
                         /\ g_stat[l] = Value(loops[l], i[l] + 1)
                         /\ Left(l, i[l] + 1) \in Positions
      /\ \A l \in b..(n - 1) : todo[l] = Cat(Within(g_stat[l], todo[l + 1]), Left(l, i[l] + 1))
      /\ todo[n] = Cat(Within(g_stat[n], <<<<>>>>), Left(n, i[n] + 1))
  <2>1. \A l \in b..n : Runs(loops[l]) \in Nat \ {0}
    BY <1>1, NestFacts
  <2>2. \A l \in b..n : i[l] \in Nat
    BY <1>4 DEF Maps
  <2>3. \A l \in b..n : i[l] < Runs(loops[l]) /\ g_stat[l] = Value(loops[l], i[l] + 1)
    <3>1. \A l \in b..n : l = n \/ l \in b..(n - 1)
      BY <1>1
    <3> QED BY <1>4, <3>1 DEF InRun
  <2>4. \A l \in b..(n - 1) : l \in b..n
    BY <1>1
  <2>5. ASSUME NEW l \in b..n PROVE Left(l, i[l] + 1) \in Positions
    <3>1. i[l] + 1 \in 0..Runs(loops[l])
      BY <2>1, <2>2, <2>3
    <3> QED BY <1>1, <3>1, LeftFacts
  <2>6. /\ \A l \in b..(n - 1) : todo[l] = Cat(Within(g_stat[l], todo[l + 1]), Left(l, i[l] + 1))
        /\ todo[n] = Cat(Within(g_stat[n], <<<<>>>>), Left(n, i[n] + 1))
    BY <1>4, <2>3, <2>4 DEF InRun
  <2> QED BY <2>1, <2>2, <2>3, <2>5, <2>6
<1>6. Runs(loops[n]) = 1 /\ i[n] = 0 /\ i[n] + 1 = 1
  <2>1. Runs(loops[n]) = 1
    BY <1>1 DEF Runs
  <2> QED BY <1>1, <1>5, <2>1
<1> PICK st : st = g_stat
  OBVIOUS
<1>7. st \in Seq(Int) /\ Len(st) = n /\ \A l \in b..n : st[l] \in Int
  <2>1. g_stat \in [1..n -> Int]
    BY <1>1 DEF EngineTypes, TypeOK
  <2> QED BY <1>1, <2>1
<1>8. Within(st[n], <<<<>>>>) = One(<<st[n]>>)
  <2> DEFINE val == st[n]
             none == <<<<>>>>
             w == Within(val, none)
  <2>1. val \in Int
    BY <1>1, <1>7
  <2>2. none \in Positions /\ Len(none) = 1 /\ none[1] = <<>>
    BY DEF Positions
  <2> HIDE DEF val, none
  <2>3. w \in Positions /\ Len(w) = Len(none) /\ \A j \in 1..Len(none) : w[j] = <<val>> \o none[j]
    BY <2>1, <2>2, WithinType
  <2>4. <<val>> \o <<>> = <<val>>
    BY <2>1
  <2> HIDE DEF w
  <2>5. w \in Positions /\ Len(w) = 1 /\ w[1] = <<val>>
    BY <2>2, <2>3, <2>4
  <2>6. w = <<<<val>>>>
    BY <2>5 DEF Positions
  <2> QED BY <2>6 DEF w, val, none, One
<1> PICK later : later = [l \in b..n |-> Left(l, i[l] + 1)]
  OBVIOUS
<1>9. later \in Maps(b..n, Positions) /\ \A l \in b..n : later[l] = Left(l, i[l] + 1)
  BY <1>5 DEF Maps
<1>10. /\ \A l \in b..(n - 1) : todo[l] = Cat(Within(st[l], todo[l + 1]), later[l])
       /\ todo[n] = Cat(One(<<st[n]>>), later[n])
  <2>1. \A l \in b..(n - 1) : l \in b..n
    BY <1>1
  <2> QED BY <1>1, <1>5, <1>8, <1>9, <2>1
<1>11. PICK rest \in Maps(b..n, Positions) :
           /\ todo[b] = Cat(One(SubSeq(st, b, n)), rest[b])
           /\ rest[n] = later[n]
           /\ \A l \in b..(n - 1) : rest[l] = Cat(Within(st[l], rest[l + 1]), later[l])
  BY <1>1, <1>4, <1>7, <1>9, <1>10, FirstPosition
<1> PICK j : j = Put(i, n, 1)
  OBVIOUS
<1>12. j \in Maps(b..n, Nat) /\ j[n] = 1 /\ \A l \in b..(n - 1) : j[l] = i[l]
  <2> DEFINE dom == b..n
  <2>1. n \in dom /\ i \in Maps(dom, Nat) /\ 1 \in Nat /\ \A l \in b..(n - 1) : l \in dom /\ l # n
    BY <1>1, <1>4
  <2> HIDE DEF dom
  <2>2. j \in Maps(dom, Nat) /\ j[n] = 1 /\ \A l \in dom : l # n => j[l] = i[l]
    BY <2>1, PutFacts
  <2> QED BY <2>1, <2>2 DEF dom
<1>13. Split(t, b)' /\ Cat(Since(t, b), rest[b])' = From(loops, b)'
  <2>0. t \in 0..Len(taken)
    BY <1>4 DEF Split
  <2> DEFINE p == SubSeq(st, b, n)
             x == [stat |-> g_stat, reg |-> reg]
  <2>1. x.stat = st
    OBVIOUS
  <2>2. /\ Since(t, b)' = Append(Since(t, b), p)
        /\ Len(taken') = Len(taken) + 1 /\ taken'[Len(taken) + 1].stat = st
        /\ \A k \in 1..Len(taken) : taken'[k] = taken[k]
    <3> HIDE DEF x
    <3> QED BY <1>0, <1>1, <1>3, <2>0, <2>1, SinceTaken DEF x
  <2>3. Since(t, b) \in Positions /\ p \in Seq(Int) /\ rest[b] \in Positions
    <3>1. p \in Seq(Int)
      <4>1. b \in 1..Len(st)
        BY <1>1, <1>7
      <4> QED BY <1>7, <4>1, EndFrom
    <3>2. rest[b] \in Positions
      BY <1>1, <1>11 DEF Maps
    <3> QED BY <1>1, <2>0, <3>1, <3>2, SinceType
  <2>4. Cat(Since(t, b), rest[b])' = From(loops, b)'
    <3> PICK s0, r0 : s0 = Since(t, b) /\ r0 = rest[b]
      OBVIOUS
    <3> HIDE DEF p
    <3>1. Cat(Append(s0, p), r0) = Cat(s0, Cat(One(p), r0))
      BY <2>3, PositionsFacts
    <3>2. Cat(s0, Cat(One(p), r0)) = From(loops, b)
      BY <1>4, <1>11 DEF p
    <3>3. Since(t, b)' = Append(s0, p) /\ rest[b]' = r0 /\ From(loops, b)' = From(loops, b)
      BY <1>0, <2>2 DEF From
    <3> QED BY <3>1, <3>2, <3>3
  <2>5. Split(t, b)'
    <3> PICK m : m = Len(taken)
      OBVIOUS
    <3>1. m \in Nat /\ t \in 0..m /\ t \in 0..(m + 1)
      BY <2>0 DEF EngineTypes, TypeOK
    <3>2. b = 2 => st[1] = m_cur[1]
      OBVIOUS
    <3>3. \A k \in 1..(m + 1) : k \in 1..m \/ (k = m + 1 /\ ~(k <= t))
      BY <3>1
    <3>4. \A k \in 1..m : b = 2 => IF k <= t THEN taken'[k].stat[1] < m_cur[1] ELSE taken'[k].stat[1] = m_cur[1]
      BY <1>4, <2>2 DEF Split
    <3>5. b = 2 => \A k \in 1..(m + 1) : IF k <= t THEN taken'[k].stat[1] < m_cur[1] ELSE taken'[k].stat[1] = m_cur[1]
      BY <2>2, <3>2, <3>3, <3>4
    <3>6. b = 1 => t = 0
      BY <1>4 DEF Split
    <3> QED BY <1>3, <2>2, <3>1, <3>5, <3>6 DEF Split
  <2> QED BY <2>4, <2>5
<1>14. \A l \in b..(n - 1) : InRun(l, j[l], rest[l], rest[l + 1])'
  <2> TAKE l \in b..(n - 1)
  <2> PICK k, a, r, v : k = j[l] /\ a = rest[l] /\ r = rest[l + 1] /\ v = Value(loops[l], k + 1)
    OBVIOUS
  <2>1. l \in b..n /\ j[l] = i[l] /\ InRun(l, k, todo[l], todo[l + 1])
    BY <1>1, <1>4, <1>12
  <2>2. a = Cat(Within(v, r), Left(l, k + 1))
    <3>1. rest[l] = Cat(Within(st[l], rest[l + 1]), later[l])
      BY <1>11
    <3>2. st[l] = v
      BY <1>5, <2>1
    <3>3. later[l] = Left(l, k + 1)
      BY <1>9, <2>1
    <3> QED BY <3>1, <3>2, <3>3
  <2>3. InRun(l, k, a, r)
    BY <2>1, <2>2 DEF InRun
  <2>4. m_cur'[l] = m_cur[l] /\ g_stat'[l] = g_stat[l]
    BY <1>0, <1>3
  <2>5. InRun(l, k, a, r)'
    BY <1>0, <2>3, <2>4, RunFrame
  <2> QED BY <2>5
<1>15. BetweenRuns(n, j[n], rest[n])'
  <2>1. rest[n] = Left(n, 1) /\ Left(n, 1)' = Left(n, 1)
    BY <1>0, <1>1, <1>6, <1>9, <1>11 DEF Left
  <2>2. CountOf(n, 1, 0)'
    <3>1. loops'[n].kind = "data"
      BY <1>0, <1>1
    <3> QED BY <3>1 DEF CountOf, Counted, Stages
  <2>3. Runs(loops'[n]) = 1
    BY <1>0, <1>6
  <2> QED BY <1>3, <1>12, <2>1, <2>2, <2>3 DEF BetweenRuns
<1>16. NestAt(b, t, j, rest)'
  <2>1. Len(loops') = n /\ level' = n /\ phase' = "test"
    BY <1>0, <1>1
  <2> QED BY <1>11, <1>12, <1>13, <1>14, <1>15, <2>1 DEF NestAt
<1> QED BY <1>16

(* A repetition and the taking of data have no position in the loop status. *)
LEMMA UnsetKept ==
    ASSUME EngineTypes, EngineMove, Unset
    PROVE  Unset'
<1>1. loops' = loops
  BY DEF EngineMove, InitLoop, ExecPart1, ExecPart2, CountIteration, EndLoop, CloseOut, vars
<1> SUFFICES ASSUME NEW l \in Levels, loops[l].kind \in {"repeater", "data"}
             PROVE  g_stat'[l] = 0
  BY <1>1 DEF Unset, Levels
<1>3. g_stat[l] = 0
  BY DEF Unset
<1>4. CASE g_stat' = g_stat
  BY <1>3, <1>4
<1>5. CASE \E d \in BOOLEAN : ExecPart1(d)
  <2>1. level \in Levels /\ (g_stat' = g_stat \/ (This.kind \notin {"repeater", "data"} /\ g_stat' = Set(g_stat, m_cur[level])))
    BY <1>5, LoopFacts DEF ExecPart1
  <2>2. CASE g_stat' = Set(g_stat, m_cur[level]) /\ This.kind \notin {"repeater", "data"}
    <3>1. l # level
      BY <2>2 DEF This
    <3> QED BY <1>3, <2>1, <2>2, <3>1, SetApply, Domains
  <2> QED BY <1>3, <2>1, <2>2
<1> QED BY <1>4, <1>5 DEF EngineMove, InitLoop, ExecPart2, CountIteration, EndLoop, CloseOut, vars

(* The loops are closed one after the other. *)
Closing ==
    /\ closed = [k \in 1..Len(closed) |-> k] /\ Len(closed) <= Len(loops)
    /\ phase = "done" => Len(closed) = Len(loops)

(* It is so at every step. *)
LEMMA ClosingKept ==
    ASSUME EngineTypes, EngineMove, Closing
    PROVE  Closing'
<1>1. Len(loops) \in Nat /\ Len(closed) \in Nat /\ closed \in Seq(Levels) /\ loops' = loops
  <2>1. loops' = loops
    BY DEF EngineMove, InitLoop, ExecPart1, ExecPart2, CountIteration, EndLoop, CloseOut, vars
  <2> QED BY <2>1, LoopFacts DEF EngineTypes, TypeOK
<1>2. CASE CloseOut
  <2>1. CASE Len(closed) < Len(loops)
    <3> PICK m : m = Len(closed)
      OBVIOUS
    <3>1. closed' = Append(closed, m + 1) /\ phase' # "done"
      BY <1>2, <2>1 DEF CloseOut
    <3>2. closed \in Seq(Levels) /\ closed = [k \in 1..m |-> k] /\ m \in Nat
      BY <1>1 DEF Closing
    <3>3. Append(closed, m + 1) = [k \in 1..(m + 1) |-> IF k = m + 1 THEN m + 1 ELSE closed[k]]
      BY <3>2
    <3>4. \A k \in 1..(m + 1) : (IF k = m + 1 THEN m + 1 ELSE closed[k]) = k
      BY <3>2
    <3>5. Append(closed, m + 1) = [k \in 1..(m + 1) |-> k]
      BY <3>3, <3>4
    <3>6. Len(closed') = m + 1
      BY <3>1, <3>2
    <3>7. m + 1 <= Len(loops)
      BY <1>1, <2>1
    <3> QED BY <1>1, <3>1, <3>5, <3>6, <3>7 DEF Closing
  <2>2. CASE ~(Len(closed) < Len(loops))
    <3>1. closed' = closed /\ Len(closed) = Len(loops)
      BY <1>1, <1>2, <2>2 DEF CloseOut, Closing
    <3> QED BY <1>1, <3>1 DEF Closing
  <2> QED BY <2>1, <2>2
<1>3. CASE closed' = closed /\ (phase' = "done" => phase = "done")
  BY <1>1, <1>3 DEF Closing
<1> QED BY <1>2, <1>3 DEF EngineMove, InitLoop, ExecPart1, ExecPart2, CountIteration, EndLoop, vars

(* A scan of regular loops: what is taken and what is left to do are the    *)
(* positions of nested for loops.                                           *)
OrderInv ==
    Nest(loops, 1) =>
        /\ Running => \E t, i, todo : NestAt(1, t, i, todo)
        /\ phase \in {"closeOut", "done"} => \E t : Split(t, 1) /\ Since(t, 1) = From(loops, 1)

(* It is so when the scan starts. *)
LEMMA OrderStart ==
    ASSUME EngineTypes, Init
    PROVE  OrderInv /\ Unset /\ Closing
<1>1. taken = <<>> /\ closed = <<>> /\ level = 1 /\ phase = IF loops = <<>> THEN "closeOut" ELSE "init"
  BY DEF Init
<1>2. Unset /\ Closing
  <2>1. \A l \in Levels : g_stat[l] = 0
    BY DEF Init, Levels
  <2>2. Len(loops) \in Nat
    BY LoopFacts
  <2>3. Len(closed) = 0 /\ closed = [k \in 1..0 |-> k] /\ phase # "done"
    BY <1>1
  <2> QED BY <2>1, <2>2, <2>3 DEF Unset, Closing
<1>3. ASSUME Nest(loops, 1)
      PROVE  phase = "init" /\ \E t, i, todo : NestAt(1, t, i, todo)
  <2> PICK n, fr : n = Len(loops) /\ fr = From(loops, 1)
    OBVIOUS
  <2>1. n \in Nat /\ 1 <= n /\ fr \in Positions
    <3>1. n \in Nat /\ 1 <= n
      BY <1>3, NestFacts
    <3>2. 1 \in 1..(Len(loops) + 1)
      BY <3>1
    <3> QED BY <1>3, <3>1, <3>2, LeftFacts
  <2>2. phase = "init"
    BY <1>1, <2>1
  <2> PICK i, todo : i = [l \in 1..n |-> 0] /\ todo = [l \in 1..n |-> fr]
    OBVIOUS
  <2>3. i \in Maps(1..n, Nat) /\ todo \in Maps(1..n, Positions) /\ todo[1] = fr
    BY <2>1 DEF Maps
  <2>4. Len(taken) = 0 /\ Split(0, 1)
    BY <1>1 DEF Split
  <2>5. Since(0, 1) = <<>>
    BY <2>4 DEF Since
  <2>6. Cat(Since(0, 1), todo[1]) = From(loops, 1)
    BY <2>1, <2>3, <2>5, PositionsFacts
  <2>7. NestAt(1, 0, i, todo)
    BY <1>1, <2>2, <2>3, <2>4, <2>6 DEF NestAt
  <2> QED BY <2>2, <2>7
<1>4. OrderInv
  BY <1>3 DEF OrderInv
<1> QED BY <1>2, <1>4

(* And it stays so. *)
LEMMA OrderKept ==
    ASSUME EngineTypes, ExecutingInv, EngineMove, Unset, OrderInv
    PROVE  OrderInv'
<1>1. loops' = loops
  BY DEF EngineMove, InitLoop, ExecPart1, ExecPart2, CountIteration, EndLoop, CloseOut, vars
<1>2. SUFFICES ASSUME Nest(loops, 1)
               PROVE  \/ Running' /\ \E t, i, todo : NestAt(1, t, i, todo)'
                      \/ phase' \in {"closeOut", "done"}
                            /\ \E t : (Split(t, 1) /\ Since(t, 1) = From(loops, 1))'
  BY <1>1 DEF OrderInv, Running
<1>3. CASE Running
  <2>1. PICK t, i, todo : NestAt(1, t, i, todo)
    BY <1>2, <1>3 DEF OrderInv
  <2>2. level \in Nat /\ level >= 1 /\ This.kind \notin Feedbacks
    BY <1>2, <1>3, LoopFacts, AtHand DEF Running
  <2>3. CASE InitLoop
    <3>1. \E j : NestAt(1, t, j, todo)'
      BY <1>2, <2>1, <2>2, <2>3, NestInit
    <3> QED BY <2>3, <3>1 DEF InitLoop, Running
  <2>4. ASSUME NEW d \in BOOLEAN, ExecPart1(d) PROVE Running' /\ \E x, j, rest : NestAt(1, x, j, rest)'
    <3>1. \E rest : NestAt(1, t, i, rest)'
      BY <1>2, <2>1, <2>2, <2>4, NestPart1
    <3> QED BY <2>4, <3>1 DEF ExecPart1, Running
  <2>5. CASE ExecPart2
    <3>1. CASE This.kind = "data"
      <4>1. \E j, rest : NestAt(1, t, j, rest)'
        BY <1>2, <2>1, <2>2, <2>5, <3>1, NestData
      <4> QED BY <2>5, <4>1 DEF ExecPart2, Running
    <3>2. CASE This.kind # "data"
      <4>1. \E j : NestAt(1, t, j, todo)'
        BY <1>2, <2>1, <2>2, <2>5, <3>2, NestPart2
      <4> QED BY <2>5, <4>1 DEF ExecPart2, Running
    <3> QED BY <3>1, <3>2
  <2>6. CASE EndLoop
    <3>1. /\ level > 1 => NestAt(1, t, i, todo)'
          /\ level = 1 => (Split(t, 1) /\ Since(t, 1) = From(loops, 1))'
      BY <1>2, <2>1, <2>2, <2>6, NestEnd
    <3>2. level > 1 => phase' = "part2"
      BY <2>6 DEF EndLoop
    <3>3. level = 1 => phase' = "closeOut"
      BY <2>6 DEF EndLoop
    <3> QED BY <2>2, <3>1, <3>2, <3>3 DEF Running
  <2>7. CASE UNCHANGED vars
    <3>1. NestAt(1, t, i, todo)' /\ Running'
      BY <1>3, <2>1, <2>7 DEF vars, NestAt, Running, Split, Since, InRun, BetweenRuns, CountOf, Left
    <3> QED BY <3>1
  <2>8. ~CountIteration /\ ~CloseOut
    BY <1>3, <2>2 DEF CountIteration, CloseOut, Running
  <2> QED BY <2>3, <2>4, <2>5, <2>6, <2>7, <2>8 DEF EngineMove
<1>4. CASE ~Running
  <2>1. phase \in {"closeOut", "done"}
    BY <1>4 DEF Running, EngineTypes, TypeOK
  <2>2. PICK t : Split(t, 1) /\ Since(t, 1) = From(loops, 1)
    BY <1>2, <2>1 DEF OrderInv
  <2>3. taken' = taken /\ phase' \in {"closeOut", "done"}
    BY <2>1 DEF EngineMove, InitLoop, ExecPart1, ExecPart2, CountIteration, EndLoop, CloseOut, vars
  <2>4. (Split(t, 1) /\ Since(t, 1) = From(loops, 1))'
    BY <1>1, <2>2, <2>3, SinceFrame
  <2> QED BY <2>3, <2>4
<1> QED BY <1>3, <1>4

(* In a scan whose loops do not run over, data are taken at the positions   *)
(* and in the order of nested for loops, and all of them by its end; every  *)
(* scan that ends has closed each of its loops once, in order.              *)
THEOREM DataInOrder == TuningSpec => []NestedOrder
<1> DEFINE J == OrderInv /\ Unset /\ Closing
<1>1. TuningInit => J
  BY InvStart, OrderStart DEF TuningInit, TuningInv, Types
<1>2. TuningInv /\ J /\ [TuningNext]_tuningVars => J'
  <2> SUFFICES ASSUME TuningInv, J, [TuningNext]_tuningVars PROVE J'
    OBVIOUS
  <2>1. EngineTypes /\ ExecutingInv
    BY DEF TuningInv, Types
  <2>2. EngineMove
    BY <2>1, StepIsMove
  <2> QED BY <2>1, <2>2, OrderKept, UnsetKept, ClosingKept
<1>3. TuningInv /\ J => NestedOrder
  <2> SUFFICES ASSUME TuningInv, J PROVE NestedOrder
    OBVIOUS
  <2>1. EngineTypes /\ OrderInv /\ Closing
    BY DEF TuningInv, Types
  <2>2. phase = "done" => closed = [i \in DOMAIN loops |-> i]
    BY <2>1, LoopFacts DEF Closing, Levels
  <2>3. ASSUME RegularFrom(loops, 1)
        PROVE  LET want == Nested(loops)[Len(loops)]
               IN  /\ Len(taken) <= Len(want)
                   /\ \A k \in DOMAIN taken : taken[k].stat = want[k]
                   /\ (phase = "done") => Len(taken) = Len(want)
    <3> DEFINE want == Nested(loops)[Len(loops)]
               have == Since(0, 1)
    <3>0. Nest(loops, 1)
      BY <2>3 DEF Nest
    <3>1. Len(loops) \in Nat /\ 1 <= Len(loops) /\ From(loops, 1) = want /\ want \in Positions
      <4>1. Len(loops) \in Nat /\ 1 <= Len(loops)
        BY <2>1, <3>0, NestFacts
      <4>2. 1 \in 1..(Len(loops) + 1)
        BY <4>1
      <4>3. From(loops, 1) = want
        BY <4>1, FromFacts
      <4>4. From(loops, 1) \in Positions
        BY <2>1, <3>0, <4>2, LeftFacts
      <4> QED BY <4>1, <4>3, <4>4
    <3>2. have \in Positions /\ Len(have) = Len(taken) /\ Len(taken) \in Nat /\ DOMAIN taken = 1..Len(taken)
      <4>1. Len(taken) \in Nat /\ 0 \in 0..Len(taken) /\ 1 \in 1..2 /\ DOMAIN taken = 1..Len(taken)
        BY <2>1, TakenStat
      <4>2. ASSUME NEW t, t = 0 PROVE Since(t, 1) \in Positions /\ Len(Since(t, 1)) = Len(taken) - t
        BY <2>1, <3>1, <4>1, <4>2, SinceType
      <4>3. have \in Positions /\ Len(have) = Len(taken) - 0
        BY <4>2
      <4> QED BY <4>1, <4>3
    <3>3. ASSUME NEW k \in 1..Len(taken) PROVE have[k] = taken[k].stat
      <4>1. taken[k].stat \in [1..Len(loops) -> Int]
        BY <2>1, TakenStat
      <4> DEFINE st == taken[k].stat
      <4> HIDE DEF st
      <4>2. st \in Seq(Int) /\ Len(st) = Len(loops) /\ 1 \in 1..Len(st)
        BY <3>1, <4>1 DEF st
      <4>3. SubSeq(st, 1, Len(st)) = st
        BY <4>2, EndFrom
      <4>4. have[k] = SubSeq(taken[0 + k].stat, 1, Len(loops)) /\ 0 + k = k
        BY <3>2 DEF Since
      <4> QED BY <4>2, <4>3, <4>4 DEF st
    <3>4. \E rest \in Positions : want = Cat(have, rest) /\ (phase = "done" => rest = <<>>)
      <4>1. CASE Running
        <5>1. PICK t, i, todo : NestAt(1, t, i, todo)
          BY <2>1, <3>0, <4>1 DEF OrderInv
        <5>2. t = 0 /\ todo \in Maps(1..Len(loops), Positions) /\ Cat(have, todo[1]) = want
          BY <3>1, <5>1 DEF NestAt, Split
        <5>3. todo[1] \in Positions
          BY <3>1, <5>2 DEF Maps
        <5> QED BY <4>1, <5>2, <5>3 DEF Running
      <4>2. CASE ~Running
        <5>1. phase \in {"closeOut", "done"}
          BY <4>2, <2>1 DEF Running, EngineTypes, TypeOK
        <5>2. have = want
          BY <2>1, <3>0, <3>1, <5>1 DEF OrderInv, Split
        <5> QED BY <3>2, <5>2, PositionsFacts
      <4> QED BY <4>1, <4>2
    <3>5. PICK rest \in Positions : want = Cat(have, rest) /\ (phase = "done" => rest = <<>>)
      BY <3>4
    <3> HIDE DEF have, want
    <3>6. /\ Len(want) = Len(have) + Len(rest) /\ Len(rest) \in Nat /\ (rest = <<>> => Len(rest) = 0)
          /\ \A k \in 1..Len(have) : want[k] = have[k]
      <4>1. have \in Seq(Seq(Int)) /\ rest \in Seq(Seq(Int)) /\ want = have \o rest
        BY <3>2, <3>5 DEF Positions, Cat
      <4> QED BY <4>1
    <3>7. /\ Len(taken) <= Len(want)
          /\ \A k \in DOMAIN taken : taken[k].stat = want[k]
          /\ (phase = "done") => Len(taken) = Len(want)
      BY <3>2, <3>3, <3>5, <3>6
    <3> QED BY <3>7 DEF want
  <2> QED BY <2>2, <2>3 DEF NestedOrder
<1> QED BY <1>1, <1>2, <1>3, TuningInvariant, PTL DEF TuningSpec

----------------------------------------------------------------------------
(* An iteration of the outermost loop is on. *)
Taking == Running /\ (level > 1 \/ phase = "part2")

(* The feedback loop around a nest: in an iteration the positions of the    *)
(* nest are taken, and before and after it none carries its number.         *)
TuneInv ==
    Nest(loops, 2) =>
        /\ (Running /\ level > 1) => \E t, i, todo : NestAt(2, t, i, todo)
        /\ (level = 1 /\ phase = "part2") => \E t : Split(t, 2) /\ Since(t, 2) = From(loops, 2)
        /\ (level = 1 /\ phase = "init") => taken = <<>> /\ m_cur[1] = 0
        /\ (phase \in {"closeOut", "done"} \/ (level = 1 /\ phase = "test")) => Split(Len(taken), 2)
        /\ Taking => g_stat[1] = m_cur[1]

(* With no data taken there is nothing to split. *)
LEMMA SplitNone ==
    ASSUME taken = <<>>
    PROVE  Split(Len(taken), 2)
BY DEF Split

(* It is so when the scan starts. *)
LEMMA TuneStart ==
    ASSUME EngineTypes, Init
    PROVE  TuneInv
<1>1. taken = <<>> /\ level = 1 /\ phase = IF loops = <<>> THEN "closeOut" ELSE "init"
  BY DEF Init
<1>2. Nest(loops, 2) => phase = "init" /\ m_cur[1] = 0
  <2>1. Nest(loops, 2) => Len(loops) \in Nat /\ 2 <= Len(loops) /\ Levels = 1..Len(loops)
    BY NestFacts
  <2>2. Nest(loops, 2) => 1 \in Levels
    BY <2>1
  <2> QED BY <1>1, <2>1, <2>2 DEF Init, Levels
<1> QED BY <1>1, <1>2 DEF TuneInv, Taking

(* At the end of an iteration all of its data were taken before. *)
LEMMA SplitAfter ==
    ASSUME EngineTypes, 1 \in Levels, NEW t, Split(t, 2), taken' = taken, m_cur'[1] = m_cur[1] + 1
    PROVE  Split(Len(taken), 2)'
<1>1. Len(taken) \in Nat /\ \A k \in 1..Len(taken) : taken[k].stat[1] \in Int
  <2>1. Len(taken) \in Nat /\ \A k \in 1..Len(taken) : taken[k].stat \in [1..Len(loops) -> Int]
    BY TakenStat
  <2>2. 1 \in 1..Len(loops)
    BY LoopFacts
  <2> QED BY <2>1, <2>2
<1>2. m_cur[1] \in Int
  BY DEF EngineTypes, TypeOK
<1>3. ASSUME NEW k \in 1..Len(taken) PROVE taken[k].stat[1] < m_cur[1] + 1 /\ k <= Len(taken)
  <2>1. IF k <= t THEN taken[k].stat[1] < m_cur[1] ELSE taken[k].stat[1] = m_cur[1]
    BY DEF Split
  <2>2. taken[k].stat[1] \in Int
    BY <1>1
  <2> QED BY <1>1, <1>2, <2>1, <2>2
<1> QED BY <1>1, <1>3 DEF Split

(* The loops inside a feedback loop, and the feedback loop itself. *)
LEMMA TuneKept ==
    ASSUME EngineTypes, ExecutingInv, EngineMove, Unset, TuneInv
    PROVE  TuneInv'
<1>1. loops' = loops
  BY DEF EngineMove, InitLoop, ExecPart1, ExecPart2, CountIteration, EndLoop, CloseOut, vars
<1>2. SUFFICES ASSUME Nest(loops, 2)
               PROVE  TuneInv'
  BY <1>1 DEF TuneInv
<1>3. /\ Len(loops) \in Nat /\ 2 <= Len(loops) /\ Levels = 1..Len(loops) /\ 1 \in Levels
      /\ loops[1].kind \in Feedbacks /\ level \in Nat /\ loops # <<>>
  <2>1. Len(loops) \in Nat /\ 2 <= Len(loops) /\ Levels = 1..Len(loops) /\ loops[1].kind \in Feedbacks
    BY <1>2, NestFacts
  <2> QED BY <2>1, LoopFacts
<1>4. Running => level \in Levels /\ level >= 1
  BY <1>3, LoopFacts DEF Running
<1>5. CASE Running /\ level > 1
  <2>1. PICK t, i, todo : NestAt(2, t, i, todo)
    BY <1>2, <1>5 DEF TuneInv
  <2>2. level >= 2 /\ level # 1 /\ level \in Levels /\ This.kind \notin Feedbacks /\ g_stat[1] = m_cur[1]
    <3>1. level >= 2 /\ level # 1 /\ level \in Levels
      BY <1>3, <1>4, <1>5
    <3>2. This.kind \notin Feedbacks
      BY <1>2, <1>5, <3>1, AtHand
    <3> QED BY <1>2, <1>5, <3>1, <3>2 DEF TuneInv, Taking
  <2>3. \A x : Set(m_cur, x)[1] = m_cur[1] /\ Set(g_stat, x)[1] = g_stat[1]
    BY <1>3, <2>2, SetApply, Domains
  <2>4. (m_cur' = m_cur \/ \E x : m_cur' = Set(m_cur, x)) /\ (g_stat' = g_stat \/ \E x : g_stat' = Set(g_stat, x))
    <3>1. ~CountIteration /\ ~CloseOut
      BY <1>5, <2>2 DEF CountIteration, CloseOut, Running
    <3> QED BY <3>1 DEF EngineMove, InitLoop, ExecPart1, ExecPart2, ParameterPart2, RepeaterPart2, MaskPart2, DataPart2, EndLoop, vars
  <2>5. g_stat'[1] = m_cur'[1]
    BY <2>2, <2>3, <2>4
  <2>6. CASE InitLoop
    <3>1. \E j : NestAt(2, t, j, todo)'
      BY <1>2, <2>1, <2>2, <2>6, NestInit
    <3>2. level' = level /\ phase' = "test"
      BY <2>6 DEF InitLoop
    <3> QED BY <2>2, <2>5, <3>1, <3>2 DEF TuneInv
  <2>7. ASSUME NEW d \in BOOLEAN, ExecPart1(d) PROVE TuneInv'
    <3>1. \E rest : NestAt(2, t, i, rest)'
      BY <1>2, <2>1, <2>2, <2>7, NestPart1
    <3>2. level' # 1 /\ phase' \in {"init", "part2"}
      BY <1>3, <2>2, <2>7 DEF ExecPart1
    <3> QED BY <2>5, <3>1, <3>2 DEF TuneInv
  <2>8. CASE ExecPart2
    <3>1. level' # 1 /\ phase' = "test"
      BY <2>2, <2>8 DEF ExecPart2
    <3>2. CASE This.kind = "data"
      <4>1. \E j, rest : NestAt(2, t, j, rest)'
        BY <1>2, <2>1, <2>2, <2>8, <3>2, NestData
      <4> QED BY <2>5, <3>1, <4>1 DEF TuneInv
    <3>3. CASE This.kind # "data"
      <4>1. \E j : NestAt(2, t, j, todo)'
        BY <1>2, <2>1, <2>2, <2>8, <3>3, NestPart2
      <4> QED BY <2>5, <3>1, <4>1 DEF TuneInv
    <3> QED BY <3>2, <3>3
  <2>9. CASE EndLoop
    <3>1. /\ level > 2 => NestAt(2, t, i, todo)'
          /\ level = 2 => (Split(t, 2) /\ Since(t, 2) = From(loops, 2))'
      BY <1>2, <2>1, <2>2, <2>9, NestEnd
    <3>2. phase' = "part2" /\ level' = level - 1
      BY <2>9, <1>5 DEF EndLoop
    <3>3. CASE level > 2
      <4>1. level' > 1 /\ level' # 1
        BY <1>3, <3>2, <3>3
      <4> QED BY <2>5, <3>1, <3>2, <3>3, <4>1 DEF TuneInv
    <3>4. CASE level = 2
      <4>1. level' = 1
        BY <3>2, <3>4
      <4> QED BY <2>5, <3>1, <3>2, <3>4, <4>1 DEF TuneInv
    <3> QED BY <1>3, <2>2, <3>3, <3>4
  <2>10. CASE UNCHANGED vars
    <3>1. NestAt(2, t, i, todo)' /\ level' # 1 /\ phase' \notin {"closeOut", "done"}
      BY <1>5, <2>1, <2>2, <2>10 DEF vars, NestAt, Running, Split, Since, InRun, BetweenRuns, CountOf, Left
    <3> QED BY <2>5, <3>1 DEF TuneInv
  <2>11. ~CountIteration /\ ~CloseOut
    BY <1>5, <2>2 DEF CountIteration, CloseOut, Running
  <2> QED BY <2>6, <2>7, <2>8, <2>9, <2>10, <2>11 DEF EngineMove
<1>6. CASE Running /\ ~(level > 1)
  <2>1. level = 1 /\ This = loops[1] /\ This.kind \in Feedbacks /\ level \in Levels
    BY <1>3, <1>4, <1>6 DEF This
  <2>2. CASE InitLoop
    <3>1. taken = <<>> /\ taken' = <<>>
      BY <1>2, <2>1, <2>2 DEF TuneInv, InitLoop
    <3>2. level' = 1 /\ phase' = "test" /\ Split(Len(taken), 2)'
      BY <2>1, <2>2, <3>1 DEF InitLoop, Split
    <3> QED BY <3>2 DEF TuneInv, Taking
  <2>3. ASSUME NEW d \in BOOLEAN, ExecPart1(d) PROVE TuneInv'
    <3>1. level' = 2 /\ phase' = "init" /\ taken' = taken /\ phase = "test"
      BY <1>3, <2>1, <2>3 DEF ExecPart1
    <3>2. m_cur' = m_cur /\ g_stat' = Set(g_stat, m_cur[1])
      BY <2>1, <2>3 DEF ExecPart1, Feedbacks
    <3>3. g_stat'[1] = m_cur'[1]
      BY <1>3, <2>1, <3>2, SetApply, Domains
    <3> PICK t, n, fr : t = Len(taken) /\ n = Len(loops) /\ fr = From(loops, 2)
      OBVIOUS
    <3>4. Split(t, 2)
      BY <1>2, <2>1, <3>1 DEF TuneInv
    <3>5. Split(t, 2)' /\ Since(t, 2)' = Since(t, 2) /\ From(loops, 2)' = fr
      BY <1>1, <3>1, <3>2, <3>4, SinceFrame
    <3>6. fr \in Positions
      <4>1. 2 \in 2..(Len(loops) + 1)
        BY <1>3
      <4> QED BY <1>2, <4>1, LeftFacts
    <3>7. Since(t, 2) = <<>>
      <4>1. Len(taken) \in Nat /\ Len(taken) - t = 0
        BY TakenStat
      <4> QED BY <4>1 DEF Since
    <3> PICK i, todo : i = [l \in 2..n |-> 0] /\ todo = [l \in 2..n |-> fr]
      OBVIOUS
    <3>8. i \in Maps(2..n, Nat) /\ todo \in Maps(2..n, Positions) /\ todo[2] = fr
      BY <1>3, <3>6 DEF Maps
    <3>9. Cat(Since(t, 2), todo[2])' = From(loops, 2)'
      BY <3>5, <3>6, <3>7, <3>8, PositionsFacts
    <3>10. \A l \in 2..(level' - 1) : FALSE
      BY <3>1
    <3>11. NestAt(2, t, i, todo)'
      BY <1>1, <3>1, <3>5, <3>8, <3>9, <3>10 DEF NestAt
    <3> QED BY <3>1, <3>3, <3>11 DEF TuneInv
  <2>4. CASE CountIteration
    <3>1. level' = 1 /\ phase' = "test" /\ taken' = taken /\ m_cur'[1] = m_cur[1] + 1 /\ phase = "part2"
      BY <1>3, <2>1, <2>4, SetApply, Domains DEF CountIteration
    <3>2. PICK t : Split(t, 2)
      BY <1>2, <2>1, <3>1 DEF TuneInv
    <3>3. Split(Len(taken), 2)'
      BY <1>3, <3>1, <3>2, SplitAfter
    <3> QED BY <3>1, <3>3 DEF TuneInv, Taking
  <2>5. CASE EndLoop
    <3>1. phase' = "closeOut" /\ taken' = taken /\ m_cur' = m_cur /\ phase = "test"
      BY <2>1, <2>5 DEF EndLoop, Feedbacks
    <3>2. Split(Len(taken), 2)
      BY <1>2, <2>1, <3>1 DEF TuneInv
    <3>3. Split(Len(taken), 2)'
      BY <3>1, <3>2 DEF Split
    <3> QED BY <3>1, <3>3 DEF TuneInv, Taking, Running
  <2>6. CASE UNCHANGED vars
    <3>1. CASE phase = "part2"
      <4>1. PICK t : Split(t, 2) /\ Since(t, 2) = From(loops, 2)
        BY <1>2, <2>1, <3>1 DEF TuneInv
      <4>2. (Split(t, 2) /\ Since(t, 2) = From(loops, 2))'
        BY <4>1, <2>6 DEF vars, Split, Since, From
      <4>3. level' = 1 /\ phase' = "part2" /\ g_stat'[1] = m_cur'[1]
        BY <1>2, <1>6, <2>1, <2>6, <3>1 DEF vars, TuneInv, Taking
      <4> QED BY <4>2, <4>3 DEF TuneInv
    <3>2. CASE phase \in {"init", "test"}
      <4>1. level' = 1 /\ phase' = phase /\ taken' = taken /\ m_cur' = m_cur
        BY <2>1, <2>6 DEF vars
      <4>2. phase = "init" => taken = <<>> /\ m_cur[1] = 0
        BY <1>2, <2>1 DEF TuneInv
      <4>3. phase = "test" => Split(Len(taken), 2)
        BY <1>2, <2>1 DEF TuneInv
      <4>4. phase = "test" => Split(Len(taken), 2)'
        BY <4>1, <4>3 DEF Split
      <4> QED BY <3>2, <4>1, <4>2, <4>4 DEF TuneInv, Taking
    <3> QED BY <1>6, <3>1, <3>2 DEF Running
  <2>7. ~ExecPart2 /\ ~CloseOut
    BY <1>6, <2>1 DEF ExecPart2, CloseOut, Running, Feedbacks, Stages
  <2> QED BY <2>2, <2>3, <2>4, <2>5, <2>6, <2>7 DEF EngineMove
<1>7. CASE ~Running
  <2>1. phase \in {"closeOut", "done"}
    BY <1>7 DEF Running, EngineTypes, TypeOK
  <2>2. taken' = taken /\ m_cur' = m_cur /\ phase' \in {"closeOut", "done"}
    BY <2>1 DEF EngineMove, InitLoop, ExecPart1, ExecPart2, CountIteration, EndLoop, CloseOut, vars
  <2>3. Split(Len(taken), 2)
    BY <1>2, <2>1 DEF TuneInv
  <2>4. Split(Len(taken), 2)'
    BY <2>2, <2>3 DEF Split
  <2> QED BY <2>2, <2>4 DEF TuneInv, Taking, Running
<1> QED BY <1>5, <1>6, <1>7


----------------------------------------------------------------------------
(* What a loop has left is as many positions as it has runs left, times     *)
(* those inside it.                                                         *)
LEMMA LaterLen ==
    ASSUME NEW l \in LoopType, Regular(l), NEW s \in Positions
    PROVE  Len(Block(l, s)) = Runs(l) * Len(s)
<1> DEFINE n == Runs(l)
           m == Len(s)
           L(i) == Later(l, s, i)
           T == {k \in Nat : k <= n => Len(L(n - k)) = k * m}
<1>1. /\ n \in Nat \ {0} /\ m \in Nat
      /\ \A i \in Nat : Value(l, i) \in Int
      /\ \A i \in 0..n : L(i) \in Positions
      /\ L(0) = Block(l, s) /\ L(n) = <<>>
      /\ \A i \in 0..(n - 1) : L(i) = Cat(Within(Value(l, i + 1), s), L(i + 1))
  <2>1. n \in Nat \ {0} /\ \A i \in Nat : Value(l, i) \in Int
    BY RunFacts
  <2>2. m \in Nat
    BY DEF Positions
  <2> QED BY <2>1, <2>2, LaterFacts
<1> HIDE DEF n, m, L
<1>2. 0 \in T
  <2>1. n - 0 = n /\ 0 * m = 0 /\ Len(L(n)) = 0
    BY <1>1
  <2> QED BY <2>1
<1>3. ASSUME NEW k \in Nat, k \in T PROVE k + 1 \in T
  <2> SUFFICES ASSUME k + 1 <= n PROVE Len(L(n - (k + 1))) = (k + 1) * m
    OBVIOUS
  <2> PICK i : i = n - (k + 1)
    OBVIOUS
  <2>1. i \in 0..(n - 1) /\ i + 1 = n - k /\ i + 1 \in 0..n /\ i + 1 \in Nat /\ k <= n
    BY <1>1
  <2>2. Len(L(i + 1)) = k * m
    BY <1>3, <2>1
  <2> DEFINE w == Within(Value(l, i + 1), s)
             r == L(i + 1)
  <2>3. w \in Positions /\ Len(w) = m
    <3>1. Value(l, i + 1) \in Int
      BY <1>1, <2>1
    <3> QED BY <3>1, WithinType DEF m
  <2>4. r \in Positions /\ L(i) = Cat(w, r)
    BY <1>1, <2>1
  <2> HIDE DEF w, r
  <2>5. Len(Cat(w, r)) = Len(w) + Len(r)
    <3> PICK S : S = Seq(Int)
      OBVIOUS
    <3>1. w \in Seq(S) /\ r \in Seq(S)
      BY <2>3, <2>4 DEF Positions
    <3>2. Len(w \o r) = Len(w) + Len(r)
      BY <3>1, ConcatProperties
    <3> QED BY <3>2 DEF Cat
  <2>6. k * m + m = (k + 1) * m /\ k * m \in Nat
    BY <1>1
  <2>7. Len(r) = k * m
    BY <2>2 DEF r
  <2> QED BY <1>1, <2>3, <2>4, <2>5, <2>6, <2>7
<1> HIDE DEF T
<1>4. Nat \subseteq T
  BY <1>2, <1>3, NatAll
<1>5. n \in T /\ n - n = 0 /\ n \in Nat
  BY <1>1, <1>4
<1>6. Len(L(0)) = n * m
  BY <1>5 DEF T
<1> QED BY <1>1, <1>6 DEF n, m

(* A multiple of a step. *)
LEMMA MultipleFacts ==
    ASSUME NEW x \in Nat \ {0}, NEW s \in Nat \ {0}, x % s = 0
    PROVE  x \div s \in Nat \ {0} /\ (x - 1) \div s + 1 = x \div s
<1> PICK q, r : q = x \div s /\ r = (x - 1) \div s
  OBVIOUS
<1>1. q \in Nat /\ x = q * s
  OBVIOUS
<1>2. r \in Nat /\ r * s <= x - 1 /\ x - 1 < r * s + s
  <2>1. x - 1 \in Nat
    OBVIOUS
  <2> QED BY <2>1, DivFacts
<1>3. q # 0
  <2>1. 0 * s = 0
    OBVIOUS
  <2> QED BY <1>1, <2>1
<1>4. r < q
  <2>1. CASE q <= r
    <3>1. q * s <= r * s
      BY <1>1, <1>2, <2>1, Multiples
    <3> QED BY <1>1, <1>2, <3>1
  <2> QED BY <1>1, <1>2, <2>1
<1>5. ~(r + 1 < q)
  <2> SUFFICES ASSUME r + 1 < q PROVE FALSE
    OBVIOUS
  <2>1. q * s >= (r + 1) * s + s /\ (r + 1) * s = r * s + s
    BY <1>1, <1>2, Multiples
  <2> QED BY <1>1, <1>2, <2>1
<1> QED BY <1>1, <1>2, <1>3, <1>4, <1>5

(* The analysis counts such a loop as often as it runs. *)
LEMMA EvenCount ==
    ASSUME NEW l \in LoopType, Regular(l), Even(l)
    PROVE  Count(l) = Runs(l) /\ Runs(l) \in Nat \ {0}
<1> DEFINE d == l.max - l.min
<1>1. l.min \in Int /\ l.max \in Int /\ l.step \in Nat \ {0} /\ d \in Int /\ WordSize \in Nat /\ WordSize \div 2 \in Nat
      /\ 2 * (WordSize \div 2) <= WordSize /\ WordSize > 1
  BY LoopEngineAssumption DEF LoopType
<1>2. Adds(l) /\ Runs(l) \in Nat \ {0}
  BY RunFacts DEF Even
<1>3. ASSUME d \in Nat, d < WordSize PROVE Unsigned(l.max - l.min) = d
  BY <1>1, <1>3 DEF Unsigned
<1>4. CASE l.kind = "data"
  <2>1. d = 0 /\ Runs(l) = 1
    BY <1>1, <1>4 DEF Even, Runs
  <2>2. 0 \div l.step = 0
    BY <1>1
  <2> QED BY <1>1, <1>2, <1>3, <2>1, <2>2 DEF Count
<1>5. CASE l.kind = "repeater"
  <2>1. l.step = 1 /\ d < WordSize /\ l.min < l.max /\ Runs(l) = d
    BY <1>5 DEF Even, Regular, Runs, Stages
  <2>2. d \in Nat \ {0} /\ d \div 1 = d
    BY <1>1, <2>1
  <2> HIDE DEF d
  <2> QED BY <1>2, <1>3, <2>1, <2>2 DEF Count
<1>6. CASE l.kind \in Stages
  <2>1. l.kind \notin {"data", "repeater", "parameter"}
    BY <1>6 DEF Stages
  <2>2. l.min < l.max /\ d % l.step = 0
    BY <2>1 DEF Even
  <2>3. -(WordSize \div 2) <= l.min /\ Final(l) = l.max - 1 /\ Final(l) + l.step < WordSize \div 2
    BY <1>6, <2>1 DEF Regular, Final
  <2>4. d \in Nat \ {0} /\ d < WordSize
    BY <1>1, <2>2, <2>3
  <2>5. Runs(l) = (d - 1) \div l.step + 1
    <3>1. ~(Final(l) < l.min) /\ Final(l) - l.min = d - 1
      BY <1>1, <2>2, <2>3
    <3> QED BY <2>1, <3>1 DEF Runs
  <2> HIDE DEF d
  <2>6. d \div l.step \in Nat \ {0} /\ (d - 1) \div l.step + 1 = d \div l.step
    BY <1>1, <2>2, <2>4, MultipleFacts
  <2> QED BY <1>2, <1>3, <2>4, <2>5, <2>6 DEF Count
<1> QED BY <1>2, <1>4, <1>5, <1>6 DEF Adds


(* The function NCount multiplies up, as far as the first n loops. *)
IsProduct(g, n) == g = [l \in 0..n |-> IF l = 0 THEN 1 ELSE g[l - 1] * Count(loops[l])]

(* The product of n_count is defined for any number of loops. *)
LEMMA ProductsExist == \A n \in Nat : \E g : IsProduct(g, n)
<1> DEFINE T == {n \in Nat : \E g : IsProduct(g, n)}
           Then(k, o) == o * Count(loops[k])
<1>1. \A g, n : IsProduct(g, n) <=> g = [k \in 0..n |-> IF k = 0 THEN 1 ELSE Then(k, g[k - 1])]
  BY DEF IsProduct
<1> HIDE DEF Then
<1>2. 0 \in T
  <2> DEFINE g == [k \in 0..0 |-> 1]
  <2>1. g = [k \in 0..0 |-> IF k = 0 THEN 1 ELSE Then(k, g[k - 1])]
    <3>1. \A k \in 0..0 : k = 0
      OBVIOUS
    <3> QED BY <3>1
  <2> HIDE DEF g
  <2>2. IsProduct(g, 0)
    BY <1>1, <2>1
  <2> QED BY <2>2
<1>3. ASSUME NEW n \in Nat, n \in T PROVE n + 1 \in T
  <2>1. PICK g : IsProduct(g, n)
    BY <1>3
  <2>2. \A k \in 0..n : g[k] = IF k = 0 THEN 1 ELSE Then(k, g[k - 1])
    <3>1. g = [k \in 0..n |-> IF k = 0 THEN 1 ELSE Then(k, g[k - 1])]
      BY <1>1, <2>1
    <3> QED BY <3>1
  <2> DEFINE last == Then(n + 1, g[n])
             h == [k \in 0..(n + 1) |-> IF k = n + 1 THEN last ELSE g[k]]
  <2>3. h[n + 1] = last /\ \A k \in 0..n : h[k] = g[k]
    <3>1. n + 1 \in 0..(n + 1) /\ \A k \in 0..n : k \in 0..(n + 1) /\ k # n + 1
      OBVIOUS
    <3> HIDE DEF last
    <3> QED BY <3>1
  <2>4. h = [k \in 0..(n + 1) |-> h[k]]
    OBVIOUS
  <2> HIDE DEF h
  <2>5. ASSUME NEW k \in 0..(n + 1) PROVE h[k] = IF k = 0 THEN 1 ELSE Then(k, h[k - 1])
    <3>1. CASE k = n + 1
      <4>1. k # 0 /\ k - 1 = n /\ n \in 0..n
        BY <3>1
      <4> QED BY <2>3, <3>1, <4>1
    <3>2. CASE k # n + 1
      <4>1. k \in 0..n /\ (k # 0 => k - 1 \in 0..n)
        BY <3>2
      <4> QED BY <2>2, <2>3, <4>1
    <3> QED BY <3>1, <3>2
  <2>6. h = [k \in 0..(n + 1) |-> IF k = 0 THEN 1 ELSE Then(k, h[k - 1])]
    BY <2>4, <2>5
  <2>7. IsProduct(h, n + 1)
    BY <1>1, <2>6
  <2> QED BY <2>7
<1> HIDE DEF T
<1>4. Nat \subseteq T
  BY <1>2, <1>3, NatAll
<1> QED BY <1>4 DEF T

(* An analysis of such a tuning expects the data of one iteration. *)
LEMMA CountOfIteration ==
    ASSUME EngineTypes, EvenTuning
    PROVE  Nest(loops, 2) /\ NCount = Len(From(loops, 2)) /\ NCount \in Nat \ {0}
<1> PICK n, N : n = Len(loops) /\ N = Len(From(loops, 2))
  OBVIOUS
<1>1. Nest(loops, 2)
  BY DEF EvenTuning, Nest
<1>2. /\ n \in Nat /\ 2 <= n
      /\ \A l \in 2..n : loops[l] \in LoopType /\ Regular(loops[l])
      /\ loops[1].kind \in Feedbacks
  BY <1>1, NestFacts
<1>3. \A l \in 2..n : Count(loops[l]) = Runs(loops[l]) /\ Runs(loops[l]) \in Nat \ {0}
  BY <1>2, EvenCount DEF EvenTuning
<1>4. Count(loops[1]) = 1
  BY <1>2 DEF Count, Adds, Feedbacks, Stages
<1> DEFINE F(l) == Len(From(loops, l))
<1>5. \A l \in 2..(n + 1) : From(loops, l) \in Positions /\ F(l) \in Nat
  <2>1. \A l \in 2..(n + 1) : From(loops, l) \in Positions
    BY <1>1, LeftFacts
  <2> QED BY <2>1 DEF Positions
<1>6. F(n + 1) = 1
  <2>1. From(loops, n + 1) = <<<<>>>>
    BY <1>1, LeftFacts
  <2> QED BY <2>1
<1>7. ASSUME NEW l \in 2..n PROVE F(l) = Count(loops[l]) * F(l + 1)
  <2>1. l \in 1..n /\ l + 1 \in 2..(n + 1)
    BY <1>2
  <2>2. From(loops, l) = Block(loops[l], From(loops, l + 1))
    BY <1>2, <2>1, FromFacts
  <2> DEFINE loop == loops[l]
             inner == From(loops, l + 1)
  <2>3. loop \in LoopType /\ Regular(loop) /\ inner \in Positions
    BY <1>2, <1>5, <2>1
  <2> HIDE DEF loop, inner
  <2>4. Len(Block(loop, inner)) = Runs(loop) * Len(inner)
    BY <2>3, LaterLen
  <2> QED BY <1>3, <2>2, <2>4 DEF loop, inner
<1>8. PICK g : IsProduct(g, n) /\ NCount = g[n]
  <2> DEFINE g == CHOOSE x : IsProduct(x, n)
  <2>1. NCount = g[n]
    BY DEF NCount, IsProduct
  <2>2. IsProduct(g, n)
    BY <1>2, ProductsExist
  <2> QED BY <2>1, <2>2
<1>9. \A k \in 0..n : g[k] = IF k = 0 THEN 1 ELSE g[k - 1] * Count(loops[k])
  <2>1. g = [k \in 0..n |-> IF k = 0 THEN 1 ELSE g[k - 1] * Count(loops[k])]
    BY <1>8 DEF IsProduct
  <2> QED BY <2>1, Zenon
<1> HIDE DEF F
<1> DEFINE T == {k \in Nat : k + 1 <= n => g[k + 1] \in Nat \ {0} /\ g[k + 1] * F(k + 2) = N}
<1>10. 0 \in T
  <2>1. 0 \in 0..n /\ 1 \in 0..n /\ 1 - 1 = 0 /\ 0 + 1 = 1 /\ 0 + 2 = 2
    BY <1>2
  <2>2. g[0] = 1
    BY <1>9, <2>1
  <2>3. g[1] = 1 * 1
    BY <1>4, <1>9, <2>1, <2>2
  <2>4. F(2) \in Nat /\ F(2) = N
    <3>1. 2 \in 2..(n + 1)
      BY <1>2
    <3> QED BY <1>5, <3>1 DEF F
  <2>5. g[1] = 1
    BY <2>3
  <2>6. 1 * F(2) = N
    BY <2>4
  <2> QED BY <2>1, <2>5, <2>6
<1>11. ASSUME NEW k \in Nat, k \in T PROVE k + 1 \in T
  <2> SUFFICES ASSUME (k + 1) + 1 <= n
               PROVE  g[(k + 1) + 1] \in Nat \ {0} /\ g[(k + 1) + 1] * F((k + 1) + 2) = N
    OBVIOUS
  <2> PICK l : l = k + 2
    OBVIOUS
  <2>1. l \in 2..n /\ l \in 0..n /\ l # 0 /\ l - 1 = k + 1 /\ (k + 1) + 1 = l /\ (k + 1) + 2 = l + 1
        /\ k + 1 <= n /\ l + 1 \in 2..(n + 1)
    BY <1>2
  <2>2. g[k + 1] \in Nat \ {0} /\ g[k + 1] * F(l) = N
    BY <1>11, <2>1
  <2>3. g[l] = g[k + 1] * Count(loops[l])
    BY <1>9, <2>1
  <2> PICK a, c, x : a = g[k + 1] /\ c = Count(loops[l]) /\ x = F(l + 1)
    OBVIOUS
  <2>4. a \in Nat \ {0} /\ c \in Nat \ {0} /\ x \in Nat
    BY <1>3, <1>5, <2>1, <2>2
  <2>5. a * c \in Nat \ {0} /\ (a * c) * x = a * (c * x)
    BY <2>4
  <2>6. F(l) = c * x
    BY <1>7, <2>1
  <2> QED BY <2>1, <2>2, <2>3, <2>5, <2>6
<1> HIDE DEF T
<1>12. Nat \subseteq T
  BY <1>10, <1>11, NatAll
<1>13. g[n] \in Nat \ {0} /\ g[n] * F(n + 1) = N
  <2> PICK k : k = n - 1
    OBVIOUS
  <2>1. k \in Nat /\ k + 1 = n /\ k + 2 = n + 1
    BY <1>2
  <2>2. k \in T
    BY <1>12, <2>1
  <2>3. g[k + 1] \in Nat \ {0} /\ g[k + 1] * F(k + 2) = N
    BY <1>2, <2>1, <2>2 DEF T
  <2> QED BY <2>1, <2>3
<1>14. g[n] = N
  BY <1>6, <1>13
<1> QED BY <1>1, <1>8, <1>13, <1>14


(* The function Ident computes, as far as the first n loops. *)
NextIdent(st, l, o) ==
    IF Adds(loops[l]) THEN o
    ELSE [ident |-> o.ident + st[l] * o.offset, offset |-> o.offset * Unsigned(loops[l].max)]

FirstIdent == [ident |-> 0, offset |-> 1]

IsIdent(g, st, n) == g = [l \in 0..n |-> IF l = 0 THEN FirstIdent ELSE NextIdent(st, l, g[l - 1])]

(* The identifier of a result is defined for any number of loops. *)
LEMMA IdentsExist == ASSUME NEW st PROVE \A n \in Nat : \E g : IsIdent(g, st, n)
<1> DEFINE T == {n \in Nat : \E g : IsIdent(g, st, n)}
           Then(k, o) == NextIdent(st, k, o)
<1>1. \A g, n : IsIdent(g, st, n) <=> g = [k \in 0..n |-> IF k = 0 THEN FirstIdent ELSE Then(k, g[k - 1])]
  BY DEF IsIdent
<1> HIDE DEF Then
<1>2. 0 \in T
  <2> DEFINE g == [k \in 0..0 |-> FirstIdent]
  <2>1. g = [k \in 0..0 |-> IF k = 0 THEN FirstIdent ELSE Then(k, g[k - 1])]
    <3>1. \A k \in 0..0 : k = 0
      OBVIOUS
    <3> QED BY <3>1
  <2> HIDE DEF g
  <2>2. IsIdent(g, st, 0)
    BY <1>1, <2>1
  <2> QED BY <2>2
<1>3. ASSUME NEW n \in Nat, n \in T PROVE n + 1 \in T
  <2>1. PICK g : IsIdent(g, st, n)
    BY <1>3
  <2>2. \A k \in 0..n : g[k] = IF k = 0 THEN FirstIdent ELSE Then(k, g[k - 1])
    <3>1. g = [k \in 0..n |-> IF k = 0 THEN FirstIdent ELSE Then(k, g[k - 1])]
      BY <1>1, <2>1
    <3> QED BY <3>1
  <2> DEFINE last == Then(n + 1, g[n])
             h == [k \in 0..(n + 1) |-> IF k = n + 1 THEN last ELSE g[k]]
  <2>3. h[n + 1] = last /\ \A k \in 0..n : h[k] = g[k]
    <3>1. n + 1 \in 0..(n + 1) /\ \A k \in 0..n : k \in 0..(n + 1) /\ k # n + 1
      OBVIOUS
    <3> HIDE DEF last
    <3> QED BY <3>1
  <2>4. h = [k \in 0..(n + 1) |-> h[k]]
    OBVIOUS
  <2> HIDE DEF h
  <2>5. ASSUME NEW k \in 0..(n + 1) PROVE h[k] = IF k = 0 THEN FirstIdent ELSE Then(k, h[k - 1])
    <3>1. CASE k = n + 1
      <4>1. k # 0 /\ k - 1 = n /\ n \in 0..n
        BY <3>1
      <4> QED BY <2>3, <3>1, <4>1
    <3>2. CASE k # n + 1
      <4>1. k \in 0..n /\ (k # 0 => k - 1 \in 0..n)
        BY <3>2
      <4> QED BY <2>2, <2>3, <4>1
    <3> QED BY <3>1, <3>2
  <2>6. h = [k \in 0..(n + 1) |-> IF k = 0 THEN FirstIdent ELSE Then(k, h[k - 1])]
    BY <2>4, <2>5
  <2>7. IsIdent(h, st, n + 1)
    BY <1>1, <2>6
  <2> QED BY <2>7
<1> HIDE DEF T
<1>4. Nat \subseteq T
  BY <1>2, <1>3, NatAll
<1> QED BY <1>4 DEF T

(* The data of such a tuning are told apart by the iteration. *)
LEMMA IdentOfIteration ==
    ASSUME EngineTypes, EvenTuning, NEW st, st[1] \in Int
    PROVE  Ident(st) = st[1]
<1> PICK n : n = Len(loops)
  OBVIOUS
<1>1. n \in Nat /\ 2 <= n
  <2>1. Nest(loops, 2)
    BY DEF EvenTuning, Nest
  <2> QED BY <2>1, NestFacts
<1>2. ~Adds(loops[1]) /\ \A l \in 2..n : Adds(loops[l])
  BY DEF EvenTuning, Even, Adds, Feedbacks, Stages
<1>3. PICK g : IsIdent(g, st, n) /\ Ident(st) = g[n].ident
  <2> DEFINE g == CHOOSE x : IsIdent(x, st, n)
  <2>1. Ident(st) = g[n].ident
    BY DEF Ident, IsIdent, NextIdent, FirstIdent
  <2>2. IsIdent(g, st, n)
    BY <1>1, IdentsExist
  <2> QED BY <2>1, <2>2
<1>4. \A k \in 0..n : g[k] = IF k = 0 THEN FirstIdent ELSE NextIdent(st, k, g[k - 1])
  <2>1. g = [k \in 0..n |-> IF k = 0 THEN FirstIdent ELSE NextIdent(st, k, g[k - 1])]
    BY <1>3 DEF IsIdent
  <2> QED BY <2>1, Zenon
<1> DEFINE T == {k \in Nat : k + 1 <= n => g[k + 1].ident = st[1]}
<1>5. 0 \in T
  <2>1. 0 \in 0..n /\ 1 \in 0..n /\ 1 - 1 = 0 /\ 0 + 1 = 1
    BY <1>1
  <2>2. g[0] = FirstIdent /\ g[1] = NextIdent(st, 1, g[0])
    BY <1>4, <2>1
  <2>3. g[0].ident = 0 /\ g[0].offset = 1
    BY <2>2 DEF FirstIdent
  <2>4. g[1].ident = 0 + st[1] * 1
    BY <1>2, <2>2, <2>3 DEF NextIdent
  <2>5. g[1].ident = st[1]
    BY <2>4
  <2> QED BY <2>1, <2>5
<1>6. ASSUME NEW k \in Nat, k \in T PROVE k + 1 \in T
  <2> SUFFICES ASSUME (k + 1) + 1 <= n PROVE g[(k + 1) + 1].ident = st[1]
    OBVIOUS
  <2> PICK l : l = k + 2
    OBVIOUS
  <2>1. l \in 2..n /\ l \in 0..n /\ l # 0 /\ l - 1 = k + 1 /\ (k + 1) + 1 = l /\ k + 1 <= n
    BY <1>1
  <2>2. g[l] = g[k + 1]
    BY <1>2, <1>4, <2>1 DEF NextIdent
  <2> QED BY <1>6, <2>1, <2>2
<1> HIDE DEF T
<1>7. Nat \subseteq T
  BY <1>5, <1>6, NatAll
<1>8. g[n].ident = st[1]
  <2> PICK k : k = n - 1
    OBVIOUS
  <2>1. k \in Nat /\ k + 1 = n
    BY <1>1
  <2>2. k \in T
    BY <1>7, <2>1
  <2> QED BY <1>1, <2>1, <2>2 DEF T
<1> QED BY <1>3, <1>8


----------------------------------------------------------------------------
(* The numbers of the data takings and of the iterations are integers. *)
LEMMA SplitTypes ==
    ASSUME EngineTypes, EvenTuning
    PROVE  /\ 1 \in Levels /\ m_cur[1] \in Int /\ Len(taken) \in Nat
           /\ \A k \in 1..Len(taken) : taken[k].stat[1] \in Int
           /\ Nest(loops, 2) /\ loops[1].kind \in Feedbacks
<1>1. Nest(loops, 2) /\ loops[1].kind \in Feedbacks
  BY DEF EvenTuning, Nest
<1>2. Len(loops) \in Nat /\ 2 <= Len(loops) /\ Levels = 1..Len(loops)
  BY <1>1, NestFacts
<1>3. 1 \in Levels /\ 1 \in 1..Len(loops)
  BY <1>2
<1>4. m_cur[1] \in Int
  BY <1>3 DEF EngineTypes, TypeOK
<1>5. Len(taken) \in Nat /\ \A k \in 1..Len(taken) : taken[k].stat[1] \in Int
  BY <1>3, TakenStat
<1> QED BY <1>1, <1>3, <1>4, <1>5

(* There is one way to tell the data of the present iteration from those    *)
(* before.                                                                  *)
LEMMA SplitUnique ==
    ASSUME EngineTypes, EvenTuning, NEW t, NEW u, Split(t, 2), Split(u, 2)
    PROVE  t = u
<1>1. /\ m_cur[1] \in Int /\ Len(taken) \in Nat
      /\ \A k \in 1..Len(taken) : taken[k].stat[1] \in Int
  BY SplitTypes
<1>2. t \in 0..Len(taken) /\ u \in 0..Len(taken)
  BY DEF Split
<1>3. ASSUME NEW x \in 0..Len(taken), NEW y \in 0..Len(taken), x < y, Split(x, 2), Split(y, 2)
      PROVE  FALSE
  <2>1. y \in 1..Len(taken) /\ ~(y <= x) /\ y <= y
    BY <1>1, <1>3
  <2>2. taken[y].stat[1] = m_cur[1] /\ taken[y].stat[1] < m_cur[1]
    BY <1>3, <2>1 DEF Split
  <2> QED BY <1>1, <2>1, <2>2
<1> QED BY <1>1, <1>2, <1>3

(* In an iteration no more data are taken than the analysis expects, and    *)
(* all of them by its end.                                                  *)
LEMMA IterationData ==
    ASSUME EngineTypes, EvenTuning, TuneInv
    PROVE  /\ \E t : Split(t, 2)
           /\ \A t : Split(t, 2) =>
                 /\ t \in Nat /\ t <= Len(taken) /\ Len(taken) <= t + NCount
                 /\ (level = 1 /\ phase = "part2") => Len(taken) = t + NCount
<1>1. /\ 1 \in Levels /\ Len(taken) \in Nat /\ Nest(loops, 2)
      /\ NCount = Len(From(loops, 2)) /\ NCount \in Nat \ {0}
  BY SplitTypes, CountOfIteration
<1>2. Len(loops) \in Nat /\ 2 <= Len(loops) /\ level \in Nat /\ From(loops, 2) \in Positions
  <2>1. Len(loops) \in Nat /\ 2 <= Len(loops) /\ level \in Nat
    BY <1>1, NestFacts, LoopFacts
  <2>2. 2 \in 2..(Len(loops) + 1)
    BY <2>1
  <2> QED BY <1>1, <2>1, <2>2, LeftFacts
<1>3. ASSUME NEW t, Split(t, 2), NEW rest \in Positions, Cat(Since(t, 2), rest) = From(loops, 2)
      PROVE  t \in Nat /\ t <= Len(taken) /\ Len(taken) <= t + NCount
             /\ (rest = <<>> => Len(taken) = t + NCount)
  <2>1. t \in 0..Len(taken)
    BY <1>3 DEF Split
  <2>2. Since(t, 2) \in Positions /\ Len(Since(t, 2)) = Len(taken) - t
    BY <1>2, <2>1, SinceType
  <2> DEFINE s0 == Since(t, 2)
  <2>3. NCount = Len(s0) + Len(rest) /\ Len(rest) \in Nat
    <3> PICK S : S = Seq(Int)
      OBVIOUS
    <3>1. s0 \in Seq(S) /\ rest \in Seq(S)
      BY <1>3, <2>2 DEF Positions
    <3> HIDE DEF s0
    <3>2. Len(s0 \o rest) = Len(s0) + Len(rest) /\ Len(rest) \in Nat
      BY <3>1, ConcatProperties
    <3> QED BY <1>1, <1>3, <3>2 DEF Cat, s0
  <2>4. rest = <<>> => Len(rest) = 0
    OBVIOUS
  <2> HIDE DEF s0
  <2>5. Len(s0) = Len(taken) - t
    BY <2>2 DEF s0
  <2> QED BY <1>1, <2>1, <2>3, <2>4, <2>5
<1>4. CASE Running /\ level > 1
  <2>1. PICK t, i, todo : NestAt(2, t, i, todo)
    BY <1>1, <1>4 DEF TuneInv
  <2>2. Split(t, 2) /\ Cat(Since(t, 2), todo[2]) = From(loops, 2) /\ todo[2] \in Positions
    <3>1. todo \in Maps(2..Len(loops), Positions) /\ 2 \in 2..Len(loops)
      BY <1>2, <2>1 DEF NestAt
    <3>2. todo[2] \in Positions
      BY <3>1 DEF Maps
    <3> QED BY <2>1, <3>2 DEF NestAt
  <2>3. t \in Nat /\ t <= Len(taken) /\ Len(taken) <= t + NCount
    BY <1>3, <2>2
  <2> QED BY <1>4, <2>2, <2>3, SplitUnique
<1>5. CASE level = 1 /\ phase = "part2"
  <2>1. PICK t : Split(t, 2) /\ Since(t, 2) = From(loops, 2)
    BY <1>1, <1>5 DEF TuneInv
  <2>2. <<>> \in Positions /\ Cat(Since(t, 2), <<>>) = From(loops, 2)
    BY <1>2, <2>1, PositionsFacts
  <2>3. t \in Nat /\ t <= Len(taken) /\ Len(taken) <= t + NCount /\ Len(taken) = t + NCount
    BY <1>3, <2>1, <2>2
  <2> QED BY <2>1, <2>3, SplitUnique
<1>6. CASE phase # "part2" /\ (level = 1 \/ ~Running)
  <2>1. Split(Len(taken), 2)
    <3>1. CASE level = 1 /\ phase = "init"
      <4>1. taken = <<>>
        BY <1>1, <3>1 DEF TuneInv
      <4> QED BY <4>1, SplitNone
    <3>2. CASE ~(level = 1 /\ phase = "init")
      <4>1. phase \in {"closeOut", "done"} \/ (level = 1 /\ phase = "test")
        BY <1>6, <3>2 DEF Running, EngineTypes, TypeOK
      <4> QED BY <1>1, <4>1 DEF TuneInv
    <3> QED BY <3>1, <3>2
  <2>2. Len(taken) <= Len(taken) + NCount
    BY <1>1
  <2> QED BY <1>1, <1>6, <2>1, <2>2, SplitUnique
<1>7. Running => level >= 1
  BY <1>2, LoopFacts DEF Running
<1> QED BY <1>2, <1>4, <1>5, <1>6, <1>7 DEF Running

(* Between the beginnings of two iterations the data before the first stay  *)
(* the same ones.                                                           *)
LEMMA SplitBack ==
    ASSUME EngineTypes, EvenTuning, TuneInv, NEW t, Split(t, 2)', m_cur'[1] = m_cur[1],
           taken' = taken \/ (Taking /\ taken' = Append(taken, [stat |-> g_stat, reg |-> reg]))
    PROVE  Split(t, 2)
<1>1. /\ m_cur[1] \in Int /\ Len(taken) \in Nat /\ Nest(loops, 2)
  BY SplitTypes
<1>2. t \in 0..Len(taken')
      /\ \A k \in 1..Len(taken') : IF k <= t THEN taken'[k].stat[1] < m_cur[1] ELSE taken'[k].stat[1] = m_cur[1]
  BY DEF Split
<1>3. CASE taken' = taken
  BY <1>2, <1>3 DEF Split
<1>4. CASE Taking /\ taken' = Append(taken, [stat |-> g_stat, reg |-> reg])
  <2> PICK x : x = [stat |-> g_stat, reg |-> reg]
    OBVIOUS
  <2>1. x.stat[1] = m_cur[1]
    BY <1>1, <1>4 DEF TuneInv
  <2>2. taken' = Append(taken, x)
    BY <1>4
  <2>3. PICK S : taken \in Seq(S)
    BY DEF EngineTypes, TypeOK
  <2>4. Len(taken') = Len(taken) + 1 /\ taken'[Len(taken) + 1] = x
        /\ \A k \in 1..Len(taken) : taken'[k] = taken[k]
    BY <2>2, <2>3
  <2> PICK m : m = Len(taken)
    OBVIOUS
  <2>5. t # m + 1
    <3> SUFFICES ASSUME t = m + 1 PROVE FALSE
      OBVIOUS
    <3>1. m + 1 \in 1..(m + 1) /\ m + 1 <= t
      BY <1>1
    <3>2. x.stat[1] < m_cur[1]
      BY <1>2, <2>4, <3>1
    <3> QED BY <1>1, <2>1, <3>2
  <2>6. t \in 0..m /\ \A k \in 1..m : k \in 1..(m + 1)
    BY <1>1, <1>2, <2>4, <2>5
  <2>7. \A k \in 1..m : IF k <= t THEN taken[k].stat[1] < m_cur[1] ELSE taken[k].stat[1] = m_cur[1]
    BY <1>2, <2>4, <2>6
  <2> QED BY <2>6, <2>7 DEF Split
<1> QED BY <1>3, <1>4


(* Only the end of its iteration counts the feedback loop on, and data are  *)
(* taken in an iteration.                                                   *)
LEMMA CountStays ==
    ASSUME Types, EvenTuning, TuneInv, [TuningNext]_tuningVars, ~FeedbackPart2
    PROVE  /\ m_cur'[1] = m_cur[1]
           /\ taken' = taken \/ (Taking /\ taken' = Append(taken, [stat |-> g_stat, reg |-> reg]))
<1> USE DEF Types
<1>1. 1 \in Levels /\ loops[1].kind \in Feedbacks /\ Nest(loops, 2)
  BY SplitTypes
<1>2. level \in Levels => \A x : Set(m_cur, x)[1] = IF level = 1 THEN x ELSE m_cur[1]
  BY <1>1, OuterEntries
<1>3. phase \in {"init", "test", "part2"} => level \in Levels
  BY LoopFacts
<1>4. level = 1 => This.kind \in Feedbacks
  BY <1>1 DEF This
<1>5. CASE LoopInit
  <2>1. InitLoop /\ level \in Levels /\ taken' = taken /\ phase = "init"
    BY <1>3, <1>5 DEF LoopInit, InitLoop
  <2>2. CASE level = 1
    <3>1. Start(This) = 0 /\ m_cur' = Set(m_cur, Start(This))
      BY <1>4, <2>1, <2>2 DEF InitLoop, Start, Feedbacks, Stages
    <3>2. m_cur[1] = 0
      BY <1>1, <2>1, <2>2 DEF TuneInv
    <3> QED BY <1>2, <2>1, <2>2, <3>1, <3>2
  <2>3. CASE level # 1
    BY <1>2, <2>1, <2>3 DEF InitLoop
  <2> QED BY <2>2, <2>3
<1>6. CASE LoopPart1
  <2>1. /\ level \in Levels /\ taken' = taken
        /\ m_cur' = m_cur \/ (This.kind = "repeater" /\ m_cur' = Set(m_cur, m_cur[level] + 1))
    BY <1>3, <1>6 DEF LoopPart1, ExecPart1
  <2>2. This.kind = "repeater" => level # 1
    BY <1>4 DEF Feedbacks
  <2> QED BY <1>2, <2>1, <2>2
<1>7. CASE LoopPart2
  <2>1. ExecPart2 /\ level \in Levels /\ phase = "part2" /\ This.kind \notin Feedbacks
    BY <1>3, <1>7 DEF LoopPart2, ExecPart2, Feedbacks, Stages
  <2>2. level # 1
    BY <1>4, <2>1
  <2>3. m_cur' = m_cur \/ \E x : m_cur' = Set(m_cur, x)
    BY <2>1 DEF ExecPart2, ParameterPart2, RepeaterPart2, MaskPart2, DataPart2
  <2>4. taken' = taken \/ taken' = Append(taken, [stat |-> g_stat, reg |-> reg])
    BY <2>1 DEF ExecPart2, ParameterPart2, RepeaterPart2, MaskPart2, DataPart2
  <2> QED BY <1>2, <2>1, <2>2, <2>3, <2>4 DEF Taking, Running
<1>8. CASE LoopEnd
  <2>1. /\ level \in Levels /\ taken' = taken
        /\ m_cur' = m_cur \/ (This.kind = "parameter" /\ m_cur' = Set(m_cur, Start(This)))
    BY <1>3, <1>8 DEF LoopEnd, EndLoop
  <2>2. This.kind = "parameter" => level # 1
    BY <1>4 DEF Feedbacks
  <2> QED BY <1>2, <2>1, <2>2
<1>9. CASE \/ LoopCloseOut \/ (\E f \in FE : WaitForFeedback(f))
           \/ (\E f \in FE : ProcessHistogram(f)) \/ UNCHANGED tuningVars
  BY <1>9 DEF LoopCloseOut, CloseOut, WaitForFeedback, ProcessHistogram, tuningVars, vars
<1> QED BY <1>5, <1>6, <1>7, <1>8, <1>9 DEF TuningNext, EngineStep

----------------------------------------------------------------------------
Nothing == [innerCnt |-> 0, from |-> <<>>]
Numbers(t, n) == [k \in 1..n |-> t + k]

(* The analysis of f, t data takings having been made before the present    *)
(* iteration: it adds up the data of the iteration, has answered, or its    *)
(* answer has been fetched.                                                 *)
Adding(f, t) ==
    /\ seen[f] < t + NCount /\ fb[f] = <<>> /\ f \notin waited
    /\ Lookup(acc[f], m_cur[1], Nothing)
          = [innerCnt |-> seen[f] - t, from |-> Numbers(t, seen[f] - t)]

Answered(f, t) ==
    /\ seen[f] = t + NCount /\ f \notin waited
    /\ Len(fb[f]) = 1 /\ fb[f][1].from = Numbers(t, NCount)

Fetched(f, t) == seen[f] = t + NCount /\ f \in waited /\ fb[f] = <<>>

AnswerAt(f, t) ==
    /\ t <= seen[f] /\ seen[f] <= Len(taken)
    /\ \A x \in DOMAIN acc[f] : x \in Int /\ x <= m_cur[1]
    /\ Adding(f, t) \/ Answered(f, t) \/ Fetched(f, t)

AnswerInv ==
    EvenTuning => \A t : Split(t, 2) => \A f \in active : AnswerAt(f, t)

(* One number more. *)
LEMMA NumbersFacts ==
    ASSUME NEW t \in Nat, NEW n \in Nat
    PROVE  /\ Numbers(t, 0) = <<>>
           /\ Append(Numbers(t, n), t + n + 1) = Numbers(t, n + 1)
           /\ DOMAIN Numbers(t, n) = 1..n /\ \A k \in 1..n : Numbers(t, n)[k] = t + k
<1>1. /\ Numbers(t, n) \in Seq(Nat) /\ Len(Numbers(t, n)) = n
      /\ DOMAIN Numbers(t, n) = 1..n /\ \A k \in 1..n : Numbers(t, n)[k] = t + k
  BY DEF Numbers
<1>2. Numbers(t, 0) = <<>>
  BY DEF Numbers
<1> DEFINE a == Numbers(t, n)
<1> HIDE DEF a
<1>3. Append(a, t + n + 1) = [k \in 1..(n + 1) |-> IF k = n + 1 THEN t + n + 1 ELSE a[k]]
  BY <1>1 DEF a
<1>4. \A k \in 1..(n + 1) : (IF k = n + 1 THEN t + n + 1 ELSE a[k]) = t + k
  <2>1. \A k \in 1..(n + 1) : k = n + 1 \/ k \in 1..n
    OBVIOUS
  <2> QED BY <1>1, <2>1 DEF a
<1>5. Append(a, t + n + 1) = Numbers(t, n + 1)
  BY <1>3, <1>4 DEF Numbers
<1> QED BY <1>1, <1>2, <1>5 DEF a

(* Looking up what was updated. *)
LEMMA LookupFacts ==
    \A fun, x, y, e : /\ Lookup(Update(fun, x, y), x, e) = y
                      /\ DOMAIN Update(fun, x, y) = DOMAIN fun \cup {x}
BY DEF Lookup, Update

(* The analysis of a front end takes the next histogram. *)
LEMMA AnswerProcess ==
    ASSUME Types, EvenTuning, TuneInv, NEW t, Split(t, 2), NEW f \in active, AnswerAt(f, t),
           ProcessHistogram(f)
    PROVE  AnswerAt(f, t)'
<1> USE DEF Types
<1>1. /\ f \in FE /\ setup.algorithm # "occupancy" /\ 1 \in Levels /\ m_cur[1] \in Int
      /\ NCount \in Nat \ {0}
  <2>1. 1 \in Levels /\ loops[1].kind \in Feedbacks /\ m_cur[1] \in Int
    BY SplitTypes
  <2> QED BY <2>1, SetupFacts, CountOfIteration DEF Feedbacks
<1>2. loops' = loops /\ setup' = setup /\ taken' = taken /\ m_cur' = m_cur /\ waited' = waited
  BY DEF ProcessHistogram, vars
<1>3. active' = active /\ NCount' = NCount
  BY <1>2 DEF active, NCount, Count, Adds
<1>4. t \in Nat /\ Len(taken) \in Nat /\ seen[f] \in Nat /\ t <= seen[f] /\ Len(taken) <= t + NCount
  <2>1. t \in Nat /\ Len(taken) <= t + NCount
    BY IterationData
  <2> QED BY <1>1, <2>1, SplitTypes DEF AnalysisTypes, AnswerAt
<1> PICK i, n : i = seen[f] + 1 /\ n = seen[f] - t + 1
  OBVIOUS
<1>5. seen' = [seen EXCEPT ![f] = i] /\ seen'[f] = i /\ seen[f] < Len(taken)
  BY <1>1 DEF ProcessHistogram, AnalysisTypes
<1>6. i \in 1..Len(taken) /\ ~(i <= t) /\ n \in Nat /\ n = i - t /\ seen[f] - t \in Nat /\ t + (seen[f] - t) + 1 = i
      /\ seen[f] < t + NCount /\ n <= NCount /\ (seen[f] - t) + 1 = n
  BY <1>1, <1>4, <1>5
<1>7. taken[i].stat[1] = m_cur[1] /\ Ident(taken[i].stat) = m_cur[1]
  <2>1. taken[i].stat[1] = m_cur[1]
    BY <1>6 DEF Split
  <2>2. taken[i].stat[1] \in Int
    BY <1>1, <2>1
  <2> QED BY <2>1, <2>2, IdentOfIteration
<1>8. Adding(f, t)
  BY <1>4, <1>6 DEF AnswerAt, Answered, Fetched
<1> DEFINE old == Lookup(acc[f], m_cur[1], Nothing)
           from == Append(old.from, i)
<1>9. old.innerCnt + 1 = n /\ from = Numbers(t, n)
  <2>1. old = [innerCnt |-> seen[f] - t, from |-> Numbers(t, seen[f] - t)]
    BY <1>8 DEF Adding
  <2>2. Append(Numbers(t, seen[f] - t), t + (seen[f] - t) + 1) = Numbers(t, (seen[f] - t) + 1)
    BY <1>4, <1>6, NumbersFacts
  <2> QED BY <1>6, <2>1, <2>2
<1>10. IF n = NCount
       THEN /\ acc' = [acc EXCEPT ![f] = Update(@, m_cur[1], [innerCnt |-> CountAfter(n), from |-> <<>>])]
            /\ Send(f, from) \/ MaskPixel(f)
       ELSE /\ acc' = [acc EXCEPT ![f] = Update(@, m_cur[1], [innerCnt |-> n, from |-> from])]
            /\ fb' = fb
  BY <1>5, <1>7, <1>9 DEF ProcessHistogram, Nothing
<1> HIDE DEF old, from
<1>11. DOMAIN acc = FE /\ fb \in [FE -> Seq(AnswerType)] /\ fb[f] = <<>> /\ f \notin waited
  BY <1>8 DEF AnalysisTypes, Adding
<1>12. DOMAIN acc'[f] = DOMAIN acc[f] \cup {m_cur[1]}
  <2>1. PICK y : acc' = [acc EXCEPT ![f] = Update(@, m_cur[1], y)]
    BY <1>10
  <2>2. acc'[f] = Update(acc[f], m_cur[1], y)
    BY <1>1, <1>11, <2>1
  <2>3. DOMAIN Update(acc[f], m_cur[1], y) = DOMAIN acc[f] \cup {m_cur[1]}
    BY DEF Update
  <2> QED BY <2>2, <2>3
<1>13. \A x \in DOMAIN acc'[f] : x \in Int /\ x <= m_cur'[1]
  <2>1. \A x \in DOMAIN acc[f] : x \in Int /\ x <= m_cur[1]
    BY DEF AnswerAt
  <2> QED BY <1>1, <1>2, <1>12, <2>1
<1>14. t <= seen'[f] /\ seen'[f] <= Len(taken')
  BY <1>2, <1>4, <1>5, <1>6
<1>15. CASE n = NCount
  <2>1. Send(f, from)
    BY <1>1, <1>10, <1>15 DEF MaskPixel
  <2>2. PICK a : fb' = [fb EXCEPT ![f] = Append(@, [mode |-> a.mode, sign |-> a.sign,
                                                    last |-> a.last, from |-> from])]
    BY <2>1 DEF Send
  <2> PICK ans : ans = [mode |-> a.mode, sign |-> a.sign, last |-> a.last, from |-> from]
    OBVIOUS
  <2>3. fb'[f] = Append(<<>>, ans)
    BY <1>1, <1>11, <2>2
  <2>4. Len(fb'[f]) = 1 /\ fb'[f][1] = ans /\ ans.from = from
    BY <2>3
  <2>5. Answered(f, t)'
    <3>1. seen'[f] = t + NCount'
      BY <1>3, <1>4, <1>5, <1>6, <1>15
    <3> QED BY <1>2, <1>3, <1>9, <1>11, <1>15, <2>4, <3>1 DEF Answered
  <2> QED BY <1>13, <1>14, <2>5 DEF AnswerAt
<1>16. CASE n # NCount
  <2>1. acc' = [acc EXCEPT ![f] = Update(@, m_cur[1], [innerCnt |-> n, from |-> from])] /\ fb' = fb
    BY <1>10, <1>16
  <2>2. acc'[f] = Update(acc[f], m_cur[1], [innerCnt |-> n, from |-> from])
    BY <1>1, <1>11, <2>1
  <2>3. Lookup(acc'[f], m_cur[1], Nothing) = [innerCnt |-> n, from |-> from]
    BY <2>2, LookupFacts
  <2>4. seen'[f] < t + NCount /\ seen'[f] - t = n
    BY <1>1, <1>4, <1>5, <1>6, <1>16
  <2>5. Adding(f, t)'
    BY <1>2, <1>3, <1>9, <1>11, <2>1, <2>3, <2>4 DEF Adding, Nothing
  <2> QED BY <1>13, <1>14, <2>5 DEF AnswerAt
<1> QED BY <1>15, <1>16

(* What the loops run and the front ends of a scan stay the same. *)
LEMMA ScanKept ==
    ASSUME EngineTypes, [TuningNext]_tuningVars
    PROVE  /\ EngineMove /\ loops' = loops /\ setup' = setup /\ active' = active
           /\ NCount' = NCount /\ (EvenTuning' <=> EvenTuning)
<1>1. EngineMove
  BY StepIsMove
<1>2. setup' = setup
  BY DEF TuningNext, EngineStep, LoopInit, LoopPart1, LoopPart2, FeedbackPart2, LoopEnd,
         LoopCloseOut, WaitForFeedback, ProcessHistogram, tuningVars
<1>3. loops' = loops
  BY <1>1 DEF EngineMove, InitLoop, ExecPart1, ExecPart2, CountIteration, EndLoop, CloseOut, vars
<1> QED BY <1>1, <1>2, <1>3 DEF active, NCount, EvenTuning

(* A step that does not touch the analysis of f. *)
LEMMA AnswerFrame ==
    ASSUME NEW t, NEW f, AnswerAt(f, t), NCount' = NCount, m_cur'[1] = m_cur[1],
           seen'[f] = seen[f], acc'[f] = acc[f], fb'[f] = fb[f], f \in waited' <=> f \in waited,
           seen'[f] <= Len(taken')
    PROVE  AnswerAt(f, t)'
BY DEF AnswerAt, Adding, Answered, Fetched, Nothing

(* The end of an iteration. *)
LEMMA AnswerNext ==
    ASSUME Types, EvenTuning, TuneInv, AnswerInv, FeedbackPart2, NCount' = NCount,
           NEW t, Split(t, 2)', NEW f \in active
    PROVE  AnswerAt(f, t)'
<1> USE DEF Types
<1>1. 1 \in Levels /\ m_cur[1] \in Int /\ Len(taken) \in Nat /\ NCount \in Nat \ {0}
  BY SplitTypes, CountOfIteration
<1>2. level \in Levels /\ phase = "part2" /\ This.kind \in Feedbacks /\ waited = active
  BY LoopFacts DEF FeedbackPart2
<1>3. level = 1
  BY <1>2, SetupFacts DEF This
<1>4. /\ taken' = taken /\ seen' = seen /\ acc' = acc /\ fb' = fb /\ waited' = {}
      /\ m_cur'[1] = m_cur[1] + 1
  <2>1. m_cur' = Set(m_cur, m_cur[level] + 1)
    BY DEF FeedbackPart2
  <2>2. Set(m_cur, m_cur[level] + 1)[1] = m_cur[1] + 1
    BY <1>1, <1>2, <1>3, OuterEntries
  <2> QED BY <2>1, <2>2 DEF FeedbackPart2, analysis
<1>5. PICK u : Split(u, 2)
  BY IterationData
<1>6. u \in Nat /\ Len(taken) = u + NCount
  BY <1>2, <1>3, <1>5, IterationData
<1>7. AnswerAt(f, u)
  BY <1>5 DEF AnswerInv
<1>8. Fetched(f, u)
  BY <1>2, <1>7 DEF AnswerAt, Adding, Answered
<1>9. Split(Len(taken), 2)'
  BY <1>1, <1>4, <1>5, SplitAfter
<1> PICK m, c : m = Len(taken) /\ c = m_cur[1] + 1
  OBVIOUS
<1>10. t = m
  <2>1. /\ t \in 0..m
        /\ \A k \in 1..m : IF k <= t THEN taken[k].stat[1] < c ELSE taken[k].stat[1] = c
    BY <1>4 DEF Split
  <2>2. \A k \in 1..m : k <= m => taken[k].stat[1] < c
    BY <1>4, <1>9 DEF Split
  <2> SUFFICES ASSUME t # m PROVE FALSE
    OBVIOUS
  <2>3. m \in 1..m /\ ~(m <= t) /\ m <= m
    BY <1>1, <2>1
  <2>4. taken[m].stat[1] = c /\ taken[m].stat[1] < c
    BY <2>1, <2>2, <2>3
  <2> QED BY <1>1, <2>4
<1>11. seen[f] = m /\ fb[f] = <<>>
  BY <1>6, <1>8 DEF Fetched
<1>12. c \notin DOMAIN acc[f] /\ \A x \in DOMAIN acc[f] : x \in Int /\ x <= m_cur[1] /\ x <= c
  BY <1>1, <1>7 DEF AnswerAt
<1>13. Adding(f, t)'
  <2>1. Lookup(acc[f], c, Nothing) = [innerCnt |-> 0, from |-> <<>>]
    BY <1>12 DEF Lookup, Nothing
  <2>2. seen[f] - t = 0 /\ Numbers(t, 0) = <<>> /\ m < t + NCount
    BY <1>1, <1>10, <1>11, NumbersFacts
  <2> QED BY <1>4, <1>10, <1>11, <2>1, <2>2 DEF Adding, Nothing
<1>14. t <= seen[f] /\ seen[f] <= Len(taken)
  BY <1>1, <1>10, <1>11
<1> QED BY <1>4, <1>12, <1>13, <1>14 DEF AnswerAt


(* Nothing is left when the only element is taken. *)
LEMMA OneTail ==
    ASSUME NEW S, NEW s \in Seq(S), Len(s) = 1
    PROVE  Tail(s) = <<>>
<1>1. s # <<>>
  OBVIOUS
<1>2. Tail(s) \in Seq(S) /\ Len(Tail(s)) = 0
  BY <1>1
<1>3. \A q \in Seq(S) : q # <<>> => Len(q) \in Nat \ {0}
  BY EmptySeq
<1> QED BY <1>2, <1>3

(* At every step the analyses keep to the iteration. *)
LEMMA AnswerKept ==
    ASSUME TuningInv, TuneInv, AnswerInv, [TuningNext]_tuningVars
    PROVE  AnswerInv'
<1> USE DEF TuningInv, Types
<1>1. /\ EngineMove /\ active' = active /\ NCount' = NCount /\ (EvenTuning' <=> EvenTuning)
  BY ScanKept
<1>2. active \subseteq FE /\ AnalysisTypes'
  BY SetupFacts, StepAnalysisTypes
<1> SUFFICES ASSUME EvenTuning, NEW t, Split(t, 2)', NEW f \in active
             PROVE  AnswerAt(f, t)'
  BY <1>1 DEF AnswerInv
<1>3. CASE FeedbackPart2
  BY <1>1, <1>3, AnswerNext
<1>4. CASE ~FeedbackPart2
  <2>1. /\ m_cur'[1] = m_cur[1]
        /\ taken' = taken \/ (Taking /\ taken' = Append(taken, [stat |-> g_stat, reg |-> reg]))
    BY <1>4, CountStays
  <2>2. Split(t, 2)
    BY <2>1, SplitBack
  <2>3. AnswerAt(f, t)
    BY <2>2 DEF AnswerInv
  <2>4. f \in FE /\ seen'[f] <= Len(taken')
    BY <1>2 DEF AnalysisTypes
  <2>5. ASSUME NEW g \in FE, ProcessHistogram(g) PROVE AnswerAt(f, t)'
    <3>1. CASE g = f
      BY <2>2, <2>3, <2>5, <3>1, AnswerProcess
    <3>2. CASE g # f
      <4>1. seen'[f] = seen[f] /\ waited' = waited
        BY <2>4, <2>5, <3>2 DEF ProcessHistogram, AnalysisTypes
      <4>2. acc'[f] = acc[f]
        <5>1. \E y : acc' = [acc EXCEPT ![g] = y]
          BY <2>5 DEF ProcessHistogram
        <5> QED BY <2>4, <3>2, <5>1 DEF AnalysisTypes
      <4>3. fb'[f] = fb[f]
        <5>1. fb' = fb \/ \E y : fb' = [fb EXCEPT ![g] = y]
          BY <2>5 DEF ProcessHistogram, Send, MaskPixel
        <5> QED BY <2>4, <3>2, <5>1 DEF AnalysisTypes
      <4> QED BY <1>1, <2>1, <2>3, <2>4, <4>1, <4>2, <4>3, AnswerFrame
    <3> QED BY <3>1, <3>2
  <2>6. ASSUME NEW g \in FE, WaitForFeedback(g) PROVE AnswerAt(f, t)'
    <3>1. /\ seen' = seen /\ acc' = acc /\ fb' = [fb EXCEPT ![g] = Tail(@)] /\ fb[g] # <<>>
          /\ waited' = waited \cup {g} /\ taken' = taken
      BY <2>6 DEF WaitForFeedback, analysis, vars
    <3>2. fb \in [FE -> Seq(AnswerType)]
      BY DEF AnalysisTypes
    <3>3. CASE g = f
      <4>1. Answered(f, t)
        BY <2>3, <2>6, <3>1, <3>3 DEF AnswerAt, Adding, Fetched, WaitForFeedback
      <4>2. fb'[f] = Tail(fb[f]) /\ Len(fb[f]) = 1 /\ fb[f] \in Seq(AnswerType)
        BY <2>4, <3>1, <3>2, <3>3, <4>1 DEF Answered
      <4>3. fb'[f] = <<>>
        <5> PICK s : s = fb[f]
          OBVIOUS
        <5>2. Tail(s) = <<>>
          BY <4>2, OneTail
        <5> QED BY <4>2, <5>2
      <4>4. Fetched(f, t)'
        BY <1>1, <3>1, <3>3, <4>1, <4>3 DEF Answered, Fetched
      <4> QED BY <2>1, <2>3, <2>4, <3>1, <4>4 DEF AnswerAt
    <3>4. CASE g # f
      <4>1. fb'[f] = fb[f] /\ (f \in waited' <=> f \in waited)
        BY <2>4, <3>1, <3>2, <3>4
      <4> QED BY <1>1, <2>1, <2>3, <2>4, <3>1, <4>1, AnswerFrame
    <3> QED BY <3>3, <3>4
  <2>7. CASE UNCHANGED <<seen, acc, fb, waited>>
    BY <1>1, <2>1, <2>3, <2>4, <2>7, AnswerFrame
  <2>8. \/ \E g \in FE : ProcessHistogram(g) \/ WaitForFeedback(g)
        \/ UNCHANGED <<seen, acc, fb, waited>>
    BY <1>4 DEF TuningNext, EngineStep, LoopInit, LoopPart1, LoopPart2, LoopEnd, LoopCloseOut,
                tuningVars, analysis, tuning
  <2> QED BY <2>5, <2>6, <2>7, <2>8
<1> QED BY <1>3, <1>4

(* And they do so when the scan starts. *)
LEMMA AnswerStart ==
    ASSUME TuningInit
    PROVE  AnswerInv
<1> SUFFICES ASSUME EvenTuning, NEW t, Split(t, 2), NEW f \in active
             PROVE  AnswerAt(f, t)
  BY DEF AnswerInv
<1>1. Types
  BY InvStart DEF TuningInv
<1>2. f \in FE /\ NCount \in Nat \ {0}
  BY <1>1, SetupFacts, CountOfIteration DEF Types
<1>3. taken = <<>> /\ seen[f] = 0 /\ acc[f] = <<>> /\ fb[f] = <<>> /\ waited = {}
  BY <1>2 DEF TuningInit, Init
<1>4. t = 0 /\ Len(taken) = 0
  BY <1>3 DEF Split
<1>5. Adding(f, t)
  <2>1. Lookup(acc[f], m_cur[1], Nothing) = [innerCnt |-> 0, from |-> <<>>] /\ 0 - 0 = 0
    BY <1>3 DEF Lookup, Nothing
  <2>2. Numbers(t, 0) = <<>>
    BY <1>4, NumbersFacts
  <2> QED BY <1>2, <1>3, <1>4, <2>1, <2>2 DEF Adding
<1> QED BY <1>3, <1>4, <1>5 DEF AnswerAt


----------------------------------------------------------------------------
(* A chip, or what it had when data were taken, has the present setting of  *)
(* the search.                                                              *)
Fits(d, f) ==
    IF loops[1].kind = "globalFeedback" THEN d.reg = tune[f].value ELSE d.tdac = pix[f].tdac

(* The settings have been sent: in an iteration, and for a global search,   *)
(* which sends them at its end, before it too.                              *)
Ready == Taking \/ (loops[1].kind = "globalFeedback" /\ level = 1 /\ phase = "test")

(* Until its answer is fetched a front end has one setting in an iteration. *)
SettingInv ==
    EvenTuning => \A f \in active \ waited :
        /\ Ready => Fits(dac[f], f)
        /\ \A i \in 1..Len(taken) : taken[i].stat[1] = m_cur[1] => Fits(takenDac[i][f], f)

(* Sending the TDACs of the configuration.                                  *)
LEMMA TdacsSent ==
    ASSUME NEW d \in [FE -> Chip], NEW p \in [FE -> PixelRegs], NEW S, NEW f \in FE
    PROVE  /\ f \in S => ConfigurePixels(d, p, S)[f].tdac = p[f].tdac
           /\ f \notin S => ConfigurePixels(d, p, S)[f] = d[f]
<1>1. d[f] \in Chip /\ p[f] \in PixelRegs
  OBVIOUS
<1>2. [d[f] EXCEPT !.tdac = p[f].tdac].tdac = p[f].tdac
  BY <1>1 DEF Chip
<1> QED BY <1>2 DEF ConfigurePixels

(* The setting of a front end stays the same until its answer is fetched.   *)
LEMMA SettingStays ==
    ASSUME TuningInv, [TuningNext]_tuningVars, ~(LoopInit /\ level = 1),
           NEW f \in active, f \notin waited'
    PROVE  tune'[f] = tune[f] /\ pix'[f].tdac = pix[f].tdac /\ (f \notin waited \/ FeedbackPart2)
<1> USE DEF TuningInv, Types
<1>1. f \in FE
  BY SetupFacts
<1>2. ASSUME NEW g \in FE, WaitForFeedback(g)
      PROVE  tune'[f] = tune[f] /\ pix'[f].tdac = pix[f].tdac /\ f \notin waited
  <2>1. f # g /\ f \notin waited
    BY <1>2 DEF WaitForFeedback
  <2>2. tune'[f] = tune[f]
    BY <1>1, <1>2, <2>1, WaitEffect
  <2>3. pix' = pix \/ \E y : pix' = [pix EXCEPT ![g] = y]
    <3>1. pix' = pix \/ \E x : pix' = [pix EXCEPT ![g].tdac = x]
      BY <1>2 DEF WaitForFeedback
    <3> QED BY <3>1
  <2> QED BY <1>1, <2>1, <2>2, <2>3 DEF SearchTypes
<1>3. CASE \E g \in FE : WaitForFeedback(g)
  BY <1>2, <1>3
<1>4. CASE ~\E g \in FE : WaitForFeedback(g)
  <2>1. pix'[f].tdac = pix[f].tdac
    BY <1>1, <1>4, TdacStep
  <2>2. tune' = tune
    <3>1. LoopInit => tune' = tune
      BY InnerInit
    <3> QED BY <1>4, <3>1 DEF TuningNext, EngineStep, LoopPart1, LoopPart2, FeedbackPart2, LoopEnd,
               LoopCloseOut, ProcessHistogram, tuningVars, tuning
  <2>3. waited' = waited \/ FeedbackPart2
    BY <1>4 DEF TuningNext, EngineStep, LoopInit, LoopPart1, LoopPart2, LoopEnd,
            LoopCloseOut, ProcessHistogram, tuningVars, tuning
  <2> QED BY <2>1, <2>2, <2>3
<1> QED BY <1>3, <1>4


(* The chips have the settings when an iteration begins, and keep them      *)
(* until the answers are fetched.                                           *)
LEMMA SettingSent ==
    ASSUME TuningInv, EvenTuning, SettingInv, [TuningNext]_tuningVars,
           NEW f \in active, f \notin waited', Ready'
    PROVE  Fits(dac[f], f)'
<1> USE DEF TuningInv, Types
<1>1. /\ EngineMove /\ loops' = loops /\ f \in FE /\ 1 \in Levels /\ loops[1].kind \in Feedbacks
      /\ level \in Nat /\ (phase \in {"init", "test", "part2"} => level \in Levels)
  BY ScanKept, SetupFacts, SplitTypes, LoopFacts
<1>2. dac \in [FE -> Chip] /\ pix \in [FE -> PixelRegs] /\ tune \in [FE -> Search]
  BY DEF SearchTypes
<1>3. level \in Levels /\ level # 1 => This.kind \notin Feedbacks /\ level > 1
  BY <1>1, SetupFacts, LoopFacts DEF This
<1>4. level = 1 => This = loops[1]
  BY DEF This
<1>5. CASE LoopInit /\ level = 1
  <2>1. level' = 1 /\ phase' = "test" /\ loops[1].kind = "globalFeedback"
    BY <1>1, <1>5 DEF LoopInit, InitLoop, Ready, Taking
  <2>2. InitGlobalFeedback
    BY <1>4, <1>5, <2>1 DEF LoopInit, InitPixelFeedback, InitMask, Feedbacks
  <2>3. tune' \in [FE -> Search] /\ pix' \in [FE -> PixelRegs]
    BY <1>1, <1>5, <2>2, InitGlobalEffect
  <2>4. PICK S : dac' = ConfigurePixels(WritePar(tune'), pix', S)
    BY <2>2 DEF InitGlobalFeedback
  <2> PICK w : w = WritePar(tune')
    OBVIOUS
  <2>5. w \in [FE -> Chip] /\ w[f].reg = tune'[f].value
    BY <1>1, <1>2, <2>3, WriteFacts
  <2>6. dac'[f].reg = w[f].reg
    BY <1>1, <2>3, <2>4, <2>5, WriteFacts
  <2> QED BY <1>1, <2>1, <2>5, <2>6 DEF Fits
<1>6. CASE FeedbackPart2
  <2>1. level' = level /\ phase' = "test" /\ level \in Levels /\ This.kind \in Feedbacks
    BY <1>1, <1>6 DEF FeedbackPart2
  <2>2. level = 1 /\ loops[1].kind = "globalFeedback"
    BY <1>1, <1>3, <2>1 DEF Ready, Taking
  <2>3. dac' = WritePar(tune) /\ tune' = tune
    BY <1>4, <1>6, <2>2 DEF FeedbackPart2
  <2>4. dac'[f].reg = tune[f].value
    BY <1>1, <1>2, <2>3, WriteFacts
  <2> QED BY <1>1, <2>2, <2>3, <2>4 DEF Fits
<1>7. CASE ~(LoopInit /\ level = 1) /\ ~FeedbackPart2
  <2>1. tune'[f] = tune[f] /\ pix'[f].tdac = pix[f].tdac /\ f \notin waited
    BY <1>7, SettingStays
  <2>2. Ready => Fits(dac[f], f)
    BY <2>1 DEF SettingInv
  <2>3. CASE LoopInit
    <3>1. level # 1 /\ level \in Levels /\ level' = level /\ phase = "init"
      BY <1>1, <1>7, <2>3 DEF LoopInit, InitLoop
    <3>2. Ready
      BY <1>3, <3>1 DEF Ready, Taking, Running
    <3>3. CASE InitMask
      <4>1. dac' = ConfigurePixels(dac, pix', FE) /\ pix' \in [FE -> PixelRegs] /\ dac'[f].reg = dac[f].reg
        BY <1>1, <3>3, InitMaskEffect DEF InitMask
      <4>2. dac'[f].tdac = pix'[f].tdac
        BY <1>1, <1>2, <4>1, TdacsSent
      <4> QED BY <1>1, <2>1, <2>2, <3>2, <4>1, <4>2 DEF Fits
    <3>4. CASE dac' = dac
      BY <1>1, <2>1, <2>2, <3>2, <3>4 DEF Fits
    <3> QED BY <2>3, <3>1, <3>3, <3>4, InnerInit
  <2>4. CASE LoopPart1
    <3>1. dac'[f].reg = dac[f].reg /\ phase = "test" /\ level \in Levels
      BY <1>1, <2>4, Part1Effect DEF LoopPart1, ExecPart1
    <3>2. PICK S : /\ dac' = ConfigurePixels(dac, pix, S)
                   /\ This.kind = "pixelFeedback" => S = active
      BY <2>4 DEF LoopPart1
    <3>3. dac'[f].tdac = pix[f].tdac \/ (dac'[f] = dac[f] /\ f \notin S)
      BY <1>1, <1>2, <3>2, TdacsSent
    <3>4. CASE loops[1].kind = "globalFeedback"
      <4>1. Ready
        BY <1>3, <3>1, <3>4 DEF Ready, Taking, Running
      <4> QED BY <1>1, <2>1, <2>2, <3>1, <3>4, <4>1 DEF Fits
    <3>5. CASE loops[1].kind # "globalFeedback"
      <4>1. CASE level = 1
        <5>1. This.kind = "pixelFeedback"
          BY <1>1, <1>4, <3>5, <4>1 DEF Feedbacks
        <5> QED BY <1>1, <2>1, <3>2, <3>3, <3>5, <5>1 DEF Fits
      <4>2. CASE level # 1
        <5>1. Ready
          BY <1>3, <3>1, <4>2 DEF Ready, Taking, Running
        <5> QED BY <1>1, <2>1, <2>2, <3>3, <3>5, <5>1 DEF Fits
      <4> QED BY <4>1, <4>2
    <3> QED BY <3>4, <3>5
  <2>5. CASE LoopPart2
    <3>1. phase = "part2" /\ dac' = dac
      BY <2>5 DEF LoopPart2, ExecPart2, tuning
    <3>2. Ready
      BY <3>1 DEF Ready, Taking, Running
    <3> QED BY <1>1, <2>1, <2>2, <3>1, <3>2 DEF Fits
  <2>6. CASE LoopEnd
    <3>1. EndLoop /\ phase = "test" /\ level \in Levels
      BY <1>1, <2>6 DEF LoopEnd, EndLoop
    <3>2. level # 1
      BY <3>1 DEF EndLoop, Ready, Taking, Running
    <3>3. dac' = dac /\ Ready
      BY <1>3, <2>6, <3>1, <3>2 DEF LoopEnd, Feedbacks, Ready, Taking, Running
    <3> QED BY <1>1, <2>1, <2>2, <3>3 DEF Fits
  <2>7. ~LoopCloseOut
    BY DEF LoopCloseOut, CloseOut, Ready, Taking, Running
  <2>8. CASE dac' = dac /\ UNCHANGED vars
    <3>1. Ready
      BY <2>8 DEF vars, Ready, Taking, Running
    <3> QED BY <1>1, <2>1, <2>2, <2>8, <3>1 DEF Fits
  <2>9. (\E g \in FE : WaitForFeedback(g) \/ ProcessHistogram(g)) \/ UNCHANGED tuningVars
        => dac' = dac /\ UNCHANGED vars
    BY DEF WaitForFeedback, ProcessHistogram, tuningVars, tuning
  <2> QED BY <1>7, <2>3, <2>4, <2>5, <2>6, <2>7, <2>8, <2>9 DEF TuningNext, EngineStep
<1> QED BY <1>5, <1>6, <1>7


(* The data of an iteration were taken with its settings.                   *)
LEMMA SettingTaken ==
    ASSUME TuningInv, EvenTuning, TuneInv, SettingInv, [TuningNext]_tuningVars,
           NEW f \in active, f \notin waited', NEW i \in 1..Len(taken'), taken'[i].stat[1] = m_cur'[1]
    PROVE  Fits(takenDac[i][f], f)'
<1> USE DEF TuningInv, Types
<1>1. /\ EngineMove /\ loops' = loops /\ f \in FE /\ 1 \in Levels /\ loops[1].kind \in Feedbacks
      /\ Nest(loops, 2) /\ m_cur[1] \in Int /\ Len(taken) \in Nat
      /\ (phase \in {"init", "test", "part2"} => level \in Levels)
  BY ScanKept, SetupFacts, SplitTypes, LoopFacts
<1>2. CASE LoopInit /\ level = 1
  <2>1. taken' = taken /\ taken = <<>>
    BY <1>1, <1>2 DEF LoopInit, InitLoop, TuneInv
  <2> QED BY <2>1
<1>3. CASE FeedbackPart2
  <2>1. taken' = taken /\ m_cur' = Set(m_cur, m_cur[level] + 1) /\ level \in Levels /\ This.kind \in Feedbacks
    BY <1>1, <1>3 DEF FeedbackPart2
  <2>2. level = 1
    BY <2>1, SetupFacts DEF This
  <2>3. m_cur'[1] = m_cur[1] + 1
    BY <1>1, <2>1, <2>2, OuterEntries
  <2>4. PICK u : Split(u, 2)
    BY IterationData
  <2>5. taken[i].stat[1] < m_cur[1] \/ taken[i].stat[1] = m_cur[1]
    BY <2>1, <2>4 DEF Split
  <2> QED BY <1>1, <2>1, <2>3, <2>5
<1>4. CASE ~(LoopInit /\ level = 1) /\ ~FeedbackPart2
  <2>1. tune'[f] = tune[f] /\ pix'[f].tdac = pix[f].tdac /\ f \notin waited
    BY <1>4, SettingStays
  <2>2. /\ Ready => Fits(dac[f], f)
        /\ \A k \in 1..Len(taken) : taken[k].stat[1] = m_cur[1] => Fits(takenDac[k][f], f)
    BY <2>1 DEF SettingInv
  <2>3. m_cur'[1] = m_cur[1]
    BY <1>4, CountStays
  <2>4. CASE taken' = taken /\ takenDac' = takenDac
    <3>1. Fits(takenDac[i][f], f)
      BY <2>2, <2>3, <2>4
    <3> QED BY <1>1, <2>1, <2>4, <3>1 DEF Fits
  <2>5. CASE LoopPart2 /\ This.kind = "data"
    <3> PICK x, d, m : x = [stat |-> g_stat, reg |-> reg] /\ d = dac /\ m = Len(taken)
      OBVIOUS
    <3>1. taken' = Append(taken, x) /\ takenDac' = Append(takenDac, d) /\ phase = "part2"
      BY <2>5 DEF LoopPart2, ExecPart2, DataPart2, Stages
    <3>2. PICK S, T : taken \in Seq(S) /\ takenDac \in Seq(T) /\ Len(takenDac) = m
      BY DEF EngineTypes, TypeOK, SearchTypes
    <3>3. /\ Len(taken') = m + 1 /\ \A k \in 1..m : taken'[k] = taken[k] /\ takenDac'[k] = takenDac[k]
          /\ takenDac'[m + 1] = d
      BY <3>1, <3>2
    <3>4. CASE i \in 1..m
      <4>1. Fits(takenDac[i][f], f) /\ takenDac'[i] = takenDac[i]
        BY <2>2, <2>3, <3>3, <3>4
      <4> QED BY <1>1, <2>1, <4>1 DEF Fits
    <3>5. CASE i = m + 1
      <4>1. Ready
        BY <3>1 DEF Ready, Taking, Running
      <4>2. Fits(dac[f], f) /\ takenDac'[i] = dac
        BY <2>2, <3>3, <3>5, <4>1
      <4> QED BY <1>1, <2>1, <4>2 DEF Fits
    <3> QED BY <1>1, <3>3, <3>4, <3>5
  <2>6. (taken' = taken /\ takenDac' = takenDac) \/ (LoopPart2 /\ This.kind = "data")
    BY <1>4 DEF TuningNext, EngineStep, LoopInit, InitLoop, LoopPart1, ExecPart1, LoopPart2, ExecPart2,
       ParameterPart2, RepeaterPart2, MaskPart2, LoopEnd, EndLoop, LoopCloseOut, CloseOut, WaitForFeedback,
       ProcessHistogram, tuningVars, vars
  <2> QED BY <2>4, <2>5, <2>6
<1> QED BY <1>2, <1>3, <1>4

(* Every step keeps the settings of the iteration. *)
LEMMA SettingKept ==
    ASSUME TuningInv, TuneInv, SettingInv, [TuningNext]_tuningVars
    PROVE  SettingInv'
<1>1. active' = active /\ (EvenTuning' <=> EvenTuning)
  BY ScanKept DEF TuningInv, Types
<1> SUFFICES ASSUME EvenTuning, NEW f \in active, f \notin waited'
             PROVE  /\ Ready' => Fits(dac[f], f)'
                    /\ \A i \in 1..Len(taken') :
                          taken'[i].stat[1] = m_cur'[1] => Fits(takenDac[i][f], f)'
  BY <1>1 DEF SettingInv
<1> QED BY SettingSent, SettingTaken

(* At the start of the scan nothing was taken. *)
LEMMA SettingStart ==
    ASSUME TuningInit
    PROVE  SettingInv
<1>1. taken = <<>> /\ phase \notin {"test", "part2"} /\ level = 1
  BY DEF TuningInit, Init
<1> QED BY <1>1 DEF SettingInv, Ready, Taking, Running

(* For any number of front ends, answers and mask stages, in a tuning whose *)
(* analysis expects as many histograms as the loops give: the feedback loop *)
(* gets one answer per iteration, and it is about the data and the setting  *)
(* of that iteration.                                                       *)
THEOREM AnswersAreOfIteration == TuningSpec => []AnswerOfIteration
<1> DEFINE J == Unset /\ TuneInv /\ AnswerInv /\ SettingInv
<1>1. TuningInit => J
  BY InvStart, OrderStart, TuneStart, AnswerStart, SettingStart DEF TuningInit, TuningInv, Types
<1>2. TuningInv /\ J /\ [TuningNext]_tuningVars => J'
  <2> SUFFICES ASSUME TuningInv, J, [TuningNext]_tuningVars PROVE J'
    OBVIOUS
  <2>1. Types /\ EngineTypes /\ ExecutingInv /\ PixelInv
    BY DEF TuningInv, Types
  <2>2. EngineMove
    BY <2>1, StepIsMove
  <2> QED BY <2>1, <2>2, UnsetKept, TuneKept, AnswerKept, SettingKept
<1>3. TuningInv /\ J => AnswerOfIteration
  <2> SUFFICES ASSUME TuningInv, J, EvenTuning, NEW f \in active, NEW k \in DOMAIN fb[f]
               PROVE  LET from == fb[f][k].from
                          now == {i \in DOMAIN taken : taken[i].stat[1] = m_cur[1]}
                      IN  /\ k = 1
                          /\ {from[i] : i \in DOMAIN from} = now
                          /\ f \notin waited
                          /\ \A i \in now :
                                IF loops[1].kind = "globalFeedback"
                                THEN takenDac[i][f].reg = tune[f].value
                                ELSE takenDac[i][f].tdac = pix[f].tdac
    BY DEF AnswerOfIteration
  <2> DEFINE from == fb[f][k].from
             now == {i \in DOMAIN taken : taken[i].stat[1] = m_cur[1]}
  <2>1. Types /\ EngineTypes /\ f \in FE /\ fb[f] \in Seq(AnswerType)
    BY SetupFacts DEF TuningInv, Types, AnalysisTypes
  <2>2. PICK t : Split(t, 2)
    BY <2>1, IterationData
  <2>3. /\ t \in Nat /\ Len(taken) \in Nat /\ Len(taken) <= t + NCount /\ NCount \in Nat /\ t <= Len(taken)
        /\ DOMAIN taken = 1..Len(taken) /\ m_cur[1] \in Int
    BY <2>1, <2>2, IterationData, SplitTypes, CountOfIteration, TakenStat
  <2>4. AnswerAt(f, t)
    BY <2>2 DEF AnswerInv
  <2>5. fb[f] # <<>>
    OBVIOUS
  <2>6. Answered(f, t) /\ seen[f] <= Len(taken)
    BY <2>4, <2>5 DEF AnswerAt, Adding, Fetched
  <2>7. k = 1 /\ from = Numbers(t, NCount) /\ f \notin waited /\ Len(taken) = t + NCount
    <3>1. k \in 1..Len(fb[f]) /\ Len(fb[f]) = 1
      BY <2>1, <2>6 DEF Answered
    <3>2. k = 1
      BY <3>1
    <3>3. seen[f] = t + NCount
      BY <2>6 DEF Answered
    <3> QED BY <2>3, <2>6, <3>2, <3>3 DEF Answered
  <2> PICK n, m : n = NCount /\ m = Len(taken)
    OBVIOUS
  <2>8. now = {i \in 1..m : i > t}
    <3>1. \A i \in 1..m : IF i <= t THEN taken[i].stat[1] < m_cur[1] ELSE taken[i].stat[1] = m_cur[1]
      BY <2>2 DEF Split
    <3>2. \A i \in 1..m : taken[i].stat[1] = m_cur[1] <=> i > t
      BY <2>3, <3>1
    <3> QED BY <2>3, <3>2
  <2>9. {from[i] : i \in DOMAIN from} = {i \in 1..m : i > t}
    <3>0. from = Numbers(t, n) /\ n \in Nat
      BY <2>3, <2>7
    <3>2. m = t + n
      BY <2>7
    <3> HIDE DEF from
    <3>1. DOMAIN from = 1..n /\ \A i \in 1..n : from[i] = t + i
      BY <2>3, <3>0, NumbersFacts
    <3>3. {from[i] : i \in DOMAIN from} = {t + i : i \in 1..n}
      BY <3>1
    <3>4. \A x \in {i \in 1..m : i > t} : x - t \in 1..n /\ x = t + (x - t)
      BY <2>3, <3>2
    <3>5. \A i \in 1..n : t + i \in {j \in 1..m : j > t}
      BY <2>3, <3>2
    <3>6. {t + i : i \in 1..n} = {i \in 1..m : i > t}
      BY <3>4, <3>5
    <3> QED BY <3>3, <3>6
  <2>10. \A i \in now : Fits(takenDac[i][f], f)
    <3>1. f \in active \ waited
      BY <2>7
    <3> QED BY <2>3, <3>1 DEF SettingInv
  <2> QED BY <2>7, <2>8, <2>9, <2>10 DEF Fits
<1> QED BY <1>1, <1>2, <1>3, TuningInvariant, PTL DEF TuningSpec

----------------------------------------------------------------------------
(* How much is selected of a beginning and the element after it. *)
LEMMA SelectedPrefix ==
    ASSUME NEW U, NEW s \in Seq(U), NEW S, NEW k \in Nat, k + 1 <= Len(s)
    PROVE  /\ Len(Selected(SubSeq(s, 1, k), S)) \in Nat
           /\ Len(Selected(SubSeq(s, 1, k + 1), S))
                = Len(Selected(SubSeq(s, 1, k), S)) + (IF s[k + 1] \in S THEN 1 ELSE 0)
<1> PICK p, e, x : p = SubSeq(s, 1, k) /\ e = s[k + 1] /\ x = Selected(<<e>>, S)
  OBVIOUS
<1>1. p \in Seq(U) /\ e \in U /\ <<e>> \in Seq(U)
  OBVIOUS
<1>2. SubSeq(s, 1, k + 1) = p \o <<e>>
  <2>1. 1 \in 1..Len(s) /\ k + 1 \in 1..Len(s) /\ (k + 1) - 1 = k
    OBVIOUS
  <2> QED BY <2>1, SubSeqRecursiveSecond
<1>3. x = IF e \in S THEN <<e>> ELSE <<>>
  BY SelectedOne
<1>4. x \in Seq(U) /\ Len(x) = IF e \in S THEN 1 ELSE 0
  <2>1. CASE e \in S
    <3>1. x = <<e>> /\ Len(<<e>>) = 1
      BY <1>3, <2>1
    <3> QED BY <1>1, <2>1, <3>1
  <2>2. CASE e \notin S
    <3>1. x = <<>>
      BY <1>3, <2>2
    <3> QED BY <2>2, <3>1
  <2> QED BY <2>1, <2>2
<1> PICK o : o = <<e>>
  OBVIOUS
<1>5. Selected(p \o o, S) = Selected(p, S) \o Selected(o, S)
  <2>1. o \in Seq(U)
    BY <1>1
  <2>2. \A a, b \in Seq(U) : Selected(a \o b, S) = Selected(a, S) \o Selected(b, S)
    BY SelectedConcat
  <2> QED BY <1>1, <2>1, <2>2, Zenon
<1> PICK q : q = Selected(p, S)
  OBVIOUS
<1>6. q \in Seq(U) /\ Len(q) \in Nat
  <2>1. q \in Seq(U)
    BY <1>1, SelectedType
  <2> QED BY <2>1
<1>7. Len(q \o x) = Len(q) + Len(x)
  BY <1>4, <1>6, ConcatProperties
<1> QED BY <1>2, <1>4, <1>5, <1>6, <1>7

(* The same places are selected of two sequences. *)
SamePlaces(s, S, t, T) == Len(s) = Len(t) /\ \A k \in 1..Len(s) : s[k] \in S <=> t[k] \in T

(* Then as much is selected of the one as of the other. *)
LEMMA SelectedLen ==
    ASSUME NEW U, NEW V, NEW s \in Seq(U), NEW t \in Seq(V), NEW S, NEW T, SamePlaces(s, S, t, T)
    PROVE  Len(Selected(s, S)) = Len(Selected(t, T))
<1> DEFINE n == Len(s)
           a(k) == Len(Selected(SubSeq(s, 1, k), S))
           b(k) == Len(Selected(SubSeq(t, 1, k), T))
           N == {k \in Nat : k <= n => a(k) = b(k)}
<1>1. n \in Nat /\ Len(t) = n /\ \A k \in 1..n : s[k] \in S <=> t[k] \in T
  BY DEF SamePlaces
<1>2. a(0) = b(0)
  <2>1. SubSeq(s, 1, 0) = <<>> /\ SubSeq(t, 1, 0) = <<>>
    BY SubSeqEmpty
  <2> QED BY <2>1, SelectedEmpty
<1>3. ASSUME NEW k \in Nat, k + 1 <= n
      PROVE  /\ a(k + 1) = a(k) + (IF s[k + 1] \in S THEN 1 ELSE 0)
             /\ b(k + 1) = b(k) + (IF t[k + 1] \in T THEN 1 ELSE 0)
  BY <1>1, <1>3, SelectedPrefix
<1>4. a(n) = Len(Selected(s, S)) /\ b(n) = Len(Selected(t, T))
  <2>1. SubSeq(s, 1, n) = s /\ SubSeq(t, 1, n) = t
    BY <1>1, SubSeqFull
  <2> QED BY <2>1
<1> HIDE DEF a, b
<1>5. ASSUME NEW k \in Nat, k \in N PROVE k + 1 \in N
  <2> SUFFICES ASSUME k + 1 <= n PROVE a(k + 1) = b(k + 1)
    OBVIOUS
  <2>1. k + 1 \in 1..n /\ k <= n
    BY <1>1
  <2>2. s[k + 1] \in S <=> t[k + 1] \in T
    BY <1>1, <2>1
  <2> QED BY <1>3, <1>5, <2>1, <2>2
<1>6. 0 \in N
  BY <1>2
<1> HIDE DEF N
<1>7. n \in N
  BY <1>1, <1>5, <1>6, NatAll
<1> QED BY <1>1, <1>4, <1>7 DEF N

----------------------------------------------------------------------------
(* The positions of k loops. *)
Tuples(k) == {p \in Seq(Int) : Len(p) = k}

(* A position with one more loop around it. *)
LEMMA TupleFacts ==
    ASSUME NEW k \in Nat, NEW v \in Int, NEW p \in Tuples(k)
    PROVE  /\ <<v>> \o p \in Tuples(k + 1) /\ (<<v>> \o p)[1] = v
           /\ \A i \in 1..k : (<<v>> \o p)[i + 1] = p[i]
<1>1. <<v>> \in Seq(Int) /\ Len(<<v>>) = 1 /\ p \in Seq(Int) /\ Len(p) = k /\ <<v>>[1] = v
  BY DEF Tuples
<1> PICK u : u = <<v>>
  OBVIOUS
<1>2. /\ u \o p \in Seq(Int) /\ Len(u \o p) = 1 + k
      /\ \A i \in 1..(1 + k) : (u \o p)[i] = IF i <= 1 THEN u[i] ELSE p[i - 1]
  BY <1>1, ConcatProperties
<1>3. (u \o p)[1] = v /\ \A i \in 1..k : (u \o p)[i + 1] = p[i]
  <2>1. 1 \in 1..(1 + k) /\ \A i \in 1..k : i + 1 \in 1..(1 + k) /\ ~(i + 1 <= 1) /\ (i + 1) - 1 = i
    OBVIOUS
  <2> HIDE DEF Tuples
  <2> QED BY <1>1, <1>2, <2>1
<1> QED BY <1>2, <1>3 DEF Tuples

(* A loop around positions gives positions of one loop more. *)
LEMMA BlockTuples ==
    ASSUME NEW l \in LoopType, Regular(l), NEW k \in Nat, NEW s \in Seq(Tuples(k))
    PROVE  /\ \A v \in Int : Within(v, s) \in Seq(Tuples(k + 1))
           /\ Block(l, s) \in Seq(Tuples(k + 1))
<1>1. Runs(l) \in Nat /\ \A i \in Nat : Value(l, i) \in Int
  BY RunFacts
<1>2. DOMAIN s = 1..Len(s) /\ Len(s) \in Nat /\ \A j \in 1..Len(s) : s[j] \in Tuples(k)
  OBVIOUS
<1>3. ASSUME NEW v \in Int PROVE Within(v, s) \in Seq(Tuples(k + 1))
  <2> DEFINE P(j) == <<v>> \o s[j]
  <2>1. \A j \in 1..Len(s) : P(j) \in Tuples(k + 1)
    BY <1>2, TupleFacts
  <2>2. Within(v, s) = [j \in 1..Len(s) |-> P(j)]
    BY <1>2 DEF Within
  <2> HIDE DEF P
  <2> QED BY <1>2, <2>1, <2>2
<1> DEFINE W(i) == Within(Value(l, i), s)
<1>4. \A i \in 1..Runs(l) : W(i) \in Seq(Tuples(k + 1))
  BY <1>1, <1>3
<1>5. Block(l, s) = FlattenSeq([i \in 1..Runs(l) |-> W(i)])
  BY DEF Block
<1> HIDE DEF W
<1>6. [i \in 1..Runs(l) |-> W(i)] \in Seq(Seq(Tuples(k + 1)))
  <2> PICK V : V = Seq(Tuples(k + 1))
    OBVIOUS
  <2>1. \A i \in 1..Runs(l) : W(i) \in V
    BY <1>4
  <2> PICK n : n = Runs(l)
    OBVIOUS
  <2>2. [i \in 1..n |-> W(i)] \in [1..n -> V]
    BY <2>1
  <2>3. n \in Nat
    BY <1>1
  <2>4. [i \in 1..n |-> W(i)] \in Seq(V)
    BY <2>2, <2>3
  <2> QED BY <2>4
<1>7. FlattenSeq([i \in 1..Runs(l) |-> W(i)]) \in Seq(Tuples(k + 1))
  BY <1>6, FlattenType
<1> QED BY <1>3, <1>5, <1>7

(* The values of a regular loop that counts are different ones. *)
LEMMA ValuesDistinct ==
    ASSUME NEW l \in LoopType, Regular(l), l.kind \in Counted,
           NEW i \in 1..Runs(l), NEW j \in 1..Runs(l), Value(l, i) = Value(l, j)
    PROVE  i = j
<1> DEFINE H == WordSize \div 2
           Y(k) == l.min + (k - 1) * l.step
<1>1. /\ l.min \in Int /\ l.max \in Int /\ l.step \in Nat \ {0} /\ Final(l) \in Int
      /\ H \in Nat /\ Runs(l) \in Nat
  BY LoopEngineAssumption, RunFacts DEF LoopType, Final
<1>2. l.kind \notin {"repeater", "data"} /\ l.kind \notin Feedbacks
  BY DEF Counted, Stages, Feedbacks
<1>3. /\ Runs(l) = IF Final(l) < l.min THEN 1 ELSE (Final(l) - l.min) \div l.step + 1
      /\ \A k : Value(l, k) = Unsigned(Y(k))
  BY <1>2 DEF Runs, Value
<1>4. -H <= l.min /\ l.min + l.step < H /\ Final(l) + l.step < H
  BY <1>2 DEF Regular
<1>5. ASSUME NEW k \in 1..Runs(l) PROVE Signed(Value(l, k)) = Y(k)
  <2>1. Y(k) \in Int /\ -H <= Y(k) /\ Y(k) < H
    <3>1. CASE Final(l) < l.min
      <4>1. k = 1 /\ Y(1) = l.min
        BY <1>1, <1>3, <3>1
      <4> QED BY <1>1, <1>4, <4>1
    <3>2. CASE ~(Final(l) < l.min)
      <4> PICK d, q, m : d = Final(l) - l.min /\ q = d \div l.step /\ m = k - 1
        OBVIOUS
      <4>1. d \in Nat /\ m \in Nat
        BY <1>1, <3>2
      <4>2. q \in Nat /\ q * l.step <= d /\ Runs(l) = q + 1 /\ m <= q
        <5>1. q \in Nat /\ q * l.step <= d
          BY <1>1, <4>1, DivFacts
        <5>2. Runs(l) = q + 1
          BY <1>3, <3>2
        <5>3. m <= q
          BY <1>1, <5>1, <5>2
        <5> QED BY <5>1, <5>2, <5>3
      <4>3. m * l.step \in Nat /\ m * l.step <= q * l.step /\ q * l.step \in Nat
        BY <1>1, <4>1, <4>2, Multiples
      <4>4. Y(k) = l.min + m * l.step
        OBVIOUS
      <4> PICK x, z : x = m * l.step /\ z = q * l.step
        OBVIOUS
      <4> QED BY <1>1, <1>4, <4>1, <4>2, <4>3, <4>4
    <3> QED BY <3>1, <3>2
  <2> HIDE DEF Y
  <2> QED BY <1>3, <2>1, Converted
<1>6. Y(i) = Y(j)
  BY <1>5
<1> PICK a, b : a = i - 1 /\ b = j - 1
  OBVIOUS
<1>7. a \in Nat /\ b \in Nat /\ a * l.step \in Int /\ b * l.step \in Int
  BY <1>1
<1>8. a * l.step = b * l.step
  <2>1. l.min + a * l.step = l.min + b * l.step
    BY <1>6
  <2> PICK x, y : x = a * l.step /\ y = b * l.step
    OBVIOUS
  <2> QED BY <1>1, <1>7, <2>1
<1>9. a = b
  <2>1. a > b => a * l.step >= b * l.step + l.step
    BY <1>1, <1>7, Multiples
  <2>2. b > a => b * l.step >= a * l.step + l.step
    BY <1>1, <1>7, Multiples
  <2> QED BY <1>1, <1>7, <1>8, <2>1, <2>2
<1> QED BY <1>7, <1>9

(* The positions of a regular scan from a level on have one entry for each  *)
(* of its loops.                                                            *)
LEMMA FromTuples ==
    ASSUME EngineTypes, Nest(loops, 1)
    PROVE  \A l \in 1..(Len(loops) + 1) : From(loops, l) \in Seq(Tuples(Len(loops) + 1 - l))
<1> DEFINE n == Len(loops)
           T == {k \in Nat : k <= n => From(loops, n + 1 - k) \in Seq(Tuples(k))}
<1>1. n \in Nat /\ \A l \in 1..n : loops[l] \in LoopType /\ Regular(loops[l])
  <2>1. 1 \in 1..2
    OBVIOUS
  <2> QED BY <2>1, NestFacts
<1>2. 0 \in T
  <2>1. From(loops, n + 1) = <<<<>>>> /\ n + 1 - 0 = n + 1
    BY <1>1, FromFacts
  <2>2. <<>> \in Tuples(0)
    BY DEF Tuples
  <2>3. <<<<>>>> \in Seq(Tuples(0))
    BY <2>2
  <2> QED BY <2>1, <2>3
<1>3. ASSUME NEW k \in Nat, k \in T PROVE k + 1 \in T
  <2> SUFFICES ASSUME k + 1 <= n
               PROVE  From(loops, n + 1 - (k + 1)) \in Seq(Tuples(k + 1))
    OBVIOUS
  <2> PICK l, inner, loop : l = n + 1 - (k + 1) /\ inner = From(loops, l + 1) /\ loop = loops[l]
    OBVIOUS
  <2>1. l \in 1..n /\ l + 1 = n + 1 - k /\ k <= n
    BY <1>1
  <2>2. inner \in Seq(Tuples(k)) /\ loop \in LoopType /\ Regular(loop)
    BY <1>1, <1>3, <2>1
  <2>3. From(loops, l) = Block(loop, inner)
    BY <1>1, <2>1, FromFacts
  <2>4. Block(loop, inner) \in Seq(Tuples(k + 1))
    BY <2>2, BlockTuples
  <2> QED BY <2>3, <2>4
<1> HIDE DEF T
<1>4. Nat \subseteq T
  BY <1>2, <1>3, NatAll
<1>5. ASSUME NEW l \in 1..(n + 1) PROVE From(loops, l) \in Seq(Tuples(n + 1 - l))
  <2> PICK k : k = n + 1 - l
    OBVIOUS
  <2>1. k \in Nat /\ k <= n /\ n + 1 - k = l
    BY <1>1
  <2>2. k \in T
    BY <1>4, <2>1
  <2> QED BY <2>1, <2>2 DEF T
<1> QED BY <1>5

(* The positions from level l on that the loops that tell results apart do  *)
(* not tell from q.                                                         *)
Alike(l, q) == {p \in Seq(Int) : \A o \in Outer : o >= l => p[o - l + 1] = q[o]}

(* In a run of a loop there are as many as inside it, or none if the loop   *)
(* tells this run from q.                                                   *)
LEMMA CountWithin ==
    ASSUME EngineTypes, Nest(loops, 1), NEW l \in 1..Len(loops), NEW x \in Int, NEW q,
           NEW s \in Seq(Tuples(Len(loops) - l))
    PROVE  Len(Selected(Within(x, s), Alike(l, q)))
             = IF l \in Outer /\ x # q[l] THEN 0 ELSE Len(Selected(s, Alike(l + 1, q)))
<1> DEFINE n == Len(loops)
           w == Within(x, s)
<1> PICK k : k = n - l
  OBVIOUS
<1>1. n \in Nat /\ k \in Nat /\ Outer \subseteq 1..n /\ loops[l] \in LoopType /\ Regular(loops[l])
      /\ s \in Seq(Tuples(k))
  <2>1. 1 \in 1..2
    OBVIOUS
  <2>2. n \in Nat /\ Levels = 1..n /\ loops[l] \in LoopType /\ Regular(loops[l])
    BY <2>1, NestFacts
  <2> QED BY <2>2 DEF Outer
<1>2. w \in Seq(Tuples(k + 1))
  BY <1>1, BlockTuples
<1>3. DOMAIN s = 1..Len(s) /\ Len(s) \in Nat /\ \A j \in 1..Len(s) : s[j] \in Tuples(k)
  BY <1>1
<1>4. Len(w) = Len(s) /\ \A j \in 1..Len(s) : w[j] = <<x>> \o s[j]
  BY <1>3 DEF Within
<1> HIDE DEF w
<1>5. ASSUME NEW j \in 1..Len(s)
      PROVE  w[j] \in Alike(l, q) <=> (l \in Outer => x = q[l]) /\ s[j] \in Alike(l + 1, q)
  <2> PICK p, v : p = s[j] /\ v = w[j]
    OBVIOUS
  <2>1. p \in Tuples(k) /\ v \in Tuples(k + 1) /\ v[1] = x /\ \A i \in 1..k : v[i + 1] = p[i]
    <3>1. p \in Tuples(k) /\ v = <<x>> \o p
      BY <1>3, <1>4
    <3>2. <<x>> \o p \in Tuples(k + 1) /\ (<<x>> \o p)[1] = x /\ \A i \in 1..k : (<<x>> \o p)[i + 1] = p[i]
      BY <1>1, <3>1, TupleFacts, Zenon
    <3> QED BY <3>1, <3>2, Zenon
  <2>2. ASSUME NEW o \in Outer, o >= l
        PROVE  (v[o - l + 1] = q[o])
                  <=> IF o = l THEN x = q[l] ELSE o >= l + 1 /\ p[o - (l + 1) + 1] = q[o]
    <3>1. CASE o = l
      <4>1. o - l + 1 = 1
        BY <3>1
      <4> QED BY <2>1, <3>1, <4>1
    <3>2. CASE o # l
      <4>1. o - l \in 1..k /\ o - l + 1 = (o - l) + 1 /\ o - (l + 1) + 1 = o - l /\ o >= l + 1
        BY <1>1, <2>2, <3>2
      <4>2. v[(o - l) + 1] = p[o - l]
        BY <2>1, <4>1
      <4> QED BY <3>2, <4>1, <4>2
    <3> QED BY <3>1, <3>2
  <2>3. ASSUME NEW o \in Outer PROVE (o >= l <=> o = l \/ o >= l + 1) /\ (o = l => ~(o >= l + 1))
    BY <1>1
  <2>4. l >= l
    OBVIOUS
  <2>5. (\A o \in Outer : o >= l => v[o - l + 1] = q[o])
          <=> /\ l \in Outer => x = q[l]
              /\ \A o \in Outer : o >= l + 1 => p[o - (l + 1) + 1] = q[o]
    BY <2>2, <2>3, <2>4
  <2>6. p \in Seq(Int) /\ v \in Seq(Int)
    BY <2>1 DEF Tuples
  <2> QED BY <2>5, <2>6 DEF Alike
<1>6. CASE l \in Outer /\ x # q[l]
  <2>1. \A j \in 1..Len(w) : w[j] \in Alike(l, q) <=> s[j] \in {}
    BY <1>4, <1>5, <1>6
  <2>2. Len(Selected(w, Alike(l, q))) = Len(Selected(s, {}))
    <3>1. SamePlaces(w, Alike(l, q), s, {})
      BY <1>4, <2>1 DEF SamePlaces
    <3> QED BY <1>1, <1>2, <3>1, SelectedLen
  <2>3. Selected(s, {}) = <<>>
    BY <1>1, SelectedNone
  <2> QED BY <1>6, <2>2, <2>3 DEF w
<1>7. CASE ~(l \in Outer /\ x # q[l])
  <2>1. \A j \in 1..Len(w) : w[j] \in Alike(l, q) <=> s[j] \in Alike(l + 1, q)
    BY <1>4, <1>5, <1>7
  <2> PICK S, T : S = Alike(l, q) /\ T = Alike(l + 1, q)
    OBVIOUS
  <2>2. SamePlaces(w, S, s, T)
    BY <1>4, <2>1 DEF SamePlaces
  <2>3. Len(Selected(w, S)) = Len(Selected(s, T))
    BY <1>1, <1>2, <2>2, SelectedLen
  <2> QED BY <1>7, <2>3 DEF w
<1> QED BY <1>6, <1>7

(* C adds up the numbers of m, from the last one on. *)
AddsUp(n, c, m, C) ==
    /\ m \in [1..n -> {0, c}] /\ C \in [0..n -> Nat]
    /\ C[n] = 0 /\ \A i \in 0..(n - 1) : C[i] = m[i + 1] + C[i + 1]

AllSame(n, c, m) == \A i \in 1..n : m[i] = c
OnlyOne(n, m) == \A i, j \in 1..n : m[i] # 0 /\ m[j] # 0 => i = j

(* Adding up the same number n times, or a number at most once. *)
LEMMA SumFacts ==
    ASSUME NEW n \in Nat, NEW c \in Nat, NEW m, NEW C, AddsUp(n, c, m, C)
    PROVE  (AllSame(n, c, m) => C[0] = n * c) /\ (OnlyOne(n, m) => C[0] \in {0, c})
<1> USE DEF AddsUp
<1> DEFINE All == \A i \in 1..n : m[i] = c
           Single == \A i, j \in 1..n : m[i] # 0 /\ m[j] # 0 => i = j
           Same(k) == All => C[n - k] = k * c
           Once(k) == Single => /\ C[n - k] \in {0, c}
                                /\ (\A j \in (n - k + 1)..n : m[j] = 0) => C[n - k] = 0
           T == {k \in Nat : k <= n => Same(k) /\ Once(k)}
<1>1. 0 \in T
  <2>1. n - 0 = n /\ 0 * c = 0
    OBVIOUS
  <2> QED BY <2>1
<1>2. ASSUME NEW k \in Nat, k \in T PROVE k + 1 \in T
  <2> SUFFICES ASSUME k + 1 <= n PROVE Same(k + 1) /\ Once(k + 1)
    OBVIOUS
  <2>1. k <= n /\ Same(k) /\ Once(k)
    BY <1>2
  <2> PICK i : i = n - (k + 1)
    OBVIOUS
  <2>2. /\ i \in 0..(n - 1) /\ i + 1 = n - k /\ i + 1 \in 1..n /\ i + 1 \in 0..n
        /\ n - (k + 1) + 1 = i + 1 /\ n - k + 1 = i + 2
    OBVIOUS
  <2>3. C[i] = m[i + 1] + C[i + 1] /\ C[i + 1] \in Nat /\ m[i + 1] \in {0, c}
    BY <2>2
  <2>4. ASSUME All PROVE C[i] = (k + 1) * c
    <3>1. C[i + 1] = k * c /\ m[i + 1] = c
      BY <2>1, <2>2, <2>4
    <3>2. k * c \in Nat /\ (k + 1) * c = k * c + c
      OBVIOUS
    <3> QED BY <2>3, <3>1, <3>2
  <2>5. ASSUME Single PROVE C[i] \in {0, c} /\ ((\A j \in (i + 1)..n : m[j] = 0) => C[i] = 0)
    <3>1. C[i + 1] \in {0, c} /\ ((\A j \in (i + 2)..n : m[j] = 0) => C[i + 1] = 0)
      BY <2>1, <2>2, <2>5
    <3>2. \A j \in (i + 2)..n : j \in (i + 1)..n /\ j \in 1..n /\ j # i + 1
      BY <2>2
    <3>3. i + 1 \in (i + 1)..n
      BY <2>2
    <3>4. CASE m[i + 1] = 0
      <4>1. C[i] = C[i + 1]
        BY <2>3, <3>4
      <4> QED BY <3>1, <3>2, <4>1
    <3>5. CASE m[i + 1] # 0
      <4>1. \A j \in (i + 2)..n : m[j] = 0
        BY <2>2, <2>5, <3>2, <3>5
      <4>2. C[i] = c
        BY <2>3, <3>1, <3>5, <4>1
      <4> QED BY <3>3, <3>5, <4>2
    <3> QED BY <3>4, <3>5
  <2> QED BY <2>2, <2>4, <2>5
<1> HIDE DEF T
<1>3. n \in T
  BY <1>1, <1>2, NatAll
<1>4. Same(n) /\ Once(n) /\ n - n = 0
  BY <1>3 DEF T
<1> QED BY <1>4 DEF AllSame, OnlyOne

(* How much is selected in each run of a loop. *)
EachRun(l, s, A, c, m) ==
    /\ m \in [1..Runs(l) -> {0, c}]
    /\ \A i \in 1..Runs(l) : Len(Selected(Within(Value(l, i), s), A)) = m[i]

(* A loop with as much selected in each of its runs, and one with something *)
(* selected in a single run at most.                                        *)
LEMMA CountLoop ==
    ASSUME NEW l \in LoopType, Regular(l), NEW s \in Positions, NEW A, NEW c \in Nat,
           NEW m, EachRun(l, s, A, c, m)
    PROVE  /\ AllSame(Runs(l), c, m) => Len(Selected(Block(l, s), A)) = Runs(l) * c
           /\ OnlyOne(Runs(l), m) => Len(Selected(Block(l, s), A)) \in {0, c}
<1> DEFINE n == Runs(l)
           L(i) == Later(l, s, i)
           N(i) == Len(Selected(L(i), A))
<1>1. /\ n \in Nat \ {0}
      /\ \A i \in Nat : Value(l, i) \in Int
      /\ \A i \in 0..n : L(i) \in Positions
      /\ L(0) = Block(l, s) /\ L(n) = <<>>
      /\ \A i \in 0..(n - 1) : L(i) = Cat(Within(Value(l, i + 1), s), L(i + 1))
  <2>1. n \in Nat \ {0} /\ \A i \in Nat : Value(l, i) \in Int
    BY RunFacts
  <2> QED BY <2>1, LaterFacts
<1>2. \A p \in Positions : Selected(p, A) \in Positions /\ Len(Selected(p, A)) \in Nat
  <2>1. ASSUME NEW p \in Seq(Seq(Int)) PROVE Selected(p, A) \in Seq(Seq(Int))
    BY SelectedType
  <2> QED BY <2>1 DEF Positions
<1>3. \A p, r \in Positions : Len(Selected(Cat(p, r), A)) = Len(Selected(p, A)) + Len(Selected(r, A))
  <2>1. ASSUME NEW p \in Seq(Seq(Int)), NEW r \in Seq(Seq(Int))
        PROVE  Selected(p \o r, A) = Selected(p, A) \o Selected(r, A)
    BY SelectedConcat
  <2>2. ASSUME NEW p \in Seq(Seq(Int)), NEW r \in Seq(Seq(Int)) PROVE Len(p \o r) = Len(p) + Len(r)
    BY ConcatProperties
  <2> QED BY <1>2, <2>1, <2>2 DEF Positions, Cat
<1>4. N(n) = 0
  <2>1. Selected(L(n), A) = <<>>
    BY <1>1, SelectedEmpty
  <2> QED BY <2>1
<1>5. ASSUME NEW i \in 0..(n - 1) PROVE N(i) = m[i + 1] + N(i + 1)
  <2>1. i + 1 \in Nat /\ i + 1 \in 0..n /\ i + 1 \in 1..n
    BY <1>1
  <2>2. Within(Value(l, i + 1), s) \in Positions /\ L(i + 1) \in Positions
    BY <1>1, <2>1, WithinType
  <2>3. /\ L(i) = Cat(Within(Value(l, i + 1), s), L(i + 1))
        /\ Len(Selected(Within(Value(l, i + 1), s), A)) = m[i + 1]
    BY <1>1, <2>1 DEF EachRun
  <2> HIDE DEF L
  <2> QED BY <1>3, <2>2, <2>3
<1>6. \A i \in 0..n : N(i) \in Nat
  BY <1>1, <1>2
<1>7. N(0) = Len(Selected(Block(l, s), A))
  BY <1>1
<1> HIDE DEF L, N
<1> HIDE DEF n
<1>8. \E C : C[0] = N(0) /\ AddsUp(n, c, m, C)
  <2> PICK k, C : k = n /\ C = [i \in 0..n |-> N(i)]
    OBVIOUS
  <2>1. /\ k \in Nat /\ k \in 0..k /\ 0 \in 0..k
        /\ \A i \in 0..(k - 1) : i \in 0..k /\ i + 1 \in 0..k
    BY <1>1
  <2>2. \A i \in 0..k : C[i] = N(i)
    OBVIOUS
  <2>3. C \in [0..k -> Nat]
    BY <1>6
  <2>4. m \in [1..k -> {0, c}]
    BY DEF n, EachRun
  <2>5. C[0] = N(0) /\ AddsUp(k, c, m, C)
    BY <1>4, <1>5, <2>1, <2>2, <2>3, <2>4 DEF AddsUp
  <2> QED BY <2>5
<1>9. PICK C : C[0] = N(0) /\ AddsUp(n, c, m, C)
  BY <1>8
<1>10. (AllSame(n, c, m) => C[0] = n * c) /\ (OnlyOne(n, m) => C[0] \in {0, c})
  <2>1. \A x, y : AddsUp(n, c, x, y) =>
           (AllSame(n, c, x) => y[0] = n * c) /\ (OnlyOne(n, x) => y[0] \in {0, c})
    BY <1>1, SumFacts
  <2> QED BY <1>9, <2>1, Zenon
<1> QED BY <1>7, <1>9, <1>10 DEF n

(* The product of n_count, factor by factor. *)
LEMMA ProductFacts ==
    ASSUME Len(loops) \in Nat, \A l \in 1..Len(loops) : Count(loops[l]) \in Nat \ {0}
    PROVE  \E g : /\ NCount = g[Len(loops)] /\ g[0] = 1
                  /\ \A k \in 0..Len(loops) : g[k] \in Nat \ {0}
                  /\ \A k \in 1..Len(loops) : g[k] = g[k - 1] * Count(loops[k])
<1> PICK n : n = Len(loops)
  OBVIOUS
<1>1. PICK g : IsProduct(g, n) /\ NCount = g[n]
  <2> DEFINE g == CHOOSE x : IsProduct(x, n)
  <2>1. NCount = g[n]
    BY DEF NCount, IsProduct
  <2>2. IsProduct(g, n)
    BY ProductsExist
  <2> QED BY <2>1, <2>2
<1>2. \A k \in 0..n : g[k] = IF k = 0 THEN 1 ELSE g[k - 1] * Count(loops[k])
  <2>1. g = [k \in 0..n |-> IF k = 0 THEN 1 ELSE g[k - 1] * Count(loops[k])]
    BY <1>1 DEF IsProduct
  <2> QED BY <2>1, Zenon
<1>3. g[0] = 1 /\ \A k \in 1..n : g[k] = g[k - 1] * Count(loops[k])
  <2>1. 0 \in 0..n /\ \A k \in 1..n : k \in 0..n /\ k # 0
    OBVIOUS
  <2> QED BY <1>2, <2>1
<1> DEFINE T == {k \in Nat : k <= n => g[k] \in Nat \ {0}}
<1>4. 0 \in T
  BY <1>3
<1>5. ASSUME NEW k \in Nat, k \in T PROVE k + 1 \in T
  <2> SUFFICES ASSUME k + 1 <= n PROVE g[k + 1] \in Nat \ {0}
    OBVIOUS
  <2> PICK a, c : a = g[k] /\ c = Count(loops[k + 1])
    OBVIOUS
  <2>1. k + 1 \in 1..n /\ (k + 1) - 1 = k /\ k <= n
    OBVIOUS
  <2>2. a \in Nat \ {0} /\ c \in Nat \ {0} /\ g[k + 1] = a * c
    BY <1>3, <1>5, <2>1
  <2>3. a * c \in Nat \ {0}
    BY <2>2
  <2> QED BY <2>2, <2>3
<1> HIDE DEF T
<1>6. Nat \subseteq T
  BY <1>4, <1>5, NatAll
<1>7. \A k \in 0..n : g[k] \in Nat \ {0}
  <2>1. \A k \in 0..n : k \in Nat /\ k <= n
    OBVIOUS
  <2> QED BY <1>6, <2>1 DEF T
<1> QED BY <1>1, <1>3, <1>7

(* What is known of the loops of such a scan. *)
LEMMA EvenScanFacts ==
    ASSUME EngineTypes, EvenScan
    PROVE  /\ Nest(loops, 1) /\ Len(loops) \in Nat \ {0} /\ Levels = 1..Len(loops)
           /\ Outer \subseteq 1..Len(loops)
           /\ \A l \in 1..Len(loops) :
                 /\ loops[l] \in LoopType /\ Regular(loops[l]) /\ Runs(loops[l]) \in Nat \ {0}
                 /\ l \notin Outer => Count(loops[l]) = Runs(loops[l])
                 /\ l \in Outer => Count(loops[l]) = 1 /\ loops[l].kind \in Counted
<1>0. 1 \in 1..2
  OBVIOUS
<1>1. Nest(loops, 1)
  BY DEF EvenScan, Nest
<1>2. /\ Len(loops) \in Nat \ {0} /\ Levels = 1..Len(loops)
      /\ \A l \in 1..Len(loops) : /\ loops[l] \in LoopType /\ Regular(loops[l])
                                  /\ loops[l].kind \in Counted \cup {"repeater", "data"}
  <2>1. Len(loops) \in Nat /\ 1 <= Len(loops) /\ Levels = 1..Len(loops)
    BY <1>0, <1>1, NestFacts
  <2>2. ASSUME NEW l \in 1..Len(loops)
        PROVE  /\ loops[l] \in LoopType /\ Regular(loops[l])
               /\ loops[l].kind \in Counted \cup {"repeater", "data"}
    BY <1>0, <1>1, NestFacts
  <2> QED BY <2>1, <2>2
<1>3. ASSUME NEW l \in 1..Len(loops)
      PROVE  /\ loops[l] \in LoopType /\ Regular(loops[l]) /\ Runs(loops[l]) \in Nat \ {0}
             /\ l \notin Outer => Count(loops[l]) = Runs(loops[l])
             /\ l \in Outer => Count(loops[l]) = 1 /\ loops[l].kind \in Counted
  <2>1. l \in Outer <=> ~Adds(loops[l])
    BY <1>2 DEF Outer
  <2>2. Runs(loops[l]) \in Nat \ {0}
    BY <1>2, RunFacts
  <2>3. ASSUME Adds(loops[l]) PROVE Count(loops[l]) = Runs(loops[l])
    BY <1>2, <2>3, EvenCount DEF EvenScan
  <2>4. ASSUME ~Adds(loops[l]) PROVE Count(loops[l]) = 1 /\ loops[l].kind \in Counted
    BY <1>2, <2>4 DEF Count, Adds
  <2> QED BY <1>2, <2>1, <2>2, <2>3, <2>4
<1>4. Outer \subseteq 1..Len(loops)
  BY <1>2 DEF Outer
<1> QED BY <1>1, <1>2, <1>3, <1>4

(* At a position of the loops that tell results apart data are taken        *)
(* n_count times, or not at all.                                            *)
LEMMA CountAlike ==
    ASSUME EngineTypes, EvenScan, NEW q
    PROVE  NCount \in Nat \ {0} /\ Len(Selected(From(loops, 1), Alike(1, q))) \in {0, NCount}
<1> PICK n : n = Len(loops)
  OBVIOUS
<1>1. /\ Nest(loops, 1) /\ n \in Nat \ {0}
      /\ \A l \in 1..n : /\ loops[l] \in LoopType /\ Regular(loops[l])
                         /\ Runs(loops[l]) \in Nat \ {0}
                         /\ l \notin Outer => Count(loops[l]) = Runs(loops[l])
                         /\ l \in Outer => Count(loops[l]) = 1 /\ loops[l].kind \in Counted
  BY EvenScanFacts
<1>2. \A l \in 1..n : Count(loops[l]) \in Nat \ {0}
  BY <1>1
<1>3. PICK g : /\ NCount = g[n] /\ g[0] = 1
               /\ \A k \in 0..n : g[k] \in Nat \ {0}
               /\ \A k \in 1..n : g[k] = g[k - 1] * Count(loops[k])
  BY <1>1, <1>2, ProductFacts
<1> DEFINE D(l) == Len(Selected(From(loops, l), Alike(l, q)))
           T == {k \in Nat : k <= n =>
                   \E c \in Nat \ {0} : D(n + 1 - k) \in {0, c} /\ g[n - k] * c = NCount}
<1>4. 0 \in T
  <2>1. From(loops, n + 1) = <<<<>>>> /\ n + 1 - 0 = n + 1 /\ n - 0 = n
    BY <1>1, FromFacts
  <2> PICK e : e = <<>>
    OBVIOUS
  <2>2. D(n + 1) \in {0, 1}
    <3>1. Selected(<<e>>, Alike(n + 1, q)) = IF e \in Alike(n + 1, q) THEN <<e>> ELSE <<>>
      BY SelectedOne
    <3>2. Len(<<e>>) = 1 /\ Len(<<>>) = 0
      OBVIOUS
    <3> QED BY <2>1, <3>1, <3>2
  <2>3. g[n] * 1 = NCount
    <3>1. n \in 0..n
      BY <1>1
    <3> QED BY <1>3, <3>1
  <2> HIDE DEF D
  <2>4. 1 \in Nat \ {0}
    OBVIOUS
  <2>5. \E c \in Nat \ {0} : D(n + 1 - 0) \in {0, c} /\ g[n - 0] * c = NCount
    BY <2>1, <2>2, <2>3, <2>4
  <2> QED BY <2>5
<1>5. ASSUME NEW l \in 1..n, NEW c \in Nat \ {0}, D(l + 1) \in {0, c}
      PROVE  D(l) \in {0, Count(loops[l]) * c}
  <2> PICK loop, s, e, A : /\ loop = loops[l] /\ s = From(loops, l + 1)
                           /\ e = D(l + 1) /\ A = Alike(l, q)
    OBVIOUS
  <2>1. /\ l + 1 \in 1..(n + 1) /\ n + 1 - (l + 1) = n - l
        /\ loop \in LoopType /\ Regular(loop) /\ Runs(loop) \in Nat \ {0}
    BY <1>1
  <2>2. s \in Seq(Tuples(n - l)) /\ s \in Positions
    <3>1. s \in Seq(Tuples(n - l))
      BY <1>1, <2>1, FromTuples
    <3>2. 1 \in 1..2
      OBVIOUS
    <3> QED BY <1>1, <2>1, <3>1, <3>2, LeftFacts
  <2>3. From(loops, l) = Block(loop, s)
    BY <1>1, FromFacts
  <2> DEFINE M(i) == IF l \in Outer /\ Value(loop, i) # q[l] THEN 0 ELSE e
  <2>4. \A i \in 1..Runs(loop) : Len(Selected(Within(Value(loop, i), s), A)) = M(i)
    <3>1. \A i \in 1..Runs(loop) : Value(loop, i) \in Int
      BY <2>1, RunFacts
    <3> QED BY <1>1, <2>2, <3>1, CountWithin
  <2>5. e \in {0, c} /\ e \in Nat
    BY <1>5
  <2> HIDE DEF D
  <2> PICK m : m = [i \in 1..Runs(loop) |-> M(i)]
    OBVIOUS
  <2>6. m \in [1..Runs(loop) -> {0, e}] /\ \A i \in 1..Runs(loop) : m[i] = M(i)
    OBVIOUS
  <2>7. EachRun(loop, s, A, e, m)
    BY <2>4, <2>6 DEF EachRun
  <2>8. /\ AllSame(Runs(loop), e, m) => D(l) = Runs(loop) * e
        /\ OnlyOne(Runs(loop), m) => D(l) \in {0, e}
    <3>1. /\ AllSame(Runs(loop), e, m) => Len(Selected(Block(loop, s), A)) = Runs(loop) * e
          /\ OnlyOne(Runs(loop), m) => Len(Selected(Block(loop, s), A)) \in {0, e}
      <4>1. \A x : EachRun(loop, s, A, e, x) =>
               /\ AllSame(Runs(loop), e, x) => Len(Selected(Block(loop, s), A)) = Runs(loop) * e
               /\ OnlyOne(Runs(loop), x) => Len(Selected(Block(loop, s), A)) \in {0, e}
        BY <2>1, <2>2, <2>5, CountLoop
      <4> QED BY <2>7, <4>1
    <3> QED BY <2>3, <3>1 DEF D
  <2>9. CASE l \notin Outer
    <3>1. AllSame(Runs(loop), e, m)
      BY <2>6, <2>9 DEF AllSame
    <3>2. D(l) = Runs(loop) * e /\ Count(loop) = Runs(loop)
      BY <1>1, <2>8, <2>9, <3>1
    <3>3. Runs(loop) * 0 = 0
      BY <2>1
    <3> QED BY <2>5, <3>2, <3>3
  <2>10. CASE l \in Outer
    <3>1. \A i \in 1..Runs(loop) : m[i] # 0 => Value(loop, i) = q[l]
      BY <2>6, <2>10
    <3>2. \A i, j \in 1..Runs(loop) : Value(loop, i) = Value(loop, j) => i = j
      BY <1>1, <2>1, <2>10, ValuesDistinct
    <3>3. OnlyOne(Runs(loop), m)
      BY <3>1, <3>2 DEF OnlyOne
    <3>4. D(l) \in {0, e} /\ Count(loop) = 1 /\ 1 * c = c
      BY <1>1, <2>8, <2>10, <3>3
    <3> QED BY <2>5, <3>4
  <2> QED BY <2>9, <2>10
<1> HIDE DEF D
<1>6. ASSUME NEW k \in Nat, k \in T PROVE k + 1 \in T
  <2> SUFFICES ASSUME k + 1 <= n
               PROVE  \E c \in Nat \ {0} : D(n + 1 - (k + 1)) \in {0, c} /\ g[n - (k + 1)] * c = NCount
    OBVIOUS
  <2> PICK l : l = n - k
    OBVIOUS
  <2>1. l \in 1..n /\ l - 1 \in 0..n /\ n + 1 - (k + 1) = l /\ n - (k + 1) = l - 1 /\ n + 1 - k = l + 1 /\ k <= n
    BY <1>1
  <2>2. PICK c \in Nat \ {0} : D(l + 1) \in {0, c} /\ g[l] * c = NCount
    BY <1>6, <2>1
  <2>3. D(l) \in {0, Count(loops[l]) * c}
    BY <1>5, <2>1, <2>2
  <2> PICK a, b : a = g[l - 1] /\ b = Count(loops[l])
    OBVIOUS
  <2>4. a \in Nat /\ b \in Nat \ {0} /\ g[l] = a * b
    BY <1>2, <1>3, <2>1
  <2>5. (a * b) * c = a * (b * c) /\ b * c \in Nat \ {0}
    BY <2>4
  <2> PICK d : d = b * c
    OBVIOUS
  <2>6. d \in Nat \ {0} /\ D(l) \in {0, d} /\ a * d = NCount
    BY <2>2, <2>3, <2>4, <2>5
  <2> QED BY <2>1, <2>6
<1> HIDE DEF T
<1>7. n \in T
  BY <1>1, <1>4, <1>6, NatAll
<1>8. PICK c \in Nat \ {0} : D(1) \in {0, c} /\ g[0] * c = NCount
  <2>1. n + 1 - n = 1 /\ n - n = 0 /\ n <= n
    BY <1>1
  <2> QED BY <1>7, <2>1 DEF T
<1>9. c = NCount
  BY <1>3, <1>8
<1> QED BY <1>8, <1>9 DEF D

----------------------------------------------------------------------------
(* A scan with at most one loop that tells results apart. *)
LEMMA OuterOne ==
    ASSUME EngineTypes, EvenScan, Cardinality(Outer) <= 1
    PROVE  \E o \in 1..Len(loops) : Outer \subseteq {o}
<1>1. Len(loops) \in Nat \ {0} /\ Outer \subseteq 1..Len(loops)
  BY EvenScanFacts
<1>2. IsFiniteSet(Outer)
  <2>1. IsFiniteSet(1..Len(loops))
    BY <1>1, FS_Interval
  <2> QED BY <1>1, <2>1, FS_Subset
<1>3. ASSUME NEW x \in Outer, NEW y \in Outer PROVE x = y
  <2> SUFFICES ASSUME x # y PROVE FALSE
    OBVIOUS
  <2>1. IsFiniteSet({x}) /\ Cardinality({x}) = 1
    BY FS_Singleton
  <2>2. Cardinality({x} \cup {y}) = 2
    <3>1. y \notin {x}
      OBVIOUS
    <3>2. Cardinality({x} \cup {y}) = Cardinality({x}) + 1
      BY <2>1, <3>1, FS_AddElement
    <3> QED BY <2>1, <3>2
  <2>3. Cardinality({x} \cup {y}) <= Cardinality(Outer)
    <3>1. {x} \cup {y} \subseteq Outer
      OBVIOUS
    <3> QED BY <1>2, <3>1, FS_Subset
  <2>4. Cardinality(Outer) \in Nat
    BY <1>2, FS_CardinalityType
  <2> QED BY <2>2, <2>3, <2>4
<1>4. CASE Outer = {}
  <2>1. 1 \in 1..Len(loops)
    BY <1>1
  <2> QED BY <1>4, <2>1
<1>5. CASE Outer # {}
  BY <1>1, <1>3, <1>5
<1> QED BY <1>4, <1>5

(* The identifier is the position of that loop. *)
LEMMA IdentOuter ==
    ASSUME Len(loops) \in Nat, NEW o \in 1..Len(loops), Outer \subseteq {o}, Levels = 1..Len(loops),
           NEW st, st[o] \in Int
    PROVE  Ident(st) = IF o \in Outer THEN st[o] ELSE 0
<1> PICK n : n = Len(loops)
  OBVIOUS
<1>1. \A l \in 1..n : Adds(loops[l]) <=> ~(l = o /\ o \in Outer)
  BY DEF Outer
<1>2. PICK g : IsIdent(g, st, n) /\ Ident(st) = g[n].ident
  <2> DEFINE g == CHOOSE x : IsIdent(x, st, n)
  <2>1. Ident(st) = g[n].ident
    BY DEF Ident, IsIdent, NextIdent, FirstIdent
  <2>2. IsIdent(g, st, n)
    BY IdentsExist
  <2> QED BY <2>1, <2>2
<1>3. \A k \in 0..n : g[k] = IF k = 0 THEN FirstIdent ELSE NextIdent(st, k, g[k - 1])
  <2>1. g = [k \in 0..n |-> IF k = 0 THEN FirstIdent ELSE NextIdent(st, k, g[k - 1])]
    BY <1>2 DEF IsIdent
  <2> QED BY <2>1, Zenon
<1> DEFINE Right(k) == IF o \in Outer /\ o <= k THEN g[k].ident = st[o] ELSE g[k] = FirstIdent
           T == {k \in Nat : k <= n => Right(k)}
<1>4. 0 \in T
  <2>1. 0 \in 0..n /\ ~(o <= 0)
    OBVIOUS
  <2> QED BY <1>3, <2>1
<1>5. ASSUME NEW k \in Nat, k \in T PROVE k + 1 \in T
  <2> SUFFICES ASSUME k + 1 <= n PROVE Right(k + 1)
    OBVIOUS
  <2>1. k + 1 \in 0..n /\ k + 1 \in 1..n /\ k + 1 # 0 /\ (k + 1) - 1 = k /\ k <= n
    OBVIOUS
  <2>2. g[k + 1] = NextIdent(st, k + 1, g[k]) /\ Right(k)
    BY <1>3, <1>5, <2>1
  <2>3. CASE k + 1 = o /\ o \in Outer
    <3>1. g[k] = FirstIdent /\ ~Adds(loops[k + 1])
      BY <1>1, <2>1, <2>2, <2>3
    <3>2. g[k].ident = 0 /\ g[k].offset = 1
      BY <3>1 DEF FirstIdent
    <3>3. g[k + 1].ident = 0 + st[o] * 1
      BY <2>2, <2>3, <3>1, <3>2 DEF NextIdent
    <3>4. g[k + 1].ident = st[o] /\ o <= k + 1
      BY <2>3, <3>3
    <3> QED BY <2>3, <3>4
  <2>4. CASE ~(k + 1 = o /\ o \in Outer)
    <3>1. g[k + 1] = g[k]
      BY <1>1, <2>1, <2>2, <2>4 DEF NextIdent
    <3>2. o \in Outer => (o <= k + 1 <=> o <= k)
      BY <2>4
    <3> QED BY <2>2, <3>1, <3>2
  <2> QED BY <2>3, <2>4
<1> HIDE DEF T
<1>6. n \in T
  BY <1>4, <1>5, NatAll
<1>7. Right(n) /\ o <= n
  BY <1>6 DEF T
<1> QED BY <1>2, <1>7 DEF FirstIdent

(* Positions have the same identifier when these loops do not tell them     *)
(* apart.                                                                   *)
LEMMA IdentAlike ==
    ASSUME EngineTypes, EvenScan, Cardinality(Outer) <= 1,
           NEW p \in Tuples(Len(loops)), NEW q \in Tuples(Len(loops))
    PROVE  /\ Ident(p) = Ident(q) <=> p \in Alike(1, q)
           /\ Ident(p) = Ident(q) <=> \A o \in Outer : p[o] = q[o]
<1>1. Len(loops) \in Nat /\ Levels = 1..Len(loops)
  BY EvenScanFacts
<1>2. PICK o \in 1..Len(loops) : Outer \subseteq {o}
  BY OuterOne
<1>3. p \in Seq(Int) /\ p[o] \in Int /\ q[o] \in Int
  BY DEF Tuples
<1>4. /\ Ident(p) = IF o \in Outer THEN p[o] ELSE 0
      /\ Ident(q) = IF o \in Outer THEN q[o] ELSE 0
  BY <1>1, <1>2, <1>3, IdentOuter
<1>5. o - 1 + 1 = o /\ o >= 1
  OBVIOUS
<1>6. Ident(p) = Ident(q) <=> \A x \in Outer : p[x] = q[x]
  BY <1>2, <1>4
<1>7. p \in Alike(1, q) <=> \A x \in Outer : p[x] = q[x]
  BY <1>2, <1>3, <1>5 DEF Alike
<1> QED BY <1>6, <1>7

----------------------------------------------------------------------------
(* The positions of the whole scan, the data with an identifier, and those  *)
(* of them among the first s.                                               *)
Plan == From(loops, 1)
Keys == {Ident(Plan[i]) : i \in DOMAIN Plan}
Keyed(v) == {i \in DOMAIN Plan : Ident(Plan[i]) = v}
Upto(v, s) == Selected(Numbers(0, s), Keyed(v))

(* Going through the data one by one. *)
LEMMA UptoFacts ==
    ASSUME NEW v, NEW s \in Nat
    PROVE  /\ Upto(v, s) \in Seq(Nat) /\ ToSet(Upto(v, s)) = {k \in 1..s : k \in Keyed(v)}
           /\ Upto(v, 0) = <<>>
           /\ Upto(v, s + 1) = IF s + 1 \in Keyed(v) THEN Append(Upto(v, s), s + 1) ELSE Upto(v, s)
<1> PICK S : S = Keyed(v)
  OBVIOUS
<1>1. /\ Numbers(0, s) \in Seq(Nat) /\ DOMAIN Numbers(0, s) = 1..s
      /\ \A k \in 1..s : Numbers(0, s)[k] = k
  <2>1. DOMAIN Numbers(0, s) = 1..s /\ \A k \in 1..s : Numbers(0, s)[k] = 0 + k
    BY DEF Numbers
  <2>2. Numbers(0, s) \in [1..s -> Nat]
    BY <2>1 DEF Numbers
  <2> QED BY <2>1, <2>2
<1>2. Upto(v, s) \in Seq(Nat)
  BY <1>1, SelectedType DEF Upto
<1>3. ToSet(Upto(v, s)) = {k \in 1..s : k \in S}
  <2>1. ToSet(Numbers(0, s)) = 1..s
    BY <1>1 DEF ToSet
  <2> QED BY <1>1, <2>1, SelectedToSet DEF Upto
<1>4. Upto(v, 0) = <<>>
  <2>1. Numbers(0, 0) = <<>>
    BY NumbersFacts
  <2> QED BY <2>1, SelectedEmpty DEF Upto
<1> PICK a, e : a = Numbers(0, s) /\ e = s + 1
  OBVIOUS
<1>5. Numbers(0, s + 1) = Append(a, e) /\ a \in Seq(Nat) /\ e \in Nat
  <2>1. \A t \in Nat : Append(Numbers(t, s), t + s + 1) = Numbers(t, s + 1)
    BY NumbersFacts
  <2>2. Append(Numbers(0, s), 0 + s + 1) = Numbers(0, s + 1)
    BY <2>1
  <2>3. 0 + s + 1 = e
    OBVIOUS
  <2> QED BY <1>1, <2>2, <2>3
<1>6. Selected(Append(a, e), S) = Selected(a, S) \o Selected(<<e>>, S)
  BY <1>5, SelectedAppend
<1>7. Selected(<<e>>, S) = IF e \in S THEN <<e>> ELSE <<>>
  BY SelectedOne
<1> PICK u : u = Upto(v, s)
  OBVIOUS
<1>8. u \in Seq(Nat) /\ u = Selected(a, S) /\ Upto(v, s + 1) = Selected(Append(a, e), S)
  <2>1. u = Selected(a, S)
    BY DEF Upto
  <2>2. Upto(v, s + 1) = Selected(Append(a, e), S)
    BY <1>5 DEF Upto
  <2> QED BY <1>2, <2>1, <2>2
<1>9. u \o <<>> = u /\ u \o <<e>> = Append(u, e)
  BY <1>5, <1>8, AppendIsConcat, ConcatEmptySeq
<1>10. Upto(v, s + 1) = IF s + 1 \in Keyed(v) THEN Append(Upto(v, s), s + 1) ELSE Upto(v, s)
  BY <1>6, <1>7, <1>8, <1>9
<1> QED BY <1>2, <1>3, <1>4, <1>10

(* Of the data with an identifier there are more and more; when there are   *)
(* as many as later, they are those.                                        *)
LEMMA UptoGrows ==
    ASSUME NEW v, NEW s \in Nat, NEW t \in Nat, s <= t
    PROVE  /\ Len(Upto(v, s)) \in Nat /\ Len(Upto(v, s)) <= Len(Upto(v, t))
           /\ Len(Upto(v, s)) = Len(Upto(v, t)) => Upto(v, s) = Upto(v, t)
<1> DEFINE u(k) == Upto(v, k)
           a == u(s)
           T == {k \in Nat : Len(a) <= Len(u(s + k)) /\ (Len(a) = Len(u(s + k)) => a = u(s + k))}
<1>1. \A k \in Nat : /\ u(k) \in Seq(Nat) /\ Len(u(k)) \in Nat
                     /\ u(k + 1) = u(k) \/ u(k + 1) = Append(u(k), k + 1)
  <2>1. ASSUME NEW k \in Nat
        PROVE  u(k) \in Seq(Nat) /\ (u(k + 1) = u(k) \/ u(k + 1) = Append(u(k), k + 1))
    BY UptoFacts
  <2> QED BY <2>1
<1> HIDE DEF u
<1>2. 0 \in T
  <2>1. s + 0 = s
    OBVIOUS
  <2> QED BY <1>1, <2>1
<1>3. ASSUME NEW k \in Nat, k \in T PROVE k + 1 \in T
  <2> PICK b : b = u(s + k)
    OBVIOUS
  <2>0. s + k \in Nat /\ (s + k) + 1 = s + (k + 1)
    OBVIOUS
  <2>1. /\ b \in Seq(Nat) /\ Len(b) \in Nat /\ Len(a) \in Nat
        /\ u(s + (k + 1)) = b \/ u(s + (k + 1)) = Append(b, (s + k) + 1)
    BY <1>1, <2>0
  <2>2. Len(Append(b, (s + k) + 1)) = Len(b) + 1
    BY <2>0, <2>1
  <2>3. Len(a) <= Len(b) /\ (Len(a) = Len(b) => a = b)
    BY <1>3
  <2> QED BY <2>1, <2>2, <2>3
<1> HIDE DEF T
<1>4. Nat \subseteq T
  BY <1>2, <1>3, NatAll
<1>5. t - s \in T /\ s + (t - s) = t
  BY <1>4
<1>6. Len(a) \in Nat /\ Len(a) <= Len(u(t)) /\ (Len(a) = Len(u(t)) => a = u(t))
  BY <1>1, <1>5 DEF T
<1> QED BY <1>6 DEF u

(* Each identifier of the scan belongs to n_count data. *)
LEMMA KeyCount ==
    ASSUME EngineTypes, EvenScan, Cardinality(Outer) <= 1
    PROVE  /\ Plan \in Seq(Tuples(Len(loops))) /\ NCount \in Nat \ {0}
           /\ \A v \in Keys : Len(Upto(v, Len(Plan))) = NCount
<1> PICK n, N : n = Len(loops) /\ N = Len(Plan)
  OBVIOUS
<1>1. Nest(loops, 1) /\ n \in Nat \ {0}
  BY EvenScanFacts
<1>2. Plan \in Seq(Tuples(n)) /\ N \in Nat /\ DOMAIN Plan = 1..N /\ \A i \in 1..N : Plan[i] \in Tuples(n)
  <2>1. 1 \in 1..(n + 1) /\ n + 1 - 1 = n
    BY <1>1
  <2>2. Plan \in Seq(Tuples(n))
    BY <1>1, <2>1, FromTuples DEF Plan
  <2> QED BY <2>2
<1>3. NCount \in Nat \ {0}
  BY CountAlike
<1>4. ASSUME NEW v \in Keys PROVE Len(Upto(v, N)) = NCount
  <2>1. PICK i \in 1..N : v = Ident(Plan[i])
    BY <1>2, <1>4 DEF Keys
  <2> PICK q, p, a, A, K : q = Plan[i] /\ p = Plan /\ a = Numbers(0, N) /\ A = Alike(1, q) /\ K = Keyed(v)
    OBVIOUS
  <2>2. a \in Seq(Int) /\ Len(a) = N /\ \A k \in 1..N : a[k] = k
    <3>1. Numbers(0, N) \in Seq(Int) /\ Len(Numbers(0, N)) = N /\ \A k \in 1..N : Numbers(0, N)[k] = 0 + k
      BY <1>2 DEF Numbers
    <3> QED BY <3>1
  <2>3. ASSUME NEW k \in 1..N PROVE p[k] \in A <=> a[k] \in K
    <3>1. Plan[k] \in Tuples(n) /\ q \in Tuples(n)
      BY <1>2
    <3>2. Ident(Plan[k]) = Ident(q) <=> Plan[k] \in Alike(1, q)
      BY <3>1, IdentAlike
    <3>3. k \in Keyed(v) <=> Ident(Plan[k]) = v
      BY <1>2 DEF Keyed
    <3> QED BY <2>1, <2>2, <3>2, <3>3
  <2>4. SamePlaces(p, A, a, K)
    BY <2>2, <2>3 DEF SamePlaces
  <2>5. Len(Selected(p, A)) = Len(Selected(a, K))
    <3>1. p \in Seq(Tuples(n)) /\ a \in Seq(Int)
      BY <1>2, <2>2
    <3> HIDE DEF Plan
    <3> QED BY <2>4, <3>1, SelectedLen
  <2>6. Len(Upto(v, N)) \in {0, NCount}
    <3>1. Len(Selected(Plan, Alike(1, q))) \in {0, NCount}
      BY CountAlike DEF Plan
    <3> QED BY <2>5, <3>1 DEF Upto
  <2>7. Len(Upto(v, N)) # 0
    <3> PICK u : u = Upto(v, N)
      OBVIOUS
    <3>1. i \in Keyed(v)
      BY <1>2, <2>1 DEF Keyed
    <3>2. u \in Seq(Nat) /\ ToSet(u) = {k \in 1..N : k \in Keyed(v)}
      BY <1>2, UptoFacts
    <3>3. DOMAIN u # {} /\ DOMAIN u = 1..Len(u) /\ Len(u) \in Nat
      BY <3>1, <3>2 DEF ToSet
    <3> QED BY <3>3
  <2> QED BY <2>6, <2>7
<1> QED BY <1>2, <1>3, <1>4

----------------------------------------------------------------------------
(* Looking up something else than what was updated. *)
LEMMA LookupOther ==
    \A fun, x, y, z, e : z # x => Lookup(Update(fun, x, y), z, e) = Lookup(fun, z, e)
BY DEF Lookup, Update

(* The scans ResultPerPosition is about. *)
OneResult == setup.algorithm = "occupancy" /\ EvenScan /\ Cardinality(Outer) <= 1

(* An identifier is complete after s data: its last one is among them.      *)
Complete(v, s) == Len(Upto(v, s)) = NCount

(* The analysis of a front end after s data: what it has of each identifier *)
(* (a is its acc), and what it has put out (R are its results).             *)
Collected(s, a) ==
    \A v \in Keys :
        Lookup(a, v, Nothing) = [innerCnt |-> Len(Upto(v, s)),
                                 from |-> IF Complete(v, s) THEN <<>> ELSE Upto(v, s)]
ResultsOf(s, R) ==
    /\ \A r \in DOMAIN R : \E v \in Keys : Complete(v, s) /\ R[r] = Upto(v, s)
    /\ \A r, q \in DOMAIN R : R[r] = R[q] => r = q
    /\ \A v \in Keys : Complete(v, s) => \E r \in DOMAIN R : R[r] = Upto(v, s)
ResultAt(s, a, R) == Collected(s, a) /\ ResultsOf(s, R)

ResultInv == OneResult => \A f \in active : ResultAt(seen[f], acc[f], results[f])

(* What the next histogram adds to. *)
LEMMA NextUpto ==
    ASSUME EngineTypes, EvenScan, Cardinality(Outer) <= 1,
           NEW s \in Nat, s < Len(Plan), NEW id, id = Ident(Plan[s + 1])
    PROVE  /\ id \in Keys /\ Upto(id, s) \in Seq(Nat) /\ Upto(id, s + 1) \in Seq(Nat)
           /\ Upto(id, s + 1) = Append(Upto(id, s), s + 1)
           /\ Len(Upto(id, s + 1)) = Len(Upto(id, s)) + 1
           /\ ~Complete(id, s)
           /\ \A v : v # id => Upto(v, s + 1) = Upto(v, s)
           /\ \A v : ~\E k \in DOMAIN Upto(v, s) : Upto(v, s)[k] = s + 1
<1>1. /\ Plan \in Seq(Tuples(Len(loops))) /\ NCount \in Nat \ {0}
      /\ \A v \in Keys : Len(Upto(v, Len(Plan))) = NCount
  BY KeyCount
<1>2. s + 1 \in DOMAIN Plan /\ Len(Plan) \in Nat /\ s + 1 <= Len(Plan) /\ s + 1 \in Nat
  BY <1>1
<1>3. id \in Keys /\ \A v : s + 1 \in Keyed(v) <=> v = id
  BY <1>2 DEF Keys, Keyed
<1>4. \A v : Upto(v, s + 1) = IF s + 1 \in Keyed(v) THEN Append(Upto(v, s), s + 1) ELSE Upto(v, s)
  BY UptoFacts
<1>5. \A v : Upto(v, s) \in Seq(Nat) /\ ToSet(Upto(v, s)) = {k \in 1..s : k \in Keyed(v)}
  BY UptoFacts
<1>6. Upto(id, s + 1) = Append(Upto(id, s), s + 1) /\ \A v : v # id => Upto(v, s + 1) = Upto(v, s)
  BY <1>3, <1>4
<1> PICK u : u = Upto(id, s)
  OBVIOUS
<1>7. u \in Seq(Nat) /\ Len(Append(u, s + 1)) = Len(u) + 1 /\ Len(u) \in Nat /\ Append(u, s + 1) \in Seq(Nat)
  BY <1>2, <1>5
<1>8. Len(Upto(id, s + 1)) <= NCount
  <2>1. Len(Upto(id, s + 1)) <= Len(Upto(id, Len(Plan)))
    BY <1>2, UptoGrows
  <2> QED BY <1>1, <1>3, <2>1
<1>9. ~Complete(id, s)
  BY <1>1, <1>6, <1>7, <1>8 DEF Complete
<1>10. ASSUME NEW v PROVE ~\E k \in DOMAIN Upto(v, s) : Upto(v, s)[k] = s + 1
  <2>1. s + 1 \notin ToSet(Upto(v, s))
    BY <1>5
  <2> QED BY <2>1 DEF ToSet
<1> QED BY <1>3, <1>6, <1>7, <1>9, <1>10

(* The next histogram of a front end, old being what it has of the same     *)
(* identifier.                                                              *)
StepAt(s, a, R, id, old) ==
    IF old.innerCnt + 1 = NCount
    THEN ResultAt(s + 1, Update(a, id, [innerCnt |-> old.innerCnt + 1, from |-> <<>>]),
                  Append(R, Append(old.from, s + 1)))
    ELSE ResultAt(s + 1, Update(a, id, [innerCnt |-> old.innerCnt + 1,
                                        from |-> Append(old.from, s + 1)]), R)

LEMMA ResultStep ==
    ASSUME EngineTypes, EvenScan, Cardinality(Outer) <= 1,
           NEW s \in Nat, s < Len(Plan), NEW a, NEW R \in Seq(Seq(Nat)), ResultAt(s, a, R),
           NEW id, id = Ident(Plan[s + 1]), NEW old, old = Lookup(a, id, Nothing)
    PROVE  StepAt(s, a, R, id, old)
<1> PICK u, w : u = Upto(id, s) /\ w = Upto(id, s + 1)
  OBVIOUS
<1>1. /\ id \in Keys /\ u \in Seq(Nat) /\ w \in Seq(Nat) /\ w = Append(u, s + 1) /\ Len(w) = Len(u) + 1
      /\ ~Complete(id, s)
      /\ \A v : v # id => Upto(v, s + 1) = Upto(v, s)
      /\ \A v : ~\E k \in DOMAIN Upto(v, s) : Upto(v, s)[k] = s + 1
  BY NextUpto
<1>2. old = [innerCnt |-> Len(u), from |-> u]
  BY <1>1 DEF ResultAt, Collected
<1>3. old.innerCnt + 1 = Len(w) /\ Append(old.from, s + 1) = w
  BY <1>1, <1>2
<1>4. Complete(id, s + 1) <=> Len(w) = NCount
  BY DEF Complete
<1>5. \A v : v # id => (Complete(v, s + 1) <=> Complete(v, s))
  BY <1>1 DEF Complete
<1> PICK y : y = [innerCnt |-> Len(w), from |-> IF Complete(id, s + 1) THEN <<>> ELSE w]
  OBVIOUS
<1>6. Collected(s + 1, Update(a, id, y))
  <2> SUFFICES ASSUME NEW v \in Keys
               PROVE  Lookup(Update(a, id, y), v, Nothing)
                         = [innerCnt |-> Len(Upto(v, s + 1)),
                            from |-> IF Complete(v, s + 1) THEN <<>> ELSE Upto(v, s + 1)]
    BY DEF Collected
  <2>1. CASE v = id
    <3>1. Lookup(Update(a, id, y), id, Nothing) = y
      BY LookupFacts
    <3> QED BY <2>1, <3>1
  <2>2. CASE v # id
    <3>1. Lookup(Update(a, id, y), v, Nothing) = Lookup(a, v, Nothing)
      BY <2>2, LookupOther
    <3>2. Lookup(a, v, Nothing) = [innerCnt |-> Len(Upto(v, s)),
                                   from |-> IF Complete(v, s) THEN <<>> ELSE Upto(v, s)]
      BY DEF ResultAt, Collected
    <3>3. Upto(v, s + 1) = Upto(v, s) /\ (Complete(v, s + 1) <=> Complete(v, s))
      BY <1>1, <1>5, <2>2
    <3> QED BY <3>1, <3>2, <3>3
  <2> QED BY <2>1, <2>2
<1>7. /\ \A r \in DOMAIN R : \E v \in Keys : Complete(v, s) /\ R[r] = Upto(v, s)
      /\ \A r, q \in DOMAIN R : R[r] = R[q] => r = q
      /\ \A v \in Keys : Complete(v, s) => \E r \in DOMAIN R : R[r] = Upto(v, s)
  BY DEF ResultAt, ResultsOf
<1>8. CASE old.innerCnt + 1 = NCount
  <2> PICK Q, n : Q = Append(R, w) /\ n = Len(R)
    OBVIOUS
  <2>1. /\ n \in Nat /\ DOMAIN R = 1..n /\ DOMAIN Q = 1..(n + 1) /\ Q[n + 1] = w
        /\ \A r \in 1..n : Q[r] = R[r]
    <3>1. w \in Seq(Nat) /\ n \in Nat /\ DOMAIN R = 1..n
      BY <1>1
    <3>2. Len(Append(R, w)) = n + 1 /\ Append(R, w) \in Seq(Seq(Nat))
      BY <3>1
    <3>3. \A r \in 1..(n + 1) : Append(R, w)[r] = IF r = n + 1 THEN w ELSE R[r]
      BY <3>1
    <3>4. DOMAIN Append(R, w) = 1..(n + 1)
      BY <3>1, <3>2
    <3> QED BY <3>1, <3>3, <3>4
  <2>2. Complete(id, s + 1)
    BY <1>3, <1>4, <1>8
  <2>3. ASSUME NEW r \in 1..n PROVE R[r] # w /\ \E v \in Keys : Complete(v, s + 1) /\ R[r] = Upto(v, s + 1)
    <3>1. PICK v \in Keys : Complete(v, s) /\ R[r] = Upto(v, s)
      BY <1>7, <2>1
    <3>2. v # id
      BY <1>1, <3>1
    <3>3. Len(w) \in DOMAIN w /\ w[Len(w)] = s + 1
      BY <1>1
    <3> QED BY <1>1, <1>5, <3>1, <3>2, <3>3
  <2>4. \A r \in 1..(n + 1) : r \in 1..n \/ r = n + 1
    BY <2>1
  <2>5. \A r \in DOMAIN Q : \E v \in Keys : Complete(v, s + 1) /\ Q[r] = Upto(v, s + 1)
    BY <1>1, <2>1, <2>2, <2>3, <2>4
  <2>6. \A r, q \in DOMAIN Q : Q[r] = Q[q] => r = q
    BY <1>7, <2>1, <2>3, <2>4
  <2>7. ASSUME NEW v \in Keys, Complete(v, s + 1) PROVE \E r \in DOMAIN Q : Q[r] = Upto(v, s + 1)
    <3>0. n + 1 \in 1..(n + 1) /\ \A r \in 1..n : r \in 1..(n + 1)
      BY <2>1
    <3>1. CASE v = id
      BY <2>1, <3>0, <3>1
    <3>2. CASE v # id
      <4>1. Complete(v, s) /\ Upto(v, s + 1) = Upto(v, s)
        BY <1>1, <1>5, <2>7, <3>2
      <4>2. PICK r \in DOMAIN R : R[r] = Upto(v, s)
        BY <1>7, <4>1
      <4> QED BY <2>1, <3>0, <4>1, <4>2
    <3> QED BY <3>1, <3>2
  <2>8. ResultsOf(s + 1, Q)
    BY <2>5, <2>6, <2>7 DEF ResultsOf
  <2>9. ResultAt(s + 1, Update(a, id, y), Q)
    BY <1>6, <2>8 DEF ResultAt
  <2>10. y = [innerCnt |-> old.innerCnt + 1, from |-> <<>>]
    BY <1>3, <2>2
  <2> QED BY <1>3, <1>8, <2>9, <2>10 DEF StepAt
<1>9. CASE old.innerCnt + 1 # NCount
  <2>1. ~Complete(id, s + 1)
    BY <1>3, <1>4, <1>9
  <2>2. \A v : (Complete(v, s + 1) <=> Complete(v, s)) /\ (Complete(v, s) => Upto(v, s + 1) = Upto(v, s))
    BY <1>1, <1>5, <2>1
  <2>3. ResultsOf(s + 1, R)
    <3>1. \A r \in DOMAIN R : \E v \in Keys : Complete(v, s + 1) /\ R[r] = Upto(v, s + 1)
      BY <1>7, <2>2
    <3>2. \A v \in Keys : Complete(v, s + 1) => \E r \in DOMAIN R : R[r] = Upto(v, s + 1)
      BY <1>7, <2>2
    <3> QED BY <1>7, <3>1, <3>2 DEF ResultsOf
  <2>4. y = [innerCnt |-> old.innerCnt + 1, from |-> Append(old.from, s + 1)]
    BY <1>3, <2>1
  <2>5. ResultAt(s + 1, Update(a, id, y), R)
    BY <1>6, <2>3 DEF ResultAt
  <2> QED BY <1>9, <2>4, <2>5 DEF StepAt
<1> QED BY <1>8, <1>9

(* What the scan makes of data does not change while it runs. *)
LEMMA ResultPrime ==
    ASSUME loops' = loops, setup' = setup
    PROVE  /\ OneResult' <=> OneResult /\ active' = active
           /\ \A f : ResultAt(seen'[f], acc'[f], results'[f]) => ResultAt(seen[f], acc[f], results[f])'
<1>1. active' = active /\ (OneResult' <=> OneResult)
  BY DEF OneResult, active, EvenScan, Outer, Levels
<1>2. NCount' = NCount /\ Plan' = Plan /\ \A p : Ident(p)' = Ident(p)
  BY DEF NCount, Plan, Ident
<1>3. Keys' = Keys /\ \A v : Keyed(v)' = Keyed(v)
  BY <1>2 DEF Keys, Keyed
<1>4. \A v, s : Upto(v, s)' = Upto(v, s)
  BY <1>3 DEF Upto
<1>5. \A v, s : Complete(v, s)' <=> Complete(v, s)
  BY <1>2, <1>4 DEF Complete
<1>6. ASSUME NEW f, ResultAt(seen'[f], acc'[f], results'[f]) PROVE ResultAt(seen[f], acc[f], results[f])'
  BY <1>2, <1>3, <1>4, <1>5, <1>6 DEF ResultAt, Collected, ResultsOf, Nothing
<1> QED BY <1>1, <1>6

(* The data are those of the plan. *)
LEMMA TakenPlan ==
    ASSUME EngineTypes, NestedOrder, EvenScan
    PROVE  /\ Len(taken) \in Nat /\ DOMAIN taken = 1..Len(taken) /\ Len(taken) <= Len(Plan)
           /\ \A k \in 1..Len(taken) : taken[k].stat = Plan[k]
           /\ phase = "done" => Len(taken) = Len(Plan)
<1>1. Len(loops) \in Nat
  BY LoopFacts
<1>2. Plan = Nested(loops)[Len(loops)]
  BY <1>1, FromFacts DEF Plan
<1>3. Len(taken) \in Nat /\ DOMAIN taken = 1..Len(taken)
  BY DEF EngineTypes, TypeOK
<1> QED BY <1>2, <1>3 DEF NestedOrder, EvenScan

(* The analysis of a front end takes the next histogram. *)
LEMMA ResultProcess ==
    ASSUME Types, NestedOrder, OneResult, NEW f \in active,
           ResultAt(seen[f], acc[f], results[f]), ProcessHistogram(f)
    PROVE  ResultAt(seen'[f], acc'[f], results'[f])
<1> USE DEF Types
<1>1. /\ f \in FE /\ setup.algorithm = "occupancy" /\ EvenScan /\ Cardinality(Outer) <= 1
      /\ seen \in [FE -> Nat] /\ DOMAIN acc = FE /\ results \in [FE -> Seq(Seq(Nat))]
  BY SetupFacts DEF OneResult, AnalysisTypes
<1> PICK s, a, R : s = seen[f] /\ a = acc[f] /\ R = results[f]
  OBVIOUS
<1>2. s \in Nat /\ R \in Seq(Seq(Nat)) /\ seen'[f] = s + 1 /\ s < Len(taken)
  BY <1>1 DEF ProcessHistogram
<1>3. s < Len(Plan) /\ taken[s + 1].stat = Plan[s + 1]
  <2>1. /\ Len(taken) \in Nat /\ Len(taken) <= Len(Plan)
        /\ \A k \in 1..Len(taken) : taken[k].stat = Plan[k]
    BY <1>1, TakenPlan
  <2>2. s + 1 \in 1..Len(taken)
    BY <1>2, <2>1
  <2>3. Len(Plan) \in Nat
    <3>1. Plan \in Seq(Tuples(Len(loops)))
      BY <1>1, KeyCount
    <3> QED BY <3>1
  <2> QED BY <1>2, <2>1, <2>2, <2>3
<1> PICK id, old : id = Ident(Plan[s + 1]) /\ old = Lookup(a, id, Nothing)
  OBVIOUS
<1>4. IF old.innerCnt + 1 = NCount
      THEN /\ results' = [results EXCEPT ![f] = Append(@, Append(old.from, s + 1))]
           /\ acc' = [acc EXCEPT ![f] = Update(@, id, [innerCnt |-> CountAfter(old.innerCnt + 1), from |-> <<>>])]
      ELSE /\ acc' = [acc EXCEPT ![f] = Update(@, id, [innerCnt |-> old.innerCnt + 1,
                                                       from |-> Append(old.from, s + 1)])]
           /\ results' = results
  BY <1>2, <1>3 DEF ProcessHistogram, Nothing
<1>5. CountAfter(old.innerCnt + 1) = old.innerCnt + 1
  BY <1>1 DEF CountAfter
<1>6. StepAt(s, a, R, id, old)
  <2>1. ResultAt(s, a, R)
    OBVIOUS
  <2> QED BY <1>1, <1>2, <1>3, <2>1, ResultStep
<1>7. CASE old.innerCnt + 1 = NCount
  <2>1. results'[f] = Append(R, Append(old.from, s + 1))
    BY <1>1, <1>4, <1>7
  <2>2. acc'[f] = Update(a, id, [innerCnt |-> old.innerCnt + 1, from |-> <<>>])
    BY <1>1, <1>4, <1>5, <1>7
  <2> QED BY <1>2, <1>6, <1>7, <2>1, <2>2 DEF StepAt
<1>8. CASE old.innerCnt + 1 # NCount
  <2>1. results'[f] = R
    BY <1>4, <1>8
  <2>2. acc'[f] = Update(a, id, [innerCnt |-> old.innerCnt + 1, from |-> Append(old.from, s + 1)])
    BY <1>1, <1>4, <1>8
  <2> QED BY <1>2, <1>6, <1>8, <2>1, <2>2 DEF StepAt
<1> QED BY <1>7, <1>8

(* At every step the analyses have what their data gave. *)
LEMMA ResultKept ==
    ASSUME TuningInv, NestedOrder, ResultInv, [TuningNext]_tuningVars
    PROVE  ResultInv'
<1> USE DEF TuningInv, Types
<1>1. loops' = loops /\ setup' = setup
  BY ScanKept
<1>2. active \subseteq FE
  BY SetupFacts
<1> SUFFICES ASSUME OneResult, NEW f \in active
             PROVE  ResultAt(seen'[f], acc'[f], results'[f])
  BY <1>1, ResultPrime DEF ResultInv
<1>3. ResultAt(seen[f], acc[f], results[f])
  BY DEF ResultInv
<1>4. ASSUME NEW g \in FE, ProcessHistogram(g) PROVE ResultAt(seen'[f], acc'[f], results'[f])
  <2>1. CASE g = f
    BY <1>3, <1>4, <2>1, ResultProcess
  <2>2. CASE g # f
    <3>1. seen'[f] = seen[f]
      BY <1>2, <1>4, <2>2 DEF ProcessHistogram, AnalysisTypes
    <3>2. acc'[f] = acc[f]
      <4>1. \E y : acc' = [acc EXCEPT ![g] = y]
        BY <1>4 DEF ProcessHistogram
      <4> QED BY <1>2, <2>2, <4>1 DEF AnalysisTypes
    <3>3. results'[f] = results[f]
      <4>1. results' = results \/ \E y : results' = [results EXCEPT ![g] = y]
        BY <1>4 DEF ProcessHistogram
      <4> QED BY <1>2, <2>2, <4>1 DEF AnalysisTypes
    <3> QED BY <1>3, <3>1, <3>2, <3>3
  <2> QED BY <2>1, <2>2
<1>5. CASE UNCHANGED <<seen, acc, results>>
  BY <1>3, <1>5
<1>6. (\E g \in FE : ProcessHistogram(g)) \/ UNCHANGED <<seen, acc, results>>
  BY DEF TuningNext, EngineStep, LoopInit, LoopPart1, LoopPart2, FeedbackPart2, LoopEnd,
         LoopCloseOut, WaitForFeedback, tuningVars, analysis
<1> QED BY <1>4, <1>5, <1>6

(* At the start they have nothing. *)
LEMMA ResultStart ==
    ASSUME TuningInit
    PROVE  ResultInv
<1> SUFFICES ASSUME OneResult, NEW f \in active
             PROVE  ResultAt(seen[f], acc[f], results[f])
  BY DEF ResultInv
<1>1. Types
  BY InvStart DEF TuningInv
<1>2. f \in FE /\ NCount \in Nat \ {0}
  BY <1>1, SetupFacts, KeyCount DEF Types, OneResult
<1>3. seen[f] = 0 /\ acc[f] = <<>> /\ results[f] = <<>>
  BY <1>2 DEF TuningInit
<1>4. \A v : Upto(v, 0) = <<>>
  BY UptoFacts
<1>5. \A v : ~Complete(v, 0)
  BY <1>2, <1>4 DEF Complete
<1>6. Collected(0, <<>>)
  BY <1>4, <1>5 DEF Collected, Lookup, Nothing
<1>7. ResultsOf(0, <<>>)
  BY <1>5 DEF ResultsOf
<1> QED BY <1>3, <1>6, <1>7 DEF ResultAt

(* Data of the plan have the same position when their identifiers are the   *)
(* same.                                                                    *)
LEMMA SamePosition ==
    ASSUME EngineTypes, NestedOrder, OneResult, NEW i \in DOMAIN taken, NEW j \in DOMAIN taken
    PROVE  OuterPosition(i) = OuterPosition(j) <=> Ident(Plan[i]) = Ident(Plan[j])
<1>1. EvenScan /\ Cardinality(Outer) <= 1
  BY DEF OneResult
<1>2. /\ DOMAIN taken = 1..Len(taken) /\ Len(taken) \in Nat /\ Len(taken) <= Len(Plan)
      /\ \A k \in 1..Len(taken) : taken[k].stat = Plan[k]
  BY <1>1, TakenPlan
<1>3. Plan \in Seq(Tuples(Len(loops)))
  BY <1>1, KeyCount
<1> PICK p, q : p = Plan[i] /\ q = Plan[j]
  OBVIOUS
<1>4. p \in Tuples(Len(loops)) /\ q \in Tuples(Len(loops))
  BY <1>2, <1>3
<1>5. Ident(p) = Ident(q) <=> \A o \in Outer : p[o] = q[o]
  BY <1>1, <1>4, IdentAlike
<1>6. OuterPosition(i) = [l \in Outer |-> p[l]] /\ OuterPosition(j) = [l \in Outer |-> q[l]]
  BY <1>2 DEF OuterPosition
<1>7. ([l \in Outer |-> p[l]] = [l \in Outer |-> q[l]]) <=> \A o \in Outer : p[o] = q[o]
  OBVIOUS
<1> QED BY <1>5, <1>6, <1>7

(* A result that is complete has all data of its position. *)
LEMMA ResultData ==
    ASSUME Types, NestedOrder, OneResult, NEW f \in active,
           ResultAt(seen[f], acc[f], results[f]), NEW r \in DOMAIN results[f]
    PROVE  \E v \in Keys :
              /\ Complete(v, seen[f]) /\ results[f][r] = Upto(v, seen[f])
              /\ results[f][r] \in Seq(Nat) /\ 1 \in DOMAIN results[f][r]
              /\ results[f][r][1] \in DOMAIN taken /\ Ident(Plan[results[f][r][1]]) = v
              /\ ToSet(results[f][r]) = {i \in DOMAIN taken : Ident(Plan[i]) = v}
<1> USE DEF Types
<1>1. EvenScan /\ Cardinality(Outer) <= 1 /\ f \in FE /\ seen[f] \in Nat /\ seen[f] <= Len(taken)
  BY SetupFacts DEF OneResult, AnalysisTypes
<1>2. PICK v \in Keys : Complete(v, seen[f]) /\ results[f][r] = Upto(v, seen[f])
  BY DEF ResultAt, ResultsOf
<1> PICK s, t, N, from : s = seen[f] /\ t = Len(taken) /\ N = Len(Plan) /\ from = results[f][r]
  OBVIOUS
<1>3. /\ t \in Nat /\ DOMAIN taken = 1..t /\ t <= N /\ s \in Nat /\ s <= t
  BY <1>1, TakenPlan
<1>4. /\ Plan \in Seq(Tuples(Len(loops))) /\ NCount \in Nat \ {0} /\ Len(Upto(v, N)) = NCount
  BY <1>1, KeyCount
<1>5. N \in Nat /\ DOMAIN Plan = 1..N
  BY <1>4
<1>6. Len(Upto(v, s)) = NCount /\ from = Upto(v, s)
  BY <1>2 DEF Complete
<1>7. Upto(v, s) = Upto(v, t)
  <2>1. /\ Len(Upto(v, s)) <= Len(Upto(v, t)) /\ Len(Upto(v, t)) <= Len(Upto(v, N))
        /\ Len(Upto(v, t)) \in Nat
        /\ Len(Upto(v, s)) = Len(Upto(v, t)) => Upto(v, s) = Upto(v, t)
    BY <1>3, <1>5, UptoGrows
  <2> QED BY <1>4, <1>6, <2>1
<1>8. from \in Seq(Nat) /\ ToSet(from) = {k \in 1..t : k \in Keyed(v)}
  BY <1>3, <1>6, <1>7, UptoFacts
<1>9. \A k \in 1..t : k \in Keyed(v) <=> Ident(Plan[k]) = v
  BY <1>3, <1>5 DEF Keyed
<1>10. ToSet(from) = {i \in DOMAIN taken : Ident(Plan[i]) = v}
  BY <1>3, <1>8, <1>9
<1>11. 1 \in DOMAIN from /\ from[1] \in ToSet(from)
  <2>1. 1 \in DOMAIN from
    BY <1>4, <1>6, <1>8
  <2> QED BY <2>1 DEF ToSet
<1> QED BY <1>2, <1>8, <1>10, <1>11

(* For any number of loops, stages and front ends, in a scan with at most   *)
(* one parameter loop whose analysis expects as many histograms as the      *)
(* loops give: each result of OccupancyAnalysis is made of all the data of  *)
(* one position, and at the end there is one for each position.             *)
THEOREM ResultsPerPosition == TuningSpec => []ResultPerPosition
<1>1. TuningInit => ResultInv
  BY ResultStart
<1>2. TuningInv /\ NestedOrder /\ ResultInv /\ [TuningNext]_tuningVars => ResultInv'
  BY ResultKept
<1>3. TuningInv /\ NestedOrder /\ ResultInv => ResultPerPosition
  <2> SUFFICES ASSUME TuningInv, NestedOrder, ResultInv, OneResult, NEW f \in active
               PROVE  /\ \A r \in DOMAIN results[f] : LET from == results[f][r] IN
                            {from[i] : i \in DOMAIN from}
                               = {i \in DOMAIN taken : OuterPosition(i) = OuterPosition(from[1])}
                      /\ phase = "done" /\ seen[f] = Len(taken) =>
                            Len(results[f]) = Cardinality({OuterPosition(i) : i \in DOMAIN taken})
    BY DEF ResultPerPosition, OneResult
  <2>1. Types /\ EngineTypes /\ EvenScan /\ Cardinality(Outer) <= 1 /\ f \in FE
    BY SetupFacts DEF TuningInv, Types, OneResult
  <2>2. ResultAt(seen[f], acc[f], results[f])
    BY DEF ResultInv
  <2>3. ASSUME NEW r \in DOMAIN results[f], NEW from, from = results[f][r]
        PROVE  /\ {from[i] : i \in DOMAIN from}
                     = {i \in DOMAIN taken : OuterPosition(i) = OuterPosition(from[1])}
               /\ from[1] \in DOMAIN taken
               /\ \E v \in Keys : Ident(Plan[from[1]]) = v /\ from = Upto(v, seen[f])
    <3>1. PICK v \in Keys :
              /\ from = Upto(v, seen[f]) /\ from[1] \in DOMAIN taken /\ Ident(Plan[from[1]]) = v
              /\ ToSet(from) = {i \in DOMAIN taken : Ident(Plan[i]) = v}
      BY <2>1, <2>2, <2>3, ResultData
    <3>2. \A i \in DOMAIN taken : OuterPosition(i) = OuterPosition(from[1]) <=> Ident(Plan[i]) = v
      BY <2>1, <3>1, SamePosition
    <3>3. ToSet(from) = {from[i] : i \in DOMAIN from}
      BY DEF ToSet
    <3> QED BY <3>1, <3>2, <3>3
  <2>4. ASSUME phase = "done", seen[f] = Len(taken)
        PROVE  Len(results[f]) = Cardinality({OuterPosition(i) : i \in DOMAIN taken})
    <3> PICK R, n, s : R = results[f] /\ n = Len(results[f]) /\ s = seen[f]
      OBVIOUS
    <3>1. R \in Seq(Seq(Nat)) /\ n \in Nat /\ DOMAIN R = 1..n
      BY <2>1 DEF Types, AnalysisTypes
    <3>2. \A r \in 1..n : /\ R[r][1] \in DOMAIN taken
                          /\ \E v \in Keys : Ident(Plan[R[r][1]]) = v /\ R[r] = Upto(v, s)
      BY <2>3, <3>1
    <3>3. \A v \in Keys : \E r \in 1..n : R[r] = Upto(v, s)
      <4>1. /\ \A v \in Keys : Len(Upto(v, Len(Plan))) = NCount
            /\ s = Len(Plan)
        BY <2>1, <2>4, TakenPlan, KeyCount
      <4> QED BY <2>2, <3>1, <4>1 DEF ResultAt, ResultsOf, Complete
    <3>4. \A r, q \in 1..n : R[r] = R[q] => r = q
      BY <2>2, <3>1 DEF ResultAt, ResultsOf
    <3> DEFINE S == {OuterPosition(i) : i \in DOMAIN taken}
               h == [r \in 1..n |-> OuterPosition(R[r][1])]
    <3>5. h \in [1..n -> S]
      BY <3>2
    <3>6. ASSUME NEW r \in 1..n, NEW q \in 1..n, h[r] = h[q] PROVE r = q
      <4>1. OuterPosition(R[r][1]) = OuterPosition(R[q][1])
        BY <3>6
      <4>2. Ident(Plan[R[r][1]]) = Ident(Plan[R[q][1]])
        BY <2>1, <3>2, <4>1, SamePosition
      <4>3. R[r] = R[q]
        BY <3>2, <4>2
      <4> QED BY <3>4, <4>3
    <3>7. ASSUME NEW x \in S PROVE \E r \in 1..n : h[r] = x
      <4>1. PICK i \in DOMAIN taken : x = OuterPosition(i)
        OBVIOUS
      <4>2. Ident(Plan[i]) \in Keys
        <5>1. i \in DOMAIN Plan
          <6>1. Plan \in Seq(Tuples(Len(loops)))
            BY <2>1, KeyCount
          <6>2. DOMAIN taken = 1..Len(taken) /\ Len(taken) \in Nat /\ Len(taken) <= Len(Plan)
            BY <2>1, TakenPlan
          <6> QED BY <6>1, <6>2
        <5> QED BY <5>1 DEF Keys
      <4>3. PICK r \in 1..n : R[r] = Upto(Ident(Plan[i]), s)
        BY <3>3, <4>2
      <4>4. PICK v \in Keys : Ident(Plan[R[r][1]]) = v /\ R[r] = Upto(v, s)
        BY <3>2
      <4>5. i \in ToSet(R[r]) /\ R[r][1] \in DOMAIN taken
        <5>1. i \in Keyed(Ident(Plan[i])) /\ i \in 1..s /\ s \in Nat
          <6>1. DOMAIN taken = 1..Len(taken) /\ Len(taken) \in Nat /\ Len(taken) = Len(Plan)
            BY <2>1, <2>4, TakenPlan
          <6>2. DOMAIN Plan = 1..Len(Plan)
            <7>1. Plan \in Seq(Tuples(Len(loops)))
              BY <2>1, KeyCount
            <7> QED BY <7>1
          <6> QED BY <2>4, <6>1, <6>2 DEF Keyed
        <5>2. ToSet(Upto(Ident(Plan[i]), s)) = {k \in 1..s : k \in Keyed(Ident(Plan[i]))}
          BY <5>1, UptoFacts
        <5> QED BY <3>2, <4>3, <5>1, <5>2
      <4>6. ToSet(R[r]) = {k \in DOMAIN taken : OuterPosition(k) = OuterPosition(R[r][1])}
        <5>1. ToSet(R[r]) = {R[r][k] : k \in DOMAIN R[r]}
          BY DEF ToSet
        <5> QED BY <2>3, <3>1, <5>1
      <4>7. OuterPosition(i) = OuterPosition(R[r][1])
        BY <4>5, <4>6
      <4> QED BY <4>1, <4>7
    <3> HIDE DEF S, h
    <3>8. h \in Bijection(1..n, S)
      BY <3>5, <3>6, <3>7, Fun_IsBij
    <3>9. ExistsBijection(1..n, S)
      BY <3>8, Fun_ExistsBij
    <3>10. Cardinality(S) = n
      BY <3>1, <3>9, FS_CountingElements
    <3> QED BY <3>10 DEF S
  <2> QED BY <2>3, <2>4
<1> QED BY <1>1, <1>2, <1>3, TuningInvariant, DataInOrder, PTL DEF TuningSpec
=============================================================================
