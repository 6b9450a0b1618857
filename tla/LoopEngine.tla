----------------------------- MODULE LoopEngine -----------------------------
(***************************************************************************)
(* The loop engine of a scan: nested loop actions, run by                  *)
(* LoopActionBase::run (init; while not done: execPart1, inner loop,       *)
(* execPart2; end), with the actions of the standard loops: StdParameter-  *)
(* Loop, StdRepeater, the mask loops (Rd53aMaskLoop, Rd53bMaskLoop, Rd53b- *)
(* ParMaskLoop, Rd53bCoreColLoop), and the data loop, which takes data     *)
(* once. What the feedback loops and the mask loops do besides counting is *)
(* the business of Tuning.                                                 *)
(*                                                                         *)
(* The call stack is the current level: an outer loop is always in the     *)
(* middle of its execStep.                                                 *)
(***************************************************************************)
EXTENDS Integers, Sequences, SequencesExt

CONSTANTS Configs,    \* the scans considered: sequences of loops
          WordSize    \* 2^32 in the code: parameters are unsigned

Feedbacks == {"globalFeedback", "pixelFeedback"}
Stages == {"mask", "stage"}   \* with and without a copy of the pixel registers
Kinds == {"parameter", "repeater", "data"} \cup Stages \cup Feedbacks

(* A loop of a scan configuration. *)
Loop(kind, min, max, step) == [kind |-> kind, min |-> min, max |-> max, step |-> step]

(* In the scans of configs/scans no parameter loop is inside the data loop. *)
ASSUME LoopEngineAssumption ==
    /\ WordSize \in Nat \ {0, 1}
    /\ Configs \subseteq Seq([kind : Kinds, min : Int, max : Int, step : Nat \ {0}])
    /\ \A c \in Configs : \A i, j \in DOMAIN c :
          (c[i].kind = "data" /\ c[j].kind = "parameter") => j < i

VARIABLES
    loops,    \* the loop actions, outermost first
    level,    \* the loop that is running
    phase,    \* what it does next
    m_cur,    \* the counter of each loop
    m_done,   \* the done flag of each loop
    g_stat,   \* the loop status: a position for each loop
    reg,      \* the register each parameter loop writes
    taken,    \* history: status and registers at each data taking
    closed    \* loops whose closeOut has run

vars == <<loops, level, phase, m_cur, m_done, g_stat, reg, taken, closed>>

Levels == DOMAIN loops
This == loops[level]

Init ==
    /\ loops \in Configs
    /\ level = 1
    /\ phase = IF loops = <<>> THEN "closeOut" ELSE "init"
    /\ m_cur = [l \in DOMAIN loops |-> 0]
    /\ m_done = [l \in DOMAIN loops |-> FALSE]
    /\ g_stat = [l \in DOMAIN loops |-> 0]
    /\ reg = [l \in DOMAIN loops |-> 0]
    /\ taken = <<>>
    /\ closed = <<>>

----------------------------------------------------------------------------
(* The conversions between int and unsigned. *)
Unsigned(x) == x % WordSize
Signed(x) == IF x < WordSize \div 2 THEN x ELSE x - WordSize

(* The value a loop starts with; a feedback loop counts its iterations. *)
Start(l) ==
    CASE l.kind \in {"parameter"} \cup Stages -> Unsigned(l.min)
      [] l.kind \in Feedbacks -> 0
      [] OTHER -> l.min

Set(v, x) == [v EXCEPT ![level] = x]

(* Mutation: init() leaves the done flag of the last run. *)
InitLoopKeepsDone ==
    /\ phase = "init"
    /\ phase' = "test"
    /\ m_cur' = IF This.kind = "data" THEN m_cur ELSE Set(m_cur, Start(This))
    /\ reg' = IF This.kind = "parameter" THEN Set(reg, Start(This)) ELSE reg
    /\ UNCHANGED <<loops, level, m_done, g_stat, taken, closed>>

(* init() of the loop at hand; a parameter loop writes its parameter. *)
InitLoop ==
    /\ phase = "init"
    /\ phase' = "test"
    /\ m_done' = Set(m_done, FALSE)
    /\ m_cur' = IF This.kind = "data" THEN m_cur ELSE Set(m_cur, Start(This))
    /\ reg' = IF This.kind = "parameter" THEN Set(reg, Start(This)) ELSE reg
    /\ UNCHANGED <<loops, level, g_stat, taken, closed>>

(* execPart1(), and on to the inner loop if there is one. A loop may find   *)
(* here that this iteration is its last one: done is its m_done afterwards. *)
ExecPart1(done) ==
    /\ phase = "test"
    /\ ~m_done[level]
    /\ m_done' = Set(m_done, done)
    /\ g_stat' = IF This.kind \in {"repeater", "data"} THEN g_stat
                 ELSE Set(g_stat, m_cur[level])
    /\ m_cur' = IF This.kind = "repeater"
                THEN Set(m_cur, m_cur[level] + 1) ELSE m_cur
    /\ IF level < Len(loops) THEN level' = level + 1 /\ phase' = "init"
       ELSE phase' = "part2" /\ UNCHANGED level
    /\ UNCHANGED <<loops, reg, taken, closed>>

(* Mutation: the parameter is not written when the loop goes on. *)
ParameterPart2NoWrite ==
    /\ m_cur' = Set(m_cur, Unsigned(m_cur[level] + This.step))
    /\ m_done' = Set(m_done, Signed(m_cur'[level]) > This.max)
    /\ UNCHANGED <<reg, taken>>

(* execPart2() of each kind of loop. *)
ParameterPart2 ==
    /\ m_cur' = Set(m_cur, Unsigned(m_cur[level] + This.step))
    /\ IF Signed(m_cur'[level]) > This.max
       THEN m_done' = Set(m_done, TRUE) /\ UNCHANGED reg
       ELSE reg' = Set(reg, m_cur'[level]) /\ UNCHANGED m_done
    /\ UNCHANGED taken

RepeaterPart2 ==
    /\ m_done' = Set(m_done, m_cur[level] = This.max)
    /\ UNCHANGED <<m_cur, reg, taken>>

MaskPart2 ==
    /\ m_cur' = Set(m_cur, Unsigned(m_cur[level] + This.step))
    /\ m_done' = Set(m_done, ~(Signed(m_cur'[level]) < This.max))
    /\ UNCHANGED <<reg, taken>>

DataPart2 ==
    /\ taken' = Append(taken, [stat |-> g_stat, reg |-> reg])
    /\ m_done' = Set(m_done, TRUE)
    /\ UNCHANGED <<m_cur, reg>>

ExecPart2 ==
    /\ phase = "part2"
    /\ phase' = "test"
    /\ \/ This.kind = "parameter" /\ ParameterPart2
       \/ This.kind = "repeater" /\ RepeaterPart2
       \/ This.kind \in Stages /\ MaskPart2
       \/ This.kind = "data" /\ DataPart2
    /\ UNCHANGED <<loops, level, g_stat, closed>>

(* Mutation: the outermost loop returns to a loop around it. *)
EndLoopPastOuter ==
    /\ phase = "test"
    /\ m_done[level]
    /\ level' = level - 1
    /\ phase' = "part2"
    /\ UNCHANGED <<loops, m_cur, m_done, g_stat, reg, taken, closed>>

(* end(), which puts a parameter back to its minimum, and back to the outer *)
(* loop.                                                                    *)
EndLoop ==
    /\ phase = "test"
    /\ m_done[level]
    /\ IF This.kind = "parameter"
       THEN m_cur' = Set(m_cur, Start(This)) /\ reg' = Set(reg, Start(This))
       ELSE UNCHANGED <<m_cur, reg>>
    /\ IF level > 1 THEN level' = level - 1 /\ phase' = "part2"
       ELSE phase' = "closeOut" /\ UNCHANGED level
    /\ UNCHANGED <<loops, m_done, g_stat, taken, closed>>

(* LoopEngine::end() *)
CloseOut ==
    /\ phase = "closeOut"
    /\ IF Len(closed) < Len(loops)
       THEN closed' = Append(closed, Len(closed) + 1) /\ UNCHANGED phase
       ELSE phase' = "done" /\ UNCHANGED closed
    /\ UNCHANGED <<loops, level, m_cur, m_done, g_stat, reg, taken>>

----------------------------------------------------------------------------
(* Every variable has its type. *)
TypeOK ==
    /\ loops \in Configs
    /\ level \in 1..(Len(loops) + 1)
    /\ phase \in {"init", "test", "part2", "closeOut", "done"}
    /\ m_cur \in [Levels -> Int]
    /\ m_done \in [Levels -> BOOLEAN]
    /\ g_stat \in [Levels -> Int]
    /\ reg \in [Levels -> Int]
    /\ taken \in Seq([stat : [Levels -> Int], reg : [Levels -> Int]])
    /\ closed \in Seq(Levels)

(* Data are labelled with the parameters they were taken with: the position *)
(* of a parameter loop in the loop status is what its register holds.       *)
LabelledWithParameters ==
    \A k \in DOMAIN taken : \A l \in Levels :
        (loops[l].kind = "parameter") => taken[k].stat[l] = taken[k].reg[l]

(* The loops whose counter does not leave the range of int on its way: the  *)
(* conversions of the code keep its value. A repeater ends only if its      *)
(* counter meets its maximum.                                               *)
Final(l) == IF l.kind = "parameter" THEN l.max ELSE l.max - 1

Regular(l) ==
    \/ l.kind = "data"
    \/ l.kind = "repeater" /\ l.min < l.max
    \/ /\ l.kind \in {"parameter"} \cup Stages
       /\ -(WordSize \div 2) <= l.min
       /\ l.min + l.step < WordSize \div 2 /\ Final(l) + l.step < WordSize \div 2

(* How often such a loop runs what is inside it, and the position it then   *)
(* has in the loop status. A parameter loop includes its maximum.           *)
Runs(l) ==
    CASE l.kind = "data" -> 1
      [] l.kind = "repeater" -> l.max - l.min
      [] OTHER -> IF Final(l) < l.min THEN 1 ELSE (Final(l) - l.min) \div l.step + 1

Value(l, i) == IF l.kind \in {"repeater", "data"} THEN 0 ELSE Unsigned(l.min + (i - 1) * l.step)

(* The positions of the k innermost loops of c, in the order of nested for  *)
(* loops.                                                                   *)
Within(v, s) == [j \in DOMAIN s |-> <<v>> \o s[j]]

Nested(c) ==
    LET nest[k \in 0..Len(c)] ==
            IF k = 0 THEN <<<<>>>>
            ELSE LET l == c[Len(c) - k + 1]
                 IN  FlattenSeq([i \in 1..Runs(l) |-> Within(Value(l, i), nest[k - 1])])
    IN  nest

(* Data are taken by the innermost of the loops from level b on. *)
RegularFrom(c, b) ==
    /\ b <= Len(c)
    /\ \A i \in b..Len(c) : Regular(c[i]) /\ (c[i].kind = "data" <=> i = Len(c))

(* "for v in values": data are taken at exactly the positions, and in the   *)
(* order, of nested for loops, an inner loop starting anew each time; a     *)
(* loop runs at least once. At the end every loop has been closed, once and *)
(* from the outermost on.                                                   *)
NestedOrder ==
    /\ RegularFrom(loops, 1) =>
          LET want == Nested(loops)[Len(loops)]
          IN  /\ Len(taken) <= Len(want)
              /\ \A k \in DOMAIN taken : taken[k].stat = want[k]
              /\ (phase = "done") => Len(taken) = Len(want)
    /\ (phase = "done") => closed = [i \in DOMAIN loops |-> i]

(* The scan ends.                                                           *)
ScanEnds == <>(phase = "done")
============================================================================
