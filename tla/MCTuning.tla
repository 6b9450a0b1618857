----------------------------- MODULE MCTuning -----------------------------
(***************************************************************************)
(* TLC instances of Tuning: the scans.                                     *)
(***************************************************************************)
EXTENDS Tuning

Data == Loop("data", 0, 0, 1)
Parameters == {Loop("parameter", a, b, s) : a \in {-1, 1}, b \in {0, 2}, s \in {1, 2}}
Inner == {Loop("repeater", 0, 2, 1), Loop("repeater", 1, 2, 1),
          Loop("mask", 0, 2, 1), Loop("stage", 1, 3, 2)}

(* Two loops around the data loop, one, or none. *)
Scans ==
    {<<>>, <<Data>>}
        \cup {<<a, Data>> : a \in Parameters \cup Inner}
        \cup {<<a, b, Data>> : a, b \in Parameters \cup Inner}

SetupWith(loop, a, c, act, r, en) ==
    [loops |-> loop, algorithm |-> a, chip |-> c, active |-> act, reset |-> r, applyEnMask |-> en]
Setup(loop, a, c, act, r) == SetupWith(loop, a, c, act, r, FALSE)

Mask == Loop("mask", 0, 2, 1)
Global(max, step) == <<Loop("globalFeedback", 0, max, step), Mask, Data>>
Pixel == <<Loop("pixelFeedback", -2, 2, 1), Mask, Data>>
Fei4Scan == <<Loop("globalFeedback", 1, 6, 4), Loop("stage", 0, 2, 1), Data>>

(* Occupancy scans with one front end, one of them leaving out disabled     *)
(* pixels; tunings with two, one and none.                                  *)
AllSetups ==
    {Setup(s, "occupancy", "rd53a", {0}, FALSE) : s \in Scans}
        \cup {SetupWith(<<Loop("parameter", 1, 2, 1), Mask, Data>>, "occupancy", "rd53b", {0},
                        FALSE, TRUE)}
        \cup {Setup(Global(5, 2), a, c, act, TRUE) :
                a \in {"occTune", "tot", "noise"}, c \in {"rd53a", "rd53b"},
                act \in {{0, 1}, {1}, {}}}
        \cup {Setup(Fei4Scan, a, "fei4", {0, 1}, TRUE) : a \in {"occTune", "tot"}}
        \cup {Setup(Pixel, "pixel", c, {0, 1}, r) : c \in {"rd53a", "rd53b"}, r \in BOOLEAN}

AllConfigs == {s.loops : s \in AllSetups}

(* Digital and analog scans: mask stages around the data loop. *)
MaskSetups == {Setup(<<Mask, Data>>, "occupancy", "rd53a", {0}, FALSE)}
MaskConfigs == {s.loops : s \in MaskSetups}

Steps == <<2, 1>>
============================================================================
