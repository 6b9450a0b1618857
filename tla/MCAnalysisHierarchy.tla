----------------------- MODULE MCAnalysisHierarchy -----------------------
(***************************************************************************)
(* The TLC instance of AnalysisHierarchy.  Names are numbers.              *)
(***************************************************************************)
EXTENDS AnalysisHierarchy

(* Names 1 to N, and 0, which no algorithm has. *)
NumberNames == 0..N

(* Names in the order of the configuration, or the first one used twice. *)
SomeNames == {[i \in Index |-> i], [i \in Index |-> IF i = N THEN 1 ELSE i]}

(* No list, an empty one, one name, or two in order. *)
SomeLists ==
    {NoDependOn, <<>>} \cup {<<a>> : a \in Names}
        \cup {<<p[1], p[2]>> : p \in {q \in Index \X Index : q[1] < q[2]}}
============================================================================
