---------------------------- MODULE SequenceOps ----------------------------
(***************************************************************************)
(* Operators on sequences that several components need.                    *)
(***************************************************************************)
EXTENDS Integers, Sequences, SequencesExt

(* The elements of a sequence that belong to a set, in their order. *)
Selected(s, S) == FlattenSeq([i \in DOMAIN s |-> IF s[i] \in S THEN <<s[i]>> ELSE <<>>])
============================================================================
