---------------------------- MODULE MCDataLoop ----------------------------
(***************************************************************************)
(* TLC instances of DataLoop.                                              *)
(***************************************************************************)
EXTENDS DataLoop

Setup(n, withThread, faulty, trigCnt, tolerance, flushes) ==
    [numFe |-> n, active |-> withThread, faulty |-> faulty, trigCnt |-> trigCnt,
     tolerance |-> tolerance, flushes |-> flushes]

(* Two front ends, one with a bad link, and bursts of one trigger; two of   *)
(* which one is inactive: it sends, but nobody decodes its data; one front  *)
(* end and bursts of two; a tolerance of one event, and one that makes the  *)
(* number of events to wait for wrap around.                                *)
OneFe == Setup(1, {0}, {0}, 2, 0, TRUE)
AllSetups == {Setup(2, {0, 1}, {1}, 1, 0, FALSE), Setup(2, {0}, {}, 1, 0, TRUE), OneFe,
              Setup(1, {0}, {}, 2, 1, FALSE), Setup(1, {0}, {0}, 1, 2, TRUE)}
OneSetup == {OneFe}
============================================================================
