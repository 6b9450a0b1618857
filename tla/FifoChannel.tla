---------------------------- MODULE FifoChannel ----------------------------
(***************************************************************************)
(* What a ClipBoard promises to its users: a first-in first-out channel    *)
(* that delivers each datum once and can be closed once all data are in.   *)
(* The receiver may discard what is waiting in it.                         *)
(***************************************************************************)
EXTENDS Naturals, Sequences

CONSTANT Data

VARIABLES sent,      \* the data put into the channel and not discarded
          received,  \* the data taken out of it
          closed     \* nothing more will be sent

vars == <<sent, received, closed>>

Init == sent = <<>> /\ received = <<>> /\ closed = FALSE

Send(d) ==
    /\ ~closed
    /\ sent' = Append(sent, d)
    /\ UNCHANGED <<received, closed>>

(* The next datum in the order of sending. *)
Receive ==
    /\ Len(received) < Len(sent)
    /\ received' = Append(received, sent[Len(received) + 1])
    /\ UNCHANGED <<sent, closed>>

Discard ==
    /\ ~closed
    /\ sent' = received
    /\ UNCHANGED <<received, closed>>

Close ==
    /\ closed' = TRUE
    /\ UNCHANGED <<sent, received>>

Next == (\E d \in Data : Send(d)) \/ Receive \/ Discard \/ Close

Spec == Init /\ [][Next]_vars
============================================================================
