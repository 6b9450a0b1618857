----------------------------- MODULE MCReadout -----------------------------
(***************************************************************************)
(* TLC instance of Readout: both controllers, each way of reading, counted *)
(* and timed triggers, one and two receiver threads for two channels.      *)
(***************************************************************************)
EXTENDS Readout

Entries(chns) == [i \in DOMAIN chns |-> BookEntry(i, chns[i])]

Option(k, chns, n, r, t, cnt, mon) ==
    [controller |-> k, entries |-> Entries(chns), nThreads |-> n, reader |-> r,
     trigger |-> t, trigCnt |-> cnt, monitor |-> mon]

(* A channel for each front end, or one for both. The monitor, with its many *)
(* places to look, runs where there is one channel.                          *)
SomeOptions ==
    {Option("felix", <<1, 2>>, 2, "gather", "count", 1, FALSE),
     Option("felix", <<1, 1>>, 1, "gather", "time", 2, FALSE),
     Option("felix", <<1, 2>>, 1, "cycle", "count", 1, FALSE),
     Option("felix", <<2, 1>>, 2, "cycle", "count", 1, FALSE),
     Option("felix", <<1>>, 1, "gather", "count", 1, TRUE),
     Option("felix", <<2>>, 1, "discard", "time", 2, TRUE),
     Option("felix", <<2>>, 1, "cycle", "count", 1, TRUE),
     Option("emu", <<1, 1>>, 1, "gather", "count", 2, FALSE),
     Option("emu", <<1>>, 1, "discard", "count", 2, FALSE),
     Option("emu", <<2>>, 1, "cycle", "count", 2, FALSE)}
============================================================================
