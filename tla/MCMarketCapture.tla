--------------------------- MODULE MCMarketCapture ---------------------------
(* Small instances of MarketCapture for TLC.                               *)
EXTENDS MarketCapture, TLC

CONSTANTS p1, p2, r1, r2, a1, c1

(* Processes and runs are interchangeable: only their identity matters.   *)
Symmetric == Permutations(Procs) \cup Permutations(Runs)
=============================================================================
