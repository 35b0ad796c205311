----------------------------- MODULE MCBackfill -----------------------------
(* Small instances of Backfill for TLC.                                    *)
EXTENDS Backfill, TLC

CONSTANTS s1, s2, d1, n1, n2

AllTrouble == {"crash", "session", "journal", "spool", "record", "sweep",
               "cleanup", "persist", "corrupt"}

Symmetric == Permutations(Slices)
=============================================================================
