----------------------------- MODULE MCScheduler -----------------------------
(* Small instances of Scheduler for TLC.                                   *)
EXTENDS Scheduler, TLC

CONSTANTS p1, p2

(* A process may die anywhere under the lock ...                           *)
AnyPoint == PCs \ {"idle", "ready"}

(* ... except between the run row and the 'missed' event of a missed       *)
(* record.                                                                 *)
OutsideMissedRecord == AnyPoint \ {"missed_event"}

(* ... or exactly there.                                                   *)
MissedRecordGap == {"missed_event"}

Symmetric == Permutations(Procs)
=============================================================================
