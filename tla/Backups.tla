------------------------------ MODULE Backups ------------------------------
(* Backups: the local dump, the off-site copy, its check and the restore   *)
(* check of worker/ops, each a process that records one run in the ledger  *)
(* ops.backup_runs and mirrors it in a status file per kind. A dump is a   *)
(* directory named by its start (a number here); the ledger row and the    *)
(* file name what it covers. Ages in hours are left out, except that a row *)
(* becomes stale; so are manifests, digests and redaction.                 *)
EXTENDS Naturals, Sequences, FiniteSets, FiniteSetsExt, SequencesExt

CONSTANTS Procs,      \* processes of the four commands
          Commands,   \* the kinds each of them runs
          None,
          MaxRows,    \* bound: a run beyond it ends once it has closed others
          MaxDumps,   \* bound: dumps started
          MaxTrouble  \* bound: crashes, lost sessions, refused statements, damage,
                      \* failed operations, missing configuration

VARIABLES rows,      \* ops.backup_runs in id order
          stale,     \* rows 1..stale started more than stale_run_hours ago
          file,      \* status/<kind>.json, or None
          dumps,     \* directories renamed into place
          damaged,   \* dumps whose files no longer match their manifest
          names,     \* dump names given so far
          trouble,
          l

vars == <<rows, stale, file, dumps, damaged, names, trouble, l>>
disk == <<dumps, damaged, names>>

KINDS == {"local_dump", "offsite_sync", "offsite_check", "restore_check"}
TERMINAL == {"succeeded", "failed", "not_configured"}
UNRECORDED == "unrecorded"

ASSUME BoundsAreNatural == MaxRows \in Nat \ {0} /\ MaxDumps \in Nat /\ MaxTrouble \in Nat

\* A session is none (the connection failed), up, or lost under the process.
Idle == [pc |-> "idle", kind |-> None, conn |-> "none", id |-> None, outcome |-> None,
         covers |-> {}, art |-> None, bad |-> {}, name |-> None]

Init ==
  /\ rows = <<>> /\ stale = 0
  /\ file = [k \in KINDS |-> None]
  /\ dumps = {} /\ damaged = {} /\ names = 0
  /\ trouble = 0
  /\ l = [p \in Procs |-> Idle]

Trouble == trouble < MaxTrouble /\ trouble' = trouble + 1
Goto(p, r, pc) == l' = [l EXCEPT ![p] = [r EXCEPT !.pc = pc]]

-----------------------------------------------------------------------------
(* ledger.py *)

\* The guard of ops.backup_runs: a finished row is immutable.
SetRow(r, status) == [rows EXCEPT ![r].status = IF @ = "running" THEN status ELSE @]

\* The file keeps what a reader looks at: of an unrecorded run its row and
\* outcome, of a success its row and how it was recorded.
record(s, status, how) ==
  [status |-> status, id |-> IF status \in {UNRECORDED, "succeeded"} THEN s.id ELSE None,
   outcome |-> IF status = UNRECORDED /\ s.id # None THEN s.outcome ELSE None,
   ledger |-> how]

exit_code(rec) ==
  IF rec.ledger # "database" THEN 1
  ELSE CASE rec.status = "succeeded" -> 0 [] rec.status = "not_configured" -> 2 [] OTHER -> 1

\* What the next run writes for one that could not: never a success.
closing_status(outcome) == IF outcome = "not_configured" THEN outcome ELSE "failed"

\* Mutant: only the row an unrecorded file names is closed.
Bugclose_abandoned(k) ==
  rows' = IF file[k] # None /\ file[k].status = UNRECORDED /\ file[k].id # None
          THEN SetRow(file[k].id, closing_status(file[k].outcome)) ELSE rows
\* The row an unrecorded file of the kind names, then its stale rows.
close_abandoned(k) ==
  LET unrecorded == IF file[k] # None /\ file[k].status = UNRECORDED THEN {file[k].id} ELSE {}
      closed(r) == IF r \in unrecorded THEN closing_status(file[k].outcome)
                   ELSE IF r <= stale /\ rows[r].kind = k THEN "failed" ELSE "running"
  IN rows' = [r \in DOMAIN rows |-> IF rows[r].status = "running"
                                    THEN [rows[r] EXCEPT !.status = closed(r)] ELSE rows[r]]

\* The command opens its ledger and closes what others left; without a
\* connection it goes straight on.
open_ledger(p, k) ==
  /\ l[p].pc = "idle" /\ k \in Commands[p]
  /\ \/ /\ close_abandoned(k) /\ UNCHANGED trouble
        /\ IF Len(rows) = MaxRows THEN UNCHANGED l
           ELSE Goto(p, [Idle EXCEPT !.kind = k, !.conn = "up"], "start")
     \/ Trouble /\ Goto(p, [Idle EXCEPT !.kind = k], "start") /\ UNCHANGED rows
  /\ UNCHANGED <<stale, file, disk>>

\* The run row and the 'running' file; the run goes ahead without a row. A
\* session lost in the insert may have committed it.
start(p) ==
  LET s == l[p]
      row == [kind |-> s.kind, status |-> "running", covers |-> {}, art |-> None, bad |-> {}]
      go(r) == /\ Goto(p, r, s.kind)
               /\ file' = [file EXCEPT ![s.kind] =
                            [status |-> "running", id |-> None, outcome |-> None, ledger |-> None]]
  IN /\ s.pc = "start"
     /\ \/ /\ s.conn = "up" /\ Len(rows) < MaxRows
           /\ rows' = Append(rows, row)
           /\ \/ go([s EXCEPT !.id = Len(rows) + 1]) /\ UNCHANGED trouble
              \/ go([s EXCEPT !.conn = "lost"]) /\ Trouble
        \/ s.conn # "up" /\ go(s) /\ UNCHANGED <<rows, trouble>>
        \/ /\ s.conn = "up" /\ Len(rows) = MaxRows
           /\ Goto(p, Idle, "idle") /\ UNCHANGED <<rows, file, trouble>>
     /\ UNCHANGED <<stale, disk>>

\* The terminal UPDATE: committed; or refused, by the guard or otherwise; or
\* the session is lost, before or after the commit.
finish(p) ==
  LET s == l[p]
      running == s.id # None /\ rows[s.id].status = "running"
      done == [rows EXCEPT ![s.id] = [@ EXCEPT !.status = s.outcome, !.covers = s.covers,
                                               !.art = s.art, !.bad = s.bad]]
      end(rec) == file' = [file EXCEPT ![s.kind] = rec] /\ Goto(p, Idle, "idle")
  IN /\ s.pc = "finish"
     /\ \/ /\ s.conn = "none" \/ s.id = None
           /\ end(record(s, UNRECORDED, "unavailable")) /\ UNCHANGED <<rows, trouble>>
        \/ /\ s.conn = "up" /\ running
           /\ rows' = done
           /\ \/ end(record(s, s.outcome, "database")) /\ UNCHANGED trouble
              \/ Trouble /\ Goto(p, [s EXCEPT !.conn = "lost"], "fallback") /\ UNCHANGED file
        \/ /\ s.id # None /\ (s.conn = "lost" \/ ~running)
           /\ Goto(p, s, "fallback") /\ UNCHANGED <<rows, file, trouble>>
        \/ /\ s.conn = "up" /\ running /\ Trouble
           /\ Goto(p, s, "fallback") /\ UNCHANGED <<rows, file>>
     /\ UNCHANGED <<stale, disk>>

\* Mutant: the reported outcome stands when the row cannot be read.
Bugcommitted(s, status) == IF s.conn = "up" /\ status \in TERMINAL THEN status ELSE s.outcome
\* What the row really holds.
committed(s, status) == IF s.conn = "up" /\ status \in TERMINAL THEN status ELSE UNRECORDED

\* A minimal non-success, if the row is still running and the statement works,
\* and then what the row holds.
Fallback(p) ==
  LET s == l[p]
      status == IF s.outcome = "succeeded" THEN "failed" ELSE s.outcome
  IN /\ s.pc = "fallback"
     /\ \/ s.conn = "up" /\ rows' = SetRow(s.id, status) /\ UNCHANGED trouble
        \/ s.conn = "up" /\ Trouble /\ UNCHANGED rows
        \/ s.conn = "lost" /\ UNCHANGED <<rows, trouble>>
     /\ file' = [file EXCEPT ![s.kind] = record(s, committed(s, rows'[s.id].status), "update_failed")]
     /\ Goto(p, Idle, "idle")
     /\ UNCHANGED <<stale, disk>>

\* The work is done: what finish is to record.
Outcome(p, outcome, covers, art) ==
  Goto(p, [l[p] EXCEPT !.outcome = outcome, !.covers = covers, !.art = art, !.name = None], "finish")

\* An exception, an exit code, a missing configuration: recorded, covers nothing.
Fail(p, outcome) == Trouble /\ Outcome(p, outcome, {}, None)

-----------------------------------------------------------------------------
(* backup.py: dump and verify *)

Stage(p) ==
  /\ l[p].pc = "local_dump" /\ l[p].name = None
  /\ \/ /\ names < MaxDumps
        /\ names' = names + 1 /\ UNCHANGED trouble
        /\ Goto(p, [l[p] EXCEPT !.name = names + 1], "local_dump")
     \/ Fail(p, "failed") /\ UNCHANGED names
     \/ names = MaxDumps /\ Outcome(p, "failed", {}, None) /\ UNCHANGED <<names, trouble>>
  /\ UNCHANGED <<rows, stale, file, dumps, damaged>>

\* Complete, then renamed into place; an error before the rename removes the
\* partial directory (a crash leaves it, and nothing lists it), one after the
\* rename leaves the dump.
dump(p) ==
  LET d == l[p].name
  IN /\ l[p].pc = "local_dump" /\ d # None
     /\ \/ dumps' = dumps \cup {d} /\ Outcome(p, "succeeded", {}, d) /\ UNCHANGED trouble
        \/ dumps' = dumps \cup {d} /\ Fail(p, "failed")
        \/ UNCHANGED dumps /\ Fail(p, "failed")
     /\ UNCHANGED <<rows, stale, file, damaged, names>>

\* The directories in place; a partial one is not listed.
list_dumps == dumps

verify_dump(d) == d \in dumps /\ d \notin damaged

-----------------------------------------------------------------------------
(* offsite.py and restore_check.py *)

sync(p) ==
  /\ l[p].pc = "offsite_sync"
  /\ \/ Fail(p, "not_configured")
     \/ /\ Goto(p, [l[p] EXCEPT !.covers = {d \in list_dumps : verify_dump(d)}, !.bad = damaged], "upload")
        /\ UNCHANGED trouble
  /\ UNCHANGED <<rows, stale, file, disk>>

\* restic backup takes the tree as it is now; then its snapshot is looked up.
Upload(p) ==
  /\ l[p].pc = "upload"
  /\ \/ Outcome(p, "succeeded", l[p].covers, dumps) /\ UNCHANGED trouble
     \/ Fail(p, "failed")
  /\ UNCHANGED <<rows, stale, file, disk>>

check(p) ==
  /\ l[p].pc = "offsite_check"
  /\ \/ Outcome(p, "succeeded", {}, None) /\ UNCHANGED trouble
     \/ \E outcome \in {"failed", "not_configured"} : Fail(p, outcome)
  /\ UNCHANGED <<rows, stale, file, disk>>

\* The newest dump verified, restored into a throwaway cluster and compared;
\* no dump, or a damaged one, is a failure without any trouble.
restore_check(p) ==
  LET target == Max(list_dumps)
  IN /\ l[p].pc = "restore_check"
     /\ IF list_dumps = {} \/ ~verify_dump(target)
        THEN Outcome(p, "failed", {}, None) /\ UNCHANGED trouble
        ELSE \/ /\ Goto(p, [l[p] EXCEPT !.outcome = "succeeded", !.covers = {target}, !.art = target,
                                         !.bad = damaged], "finish")
                /\ UNCHANGED trouble
             \/ Fail(p, "failed")
     /\ UNCHANGED <<rows, stale, file, disk>>

-----------------------------------------------------------------------------
(* Faults and time *)

Crash(p) ==
  /\ l[p].pc # "idle" /\ Trouble
  /\ Goto(p, Idle, "idle")
  /\ UNCHANGED <<rows, stale, file, disk>>

Lose(p) ==
  /\ l[p].pc # "idle" /\ l[p].conn = "up" /\ Trouble
  /\ Goto(p, [l[p] EXCEPT !.conn = "lost"], l[p].pc)
  /\ UNCHANGED <<rows, stale, file, disk>>

Damage ==
  /\ Trouble
  /\ \E d \in dumps \ damaged : damaged' = damaged \cup {d}
  /\ UNCHANGED <<rows, stale, file, dumps, names, l>>

Age ==
  /\ stale < Len(rows) /\ stale' = stale + 1
  /\ UNCHANGED <<rows, file, disk, trouble, l>>

-----------------------------------------------------------------------------
(* backup.py: protection_status *)

LastRun(k) == SelectLastInSeq(rows, LAMBDA r : r.kind = k)
Succeeded(k) == {r \in DOMAIN rows : rows[r].kind = k /\ rows[r].status = "succeeded"}

\* Mutant: a dump is taken as covered once any sync has succeeded.
Bugcovered_offsite == IF Succeeded("offsite_sync") # {} THEN dumps ELSE {}
covered_offsite == UNION {rows[r].covers : r \in Succeeded("offsite_sync")}

\* The alerts read from the ledger and the files. Without a database no run
\* has an age, and the first two are always raised.
alerts ==
  [no_success |-> {k \in {"local_dump", "offsite_sync"} : Succeeded(k) = {}},
   last_run   |-> {k \in KINDS : LastRun(k) # 0 /\ rows[LastRun(k)].status \in
                     IF k = "offsite_sync" THEN {"failed", "not_configured"} ELSE {"failed"}},
   unrecorded |-> {k \in KINDS : file[k] # None /\ file[k].status = UNRECORDED},
   local_only |-> list_dumps \ covered_offsite]

-----------------------------------------------------------------------------
Step(p) ==
  \/ start(p) \/ finish(p) \/ Fallback(p)
  \/ Stage(p) \/ dump(p) \/ sync(p) \/ Upload(p) \/ check(p) \/ restore_check(p)

Next ==
  \/ \E p \in Procs : \/ \E k \in KINDS : open_ledger(p, k)
                      \/ Step(p) \/ Crash(p) \/ Lose(p)
  \/ Damage \/ Age

\* A started process goes on, time passes, and the timer of every kind fires
\* again and again (systemd starts each unit on its own).
Fairness ==
  /\ \A p \in Procs : WF_vars(Step(p))
  /\ WF_vars(Age)
  /\ \A k \in KINDS : SF_vars(\E p \in Procs : open_ledger(p, k))

Spec == Init /\ [][Next]_vars /\ Fairness

-----------------------------------------------------------------------------
(* Properties *)

\* No false success: a ledger row or a status file that says 'succeeded'
\* stands for an operation that did what it says, a file never says so of a
\* row that does not, and a dump damaged before a sync or a restore check
\* began is not among the dumps it covers.
Real(row) ==
  /\ row.covers \cap row.bad = {}
  /\ CASE row.kind = "local_dump"    -> row.art \in dumps
       [] row.kind = "offsite_sync"  -> row.covers \subseteq row.art
       [] row.kind = "restore_check" -> row.covers = {row.art} /\ row.art \in dumps
       [] OTHER -> TRUE
NoFalseSuccess ==
  /\ \A k \in KINDS : \A r \in Succeeded(k) : Real(rows[r])
  /\ \A k \in KINDS : file[k] # None =>
       /\ file[k].status = "succeeded" \/ exit_code(file[k]) = 0
             => file[k].id # None /\ rows[file[k].id].status = "succeeded"

\* A status without alerts means protected: every local dump is in an
\* off-site snapshot that a committed run vouches for.
QuietMeansProtected ==
  (\A a \in DOMAIN alerts : alerts[a] = {}) => \A d \in dumps : \E r \in Succeeded("offsite_sync") :
                    d \in rows[r].covers \cap rows[r].art

\* Every run row reaches its one terminal status, although its process died,
\* lost its session or could not commit.
LedgerSettles ==
  \A r \in 1..MaxRows : (r \in DOMAIN rows) ~> (r \in DOMAIN rows /\ rows[r].status \in TERMINAL)
=============================================================================
