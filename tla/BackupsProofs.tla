---------------------------- MODULE BackupsProofs ----------------------------
(***************************************************************************)
(* Proofs about Backups, for every set of processes and commands, any      *)
(* number of runs, dumps, crashes, lost sessions and failed statements.    *)
(***************************************************************************)
EXTENDS Backups, TLAPS

-----------------------------------------------------------------------------
(* The inductive invariant *)

Dump == 1..MaxDumps
PCs == {"idle", "start", "upload", "finish", "fallback"} \cup KINDS
Art == Dump \cup (SUBSET Dump) \cup {None}
RowType == [kind : KINDS, status : {"running"} \cup TERMINAL,
            covers : SUBSET Dump, art : Art, bad : SUBSET Dump]
FileType == [status : {"running", UNRECORDED} \cup TERMINAL, id : Nat \cup {None},
             outcome : TERMINAL \cup {None},
             ledger : {"database", "unavailable", "update_failed", None}]
ProcType == [pc : PCs, kind : KINDS \cup {None}, conn : {"none", "up", "lost"},
             id : Nat \cup {None}, outcome : TERMINAL \cup {None},
             covers : SUBSET Dump, art : Art, bad : SUBSET Dump,
             name : Dump \cup {None}]

TypeOK ==
  /\ rows \in Seq(RowType)
  /\ stale \in 0..Len(rows)
  /\ file \in [KINDS -> FileType \cup {None}]
  /\ dumps \in SUBSET Dump /\ damaged \in SUBSET dumps
  /\ names \in 0..MaxDumps /\ trouble \in 0..MaxTrouble
  /\ l \in [Procs -> ProcType]

(* What a row, or a process about to write it, claims is so, given the     *)
(* dumps ds in place.                                                      *)
RealIn(x, ds) ==
  /\ x.covers \cap x.bad = {}
  /\ x.kind = "local_dump" => x.art \in ds
  /\ x.kind = "offsite_sync" => x.covers \subseteq x.art
  /\ x.kind = "restore_check" => x.covers = {x.art} /\ x.art \in ds

RowOK(row, ds) == row.status = "succeeded" => RealIn(row, ds)

(* A file that reports a success names a row that says so.                 *)
FileOK(f, rs) ==
  f.status = "succeeded" => f.id # None /\ f.id \in DOMAIN rs
                            /\ rs[f.id].status = "succeeded"

(* A process and its row.                                                  *)
ProcOK(s, rs, ds) ==
  /\ s.pc # "idle" => s.kind \in KINDS
  /\ s.pc \in KINDS => s.pc = s.kind
  /\ s.pc = "upload" => /\ s.kind = "offsite_sync"
                        /\ s.covers \subseteq ds /\ s.covers \cap s.bad = {}
  /\ s.pc \in {"finish", "fallback"} =>
       s.outcome \in TERMINAL /\ (s.outcome = "succeeded" => RealIn(s, ds))
  /\ s.pc = "fallback" => s.id # None
  /\ s.id # None => s.id \in DOMAIN rs /\ rs[s.id].kind = s.kind

BackInv ==
  /\ TypeOK
  /\ \A r \in DOMAIN rows : RowOK(rows[r], dumps)
  /\ \A k \in KINDS : file[k] # None => FileOK(file[k], rows)
  /\ \A p \in Procs : ProcOK(l[p], rows, dumps)

-----------------------------------------------------------------------------
(* Updates                                                                 *)

(* The ledger new continues the ledger rs: no row goes, a row keeps its    *)
(* kind, and one that has succeeded stays so.                              *)
Continues(rs, new) ==
  /\ DOMAIN rs \subseteq DOMAIN new
  /\ \A r \in DOMAIN rs : /\ new[r].kind = rs[r].kind
                          /\ rs[r].status = "succeeded" => new[r] = rs[r]

(* What the ledger and the disk must be for a step.                        *)
StoreOK(new, ds) ==
  /\ new \in Seq(RowType) /\ Len(rows) <= Len(new)
  /\ Continues(rows, new)
  /\ \A r \in DOMAIN new : RowOK(new[r], ds)
  /\ ds \in SUBSET Dump /\ dumps \subseteq ds

(* What stays true of the files and of the other processes.                *)
LEMMA KeepsOK ==
  ASSUME NEW rs, NEW new, NEW ds, NEW more, Continues(rs, new), ds \subseteq more
  PROVE  /\ \A f : FileOK(f, rs) => FileOK(f, new)
         /\ \A s : ProcOK(s, rs, ds) => ProcOK(s, new, more)
<1>1. ASSUME NEW f, FileOK(f, rs)
      PROVE  FileOK(f, new)
  BY <1>1 DEF FileOK, Continues
<1>2. ASSUME NEW s, ProcOK(s, rs, ds)
      PROVE  ProcOK(s, new, more)
  <2>1. RealIn(s, ds) => RealIn(s, more)
    BY DEF RealIn
  <2> QED BY <1>2, <2>1 DEF ProcOK, Continues
<1> QED BY <1>1, <1>2

(* The step of a process, with what it does to the files.                  *)
LEMMA ProcessStep ==
  ASSUME BackInv, NEW p \in Procs, NEW s \in ProcType, l' = [l EXCEPT ![p] = s],
         ProcOK(s, rows', dumps'), StoreOK(rows', dumps'),
         file' \in [KINDS -> FileType \cup {None}],
         \A k \in KINDS : file'[k] = file[k] \/ FileOK(file'[k], rows'),
         names' \in 0..MaxDumps, trouble' \in 0..MaxTrouble,
         stale' = stale, damaged' = damaged
  PROVE  BackInv'
<1>1. TypeOK'
  <2>1. l' \in [Procs -> ProcType]
    BY DEF BackInv, TypeOK
  <2>2. stale' \in 0..Len(rows')
    BY DEF BackInv, TypeOK, StoreOK
  <2>3. rows' \in Seq(RowType) /\ dumps' \in SUBSET Dump /\ damaged' \in SUBSET dumps'
    BY DEF BackInv, TypeOK, StoreOK
  <2> QED BY <2>1, <2>2, <2>3 DEF TypeOK
<1>2. \A q \in Procs : l'[q] = IF q = p THEN s ELSE l[q]
  BY DEF BackInv, TypeOK
<1>3. /\ \A f : FileOK(f, rows) => FileOK(f, rows')
      /\ \A t : ProcOK(t, rows, dumps) => ProcOK(t, rows', dumps')
  BY KeepsOK DEF StoreOK
<1>4. \A q \in Procs : ProcOK(l'[q], rows', dumps')
  BY <1>2, <1>3 DEF BackInv
<1>5. \A k \in KINDS : file'[k] # None => FileOK(file'[k], rows')
  BY <1>3 DEF BackInv
<1> QED BY <1>1, <1>4, <1>5 DEF BackInv, StoreOK

(* A ledger and a disk that do not change.                                 *)
LEMMA SameStore ==
  ASSUME BackInv
  PROVE  StoreOK(rows, dumps)
BY DEF BackInv, TypeOK, StoreOK, Continues

(* More dumps.                                                             *)
LEMMA MoreDumps ==
  ASSUME BackInv, NEW d \in Dump
  PROVE  StoreOK(rows, dumps \cup {d})
<1>1. \A r \in DOMAIN rows : RowOK(rows[r], dumps \cup {d})
  BY DEF BackInv, RowOK, RealIn
<1>2. rows \in Seq(RowType) /\ Len(rows) <= Len(rows) /\ Continues(rows, rows)
  BY DEF BackInv, TypeOK, Continues
<1>3. dumps \in SUBSET Dump
  BY DEF BackInv, TypeOK
<1> QED BY <1>1, <1>2, <1>3 DEF StoreOK

(* The update of a running row.                                            *)
LEMMA RowUpdate ==
  ASSUME BackInv, NEW r \in DOMAIN rows, NEW n \in RowType, RowOK(n, dumps),
         n.kind = rows[r].kind, rows[r].status # "succeeded"
  PROVE  /\ StoreOK([rows EXCEPT ![r] = n], dumps)
         /\ [rows EXCEPT ![r] = n][r] = n
         /\ DOMAIN [rows EXCEPT ![r] = n] = DOMAIN rows
<1> DEFINE new == [rows EXCEPT ![r] = n]
<1>1. rows \in Seq(RowType) /\ dumps \in SUBSET Dump
      /\ \A q \in DOMAIN rows : RowOK(rows[q], dumps)
  BY DEF BackInv, TypeOK
<1>2. new \in Seq(RowType) /\ Len(new) = Len(rows) /\ DOMAIN new = DOMAIN rows
      /\ new[r] = n /\ \A q \in DOMAIN rows : q # r => new[q] = rows[q]
  BY <1>1
<1>0. rows[r].kind = n.kind
  OBVIOUS
<1> HIDE DEF new
<1>3. StoreOK(new, dumps)
  BY <1>1, <1>2 DEF StoreOK, Continues
<1> QED BY <1>2, <1>3 DEF new

(* Rows that are still running may be closed, never as a success.          *)
LEMMA RowsClosed ==
  ASSUME BackInv, NEW new, new = [r \in DOMAIN rows |-> new[r]],
         \A r \in DOMAIN rows :
           \/ new[r] = rows[r]
           \/ \E st \in {"running", "failed", "not_configured"} :
                rows[r].status = "running" /\ new[r] = [rows[r] EXCEPT !.status = st]
  PROVE  StoreOK(new, dumps)
<1>1. rows \in Seq(RowType) /\ dumps \in SUBSET Dump
      /\ \A q \in DOMAIN rows : RowOK(rows[q], dumps) /\ rows[q] \in RowType
  BY DEF BackInv, TypeOK
<1>2. ASSUME NEW r \in DOMAIN rows
      PROVE  /\ new[r] \in RowType /\ new[r].kind = rows[r].kind
             /\ RowOK(new[r], dumps)
             /\ rows[r].status = "succeeded" => new[r] = rows[r]
  <2>1. CASE new[r] = rows[r]
    BY <1>1, <2>1
  <2>2. ASSUME NEW st \in {"running", "failed", "not_configured"},
               rows[r].status = "running", new[r] = [rows[r] EXCEPT !.status = st]
        PROVE  /\ new[r] \in RowType /\ new[r].kind = rows[r].kind
               /\ new[r].status # "succeeded"
    BY <1>1, <2>2 DEF RowType, TERMINAL
  <2> QED BY <2>1, <2>2 DEF RowOK
<1>3. new \in [1..Len(rows) -> RowType] /\ Len(rows) \in Nat
  BY <1>1, <1>2
<1>4. new \in Seq(RowType) /\ Len(new) = Len(rows) /\ DOMAIN new = DOMAIN rows
  BY <1>1, <1>3
<1> QED BY <1>1, <1>2, <1>4 DEF StoreOK, Continues

-----------------------------------------------------------------------------
(* The steps                                                               *)

(* What the invariant says of a process and of its row.                    *)
LEMMA ProcFacts ==
  ASSUME BackInv, NEW p \in Procs
  PROVE  /\ l[p] \in ProcType /\ ProcOK(l[p], rows, dumps)
         /\ rows \in Seq(RowType) /\ Len(rows) \in Nat /\ DOMAIN rows = 1..Len(rows)
         /\ \A r \in DOMAIN rows : rows[r] \in RowType /\ RowOK(rows[r], dumps)
         /\ dumps \in SUBSET Dump /\ damaged \in SUBSET dumps
         /\ names \in 0..MaxDumps /\ trouble \in 0..MaxTrouble
         /\ file \in [KINDS -> FileType \cup {None}]
BY DEF BackInv, TypeOK

(* Trouble is counted within its bound.                                    *)
LEMMA TroubleType ==
  ASSUME BackInv, Trouble
  PROVE  trouble' \in 0..MaxTrouble
BY BoundsAreNatural DEF Trouble, BackInv, TypeOK

(* An idle process.                                                        *)
LEMMA IdleOK ==
  /\ Idle \in ProcType
  /\ \A rs, ds : ProcOK(Idle, rs, ds)
<1>0. "idle" \in PCs /\ None \in Art /\ {} \in SUBSET Dump
  BY DEF PCs, Art
<1>1. Idle \in ProcType
  BY <1>0 DEF Idle, ProcType
<1>2. Idle.pc = "idle" /\ Idle.id = None
  BY DEF Idle
<1>3. \A rs, ds : ProcOK(Idle, rs, ds)
  BY <1>2 DEF ProcOK, KINDS
<1> QED BY <1>1, <1>3

(* A step that changes one process only, and perhaps dumps and names.      *)
LEMMA LocalStep ==
  ASSUME BackInv, NEW p \in Procs, NEW s \in ProcType, l' = [l EXCEPT ![p] = s],
         ProcOK(s, rows, dumps'), StoreOK(rows, dumps'),
         names' \in 0..MaxDumps, trouble' \in 0..MaxTrouble,
         UNCHANGED <<rows, stale, file, damaged>>
  PROVE  BackInv'
<1>1. /\ ProcOK(s, rows', dumps') /\ StoreOK(rows', dumps')
      /\ file' \in [KINDS -> FileType \cup {None}] /\ \A k \in KINDS : file'[k] = file[k]
      /\ stale' = stale /\ damaged' = damaged
  BY DEF BackInv, TypeOK
<1> QED BY <1>1, ProcessStep

(* close_abandoned never closes a row as a success.                        *)
LEMMA CloseFacts ==
  ASSUME BackInv, NEW k \in KINDS, close_abandoned(k)
  PROVE  StoreOK(rows', dumps)
<1> DEFINE unrecorded ==
             IF file[k] # None /\ file[k].status = UNRECORDED THEN {file[k].id} ELSE {}
           closed(r) == IF r \in unrecorded THEN closing_status(file[k].outcome)
                        ELSE IF r <= stale /\ rows[r].kind = k THEN "failed" ELSE "running"
<1>1. rows' = [r \in DOMAIN rows |-> IF rows[r].status = "running"
                                    THEN [rows[r] EXCEPT !.status = closed(r)] ELSE rows[r]]
  BY DEF close_abandoned
<1>2. \A r : closed(r) \in {"running", "failed", "not_configured"}
  BY DEF closing_status
<1> HIDE DEF closed
<1>3. rows' = [r \in DOMAIN rows |-> rows'[r]]
  BY <1>1
<1>4. \A r \in DOMAIN rows :
        \/ rows'[r] = rows[r]
        \/ \E st \in {"running", "failed", "not_configured"} :
             rows[r].status = "running" /\ rows'[r] = [rows[r] EXCEPT !.status = st]
  BY <1>1, <1>2
<1> QED BY <1>3, <1>4, RowsClosed

(* The command opens its ledger and closes what others left.               *)
LEMMA OpenStep ==
  ASSUME BackInv, NEW p \in Procs, NEW k \in KINDS, open_ledger(p, k)
  PROVE  BackInv'
<1> DEFINE up == [Idle EXCEPT !.kind = k, !.conn = "up", !.pc = "start"]
           none == [Idle EXCEPT !.kind = k, !.pc = "start"]
<1>1. /\ l[p].pc = "idle" /\ UNCHANGED <<stale, file, dumps, damaged, names>>
      /\ names' \in 0..MaxDumps /\ file' \in [KINDS -> FileType \cup {None}]
      /\ l \in [Procs -> ProcType]
  BY DEF open_ledger, disk, BackInv, TypeOK
<1>2. \A s \in {up, none} : s \in ProcType /\ \A rs, ds : ProcOK(s, rs, ds)
  <2>0. "start" \in PCs /\ None \in Art /\ {} \in SUBSET Dump
    BY DEF PCs, Art
  <2>1. up \in ProcType /\ none \in ProcType
    BY <2>0 DEF Idle, ProcType
  <2>2. \A s \in {up, none} : s.pc = "start" /\ s.kind = k /\ s.id = None
    BY DEF Idle
  <2> HIDE DEF up, none
  <2> QED BY <2>1, <2>2 DEF ProcOK, KINDS
<1>3. CASE close_abandoned(k) /\ UNCHANGED trouble
  <2>1. StoreOK(rows', dumps') /\ trouble' \in 0..MaxTrouble
    BY <1>1, <1>3, CloseFacts DEF BackInv, TypeOK
  <2>2. \/ l' = [l EXCEPT ![p] = l[p]]
        \/ l' = [l EXCEPT ![p] = up]
    <3>1. \/ UNCHANGED l
          \/ l' = [l EXCEPT ![p] = up]
          \/ Trouble
      BY DEF open_ledger, Goto
    <3> QED BY <1>1, <1>3, <3>1 DEF Trouble, BackInv, TypeOK
  <2>3. ProcOK(l[p], rows', dumps') /\ l[p] \in ProcType
    BY <1>1, <2>1, KeepsOK DEF StoreOK, BackInv, TypeOK
  <2>4. \E s \in ProcType : l' = [l EXCEPT ![p] = s] /\ ProcOK(s, rows', dumps')
    BY <1>2, <2>2, <2>3
  <2> HIDE DEF up, none
  <2> QED BY <1>1, <2>1, <2>4, ProcessStep
<1>4. CASE Trouble /\ l' = [l EXCEPT ![p] = none] /\ UNCHANGED rows
  <2>1. StoreOK(rows, dumps') /\ trouble' \in 0..MaxTrouble
    BY <1>1, <1>4, SameStore, TroubleType
  <2> HIDE DEF up, none
  <2> QED BY <1>1, <1>2, <1>4, <2>1, LocalStep
<1> QED BY <1>3, <1>4 DEF open_ledger, Goto

(* A new row.                                                              *)
LEMMA RowAppended ==
  ASSUME BackInv, NEW n \in RowType, n.status = "running"
  PROVE  /\ StoreOK(Append(rows, n), dumps)
         /\ Len(rows) + 1 \in DOMAIN Append(rows, n)
         /\ Append(rows, n)[Len(rows) + 1] = n
<1>1. rows \in Seq(RowType) /\ dumps \in SUBSET Dump
      /\ \A q \in DOMAIN rows : RowOK(rows[q], dumps)
  BY DEF BackInv, TypeOK
<1>2. /\ Append(rows, n) \in Seq(RowType) /\ Len(Append(rows, n)) = Len(rows) + 1
      /\ Len(rows) <= Len(Append(rows, n))
      /\ DOMAIN Append(rows, n) = DOMAIN rows \cup {Len(rows) + 1}
      /\ Append(rows, n)[Len(rows) + 1] = n
      /\ \A r \in DOMAIN rows : Append(rows, n)[r] = rows[r]
  BY <1>1
<1>3. RowOK(n, dumps)
  BY DEF RowOK
<1> QED BY <1>1, <1>2, <1>3 DEF StoreOK, Continues

(* The run row and the 'running' file.                                     *)
LEMMA StartStep ==
  ASSUME BackInv, NEW p \in Procs, start(p)
  PROVE  BackInv'
<1> DEFINE s == l[p]
           row == [kind |-> s.kind, status |-> "running", covers |-> {}, art |-> None,
                   bad |-> {}]
           f == [status |-> "running", id |-> None, outcome |-> None, ledger |-> None]
           numbered == [s EXCEPT !.id = Len(rows) + 1, !.pc = s.kind]
           lost == [s EXCEPT !.conn = "lost", !.pc = s.kind]
           on == [s EXCEPT !.pc = s.kind]
<1>1. /\ s \in ProcType /\ ProcOK(s, rows, dumps) /\ s.pc = "start" /\ s.kind \in KINDS
      /\ Len(rows) \in Nat /\ file \in [KINDS -> FileType \cup {None}]
      /\ UNCHANGED <<stale, dumps, damaged, names>>
      /\ names' \in 0..MaxDumps /\ trouble \in 0..MaxTrouble
  BY ProcFacts DEF start, disk, ProcOK
<1>2. f \in FileType /\ f.status = "running"
  BY DEF FileType
<1>3. row \in RowType /\ row.status = "running" /\ row.kind = s.kind
  <2>1. None \in Art /\ {} \in SUBSET Dump
    BY DEF Art
  <2> HIDE DEF s
  <2> QED BY <1>1, <2>1 DEF RowType
<1>4. s.kind \in PCs /\ s.kind \notin {"idle", "start", "upload", "finish", "fallback"}
  BY <1>1 DEF PCs, KINDS
<1>5. /\ numbered \in ProcType /\ numbered.pc = s.kind /\ numbered.kind = s.kind
      /\ numbered.id = Len(rows) + 1
  <2> DEFINE new == Len(rows) + 1
  <2>1. new \in Nat
    BY <1>1
  <2> HIDE DEF new, s
  <2>2. [s EXCEPT !.id = new, !.pc = s.kind] \in ProcType
    BY <1>1, <1>4, <2>1 DEF ProcType
  <2> QED BY <1>1, <2>2 DEF new, ProcType
<1>6. /\ lost \in ProcType /\ lost.pc = s.kind /\ lost.kind = s.kind /\ lost.id = s.id
      /\ on \in ProcType /\ on.pc = s.kind /\ on.kind = s.kind /\ on.id = s.id
  BY <1>1, <1>4 DEF ProcType
<1> HIDE DEF f, row, numbered, lost, on
<1>7. ASSUME file' = [file EXCEPT ![s.kind] = f]
      PROVE  /\ file' \in [KINDS -> FileType \cup {None}]
             /\ \A k \in KINDS : file'[k] = file[k] \/ FileOK(file'[k], rows')
  BY <1>1, <1>2, <1>7 DEF FileOK
<1>8. CASE /\ s.conn = "up" /\ rows' = Append(rows, row)
           /\ file' = [file EXCEPT ![s.kind] = f]
           /\ \/ l' = [l EXCEPT ![p] = numbered] /\ UNCHANGED trouble
              \/ l' = [l EXCEPT ![p] = lost] /\ Trouble
  <2>1. /\ StoreOK(rows', dumps) /\ Len(rows) + 1 \in DOMAIN rows'
        /\ rows'[Len(rows) + 1].kind = s.kind
    BY <1>3, <1>8, RowAppended
  <2>2. ProcOK(numbered, rows', dumps)
    BY <1>1, <1>4, <1>5, <2>1 DEF ProcOK
  <2>3. ProcOK(s, rows', dumps)
    BY <1>1, <2>1, KeepsOK DEF StoreOK
  <2>4. ProcOK(lost, rows', dumps)
    BY <1>1, <1>4, <1>6, <2>3 DEF ProcOK
  <2>5. trouble' \in 0..MaxTrouble
    BY <1>1, <1>8, TroubleType
  <2>6. StoreOK(rows', dumps') /\ ProcOK(lost, rows', dumps')
        /\ ProcOK(numbered, rows', dumps')
    BY <1>1, <2>1, <2>2, <2>4
  <2>7. \E t \in {numbered, lost} : l' = [l EXCEPT ![p] = t]
    BY <1>8
  <2> QED BY <1>1, <1>5, <1>6, <1>7, <1>8, <2>5, <2>6, <2>7, ProcessStep
<1>9. CASE /\ file' = [file EXCEPT ![s.kind] = f] /\ l' = [l EXCEPT ![p] = on]
           /\ UNCHANGED <<rows, trouble>>
  <2>1. ProcOK(on, rows, dumps)
    BY <1>1, <1>4, <1>6 DEF ProcOK
  <2>2. StoreOK(rows', dumps') /\ ProcOK(on, rows', dumps') /\ trouble' \in 0..MaxTrouble
    BY <1>1, <1>9, <2>1, SameStore
  <2> QED BY <1>1, <1>6, <1>7, <1>9, <2>2, ProcessStep
<1>10. CASE l' = [l EXCEPT ![p] = Idle] /\ UNCHANGED <<rows, file, trouble>>
  <2>0. l' = [l EXCEPT ![p] = Idle] /\ Idle \in ProcType
    BY <1>10, IdleOK
  <2>1. ProcOK(Idle, rows, dumps') /\ StoreOK(rows, dumps') /\ trouble' \in 0..MaxTrouble
    BY <1>1, <1>10, IdleOK, SameStore
  <2> QED BY <1>1, <1>10, <2>0, <2>1, LocalStep
<1>11. [Idle EXCEPT !.pc = "idle"] = Idle
  BY DEF Idle
<1> QED BY <1>8, <1>9, <1>10, <1>11
        DEF start, Goto, row, f, numbered, lost, on

(* The dump is complete, an operation has failed, a copy is checked: what  *)
(* the process is about to record.                                         *)
Ending(s, outcome, covers, art) ==
  [s EXCEPT !.outcome = outcome, !.covers = covers, !.art = art, !.name = None,
            !.pc = "finish"]

LEMMA EndingOK ==
  ASSUME NEW s \in ProcType, NEW rs, NEW ds, ProcOK(s, rs, ds), s.pc # "idle",
         NEW outcome \in TERMINAL, NEW covers \in SUBSET Dump, NEW art \in Art,
         outcome = "succeeded" =>
           /\ covers \cap s.bad = {}
           /\ s.kind = "local_dump" => art \in ds
           /\ s.kind = "offsite_sync" => covers \subseteq art
           /\ s.kind = "restore_check" => covers = {art} /\ art \in ds
  PROVE  /\ Ending(s, outcome, covers, art) \in ProcType
         /\ ProcOK(Ending(s, outcome, covers, art), rs, ds)
<1> DEFINE t == Ending(s, outcome, covers, art)
<1>1. "finish" \in PCs /\ "finish" \notin KINDS
  BY DEF PCs, KINDS
<1>2. /\ t \in ProcType /\ t.pc = "finish" /\ t.kind = s.kind /\ t.id = s.id
      /\ t.outcome = outcome /\ t.covers = covers /\ t.art = art /\ t.bad = s.bad
  BY <1>1 DEF Ending, ProcType
<1> HIDE DEF t
<1>3. ProcOK(t, rs, ds)
  BY <1>1, <1>2 DEF ProcOK, RealIn
<1> QED BY <1>2, <1>3 DEF t

(* A failure claims nothing.                                               *)
LEMMA FailStep ==
  ASSUME BackInv, NEW p \in Procs, l[p].pc # "idle", NEW outcome \in TERMINAL,
         outcome # "succeeded", Outcome(p, outcome, {}, None),
         StoreOK(rows, dumps'), names' \in 0..MaxDumps, trouble' \in 0..MaxTrouble,
         UNCHANGED <<rows, stale, file, damaged>>
  PROVE  BackInv'
<1> DEFINE s == Ending(l[p], outcome, {}, None)
<1>1. l[p] \in ProcType /\ ProcOK(l[p], rows, dumps)
  BY ProcFacts
<1>2. Continues(rows, rows) /\ dumps \subseteq dumps'
  BY DEF StoreOK
<1>3. ProcOK(l[p], rows, dumps')
  BY <1>1, <1>2, KeepsOK
<1>4. None \in Art /\ {} \in SUBSET Dump
  BY DEF Art
<1>5. s \in ProcType /\ ProcOK(s, rows, dumps')
  BY <1>1, <1>3, <1>4, EndingOK
<1>6. l' = [l EXCEPT ![p] = s]
  BY DEF Outcome, Goto, Ending
<1> HIDE DEF s
<1> QED BY <1>5, <1>6, LocalStep

(* A status file.                                                          *)
LEMMA RecordOK ==
  ASSUME NEW s \in ProcType, NEW status \in {UNRECORDED} \cup TERMINAL,
         NEW how \in {"database", "unavailable", "update_failed"}, NEW rs,
         status = "succeeded" => s.id # None /\ s.id \in DOMAIN rs
                                 /\ rs[s.id].status = "succeeded"
  PROVE  record(s, status, how) \in FileType /\ FileOK(record(s, status, how), rs)
<1> DEFINE r == record(s, status, how)
<1>1. r \in FileType
  BY DEF record, FileType, ProcType, TERMINAL, UNRECORDED
<1>2. r.status = status /\ (status = "succeeded" => r.id = s.id)
  BY DEF record
<1> HIDE DEF r
<1>3. FileOK(r, rs)
  BY <1>2 DEF FileOK
<1> QED BY <1>1, <1>3 DEF r

(* A run ends with its status file.                                        *)
LEMMA EndStep ==
  ASSUME BackInv, NEW p \in Procs, StoreOK(rows', dumps), trouble' \in 0..MaxTrouble,
         NEW f \in FileType, FileOK(f, rows'), l[p].kind \in KINDS,
         file' = [file EXCEPT ![l[p].kind] = f], l' = [l EXCEPT ![p] = Idle],
         UNCHANGED <<stale, dumps, damaged, names>>
  PROVE  BackInv'
<1>1. /\ file' \in [KINDS -> FileType \cup {None}]
      /\ \A k \in KINDS : file'[k] = file[k] \/ FileOK(file'[k], rows')
  BY DEF BackInv, TypeOK
<1>2. StoreOK(rows', dumps') /\ names' \in 0..MaxDumps
      /\ stale' = stale /\ damaged' = damaged
  BY DEF BackInv, TypeOK
<1>3. Idle \in ProcType /\ ProcOK(Idle, rows', dumps')
  BY IdleOK
<1> QED BY <1>1, <1>2, <1>3, ProcessStep

(* Going over to the fallback.                                             *)
Fallen(s, conn) == [s EXCEPT !.conn = conn, !.pc = "fallback"]

LEMMA FallenOK ==
  ASSUME NEW s \in ProcType, NEW rs, NEW ds, ProcOK(s, rs, ds), s.pc = "finish",
         s.id # None, NEW conn \in {"none", "up", "lost"}
  PROVE  Fallen(s, conn) \in ProcType /\ ProcOK(Fallen(s, conn), rs, ds)
<1> DEFINE t == Fallen(s, conn)
<1>1. "fallback" \in PCs /\ "fallback" \notin KINDS
  BY DEF PCs, KINDS
<1>2. /\ t \in ProcType /\ t.pc = "fallback" /\ t.kind = s.kind /\ t.id = s.id
      /\ t.outcome = s.outcome /\ t.covers = s.covers /\ t.art = s.art /\ t.bad = s.bad
  BY <1>1 DEF Fallen, ProcType
<1> HIDE DEF t
<1>3. ProcOK(t, rs, ds)
  BY <1>1, <1>2 DEF ProcOK, RealIn
<1> QED BY <1>2, <1>3 DEF t

(* The terminal UPDATE.                                                    *)
LEMMA FinishStep ==
  ASSUME BackInv, NEW p \in Procs, finish(p)
  PROVE  BackInv'
<1> DEFINE s == l[p]
           running == s.id # None /\ rows[s.id].status = "running"
           n == [rows[s.id] EXCEPT !.status = s.outcome, !.covers = s.covers,
                                   !.art = s.art, !.bad = s.bad]
           unrecorded == record(s, UNRECORDED, "unavailable")
           recorded == record(s, s.outcome, "database")
<1>1. /\ s \in ProcType /\ ProcOK(s, rows, dumps) /\ s.pc = "finish" /\ s.kind \in KINDS
      /\ s.outcome \in TERMINAL /\ trouble \in 0..MaxTrouble
      /\ \A r \in DOMAIN rows : rows[r] \in RowType
      /\ UNCHANGED <<stale, dumps, damaged, names>>
  BY ProcFacts DEF finish, disk, ProcOK
<1>2. CASE /\ file' = [file EXCEPT ![s.kind] = unrecorded] /\ l' = [l EXCEPT ![p] = Idle]
           /\ UNCHANGED <<rows, trouble>>
  <2>1. unrecorded \in FileType /\ FileOK(unrecorded, rows)
    <3>1. "succeeded" # UNRECORDED
      BY DEF UNRECORDED
    <3> QED BY <1>1, <3>1, RecordOK
  <2>2. StoreOK(rows', dumps) /\ trouble' \in 0..MaxTrouble /\ FileOK(unrecorded, rows')
    BY <1>1, <1>2, <2>1, SameStore
  <2> HIDE DEF unrecorded
  <2> QED BY <1>1, <1>2, <2>1, <2>2, EndStep
<1>3. ASSUME running, rows' = [rows EXCEPT ![s.id] = n]
      PROVE  /\ StoreOK(rows', dumps) /\ s.id \in DOMAIN rows /\ DOMAIN rows' = DOMAIN rows
             /\ rows'[s.id].status = s.outcome
  <2>1. s.id \in DOMAIN rows /\ rows[s.id] \in RowType /\ rows[s.id].kind = s.kind
    BY <1>1, <1>3 DEF ProcOK
  <2>2. /\ n \in RowType /\ n.status = s.outcome /\ n.kind = rows[s.id].kind
        /\ n.covers = s.covers /\ n.art = s.art /\ n.bad = s.bad
    BY <1>1, <2>1 DEF RowType, ProcType
  <2> HIDE DEF n
  <2>3. RowOK(n, dumps)
    BY <1>1, <2>1, <2>2 DEF RowOK, RealIn, ProcOK
  <2>4. rows[s.id].status # "succeeded"
    BY <1>3
  <2> QED BY <1>3, <2>1, <2>2, <2>3, <2>4, RowUpdate
<1>4. CASE /\ running /\ rows' = [rows EXCEPT ![s.id] = n]
           /\ file' = [file EXCEPT ![s.kind] = recorded] /\ l' = [l EXCEPT ![p] = Idle]
           /\ UNCHANGED trouble
  <2>1. s.id # None /\ s.id \in DOMAIN rows' /\ rows'[s.id].status = s.outcome
        /\ StoreOK(rows', dumps)
    BY <1>3, <1>4
  <2>2. recorded \in FileType /\ FileOK(recorded, rows')
    BY <1>1, <2>1, RecordOK
  <2>3. trouble' \in 0..MaxTrouble
    BY <1>1, <1>4
  <2> HIDE DEF recorded, n
  <2> QED BY <1>1, <1>4, <2>1, <2>2, <2>3, EndStep
<1>5. ASSUME NEW conn \in {"none", "up", "lost"}, s.id # None, StoreOK(rows', dumps),
             l' = [l EXCEPT ![p] = Fallen(s, conn)], UNCHANGED file,
             UNCHANGED trouble \/ Trouble
      PROVE  BackInv'
  <2>1. ProcOK(s, rows', dumps)
    BY <1>1, <1>5, KeepsOK DEF StoreOK
  <2>2. Fallen(s, conn) \in ProcType /\ ProcOK(Fallen(s, conn), rows', dumps')
    BY <1>1, <1>5, <2>1, FallenOK
  <2>3. trouble' \in 0..MaxTrouble
    BY <1>1, <1>5, TroubleType
  <2>4. /\ StoreOK(rows', dumps') /\ file' \in [KINDS -> FileType \cup {None}]
        /\ \A k \in KINDS : file'[k] = file[k]
        /\ names' \in 0..MaxDumps /\ stale' = stale /\ damaged' = damaged
    BY <1>1, <1>5 DEF BackInv, TypeOK
  <2> HIDE DEF s
  <2> QED BY <1>5, <2>2, <2>3, <2>4, ProcessStep DEF s
<1>6. CASE /\ running /\ rows' = [rows EXCEPT ![s.id] = n] /\ Trouble
           /\ l' = [l EXCEPT ![p] = Fallen(s, "lost")] /\ UNCHANGED file
  BY <1>3, <1>5, <1>6
<1>7. CASE /\ s.id # None /\ l' = [l EXCEPT ![p] = Fallen(s, s.conn)]
           /\ UNCHANGED <<rows, file>> /\ (UNCHANGED trouble \/ Trouble)
  <2>1. StoreOK(rows', dumps) /\ s.conn \in {"none", "up", "lost"}
    BY <1>1, <1>7, SameStore DEF ProcType
  <2> QED BY <1>5, <1>7, <2>1
<1>8. /\ [s EXCEPT !.pc = "fallback"] = Fallen(s, s.conn)
      /\ [[s EXCEPT !.conn = "lost"] EXCEPT !.pc = "fallback"] = Fallen(s, "lost")
      /\ [Idle EXCEPT !.pc = "idle"] = Idle
  <2> HIDE DEF s
  <2>1. s.pc = "finish" /\ s \in ProcType
    BY <1>1
  <2>2. [s EXCEPT !.pc = "fallback"] = Fallen(s, s.conn)
    BY <2>1 DEF Fallen, ProcType
  <2>3. [[s EXCEPT !.conn = "lost"] EXCEPT !.pc = "fallback"] = Fallen(s, "lost")
    BY <2>1 DEF Fallen, ProcType
  <2>4. [Idle EXCEPT !.pc = "idle"] = Idle
    BY DEF Idle
  <2> QED BY <2>2, <2>3, <2>4
<1>9. running => [rows EXCEPT ![s.id] = [@ EXCEPT !.status = s.outcome, !.covers = s.covers,
                                               !.art = s.art, !.bad = s.bad]]
                 = [rows EXCEPT ![s.id] = n]
  OBVIOUS
<1> HIDE DEF n, recorded, unrecorded
<1>10. \/ /\ file' = [file EXCEPT ![s.kind] = unrecorded] /\ l' = [l EXCEPT ![p] = Idle]
          /\ UNCHANGED <<rows, trouble>>
       \/ /\ running /\ rows' = [rows EXCEPT ![s.id] = n]
          /\ file' = [file EXCEPT ![s.kind] = recorded] /\ l' = [l EXCEPT ![p] = Idle]
          /\ UNCHANGED trouble
       \/ /\ running /\ rows' = [rows EXCEPT ![s.id] = n] /\ Trouble
          /\ l' = [l EXCEPT ![p] = Fallen(s, "lost")] /\ UNCHANGED file
       \/ /\ s.id # None /\ l' = [l EXCEPT ![p] = Fallen(s, s.conn)]
          /\ UNCHANGED <<rows, file>> /\ (UNCHANGED trouble \/ Trouble)
  BY <1>8, <1>9 DEF finish, Goto, recorded, unrecorded
<1> QED BY <1>2, <1>4, <1>6, <1>7, <1>10

(* The minimal non-success, and what the row holds.                        *)
LEMMA FallbackStep ==
  ASSUME BackInv, NEW p \in Procs, Fallback(p)
  PROVE  BackInv'
<1> DEFINE s == l[p]
           status == IF s.outcome = "succeeded" THEN "failed" ELSE s.outcome
           now == committed(s, rows'[s.id].status)
           f == record(s, now, "update_failed")
<1>1. /\ s \in ProcType /\ ProcOK(s, rows, dumps) /\ s.pc = "fallback" /\ s.kind \in KINDS
      /\ s.outcome \in TERMINAL /\ trouble \in 0..MaxTrouble
      /\ s.id # None /\ s.id \in DOMAIN rows
      /\ \A r \in DOMAIN rows : rows[r] \in RowType
      /\ UNCHANGED <<stale, dumps, damaged, names>>
      /\ file' = [file EXCEPT ![s.kind] = f]
  BY ProcFacts DEF Fallback, disk, ProcOK
<1>2. status \in {"failed", "not_configured"}
  BY <1>1 DEF TERMINAL
<1>3. StoreOK(rows', dumps) /\ DOMAIN rows' = DOMAIN rows
  <2>1. CASE UNCHANGED rows
    BY <2>1, SameStore
  <2>2. CASE rows' = SetRow(s.id, status)
    <3> DEFINE old == rows[s.id]
               n == [old EXCEPT !.status = IF @ = "running" THEN status ELSE @]
    <3>1. rows' = [rows EXCEPT ![s.id] = n]
      BY <2>2 DEF SetRow
    <3>2. CASE old.status = "running"
      <4>1. n \in RowType /\ n.kind = old.kind /\ n.status # "succeeded"
        BY <1>1, <1>2, <3>2 DEF RowType, TERMINAL
      <4>2. RowOK(n, dumps) /\ old.status # "succeeded"
        BY <3>2, <4>1 DEF RowOK
      <4> HIDE DEF n
      <4> QED BY <1>1, <3>1, <4>1, <4>2, RowUpdate
    <3>3. CASE old.status # "running"
      <4>1. n = old
        BY <1>1, <3>3 DEF RowType
      <4>2. rows' = rows
        BY <1>1, <3>1, <4>1, ProcFacts
      <4> QED BY <4>2, SameStore
    <3> QED BY <3>2, <3>3
  <2> QED BY <2>1, <2>2 DEF Fallback
<1>4. /\ now \in {UNRECORDED} \cup TERMINAL
      /\ now = "succeeded" => rows'[s.id].status = "succeeded"
  BY DEF committed, UNRECORDED
<1>5. f \in FileType /\ FileOK(f, rows')
  <2>1. now = "succeeded" => s.id # None /\ s.id \in DOMAIN rows'
                             /\ rows'[s.id].status = "succeeded"
    BY <1>1, <1>3, <1>4
  <2> HIDE DEF now
  <2> QED BY <1>1, <1>4, <2>1, RecordOK
<1>6. trouble' \in 0..MaxTrouble
  BY <1>1, TroubleType DEF Fallback
<1>7. l' = [l EXCEPT ![p] = Idle]
  <2>1. [Idle EXCEPT !.pc = "idle"] = Idle
    BY DEF Idle
  <2>2. l' = [l EXCEPT ![p] = [Idle EXCEPT !.pc = "idle"]]
    BY DEF Fallback, Goto
  <2> QED BY <2>1, <2>2
<1> HIDE DEF f
<1> QED BY <1>1, <1>3, <1>5, <1>6, <1>7, EndStep

(* The name of a dump is taken.                                            *)
LEMMA StageStep ==
  ASSUME BackInv, NEW p \in Procs, Stage(p)
  PROVE  BackInv'
<1> DEFINE s == [l[p] EXCEPT !.name = names + 1, !.pc = "local_dump"]
<1>1. /\ l[p] \in ProcType /\ ProcOK(l[p], rows, dumps) /\ l[p].pc = "local_dump"
      /\ names \in 0..MaxDumps /\ trouble \in 0..MaxTrouble
      /\ UNCHANGED <<rows, stale, file, dumps, damaged>>
  BY ProcFacts DEF Stage
<1>2. StoreOK(rows, dumps')
  BY <1>1, SameStore
<1>3. CASE /\ names < MaxDumps /\ names' = names + 1 /\ UNCHANGED trouble
           /\ l' = [l EXCEPT ![p] = s]
  <2>1. names + 1 \in Dump /\ names' \in 0..MaxDumps
    BY <1>1, <1>3, BoundsAreNatural DEF Dump
  <2>2. s \in ProcType /\ ProcOK(s, rows, dumps')
    <3> DEFINE d == names + 1
    <3>1. d \in Dump
      BY <2>1
    <3> HIDE DEF d
    <3>2. [l[p] EXCEPT !.name = d, !.pc = "local_dump"] \in ProcType
      BY <1>1, <3>1 DEF ProcType
    <3>3. LET t == [l[p] EXCEPT !.name = d, !.pc = "local_dump"] IN
          /\ t.pc = l[p].pc /\ t.kind = l[p].kind /\ t.id = l[p].id
          /\ t.outcome = l[p].outcome /\ t.covers = l[p].covers /\ t.bad = l[p].bad
          /\ t.art = l[p].art
      BY <1>1 DEF ProcType
    <3>4. ProcOK([l[p] EXCEPT !.name = d, !.pc = "local_dump"], rows, dumps)
      BY <1>1, <3>3 DEF ProcOK, RealIn, KINDS
    <3> QED BY <1>1, <3>2, <3>4 DEF d
  <2> HIDE DEF s
  <2> QED BY <1>1, <1>2, <1>3, <2>1, <2>2, LocalStep
<1>4. CASE Outcome(p, "failed", {}, None) /\ UNCHANGED names
           /\ (Trouble \/ UNCHANGED trouble)
  <2>1. trouble' \in 0..MaxTrouble /\ names' \in 0..MaxDumps
    BY <1>1, <1>4, TroubleType
  <2>2. "failed" \in TERMINAL /\ l[p].pc # "idle"
    BY <1>1 DEF TERMINAL
  <2> QED BY <1>1, <1>2, <1>4, <2>1, <2>2, FailStep
<1>5. [[l[p] EXCEPT !.name = names + 1] EXCEPT !.pc = "local_dump"] = s
  OBVIOUS
<1> HIDE DEF s
<1> QED BY <1>3, <1>4, <1>5 DEF Stage, Fail, Goto

(* The dump renamed into place, or not.                                    *)
LEMMA DumpStep ==
  ASSUME BackInv, NEW p \in Procs, dump(p)
  PROVE  BackInv'
<1> DEFINE d == l[p].name
           s == Ending(l[p], "succeeded", {}, d)
<1>1. /\ l[p] \in ProcType /\ ProcOK(l[p], rows, dumps) /\ l[p].pc = "local_dump"
      /\ d \in Dump /\ trouble \in 0..MaxTrouble /\ names' \in 0..MaxDumps
      /\ UNCHANGED <<rows, stale, file, damaged>>
  BY ProcFacts DEF dump, ProcType
<1>2. StoreOK(rows, dumps \cup {d}) /\ StoreOK(rows, dumps)
  BY <1>1, MoreDumps, SameStore
<1>3. CASE dumps' = dumps \cup {d} /\ Outcome(p, "succeeded", {}, d) /\ UNCHANGED trouble
  <2>1. l[p].kind = "local_dump" /\ d \in dumps' /\ d \in Art /\ {} \in SUBSET Dump
        /\ "succeeded" \in TERMINAL /\ l[p].pc # "idle"
    BY <1>1, <1>3 DEF ProcOK, Art, TERMINAL, KINDS
  <2>2. ProcOK(l[p], rows, dumps')
    BY <1>1, <1>2, <1>3, KeepsOK DEF StoreOK
  <2> HIDE DEF d
  <2>3. s \in ProcType /\ ProcOK(s, rows, dumps')
    BY <1>1, <2>1, <2>2, EndingOK
  <2>4. l' = [l EXCEPT ![p] = s]
    BY <1>3 DEF Outcome, Goto, Ending
  <2>5. StoreOK(rows, dumps') /\ trouble' \in 0..MaxTrouble
    BY <1>1, <1>2, <1>3
  <2> HIDE DEF s
  <2> QED BY <1>1, <2>3, <2>4, <2>5, LocalStep
<1>4. CASE dumps' \in {dumps, dumps \cup {d}} /\ Trouble /\ Outcome(p, "failed", {}, None)
  <2>1. trouble' \in 0..MaxTrouble /\ StoreOK(rows, dumps')
    BY <1>2, <1>4, TroubleType
  <2>2. "failed" \in TERMINAL /\ l[p].pc # "idle"
    BY <1>1 DEF TERMINAL
  <2> QED BY <1>1, <1>4, <2>1, <2>2, FailStep
<1> QED BY <1>3, <1>4 DEF dump, Fail

(* A step that leaves the ledger, the disk and the files alone.            *)
LEMMA QuietFail ==
  ASSUME BackInv, NEW p \in Procs, l[p].pc # "idle", NEW outcome \in TERMINAL,
         outcome # "succeeded", Outcome(p, outcome, {}, None),
         Trouble \/ UNCHANGED trouble, UNCHANGED <<rows, stale, file, disk>>
  PROVE  BackInv'
<1>1. /\ StoreOK(rows, dumps') /\ names' \in 0..MaxDumps /\ trouble' \in 0..MaxTrouble
      /\ UNCHANGED <<rows, stale, file, damaged>>
  BY SameStore, ProcFacts, TroubleType DEF disk
<1> QED BY <1>1, FailStep

(* The same for a process that goes on.                                    *)
LEMMA QuietStep ==
  ASSUME BackInv, NEW p \in Procs, NEW s \in ProcType, ProcOK(s, rows, dumps),
         l' = [l EXCEPT ![p] = s], Trouble \/ UNCHANGED trouble,
         UNCHANGED <<rows, stale, file, disk>>
  PROVE  BackInv'
<1>1. /\ StoreOK(rows, dumps') /\ names' \in 0..MaxDumps /\ trouble' \in 0..MaxTrouble
      /\ ProcOK(s, rows, dumps') /\ UNCHANGED <<rows, stale, file, damaged>>
  BY SameStore, ProcFacts, TroubleType DEF disk
<1> QED BY <1>1, LocalStep

(* What a copy will cover is settled: the dumps that verify.               *)
LEMMA SyncStep ==
  ASSUME BackInv, NEW p \in Procs, sync(p)
  PROVE  BackInv'
<1> DEFINE good == {d \in list_dumps : verify_dump(d)}
           s == [l[p] EXCEPT !.covers = good, !.bad = damaged, !.pc = "upload"]
<1>1. /\ l[p] \in ProcType /\ ProcOK(l[p], rows, dumps) /\ l[p].pc = "offsite_sync"
      /\ dumps \in SUBSET Dump /\ damaged \in SUBSET dumps
      /\ UNCHANGED <<rows, stale, file, disk>>
  BY ProcFacts DEF sync
<1>2. CASE Trouble /\ Outcome(p, "not_configured", {}, None)
  <2>1. "not_configured" \in TERMINAL /\ l[p].pc # "idle"
    BY <1>1 DEF TERMINAL
  <2> QED BY <1>1, <1>2, <2>1, QuietFail
<1>3. CASE l' = [l EXCEPT ![p] = s] /\ UNCHANGED trouble
  <2>1. good \subseteq dumps /\ good \cap damaged = {}
        /\ good \in SUBSET Dump /\ damaged \in SUBSET Dump /\ "upload" \in PCs
    BY <1>1 DEF list_dumps, verify_dump, PCs
  <2> HIDE DEF good
  <2>2. /\ s \in ProcType /\ s.pc = "upload" /\ s.kind = l[p].kind /\ s.id = l[p].id
        /\ s.covers = good /\ s.bad = damaged
    BY <1>1, <2>1 DEF ProcType
  <2> HIDE DEF s
  <2>3. ProcOK(s, rows, dumps)
    BY <1>1, <2>1, <2>2 DEF ProcOK, KINDS
  <2> QED BY <1>1, <1>3, <2>2, <2>3, QuietStep
<1>4. [[l[p] EXCEPT !.covers = good, !.bad = damaged] EXCEPT !.pc = "upload"] = s
  OBVIOUS
<1> HIDE DEF s
<1> QED BY <1>2, <1>3, <1>4 DEF sync, Fail, Goto

(* A success of a kind that leaves the disk alone.                         *)
LEMMA QuietSuccess ==
  ASSUME BackInv, NEW p \in Procs, l[p].pc # "idle",
         NEW covers \in SUBSET Dump, NEW art \in Art,
         Outcome(p, "succeeded", covers, art),
         covers \cap l[p].bad = {}, l[p].kind \in {"offsite_sync", "offsite_check"},
         l[p].kind = "offsite_sync" => covers \subseteq art,
         UNCHANGED <<rows, stale, file, disk, trouble>>
  PROVE  BackInv'
<1> DEFINE s == Ending(l[p], "succeeded", covers, art)
<1>1. l[p] \in ProcType /\ ProcOK(l[p], rows, dumps) /\ "succeeded" \in TERMINAL
  BY ProcFacts DEF TERMINAL
<1>2. s \in ProcType /\ ProcOK(s, rows, dumps)
  BY <1>1, EndingOK
<1>3. l' = [l EXCEPT ![p] = s]
  BY DEF Outcome, Goto, Ending
<1> HIDE DEF s
<1> QED BY <1>2, <1>3, QuietStep

(* The copy takes the tree as it is now.                                   *)
LEMMA UploadStep ==
  ASSUME BackInv, NEW p \in Procs, Upload(p)
  PROVE  BackInv'
<1>1. /\ l[p] \in ProcType /\ ProcOK(l[p], rows, dumps) /\ l[p].pc = "upload"
      /\ dumps \in SUBSET Dump /\ UNCHANGED <<rows, stale, file, disk>>
  BY ProcFacts DEF Upload
<1>2. CASE Outcome(p, "succeeded", l[p].covers, dumps) /\ UNCHANGED trouble
  <2>1. /\ l[p].kind = "offsite_sync" /\ l[p].covers \subseteq dumps
        /\ l[p].covers \cap l[p].bad = {} /\ l[p].covers \in SUBSET Dump /\ dumps \in Art
    BY <1>1 DEF ProcOK, Art
  <2> QED BY <1>1, <1>2, <2>1, QuietSuccess
<1>3. CASE Trouble /\ Outcome(p, "failed", {}, None)
  <2>1. "failed" \in TERMINAL /\ l[p].pc # "idle"
    BY <1>1 DEF TERMINAL
  <2> QED BY <1>1, <1>3, <2>1, QuietFail
<1> QED BY <1>2, <1>3 DEF Upload, Fail

(* The check of the off-site copy.                                         *)
LEMMA CheckStep ==
  ASSUME BackInv, NEW p \in Procs, check(p)
  PROVE  BackInv'
<1>1. /\ l[p] \in ProcType /\ ProcOK(l[p], rows, dumps) /\ l[p].pc = "offsite_check"
      /\ UNCHANGED <<rows, stale, file, disk>>
  BY ProcFacts DEF check
<1>2. CASE Outcome(p, "succeeded", {}, None) /\ UNCHANGED trouble
  <2>1. l[p].kind = "offsite_check" /\ None \in Art /\ {} \in SUBSET Dump
        /\ {} \cap l[p].bad = {}
    BY <1>1 DEF ProcOK, Art, KINDS
  <2> QED BY <1>1, <1>2, <2>1, QuietSuccess
<1>3. ASSUME NEW outcome \in {"failed", "not_configured"}, Trouble,
             Outcome(p, outcome, {}, None)
      PROVE  BackInv'
  <2>1. outcome \in TERMINAL /\ outcome # "succeeded" /\ l[p].pc # "idle"
    BY <1>1 DEF TERMINAL
  <2> QED BY <1>1, <1>3, <2>1, QuietFail
<1> QED BY <1>2, <1>3 DEF check, Fail

(* The restore check of the newest dump.                                   *)
LEMMA RestoreStep ==
  ASSUME BackInv, NEW p \in Procs, restore_check(p)
  PROVE  BackInv'
<1> DEFINE target == Max(list_dumps)
           s == [l[p] EXCEPT !.outcome = "succeeded", !.covers = {target}, !.art = target,
                             !.bad = damaged, !.pc = "finish"]
<1>1. /\ l[p] \in ProcType /\ ProcOK(l[p], rows, dumps) /\ l[p].pc = "restore_check"
      /\ dumps \in SUBSET Dump /\ damaged \in SUBSET dumps
      /\ UNCHANGED <<rows, stale, file, disk>>
  BY ProcFacts DEF restore_check
<1>2. CASE Outcome(p, "failed", {}, None) /\ (Trouble \/ UNCHANGED trouble)
  <2>1. "failed" \in TERMINAL /\ l[p].pc # "idle"
    BY <1>1 DEF TERMINAL
  <2> QED BY <1>1, <1>2, <2>1, QuietFail
<1>3. CASE /\ verify_dump(target) /\ UNCHANGED trouble
           /\ l' = [l EXCEPT ![p] = s]
  <2>1. /\ target \in dumps /\ {target} \cap damaged = {} /\ target \in Art
        /\ {target} \in SUBSET Dump /\ damaged \in SUBSET Dump
        /\ "finish" \in PCs /\ "succeeded" \in TERMINAL
    BY <1>1, <1>3 DEF verify_dump, Art, PCs, TERMINAL
  <2> HIDE DEF target
  <2>2. /\ s \in ProcType /\ s.pc = "finish" /\ s.kind = l[p].kind /\ s.id = l[p].id
        /\ s.outcome = "succeeded"
        /\ s.covers = {target} /\ s.bad = damaged /\ s.art = target
    BY <1>1, <2>1 DEF ProcType
  <2>3. l[p].kind = "restore_check"
    BY <1>1 DEF ProcOK, KINDS
  <2> HIDE DEF s
  <2>4. RealIn(s, dumps)
    BY <2>1, <2>2, <2>3 DEF RealIn
  <2>5. ProcOK(s, rows, dumps)
    BY <1>1, <2>1, <2>2, <2>3, <2>4 DEF ProcOK, KINDS
  <2> QED BY <1>1, <1>3, <2>2, <2>5, QuietStep
<1>4. [[l[p] EXCEPT !.outcome = "succeeded", !.covers = {target}, !.art = target,
                    !.bad = damaged] EXCEPT !.pc = "finish"] = s
  OBVIOUS
<1> HIDE DEF s
<1> QED BY <1>2, <1>3, <1>4 DEF restore_check, Fail, Goto

(* A crash.                                                                *)
LEMMA CrashStep ==
  ASSUME BackInv, NEW p \in Procs, Crash(p)
  PROVE  BackInv'
<1>1. [Idle EXCEPT !.pc = "idle"] = Idle
  BY DEF Idle
<1>2. l' = [l EXCEPT ![p] = Idle] /\ Trouble /\ UNCHANGED <<rows, stale, file, disk>>
  BY <1>1 DEF Crash, Goto
<1>3. Idle \in ProcType /\ ProcOK(Idle, rows, dumps)
  BY IdleOK
<1> QED BY <1>2, <1>3, QuietStep

(* A lost session.                                                         *)
LEMMA LoseStep ==
  ASSUME BackInv, NEW p \in Procs, Lose(p)
  PROVE  BackInv'
<1> DEFINE s == [l[p] EXCEPT !.conn = "lost", !.pc = l[p].pc]
<1>1. l[p] \in ProcType /\ ProcOK(l[p], rows, dumps)
  BY ProcFacts
<1>2. /\ s \in ProcType /\ s.pc = l[p].pc /\ s.kind = l[p].kind /\ s.id = l[p].id
      /\ s.outcome = l[p].outcome /\ s.covers = l[p].covers /\ s.bad = l[p].bad
      /\ s.art = l[p].art
  BY <1>1 DEF ProcType
<1>3. l' = [l EXCEPT ![p] = s] /\ Trouble /\ UNCHANGED <<rows, stale, file, disk>>
  BY DEF Lose, Goto
<1> HIDE DEF s
<1>4. ProcOK(s, rows, dumps)
  BY <1>1, <1>2 DEF ProcOK, RealIn
<1> QED BY <1>2, <1>3, <1>4, QuietStep

(* A dump is damaged; a row grows old.                                     *)
LEMMA TimeStep ==
  ASSUME BackInv, Damage \/ Age
  PROVE  BackInv'
<1>1. CASE Damage
  <2>1. damaged' \in SUBSET dumps' /\ UNCHANGED <<rows, stale, file, dumps, names, l>>
    BY <1>1 DEF Damage, BackInv, TypeOK
  <2>2. trouble' \in 0..MaxTrouble
    BY <1>1, TroubleType DEF Damage
  <2> QED BY <2>1, <2>2 DEF BackInv, TypeOK
<1>2. CASE Age
  <2>1. stale' \in 0..Len(rows') /\ UNCHANGED <<rows, file, dumps, damaged, names, trouble, l>>
    BY <1>2 DEF Age, disk, BackInv, TypeOK
  <2> QED BY <2>1 DEF BackInv, TypeOK
<1> QED BY <1>1, <1>2

-----------------------------------------------------------------------------
(* The theorems                                                            *)

(* The invariant holds initially.                                          *)
LEMMA InitInv == Init => BackInv
<1> SUFFICES ASSUME Init PROVE BackInv
  OBVIOUS
<1>1. TypeOK
  <2>1. rows \in Seq(RowType) /\ stale \in 0..Len(rows)
    BY DEF Init
  <2>2. l \in [Procs -> ProcType]
    BY IdleOK DEF Init
  <2> QED BY <2>1, <2>2, BoundsAreNatural DEF Init, TypeOK
<1>2. \A p \in Procs : ProcOK(l[p], rows, dumps)
  BY IdleOK DEF Init
<1>3. \A k \in KINDS : file[k] = None
  BY DEF Init
<1>4. DOMAIN rows = {}
  BY DEF Init
<1> QED BY <1>1, <1>2, <1>3, <1>4 DEF BackInv

(* Every step keeps it.                                                    *)
LEMMA NextInv == BackInv /\ [Next]_vars => BackInv'
<1> SUFFICES ASSUME BackInv, [Next]_vars PROVE BackInv'
  OBVIOUS
<1>1. ASSUME NEW p \in Procs, NEW k \in KINDS, open_ledger(p, k)
      PROVE  BackInv'
  BY <1>1, OpenStep
<1>2. ASSUME NEW p \in Procs, Step(p)
      PROVE  BackInv'
  BY <1>2, StartStep, FinishStep, FallbackStep, StageStep, DumpStep, SyncStep,
     UploadStep, CheckStep, RestoreStep DEF Step
<1>3. ASSUME NEW p \in Procs, Crash(p) \/ Lose(p)
      PROVE  BackInv'
  BY <1>3, CrashStep, LoseStep
<1>4. CASE UNCHANGED vars
  BY <1>4 DEF vars, BackInv, TypeOK
<1> QED BY <1>1, <1>2, <1>3, <1>4, TimeStep DEF Next

(* The invariant holds in every state.                                     *)
LEMMA Invariance == Spec => []BackInv
<1>1. Init => BackInv
  BY InitInv
<1>2. BackInv /\ [Next]_vars => BackInv'
  BY NextInv
<1> QED BY <1>1, <1>2, PTL DEF Spec

(* Rows, status files, dumps and processes keep their types: a process     *)
(* that reports an outcome has one, its row is in the ledger and of its    *)
(* kind, and damaged dumps are dumps in place.                             *)
THEOREM TypeCorrectness == Spec => []TypeOK
<1>1. BackInv => TypeOK
  BY DEF BackInv
<1> QED BY <1>1, Invariance, PTL

(* No false success: a row or a status file that says 'succeeded', and an  *)
(* exit code 0, stand for an operation that did what it says, however      *)
(* ledger sessions, statements and processes failed on the way.            *)
THEOREM SuccessIsReal == Spec => []NoFalseSuccess
<1>1. ASSUME BackInv
      PROVE  NoFalseSuccess
  <2>1. ASSUME NEW k \in KINDS, NEW r \in Succeeded(k)
        PROVE  Real(rows[r])
    <3>1. rows[r].kind = k /\ RealIn(rows[r], dumps)
      BY <1>1, <2>1 DEF Succeeded, BackInv, RowOK
    <3> QED BY <3>1 DEF Real, RealIn, KINDS
  <2>2. ASSUME NEW k \in KINDS, file[k] # None,
               file[k].status = "succeeded" \/ exit_code(file[k]) = 0
        PROVE  file[k].id # None /\ rows[file[k].id].status = "succeeded"
    <3>1. file[k].status = "succeeded"
      BY <2>2 DEF exit_code
    <3> QED BY <1>1, <2>2, <3>1 DEF BackInv, FileOK
  <2> QED BY <2>1, <2>2 DEF NoFalseSuccess
<1> QED BY <1>1, Invariance, PTL

(* A status without alerts means protected: every local dump is in an      *)
(* off-site snapshot that a committed run vouches for.                     *)
THEOREM QuietIsProtected == Spec => []QuietMeansProtected
<1>1. ASSUME BackInv
      PROVE  QuietMeansProtected
  <2> SUFFICES ASSUME \A a \in DOMAIN alerts : alerts[a] = {}, NEW d \in dumps
               PROVE  \E r \in Succeeded("offsite_sync") :
                        d \in rows[r].covers \cap rows[r].art
    BY DEF QuietMeansProtected
  <2>1. alerts.local_only = {}
    BY DEF alerts
  <2>2. d \in covered_offsite
    BY <2>1 DEF alerts, list_dumps
  <2>3. PICK r \in Succeeded("offsite_sync") : d \in rows[r].covers
    BY <2>2 DEF covered_offsite
  <2>4. RealIn(rows[r], dumps) /\ rows[r].kind = "offsite_sync"
    BY <1>1, <2>3 DEF Succeeded, BackInv, RowOK
  <2> QED BY <2>3, <2>4 DEF RealIn
<1> QED BY <1>1, Invariance, PTL
=============================================================================
