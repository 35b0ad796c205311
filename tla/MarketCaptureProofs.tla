------------------------- MODULE MarketCaptureProofs -------------------------
(***************************************************************************)
(* Proofs about MarketCapture for every set of processes, runs and         *)
(* securities, every limit, and any number of crashes and lost sessions.   *)
(***************************************************************************)
EXTENDS MarketCapture, TLAPS

-----------------------------------------------------------------------------
(* The inductive invariant *)

(* A command other than recover names its run; an attempt under way has a  *)
(* key and a sequence number that the journal covers.                      *)
Attempting == {"send", "wait", "spool", "insert"}

LocalsInv ==
    \A p \in Procs :
      /\ proc[p].pc \in PCs \ {"idle", "recover", "abandon", "release"} =>
           proc[p].run \in Runs
      /\ proc[p].pc \in {"recover", "abandon"} /\ proc[p].cmd # "recover" =>
           proc[p].run \in Runs
      /\ proc[p].pc = "gate" => proc[p].cmd # "recover"
      /\ proc[p].pc \in {"recover", "abandon", "gate"}
           /\ proc[p].cmd = "start" => proc[p].kind \in RunKinds
      /\ proc[p].pc \in Attempting =>
           /\ proc[p].key \in Keys
           /\ proc[p].seq \in Nat
           /\ proc[p].seq <= journal[proc[p].run]

(* The journal's intents cover every sequence number in use.               *)
JournalInv ==
    \A r \in Runs : \A a \in spooled[r] \cup archive[r] : a.seq <= journal[r]

(* A process inside _locked holds the lock, or has lost its session.       *)
LockInv ==
    \A p \in Procs :
      /\ proc[p].pc # "idle" => lock = p \/ p \in lost
      /\ proc[p].pc = "idle" => p \notin lost
      /\ lock = p => p \notin lost

(* What the lock holder knows of its run and of the block gate.            *)
Contacting == {"running", "fetch", "send", "wait", "spool", "insert"}

HolderOK(p) ==
    /\ proc[p].pc \in {"running", "missed"} =>
         runState[proc[p].run] = "pending"
    /\ proc[p].pc \in {"fetch", "finish"} \cup Attempting =>
         runState[proc[p].run] = "running"
    /\ proc[p].pc \in Contacting =>
         \A r \in Runs : runState[r] = "blocked" => r \in acked
    /\ proc[p].pc \notin {"idle", "recover", "abandon"} =>
         \A r \in Runs : runState[r] = "running" => r = proc[p].run

HolderInv == \A p \in Procs : lock = p => HolderOK(p)

IndInv == TypeOK /\ LocalsInv /\ JournalInv /\ LockInv /\ HolderInv

-----------------------------------------------------------------------------
(* Lemmas about the operators of the model *)

(* An upper bound inside the set is what Max returns.                      *)
LEMMA MaxIsBound ==
    ASSUME NEW S, NEW m \in S, \A y \in S : m >= y
    PROVE  Max(S) \in S /\ \A y \in S : Max(S) >= y
BY DEF Max

(* Archiver.intent: the journal covers the new sequence number.            *)
LEMMA MaxOfTwo ==
    ASSUME NEW a \in Nat, NEW b \in Nat
    PROVE  /\ Max({a, b}) \in Nat
           /\ Max({a, b}) >= a
           /\ Max({a, b}) >= b
<1>1. PICK m \in {a, b} : \A y \in {a, b} : m >= y
  OBVIOUS
<1>2. Max({a, b}) \in {a, b} /\ \A y \in {a, b} : Max({a, b}) >= y
  BY <1>1, MaxIsBound
<1> QED  BY <1>2

(* Archiver._load_numbers returns a number.                                *)
LEMMA LoadedSeqIsNat ==
    ASSUME TypeOK, JournalInv, NEW l \in Locals, l.run \in Runs
    PROVE  LoadedSeq(l) \in Nat
<1> DEFINE S == {journal[l.run]} \cup SequenceNumbers(archive[l.run])
<1>1. S \subseteq Nat
  BY DEF TypeOK, SequenceNumbers, Attempts
<1>2. \A y \in S : journal[l.run] >= y
  BY <1>1 DEF JournalInv, SequenceNumbers
<1>3. Max(S) \in S
  BY <1>2, MaxIsBound
<1>4. l.seq \in Nat \cup {None}
  BY DEF Locals
<1> QED  BY <1>1, <1>3, <1>4 DEF LoadedSeq

(* Archiver.intent only raises the journal, and covers its own number.     *)
LEMMA IntentRaises ==
    ASSUME TypeOK, NEW p \in Procs, NEW k, Intent(p, k), proc[p].run \in Runs,
           LoadedSeq(proc[p]) + 1 \in Nat
    PROVE  /\ journal'[proc[p].run] >= LoadedSeq(proc[p]) + 1
           /\ \A r \in Runs : journal'[r] \in Nat /\ journal'[r] >= journal[r]
<1> DEFINE run == proc[p].run
           seq == LoadedSeq(proc[p]) + 1
           m == Max({journal[run], seq})
<1>1. journal' = [journal EXCEPT ![run] = m]
  BY DEF Intent
<1>2. journal \in [Runs -> Nat]
  BY DEF TypeOK
<1>3. m \in Nat /\ m >= journal[run] /\ m >= seq
  BY <1>2, MaxOfTwo
<1> HIDE DEF m, seq
<1>4. journal'[run] = m /\ \A r \in Runs \ {run} : journal'[r] = journal[r]
  BY <1>1, <1>2
<1>5. journal'[run] >= seq /\ \A r \in Runs : journal'[r] \in Nat /\ journal'[r] >= journal[r]
  BY <1>2, <1>3, <1>4
<1> QED  BY <1>5 DEF seq

(* insert_attempt adds at most the given attempt.                          *)
LEMMA InsertAdds ==
    ASSUME NEW rows, NEW a
    PROVE  InsertAttempt(rows, a) \subseteq rows \cup {a}
BY DEF InsertAttempt

(* decide_state returns a state that may end a running run.                *)
LEMMA DecideStateType ==
    ASSUME NEW r, NEW stop, NEW produced
    PROVE  DecideState(r, stop, produced) \in
             {"succeeded", "partial", "failed", "blocked"}
BY DEF DecideState

(* fetch() goes on or stops.                                               *)
LEMMA AfterAttemptType ==
    ASSUME NEW l \in Locals, l.key \in Keys, NEW long \in BOOLEAN
    PROVE  /\ AfterAttempt(Counted(l), long) \in Locals
           /\ AfterAttempt(Counted(l), long).pc \in {"fetch", "finish"}
           /\ AfterAttempt(Counted(l), long).run = l.run
           /\ AfterAttempt(Counted(l), long).cmd = l.cmd
           /\ AfterAttempt(Counted(l), long).kind = l.kind
<1> DEFINE c == Counted(l)
<1>1. /\ c \in Locals /\ c.key = l.key /\ c.run = l.run /\ c.cmd = l.cmd
      /\ c.kind = l.kind
  BY DEF Counted, Locals
<1>2. StopReason(c, long) \in {"no", "stopped", "blocked"}
  BY DEF StopReason
<1> DEFINE why == StopReason(c, long)
           res == AfterAttempt(c, long)
<1> HIDE DEF c
<1>3. CASE why # "no"
  <2>1. res = [c EXCEPT !.pc = "finish", !.stop = why]
    BY <1>3 DEF AfterAttempt
  <2>2. why \in {"stopped", "blocked"}
    BY <1>2, <1>3
  <2> HIDE DEF why, res
  <2>3. /\ res \in Locals /\ res.pc = "finish" /\ res.run = c.run
        /\ res.cmd = c.cmd /\ res.kind = c.kind
    BY <1>1, <2>1, <2>2 DEF Locals, PCs
  <2> QED  BY <1>1, <2>3 DEF c, res
<1>4. CASE why = "no"
  <2> DEFINE a == [c EXCEPT !.pc = "fetch", !.key = None, !.try = 0,
                            !.ok = @ \cup {c.key}, !.seen = @ \cup {c.key}]
             b == [c EXCEPT !.pc = "fetch", !.key = None, !.try = 0,
                            !.seen = @ \cup {c.key}]
             d == [c EXCEPT !.pc = "fetch"]
  <2>1. res = a \/ res = b \/ res = d
    BY <1>4 DEF AfterAttempt
  <2>2. c.key \in Keys
    BY <1>1
  <2> HIDE DEF why, res
  <2>3. /\ a \in Locals /\ a.pc = "fetch" /\ a.run = c.run
        /\ a.cmd = c.cmd /\ a.kind = c.kind
    BY ZenonT(60), <1>1, <2>2 DEF Locals, PCs
  <2>4. /\ b \in Locals /\ b.pc = "fetch" /\ b.run = c.run
        /\ b.cmd = c.cmd /\ b.kind = c.kind
    BY ZenonT(60), <1>1, <2>2 DEF Locals, PCs
  <2>5. /\ d \in Locals /\ d.pc = "fetch" /\ d.run = c.run
        /\ d.cmd = c.cmd /\ d.kind = c.kind
    BY <1>1 DEF Locals, PCs
  <2> HIDE DEF a, b, d
  <2>6. /\ res \in Locals /\ res.pc = "fetch" /\ res.run = c.run
        /\ res.cmd = c.cmd /\ res.kind = c.kind
    BY <2>1, <2>3, <2>4, <2>5
  <2> QED  BY <1>1, <2>6 DEF c, res
<1> QED  BY <1>3, <1>4

(* The updates of a process record stay within its type.                   *)
LEMMA IdleType == IdleProcess \in Locals
BY DEF IdleProcess, Locals, PCs, Commands, Outcomes

(* StopRun ends the fetch phase: the process record keeps its type.        *)
LEMMA StopLocals ==
    ASSUME NEW l \in Locals
    PROVE  [l EXCEPT !.pc = "finish", !.stop = "stopped"] \in Locals
BY DEF Locals, PCs

(* Archiver.intent: the process record keeps its type.                     *)
LEMMA IntentLocals ==
    ASSUME NEW l \in Locals, NEW k \in Keys, NEW seq \in Nat
    PROVE  [l EXCEPT !.pc = "send", !.key = k, !.seq = seq, !.try = @ + 1]
             \in Locals
<1>1. l.try + 1 \in Nat
  BY DEF Locals
<1> QED  BY <1>1 DEF Locals, PCs

(* A classified response: the process record keeps its type.               *)
LEMMA ReplyLocals ==
    ASSUME NEW l \in Locals, NEW o \in Outcomes, NEW m \in BOOLEAN
    PROVE  [l EXCEPT !.pc = "spool", !.made = @ + 1, !.outcome = o,
                     !.match = m] \in Locals
<1>1. l.made + 1 \in Nat
  BY DEF Locals
<1> QED  BY <1>1 DEF Locals, PCs

(* A command begins: what the fresh process looks like.                    *)
LEMMA BeginEffect ==
    ASSUME TypeOK, NEW p \in Procs, NEW cmd \in Commands,
           NEW r \in Runs \cup {None}, Begin(p, cmd, r)
    PROVE  /\ proc'[p] \in Locals
           /\ proc'[p].pc = "recover" /\ proc'[p].cmd = cmd /\ proc'[p].run = r
           /\ cmd # "recover" => r \in Runs
           /\ cmd = "start" => proc'[p].kind \in RunKinds
           /\ proc' \in [Procs -> Locals]
           /\ \A q \in Procs \ {p} : proc'[q] = proc[q]
<1>1. PICK k \in IF cmd = "start" THEN RunKinds ELSE {None} :
        proc' = [proc EXCEPT ![p] =
                   [IdleProcess EXCEPT !.pc = "recover", !.cmd = cmd,
                                       !.run = r, !.kind = k]]
  BY DEF Begin
<1>2. /\ k \in RunKinds \cup {"missed_record", None}
      /\ cmd = "start" => k \in RunKinds
  BY <1>1
<1> DEFINE n == [IdleProcess EXCEPT !.pc = "recover", !.cmd = cmd, !.run = r,
                                    !.kind = k]
<1>3. /\ n \in Locals
      /\ n.pc = "recover" /\ n.cmd = cmd /\ n.run = r /\ n.kind = k
  BY ZenonT(60), <1>2, IdleType DEF Locals, PCs
<1>4. cmd # "recover" => r \in Runs
  BY DEF Begin
<1>5. proc'[p] = n
  BY <1>1 DEF TypeOK
<1> HIDE DEF n
<1>6. proc' = [proc EXCEPT ![p] = n]
  BY <1>1 DEF n
<1>7. proc' \in [Procs -> Locals] /\ \A q \in Procs \ {p} : proc'[q] = proc[q]
  BY <1>3, <1>6 DEF TypeOK
<1> QED  BY <1>2, <1>3, <1>4, <1>5, <1>7

-----------------------------------------------------------------------------
(* Every step keeps the types *)

(* A step that only moves a process on keeps the types.                    *)
LEMMA GotoType ==
    ASSUME TypeOK, NEW p \in Procs, NEW pc \in PCs, Goto(p, pc)
    PROVE  proc' \in [Procs -> Locals]
BY SMTT(40) DEF TypeOK, Goto, Locals

(* A stop of the fetch phase keeps the types.                              *)
LEMMA StopType ==
    ASSUME TypeOK, NEW p \in Procs, StopFetch(p, "stopped")
    PROVE  proc' \in [Procs -> Locals]
<1>1. [proc[p] EXCEPT !.pc = "finish", !.stop = "stopped"] \in Locals
  BY StopLocals DEF TypeOK
<1> QED  BY <1>1 DEF TypeOK, StopFetch

(* build_record makes an attempt record.                                   *)
LEMMA AttemptType ==
    ASSUME NEW l \in Locals, l.key \in Keys, l.seq \in Nat
    PROVE  /\ AttemptOf(l) \in Attempts
           /\ [AttemptOf(l) EXCEPT !.ok = FALSE, !.match = FALSE] \in Attempts
BY DEF AttemptOf, Attempts, Locals

(* Every step keeps the types of the state.                                *)
LEMMA TypeStep ==
    ASSUME TypeOK, LocalsInv, JournalInv, [Next]_vars
    PROVE  TypeOK'
<1>1. ASSUME NEW p \in Procs, NEW cmd \in Commands, NEW r \in Runs \cup {None},
             Begin(p, cmd, r)
      PROVE  TypeOK'
  <2>1. proc' \in [Procs -> Locals]
    BY <1>1, BeginEffect DEF TypeOK
  <2>2. bounds' \in [contacts : Nat, crashes : Nat, losses : Nat, faults : Nat]
    BY <1>1 DEF TypeOK, Begin
  <2> QED  BY <1>1, <2>1, <2>2 DEF TypeOK, Begin, store
<1>2. ASSUME NEW p \in Procs, NEW r \in Runs, RecoverAttempt(p, r)
      PROVE  TypeOK'
  <2>1. PICK a \in Missing(r) :
          archive' = [archive EXCEPT ![r] = InsertAttempt(@, a)]
    BY <1>2 DEF RecoverAttempt
  <2>2. InsertAttempt(archive[r], a) \in SUBSET Attempts
    BY InsertAdds DEF Missing, TypeOK
  <2> QED  BY <1>2, <2>1, <2>2 DEF TypeOK, RecoverAttempt
<1>3. ASSUME NEW p \in Procs, RecoverDone(p)
      PROVE  TypeOK'
  <2>1. proc' \in [Procs -> Locals]
    BY <1>3, GotoType DEF RecoverDone, PCs
  <2> QED  BY <1>3, <2>1 DEF TypeOK, RecoverDone, store
<1>4. ASSUME NEW p \in Procs, NEW r \in Runs, MarkAbandoned(p, r)
      PROVE  TypeOK'
  BY <1>4 DEF TypeOK, MarkAbandoned, RunStates
<1>5. ASSUME NEW p \in Procs, MarkAbandonedDone(p)
      PROVE  TypeOK'
  <2>1. proc' \in [Procs -> Locals]
    BY <1>5, GotoType DEF MarkAbandonedDone, PCs
  <2> QED  BY <1>5, <2>1 DEF TypeOK, MarkAbandonedDone, store
<1>6. ASSUME NEW p \in Procs, Refuse(p)
      PROVE  TypeOK'
  <2>1. proc' \in [Procs -> Locals]
    BY <1>6, GotoType DEF Refuse, PCs
  <2> QED  BY <1>6, <2>1 DEF TypeOK, Refuse, store
<1>7. ASSUME NEW p \in Procs, SpoolGateRefuses(p)
      PROVE  TypeOK'
  <2>1. proc' \in [Procs -> Locals]
    BY <1>7, GotoType DEF SpoolGateRefuses, PCs
  <2> QED  BY <1>7, <2>1 DEF TypeOK, SpoolGateRefuses, store
<1>8. ASSUME NEW p \in Procs, CreateRun(p)
      PROVE  TypeOK'
  <2>1. proc' \in [Procs -> Locals]
    BY <1>8, GotoType DEF CreateRun, PCs
  <2>2. proc[p].cmd = "start" => proc[p].kind \in RunKinds
    BY <1>8 DEF LocalsInv, CreateRun, At
  <2> QED  BY <1>8, <2>1, <2>2 DEF TypeOK, CreateRun, RunStates
<1>9. ASSUME NEW p \in Procs, RecordMissed(p)
      PROVE  TypeOK'
  <2>1. proc' \in [Procs -> Locals]
    BY <1>9, GotoType DEF RecordMissed, PCs
  <2> QED  BY <1>9, <2>1 DEF TypeOK, RecordMissed, RunStates
<1>10. ASSUME NEW p \in Procs, EnterFetch(p)
       PROVE  TypeOK'
  <2> DEFINE l == proc[p]
             done == OkKeys(archive[l.run])
  <2>1. l \in Locals /\ l.run \in Runs
    BY <1>10 DEF EnterFetch, At, LocalsInv, PCs, TypeOK
  <2>2. done \in SUBSET Keys
    BY <2>1 DEF OkKeys, TypeOK, Attempts
  <2>3. kind[l.run] \in RunKinds \cup {"missed_record", None}
    BY <2>1 DEF TypeOK
  <2>4. [l EXCEPT !.pc = "fetch", !.kind = kind[l.run], !.ok = done,
                  !.seen = done] \in Locals
    BY <2>1, <2>2, <2>3 DEF Locals, PCs
  <2> QED  BY <1>10, <2>1, <2>4 DEF TypeOK, EnterFetch, RunStates
<1>11. ASSUME NEW p \in Procs, EnterReprocess(p)
       PROVE  TypeOK'
  <2>1. proc' \in [Procs -> Locals]
    BY <1>11, GotoType DEF EnterReprocess, PCs
  <2> QED  BY <1>11, <2>1 DEF TypeOK, EnterReprocess, RunStates
<1>12. ASSUME NEW p \in Procs, NEW k \in Keys, Intent(p, k)
       PROVE  TypeOK'
  <2> DEFINE l == proc[p]
             seq == LoadedSeq(l) + 1
  <2>1. l \in Locals /\ l.run \in Runs
    BY <1>12 DEF Intent, At, LocalsInv, PCs, TypeOK
  <2>2. seq \in Nat
    BY <2>1, LoadedSeqIsNat
  <2>3. Max({journal[l.run], seq}) \in Nat
    BY <2>1, <2>2, MaxOfTwo DEF TypeOK
  <2>4. [l EXCEPT !.pc = "send", !.key = k, !.seq = seq, !.try = @ + 1]
          \in Locals
    BY <2>1, <2>2, IntentLocals
  <2> QED  BY <1>12, <2>1, <2>3, <2>4 DEF TypeOK, Intent
<1>13. ASSUME NEW p \in Procs, OutOfBudget(p)
       PROVE  TypeOK'
  <2>1. proc' \in [Procs -> Locals]
    BY <1>13, StopType DEF OutOfBudget
  <2> QED  BY <1>13, <2>1 DEF TypeOK, OutOfBudget, store
<1>14. ASSUME NEW p \in Procs, IntentFails(p)
       PROVE  TypeOK'
  <2>1. proc' \in [Procs -> Locals]
    BY <1>14, StopType DEF IntentFails
  <2> QED  BY <1>14, <2>1 DEF TypeOK, IntentFails, store
<1>15. ASSUME NEW p \in Procs, Send(p)
       PROVE  TypeOK'
  <2>1. proc' \in [Procs -> Locals]
    BY <1>15, GotoType DEF Send, PCs
  <2> QED  BY <1>15, <2>1 DEF TypeOK, Send, store
<1>16. ASSUME NEW p \in Procs, NEW o \in Outcomes, NEW m \in BOOLEAN,
              Reply(p, o, m)
       PROVE  TypeOK'
  <2>1. [proc[p] EXCEPT !.pc = "spool", !.made = @ + 1, !.outcome = o,
                        !.match = m] \in Locals
    BY ReplyLocals DEF TypeOK
  <2>2. proc[p].run \in Runs
    BY <1>16 DEF Reply, At, LocalsInv, PCs
  <2> QED  BY <1>16, <2>1, <2>2 DEF TypeOK, Reply, store
<1>17. ASSUME NEW p \in Procs, Spool(p)
       PROVE  TypeOK'
  <2>1. proc' \in [Procs -> Locals]
    BY <1>17, GotoType DEF Spool, PCs
  <2>2. AttemptOf(proc[p]) \in Attempts
    BY <1>17, AttemptType DEF TypeOK, Spool, At, LocalsInv, Attempting
  <2> QED  BY <1>17, <2>1, <2>2 DEF TypeOK, Spool
<1>18. ASSUME NEW p \in Procs, SpoolFails(p)
       PROVE  TypeOK'
  <2> DEFINE row == [AttemptOf(proc[p]) EXCEPT !.ok = FALSE, !.match = FALSE]
  <2>1. proc' \in [Procs -> Locals]
    BY <1>18, StopType DEF SpoolFails
  <2>2. row \in Attempts /\ proc[p].run \in Runs
    BY <1>18, AttemptType
    DEF TypeOK, SpoolFails, At, LocalsInv, Attempting, PCs
  <2>3. InsertAttempt(archive[proc[p].run], row) \in SUBSET Attempts
    BY <2>2, InsertAdds DEF TypeOK
  <2>4. archive' \in [Runs -> SUBSET Attempts]
    BY <1>18, <2>3 DEF TypeOK, SpoolFails
  <2> QED  BY <1>18, <2>1, <2>4 DEF TypeOK, SpoolFails
<1>19. ASSUME NEW p \in Procs, NEW long \in BOOLEAN, Archive(p, long)
       PROVE  TypeOK'
  <2> DEFINE l == proc[p]
  <2>1. /\ l \in Locals /\ l.run \in Runs /\ l.key \in Keys
        /\ AttemptOf(l) \in Attempts
    BY <1>19, AttemptType
    DEF TypeOK, Archive, At, LocalsInv, Attempting, PCs
  <2>2. InsertAttempt(archive[l.run], AttemptOf(l)) \in SUBSET Attempts
    BY <2>1, InsertAdds DEF TypeOK
  <2>3. AfterAttempt(Counted(l), long) \in Locals
    BY <2>1, AfterAttemptType
  <2> QED  BY <1>19, <2>2, <2>3 DEF TypeOK, Archive
<1>20. ASSUME NEW p \in Procs, FetchDone(p)
       PROVE  TypeOK'
  <2>1. proc' \in [Procs -> Locals]
    BY <1>20, GotoType DEF FetchDone, PCs
  <2> QED  BY <1>20, <2>1 DEF TypeOK, FetchDone, store
<1>21. ASSUME NEW p \in Procs, NEW produced \in BOOLEAN,
              RecordState(p, produced)
       PROVE  TypeOK'
  <2>1. proc' \in [Procs -> Locals]
    BY <1>21, GotoType DEF RecordState, PCs
  <2>2. DecideState(proc[p].run, proc[p].stop, produced) \in RunStates
    BY DecideStateType DEF RunStates
  <2> QED  BY <1>21, <2>1, <2>2 DEF TypeOK, RecordState
<1>22. ASSUME NEW p \in Procs, Release(p)
       PROVE  TypeOK'
  BY <1>22, IdleType DEF TypeOK, Release, store
<1>23. ASSUME NEW r \in Runs, AcknowledgeBlock(r)
       PROVE  TypeOK'
  BY <1>23 DEF TypeOK, AcknowledgeBlock
<1>24. ASSUME NEW p \in Procs, Crash(p)
       PROVE  TypeOK'
  BY <1>24, IdleType DEF TypeOK, Crash, store
<1>25. ASSUME NEW p \in Procs, LoseSession(p)
       PROVE  TypeOK'
  BY <1>25 DEF TypeOK, LoseSession, store
<1>26. ASSUME NEW p \in Procs, Abort(p)
       PROVE  TypeOK'
  BY <1>26, IdleType DEF TypeOK, Abort, store
<1>27. CASE UNCHANGED vars
  BY <1>27 DEF TypeOK, vars
<1> QED
  BY <1>1, <1>2, <1>3, <1>4, <1>5, <1>6, <1>7, <1>8, <1>9, <1>10, <1>11, <1>12,
     <1>13, <1>14, <1>15, <1>16, <1>17, <1>18, <1>19, <1>20, <1>21, <1>22,
     <1>23, <1>24, <1>25, <1>26, <1>27 DEF Next, Step, Fault

(* The lock discipline of _locked is kept by every step.                    *)
LEMMA LockStep ==
    ASSUME TypeOK, LockInv, [Next]_vars
    PROVE  LockInv'
<1> USE DEF TypeOK, LockInv, At, Connected, Locals
<1>1. ASSUME NEW p \in Procs, NEW cmd \in Commands, NEW r \in Runs \cup {None},
             Begin(p, cmd, r)
      PROVE  LockInv'
  <2>1. /\ proc'[p].pc = "recover" /\ proc'[p].cmd = cmd /\ proc'[p].run = r
        /\ cmd # "recover" => r \in Runs
        /\ cmd = "start" => proc'[p].kind \in RunKinds
        /\ \A q \in Procs \ {p} : proc'[q] = proc[q]
    BY <1>1, BeginEffect
  <2>2. /\ lock = None /\ lock' = p /\ proc[p].pc = "idle"
        /\ UNCHANGED <<lost, store>>
    BY <1>1 DEF Begin, LockFree
  <2> QED  BY <2>1, <2>2, CaptureConstants
<1>2. ASSUME NEW p \in Procs, NEW r \in Runs, RecoverAttempt(p, r)
      PROVE  LockInv'
  BY <1>2 DEF RecoverAttempt
<1>3. ASSUME NEW p \in Procs, RecoverDone(p)
      PROVE  LockInv'
  BY <1>3 DEF RecoverDone, Goto
<1>4. ASSUME NEW p \in Procs, NEW r \in Runs, MarkAbandoned(p, r)
      PROVE  LockInv'
  BY <1>4 DEF MarkAbandoned, DeadRuns
<1>5. ASSUME NEW p \in Procs, MarkAbandonedDone(p)
      PROVE  LockInv'
  BY <1>5 DEF MarkAbandonedDone, Goto
<1>6. ASSUME NEW p \in Procs, Refuse(p)
      PROVE  LockInv'
  BY <1>6 DEF Refuse, Goto
<1>7. ASSUME NEW p \in Procs, SpoolGateRefuses(p)
      PROVE  LockInv'
  BY <1>7 DEF SpoolGateRefuses, Goto
<1>8. ASSUME NEW p \in Procs, CreateRun(p)
      PROVE  LockInv'
  BY <1>8 DEF CreateRun, Goto
<1>9. ASSUME NEW p \in Procs, RecordMissed(p)
      PROVE  LockInv'
  BY <1>9 DEF RecordMissed, Goto
<1>10. ASSUME NEW p \in Procs, EnterFetch(p)
      PROVE  LockInv'
  BY <1>10 DEF EnterFetch
<1>11. ASSUME NEW p \in Procs, EnterReprocess(p)
      PROVE  LockInv'
  BY <1>11 DEF EnterReprocess, Goto
<1>12. ASSUME NEW p \in Procs, NEW k \in Keys, Intent(p, k)
      PROVE  LockInv'
  BY <1>12 DEF Intent
<1>13. ASSUME NEW p \in Procs, OutOfBudget(p)
      PROVE  LockInv'
  BY <1>13 DEF OutOfBudget, StopFetch
<1>14. ASSUME NEW p \in Procs, IntentFails(p)
      PROVE  LockInv'
  BY <1>14 DEF IntentFails, StopFetch
<1>15. ASSUME NEW p \in Procs, Send(p)
      PROVE  LockInv'
  BY <1>15 DEF Send, Goto
<1>16. ASSUME NEW p \in Procs, NEW o \in Outcomes, NEW m \in BOOLEAN,
              Reply(p, o, m)
      PROVE  LockInv'
  BY <1>16 DEF Reply
<1>17. ASSUME NEW p \in Procs, Spool(p)
      PROVE  LockInv'
  BY <1>17 DEF Spool, Goto, AttemptOf
<1>18. ASSUME NEW p \in Procs, SpoolFails(p)
      PROVE  LockInv'
  BY <1>18 DEF SpoolFails, StopFetch
<1>19. ASSUME NEW p \in Procs, NEW long \in BOOLEAN, Archive(p, long)
      PROVE  LockInv'
  BY <1>19 DEF Archive
<1>20. ASSUME NEW p \in Procs, FetchDone(p)
      PROVE  LockInv'
  BY <1>20 DEF FetchDone, Goto
<1>21. ASSUME NEW p \in Procs, NEW produced \in BOOLEAN, RecordState(p, produced)
      PROVE  LockInv'
  BY <1>21 DEF RecordState, Goto
<1>22. ASSUME NEW p \in Procs, Release(p)
      PROVE  LockInv'
  BY <1>22, CaptureConstants DEF Release, IdleProcess
<1>23. ASSUME NEW r \in Runs, AcknowledgeBlock(r)
      PROVE  LockInv'
  BY <1>23 DEF AcknowledgeBlock
<1>24. ASSUME NEW p \in Procs, Crash(p)
      PROVE  LockInv'
  BY <1>24, CaptureConstants DEF Crash, IdleProcess
<1>25. ASSUME NEW p \in Procs, LoseSession(p)
      PROVE  LockInv'
  BY <1>25, CaptureConstants DEF LoseSession
<1>26. ASSUME NEW p \in Procs, Abort(p)
      PROVE  LockInv'
  BY <1>26 DEF Abort, IdleProcess
<1>27. CASE UNCHANGED vars
  BY SMTT(40), <1>27 DEF vars
<1> QED
  BY <1>1, <1>2, <1>3, <1>4, <1>5, <1>6, <1>7, <1>8, <1>9, <1>10, <1>11, <1>12,
     <1>13, <1>14, <1>15, <1>16, <1>17, <1>18, <1>19, <1>20, <1>21, <1>22,
     <1>23, <1>24, <1>25, <1>26, <1>27 DEF Next, Step, Fault

(* Every step keeps what a process knows of its attempt.                    *)
LEMMA LocalsStep ==
    ASSUME TypeOK, LocalsInv, JournalInv, [Next]_vars
    PROVE  LocalsInv'
<1> USE DEF TypeOK, LocalsInv, At, store, Attempting
<1>1. ASSUME NEW p \in Procs, NEW cmd \in Commands, NEW r \in Runs \cup {None},
             Begin(p, cmd, r)
      PROVE  LocalsInv'
  <2>1. /\ proc'[p].pc = "recover" /\ proc'[p].cmd = cmd /\ proc'[p].run = r
        /\ cmd # "recover" => r \in Runs
        /\ cmd = "start" => proc'[p].kind \in RunKinds
        /\ \A q \in Procs \ {p} : proc'[q] = proc[q]
    BY <1>1, BeginEffect
  <2>2. /\ lock = None /\ lock' = p /\ proc[p].pc = "idle"
        /\ UNCHANGED <<lost, store>>
    BY <1>1 DEF Begin, LockFree
  <2> QED  BY <2>1, <2>2 DEF PCs
<1>2. ASSUME NEW p \in Procs, NEW r \in Runs, RecoverAttempt(p, r)
      PROVE  LocalsInv'
  BY <1>2 DEF RecoverAttempt
<1>3. ASSUME NEW p \in Procs, RecoverDone(p)
      PROVE  LocalsInv'
  BY <1>3 DEF RecoverDone, Goto, Locals, PCs
<1>4. ASSUME NEW p \in Procs, NEW r \in Runs, MarkAbandoned(p, r)
      PROVE  LocalsInv'
  BY <1>4 DEF MarkAbandoned, DeadRuns
<1>5. ASSUME NEW p \in Procs, MarkAbandonedDone(p)
      PROVE  LocalsInv'
  BY <1>5 DEF MarkAbandonedDone, Goto, Locals, PCs
<1>6. ASSUME NEW p \in Procs, Refuse(p)
      PROVE  LocalsInv'
  BY <1>6 DEF Refuse, Goto, Locals, PCs
<1>7. ASSUME NEW p \in Procs, SpoolGateRefuses(p)
      PROVE  LocalsInv'
  BY <1>7 DEF SpoolGateRefuses, Goto, Locals, PCs
<1>8. ASSUME NEW p \in Procs, CreateRun(p)
      PROVE  LocalsInv'
  BY <1>8 DEF CreateRun, Goto, Locals, PCs
<1>9. ASSUME NEW p \in Procs, RecordMissed(p)
      PROVE  LocalsInv'
  BY <1>9 DEF RecordMissed, Goto, Locals, PCs
<1>10. ASSUME NEW p \in Procs, EnterFetch(p)
      PROVE  LocalsInv'
  <2> DEFINE l == proc[p]
             done == OkKeys(archive[l.run])
             n == [l EXCEPT !.pc = "fetch", !.kind = kind[l.run], !.ok = done,
                            !.seen = done]
  <2>1. l.run \in Runs
    BY <1>10 DEF EnterFetch, PCs
  <2>2. n.pc = "fetch" /\ n.run = l.run /\ n.cmd = l.cmd /\ n.kind = kind[l.run]
    BY DEF Locals
  <2>3. proc' = [proc EXCEPT ![p] = n]
    BY <1>10 DEF EnterFetch
  <2> QED  BY <1>10, <2>1, <2>2, <2>3 DEF EnterFetch, PCs
<1>11. ASSUME NEW p \in Procs, EnterReprocess(p)
      PROVE  LocalsInv'
  BY <1>11 DEF EnterReprocess, Goto, Locals, PCs
<1>12. ASSUME NEW p \in Procs, NEW k \in Keys, Intent(p, k)
      PROVE  LocalsInv'
  <2> DEFINE l == proc[p]
             seq == LoadedSeq(l) + 1
             n == [l EXCEPT !.pc = "send", !.key = k, !.seq = seq,
                            !.try = @ + 1]
  <2>1. l \in Locals /\ l.run \in Runs
    BY <1>12 DEF Intent, PCs
  <2>2. seq \in Nat
    BY <2>1, LoadedSeqIsNat
  <2>3. /\ n.pc = "send" /\ n.key = k /\ n.seq = seq
        /\ n.run = l.run /\ n.cmd = l.cmd /\ n.kind = l.kind
    BY <2>1 DEF Locals
  <2>4. /\ journal'[l.run] >= seq
        /\ \A r \in Runs : journal'[r] \in Nat /\ journal'[r] >= journal[r]
    BY <1>12, <2>1, <2>2, IntentRaises
  <2>5. proc'[p] = n /\ \A q \in Procs \ {p} : proc'[q] = proc[q]
    BY <1>12 DEF Intent
  <2> HIDE DEF n, seq
  <2>6. \A q \in Procs \ {p} : proc[q].seq \in Nat /\ proc[q].run \in Runs
          /\ proc[q].seq <= journal[proc[q].run]
            => proc[q].seq <= journal'[proc[q].run]
    BY <2>4
  <2> QED  BY <2>1, <2>2, <2>3, <2>4, <2>5, <2>6 DEF PCs
<1>13. ASSUME NEW p \in Procs, OutOfBudget(p)
      PROVE  LocalsInv'
  BY <1>13 DEF OutOfBudget, StopFetch, Locals, PCs
<1>14. ASSUME NEW p \in Procs, IntentFails(p)
      PROVE  LocalsInv'
  BY <1>14 DEF IntentFails, StopFetch, Locals, PCs
<1>15. ASSUME NEW p \in Procs, Send(p)
      PROVE  LocalsInv'
  BY <1>15 DEF Send, Goto, Locals, PCs
<1>16. ASSUME NEW p \in Procs, NEW o \in Outcomes, NEW m \in BOOLEAN,
              Reply(p, o, m)
      PROVE  LocalsInv'
  BY <1>16 DEF Reply, Locals, PCs
<1>17. ASSUME NEW p \in Procs, Spool(p)
      PROVE  LocalsInv'
  BY <1>17 DEF Spool, Goto, AttemptOf, Locals, PCs
<1>18. ASSUME NEW p \in Procs, SpoolFails(p)
      PROVE  LocalsInv'
  BY <1>18 DEF SpoolFails, StopFetch, Locals, PCs
<1>19. ASSUME NEW p \in Procs, NEW long \in BOOLEAN, Archive(p, long)
      PROVE  LocalsInv'
  <2> DEFINE n == AfterAttempt(Counted(proc[p]), long)
  <2>1. proc[p] \in Locals /\ proc[p].run \in Runs /\ proc[p].key \in Keys
    BY <1>19 DEF Archive, PCs
  <2>2. /\ n.pc \in {"fetch", "finish"} /\ n.run = proc[p].run
        /\ n.cmd = proc[p].cmd /\ n.kind = proc[p].kind
    BY <2>1, AfterAttemptType
  <2>3. proc' = [proc EXCEPT ![p] = n] /\ UNCHANGED journal
    BY <1>19 DEF Archive
  <2> HIDE DEF n
  <2> QED  BY <2>1, <2>2, <2>3 DEF PCs
<1>20. ASSUME NEW p \in Procs, FetchDone(p)
      PROVE  LocalsInv'
  BY <1>20 DEF FetchDone, Goto, Locals, PCs
<1>21. ASSUME NEW p \in Procs, NEW produced \in BOOLEAN, RecordState(p, produced)
      PROVE  LocalsInv'
  BY <1>21 DEF RecordState, Goto
<1>22. ASSUME NEW p \in Procs, Release(p)
      PROVE  LocalsInv'
  BY <1>22 DEF Release, IdleProcess, Locals, PCs
<1>23. ASSUME NEW r \in Runs, AcknowledgeBlock(r)
      PROVE  LocalsInv'
  BY <1>23 DEF AcknowledgeBlock
<1>24. ASSUME NEW p \in Procs, Crash(p)
      PROVE  LocalsInv'
  BY <1>24 DEF Crash, IdleProcess, Locals, PCs
<1>25. ASSUME NEW p \in Procs, LoseSession(p)
      PROVE  LocalsInv'
  BY <1>25 DEF LoseSession
<1>26. ASSUME NEW p \in Procs, Abort(p)
      PROVE  LocalsInv'
  BY <1>26 DEF Abort, IdleProcess, Locals, PCs
<1>27. CASE UNCHANGED vars
  BY SMTT(40), <1>27 DEF vars
<1>28. ASSUME NEW p \in Procs, Step(p)
       PROVE  LocalsInv'
  BY <1>2, <1>3, <1>4, <1>5, <1>6, <1>8, <1>9, <1>10, <1>11, <1>12, <1>13, <1>15,
     <1>16, <1>17, <1>19, <1>20, <1>21, <1>22, <1>26, <1>28 DEF Step
<1>29. ASSUME NEW p \in Procs, Fault(p)
       PROVE  LocalsInv'
  BY <1>7, <1>14, <1>18, <1>24, <1>25, <1>29 DEF Fault
<1> QED BY <1>1, <1>23, <1>27, <1>28, <1>29 DEF Next

(* Every step keeps the journal ahead of the spool and the archive.         *)
LEMMA JournalStep ==
    ASSUME TypeOK, LocalsInv, JournalInv, [Next]_vars
    PROVE  JournalInv'
<1> USE DEF TypeOK, LocalsInv, JournalInv, At, store
<1>1. ASSUME NEW p \in Procs, NEW r \in Runs, RecoverAttempt(p, r)
      PROVE  JournalInv'
  <2>1. PICK a \in Missing(r) :
          archive' = [archive EXCEPT ![r] = InsertAttempt(@, a)]
    BY <1>1 DEF RecoverAttempt
  <2>2. a \in spooled[r]
    BY DEF Missing
  <2>3. \A s \in Runs : archive'[s] \subseteq archive[s] \cup spooled[s]
    BY <2>1, <2>2, InsertAdds
  <2> QED  BY <1>1, <2>3 DEF RecoverAttempt
<1>2. ASSUME NEW p \in Procs, NEW k \in Keys, Intent(p, k)
      PROVE  JournalInv'
  <2>1. proc[p] \in Locals /\ proc[p].run \in Runs
    BY <1>2 DEF Intent, PCs
  <2>2. LoadedSeq(proc[p]) + 1 \in Nat
    BY <2>1, LoadedSeqIsNat
  <2>3. \A r \in Runs : journal'[r] \in Nat /\ journal'[r] >= journal[r]
    BY <1>2, <2>1, <2>2, IntentRaises
  <2>4. UNCHANGED <<spooled, archive>>
    BY <1>2 DEF Intent
  <2> QED  BY <2>3, <2>4 DEF Attempts
<1>3. ASSUME NEW p \in Procs, Spool(p)
      PROVE  JournalInv'
  <2>1. /\ proc[p].run \in Runs
        /\ AttemptOf(proc[p]).seq <= journal[proc[p].run]
    BY <1>3 DEF Spool, PCs, Attempting, AttemptOf
  <2> QED  BY <1>3, <2>1 DEF Spool
<1>4. ASSUME NEW p \in Procs, SpoolFails(p)
      PROVE  JournalInv'
  <2> DEFINE row == [AttemptOf(proc[p]) EXCEPT !.ok = FALSE, !.match = FALSE]
  <2>1. proc[p].run \in Runs /\ row.seq <= journal[proc[p].run]
    BY <1>4 DEF SpoolFails, PCs, Attempting, AttemptOf
  <2> HIDE DEF row
  <2>2. \A s \in Runs : archive'[s] \subseteq
          archive[s] \cup (IF s = proc[p].run THEN {row} ELSE {})
    BY <1>4, InsertAdds DEF SpoolFails, row
  <2> QED  BY <1>4, <2>1, <2>2 DEF SpoolFails
<1>5. ASSUME NEW p \in Procs, NEW long \in BOOLEAN, Archive(p, long)
      PROVE  JournalInv'
  <2>1. /\ proc[p].run \in Runs
        /\ AttemptOf(proc[p]).seq <= journal[proc[p].run]
    BY <1>5 DEF Archive, PCs, Attempting, AttemptOf
  <2>2. \A s \in Runs : archive'[s] \subseteq
          archive[s] \cup (IF s = proc[p].run THEN {AttemptOf(proc[p])} ELSE {})
    BY <1>5, InsertAdds DEF Archive
  <2> QED  BY <1>5, <2>1, <2>2 DEF Archive
<1> DEFINE Same == UNCHANGED <<journal, spooled, archive>>
<1>6. ASSUME Same
      PROVE  JournalInv'
  BY <1>6
<1>7. ASSUME NEW p \in Procs,
             \/ RecoverDone(p) \/ MarkAbandonedDone(p) \/ Refuse(p)
             \/ CreateRun(p) \/ RecordMissed(p)
             \/ \E r \in Runs : MarkAbandoned(p, r)
      PROVE  Same
  BY <1>7 DEF RecoverDone, MarkAbandonedDone, Refuse, CreateRun, RecordMissed,
              MarkAbandoned
<1>8. ASSUME NEW p \in Procs,
             \/ EnterFetch(p) \/ EnterReprocess(p) \/ OutOfBudget(p)
             \/ Send(p) \/ FetchDone(p) \/ Release(p) \/ Abort(p)
             \/ \E o \in Outcomes, m \in BOOLEAN : Reply(p, o, m)
             \/ \E produced \in BOOLEAN : RecordState(p, produced)
      PROVE  Same
  BY <1>8 DEF EnterFetch, EnterReprocess, OutOfBudget, Send, FetchDone,
              Release, Abort, Reply, RecordState
<1>9. ASSUME NEW p \in Procs, Crash(p) \/ LoseSession(p)
                              \/ SpoolGateRefuses(p) \/ IntentFails(p)
      PROVE  Same
  BY <1>9 DEF Crash, LoseSession, SpoolGateRefuses, IntentFails
<1>10. ASSUME NEW p \in Procs, NEW cmd \in Commands,
              NEW r \in Runs \cup {None}, Begin(p, cmd, r)
       PROVE  Same
  BY <1>10 DEF Begin
<1>11. ASSUME NEW r \in Runs, AcknowledgeBlock(r)
       PROVE  Same
  BY <1>11 DEF AcknowledgeBlock
<1>12. CASE UNCHANGED vars
  BY <1>6, <1>12 DEF vars
<1> HIDE DEF Same, JournalInv, TypeOK, LocalsInv, At, store
<1>13. ASSUME NEW p \in Procs, Step(p) \/ Fault(p)
       PROVE  JournalInv'
  BY <1>1, <1>2, <1>3, <1>4, <1>5, <1>6, <1>7, <1>8, <1>9, <1>13
  DEF Step, Fault
<1> QED  BY <1>6, <1>10, <1>11, <1>12, <1>13 DEF Next

(* Every step keeps what the lock holder knows of its run.                  *)
LEMMA HolderStep ==
    ASSUME IndInv, [Next]_vars
    PROVE  HolderInv'
<1> USE DEF IndInv, TypeOK, LocalsInv, LockInv, HolderInv, HolderOK, At,
            Connected, store, Contacting, Attempting, Locals
<1>1. ASSUME NEW p \in Procs, NEW cmd \in Commands, NEW r \in Runs \cup {None},
             Begin(p, cmd, r)
      PROVE  HolderInv'
  <2>1. /\ proc'[p].pc = "recover" /\ proc'[p].cmd = cmd /\ proc'[p].run = r
        /\ cmd # "recover" => r \in Runs
        /\ cmd = "start" => proc'[p].kind \in RunKinds
        /\ \A q \in Procs \ {p} : proc'[q] = proc[q]
    BY <1>1, BeginEffect
  <2>2. /\ lock = None /\ lock' = p /\ proc[p].pc = "idle"
        /\ UNCHANGED <<lost, store>>
    BY <1>1 DEF Begin, LockFree
  <2> QED  BY <2>1, <2>2, CaptureConstants
<1>2. ASSUME NEW p \in Procs, NEW r \in Runs, RecoverAttempt(p, r)
      PROVE  HolderInv'
  BY <1>2 DEF RecoverAttempt
<1>3. ASSUME NEW p \in Procs, RecoverDone(p)
      PROVE  HolderInv'
  BY <1>3 DEF RecoverDone, Goto
<1>4. ASSUME NEW p \in Procs, NEW r \in Runs, MarkAbandoned(p, r)
      PROVE  HolderInv'
  BY <1>4 DEF MarkAbandoned, DeadRuns
<1>5. ASSUME NEW p \in Procs, MarkAbandonedDone(p)
      PROVE  HolderInv'
  BY <1>5 DEF MarkAbandonedDone, Goto, DeadRuns
<1>6. ASSUME NEW p \in Procs, Refuse(p)
      PROVE  HolderInv'
  BY <1>6 DEF Refuse, Goto
<1>7. ASSUME NEW p \in Procs, SpoolGateRefuses(p)
      PROVE  HolderInv'
  BY <1>7 DEF SpoolGateRefuses, Goto
<1>8. ASSUME NEW p \in Procs, CreateRun(p)
      PROVE  HolderInv'
  BY <1>8 DEF CreateRun, Goto, Admitted, UnacknowledgedBlocks
<1>9. ASSUME NEW p \in Procs, RecordMissed(p)
      PROVE  HolderInv'
  BY <1>9 DEF RecordMissed, Goto
<1>10. ASSUME NEW p \in Procs, EnterFetch(p)
      PROVE  HolderInv'
  <2> DEFINE l == proc[p]
             done == OkKeys(archive[l.run])
             n == [l EXCEPT !.pc = "fetch", !.kind = kind[l.run], !.ok = done,
                            !.seen = done]
  <2>1. l.run \in Runs /\ lock = p
    BY <1>10 DEF EnterFetch, PCs
  <2>2. n.pc = "fetch" /\ n.run = l.run
    BY DEF Locals
  <2>3. proc' = [proc EXCEPT ![p] = n]
    BY <1>10 DEF EnterFetch
  <2>4. \A r \in Runs : runState[r] = "blocked" => r \in acked
    BY <1>10 DEF EnterFetch, Admitted, UnacknowledgedBlocks
  <2> HIDE DEF n
  <2> QED  BY <1>10, <2>1, <2>2, <2>3, <2>4 DEF EnterFetch
<1>11. ASSUME NEW p \in Procs, EnterReprocess(p)
      PROVE  HolderInv'
  BY <1>11 DEF EnterReprocess, Goto
<1>12. ASSUME NEW p \in Procs, NEW k \in Keys, Intent(p, k)
      PROVE  HolderInv'
  BY <1>12 DEF Intent
<1>13. ASSUME NEW p \in Procs, OutOfBudget(p)
      PROVE  HolderInv'
  BY <1>13 DEF OutOfBudget, StopFetch
<1>14. ASSUME NEW p \in Procs, IntentFails(p)
      PROVE  HolderInv'
  BY <1>14 DEF IntentFails, StopFetch
<1>15. ASSUME NEW p \in Procs, Send(p)
      PROVE  HolderInv'
  BY <1>15 DEF Send, Goto
<1>16. ASSUME NEW p \in Procs, NEW o \in Outcomes, NEW m \in BOOLEAN,
              Reply(p, o, m)
      PROVE  HolderInv'
  BY <1>16 DEF Reply
<1>17. ASSUME NEW p \in Procs, Spool(p)
      PROVE  HolderInv'
  BY <1>17 DEF Spool, Goto, AttemptOf
<1>18. ASSUME NEW p \in Procs, SpoolFails(p)
      PROVE  HolderInv'
  BY <1>18 DEF SpoolFails, StopFetch
<1>19. ASSUME NEW p \in Procs, NEW long \in BOOLEAN, Archive(p, long)
      PROVE  HolderInv'
  BY <1>19, AfterAttemptType DEF Archive
<1>20. ASSUME NEW p \in Procs, FetchDone(p)
      PROVE  HolderInv'
  BY <1>20 DEF FetchDone, Goto
<1>21. ASSUME NEW p \in Procs, NEW produced \in BOOLEAN, RecordState(p, produced)
      PROVE  HolderInv'
  BY <1>21, DecideStateType DEF RecordState, Goto
<1>22. ASSUME NEW p \in Procs, Release(p)
      PROVE  HolderInv'
  BY <1>22, CaptureConstants DEF Release, IdleProcess
<1>23. ASSUME NEW r \in Runs, AcknowledgeBlock(r)
      PROVE  HolderInv'
  BY <1>23 DEF AcknowledgeBlock
<1>24. ASSUME NEW p \in Procs, Crash(p)
      PROVE  HolderInv'
  BY <1>24, CaptureConstants DEF Crash, IdleProcess
<1>25. ASSUME NEW p \in Procs, LoseSession(p)
      PROVE  HolderInv'
  BY <1>25, CaptureConstants DEF LoseSession
<1>26. ASSUME NEW p \in Procs, Abort(p)
      PROVE  HolderInv'
  BY <1>26 DEF Abort, IdleProcess
<1>27. CASE UNCHANGED vars
  BY <1>27 DEF vars
<1>28. ASSUME NEW p \in Procs, Step(p)
       PROVE  HolderInv'
  BY <1>2, <1>3, <1>4, <1>5, <1>6, <1>8, <1>9, <1>10, <1>11, <1>12, <1>13, <1>15,
     <1>16, <1>17, <1>19, <1>20, <1>21, <1>22, <1>26, <1>28 DEF Step
<1>29. ASSUME NEW p \in Procs, Fault(p)
       PROVE  HolderInv'
  BY <1>7, <1>14, <1>18, <1>24, <1>25, <1>29 DEF Fault
<1> QED BY <1>1, <1>23, <1>27, <1>28, <1>29 DEF Next

-----------------------------------------------------------------------------
(* The theorems *)

(* The empty database and spool satisfy the inductive invariant.           *)
LEMMA InitIndInv == Init => IndInv
<1> SUFFICES ASSUME Init PROVE IndInv
  OBVIOUS
<1>1. \A p \in Procs : proc[p] = IdleProcess /\ proc[p].pc = "idle"
                       /\ proc[p].cmd = "recover"
  BY DEF Init, IdleProcess
<1>2. TypeOK
  BY IdleType, CaptureConstants DEF Init, TypeOK, RunStates
<1>3. LocalsInv
  BY <1>1 DEF LocalsInv, PCs, Attempting
<1>4. JournalInv
  BY DEF Init, JournalInv
<1>5. LockInv /\ HolderInv
  BY <1>1, CaptureConstants DEF Init, LockInv, HolderInv
<1> QED  BY <1>2, <1>3, <1>4, <1>5 DEF IndInv

(* Every step of a command, of the owner and of a failure keeps it.        *)
LEMMA StepIndInv == IndInv /\ [Next]_vars => IndInv'
BY TypeStep, LocalsStep, JournalStep, LockStep, HolderStep DEF IndInv

(* The inductive invariant holds in every behaviour of the capture tool.   *)
THEOREM Invariance == Spec => []IndInv
BY InitIndInv, StepIndInv, PTL DEF Spec

(* Type correctness of runs, spool, archive and processes.                 *)
THEOREM TypeCorrect == Spec => []TypeOK
<1>1. IndInv => TypeOK
  BY DEF IndInv
<1> QED  BY <1>1, Invariance, PTL

(* The advisory lock of _locked: two outstanding requests need a process   *)
(* whose database session died under it.                                   *)
THEOREM LiveRequestsExclusive == Spec => []OneLiveRequest
<1>1. IndInv => OneLiveRequest
  BY DEF IndInv, LockInv, OneLiveRequest, InFlight
<1> QED  BY <1>1, Invariance, PTL

(* The block gate of _locked still holds when the request goes out.        *)
THEOREM GateAlwaysHolds == Spec => []GateHolds
<1>1. IndInv => GateHolds
  BY DEF IndInv, LockInv, HolderInv, HolderOK, Contacting, GateHolds, InFlight,
         Connected, UnacknowledgedBlocks
<1> QED  BY <1>1, Invariance, PTL

(* mark_abandoned leaves no 'running' run but the command's own.           *)
THEOREM RunningRunsOwned == Spec => []RunningIsOwned
<1>1. IndInv => RunningIsOwned
  BY DEF IndInv, LockInv, HolderInv, HolderOK, RunningIsOwned, Working,
         Connected
<1> QED  BY <1>1, Invariance, PTL

(* The steps of a command that append no run event.                        *)
Quiet(p) ==
    \/ \E r \in Runs : RecoverAttempt(p, r)
    \/ RecoverDone(p) \/ MarkAbandonedDone(p) \/ Refuse(p)
    \/ \E k \in Keys : Intent(p, k)
    \/ OutOfBudget(p) \/ Send(p) \/ Spool(p)
    \/ \E o \in Outcomes, m \in BOOLEAN : Reply(p, o, m)
    \/ \E long \in BOOLEAN : Archive(p, long)
    \/ FetchDone(p) \/ Release(p) \/ Abort(p)

(* Every run event the commands append is one the transition trigger of    *)
(* migration 0012 accepts.                                                 *)
THEOREM TransitionsLegal == Spec => TriggerNeverRaises
<1> DEFINE Legal == \A r \in Runs : runState'[r] # runState[r] =>
                      LegalTransition(runState[r], runState'[r], r)
<1>1. ASSUME IndInv, [Next]_vars
      PROVE  Legal
  <2> USE <1>1 DEF IndInv, TypeOK, LocalsInv, LockInv, HolderInv, HolderOK, At,
                   Connected, LegalTransition
  <2>1. ASSUME NEW p \in Procs, NEW s \in Runs, MarkAbandoned(p, s)
        PROVE  Legal
    BY <2>1 DEF MarkAbandoned, DeadRuns
  <2>2. ASSUME NEW p \in Procs, CreateRun(p)
        PROVE  Legal
    BY <2>2 DEF CreateRun
  <2>3. ASSUME NEW p \in Procs, RecordMissed(p)
        PROVE  Legal
    BY <2>3 DEF RecordMissed, PCs
  <2>4. ASSUME NEW p \in Procs, EnterFetch(p)
        PROVE  Legal
    BY <2>4 DEF EnterFetch, PCs, Admitted, RESUMABLE, UnacknowledgedBlocks
  <2>5. ASSUME NEW p \in Procs, EnterReprocess(p)
        PROVE  Legal
    BY <2>5 DEF EnterReprocess, PCs
  <2>6. ASSUME NEW p \in Procs, NEW produced \in BOOLEAN,
               RecordState(p, produced)
        PROVE  Legal
    BY <2>6, DecideStateType DEF RecordState, PCs
  <2>7. ASSUME UNCHANGED runState
        PROVE  Legal
    BY <2>7
  <2>8. ASSUME NEW p \in Procs, NEW cmd \in Commands,
               NEW r \in Runs \cup {None}, Begin(p, cmd, r)
        PROVE  UNCHANGED runState
    BY <2>8 DEF Begin, store
  <2>9. ASSUME NEW p \in Procs, Quiet(p)
        PROVE  UNCHANGED runState
    BY <2>9 DEF Quiet, RecoverAttempt, RecoverDone, MarkAbandonedDone, Refuse,
                Intent, OutOfBudget, Send, Reply, Spool, Archive, FetchDone,
                Release, Abort, store
  <2>10. ASSUME NEW p \in Procs, Fault(p)
         PROVE  UNCHANGED runState
    BY <2>10 DEF Fault, Crash, LoseSession, SpoolGateRefuses, IntentFails,
                 SpoolFails, store
  <2>11. ASSUME NEW r \in Runs, AcknowledgeBlock(r)
         PROVE  UNCHANGED runState
    BY <2>11 DEF AcknowledgeBlock
  <2>12. ASSUME NEW p \in Procs, Step(p)
         PROVE  Legal
    <3> HIDE DEF Legal, At, Connected, LegalTransition
    <3>1. \/ Quiet(p) \/ CreateRun(p) \/ RecordMissed(p) \/ EnterFetch(p)
          \/ EnterReprocess(p) \/ \E s \in Runs : MarkAbandoned(p, s)
          \/ \E produced \in BOOLEAN : RecordState(p, produced)
      BY <2>12 DEF Step, Quiet
    <3> QED
      BY <3>1, <2>1, <2>2, <2>3, <2>4, <2>5, <2>6, <2>7, <2>9
  <2>13. CASE UNCHANGED vars
    BY <2>7, <2>13 DEF vars
  <2>14. CASE Next
    <3> HIDE DEF Legal, At, Connected, LegalTransition
    <3> QED  BY <2>14, <2>7, <2>8, <2>10, <2>11, <2>12 DEF Next
  <2> QED  BY <1>1, <2>13, <2>14
<1>2. IndInv /\ [Next]_vars => [Legal]_vars
  BY <1>1
<1> QED  BY <1>2, Invariance, PTL DEF Spec, TriggerNeverRaises

-----------------------------------------------------------------------------
(* What no crash can spoil, as long as no session is lost *)

(* Every attempt of a run the spool or the archive knows.                  *)
RowsOf(r) == spooled[r] \cup archive[r]

Fetching == {"fetch"} \cup Attempting

(* What an invocation knows of the rows of its run.  It numbers from the   *)
(* journal, whose highest intent is its own; after recover the spool holds *)
(* nothing the archive lacks but the attempt about to be inserted; the     *)
(* number of the attempt under way is fresh; every key with an OK response *)
(* is one it has seen, and it asks for none of those.                      *)
RowsOK(p) ==
    LET l == proc[p] IN
    /\ l.pc \in {"recover", "abandon", "gate", "running"} =>
         l.seq = None /\ l.key = None
    /\ l.pc \in Fetching /\ l.seq # None => journal[l.run] = l.seq
    /\ l.pc \notin {"idle", "recover"} =>
         \A r \in Runs : spooled[r] \subseteq
           archive[r] \cup IF l.pc = "insert" /\ r = l.run
                           THEN {AttemptOf(l)} ELSE {}
    /\ l.pc \in Attempting \ {"insert"} =>
         l.seq \notin SequenceNumbers(RowsOf(l.run))
    /\ l.pc = "insert" => AttemptOf(l) \in spooled[l.run]
    /\ l.pc \in Fetching =>
         OkKeys(RowsOf(l.run)) \subseteq
           l.seen \cup IF l.pc = "insert" /\ l.outcome = "ok"
                       THEN {l.key} ELSE {}
    /\ (l.pc \in Attempting \/ (l.pc = "fetch" /\ l.key # None)) =>
         l.key \notin l.seen

(* No database session has been lost in the behaviour so far.              *)
NoneLost == bounds.losses = MaxLoss

RowsInv ==
    /\ bounds.losses \in 0..MaxLoss
    /\ NoneLost => /\ lost = {}
                   /\ SequenceNamesAttempt
                   /\ \A p \in Procs : RowsOK(p)

-----------------------------------------------------------------------------
(* One OK response per key, one response per number *)

(* While no session is lost, only the lock holder runs a command.          *)
LEMMA HolderIsAlone ==
    ASSUME IndInv, lost = {}, NEW p \in Procs, proc[p].pc # "idle"
    PROVE  \A q \in Procs \ {p} : proc[q].pc = "idle"
BY DEF IndInv, LockInv

(* An idle process knows nothing of any run.                               *)
LEMMA IdleRowsOK ==
    ASSUME NEW p \in Procs, proc[p].pc = "idle"
    PROVE  RowsOK(p)
BY DEF RowsOK, Fetching, Attempting

(* A step of one process leaves the idle others idle.                      *)
LEMMA OnlyMover ==
    ASSUME NEW p \in Procs, \A q \in Procs \ {p} : proc'[q].pc = "idle",
           RowsOK(p)'
    PROVE  \A q \in Procs : RowsOK(q)'
<1>1. ASSUME NEW q \in Procs, q # p
      PROVE  RowsOK(q)'
  <2>1. proc'[q].pc = "idle"
    BY <1>1
  <2> QED  BY <2>1 DEF RowsOK, Fetching, Attempting
<1> QED  BY <1>1

(* The highest number among those the archive and the journal know is the  *)
(* journal's, whether this invocation has read it or not.                  *)
LEMMA NumbersFromJournal ==
    ASSUME IndInv, NEW p \in Procs, proc[p].pc = "fetch", RowsOK(p),
           proc[p].run \in Runs
    PROVE  LoadedSeq(proc[p]) = journal[proc[p].run]
<1> DEFINE l == proc[p]
           j == journal[l.run]
           S == {j} \cup SequenceNumbers(archive[l.run])
<1>1. CASE l.seq # None
  BY <1>1 DEF LoadedSeq, RowsOK, Fetching
<1>2. CASE l.seq = None
  <2>1. j \in Nat /\ S \subseteq Nat
    BY DEF IndInv, TypeOK, SequenceNumbers, Attempts
  <2>2. \A y \in S : j >= y
    BY <2>1 DEF IndInv, JournalInv, SequenceNumbers
  <2>3. Max(S) \in S /\ \A y \in S : Max(S) >= y
    BY <2>2, MaxIsBound
  <2>4. Max(S) = j
    <3> HIDE DEF S
    <3>1. Max(S) >= j /\ j >= Max(S) /\ Max(S) \in Nat
      BY <2>1, <2>2, <2>3 DEF S
    <3> QED  BY <2>1, <3>1
  <2> QED  BY <1>2, <2>4 DEF LoadedSeq
<1> QED  BY <1>1, <1>2

(* The plan never names a key this invocation is done with.                *)
LEMMA PlanIsUnseen ==
    ASSUME NEW l, NEW k \in NextKeys(l)
    PROVE  k \notin l.seen
BY DEF NextKeys, SweepPlan, CapturePlan

(* More rows never take an OK response away.                               *)
LEMMA OkKeysGrow ==
    ASSUME NEW S, NEW T, S \subseteq T
    PROVE  /\ OkKeys(S) \subseteq OkKeys(T)
           /\ SequenceNumbers(S) \subseteq SequenceNumbers(T)
           /\ SessionMatches(S) => SessionMatches(T)
BY DEF OkKeys, SequenceNumbers, SessionMatches

(* archive.insert_attempt: the rows in place stay.                         *)
LEMMA InsertKeeps ==
    ASSUME NEW rows, NEW a
    PROVE  rows \subseteq InsertAttempt(rows, a)
BY DEF InsertAttempt

(* What a step must keep while no session is lost.                         *)
RowsGoal ==
    SequenceNamesAttempt /\ \A p \in Procs : RowsOK(p)

(* The places outside the fetch phase, once recover is over.               *)
Outside == {"abandon", "gate", "running", "missed", "finish", "release"}

(* A step to or among them keeps what the rows invariant says.             *)
LEMMA OutsideStep ==
    ASSUME IndInv, lost = {}, RowsGoal, NEW p \in Procs,
           proc[p].pc \notin {"idle", "recover", "insert"},
           \A q \in Procs \ {p} : proc'[q] = proc[q],
           proc'[p].pc \in Outside,
           proc'[p].pc \in {"abandon", "gate", "running"} =>
             /\ proc[p].pc \in {"abandon", "gate", "running"}
             /\ proc'[p].seq = proc[p].seq
             /\ proc'[p].key = proc[p].key,
           UNCHANGED <<spooled, archive>>
    PROVE  RowsGoal'
<1>1. \A q \in Procs \ {p} : proc'[q].pc = "idle"
  BY HolderIsAlone
<1>2. \A r \in Runs : spooled[r] \subseteq archive[r]
  BY DEF RowsGoal, RowsOK
<1>3. proc'[p].pc \notin Fetching /\ proc'[p].pc \notin Attempting
      /\ proc'[p].pc # "recover" /\ proc'[p].pc # "insert"
  BY DEF Outside, Fetching, Attempting
<1>4. proc'[p].pc \in {"abandon", "gate", "running"} =>
        proc'[p].seq = None /\ proc'[p].key = None
  BY DEF RowsGoal, RowsOK
<1>5. RowsOK(p)'
  BY <1>2, <1>3, <1>4 DEF RowsOK, Fetching
<1>6. SequenceNamesAttempt'
  BY DEF RowsGoal, SequenceNamesAttempt
<1> QED  BY <1>1, <1>5, <1>6, OnlyMover DEF RowsGoal

(* A process that ends leaves the rows as they are.                        *)
LEMMA IdleStep ==
    ASSUME IndInv, lost = {}, RowsGoal, NEW p \in Procs, proc[p].pc # "idle",
           proc' = [proc EXCEPT ![p] = IdleProcess],
           UNCHANGED <<spooled, archive>>
    PROVE  RowsGoal'
<1>1. proc'[p] = IdleProcess /\ \A q \in Procs \ {p} : proc'[q] = proc[q]
  BY DEF IndInv, TypeOK
<1>2. proc'[p].pc = "idle"
  BY <1>1 DEF IdleProcess
<1>3. \A q \in Procs \ {p} : proc'[q].pc = "idle"
  BY <1>1, HolderIsAlone
<1>4. RowsOK(p)'
  BY <1>2 DEF RowsOK, Fetching, Attempting
<1>5. SequenceNamesAttempt'
  BY DEF RowsGoal, SequenceNamesAttempt
<1> QED  BY <1>3, <1>4, <1>5, OnlyMover DEF RowsGoal

(* recover ends when the archive knows every spooled number, and with the  *)
(* number the attempt.                                                     *)
LEMMA RecoveredStep ==
    ASSUME IndInv, lost = {}, RowsGoal, NEW p \in Procs, RecoverDone(p)
    PROVE  RowsGoal'
<1>1. /\ proc[p].pc = "recover"
      /\ \A r \in Runs : Missing(r) = {}
      /\ UNCHANGED <<spooled, archive>>
      /\ proc' = [proc EXCEPT ![p].pc = "abandon"]
  BY DEF RecoverDone, At, Goto, store
<1>2. \A r \in Runs : spooled[r] \subseteq archive[r]
  BY <1>1 DEF Missing, RowsGoal, SequenceNamesAttempt, SequenceNumbers
<1>3. proc[p] \in Locals
  BY DEF IndInv, TypeOK
<1>4. /\ proc'[p].pc = "abandon" /\ proc'[p].seq = proc[p].seq
      /\ proc'[p].key = proc[p].key
      /\ \A q \in Procs \ {p} : proc'[q] = proc[q]
  BY <1>1, <1>3 DEF IndInv, TypeOK, Locals
<1>5. \A q \in Procs \ {p} : proc'[q].pc = "idle"
  BY <1>1, <1>4, HolderIsAlone
<1>6. RowsOK(p)'
  BY <1>1, <1>2, <1>4 DEF RowsGoal, RowsOK, Fetching, Attempting
<1>7. SequenceNamesAttempt'
  BY <1>1 DEF RowsGoal, SequenceNamesAttempt
<1> QED  BY <1>5, <1>6, <1>7, OnlyMover DEF RowsGoal

(* recover inserts an attempt the spool already has.                       *)
LEMMA RecoverStep ==
    ASSUME IndInv, lost = {}, RowsGoal, NEW p \in Procs, NEW r \in Runs,
           RecoverAttempt(p, r)
    PROVE  RowsGoal'
<1>1. PICK a \in Missing(r) :
        archive' = [archive EXCEPT ![r] = InsertAttempt(@, a)]
  BY DEF RecoverAttempt
<1>2. proc[p].pc = "recover" /\ UNCHANGED <<spooled, proc>>
  BY DEF RecoverAttempt, At
<1>3. \A s \in Runs : archive'[s] \subseteq archive[s] \cup spooled[s]
  BY <1>1, InsertAdds DEF Missing, IndInv, TypeOK
<1>4. SequenceNamesAttempt'
  BY <1>2, <1>3 DEF RowsGoal, SequenceNamesAttempt
<1>5. \A q \in Procs \ {p} : proc'[q].pc = "idle"
  BY <1>2, HolderIsAlone
<1>6. RowsOK(p)'
  BY <1>2 DEF RowsGoal, RowsOK, Fetching, Attempting
<1> QED  BY <1>4, <1>5, <1>6, OnlyMover DEF RowsGoal

(* _execute reads what the run already has.                                *)
LEMMA EnterStep ==
    ASSUME IndInv, lost = {}, RowsGoal, NEW p \in Procs, EnterFetch(p)
    PROVE  RowsGoal'
<1> DEFINE l == proc[p]
           done == OkKeys(archive[l.run])
           n == [l EXCEPT !.pc = "fetch", !.kind = kind[l.run], !.ok = done,
                          !.seen = done]
<1>1. /\ l.pc \in {"running", "gate"}
      /\ UNCHANGED <<spooled, archive>>
      /\ proc' = [proc EXCEPT ![p] = n]
  BY DEF EnterFetch, At
<1>2. l \in Locals /\ l.run \in Runs
  BY <1>1 DEF IndInv, TypeOK, LocalsInv, PCs
<1>3. /\ n.pc = "fetch" /\ n.run = l.run /\ n.key = l.key /\ n.seq = l.seq
      /\ n.seen = done
  BY <1>2 DEF Locals
<1> HIDE DEF n
<1>4. proc'[p] = n /\ \A q \in Procs \ {p} : proc'[q] = proc[q]
  BY <1>1 DEF IndInv, TypeOK
<1>5. l.seq = None /\ l.key = None
      /\ \A r \in Runs : spooled[r] \subseteq archive[r]
  BY <1>1 DEF RowsGoal, RowsOK
<1>6. OkKeys(RowsOf(l.run)) = done
  BY <1>2, <1>5 DEF RowsOf, OkKeys
<1>8. RowsOK(p)'
  <2>1. OkKeys(spooled'[n.run] \cup archive'[n.run]) \subseteq n.seen
    BY <1>1, <1>3, <1>6 DEF RowsOf
  <2> QED  BY <1>1, <1>3, <1>4, <1>5, <2>1
           DEF RowsOK, Fetching, Attempting, RowsOf
<1>9. \A q \in Procs \ {p} : proc'[q].pc = "idle"
  BY <1>1, <1>4, HolderIsAlone
<1>10. SequenceNamesAttempt'
  BY <1>1 DEF RowsGoal, SequenceNamesAttempt
<1> QED  BY <1>8, <1>9, <1>10, OnlyMover DEF RowsGoal

(* intent: a number no row has, a key not yet seen.                        *)
LEMMA IntentStep ==
    ASSUME IndInv, lost = {}, RowsGoal, NEW p \in Procs, NEW k \in Keys,
           Intent(p, k)
    PROVE  RowsGoal'
<1> DEFINE l == proc[p]
           seq == LoadedSeq(l) + 1
           n == [l EXCEPT !.pc = "send", !.key = k, !.seq = seq,
                          !.try = @ + 1]
<1>1. /\ l.pc = "fetch"
      /\ UNCHANGED <<spooled, archive>>
      /\ proc' = [proc EXCEPT ![p] = n]
      /\ journal' = [journal EXCEPT ![l.run] = Max({@, seq})]
      /\ IF l.key = None THEN k \in NextKeys(l) ELSE k = l.key
  BY DEF Intent, At
<1>2. l \in Locals /\ l.run \in Runs
  BY <1>1 DEF IndInv, TypeOK, LocalsInv, PCs
<1>3. /\ n.pc = "send" /\ n.run = l.run /\ n.key = k /\ n.seq = seq
      /\ n.seen = l.seen
  BY <1>2 DEF Locals
<1> HIDE DEF n
<1>4. proc'[p] = n /\ \A q \in Procs \ {p} : proc'[q] = proc[q]
  BY <1>1 DEF IndInv, TypeOK
<1>5. RowsOK(p)
  BY DEF RowsGoal
<1>6. seq = journal[l.run] + 1
  BY <1>1, <1>2, <1>5, NumbersFromJournal
<1>7. journal[l.run] \in Nat /\ seq \in Nat
  BY <1>2, <1>6 DEF IndInv, TypeOK
<1>8. journal'[l.run] = seq
  <2>1. Max({journal[l.run], seq}) = seq
    <3>1. \A y \in {journal[l.run], seq} : seq >= y
      BY <1>6, <1>7
    <3>2. /\ Max({journal[l.run], seq}) \in {journal[l.run], seq}
          /\ Max({journal[l.run], seq}) >= seq
      BY <3>1, MaxIsBound
    <3> QED  BY <1>6, <1>7, <3>2
  <2> QED  BY <1>1, <1>2, <2>1 DEF IndInv, TypeOK
<1>9. seq \notin SequenceNumbers(RowsOf(l.run))
  <2>1. \A a \in RowsOf(l.run) : a.seq \in Nat /\ a.seq <= journal[l.run]
    BY <1>2 DEF RowsOf, IndInv, TypeOK, JournalInv, Attempts
  <2> QED  BY <1>6, <1>7, <2>1 DEF SequenceNumbers
<1>10. k \notin l.seen
  <2>1. CASE l.key = None
    BY <1>1, <2>1, PlanIsUnseen
  <2>2. CASE l.key # None
    BY <1>1, <1>5, <2>2 DEF RowsOK
  <2> QED  BY <2>1, <2>2
<1>11. OkKeys(RowsOf(l.run)) \subseteq l.seen
       /\ \A r \in Runs : spooled[r] \subseteq archive[r]
  BY <1>1, <1>5 DEF RowsOK, Fetching
<1>12. RowsOK(p)'
  <2>1. /\ OkKeys(spooled'[n.run] \cup archive'[n.run]) \subseteq n.seen
        /\ n.seq \notin SequenceNumbers(spooled'[n.run] \cup archive'[n.run])
    BY <1>1, <1>3, <1>9, <1>11 DEF RowsOf
  <2> QED  BY <1>1, <1>3, <1>4, <1>8, <1>10, <1>11, <2>1
           DEF RowsOK, Fetching, Attempting, RowsOf
<1>13. \A q \in Procs \ {p} : proc'[q].pc = "idle"
  BY <1>1, <1>4, HolderIsAlone
<1>14. SequenceNamesAttempt'
  BY <1>1 DEF RowsGoal, SequenceNamesAttempt
<1> QED  BY <1>12, <1>13, <1>14, OnlyMover DEF RowsGoal

(* The request goes out, the answer comes in: the rows wait.               *)
LEMMA WaitStep ==
    ASSUME IndInv, lost = {}, RowsGoal, NEW p \in Procs,
           Send(p) \/ \E o \in Outcomes, m \in BOOLEAN : Reply(p, o, m)
    PROVE  RowsGoal'
<1> DEFINE l == proc[p]
           n == proc'[p]
<1>1. /\ l.pc \in {"send", "wait"}
      /\ UNCHANGED <<spooled, archive, journal>>
  BY DEF Send, Reply, At, store
<1>2. l \in Locals /\ l.run \in Runs
  BY <1>1 DEF IndInv, TypeOK, LocalsInv, PCs
<1> DEFINE Same == /\ n.pc \in {"wait", "spool"} /\ n.run = l.run
                    /\ n.key = l.key /\ n.seq = l.seq /\ n.seen = l.seen
                    /\ \A q \in Procs \ {p} : proc'[q] = proc[q]
<1>3. Same
  <2>1. CASE Send(p)
    BY <1>2, <2>1 DEF Send, Goto, IndInv, TypeOK, Locals
  <2>2. ASSUME NEW o \in Outcomes, NEW m \in BOOLEAN, Reply(p, o, m)
        PROVE  Same
    BY <1>2, <2>2 DEF Reply, IndInv, TypeOK, Locals
  <2> QED  BY <2>1, <2>2
<1>4. RowsOK(p)
  BY DEF RowsGoal
<1>5. RowsOK(p)'
  BY <1>1, <1>3, <1>4 DEF RowsOK, Fetching, Attempting, RowsOf
<1>6. \A q \in Procs \ {p} : proc'[q].pc = "idle"
  BY <1>1, <1>3, HolderIsAlone
<1>7. SequenceNamesAttempt'
  BY <1>1 DEF RowsGoal, SequenceNamesAttempt
<1> QED  BY <1>5, <1>6, <1>7, OnlyMover DEF RowsGoal

(* The spool line of a fresh number names one more attempt.                *)
LEMMA SpoolStep ==
    ASSUME IndInv, lost = {}, RowsGoal, NEW p \in Procs, Spool(p)
    PROVE  RowsGoal'
<1> DEFINE l == proc[p]
           n == proc'[p]
           a == AttemptOf(l)
<1>1. /\ l.pc = "spool"
      /\ UNCHANGED <<archive, journal>>
      /\ spooled' = [spooled EXCEPT ![l.run] = @ \cup {a}]
      /\ proc' = [proc EXCEPT ![p].pc = "insert"]
  BY DEF Spool, At, Goto
<1>2. l \in Locals /\ l.run \in Runs
  BY <1>1 DEF IndInv, TypeOK, LocalsInv, PCs
<1>3. /\ n.pc = "insert" /\ n.run = l.run /\ n.key = l.key
      /\ n.seq = l.seq /\ n.seen = l.seen /\ n.outcome = l.outcome
      /\ n.match = l.match
      /\ \A q \in Procs \ {p} : proc'[q] = proc[q]
  BY <1>1, <1>2 DEF IndInv, TypeOK, Locals
<1>4. AttemptOf(n) = a
  BY <1>3 DEF AttemptOf
<1>5. a.seq = l.seq /\ a.key = l.key /\ (a.ok <=> l.outcome = "ok")
  BY DEF AttemptOf
<1>6. /\ spooled'[l.run] = spooled[l.run] \cup {a}
      /\ \A r \in Runs \ {l.run} : spooled'[r] = spooled[r]
  BY <1>1, <1>2 DEF IndInv, TypeOK
<1>7. /\ l.seq \notin SequenceNumbers(RowsOf(l.run))
      /\ OkKeys(RowsOf(l.run)) \subseteq l.seen
      /\ l.key \notin l.seen
      /\ journal[l.run] = l.seq \/ l.seq = None
      /\ \A r \in Runs : spooled[r] \subseteq archive[r]
  BY <1>1 DEF RowsGoal, RowsOK, Fetching, Attempting
<1> HIDE DEF a
<1>8. OkKeys(spooled'[l.run] \cup archive'[l.run]) \subseteq
        l.seen \cup IF l.outcome = "ok" THEN {l.key} ELSE {}
  <2>1. spooled'[l.run] \cup archive'[l.run] = RowsOf(l.run) \cup {a}
    BY <1>1, <1>6 DEF RowsOf
  <2> QED  BY <1>5, <1>7, <2>1 DEF OkKeys
<1>9. RowsOK(p)'
  BY <1>1, <1>2, <1>3, <1>4, <1>6, <1>7, <1>8
  DEF RowsOK, Fetching, Attempting, RowsOf
<1>10. \A q \in Procs \ {p} : proc'[q].pc = "idle"
  BY <1>1, <1>3, HolderIsAlone
<1>11. SequenceNamesAttempt'
  BY <1>1, <1>5, <1>6, <1>7
  DEF RowsGoal, SequenceNamesAttempt, SequenceNumbers, RowsOf
<1> QED  BY <1>9, <1>10, <1>11, OnlyMover DEF RowsGoal

(* A response that could not be kept leaves a row of a fresh number.       *)
LEMMA SpoolFailsStep ==
    ASSUME IndInv, lost = {}, RowsGoal, NEW p \in Procs, SpoolFails(p)
    PROVE  RowsGoal'
<1> DEFINE l == proc[p]
           n == [l EXCEPT !.pc = "finish", !.stop = "stopped"]
           row == [AttemptOf(l) EXCEPT !.ok = FALSE, !.match = FALSE]
<1>1. /\ l.pc = "spool"
      /\ UNCHANGED spooled
      /\ archive' = [archive EXCEPT ![l.run] = InsertAttempt(@, row)]
      /\ proc' = [proc EXCEPT ![p] = n]
  BY DEF SpoolFails, At, StopFetch, Connected
<1>2. l \in Locals /\ l.run \in Runs
  BY <1>1 DEF IndInv, TypeOK, LocalsInv, PCs
<1>3. n.pc = "finish"
  BY <1>2 DEF Locals
<1> HIDE DEF n
<1>4. proc'[p] = n /\ \A q \in Procs \ {p} : proc'[q] = proc[q]
  BY <1>1 DEF IndInv, TypeOK
<1>5. row.seq = l.seq
  BY DEF AttemptOf
<1> HIDE DEF row
<1>6. /\ l.seq \notin SequenceNumbers(RowsOf(l.run))
      /\ \A r \in Runs : spooled[r] \subseteq archive[r]
  BY <1>1 DEF RowsGoal, RowsOK, Attempting
<1>7. /\ archive'[l.run] \subseteq archive[l.run] \cup {row}
      /\ \A r \in Runs \ {l.run} : archive'[r] = archive[r]
      /\ \A r \in Runs : archive[r] \subseteq archive'[r]
  BY <1>1, <1>2, InsertAdds, InsertKeeps DEF IndInv, TypeOK
<1>8. RowsOK(p)'
  BY <1>1, <1>3, <1>4, <1>6, <1>7 DEF RowsOK, Fetching, Attempting
<1>9. \A q \in Procs \ {p} : proc'[q].pc = "idle"
  BY <1>1, <1>4, HolderIsAlone
<1>10. SequenceNamesAttempt'
  BY <1>1, <1>5, <1>6, <1>7
  DEF RowsGoal, SequenceNamesAttempt, SequenceNumbers, RowsOf
<1> QED  BY <1>8, <1>9, <1>10, OnlyMover DEF RowsGoal

(* What fetch() has seen after an archived attempt.                        *)
LEMMA SeenAfter ==
    ASSUME NEW l \in Locals, l.key \in Keys, NEW long \in BOOLEAN,
           NEW n, n = AfterAttempt(Counted(l), long)
    PROVE  /\ n.seq = l.seq
           /\ l.seen \subseteq n.seen
           /\ n.seen \subseteq l.seen \cup {l.key}
           /\ n.pc = "fetch" /\ l.outcome = "ok" => l.key \in n.seen
           /\ n.pc = "fetch" => n.key = None \/ (n.key = l.key /\ n.seen = l.seen)
<1> DEFINE c == Counted(l)
           why == StopReason(c, long)
<1>1. /\ c \in Locals /\ c.key = l.key /\ c.seq = l.seq /\ c.seen = l.seen
      /\ c.outcome = l.outcome
  BY DEF Counted, Locals
<1> HIDE DEF c
<1>2. CASE why # "no"
  <2>1. n = [c EXCEPT !.pc = "finish", !.stop = why]
    BY <1>2 DEF AfterAttempt, c
  <2> HIDE DEF why
  <2> QED  BY <1>1, <2>1 DEF Locals
<1>3. CASE why = "no" /\ c.outcome = "ok"
  <2>1. n = [c EXCEPT !.pc = "fetch", !.key = None, !.try = 0,
                      !.ok = @ \cup {c.key}, !.seen = @ \cup {c.key}]
    BY <1>3 DEF AfterAttempt, c
  <2> HIDE DEF why
  <2>2. n.seq = c.seq /\ n.key = None /\ n.seen = c.seen \cup {c.key}
    BY ZenonT(30), <1>1, <2>1 DEF Locals
  <2> QED  BY <1>1, <2>2
<1>4. CASE why = "no" /\ c.outcome # "ok" /\ GivesUp(c)
  <2>1. n = [c EXCEPT !.pc = "fetch", !.key = None, !.try = 0,
                      !.seen = @ \cup {c.key}]
    BY <1>4 DEF AfterAttempt, c
  <2> HIDE DEF why
  <2>2. n.seq = c.seq /\ n.key = None /\ n.seen = c.seen \cup {c.key}
    BY ZenonT(30), <1>1, <2>1 DEF Locals
  <2> QED  BY <1>1, <2>2
<1>5. CASE why = "no" /\ c.outcome # "ok" /\ ~GivesUp(c)
  <2>1. n = [c EXCEPT !.pc = "fetch"]
    BY <1>5 DEF AfterAttempt, c
  <2> HIDE DEF why
  <2>2. n.seq = c.seq /\ n.key = c.key /\ n.seen = c.seen
    BY <1>1, <2>1 DEF Locals
  <2> QED  BY <1>1, <1>5, <2>2
<1> QED  BY <1>2, <1>3, <1>4, <1>5

(* The archive takes the spooled attempt: spool and archive agree again.   *)
LEMMA ArchiveStep ==
    ASSUME IndInv, lost = {}, RowsGoal, NEW p \in Procs, NEW long \in BOOLEAN,
           Archive(p, long)
    PROVE  RowsGoal'
<1> DEFINE l == proc[p]
           n == AfterAttempt(Counted(l), long)
           a == AttemptOf(l)
<1>1. /\ l.pc = "insert"
      /\ UNCHANGED <<spooled, journal>>
      /\ archive' = [archive EXCEPT ![l.run] = InsertAttempt(@, a)]
      /\ proc' = [proc EXCEPT ![p] = n]
  BY DEF Archive, At
<1>2. l \in Locals /\ l.run \in Runs /\ l.key \in Keys
  BY <1>1 DEF IndInv, TypeOK, LocalsInv, PCs, Attempting
<1>3. n.pc \in {"fetch", "finish"} /\ n.run = l.run
  BY <1>2, AfterAttemptType
<1>4. /\ n.seq = l.seq
      /\ l.seen \subseteq n.seen
      /\ n.pc = "fetch" /\ l.outcome = "ok" => l.key \in n.seen
      /\ n.pc = "fetch" => n.key = None \/ (n.key = l.key /\ n.seen = l.seen)
  BY <1>2, SeenAfter
<1> HIDE DEF n
<1>5. proc'[p] = n /\ \A q \in Procs \ {p} : proc'[q] = proc[q]
  BY <1>1 DEF IndInv, TypeOK
<1>6. /\ a \in spooled[l.run]
      /\ l.seq # None => journal[l.run] = l.seq
      /\ OkKeys(RowsOf(l.run)) \subseteq
           l.seen \cup IF l.outcome = "ok" THEN {l.key} ELSE {}
      /\ l.key \notin l.seen
      /\ \A r \in Runs : spooled[r] \subseteq
           archive[r] \cup IF r = l.run THEN {a} ELSE {}
  BY <1>1 DEF RowsGoal, RowsOK, Fetching, Attempting
<1>7. /\ archive'[l.run] = InsertAttempt(archive[l.run], a)
      /\ \A r \in Runs \ {l.run} : archive'[r] = archive[r]
  BY <1>1, <1>2 DEF IndInv, TypeOK
<1>8. a \in archive'[l.run]
  BY <1>2, <1>6, <1>7
  DEF InsertAttempt, SequenceNumbers, RowsGoal, SequenceNamesAttempt
<1>9. /\ archive'[l.run] \subseteq archive[l.run] \cup {a}
      /\ archive[l.run] \subseteq archive'[l.run]
  BY <1>7, InsertAdds, InsertKeeps
<1> HIDE DEF a
<1>10. RowsOf(l.run)' = RowsOf(l.run)
       /\ spooled'[n.run] \cup archive'[n.run] = RowsOf(l.run)
  BY <1>1, <1>3, <1>5, <1>6, <1>9 DEF RowsOf
<1>11. \A r \in Runs : spooled[r] \subseteq archive'[r]
  BY <1>6, <1>7, <1>8, <1>9
<1>12. n.pc = "fetch" => OkKeys(RowsOf(l.run)) \subseteq n.seen
  BY <1>4, <1>6
<1>13. n.pc = "fetch" /\ n.key # None => n.key \notin n.seen
  BY <1>4, <1>6
<1>14. RowsOK(p)'
  BY <1>1, <1>3, <1>4, <1>5, <1>6, <1>10, <1>11, <1>12, <1>13
  DEF RowsOK, Fetching, Attempting, RowsOf
<1>15. \A q \in Procs \ {p} : proc'[q].pc = "idle"
  BY <1>1, <1>5, HolderIsAlone
<1>16. SequenceNamesAttempt'
  BY <1>1, <1>6, <1>7, <1>9 DEF RowsGoal, SequenceNamesAttempt
<1> QED  BY <1>14, <1>15, <1>16, OnlyMover DEF RowsGoal

(* What a step keeps as long as no session has been lost.                  *)
LEMMA RowsStep ==
    ASSUME IndInv, lost = {}, RowsGoal, [Next]_vars, NoneLost, NoneLost'
    PROVE  RowsGoal' /\ lost' = {}
<1> USE DEF At
<1>1. ASSUME NEW p \in Procs, NEW cmd \in Commands, NEW r \in Runs \cup {None},
             Begin(p, cmd, r)
      PROVE  RowsGoal' /\ lost' = {}
  <2>1. PICK k \in IF cmd = "start" THEN RunKinds ELSE {None} :
          proc' = [proc EXCEPT ![p] =
                     [IdleProcess EXCEPT !.pc = "recover", !.cmd = cmd,
                                         !.run = r, !.kind = k]]
    BY <1>1 DEF Begin
  <2> DEFINE n == [IdleProcess EXCEPT !.pc = "recover", !.cmd = cmd,
                                      !.run = r, !.kind = k]
  <2>2. n.pc = "recover" /\ n.seq = None /\ n.key = None
    BY DEF IdleProcess
  <2> HIDE DEF n
  <2>3. proc' = [proc EXCEPT ![p] = n]
    BY <2>1 DEF n
  <2>4. proc'[p] = n /\ \A q \in Procs \ {p} : proc'[q] = proc[q]
    BY <2>3 DEF IndInv, TypeOK
  <2>5. lock = None /\ UNCHANGED <<lost, spooled, archive>>
    BY <1>1 DEF Begin, LockFree, store
  <2>6. \A q \in Procs \ {p} : proc'[q].pc = "idle"
    BY <2>4, <2>5, CaptureConstants DEF IndInv, LockInv
  <2>7. RowsOK(p)'
    BY <2>2, <2>4 DEF RowsOK, Fetching, Attempting
  <2>8. SequenceNamesAttempt'
    BY <2>5 DEF RowsGoal, SequenceNamesAttempt
  <2> QED  BY <2>5, <2>6, <2>7, <2>8, OnlyMover DEF RowsGoal
<1>2. ASSUME NEW p \in Procs, NEW r \in Runs, RecoverAttempt(p, r)
      PROVE  RowsGoal' /\ lost' = {}
  BY <1>2, RecoverStep DEF RecoverAttempt
<1>3. ASSUME NEW p \in Procs, RecoverDone(p)
      PROVE  RowsGoal' /\ lost' = {}
  BY <1>3, RecoveredStep DEF RecoverDone
<1>4. ASSUME UNCHANGED <<journal, spooled, archive, proc, lost>>
      PROVE  RowsGoal' /\ lost' = {}
  <2>1. SequenceNamesAttempt'
    BY <1>4 DEF RowsGoal, SequenceNamesAttempt
  <2>2. ASSUME NEW p \in Procs
        PROVE  RowsOK(p)'
    BY <1>4 DEF RowsGoal, RowsOK, RowsOf
  <2> QED BY <1>4, <2>1, <2>2 DEF RowsGoal
<1> DEFINE Leaves(p) ==
      /\ proc[p].pc \notin {"idle", "recover", "insert"}
      /\ \E pc \in Outside :
           /\ \/ Goto(p, pc)
              \/ pc = "finish" /\ StopFetch(p, "stopped")
           /\ pc \in {"abandon", "gate", "running"} =>
                proc[p].pc \in {"abandon", "gate", "running"}
      /\ UNCHANGED <<spooled, archive, lost>>
<1>5. ASSUME NEW p \in Procs, Leaves(p)
      PROVE  RowsGoal' /\ lost' = {}
  <2>1. PICK pc \in Outside :
          /\ \/ Goto(p, pc)
             \/ pc = "finish" /\ StopFetch(p, "stopped")
          /\ pc \in {"abandon", "gate", "running"} =>
               proc[p].pc \in {"abandon", "gate", "running"}
    BY <1>5
  <2>2. proc[p] \in Locals
    BY DEF IndInv, TypeOK
  <2>3. CASE Goto(p, pc)
    <3>1. /\ proc'[p].pc = pc /\ proc'[p].seq = proc[p].seq
          /\ proc'[p].key = proc[p].key
          /\ \A q \in Procs \ {p} : proc'[q] = proc[q]
      BY <2>2, <2>3 DEF Goto, IndInv, TypeOK, Locals
    <3> QED  BY <1>5, <2>1, <3>1, OutsideStep
  <2>4. CASE pc = "finish" /\ StopFetch(p, "stopped")
    <3> DEFINE n == [proc[p] EXCEPT !.pc = "finish", !.stop = "stopped"]
    <3>1. n.pc = "finish"
      BY <2>2 DEF Locals
    <3> HIDE DEF n
    <3>2. proc' = [proc EXCEPT ![p] = n]
      BY <2>4 DEF StopFetch, n
    <3>3. proc'[p] = n /\ \A q \in Procs \ {p} : proc'[q] = proc[q]
      BY <3>2 DEF IndInv, TypeOK
    <3> QED  BY <1>5, <2>1, <2>4, <3>1, <3>3, OutsideStep
  <2> QED  BY <2>1, <2>3, <2>4
<1>6. ASSUME NEW p \in Procs,
             \/ MarkAbandonedDone(p) \/ Refuse(p) \/ SpoolGateRefuses(p)
             \/ CreateRun(p) \/ RecordMissed(p) \/ EnterReprocess(p)
      PROVE  Leaves(p)
  <2>1. CASE MarkAbandonedDone(p)
    BY <2>1 DEF MarkAbandonedDone, Outside, store
  <2>2. CASE Refuse(p)
    BY <2>2 DEF Refuse, Outside, store
  <2>3. CASE SpoolGateRefuses(p)
    BY <2>3 DEF SpoolGateRefuses, Outside, store
  <2>4. CASE CreateRun(p)
    BY <2>4 DEF CreateRun, Outside
  <2>5. CASE RecordMissed(p)
    BY <2>5 DEF RecordMissed, Outside
  <2>6. CASE EnterReprocess(p)
    BY <2>6 DEF EnterReprocess, Outside
  <2> QED  BY <1>6, <2>1, <2>2, <2>3, <2>4, <2>5, <2>6
<1>7. ASSUME NEW p \in Procs,
             \/ OutOfBudget(p) \/ IntentFails(p) \/ FetchDone(p)
             \/ \E produced \in BOOLEAN : RecordState(p, produced)
      PROVE  Leaves(p)
  <2>1. CASE OutOfBudget(p)
    BY <2>1 DEF OutOfBudget, Outside, store
  <2>2. CASE IntentFails(p)
    BY <2>2 DEF IntentFails, Outside, store
  <2>3. CASE FetchDone(p)
    BY <2>3 DEF FetchDone, Outside, store
  <2>4. CASE \E produced \in BOOLEAN : RecordState(p, produced)
    BY <2>4 DEF RecordState, Outside
  <2> QED  BY <1>7, <2>1, <2>2, <2>3, <2>4
<1>8. ASSUME NEW p \in Procs, Release(p) \/ Crash(p) \/ Abort(p)
      PROVE  RowsGoal' /\ lost' = {}
  <2>1. /\ proc[p].pc # "idle"
        /\ proc' = [proc EXCEPT ![p] = IdleProcess]
        /\ UNCHANGED <<spooled, archive>>
        /\ lost' = {}
    BY <1>8 DEF Release, Crash, Abort, store
  <2> QED  BY <2>1, IdleStep
<1>9. ASSUME NEW p \in Procs, EnterFetch(p)
      PROVE  RowsGoal' /\ lost' = {}
  BY <1>9, EnterStep DEF EnterFetch
<1>10. ASSUME NEW p \in Procs, NEW k \in Keys, Intent(p, k)
       PROVE  RowsGoal' /\ lost' = {}
  BY <1>10, IntentStep DEF Intent
<1>11. ASSUME NEW p \in Procs,
              Send(p) \/ \E o \in Outcomes, m \in BOOLEAN : Reply(p, o, m)
       PROVE  RowsGoal' /\ lost' = {}
  <2>1. UNCHANGED lost
    BY <1>11 DEF Send, Reply
  <2> QED  BY <1>11, <2>1, WaitStep
<1>12. ASSUME NEW p \in Procs, Spool(p)
       PROVE  RowsGoal' /\ lost' = {}
  BY <1>12, SpoolStep DEF Spool
<1>13. ASSUME NEW p \in Procs, SpoolFails(p)
       PROVE  RowsGoal' /\ lost' = {}
  BY <1>13, SpoolFailsStep DEF SpoolFails
<1>14. ASSUME NEW p \in Procs, NEW long \in BOOLEAN, Archive(p, long)
       PROVE  RowsGoal' /\ lost' = {}
  BY <1>14, ArchiveStep DEF Archive
<1>15. ASSUME NEW p \in Procs, LoseSession(p)
       PROVE  FALSE
  <2>1. bounds'.losses = bounds.losses - 1
    BY <1>15 DEF LoseSession, IndInv, TypeOK
  <2> QED  BY <2>1, CaptureConstants DEF NoneLost
<1>16. ASSUME NEW p \in Procs, NEW r \in Runs, MarkAbandoned(p, r)
       PROVE  RowsGoal' /\ lost' = {}
  BY <1>4, <1>16 DEF MarkAbandoned
<1>17. ASSUME NEW r \in Runs, AcknowledgeBlock(r)
       PROVE  RowsGoal' /\ lost' = {}
  BY <1>4, <1>17 DEF AcknowledgeBlock
<1>18. CASE UNCHANGED vars
  BY <1>4, <1>18 DEF vars
<1> HIDE DEF Leaves, At
<1>19. ASSUME NEW p \in Procs, Step(p)
       PROVE  RowsGoal' /\ lost' = {}
  BY <1>2, <1>3, <1>5, <1>6, <1>7, <1>8, <1>9, <1>10, <1>11, <1>12, <1>14,
     <1>16, <1>19 DEF Step
<1>20. ASSUME NEW p \in Procs, Fault(p)
       PROVE  RowsGoal' /\ lost' = {}
  BY <1>5, <1>6, <1>7, <1>8, <1>13, <1>15, <1>20 DEF Fault
<1> QED  BY <1>1, <1>17, <1>18, <1>19, <1>20 DEF Next

(* The count of sessions still to lose only falls.                         *)
LEMMA LossesStep ==
    ASSUME IndInv, bounds.losses \in 0..MaxLoss, [Next]_vars
    PROVE  /\ bounds'.losses \in 0..MaxLoss
           /\ NoneLost' => NoneLost
<1>1. \/ bounds'.losses = bounds.losses
      \/ bounds.losses > 0 /\ bounds'.losses = bounds.losses - 1
  <2>1. ASSUME NEW p \in Procs, NEW cmd \in Commands,
               NEW r \in Runs \cup {None}, Begin(p, cmd, r)
        PROVE  bounds'.losses = bounds.losses
    BY <2>1 DEF Begin, IndInv, TypeOK
  <2>2. ASSUME NEW p \in Procs, Step(p)
        PROVE  UNCHANGED bounds
    <3>1. CASE \/ Quiet(p) \/ EnterFetch(p) \/ EnterReprocess(p)
               \/ CreateRun(p) \/ RecordMissed(p)
      BY <3>1 DEF Quiet, RecoverAttempt, RecoverDone, MarkAbandonedDone,
                  Refuse, Intent, OutOfBudget, Send, Reply, Spool, Archive,
                  FetchDone, Release, Abort, EnterFetch, EnterReprocess,
                  CreateRun, RecordMissed
    <3>2. CASE \/ \E r \in Runs : MarkAbandoned(p, r)
               \/ \E produced \in BOOLEAN : RecordState(p, produced)
      BY <3>2 DEF MarkAbandoned, RecordState
    <3> QED  BY <2>2, <3>1, <3>2 DEF Step, Quiet
  <2>3. ASSUME NEW p \in Procs, Fault(p)
        PROVE  <1>1
    BY <2>3 DEF Fault, Crash, LoseSession, SpoolGateRefuses, IntentFails,
                SpoolFails, IndInv, TypeOK
  <2>4. ASSUME NEW r \in Runs, AcknowledgeBlock(r)
        PROVE  UNCHANGED bounds
    BY <2>4 DEF AcknowledgeBlock
  <2>5. CASE UNCHANGED vars
    BY <2>5 DEF vars
  <2> QED  BY <2>1, <2>2, <2>3, <2>4, <2>5 DEF Next
<1>2. bounds.losses \in Nat /\ MaxLoss \in Nat
  BY CaptureConstants DEF IndInv, TypeOK
<1> QED  BY <1>1, <1>2 DEF NoneLost

(* The rows invariant holds in every behaviour.                            *)
LEMMA RowsInvariance == Spec => []RowsInv
<1>1. Init => RowsInv
  <2> SUFFICES ASSUME Init PROVE RowsInv
    OBVIOUS
  <2>1. bounds.losses = MaxLoss /\ lost = {}
    BY DEF Init
  <2>2. SequenceNamesAttempt
    BY DEF Init, SequenceNamesAttempt
  <2>3. \A p \in Procs : proc[p].pc = "idle"
    BY DEF Init, IdleProcess
  <2> QED  BY <2>1, <2>2, <2>3, IdleRowsOK, CaptureConstants DEF RowsInv
<1>2. IndInv /\ RowsInv /\ [Next]_vars => RowsInv'
  <2> SUFFICES ASSUME IndInv, RowsInv, [Next]_vars PROVE RowsInv'
    OBVIOUS
  <2>1. /\ bounds'.losses \in 0..MaxLoss
        /\ NoneLost' => NoneLost
    BY LossesStep DEF RowsInv
  <2>2. CASE NoneLost'
    <3>1. NoneLost /\ lost = {} /\ RowsGoal
      BY <2>1, <2>2 DEF RowsInv, RowsGoal
    <3>2. RowsGoal' /\ lost' = {}
      BY <2>2, <3>1, RowsStep
    <3> QED  BY <2>1, <3>2 DEF RowsInv, RowsGoal
  <2> QED  BY <2>1, <2>2 DEF RowsInv
<1> QED  BY <1>1, <1>2, Invariance, PTL DEF Spec

(* _fetch_phase never asks again for what was archived OK, whatever        *)
(* processes died, in a behaviour that has lost no database session.       *)
THEOREM NothingAskedTwice == Spec => [](NoneLost => NoRepeatedRequest)
<1>1. IndInv /\ RowsInv => (NoneLost => NoRepeatedRequest)
  BY DEF IndInv, TypeOK, LocalsInv, RowsInv, RowsOK, Fetching, Attempting,
         PCs, NoRepeatedRequest, InFlight, RowsOf
<1> QED  BY <1>1, RowsInvariance, Invariance, PTL

(* A sequence number names one attempt of its run, in the spool and in the *)
(* archive, in a behaviour that has lost no database session: recover's    *)
(* comparison of numbers drops no response.                                *)
THEOREM NumbersNameAttempts == Spec => [](NoneLost => SequenceNamesAttempt)
<1>1. RowsInv => (NoneLost => SequenceNamesAttempt)
  BY DEF RowsInv
<1> QED  BY <1>1, RowsInvariance, PTL

-----------------------------------------------------------------------------
(* A succeeded run is complete *)

(* What decide_state calls succeeded is complete in the archive.           *)
LEMMA SucceedsWhenComplete ==
    ASSUME NEW r, NEW stop, NEW produced,
           DecideState(r, stop, produced) = "succeeded"
    PROVE  IF kind[r] = "metadata_sweep"
           THEN Absent \cup Sampled \subseteq OkKeys(archive[r])
           ELSE CaptureComplete(archive[r])
BY DEF DecideState, SweepArchived

(* A run that succeeded has all its responses, whatever was lost.          *)
THEOREM SuccessMeansComplete == Spec => []SucceededIsComplete
<1>1. Init => SucceededIsComplete
  BY DEF Init, SucceededIsComplete
<1>2. IndInv /\ SucceededIsComplete /\ [Next]_vars => SucceededIsComplete'
  <2> SUFFICES ASSUME IndInv, SucceededIsComplete, [Next]_vars
               PROVE  SucceededIsComplete'
    OBVIOUS
  <2> DEFINE Complete(k, rows) ==
        IF k = "metadata_sweep"
        THEN Absent \cup Sampled \subseteq OkKeys(rows)
        ELSE CaptureComplete(rows)
  <2>1. \A r \in Runs : runState[r] = "succeeded" => Complete(kind[r], archive[r])
    BY DEF SucceededIsComplete
  <2>2. ASSUME NEW k, NEW S, NEW T, S \subseteq T, Complete(k, S)
        PROVE  Complete(k, T)
    BY <2>2, OkKeysGrow DEF CaptureComplete
  <2> HIDE DEF Complete
  <2> DEFINE Kept == \A r \in Runs : runState'[r] = "succeeded" =>
                       /\ runState[r] = "succeeded" /\ kind'[r] = kind[r]
                       /\ archive[r] \subseteq archive'[r]
  <2>3. ASSUME Kept
        PROVE  SucceededIsComplete'
    <3>1. \A r \in Runs : runState'[r] = "succeeded" =>
            Complete(kind'[r], archive'[r])
      BY <2>1, <2>2, <2>3
    <3> QED  BY <3>1 DEF Complete, SucceededIsComplete
  <2>4. ASSUME NEW p \in Procs, NEW produced \in BOOLEAN,
               RecordState(p, produced)
        PROVE  SucceededIsComplete'
    <3>1. /\ runState' = [runState EXCEPT ![proc[p].run] =
               DecideState(proc[p].run, proc[p].stop, produced)]
          /\ UNCHANGED <<kind, archive>>
      BY <2>4 DEF RecordState
    <3>2. \A r \in Runs : runState'[r] = "succeeded" =>
            \/ runState[r] = "succeeded"
            \/ DecideState(r, proc[p].stop, produced) = "succeeded"
      BY <3>1 DEF IndInv, TypeOK
    <3>3. \A r \in Runs : runState'[r] = "succeeded" =>
            Complete(kind[r], archive[r])
      BY <2>1, <3>2, SucceedsWhenComplete DEF Complete
    <3> QED  BY <3>1, <3>3 DEF Complete, SucceededIsComplete
  <2>5. ASSUME NEW p \in Procs, NEW cmd \in Commands,
               NEW r \in Runs \cup {None}, Begin(p, cmd, r)
        PROVE  Kept
    BY <2>5 DEF Begin, store
  <2>6. ASSUME NEW p \in Procs, Quiet(p)
        PROVE  Kept
    <3>1. UNCHANGED <<runState, kind>>
      BY <2>6 DEF Quiet, RecoverAttempt, RecoverDone, MarkAbandonedDone,
                  Refuse, Intent, OutOfBudget, Send, Reply, Spool, Archive,
                  FetchDone, Release, Abort, store
    <3>2. \/ UNCHANGED archive
          \/ \E r \in Runs, a \in Attempts :
               archive' = [archive EXCEPT ![r] = InsertAttempt(@, a)]
      <4>1. ASSUME NEW r \in Runs, RecoverAttempt(p, r)
            PROVE  <3>2
        BY <4>1 DEF RecoverAttempt, Missing, IndInv, TypeOK
      <4>2. ASSUME NEW long \in BOOLEAN, Archive(p, long)
            PROVE  <3>2
        <5>1. proc[p].run \in Runs /\ AttemptOf(proc[p]) \in Attempts
          BY <4>2, AttemptType
          DEF Archive, At, IndInv, TypeOK, LocalsInv, PCs, Attempting
        <5> QED  BY <4>2, <5>1 DEF Archive
      <4>3. CASE \/ RecoverDone(p) \/ MarkAbandonedDone(p) \/ Refuse(p)
                 \/ OutOfBudget(p) \/ Send(p) \/ Spool(p) \/ FetchDone(p)
                 \/ Release(p) \/ Abort(p) \/ \E k \in Keys : Intent(p, k)
                 \/ \E o \in Outcomes, m \in BOOLEAN : Reply(p, o, m)
        BY <4>3 DEF RecoverDone, MarkAbandonedDone, Refuse, Intent,
                    OutOfBudget, Send, Reply, Spool, FetchDone, Release,
                    Abort, store
      <4> QED  BY <2>6, <4>1, <4>2, <4>3 DEF Quiet
    <3>3. \A r \in Runs : archive[r] \subseteq archive'[r]
      BY <3>2, InsertKeeps DEF IndInv, TypeOK
    <3> QED  BY <3>1, <3>3
  <2>7. ASSUME NEW p \in Procs, Fault(p)
        PROVE  Kept
    <3>1. CASE SpoolFails(p)
      <4> DEFINE row == [AttemptOf(proc[p]) EXCEPT !.ok = FALSE,
                                                   !.match = FALSE]
      <4>1. /\ UNCHANGED <<runState, kind>>
            /\ \/ UNCHANGED archive
               \/ archive' = [archive EXCEPT ![proc[p].run] =
                                InsertAttempt(@, row)]
        BY <3>1 DEF SpoolFails
      <4> HIDE DEF row
      <4>2. \A r \in Runs : archive[r] \subseteq archive'[r]
        BY <4>1, InsertKeeps DEF IndInv, TypeOK
      <4> QED  BY <4>1, <4>2
    <3>2. CASE \/ Crash(p) \/ LoseSession(p)
               \/ SpoolGateRefuses(p) \/ IntentFails(p)
      BY <3>2 DEF Crash, LoseSession, SpoolGateRefuses, IntentFails, store
    <3> QED  BY <2>7, <3>1, <3>2 DEF Fault
  <2>8. ASSUME NEW p \in Procs, CreateRun(p)
        PROVE  Kept
    BY <2>8 DEF CreateRun, IndInv, TypeOK
  <2>9. ASSUME NEW p \in Procs,
               \/ RecordMissed(p) \/ EnterFetch(p) \/ EnterReprocess(p)
               \/ \E r \in Runs : MarkAbandoned(p, r)
        PROVE  Kept
    BY <2>9 DEF RecordMissed, EnterFetch, EnterReprocess, MarkAbandoned,
                IndInv, TypeOK
  <2>10. ASSUME NEW r \in Runs, AcknowledgeBlock(r)
         PROVE  Kept
    BY <2>10 DEF AcknowledgeBlock
  <2>11. CASE UNCHANGED vars
    BY <2>3, <2>11 DEF vars
  <2> HIDE DEF Kept
  <2>12. ASSUME NEW p \in Procs, Step(p)
         PROVE  SucceededIsComplete'
    BY <2>3, <2>4, <2>6, <2>8, <2>9, <2>12 DEF Step, Quiet
  <2> QED  BY <2>3, <2>5, <2>7, <2>10, <2>11, <2>12 DEF Next
<1> QED  BY <1>1, <1>2, Invariance, PTL DEF Spec

-----------------------------------------------------------------------------
(* The run ledger keeps its promise *)

Unstarted == {"none", "pending", "missed"}

(* A missed record never starts, and a run that has not started has        *)
(* nothing in the spool, the archive or the acknowledgements.              *)
UnstartedInv ==
    \A r \in Runs :
      /\ kind[r] = "missed_record" => runState[r] \in Unstarted
      /\ runState[r] \in Unstarted =>
           archive[r] = {} /\ spooled[r] = {} /\ r \notin acked

(* Whoever makes requests, its session alive or not, does so for a run     *)
(* that has started.                                                       *)
StartedInv ==
    \A p \in Procs : proc[p].pc \in Fetching =>
      runState[proc[p].run] \notin Unstarted

(* What the lock holder knows of the run it has just created.              *)
CreatedInv ==
    \A p \in Procs : lock = p =>
      /\ proc[p].pc = "running" => kind[proc[p].run] \in RunKinds
      /\ proc[p].pc = "missed" => kind[proc[p].run] = "missed_record" /\ ~Clash

LedgerInv == UnstartedInv /\ StartedInv /\ CreatedInv

(* A step that leaves the run events alone leaves the clash alone.         *)
LEMMA ClashKept ==
    ASSUME UNCHANGED <<kind, runState>>
    PROVE  Clash' = Clash
BY DEF Clash

(* A new process record keeps what is known of starts and creations.       *)
LEMMA MoverKeeps ==
    ASSUME IndInv, LedgerInv, UNCHANGED <<kind, runState>>, NEW p \in Procs,
           \A q \in Procs \ {p} : proc'[q] = proc[q],
           lock' \in {lock, None, p},
           proc'[p].pc \in Fetching =>
             proc[p].pc \in Fetching /\ proc'[p].run = proc[p].run,
           proc'[p].pc \notin {"running", "missed"}
    PROVE  StartedInv' /\ CreatedInv'
<1>1. StartedInv'
  BY DEF LedgerInv, StartedInv
<1>2. \A q \in Procs : lock' = q => q = p \/ lock = q
  BY CaptureConstants
<1>3. CreatedInv'
  BY <1>2, ClashKept DEF LedgerInv, CreatedInv
<1> QED  BY <1>1, <1>3

(* A command's step that appends no run event and inserts no row.          *)
Still(p) ==
    \/ RecoverDone(p) \/ MarkAbandonedDone(p) \/ Refuse(p)
    \/ \E k \in Keys : Intent(p, k)
    \/ OutOfBudget(p) \/ Send(p)
    \/ \E o \in Outcomes, m \in BOOLEAN : Reply(p, o, m)
    \/ FetchDone(p) \/ Release(p) \/ Abort(p)
    \/ Crash(p) \/ SpoolGateRefuses(p) \/ IntentFails(p)

(* What such a step leaves alone, and where it takes the process.          *)
LEMMA StillEffect ==
    ASSUME IndInv, NEW p \in Procs, Still(p)
    PROVE  /\ UNCHANGED <<kind, runState, acked, archive, spooled>>
           /\ \A q \in Procs \ {p} : proc'[q] = proc[q]
           /\ lock' \in {lock, None}
           /\ proc'[p].pc \in Fetching =>
                proc[p].pc \in Fetching /\ proc'[p].run = proc[p].run
           /\ proc'[p].pc \notin {"running", "missed"}
<1> DEFINE Goal ==
      /\ UNCHANGED <<kind, runState, acked, archive, spooled>>
      /\ \A q \in Procs \ {p} : proc'[q] = proc[q]
      /\ lock' \in {lock, None}
      /\ proc'[p].pc \in Fetching =>
           proc[p].pc \in Fetching /\ proc'[p].run = proc[p].run
      /\ proc'[p].pc \notin {"running", "missed"}
<1> USE DEF IndInv, TypeOK, At, store, Fetching, Attempting, Locals
<1>1. CASE \/ RecoverDone(p) \/ MarkAbandonedDone(p) \/ Refuse(p)
           \/ SpoolGateRefuses(p) \/ FetchDone(p)
  BY <1>1 DEF RecoverDone, MarkAbandonedDone, Refuse, SpoolGateRefuses,
              FetchDone, Goto
<1>2. ASSUME NEW k \in Keys, Intent(p, k)
      PROVE  Goal
  BY <1>2 DEF Intent
<1>3. CASE OutOfBudget(p) \/ IntentFails(p)
  <2> DEFINE n == [proc[p] EXCEPT !.pc = "finish", !.stop = "stopped"]
  <2>1. n.pc = "finish"
    OBVIOUS
  <2>2. /\ proc' = [proc EXCEPT ![p] = n]
        /\ UNCHANGED <<kind, runState, acked, archive, spooled, lock>>
    BY <1>3 DEF OutOfBudget, IntentFails, StopFetch
  <2> HIDE DEF n
  <2> QED  BY <2>1, <2>2
<1>4. CASE Send(p)
  BY <1>4 DEF Send, Goto
<1>5. ASSUME NEW o \in Outcomes, NEW m \in BOOLEAN, Reply(p, o, m)
      PROVE  Goal
  BY <1>5 DEF Reply
<1>6. CASE Release(p) \/ Abort(p) \/ Crash(p)
  BY <1>6 DEF Release, Abort, Crash, IdleProcess
<1> QED  BY <1>1, <1>2, <1>3, <1>4, <1>5, <1>6 DEF Still

(* Such a step keeps the invariant.                                        *)
LEMMA StillKeeps ==
    ASSUME IndInv, LedgerInv, NEW p \in Procs, Still(p)
    PROVE  LedgerInv'
<1>1. UNCHANGED <<kind, runState, acked, archive, spooled>>
  BY StillEffect
<1>2. StartedInv' /\ CreatedInv'
  BY StillEffect, MoverKeeps
<1>3. UnstartedInv'
  BY <1>1 DEF LedgerInv, UnstartedInv
<1> QED  BY <1>2, <1>3 DEF LedgerInv

(* A command begins, or a session is lost: nothing is written.             *)
LEMMA BeginKeeps ==
    ASSUME IndInv, LedgerInv, NEW p \in Procs,
           \/ \E cmd \in Commands, r \in Runs \cup {None} : Begin(p, cmd, r)
           \/ LoseSession(p)
    PROVE  UNCHANGED <<kind, runState, acked, archive, spooled>> /\ LedgerInv'
<1>1. UNCHANGED <<kind, runState, acked, archive, spooled>>
  BY DEF Begin, LoseSession, store
<1>2. /\ \A q \in Procs \ {p} : proc'[q] = proc[q]
      /\ proc'[p].pc = "recover" \/ proc'[p] = proc[p]
      /\ \A q \in Procs : lock' = q => lock = q \/ proc'[q].pc = "recover"
  <2>1. ASSUME NEW cmd \in Commands, NEW r \in Runs \cup {None},
               Begin(p, cmd, r)
        PROVE  <1>2
    <3>1. proc'[p].pc = "recover" /\ \A q \in Procs \ {p} : proc'[q] = proc[q]
      BY <2>1, BeginEffect DEF IndInv
    <3> QED  BY <2>1, <3>1 DEF Begin
  <2>2. CASE LoseSession(p)
    BY <2>2, CaptureConstants DEF LoseSession
  <2> QED  BY <2>1, <2>2
<1>3. StartedInv'
  BY <1>1, <1>2 DEF LedgerInv, StartedInv, Fetching, Attempting
<1>4. CreatedInv'
  BY <1>1, <1>2, ClashKept DEF LedgerInv, CreatedInv
<1>5. UnstartedInv'
  BY <1>1 DEF LedgerInv, UnstartedInv
<1> QED  BY <1>1, <1>3, <1>4, <1>5 DEF LedgerInv

(* A response reaches the archive of a run that has started.               *)
Received(r) ==
    /\ runState[r] \notin Unstarted
    /\ \E a \in Attempts : archive' = [archive EXCEPT ![r] = InsertAttempt(@, a)]
    /\ UNCHANGED <<kind, runState, acked, spooled>>

(* The three steps that insert an archive row do that.                     *)
LEMMA RowsReceived ==
    ASSUME IndInv, LedgerInv, NEW p \in Procs,
           \/ \E r \in Runs : RecoverAttempt(p, r)
           \/ \E long \in BOOLEAN : Archive(p, long)
           \/ SpoolFails(p)
    PROVE  /\ \/ \E r \in Runs : Received(r)
              \/ UNCHANGED <<kind, runState, acked, spooled, archive>>
           /\ LedgerInv'
<1> DEFINE Rows == \/ \E r \in Runs : Received(r)
                   \/ UNCHANGED <<kind, runState, acked, spooled, archive>>
<1>1. ASSUME NEW r \in Runs, RecoverAttempt(p, r)
      PROVE  Rows /\ StartedInv' /\ CreatedInv'
  <2>1. PICK a \in Missing(r) :
          archive' = [archive EXCEPT ![r] = InsertAttempt(@, a)]
    BY <1>1 DEF RecoverAttempt
  <2>2. a \in spooled[r] /\ a \in Attempts
    BY DEF Missing, IndInv, TypeOK
  <2>3. runState[r] \notin Unstarted
    BY <2>2 DEF LedgerInv, UnstartedInv
  <2>4. UNCHANGED <<kind, runState, acked, spooled, proc, lock>>
    BY <1>1 DEF RecoverAttempt
  <2>5. StartedInv' /\ CreatedInv'
    BY <2>4, ClashKept DEF LedgerInv, StartedInv, CreatedInv
  <2> QED  BY <2>1, <2>2, <2>3, <2>4, <2>5 DEF Received
<1>2. ASSUME NEW long \in BOOLEAN, Archive(p, long)
      PROVE  Rows /\ StartedInv' /\ CreatedInv'
  <2> DEFINE n == AfterAttempt(Counted(proc[p]), long)
  <2>1. /\ proc[p] \in Locals /\ proc[p].run \in Runs /\ proc[p].key \in Keys
        /\ AttemptOf(proc[p]) \in Attempts /\ proc[p].pc \in Fetching
    BY <1>2, AttemptType
    DEF Archive, At, IndInv, TypeOK, LocalsInv, PCs, Attempting, Fetching
  <2>2. n.pc \in {"fetch", "finish"} /\ n.run = proc[p].run
    BY <2>1, AfterAttemptType
  <2>3. /\ proc' = [proc EXCEPT ![p] = n]
        /\ UNCHANGED <<kind, runState, acked, spooled, lock>>
        /\ archive' = [archive EXCEPT ![proc[p].run] =
                          InsertAttempt(@, AttemptOf(proc[p]))]
    BY <1>2 DEF Archive
  <2> HIDE DEF n
  <2>4. proc'[p] = n /\ \A q \in Procs \ {p} : proc'[q] = proc[q]
    BY <2>3 DEF IndInv, TypeOK
  <2>5. StartedInv' /\ CreatedInv'
    BY <2>1, <2>2, <2>3, <2>4, MoverKeeps
  <2>6. runState[proc[p].run] \notin Unstarted
    BY <2>1 DEF LedgerInv, StartedInv
  <2> QED  BY <2>1, <2>3, <2>5, <2>6 DEF Received
<1>3. ASSUME SpoolFails(p)
      PROVE  Rows /\ StartedInv' /\ CreatedInv'
  <2> DEFINE n == [proc[p] EXCEPT !.pc = "finish", !.stop = "stopped"]
             row == [AttemptOf(proc[p]) EXCEPT !.ok = FALSE, !.match = FALSE]
  <2>1. /\ proc[p] \in Locals /\ proc[p].run \in Runs
        /\ row \in Attempts /\ proc[p].pc \in Fetching
    BY <1>3, AttemptType
    DEF SpoolFails, At, IndInv, TypeOK, LocalsInv, PCs, Attempting, Fetching
  <2>2. n.pc = "finish"
    BY <2>1 DEF Locals
  <2>3. /\ proc' = [proc EXCEPT ![p] = n]
        /\ UNCHANGED <<kind, runState, acked, spooled, lock>>
        /\ \/ archive' = [archive EXCEPT ![proc[p].run] = InsertAttempt(@, row)]
           \/ UNCHANGED archive
    BY <1>3 DEF SpoolFails, StopFetch
  <2> HIDE DEF n, row
  <2>4. proc'[p] = n /\ \A q \in Procs \ {p} : proc'[q] = proc[q]
    BY <2>3 DEF IndInv, TypeOK
  <2>5. StartedInv' /\ CreatedInv'
    BY <2>2, <2>3, <2>4, MoverKeeps DEF Fetching, Attempting
  <2>6. runState[proc[p].run] \notin Unstarted
    BY <2>1 DEF LedgerInv, StartedInv
  <2> QED  BY <2>1, <2>3, <2>5, <2>6 DEF Received
<1>4. Rows /\ StartedInv' /\ CreatedInv'
  BY <1>1, <1>2, <1>3
<1>5. ASSUME Rows
      PROVE  UnstartedInv'
  BY <1>5 DEF LedgerInv, UnstartedInv, Received, IndInv, TypeOK
<1> QED  BY <1>4, <1>5 DEF LedgerInv

(* The spool grows for a run that has started.                             *)
LEMMA SpoolKeeps ==
    ASSUME IndInv, LedgerInv, NEW p \in Procs, Spool(p)
    PROVE  UNCHANGED <<kind, runState, acked, archive>> /\ LedgerInv'
<1>1. /\ proc[p].run \in Runs /\ runState[proc[p].run] \notin Unstarted
      /\ proc[p].pc \in Fetching
  BY DEF Spool, At, IndInv, TypeOK, LocalsInv, PCs, Fetching, Attempting,
         LedgerInv, StartedInv
<1>2. /\ UNCHANGED <<kind, runState, acked, archive, lock>>
      /\ spooled' = [spooled EXCEPT ![proc[p].run] =
                        @ \cup {AttemptOf(proc[p])}]
      /\ proc'[p].pc = "insert" /\ proc'[p].run = proc[p].run
      /\ \A q \in Procs \ {p} : proc'[q] = proc[q]
  BY DEF Spool, Goto, IndInv, TypeOK, Locals
<1>3. StartedInv' /\ CreatedInv'
  BY <1>1, <1>2, MoverKeeps
<1>4. UnstartedInv'
  BY <1>1, <1>2 DEF LedgerInv, UnstartedInv, IndInv, TypeOK
<1> QED  BY <1>2, <1>3, <1>4 DEF LedgerInv

(* Run r takes one more event; nothing is received, nobody else moves.     *)
Appended(p, r, state) ==
    /\ runState' = [runState EXCEPT ![r] = state]
    /\ UNCHANGED <<acked, archive, spooled, lock>>
    /\ \A q \in Procs \ {p} : proc'[q] = proc[q]

(* An event of the lock holder for a run that is no missed record keeps    *)
(* the invariant.                                                          *)
LEMMA AppendedKeeps ==
    ASSUME IndInv, LedgerInv, NEW p \in Procs, lock = p, NEW r \in Runs,
           NEW state \in RunStates \ Unstarted, Appended(p, r, state),
           UNCHANGED kind, kind[r] # "missed_record",
           proc'[p].pc \notin {"running", "missed"},
           proc'[p].pc \in Fetching => proc'[p].run = r
    PROVE  LedgerInv'
<1>1. \A s \in Runs : runState'[s] = IF s = r THEN state ELSE runState[s]
  BY DEF Appended, IndInv, TypeOK
<1>2. \A s \in Runs : runState'[s] \in Unstarted => runState[s] \in Unstarted
  BY <1>1
<1>3. UnstartedInv'
  BY <1>1, <1>2 DEF LedgerInv, UnstartedInv, Appended
<1>4. StartedInv'
  <2> SUFFICES ASSUME NEW q \in Procs, proc'[q].pc \in Fetching
               PROVE  runState'[proc'[q].run] \notin Unstarted
    BY DEF StartedInv
  <2>1. CASE q = p
    BY <1>1, <2>1
  <2>2. CASE q # p
    <3>1. proc'[q] = proc[q]
      BY <2>2 DEF Appended
    <3>2. proc[q].run \in Runs /\ runState[proc[q].run] \notin Unstarted
      BY <3>1 DEF LedgerInv, StartedInv, IndInv, LocalsInv, PCs, Fetching, Attempting
    <3> QED  BY <1>2, <3>1, <3>2
  <2> QED  BY <2>1, <2>2
<1>5. CreatedInv'
  BY DEF CreatedInv, Appended
<1> QED  BY <1>3, <1>4, <1>5 DEF LedgerInv

-----------------------------------------------------------------------------
(* The steps of the ledger *)

(* The ledger the commands write, as Ledger is instantiated with.          *)
LedgerTold == [r \in Runs |->
                 [state |-> runState[r], kind |-> kind[r],
                  date |-> IF runState[r] = "none" THEN 0 ELSE 1,
                  shown |-> SessionMatches(archive[r]),
                  acked |-> r \in acked]]

(* An event of a run that was created is a change of its ledger row.       *)
LEMMA AppendedBecomes ==
    ASSUME IndInv, NEW r \in Runs, NEW state \in RunStates,
           state # "none", runState[r] # "none",
           runState' = [runState EXCEPT ![r] = state],
           UNCHANGED <<kind, archive, acked>>
    PROVE  Ledger!Becomes(r, state)
<1>1. \A s \in Runs : runState'[s] = IF s = r THEN state ELSE runState[s]
  BY DEF IndInv, TypeOK
<1>2. LedgerTold' = [LedgerTold EXCEPT ![r].state = state]
  BY <1>1 DEF LedgerTold
<1> QED  BY <1>2 DEF Ledger!Becomes, LedgerTold

(* Nothing written that the ledger shows.                                  *)
LEMMA NothingTold ==
    ASSUME UNCHANGED <<kind, runState, acked, archive>>
    PROVE  UNCHANGED LedgerTold
BY DEF LedgerTold

(* What the ledger's own operators say of the runs.                        *)
LEMMA LedgerReads ==
    /\ Ledger!Running = {r \in Runs : runState[r] = "running"}
    /\ Ledger!Unreviewed = UnacknowledgedBlocks
    /\ ~Clash => \A d \in {0, 1} : ~Ledger!Taken(d)
<1>1. Ledger!Running = {r \in Runs : runState[r] = "running"}
  BY DEF Ledger!Running
<1>2. Ledger!Unreviewed = UnacknowledgedBlocks
  BY DEF Ledger!Unreviewed, UnacknowledgedBlocks
<1>3. ~Clash => \A d \in {0, 1} : ~Ledger!Taken(d)
  BY DEF Ledger!Taken, Clash
<1> QED  BY <1>1, <1>2, <1>3

(* A recovered or new response may show the session of its run.            *)
LEMMA ReceivedShows ==
    ASSUME IndInv, LedgerInv, NEW r \in Runs, Received(r)
    PROVE  Ledger!Show(r) \/ UNCHANGED LedgerTold
<1>1. PICK a \in Attempts : archive' = [archive EXCEPT ![r] = InsertAttempt(@, a)]
  BY DEF Received
<1>2. archive[r] \subseteq archive'[r] /\ \A s \in Runs \ {r} : archive'[s] = archive[s]
  BY <1>1 DEF InsertAttempt, IndInv, TypeOK
<1>3. SessionMatches(archive[r]) => SessionMatches(archive'[r])
  BY <1>2 DEF SessionMatches
<1>4. UNCHANGED <<kind, runState, acked>>
  BY DEF Received
<1>5. CASE SessionMatches(archive[r]) <=> SessionMatches(archive'[r])
  <2>1. SessionMatches(archive'[r]) = SessionMatches(archive[r])
    BY <1>5 DEF SessionMatches
  <2>2. \A s \in Runs : SessionMatches(archive'[s]) = SessionMatches(archive[s])
    BY <1>2, <2>1
  <2> QED  BY <1>4, <2>2 DEF LedgerTold
<1>6. CASE ~SessionMatches(archive[r]) /\ SessionMatches(archive'[r])
  <2>1. SessionMatches(archive[r]) = FALSE /\ SessionMatches(archive'[r]) = TRUE
    BY <1>6 DEF SessionMatches
  <2>2. /\ \A s \in Runs \ {r} : SessionMatches(archive'[s]) = SessionMatches(archive[s])
        /\ SessionMatches(archive'[r]) = TRUE
    BY <1>2, <2>1
  <2>3. LedgerTold' = [LedgerTold EXCEPT ![r].shown = TRUE]
    BY <1>4, <2>2 DEF LedgerTold
  <2>4. /\ runState[r] \notin {"none", "pending", "missed"}
        /\ kind[r] # "missed_record"
    BY DEF Received, Unstarted, LedgerInv, UnstartedInv
  <2> QED  BY <2>1, <2>3, <2>4 DEF Ledger!Show, LedgerTold
<1> QED  BY <1>3, <1>5, <1>6

(* mark_abandoned: one running run is given up.                            *)
LEMMA AbandonPromise ==
    ASSUME IndInv, LedgerInv, NEW p \in Procs, NEW r \in Runs, MarkAbandoned(p, r)
    PROVE  Ledger!Next /\ LedgerInv'
<1>1. /\ lock = p /\ runState[r] = "running" /\ proc[p].pc = "abandon"
      /\ UNCHANGED <<kind, proc>>
      /\ Appended(p, r, "abandoned")
  BY DEF MarkAbandoned, DeadRuns, Appended, At, Connected, IndInv, LockInv
<1>2. kind[r] # "missed_record"
  BY <1>1 DEF LedgerInv, UnstartedInv, Unstarted
<1>3. LedgerInv'
  BY <1>1, <1>2, AppendedKeeps DEF RunStates, Unstarted, Fetching, Attempting
<1>4. LedgerTold' = [s \in Runs |-> IF s \in {r} THEN [LedgerTold[s] EXCEPT !.state = "abandoned"]
                                    ELSE LedgerTold[s]]
  <2>1. \A s \in Runs : runState'[s] = IF s = r THEN "abandoned" ELSE runState[s]
    BY <1>1 DEF Appended, IndInv, TypeOK
  <2> QED  BY <1>1, <2>1 DEF LedgerTold, Appended
<1>5. {r} \in (SUBSET Ledger!Running) \ {{}}
  BY <1>1, LedgerReads
<1>6. Ledger!Abandon
  BY <1>4, <1>5 DEF Ledger!Abandon, Ledger!WithoutRuns, LedgerTold
<1> QED  BY <1>3, <1>6 DEF Ledger!Next

(* create_run: no run is running, and a missed record meets no clash.      *)
LEMMA CreatePromise ==
    ASSUME IndInv, LedgerInv, NEW p \in Procs, CreateRun(p)
    PROVE  Ledger!Next /\ LedgerInv'
<1>a. PICK r \in Runs : r = proc[p].run
  BY DEF CreateRun, At, IndInv, LocalsInv, PCs
<1>b. PICK k : k = IF proc[p].cmd = "start" THEN proc[p].kind ELSE "missed_record"
  OBVIOUS
<1>1. /\ lock = p /\ proc[p].pc = "gate" /\ runState[r] = "none"
      /\ proc[p].cmd \in {"start", "record_missed"} /\ Admitted(proc[p])
      /\ proc[p].cmd = "start" => proc[p].kind \in RunKinds
  BY <1>a DEF CreateRun, At, Connected, IndInv, LockInv, LocalsInv, PCs
<1>2. /\ \A s \in Runs : runState'[s] = IF s = r THEN "pending" ELSE runState[s]
      /\ \A s \in Runs : kind'[s] = IF s = r THEN k ELSE kind[s]
      /\ UNCHANGED <<acked, archive, spooled, lock>>
      /\ \A q \in Procs \ {p} : proc'[q] = proc[q]
      /\ proc'[p].pc = IF proc[p].cmd = "start" THEN "running" ELSE "missed"
      /\ proc'[p].run = r
  BY <1>a, <1>b, <1>1 DEF CreateRun, Goto, IndInv, TypeOK, Locals
<1>3. proc[p].cmd = "start" => UnacknowledgedBlocks = {}
  BY <1>a, <1>1 DEF Admitted
<1>4. proc[p].cmd = "record_missed" => ~Clash
  BY <1>a, <1>1 DEF Admitted
<1>5. \A s \in Runs : runState[s] # "running"
  BY <1>a, <1>1 DEF IndInv, HolderInv, HolderOK
<1>6. archive[r] = {} /\ spooled[r] = {} /\ r \notin acked
  BY <1>1 DEF LedgerInv, UnstartedInv, Unstarted
<1>7. k \in {"market_capture", "metadata_sweep", "missed_record"}
  BY <1>b, <1>1, CaptureConstants
<1>8. Ledger!Create(r)
  <2>1. SessionMatches(archive[r]) = FALSE
    BY <1>6 DEF SessionMatches
  <2>2. LedgerTold' = [LedgerTold EXCEPT ![r] = Ledger!Row("pending", k, 1)]
    <3>1. \A s \in Runs \ {r} : LedgerTold'[s] = LedgerTold[s]
      BY <1>2 DEF LedgerTold
    <3>2. LedgerTold'[r] = Ledger!Row("pending", k, 1)
      <4>1. /\ runState'[r] = "pending" /\ kind'[r] = k
            /\ SessionMatches(archive'[r]) = FALSE /\ (r \in acked') = FALSE
        BY <1>2, <1>6, <2>1
      <4>2. LedgerTold'[r] = [state |-> runState'[r], kind |-> kind'[r],
                              date |-> IF runState'[r] = "none" THEN 0 ELSE 1,
                              shown |-> SessionMatches(archive'[r]),
                              acked |-> r \in acked']
        BY DEF LedgerTold
      <4> QED  BY <4>1, <4>2 DEF Ledger!Row
    <3>3. /\ DOMAIN LedgerTold = Runs /\ DOMAIN LedgerTold' = Runs
          /\ LedgerTold = [s \in Runs |-> LedgerTold[s]]
          /\ LedgerTold' = [s \in Runs |-> LedgerTold'[s]]
      BY DEF LedgerTold
    <3> QED  BY <3>1, <3>2, <3>3
  <2>3. Ledger!WithoutRuns(Ledger!Running) = LedgerTold
    <3>1. Ledger!Running = {}
      BY <1>5, LedgerReads
    <3> QED  BY <3>1 DEF Ledger!WithoutRuns, LedgerTold
  <2>5. IF k = "missed_record" THEN ~Ledger!Taken(1) ELSE Ledger!Unreviewed = {}
    BY <1>b, <1>1, <1>3, <1>4, LedgerReads, CaptureConstants
  <2>6. LedgerTold' = [Ledger!WithoutRuns(Ledger!Running) EXCEPT
          ![r] = Ledger!Row("pending", k, 1)]
    BY <2>2, <2>3
  <2>7. LedgerTold[r].state = "none"
    BY <1>1 DEF LedgerTold
  <2> QED  BY <1>7, <2>5, <2>6, <2>7 DEF Ledger!Create, LedgerTold
<1>9. UnstartedInv'
  BY <1>2, <1>6 DEF LedgerInv, UnstartedInv, Unstarted
<1>10. StartedInv'
  <2> SUFFICES ASSUME NEW q \in Procs, proc'[q].pc \in Fetching
               PROVE  runState'[proc'[q].run] \notin Unstarted
    BY DEF StartedInv
  <2>1. q # p /\ proc'[q] = proc[q]
    BY <1>2 DEF Fetching, Attempting
  <2>2. proc[q].run \in Runs /\ runState[proc[q].run] \notin Unstarted
    BY <2>1 DEF LedgerInv, StartedInv, IndInv, LocalsInv, PCs, Fetching, Attempting
  <2>3. proc[q].run # r
    BY <1>1, <2>2 DEF Unstarted
  <2> QED  BY <1>2, <2>1, <2>2, <2>3
<1>11. CreatedInv'
  <2>1. ~Clash => ~Clash'
    BY <1>1, <1>2 DEF Clash
  <2> QED  BY <1>1, <1>2, <1>4, <2>1, <1>b DEF CreatedInv
<1> QED  BY <1>1, <1>8, <1>9, <1>10, <1>11 DEF Ledger!Next, LedgerInv

(* record-missed writes its second event under the same lock.              *)
LEMMA MissPromise ==
    ASSUME IndInv, LedgerInv, NEW p \in Procs, RecordMissed(p)
    PROVE  Ledger!Next /\ LedgerInv'
<1>a. PICK r \in Runs : r = proc[p].run
  BY DEF RecordMissed, At, IndInv, LocalsInv, PCs
<1>1. /\ lock = p /\ proc[p].pc = "missed" /\ runState[r] = "pending"
      /\ kind[r] = "missed_record" /\ ~Clash
      /\ \A s \in Runs : runState[s] # "running"
  BY <1>a DEF RecordMissed, At, Connected, IndInv, LockInv, HolderInv, HolderOK,
              LedgerInv, CreatedInv
<1>2. /\ \A s \in Runs : runState'[s] = IF s = r THEN "missed" ELSE runState[s]
      /\ runState' = [runState EXCEPT ![r] = "missed"]
      /\ UNCHANGED <<kind, acked, archive, spooled, lock>>
      /\ \A q \in Procs \ {p} : proc'[q] = proc[q]
      /\ proc'[p].pc = "release"
  BY <1>a DEF RecordMissed, Goto, IndInv, TypeOK, Locals
<1>3. Ledger!Miss(r)
  <2>1. Ledger!Becomes(r, "missed")
    BY <1>1, <1>2, AppendedBecomes DEF RunStates
  <2>2. /\ LedgerTold[r].state = "pending" /\ LedgerTold[r].kind = "missed_record"
        /\ LedgerTold[r].date = 1
    BY <1>1 DEF LedgerTold
  <2>3. Ledger!Running = {} /\ ~Ledger!Taken(1)
    BY <1>1, LedgerReads
  <2> QED  BY <2>1, <2>2, <2>3 DEF Ledger!Miss, LedgerTold
<1>4. UnstartedInv' /\ StartedInv'
  <2>1. UnstartedInv'
    BY <1>1, <1>2 DEF LedgerInv, UnstartedInv, Unstarted
  <2>2. ASSUME NEW q \in Procs, proc'[q].pc \in Fetching
        PROVE  runState'[proc'[q].run] \notin Unstarted
    <3>1. q # p /\ proc'[q] = proc[q]
      BY <1>2, <2>2 DEF Fetching, Attempting
    <3>2. proc[q].run \in Runs /\ runState[proc[q].run] \notin Unstarted
      BY <2>2, <3>1 DEF LedgerInv, StartedInv, IndInv, LocalsInv, PCs, Fetching, Attempting
    <3>3. proc[q].run # r
      BY <1>1, <3>2 DEF Unstarted
    <3> QED  BY <1>2, <3>1, <3>2, <3>3
  <2> QED  BY <2>1, <2>2 DEF StartedInv
<1>5. CreatedInv'
  BY <1>1, <1>2 DEF CreatedInv
<1> QED  BY <1>3, <1>4, <1>5 DEF Ledger!Next, LedgerInv

(* start, resume: past the block gate, with no other run running.          *)
LEMMA CapturePromise ==
    ASSUME IndInv, LedgerInv, NEW p \in Procs, EnterFetch(p)
    PROVE  Ledger!Next /\ LedgerInv'
<1>a. PICK r \in Runs : r = proc[p].run
  BY DEF EnterFetch, At, IndInv, LocalsInv, PCs
<1>1. /\ lock = p
      /\ runState[r] \in {"pending"} \cup RESUMABLE
      /\ kind[r] # "missed_record"
      /\ UnacknowledgedBlocks = {}
      /\ \A s \in Runs : runState[s] # "running"
  <2>1. lock = p /\ proc[p].pc \in {"running", "gate"}
    BY DEF EnterFetch, At, Connected, IndInv, LockInv
  <2>2. CASE proc[p].pc = "running"
    <3>1. /\ runState[r] = "pending"
          /\ \A s \in Runs : runState[s] = "blocked" => s \in acked
          /\ \A s \in Runs : runState[s] = "running" => s = r
      BY <1>a, <2>1, <2>2 DEF IndInv, HolderInv, HolderOK, Contacting
    <3>2. kind[r] # "missed_record"
      BY <1>a, <2>1, <2>2, CaptureConstants DEF LedgerInv, CreatedInv
    <3> QED  BY <2>1, <3>1, <3>2 DEF UnacknowledgedBlocks
  <2>3. CASE proc[p].pc = "gate"
    <3>1. proc[p].cmd = "resume" /\ Admitted(proc[p])
      BY <2>3 DEF EnterFetch, At
    <3>2. UnacknowledgedBlocks = {} /\ runState[r] \in RESUMABLE
      BY <1>a, <3>1 DEF Admitted
    <3>3. \A s \in Runs : runState[s] # "running"
      BY <1>a, <2>1, <2>3, <3>2 DEF IndInv, HolderInv, HolderOK, RESUMABLE
    <3>4. kind[r] # "missed_record"
      BY <3>2 DEF LedgerInv, UnstartedInv, Unstarted, RESUMABLE
    <3> QED  BY <2>1, <3>2, <3>3, <3>4
  <2> QED  BY <2>1, <2>2, <2>3
<1>2. /\ Appended(p, r, "running") /\ UNCHANGED kind
      /\ proc'[p].pc = "fetch" /\ proc'[p].run = r
  <2>1. PICK n : /\ proc' = [proc EXCEPT ![p] = n]
                 /\ n.pc = "fetch" /\ n.run = r
    <3>1. proc[p] \in Locals
      BY DEF IndInv, TypeOK
    <3> DEFINE n == [proc[p] EXCEPT !.pc = "fetch", !.kind = kind[proc[p].run],
                       !.ok = OkKeys(archive[proc[p].run]),
                       !.seen = OkKeys(archive[proc[p].run])]
    <3>2. n.pc = "fetch" /\ n.run = proc[p].run
      BY <3>1 DEF Locals
    <3>3. proc' = [proc EXCEPT ![p] = n]
      BY DEF EnterFetch
    <3> HIDE DEF n
    <3> QED  BY <1>a, <3>2, <3>3
  <2>2. proc'[p] = n /\ \A q \in Procs \ {p} : proc'[q] = proc[q]
    BY <2>1 DEF IndInv, TypeOK
  <2> QED  BY <1>a, <2>1, <2>2 DEF EnterFetch, Appended
<1>3. LedgerInv'
  BY <1>1, <1>2, AppendedKeeps DEF RunStates, Unstarted
<1>4. Ledger!Capture(r)
  <2>1. Ledger!Becomes(r, "running")
    BY <1>1, <1>2, AppendedBecomes DEF RunStates, RESUMABLE, Appended
  <2>2. /\ LedgerTold[r].state \in {"pending", "partial", "failed", "abandoned", "blocked"}
        /\ LedgerTold[r].kind # "missed_record"
    BY <1>1 DEF LedgerTold, RESUMABLE
  <2>3. Ledger!Running = {} /\ Ledger!Unreviewed = {}
    BY <1>1, LedgerReads
  <2> QED  BY <2>1, <2>2, <2>3 DEF Ledger!Capture, LedgerTold
<1> QED  BY <1>3, <1>4 DEF Ledger!Next

(* reprocess: only for an archived session, and no run running.            *)
LEMMA RederivePromise ==
    ASSUME IndInv, LedgerInv, NEW p \in Procs, EnterReprocess(p)
    PROVE  (Ledger!Next \/ UNCHANGED LedgerTold) /\ LedgerInv'
<1>a. PICK r \in Runs : r = proc[p].run
  BY DEF EnterReprocess, At, IndInv, LocalsInv, PCs
<1>1. /\ lock = p /\ proc[p].pc = "gate"
      /\ runState[r] \notin {"pending", "running", "missed"}
      /\ kind[r] = "market_capture" /\ SessionMatches(archive[r])
      /\ \A s \in Runs : runState[s] # "running"
  BY <1>a DEF EnterReprocess, At, Connected, IndInv, LockInv, HolderInv,
              HolderOK, Admitted, Derivable
<1>2. /\ UNCHANGED <<kind, acked, archive, spooled, lock>>
      /\ \A q \in Procs \ {p} : proc'[q] = proc[q]
      /\ proc'[p].pc \in {"finish", "release"}
  BY DEF EnterReprocess, Goto, IndInv, TypeOK, Locals
<1>3. CASE runState[r] \in {"partial", "failed", "abandoned"}
  <2>1. Appended(p, r, "running")
    BY <1>a, <1>2, <1>3 DEF EnterReprocess, Appended
  <2>2. LedgerInv'
    BY <1>1, <1>2, <2>1, AppendedKeeps DEF RunStates, Unstarted, Fetching, Attempting
  <2>3. Ledger!Becomes(r, "running")
    BY <1>2, <1>3, <2>1, AppendedBecomes DEF RunStates, Appended
  <2>4. /\ LedgerTold[r].state \in {"partial", "failed", "abandoned"}
        /\ LedgerTold[r].kind = "market_capture" /\ LedgerTold[r].shown
    BY <1>1, <1>3 DEF LedgerTold
  <2>5. Ledger!Running = {}
    BY <1>1, LedgerReads
  <2>6. Ledger!Rederive(r)
    BY <2>3, <2>4, <2>5 DEF Ledger!Rederive, LedgerTold
  <2> QED  BY <2>2, <2>6 DEF Ledger!Next
<1>4. CASE runState[r] \notin {"partial", "failed", "abandoned"}
  <2>1. UNCHANGED runState
    BY <1>a, <1>4 DEF EnterReprocess
  <2>2. StartedInv' /\ CreatedInv'
    BY <1>2, <2>1, MoverKeeps DEF Fetching, Attempting
  <2>3. UnstartedInv'
    BY <1>2, <2>1 DEF LedgerInv, UnstartedInv
  <2> QED  BY <1>2, <2>1, <2>2, <2>3, NothingTold DEF LedgerInv
<1> QED  BY <1>3, <1>4

(* What decide_state says of a capture agrees with its session.            *)
LEMMA DecidedShown ==
    ASSUME NEW r, NEW stop, NEW produced, kind[r] = "market_capture"
    PROVE  LET state == DecideState(r, stop, produced)
           IN  /\ state \in {"succeeded", "partial"} => SessionMatches(archive[r])
               /\ state = "failed" => ~SessionMatches(archive[r])
BY DEF DecideState, CaptureComplete

(* append_event: the run the caller alone has running is settled.          *)
LEMMA SettlePromise ==
    ASSUME IndInv, LedgerInv, NEW p \in Procs, NEW produced \in BOOLEAN,
           RecordState(p, produced)
    PROVE  Ledger!Next /\ LedgerInv'
<1>a. PICK r \in Runs : r = proc[p].run
  BY DEF RecordState, At, IndInv, LocalsInv, PCs
<1>b. PICK state : state = DecideState(r, proc[p].stop, produced)
  OBVIOUS
<1>1. /\ lock = p /\ proc[p].pc = "finish" /\ runState[r] = "running"
      /\ \A s \in Runs : runState[s] = "running" => s = r
  BY <1>a DEF RecordState, At, Connected, IndInv, LockInv, HolderInv, HolderOK
<1>2. /\ Appended(p, r, state) /\ UNCHANGED kind
      /\ proc'[p].pc = "release"
  BY <1>a, <1>b DEF RecordState, Appended, Goto, IndInv, TypeOK, Locals
<1>3. state \in {"succeeded", "partial", "failed", "blocked"}
  BY <1>b, DecideStateType
<1>4. kind[r] # "missed_record"
  BY <1>1 DEF LedgerInv, UnstartedInv, Unstarted
<1>5. LedgerInv'
  BY <1>1, <1>2, <1>3, <1>4, AppendedKeeps DEF RunStates, Unstarted, Fetching, Attempting
<1>6. Ledger!Settle(r)
  <2>1. Ledger!Becomes(r, state)
    BY <1>1, <1>2, <1>3, AppendedBecomes DEF RunStates, Appended
  <2>2. Ledger!Running = {r}
    BY <1>1, LedgerReads
  <2>3. kind[r] = "market_capture" =>
          /\ state \in {"succeeded", "partial"} => SessionMatches(archive[r])
          /\ state = "failed" => ~SessionMatches(archive[r])
    BY <1>b, DecidedShown
  <2>4. LedgerTold[r].kind = kind[r] /\ (LedgerTold[r].shown <=> SessionMatches(archive[r]))
    BY DEF LedgerTold
  <2>5. LedgerTold[r].kind = "market_capture" =>
          /\ state \in {"succeeded", "partial"} => LedgerTold[r].shown
          /\ state = "failed" => ~LedgerTold[r].shown
    BY <2>3, <2>4
  <2> QED  BY <1>3, <2>1, <2>2, <2>5 DEF Ledger!Settle, LedgerTold
<1> QED  BY <1>5, <1>6 DEF Ledger!Next

(* acknowledge-block: for a blocked run, once.                             *)
LEMMA AcknowledgePromise ==
    ASSUME IndInv, LedgerInv, NEW r \in Runs, AcknowledgeBlock(r)
    PROVE  Ledger!Next /\ LedgerInv'
<1>1. /\ runState[r] = "blocked" /\ r \notin acked
      /\ acked' = acked \cup {r}
      /\ UNCHANGED <<lock, kind, runState, archive, spooled, proc>>
  BY DEF AcknowledgeBlock
<1>2. LedgerTold' = [LedgerTold EXCEPT ![r].acked = TRUE]
  <2>1. /\ \A s \in Runs \ {r} : (s \in acked') = (s \in acked)
        /\ (r \in acked') = TRUE
    BY <1>1
  <2> QED  BY <1>1, <2>1 DEF LedgerTold
<1>3. r \in Ledger!Unreviewed
  BY <1>1, LedgerReads DEF UnacknowledgedBlocks
<1>4. Ledger!Acknowledge(r)
  BY <1>2, <1>3 DEF Ledger!Acknowledge, LedgerTold
<1>5. UnstartedInv'
  BY <1>1 DEF LedgerInv, UnstartedInv, Unstarted
<1>6. StartedInv' /\ CreatedInv'
  BY <1>1, ClashKept DEF LedgerInv, StartedInv, CreatedInv
<1> QED  BY <1>4, <1>5, <1>6 DEF Ledger!Next, LedgerInv

(* Every step of the tool is a step of the ledger, or shows nothing there. *)
LEMMA LedgerStep ==
    ASSUME IndInv, LedgerInv, [Next]_vars
    PROVE  (Ledger!Next \/ UNCHANGED LedgerTold) /\ LedgerInv'
<1> DEFINE Goal == (Ledger!Next \/ UNCHANGED LedgerTold) /\ LedgerInv'
<1>1. ASSUME NEW p \in Procs,
             \/ \E r \in Runs : RecoverAttempt(p, r)
             \/ \E long \in BOOLEAN : Archive(p, long)
             \/ SpoolFails(p)
      PROVE  Goal
  <2>1. LedgerInv'
    BY <1>1, RowsReceived
  <2>2. ASSUME NEW r \in Runs, Received(r)
        PROVE  Ledger!Next \/ UNCHANGED LedgerTold
    BY <2>2, ReceivedShows DEF Ledger!Next
  <2> QED  BY <1>1, <2>1, <2>2, RowsReceived, NothingTold
<1>2. ASSUME NEW p \in Procs, Still(p)
      PROVE  Goal
  BY <1>2, StillEffect, StillKeeps, NothingTold
<1>3. ASSUME NEW p \in Procs,
             \/ \E cmd \in Commands, r \in Runs \cup {None} : Begin(p, cmd, r)
             \/ LoseSession(p)
      PROVE  Goal
  BY <1>3, BeginKeeps, NothingTold
<1>4. ASSUME NEW p \in Procs, Spool(p)
      PROVE  Goal
  BY <1>4, SpoolKeeps, NothingTold
<1>5. ASSUME UNCHANGED vars
      PROVE  Goal
  <2>1. UnstartedInv' /\ StartedInv'
    BY <1>5 DEF vars, LedgerInv, UnstartedInv, StartedInv
  <2>2. CreatedInv'
    BY <1>5, ClashKept DEF vars, LedgerInv, CreatedInv
  <2> QED  BY <1>5, <2>1, <2>2, NothingTold DEF vars, LedgerInv
<1> HIDE DEF Goal
<1>6. ASSUME NEW p \in Procs, Step(p)
      PROVE  Goal
  <2>1. \/ Still(p) \/ Spool(p)
        \/ \E r \in Runs : RecoverAttempt(p, r)
        \/ \E long \in BOOLEAN : Archive(p, long)
        \/ \E r \in Runs : MarkAbandoned(p, r)
        \/ CreateRun(p) \/ RecordMissed(p) \/ EnterFetch(p) \/ EnterReprocess(p)
        \/ \E produced \in BOOLEAN : RecordState(p, produced)
    BY <1>6 DEF Step, Still
  <2> QED  BY <2>1, <1>1, <1>2, <1>4, AbandonPromise, CreatePromise, MissPromise,
              CapturePromise, RederivePromise, SettlePromise DEF Goal
<1>7. ASSUME NEW p \in Procs, Fault(p)
      PROVE  Goal
  BY <1>7, <1>1, <1>2, <1>3 DEF Fault, Still
<1>8. ASSUME NEW r \in Runs, AcknowledgeBlock(r)
      PROVE  Goal
  BY <1>8, AcknowledgePromise DEF Goal
<1>9. ASSUME NEW p \in Procs, NEW cmd \in Commands, NEW r \in Runs \cup {None},
             Begin(p, cmd, r)
      PROVE  Goal
  BY <1>3, <1>9
<1>10. ASSUME Next
       PROVE  Goal
  BY <1>6, <1>7, <1>8, <1>9, <1>10 DEF Next
<1>11. Goal
  BY <1>5, <1>10
<1> QED  BY <1>11 DEF Goal

(* The capture tool implements the run ledger, whatever crashes, loses its *)
(* session or is recovered from the spool in between.                      *)
THEOREM KeepsLedgerPromise == Spec => ImplementsCaptureLedger
<1>1. Init => LedgerInv /\ Ledger!Init
  <2> SUFFICES ASSUME Init
               PROVE  LedgerInv /\ Ledger!Init
    OBVIOUS
  <2>1. UnstartedInv /\ StartedInv /\ CreatedInv
    BY CaptureConstants DEF Init, UnstartedInv, StartedInv, CreatedInv,
         IdleProcess, Unstarted, Fetching, Attempting
  <2>2. \A r \in Runs : SessionMatches(archive[r]) = FALSE /\ (r \in acked) = FALSE
    BY DEF Init, SessionMatches
  <2>3. Ledger!Init
    BY <2>2 DEF Init, Ledger!Init, Ledger!Row
  <2> QED  BY <2>1, <2>3 DEF LedgerInv
<1>2. IndInv /\ LedgerInv /\ [Next]_vars => LedgerInv' /\ [Ledger!Next]_LedgerTold
  BY LedgerStep
<1>3. Ledger!Spec <=> Ledger!Init /\ [][Ledger!Next]_LedgerTold
  BY DEF Ledger!Spec, LedgerTold
<1> QED  BY Invariance, <1>1, <1>2, <1>3, PTL DEF Spec, ImplementsCaptureLedger
=============================================================================
