---------------------------- MODULE MarketCapture ----------------------------
(***************************************************************************)
(* The P2 market-capture command line (worker/market_capture): several     *)
(* processes run the commands start, resume, reprocess, recover and        *)
(* record-missed against one PostgreSQL database and one spool directory.  *)
(*                                                                         *)
(* Every command runs inside _locked: it takes the global advisory lock,   *)
(* ingests spooled attempts that never reached PostgreSQL, marks dead runs *)
(* abandoned and, if it will contact CSE, passes the block gate.  One      *)
(* attempt is: a durable journal intent, the request, the spool write, the *)
(* archive row.  A process may die between any two of these; its database  *)
(* session may die while the process lives on, which frees the lock.       *)
(*                                                                         *)
(* All runs are for one trading date and capture mode, the unit over which *)
(* record_missed looks for a clash.  Response bodies are abstracted to     *)
(* their classified outcome and, for tradeSummary, to whether its session  *)
(* evidence matches the trading date.                                      *)
(***************************************************************************)
EXTENDS Naturals, FiniteSets, FiniteSetsExt

CONSTANTS
    Procs,          \* operating-system processes that run P2 commands
    Runs,           \* run ids that may be created
    RunKinds,       \* the kinds of run an operator starts
    None,           \* "no run", "no key", "no lock holder"
    Absent,         \* universe securities absent from tradeSummary
    Sampled,        \* traded universe securities in the cross-check sample
    AttemptLimit,   \* attempts per request key and invocation
    MaxRequests,    \* CapturePolicy.max_requests
    BreakerLimit,   \* RequestPolicy.max_consecutive_failures
    MaxContacts,    \* bound: start and resume commands in a behaviour
    MaxCrash,       \* bound: process deaths
    MaxLoss,        \* bound: database sessions lost by a living process
    MaxSpoolFault   \* bound: failed writes to the spool

ASSUME CaptureConstants ==
    /\ RunKinds \subseteq {"market_capture", "metadata_sweep"}
    /\ None \notin Procs \cup Runs \cup Absent \cup Sampled
    /\ {"allSecurityCode", "tradeSummary"} \cap (Absent \cup Sampled) = {}
    /\ AttemptLimit \in Nat \ {0}
    /\ MaxRequests \in Nat
    /\ BreakerLimit \in Nat \ {0}
    /\ MaxContacts \in Nat
    /\ MaxCrash \in Nat
    /\ MaxLoss \in Nat
    /\ MaxSpoolFault \in Nat

-----------------------------------------------------------------------------
(* Types *)

Keys == {"allSecurityCode", "tradeSummary"} \cup Absent \cup Sampled

Commands == {"start", "resume", "reprocess", "recover", "record_missed"}

RunStates == {"none", "pending", "running", "succeeded", "partial", "failed",
              "blocked", "abandoned", "missed"}

(* "retryable" stands for server_error, network_error, timeout,            *)
(* empty_response, invalid_json and malformed_response; "final" for        *)
(* http_error, unexpected_redirect and too_large.                          *)
Outcomes == {"ok", "blocked", "rate_limited", "retryable", "final"}

RETRYABLE == {"rate_limited", "retryable"}

(* Mutant: a succeeded run may be resumed.                                 *)
BugRESUMABLE == {"succeeded", "partial", "failed", "abandoned", "blocked"}

RESUMABLE == {"partial", "failed", "abandoned", "blocked"}

(* What the spool record and the archive row of an attempt have in common  *)
(* for the rest of the system.                                             *)
Attempts == [seq : Nat, key : Keys, ok : BOOLEAN, match : BOOLEAN]

PCs == {"idle", "recover", "abandon", "gate", "running", "fetch", "send",
        "wait", "spool", "insert", "finish", "missed", "release"}

(* A process: its command, and the Requester and Archiver of that command. *)
(*   ok, seen  keys archived OK, and keys done with in this invocation     *)
(*   seq       Archiver._seq, None until _load_numbers has run             *)
(*   made      Requester.requests_made                                     *)
(*   fails     Requester.consecutive_failures                              *)
(*   stop      the exception that ended the fetch phase                    *)
Locals == [pc : PCs, cmd : Commands, run : Runs \cup {None},
           kind : RunKinds \cup {"missed_record", None},
           ok : SUBSET Keys, seen : SUBSET Keys, key : Keys \cup {None},
           try : Nat, made : Nat, fails : Nat, seq : Nat \cup {None},
           outcome : Outcomes, match : BOOLEAN,
           stop : {"no", "stopped", "blocked"}]

VARIABLES
    lock,        \* holder of the advisory lock, None when free
    lost,        \* living processes whose database session is gone
    kind,        \* [Runs -> run_kind, or "missed_record", or None]
    runState,    \* [Runs -> latest event of market_capture_run_events]
    acked,       \* runs with a block acknowledgement
    journal,     \* [Runs -> highest sequence number among journal intents]
    spooled,     \* [Runs -> attempts with a "spooled" journal line]
    archive,     \* [Runs -> rows of market_source_responses]
    proc,        \* [Procs -> Locals]
    bounds       \* what is left of MaxContacts, MaxCrash, MaxLoss, ...

vars == <<lock, lost, kind, runState, acked, journal, spooled, archive, proc,
          bounds>>

store == <<kind, runState, acked, journal, spooled, archive>>

IdleProcess ==
    [pc |-> "idle", cmd |-> "recover", run |-> None, kind |-> None,
     ok |-> {}, seen |-> {}, key |-> None, try |-> 0, made |-> 0, fails |-> 0,
     seq |-> None, outcome |-> "final", match |-> FALSE, stop |-> "no"]

Init ==
    /\ lock = None
    /\ lost = {}
    /\ kind = [r \in Runs |-> None]
    /\ runState = [r \in Runs |-> "none"]
    /\ acked = {}
    /\ journal = [r \in Runs |-> 0]
    /\ spooled = [r \in Runs |-> {}]
    /\ archive = [r \in Runs |-> {}]
    /\ proc = [p \in Procs |-> IdleProcess]
    /\ bounds = [contacts |-> MaxContacts, crashes |-> MaxCrash,
                 losses |-> MaxLoss, faults |-> MaxSpoolFault]

-----------------------------------------------------------------------------
(* What the archive shows of a run (derive.ok_attempts, session_evidence,  *)
(* completeness.summarize).                                                *)

OkKeys(rows) == {a.key : a \in {b \in rows : b.ok}}

SequenceNumbers(rows) == {a.seq : a \in rows}

(* E1: the archived tradeSummary shows the run's own trading date.         *)
SessionMatches(rows) ==
    \E a \in rows : a.ok /\ a.key = "tradeSummary" /\ a.match

(* A and E1: what a derivation pass needs.                                 *)
Derivable(r) == kind[r] = "market_capture" /\ SessionMatches(archive[r])

(* The requests a run still has to make, in plan order.  Which security of *)
(* a group comes first is left open.                                       *)
SweepPlan(l) == (Absent \cup Sampled) \ l.seen

CapturePlan(l) ==
    IF ~SessionMatches(archive[l.run]) \/ "allSecurityCode" \notin l.ok THEN {}
    ELSE IF Absent \ l.seen # {} THEN Absent \ l.seen
    ELSE Sampled \ l.seen

NextKeys(l) ==
    IF "allSecurityCode" \notin l.seen THEN {"allSecurityCode"}
    ELSE IF l.kind = "metadata_sweep"
      THEN IF "allSecurityCode" \in l.ok THEN SweepPlan(l) ELSE {}
    ELSE IF "tradeSummary" \notin l.seen THEN {"tradeSummary"}
    ELSE CapturePlan(l)

(* on conflict (run_id, sequence_no) do nothing                            *)
InsertAttempt(rows, a) ==
    IF a.seq \in SequenceNumbers(rows) THEN rows ELSE rows \cup {a}

(* C is complete: every absent security has its own archived response and  *)
(* every expected security was derived (produced).                         *)
CaptureComplete(rows) ==
    /\ SessionMatches(rows)
    /\ {"allSecurityCode", "tradeSummary"} \cup Absent \subseteq OkKeys(rows)

SweepArchived(rows) == OkKeys(rows) \cap (Absent \cup Sampled)

(* Mutant: completeness ignores the absent securities.                     *)
BugAbsentIgnored(r, stop, produced) ==
    IF SessionMatches(archive[r]) /\ stop = "no" THEN "succeeded" ELSE "failed"

DecideState(r, stop, produced) ==
    LET rows == archive[r]
        state ==
          IF kind[r] = "metadata_sweep"
          THEN CASE "allSecurityCode" \notin OkKeys(rows) -> "failed"
                 [] SweepArchived(rows) = Absent \cup Sampled -> "succeeded"
                 [] SweepArchived(rows) = {} -> "failed"
                 [] OTHER -> "partial"
          ELSE CASE ~SessionMatches(rows) -> "failed"
                 [] CaptureComplete(rows) /\ produced -> "succeeded"
                 [] OTHER -> "partial"
    IN  CASE stop = "blocked" -> "blocked"
          [] stop = "stopped" /\ state = "succeeded" -> "partial"
          [] OTHER -> state

UnacknowledgedBlocks == {r \in Runs : runState[r] = "blocked"} \ acked

-----------------------------------------------------------------------------
(* Process steps *)

At(p, pc) == proc[p].pc = pc

(* A statement on the database session succeeds.                           *)
Connected(p) == p \notin lost

Goto(p, pc) == proc' = [proc EXCEPT ![p].pc = pc]

(* Mutant: the result of pg_try_advisory_lock is not looked at.            *)
BugLockFree == TRUE

(* pg_try_advisory_lock                                                    *)
LockFree == lock = None

(* An operator or the scheduler runs a command.  resume refuses a missed   *)
(* record before it takes the lock; a held lock refuses the command.       *)
Begin(p, cmd, r) ==
    /\ At(p, "idle")
    /\ LockFree
    /\ cmd = "recover" <=> r = None
    /\ cmd \in {"resume", "reprocess"} => runState[r] # "none"
    /\ cmd = "resume" => kind[r] # "missed_record"
    /\ cmd \in {"start", "record_missed"} => runState[r] = "none"
    /\ cmd \in {"start", "resume"} => bounds.contacts > 0
    /\ \E k \in IF cmd = "start" THEN RunKinds ELSE {None} :
         proc' = [proc EXCEPT ![p] =
                    [IdleProcess EXCEPT !.pc = "recover", !.cmd = cmd,
                                        !.run = r, !.kind = k]]
    /\ lock' = p
    /\ bounds' = IF cmd \in {"start", "resume"}
                 THEN [bounds EXCEPT !.contacts = @ - 1] ELSE bounds
    /\ UNCHANGED <<lost, store>>

(* Mutant: recover finds nothing to ingest.                                *)
BugMissing(r) == {}

(* archive.recover: one spooled attempt whose sequence number has no row.  *)
Missing(r) == {a \in spooled[r] : a.seq \notin SequenceNumbers(archive[r])}

RecoverAttempt(p, r) ==
    /\ At(p, "recover") /\ Connected(p)
    /\ \E a \in Missing(r) :
         archive' = [archive EXCEPT ![r] = InsertAttempt(@, a)]
    /\ UNCHANGED <<lock, lost, kind, runState, acked, journal, spooled, proc,
                   bounds>>

RecoverDone(p) ==
    /\ At(p, "recover") /\ Connected(p)
    /\ \A r \in Runs : Missing(r) = {}
    /\ Goto(p, "abandon")
    /\ UNCHANGED <<lock, lost, store, bounds>>

(* Mutant: only sweeps are looked for.                                     *)
BugDeadRuns == {r \in Runs : runState[r] = "running"
                             /\ kind[r] = "metadata_sweep"}

(* runs.mark_abandoned: a run still 'running' under the lock has no        *)
(* process; each gets its own committed event.                             *)
DeadRuns == {r \in Runs : runState[r] = "running"}

MarkAbandoned(p, r) ==
    /\ At(p, "abandon") /\ Connected(p)
    /\ r \in DeadRuns
    /\ runState' = [runState EXCEPT ![r] = "abandoned"]
    /\ UNCHANGED <<lock, lost, kind, acked, journal, spooled, archive, proc,
                   bounds>>

MarkAbandonedDone(p) ==
    /\ At(p, "abandon") /\ Connected(p)
    /\ DeadRuns = {}
    /\ Goto(p, IF proc[p].cmd = "recover" THEN "release" ELSE "gate")
    /\ UNCHANGED <<lock, lost, store, bounds>>

(* What stands against a missed record of the date.                        *)
Clash == \E r \in Runs : /\ kind[r] \in {"market_capture", "missed_record"}
                         /\ runState[r] \in {"running", "succeeded", "partial"}

(* Mutant: the block gate is left out.                                     *)
BugAdmitted(l) ==
    CASE l.cmd = "start" -> TRUE
      [] l.cmd = "resume" -> runState[l.run] \in RESUMABLE
      [] l.cmd = "reprocess" ->
           /\ runState[l.run] \notin {"pending", "running", "missed"}
           /\ Derivable(l.run)
      [] OTHER -> ~Clash

(* The refusals (RunRefused): the block gate and each command's own check. *)
Admitted(l) ==
    CASE l.cmd = "start" -> UnacknowledgedBlocks = {}
      [] l.cmd = "resume" -> /\ UnacknowledgedBlocks = {}
                             /\ runState[l.run] \in RESUMABLE
      [] l.cmd = "reprocess" ->
           /\ runState[l.run] \notin {"pending", "running", "missed"}
           /\ Derivable(l.run)
      [] OTHER -> ~Clash

Refuse(p) ==
    /\ At(p, "gate") /\ Connected(p)
    /\ ~Admitted(proc[p])
    /\ Goto(p, "release")
    /\ UNCHANGED <<lock, lost, store, bounds>>

(* The spool is not a writable directory: no request is made.              *)
SpoolGateRefuses(p) ==
    /\ At(p, "gate") /\ Connected(p)
    /\ proc[p].cmd \in {"start", "resume"}
    /\ bounds.faults > 0
    /\ bounds' = [bounds EXCEPT !.faults = @ - 1]
    /\ Goto(p, "release")
    /\ UNCHANGED <<lock, lost, store>>

(* runs.create_run: the run row and its 'pending' event, one transaction.  *)
CreateRun(p) ==
    LET l == proc[p] IN
    /\ At(p, "gate") /\ Connected(p)
    /\ l.cmd \in {"start", "record_missed"} /\ Admitted(l)
    /\ runState[l.run] = "none"
    /\ runState' = [runState EXCEPT ![l.run] = "pending"]
    /\ kind' = [kind EXCEPT ![l.run] =
                  IF l.cmd = "start" THEN l.kind ELSE "missed_record"]
    /\ Goto(p, IF l.cmd = "start" THEN "running" ELSE "missed")
    /\ UNCHANGED <<lock, lost, acked, journal, spooled, archive,
                   bounds>>

RecordMissed(p) ==
    /\ At(p, "missed") /\ Connected(p)
    /\ runState' = [runState EXCEPT ![proc[p].run] = "missed"]
    /\ Goto(p, "release")
    /\ UNCHANGED <<lock, lost, kind, acked, journal, spooled, archive,
                   bounds>>

(* start's second event, or resume's only one; _execute then reads what    *)
(* the run already has.                                                    *)
EnterFetch(p) ==
    LET l == proc[p]
        done == OkKeys(archive[l.run]) IN
    /\ Connected(p)
    /\ \/ At(p, "running")
       \/ At(p, "gate") /\ l.cmd = "resume" /\ Admitted(l)
    /\ runState' = [runState EXCEPT ![l.run] = "running"]
    /\ proc' = [proc EXCEPT ![p] = [l EXCEPT !.pc = "fetch",
                  !.kind = kind[l.run], !.ok = done, !.seen = done]]
    /\ UNCHANGED <<lock, lost, kind, acked, journal, spooled, archive,
                   bounds>>

(* reprocess: a running event only for partial, failed, abandoned runs.  A *)
(* succeeded or blocked run keeps its state.                               *)
EnterReprocess(p) ==
    LET l == proc[p]
        events == runState[l.run] \in {"partial", "failed", "abandoned"} IN
    /\ At(p, "gate") /\ Connected(p)
    /\ l.cmd = "reprocess" /\ Admitted(l)
    /\ runState' = IF events THEN [runState EXCEPT ![l.run] = "running"]
                   ELSE runState
    /\ Goto(p, IF events THEN "finish" ELSE "release")
    /\ UNCHANGED <<lock, lost, kind, acked, journal, spooled, archive,
                   bounds>>

-----------------------------------------------------------------------------
(* The fetch phase: Requester.fetch and Requester._attempt *)

StopFetch(p, why) ==
    proc' = [proc EXCEPT ![p] = [@ EXCEPT !.pc = "finish", !.stop = why]]

(* Mutant: a resumed run numbers its attempts from 1 again.                *)
BugLoadedSeq(l) == IF l.seq # None THEN l.seq ELSE 0

(* The sequence number intent() will use: _load_numbers reads the archive  *)
(* and the journal once per invocation.                                    *)
LoadedSeq(l) ==
    IF l.seq # None THEN l.seq
    ELSE Max({journal[l.run]} \cup SequenceNumbers(archive[l.run]))

(* A process without its session gets no further than the next database    *)
(* statement: the first _load_numbers, or reading a body it just archived. *)
LocalOnly(l) == l.seq # None /\ l.fails > 0

Intent(p, k) ==
    LET l == proc[p]
        seq == LoadedSeq(l) + 1 IN
    /\ At(p, "fetch")
    /\ Connected(p) \/ LocalOnly(l)
    /\ IF l.key = None THEN k \in NextKeys(l) ELSE k = l.key
    /\ l.made < MaxRequests
    /\ journal' = [journal EXCEPT ![l.run] = Max({@, seq})]
    /\ proc' = [proc EXCEPT ![p] = [l EXCEPT !.pc = "send", !.key = k,
                  !.seq = seq, !.try = @ + 1]]
    /\ UNCHANGED <<lock, lost, kind, runState, acked, spooled, archive,
                   bounds>>

(* BudgetExhausted, before anything else of the attempt.                   *)
OutOfBudget(p) ==
    LET l == proc[p] IN
    /\ At(p, "fetch")
    /\ l.key # None \/ NextKeys(l) # {}
    /\ l.made >= MaxRequests
    /\ StopFetch(p, "stopped")
    /\ UNCHANGED <<lock, lost, store, bounds>>

(* The journal is not writable: SpoolUnavailable, no request was sent.     *)
IntentFails(p) ==
    LET l == proc[p] IN
    /\ At(p, "fetch")
    /\ Connected(p) \/ LocalOnly(l)
    /\ l.key # None \/ NextKeys(l) # {}
    /\ l.made < MaxRequests
    /\ bounds.faults > 0
    /\ bounds' = [bounds EXCEPT !.faults = @ - 1]
    /\ StopFetch(p, "stopped")
    /\ UNCHANGED <<lock, lost, store>>

Send(p) ==
    /\ At(p, "send")
    /\ Goto(p, "wait")
    /\ UNCHANGED <<lock, lost, store, bounds>>

(* The response, or the transport's failure, and classify().               *)
Reply(p, outcome, match) ==
    LET l == proc[p] IN
    /\ At(p, "wait")
    /\ match => outcome = "ok" /\ l.key = "tradeSummary"
    /\ proc' = [proc EXCEPT ![p] = [l EXCEPT !.pc = "spool", !.made = @ + 1,
                  !.outcome = outcome, !.match = match]]
    /\ UNCHANGED <<lock, lost, store, bounds>>

AttemptOf(l) == [seq |-> l.seq, key |-> l.key, ok |-> l.outcome = "ok",
                 match |-> l.match]

(* Blob, record and "spooled" journal line; nothing counts before the line.*)
Spool(p) ==
    LET l == proc[p] IN
    /\ At(p, "spool")
    /\ spooled' = [spooled EXCEPT ![l.run] = @ \cup {AttemptOf(l)}]
    /\ Goto(p, "insert")
    /\ UNCHANGED <<lock, lost, kind, runState, acked, journal, archive,
                   bounds>>

(* _spool_failure: a row that says the response was not kept, if the       *)
(* session is alive; SpoolUnavailable ends the fetch phase.                *)
SpoolFails(p) ==
    LET l == proc[p]
        row == [AttemptOf(l) EXCEPT !.ok = FALSE, !.match = FALSE] IN
    /\ At(p, "spool")
    /\ bounds.faults > 0
    /\ bounds' = [bounds EXCEPT !.faults = @ - 1]
    /\ archive' = IF Connected(p)
                  THEN [archive EXCEPT ![l.run] = InsertAttempt(@, row)]
                  ELSE archive
    /\ StopFetch(p, "stopped")
    /\ UNCHANGED <<lock, lost, kind, runState, acked, journal, spooled>>

(* What fetch() does with an archived attempt, in the order of its four    *)
(* rules.  "long" is a Retry-After above retry_after_max_seconds.          *)
LastTry(l) == l.try >= AttemptLimit

Breaks(l) == l.fails >= BreakerLimit

StopReason(l, long) ==
    CASE l.outcome = "ok" -> "no"
      [] l.outcome = "blocked" -> "blocked"
      [] l.outcome = "rate_limited" /\ (long \/ LastTry(l) \/ Breaks(l)) ->
           "blocked"
      [] Breaks(l) -> "stopped"
      [] OTHER -> "no"

GivesUp(l) == l.outcome \notin RETRYABLE \/ LastTry(l)

Counted(l) == [l EXCEPT !.fails = IF l.outcome = "ok" THEN 0 ELSE @ + 1]

AfterAttempt(l, long) ==
    LET why == StopReason(l, long) IN
    IF why # "no" THEN [l EXCEPT !.pc = "finish", !.stop = why]
    ELSE IF l.outcome = "ok"
      THEN [l EXCEPT !.pc = "fetch", !.key = None, !.try = 0,
                     !.ok = @ \cup {l.key}, !.seen = @ \cup {l.key}]
    ELSE IF GivesUp(l)
      THEN [l EXCEPT !.pc = "fetch", !.key = None, !.try = 0,
                     !.seen = @ \cup {l.key}]
    ELSE [l EXCEPT !.pc = "fetch"]

Archive(p, long) ==
    LET l == proc[p] IN
    /\ At(p, "insert") /\ Connected(p)
    /\ long => l.outcome = "rate_limited"
    /\ archive' = [archive EXCEPT ![l.run] = InsertAttempt(@, AttemptOf(l))]
    /\ proc' = [proc EXCEPT ![p] = AfterAttempt(Counted(l), long)]
    /\ UNCHANGED <<lock, lost, kind, runState, acked, journal, spooled,
                   bounds>>

FetchDone(p) ==
    LET l == proc[p] IN
    /\ At(p, "fetch")
    /\ l.key = None /\ NextKeys(l) = {}
    /\ Goto(p, "finish")
    /\ UNCHANGED <<lock, lost, store, bounds>>

(* summarize, derive_run, summarize, decide_state, append_event.           *)
RecordState(p, produced) ==
    LET l == proc[p]
        state == DecideState(l.run, l.stop, produced) IN
    /\ At(p, "finish") /\ Connected(p)
    /\ runState' = [runState EXCEPT ![l.run] = state]
    /\ Goto(p, "release")
    /\ UNCHANGED <<lock, lost, kind, acked, journal, spooled, archive,
                   bounds>>

Release(p) ==
    /\ At(p, "release") /\ Connected(p)
    /\ lock' = None
    /\ proc' = [proc EXCEPT ![p] = IdleProcess]
    /\ UNCHANGED <<lost, store, bounds>>

-----------------------------------------------------------------------------
(* The owner, and failures *)

(* acknowledge-block, on the owner's own session: one row per run, only    *)
(* while the run is blocked.                                               *)
AcknowledgeBlock(r) ==
    /\ runState[r] = "blocked"
    /\ r \notin acked
    /\ acked' = acked \cup {r}
    /\ UNCHANGED <<lock, lost, kind, runState, journal, spooled, archive, proc,
                   bounds>>

(* The process is killed: the server drops its session and lock.           *)
Crash(p) ==
    /\ ~At(p, "idle")
    /\ bounds.crashes > 0
    /\ bounds' = [bounds EXCEPT !.crashes = @ - 1]
    /\ lock' = IF lock = p THEN None ELSE lock
    /\ lost' = lost \ {p}
    /\ proc' = [proc EXCEPT ![p] = IdleProcess]
    /\ UNCHANGED <<store>>

(* The database session ends (PostgreSQL restarts, the connection drops)   *)
(* while the process lives.                                                *)
LoseSession(p) ==
    /\ ~At(p, "idle") /\ Connected(p)
    /\ bounds.losses > 0
    /\ bounds' = [bounds EXCEPT !.losses = @ - 1]
    /\ lock' = IF lock = p THEN None ELSE lock
    /\ lost' = lost \cup {p}
    /\ UNCHANGED <<store, proc>>

(* The next database statement raises and the command exits.               *)
Abort(p) ==
    /\ p \in lost
    /\ proc[p].pc \notin {"send", "wait", "spool"}
    /\ lost' = lost \ {p}
    /\ proc' = [proc EXCEPT ![p] = IdleProcess]
    /\ UNCHANGED <<lock, store, bounds>>

-----------------------------------------------------------------------------
Step(p) ==
    \/ \E r \in Runs : RecoverAttempt(p, r) \/ MarkAbandoned(p, r)
    \/ RecoverDone(p) \/ MarkAbandonedDone(p)
    \/ Refuse(p) \/ CreateRun(p) \/ RecordMissed(p)
    \/ EnterFetch(p) \/ EnterReprocess(p)
    \/ \E k \in Keys : Intent(p, k)
    \/ OutOfBudget(p) \/ Send(p) \/ Spool(p)
    \/ \E o \in Outcomes, m \in BOOLEAN : Reply(p, o, m)
    \/ \E long \in BOOLEAN : Archive(p, long)
    \/ FetchDone(p) \/ Release(p)
    \/ \E produced \in BOOLEAN : RecordState(p, produced)
    \/ Abort(p)

Fault(p) ==
    \/ Crash(p) \/ LoseSession(p)
    \/ SpoolGateRefuses(p) \/ IntentFails(p) \/ SpoolFails(p)

Next ==
    \/ \E p \in Procs :
         \/ \E cmd \in Commands, r \in Runs \cup {None} : Begin(p, cmd, r)
         \/ Step(p)
         \/ Fault(p)
    \/ \E r \in Runs : AcknowledgeBlock(r)

Spec == Init /\ [][Next]_vars

(* A live process keeps running; CSE answers or the transport times out;   *)
(* the hourly timer keeps issuing commands that begin with recover.        *)
Fairness ==
    /\ \A p \in Procs : WF_vars(Step(p))
    /\ WF_vars(\E p \in Procs : Begin(p, "recover", None))

FairSpec == Spec /\ Fairness

-----------------------------------------------------------------------------
(* Properties *)

TypeOK ==
    /\ lock \in Procs \cup {None}
    /\ lost \in SUBSET Procs
    /\ kind \in [Runs -> RunKinds \cup {"missed_record", None}]
    /\ runState \in [Runs -> RunStates]
    /\ acked \in SUBSET Runs
    /\ journal \in [Runs -> Nat]
    /\ spooled \in [Runs -> SUBSET Attempts]
    /\ archive \in [Runs -> SUBSET Attempts]
    /\ proc \in [Procs -> Locals]
    /\ bounds \in [contacts : Nat, crashes : Nat, losses : Nat, faults : Nat]

InFlight(p) == proc[p].pc = "wait"

(* Past archive.recover and mark_abandoned, with its session alive.        *)
Working(p) ==
    Connected(p) /\ proc[p].pc \notin {"idle", "recover", "abandon"}

(* Two requests are outstanding at once only if the database session of    *)
(* one of the two processes has died under it: the advisory lock of        *)
(* _locked keeps every connected process alone.                            *)
OneLiveRequest ==
    \A p, q \in Procs :
      InFlight(p) /\ InFlight(q) /\ p # q => p \in lost \/ q \in lost

(* _fetch_phase: "responses already archived OK are never re-requested",   *)
(* whatever crash came between the spool write and the archive row.        *)
NoRepeatedRequest ==
    \A p \in Procs : InFlight(p) =>
      proc[p].key \notin OkKeys(spooled[proc[p].run] \cup archive[proc[p].run])

(* Archiver.intent: one sequence number names one attempt of the run, in   *)
(* the spool and in the archive, so that recover's comparison by sequence  *)
(* number cannot drop a response.                                          *)
SequenceNamesAttempt ==
    \A r \in Runs : \A a, b \in spooled[r] \cup archive[r] :
      a.seq = b.seq => a = b

(* mark_abandoned: under the lock a 'running' run is the caller's own.     *)
RunningIsOwned ==
    \A p \in Procs, r \in Runs :
      Working(p) /\ runState[r] = "running" => proc[p].run = r

(* decide_state: a succeeded run has every required response archived and  *)
(* a tradeSummary of its own trading date.                                 *)
SucceededIsComplete ==
    \A r \in Runs : runState[r] = "succeeded" =>
      IF kind[r] = "metadata_sweep"
      THEN Absent \cup Sampled \subseteq OkKeys(archive[r])
      ELSE CaptureComplete(archive[r])

(* The block gate: no request while some run is blocked and the owner has  *)
(* not acknowledged that run.                                              *)
GateHolds ==
    \A p \in Procs : InFlight(p) /\ Connected(p) => UnacknowledgedBlocks = {}

(* The state machine of the migration's trigger.  Every event the code     *)
(* appends is one the trigger accepts.                                     *)
LegalTransition(from, to, r) ==
    \/ from = "none" /\ to = "pending"
    \/ from = "pending" /\ to \in {"running", "missed"}
    \/ from = "running"
       /\ to \in {"succeeded", "partial", "failed", "blocked", "abandoned"}
    \/ from \in {"partial", "failed", "abandoned"} /\ to = "running"
    \/ from = "blocked" /\ to = "running" /\ r \in acked

TriggerNeverRaises ==
    [][\A r \in Runs : runState'[r] # runState[r] =>
         LegalTransition(runState[r], runState'[r], r)]_vars

(* Every spooled sequence number gets its archive row, by the process that *)
(* spooled it or by the next command's recover, which compares sequence    *)
(* numbers (SequenceNamesAttempt says when a number names one response).   *)
SpoolReachesArchive ==
    \A r \in Runs, n \in 1..(MaxContacts * MaxRequests) :
      n \in SequenceNumbers(spooled[r]) ~> n \in SequenceNumbers(archive[r])

(* No run stays 'running' for ever, whatever happens to its process.       *)
RunningEnds ==
    \A r \in Runs : runState[r] = "running" ~> runState[r] # "running"

(* The run ledger, as P3 and the owner read it.                            *)
Ledger ==
    INSTANCE CaptureLedger WITH
        Dates <- {1},
        ledger <- [r \in Runs |->
                     [state |-> runState[r], kind |-> kind[r],
                      date |-> IF runState[r] = "none" THEN 0 ELSE 1,
                      shown |-> SessionMatches(archive[r]),
                      acked |-> r \in acked]]

(* The commands keep what the run ledger promises, whatever crashes, loses *)
(* its session or is recovered from the spool in between.                  *)
ImplementsCaptureLedger == Ledger!Spec
=============================================================================
