------------------------------ MODULE Scheduler ------------------------------
(***************************************************************************)
(* The P3 scheduler (worker/scheduler): wake-ups of the hourly timer and   *)
(* operator commands that bring one work item per trading date from        *)
(* 'pending' to a closed state, on top of the P2 capture commands.         *)
(*                                                                         *)
(* A wake-up reads the clock, takes P2's global capture lock, records a    *)
(* lease, recovers, discovers items, reconciles every open item with what  *)
(* P2's runs prove (oldest date first), then makes at most one capture     *)
(* action.  Each committed statement is one step: a process may die        *)
(* between any two of them, and declarations, owner decisions and waiting  *)
(* wake-ups interleave with it.                                            *)
(*                                                                         *)
(* A P2 run is summarised by its state, by the session its archived        *)
(* tradeSummary shows and by the number of requests it still lacks; module *)
(* MarketCapture has the detail.  Times are ticks of the Colombo clock.    *)
(***************************************************************************)
EXTENDS Naturals, Sequences, FiniteSets, FiniteSetsExt

CONSTANTS
    Procs,          \* scheduler, P2 and operator processes
    None,           \* no lock holder
    LastDay,        \* bound: trading dates are 1..LastDay
    Weekdays,       \* the dates that fall on Monday to Friday
    Sessions,       \* the dates on which the market trades
    DayLength,      \* ticks per day
    DueTick,        \* earliest_start_local
    CloseTick,      \* window_close_local
    RetryBase,      \* retry_base_minutes, in ticks
    RetryMax,       \* retry_max_minutes, in ticks
    MaxAttempts,    \* max_attempts
    HardMaxAttempts, \* OPERATOR_HARD_MAX_ATTEMPTS
    Confirmations,  \* no_session_confirmations
    MaxCatchUp,     \* max_catch_up_days
    DailyBudget,    \* daily_request_budget
    MinStart,       \* MIN_START_REQUESTS
    RunCap,         \* P2_RUN_REQUEST_CAP
    Others,         \* requests of a run besides tradeSummary
    MaxRuns,        \* bound: P2 runs
    MaxManual,      \* bound: manual P2, operator and owner commands
    MaxTrouble,     \* bound: process deaths, and refusals for host, clock,
                    \* spool directory or User-Agent
    CrashPoints     \* the control points at which a process may die

Dates == 1..LastDay

PCs == {"idle", "ready", "recover", "discover", "sync", "decide",
        "missed_event", "missed_item", "reprocess", "rederive", "resettle",
        "reprocessed", "open", "capture", "p2", "begun", "fetch", "derive",
        "settle", "outcome", "finish"}

ASSUME ScheduleConstants ==
    /\ None \notin Procs
    /\ LastDay \in Nat \ {0}
    /\ Weekdays \subseteq Dates /\ Sessions \subseteq Dates
    /\ DayLength \in Nat /\ DueTick \in Nat /\ CloseTick \in Nat
    /\ 0 < DueTick /\ DueTick < CloseTick /\ CloseTick <= DayLength
    /\ RetryBase \in Nat /\ RetryMax \in Nat /\ RetryBase <= RetryMax
    /\ MaxAttempts \in Nat \ {0}
    /\ HardMaxAttempts \in Nat /\ MaxAttempts <= HardMaxAttempts
    /\ Confirmations \in Nat \ {0}
    /\ MaxCatchUp \in Nat \ {0}
    /\ DailyBudget \in Nat
    /\ MinStart \in Nat \ {0} /\ RunCap \in Nat \ {0}
    /\ Others \in Nat /\ MaxRuns \in Nat
    /\ MaxManual \in Nat /\ MaxTrouble \in Nat
    /\ CrashPoints \subseteq PCs \ {"idle", "ready"}

EndTime == LastDay * DayLength      \* the last window has closed

RunStates == {"pending", "running", "succeeded", "partial", "failed",
              "blocked", "abandoned", "missed"}

ItemStates == {"none", "not_applicable"} \cup RunStates

FINAL_STATES == {"succeeded", "missed", "not_applicable"}

RESUMABLE == {"partial", "failed", "abandoned", "blocked"}

CAPTURE_ACTIONS == {"start", "resume"}

(* A P2 run.  snap: the session its archived tradeSummary shows ("none"    *)
(* when there is none; no rows count as "earlier").  e1: the database shows *)
(* that the session is the run's own (derived observations, or the         *)
(* evidence of a run event).  left: requests it still lacks.               *)
RunType == [date : Dates, manual : BOOLEAN, missed : BOOLEAN,
            state : RunStates, snap : {"none", "own", "earlier", "later"},
            e1 : BOOLEAN, left : 0..Others, cap : 0..RunCap, acked : BOOLEAN]

(* A work item: its latest event (state, action, run), and what its        *)
(* history says of capture actions (how many, and the time of the latest). *)
ItemType == [state : ItemStates, action : {"create", "start", "resume",
             "observe", "reprocess", "finalize", "record_missed", "refused"},
             run : 0..MaxRuns, origin : {"discovered", "operator"},
             tries : Nat, at : 0..EndTime]

(* A process.  now, only, confirm: the arguments of wake; armed: the       *)
(* settings read under the lock, until recovery is over; gate: blocks      *)
(* seen; todo: open items to reconcile; date, action, run: the first       *)
(* capture candidate; sub: the run a P2 command works on; again:           *)
(* reconciling after the capture; done: run() came to its end.             *)
Locals == [pc : PCs, job : {"wake", "manual", "reprocess"}, now : 0..EndTime,
           only : 0..LastDay, confirm : BOOLEAN, armed : BOOLEAN,
           gate : BOOLEAN,
           todo : SUBSET Dates, date : 0..LastDay,
           action : {"none"} \cup CAPTURE_ACTIONS, run : 0..MaxRuns,
           sub : 0..MaxRuns, blocked : BOOLEAN,
           again : BOOLEAN, done : BOOLEAN]

VARIABLES
    clock,      \* the wall clock, in ticks
    lock,       \* holder of P2's global advisory lock
    armed,      \* the owner's latest decision
    runs,       \* P2's run ledger, in creation order
    item,       \* [Dates -> ItemType]
    calendar,   \* [Dates -> trading_calendar.market_status]
    declaring,  \* dates a declare-closed has checked and not yet inserted
    used,       \* [1..LastDay + 1 -> requests archived that Colombo day]
    lease,      \* [Procs -> the lease row of the process: active, or closed
                \*  because it was released or expired or never written]
    proc,       \* [Procs -> Locals]
    bounds      \* what is left of MaxManual and MaxTrouble

vars == <<clock, lock, armed, runs, item, calendar, declaring, used, lease,
          proc, bounds>>

IdleProcess ==
    [pc |-> "idle", job |-> "manual", now |-> 0, only |-> 0, confirm |-> FALSE,
     armed |-> FALSE, gate |-> FALSE, todo |-> {}, date |-> 0, action |-> "none", run |-> 0,
     sub |-> 0, blocked |-> FALSE, again |-> FALSE, done |-> FALSE]

Init ==
    /\ clock = 0
    /\ lock = None
    /\ armed = TRUE
    /\ runs = <<>>
    /\ item = [d \in Dates |-> [state |-> "none", action |-> "create",
                 run |-> 0, origin |-> "discovered", tries |-> 0, at |-> 0]]
    /\ calendar = [d \in Dates |-> "unknown"]
    /\ declaring = {}
    /\ used = [d \in 1..(LastDay + 1) |-> 0]
    /\ lease = [p \in Procs |-> "closed"]
    /\ proc = [p \in Procs |-> IdleProcess]
    /\ bounds = [manual |-> MaxManual, trouble |-> MaxTrouble]

-----------------------------------------------------------------------------
(* schedule.py: Colombo dates, windows, back-off                           *)

ColomboDate(t) == (t \div DayLength) + 1

DueAt(d) == (d - 1) * DayLength + DueTick

(* Mutant: the window of a date closes on the next date.                   *)
BugWindowClosesAt(d) == d * DayLength + CloseTick

WindowClosesAt(d) == (d - 1) * DayLength + CloseTick

(* base * 2^(n-1), capped; n is the number of the capture action.          *)
RetryDelay(n) ==
    Min({RetryBase * 2 ^ (IF n = 0 THEN 0 ELSE n - 1), RetryMax})

CandidateDates(today) == {d \in Weekdays : d <= today}

-----------------------------------------------------------------------------
(* planner.evidence: what the runs of a date prove, strongest first        *)

RunsFor(d) == {r \in DOMAIN runs : runs[r].date = d}

(* Mutant: a run that died proves nothing.                                 *)
BugCaptured(d) == {r \in RunsFor(d) : /\ runs[r].snap = "own"
                                       /\ runs[r].state # "abandoned"}

Captured(d) == {r \in RunsFor(d) : runs[r].snap = "own"}

NoSession(d) == {r \in RunsFor(d) : runs[r].snap = "earlier"}

Anomaly(d) == {r \in RunsFor(d) : runs[r].snap = "later"}

(* Mutant: the latest run decides, whatever earlier runs archived.         *)
BugEvidence(d) ==
    IF RunsFor(d) = {} THEN [state |-> "pending", run |-> 0, resumable |-> FALSE]
    ELSE LET r == Max(RunsFor(d))
         IN [state |-> runs[r].state, run |-> r,
             resumable |-> runs[r].state \in RESUMABLE]

(* state, the run it comes from (0: none), and whether to resume that run. *)
(* A missed record is believed without a look at its own state.            *)
Evidence(d) ==
    LET rs == RunsFor(d)
        succeeded == {r \in rs : runs[r].state = "succeeded"}
        missed == {r \in rs : runs[r].missed}
        Follow(r, fresh) ==
          [state |-> runs[r].state, run |-> r,
           resumable |-> runs[r].state \in RESUMABLE /\ ~fresh]
    IN  CASE succeeded # {} -> Follow(Max(succeeded), TRUE)
          [] succeeded = {} /\ Captured(d) # {} ->
               Follow(Max(Captured(d)), FALSE)
          [] succeeded \cup Captured(d) = {} /\ missed # {} ->
               [state |-> "missed", run |-> Max(missed), resumable |-> FALSE]
          [] succeeded \cup Captured(d) \cup missed = {} /\ rs # {} ->
               Follow(Max(rs), Max(rs) \in NoSession(d) \cup Anomaly(d))
          [] OTHER -> [state |-> "pending", run |-> 0, resumable |-> FALSE]

BackingOff(it, now, ignore) ==
    it.tries > 0 /\ ~ignore /\ now < it.at + RetryDelay(it.tries)

(* planner.decide: the one thing to do about open item d at time now.      *)
(* ignore: an operator's retry, which skips the back-off and has its own   *)
(* attempt limit.                                                          *)
Decide(d, now, gate, ignore) ==
    LET ev == Evidence(d)
        it == item[d]
        captured == Captured(d) # {}
        closed == now >= WindowClosesAt(d)
        limit == IF ignore THEN HardMaxAttempts ELSE MaxAttempts
        Dec(kind, run) == [kind |-> kind, action |-> "none", run |-> run]
    IN  IF ev.state = "succeeded" THEN Dec("wait", 0)
        ELSE IF /\ calendar[d] = "closed" /\ it.origin # "operator"
                /\ ~captured
          THEN Dec("not_applicable", 0)
        ELSE IF ~captured /\ Cardinality(NoSession(d)) >= Confirmations
          THEN Dec("not_applicable", Max(NoSession(d)))
        ELSE IF closed /\ captured
          THEN Dec(IF ev.state \in {"abandoned", "failed"}
                   THEN "reprocess" ELSE "finalize", ev.run)
        ELSE IF closed
          THEN Dec(IF ev.state = "missed" THEN "wait" ELSE "record_missed", 0)
        ELSE IF \/ now < DueAt(d)
                \/ Anomaly(d) # {} /\ ~captured
                \/ ev.state = "blocked" /\ gate
                \/ it.tries >= limit
                \/ BackingOff(it, now, ignore)
          THEN Dec("wait", 0)
        ELSE [kind |-> "capture",
              action |-> IF ev.resumable THEN "resume" ELSE "start",
              run |-> IF ev.resumable THEN ev.run ELSE 0]

UnacknowledgedBlocks ==
    {r \in DOMAIN runs : runs[r].state = "blocked" /\ ~runs[r].acked}

(* store.open_items                                                        *)
OpenItems == {d \in Dates : /\ item[d].state \notin FINAL_STATES \cup {"none"}
                            /\ item[d].action # "finalize"}

-----------------------------------------------------------------------------
(* Events, and the trigger market_schedule_item_event_guard                *)

(* The trigger does not read archived bodies: it sees a capture of the     *)
(* date's own session once P2 has derived observations or recorded it.     *)
GuardAccepts(d, state, run) ==
    /\ item[d].state \notin FINAL_STATES
    /\ state = "pending" => /\ item[d].state = "running"
                            /\ item[d].run = 0 /\ run = 0
    /\ state \in {"succeeded", "partial", "failed", "blocked", "missed"}
         \/ (state = "abandoned" /\ run # 0)
       => run # 0 /\ runs[run].state = state
    /\ state \in {"missed", "not_applicable"} =>
         ~\E r \in RunsFor(d) : runs[r].e1

At(p, pc) == proc[p].pc = pc

Goto(p, pc) == proc' = [proc EXCEPT ![p].pc = pc]

(* The wake-up or command is over; done: run() came to its end.            *)
Ended(done) == [IdleProcess EXCEPT !.pc = "finish", !.done = done]

Stop(p) == proc' = [proc EXCEPT ![p] = Ended(FALSE)]

Current(p) == Min(proc[p].todo)

(* _event, then the process goes on as next; a refused event is an error   *)
(* that ends the wake-up.                                                  *)
Event(p, d, state, action, run, next) ==
    IF GuardAccepts(d, state, run)
    THEN /\ item' = [item EXCEPT
              ![d].state = state, ![d].action = action, ![d].run = run,
              ![d].tries = IF state = "running" THEN @ + 1 ELSE @,
              ![d].at = IF state = "running" THEN proc[p].now ELSE @]
         /\ proc' = [proc EXCEPT ![p] = next]
    ELSE /\ item' = item
         /\ Stop(p)

(* The loop of run() goes on with the next open item.                      *)
Advance(l) == [l EXCEPT !.pc = "sync", !.todo = l.todo \ {Min(l.todo)}]

-----------------------------------------------------------------------------
(* wake                                                                    *)

(* The timer, or an operator's run (confirm) or retry (only), starts a     *)
(* process; it reads the clock before it tries the lock.                   *)
Wake(p, only, confirm) ==
    /\ At(p, "idle")
    /\ only # 0 => item[only].state # "none"
    /\ only # 0 \/ confirm => bounds.manual > 0
    /\ bounds' = IF only # 0 \/ confirm
                 THEN [bounds EXCEPT !.manual = @ - 1] ELSE bounds
    /\ proc' = [proc EXCEPT ![p] =
                  [IdleProcess EXCEPT !.pc = "ready", !.job = "wake",
                     !.now = clock, !.only = only, !.confirm = confirm]]
    /\ UNCHANGED <<clock, lock, armed, runs, item, calendar, declaring, used,
                   lease>>

(* Mutant: the result of pg_try_advisory_lock is not looked at.            *)
BugLockFree == TRUE

LockFree == lock = None

(* The settings are read again under the lock ("a disarm just made always  *)
(* wins"); then the lease row, and the expiry of every other active lease. *)
Lock(p) ==
    /\ At(p, "ready") /\ proc[p].job = "wake"
    /\ LockFree
    /\ lock' = p
    /\ lease' = [q \in Procs |-> IF q = p THEN "active" ELSE "closed"]
    /\ proc' = [proc EXCEPT ![p].pc = "recover", ![p].armed = armed]
    /\ UNCHANGED <<clock, armed, runs, item, calendar, declaring, used, bounds>>

(* The lock is held: a 'skipped' row, or RunRefused for a command.         *)
Skip(p) ==
    /\ At(p, "ready")
    /\ ~LockFree
    /\ proc' = [proc EXCEPT ![p] = IdleProcess]
    /\ UNCHANGED <<clock, lock, armed, runs, item, calendar, declaring, used,
                   lease, bounds>>

(* P2's mark_abandoned.                                                    *)
Abandoned(rs) ==
    [r \in DOMAIN rs |-> IF rs[r].state = "running"
                         THEN [rs[r] EXCEPT !.state = "abandoned"] ELSE rs[r]]

(* p2.recover; then the settings decide.                                   *)
Recover(p) ==
    /\ At(p, "recover")
    /\ runs' = Abandoned(runs)
    /\ IF proc[p].armed
       THEN proc' = [proc EXCEPT ![p].pc = "discover", ![p].armed = FALSE]
       ELSE Stop(p)
    /\ UNCHANGED <<clock, lock, armed, item, calendar, declaring, used, lease,
                   bounds>>

(* Refused: wrong host, clock not synchronised or gone backwards.          *)
RefuseWake(p) ==
    /\ At(p, "discover")
    /\ bounds.trouble > 0
    /\ bounds' = [bounds EXCEPT !.trouble = @ - 1]
    /\ Stop(p)
    /\ UNCHANGED <<clock, lock, armed, runs, item, calendar, declaring, used,
                   lease>>

MissingItems(today) == {d \in CandidateDates(today) : item[d].state = "none"}

(* _discover: refuse a gap that reaches too far back, create the missing   *)
(* items one transaction each, then read the blocks and the open items.    *)
Discover(p) ==
    LET l == proc[p]
        today == ColomboDate(l.now)
        missing == MissingItems(today)
        gap == ~l.confirm /\ \E d \in missing : d + MaxCatchUp < today
    IN  /\ At(p, "discover")
        /\ IF gap THEN Stop(p) /\ UNCHANGED item
           ELSE IF missing # {}
           THEN /\ item' = [item EXCEPT ![Min(missing)].state = "pending"]
                /\ UNCHANGED proc
           ELSE /\ proc' = [proc EXCEPT ![p].pc = "sync", ![p].todo = OpenItems,
                              ![p].gate = UnacknowledgedBlocks # {}]
                /\ UNCHANGED item
        /\ UNCHANGED <<clock, lock, armed, runs, calendar, declaring, used,
                       lease, bounds>>

-----------------------------------------------------------------------------
(* _reconcile                                                              *)

(* What _sync has to record of an item, if anything.                       *)
Unrecorded(d) ==
    LET ev == Evidence(d)
    IN  CASE ev.state = "running" -> FALSE
          [] ev.state = "pending" -> item[d].state = "running"
                                     /\ item[d].run = 0
          [] OTHER -> item[d].state # ev.state \/ item[d].run # ev.run

(* Mutant: a run another process made is not adopted.                      *)
BugSync(p) ==
    /\ At(p, "sync") /\ proc[p].todo # {}
    /\ Goto(p, "decide")
    /\ UNCHANGED <<clock, lock, armed, runs, item, calendar, declaring, used,
                   lease, bounds>>

Sync(p) ==
    LET d == Current(p)
        ev == Evidence(d)
    IN  /\ At(p, "sync") /\ proc[p].todo # {}
        /\ IF Unrecorded(d)
           THEN Event(p, d, ev.state, "observe",
                      IF ev.state = "pending" THEN 0 ELSE ev.run,
                      [proc[p] EXCEPT !.pc = "decide"])
           ELSE Goto(p, "decide") /\ UNCHANGED item
        /\ UNCHANGED <<clock, lock, armed, runs, calendar, declaring, used,
                       lease, bounds>>

DecisionOf(p) ==
    LET l == proc[p] IN
    Decide(Current(p), l.now, l.gate,
           ~l.again /\ l.only # 0 /\ l.only = Current(p))

(* wait, not_applicable, finalize; a capture decision is kept if it is the *)
(* first (and of the operator's date), or dropped after the capture.       *)
Apply(p) ==
    LET l == proc[p]
        d == Current(p)
        dec == DecisionOf(p)
        candidate == /\ dec.kind = "capture" /\ ~l.again /\ l.date = 0
                     /\ l.only \in {0, d}
    IN  /\ At(p, "decide")
        /\ dec.kind \in {"wait", "not_applicable", "finalize", "capture"}
        /\ CASE dec.kind = "not_applicable" ->
                  Event(p, d, "not_applicable", "finalize", dec.run, Advance(l))
             [] dec.kind = "finalize" ->
                  Event(p, d, Evidence(d).state, "finalize", dec.run,
                        Advance(l))
             [] OTHER ->
                  /\ proc' = [proc EXCEPT ![p] =
                       IF candidate
                       THEN [Advance(l) EXCEPT !.date = d, !.run = dec.run,
                                               !.action = dec.action]
                       ELSE Advance(l)]
                  /\ UNCHANGED item
        /\ UNCHANGED <<clock, lock, armed, runs, calendar, declaring, used,
                       lease, bounds>>

NewRun(d, missed, manual, cap) ==
    [date |-> d, manual |-> manual, missed |-> missed, state |-> "pending",
     snap |-> "none", e1 |-> FALSE, left |-> Others, cap |-> cap,
     acked |-> FALSE]

(* _record_missed: the run row, its 'missed' event, the item event: three  *)
(* commits.                                                                *)
MissedRun(p) ==
    /\ At(p, "decide") /\ DecisionOf(p).kind = "record_missed"
    /\ Len(runs) < MaxRuns
    /\ runs' = Append(runs, NewRun(Current(p), TRUE, FALSE, 0))
    /\ proc' = [proc EXCEPT ![p].pc = "missed_event", ![p].sub = Len(runs) + 1]
    /\ UNCHANGED <<clock, lock, armed, item, calendar, declaring, used, lease,
                   bounds>>

MissedEvent(p) ==
    /\ At(p, "missed_event")
    /\ runs' = [runs EXCEPT ![proc[p].sub].state = "missed"]
    /\ IF proc[p].job = "wake" THEN Goto(p, "missed_item") ELSE Stop(p)
    /\ UNCHANGED <<clock, lock, armed, item, calendar, declaring, used, lease,
                   bounds>>

MissedItem(p) ==
    /\ At(p, "missed_item")
    /\ Event(p, Current(p), "missed", "record_missed", proc[p].sub,
             Advance(proc[p]))
    /\ UNCHANGED <<clock, lock, armed, runs, calendar, declaring, used, lease,
                   bounds>>

ReprocessDecided(p) ==
    /\ At(p, "decide") /\ DecisionOf(p).kind = "reprocess"
    /\ proc' = [proc EXCEPT ![p].pc = "reprocess",
                            ![p].sub = DecisionOf(p).run]
    /\ UNCHANGED <<clock, lock, armed, runs, item, calendar, declaring, used,
                   lease, bounds>>

(* Every open item has been reconciled.                                    *)
Reconciled(p) ==
    LET l == proc[p] IN
    /\ At(p, "sync") /\ l.todo = {}
    /\ proc' = [proc EXCEPT ![p] = IF l.again \/ l.date = 0 THEN Ended(TRUE)
                                   ELSE [l EXCEPT !.pc = "capture"]]
    /\ UNCHANGED <<clock, lock, armed, runs, item, calendar, declaring, used,
                   lease, bounds>>

-----------------------------------------------------------------------------
(* P2's commands, at the level of runs                                     *)

(* p2.reprocess: archive only.  A succeeded or blocked run keeps its state *)
(* and gets no event.                                                      *)
Reprocess(p) ==
    LET l == proc[p]
        r == runs[l.sub]
        refused == \/ r.state \in {"pending", "running", "missed"}
                   \/ r.snap # "own"
        events == r.state \in {"partial", "failed", "abandoned"}
    IN  /\ At(p, "reprocess")
        /\ runs' = IF ~refused /\ events
                   THEN [runs EXCEPT ![l.sub].state = "running"] ELSE runs
        /\ proc' = [proc EXCEPT ![p] =
             IF ~refused
             THEN [l EXCEPT !.pc = IF events THEN "rederive" ELSE "reprocessed"]
             ELSE IF l.job = "wake" THEN Advance(l)
             ELSE Ended(FALSE)]
        /\ UNCHANGED <<clock, lock, armed, item, calendar, declaring, used,
                       lease, bounds>>

(* completeness.decide_state                                               *)
SettledStates(r, blocked) ==
    IF blocked THEN {"blocked"}
    ELSE IF r.snap # "own" THEN {"failed"}
    ELSE IF r.left = 0 THEN {"succeeded", "partial"}
    ELSE {"partial"}

(* derive_run: observations, if the session is the run's own and a         *)
(* security can be derived.                                                *)
Derive(p) ==
    LET l == proc[p] IN
    /\ l.pc \in {"derive", "rederive"}
    /\ \E any \in {FALSE, runs[l.sub].snap = "own"} :
         runs' = [runs EXCEPT ![l.sub].e1 = @ \/ any]
    /\ Goto(p, IF l.pc = "derive" THEN "settle" ELSE "resettle")
    /\ UNCHANGED <<clock, lock, armed, item, calendar, declaring, used, lease,
                   bounds>>

(* The final event of a capture or reprocess, with its session evidence.   *)
Settle(p) ==
    LET l == proc[p]
        r == runs[l.sub]
    IN  /\ l.pc \in {"settle", "resettle"}
        /\ \E s \in SettledStates(r, l.blocked) :
             runs' = [runs EXCEPT ![l.sub].state = s,
                                  ![l.sub].e1 = r.e1 \/ r.snap = "own"]
        /\ IF l.pc = "resettle" THEN Goto(p, "reprocessed")
           ELSE IF l.job = "wake" THEN Goto(p, "outcome")
           ELSE Stop(p)
        /\ UNCHANGED <<clock, lock, armed, item, calendar, declaring, used,
                       lease, bounds>>

(* The item event after a reprocess.  An operator's reprocess leaves a     *)
(* final item alone and keeps a closed item closed if nothing changed.     *)
Reprocessed(p) ==
    LET l == proc[p]
        r == runs[l.sub]
        it == item[r.date]
        closed == it.action = "finalize" /\ r.state = it.state
    IN  /\ At(p, "reprocessed")
        /\ CASE l.job = "wake" ->
                  Event(p, r.date, r.state, "reprocess", l.sub,
                        [Advance(l) EXCEPT !.pc = "open"])
             [] l.job # "wake" /\ it.state \notin FINAL_STATES ->
                  Event(p, r.date, r.state,
                        IF closed THEN "finalize" ELSE "reprocess", l.sub,
                        Ended(FALSE))
             [] OTHER -> Stop(p) /\ UNCHANGED item
        /\ UNCHANGED <<clock, lock, armed, runs, calendar, declaring, used,
                       lease, bounds>>

(* _calendar: 'open' only on P2's E1, and never over an existing row.      *)
Open(p) ==
    LET r == runs[proc[p].sub]
    IN  /\ At(p, "open")
        /\ calendar' = IF r.snap = "own" /\ calendar[r.date] = "unknown"
                       THEN [calendar EXCEPT ![r.date] = "open"] ELSE calendar
        /\ Goto(p, "sync")
        /\ UNCHANGED <<clock, lock, armed, runs, item, declaring, used, lease,
                       bounds>>

(* planner.resume_request_estimate: the requests that follow tradeSummary  *)
(* are unknown, and counted as none, until tradeSummary is archived.       *)
ResumeEstimate(r) == IF runs[r].snap = "none" THEN 1 ELSE runs[r].left

Remaining(p) ==
    LET n == used[ColomboDate(proc[p].now)]
    IN  IF n >= DailyBudget THEN 0 ELSE DailyBudget - n

Affordable(p) ==
    IF proc[p].action = "start" THEN Remaining(p) >= MinStart
    ELSE ResumeEstimate(proc[p].run) <= Remaining(p)

(* Mutant: the blocks found by the wake-up are only reported.              *)
BugGated(p) == FALSE

Gated(p) == proc[p].gate

(* _capture_one: nothing while a block is unacknowledged or the budget     *)
(* does not allow it.                                                      *)
NoCapture(p) ==
    /\ At(p, "capture")
    /\ Gated(p) \/ ~Affordable(p)
    /\ proc' = [proc EXCEPT ![p] = Ended(TRUE)]
    /\ UNCHANGED <<clock, lock, armed, runs, item, calendar, declaring, used,
                   lease, bounds>>

(* The configured User-Agent or the spool directory is not as approved.    *)
RefuseCapture(p) ==
    /\ At(p, "capture") /\ ~Gated(p)
    /\ bounds.trouble > 0
    /\ bounds' = [bounds EXCEPT !.trouble = @ - 1]
    /\ proc' = [proc EXCEPT ![p] = Ended(TRUE)]
    /\ UNCHANGED <<clock, lock, armed, runs, item, calendar, declaring, used,
                   lease>>

(* The 'running' event, committed before P2 is called.                     *)
StartCapture(p) ==
    LET l == proc[p] IN
    /\ At(p, "capture") /\ ~Gated(p) /\ Affordable(p)
    /\ Event(p, l.date, "running", l.action, l.run, [l EXCEPT !.pc = "p2"])
    /\ UNCHANGED <<clock, lock, armed, runs, calendar, declaring, used, lease,
                   bounds>>

(* RunRefused before any request: the spool is not writable.               *)
P2Refuses(p) ==
    LET l == proc[p]
        ev == Evidence(l.date)
        next == Ended(l.job = "wake")
    IN  /\ At(p, "p2")
        /\ bounds.trouble > 0
        /\ bounds' = [bounds EXCEPT !.trouble = @ - 1]
        /\ CASE l.job # "wake" ->
                  proc' = [proc EXCEPT ![p] = next] /\ UNCHANGED item
             [] l.job = "wake" /\ ev.state = "pending" ->
                  Event(p, l.date, "pending", "refused", 0, next)
             [] OTHER -> Event(p, l.date, ev.state, "refused", ev.run, next)
        /\ UNCHANGED <<clock, lock, armed, runs, calendar, declaring, used,
                       lease>>

(* p2.start: the run row and its 'pending' event, under a policy capped by *)
(* what is left of the daily budget.                                       *)
P2Create(p) ==
    LET l == proc[p]
        manual == l.job # "wake"
    IN  /\ At(p, "p2") /\ l.action = "start"
        /\ Len(runs) < MaxRuns
        /\ runs' = Append(runs, NewRun(l.date, FALSE, manual,
                     IF manual THEN RunCap ELSE Min({RunCap, Remaining(p)})))
        /\ proc' = [proc EXCEPT ![p].pc = "begun", ![p].sub = Len(runs) + 1]
        /\ UNCHANGED <<clock, lock, armed, item, calendar, declaring, used,
                       lease, bounds>>

(* The 'running' event of start, or of resume.                             *)
P2Running(p) ==
    LET l == proc[p]
        r == IF l.action = "start" THEN l.sub ELSE l.run
    IN  /\ l.pc = IF l.action = "start" THEN "begun" ELSE "p2"
        /\ runs' = [runs EXCEPT ![r].state = "running"]
        /\ proc' = [proc EXCEPT ![p].pc = "fetch", ![p].sub = r]
        /\ UNCHANGED <<clock, lock, armed, item, calendar, declaring, used,
                       lease, bounds>>

(* tradeSummary serves the latest session only, and today's may not show   *)
(* yet.                                                                    *)
Shown(d) ==
    LET today == ColomboDate(clock)
        Latest(day) == Max({0} \cup {s \in Sessions : s <= day})
        As(s) == IF s = d THEN "own" ELSE IF s > d THEN "later" ELSE "earlier"
    IN  {As(Latest(today)), As(Latest(today - 1))}

(* The fetch phase: tradeSummary unless archived, then k of the other      *)
(* responses are archived; the requests made, whatever came of them, count *)
(* against the invocation's cap and the day on which they are made.  A     *)
(* block ends it at once.                                                  *)
P2Fetch(p, snap, k, blocked) ==
    LET l == proc[p]
        r == runs[l.sub]
        first == IF r.snap = "none" THEN 1 ELSE 0
        others == IF snap = "own" THEN r.left ELSE 0
        refusal == first + k + (IF snap = "none" THEN 0 ELSE 1)
    IN  /\ At(p, "fetch")
        /\ snap \in IF r.snap = "none" THEN {"none"} \cup Shown(r.date)
                                       ELSE {r.snap}
        /\ k <= others
        /\ blocked => snap = "none" \/ k < others
        /\ \E made \in IF blocked THEN {refusal}
                       ELSE (first + k)..(first + others) :
             /\ made <= r.cap
             /\ used' = [used EXCEPT ![ColomboDate(clock)] = @ + made]
        /\ runs' = [runs EXCEPT ![l.sub].snap = snap, ![l.sub].left = @ - k]
        /\ proc' = [proc EXCEPT ![p].pc = "derive", ![p].blocked = blocked]
        /\ UNCHANGED <<clock, lock, armed, item, calendar, declaring, lease,
                       bounds>>

(* The outcome event; the item is then reconciled once more.               *)
Outcome(p) ==
    LET l == proc[p] IN
    /\ At(p, "outcome")
    /\ Event(p, l.date, runs[l.sub].state, l.action, l.sub,
             [l EXCEPT !.pc = "open", !.todo = {l.date}, !.again = TRUE,
                       !.gate = UnacknowledgedBlocks # {}])
    /\ UNCHANGED <<clock, lock, armed, runs, calendar, declaring, used, lease,
                   bounds>>

(* finish_wakeup (also after an error), and the lock is released.          *)
Finish(p) ==
    /\ At(p, "finish")
    /\ lock' = IF lock = p THEN None ELSE lock
    /\ lease' = [lease EXCEPT ![p] = "closed"]
    /\ proc' = [proc EXCEPT ![p] = IdleProcess]
    /\ UNCHANGED <<clock, armed, runs, item, calendar, declaring, used, bounds>>

(* The process dies; PostgreSQL frees its lock; its lease stays active.    *)
Crash(p) ==
    /\ proc[p].pc \in CrashPoints
    /\ bounds.trouble > 0
    /\ bounds' = [bounds EXCEPT !.trouble = @ - 1]
    /\ lock' = IF lock = p THEN None ELSE lock
    /\ proc' = [proc EXCEPT ![p] = IdleProcess]
    /\ UNCHANGED <<clock, armed, runs, item, calendar, declaring, used, lease>>

-----------------------------------------------------------------------------
(* Manual P2 commands, operator commands, owner decisions                  *)

Command(pc, date, action, run) ==
    [IdleProcess EXCEPT !.pc = pc, !.date = date, !.action = action,
                        !.run = run, !.sub = run]

(* cse-capture start or resume: any date up to today, same lock, same gate.*)
ManualCapture(p, action, d, r) ==
    LET rs == Abandoned(runs) IN
    /\ At(p, "idle") /\ LockFree /\ bounds.manual > 0
    /\ IF action = "start"
       THEN r = 0 /\ d <= ColomboDate(clock)
       ELSE /\ r \in DOMAIN rs /\ rs[r].date = d
            /\ ~rs[r].missed /\ rs[r].state \in RESUMABLE
    /\ UnacknowledgedBlocks = {}
    /\ runs' = rs
    /\ lock' = p
    /\ proc' = [proc EXCEPT ![p] = Command("p2", d, action, r)]
    /\ bounds' = [bounds EXCEPT !.manual = @ - 1]
    /\ UNCHANGED <<clock, armed, item, calendar, declaring, used, lease>>

(* cse-capture record-missed: refused when a run of the date is running,   *)
(* partial or succeeded; not when it is blocked, failed or abandoned.      *)
ManualMissed(p, d) ==
    LET rs == Abandoned(runs) IN
    /\ At(p, "idle") /\ LockFree /\ bounds.manual > 0
    /\ Len(runs) < MaxRuns
    /\ \A r \in RunsFor(d) : rs[r].state \notin {"succeeded", "partial"}
    /\ runs' = Append(rs, NewRun(d, TRUE, TRUE, 0))
    /\ lock' = p
    /\ proc' = [proc EXCEPT ![p] = Command("missed_event", d, "none",
                                           Len(runs) + 1)]
    /\ bounds' = [bounds EXCEPT !.manual = @ - 1]
    /\ UNCHANGED <<clock, armed, item, calendar, declaring, used, lease>>

(* reprocess_date reads the evidence before it takes the lock.             *)
OperatorReprocess(p, d) ==
    /\ At(p, "idle") /\ bounds.manual > 0
    /\ item[d].state # "none" /\ Captured(d) # {}
    /\ proc' = [proc EXCEPT ![p] =
         [Command("ready", d, "none", Evidence(d).run)
            EXCEPT !.job = "reprocess", !.now = clock]]
    /\ bounds' = [bounds EXCEPT !.manual = @ - 1]
    /\ UNCHANGED <<clock, lock, armed, runs, item, calendar, declaring, used,
                   lease>>

OperatorLock(p) ==
    /\ At(p, "ready") /\ proc[p].job = "reprocess"
    /\ LockFree
    /\ lock' = p
    /\ runs' = Abandoned(runs)
    /\ Goto(p, "reprocess")
    /\ UNCHANGED <<clock, armed, item, calendar, declaring, used, lease, bounds>>

(* add_item: one transaction under the lock; an existing item is kept.     *)
AddItem(d) ==
    /\ LockFree /\ bounds.manual > 0
    /\ item[d].state = "none"
    /\ item' = [item EXCEPT ![d].state = "pending", ![d].origin = "operator"]
    /\ bounds' = [bounds EXCEPT !.manual = @ - 1]
    /\ UNCHANGED <<clock, lock, armed, runs, calendar, declaring, used, lease,
                   proc>>

(* declare_closed takes no lock: it looks at the runs, then inserts a row  *)
(* unless the date has one.                                                *)
DeclareCheck(d) ==
    /\ bounds.manual > 0
    /\ d \notin declaring /\ Captured(d) = {}
    /\ declaring' = declaring \cup {d}
    /\ bounds' = [bounds EXCEPT !.manual = @ - 1]
    /\ UNCHANGED <<clock, lock, armed, runs, item, calendar, used, lease, proc>>

DeclareInsert(d) ==
    /\ d \in declaring
    /\ declaring' = declaring \ {d}
    /\ calendar' = IF calendar[d] = "unknown"
                   THEN [calendar EXCEPT ![d] = "closed"] ELSE calendar
    /\ UNCHANGED <<clock, lock, armed, runs, item, used, lease, proc, bounds>>

(* The owner disarms, arms again, acknowledges a block.                    *)
Disarm ==
    /\ armed /\ bounds.manual > 0
    /\ armed' = FALSE
    /\ bounds' = [bounds EXCEPT !.manual = @ - 1]
    /\ UNCHANGED <<clock, lock, runs, item, calendar, declaring, used, lease,
                   proc>>

Arm ==
    /\ ~armed
    /\ armed' = TRUE
    /\ UNCHANGED <<clock, lock, runs, item, calendar, declaring, used, lease,
                   proc, bounds>>

AcknowledgeBlock(r) ==
    /\ r \in UnacknowledgedBlocks
    /\ runs' = [runs EXCEPT ![r].acked = TRUE]
    /\ UNCHANGED <<clock, lock, armed, item, calendar, declaring, used, lease,
                   proc, bounds>>

Tick ==
    /\ clock < EndTime
    /\ clock' = clock + 1
    /\ UNCHANGED <<lock, armed, runs, item, calendar, declaring, used, lease,
                   proc, bounds>>

-----------------------------------------------------------------------------
Step(p) ==
    \/ Lock(p) \/ Skip(p) \/ Recover(p) \/ Discover(p) \/ Sync(p) \/ Apply(p)
    \/ MissedRun(p) \/ MissedEvent(p) \/ MissedItem(p) \/ ReprocessDecided(p)
    \/ Reconciled(p) \/ Reprocess(p) \/ Derive(p) \/ Settle(p)
    \/ Reprocessed(p) \/ Open(p)
    \/ NoCapture(p) \/ StartCapture(p) \/ P2Create(p) \/ P2Running(p)
    \/ \E snap \in {"none", "own", "earlier", "later"}, k \in 0..Others,
          blocked \in BOOLEAN : P2Fetch(p, snap, k, blocked)
    \/ Outcome(p) \/ OperatorLock(p) \/ Finish(p)

Fault(p) == RefuseWake(p) \/ RefuseCapture(p) \/ P2Refuses(p) \/ Crash(p)

Operator(p) ==
    \/ \E d \in Dates : Wake(p, d, FALSE)
    \/ Wake(p, 0, TRUE)
    \/ \E a \in CAPTURE_ACTIONS, d \in Dates, r \in 0..MaxRuns :
         ManualCapture(p, a, d, r)
    \/ \E d \in Dates : ManualMissed(p, d) \/ OperatorReprocess(p, d)

Owner ==
    \/ \E d \in Dates : AddItem(d) \/ DeclareCheck(d) \/ DeclareInsert(d)
    \/ Disarm \/ Arm
    \/ \E r \in 1..MaxRuns : AcknowledgeBlock(r)

Next ==
    \/ \E p \in Procs : Wake(p, 0, FALSE) \/ Step(p) \/ Fault(p) \/ Operator(p)
    \/ Owner
    \/ Tick

Spec == Init /\ [][Next]_vars

(* Time passes, the timer keeps firing, a live process keeps running.      *)
Fairness ==
    /\ WF_vars(Tick)
    /\ \A p \in Procs : WF_vars(Step(p)) /\ WF_vars(Wake(p, 0, FALSE))

FairSpec == Spec /\ Fairness

-----------------------------------------------------------------------------
(* Properties *)

(* expire_dead_leases: "nothing alive is ever expired".  A wake-up past    *)
(* the lock still has its own lease active.                                *)
LiveLeaseStaysActive ==
    \A p \in Procs :
      proc[p].job = "wake" /\ proc[p].pc \notin {"idle", "ready"} =>
        lease[p] = "active"

(* P3_SCHEDULER.md section 14: the scheduler never creates a second        *)
(* deriving run.  When one of its captures makes requests, either its run  *)
(* already holds the date's own session or no run of the date does.        *)
OneDerivingRun ==
    \A p \in Procs :
      proc[p].job = "wake" /\ proc[p].pc \in {"begun", "fetch"} =>
        \/ runs[proc[p].sub].snap = "own"
        \/ Captured(proc[p].date) = {}

(* A wake-up that ran to its end leaves every open item saying what P2's   *)
(* runs prove, whatever crashed before it and whoever made the runs.       *)
ItemsCurrent ==
    \A p \in Procs : proc[p].pc = "finish" /\ proc[p].done =>
      \A d \in OpenItems : ~Unrecorded(d)

(* An item becomes missed or not_applicable only if no run has archived    *)
(* the date's own session, also when P2 has not recorded that session (the *)
(* run died) and when a closure is declared while the capture runs.        *)
ClosedWithoutSession ==
    [][\A d \in Dates :
         item'[d].state \in {"missed", "not_applicable"} /\ item[d] # item'[d]
           => \A r \in RunsFor(d) : runs[r].snap # "own"]_vars

(* G-1: a capture action is recorded only when no run is blocked without   *)
(* the owner's acknowledgement; the wake-up looked before it reconciled.   *)
NoCaptureWhileBlocked ==
    [][\A d \in Dates : item'[d].tries > item[d].tries =>
         UnacknowledgedBlocks = {}]_vars

(* Every work item is eventually closed: succeeded, missed, not applicable *)
(* or closed for capture.                                                  *)
ItemsClose ==
    \A d \in Dates : item[d].state # "none" ~>
      item[d].state \in FINAL_STATES \/ item[d].action = "finalize"

(* The archived session of the run is the one of its date.                 *)
Shows(r) == runs[r].snap = "own"

(* What P2's run ledger, as module MarketCapture has it, says of a run.    *)
LedgerRow(r) ==
    IF r \in DOMAIN runs
    THEN [state |-> runs[r].state,
          kind |-> IF runs[r].missed THEN "missed_record" ELSE "market_capture",
          date |-> runs[r].date, shown |-> Shows(r),
          acked |-> runs[r].acked]
    ELSE [state |-> "none", kind |-> None, date |-> 0, shown |-> FALSE,
          acked |-> FALSE]

Ledger ==
    INSTANCE CaptureLedger WITH
        Runs <- 1..MaxRuns, ledger <- [r \in 1..MaxRuns |-> LedgerRow(r)]

(* Wake-ups, manual commands and the owner do to the runs what P2's ledger *)
(* allows, and no more: the promise MarketCapture keeps.                   *)
ImplementsCaptureLedger == Ledger!Spec
=============================================================================
