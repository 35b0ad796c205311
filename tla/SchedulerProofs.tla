--------------------------- MODULE SchedulerProofs ---------------------------
(***************************************************************************)
(* Proofs about Scheduler, for every set of processes, every calendar,     *)
(* every limit of the policy, any number of runs, manual commands, owner   *)
(* decisions and deaths of a process.                                      *)
(***************************************************************************)
EXTENDS Scheduler, FiniteSetsExt, FiniteSetTheorems, NaturalsInduction, WellFoundedInduction,
        TLAPS

(***************************************************************************)
(* The least and the greatest element of a set of numbers.                 *)
(***************************************************************************)
(* The least element of a set of naturals.                                 *)
LEMMA MinOfNaturals ==
  ASSUME NEW S \in SUBSET Nat, S # {}
  PROVE  Min(S) \in S /\ \A y \in S : Min(S) <= y
<1> DEFINE less == {p \in Nat \X Nat : p[1] < p[2]}
<1>1. OpToRel(<, Nat) = less
  BY Zenon DEF OpToRel
<1>2. IsWellFoundedOn(less, Nat)
  BY <1>1, NatLessThanWellFounded, Zenon
<1>3. PICK k \in S : \A y \in S : ~ (<<y, k>> \in less)
  <2> HIDE DEF less
  <2> QED BY <1>2, WFMin, Zenon
<1>4. \A x, y \in Nat : ~ (<<y, x>> \in less) => x <= y
  OBVIOUS
<1> HIDE DEF less
<1>5. \A y \in S : k <= y
  BY <1>3, <1>4
<1> QED BY <1>5 DEF Min

(* The greatest element of a set of naturals with a bound.                 *)
LEMMA MaxInSet ==
  ASSUME NEW n \in Nat, NEW S \in SUBSET (0..n), S # {}
  PROVE  Max(S) \in S /\ \A y \in S : y <= Max(S)
<1> DEFINE T == {n - y : y \in S}
<1>1. Min(T) \in T /\ \A t \in T : Min(T) <= t
  <2>1. T \in SUBSET Nat /\ T # {}
    <3>1. \A y \in S : n - y \in Nat
      OBVIOUS
    <3> QED BY <3>1
  <2> HIDE DEF T
  <2> QED BY <2>1, MinOfNaturals
<1>2. PICK m \in S : Min(T) = n - m
  BY <1>1
<1>3. \A y \in S : m >= y
  BY <1>1, <1>2
<1>4. \E k \in S : \A y \in S : k >= y
  BY <1>3
<1>5. Max(S) \in S /\ \A y \in S : Max(S) >= y
  BY <1>4 DEF Max
<1> QED BY <1>5

(* The lesser and the greater of two numbers.                              *)
LEMMA MinOfTwo ==
  ASSUME NEW a \in Nat, NEW b \in Nat
  PROVE  /\ Min({a, b}) \in Nat /\ Min({a, b}) <= a /\ Min({a, b}) <= b
<1>1. \E k \in {a, b} : \A y \in {a, b} : k <= y
  OBVIOUS
<1>2. Min({a, b}) \in {a, b} /\ \A y \in {a, b} : Min({a, b}) <= y
  BY <1>1 DEF Min
<1> QED BY <1>2

-----------------------------------------------------------------------------
(* The inductive invariant *)

(* A process past the lock; where it works on an item, on a run, or for a  *)
(* capture.                                                                *)
Past(p) == proc[p].pc \notin {"idle", "ready"}
WakePCs == {"recover", "discover", "sync", "decide", "missed_item", "open",
            "capture", "outcome"}
MissedPCs == {"missed_event", "missed_item"}
ReprocessPCs == {"reprocess", "rederive", "resettle", "reprocessed"}
ItemPCs == {"decide"} \cup MissedPCs \cup ReprocessPCs
Reconciling == {"sync", "open"} \cup ItemPCs
Capturing == {"p2", "begun", "fetch", "derive", "settle", "outcome"}
Working == {"fetch", "derive", "settle", "rederive", "resettle"}
SubPCs == {"open", "begun", "outcome"} \cup MissedPCs \cup ReprocessPCs
            \cup Working
Settled == {"succeeded", "partial", "failed", "blocked"}

CapturedIn(rs, d) == {r \in DOMAIN rs : rs[r].date = d /\ rs[r].snap = "own"}

(* A process's arguments at each place.                                    *)
JobOK(l) ==
  /\ l.pc \in WakePCs => l.job = "wake"
  /\ l.pc = "ready" => l.job \in {"wake", "reprocess"}
  /\ l.pc \in {"ready", "recover", "discover"} /\ l.job = "wake" =>
       l.date = 0 /\ ~l.again /\ ~l.blocked
  /\ l.pc \in Capturing \cup {"capture"} /\ l.job = "wake" =>
       ~l.again /\ l.todo = {}
  /\ l.pc \in Capturing \cup {"capture"} =>
       l.date # 0 /\ l.action \in CAPTURE_ACTIONS
  /\ l.pc \in Reconciling \cup {"capture"} /\ l.job = "wake" =>
       ~l.blocked \/ l.again
  /\ l.pc \in ItemPCs /\ l.job = "wake" => l.todo # {}
  /\ l.pc = "begun" => l.action = "start"

(* The run it works on.                                                    *)
SubOK(l, rs) ==
  /\ l.pc \in SubPCs \/ (l.pc = "ready" /\ l.job = "reprocess") =>
       l.sub \in DOMAIN rs
  /\ l.pc \in MissedPCs => rs[l.sub].missed
  /\ l.pc \in MissedPCs /\ l.job = "wake" => CapturedIn(rs, Min(l.todo)) = {}
  /\ l.pc = "begun" => ~rs[l.sub].missed
  /\ l.pc \in Working => rs[l.sub].state = "running"
  /\ l.pc \in ReprocessPCs \ {"reprocess"} => rs[l.sub].snap = "own"
  /\ l.pc \in MissedPCs \cup ReprocessPCs /\ l.job = "wake" =>
       rs[l.sub].date = Min(l.todo)
  /\ l.pc \in {"outcome", "reprocessed"} => rs[l.sub].state \in Settled
  /\ l.pc \in Capturing \ {"p2"} => rs[l.sub].date = l.date
  /\ l.pc = "p2" /\ l.action = "resume" =>
       l.run \in DOMAIN rs /\ ~rs[l.run].missed /\ rs[l.run].date = l.date

(* No other run is left running once recovery has passed.                  *)
NoneRunning(l, rs) ==
  l.pc \notin {"idle", "ready", "recover", "finish"} =>
    \A r \in DOMAIN rs : rs[r].state = "running" => l.pc \in Working /\ r = l.sub

(* The capture decided on stays right while other items are reconciled.    *)
CandidateOK(l, rs) ==
  /\ l.job = "wake" /\ ~l.again /\ l.date # 0
     /\ l.pc \in Reconciling \cup {"capture", "p2", "begun"} =>
       \/ l.action = "start" /\ CapturedIn(rs, l.date) = {}
       \/ /\ l.action = "resume" /\ l.run \in DOMAIN rs
          /\ ~rs[l.run].missed /\ rs[l.run].date = l.date
          /\ rs[l.run].snap = "own" \/ CapturedIn(rs, l.date) = {}
  /\ l.job = "wake" /\ l.pc = "fetch" =>
       rs[l.sub].snap = "own" \/ CapturedIn(rs, l.date) = {}

(* A wake-up that saw no block is right about that until it captures.      *)
GateOK(l, rs) ==
  l.job = "wake" /\ ~l.again /\ ~l.gate /\ l.pc \in Reconciling \cup {"capture"}
    => \A r \in DOMAIN rs : rs[r].state = "blocked" => rs[r].acked

Fits(l, rs) ==
  JobOK(l) /\ SubOK(l, rs) /\ NoneRunning(l, rs) /\ CandidateOK(l, rs) /\ GateOK(l, rs)

(* A missed record is never captured; a run without a running event has    *)
(* archived nothing.                                                       *)
RunOK(r) ==
  /\ r.missed => r.state \in {"pending", "missed"}
  /\ r.state \in {"pending", "missed"} => r.snap = "none"

TypeOK ==
  /\ clock \in 0..EndTime
  /\ lock \in Procs \cup {None}
  /\ armed \in BOOLEAN
  /\ runs \in Seq(RunType) /\ Len(runs) <= MaxRuns
  /\ item \in [Dates -> ItemType]
  /\ calendar \in [Dates -> {"unknown", "open", "closed"}]
  /\ declaring \in SUBSET Dates
  /\ used \in [1..(LastDay + 1) -> Nat]
  /\ lease \in [Procs -> {"active", "closed"}]
  /\ proc \in [Procs -> Locals]
  /\ bounds \in [manual : Nat, trouble : Nat]

SchedInv ==
  /\ TypeOK
  /\ \A p \in Procs : Past(p) => lock = p
  /\ LiveLeaseStaysActive
  /\ \A r \in DOMAIN runs : RunOK(runs[r])
  /\ \A p \in Procs : Fits(proc[p], runs)


-----------------------------------------------------------------------------
(* The updates of a process record                                         *)

(* The constants that bound a process record are numbers.                  *)
LEMMA Bounds == /\ LastDay \in Nat \ {0} /\ MaxRuns \in Nat /\ EndTime \in Nat
                /\ Dates \subseteq 0..LastDay /\ Others \in Nat /\ RunCap \in Nat
BY ScheduleConstants DEF EndTime, Dates

(* An idle process.                                                        *)
LEMMA IdleType ==
  /\ IdleProcess \in Locals /\ IdleProcess.pc = "idle"
  /\ IdleProcess.job = "manual"
BY Bounds DEF IdleProcess, Locals, PCs, CAPTURE_ACTIONS

(* What a step on the way to the capture leaves of a wake-up's plan.       *)
KeepsPlan(l, s) ==
  /\ s.job = l.job /\ s.date = l.date /\ s.action = l.action /\ s.run = l.run
  /\ s.again = l.again /\ s.gate = l.gate /\ s.blocked = l.blocked

(* The process goes on at another place.                                   *)
LEMMA GotoFields ==
  ASSUME NEW l \in Locals, NEW pc \in PCs
  PROVE  /\ [l EXCEPT !.pc = pc] \in Locals
         /\ [l EXCEPT !.pc = pc].pc = pc
         /\ [l EXCEPT !.pc = pc].sub = l.sub
         /\ [l EXCEPT !.pc = pc].todo = l.todo
         /\ KeepsPlan(l, [l EXCEPT !.pc = pc])
BY DEF Locals, KeepsPlan

(* ... with another run.                                                   *)
WithRun(l, pc, r) == [l EXCEPT !.pc = pc, !.sub = r]

(* The fields of a process that takes up a run.                            *)
LEMMA WithRunFields ==
  ASSUME NEW l \in Locals, NEW pc \in PCs, NEW r \in 0..MaxRuns
  PROVE  /\ WithRun(l, pc, r) \in Locals
         /\ WithRun(l, pc, r).pc = pc /\ WithRun(l, pc, r).sub = r
         /\ WithRun(l, pc, r).todo = l.todo
         /\ KeepsPlan(l, WithRun(l, pc, r))
BY DEF Locals, KeepsPlan, WithRun

(* ... with the next item.                                                 *)
LEMMA AdvanceFields ==
  ASSUME NEW l \in Locals
  PROVE  /\ Advance(l) \in Locals
         /\ Advance(l).pc = "sync"
         /\ Advance(l).sub = l.sub
         /\ Advance(l).todo = l.todo \ {Min(l.todo)}
         /\ KeepsPlan(l, Advance(l))
BY DEF Locals, KeepsPlan, Advance, PCs

(* The end of a wake-up or command.                                        *)
LEMMA EndedFields ==
  ASSUME NEW done \in BOOLEAN
  PROVE  /\ Ended(done) \in Locals /\ Ended(done).pc = "finish"
         /\ Ended(done).job = "manual" /\ Ended(done).done = done
BY IdleType DEF Ended, Locals, PCs, IdleProcess

(* A command under the lock.                                               *)
LEMMA CommandFields ==
  ASSUME NEW pc \in PCs, NEW d \in Dates, NEW a \in {"none"} \cup CAPTURE_ACTIONS,
         NEW r \in 0..MaxRuns
  PROVE  /\ Command(pc, d, a, r) \in Locals
         /\ Command(pc, d, a, r).pc = pc /\ Command(pc, d, a, r).job = "manual"
         /\ Command(pc, d, a, r).date = d /\ Command(pc, d, a, r).action = a
         /\ Command(pc, d, a, r).run = r /\ Command(pc, d, a, r).sub = r
BY IdleType, Bounds DEF Command, Locals, IdleProcess

-----------------------------------------------------------------------------
(* The run ledger                                                          *)

(* An update of one run leaves the others alone.                           *)
LEMMA RunUpdate ==
  ASSUME NEW rs \in Seq(RunType), NEW r \in DOMAIN rs, NEW n \in RunType
  PROVE  /\ [rs EXCEPT ![r] = n] \in Seq(RunType)
         /\ Len([rs EXCEPT ![r] = n]) = Len(rs)
         /\ DOMAIN [rs EXCEPT ![r] = n] = DOMAIN rs
         /\ [rs EXCEPT ![r] = n][r] = n
         /\ \A q \in DOMAIN rs : q # r => [rs EXCEPT ![r] = n][q] = rs[q]
OBVIOUS

(* An event changes a run's state alone.                                   *)
LEMMA StateUpdate ==
  ASSUME NEW r \in RunType, NEW s \in RunStates
  PROVE  /\ [r EXCEPT !.state = s] \in RunType
         /\ [r EXCEPT !.state = s].state = s
         /\ [r EXCEPT !.state = s].date = r.date
         /\ [r EXCEPT !.state = s].snap = r.snap
         /\ [r EXCEPT !.state = s].missed = r.missed
         /\ [r EXCEPT !.state = s].acked = r.acked
BY DEF RunType

(* mark_abandoned.                                                         *)
LEMMA AbandonedFacts ==
  ASSUME NEW rs \in Seq(RunType)
  PROVE  /\ Abandoned(rs) \in Seq(RunType) /\ Len(Abandoned(rs)) = Len(rs)
         /\ DOMAIN Abandoned(rs) = DOMAIN rs
         /\ \A r \in DOMAIN rs :
              /\ Abandoned(rs)[r].state =
                   IF rs[r].state = "running" THEN "abandoned" ELSE rs[r].state
              /\ Abandoned(rs)[r].date = rs[r].date
              /\ Abandoned(rs)[r].snap = rs[r].snap
              /\ Abandoned(rs)[r].missed = rs[r].missed
              /\ Abandoned(rs)[r].acked = rs[r].acked
<1>1. \A r \in RunType :
         LET a == [r EXCEPT !.state = "abandoned"]
         IN  /\ a \in RunType /\ a.state = "abandoned" /\ a.date = r.date
             /\ a.snap = r.snap /\ a.missed = r.missed /\ a.acked = r.acked
  BY StateUpdate DEF RunStates
<1>2. Abandoned(rs) \in [1..Len(rs) -> RunType]
  BY <1>1 DEF Abandoned
<1>3. Abandoned(rs) \in Seq(RunType) /\ Len(Abandoned(rs)) = Len(rs)
  BY <1>2
<1>4. \A r \in DOMAIN rs :
         rs[r] \in RunType /\
         Abandoned(rs)[r] = IF rs[r].state = "running"
                            THEN [rs[r] EXCEPT !.state = "abandoned"] ELSE rs[r]
  BY DEF Abandoned
<1>5. DOMAIN Abandoned(rs) = DOMAIN rs
  BY DEF Abandoned
<1>6. ASSUME NEW r \in DOMAIN rs
      PROVE  /\ Abandoned(rs)[r].state =
                  IF rs[r].state = "running" THEN "abandoned" ELSE rs[r].state
             /\ Abandoned(rs)[r].date = rs[r].date
             /\ Abandoned(rs)[r].snap = rs[r].snap
             /\ Abandoned(rs)[r].missed = rs[r].missed
             /\ Abandoned(rs)[r].acked = rs[r].acked
  <2>1. CASE rs[r].state = "running"
    <3>1. rs[r] \in RunType /\ Abandoned(rs)[r] = [rs[r] EXCEPT !.state = "abandoned"]
      BY <1>4, <2>1
    <3> QED BY <1>1, <2>1, <3>1
  <2>2. CASE rs[r].state # "running"
    <3>1. Abandoned(rs)[r] = rs[r]
      BY <1>4, <2>2
    <3> QED BY <2>2, <3>1
  <2> QED BY <2>1, <2>2
<1> QED BY <1>3, <1>5, <1>6

(* A run is added.                                                         *)
LEMMA AppendFacts ==
  ASSUME NEW rs \in Seq(RunType), NEW n \in RunType
  PROVE  /\ Append(rs, n) \in Seq(RunType) /\ Len(Append(rs, n)) = Len(rs) + 1
         /\ DOMAIN Append(rs, n) = DOMAIN rs \cup {Len(rs) + 1}
         /\ Len(rs) + 1 \notin DOMAIN rs
         /\ Append(rs, n)[Len(rs) + 1] = n
         /\ \A r \in DOMAIN rs : Append(rs, n)[r] = rs[r]
OBVIOUS

(* _insert_run: a new run has requested nothing.                           *)
LEMMA NewRunType ==
  ASSUME NEW d \in Dates, NEW missed \in BOOLEAN, NEW manual \in BOOLEAN,
         NEW cap \in 0..RunCap
  PROVE  /\ NewRun(d, missed, manual, cap) \in RunType
         /\ NewRun(d, missed, manual, cap).date = d
         /\ NewRun(d, missed, manual, cap).missed = missed
         /\ NewRun(d, missed, manual, cap).state = "pending"
         /\ NewRun(d, missed, manual, cap).snap = "none"
BY Bounds DEF NewRun, RunType, RunStates

-----------------------------------------------------------------------------
(* planner.evidence                                                        *)

(* The runs of a date form a bounded set: its latest is well defined.      *)
LEMMA LatestRun ==
  ASSUME runs \in Seq(RunType), NEW S, S \subseteq DOMAIN runs, S # {}
  PROVE  Max(S) \in S
<1>1. Len(runs) \in Nat /\ DOMAIN runs \subseteq 0..Len(runs)
  OBVIOUS
<1>2. S \in SUBSET (0..Len(runs))
  BY <1>1
<1> QED BY <1>1, <1>2, MaxInSet

(* What the evidence of a date says of the run it names, and what it does  *)
(* not offer to resume.                                                    *)
EvidenceOK(d, ev) ==
  /\ ev.state \in RunStates /\ ev.run \in 0..Len(runs)
  /\ ev.run = 0 => ev.state = "pending" /\ Captured(d) = {} /\ ~ev.resumable
  /\ ev.run # 0 => ev.run \in RunsFor(d)
  /\ ev.run # 0 /\ ev.state # "missed" => ev.state = runs[ev.run].state
  /\ ev.state = "missed" => Captured(d) = {}
  /\ ev.resumable => /\ ev.run # 0 /\ ~runs[ev.run].missed
                     /\ runs[ev.run].snap = "own" \/ Captured(d) = {}
  /\ ~ev.resumable /\ ev.state \notin {"succeeded", "running"} => Captured(d) = {}
  /\ Captured(d) # {} /\ ev.state # "succeeded" => ev.run \in Captured(d)

(* Evidence names a run of the date, or none.                              *)
LEMMA EvidenceFacts ==
  ASSUME runs \in Seq(RunType), \A r \in DOMAIN runs : RunOK(runs[r]), NEW d
  PROVE  EvidenceOK(d, Evidence(d))
<1> DEFINE rs == RunsFor(d)
           succeeded == {r \in rs : runs[r].state = "succeeded"}
           missed == {r \in rs : runs[r].missed}
           Follow(r, fresh) ==
             [state |-> runs[r].state, run |-> r,
              resumable |-> runs[r].state \in RESUMABLE /\ ~fresh]
<1> PICK ev : ev = Evidence(d)
  OBVIOUS
<1> SUFFICES EvidenceOK(d, ev)
  OBVIOUS
<1>0. Len(runs) \in Nat /\ DOMAIN runs = 1..Len(runs)
  OBVIOUS
<1>1. /\ rs \subseteq DOMAIN runs /\ succeeded \subseteq rs /\ missed \subseteq rs
      /\ Captured(d) \subseteq rs
  BY DEF RunsFor, Captured
<1>2. ASSUME NEW r \in rs
      PROVE  /\ RunOK(runs[r]) /\ r \in 1..Len(runs)
             /\ runs[r].state \in RunStates /\ runs[r].missed \in BOOLEAN
  <2>1. r \in DOMAIN runs
    BY <1>1
  <2>2. runs[r] \in RunType /\ r \in 1..Len(runs)
    BY <1>0, <2>1
  <2> QED BY <2>1, <2>2 DEF RunType
<1>3. CASE succeeded # {}
  <2> DEFINE r == Max(succeeded)
  <2>1. r \in succeeded
    BY <1>1, <1>3, LatestRun
  <2>2. ev = Follow(r, TRUE)
    BY <1>3 DEF Evidence
  <2> HIDE DEF r
  <2>3. ev.state = "succeeded" /\ ev.run = r /\ ~ev.resumable
    <3>1. ev.state = "succeeded" /\ ev.run = r
      BY <2>1, <2>2
    <3>2. Follow(r, TRUE).resumable = (runs[r].state \in RESUMABLE /\ ~TRUE)
      OBVIOUS
    <3> HIDE DEF Follow
    <3>3. ~ev.resumable
      BY <2>2, <3>2
    <3> QED BY <3>1, <3>3
  <2> QED BY <1>0, <1>2, <2>1, <2>3 DEF EvidenceOK, RunStates
<1>4. CASE succeeded = {} /\ Captured(d) # {}
  <2> DEFINE r == Max(Captured(d))
  <2>1. r \in Captured(d) /\ r \in rs
    BY <1>1, <1>4, LatestRun
  <2>2. ev = Follow(r, FALSE)
    BY <1>4 DEF Evidence
  <2>3. runs[r].snap = "own" /\ runs[r].state # "succeeded"
    BY <1>4, <2>1 DEF Captured
  <2> HIDE DEF r
  <2>4. /\ ev.state = runs[r].state /\ ev.run = r
        /\ ev.resumable <=> (runs[r].state \in RESUMABLE)
    <3>1. ev.state = runs[r].state /\ ev.run = r
      BY <2>2
    <3>2. Follow(r, FALSE).resumable = (runs[r].state \in RESUMABLE /\ ~FALSE)
      OBVIOUS
    <3> HIDE DEF Follow
    <3>3. ev.resumable <=> (runs[r].state \in RESUMABLE)
      BY <2>2, <3>2
    <3> QED BY <3>1, <3>3
  <2>5. runs[r].state \notin {"pending", "missed"} /\ ~runs[r].missed
    BY <1>2, <2>1, <2>3 DEF RunOK
  <2>6. runs[r].state \in RESUMABLE \cup {"running"}
    BY <1>2, <2>1, <2>3, <2>5 DEF RunStates, RESUMABLE
  <2> QED BY <1>0, <1>2, <2>1, <2>3, <2>4, <2>5, <2>6 DEF EvidenceOK
<1>5. CASE succeeded \cup Captured(d) = {} /\ missed # {}
  <2> DEFINE r == Max(missed)
  <2>1. r \in missed
    BY <1>1, <1>5, LatestRun
  <2>2. ev = [state |-> "missed", run |-> r, resumable |-> FALSE]
    BY <1>5 DEF Evidence
  <2> HIDE DEF r
  <2>3. ev.state = "missed" /\ ev.run = r /\ ~ev.resumable
    BY <2>2
  <2> QED BY <1>0, <1>2, <1>5, <2>1, <2>3 DEF EvidenceOK, RunStates
<1>6. CASE succeeded \cup Captured(d) \cup missed = {} /\ rs # {}
  <2> DEFINE r == Max(rs)
             fresh == r \in NoSession(d) \cup Anomaly(d)
  <2>1. r \in rs
    BY <1>1, <1>6, LatestRun
  <2>2. ev = Follow(r, fresh)
    BY <1>6 DEF Evidence
  <2> HIDE DEF r, fresh
  <2>3. /\ ev.state = runs[r].state /\ ev.run = r
        /\ ev.resumable <=> (runs[r].state \in RESUMABLE /\ ~fresh)
    <3>1. ev.state = runs[r].state /\ ev.run = r
      BY <2>2
    <3>2. Follow(r, fresh).resumable = (runs[r].state \in RESUMABLE /\ ~fresh)
      OBVIOUS
    <3> HIDE DEF Follow
    <3>3. ev.resumable <=> (runs[r].state \in RESUMABLE /\ ~fresh)
      BY <2>2, <3>2
    <3> QED BY <3>1, <3>3
  <2>4. ~runs[r].missed
    BY <1>2, <1>6, <2>1
  <2> QED BY <1>0, <1>2, <1>6, <2>1, <2>3, <2>4 DEF EvidenceOK
<1>7. CASE rs = {}
  <2>1. succeeded = {} /\ missed = {} /\ Captured(d) = {}
    BY <1>1, <1>7
  <2>2. ev = [state |-> "pending", run |-> 0, resumable |-> FALSE]
    BY <1>7, <2>1 DEF Evidence
  <2>3. ev.state = "pending" /\ ev.run = 0 /\ ~ev.resumable
    BY <2>2
  <2> QED BY <1>0, <1>0, <2>1, <2>3 DEF EvidenceOK, RunStates
<1> QED BY <1>1, <1>3, <1>4, <1>5, <1>6, <1>7

-----------------------------------------------------------------------------
(* Steps of the lock's holder, of a process outside it, and of the owner   *)

(* A waiting process stays right whatever runs are added.                  *)
LEMMA RestFits ==
  ASSUME NEW l, NEW rs, NEW new, l.pc \in {"idle", "ready"}, Fits(l, rs),
         DOMAIN rs \subseteq DOMAIN new
  PROVE  Fits(l, new)
BY DEF Fits, JobOK, SubOK, NoneRunning, CandidateOK, GateOK, WakePCs,
       MissedPCs, ReprocessPCs, ItemPCs, Reconciling, Capturing, Working, SubPCs

(* An idle process, and the end of a command, say nothing.                 *)
LEMMA EndFits ==
  ASSUME NEW l, NEW rs, l.pc \in {"idle", "finish"}
  PROVE  Fits(l, rs)
BY DEF Fits, JobOK, SubOK, NoneRunning, CandidateOK, GateOK, WakePCs,
       MissedPCs, ReprocessPCs, ItemPCs, Reconciling, Capturing, Working, SubPCs

(* The types of the variables a step under the lock may change.            *)
StoreType ==
  /\ runs \in Seq(RunType) /\ Len(runs) <= MaxRuns
  /\ item \in [Dates -> ItemType]
  /\ calendar \in [Dates -> {"unknown", "open", "closed"}]
  /\ used \in [1..(LastDay + 1) -> Nat]
  /\ bounds \in [manual : Nat, trouble : Nat]

(* The holder of the lock goes on as s.                                    *)
LEMMA HolderStep ==
  ASSUME SchedInv, NEW p \in Procs, Past(p), NEW s, s \in Locals,
         proc' = [proc EXCEPT ![p] = s],
         s.pc \notin {"idle", "ready"}, s.job = "wake" => proc[p].job = "wake",
         UNCHANGED <<clock, lock, armed, declaring, lease>>, StoreType',
         \A r \in DOMAIN runs' : RunOK(runs'[r]),
         Fits(s, runs'), DOMAIN runs \subseteq DOMAIN runs'
  PROVE  SchedInv'
<1>1. proc \in [Procs -> Locals]
  BY DEF SchedInv, TypeOK
<1>2. /\ proc' \in [Procs -> Locals] /\ proc'[p] = s
      /\ \A q \in Procs : q # p => proc'[q] = proc[q]
  BY <1>1
<1>3. \A q \in Procs : q # p => proc[q].pc \in {"idle", "ready"}
  <2>1. lock = p /\ \A q \in Procs : Past(q) => lock = q
    BY DEF SchedInv
  <2> QED BY <2>1 DEF Past
<1>4. TypeOK'
  BY <1>2 DEF SchedInv, TypeOK, StoreType
<1>5. \A q \in Procs : Past(q)' => lock' = q
  BY <1>2 DEF SchedInv, Past
<1>6. LiveLeaseStaysActive'
  BY <1>2, <1>3 DEF SchedInv, LiveLeaseStaysActive, Past
<1>7. \A q \in Procs : Fits(proc'[q], runs')
  <2>1. \A q \in Procs : q # p => Fits(proc[q], runs')
    BY <1>3, RestFits DEF SchedInv
  <2> QED BY <1>2, <2>1
<1> QED BY <1>4, <1>5, <1>6, <1>7 DEF SchedInv

(* The holder gives the lock back, by its end or its death.                *)
LEMMA ReleaseStep ==
  ASSUME SchedInv, NEW p \in Procs, Past(p),
         proc' = [proc EXCEPT ![p] = IdleProcess],
         UNCHANGED <<clock, armed, runs, item, calendar, declaring, used>>,
         lock' = IF lock = p THEN None ELSE lock,
         lease' \in [Procs -> {"active", "closed"}],
         bounds' \in [manual : Nat, trouble : Nat]
  PROVE  SchedInv'
<1>1. proc \in [Procs -> Locals]
  BY DEF SchedInv, TypeOK
<1>2. /\ proc' \in [Procs -> Locals] /\ proc'[p] = IdleProcess
      /\ \A q \in Procs : q # p => proc'[q] = proc[q]
  BY <1>1, IdleType
<1>3. \A q \in Procs : q # p => proc[q].pc \in {"idle", "ready"}
  <2>1. lock = p /\ \A q \in Procs : Past(q) => lock = q
    BY DEF SchedInv
  <2> QED BY <2>1 DEF Past
<1>4. \A q \in Procs : proc'[q].pc \in {"idle", "ready"}
  BY <1>2, <1>3, IdleType
<1>5. TypeOK'
  BY <1>2 DEF SchedInv, TypeOK
<1>6. \A q \in Procs : Fits(proc'[q], runs')
  <2>1. Fits(IdleProcess, runs')
    BY IdleType, EndFits
  <2> QED BY <1>2, <2>1 DEF SchedInv
<1>7. LiveLeaseStaysActive' /\ \A q \in Procs : Past(q)' => lock' = q
  BY <1>4 DEF LiveLeaseStaysActive, Past
<1> QED BY <1>5, <1>6, <1>7 DEF SchedInv

(* A process takes the free lock and goes on as s.                         *)
LEMMA TakeStep ==
  ASSUME SchedInv, NEW p \in Procs, LockFree, NEW s, s \in Locals,
         proc' = [proc EXCEPT ![p] = s],
         lock' = p, lease' \in [Procs -> {"active", "closed"}],
         s.job = "wake" => lease'[p] = "active",
         UNCHANGED <<clock, armed, declaring>>, StoreType',
         \A r \in DOMAIN runs' : RunOK(runs'[r]),
         Fits(s, runs'), DOMAIN runs \subseteq DOMAIN runs'
  PROVE  SchedInv'
<1>1. proc \in [Procs -> Locals]
  BY DEF SchedInv, TypeOK
<1>2. /\ proc' \in [Procs -> Locals] /\ proc'[p] = s
      /\ \A q \in Procs : q # p => proc'[q] = proc[q]
  BY <1>1
<1>3. \A q \in Procs : proc[q].pc \in {"idle", "ready"}
  BY ScheduleConstants DEF SchedInv, Past, LockFree
<1>4. TypeOK'
  BY <1>2 DEF SchedInv, TypeOK, StoreType
<1>5. \A q \in Procs : Past(q)' => lock' = q
  BY <1>2, <1>3 DEF Past
<1>6. LiveLeaseStaysActive'
  BY <1>2, <1>3 DEF LiveLeaseStaysActive
<1>7. \A q \in Procs : Fits(proc'[q], runs')
  <2>1. \A q \in Procs : q # p => Fits(proc[q], runs')
    BY <1>3, RestFits DEF SchedInv
  <2> QED BY <1>2, <2>1
<1> QED BY <1>4, <1>5, <1>6, <1>7 DEF SchedInv

(* A process outside the lock changes its own record alone.                *)
LEMMA OutsideStep ==
  ASSUME SchedInv, NEW p \in Procs, NEW s, s \in Locals,
         proc' = [proc EXCEPT ![p] = s], s.pc \in {"idle", "ready"}, Fits(s, runs),
         UNCHANGED <<clock, lock, armed, runs, item, calendar, declaring, used, lease>>,
         bounds' \in [manual : Nat, trouble : Nat]
  PROVE  SchedInv'
<1>1. proc \in [Procs -> Locals]
  BY DEF SchedInv, TypeOK
<1>2. /\ proc' \in [Procs -> Locals] /\ proc'[p] = s
      /\ \A q \in Procs : q # p => proc'[q] = proc[q]
  BY <1>1
<1>3. TypeOK'
  BY <1>2 DEF SchedInv, TypeOK
<1>4. \A q \in Procs : /\ Past(q)' => lock' = q
                       /\ Fits(proc'[q], runs')
  BY <1>2 DEF SchedInv, Past
<1>5. LiveLeaseStaysActive'
  BY <1>2 DEF SchedInv, LiveLeaseStaysActive
<1> QED BY <1>3, <1>4, <1>5 DEF SchedInv

(* An acknowledgement changes nothing else of the runs.                    *)
LEMMA AcknowledgedFits ==
  ASSUME NEW l, NEW rs, NEW new, Fits(l, rs), DOMAIN new = DOMAIN rs,
         \A r \in DOMAIN rs :
           /\ new[r].state = rs[r].state /\ new[r].date = rs[r].date
           /\ new[r].snap = rs[r].snap /\ new[r].missed = rs[r].missed
           /\ rs[r].acked => new[r].acked
  PROVE  Fits(l, new)
<1>1. \A d : CapturedIn(new, d) = CapturedIn(rs, d)
  BY DEF CapturedIn
<1>2. SubOK(l, new)
  BY <1>1 DEF Fits, SubOK, MissedPCs, ReprocessPCs, Capturing, Working, SubPCs
<1>3. CandidateOK(l, new)
  BY <1>1, <1>2 DEF Fits, CandidateOK, SubOK, Working, SubPCs
<1>4. NoneRunning(l, new) /\ GateOK(l, new)
  BY DEF Fits, NoneRunning, GateOK
<1> QED BY <1>2, <1>3, <1>4 DEF Fits

(* The actions of an item event.                                           *)
EventActions == {"create", "start", "resume", "observe", "reprocess",
                 "finalize", "record_missed", "refused"}

(* An event updates the record of its item.                                *)
EventRecord(it, state, action, run, now) ==
  [it EXCEPT !.state = state, !.action = action, !.run = run,
             !.tries = IF state = "running" THEN @ + 1 ELSE @,
             !.at = IF state = "running" THEN now ELSE @]

(* The fields of an item after an event.                                   *)
LEMMA EventRecordType ==
  ASSUME NEW it \in ItemType, NEW state \in ItemStates, NEW action \in EventActions,
         NEW run \in 0..MaxRuns, NEW now \in 0..EndTime
  PROVE  /\ EventRecord(it, state, action, run, now) \in ItemType
         /\ EventRecord(it, state, action, run, now).state = state
         /\ EventRecord(it, state, action, run, now).action = action
         /\ EventRecord(it, state, action, run, now).run = run
         /\ state # "running" => EventRecord(it, state, action, run, now).tries = it.tries
<1> DEFINE tries == IF state = "running" THEN it.tries + 1 ELSE it.tries
           at == IF state = "running" THEN now ELSE it.at
<1>1. EventRecord(it, state, action, run, now) =
        [it EXCEPT !.state = state, !.action = action, !.run = run,
                   !.tries = tries, !.at = at]
  BY DEF EventRecord, ItemType
<1>2. /\ tries \in Nat /\ at \in 0..EndTime
      /\ state # "running" => tries = it.tries
  BY DEF ItemType
<1> HIDE DEF tries, at
<1> QED BY <1>1, <1>2 DEF ItemType, EventActions

(* A recorded event, or a refused one.                                     *)
LEMMA EventEffect ==
  ASSUME TypeOK, NEW p \in Procs, NEW d \in Dates, NEW state \in ItemStates,
         NEW action \in EventActions, NEW run \in 0..MaxRuns, NEW next,
         Event(p, d, state, action, run, next)
  PROVE  /\ item' \in [Dates -> ItemType]
         /\ \A e \in Dates : e # d => item'[e] = item[e]
         /\ \/ /\ GuardAccepts(d, state, run)
               /\ item'[d] = EventRecord(item[d], state, action, run, proc[p].now)
               /\ proc' = [proc EXCEPT ![p] = next]
            \/ /\ ~GuardAccepts(d, state, run)
               /\ item' = item /\ proc' = [proc EXCEPT ![p] = Ended(FALSE)]
<1>1. item \in [Dates -> ItemType] /\ proc[p].now \in 0..EndTime
  BY DEF TypeOK, Locals
<1>2. CASE GuardAccepts(d, state, run)
  <2> DEFINE n == EventRecord(item[d], state, action, run, proc[p].now)
  <2>0. /\ item' = [item EXCEPT
              ![d].state = state, ![d].action = action, ![d].run = run,
              ![d].tries = IF state = "running" THEN @ + 1 ELSE @,
              ![d].at = IF state = "running" THEN proc[p].now ELSE @]
        /\ proc' = [proc EXCEPT ![p] = next]
    BY <1>2 DEF Event
  <2>1. item' = [item EXCEPT ![d] = n] /\ proc' = [proc EXCEPT ![p] = next]
    BY <1>1, <2>0 DEF EventRecord, ItemType
  <2>2. n \in ItemType
    BY <1>1, EventRecordType
  <2> HIDE DEF n
  <2>3. /\ item' \in [Dates -> ItemType] /\ item'[d] = n
        /\ \A e \in Dates : e # d => item'[e] = item[e]
    BY <1>1, <2>1, <2>2
  <2> QED BY <1>2, <2>1, <2>3 DEF n
<1>3. CASE ~GuardAccepts(d, state, run)
  <2>1. item' = item /\ proc' = [proc EXCEPT ![p] = Ended(FALSE)]
    BY <1>3 DEF Event, Stop
  <2> QED BY <1>1, <1>3, <2>1
<1> QED BY <1>2, <1>3

(* The holder records an event and goes on, or ends.                       *)
LEMMA EventStep ==
  ASSUME SchedInv, NEW p \in Procs, Past(p), NEW d \in Dates,
         NEW state \in ItemStates, NEW action \in EventActions,
         NEW run \in 0..MaxRuns, NEW next, next \in Locals,
         Event(p, d, state, action, run, next),
         next.pc \notin {"idle", "ready"},
         next.job = "wake" => proc[p].job = "wake", Fits(next, runs),
         UNCHANGED <<clock, lock, armed, runs, calendar, declaring, used, lease>>,
         bounds' \in [manual : Nat, trouble : Nat]
  PROVE  SchedInv'
<1>1. TypeOK /\ \A r \in DOMAIN runs : RunOK(runs[r])
  BY DEF SchedInv
<1>2. item' \in [Dates -> ItemType]
  BY <1>1, EventEffect
<1>3. StoreType'
  BY <1>1, <1>2 DEF TypeOK, StoreType
<1>4. CASE proc' = [proc EXCEPT ![p] = next]
  BY <1>1, <1>3, <1>4, HolderStep
<1>5. CASE proc' = [proc EXCEPT ![p] = Ended(FALSE)]
  <2> DEFINE s == Ended(FALSE)
  <2>1. s \in Locals /\ s.pc = "finish" /\ s.job = "manual"
    BY EndedFields
  <2> HIDE DEF s
  <2>2. Fits(s, runs)
    BY <2>1, EndFits
  <2>3. proc' = [proc EXCEPT ![p] = s]
    BY <1>5 DEF s
  <2> QED BY <1>1, <1>3, <2>1, <2>2, <2>3, HolderStep
<1>6. proc' = [proc EXCEPT ![p] = next] \/ proc' = [proc EXCEPT ![p] = Ended(FALSE)]
  BY DEF Event, Stop
<1> QED BY <1>4, <1>5, <1>6

(* The holder ends.                                                        *)
LEMMA EndStep ==
  ASSUME SchedInv, NEW p \in Procs, Past(p), NEW done \in BOOLEAN,
         proc' = [proc EXCEPT ![p] = Ended(done)],
         UNCHANGED <<clock, lock, armed, declaring, lease>>, StoreType',
         \A r \in DOMAIN runs' : RunOK(runs'[r]), DOMAIN runs \subseteq DOMAIN runs'
  PROVE  SchedInv'
<1> DEFINE s == Ended(done)
<1>1. s \in Locals /\ s.pc = "finish" /\ s.job = "manual"
  BY EndedFields
<1>2. Fits(s, runs')
  BY <1>1, EndFits
<1> HIDE DEF s
<1>3. proc' = [proc EXCEPT ![p] = s]
  BY DEF s
<1> QED BY <1>1, <1>2, <1>3, HolderStep

(* A step that leaves the stores alone keeps their types.                  *)
LEMMA SameStore ==
  ASSUME SchedInv, UNCHANGED <<runs, item, calendar, used>>,
         bounds' \in [manual : Nat, trouble : Nat]
  PROVE  /\ StoreType' /\ (\A r \in DOMAIN runs' : RunOK(runs'[r]))
         /\ DOMAIN runs \subseteq DOMAIN runs'
BY DEF SchedInv, TypeOK, StoreType

(* One more of the bounded commands or troubles is spent.                  *)
LEMMA SpentType ==
  ASSUME NEW b \in [manual : Nat, trouble : Nat]
  PROVE  /\ b.manual > 0 => [b EXCEPT !.manual = @ - 1] \in [manual : Nat, trouble : Nat]
         /\ b.trouble > 0 => [b EXCEPT !.trouble = @ - 1] \in [manual : Nat, trouble : Nat]
OBVIOUS

-----------------------------------------------------------------------------
(* Recovery and discovery                                                  *)

(* What the invariant says of the holder and of the runs.                  *)
LEMMA HolderFacts ==
  ASSUME SchedInv, NEW p \in Procs
  PROVE  /\ proc \in [Procs -> Locals] /\ proc[p] \in Locals /\ proc[p].pc \in PCs
         /\ Fits(proc[p], runs)
         /\ runs \in Seq(RunType) /\ Len(runs) \in Nat /\ DOMAIN runs = 1..Len(runs)
         /\ Len(runs) <= MaxRuns
         /\ \A r \in DOMAIN runs : RunOK(runs[r]) /\ runs[r] \in RunType
         /\ item \in [Dates -> ItemType]
         /\ bounds \in [manual : Nat, trouble : Nat]
<1>1. proc \in [Procs -> Locals] /\ runs \in Seq(RunType)
  BY DEF SchedInv, TypeOK
<1>2. proc[p] \in Locals /\ Len(runs) \in Nat /\ DOMAIN runs = 1..Len(runs)
      /\ \A r \in DOMAIN runs : runs[r] \in RunType
  BY <1>1
<1>3. proc[p].pc \in PCs
  BY <1>2 DEF Locals
<1> QED BY <1>1, <1>2, <1>3 DEF SchedInv, TypeOK

(* mark_abandoned keeps every run as it should be.                         *)
LEMMA AbandonedOK ==
  ASSUME SchedInv
  PROVE  /\ Abandoned(runs) \in Seq(RunType) /\ Len(Abandoned(runs)) <= MaxRuns
         /\ DOMAIN Abandoned(runs) = DOMAIN runs
         /\ \A r \in DOMAIN runs : /\ RunOK(Abandoned(runs)[r])
                                   /\ Abandoned(runs)[r].state # "running"
<1>1. runs \in Seq(RunType) /\ Len(runs) <= MaxRuns
  BY DEF SchedInv, TypeOK
<1>2. \A r \in DOMAIN runs : RunOK(Abandoned(runs)[r])
  BY <1>1, AbandonedFacts DEF SchedInv, RunOK
<1>3. \A r \in DOMAIN runs : Abandoned(runs)[r].state # "running"
  BY <1>1, AbandonedFacts
<1> QED BY <1>1, <1>2, <1>3, AbandonedFacts

(* p2.recover.                                                             *)
LEMMA RecoverStep ==
  ASSUME SchedInv, NEW p \in Procs, Recover(p)
  PROVE  SchedInv'
<1> DEFINE l == proc[p]
           s == [l EXCEPT !.pc = "discover", !.armed = FALSE]
<1>1. /\ l \in Locals /\ Fits(l, runs) /\ l.pc = "recover" /\ Past(p)
      /\ proc \in [Procs -> Locals] /\ runs' = Abandoned(runs)
  BY HolderFacts DEF Recover, At, Past
<1>2. /\ runs' \in Seq(RunType) /\ Len(runs') <= MaxRuns /\ DOMAIN runs' = DOMAIN runs
      /\ \A r \in DOMAIN runs' : RunOK(runs'[r]) /\ runs'[r].state # "running"
  BY <1>1, AbandonedOK
<1>3. StoreType'
  BY <1>2 DEF Recover, StoreType, SchedInv, TypeOK
<1>4. CASE l.armed
  <2>1. proc' = [proc EXCEPT ![p] = s]
    BY <1>1, <1>4 DEF Recover
  <2>2. s \in Locals /\ s.pc = "discover" /\ KeepsPlan(l, s)
    BY <1>1 DEF Locals, PCs, KeepsPlan
  <2> HIDE DEF s
  <2>3. Fits(s, runs')
    BY <1>1, <1>2, <2>2 DEF KeepsPlan, Fits, JobOK, SubOK, NoneRunning, CandidateOK, GateOK, 
       WakePCs, MissedPCs, ReprocessPCs, ItemPCs, Reconciling, Capturing, Working,
       SubPCs, Settled
  <2> QED BY <1>1, <1>2, <1>3, <2>1, <2>2, <2>3, HolderStep DEF Recover, KeepsPlan
<1>5. CASE ~l.armed
  <2>1. proc' = [proc EXCEPT ![p] = Ended(FALSE)]
    BY <1>5 DEF Recover, Stop
  <2> QED BY <1>1, <1>2, <1>3, <2>1, EndStep DEF Recover
<1> QED BY <1>4, <1>5

(* A wake-up refused for its host or clock.                                *)
LEMMA RefuseWakeStep ==
  ASSUME SchedInv, NEW p \in Procs, RefuseWake(p)
  PROVE  SchedInv'
<1>1. Past(p) /\ proc' = [proc EXCEPT ![p] = Ended(FALSE)]
  BY DEF RefuseWake, At, Past, Stop
<1>2. bounds' \in [manual : Nat, trouble : Nat]
  BY HolderFacts, SpentType DEF RefuseWake
<1> QED BY <1>1, <1>2, SameStore, EndStep DEF RefuseWake

(* _discover.                                                              *)
LEMMA DiscoverStep ==
  ASSUME SchedInv, NEW p \in Procs, Discover(p)
  PROVE  SchedInv'
<1> DEFINE l == proc[p]
           missing == MissingItems(ColomboDate(l.now))
           gap == ~l.confirm /\ \E d \in missing : d + MaxCatchUp < ColomboDate(l.now)
           s == [l EXCEPT !.pc = "sync", !.todo = OpenItems,
                          !.gate = UnacknowledgedBlocks # {}]
<1>1. /\ l \in Locals /\ Fits(l, runs) /\ l.pc = "discover" /\ Past(p)
      /\ proc \in [Procs -> Locals] /\ item \in [Dates -> ItemType]
      /\ UNCHANGED <<clock, lock, armed, runs, calendar, declaring, used, lease, bounds>>
  BY HolderFacts DEF Discover, At, Past
<1>2. bounds' \in [manual : Nat, trouble : Nat]
  BY <1>1, HolderFacts
<1>3. CASE gap
  <2>1. proc' = [proc EXCEPT ![p] = Ended(FALSE)] /\ item' = item
    BY <1>3 DEF Discover, Stop
  <2> QED BY <1>1, <1>2, <2>1, SameStore, EndStep
<1>4. CASE ~gap /\ missing # {}
  <2>1. item' = [item EXCEPT ![Min(missing)].state = "pending"] /\ proc' = proc
    BY <1>4 DEF Discover
  <2>2. item' \in [Dates -> ItemType]
    <3>1. \A i \in ItemType : [i EXCEPT !.state = "pending"] \in ItemType
      BY DEF ItemType, ItemStates, RunStates
    <3> QED BY <1>1, <2>1, <3>1
  <2> QED BY <1>1, <2>1, <2>2
          DEF SchedInv, TypeOK, Past, LiveLeaseStaysActive
<1>5. CASE ~gap /\ missing = {}
  <2>1. proc' = [proc EXCEPT ![p] = s] /\ item' = item
    BY <1>1, <1>5 DEF Discover
  <2>2. /\ s \in Locals /\ s.pc = "sync" /\ s.job = l.job /\ s.date = l.date
        /\ s.again = l.again /\ s.blocked = l.blocked
        /\ s.gate = (UnacknowledgedBlocks # {})
    <3>1. OpenItems \in SUBSET Dates /\ (UnacknowledgedBlocks # {}) \in BOOLEAN
      BY DEF OpenItems
    <3> DEFINE T == OpenItems
               G == UnacknowledgedBlocks # {}
    <3> HIDE DEF T, G
    <3>2. T \in SUBSET Dates /\ G \in BOOLEAN
      BY <3>1 DEF T, G
    <3>3. s = [l EXCEPT !.pc = "sync", !.todo = T, !.gate = G]
      BY DEF T, G
    <3> HIDE DEF s
    <3>4. /\ s \in Locals /\ s.pc = "sync" /\ s.job = l.job /\ s.date = l.date
          /\ s.again = l.again /\ s.blocked = l.blocked /\ s.gate = G
      BY <1>1, <3>2, <3>3 DEF Locals, PCs
    <3> QED BY <3>4 DEF G
  <2>3. ~s.gate => \A r \in DOMAIN runs : runs[r].state = "blocked" => runs[r].acked
    BY <2>2 DEF UnacknowledgedBlocks
  <2> HIDE DEF s
  <2>4. Fits(s, runs)
    BY <1>1, <2>2, <2>3 DEF Fits, JobOK, SubOK, NoneRunning, CandidateOK, GateOK, 
       WakePCs, MissedPCs, ReprocessPCs, ItemPCs, Reconciling, Capturing, Working,
       SubPCs, Settled
  <2> QED BY <1>1, <1>2, <2>1, <2>2, <2>4, SameStore, HolderStep
<1> QED BY <1>3, <1>4, <1>5

-----------------------------------------------------------------------------
(* planner.decide                                                          *)

(* What a decision is worth while no other run is at work: nothing is      *)
(* closed that was captured, and nothing captured is started again.        *)
DecisionOK(d, dec) ==
  /\ dec.run \in 0..Len(runs)
  /\ dec.kind \in {"not_applicable", "record_missed"} => Captured(d) = {}
  /\ dec.kind \in {"finalize", "reprocess"} => dec.run = Evidence(d).run
  /\ dec.kind = "finalize" => Captured(d) # {}
  /\ dec.kind = "reprocess" => dec.run \in Captured(d)
                               /\ Evidence(d).state # "succeeded"
  /\ dec.kind = "capture" =>
       \/ dec.action = "start" /\ dec.run = 0 /\ Captured(d) = {}
       \/ /\ dec.action = "resume" /\ dec.run \in RunsFor(d)
          /\ ~runs[dec.run].missed
          /\ runs[dec.run].snap = "own" \/ Captured(d) = {}

(* What a decision tells about the evidence it was taken on.               *)
LEMMA DecideFacts ==
  ASSUME runs \in Seq(RunType), \A r \in DOMAIN runs : RunOK(runs[r]),
         \A r \in DOMAIN runs : runs[r].state # "running",
         NEW d, NEW now, NEW gate, NEW ignore
  PROVE  DecisionOK(d, Decide(d, now, gate, ignore))
<1> PICK dec : dec = Decide(d, now, gate, ignore)
  OBVIOUS
<1> PICK ev : ev = Evidence(d)
  OBVIOUS
<1> DEFINE captured == Captured(d) # {}
           closed == now >= WindowClosesAt(d)
           limit == IF ignore THEN HardMaxAttempts ELSE MaxAttempts
           Dec(kind, run) == [kind |-> kind, action |-> "none", run |-> run]
<1> SUFFICES DecisionOK(d, dec)
  OBVIOUS
<1>1. EvidenceOK(d, ev) /\ Len(runs) \in Nat /\ DOMAIN runs = 1..Len(runs)
  BY EvidenceFacts
<1>2. ev.state # "running"
  BY <1>1 DEF EvidenceOK, RunsFor
<1>3. ~captured /\ Cardinality(NoSession(d)) >= Confirmations =>
        Max(NoSession(d)) \in 0..Len(runs)
  <2> HAVE ~captured /\ Cardinality(NoSession(d)) >= Confirmations
  <2>1. Cardinality({}) = 0
    BY FS_EmptySet
  <2>2. NoSession(d) # {}
    <3>1. Confirmations \in Nat \ {0}
      BY ScheduleConstants
    <3>2. ASSUME NoSession(d) = {}
          PROVE  FALSE
      <4>1. Cardinality(NoSession(d)) = 0
        BY <2>1, <3>2
      <4> QED BY <3>1, <4>1
    <3> QED BY <3>2
  <2>3. Max(NoSession(d)) \in DOMAIN runs
    BY <2>2, LatestRun DEF NoSession, RunsFor
  <2> QED BY <1>1, <2>3
<1>4. CASE dec = Dec("wait", 0)
  <2>1. dec.kind = "wait" /\ dec.run = 0
    BY <1>4
  <2> QED BY <1>1, <2>1 DEF DecisionOK
<1>5. CASE /\ dec \in {Dec("not_applicable", 0), Dec("not_applicable", Max(NoSession(d)))}
           /\ Captured(d) = {} /\ dec.run \in 0..Len(runs)
  <2>1. dec.kind = "not_applicable"
    BY <1>5
  <2> QED BY <1>5, <2>1 DEF DecisionOK
<1>6. CASE dec = Dec("reprocess", ev.run) /\ captured /\ ev.state \in {"abandoned", "failed"}
  <2>1. dec.kind = "reprocess" /\ dec.run = ev.run
    BY <1>6
  <2> QED BY <1>1, <1>6, <2>1 DEF DecisionOK, EvidenceOK
<1>7. CASE dec = Dec("finalize", ev.run) /\ captured
  <2>1. dec.kind = "finalize" /\ dec.run = ev.run
    BY <1>7
  <2> QED BY <1>1, <1>7, <2>1 DEF DecisionOK, EvidenceOK
<1>8. CASE dec = Dec("record_missed", 0) /\ ~captured
  <2>1. dec.kind = "record_missed" /\ dec.run = 0
    BY <1>8
  <2> QED BY <1>1, <1>8, <2>1 DEF DecisionOK
<1>9. CASE /\ dec = [kind |-> "capture",
                     action |-> IF ev.resumable THEN "resume" ELSE "start",
                     run |-> IF ev.resumable THEN ev.run ELSE 0]
           /\ ev.state # "succeeded"
  <2>1. /\ dec.kind = "capture"
        /\ dec.action = IF ev.resumable THEN "resume" ELSE "start"
        /\ dec.run = IF ev.resumable THEN ev.run ELSE 0
    BY <1>9
  <2> QED BY <1>1, <1>2, <1>9, <2>1 DEF DecisionOK, EvidenceOK, RunsFor
<1>10. \/ dec = Dec("wait", 0)
       \/ Captured(d) = {} /\ dec = Dec("not_applicable", 0)
       \/ /\ ~captured /\ Cardinality(NoSession(d)) >= Confirmations
          /\ dec = Dec("not_applicable", Max(NoSession(d)))
       \/ captured /\ ev.state \in {"abandoned", "failed"} /\ dec = Dec("reprocess", ev.run)
       \/ captured /\ dec = Dec("finalize", ev.run)
       \/ ~captured /\ dec = Dec("record_missed", 0)
       \/ /\ ev.state # "succeeded"
          /\ dec = [kind |-> "capture",
                    action |-> IF ev.resumable THEN "resume" ELSE "start",
                    run |-> IF ev.resumable THEN ev.run ELSE 0]
  BY DEF Decide
<1> QED BY <1>1, <1>3, <1>4, <1>5, <1>6, <1>7, <1>8, <1>9, <1>10

-----------------------------------------------------------------------------
(* Reconciling the open items                                              *)

(* The item at work is a trading date.                                     *)
LEMMA CurrentDate ==
  ASSUME NEW todo \in SUBSET Dates, todo # {}
  PROVE  Min(todo) \in todo /\ Min(todo) \in Dates
<1>1. LastDay \in Nat /\ todo \in SUBSET (0..LastDay)
  BY Bounds
<1>2. Min(todo) \in todo
  BY <1>1, MinOfNaturals
<1> QED BY <1>2

(* An update that keeps its session keeps the captures of every date.      *)
LEMMA UpdateCaptured ==
  ASSUME NEW rs \in Seq(RunType), NEW r \in DOMAIN rs, NEW n \in RunType,
         n.date = rs[r].date, n.snap = rs[r].snap
  PROVE  \A d : CapturedIn([rs EXCEPT ![r] = n], d) = CapturedIn(rs, d)
BY RunUpdate DEF CapturedIn

(* A new run has captured nothing.                                         *)
LEMMA AppendCaptured ==
  ASSUME NEW rs \in Seq(RunType), NEW n \in RunType, n.snap # "own"
  PROVE  \A d : CapturedIn(Append(rs, n), d) = CapturedIn(rs, d)
BY AppendFacts DEF CapturedIn

(* Taking up an item.                                                      *)
LEMMA TakeUpFits ==
  ASSUME NEW l, NEW s, NEW rs, Fits(l, rs), l.pc = "sync", s.pc = "decide",
         KeepsPlan(l, s), s.todo # {}
  PROVE  Fits(s, rs)
BY DEF KeepsPlan, Fits, JobOK, SubOK, NoneRunning, CandidateOK, GateOK, 
       WakePCs, MissedPCs, ReprocessPCs, ItemPCs, Reconciling, Capturing, Working,
       SubPCs, Settled

(* Done with an item.                                                      *)
LEMMA AdvanceFits ==
  ASSUME NEW l, NEW s, NEW rs, Fits(l, rs),
         l.pc \in {"decide", "missed_item", "reprocess"}, l.job = "wake",
         s.pc = "sync", KeepsPlan(l, s)
  PROVE  Fits(s, rs)
BY DEF KeepsPlan, Fits, JobOK, SubOK, NoneRunning, CandidateOK, GateOK, 
       WakePCs, MissedPCs, ReprocessPCs, ItemPCs, Reconciling, Capturing, Working,
       SubPCs, Settled

(* _sync.                                                                  *)
LEMMA SyncStep ==
  ASSUME SchedInv, NEW p \in Procs, Sync(p)
  PROVE  SchedInv'
<1> DEFINE l == proc[p]
           d == Current(p)
           s == [l EXCEPT !.pc = "decide"]
<1> PICK ev : ev = Evidence(d)
  OBVIOUS
<1>1. /\ l \in Locals /\ Fits(l, runs) /\ l.pc = "sync" /\ Past(p) /\ l.todo # {}
      /\ proc \in [Procs -> Locals] /\ bounds \in [manual : Nat, trouble : Nat]
      /\ UNCHANGED <<clock, lock, armed, runs, calendar, declaring, used, lease, bounds>>
      /\ bounds' \in [manual : Nat, trouble : Nat]
  BY HolderFacts DEF Sync, At, Past
<1>2. s \in Locals /\ s.pc = "decide" /\ s.todo = l.todo /\ KeepsPlan(l, s)
  <2>1. "decide" \in PCs
    BY DEF PCs
  <2> QED BY <1>1, <2>1, GotoFields
<1>3. d \in Dates
  BY <1>1, CurrentDate DEF Locals, Current
<1>4. EvidenceOK(d, ev) /\ Len(runs) \in Nat /\ Len(runs) <= MaxRuns
  BY HolderFacts, EvidenceFacts
<1>5. CASE Unrecorded(d)
  <2> DEFINE run == IF ev.state = "pending" THEN 0 ELSE ev.run
  <2>1. Event(p, d, ev.state, "observe", run, s)
    BY <1>5 DEF Sync
  <2>2. run \in 0..MaxRuns /\ ev.state \in ItemStates /\ "observe" \in EventActions
    BY <1>4, Bounds DEF EvidenceOK, ItemStates, EventActions
  <2> HIDE DEF s, run, d
  <2>3. Fits(s, runs)
    BY <1>1, <1>2, TakeUpFits
  <2> QED BY <1>1, <1>2, <1>3, <2>1, <2>2, <2>3, EventStep DEF KeepsPlan
<1>6. CASE ~Unrecorded(d)
  <2>1. proc' = [proc EXCEPT ![p] = s] /\ item' = item
    BY <1>6 DEF Sync, Goto
  <2> HIDE DEF s, d
  <2>3. Fits(s, runs)
    BY <1>1, <1>2, TakeUpFits
  <2> QED BY <1>1, <1>2, <2>1, <2>3, SameStore, HolderStep DEF KeepsPlan
<1> QED BY <1>5, <1>6

(* What a process at "decide" knows.                                       *)
LEMMA DecideState ==
  ASSUME SchedInv, NEW p \in Procs, At(p, "decide")
  PROVE  /\ proc[p] \in Locals /\ Fits(proc[p], runs) /\ Past(p)
         /\ proc[p].pc = "decide" /\ proc[p].job = "wake" /\ proc[p].todo # {}
         /\ Current(p) \in Dates /\ Current(p) \in proc[p].todo
         /\ Current(p) = Min(proc[p].todo)
         /\ \A r \in DOMAIN runs : runs[r].state # "running"
         /\ DecisionOK(Current(p), DecisionOf(p))
         /\ EvidenceOK(Current(p), Evidence(Current(p)))
<1>1. /\ proc[p] \in Locals /\ Fits(proc[p], runs) /\ Past(p)
      /\ proc[p].pc = "decide" /\ runs \in Seq(RunType)
      /\ \A r \in DOMAIN runs : RunOK(runs[r])
  BY HolderFacts DEF At, Past
<1>2. /\ proc[p].job = "wake" /\ proc[p].todo # {}
      /\ \A r \in DOMAIN runs : runs[r].state # "running"
  BY <1>1 DEF Fits, JobOK, SubOK, NoneRunning, CandidateOK, GateOK, 
       WakePCs, MissedPCs, ReprocessPCs, ItemPCs, Reconciling, Capturing, Working,
       SubPCs, Settled
<1>3. /\ Current(p) \in Dates /\ Current(p) \in proc[p].todo
      /\ Current(p) = Min(proc[p].todo)
  BY <1>1, <1>2, CurrentDate DEF Current, Locals
<1>4. DecisionOK(Current(p), DecisionOf(p))
  BY <1>1, <1>2, DecideFacts DEF DecisionOf
<1> QED BY <1>1, <1>2, <1>3, <1>4, EvidenceFacts

(* The first capture decision is kept as the wake-up's candidate.          *)
Candidate(l, d, dec) ==
  [Advance(l) EXCEPT !.date = d, !.run = dec.run, !.action = dec.action]

(* The fields of a wake-up that keeps a capture for later.                 *)
LEMMA CandidateFields ==
  ASSUME NEW l \in Locals, NEW d \in Dates, NEW dec, dec.run \in 0..MaxRuns,
         dec.action \in CAPTURE_ACTIONS
  PROVE  /\ Candidate(l, d, dec) \in Locals /\ Candidate(l, d, dec).pc = "sync"
         /\ Candidate(l, d, dec).date = d /\ Candidate(l, d, dec).run = dec.run
         /\ Candidate(l, d, dec).action = dec.action
         /\ Candidate(l, d, dec).job = l.job
         /\ Candidate(l, d, dec).again = l.again
         /\ Candidate(l, d, dec).gate = l.gate
         /\ Candidate(l, d, dec).blocked = l.blocked
         /\ Candidate(l, d, dec).todo = l.todo \ {Min(l.todo)}
<1> DEFINE a == Advance(l)
<1>1. /\ a \in Locals /\ a.pc = "sync" /\ a.todo = l.todo \ {Min(l.todo)}
      /\ KeepsPlan(l, a)
  BY AdvanceFields
<1> HIDE DEF a
<1>2. Candidate(l, d, dec) = [a EXCEPT !.date = d, !.run = dec.run, !.action = dec.action]
  BY DEF Candidate, a
<1>3. d \in 0..LastDay
  BY Bounds
<1>4. Candidate(l, d, dec) \in Locals
  BY <1>1, <1>2, <1>3 DEF Locals
<1>5. /\ Candidate(l, d, dec).pc = a.pc /\ Candidate(l, d, dec).todo = a.todo
      /\ Candidate(l, d, dec).date = d /\ Candidate(l, d, dec).run = dec.run
      /\ Candidate(l, d, dec).action = dec.action
  BY <1>1, <1>2 DEF Locals
<1>6. /\ Candidate(l, d, dec).job = a.job /\ Candidate(l, d, dec).again = a.again
      /\ Candidate(l, d, dec).gate = a.gate /\ Candidate(l, d, dec).blocked = a.blocked
  BY <1>1, <1>2 DEF Locals
<1> QED BY <1>1, <1>4, <1>5, <1>6 DEF KeepsPlan

(* wait, not_applicable, finalize, capture.                                *)
LEMMA ApplyStep ==
  ASSUME SchedInv, NEW p \in Procs, Apply(p)
  PROVE  SchedInv'
<1> DEFINE l == proc[p]
           d == Current(p)
           s == Advance(l)
           c == Candidate(l, d, DecisionOf(p))
           candidate == /\ DecisionOf(p).kind = "capture" /\ ~l.again /\ l.date = 0
                        /\ l.only \in {0, d}
<1> PICK dec : dec = DecisionOf(p)
  OBVIOUS
<1>1. /\ l \in Locals /\ Fits(l, runs) /\ l.pc = "decide" /\ Past(p) /\ l.job = "wake"
      /\ d \in Dates /\ DecisionOK(d, dec) /\ EvidenceOK(d, Evidence(d))
      /\ \A r \in DOMAIN runs : runs[r].state # "running"
      /\ Len(runs) \in Nat /\ Len(runs) <= MaxRuns /\ DOMAIN runs = 1..Len(runs)
      /\ UNCHANGED <<clock, lock, armed, runs, calendar, declaring, used, lease, bounds>>
      /\ bounds' \in [manual : Nat, trouble : Nat]
  BY DecideState, HolderFacts DEF Apply
<1>2. s \in Locals /\ s.pc = "sync" /\ KeepsPlan(l, s)
  BY <1>1, AdvanceFields
<1>3. dec.run \in 0..MaxRuns
  BY <1>1, Bounds DEF DecisionOK
<1>4. Fits(s, runs)
  <2> HIDE DEF s
  <2> QED BY <1>1, <1>2, AdvanceFits
<1>5. CASE dec.kind = "not_applicable"
  <2>1. Event(p, d, "not_applicable", "finalize", dec.run, s)
    BY <1>5 DEF Apply
  <2>2. "not_applicable" \in ItemStates /\ "finalize" \in EventActions
    BY DEF ItemStates, EventActions
  <2> HIDE DEF s, d
  <2> QED BY <1>1, <1>2, <1>3, <1>4, <2>1, <2>2, EventStep DEF KeepsPlan
<1>6. CASE dec.kind = "finalize"
  <2>1. Event(p, d, Evidence(d).state, "finalize", dec.run, s)
    BY <1>6 DEF Apply
  <2>2. Evidence(d).state \in ItemStates /\ "finalize" \in EventActions
    BY <1>1 DEF EvidenceOK, ItemStates, EventActions
  <2> HIDE DEF s, d
  <2> QED BY <1>1, <1>2, <1>3, <1>4, <2>1, <2>2, EventStep DEF KeepsPlan
<1>7. CASE dec.kind \in {"wait", "capture"}
  <2>0. proc' = [proc EXCEPT ![p] = IF candidate THEN c ELSE s] /\ item' = item
    BY <1>7 DEF Apply, Candidate
  <2>1. CASE ~candidate
    <3>1. proc' = [proc EXCEPT ![p] = s]
      BY <2>0, <2>1
    <3> HIDE DEF s, d
    <3> QED BY <1>1, <1>2, <1>4, <2>0, <3>1, SameStore, HolderStep DEF KeepsPlan
  <2>2. CASE candidate
    <3>1. proc' = [proc EXCEPT ![p] = c]
      BY <2>0, <2>2
    <3>2. dec.action \in CAPTURE_ACTIONS
      BY <1>1, <2>2 DEF DecisionOK, CAPTURE_ACTIONS
    <3>3. /\ c \in Locals /\ c.pc = "sync" /\ c.date = d /\ c.run = dec.run
          /\ c.action = dec.action /\ c.job = l.job /\ c.again = l.again
          /\ c.gate = l.gate /\ c.blocked = l.blocked
      BY <1>1, <1>3, <3>2, CandidateFields
    <3>4. Captured(d) = CapturedIn(runs, d)
      BY DEF Captured, RunsFor, CapturedIn
    <3>5. \/ dec.action = "start" /\ CapturedIn(runs, d) = {}
          \/ /\ dec.action = "resume" /\ dec.run \in DOMAIN runs
             /\ ~runs[dec.run].missed /\ runs[dec.run].date = d
             /\ runs[dec.run].snap = "own" \/ CapturedIn(runs, d) = {}
      BY <1>1, <2>2, <3>4 DEF DecisionOK, RunsFor
    <3> HIDE DEF c, d
    <3>6. Fits(c, runs)
      BY <1>1, <3>3, <3>5 DEF Fits, JobOK, SubOK, NoneRunning, CandidateOK, GateOK, 
       WakePCs, MissedPCs, ReprocessPCs, ItemPCs, Reconciling, Capturing, Working,
       SubPCs, Settled
    <3> QED BY <1>1, <2>0, <3>1, <3>3, <3>6, SameStore, HolderStep
  <2> QED BY <2>1, <2>2
<1> QED BY <1>5, <1>6, <1>7 DEF Apply

-----------------------------------------------------------------------------
(* Missed records, reprocessing                                            *)

(* A new run under the lock.                                               *)
LEMMA CreateFacts ==
  ASSUME SchedInv, NEW d \in Dates, NEW missed \in BOOLEAN, NEW manual \in BOOLEAN,
         NEW cap \in 0..RunCap, Len(runs) < MaxRuns,
         runs' = Append(runs, NewRun(d, missed, manual, cap)),
         UNCHANGED <<item, calendar, used, bounds>>
  PROVE  /\ StoreType' /\ Len(runs) + 1 \in 0..MaxRuns
         /\ DOMAIN runs' = DOMAIN runs \cup {Len(runs) + 1}
         /\ Len(runs) + 1 \notin DOMAIN runs
         /\ \A r \in DOMAIN runs : runs'[r] = runs[r]
         /\ \A r \in DOMAIN runs' : RunOK(runs'[r])
         /\ runs'[Len(runs) + 1].date = d /\ runs'[Len(runs) + 1].missed = missed
         /\ runs'[Len(runs) + 1].state = "pending" /\ runs'[Len(runs) + 1].snap = "none"
         /\ \A e : CapturedIn(runs', e) = CapturedIn(runs, e)
<1> DEFINE n == NewRun(d, missed, manual, cap)
<1>1. /\ n \in RunType /\ n.date = d /\ n.missed = missed /\ n.state = "pending"
      /\ n.snap = "none"
  BY NewRunType
<1>2. runs \in Seq(RunType) /\ Len(runs) \in Nat /\ Len(runs) <= MaxRuns
      /\ \A r \in DOMAIN runs : RunOK(runs[r])
  BY DEF SchedInv, TypeOK
<1> HIDE DEF n
<1>3. runs' = Append(runs, n)
  BY DEF n
<1>4. /\ runs' \in Seq(RunType) /\ Len(runs') = Len(runs) + 1
      /\ DOMAIN runs' = DOMAIN runs \cup {Len(runs) + 1}
      /\ Len(runs) + 1 \notin DOMAIN runs /\ runs'[Len(runs) + 1] = n
      /\ \A r \in DOMAIN runs : runs'[r] = runs[r]
  BY <1>1, <1>2, <1>3, AppendFacts
<1>5. RunOK(n)
  BY <1>1 DEF RunOK
<1>6. \A e : CapturedIn(runs', e) = CapturedIn(runs, e)
  BY <1>1, <1>2, <1>3, AppendCaptured
<1>7. Len(runs) + 1 \in 0..MaxRuns /\ Len(runs') <= MaxRuns
  BY <1>2, <1>4, Bounds
<1>8. StoreType'
  BY <1>4, <1>7 DEF SchedInv, TypeOK, StoreType
<1> QED BY <1>1, <1>2, <1>4, <1>5, <1>6, <1>7, <1>8

(* An update of one run's record that keeps what it has archived.          *)
LEMMA EventFacts ==
  ASSUME SchedInv, NEW r \in DOMAIN runs, NEW n \in RunType, RunOK(n),
         runs' = [runs EXCEPT ![r] = n], n.date = runs[r].date, n.snap = runs[r].snap,
         UNCHANGED <<item, calendar, used, bounds>>
  PROVE  /\ StoreType' /\ DOMAIN runs' = DOMAIN runs /\ runs'[r] = n
         /\ \A q \in DOMAIN runs : q # r => runs'[q] = runs[q]
         /\ \A q \in DOMAIN runs' : RunOK(runs'[q])
         /\ \A e : CapturedIn(runs', e) = CapturedIn(runs, e)
<1>1. runs \in Seq(RunType) /\ Len(runs) <= MaxRuns
      /\ \A q \in DOMAIN runs : RunOK(runs[q])
  BY DEF SchedInv, TypeOK
<1>2. /\ runs' \in Seq(RunType) /\ Len(runs') = Len(runs)
      /\ DOMAIN runs' = DOMAIN runs /\ runs'[r] = n
      /\ \A q \in DOMAIN runs : q # r => runs'[q] = runs[q]
  BY <1>1, RunUpdate
<1>3. \A e : CapturedIn(runs', e) = CapturedIn(runs, e)
  BY <1>1, UpdateCaptured
<1>4. StoreType'
  BY <1>1, <1>2 DEF SchedInv, TypeOK, StoreType
<1> QED BY <1>1, <1>2, <1>3, <1>4

(* _record_missed creates the run.                                         *)
LEMMA MissedRunStep ==
  ASSUME SchedInv, NEW p \in Procs, MissedRun(p)
  PROVE  SchedInv'
<1> DEFINE l == proc[p]
           d == Current(p)
           new == Len(runs) + 1
           s == WithRun(l, "missed_event", new)
<1>1. /\ l \in Locals /\ Fits(l, runs) /\ l.pc = "decide" /\ Past(p) /\ l.job = "wake"
      /\ l.todo # {} /\ d \in Dates /\ d = Min(l.todo)
      /\ \A r \in DOMAIN runs : runs[r].state # "running"
      /\ Captured(d) = {} /\ proc \in [Procs -> Locals]
  BY DecideState, HolderFacts DEF MissedRun, DecisionOK
<1>2. CapturedIn(runs, d) = {}
  BY <1>1 DEF Captured, CapturedIn, RunsFor
<1>3. 0 \in 0..RunCap /\ UNCHANGED <<clock, lock, armed, declaring, lease>>
  BY Bounds DEF MissedRun
<1>4. /\ StoreType' /\ new \in 0..MaxRuns /\ DOMAIN runs' = DOMAIN runs \cup {new}
      /\ \A r \in DOMAIN runs : runs'[r] = runs[r]
      /\ \A r \in DOMAIN runs' : RunOK(runs'[r])
      /\ runs'[new].date = d /\ runs'[new].missed /\ runs'[new].state = "pending"
      /\ \A e : CapturedIn(runs', e) = CapturedIn(runs, e)
  <2>1. /\ Len(runs) < MaxRuns /\ runs' = Append(runs, NewRun(d, TRUE, FALSE, 0))
        /\ UNCHANGED <<item, calendar, used, bounds>>
    BY DEF MissedRun
  <2> QED BY <1>1, <1>3, <2>1, CreateFacts
<1>5. proc' = [proc EXCEPT ![p] = s]
  BY <1>1 DEF MissedRun, Locals, WithRun
<1>6. /\ s \in Locals /\ s.pc = "missed_event" /\ s.sub = new /\ s.todo = l.todo
      /\ KeepsPlan(l, s)
  <2>1. "missed_event" \in PCs /\ new \in 0..MaxRuns /\ l \in Locals
    BY <1>1, <1>4 DEF PCs
  <2> QED BY <2>1, WithRunFields
<1> HIDE DEF s, d, new
<1>7. Fits(s, runs')
  BY <1>1, <1>2, <1>4, <1>6 DEF KeepsPlan, Fits, JobOK, SubOK, NoneRunning, CandidateOK, GateOK, 
       WakePCs, MissedPCs, ReprocessPCs, ItemPCs, Reconciling, Capturing, Working,
       SubPCs, Settled
<1> QED BY <1>1, <1>3, <1>4, <1>5, <1>6, <1>7, HolderStep DEF KeepsPlan

(* The 'missed' event of the run.                                          *)
LEMMA MissedEventStep ==
  ASSUME SchedInv, NEW p \in Procs, MissedEvent(p)
  PROVE  SchedInv'
<1> DEFINE l == proc[p]
           n == [runs[l.sub] EXCEPT !.state = "missed"]
           s == [l EXCEPT !.pc = "missed_item"]
<1>1. /\ l \in Locals /\ Fits(l, runs) /\ l.pc = "missed_event" /\ Past(p)
      /\ proc \in [Procs -> Locals] /\ runs \in Seq(RunType)
      /\ \A r \in DOMAIN runs : RunOK(runs[r]) /\ runs[r] \in RunType
      /\ UNCHANGED <<clock, lock, armed, item, calendar, declaring, used, lease, bounds>>
  BY HolderFacts DEF MissedEvent, At, Past
<1>2. l.sub \in DOMAIN runs /\ runs[l.sub].missed
  BY <1>1 DEF Fits, JobOK, SubOK, NoneRunning, CandidateOK, GateOK, 
       WakePCs, MissedPCs, ReprocessPCs, ItemPCs, Reconciling, Capturing, Working,
       SubPCs, Settled
<1>3. /\ n \in RunType /\ n.state = "missed" /\ n.date = runs[l.sub].date
      /\ n.snap = runs[l.sub].snap /\ n.missed /\ n.acked = runs[l.sub].acked
  <2>1. runs[l.sub] \in RunType /\ "missed" \in RunStates
    BY <1>1, <1>2 DEF RunStates
  <2> QED BY <1>2, <2>1, StateUpdate
<1>4. runs[l.sub].snap = "none" /\ RunOK(n)
  BY <1>1, <1>2, <1>3 DEF RunOK
<1>5. runs' = [runs EXCEPT ![l.sub] = n]
  BY DEF MissedEvent
<1> HIDE DEF n
<1>6. /\ StoreType' /\ DOMAIN runs' = DOMAIN runs /\ runs'[l.sub] = n
      /\ \A q \in DOMAIN runs : q # l.sub => runs'[q] = runs[q]
      /\ \A q \in DOMAIN runs' : RunOK(runs'[q])
      /\ \A e : CapturedIn(runs', e) = CapturedIn(runs, e)
  BY <1>1, <1>2, <1>3, <1>4, <1>5, EventFacts
<1>7. CASE l.job = "wake"
  <2>1. proc' = [proc EXCEPT ![p] = s]
    BY <1>7 DEF MissedEvent, Goto
  <2>2. /\ s \in Locals /\ s.pc = "missed_item" /\ s.sub = l.sub /\ s.todo = l.todo
        /\ KeepsPlan(l, s)
    <3>1. "missed_item" \in PCs
      BY DEF PCs
    <3> QED BY <1>1, <3>1, GotoFields
  <2> HIDE DEF s
  <2>3. Fits(s, runs')
    BY <1>1, <1>2, <1>3, <1>6, <1>7, <2>2 DEF KeepsPlan, Fits, JobOK, SubOK, NoneRunning, CandidateOK, GateOK, 
       WakePCs, MissedPCs, ReprocessPCs, ItemPCs, Reconciling, Capturing, Working,
       SubPCs, Settled
  <2> QED BY <1>1, <1>6, <2>1, <2>2, <2>3, HolderStep DEF KeepsPlan
<1>8. CASE l.job # "wake"
  <2>1. proc' = [proc EXCEPT ![p] = Ended(FALSE)]
    BY <1>8 DEF MissedEvent, Stop
  <2> QED BY <1>1, <1>6, <2>1, EndStep
<1> QED BY <1>7, <1>8

(* The item event.                                                         *)
LEMMA MissedItemStep ==
  ASSUME SchedInv, NEW p \in Procs, MissedItem(p)
  PROVE  SchedInv'
<1> DEFINE l == proc[p]
           d == Current(p)
           s == Advance(l)
<1>1. /\ l \in Locals /\ Fits(l, runs) /\ l.pc = "missed_item" /\ Past(p)
      /\ DOMAIN runs = 1..Len(runs) /\ Len(runs) \in Nat /\ Len(runs) <= MaxRuns
      /\ UNCHANGED <<clock, lock, armed, runs, calendar, declaring, used, lease, bounds>>
      /\ bounds' \in [manual : Nat, trouble : Nat]
      /\ Event(p, d, "missed", "record_missed", l.sub, s)
  BY HolderFacts DEF MissedItem, At, Past
<1>2. l.job = "wake" /\ l.todo # {} /\ l.sub \in DOMAIN runs
  BY <1>1 DEF Fits, JobOK, SubOK, NoneRunning, CandidateOK, GateOK, 
       WakePCs, MissedPCs, ReprocessPCs, ItemPCs, Reconciling, Capturing, Working,
       SubPCs, Settled
<1>3. d \in Dates
  BY <1>1, <1>2, CurrentDate DEF Current, Locals
<1>4. /\ "missed" \in ItemStates /\ "record_missed" \in EventActions
      /\ l.sub \in 0..MaxRuns
  BY <1>1, <1>2, Bounds DEF ItemStates, RunStates, EventActions
<1>5. s \in Locals /\ s.pc = "sync" /\ KeepsPlan(l, s)
  BY <1>1, AdvanceFields
<1> HIDE DEF s, d
<1>6. Fits(s, runs)
  BY <1>1, <1>2, <1>5, AdvanceFits
<1> QED BY <1>1, <1>2, <1>3, <1>4, <1>5, <1>6, EventStep DEF KeepsPlan

(* A closed date whose capture died or failed is reprocessed.              *)
LEMMA ReprocessDecidedStep ==
  ASSUME SchedInv, NEW p \in Procs, ReprocessDecided(p)
  PROVE  SchedInv'
<1> DEFINE l == proc[p]
           d == Current(p)
           r == DecisionOf(p).run
           s == WithRun(l, "reprocess", r)
<1>1. /\ l \in Locals /\ Fits(l, runs) /\ l.pc = "decide" /\ Past(p) /\ l.job = "wake"
      /\ l.todo # {} /\ d = Min(l.todo) /\ r \in Captured(d)
      /\ \A q \in DOMAIN runs : runs[q].state # "running"
      /\ proc \in [Procs -> Locals] /\ DOMAIN runs = 1..Len(runs)
      /\ Len(runs) \in Nat /\ Len(runs) <= MaxRuns
      /\ UNCHANGED <<clock, lock, armed, runs, item, calendar, declaring, used, lease, bounds>>
      /\ bounds' \in [manual : Nat, trouble : Nat]
  BY DecideState, HolderFacts DEF ReprocessDecided, DecisionOK
<1>2. r \in DOMAIN runs /\ runs[r].date = d /\ r \in 0..MaxRuns
  BY <1>1, Bounds DEF Captured, RunsFor
<1>3. proc' = [proc EXCEPT ![p] = s]
  BY <1>1 DEF ReprocessDecided, Locals, WithRun
<1> HIDE DEF r, d
<1>4. /\ s \in Locals /\ s.pc = "reprocess" /\ s.sub = r /\ s.todo = l.todo
      /\ KeepsPlan(l, s)
  <2>1. "reprocess" \in PCs /\ r \in 0..MaxRuns /\ l \in Locals
    BY <1>1, <1>2 DEF PCs
  <2> QED BY <2>1, WithRunFields
<1> HIDE DEF s
<1>5. Fits(s, runs)
  BY <1>1, <1>2, <1>4 DEF KeepsPlan, Fits, JobOK, SubOK, NoneRunning, CandidateOK, GateOK, 
       WakePCs, MissedPCs, ReprocessPCs, ItemPCs, Reconciling, Capturing, Working,
       SubPCs, Settled
<1> QED BY <1>1, <1>3, <1>4, <1>5, SameStore, HolderStep DEF KeepsPlan

(* The loop over the items is over.                                        *)
LEMMA ReconciledStep ==
  ASSUME SchedInv, NEW p \in Procs, Reconciled(p)
  PROVE  SchedInv'
<1> DEFINE l == proc[p]
           s == [l EXCEPT !.pc = "capture"]
<1>1. /\ l \in Locals /\ Fits(l, runs) /\ l.pc = "sync" /\ Past(p) /\ l.todo = {}
      /\ proc \in [Procs -> Locals]
      /\ UNCHANGED <<clock, lock, armed, runs, item, calendar, declaring, used, lease, bounds>>
      /\ bounds' \in [manual : Nat, trouble : Nat]
  BY HolderFacts DEF Reconciled, At, Past
<1>2. CASE l.again \/ l.date = 0
  <2>1. proc' = [proc EXCEPT ![p] = Ended(TRUE)]
    BY <1>2 DEF Reconciled
  <2> QED BY <1>1, <2>1, SameStore, EndStep
<1>3. CASE ~(l.again \/ l.date = 0)
  <2>1. proc' = [proc EXCEPT ![p] = s]
    BY <1>3 DEF Reconciled
  <2>2. s \in Locals /\ s.pc = "capture" /\ s.todo = l.todo /\ KeepsPlan(l, s)
    <3>1. "capture" \in PCs
      BY DEF PCs
    <3> QED BY <1>1, <3>1, GotoFields
  <2> HIDE DEF s
  <2>3. Fits(s, runs)
    BY <1>1, <1>3, <2>2 DEF CAPTURE_ACTIONS, KeepsPlan, Fits, JobOK, SubOK, NoneRunning, CandidateOK, GateOK, 
       WakePCs, MissedPCs, ReprocessPCs, ItemPCs, Reconciling, Capturing, Working,
       SubPCs, Settled
  <2> QED BY <1>1, <2>1, <2>2, <2>3, SameStore, HolderStep DEF KeepsPlan
<1> QED BY <1>2, <1>3

(* p2.reprocess refuses, or the run works again from its archive.          *)
LEMMA ReprocessStep ==
  ASSUME SchedInv, NEW p \in Procs, Reprocess(p)
  PROVE  SchedInv'
<1> DEFINE l == proc[p]
           r == runs[l.sub]
           refused == \/ r.state \in {"pending", "running", "missed"}
                      \/ r.snap # "own"
           events == r.state \in {"partial", "failed", "abandoned"}
           n == [r EXCEPT !.state = "running"]
           a == Advance(l)
           s == [l EXCEPT !.pc = IF events THEN "rederive" ELSE "reprocessed"]
<1>1. /\ l \in Locals /\ Fits(l, runs) /\ l.pc = "reprocess" /\ Past(p)
      /\ proc \in [Procs -> Locals] /\ runs \in Seq(RunType)
      /\ \A q \in DOMAIN runs : RunOK(runs[q]) /\ runs[q] \in RunType
      /\ UNCHANGED <<clock, lock, armed, item, calendar, declaring, used, lease, bounds>>
      /\ bounds' \in [manual : Nat, trouble : Nat]
  BY HolderFacts DEF Reprocess, At, Past
<1>2. l.sub \in DOMAIN runs
  BY <1>1 DEF Fits, JobOK, SubOK, NoneRunning, CandidateOK, GateOK, 
       WakePCs, MissedPCs, ReprocessPCs, ItemPCs, Reconciling, Capturing, Working,
       SubPCs, Settled
<1>3. CASE refused
  <2>1. runs' = runs
    BY <1>3 DEF Reprocess
  <2>2. CASE l.job = "wake"
    <3>1. proc' = [proc EXCEPT ![p] = a]
      BY <1>3, <2>2 DEF Reprocess
    <3>2. a \in Locals /\ a.pc = "sync" /\ KeepsPlan(l, a)
      BY <1>1, AdvanceFields
    <3> HIDE DEF a
    <3>3. Fits(a, runs)
      BY <1>1, <2>2, <3>2, AdvanceFits
    <3> QED BY <1>1, <2>1, <3>1, <3>2, <3>3, SameStore, HolderStep DEF KeepsPlan
  <2>3. CASE l.job # "wake"
    <3>1. proc' = [proc EXCEPT ![p] = Ended(FALSE)]
      BY <1>3, <2>3 DEF Reprocess
    <3> QED BY <1>1, <2>1, <3>1, SameStore, EndStep
  <2> QED BY <2>2, <2>3
<1>4. CASE ~refused /\ events
  <2>1. runs' = [runs EXCEPT ![l.sub] = n] /\ proc' = [proc EXCEPT ![p] = s]
    BY <1>4 DEF Reprocess
  <2>2. /\ n \in RunType /\ n.state = "running" /\ n.date = r.date
        /\ n.snap = r.snap /\ n.missed = r.missed /\ n.acked = r.acked
    <3>1. r \in RunType /\ "running" \in RunStates
      BY <1>1, <1>2 DEF RunStates
    <3> HIDE DEF r
    <3> QED BY <3>1, StateUpdate
  <2>3. RunOK(n)
    BY <1>1, <1>2, <1>4, <2>2 DEF RunOK
  <2>4. s = [l EXCEPT !.pc = "rederive"]
    BY <1>4
  <2> HIDE DEF n
  <2>5. /\ StoreType' /\ DOMAIN runs' = DOMAIN runs /\ runs'[l.sub] = n
        /\ \A q \in DOMAIN runs : q # l.sub => runs'[q] = runs[q]
        /\ \A q \in DOMAIN runs' : RunOK(runs'[q])
        /\ \A e : CapturedIn(runs', e) = CapturedIn(runs, e)
    BY <1>1, <1>2, <2>1, <2>2, <2>3, EventFacts
  <2> HIDE DEF s
  <2>6. /\ s \in Locals /\ s.pc = "rederive" /\ s.sub = l.sub /\ s.todo = l.todo
        /\ KeepsPlan(l, s)
    <3>1. "rederive" \in PCs
      BY DEF PCs
    <3> QED BY <1>1, <2>4, <3>1, GotoFields
  <2>7. Fits(s, runs')
    BY <1>1, <1>2, <1>4, <2>2, <2>5, <2>6 DEF KeepsPlan, Fits, JobOK, SubOK, NoneRunning, CandidateOK, GateOK, 
       WakePCs, MissedPCs, ReprocessPCs, ItemPCs, Reconciling, Capturing, Working,
       SubPCs, Settled
  <2> QED BY <1>1, <2>1, <2>5, <2>6, <2>7, HolderStep DEF KeepsPlan
<1>5. CASE ~refused /\ ~events
  <2>1. runs' = runs /\ proc' = [proc EXCEPT ![p] = s]
    BY <1>5 DEF Reprocess
  <2>2. s = [l EXCEPT !.pc = "reprocessed"]
    BY <1>5
  <2>3. r.state \in {"succeeded", "blocked"} /\ r.snap = "own"
    BY <1>1, <1>2, <1>5 DEF RunType, RunStates
  <2> HIDE DEF s
  <2>6. /\ s \in Locals /\ s.pc = "reprocessed" /\ s.sub = l.sub /\ s.todo = l.todo
        /\ KeepsPlan(l, s)
    <3>1. "reprocessed" \in PCs
      BY DEF PCs
    <3> QED BY <1>1, <2>2, <3>1, GotoFields
  <2>7. Fits(s, runs)
    BY <1>1, <1>2, <2>3, <2>6 DEF KeepsPlan, Fits, JobOK, SubOK, NoneRunning, CandidateOK, GateOK, 
       WakePCs, MissedPCs, ReprocessPCs, ItemPCs, Reconciling, Capturing, Working,
       SubPCs, Settled
  <2> QED BY <1>1, <2>1, <2>6, <2>7, SameStore, HolderStep DEF KeepsPlan
<1> QED BY <1>3, <1>4, <1>5

(* derive_run records observations of a session that is the run's own.     *)
LEMMA DeriveStep ==
  ASSUME SchedInv, NEW p \in Procs, Derive(p)
  PROVE  SchedInv'
<1> DEFINE l == proc[p]
           r == runs[l.sub]
           next == IF l.pc = "derive" THEN "settle" ELSE "resettle"
           s == [l EXCEPT !.pc = next]
<1>1. /\ l \in Locals /\ Fits(l, runs) /\ l.pc \in {"derive", "rederive"} /\ Past(p)
      /\ proc \in [Procs -> Locals] /\ runs \in Seq(RunType)
      /\ \A q \in DOMAIN runs : RunOK(runs[q]) /\ runs[q] \in RunType
      /\ UNCHANGED <<clock, lock, armed, item, calendar, declaring, used, lease, bounds>>
  BY HolderFacts DEF Derive, At, Past
<1>2. l.sub \in DOMAIN runs /\ r.state = "running" /\ r \in RunType /\ RunOK(r)
  BY <1>1 DEF Fits, JobOK, SubOK, NoneRunning, CandidateOK, GateOK, 
       WakePCs, MissedPCs, ReprocessPCs, ItemPCs, Reconciling, Capturing, Working,
       SubPCs, Settled
<1>3. PICK any \in BOOLEAN : runs' = [runs EXCEPT ![l.sub].e1 = @ \/ any]
  <2>1. PICK any \in {FALSE, r.snap = "own"} : runs' = [runs EXCEPT ![l.sub].e1 = @ \/ any]
    BY DEF Derive
  <2>2. any \in BOOLEAN
    BY <2>1
  <2> QED BY <2>1, <2>2
<1> DEFINE n == [r EXCEPT !.e1 = @ \/ any]
<1>4. runs' = [runs EXCEPT ![l.sub] = n]
  BY <1>1, <1>2, <1>3
<1>5. /\ n \in RunType /\ n.state = r.state /\ n.date = r.date
      /\ n.snap = r.snap /\ n.missed = r.missed /\ n.acked = r.acked
  BY <1>2 DEF RunType
<1>6. RunOK(n)
  BY <1>2, <1>5 DEF RunOK
<1> HIDE DEF n
<1>7. /\ StoreType' /\ DOMAIN runs' = DOMAIN runs /\ runs'[l.sub] = n
      /\ \A q \in DOMAIN runs : q # l.sub => runs'[q] = runs[q]
      /\ \A q \in DOMAIN runs' : RunOK(runs'[q])
      /\ \A e : CapturedIn(runs', e) = CapturedIn(runs, e)
  BY <1>1, <1>2, <1>4, <1>5, <1>6, EventFacts
<1>8. proc' = [proc EXCEPT ![p] = s]
  BY DEF Derive, Goto
<1>9. next \in PCs
  BY DEF PCs
<1> HIDE DEF s
<1>10. /\ s \in Locals /\ s.pc = next /\ s.sub = l.sub /\ s.todo = l.todo
       /\ KeepsPlan(l, s)
  BY <1>1, <1>9, GotoFields DEF s
<1>11. Fits(s, runs')
  BY <1>1, <1>2, <1>5, <1>7, <1>10 DEF KeepsPlan, Fits, JobOK, SubOK, NoneRunning, CandidateOK, GateOK, 
       WakePCs, MissedPCs, ReprocessPCs, ItemPCs, Reconciling, Capturing, Working,
       SubPCs, Settled
<1> QED BY <1>1, <1>7, <1>8, <1>10, <1>11, HolderStep DEF KeepsPlan

(* The final event of a run.                                               *)
SettledRun(r, state, e1) == [r EXCEPT !.state = state, !.e1 = e1]

(* The final event keeps what a run has archived.                          *)
LEMMA SettledRunFields ==
  ASSUME NEW r \in RunType, NEW state \in Settled, NEW e1 \in BOOLEAN
  PROVE  /\ SettledRun(r, state, e1) \in RunType
         /\ SettledRun(r, state, e1).state = state
         /\ SettledRun(r, state, e1).date = r.date
         /\ SettledRun(r, state, e1).snap = r.snap
         /\ SettledRun(r, state, e1).missed = r.missed
         /\ SettledRun(r, state, e1).acked = r.acked
<1>1. state \in RunStates
  BY DEF Settled, RunStates
<1> QED BY <1>1 DEF SettledRun, RunType

(* What a settling process does to its run.                                *)
LEMMA SettleFacts ==
  ASSUME SchedInv, NEW p \in Procs, Settle(p)
  PROVE  \E n \in RunType :
           /\ runs' = [runs EXCEPT ![proc[p].sub] = n]
           /\ n.state \in SettledStates(runs[proc[p].sub], proc[p].blocked)
           /\ n.state \in Settled
           /\ n.date = runs[proc[p].sub].date /\ n.snap = runs[proc[p].sub].snap
           /\ n.missed = runs[proc[p].sub].missed /\ n.acked = runs[proc[p].sub].acked
<1> DEFINE l == proc[p]
           r == runs[l.sub]
<1>1. Fits(l, runs) /\ l.pc \in {"settle", "resettle"} /\ runs \in Seq(RunType)
      /\ \A q \in DOMAIN runs : runs[q] \in RunType
  BY HolderFacts DEF Settle
<1>2. l.sub \in DOMAIN runs /\ r \in RunType
  BY <1>1 DEF Fits, JobOK, SubOK, NoneRunning, CandidateOK, GateOK, 
       WakePCs, MissedPCs, ReprocessPCs, ItemPCs, Reconciling, Capturing, Working,
       SubPCs, Settled
<1>3. PICK s \in SettledStates(r, l.blocked) :
         runs' = [runs EXCEPT ![l.sub].state = s, ![l.sub].e1 = r.e1 \/ r.snap = "own"]
  BY DEF Settle
<1>4. s \in Settled
  BY DEF SettledStates, Settled
<1> DEFINE e1 == r.e1 \/ r.snap = "own"
           n == SettledRun(r, s, e1)
<1>5. runs' = [runs EXCEPT ![l.sub] = n]
  BY <1>1, <1>2, <1>3 DEF SettledRun
<1>6. e1 \in BOOLEAN
  OBVIOUS
<1> HIDE DEF e1
<1>7. /\ n \in RunType /\ n.state = s /\ n.date = r.date /\ n.snap = r.snap
      /\ n.missed = r.missed /\ n.acked = r.acked
  BY <1>2, <1>4, <1>6, SettledRunFields
<1> QED BY <1>3, <1>4, <1>5, <1>7

(* The final event of a capture or of a reprocess.                         *)
LEMMA SettleStep ==
  ASSUME SchedInv, NEW p \in Procs, Settle(p)
  PROVE  SchedInv'
<1> DEFINE l == proc[p]
           r == runs[l.sub]
           next == IF l.pc = "resettle" THEN "reprocessed" ELSE "outcome"
           s == [l EXCEPT !.pc = next]
<1>1. /\ l \in Locals /\ Fits(l, runs) /\ l.pc \in {"settle", "resettle"} /\ Past(p)
      /\ proc \in [Procs -> Locals] /\ runs \in Seq(RunType)
      /\ \A q \in DOMAIN runs : RunOK(runs[q]) /\ runs[q] \in RunType
      /\ UNCHANGED <<clock, lock, armed, item, calendar, declaring, used, lease, bounds>>
  BY HolderFacts DEF Settle, At, Past
<1>2. l.sub \in DOMAIN runs /\ r.state = "running" /\ r \in RunType /\ RunOK(r)
  BY <1>1 DEF Fits, JobOK, SubOK, NoneRunning, CandidateOK, GateOK, 
       WakePCs, MissedPCs, ReprocessPCs, ItemPCs, Reconciling, Capturing, Working,
       SubPCs, Settled
<1>3. PICK n \in RunType :
           /\ runs' = [runs EXCEPT ![l.sub] = n]
           /\ n.state \in SettledStates(r, l.blocked) /\ n.state \in Settled
           /\ n.date = r.date /\ n.snap = r.snap
           /\ n.missed = r.missed /\ n.acked = r.acked
  BY SettleFacts
<1>4. RunOK(n)
  BY <1>2, <1>3 DEF RunOK, Settled
<1>5. ~l.blocked => n.state # "blocked"
  BY <1>3 DEF SettledStates
<1>6. /\ StoreType' /\ DOMAIN runs' = DOMAIN runs /\ runs'[l.sub] = n
      /\ \A q \in DOMAIN runs : q # l.sub => runs'[q] = runs[q]
      /\ \A q \in DOMAIN runs' : RunOK(runs'[q])
      /\ \A e : CapturedIn(runs', e) = CapturedIn(runs, e)
  BY <1>1, <1>2, <1>3, <1>4, EventFacts
<1>7. CASE l.pc = "resettle" \/ l.job = "wake"
  <2>1. proc' = [proc EXCEPT ![p] = s]
    BY <1>7 DEF Settle, Goto
  <2>2. next \in PCs
    BY DEF PCs
  <2> HIDE DEF s
  <2>3. /\ s \in Locals /\ s.pc = next /\ s.sub = l.sub /\ s.todo = l.todo
        /\ KeepsPlan(l, s)
    BY <1>1, <2>2, GotoFields DEF s
  <2>4. CASE l.pc = "resettle"
    <3>0. s.pc = "reprocessed" /\ runs[l.sub].snap = "own"
      BY <1>1, <2>3, <2>4 DEF Fits, SubOK, ReprocessPCs
    <3> HIDE DEF next
    <3>2. JobOK(s) /\ SubOK(s, runs')
      BY <1>1, <1>2, <1>3, <1>6, <2>3, <2>4, <3>0 DEF KeepsPlan, Fits, JobOK, SubOK, 
       WakePCs, MissedPCs, ReprocessPCs, ItemPCs, Reconciling, Capturing, Working,
       SubPCs, Settled
    <3>5. NoneRunning(s, runs')
      BY <1>1, <1>3, <1>6, <2>3, <2>4, <3>0 DEF Fits, NoneRunning, Settled
    <3>3. GateOK(s, runs')
      <4>1. ASSUME l.job = "wake", ~l.again, ~l.gate
            PROVE  \A q \in DOMAIN runs' : runs'[q].state = "blocked" => runs'[q].acked
        <5>1. l.pc \in Reconciling /\ ~l.blocked
          BY <1>1, <2>4, <4>1 DEF Fits, JobOK, Reconciling, ItemPCs, ReprocessPCs
        <5>2. \A q \in DOMAIN runs : runs[q].state = "blocked" => runs[q].acked
          BY <1>1, <4>1, <5>1 DEF Fits, GateOK
        <5> QED BY <1>2, <1>5, <1>6, <5>1, <5>2
      <4> QED BY <2>3, <4>1 DEF KeepsPlan, GateOK
    <3>4. CandidateOK(s, runs')
      <4>1. ASSUME l.job = "wake", ~l.again, l.date # 0
            PROVE  \/ l.action = "start" /\ CapturedIn(runs, l.date) = {}
                   \/ /\ l.action = "resume" /\ l.run \in DOMAIN runs
                      /\ ~runs[l.run].missed /\ runs[l.run].date = l.date
                      /\ runs[l.run].snap = "own" \/ CapturedIn(runs, l.date) = {}
        <5>1. l.pc \in Reconciling
          BY <2>4 DEF Reconciling, ItemPCs, ReprocessPCs
        <5> QED BY <1>1, <4>1, <5>1 DEF Fits, CandidateOK
      <4>2. \A q \in DOMAIN runs : /\ runs'[q].missed = runs[q].missed
                                   /\ runs'[q].date = runs[q].date
                                   /\ runs'[q].snap = runs[q].snap
        BY <1>3, <1>6
      <4>3. s.pc # "fetch" /\ KeepsPlan(l, s) /\ DOMAIN runs' = DOMAIN runs
            /\ \A e : CapturedIn(runs', e) = CapturedIn(runs, e)
        BY <1>6, <2>3, <3>0
      <4> HIDE DEF l, r
      <4> QED BY <4>1, <4>2, <4>3 DEF KeepsPlan, CandidateOK
    <3>1. Fits(s, runs')
      BY <3>2, <3>3, <3>4, <3>5 DEF Fits
    <3> QED BY <1>1, <1>6, <2>1, <2>3, <2>4, <3>0, <3>1, HolderStep DEF KeepsPlan
  <2>5. CASE l.pc = "settle"
    <3>1. Fits(s, runs')
      BY <1>1, <1>2, <1>3, <1>5, <1>6, <1>7, <2>3, <2>5 DEF KeepsPlan, Fits, JobOK, SubOK, NoneRunning, CandidateOK, GateOK, 
       WakePCs, MissedPCs, ReprocessPCs, ItemPCs, Reconciling, Capturing, Working,
       SubPCs, Settled
    <3> QED BY <1>1, <1>6, <2>1, <2>3, <2>5, <3>1, HolderStep DEF KeepsPlan
  <2> QED BY <1>1, <2>4, <2>5
<1>8. CASE ~(l.pc = "resettle" \/ l.job = "wake")
  <2>1. proc' = [proc EXCEPT ![p] = Ended(FALSE)]
    BY <1>8 DEF Settle, Stop
  <2> QED BY <1>1, <1>6, <2>1, EndStep
<1> QED BY <1>7, <1>8

(* The item event after a reprocess.                                       *)
LEMMA ReprocessedStep ==
  ASSUME SchedInv, NEW p \in Procs, Reprocessed(p)
  PROVE  SchedInv'
<1> DEFINE l == proc[p]
           d == runs[l.sub].date
           state == runs[l.sub].state
           a == Advance(l)
           s == [a EXCEPT !.pc = "open"]
           e == Ended(FALSE)
<1>1. /\ l \in Locals /\ Fits(l, runs) /\ l.pc = "reprocessed" /\ Past(p)
      /\ \A q \in DOMAIN runs : RunOK(runs[q]) /\ runs[q] \in RunType
      /\ DOMAIN runs = 1..Len(runs) /\ Len(runs) \in Nat /\ Len(runs) <= MaxRuns
      /\ UNCHANGED <<clock, lock, armed, runs, calendar, declaring, used, lease, bounds>>
      /\ bounds' \in [manual : Nat, trouble : Nat]
  BY HolderFacts DEF Reprocessed, At, Past
<1>2. l.sub \in DOMAIN runs /\ runs[l.sub] \in RunType
  BY <1>1 DEF Fits, JobOK, SubOK, NoneRunning, CandidateOK, GateOK, 
       WakePCs, MissedPCs, ReprocessPCs, ItemPCs, Reconciling, Capturing, Working,
       SubPCs, Settled
<1>3. d \in Dates /\ state \in ItemStates /\ l.sub \in 0..MaxRuns
      /\ "finalize" \in EventActions /\ "reprocess" \in EventActions
  BY <1>1, <1>2, Bounds DEF RunType, ItemStates, EventActions
<1>4. CASE l.job = "wake"
  <2>1. Event(p, d, state, "reprocess", l.sub, s)
    BY <1>4 DEF Reprocessed
  <2>2. a \in Locals /\ a.sub = l.sub /\ KeepsPlan(l, a)
    BY <1>1, AdvanceFields
  <2> HIDE DEF a
  <2>3. s \in Locals /\ s.pc = "open" /\ s.sub = a.sub /\ KeepsPlan(a, s)
    <3>1. "open" \in PCs
      BY DEF PCs
    <3> QED BY <2>2, <3>1, GotoFields
  <2> HIDE DEF s, d, state
  <2>4. Fits(s, runs)
    BY <1>1, <1>2, <1>4, <2>2, <2>3 DEF KeepsPlan, Fits, JobOK, SubOK, NoneRunning, CandidateOK, GateOK, 
       WakePCs, MissedPCs, ReprocessPCs, ItemPCs, Reconciling, Capturing, Working,
       SubPCs, Settled
  <2> QED BY <1>1, <1>3, <1>4, <2>1, <2>2, <2>3, <2>4, EventStep DEF KeepsPlan
<1>5. CASE l.job # "wake" /\ item[d].state \notin FINAL_STATES
  <2>1. PICK action \in {"finalize", "reprocess"} : Event(p, d, state, action, l.sub, e)
    BY <1>5 DEF Reprocessed
  <2>2. e \in Locals /\ e.pc = "finish" /\ e.job = "manual"
    BY EndedFields
  <2> HIDE DEF e, d, state
  <2>3. Fits(e, runs) /\ action \in EventActions
    BY <1>3, <2>2, EndFits
  <2> QED BY <1>1, <1>3, <2>1, <2>2, <2>3, EventStep
<1>6. CASE ~(l.job = "wake") /\ ~(l.job # "wake" /\ item[d].state \notin FINAL_STATES)
  <2>1. proc' = [proc EXCEPT ![p] = Ended(FALSE)] /\ item' = item
    BY <1>6 DEF Reprocessed, Stop
  <2> QED BY <1>1, <2>1, SameStore, EndStep
<1> QED BY <1>4, <1>5, <1>6

(* _calendar.                                                              *)
LEMMA OpenStep ==
  ASSUME SchedInv, NEW p \in Procs, Open(p)
  PROVE  SchedInv'
<1> DEFINE l == proc[p]
           s == [l EXCEPT !.pc = "sync"]
<1>1. /\ l \in Locals /\ Fits(l, runs) /\ l.pc = "open" /\ Past(p)
      /\ UNCHANGED <<clock, lock, armed, runs, item, declaring, used, lease, bounds>>
      /\ proc' = [proc EXCEPT ![p] = s]
  BY HolderFacts DEF Open, At, Past, Goto
<1>2. calendar' \in [Dates -> {"unknown", "open", "closed"}]
  BY DEF Open, SchedInv, TypeOK
<1>3. StoreType' /\ \A r \in DOMAIN runs' : RunOK(runs'[r])
  BY <1>1, <1>2 DEF StoreType, SchedInv, TypeOK
<1>4. s \in Locals /\ s.pc = "sync" /\ KeepsPlan(l, s)
  <2>1. "sync" \in PCs
    BY DEF PCs
  <2> QED BY <1>1, <2>1, GotoFields
<1> HIDE DEF s
<1>5. Fits(s, runs')
  BY <1>1, <1>4 DEF KeepsPlan, Fits, JobOK, SubOK, NoneRunning, CandidateOK, GateOK, 
       WakePCs, MissedPCs, ReprocessPCs, ItemPCs, Reconciling, Capturing, Working,
       SubPCs, Settled
<1> QED BY <1>1, <1>3, <1>4, <1>5, HolderStep DEF KeepsPlan

-----------------------------------------------------------------------------
(* The capture                                                             *)

(* Every time of the model is on a day of the ledger of requests.          *)
LEMMA DayType ==
  ASSUME NEW t \in 0..EndTime
  PROVE  ColomboDate(t) \in 1..(LastDay + 1)
<1> DEFINE q == t \div DayLength
<1>1. DayLength \in Nat /\ DayLength > 0 /\ LastDay \in Nat /\ t \in Nat
      /\ t <= LastDay * DayLength
  BY ScheduleConstants DEF EndTime
<1>2. q \in Nat /\ DayLength * q <= t
  BY <1>1
<1> HIDE DEF q
<1>3. q <= LastDay
  <2>1. CASE q >= LastDay + 1
    <3>1. DayLength * q >= DayLength * (LastDay + 1)
      BY <1>1, <1>2, <2>1
    <3>2. DayLength * (LastDay + 1) = LastDay * DayLength + DayLength
      BY <1>1
    <3> QED BY <1>1, <1>2, <3>1, <3>2
  <2> QED BY <1>1, <1>2, <2>1
<1> QED BY <1>1, <1>2, <1>3 DEF ColomboDate, q

(* What is left of the daily budget.                                       *)
LEMMA RemainingType ==
  ASSUME SchedInv, NEW p \in Procs
  PROVE  Remaining(p) \in Nat
<1>1. proc[p].now \in 0..EndTime
  BY HolderFacts DEF Locals
<1>2. used[ColomboDate(proc[p].now)] \in Nat
  BY <1>1, DayType DEF SchedInv, TypeOK
<1> QED BY <1>2, ScheduleConstants DEF Remaining

(* Nothing to capture, or a capture refused.                               *)
LEMMA NoCaptureStep ==
  ASSUME SchedInv, NEW p \in Procs, NoCapture(p) \/ RefuseCapture(p)
  PROVE  SchedInv'
<1>1. /\ Past(p) /\ proc' = [proc EXCEPT ![p] = Ended(TRUE)]
      /\ UNCHANGED <<clock, lock, armed, runs, item, calendar, declaring, used, lease>>
  BY DEF NoCapture, RefuseCapture, At, Past
<1>2. bounds' \in [manual : Nat, trouble : Nat]
  BY HolderFacts, SpentType DEF NoCapture, RefuseCapture
<1> QED BY <1>1, <1>2, SameStore, EndStep

(* A process at the start of a capture has its date.                       *)
LEMMA CaptureDate ==
  ASSUME NEW l \in Locals, NEW rs, Fits(l, rs), l.pc \in Capturing \cup {"capture"}
  PROVE  l.date \in Dates /\ l.action \in CAPTURE_ACTIONS /\ l.run \in 0..MaxRuns
<1>1. l.date # 0 /\ l.action \in CAPTURE_ACTIONS
  BY DEF Fits, JobOK
<1>2. l.date \in 0..LastDay /\ l.run \in 0..MaxRuns
  BY DEF Locals
<1> QED BY <1>1, <1>2, Bounds DEF Dates

(* The 'running' event of the item.                                        *)
LEMMA StartCaptureStep ==
  ASSUME SchedInv, NEW p \in Procs, StartCapture(p)
  PROVE  SchedInv'
<1> DEFINE l == proc[p]
           s == [l EXCEPT !.pc = "p2"]
<1>1. /\ l \in Locals /\ Fits(l, runs) /\ l.pc = "capture" /\ Past(p)
      /\ Event(p, l.date, "running", l.action, l.run, s)
      /\ UNCHANGED <<clock, lock, armed, runs, calendar, declaring, used, lease, bounds>>
      /\ bounds' \in [manual : Nat, trouble : Nat]
  BY HolderFacts DEF StartCapture, At, Past
<1>2. /\ l.date \in Dates /\ l.action \in EventActions /\ l.run \in 0..MaxRuns
      /\ "running" \in ItemStates
  BY <1>1, CaptureDate DEF Capturing, CAPTURE_ACTIONS, EventActions, ItemStates, RunStates
<1>3. s \in Locals /\ s.pc = "p2" /\ s.todo = l.todo /\ KeepsPlan(l, s)
  <2>1. "p2" \in PCs
    BY DEF PCs
  <2> QED BY <1>1, <2>1, GotoFields
<1> HIDE DEF s
<1>4. l.job = "wake" /\ ~l.again /\ l.date # 0
  BY <1>1 DEF Fits, JobOK, WakePCs
<1>5. Fits(s, runs)
  BY <1>1, <1>3, <1>4 DEF KeepsPlan, Fits, JobOK, SubOK, NoneRunning, CandidateOK, GateOK, 
       WakePCs, MissedPCs, ReprocessPCs, ItemPCs, Reconciling, Capturing, Working,
       SubPCs, Settled
<1> QED BY <1>1, <1>2, <1>3, <1>4, <1>5, EventStep

(* P2 refuses before any request.                                          *)
LEMMA P2RefusesStep ==
  ASSUME SchedInv, NEW p \in Procs, P2Refuses(p)
  PROVE  SchedInv'
<1> DEFINE l == proc[p]
           done == l.job = "wake"
           next == Ended(done)
<1> PICK ev : ev = Evidence(l.date)
  OBVIOUS
<1>1. /\ l \in Locals /\ Fits(l, runs) /\ l.pc = "p2" /\ Past(p)
      /\ UNCHANGED <<clock, lock, armed, runs, calendar, declaring, used, lease>>
      /\ bounds' \in [manual : Nat, trouble : Nat]
  BY HolderFacts, SpentType DEF P2Refuses, At, Past
<1>2. next \in Locals /\ next.pc = "finish" /\ next.job = "manual"
  <2>1. done \in BOOLEAN
    OBVIOUS
  <2> HIDE DEF done
  <2> QED BY <2>1, EndedFields
<1>3. l.date \in Dates
  BY <1>1, CaptureDate DEF Capturing
<1>4. EvidenceOK(l.date, ev) /\ Len(runs) \in Nat /\ Len(runs) <= MaxRuns
  BY HolderFacts, EvidenceFacts
<1>5. /\ ev.state \in ItemStates /\ ev.run \in 0..MaxRuns /\ 0 \in 0..MaxRuns
      /\ "pending" \in ItemStates /\ "refused" \in EventActions
  BY <1>4, Bounds DEF EvidenceOK, ItemStates, RunStates, EventActions
<1>6. CASE l.job # "wake"
  <2>1. proc' = [proc EXCEPT ![p] = Ended(FALSE)] /\ item' = item
    BY <1>6 DEF P2Refuses
  <2> QED BY <1>1, <2>1, SameStore, EndStep
<1>7. CASE l.job = "wake"
  <2>1. \/ Event(p, l.date, "pending", "refused", 0, next)
        \/ Event(p, l.date, ev.state, "refused", ev.run, next)
    BY <1>7 DEF P2Refuses
  <2> HIDE DEF next
  <2>2. Fits(next, runs)
    BY <1>2, EndFits
  <2>3. CASE Event(p, l.date, "pending", "refused", 0, next)
    BY <1>1, <1>2, <1>3, <1>5, <2>2, <2>3, EventStep
  <2>4. CASE Event(p, l.date, ev.state, "refused", ev.run, next)
    BY <1>1, <1>2, <1>3, <1>5, <2>2, <2>4, EventStep
  <2> QED BY <2>1, <2>3, <2>4
<1> QED BY <1>6, <1>7

(* The run row.                                                            *)
LEMMA P2CreateStep ==
  ASSUME SchedInv, NEW p \in Procs, P2Create(p)
  PROVE  SchedInv'
<1> DEFINE l == proc[p]
           manual == l.job # "wake"
           cap == IF manual THEN RunCap ELSE Min({RunCap, Remaining(p)})
           new == Len(runs) + 1
           s == WithRun(l, "begun", new)
<1>1. /\ l \in Locals /\ Fits(l, runs) /\ l.pc = "p2" /\ l.action = "start" /\ Past(p)
      /\ proc \in [Procs -> Locals]
      /\ UNCHANGED <<clock, lock, armed, item, calendar, declaring, used, lease, bounds>>
  BY HolderFacts DEF P2Create, At, Past
<1>2. l.date \in Dates
  BY <1>1, CaptureDate DEF Capturing
<1>3. cap \in 0..RunCap /\ manual \in BOOLEAN
  <2>1. Remaining(p) \in Nat /\ RunCap \in Nat
    BY RemainingType, Bounds
  <2>2. Min({RunCap, Remaining(p)}) \in 0..RunCap
    BY <2>1, MinOfTwo
  <2> QED BY <2>1, <2>2
<1>4. runs' = Append(runs, NewRun(l.date, FALSE, manual, cap)) /\ Len(runs) < MaxRuns
  BY DEF P2Create
<1>5. proc' = [proc EXCEPT ![p] = s]
  BY <1>1 DEF P2Create, Locals, WithRun
<1> HIDE DEF cap, manual
<1>6. /\ StoreType' /\ new \in 0..MaxRuns /\ DOMAIN runs' = DOMAIN runs \cup {new}
      /\ \A r \in DOMAIN runs : runs'[r] = runs[r]
      /\ \A r \in DOMAIN runs' : RunOK(runs'[r])
      /\ runs'[new].date = l.date /\ ~runs'[new].missed /\ runs'[new].state = "pending"
      /\ \A e : CapturedIn(runs', e) = CapturedIn(runs, e)
  BY <1>1, <1>2, <1>3, <1>4, CreateFacts
<1>7. /\ s \in Locals /\ s.pc = "begun" /\ s.sub = new /\ s.todo = l.todo
      /\ KeepsPlan(l, s)
  <2>1. "begun" \in PCs /\ new \in 0..MaxRuns /\ l \in Locals
    BY <1>1, <1>6 DEF PCs
  <2> QED BY <2>1, WithRunFields
<1> HIDE DEF s, new
<1>8. Fits(s, runs')
  BY <1>1, <1>6, <1>7 DEF KeepsPlan, Fits, JobOK, SubOK, NoneRunning, CandidateOK, GateOK, 
       WakePCs, MissedPCs, ReprocessPCs, ItemPCs, Reconciling, Capturing, Working,
       SubPCs, Settled
<1> QED BY <1>1, <1>5, <1>6, <1>7, <1>8, HolderStep DEF KeepsPlan

(* The run a capture works on ...                                          *)
CaptureSub(l) == IF l.action = "start" THEN l.sub ELSE l.run

(* ... is one of its date, and not a missed record.                        *)
LEMMA CaptureRun ==
  ASSUME NEW l, NEW rs, Fits(l, rs), l.action \in CAPTURE_ACTIONS,
         l.pc = IF l.action = "start" THEN "begun" ELSE "p2"
  PROVE  /\ CaptureSub(l) \in DOMAIN rs /\ ~rs[CaptureSub(l)].missed
         /\ rs[CaptureSub(l)].date = l.date
         /\ \A q \in DOMAIN rs : rs[q].state # "running"
         /\ l.job = "wake" => \/ rs[CaptureSub(l)].snap = "own"
                              \/ CapturedIn(rs, l.date) = {}
BY DEF CaptureSub, CAPTURE_ACTIONS, Fits, JobOK, SubOK, NoneRunning, CandidateOK, GateOK, 
       WakePCs, MissedPCs, ReprocessPCs, ItemPCs, Reconciling, Capturing, Working,
       SubPCs, Settled

(* The 'running' event of the run.                                         *)
LEMMA P2RunningStep ==
  ASSUME SchedInv, NEW p \in Procs, P2Running(p)
  PROVE  SchedInv'
<1> DEFINE l == proc[p]
           r == CaptureSub(l)
           n == [runs[r] EXCEPT !.state = "running"]
           s == WithRun(l, "fetch", r)
<1>1. /\ l \in Locals /\ Fits(l, runs) /\ l.pc \in {"p2", "begun"} /\ Past(p)
      /\ l.pc = IF l.action = "start" THEN "begun" ELSE "p2"
      /\ proc \in [Procs -> Locals] /\ runs \in Seq(RunType)
      /\ \A q \in DOMAIN runs : RunOK(runs[q]) /\ runs[q] \in RunType
      /\ DOMAIN runs = 1..Len(runs) /\ Len(runs) \in Nat /\ Len(runs) <= MaxRuns
      /\ UNCHANGED <<clock, lock, armed, item, calendar, declaring, used, lease, bounds>>
  BY HolderFacts DEF P2Running, At, Past
<1>2. l.action \in CAPTURE_ACTIONS /\ l.date \in Dates
  BY <1>1, CaptureDate DEF Capturing
<1>3. runs' = [runs EXCEPT ![r] = n]
  BY DEF P2Running, CaptureSub
<1>4. proc' = [proc EXCEPT ![p] = s]
  BY <1>1 DEF P2Running, Locals, WithRun, CaptureSub
<1>5. /\ r \in DOMAIN runs /\ ~runs[r].missed /\ runs[r].date = l.date
      /\ \A q \in DOMAIN runs : runs[q].state # "running"
      /\ l.job = "wake" => runs[r].snap = "own" \/ CapturedIn(runs, l.date) = {}
  BY <1>1, <1>2, CaptureRun
<1> HIDE DEF r
<1>6. r \in 0..MaxRuns /\ runs[r] \in RunType /\ "running" \in RunStates
  BY <1>1, <1>5, Bounds DEF RunStates
<1>7. /\ n \in RunType /\ n.state = "running" /\ n.date = runs[r].date
      /\ n.snap = runs[r].snap /\ n.missed = runs[r].missed
  BY <1>6, StateUpdate
<1>8. RunOK(n)
  BY <1>5, <1>7 DEF RunOK
<1> HIDE DEF n
<1>9. /\ StoreType' /\ DOMAIN runs' = DOMAIN runs /\ runs'[r] = n
      /\ \A q \in DOMAIN runs : q # r => runs'[q] = runs[q]
      /\ \A q \in DOMAIN runs' : RunOK(runs'[q])
      /\ \A e : CapturedIn(runs', e) = CapturedIn(runs, e)
  BY <1>1, <1>3, <1>5, <1>7, <1>8, EventFacts
<1>10. /\ s \in Locals /\ s.pc = "fetch" /\ s.sub = r /\ s.todo = l.todo
       /\ KeepsPlan(l, s)
  <2>1. "fetch" \in PCs /\ r \in 0..MaxRuns /\ l \in Locals
    BY <1>1, <1>6 DEF PCs
  <2> QED BY <2>1, WithRunFields
<1> HIDE DEF s
<1>11. l.date # 0 /\ (l.job = "wake" => ~l.again /\ l.todo = {})
  BY <1>1 DEF Fits, JobOK, Capturing
<1>12. Fits(s, runs')
  BY <1>2, <1>5, <1>7, <1>9, <1>10, <1>11 DEF KeepsPlan, Fits, JobOK, SubOK, NoneRunning, CandidateOK, GateOK, 
       WakePCs, MissedPCs, ReprocessPCs, ItemPCs, Reconciling, Capturing, Working,
       SubPCs, Settled
<1> QED BY <1>1, <1>4, <1>9, <1>10, <1>12, HolderStep DEF KeepsPlan

(* What a fetch does to its run.                                           *)
FetchedRun(r, snap, k) == [r EXCEPT !.snap = snap, !.left = @ - k]

(* A fetch keeps what the invariants say of its run.                       *)
LEMMA FetchedRunFields ==
  ASSUME NEW r \in RunType, NEW snap \in {"none", "own", "earlier", "later"},
         NEW k \in 0..Others, k <= r.left
  PROVE  /\ FetchedRun(r, snap, k) \in RunType
         /\ FetchedRun(r, snap, k).state = r.state
         /\ FetchedRun(r, snap, k).date = r.date
         /\ FetchedRun(r, snap, k).missed = r.missed
<1>1. r.left - k \in 0..Others
  BY Bounds DEF RunType
<1> QED BY <1>1 DEF FetchedRun, RunType

(* A fetch goes on to the derivation.                                      *)
Fetched(l, blocked) == [l EXCEPT !.pc = "derive", !.blocked = blocked]

(* ... and of its process.                                                 *)
LEMMA FetchedFields ==
  ASSUME NEW l \in Locals, NEW b \in BOOLEAN
  PROVE  /\ Fetched(l, b) \in Locals /\ Fetched(l, b).pc = "derive"
         /\ Fetched(l, b).sub = l.sub /\ Fetched(l, b).todo = l.todo
         /\ Fetched(l, b).job = l.job /\ Fetched(l, b).date = l.date
         /\ Fetched(l, b).action = l.action /\ Fetched(l, b).again = l.again
BY DEF Locals, Fetched, PCs

(* The fetch phase.                                                        *)
LEMMA P2FetchStep ==
  ASSUME SchedInv, NEW p \in Procs, NEW snap \in {"none", "own", "earlier", "later"},
         NEW k \in 0..Others, NEW blocked \in BOOLEAN, P2Fetch(p, snap, k, blocked)
  PROVE  SchedInv'
<1> DEFINE l == proc[p]
           r == runs[l.sub]
           n == FetchedRun(r, snap, k)
           s == Fetched(l, blocked)
<1>1. /\ l \in Locals /\ Fits(l, runs) /\ l.pc = "fetch" /\ Past(p)
      /\ proc \in [Procs -> Locals] /\ runs \in Seq(RunType)
      /\ Len(runs) \in Nat /\ Len(runs) <= MaxRuns
      /\ \A q \in DOMAIN runs : RunOK(runs[q]) /\ runs[q] \in RunType
      /\ UNCHANGED <<clock, lock, armed, item, calendar, declaring, lease, bounds>>
  BY HolderFacts DEF P2Fetch, At, Past
<1>2. l.sub \in DOMAIN runs /\ r.state = "running" /\ r.date = l.date
      /\ r \in RunType /\ RunOK(r)
  BY <1>1 DEF Fits, SubOK, SubPCs, Working, Capturing
<1>3. k <= r.left
  <2>1. r.left \in Nat
    BY <1>2, Bounds DEF RunType
  <2>2. k <= IF snap = "own" THEN r.left ELSE 0
    BY DEF P2Fetch
  <2> QED BY <2>1, <2>2
<1>4. runs' = [runs EXCEPT ![l.sub] = n]
  BY <1>1, <1>2 DEF P2Fetch, FetchedRun
<1>5. proc' = [proc EXCEPT ![p] = s]
  BY <1>1 DEF P2Fetch, Locals, Fetched
<1>6. used' \in [1..(LastDay + 1) -> Nat]
  <2> DEFINE first == IF r.snap = "none" THEN 1 ELSE 0
             others == IF snap = "own" THEN r.left ELSE 0
             refusal == first + k + (IF snap = "none" THEN 0 ELSE 1)
  <2>1. PICK made \in IF blocked THEN {refusal} ELSE (first + k)..(first + others) :
          used' = [used EXCEPT ![ColomboDate(clock)] = @ + made]
    BY DEF P2Fetch
  <2>2. made \in Nat
    BY <1>2, <2>1 DEF RunType
  <2>3. used \in [1..(LastDay + 1) -> Nat]
    BY DEF SchedInv, TypeOK
  <2> HIDE DEF first, others, refusal
  <2>4. \A d \in 1..(LastDay + 1) : used[d] + made \in Nat
    BY <2>2, <2>3
  <2> QED BY <2>1, <2>3, <2>4
<1>7. /\ n \in RunType /\ n.state = "running" /\ n.date = r.date /\ n.missed = r.missed
  <2> HIDE DEF r
  <2> QED BY <1>2, <1>3, FetchedRunFields
<1>8. RunOK(n)
  BY <1>2, <1>7 DEF RunOK
<1> HIDE DEF n
<1>9. /\ runs' \in Seq(RunType) /\ Len(runs') = Len(runs)
      /\ DOMAIN runs' = DOMAIN runs /\ runs'[l.sub] = n
      /\ \A q \in DOMAIN runs : q # l.sub => runs'[q] = runs[q]
  BY <1>1, <1>2, <1>4, <1>7, RunUpdate
<1>10. \A q \in DOMAIN runs' : RunOK(runs'[q])
  BY <1>1, <1>8, <1>9
<1>11. StoreType'
  BY <1>1, <1>6, <1>9 DEF StoreType, SchedInv, TypeOK
<1>12. /\ s \in Locals /\ s.pc = "derive" /\ s.sub = l.sub /\ s.todo = l.todo
       /\ s.job = l.job /\ s.date = l.date /\ s.action = l.action /\ s.again = l.again
  BY <1>1, FetchedFields
<1> HIDE DEF s
<1>13. Fits(s, runs')
  BY <1>1, <1>2, <1>7, <1>9, <1>12 DEF Fits, JobOK, SubOK, NoneRunning, CandidateOK, GateOK, 
       WakePCs, MissedPCs, ReprocessPCs, ItemPCs, Reconciling, Capturing, Working,
       SubPCs, Settled
<1> QED BY <1>1, <1>5, <1>9, <1>10, <1>11, <1>12, <1>13, HolderStep

(* After the outcome its item is reconciled once more.                     *)
AfterCapture(l, gate) ==
  [l EXCEPT !.pc = "open", !.todo = {l.date}, !.again = TRUE, !.gate = gate]

(* What the reconciling of the captured item starts from.                  *)
LEMMA AfterCaptureFields ==
  ASSUME NEW l \in Locals, l.date \in Dates, NEW gate \in BOOLEAN
  PROVE  /\ AfterCapture(l, gate) \in Locals /\ AfterCapture(l, gate).pc = "open"
         /\ AfterCapture(l, gate).sub = l.sub /\ AfterCapture(l, gate).job = l.job
         /\ AfterCapture(l, gate).again = TRUE
BY DEF Locals, AfterCapture, PCs

(* The outcome event of the captured item.                                 *)
LEMMA OutcomeStep ==
  ASSUME SchedInv, NEW p \in Procs, Outcome(p)
  PROVE  SchedInv'
<1> DEFINE l == proc[p]
           gate == UnacknowledgedBlocks # {}
           s == AfterCapture(l, gate)
           state == runs[l.sub].state
<1>1. /\ l \in Locals /\ Fits(l, runs) /\ l.pc = "outcome" /\ Past(p)
      /\ \A q \in DOMAIN runs : runs[q] \in RunType
      /\ DOMAIN runs = 1..Len(runs) /\ Len(runs) \in Nat /\ Len(runs) <= MaxRuns
      /\ UNCHANGED <<clock, lock, armed, runs, calendar, declaring, used, lease, bounds>>
      /\ bounds' \in [manual : Nat, trouble : Nat]
  BY HolderFacts DEF Outcome, At, Past
<1>2. Event(p, l.date, state, l.action, l.sub, s)
  BY DEF Outcome, AfterCapture
<1>3. l.sub \in DOMAIN runs /\ l.job = "wake"
  BY <1>1 DEF Fits, JobOK, SubOK, SubPCs, WakePCs
<1>4. l.date \in Dates /\ l.action \in CAPTURE_ACTIONS
  BY <1>1, CaptureDate DEF Capturing
<1>5. /\ l.action \in EventActions /\ state \in ItemStates /\ l.sub \in 0..MaxRuns
  BY <1>1, <1>3, <1>4, Bounds
     DEF CAPTURE_ACTIONS, EventActions, RunType, ItemStates
<1>6. /\ s \in Locals /\ s.pc = "open" /\ s.sub = l.sub /\ s.job = l.job /\ s.again
  <2>1. gate \in BOOLEAN
    OBVIOUS
  <2> HIDE DEF gate
  <2> QED BY <1>1, <1>4, <2>1, AfterCaptureFields
<1> HIDE DEF s, state
<1>7. Fits(s, runs)
  BY <1>1, <1>3, <1>6 DEF Fits, JobOK, SubOK, NoneRunning, CandidateOK, GateOK, 
       WakePCs, MissedPCs, ReprocessPCs, ItemPCs, Reconciling, Capturing, Working,
       SubPCs, Settled
<1> QED BY <1>1, <1>2, <1>3, <1>4, <1>5, <1>6, <1>7, EventStep

(* finish_wakeup.                                                          *)
LEMMA FinishStep ==
  ASSUME SchedInv, NEW p \in Procs, Finish(p)
  PROVE  SchedInv'
<1>1. Past(p)
  BY DEF Finish, At, Past
<1>2. lease' \in [Procs -> {"active", "closed"}]
      /\ bounds' \in [manual : Nat, trouble : Nat]
  BY DEF Finish, SchedInv, TypeOK
<1> QED BY <1>1, <1>2, ReleaseStep DEF Finish

(* The death of a process.                                                 *)
LEMMA CrashStep ==
  ASSUME SchedInv, NEW p \in Procs, Crash(p)
  PROVE  SchedInv'
<1>1. Past(p)
  BY ScheduleConstants DEF Crash, Past
<1>2. lease' \in [Procs -> {"active", "closed"}]
  BY DEF Crash, SchedInv, TypeOK
<1>3. bounds' \in [manual : Nat, trouble : Nat]
  BY HolderFacts, SpentType DEF Crash
<1> QED BY <1>1, <1>2, <1>3, ReleaseStep DEF Crash

-----------------------------------------------------------------------------
(* Wake-ups and commands begin                                             *)

(* A wake-up about to try the lock.                                        *)
Ready(now, only, confirm) ==
  [IdleProcess EXCEPT !.pc = "ready", !.job = "wake",
     !.now = now, !.only = only, !.confirm = confirm]

(* A process that waits for the lock.                                      *)
LEMMA ReadyFields ==
  ASSUME NEW now \in 0..EndTime, NEW only \in 0..LastDay, NEW confirm \in BOOLEAN
  PROVE  /\ Ready(now, only, confirm) \in Locals /\ Ready(now, only, confirm).pc = "ready"
         /\ Ready(now, only, confirm).job = "wake" /\ Ready(now, only, confirm).date = 0
         /\ Ready(now, only, confirm).again = FALSE
         /\ Ready(now, only, confirm).blocked = FALSE
<1>1. IdleProcess.date = 0 /\ IdleProcess.again = FALSE /\ IdleProcess.blocked = FALSE
  BY DEF IdleProcess
<1>2. IdleProcess \in Locals /\ "ready" \in PCs
  BY IdleType DEF PCs
<1> QED BY <1>1, <1>2 DEF Ready, Locals

(* The timer or an operator starts a wake-up.                              *)
LEMMA WakeStep ==
  ASSUME SchedInv, NEW p \in Procs, NEW only \in 0..LastDay, NEW confirm \in BOOLEAN,
         Wake(p, only, confirm)
  PROVE  SchedInv'
<1> DEFINE s == Ready(clock, only, confirm)
<1>1. /\ s \in Locals /\ s.pc = "ready" /\ s.job = "wake"
      /\ s.date = 0 /\ ~s.again /\ ~s.blocked
  BY ReadyFields DEF SchedInv, TypeOK
<1>2. bounds' \in [manual : Nat, trouble : Nat]
  BY HolderFacts, SpentType DEF Wake
<1>3. /\ proc' = [proc EXCEPT ![p] = s]
      /\ UNCHANGED <<clock, lock, armed, runs, item, calendar, declaring, used, lease>>
  BY DEF Wake, Ready
<1> HIDE DEF s
<1>4. Fits(s, runs)
  BY <1>1 DEF Fits, JobOK, SubOK, NoneRunning, CandidateOK, GateOK, 
       WakePCs, MissedPCs, ReprocessPCs, ItemPCs, Reconciling, Capturing, Working,
       SubPCs, Settled
<1> QED BY <1>1, <1>2, <1>3, <1>4, OutsideStep

(* The lock is held.                                                       *)
LEMMA SkipStep ==
  ASSUME SchedInv, NEW p \in Procs, Skip(p)
  PROVE  SchedInv'
<1>1. IdleProcess \in Locals /\ IdleProcess.pc = "idle" /\ Fits(IdleProcess, runs)
  BY IdleType, EndFits
<1>2. bounds' \in [manual : Nat, trouble : Nat]
  BY HolderFacts DEF Skip
<1> QED BY <1>1, <1>2, OutsideStep DEF Skip

(* A wake-up takes the lock and records its lease.                         *)
LEMMA LockStep ==
  ASSUME SchedInv, NEW p \in Procs, Lock(p)
  PROVE  SchedInv'
<1> DEFINE l == proc[p]
           s == [l EXCEPT !.pc = "recover", !.armed = armed]
<1>1. /\ l \in Locals /\ Fits(l, runs) /\ l.pc = "ready" /\ l.job = "wake"
      /\ proc \in [Procs -> Locals] /\ armed \in BOOLEAN
  BY HolderFacts DEF Lock, At, SchedInv, TypeOK
<1>2. /\ proc' = [proc EXCEPT ![p] = s] /\ LockFree /\ lock' = p
      /\ UNCHANGED <<clock, armed, runs, item, calendar, declaring, used, bounds>>
  BY <1>1 DEF Lock
<1>3. lease' \in [Procs -> {"active", "closed"}] /\ lease'[p] = "active"
  BY DEF Lock
<1>4. /\ StoreType' /\ (\A r \in DOMAIN runs' : RunOK(runs'[r]))
      /\ DOMAIN runs \subseteq DOMAIN runs'
  BY <1>2, HolderFacts, SameStore
<1>5. s \in Locals /\ s.pc = "recover" /\ KeepsPlan(l, s)
  BY <1>1 DEF Locals, PCs, KeepsPlan
<1> HIDE DEF s
<1>6. Fits(s, runs')
  BY <1>1, <1>2, <1>5 DEF KeepsPlan, Fits, JobOK, SubOK, NoneRunning, CandidateOK, GateOK, 
       WakePCs, MissedPCs, ReprocessPCs, ItemPCs, Reconciling, Capturing, Working,
       SubPCs, Settled
<1> QED BY <1>2, <1>3, <1>4, <1>5, <1>6, TakeStep

(* cse-capture start or resume.                                            *)
LEMMA ManualCaptureStep ==
  ASSUME SchedInv, NEW p \in Procs, NEW a \in CAPTURE_ACTIONS, NEW d \in Dates,
         NEW r \in 0..MaxRuns, ManualCapture(p, a, d, r)
  PROVE  SchedInv'
<1> DEFINE rs == Abandoned(runs)
           s == Command("p2", d, a, r)
<1>1. /\ proc' = [proc EXCEPT ![p] = s] /\ LockFree /\ lock' = p /\ runs' = rs
      /\ UNCHANGED <<clock, armed, item, calendar, declaring, used, lease>>
  BY DEF ManualCapture
<1>2. a = "start" \/ (r \in DOMAIN rs /\ rs[r].date = d /\ ~rs[r].missed)
  BY DEF ManualCapture
<1>3. /\ rs \in Seq(RunType) /\ Len(rs) <= MaxRuns /\ DOMAIN rs = DOMAIN runs
      /\ \A q \in DOMAIN rs : RunOK(rs[q]) /\ rs[q].state # "running"
  BY AbandonedOK
<1>4. bounds' \in [manual : Nat, trouble : Nat]
  BY HolderFacts, SpentType DEF ManualCapture
<1>5. "p2" \in PCs /\ a \in {"none"} \cup CAPTURE_ACTIONS /\ d # 0
  BY DEF PCs, Dates
<1>6. /\ s \in Locals /\ s.pc = "p2" /\ s.job = "manual" /\ s.date = d
      /\ s.action = a /\ s.run = r
  BY <1>5, CommandFields
<1>7. lease' \in [Procs -> {"active", "closed"}] /\ StoreType'
  BY <1>1, <1>3, <1>4 DEF StoreType, SchedInv, TypeOK
<1> HIDE DEF s, rs
<1>8. Fits(s, runs')
  BY <1>1, <1>2, <1>3, <1>5, <1>6 DEF CAPTURE_ACTIONS, Fits, JobOK, SubOK, NoneRunning, CandidateOK, GateOK, 
       WakePCs, MissedPCs, ReprocessPCs, ItemPCs, Reconciling, Capturing, Working,
       SubPCs, Settled
<1> QED BY <1>1, <1>3, <1>6, <1>7, <1>8, TakeStep

(* cse-capture record-missed.                                              *)
LEMMA ManualMissedStep ==
  ASSUME SchedInv, NEW p \in Procs, NEW d \in Dates, ManualMissed(p, d)
  PROVE  SchedInv'
<1> DEFINE rs == Abandoned(runs)
           new == Len(runs) + 1
           n == NewRun(d, TRUE, TRUE, 0)
           s == Command("missed_event", d, "none", new)
<1>1. /\ proc' = [proc EXCEPT ![p] = s] /\ LockFree /\ lock' = p
      /\ runs' = Append(rs, n) /\ Len(runs) < MaxRuns
      /\ UNCHANGED <<clock, armed, item, calendar, declaring, used, lease>>
  BY DEF ManualMissed
<1>2. /\ rs \in Seq(RunType) /\ Len(rs) = Len(runs) /\ DOMAIN rs = DOMAIN runs
      /\ \A q \in DOMAIN rs : RunOK(rs[q]) /\ rs[q].state # "running"
  BY HolderFacts, AbandonedOK, AbandonedFacts
<1>3. /\ n \in RunType /\ n.missed /\ n.state = "pending" /\ n.snap = "none"
  BY Bounds DEF NewRun, RunType, RunStates
<1>4. bounds' \in [manual : Nat, trouble : Nat]
  BY HolderFacts, SpentType DEF ManualMissed
<1>5. "missed_event" \in PCs /\ "none" \in {"none"} \cup CAPTURE_ACTIONS
      /\ new \in 0..MaxRuns
  BY <1>1, HolderFacts, Bounds DEF PCs
<1>6. /\ s \in Locals /\ s.pc = "missed_event" /\ s.job = "manual" /\ s.sub = new
  BY <1>5, CommandFields
<1> HIDE DEF s, rs, n
<1>7. /\ runs' \in Seq(RunType) /\ Len(runs') = new /\ new \in DOMAIN runs'
      /\ DOMAIN runs' = DOMAIN runs \cup {new} /\ runs'[new] = n
      /\ \A q \in DOMAIN rs : runs'[q] = rs[q]
  BY <1>1, <1>2, <1>3, AppendFacts
<1>8. \A q \in DOMAIN runs' : RunOK(runs'[q]) /\ runs'[q].state # "running"
  BY <1>2, <1>3, <1>7 DEF RunOK
<1>9. lease' \in [Procs -> {"active", "closed"}] /\ StoreType'
  BY <1>1, <1>4, <1>5, <1>7 DEF StoreType, SchedInv, TypeOK
<1>10. Fits(s, runs')
  BY <1>3, <1>6, <1>7, <1>8 DEF Fits, JobOK, SubOK, NoneRunning, CandidateOK, GateOK, 
       WakePCs, MissedPCs, ReprocessPCs, ItemPCs, Reconciling, Capturing, Working,
       SubPCs, Settled
<1> QED BY <1>1, <1>6, <1>7, <1>8, <1>9, <1>10, TakeStep

(* reprocess_date, before the lock.                                        *)
LEMMA OperatorReprocessStep ==
  ASSUME SchedInv, NEW p \in Procs, NEW d \in Dates, OperatorReprocess(p, d)
  PROVE  SchedInv'
<1> PICK ev : ev = Evidence(d)
  OBVIOUS
<1> DEFINE c == Command("ready", d, "none", ev.run)
           s == [c EXCEPT !.job = "reprocess", !.now = clock]
<1>1. /\ proc' = [proc EXCEPT ![p] = s] /\ Captured(d) # {}
      /\ UNCHANGED <<clock, lock, armed, runs, item, calendar, declaring, used, lease>>
  BY DEF OperatorReprocess
<1>2. bounds' \in [manual : Nat, trouble : Nat] /\ clock \in 0..EndTime
  BY HolderFacts, SpentType DEF OperatorReprocess, SchedInv, TypeOK
<1>3. ev.run \in DOMAIN runs /\ ev.run \in 0..MaxRuns
  <2>1. EvidenceOK(d, ev) /\ Len(runs) \in Nat /\ Len(runs) <= MaxRuns
    BY HolderFacts, EvidenceFacts
  <2> QED BY <1>1, <2>1, Bounds DEF EvidenceOK, RunsFor
<1>4. "ready" \in PCs /\ "none" \in {"none"} \cup CAPTURE_ACTIONS
  BY DEF PCs
<1>5. c \in Locals /\ c.pc = "ready" /\ c.sub = ev.run
  BY <1>3, <1>4, CommandFields
<1> HIDE DEF c
<1>6. s \in Locals /\ s.pc = "ready" /\ s.sub = ev.run /\ s.job = "reprocess"
  BY <1>2, <1>5 DEF Locals
<1> HIDE DEF s
<1>7. Fits(s, runs)
  BY <1>3, <1>6 DEF Fits, JobOK, SubOK, NoneRunning, CandidateOK, GateOK, 
       WakePCs, MissedPCs, ReprocessPCs, ItemPCs, Reconciling, Capturing, Working,
       SubPCs, Settled
<1> QED BY <1>1, <1>2, <1>6, <1>7, OutsideStep

(* ... and under it.                                                       *)
LEMMA OperatorLockStep ==
  ASSUME SchedInv, NEW p \in Procs, OperatorLock(p)
  PROVE  SchedInv'
<1> DEFINE l == proc[p]
           s == [l EXCEPT !.pc = "reprocess"]
<1>1. /\ l \in Locals /\ Fits(l, runs) /\ l.pc = "ready" /\ l.job = "reprocess"
      /\ proc' = [proc EXCEPT ![p] = s] /\ LockFree /\ lock' = p
      /\ runs' = Abandoned(runs)
      /\ UNCHANGED <<clock, armed, item, calendar, declaring, used, lease, bounds>>
  BY HolderFacts DEF OperatorLock, At, Goto
<1>2. /\ runs' \in Seq(RunType) /\ Len(runs') <= MaxRuns /\ DOMAIN runs' = DOMAIN runs
      /\ \A q \in DOMAIN runs' : RunOK(runs'[q]) /\ runs'[q].state # "running"
  BY <1>1, AbandonedOK
<1>3. s \in Locals /\ s.pc = "reprocess" /\ s.sub = l.sub /\ KeepsPlan(l, s)
  <2>1. "reprocess" \in PCs
    BY DEF PCs
  <2> QED BY <1>1, <2>1, GotoFields
<1>4. lease' \in [Procs -> {"active", "closed"}] /\ StoreType'
  BY <1>1, <1>2 DEF StoreType, SchedInv, TypeOK
<1> HIDE DEF s
<1>5. Fits(s, runs')
  BY <1>1, <1>2, <1>3 DEF KeepsPlan, Fits, JobOK, SubOK, NoneRunning, CandidateOK, GateOK, 
       WakePCs, MissedPCs, ReprocessPCs, ItemPCs, Reconciling, Capturing, Working,
       SubPCs, Settled
<1> QED BY <1>1, <1>2, <1>3, <1>4, <1>5, TakeStep DEF KeepsPlan

-----------------------------------------------------------------------------
(* The owner, the operator's calendar and the clock                        *)

(* A step that touches neither processes nor runs.                         *)
LEMMA ElsewhereStep ==
  ASSUME SchedInv, TypeOK', UNCHANGED <<lock, runs, lease, proc>>
  PROVE  SchedInv'
BY DEF SchedInv, Past, LiveLeaseStaysActive

(* Owner decisions, and an operator's new item.                            *)
LEMMA OwnerStep ==
  ASSUME SchedInv, Owner
  PROVE  SchedInv'
<1>1. ASSUME NEW d \in Dates, AddItem(d)
      PROVE  SchedInv'
  <2>1. item' \in [Dates -> ItemType]
    <3>1. \A i \in ItemType :
            [i EXCEPT !.state = "pending", !.origin = "operator"] \in ItemType
      BY DEF ItemType, ItemStates, RunStates
    <3> DEFINE n == [item[d] EXCEPT !.state = "pending", !.origin = "operator"]
    <3>2. item \in [Dates -> ItemType]
      BY DEF SchedInv, TypeOK
    <3>3. n \in ItemType
      BY <3>1, <3>2
    <3>4. item' = [item EXCEPT ![d] = n]
      BY <1>1, <3>2 DEF AddItem
    <3> HIDE DEF n
    <3> QED BY <3>2, <3>3, <3>4
  <2>2. bounds' \in [manual : Nat, trouble : Nat]
    BY <1>1, SpentType DEF AddItem, SchedInv, TypeOK
  <2>3. TypeOK' /\ UNCHANGED <<lock, runs, lease, proc>>
    BY <1>1, <2>1, <2>2 DEF AddItem, SchedInv, TypeOK
  <2> QED BY <2>3, ElsewhereStep
<1>2. ASSUME NEW d \in Dates, DeclareCheck(d)
      PROVE  SchedInv'
  <2>1. bounds' \in [manual : Nat, trouble : Nat]
    BY <1>2, SpentType DEF DeclareCheck, SchedInv, TypeOK
  <2>2. TypeOK' /\ UNCHANGED <<lock, runs, lease, proc>>
    BY <1>2, <2>1 DEF DeclareCheck, SchedInv, TypeOK
  <2> QED BY <2>2, ElsewhereStep
<1>3. ASSUME NEW d \in Dates, DeclareInsert(d)
      PROVE  SchedInv'
  <2>1. TypeOK' /\ UNCHANGED <<lock, runs, lease, proc>>
    BY <1>3 DEF DeclareInsert, SchedInv, TypeOK
  <2> QED BY <2>1, ElsewhereStep
<1>4. ASSUME Disarm \/ Arm
      PROVE  SchedInv'
  <2>1. bounds' \in [manual : Nat, trouble : Nat]
    BY <1>4, SpentType DEF Disarm, Arm, SchedInv, TypeOK
  <2>2. TypeOK' /\ UNCHANGED <<lock, runs, lease, proc>>
    BY <1>4, <2>1 DEF Disarm, Arm, SchedInv, TypeOK
  <2> QED BY <2>2, ElsewhereStep
<1>5. ASSUME NEW r \in 1..MaxRuns, AcknowledgeBlock(r)
      PROVE  SchedInv'
  <2> DEFINE n == [runs[r] EXCEPT !.acked = TRUE]
  <2>1. /\ r \in DOMAIN runs /\ runs \in Seq(RunType) /\ Len(runs) <= MaxRuns
        /\ runs[r] \in RunType /\ \A q \in DOMAIN runs : RunOK(runs[q])
        /\ UNCHANGED <<clock, lock, armed, item, calendar, declaring, used, lease,
                       proc, bounds>>
    BY <1>5 DEF AcknowledgeBlock, UnacknowledgedBlocks, SchedInv, TypeOK
  <2>2. /\ n \in RunType /\ n.state = runs[r].state /\ n.date = runs[r].date
        /\ n.snap = runs[r].snap /\ n.missed = runs[r].missed /\ n.acked
    BY <2>1 DEF RunType
  <2>3. runs' = [runs EXCEPT ![r] = n]
    BY <1>5 DEF AcknowledgeBlock
  <2> HIDE DEF n
  <2>4. /\ runs' \in Seq(RunType) /\ Len(runs') = Len(runs)
        /\ DOMAIN runs' = DOMAIN runs /\ runs'[r] = n
        /\ \A q \in DOMAIN runs : q # r => runs'[q] = runs[q]
    BY <2>1, <2>2, <2>3, RunUpdate
  <2>5. \A q \in DOMAIN runs : /\ runs'[q].state = runs[q].state
                               /\ runs'[q].date = runs[q].date
                               /\ runs'[q].snap = runs[q].snap
                               /\ runs'[q].missed = runs[q].missed
                               /\ runs[q].acked => runs'[q].acked
    BY <2>2, <2>4
  <2>6. \A p \in Procs : Fits(proc[p], runs')
    BY <2>4, <2>5, AcknowledgedFits DEF SchedInv
  <2>7. \A q \in DOMAIN runs' : RunOK(runs'[q])
    BY <2>1, <2>4, <2>5 DEF RunOK
  <2>8. TypeOK'
    BY <2>1, <2>4 DEF SchedInv, TypeOK
  <2> QED BY <2>1, <2>6, <2>7, <2>8 DEF SchedInv, Past, LiveLeaseStaysActive
<1> QED BY <1>1, <1>2, <1>3, <1>4, <1>5 DEF Owner

(* The passing of time.                                                    *)
LEMMA TickStep ==
  ASSUME SchedInv, Tick
  PROVE  SchedInv'
<1>1. TypeOK' /\ UNCHANGED <<lock, runs, lease, proc>>
  BY Bounds DEF Tick, SchedInv, TypeOK
<1> QED BY <1>1, ElsewhereStep

-----------------------------------------------------------------------------
(* The invariant                                                           *)

(* The initial state has the invariant.                                    *)
LEMMA InitInv == Init => SchedInv
<1> SUFFICES ASSUME Init
             PROVE  SchedInv
  OBVIOUS
<1>1. IdleProcess \in Locals /\ IdleProcess.pc = "idle" /\ Fits(IdleProcess, runs)
  BY IdleType, EndFits
<1>2. proc \in [Procs -> Locals] /\ \A p \in Procs : proc[p] = IdleProcess
  BY <1>1 DEF Init
<1>3. runs \in Seq(RunType) /\ Len(runs) = 0 /\ DOMAIN runs = {}
  BY DEF Init
<1>4. TypeOK
  BY <1>2, <1>3, Bounds, ScheduleConstants DEF Init, TypeOK, ItemType, ItemStates
<1> QED BY <1>1, <1>2, <1>3, <1>4 DEF SchedInv, Past, LiveLeaseStaysActive

(* Every step keeps the invariant.                                         *)
LEMMA NextInv ==
  ASSUME SchedInv, [Next]_vars
  PROVE  SchedInv'
<1>1. ASSUME NEW p \in Procs, Step(p)
      PROVE  SchedInv'
  <2>1. CASE \/ Lock(p) \/ Skip(p) \/ Recover(p) \/ Discover(p) \/ Sync(p) \/ Apply(p)
             \/ MissedRun(p) \/ MissedEvent(p) \/ MissedItem(p) \/ ReprocessDecided(p)
    BY <2>1, LockStep, SkipStep, RecoverStep, DiscoverStep, SyncStep, ApplyStep,
       MissedRunStep, MissedEventStep, MissedItemStep, ReprocessDecidedStep
  <2>2. CASE \/ Reconciled(p) \/ Reprocess(p) \/ Derive(p) \/ Settle(p)
             \/ Reprocessed(p) \/ Open(p)
    BY <2>2, ReconciledStep, ReprocessStep, DeriveStep, SettleStep, ReprocessedStep,
       OpenStep
  <2>3. CASE \/ NoCapture(p) \/ StartCapture(p) \/ P2Create(p) \/ P2Running(p)
             \/ Outcome(p) \/ OperatorLock(p) \/ Finish(p)
    BY <2>3, NoCaptureStep, StartCaptureStep, P2CreateStep, P2RunningStep,
       OutcomeStep, OperatorLockStep, FinishStep
  <2>4. CASE \E snap \in {"none", "own", "earlier", "later"}, k \in 0..Others,
                blocked \in BOOLEAN : P2Fetch(p, snap, k, blocked)
    BY <2>4, P2FetchStep
  <2> QED BY <1>1, <2>1, <2>2, <2>3, <2>4 DEF Step
<1>2. ASSUME NEW p \in Procs, Fault(p)
      PROVE  SchedInv'
  BY <1>2, RefuseWakeStep, NoCaptureStep, P2RefusesStep, CrashStep DEF Fault
<1>3. ASSUME NEW p \in Procs, Wake(p, 0, FALSE) \/ Operator(p)
      PROVE  SchedInv'
  <2>1. 0 \in 0..LastDay /\ \A d \in Dates : d \in 0..LastDay
    BY Bounds
  <2> QED BY <1>3, <2>1, WakeStep, ManualCaptureStep, ManualMissedStep,
             OperatorReprocessStep DEF Operator
<1>4. CASE UNCHANGED vars
  BY <1>4 DEF vars, SchedInv, TypeOK, Past, LiveLeaseStaysActive
<1> QED BY <1>1, <1>2, <1>3, <1>4, OwnerStep, TickStep DEF Next

(* The inductive invariant holds in every reachable state.                 *)
LEMMA Invariance == Spec => []SchedInv
<1>1. SchedInv /\ [Next]_vars => SchedInv'
  BY NextInv
<1> QED BY InitInv, <1>1, PTL DEF Spec

(* Type correctness: in every reachable state each variable holds what the *)
(* code stores there; in particular a process, its item and its run are    *)
(* always of the dates and runs the database knows.                        *)
THEOREM TypeCorrectness == Spec => []TypeOK
<1>1. SchedInv => TypeOK
  BY DEF SchedInv
<1> QED BY Invariance, <1>1, PTL

(* "Nothing alive is ever expired" (LiveLeaseStaysActive): a wake-up past  *)
(* the lock still has its own lease active, although every wake-up expires *)
(* the leases of all others without asking whether they live: the lock     *)
(* says that they do not.                                                  *)
THEOREM LeasesSound == Spec => []LiveLeaseStaysActive
<1>1. SchedInv => LiveLeaseStaysActive
  BY DEF SchedInv
<1> QED BY Invariance, <1>1, PTL

(* The scheduler never creates a second deriving run (OneDerivingRun):     *)
(* when one of its captures makes requests, its run already holds the      *)
(* date's own session or no run of the date does, although the capture was *)
(* decided before other items were reconciled and reprocessed.             *)
THEOREM SingleDerivingRun == Spec => []OneDerivingRun
<1>1. ASSUME SchedInv
      PROVE  OneDerivingRun
  <2> SUFFICES ASSUME NEW p \in Procs, proc[p].job = "wake",
                      proc[p].pc \in {"begun", "fetch"}
               PROVE  \/ runs[proc[p].sub].snap = "own"
                      \/ Captured(proc[p].date) = {}
    BY DEF OneDerivingRun
  <2>1. Fits(proc[p], runs)
    BY <1>1 DEF SchedInv
  <2>2. Captured(proc[p].date) = CapturedIn(runs, proc[p].date)
    BY DEF Captured, RunsFor, CapturedIn
  <2> QED BY <2>1, <2>2 DEF Fits, JobOK, CandidateOK, Capturing
<1> QED BY Invariance, <1>1, PTL

-----------------------------------------------------------------------------
(* Item events                                                             *)

(* What an event may do to the items, given the runs it happens with.      *)
SafeItems ==
  \A d \in Dates : item'[d] # item[d] =>
    /\ item'[d].state \in {"missed", "not_applicable"} => Captured(d) = {}
    /\ item'[d].tries > item[d].tries => UnacknowledgedBlocks = {}

(* An event is safe by the state it records.                               *)
LEMMA SafeEvent ==
  ASSUME SchedInv, NEW p \in Procs, NEW d \in Dates, NEW state \in ItemStates,
         NEW action \in EventActions, NEW run \in 0..MaxRuns, NEW next,
         Event(p, d, state, action, run, next),
         state \in {"missed", "not_applicable"} => Captured(d) = {},
         state = "running" => UnacknowledgedBlocks = {}
  PROVE  SafeItems
<1>1. /\ item \in [Dates -> ItemType] /\ proc[p] \in Locals
      /\ \A e \in Dates : e # d => item'[e] = item[e]
      /\ \/ item'[d] = EventRecord(item[d], state, action, run, proc[p].now)
         \/ item' = item
  <2>1. TypeOK
    BY DEF SchedInv
  <2>2. item \in [Dates -> ItemType] /\ proc[p] \in Locals
    BY HolderFacts
  <2>3. /\ \A e \in Dates : e # d => item'[e] = item[e]
        /\ \/ /\ GuardAccepts(d, state, run)
              /\ item'[d] = EventRecord(item[d], state, action, run, proc[p].now)
              /\ proc' = [proc EXCEPT ![p] = next]
           \/ /\ ~GuardAccepts(d, state, run)
              /\ item' = item /\ proc' = [proc EXCEPT ![p] = Ended(FALSE)]
    BY <2>1, EventEffect
  <2> QED BY <2>2, <2>3
<1>2. item[d] \in ItemType /\ proc[p].now \in 0..EndTime
  BY <1>1 DEF Locals
<1> DEFINE n == EventRecord(item[d], state, action, run, proc[p].now)
<1>3. n.state = state /\ (state # "running" => n.tries = item[d].tries)
  BY <1>2, EventRecordType
<1>4. item[d].tries \in Nat
  BY <1>2 DEF ItemType
<1> HIDE DEF n
<1>5. item'[d] = n \/ item' = item
  BY <1>1 DEF n
<1> SUFFICES ASSUME NEW e \in Dates, item'[e] # item[e]
             PROVE  /\ item'[e].state \in {"missed", "not_applicable"} => Captured(e) = {}
                    /\ item'[e].tries > item[e].tries => UnacknowledgedBlocks = {}
  BY DEF SafeItems
<1>6. e = d /\ item'[e] = n
  BY <1>1, <1>5
<1> QED BY <1>3, <1>4, <1>6

(* An item that is only made 'pending' closes nothing.                     *)
LEMMA SafePending ==
  ASSUME NEW e \in Dates, item \in [Dates -> ItemType],
         \A d \in Dates : d # e => item'[d] = item[d],
         item'[e].state = "pending", item'[e].tries = item[e].tries
  PROVE  SafeItems
<1>1. item[e].tries \in Nat
  BY DEF ItemType
<1> QED BY <1>1 DEF SafeItems

(* _sync closes an item as missed only where its evidence does.            *)
LEMMA SyncSafe ==
  ASSUME SchedInv, NEW p \in Procs, Sync(p)
  PROVE  SafeItems
<1> DEFINE d == Current(p)
<1> PICK ev : ev = Evidence(d)
  OBVIOUS
<1>1. proc[p] \in Locals /\ proc[p].todo # {}
  BY HolderFacts DEF Sync
<1>2. d \in Dates
  BY <1>1, CurrentDate DEF Locals, Current
<1>3. EvidenceOK(d, ev) /\ Len(runs) \in Nat /\ Len(runs) <= MaxRuns
  BY HolderFacts, EvidenceFacts
<1>4. CASE Unrecorded(d)
  <2> DEFINE run == IF ev.state = "pending" THEN 0 ELSE ev.run
             next == [proc[p] EXCEPT !.pc = "decide"]
  <2>1. Event(p, d, ev.state, "observe", run, next)
    BY <1>4 DEF Sync
  <2>2. run \in 0..MaxRuns /\ ev.state \in ItemStates /\ "observe" \in EventActions
    BY <1>3, Bounds DEF EvidenceOK, ItemStates, EventActions
  <2>3. ev.state # "running"
    BY <1>4 DEF Unrecorded
  <2>4. ev.state \in {"missed", "not_applicable"} => Captured(d) = {}
    BY <1>3 DEF EvidenceOK, RunStates
  <2> HIDE DEF d, run, next
  <2> QED BY <1>2, <2>1, <2>2, <2>3, <2>4, SafeEvent
<1>5. CASE ~Unrecorded(d)
  BY <1>5 DEF Sync, SafeItems
<1> QED BY <1>4, <1>5

(* So do the decisions 'not applicable' and 'finalize'.                    *)
LEMMA ApplySafe ==
  ASSUME SchedInv, NEW p \in Procs, Apply(p)
  PROVE  SafeItems
<1> DEFINE d == Current(p)
           next == Advance(proc[p])
<1> PICK dec : dec = DecisionOf(p)
  OBVIOUS
<1> PICK ev : ev = Evidence(d)
  OBVIOUS
<1>1. /\ d \in Dates /\ DecisionOK(d, dec) /\ EvidenceOK(d, ev)
      /\ \A r \in DOMAIN runs : runs[r].state # "running"
      /\ Len(runs) \in Nat /\ Len(runs) <= MaxRuns /\ DOMAIN runs = 1..Len(runs)
  BY DecideState, HolderFacts DEF Apply
<1>2. dec.run \in 0..MaxRuns /\ "finalize" \in EventActions
  BY <1>1, Bounds DEF DecisionOK, EventActions
<1>3. CASE dec.kind = "not_applicable"
  <2>1. Event(p, d, "not_applicable", "finalize", dec.run, next)
    BY <1>3 DEF Apply
  <2>2. "not_applicable" \in ItemStates /\ Captured(d) = {}
    BY <1>1, <1>3 DEF ItemStates, DecisionOK
  <2> HIDE DEF next, d
  <2> QED BY <1>1, <1>2, <2>1, <2>2, SafeEvent
<1>4. CASE dec.kind = "finalize"
  <2>1. Event(p, d, ev.state, "finalize", dec.run, next)
    BY <1>4 DEF Apply
  <2>2. /\ ev.state \in ItemStates /\ ev.state # "running"
        /\ ev.state \in {"missed", "not_applicable"} => Captured(d) = {}
    BY <1>1 DEF EvidenceOK, RunsFor, ItemStates, RunStates
  <2> HIDE DEF next, d
  <2> QED BY <1>1, <1>2, <2>1, <2>2, SafeEvent
<1>5. CASE dec.kind \in {"wait", "capture"}
  BY <1>5 DEF Apply, SafeItems
<1> QED BY <1>3, <1>4, <1>5 DEF Apply

(* A missed record is written only without a capture of the date.          *)
LEMMA MissedItemSafe ==
  ASSUME SchedInv, NEW p \in Procs, MissedItem(p)
  PROVE  SafeItems
<1> DEFINE l == proc[p]
           d == Current(p)
           next == Advance(l)
<1>1. /\ l \in Locals /\ Fits(l, runs) /\ l.pc = "missed_item"
      /\ DOMAIN runs = 1..Len(runs) /\ Len(runs) \in Nat /\ Len(runs) <= MaxRuns
      /\ Event(p, d, "missed", "record_missed", l.sub, next)
  BY HolderFacts DEF MissedItem, At
<1>2. l.todo # {} /\ l.sub \in DOMAIN runs /\ CapturedIn(runs, Min(l.todo)) = {}
  BY <1>1 DEF Fits, JobOK, SubOK, ItemPCs, MissedPCs, SubPCs, WakePCs
<1>3. d \in Dates
  BY <1>1, <1>2, CurrentDate DEF Current, Locals
<1>4. Captured(d) = {}
  BY <1>2 DEF Current, Captured, RunsFor, CapturedIn
<1>5. /\ "missed" \in ItemStates /\ "record_missed" \in EventActions
      /\ l.sub \in 0..MaxRuns
  BY <1>1, <1>2, Bounds DEF ItemStates, RunStates, EventActions
<1> HIDE DEF next, d
<1> QED BY <1>1, <1>3, <1>4, <1>5, SafeEvent

(* The events of a run that has just settled.                              *)
LEMMA SettledSafe ==
  ASSUME SchedInv, NEW p \in Procs, Reprocessed(p) \/ Outcome(p)
  PROVE  SafeItems
<1> DEFINE l == proc[p]
           state == runs[l.sub].state
<1>1. /\ l \in Locals /\ Fits(l, runs) /\ l.pc \in {"reprocessed", "outcome"}
      /\ \A q \in DOMAIN runs : runs[q] \in RunType
      /\ DOMAIN runs = 1..Len(runs) /\ Len(runs) \in Nat /\ Len(runs) <= MaxRuns
  BY HolderFacts DEF Reprocessed, Outcome, At
<1>2. l.sub \in DOMAIN runs /\ runs[l.sub].date \in Dates /\ state \in Settled
  BY <1>1 DEF Fits, SubOK, SubPCs, ReprocessPCs, RunType
<1>3. l.pc = "outcome" => l.date \in Dates /\ l.action \in CAPTURE_ACTIONS
  BY <1>1, CaptureDate DEF Capturing
<1>4. \/ item' = item
      \/ \E d \in Dates, action \in EventActions : \E next :
           Event(p, d, state, action, l.sub, next)
  <2>1. CASE Outcome(p)
    <3>1. PICK next : Event(p, l.date, state, l.action, l.sub, next)
      BY <2>1 DEF Outcome
    <3>2. l.pc = "outcome"
      BY <2>1 DEF Outcome, At
    <3>3. l.date \in Dates /\ l.action \in EventActions
      BY <1>3, <3>2 DEF CAPTURE_ACTIONS, EventActions
    <3> QED BY <3>1, <3>3
  <2>2. CASE Reprocessed(p)
    <3>1. \/ item' = item
          \/ \E action \in {"finalize", "reprocess"} : \E next :
               Event(p, runs[l.sub].date, state, action, l.sub, next)
      BY <2>2 DEF Reprocessed
    <3>2. {"finalize", "reprocess"} \subseteq EventActions
      BY DEF EventActions
    <3> QED BY <1>2, <3>1, <3>2
  <2> QED BY <2>1, <2>2
<1>5. /\ state \in ItemStates /\ state \notin {"missed", "not_applicable", "running"}
      /\ l.sub \in 0..MaxRuns
  BY <1>1, <1>2, Bounds DEF Settled, ItemStates, RunStates
<1> HIDE DEF state
<1> QED BY <1>4, <1>5, SafeEvent DEF SafeItems

(* The 'running' event closes nothing.                                     *)
LEMMA StartCaptureSafe ==
  ASSUME SchedInv, NEW p \in Procs, StartCapture(p)
  PROVE  SafeItems
<1> DEFINE l == proc[p]
           next == [l EXCEPT !.pc = "p2"]
<1>1. /\ l \in Locals /\ Fits(l, runs) /\ l.pc = "capture" /\ ~l.gate
      /\ Event(p, l.date, "running", l.action, l.run, next)
  BY HolderFacts DEF StartCapture, At, Gated
<1>2. /\ l.date \in Dates /\ l.action \in EventActions /\ l.run \in 0..MaxRuns
      /\ "running" \in ItemStates
  BY <1>1, CaptureDate DEF Capturing, CAPTURE_ACTIONS, EventActions, ItemStates, RunStates
<1>3. l.job = "wake" /\ ~l.again
  BY <1>1 DEF Fits, JobOK, WakePCs
<1>4. UnacknowledgedBlocks = {}
  BY <1>1, <1>3 DEF Fits, GateOK, UnacknowledgedBlocks
<1> HIDE DEF next
<1> QED BY <1>1, <1>2, <1>4, SafeEvent

(* A refused capture takes its item back to what its evidence says.        *)
LEMMA P2RefusesSafe ==
  ASSUME SchedInv, NEW p \in Procs, P2Refuses(p)
  PROVE  SafeItems
<1> DEFINE l == proc[p]
           next == Ended(l.job = "wake")
<1> PICK ev : ev = Evidence(l.date)
  OBVIOUS
<1>1. l \in Locals /\ Fits(l, runs) /\ l.pc = "p2"
  BY HolderFacts DEF P2Refuses, At
<1>2. l.date \in Dates
  BY <1>1, CaptureDate DEF Capturing
<1>3. /\ EvidenceOK(l.date, ev) /\ Len(runs) \in Nat /\ Len(runs) <= MaxRuns
      /\ \A r \in DOMAIN runs : runs[r].state # "running"
  BY <1>1, HolderFacts, EvidenceFacts DEF Fits, NoneRunning, Working
<1>4. /\ ev.state \in ItemStates /\ ev.run \in 0..MaxRuns /\ 0 \in 0..MaxRuns
      /\ "pending" \in ItemStates /\ "refused" \in EventActions
      /\ ev.state # "running"
      /\ ev.state \in {"missed", "not_applicable"} => Captured(l.date) = {}
  BY <1>3, Bounds DEF EvidenceOK, RunsFor, ItemStates, RunStates, EventActions
<1>5. \/ item' = item
      \/ Event(p, l.date, "pending", "refused", 0, next)
      \/ Event(p, l.date, ev.state, "refused", ev.run, next)
  BY DEF P2Refuses
<1> HIDE DEF next
<1>6. CASE Event(p, l.date, "pending", "refused", 0, next)
  BY <1>2, <1>4, <1>6, SafeEvent
<1>7. CASE Event(p, l.date, ev.state, "refused", ev.run, next)
  BY <1>2, <1>4, <1>7, SafeEvent
<1> QED BY <1>5, <1>6, <1>7 DEF SafeItems

(* Discovery only creates items.                                           *)
LEMMA DiscoverSafe ==
  ASSUME SchedInv, NEW p \in Procs, Discover(p)
  PROVE  SafeItems
<1> DEFINE missing == MissingItems(ColomboDate(proc[p].now))
           e == Min(missing)
<1>1. item' = item \/ (missing # {} /\ item' = [item EXCEPT ![e].state = "pending"])
  BY DEF Discover
<1>2. CASE missing # {} /\ item' = [item EXCEPT ![e].state = "pending"]
  <2>1. missing \in SUBSET Dates
    BY ScheduleConstants DEF MissingItems, CandidateDates
  <2> HIDE DEF missing
  <2>2. e \in Dates
    BY <1>2, <2>1, CurrentDate
  <2>3. item \in [Dates -> ItemType]
    BY DEF SchedInv, TypeOK
  <2> HIDE DEF e
  <2>4. item'[e].state = "pending" /\ item'[e].tries = item[e].tries
        /\ \A d \in Dates : d # e => item'[d] = item[d]
    BY <1>2, <2>2, <2>3 DEF ItemType
  <2> QED BY <2>2, <2>3, <2>4, SafePending
<1> QED BY <1>1, <1>2 DEF SafeItems

(* So does an operator's new item.                                         *)
LEMMA AddItemSafe ==
  ASSUME SchedInv, NEW e \in Dates, AddItem(e)
  PROVE  SafeItems
<1>1. item \in [Dates -> ItemType]
  BY DEF SchedInv, TypeOK
<1>2. item'[e].state = "pending" /\ item'[e].tries = item[e].tries
      /\ \A d \in Dates : d # e => item'[d] = item[d]
  BY <1>1 DEF AddItem, ItemType
<1> QED BY <1>1, <1>2, SafePending

(* No step does an unsafe thing to an item.                                *)
LEMMA NextSafe ==
  ASSUME SchedInv, [Next]_vars
  PROVE  SafeItems
<1>1. \/ item' = item
      \/ \E p \in Procs : \/ Discover(p) \/ Sync(p) \/ Apply(p) \/ MissedItem(p)
                          \/ Reprocessed(p) \/ StartCapture(p) \/ Outcome(p)
                          \/ P2Refuses(p)
      \/ \E d \in Dates : AddItem(d)
  <2>1. ASSUME NEW p \in Procs, Step(p)
        PROVE  \/ item' = item
               \/ Discover(p) \/ Sync(p) \/ Apply(p) \/ MissedItem(p)
               \/ Reprocessed(p) \/ StartCapture(p) \/ Outcome(p)
    BY <2>1 DEF Step, Lock, Skip, Recover, MissedRun, MissedEvent, ReprocessDecided,
       Reconciled, Reprocess, Derive, Settle, Open, NoCapture, P2Create, P2Running,
       P2Fetch, OperatorLock, Finish
  <2>2. ASSUME NEW p \in Procs, Fault(p)
        PROVE  item' = item \/ P2Refuses(p)
    BY <2>2 DEF Fault, RefuseWake, RefuseCapture, Crash
  <2>3. ASSUME NEW p \in Procs, Wake(p, 0, FALSE) \/ Operator(p)
        PROVE  item' = item
    BY <2>3 DEF Operator, Wake, ManualCapture, ManualMissed, OperatorReprocess
  <2>4. CASE Owner
    BY <2>4 DEF Owner, DeclareCheck, DeclareInsert, Disarm, Arm, AcknowledgeBlock
  <2>5. CASE Tick \/ UNCHANGED vars
    BY <2>5 DEF Tick, vars
  <2> QED BY <2>1, <2>2, <2>3, <2>4, <2>5 DEF Next
<1> QED BY <1>1, DiscoverSafe, SyncSafe, ApplySafe, MissedItemSafe, SettledSafe,
           StartCaptureSafe, P2RefusesSafe, AddItemSafe DEF SafeItems

(* An item becomes missed or not applicable only if no run has archived    *)
(* the date's own session (ClosedWithoutSession), also when the run that   *)
(* archived it died before P2 recorded it and when a closure is declared   *)
(* while a capture runs.                                                   *)
THEOREM ClosesOnlyWithoutSession == Spec => ClosedWithoutSession
<1>1. SchedInv /\ [Next]_vars =>
        [\A d \in Dates :
           item'[d].state \in {"missed", "not_applicable"} /\ item[d] # item'[d]
             => \A r \in RunsFor(d) : runs[r].snap # "own"]_vars
  BY NextSafe DEF SafeItems, Captured
<1> QED BY Invariance, <1>1, PTL DEF Spec, ClosedWithoutSession

(* G-1 (NoCaptureWhileBlocked): a capture action is recorded only when no  *)
(* run is blocked without the owner's acknowledgement, although the        *)
(* wake-up looked for blocks before it reconciled and reprocessed.         *)
THEOREM CapturesOnlyUnblocked == Spec => NoCaptureWhileBlocked
<1>1. SchedInv /\ [Next]_vars =>
        [\A d \in Dates : item'[d].tries > item[d].tries =>
           UnacknowledgedBlocks = {}]_vars
  <2> SUFFICES ASSUME SchedInv, [Next]_vars, NEW d \in Dates,
                      item'[d].tries > item[d].tries
               PROVE  UnacknowledgedBlocks = {}
    OBVIOUS
  <2>1. SafeItems
    BY NextSafe
  <2>2. item[d].tries \in Nat
    BY HolderFacts DEF SchedInv, TypeOK, ItemType
  <2>3. item'[d] # item[d]
    BY <2>2
  <2> QED BY <2>1, <2>3 DEF SafeItems
<1> QED BY Invariance, <1>1, PTL DEF Spec, NoCaptureWhileBlocked

-----------------------------------------------------------------------------
(***************************************************************************)
(* ItemsCurrent: a wake-up that runs to its end leaves every open item     *)
(* saying what the runs of P2 prove.  The invariant RecordInv bounds, at   *)
(* each control point of a wake-up, the items that can still be out of     *)
(* date; it is inductive together with SchedInv.                           *)
(***************************************************************************)

(* The open items that _sync would still have to record.                   *)
Stale == {d \in OpenItems : Unrecorded(d)}

(* What a wake-up has reconciled is up to date, except the items it has    *)
(* yet to visit and the one it captures.                                   *)
RecordedOK(l, stale) ==
  /\ l.job = "wake" /\ l.pc \in Reconciling \cup Capturing \cup {"capture"} =>
       stale \subseteq l.todo \cup (IF l.pc \in Capturing THEN {l.date} ELSE {})
  /\ l.job = "wake" /\ l.pc \in {"decide", "reprocess"} => Min(l.todo) \notin stale
  /\ l.pc = "finish" /\ l.done => stale = {}

(* The run a wake-up reprocesses is the one its date's evidence names.     *)
StrongestOK(l, rs) ==
  l.job = "wake" /\ l.pc \in ReprocessPCs =>
    /\ l.sub = Max(CapturedIn(rs, Min(l.todo)))
    /\ \A r \in DOMAIN rs : rs[r].date = Min(l.todo) /\ r # l.sub =>
         rs[r].state # "succeeded"

RecordInv ==
  \A p \in Procs : RecordedOK(proc[p], Stale) /\ StrongestOK(proc[p], runs)

(* Runs that prove the same of date d.                                     *)
SameRuns(rs, new, d) ==
  /\ {r \in DOMAIN new : new[r].date = d} = {r \in DOMAIN rs : rs[r].date = d}
  /\ \A r \in DOMAIN rs : rs[r].date = d =>
       /\ new[r].state = rs[r].state /\ new[r].snap = rs[r].snap
       /\ new[r].missed = rs[r].missed

(* ... leave its evidence as it is.                                        *)
LEMMA EvidenceSame ==
  ASSUME runs \in Seq(RunType), NEW d, SameRuns(runs, runs', d)
  PROVE  Evidence(d)' = Evidence(d)
<1> DEFINE rs == RunsFor(d)
           succeeded == {r \in rs : runs[r].state = "succeeded"}
           missed == {r \in rs : runs[r].missed}
           succeededN == {r \in rs : runs'[r].state = "succeeded"}
           missedN == {r \in rs : runs'[r].missed}
           Follow(r, fresh) ==
             [state |-> runs[r].state, run |-> r,
              resumable |-> runs[r].state \in RESUMABLE /\ ~fresh]
           FollowN(r, fresh) ==
             [state |-> runs'[r].state, run |-> r,
              resumable |-> runs'[r].state \in RESUMABLE /\ ~fresh]
<1>1. RunsFor(d)' = rs
  BY DEF SameRuns, RunsFor
<1>2. /\ \A r \in rs : /\ r \in DOMAIN runs
                       /\ runs'[r].state = runs[r].state
                       /\ runs'[r].snap = runs[r].snap /\ runs'[r].missed = runs[r].missed
  BY DEF SameRuns, RunsFor
<1>3. succeededN = succeeded /\ missedN = missed
  BY <1>2
<1>4. Captured(d)' = Captured(d) /\ NoSession(d)' = NoSession(d)
      /\ Anomaly(d)' = Anomaly(d)
  BY <1>1, <1>2 DEF Captured, NoSession, Anomaly
<1>5. /\ succeeded \subseteq rs /\ Captured(d) \subseteq rs /\ rs \subseteq DOMAIN runs
      /\ missed \subseteq rs
  BY <1>2 DEF Captured
<1>6. ASSUME NEW r \in rs, NEW fresh
      PROVE  FollowN(r, fresh) = Follow(r, fresh)
  BY <1>2
<1>7. CASE succeeded # {}
  <2> DEFINE r == Max(succeeded)
  <2>1. r \in rs
    BY <1>5, <1>7, LatestRun
  <2>2. Evidence(d) = Follow(r, TRUE)
    BY <1>7 DEF Evidence
  <2>3. Evidence(d)' = FollowN(Max(succeededN), TRUE)
    BY <1>1, <1>3, <1>7 DEF Evidence
  <2> HIDE DEF Follow, FollowN, succeeded, succeededN
  <2> QED BY <1>3, <1>6, <2>1, <2>2, <2>3
<1>8. CASE succeeded = {} /\ Captured(d) # {}
  <2>1. Max(Captured(d)) \in rs
    BY <1>5, <1>8, LatestRun
  <2>2. Evidence(d) = Follow(Max(Captured(d)), FALSE)
    BY <1>8 DEF Evidence
  <2>3. Evidence(d)' = FollowN(Max(Captured(d)'), FALSE)
    BY <1>1, <1>3, <1>4, <1>8 DEF Evidence
  <2> HIDE DEF Follow, FollowN
  <2> QED BY <1>4, <1>6, <2>1, <2>2, <2>3
<1>9. CASE succeeded \cup Captured(d) = {} /\ missed # {}
  <2>1. Evidence(d) = [state |-> "missed", run |-> Max(missed), resumable |-> FALSE]
    BY <1>9 DEF Evidence
  <2>2. Evidence(d)' = [state |-> "missed", run |-> Max(missedN), resumable |-> FALSE]
    BY <1>1, <1>3, <1>4, <1>9 DEF Evidence
  <2> HIDE DEF missed, missedN
  <2> QED BY <1>3, <2>1, <2>2
<1>10. CASE succeeded \cup Captured(d) \cup missed = {} /\ rs # {}
  <2>1. Max(rs) \in rs
    BY <1>5, <1>10, LatestRun
  <2>2. Evidence(d) = Follow(Max(rs), Max(rs) \in NoSession(d) \cup Anomaly(d))
    BY <1>10 DEF Evidence
  <2>3. Evidence(d)' = FollowN(Max(RunsFor(d)'),
                         Max(RunsFor(d)') \in NoSession(d)' \cup Anomaly(d)')
    BY <1>1, <1>3, <1>4, <1>10 DEF Evidence
  <2> HIDE DEF Follow, FollowN
  <2> QED BY <1>1, <1>4, <1>6, <2>1, <2>2, <2>3
<1>11. CASE rs = {}
  <2>1. succeeded = {} /\ missed = {} /\ Captured(d) = {}
    BY <1>5, <1>11
  <2>2. Evidence(d) = [state |-> "pending", run |-> 0, resumable |-> FALSE]
    BY <1>11, <2>1 DEF Evidence
  <2>3. Evidence(d)' = [state |-> "pending", run |-> 0, resumable |-> FALSE]
    BY <1>1, <1>3, <1>4, <1>11, <2>1 DEF Evidence
  <2> QED BY <2>2, <2>3
<1> QED BY <1>5, <1>7, <1>8, <1>9, <1>10, <1>11

(* Only an item whose record or whose runs change can become stale.        *)
LEMMA StaleElsewhere ==
  ASSUME runs \in Seq(RunType), NEW d,
         \A e \in Dates : e # d => item'[e] = item[e] /\ SameRuns(runs, runs', e)
  PROVE  Stale' \subseteq Stale \cup {d} /\ Stale' \subseteq Dates
<1>1. ASSUME NEW e \in Stale', e # d
      PROVE  e \in Stale
  <2>1. e \in Dates /\ item'[e] = item[e] /\ Evidence(e)' = Evidence(e)
    BY <1>1, EvidenceSame DEF Stale, OpenItems
  <2> QED BY <1>1, <2>1 DEF Stale, OpenItems, Unrecorded
<1> QED BY <1>1 DEF Stale, OpenItems

(* No record and no evidence changes: nothing becomes stale.               *)
LEMMA StaleSame ==
  ASSUME runs \in Seq(RunType),
         \A e \in Dates : item'[e] = item[e] /\ SameRuns(runs, runs', e)
  PROVE  Stale' \subseteq Stale
<1>1. Stale' \subseteq Stale \cup {0} /\ Stale' \subseteq Dates
  BY StaleElsewhere
<1>2. 0 \notin Dates
  BY DEF Dates
<1> QED BY <1>1, <1>2

(* Runs that do not change at all, and one that does.                      *)
LEMMA SameRunsRefl ==
  ASSUME NEW rs, NEW d
  PROVE  SameRuns(rs, rs, d)
BY DEF SameRuns

(* An update of one run keeps what the others prove.                       *)
LEMMA SameRunsUpdate ==
  ASSUME NEW rs, NEW new, NEW r \in DOMAIN rs, DOMAIN new = DOMAIN rs,
         new[r].date = rs[r].date, \A q \in DOMAIN rs : q # r => new[q] = rs[q]
  PROVE  \A d : d # rs[r].date => SameRuns(rs, new, d)
BY DEF SameRuns

(* A new run keeps what the runs of other dates prove.                     *)
LEMMA SameRunsAppend ==
  ASSUME NEW rs \in Seq(RunType), NEW n \in RunType
  PROVE  \A d : d # n.date => SameRuns(rs, Append(rs, n), d)
BY AppendFacts DEF SameRuns

(* A process that is neither a wake-up at work nor at a proper end.        *)
LEMMA RestRecorded ==
  ASSUME NEW l, NEW stale, NEW rs,
         \/ l.pc \in {"idle", "ready", "recover", "discover"}
         \/ l.job # "wake" /\ ~(l.pc = "finish" /\ l.done)
  PROVE  RecordedOK(l, stale) /\ StrongestOK(l, rs)
BY DEF RecordedOK, StrongestOK, 
       WakePCs, MissedPCs, ReprocessPCs, ItemPCs, Reconciling, Capturing, Working,
       SubPCs, Settled

(* The holder of the lock goes on as s.                                    *)
LEMMA HolderRecorded ==
  ASSUME SchedInv, NEW p \in Procs, Past(p) \/ LockFree, NEW s,
         proc' = [proc EXCEPT ![p] = s],
         RecordedOK(s, Stale'), StrongestOK(s, runs')
  PROVE  RecordInv'
<1>1. proc \in [Procs -> Locals]
  BY HolderFacts DEF SchedInv, TypeOK
<1>2. proc'[p] = s /\ \A q \in Procs : q # p => proc'[q] = proc[q]
  BY <1>1
<1>3. \A q \in Procs : q # p => proc[q].pc \in {"idle", "ready"}
  <2>1. CASE Past(p)
    <3>1. lock = p /\ \A q \in Procs : Past(q) => lock = q
      BY <2>1 DEF SchedInv
    <3> QED BY <3>1 DEF Past
  <2>2. CASE LockFree
    BY <2>2, ScheduleConstants DEF SchedInv, Past, LockFree
  <2> QED BY <2>1, <2>2
<1>4. \A q \in Procs : q # p => RecordedOK(proc'[q], Stale') /\ StrongestOK(proc'[q], runs')
  BY <1>2, <1>3, RestRecorded
<1> QED BY <1>2, <1>4 DEF RecordInv

(* The wake-up or command ends early.                                      *)
LEMMA StopRecorded ==
  ASSUME SchedInv, NEW p \in Procs, Past(p), proc' = [proc EXCEPT ![p] = Ended(FALSE)]
  PROVE  RecordInv'
<1> DEFINE s == Ended(FALSE)
<1>1. s.pc = "finish" /\ s.job = "manual" /\ ~s.done
  BY DEF Ended, IdleProcess
<1> HIDE DEF s
<1>2. RecordedOK(s, Stale') /\ StrongestOK(s, runs')
  BY <1>1, RestRecorded
<1>3. proc' = [proc EXCEPT ![p] = s]
  BY DEF s
<1> QED BY <1>2, <1>3, HolderRecorded

(* The wake-up comes to its end.                                           *)
LEMMA DoneRecorded ==
  ASSUME SchedInv, NEW p \in Procs, Past(p), proc' = [proc EXCEPT ![p] = Ended(TRUE)],
         Stale' = {}
  PROVE  RecordInv'
<1> DEFINE s == Ended(TRUE)
<1>1. s.pc = "finish" /\ s.job = "manual"
  BY DEF Ended, IdleProcess
<1> HIDE DEF s
<1>2. RecordedOK(s, Stale') /\ StrongestOK(s, runs')
  BY <1>1 DEF RecordedOK, StrongestOK, 
       WakePCs, MissedPCs, ReprocessPCs, ItemPCs, Reconciling, Capturing, Working,
       SubPCs, Settled
<1>3. proc' = [proc EXCEPT ![p] = s]
  BY DEF s
<1> QED BY <1>2, <1>3, HolderRecorded

(* A step that changes nothing an item's record depends on.                *)
LEMMA UnchangedStale ==
  ASSUME UNCHANGED <<runs, item>>
  PROVE  Stale' = Stale
BY DEF Stale, OpenItems, Unrecorded, Evidence, RunsFor, Captured, NoSession, Anomaly

(* A step that touches neither items, runs nor processes.                  *)
LEMMA UnchangedRecorded ==
  ASSUME RecordInv, UNCHANGED <<runs, item, proc>>
  PROVE  RecordInv'
BY UnchangedStale DEF RecordInv

-----------------------------------------------------------------------------
(* The steps of a wake-up, for the record                                  *)

(* What the invariants say of the process that acts.                       *)
LEMMA ActorFacts ==
  ASSUME SchedInv, RecordInv, NEW p \in Procs
  PROVE  /\ proc[p] \in Locals /\ Fits(proc[p], runs) /\ runs \in Seq(RunType)
         /\ proc \in [Procs -> Locals] /\ item \in [Dates -> ItemType]
         /\ RecordedOK(proc[p], Stale) /\ StrongestOK(proc[p], runs)
         /\ \A r \in DOMAIN runs : runs[r] \in RunType
BY HolderFacts DEF RecordInv

(* A waiting process begins, or gives up.                                  *)
LEMMA OutsideRecorded ==
  ASSUME SchedInv, RecordInv, NEW p \in Procs,
         \/ Skip(p) \/ OperatorReprocess(p, 0)
         \/ \E d \in Dates : OperatorReprocess(p, d)
         \/ \E only \in 0..LastDay, confirm \in BOOLEAN : Wake(p, only, confirm)
  PROVE  RecordInv'
<1>1. UNCHANGED <<runs, item>>
  BY DEF Skip, OperatorReprocess, Wake
<1>2. PICK s : proc' = [proc EXCEPT ![p] = s] /\ s.pc \in {"idle", "ready"}
  <2>1. CASE Skip(p)
    BY <2>1, IdleType DEF Skip
  <2>2. ASSUME NEW d, OperatorReprocess(p, d)
        PROVE  \E s : proc' = [proc EXCEPT ![p] = s] /\ s.pc \in {"idle", "ready"}
    <3> DEFINE s == [Command("ready", d, "none", Evidence(d).run)
                       EXCEPT !.job = "reprocess", !.now = clock]
    <3>1. proc' = [proc EXCEPT ![p] = s]
      BY <2>2 DEF OperatorReprocess
    <3>2. s.pc = "ready"
      BY DEF Command, IdleProcess
    <3> HIDE DEF s
    <3> QED BY <3>1, <3>2
  <2>3. ASSUME NEW only, NEW confirm, Wake(p, only, confirm)
        PROVE  \E s : proc' = [proc EXCEPT ![p] = s] /\ s.pc \in {"idle", "ready"}
    <3> DEFINE s == Ready(clock, only, confirm)
    <3>1. proc' = [proc EXCEPT ![p] = s]
      BY <2>3 DEF Wake, Ready
    <3>2. s.pc = "ready"
      BY DEF Ready, IdleProcess
    <3> HIDE DEF s
    <3> QED BY <3>1, <3>2
  <2> QED BY <2>1, <2>2, <2>3
<1>3. RecordedOK(s, Stale') /\ StrongestOK(s, runs')
  BY <1>2, RestRecorded
<1>4. proc' \in [Procs -> {proc[q] : q \in Procs} \cup {s}]
      /\ \A q \in Procs : proc'[q] = IF q = p THEN s ELSE proc[q]
  BY <1>2, ActorFacts
<1> QED BY <1>1, <1>3, <1>4, UnchangedStale DEF RecordInv

(* Taking the lock, recovering, releasing the lock.                        *)
LEMMA EdgeRecorded ==
  ASSUME SchedInv, RecordInv, NEW p \in Procs,
         \/ Lock(p) \/ Recover(p) \/ RefuseWake(p) \/ Finish(p) \/ Crash(p)
         \/ OperatorLock(p)
         \/ \E a \in CAPTURE_ACTIONS, d \in Dates, r \in 0..MaxRuns :
              ManualCapture(p, a, d, r)
         \/ \E d \in Dates : ManualMissed(p, d)
  PROVE  RecordInv'
<1>0. proc[p] \in Locals /\ proc \in [Procs -> Locals]
  BY ActorFacts
<1>1. Past(p) \/ LockFree
  BY ScheduleConstants DEF Lock, Recover, RefuseWake, Finish, Crash, OperatorLock,
     ManualCapture, ManualMissed, At, Past
<1>2. CASE Recover(p) \/ RefuseWake(p)
  <2>1. Past(p)
    BY <1>2 DEF Recover, RefuseWake, At, Past
  <2>2. CASE proc' = [proc EXCEPT ![p] = Ended(FALSE)]
    BY <2>1, <2>2, StopRecorded
  <2>3. CASE proc' = [proc EXCEPT ![p].pc = "discover", ![p].armed = FALSE]
    <3> DEFINE s == [proc[p] EXCEPT !.pc = "discover", !.armed = FALSE]
    <3>1. proc' = [proc EXCEPT ![p] = s] /\ s.pc = "discover"
      BY <1>0, <2>3 DEF Locals
    <3> HIDE DEF s
    <3>2. RecordedOK(s, Stale') /\ StrongestOK(s, runs')
      BY <3>1, RestRecorded
    <3> QED BY <1>1, <3>1, <3>2, HolderRecorded
  <2> QED BY <1>2, <2>2, <2>3 DEF Recover, RefuseWake, Stop
<1>3. CASE Lock(p)
  <2> DEFINE s == [proc[p] EXCEPT !.pc = "recover", !.armed = armed]
  <2>1. proc' = [proc EXCEPT ![p] = s] /\ s.pc = "recover"
    BY <1>0, <1>3 DEF Lock, Locals
  <2> HIDE DEF s
  <2>2. RecordedOK(s, Stale') /\ StrongestOK(s, runs')
    BY <2>1, RestRecorded
  <2> QED BY <1>1, <2>1, <2>2, HolderRecorded
<1>4. CASE OperatorLock(p)
  <2> DEFINE s == [proc[p] EXCEPT !.pc = "reprocess"]
  <2>1. proc' = [proc EXCEPT ![p] = s] /\ s.pc = "reprocess" /\ s.job = "reprocess"
    BY <1>0, <1>4 DEF OperatorLock, Goto, Locals
  <2> HIDE DEF s
  <2>2. RecordedOK(s, Stale') /\ StrongestOK(s, runs')
    BY <2>1, RestRecorded
  <2> QED BY <1>1, <2>1, <2>2, HolderRecorded
<1>5. CASE ~(Recover(p) \/ RefuseWake(p) \/ Lock(p) \/ OperatorLock(p))
  <2>1. PICK s : /\ proc' = [proc EXCEPT ![p] = s]
                 /\ s.job = "manual" /\ s.pc \in {"idle", "p2", "missed_event"}
    <3>1. CASE Finish(p) \/ Crash(p)
      BY <3>1, IdleType DEF Finish, Crash
    <3>2. ASSUME NEW pc \in {"p2", "missed_event"}, NEW d, NEW a, NEW r,
                 proc' = [proc EXCEPT ![p] = Command(pc, d, a, r)]
          PROVE  \E s : /\ proc' = [proc EXCEPT ![p] = s]
                        /\ s.job = "manual" /\ s.pc \in {"idle", "p2", "missed_event"}
      <4> DEFINE s == Command(pc, d, a, r)
      <4>1. s.job = "manual" /\ s.pc = pc
        BY DEF Command, IdleProcess
      <4> HIDE DEF s
      <4>2. proc' = [proc EXCEPT ![p] = s]
        BY <3>2 DEF s
      <4> QED BY <4>1, <4>2
    <3>3. ASSUME NEW a, NEW d, NEW r, ManualCapture(p, a, d, r)
          PROVE  \E s : /\ proc' = [proc EXCEPT ![p] = s]
                        /\ s.job = "manual" /\ s.pc \in {"idle", "p2", "missed_event"}
      BY <3>2, <3>3 DEF ManualCapture
    <3>4. ASSUME NEW d, ManualMissed(p, d)
          PROVE  \E s : /\ proc' = [proc EXCEPT ![p] = s]
                        /\ s.job = "manual" /\ s.pc \in {"idle", "p2", "missed_event"}
      BY <3>2, <3>4 DEF ManualMissed
    <3> QED BY <1>5, <3>1, <3>3, <3>4
  <2>2. RecordedOK(s, Stale') /\ StrongestOK(s, runs')
    BY <2>1, RestRecorded
  <2> QED BY <1>1, <2>1, <2>2, HolderRecorded
<1> QED BY <1>2, <1>3, <1>4, <1>5

(* Every open item is to be reconciled.                                    *)
LEMMA DiscoverRecorded ==
  ASSUME SchedInv, RecordInv, NEW p \in Procs, Discover(p)
  PROVE  RecordInv'
<1> DEFINE l == proc[p]
           missing == MissingItems(ColomboDate(l.now))
           gap == ~l.confirm /\ \E d \in missing : d + MaxCatchUp < ColomboDate(l.now)
           s == [l EXCEPT !.pc = "sync", !.todo = OpenItems,
                          !.gate = UnacknowledgedBlocks # {}]
<1>1. Past(p) /\ l \in Locals /\ l.pc = "discover" /\ proc \in [Procs -> Locals]
  BY ActorFacts DEF Discover, At, Past
<1>2. CASE gap
  <2>1. proc' = [proc EXCEPT ![p] = Ended(FALSE)]
    BY <1>2 DEF Discover, Stop
  <2> QED BY <1>1, <2>1, StopRecorded
<1>3. CASE ~gap /\ missing # {}
  <2>1. proc' = proc
    BY <1>3 DEF Discover
  <2>2. proc' = [proc EXCEPT ![p] = l]
    BY <1>1, <2>1
  <2>3. RecordedOK(l, Stale') /\ StrongestOK(l, runs')
    BY <1>1, RestRecorded
  <2> QED BY <1>1, <2>2, <2>3, HolderRecorded
<1>4. CASE ~gap /\ missing = {}
  <2>1. proc' = [proc EXCEPT ![p] = s] /\ UNCHANGED <<runs, item>>
    BY <1>1, <1>4 DEF Discover
  <2>2. s.pc = "sync" /\ s.todo = OpenItems
    BY <1>1 DEF Locals
  <2>3. Stale' \subseteq OpenItems
    BY <2>1, UnchangedStale DEF Stale
  <2> HIDE DEF s
  <2>4. RecordedOK(s, Stale') /\ StrongestOK(s, runs')
    BY <2>2, <2>3 DEF RecordedOK, StrongestOK, ReprocessPCs, Capturing
  <2> QED BY <1>1, <2>1, <2>4, HolderRecorded
<1> QED BY <1>2, <1>3, <1>4

(* What an event does to the records, whether it is recorded or refused.   *)
Noted(p, d, state, action, run, next) ==
  /\ Stale' \subseteq Stale \cup {d}
  /\ \/ proc' = [proc EXCEPT ![p] = Ended(FALSE)]
     \/ /\ proc' = [proc EXCEPT ![p] = next]
        /\ item'[d].state = state /\ item'[d].action = action
        /\ item'[d].run = run

(* An event, recorded or refused, can only make its own item stale.        *)
LEMMA EventStale ==
  ASSUME SchedInv, NEW p \in Procs, NEW d \in Dates, NEW state \in ItemStates,
         NEW action \in EventActions, NEW run \in 0..MaxRuns, NEW next,
         Event(p, d, state, action, run, next), runs' = runs
  PROVE  Noted(p, d, state, action, run, next)
<1>1. TypeOK /\ proc[p] \in Locals /\ item \in [Dates -> ItemType]
      /\ runs \in Seq(RunType)
  BY HolderFacts DEF SchedInv
<1>2. /\ \A e \in Dates : e # d => item'[e] = item[e]
      /\ \/ /\ GuardAccepts(d, state, run)
            /\ item'[d] = EventRecord(item[d], state, action, run, proc[p].now)
            /\ proc' = [proc EXCEPT ![p] = next]
         \/ /\ ~GuardAccepts(d, state, run)
            /\ item' = item /\ proc' = [proc EXCEPT ![p] = Ended(FALSE)]
  BY <1>1, EventEffect
<1> DEFINE n == EventRecord(item[d], state, action, run, proc[p].now)
<1>3. n.state = state /\ n.action = action /\ n.run = run
  <2>1. item[d] \in ItemType /\ proc[p].now \in 0..EndTime
    BY <1>1 DEF Locals
  <2> QED BY <2>1, EventRecordType
<1>4. \A e \in Dates : e # d => item'[e] = item[e] /\ SameRuns(runs, runs', e)
  BY <1>2, SameRunsRefl
<1>5. Stale' \subseteq Stale \cup {d}
  BY <1>1, <1>4, StaleElsewhere
<1> HIDE DEF n
<1>6. \/ proc' = [proc EXCEPT ![p] = Ended(FALSE)]
      \/ proc' = [proc EXCEPT ![p] = next] /\ item'[d] = n
  BY <1>2 DEF n
<1> QED BY <1>3, <1>5, <1>6 DEF Noted

(* An item that says what the evidence says is not stale.                  *)
LEMMA FreshItem ==
  ASSUME runs \in Seq(RunType), runs' = runs, NEW d, NEW ev, ev = Evidence(d),
         item'[d].state = ev.state,
         ev.state = "pending" \/ item'[d].run = ev.run
  PROVE  d \notin Stale'
<1>1. SameRuns(runs, runs', d)
  BY SameRunsRefl
<1>2. Evidence(d)' = ev
  BY <1>1, EvidenceSame
<1>3. ~Unrecorded(d)'
  BY <1>2 DEF Unrecorded
<1> QED BY <1>3 DEF Stale

(* _sync records the evidence of the item at work, if it has to.           *)
LEMMA SyncRecorded ==
  ASSUME SchedInv, RecordInv, NEW p \in Procs, Sync(p)
  PROVE  RecordInv'
<1> DEFINE l == proc[p]
           d == Current(p)
           s == [l EXCEPT !.pc = "decide"]
<1> PICK ev : ev = Evidence(d)
  OBVIOUS
<1>1. /\ l \in Locals /\ Fits(l, runs) /\ l.pc = "sync" /\ Past(p) /\ l.todo # {}
      /\ proc \in [Procs -> Locals] /\ RecordedOK(l, Stale) /\ runs' = runs
      /\ runs \in Seq(RunType)
  BY ActorFacts DEF Sync, At, Past
<1>2. s.pc = "decide" /\ s.todo = l.todo /\ s.job = l.job /\ s.date = l.date
  BY <1>1 DEF Locals
<1>3. d \in Dates /\ d \in l.todo /\ d = Min(l.todo)
  BY <1>1, CurrentDate DEF Locals, Current
<1>4. EvidenceOK(d, ev) /\ Len(runs) \in Nat /\ Len(runs) <= MaxRuns
  BY HolderFacts, EvidenceFacts
<1>5. l.job = "wake" => Stale \subseteq l.todo
  BY <1>1 DEF RecordedOK, Reconciling, Capturing
<1>6. ASSUME proc' = [proc EXCEPT ![p] = s], Stale' \subseteq Stale \cup {d},
             d \notin Stale'
      PROVE  RecordInv'
  <2> HIDE DEF s, d
  <2>1. RecordedOK(s, Stale') /\ StrongestOK(s, runs')
    BY <1>2, <1>3, <1>5, <1>6
       DEF RecordedOK, StrongestOK, ReprocessPCs, Capturing
  <2> QED BY <1>1, <1>6, <2>1, HolderRecorded
<1>7. CASE Unrecorded(d)
  <2> DEFINE run == IF ev.state = "pending" THEN 0 ELSE ev.run
  <2>1. Event(p, d, ev.state, "observe", run, s)
    BY <1>7 DEF Sync
  <2>2. run \in 0..MaxRuns /\ ev.state \in ItemStates /\ "observe" \in EventActions
    BY <1>4, Bounds DEF EvidenceOK, ItemStates, EventActions
  <2>3. ev.state = "pending" \/ run = ev.run
    OBVIOUS
  <2> HIDE DEF s, run, d
  <2>0. runs' = runs /\ d \in Dates
    BY <1>1, <1>3
  <2>4. Noted(p, d, ev.state, "observe", run, s)
    BY <2>0, <2>1, <2>2, EventStale
  <2>5. CASE proc' = [proc EXCEPT ![p] = Ended(FALSE)]
    BY <1>1, <2>5, StopRecorded
  <2>6. CASE /\ proc' = [proc EXCEPT ![p] = s]
             /\ item'[d].state = ev.state /\ item'[d].run = run
    <3>1. d \notin Stale'
      BY <1>1, <2>3, <2>6, FreshItem
    <3>2. Stale' \subseteq Stale \cup {d}
      BY <2>4 DEF Noted
    <3> QED BY <1>6, <2>6, <3>1, <3>2
  <2> QED BY <2>4, <2>5, <2>6 DEF Noted
<1>8. CASE ~Unrecorded(d)
  <2>1. proc' = [proc EXCEPT ![p] = s] /\ UNCHANGED <<runs, item>>
    BY <1>8 DEF Sync, Goto
  <2>2. Stale' = Stale /\ d \notin Stale
    BY <1>8, <2>1, UnchangedStale DEF Stale
  <2> QED BY <1>6, <2>1, <2>2
<1> QED BY <1>7, <1>8

(* The evidence of a captured date that did not succeed is its latest      *)
(* capture.                                                                *)
LEMMA StrongestCapture ==
  ASSUME runs \in Seq(RunType), NEW d, Captured(d) # {},
         \A r \in RunsFor(d) : runs[r].state # "succeeded"
  PROVE  /\ Evidence(d).run = Max(Captured(d))
         /\ Evidence(d).state = runs[Max(Captured(d))].state
<1> DEFINE rs == RunsFor(d)
           succeeded == {r \in rs : runs[r].state = "succeeded"}
           Follow(r, fresh) ==
             [state |-> runs[r].state, run |-> r,
              resumable |-> runs[r].state \in RESUMABLE /\ ~fresh]
<1>1. succeeded = {}
  OBVIOUS
<1>2. Evidence(d) = Follow(Max(Captured(d)), FALSE)
  BY <1>1 DEF Evidence
<1> QED BY <1>2

(* A succeeded run of the date would be its evidence.                      *)
LEMMA NoneSucceeded ==
  ASSUME runs \in Seq(RunType), NEW d, Evidence(d).state # "succeeded"
  PROVE  \A r \in RunsFor(d) : runs[r].state # "succeeded"
<1> DEFINE rs == RunsFor(d)
           succeeded == {r \in rs : runs[r].state = "succeeded"}
           Follow(r, fresh) ==
             [state |-> runs[r].state, run |-> r,
              resumable |-> runs[r].state \in RESUMABLE /\ ~fresh]
<1>1. CASE succeeded # {}
  <2>1. Evidence(d) = Follow(Max(succeeded), TRUE)
    BY <1>1 DEF Evidence
  <2>2. Max(succeeded) \in succeeded
    BY <1>1, LatestRun DEF RunsFor
  <2>3. Evidence(d).state = "succeeded"
    BY <2>1, <2>2
  <2> QED BY <2>3
<1> QED BY <1>1

(* An update of one run can only make the item of its date stale.          *)
LEMMA RunStale ==
  ASSUME SchedInv, item' = item, NEW r \in DOMAIN runs, NEW n \in RunType,
         runs' = [runs EXCEPT ![r] = n], n.date = runs[r].date
  PROVE  /\ Stale' \subseteq Stale \cup {runs[r].date}
         /\ DOMAIN runs' = DOMAIN runs /\ runs'[r] = n
         /\ \A q \in DOMAIN runs : q # r => runs'[q] = runs[q]
<1>1. runs \in Seq(RunType) /\ item \in [Dates -> ItemType]
  BY HolderFacts DEF SchedInv, TypeOK
<1>2. /\ DOMAIN runs' = DOMAIN runs /\ runs'[r] = n
      /\ \A q \in DOMAIN runs : q # r => runs'[q] = runs[q]
  BY <1>1, RunUpdate
<1>3. \A d : d # runs[r].date => SameRuns(runs, runs', d)
  BY <1>2, SameRunsUpdate
<1>4. Stale' \subseteq Stale \cup {runs[r].date}
  BY <1>1, <1>3, StaleElsewhere
<1> QED BY <1>2, <1>4

(* A new run can only make the item of its date stale.                     *)
LEMMA AppendStale ==
  ASSUME SchedInv, item' = item, NEW n \in RunType, runs' = Append(runs, n)
  PROVE  Stale' \subseteq Stale \cup {n.date}
<1>1. runs \in Seq(RunType)
  BY HolderFacts DEF SchedInv, TypeOK
<1>2. \A d : d # n.date => SameRuns(runs, runs', d)
  BY <1>1, SameRunsAppend
<1> QED BY <1>1, <1>2, StaleElsewhere

(* What a wake-up reconciles, decides or captures is all that is stale.    *)
LEMMA StaleWithin ==
  ASSUME NEW l, NEW stale, RecordedOK(l, stale), l.job = "wake",
         l.pc \in Reconciling \cup {"capture"}
  PROVE  /\ stale \subseteq l.todo
         /\ l.pc \in {"decide", "reprocess"} => Min(l.todo) \notin stale
BY DEF RecordedOK, 
       WakePCs, MissedPCs, ReprocessPCs, ItemPCs, Reconciling, Capturing, Working,
       SubPCs, Settled

(* Done with an item: the wake-up goes on with the others.                 *)
LEMMA AdvanceRecorded ==
  ASSUME SchedInv, RecordInv, NEW p \in Procs, Past(p), NEW s,
         proc' = [proc EXCEPT ![p] = s],
         s.pc \in {"sync", "open"}, s.todo = proc[p].todo \ {Min(proc[p].todo)},
         Stale' \subseteq proc[p].todo, Min(proc[p].todo) \notin Stale'
  PROVE  RecordInv'
<1>1. Stale' \subseteq s.todo
  OBVIOUS
<1>2. RecordedOK(s, Stale') /\ StrongestOK(s, runs')
  BY <1>1 DEF RecordedOK, StrongestOK, ReprocessPCs, Capturing
<1> QED BY <1>2, HolderRecorded

(* The decisions that only write to the item, or wait.                     *)
LEMMA ApplyRecorded ==
  ASSUME SchedInv, RecordInv, NEW p \in Procs, Apply(p)
  PROVE  RecordInv'
<1> DEFINE l == proc[p]
           d == Current(p)
           next == Advance(l)
           c == Candidate(l, d, DecisionOf(p))
           candidate == /\ DecisionOf(p).kind = "capture" /\ ~l.again /\ l.date = 0
                        /\ l.only \in {0, d}
<1> PICK dec : dec = DecisionOf(p)
  OBVIOUS
<1> PICK ev : ev = Evidence(d)
  OBVIOUS
<1>1. /\ l \in Locals /\ Past(p) /\ l.pc = "decide" /\ l.job = "wake"
      /\ d \in Dates /\ d \in l.todo /\ d = Min(l.todo)
      /\ DecisionOK(d, dec) /\ EvidenceOK(d, ev)
      /\ Len(runs) \in Nat /\ Len(runs) <= MaxRuns /\ DOMAIN runs = 1..Len(runs)
      /\ RecordedOK(l, Stale) /\ runs' = runs
  BY DecideState, HolderFacts, ActorFacts DEF Apply
<1>2. Stale \subseteq l.todo /\ d \notin Stale
  BY <1>1, StaleWithin DEF Reconciling, ItemPCs
<1>3. dec.run \in 0..MaxRuns /\ "finalize" \in EventActions
  BY <1>1, Bounds DEF DecisionOK, EventActions
<1>4. next.pc = "sync" /\ next.todo = l.todo \ {Min(l.todo)}
  BY <1>1, AdvanceFields
<1>5. ASSUME NEW state \in ItemStates, Event(p, d, state, "finalize", dec.run, next)
      PROVE  RecordInv'
  <2> HIDE DEF next, d
  <2>0. runs' = runs /\ d \in Dates
    BY <1>1
  <2>1. Noted(p, d, state, "finalize", dec.run, next)
    BY <1>3, <1>5, <2>0, EventStale
  <2>2. CASE proc' = [proc EXCEPT ![p] = Ended(FALSE)]
    BY <1>1, <2>2, StopRecorded
  <2>3. CASE proc' = [proc EXCEPT ![p] = next] /\ item'[d].action = "finalize"
    <3>1. d \notin Stale'
      BY <2>3 DEF Stale, OpenItems
    <3>2. Stale' \subseteq l.todo
      BY <1>1, <1>2, <2>1 DEF Noted
    <3> QED BY <1>1, <1>4, <2>3, <3>1, <3>2, AdvanceRecorded
  <2> QED BY <2>1, <2>2, <2>3 DEF Noted
<1>6. CASE dec.kind = "not_applicable"
  <2>1. Event(p, d, "not_applicable", "finalize", dec.run, next)
    BY <1>6 DEF Apply
  <2>2. "not_applicable" \in ItemStates
    BY DEF ItemStates
  <2> HIDE DEF next, d
  <2> QED BY <1>5, <2>1, <2>2
<1>7. CASE dec.kind = "finalize"
  <2>1. Event(p, d, ev.state, "finalize", dec.run, next)
    BY <1>7 DEF Apply
  <2>2. ev.state \in ItemStates
    BY <1>1 DEF EvidenceOK, ItemStates
  <2> HIDE DEF next, d
  <2> QED BY <1>5, <2>1, <2>2
<1>8. CASE dec.kind \in {"wait", "capture"}
  <2>1. proc' = [proc EXCEPT ![p] = IF candidate THEN c ELSE next] /\ item' = item
    BY <1>8 DEF Apply, Candidate
  <2>2. Stale' = Stale
    BY <1>1, <2>1, UnchangedStale
  <2>3. candidate => c.pc = "sync" /\ c.todo = l.todo \ {Min(l.todo)}
    <3>1. candidate => dec.action \in CAPTURE_ACTIONS
      BY <1>1 DEF DecisionOK, CAPTURE_ACTIONS
    <3> QED BY <1>1, <1>3, <3>1, CandidateFields
  <2>4. PICK s : s = IF candidate THEN c ELSE next
    OBVIOUS
  <2> HIDE DEF c, next, candidate
  <2>5. s.pc = "sync" /\ s.todo = l.todo \ {Min(l.todo)}
    BY <1>4, <2>3, <2>4
  <2> QED BY <1>1, <1>2, <2>1, <2>2, <2>4, <2>5, AdvanceRecorded
<1> QED BY <1>6, <1>7, <1>8 DEF Apply

(* A missed item is final.                                                 *)
LEMMA MissedItemRecorded ==
  ASSUME SchedInv, RecordInv, NEW p \in Procs, MissedItem(p)
  PROVE  RecordInv'
<1> DEFINE l == proc[p]
           d == Current(p)
           next == Advance(l)
<1>1. /\ l \in Locals /\ Fits(l, runs) /\ l.pc = "missed_item" /\ Past(p)
      /\ DOMAIN runs = 1..Len(runs) /\ Len(runs) \in Nat /\ Len(runs) <= MaxRuns
      /\ RecordedOK(l, Stale) /\ runs' = runs
      /\ Event(p, d, "missed", "record_missed", l.sub, next)
  BY HolderFacts, ActorFacts DEF MissedItem, At, Past
<1>2. l.job = "wake" /\ l.todo # {} /\ l.sub \in DOMAIN runs
  BY <1>1 DEF Fits, JobOK, SubOK, ItemPCs, MissedPCs, SubPCs, WakePCs
<1>3. d \in Dates /\ d \in l.todo /\ d = Min(l.todo)
  BY <1>1, <1>2, CurrentDate DEF Current, Locals
<1>4. Stale \subseteq l.todo
  BY <1>1, <1>2, StaleWithin DEF Reconciling, ItemPCs, MissedPCs
<1>5. /\ "missed" \in ItemStates /\ "record_missed" \in EventActions
      /\ l.sub \in 0..MaxRuns
  BY <1>1, <1>2, Bounds DEF ItemStates, RunStates, EventActions
<1>6. next.pc = "sync" /\ next.todo = l.todo \ {Min(l.todo)}
  BY <1>1, AdvanceFields
<1> HIDE DEF next, d
<1>7. Noted(p, d, "missed", "record_missed", l.sub, next)
  BY <1>1, <1>3, <1>5, EventStale
<1>8. CASE proc' = [proc EXCEPT ![p] = Ended(FALSE)]
  BY <1>1, <1>8, StopRecorded
<1>9. CASE proc' = [proc EXCEPT ![p] = next] /\ item'[d].state = "missed"
  <2>1. d \notin Stale'
    BY <1>9 DEF Stale, OpenItems, FINAL_STATES
  <2>2. Stale' \subseteq l.todo
    BY <1>3, <1>4, <1>7 DEF Noted
  <2> QED BY <1>1, <1>3, <1>6, <1>9, <2>1, <2>2, AdvanceRecorded
<1> QED BY <1>7, <1>8, <1>9 DEF Noted

(* The holder goes on where it has nothing to show of its current item.    *)
LEMMA GoesOnRecorded ==
  ASSUME SchedInv, NEW p \in Procs, Past(p), NEW s, proc' = [proc EXCEPT ![p] = s],
         s.pc \notin {"decide", "reprocess", "finish"},
         s.job = "wake" =>
           /\ Stale' \subseteq s.todo \cup (IF s.pc \in Capturing THEN {s.date} ELSE {})
           /\ StrongestOK(s, runs')
  PROVE  RecordInv'
<1>1. RecordedOK(s, Stale') /\ StrongestOK(s, runs')
  BY DEF RecordedOK, StrongestOK
<1> QED BY <1>1, HolderRecorded

(* _record_missed creates its run.                                         *)
LEMMA MissedRunRecorded ==
  ASSUME SchedInv, RecordInv, NEW p \in Procs, MissedRun(p)
  PROVE  RecordInv'
<1> DEFINE l == proc[p]
           d == Current(p)
           new == Len(runs) + 1
           n == NewRun(d, TRUE, FALSE, 0)
           s == WithRun(l, "missed_event", new)
<1>1. /\ l \in Locals /\ Past(p) /\ l.pc = "decide" /\ l.job = "wake"
      /\ d \in Dates /\ d \in l.todo /\ d = Min(l.todo) /\ RecordedOK(l, Stale)
  BY DecideState, ActorFacts DEF MissedRun
<1>2. Stale \subseteq l.todo
  BY <1>1, StaleWithin DEF Reconciling, ItemPCs
<1>3. n \in RunType /\ n.date = d
  BY <1>1, Bounds DEF NewRun, RunType, RunStates
<1>4. item' = item /\ runs' = Append(runs, n)
  BY DEF MissedRun
<1>5. proc' = [proc EXCEPT ![p] = s]
  BY <1>1, ActorFacts DEF MissedRun, Locals, WithRun
<1>6. s.pc = "missed_event" /\ s.todo = l.todo
  BY <1>1 DEF WithRun, Locals
<1> HIDE DEF n, s, d
<1>7. Stale' \subseteq l.todo
  BY <1>1, <1>2, <1>3, <1>4, AppendStale
<1> QED BY <1>1, <1>5, <1>6, <1>7, GoesOnRecorded DEF StrongestOK, ReprocessPCs

(* ... and gives it its 'missed' event.                                    *)
LEMMA MissedEventRecorded ==
  ASSUME SchedInv, RecordInv, NEW p \in Procs, MissedEvent(p)
  PROVE  RecordInv'
<1> DEFINE l == proc[p]
           n == [runs[l.sub] EXCEPT !.state = "missed"]
           s == [l EXCEPT !.pc = "missed_item"]
<1>1. /\ l \in Locals /\ Fits(l, runs) /\ l.pc = "missed_event" /\ Past(p)
      /\ RecordedOK(l, Stale) /\ \A r \in DOMAIN runs : runs[r] \in RunType
  BY ActorFacts DEF MissedEvent, At, Past
<1>2. l.sub \in DOMAIN runs
  BY <1>1 DEF Fits, SubOK, SubPCs, MissedPCs
<1>3. CASE l.job = "wake"
  <2>1. /\ l.todo # {} /\ runs[l.sub].date = Min(l.todo)
    BY <1>1, <1>3 DEF Fits, JobOK, SubOK, ItemPCs, MissedPCs
  <2>2. Min(l.todo) \in l.todo
    BY <1>1, <2>1, CurrentDate DEF Locals
  <2>3. Stale \subseteq l.todo
    BY <1>1, <1>3, StaleWithin DEF Reconciling, ItemPCs, MissedPCs
  <2>4. n \in RunType /\ n.date = runs[l.sub].date
    BY <1>1, <1>2, StateUpdate DEF RunStates
  <2>5. runs' = [runs EXCEPT ![l.sub] = n] /\ item' = item
    BY DEF MissedEvent
  <2>6. proc' = [proc EXCEPT ![p] = s]
    BY <1>3 DEF MissedEvent, Goto
  <2>7. s.pc = "missed_item" /\ s.todo = l.todo
    BY <1>1 DEF Locals
  <2> HIDE DEF n, s
  <2>9. Stale' \subseteq Stale \cup {runs[l.sub].date}
    BY <1>2, <2>4, <2>5, RunStale
  <2>8. Stale' \subseteq l.todo
    BY <2>1, <2>2, <2>3, <2>9
  <2> QED BY <1>1, <2>6, <2>7, <2>8, GoesOnRecorded DEF StrongestOK, ReprocessPCs
<1>4. CASE l.job # "wake"
  <2>1. proc' = [proc EXCEPT ![p] = Ended(FALSE)]
    BY <1>4 DEF MissedEvent, Stop
  <2> QED BY <1>1, <2>1, StopRecorded
<1> QED BY <1>3, <1>4

(* A reprocess works on the run its date's evidence names.                 *)
LEMMA ReprocessDecidedRecorded ==
  ASSUME SchedInv, RecordInv, NEW p \in Procs, ReprocessDecided(p)
  PROVE  RecordInv'
<1> DEFINE l == proc[p]
           d == Current(p)
           r == DecisionOf(p).run
           s == WithRun(l, "reprocess", r)
<1>1. /\ l \in Locals /\ Past(p) /\ l.pc = "decide" /\ l.job = "wake"
      /\ d \in Dates /\ d = Min(l.todo) /\ r \in Captured(d)
      /\ Evidence(d).state # "succeeded" /\ r = Evidence(d).run
      /\ RecordedOK(l, Stale) /\ runs \in Seq(RunType) /\ UNCHANGED <<runs, item>>
      /\ proc \in [Procs -> Locals]
  BY DecideState, ActorFacts DEF ReprocessDecided, DecisionOK
<1>2. Stale \subseteq l.todo /\ Min(l.todo) \notin Stale
  BY <1>1, StaleWithin DEF Reconciling, ItemPCs
<1>3. Stale' = Stale
  BY <1>1, UnchangedStale
<1>4. \A q \in RunsFor(d) : runs[q].state # "succeeded"
  BY <1>1, NoneSucceeded
<1>5. Captured(d) # {}
  BY <1>1
<1>6. r = Max(Captured(d))
  <2> HIDE DEF r, d
  <2> QED BY <1>1, <1>4, <1>5, StrongestCapture
<1>7. Captured(d) = CapturedIn(runs, d)
  BY DEF Captured, RunsFor, CapturedIn
<1>8. proc' = [proc EXCEPT ![p] = s]
  BY <1>1 DEF ReprocessDecided, Locals, WithRun
<1>9. s.pc = "reprocess" /\ s.sub = r /\ s.todo = l.todo
  BY <1>1 DEF WithRun, Locals
<1> HIDE DEF r, d, s
<1>10. StrongestOK(s, runs')
  BY <1>1, <1>4, <1>6, <1>7, <1>9 DEF StrongestOK, RunsFor
<1>11. RecordedOK(s, Stale')
  BY <1>2, <1>3, <1>9 DEF RecordedOK, Capturing
<1> QED BY <1>1, <1>8, <1>10, <1>11, HolderRecorded

(* Once every open item is reconciled, none is stale.                      *)
LEMMA ReconciledRecorded ==
  ASSUME SchedInv, RecordInv, NEW p \in Procs, Reconciled(p)
  PROVE  RecordInv'
<1> DEFINE l == proc[p]
           s == [l EXCEPT !.pc = "capture"]
<1>1. /\ l \in Locals /\ Fits(l, runs) /\ l.pc = "sync" /\ Past(p) /\ l.todo = {}
      /\ RecordedOK(l, Stale) /\ UNCHANGED <<runs, item>>
  BY ActorFacts DEF Reconciled, At, Past
<1>2. l.job = "wake"
  BY <1>1 DEF Fits, JobOK, WakePCs
<1>3. Stale' = {}
  <2>1. Stale \subseteq {}
    BY <1>1, <1>2, StaleWithin DEF Reconciling
  <2> QED BY <1>1, <2>1, UnchangedStale
<1>4. CASE l.again \/ l.date = 0
  <2>1. proc' = [proc EXCEPT ![p] = Ended(TRUE)]
    BY <1>4 DEF Reconciled
  <2> QED BY <1>1, <1>3, <2>1, DoneRecorded
<1>5. CASE ~(l.again \/ l.date = 0)
  <2>1. proc' = [proc EXCEPT ![p] = s]
    BY <1>5 DEF Reconciled
  <2>2. s.pc = "capture"
    BY <1>1 DEF Locals
  <2> HIDE DEF s
  <2> QED BY <1>1, <1>3, <2>1, <2>2, GoesOnRecorded DEF StrongestOK, ReprocessPCs
<1> QED BY <1>4, <1>5

(* The date of a reprocess.                                                *)
LEMMA ReprocessDate ==
  ASSUME NEW l \in Locals, NEW rs, Fits(l, rs), l.pc \in ReprocessPCs
  PROVE  /\ l.sub \in DOMAIN rs
         /\ l.job = "wake" => /\ rs[l.sub].date = Min(l.todo)
                              /\ Min(l.todo) \in l.todo /\ Min(l.todo) \in Dates
<1>1. l.sub \in DOMAIN rs
  BY DEF Fits, SubOK, SubPCs
<1>2. l.job = "wake" => l.todo # {} /\ rs[l.sub].date = Min(l.todo)
  BY DEF Fits, JobOK, SubOK, ItemPCs
<1>3. l.todo \in SUBSET Dates
  BY DEF Locals
<1> QED BY <1>1, <1>2, <1>3, CurrentDate

(* A step of a reprocess or of a capture on its run.                       *)
LEMMA WorkRecorded ==
  ASSUME SchedInv, RecordInv, NEW p \in Procs, Past(p), NEW s, NEW n \in RunType,
         proc[p].pc \in ReprocessPCs \cup Capturing, proc[p].sub \in DOMAIN runs,
         proc[p].pc \in Capturing => runs[proc[p].sub].date = proc[p].date,
         proc' = [proc EXCEPT ![p] = s],
         runs' = [runs EXCEPT ![proc[p].sub] = n], item' = item,
         n.date = runs[proc[p].sub].date, n.snap = runs[proc[p].sub].snap
           \/ s.pc \in Capturing,
         s.pc \in ReprocessPCs \cup Capturing, s.pc # "reprocess",
         s.pc \in ReprocessPCs => proc[p].pc \in ReprocessPCs,
         s.pc \in Capturing => proc[p].pc \in Capturing,
         s.sub = proc[p].sub, s.todo = proc[p].todo, s.job = proc[p].job,
         s.date = proc[p].date
  PROVE  RecordInv'
<1> DEFINE l == proc[p]
<1>1. /\ l \in Locals /\ Fits(l, runs) /\ RecordedOK(l, Stale) /\ StrongestOK(l, runs)
      /\ runs \in Seq(RunType)
  BY ActorFacts
<1>2. /\ Stale' \subseteq Stale \cup {runs[l.sub].date}
      /\ DOMAIN runs' = DOMAIN runs
      /\ \A q \in DOMAIN runs : q # l.sub => runs'[q] = runs[q]
  BY RunStale
<1>3. ASSUME l.job = "wake"
      PROVE  Stale' \subseteq s.todo \cup (IF s.pc \in Capturing THEN {s.date} ELSE {})
  <2>1. Stale \subseteq l.todo \cup (IF l.pc \in Capturing THEN {l.date} ELSE {})
    BY <1>1, <1>3 DEF RecordedOK, Reconciling, ItemPCs
  <2>2. l.pc \in ReprocessPCs => runs[l.sub].date \in l.todo
    BY <1>1, <1>3, ReprocessDate
  <2>3. ~(s.pc \in Capturing /\ s.pc \in ReprocessPCs)
    BY DEF Capturing, ReprocessPCs
  <2>4. ~(l.pc \in Capturing /\ l.pc \in ReprocessPCs)
    BY DEF Capturing, ReprocessPCs
  <2> QED BY <1>2, <2>1, <2>2, <2>3, <2>4
<1>4. StrongestOK(s, runs')
  <2>1. CASE s.pc \in ReprocessPCs
    <3>1. n.snap = runs[l.sub].snap
      BY <2>1 DEF Capturing, ReprocessPCs
    <3>2. \A d : CapturedIn(runs', d) = CapturedIn(runs, d)
      BY <1>1, <3>1, UpdateCaptured
    <3>3. l.pc \in ReprocessPCs /\ s.job = l.job /\ s.sub = l.sub /\ s.todo = l.todo
      BY <2>1
    <3>4. StrongestOK(l, runs) /\ DOMAIN runs' = DOMAIN runs
          /\ \A q \in DOMAIN runs : q # l.sub => runs'[q] = runs[q]
      BY <1>1, <1>2
    <3>5. CapturedIn(runs', Min(s.todo)) = CapturedIn(runs, Min(l.todo))
      BY <3>2, <3>3
    <3> HIDE DEF l
    <3> QED BY <3>3, <3>4, <3>5 DEF StrongestOK
  <2> QED BY <2>1 DEF StrongestOK
<1>5. s.pc \notin {"decide", "reprocess", "finish"}
  BY DEF Capturing, ReprocessPCs
<1>6. s.job = "wake" =>
        /\ Stale' \subseteq s.todo \cup (IF s.pc \in Capturing THEN {s.date} ELSE {})
        /\ StrongestOK(s, runs')
  BY <1>3, <1>4
<1>7. proc' = [proc EXCEPT ![p] = s] /\ Past(p)
  OBVIOUS
<1> HIDE DEF l
<1> QED BY <1>5, <1>6, <1>7, GoesOnRecorded

(* p2.reprocess refuses, or makes its run work again.                      *)
LEMMA ReprocessRecorded ==
  ASSUME SchedInv, RecordInv, NEW p \in Procs, Reprocess(p)
  PROVE  RecordInv'
<1> DEFINE l == proc[p]
           r == runs[l.sub]
           refused == \/ r.state \in {"pending", "running", "missed"}
                      \/ r.snap # "own"
           events == r.state \in {"partial", "failed", "abandoned"}
           n == [r EXCEPT !.state = "running"]
           a == Advance(l)
           s == [l EXCEPT !.pc = IF events THEN "rederive" ELSE "reprocessed"]
<1>1. /\ l \in Locals /\ Fits(l, runs) /\ l.pc = "reprocess" /\ Past(p)
      /\ RecordedOK(l, Stale) /\ StrongestOK(l, runs)
      /\ \A q \in DOMAIN runs : runs[q] \in RunType
      /\ item' = item
  BY ActorFacts DEF Reprocess, At, Past
<1>2. l.sub \in DOMAIN runs
  BY <1>1, ReprocessDate DEF ReprocessPCs
<1>3. l.job = "wake" => Stale \subseteq l.todo /\ Min(l.todo) \notin Stale
  BY <1>1, StaleWithin DEF Reconciling, ItemPCs, ReprocessPCs
<1>4. CASE refused
  <2>1. runs' = runs
    BY <1>4 DEF Reprocess
  <2>2. Stale' = Stale
    BY <1>1, <2>1, UnchangedStale
  <2>3. CASE l.job = "wake"
    <3>1. proc' = [proc EXCEPT ![p] = a]
      BY <1>4, <2>3 DEF Reprocess
    <3>2. a.pc = "sync" /\ a.todo = l.todo \ {Min(l.todo)}
      BY <1>1, AdvanceFields
    <3> HIDE DEF a
    <3> QED BY <1>1, <1>3, <2>2, <2>3, <3>1, <3>2, AdvanceRecorded
  <2>4. CASE l.job # "wake"
    <3>1. proc' = [proc EXCEPT ![p] = Ended(FALSE)]
      BY <1>4, <2>4 DEF Reprocess
    <3> QED BY <1>1, <3>1, StopRecorded
  <2> QED BY <2>3, <2>4
<1>5. CASE ~refused /\ events
  <2>1. runs' = [runs EXCEPT ![l.sub] = n] /\ proc' = [proc EXCEPT ![p] = s]
    BY <1>5 DEF Reprocess
  <2>2. n \in RunType /\ n.date = r.date /\ n.snap = r.snap
    <3>1. r \in RunType /\ "running" \in RunStates
      BY <1>1, <1>2 DEF RunStates
    <3> HIDE DEF r
    <3> QED BY <3>1, StateUpdate
  <2>3. /\ s.pc = "rederive" /\ s.sub = l.sub /\ s.todo = l.todo /\ s.job = l.job
        /\ s.date = l.date
    BY <1>1, <1>5 DEF Locals
  <2>4. /\ l.pc \in ReprocessPCs /\ l.pc \notin Capturing
        /\ s.pc \in ReprocessPCs /\ s.pc \notin Capturing /\ s.pc # "reprocess"
    BY <1>1, <2>3 DEF ReprocessPCs, Capturing
  <2> HIDE DEF n, s
  <2> QED BY <1>1, <1>2, <2>1, <2>2, <2>3, <2>4, WorkRecorded
<1>6. CASE ~refused /\ ~events
  <2>1. runs' = runs /\ proc' = [proc EXCEPT ![p] = s]
    BY <1>6 DEF Reprocess
  <2>2. s.pc = "reprocessed" /\ s.sub = l.sub /\ s.todo = l.todo /\ s.job = l.job
    BY <1>1, <1>6 DEF Locals
  <2>3. Stale' = Stale
    BY <1>1, <2>1, UnchangedStale
  <2> HIDE DEF s
  <2>4. l.pc \in ReprocessPCs /\ s.pc \in ReprocessPCs
    BY <1>1, <2>2 DEF ReprocessPCs
  <2>5. StrongestOK(s, runs')
    BY <1>1, <2>1, <2>2, <2>4 DEF StrongestOK
  <2> QED BY <1>1, <1>3, <2>1, <2>2, <2>3, <2>5, GoesOnRecorded
<1> QED BY <1>4, <1>5, <1>6

(* derive_run only records that the session is the run's own.              *)
LEMMA DeriveRecorded ==
  ASSUME SchedInv, RecordInv, NEW p \in Procs, Derive(p)
  PROVE  RecordInv'
<1> DEFINE l == proc[p]
           r == runs[l.sub]
           next == IF l.pc = "derive" THEN "settle" ELSE "resettle"
           s == [l EXCEPT !.pc = next]
<1>1. /\ l \in Locals /\ Fits(l, runs) /\ l.pc \in {"derive", "rederive"} /\ Past(p)
      /\ runs \in Seq(RunType) /\ \A q \in DOMAIN runs : runs[q] \in RunType
      /\ item' = item
  BY ActorFacts DEF Derive, At, Past
<1>2. l.sub \in DOMAIN runs /\ r \in RunType
      /\ (l.pc = "derive" => r.date = l.date)
  BY <1>1 DEF Fits, SubOK, SubPCs, Working, Capturing
<1>3. PICK any \in BOOLEAN : runs' = [runs EXCEPT ![l.sub].e1 = @ \/ any]
  <2>1. PICK any \in {FALSE, r.snap = "own"} : runs' = [runs EXCEPT ![l.sub].e1 = @ \/ any]
    BY DEF Derive
  <2>2. any \in BOOLEAN
    BY <2>1
  <2> QED BY <2>1, <2>2
<1> DEFINE n == [r EXCEPT !.e1 = @ \/ any]
<1>4. runs' = [runs EXCEPT ![l.sub] = n]
  BY <1>1, <1>2, <1>3
<1>5. n \in RunType /\ n.date = r.date /\ n.snap = r.snap
  BY <1>2 DEF RunType
<1>6. proc' = [proc EXCEPT ![p] = s]
  BY DEF Derive, Goto
<1>7. /\ s.pc = next /\ s.sub = l.sub /\ s.todo = l.todo /\ s.job = l.job
      /\ s.date = l.date
  BY <1>1 DEF Locals
<1>8. /\ l.pc \in ReprocessPCs \cup Capturing /\ s.pc \in ReprocessPCs \cup Capturing
      /\ s.pc # "reprocess"
      /\ (l.pc \in Capturing => r.date = l.date)
      /\ (s.pc \in ReprocessPCs => l.pc \in ReprocessPCs)
      /\ (s.pc \in Capturing => l.pc \in Capturing)
  BY <1>1, <1>2, <1>7 DEF ReprocessPCs, Capturing
<1> HIDE DEF n, s, next
<1> QED BY <1>1, <1>2, <1>4, <1>5, <1>6, <1>7, <1>8, WorkRecorded

(* The final event changes the evidence of the date at work only.          *)
LEMMA SettleRecorded ==
  ASSUME SchedInv, RecordInv, NEW p \in Procs, Settle(p)
  PROVE  RecordInv'
<1> DEFINE l == proc[p]
           r == runs[l.sub]
           next == IF l.pc = "resettle" THEN "reprocessed" ELSE "outcome"
           s == [l EXCEPT !.pc = next]
<1>1. /\ l \in Locals /\ Fits(l, runs) /\ l.pc \in {"settle", "resettle"} /\ Past(p)
      /\ item' = item
  BY ActorFacts DEF Settle, At, Past
<1>2. l.sub \in DOMAIN runs /\ (l.pc = "settle" => r.date = l.date)
  BY <1>1 DEF Fits, SubOK, SubPCs, Working, Capturing
<1>3. PICK n \in RunType : /\ runs' = [runs EXCEPT ![l.sub] = n]
                           /\ n.date = r.date /\ n.snap = r.snap
  BY SettleFacts
<1>4. CASE l.pc = "resettle" \/ l.job = "wake"
  <2>1. proc' = [proc EXCEPT ![p] = s]
    BY <1>4 DEF Settle, Goto
  <2>2. /\ s.pc = next /\ s.sub = l.sub /\ s.todo = l.todo /\ s.job = l.job
        /\ s.date = l.date
    BY <1>1 DEF Locals
  <2>3. /\ l.pc \in ReprocessPCs \cup Capturing /\ s.pc \in ReprocessPCs \cup Capturing
        /\ s.pc # "reprocess"
        /\ (l.pc \in Capturing => r.date = l.date)
        /\ (s.pc \in ReprocessPCs => l.pc \in ReprocessPCs)
        /\ (s.pc \in Capturing => l.pc \in Capturing)
    BY <1>1, <1>2, <2>2 DEF ReprocessPCs, Capturing
  <2> HIDE DEF s, next
  <2> QED BY <1>1, <1>2, <1>3, <2>1, <2>2, <2>3, WorkRecorded
<1>5. CASE ~(l.pc = "resettle" \/ l.job = "wake")
  <2>1. proc' = [proc EXCEPT ![p] = Ended(FALSE)]
    BY <1>5 DEF Settle, Stop
  <2> QED BY <1>1, <2>1, StopRecorded
<1> QED BY <1>4, <1>5

(* The item event of a reprocess says what the date's evidence says.       *)
LEMMA ReprocessedRecorded ==
  ASSUME SchedInv, RecordInv, NEW p \in Procs, Reprocessed(p)
  PROVE  RecordInv'
<1> DEFINE l == proc[p]
           d == runs[l.sub].date
           state == runs[l.sub].state
           a == Advance(l)
           s == [a EXCEPT !.pc = "open"]
           e == Ended(FALSE)
<1>1. /\ l \in Locals /\ Fits(l, runs) /\ l.pc = "reprocessed" /\ Past(p)
      /\ RecordedOK(l, Stale) /\ StrongestOK(l, runs)
      /\ runs \in Seq(RunType) /\ \A q \in DOMAIN runs : runs[q] \in RunType
      /\ DOMAIN runs = 1..Len(runs) /\ Len(runs) \in Nat /\ Len(runs) <= MaxRuns
      /\ runs' = runs
  BY HolderFacts, ActorFacts DEF Reprocessed, At, Past
<1>2. /\ l.sub \in DOMAIN runs /\ runs[l.sub] \in RunType
      /\ l.job = "wake" => d = Min(l.todo) /\ d \in l.todo
  BY <1>1, ReprocessDate DEF ReprocessPCs
<1>3. d \in Dates /\ state \in ItemStates /\ l.sub \in 0..MaxRuns
      /\ "finalize" \in EventActions /\ "reprocess" \in EventActions
  BY <1>1, <1>2, Bounds DEF RunType, ItemStates, EventActions
<1>4. CASE l.job = "wake"
  <2>1. Event(p, d, state, "reprocess", l.sub, s)
    BY <1>4 DEF Reprocessed
  <2>2. a \in Locals /\ a.todo = l.todo \ {Min(l.todo)}
    BY <1>1, AdvanceFields
  <2> HIDE DEF a
  <2>3. s.pc = "open" /\ s.todo = l.todo \ {Min(l.todo)}
    BY <2>2 DEF Locals
  <2>4. Stale \subseteq l.todo
    BY <1>1, <1>4, StaleWithin DEF Reconciling, ItemPCs, ReprocessPCs
  <2>5. l.sub = Max(CapturedIn(runs, d))
        /\ \A q \in DOMAIN runs : runs[q].date = d /\ q # l.sub => runs[q].state # "succeeded"
    BY <1>1, <1>2, <1>4 DEF StrongestOK, ReprocessPCs
  <2>6. l.sub \in CapturedIn(runs, d) /\ CapturedIn(runs, d) = Captured(d)
    BY <1>1, <1>2 DEF Fits, SubOK, ReprocessPCs, CapturedIn, Captured, RunsFor
  <2> HIDE DEF s, d, state
  <2>7. Noted(p, d, state, "reprocess", l.sub, s)
    BY <1>1, <1>3, <2>1, EventStale
  <2>8. CASE proc' = [proc EXCEPT ![p] = Ended(FALSE)]
    BY <1>1, <2>8, StopRecorded
  <2>9. CASE /\ proc' = [proc EXCEPT ![p] = s]
             /\ item'[d].state = state /\ item'[d].run = l.sub
    <3>1. d \notin Stale'
      <4>1. CASE state = "succeeded"
        BY <2>9, <4>1 DEF Stale, OpenItems, FINAL_STATES
      <4>2. CASE state # "succeeded"
        <5> PICK ev : ev = Evidence(d)
          OBVIOUS
        <5>1. runs[l.sub].state = state /\ runs[l.sub].date = d
          BY DEF state, d
        <5>2. \A q \in RunsFor(d) : runs[q].state # "succeeded"
          BY <2>5, <4>2, <5>1 DEF RunsFor
        <5>3. Captured(d) # {}
          BY <2>6
        <5>4. ev.run = l.sub /\ ev.state = state
          BY <1>1, <2>5, <2>6, <5>1, <5>2, <5>3, StrongestCapture
        <5> QED BY <1>1, <2>9, <5>4, FreshItem
      <4> QED BY <4>1, <4>2
    <3>2. Stale' \subseteq l.todo
      BY <1>2, <1>4, <2>4, <2>7 DEF Noted
    <3>3. Min(l.todo) \notin Stale'
      BY <1>2, <1>4, <3>1
    <3> QED BY <1>1, <2>3, <2>9, <3>2, <3>3, AdvanceRecorded
  <2> QED BY <2>7, <2>8, <2>9 DEF Noted
<1>5. CASE ~(l.job = "wake")
  <2>1. proc' = [proc EXCEPT ![p] = Ended(FALSE)]
    BY <1>5 DEF Reprocessed, Event, Stop
  <2> QED BY <1>1, <2>1, StopRecorded
<1> QED BY <1>4, <1>5

(* _calendar changes no item and no run.                                   *)
LEMMA OpenRecorded ==
  ASSUME SchedInv, RecordInv, NEW p \in Procs, Open(p)
  PROVE  RecordInv'
<1> DEFINE l == proc[p]
           s == [l EXCEPT !.pc = "sync"]
<1>1. /\ l \in Locals /\ l.pc = "open" /\ Past(p) /\ RecordedOK(l, Stale)
      /\ UNCHANGED <<runs, item>> /\ proc' = [proc EXCEPT ![p] = s]
  BY ActorFacts DEF Open, At, Past, Goto
<1>2. s.pc = "sync" /\ s.todo = l.todo /\ s.job = l.job
  BY <1>1 DEF Locals
<1> HIDE DEF s
<1>3. s.job = "wake" => Stale' \subseteq s.todo
  BY <1>1, <1>2, StaleWithin, UnchangedStale DEF Reconciling
<1> QED BY <1>1, <1>2, <1>3, GoesOnRecorded DEF StrongestOK, ReprocessPCs

(* At the capture every item is up to date; during it, all but its own.    *)
LEMMA CaptureStale ==
  ASSUME NEW l, NEW rs, NEW stale, Fits(l, rs), RecordedOK(l, stale), l.job = "wake",
         l.pc \in Capturing \cup {"capture"}
  PROVE  /\ stale \subseteq {l.date}
         /\ l.pc = "capture" => stale = {}
BY DEF Fits, JobOK, RecordedOK, Reconciling, Capturing

(* Without a capture the wake-up ends with every item up to date.          *)
LEMMA NoCaptureRecorded ==
  ASSUME SchedInv, RecordInv, NEW p \in Procs, NoCapture(p) \/ RefuseCapture(p)
  PROVE  RecordInv'
<1> DEFINE l == proc[p]
<1>1. /\ Past(p) /\ l.pc = "capture" /\ Fits(l, runs) /\ RecordedOK(l, Stale)
      /\ proc' = [proc EXCEPT ![p] = Ended(TRUE)] /\ UNCHANGED <<runs, item>>
  BY ActorFacts DEF NoCapture, RefuseCapture, At, Past
<1>2. l.job = "wake"
  BY <1>1 DEF Fits, JobOK, WakePCs
<1>3. Stale = {}
  BY <1>1, <1>2, CaptureStale
<1>4. Stale' = {}
  BY <1>1, <1>3, UnchangedStale
<1> QED BY <1>1, <1>4, DoneRecorded

(* The 'running' event is on the item of the capture.                      *)
LEMMA StartCaptureRecorded ==
  ASSUME SchedInv, RecordInv, NEW p \in Procs, StartCapture(p)
  PROVE  RecordInv'
<1> DEFINE l == proc[p]
           s == [l EXCEPT !.pc = "p2"]
<1>1. /\ l \in Locals /\ Fits(l, runs) /\ l.pc = "capture" /\ Past(p)
      /\ RecordedOK(l, Stale) /\ runs' = runs
      /\ Event(p, l.date, "running", l.action, l.run, s)
  BY ActorFacts DEF StartCapture, At, Past
<1>2. /\ l.date \in Dates /\ l.action \in EventActions /\ l.run \in 0..MaxRuns
      /\ "running" \in ItemStates
  BY <1>1, CaptureDate DEF Capturing, CAPTURE_ACTIONS, EventActions, ItemStates, RunStates
<1>3. l.job = "wake"
  BY <1>1 DEF Fits, JobOK, WakePCs
<1>4. Stale = {}
  BY <1>1, <1>3, CaptureStale
<1>5. s.pc = "p2" /\ s.date = l.date
  BY <1>1 DEF Locals
<1> HIDE DEF s
<1>6. Noted(p, l.date, "running", l.action, l.run, s)
  BY <1>1, <1>2, EventStale
<1>7. Stale' \subseteq {l.date}
  BY <1>4, <1>6 DEF Noted
<1>8. CASE proc' = [proc EXCEPT ![p] = Ended(FALSE)]
  BY <1>1, <1>8, StopRecorded
<1>9. CASE proc' = [proc EXCEPT ![p] = s]
  <2>1. Stale' \subseteq s.todo \cup (IF s.pc \in Capturing THEN {s.date} ELSE {})
    BY <1>5, <1>7 DEF Capturing
  <2>2. StrongestOK(s, runs')
    BY <1>5 DEF StrongestOK, ReprocessPCs
  <2> QED BY <1>1, <1>5, <1>9, <2>1, <2>2, GoesOnRecorded
<1> QED BY <1>6, <1>8, <1>9 DEF Noted

(* A refused capture leaves its item saying what the runs prove.           *)
LEMMA P2RefusesRecorded ==
  ASSUME SchedInv, RecordInv, NEW p \in Procs, P2Refuses(p)
  PROVE  RecordInv'
<1> DEFINE l == proc[p]
           d == l.date
           next == Ended(TRUE)
<1> PICK ev : ev = Evidence(d)
  OBVIOUS
<1>1. /\ l \in Locals /\ Fits(l, runs) /\ l.pc = "p2" /\ Past(p)
      /\ RecordedOK(l, Stale) /\ runs' = runs /\ runs \in Seq(RunType)
  BY ActorFacts DEF P2Refuses, At, Past
<1>2. d \in Dates
  BY <1>1, CaptureDate DEF Capturing
<1>3. EvidenceOK(d, ev) /\ Len(runs) \in Nat /\ Len(runs) <= MaxRuns
  BY HolderFacts, EvidenceFacts
<1>4. /\ ev.state \in ItemStates /\ ev.run \in 0..MaxRuns /\ 0 \in 0..MaxRuns
      /\ "refused" \in EventActions
  BY <1>3, Bounds DEF EvidenceOK, ItemStates, RunStates, EventActions
<1>5. CASE l.job # "wake"
  <2>1. proc' = [proc EXCEPT ![p] = Ended(FALSE)]
    BY <1>5 DEF P2Refuses
  <2> QED BY <1>1, <2>1, StopRecorded
<1>6. CASE l.job = "wake"
  <2> DEFINE run == IF ev.state = "pending" THEN 0 ELSE ev.run
  <2>1. Event(p, d, ev.state, "refused", run, next)
    BY <1>6 DEF P2Refuses
  <2>2. run \in 0..MaxRuns /\ (ev.state = "pending" \/ run = ev.run)
    BY <1>4
  <2>3. Stale \subseteq {d}
    BY <1>1, <1>6, CaptureStale DEF Capturing
  <2> HIDE DEF run, next, d
  <2>4. Noted(p, d, ev.state, "refused", run, next)
    BY <1>1, <1>2, <1>4, <2>1, <2>2, EventStale
  <2>5. CASE proc' = [proc EXCEPT ![p] = Ended(FALSE)]
    BY <1>1, <2>5, StopRecorded
  <2>6. CASE /\ proc' = [proc EXCEPT ![p] = next]
             /\ item'[d].state = ev.state /\ item'[d].run = run
    <3>1. d \notin Stale'
      BY <1>1, <2>2, <2>6, FreshItem
    <3>2. Stale' = {}
      BY <2>3, <2>4, <3>1 DEF Noted
    <3>3. proc' = [proc EXCEPT ![p] = Ended(TRUE)]
      BY <2>6 DEF next
    <3> QED BY <1>1, <3>2, <3>3, DoneRecorded
  <2> QED BY <2>4, <2>5, <2>6 DEF Noted
<1> QED BY <1>5, <1>6

(* The new run is one of the date that is captured.                        *)
LEMMA P2CreateRecorded ==
  ASSUME SchedInv, RecordInv, NEW p \in Procs, P2Create(p)
  PROVE  RecordInv'
<1> DEFINE l == proc[p]
           manual == l.job # "wake"
           cap == IF manual THEN RunCap ELSE Min({RunCap, Remaining(p)})
           new == Len(runs) + 1
           n == NewRun(l.date, FALSE, manual, cap)
           s == WithRun(l, "begun", new)
<1>1. /\ l \in Locals /\ Fits(l, runs) /\ l.pc = "p2" /\ Past(p)
      /\ RecordedOK(l, Stale) /\ item' = item
  BY ActorFacts DEF P2Create, At, Past
<1>2. l.date \in Dates
  BY <1>1, CaptureDate DEF Capturing
<1>3. cap \in 0..RunCap /\ manual \in BOOLEAN
  <2>1. Remaining(p) \in Nat /\ RunCap \in Nat
    BY RemainingType, Bounds
  <2>2. Min({RunCap, Remaining(p)}) \in 0..RunCap
    BY <2>1, MinOfTwo
  <2> QED BY <2>1, <2>2
<1>4. runs' = Append(runs, n)
  BY DEF P2Create
<1>5. proc' = [proc EXCEPT ![p] = s]
  BY <1>1 DEF P2Create, Locals, WithRun
<1>6. s.pc = "begun" /\ s.job = l.job /\ s.date = l.date
  BY <1>1 DEF WithRun, Locals
<1>7. n \in RunType /\ n.date = l.date
  <2> HIDE DEF cap, manual
  <2> QED BY <1>2, <1>3, Bounds DEF NewRun, RunType, RunStates
<1> HIDE DEF n, s
<1>8. Stale' \subseteq Stale \cup {l.date}
  BY <1>1, <1>4, <1>7, AppendStale
<1>9. s.job = "wake" => Stale' \subseteq {s.date}
  <2>1. l.job = "wake" => Stale \subseteq {l.date}
    BY <1>1, CaptureStale DEF Capturing
  <2> QED BY <1>6, <1>8, <2>1
<1>10. StrongestOK(s, runs')
  BY <1>6 DEF StrongestOK, ReprocessPCs
<1>11. s.job = "wake" =>
         Stale' \subseteq s.todo \cup (IF s.pc \in Capturing THEN {s.date} ELSE {})
  BY <1>6, <1>9 DEF Capturing
<1> QED BY <1>1, <1>5, <1>6, <1>10, <1>11, GoesOnRecorded

(* Starting the run changes the evidence of that date only.                *)
LEMMA P2RunningRecorded ==
  ASSUME SchedInv, RecordInv, NEW p \in Procs, P2Running(p)
  PROVE  RecordInv'
<1> DEFINE l == proc[p]
           r == CaptureSub(l)
           n == [runs[r] EXCEPT !.state = "running"]
           s == WithRun(l, "fetch", r)
<1>1. /\ l \in Locals /\ Fits(l, runs) /\ l.pc \in {"p2", "begun"} /\ Past(p)
      /\ l.pc = IF l.action = "start" THEN "begun" ELSE "p2"
      /\ RecordedOK(l, Stale) /\ item' = item
      /\ \A q \in DOMAIN runs : runs[q] \in RunType
  BY ActorFacts DEF P2Running, At, Past
<1>2. l.action \in CAPTURE_ACTIONS
  BY <1>1, CaptureDate DEF Capturing
<1>3. runs' = [runs EXCEPT ![r] = n]
  BY DEF P2Running, CaptureSub
<1>4. proc' = [proc EXCEPT ![p] = s]
  BY <1>1 DEF P2Running, Locals, WithRun, CaptureSub
<1>5. r \in DOMAIN runs /\ runs[r].date = l.date
  BY <1>1, <1>2, CaptureRun
<1>6. s.pc = "fetch" /\ s.job = l.job /\ s.date = l.date
  BY <1>1 DEF WithRun, Locals
<1> HIDE DEF r
<1>7. n \in RunType /\ n.date = runs[r].date
  <2>1. runs[r] \in RunType /\ "running" \in RunStates
    BY <1>1, <1>5 DEF RunStates
  <2> QED BY <2>1, StateUpdate
<1> HIDE DEF n, s
<1>8. Stale' \subseteq Stale \cup {runs[r].date}
  BY <1>1, <1>3, <1>5, <1>7, RunStale
<1>9. s.job = "wake" => Stale' \subseteq {s.date}
  <2>1. l.job = "wake" => Stale \subseteq {l.date}
    BY <1>1, CaptureStale DEF Capturing
  <2> QED BY <1>5, <1>6, <1>8, <2>1
<1>10. StrongestOK(s, runs')
  BY <1>6 DEF StrongestOK, ReprocessPCs
<1>11. s.job = "wake" =>
         Stale' \subseteq s.todo \cup (IF s.pc \in Capturing THEN {s.date} ELSE {})
  BY <1>6, <1>9 DEF Capturing
<1> QED BY <1>1, <1>4, <1>6, <1>10, <1>11, GoesOnRecorded

(* So does what it fetches.                                                *)
LEMMA P2FetchRecorded ==
  ASSUME SchedInv, RecordInv, NEW p \in Procs,
         NEW snap \in {"none", "own", "earlier", "later"},
         NEW k \in 0..Others, NEW blocked \in BOOLEAN, P2Fetch(p, snap, k, blocked)
  PROVE  RecordInv'
<1> DEFINE l == proc[p]
           r == runs[l.sub]
           n == FetchedRun(r, snap, k)
           s == Fetched(l, blocked)
<1>1. /\ l \in Locals /\ Fits(l, runs) /\ l.pc = "fetch" /\ Past(p)
      /\ item' = item /\ \A q \in DOMAIN runs : runs[q] \in RunType
  BY ActorFacts DEF P2Fetch, At, Past
<1>2. l.sub \in DOMAIN runs /\ r.date = l.date /\ r \in RunType
  BY <1>1 DEF Fits, SubOK, SubPCs, Working, Capturing
<1>3. k <= r.left
  <2>1. r.left \in Nat
    BY <1>2, Bounds DEF RunType
  <2>2. k <= IF snap = "own" THEN r.left ELSE 0
    BY DEF P2Fetch
  <2> QED BY <2>1, <2>2
<1>4. runs' = [runs EXCEPT ![l.sub] = n]
  BY <1>1, <1>2 DEF P2Fetch, FetchedRun
<1>5. proc' = [proc EXCEPT ![p] = s]
  BY <1>1 DEF P2Fetch, Locals, Fetched
<1>6. n \in RunType /\ n.date = r.date
  <2> HIDE DEF r
  <2> QED BY <1>2, <1>3, FetchedRunFields
<1>7. /\ s.pc = "derive" /\ s.sub = l.sub /\ s.todo = l.todo /\ s.job = l.job
      /\ s.date = l.date
  BY <1>1, FetchedFields
<1>8. /\ l.pc \in Capturing /\ s.pc \in Capturing /\ s.pc # "reprocess"
      /\ s.pc \notin ReprocessPCs
  BY <1>1, <1>7 DEF ReprocessPCs, Capturing
<1> HIDE DEF n, s
<1> QED BY <1>1, <1>2, <1>4, <1>5, <1>6, <1>7, <1>8, WorkRecorded

(* After the outcome event the captured item is visited again.             *)
LEMMA OutcomeRecorded ==
  ASSUME SchedInv, RecordInv, NEW p \in Procs, Outcome(p)
  PROVE  RecordInv'
<1> DEFINE l == proc[p]
           gate == UnacknowledgedBlocks # {}
           s == AfterCapture(l, gate)
           state == runs[l.sub].state
<1>1. /\ l \in Locals /\ Fits(l, runs) /\ l.pc = "outcome" /\ Past(p)
      /\ RecordedOK(l, Stale) /\ runs' = runs
      /\ \A q \in DOMAIN runs : runs[q] \in RunType
      /\ DOMAIN runs = 1..Len(runs) /\ Len(runs) \in Nat /\ Len(runs) <= MaxRuns
  BY HolderFacts, ActorFacts DEF Outcome, At, Past
<1>2. Event(p, l.date, state, l.action, l.sub, s)
  BY DEF Outcome, AfterCapture
<1>3. l.sub \in DOMAIN runs /\ l.job = "wake"
  BY <1>1 DEF Fits, JobOK, SubOK, SubPCs, WakePCs
<1>4. l.date \in Dates /\ l.action \in CAPTURE_ACTIONS
  BY <1>1, CaptureDate DEF Capturing
<1>5. /\ l.action \in EventActions /\ state \in ItemStates /\ l.sub \in 0..MaxRuns
  BY <1>1, <1>3, <1>4, Bounds
     DEF CAPTURE_ACTIONS, EventActions, RunType, ItemStates
<1>6. s.pc = "open" /\ s.todo = {l.date}
  BY <1>1 DEF AfterCapture, Locals
<1>7. Stale \subseteq {l.date}
  BY <1>1, <1>3, CaptureStale DEF Capturing
<1> HIDE DEF s, state
<1>8. Noted(p, l.date, state, l.action, l.sub, s)
  BY <1>1, <1>2, <1>4, <1>5, EventStale
<1>9. CASE proc' = [proc EXCEPT ![p] = Ended(FALSE)]
  BY <1>1, <1>9, StopRecorded
<1>10. CASE proc' = [proc EXCEPT ![p] = s]
  <2>1. Stale' \subseteq s.todo
    BY <1>6, <1>7, <1>8 DEF Noted
  <2>2. StrongestOK(s, runs')
    BY <1>6 DEF StrongestOK, ReprocessPCs
  <2> QED BY <1>1, <1>6, <1>10, <2>1, <2>2, GoesOnRecorded
<1> QED BY <1>8, <1>9, <1>10 DEF Noted

(* Owner decisions: an item added while nobody holds the lock, a block     *)
(* acknowledged at any time.                                               *)
LEMMA OwnerRecorded ==
  ASSUME SchedInv, RecordInv, Owner
  PROVE  RecordInv'
<1>1. ASSUME NEW d \in Dates, AddItem(d)
      PROVE  RecordInv'
  <2>1. proc' = proc /\ LockFree
    BY <1>1 DEF AddItem
  <2>2. \A p \in Procs : proc[p].pc \in {"idle", "ready"}
    BY <2>1, ScheduleConstants DEF SchedInv, Past, LockFree
  <2> QED BY <2>1, <2>2, RestRecorded DEF RecordInv
<1>2. ASSUME UNCHANGED <<runs, item, proc>>
      PROVE  RecordInv'
  BY <1>2, UnchangedRecorded
<1>3. ASSUME NEW r \in 1..MaxRuns, AcknowledgeBlock(r)
      PROVE  RecordInv'
  <2> DEFINE n == [runs[r] EXCEPT !.acked = TRUE]
  <2>1. /\ r \in DOMAIN runs /\ runs \in Seq(RunType) /\ runs[r] \in RunType
        /\ item' = item /\ proc' = proc
    BY <1>3 DEF AcknowledgeBlock, UnacknowledgedBlocks, SchedInv, TypeOK
  <2>2. /\ n \in RunType /\ n.state = runs[r].state /\ n.date = runs[r].date
        /\ n.snap = runs[r].snap /\ n.missed = runs[r].missed
    BY <2>1 DEF RunType
  <2>3. runs' = [runs EXCEPT ![r] = n]
    BY <1>3 DEF AcknowledgeBlock
  <2> HIDE DEF n
  <2>4. /\ DOMAIN runs' = DOMAIN runs /\ runs'[r] = n
        /\ \A q \in DOMAIN runs : q # r => runs'[q] = runs[q]
    BY <2>1, <2>2, <2>3, RunUpdate
  <2>5. \A q \in DOMAIN runs : /\ runs'[q].state = runs[q].state
                               /\ runs'[q].date = runs[q].date
                               /\ runs'[q].snap = runs[q].snap
                               /\ runs'[q].missed = runs[q].missed
    BY <2>2, <2>4
  <2>6. \A e \in Dates : item'[e] = item[e] /\ SameRuns(runs, runs', e)
    BY <2>1, <2>4, <2>5 DEF SameRuns
  <2>7. Stale' \subseteq Stale
    BY <2>1, <2>6, StaleSame
  <2>8. \A e : CapturedIn(runs', e) = CapturedIn(runs, e)
    BY <2>1, <2>2, <2>3, UpdateCaptured
  <2>9. ASSUME NEW p \in Procs
        PROVE  RecordedOK(proc[p], Stale') /\ StrongestOK(proc[p], runs')
    <3>1. RecordedOK(proc[p], Stale) /\ StrongestOK(proc[p], runs)
      BY DEF RecordInv
    <3>2. RecordedOK(proc[p], Stale')
      BY <2>7, <3>1 DEF RecordedOK
    <3>3. StrongestOK(proc[p], runs')
      BY <2>4, <2>5, <2>8, <3>1 DEF StrongestOK
    <3> QED BY <3>2, <3>3
  <2> QED BY <2>1, <2>9 DEF RecordInv
<1> QED BY <1>1, <1>2, <1>3 DEF Owner, DeclareCheck, DeclareInsert, Disarm, Arm

(* Nothing is at work in the initial state.                                *)
LEMMA InitRecorded == Init => RecordInv
BY IdleType, RestRecorded DEF Init, RecordInv

(* Every step keeps the invariant.                                         *)
LEMMA NextRecorded ==
  ASSUME SchedInv, RecordInv, [Next]_vars
  PROVE  RecordInv'
<1>1. ASSUME NEW p \in Procs, Step(p)
      PROVE  RecordInv'
  <2>1. CASE \/ Lock(p) \/ Skip(p) \/ Recover(p) \/ Discover(p) \/ Sync(p) \/ Apply(p)
             \/ MissedRun(p) \/ MissedEvent(p) \/ MissedItem(p) \/ ReprocessDecided(p)
    BY <2>1, EdgeRecorded, OutsideRecorded, DiscoverRecorded, SyncRecorded,
       ApplyRecorded, MissedRunRecorded, MissedEventRecorded, MissedItemRecorded,
       ReprocessDecidedRecorded
  <2>2. CASE \/ Reconciled(p) \/ Reprocess(p) \/ Derive(p) \/ Settle(p)
             \/ Reprocessed(p) \/ Open(p)
    BY <2>2, ReconciledRecorded, ReprocessRecorded, DeriveRecorded, SettleRecorded,
       ReprocessedRecorded, OpenRecorded
  <2>3. CASE \/ NoCapture(p) \/ StartCapture(p) \/ P2Create(p) \/ P2Running(p)
             \/ Outcome(p) \/ OperatorLock(p) \/ Finish(p)
    BY <2>3, NoCaptureRecorded, StartCaptureRecorded, P2CreateRecorded,
       P2RunningRecorded, OutcomeRecorded, EdgeRecorded
  <2>4. CASE \E snap \in {"none", "own", "earlier", "later"}, k \in 0..Others,
                blocked \in BOOLEAN : P2Fetch(p, snap, k, blocked)
    BY <2>4, P2FetchRecorded
  <2> QED BY <1>1, <2>1, <2>2, <2>3, <2>4 DEF Step
<1>2. ASSUME NEW p \in Procs, Fault(p)
      PROVE  RecordInv'
  BY <1>2, EdgeRecorded, NoCaptureRecorded, P2RefusesRecorded DEF Fault
<1>3. ASSUME NEW p \in Procs, Wake(p, 0, FALSE) \/ Operator(p)
      PROVE  RecordInv'
  <2>1. 0 \in 0..LastDay /\ \A d \in Dates : d \in 0..LastDay
    BY Bounds
  <2> QED BY <1>3, <2>1, OutsideRecorded, EdgeRecorded DEF Operator
<1>4. CASE UNCHANGED vars \/ Tick
  BY <1>4, UnchangedRecorded DEF vars, Tick
<1> QED BY <1>1, <1>2, <1>3, <1>4, OwnerRecorded DEF Next

(* A wake-up that runs to its end leaves every open item saying what the   *)
(* runs of P2 prove (ItemsCurrent), for every history of runs, crashes and *)
(* commands before it: the first pass records what each date's evidence    *)
(* says, only its own run changes during the capture, and that item is     *)
(* reconciled once more.                                                   *)
THEOREM ItemsStayCurrent == Spec => []ItemsCurrent
<1>1. SchedInv /\ RecordInv /\ [Next]_vars => (SchedInv /\ RecordInv)'
  BY NextInv, NextRecorded
<1>2. RecordInv => ItemsCurrent
  BY DEF RecordInv, RecordedOK, ItemsCurrent, Stale
<1> QED BY InitInv, InitRecorded, <1>1, <1>2, PTL DEF Spec

-----------------------------------------------------------------------------
(* P2's run ledger keeps its promise                                       *)

(* No capture of the date says that it has its session.                    *)
Unclaimed(rs, d) ==
  \A r \in DOMAIN rs : rs[r].date = d /\ ~rs[r].missed =>
    rs[r].state \notin {"succeeded", "partial"}

(* A resume is decided or about to begin: by a wake-up that reconciles     *)
(* other items first, or under P2.                                         *)
Planned(l) ==
  /\ l.action = "resume"
  /\ \/ l.pc = "p2"
     \/ /\ l.job = "wake" /\ ~l.again /\ l.date # 0
        /\ l.pc \in Reconciling \cup {"capture"}

(* What a process knows of the runs when it is about to write to them.     *)
PromiseOK(l, rs) ==
  /\ l.pc \in {"p2", "begun"} =>
       \A r \in DOMAIN rs : rs[r].state = "blocked" => rs[r].acked
  /\ Planned(l) => rs[l.run].state \in RESUMABLE /\ l.date \notin l.todo
  /\ l.pc = "begun" => rs[l.sub].state = "pending"
  /\ l.pc = "missed_event" =>
       rs[l.sub].state = "pending" /\ Unclaimed(rs, rs[l.sub].date)

(* A run that has its session, complete or not, shows it.                  *)
ShownOK(rs) ==
  \A r \in DOMAIN rs : rs[r].state \in {"succeeded", "partial"} => rs[r].snap = "own"

PromiseInv == (\A p \in Procs : PromiseOK(proc[p], runs)) /\ ShownOK(runs)

(* The ledger as Ledger is instantiated with it.                           *)
LedgerTold == [r \in 1..MaxRuns |-> LedgerRow(r)]

(* What a step must show.                                                  *)
Kept == PromiseInv' /\ (Ledger!Next \/ UNCHANGED LedgerTold)

(* Nothing written that the ledger shows.                                  *)
LEMMA NothingTold ==
  ASSUME UNCHANGED runs
  PROVE  UNCHANGED LedgerTold
BY DEF LedgerTold, LedgerRow, Shows

(* The fields of a row.                                                    *)
LEMMA RowFields ==
  ASSUME NEW state, NEW kind, NEW date, NEW shown, NEW acked, NEW row,
         row = [state |-> state, kind |-> kind, date |-> date, shown |-> shown,
                acked |-> acked]
  PROVE  /\ row.state = state /\ row.kind = kind /\ row.date = date
         /\ row.shown = shown /\ row.acked = acked
OBVIOUS

(* A row once its session is shown.                                        *)
Showing(row, x) == [row EXCEPT !.shown = x]

(* ... differs in that alone.                                              *)
LEMMA RowShown ==
  ASSUME NEW state, NEW kind, NEW date, NEW shown, NEW acked, NEW row, NEW x,
         row = [state |-> state, kind |-> kind, date |-> date, shown |-> shown,
                acked |-> acked]
  PROVE  Showing(row, x) = [state |-> state, kind |-> kind, date |-> date,
                            shown |-> x, acked |-> acked]
BY DEF Showing

(* The row of a run that exists, and of one that does not.                 *)
LEMMA ToldFields ==
  ASSUME SchedInv
  PROVE  /\ \A r \in DOMAIN runs :
              /\ r \in 1..MaxRuns
              /\ LedgerTold[r].state = runs[r].state
              /\ LedgerTold[r].kind = IF runs[r].missed THEN "missed_record"
                                      ELSE "market_capture"
              /\ LedgerTold[r].date = runs[r].date
              /\ LedgerTold[r].shown = Shows(r)
              /\ LedgerTold[r].acked = runs[r].acked
         /\ \A r \in (1..MaxRuns) \ DOMAIN runs :
              LedgerTold[r].state = "none" /\ LedgerTold[r].kind = None
<1>1. DOMAIN runs = 1..Len(runs) /\ Len(runs) \in Nat /\ Len(runs) <= MaxRuns
  BY DEF SchedInv, TypeOK
<1>2. \A r \in DOMAIN runs : r \in 1..MaxRuns
  BY <1>1, Bounds
<1>3. \A r \in 1..MaxRuns : LedgerTold[r] = LedgerRow(r)
  BY DEF LedgerTold
<1>4. ASSUME NEW r \in DOMAIN runs
      PROVE  LedgerTold[r] = [state |-> runs[r].state,
               kind |-> IF runs[r].missed THEN "missed_record" ELSE "market_capture",
               date |-> runs[r].date, shown |-> Shows(r),
               acked |-> runs[r].acked]
  BY <1>2, <1>3 DEF LedgerRow
<1>5. ASSUME NEW r \in (1..MaxRuns) \ DOMAIN runs
      PROVE  LedgerTold[r] = Ledger!Row("none", None, 0)
  BY <1>3 DEF LedgerRow, Ledger!Row
<1>6. \A r \in (1..MaxRuns) \ DOMAIN runs :
        LedgerTold[r].state = "none" /\ LedgerTold[r].kind = None
  BY <1>5 DEF Ledger!Row
<1>7. ASSUME NEW r \in DOMAIN runs
      PROVE  /\ LedgerTold[r].state = runs[r].state
             /\ LedgerTold[r].kind = IF runs[r].missed THEN "missed_record"
                                     ELSE "market_capture"
             /\ LedgerTold[r].date = runs[r].date
             /\ LedgerTold[r].shown = Shows(r)
             /\ LedgerTold[r].acked = runs[r].acked
  <2> DEFINE row == LedgerTold[r]
             state == runs[r].state
             kind == IF runs[r].missed THEN "missed_record" ELSE "market_capture"
             date == runs[r].date
             shown == Shows(r)
             acked == runs[r].acked
  <2>1. row = [state |-> state, kind |-> kind, date |-> date, shown |-> shown,
               acked |-> acked]
    BY <1>4, <1>7
  <2> HIDE DEF row, state, kind, date, shown, acked
  <2>2. /\ row.state = state /\ row.kind = kind /\ row.date = date
        /\ row.shown = shown /\ row.acked = acked
    BY <2>1, RowFields, Zenon
  <2> QED BY <2>2 DEF row, state, kind, date, shown, acked
<1> QED BY <1>2, <1>6, <1>7

(* What the ledger's own operators say of the runs.                        *)
LEMMA LedgerReads ==
  ASSUME SchedInv
  PROVE  /\ Ledger!Running = {r \in DOMAIN runs : runs[r].state = "running"}
         /\ Ledger!Unreviewed = UnacknowledgedBlocks
         /\ \A d \in Dates : Unclaimed(runs, d) => ~Ledger!Taken(d)
<1>0. Ledger!Running = {r \in 1..MaxRuns : LedgerTold[r].state = "running"}
  BY DEF Ledger!Running, LedgerTold
<1>1. Ledger!Running = {r \in DOMAIN runs : runs[r].state = "running"}
  BY <1>0, ToldFields
<1>2. Ledger!Unreviewed = {r \in 1..MaxRuns : LedgerTold[r].state = "blocked"
                                               /\ ~LedgerTold[r].acked}
  BY DEF Ledger!Unreviewed, LedgerTold
<1>3. Ledger!Unreviewed = UnacknowledgedBlocks
  BY <1>2, ToldFields DEF UnacknowledgedBlocks
<1>4. ASSUME NEW d \in Dates, Unclaimed(runs, d), Ledger!Taken(d)
      PROVE  FALSE
  <2>1. PICK r \in 1..MaxRuns : /\ LedgerTold[r].kind = "market_capture"
                                /\ LedgerTold[r].date = d
                                /\ LedgerTold[r].state \in {"succeeded", "partial"}
    BY <1>4 DEF Ledger!Taken, LedgerTold
  <2>2. r \in DOMAIN runs
    BY <2>1, ToldFields
  <2>3. ~runs[r].missed /\ runs[r].date = d /\ runs[r].state \in {"succeeded", "partial"}
    <3>1. /\ LedgerTold[r].kind = IF runs[r].missed THEN "missed_record"
                                  ELSE "market_capture"
          /\ LedgerTold[r].state = runs[r].state /\ LedgerTold[r].date = runs[r].date
      BY <2>2, ToldFields
    <3> QED BY <2>1, <3>1
  <2> QED BY <1>4, <2>2, <2>3 DEF Unclaimed
<1> QED BY <1>1, <1>3, <1>4

(* One run's row is the only one that changes.                             *)
LEMMA RowTold ==
  ASSUME SchedInv, NEW r \in DOMAIN runs, DOMAIN runs' = DOMAIN runs,
         \A q \in DOMAIN runs : q # r => runs'[q] = runs[q],
         runs'[r].missed = runs[r].missed, runs'[r].date = runs[r].date,
         runs'[r].acked = runs[r].acked
  PROVE  /\ runs'[r].snap = runs[r].snap => Ledger!Becomes(r, runs'[r].state)
         /\ runs'[r].state = runs[r].state
            /\ (runs'[r].snap = "own" <=> runs[r].snap = "own") => UNCHANGED LedgerTold
         /\ runs'[r].state = runs[r].state /\ runs'[r].snap = "own" =>
              LedgerTold' = [LedgerTold EXCEPT ![r].shown = TRUE]
<1>1. r \in 1..MaxRuns
  BY ToldFields
<1>2. \A q \in (1..MaxRuns) \ {r} : LedgerRow(q)' = LedgerRow(q)
  BY DEF LedgerRow, Shows
<1>3. LedgerRow(r) = [state |-> runs[r].state,
          kind |-> IF runs[r].missed THEN "missed_record" ELSE "market_capture",
          date |-> runs[r].date, shown |-> Shows(r),
          acked |-> runs[r].acked]
  BY DEF LedgerRow
<1>4. LedgerRow(r)' = [state |-> runs'[r].state,
          kind |-> IF runs[r].missed THEN "missed_record" ELSE "market_capture",
          date |-> runs[r].date, shown |-> Shows(r)',
          acked |-> runs[r].acked]
  BY DEF LedgerRow
<1>5. ASSUME runs'[r].snap = runs[r].snap
      PROVE  Ledger!Becomes(r, runs'[r].state)
  <2>0. Shows(r)' = Shows(r)
    BY <1>5 DEF Shows
  <2>1. LedgerRow(r)' = [LedgerRow(r) EXCEPT !.state = runs'[r].state]
    BY <1>3, <1>4, <2>0
  <2>2. LedgerTold' = [LedgerTold EXCEPT ![r].state = runs'[r].state]
    BY <1>1, <1>2, <2>1 DEF LedgerTold
  <2> QED BY <2>2 DEF Ledger!Becomes, LedgerTold
<1>6. ASSUME runs'[r].state = runs[r].state, runs'[r].snap = "own" <=> runs[r].snap = "own"
      PROVE  UNCHANGED LedgerTold
  <2>1. Shows(r)' = Shows(r)
    BY <1>6 DEF Shows
  <2>2. LedgerRow(r)' = LedgerRow(r)
    BY <1>3, <1>4, <1>6, <2>1
  <2> QED BY <1>2, <2>2 DEF LedgerTold
<1>7. ASSUME runs'[r].state = runs[r].state, runs'[r].snap = "own"
      PROVE  LedgerTold' = [LedgerTold EXCEPT ![r].shown = TRUE]
  <2>1. Shows(r)' = TRUE
    BY <1>7 DEF Shows
  <2>2. LedgerRow(r)' = [state |-> runs[r].state,
          kind |-> IF runs[r].missed THEN "missed_record" ELSE "market_capture",
          date |-> runs[r].date, shown |-> TRUE, acked |-> runs[r].acked]
    BY <1>4, <1>7, <2>1
  <2>3. LedgerRow(r)' = [LedgerRow(r) EXCEPT !.shown = TRUE]
    <3> DEFINE row == LedgerRow(r)
               state == runs[r].state
               kind == IF runs[r].missed THEN "missed_record" ELSE "market_capture"
               date == runs[r].date
               shown == Shows(r)
               acked == runs[r].acked
    <3>1. row = [state |-> state, kind |-> kind, date |-> date, shown |-> shown,
                 acked |-> acked]
      BY <1>3
    <3> HIDE DEF row, state, kind, date, shown, acked
    <3>2. PICK yes : yes = TRUE
      OBVIOUS
    <3>3. Showing(row, yes) = [state |-> state, kind |-> kind, date |-> date,
                               shown |-> yes, acked |-> acked]
      BY <3>1, RowShown
    <3>4. Showing(row, yes) = [LedgerRow(r) EXCEPT !.shown = TRUE]
      BY <3>2, Zenon DEF Showing, row
    <3> QED BY <2>2, <3>2, <3>3, <3>4, Zenon DEF state, kind, date, acked
  <2> QED BY <1>1, <1>2, <2>3 DEF LedgerTold
<1> QED BY <1>5, <1>6, <1>7

(* A run that is given up if it is running.                                *)
GivenUp(rs, new) ==
  \A r \in DOMAIN rs :
    /\ r \in DOMAIN new
    /\ new[r].state = IF rs[r].state = "running" THEN "abandoned" ELSE rs[r].state
    /\ new[r].date = rs[r].date /\ new[r].snap = rs[r].snap
    /\ new[r].missed = rs[r].missed /\ new[r].acked = rs[r].acked

(* The row of a run once the dead ones are given up.                       *)
LEMMA GivenUpRow ==
  ASSUME SchedInv, GivenUp(runs, runs'), NEW r \in DOMAIN runs
  PROVE  LedgerRow(r)' = IF r \in Ledger!Running
                         THEN [LedgerRow(r) EXCEPT !.state = "abandoned"]
                         ELSE LedgerRow(r)
<1> PICK dead : dead = Ledger!Running
  OBVIOUS
<1>1. r \in dead <=> runs[r].state = "running"
  BY LedgerReads
<1>2. LedgerRow(r) = [state |-> runs[r].state,
          kind |-> IF runs[r].missed THEN "missed_record" ELSE "market_capture",
          date |-> runs[r].date, shown |-> Shows(r),
          acked |-> runs[r].acked]
  BY DEF LedgerRow
<1>3. Shows(r)' = Shows(r)
  BY DEF Shows, GivenUp
<1>4. LedgerRow(r)' = [state |-> IF r \in dead THEN "abandoned" ELSE runs[r].state,
          kind |-> IF runs[r].missed THEN "missed_record" ELSE "market_capture",
          date |-> runs[r].date, shown |-> Shows(r),
          acked |-> runs[r].acked]
  BY <1>1, <1>3 DEF LedgerRow, GivenUp
<1> QED BY <1>2, <1>4

(* mark_abandoned gives up the dead runs, and only them.                   *)
LEMMA AbandonedGivesUp ==
  ASSUME SchedInv
  PROVE  GivenUp(runs, Abandoned(runs)) /\ DOMAIN Abandoned(runs) = DOMAIN runs
BY HolderFacts, AbandonedFacts DEF GivenUp, SchedInv, TypeOK

(* mark_abandoned, as the ledger tells it.                                 *)
LEMMA AbandonTold ==
  ASSUME SchedInv, runs' = Abandoned(runs)
  PROVE  Ledger!Abandon \/ UNCHANGED LedgerTold
<1> PICK dead : dead = Ledger!Running
  OBVIOUS
<1>1. GivenUp(runs, runs') /\ DOMAIN runs' = DOMAIN runs
  BY AbandonedGivesUp
<1>2. dead \subseteq DOMAIN runs
  BY LedgerReads
<1>3. ASSUME NEW r \in 1..MaxRuns
      PROVE  LedgerRow(r)' = IF r \in dead THEN [LedgerRow(r) EXCEPT !.state = "abandoned"]
                             ELSE LedgerRow(r)
  <2>1. CASE r \notin DOMAIN runs
    BY <1>1, <1>2, <2>1 DEF LedgerRow
  <2>2. CASE r \in DOMAIN runs
    BY <1>1, <2>2, GivenUpRow
  <2> QED BY <2>1, <2>2
<1>4. LedgerTold' = Ledger!WithoutRuns(dead)
  BY <1>3 DEF LedgerTold, Ledger!WithoutRuns
<1>5. CASE dead = {}
  BY <1>3, <1>5 DEF LedgerTold
<1>6. CASE dead # {}
  BY <1>4, <1>6 DEF Ledger!Abandon, LedgerTold
<1> QED BY <1>5, <1>6

(* A new run, once the dead ones are given up.                             *)
LEMMA CreateTold ==
  ASSUME SchedInv, NEW rs \in Seq(RunType), GivenUp(runs, rs), DOMAIN rs = DOMAIN runs,
         NEW d \in Dates, NEW missed \in BOOLEAN, NEW manual \in BOOLEAN,
         NEW cap \in 0..RunCap, Len(rs) < MaxRuns,
         runs' = Append(rs, NewRun(d, missed, manual, cap)),
         IF missed THEN Unclaimed(runs, d) ELSE UnacknowledgedBlocks = {}
  PROVE  Ledger!Create(Len(rs) + 1)
<1> DEFINE n == NewRun(d, missed, manual, cap)
           kind == IF missed THEN "missed_record" ELSE "market_capture"
<1> PICK new : new = Len(rs) + 1
  OBVIOUS
<1> PICK dead : dead = Ledger!Running
  OBVIOUS
<1>1. /\ n \in RunType /\ n.date = d /\ n.missed = missed /\ n.state = "pending"
      /\ n.snap = "none" /\ n.acked = FALSE
  BY NewRunType DEF NewRun
<1> HIDE DEF n
<1>2. runs' = Append(rs, n)
  BY DEF n
<1>3. /\ DOMAIN runs' = DOMAIN runs \cup {new} /\ new \notin DOMAIN runs
      /\ runs'[new] = n /\ \A r \in DOMAIN runs : runs'[r] = rs[r]
  BY <1>1, <1>2, AppendFacts
<1>4. new \in 1..MaxRuns /\ LedgerTold[new].state = "none"
  <2>1. Len(rs) \in Nat /\ new \in 1..MaxRuns
    BY Bounds
  <2> QED BY <1>3, <2>1, ToldFields
<1>5. GivenUp(runs, runs')
  BY <1>3 DEF GivenUp
<1>6. dead \subseteq DOMAIN runs
  BY LedgerReads
<1>7. \A r \in (1..MaxRuns) \ {new} :
        LedgerRow(r)' = IF r \in dead THEN [LedgerRow(r) EXCEPT !.state = "abandoned"]
                        ELSE LedgerRow(r)
  <2> TAKE r \in (1..MaxRuns) \ {new}
  <2>1. CASE r \notin DOMAIN runs
    BY <1>3, <1>6, <2>1 DEF LedgerRow
  <2>2. CASE r \in DOMAIN runs
    BY <1>5, <2>2, GivenUpRow
  <2> QED BY <2>1, <2>2
<1>8. LedgerRow(new)' = Ledger!Row("pending", kind, d)
  <2>1. Shows(new)' = FALSE
    BY <1>1, <1>3 DEF Shows
  <2>2. LedgerRow(new)' = [state |-> n.state,
          kind |-> IF n.missed THEN "missed_record" ELSE "market_capture",
          date |-> n.date, shown |-> Shows(new)', acked |-> n.acked]
    BY <1>3 DEF LedgerRow
  <2>3. LedgerRow(new)' = [state |-> "pending", kind |-> kind, date |-> d,
                           shown |-> FALSE, acked |-> FALSE]
    BY <1>1, <2>1, <2>2
  <2> QED BY <2>3 DEF Ledger!Row
<1> HIDE DEF kind
<1>9. LedgerTold' = [Ledger!WithoutRuns(dead) EXCEPT ![new] = Ledger!Row("pending", kind, d)]
  BY <1>4, <1>7, <1>8 DEF LedgerTold, Ledger!WithoutRuns
<1>10. /\ kind \in {"market_capture", "metadata_sweep", "missed_record"}
       /\ IF kind = "missed_record" THEN ~Ledger!Taken(d) ELSE Ledger!Unreviewed = {}
  BY LedgerReads DEF kind
<1> QED BY <1>4, <1>9, <1>10, Zenon DEF Ledger!Create, LedgerTold

-----------------------------------------------------------------------------
(* The promise of a process                                                *)

(* A process that is not about to write, and plans nothing.                *)
LEMMA RestPromise ==
  ASSUME NEW l, NEW rs,
         \/ l.pc \in {"idle", "ready", "recover", "discover", "fetch", "derive",
                      "settle", "outcome", "finish"}
         \/ l.job # "wake" /\ l.pc \in ReprocessPCs
         \/ (l.again \/ l.date = 0) /\ l.pc \in (Reconciling \ {"missed_event"})
  PROVE  PromiseOK(l, rs)
BY DEF PromiseOK, Planned, Reconciling, ItemPCs, MissedPCs, ReprocessPCs

(* The holder of the lock goes on as s.                                    *)
LEMMA HolderPromise ==
  ASSUME SchedInv, NEW p \in Procs, Past(p) \/ LockFree, NEW s,
         proc' = [proc EXCEPT ![p] = s], PromiseOK(s, runs'), ShownOK(runs')
  PROVE  PromiseInv'
<1>1. proc \in [Procs -> Locals]
  BY HolderFacts DEF SchedInv, TypeOK
<1>2. proc'[p] = s /\ \A q \in Procs : q # p => proc'[q] = proc[q]
  BY <1>1
<1>3. \A q \in Procs : q # p => proc[q].pc \in {"idle", "ready"}
  <2>1. CASE Past(p)
    <3>1. lock = p /\ \A q \in Procs : Past(q) => lock = q
      BY <2>1 DEF SchedInv
    <3> QED BY <3>1 DEF Past
  <2>2. CASE LockFree
    BY <2>2, ScheduleConstants DEF SchedInv, Past, LockFree
  <2> QED BY <2>1, <2>2
<1>4. \A q \in Procs : q # p => PromiseOK(proc'[q], runs')
  BY <1>2, <1>3, RestPromise
<1> QED BY <1>2, <1>4 DEF PromiseInv

(* The holder ends.                                                        *)
LEMMA EndPromise ==
  ASSUME SchedInv, NEW p \in Procs, Past(p), NEW done \in BOOLEAN,
         proc' = [proc EXCEPT ![p] = Ended(done)], ShownOK(runs')
  PROVE  PromiseInv'
<1> DEFINE s == Ended(done)
<1>1. s.pc = "finish"
  BY EndedFields
<1> HIDE DEF s
<1>2. PromiseOK(s, runs')
  BY <1>1, RestPromise
<1>3. proc' = [proc EXCEPT ![p] = s]
  BY DEF s
<1> QED BY <1>2, <1>3, HolderPromise

(* A process goes on without a write to the runs.                          *)
LEMMA SamePromise ==
  ASSUME SchedInv, PromiseInv, UNCHANGED runs, NEW p \in Procs, NEW s,
         proc' = [proc EXCEPT ![p] = s], PromiseOK(s, runs)
  PROVE  Kept
<1>1. proc \in [Procs -> Locals]
  BY HolderFacts
<1>2. proc'[p] = s /\ \A q \in Procs : q # p => proc'[q] = proc[q]
  BY <1>1
<1>3. PromiseInv'
  BY <1>2 DEF PromiseInv
<1> QED BY <1>3, NothingTold DEF Kept

(* ... or ends.                                                            *)
LEMMA SameEnd ==
  ASSUME SchedInv, PromiseInv, UNCHANGED runs, NEW p \in Procs, NEW done \in BOOLEAN,
         proc' = [proc EXCEPT ![p] = Ended(done)]
  PROVE  Kept
<1> DEFINE s == Ended(done)
<1>1. s.pc = "finish"
  BY EndedFields
<1> HIDE DEF s
<1>2. PromiseOK(s, runs)
  BY <1>1, RestPromise
<1>3. proc' = [proc EXCEPT ![p] = s]
  BY DEF s
<1> QED BY <1>2, <1>3, SamePromise

(* ... after an event of its item, which the trigger may refuse.           *)
LEMMA EventPromise ==
  ASSUME SchedInv, PromiseInv, UNCHANGED runs, NEW p \in Procs,
         NEW d, NEW state, NEW action, NEW run, NEW next,
         Event(p, d, state, action, run, next), PromiseOK(next, runs)
  PROVE  Kept
<1>1. proc' = [proc EXCEPT ![p] = next] \/ proc' = [proc EXCEPT ![p] = Ended(FALSE)]
  BY DEF Event, Stop
<1> QED BY <1>1, SamePromise, SameEnd

(* A plan survives the reconciling of other items.                         *)
LEMMA PlanPromise ==
  ASSUME NEW l, NEW s, NEW rs, NEW new, PromiseOK(l, rs), KeepsPlan(l, s),
         \A d : d \in s.todo => d \in l.todo,
         l.pc \in Reconciling, s.pc \in (Reconciling \ {"missed_event"}) \cup {"capture"},
         Planned(l) => new[l.run].state = rs[l.run].state
  PROVE  PromiseOK(s, new)
<1>1. s.pc \notin {"p2", "begun", "missed_event"} /\ l.pc # "p2"
  BY DEF Reconciling, ItemPCs, MissedPCs, ReprocessPCs
<1>2. Planned(s) => Planned(l)
  BY <1>1 DEF Planned, KeepsPlan
<1> QED BY <1>1, <1>2 DEF PromiseOK, KeepsPlan

-----------------------------------------------------------------------------
(* The steps that write to no run                                          *)

(* What the invariants say of the process that acts.                       *)
LEMMA PromiseFacts ==
  ASSUME SchedInv, PromiseInv, NEW p \in Procs
  PROVE  /\ proc[p] \in Locals /\ Fits(proc[p], runs) /\ runs \in Seq(RunType)
         /\ proc \in [Procs -> Locals] /\ PromiseOK(proc[p], runs)
         /\ \A r \in DOMAIN runs : runs[r] \in RunType
         /\ ShownOK(runs)
BY HolderFacts DEF PromiseInv

(* A process takes the lock, begins, gives up, ends or dies.               *)
LEMMA EdgePromise ==
  ASSUME SchedInv, PromiseInv, NEW p \in Procs,
         \/ Lock(p) \/ Skip(p) \/ RefuseWake(p) \/ Finish(p) \/ Crash(p)
         \/ \E d \in Dates : OperatorReprocess(p, d)
         \/ \E only \in 0..LastDay, confirm \in BOOLEAN : Wake(p, only, confirm)
  PROVE  Kept
<1>1. proc[p] \in Locals /\ UNCHANGED runs
  BY HolderFacts DEF Lock, Skip, RefuseWake, Finish, Crash, OperatorReprocess, Wake
<1>2. PICK s : /\ proc' = [proc EXCEPT ![p] = s]
               /\ s.pc \in {"idle", "ready", "recover", "finish"}
  <2>1. CASE Skip(p) \/ Finish(p) \/ Crash(p)
    BY <2>1, IdleType DEF Skip, Finish, Crash
  <2>2. CASE RefuseWake(p)
    <3> DEFINE s == Ended(FALSE)
    <3>1. s.pc = "finish"
      BY EndedFields
    <3>2. proc' = [proc EXCEPT ![p] = s]
      BY <2>2 DEF RefuseWake, Stop
    <3> HIDE DEF s
    <3> QED BY <3>1, <3>2
  <2>3. CASE Lock(p)
    <3> DEFINE s == [proc[p] EXCEPT !.pc = "recover", !.armed = armed]
    <3>1. proc' = [proc EXCEPT ![p] = s] /\ s.pc = "recover"
      BY <1>1, <2>3, HolderFacts DEF Lock, Locals
    <3> HIDE DEF s
    <3> QED BY <3>1
  <2>4. ASSUME NEW d, OperatorReprocess(p, d)
        PROVE  \E s : /\ proc' = [proc EXCEPT ![p] = s]
                      /\ s.pc \in {"idle", "ready", "recover", "finish"}
    <3> DEFINE s == [Command("ready", d, "none", Evidence(d).run)
                       EXCEPT !.job = "reprocess", !.now = clock]
    <3>1. proc' = [proc EXCEPT ![p] = s]
      BY <2>4 DEF OperatorReprocess
    <3>2. s.pc = "ready"
      BY DEF Command, IdleProcess
    <3> HIDE DEF s
    <3> QED BY <3>1, <3>2
  <2>5. ASSUME NEW only, NEW confirm, Wake(p, only, confirm)
        PROVE  \E s : /\ proc' = [proc EXCEPT ![p] = s]
                      /\ s.pc \in {"idle", "ready", "recover", "finish"}
    <3> DEFINE s == Ready(clock, only, confirm)
    <3>1. proc' = [proc EXCEPT ![p] = s]
      BY <2>5 DEF Wake, Ready
    <3>2. s.pc = "ready"
      BY DEF Ready, IdleProcess
    <3> HIDE DEF s
    <3> QED BY <3>1, <3>2
  <2> QED BY <2>1, <2>2, <2>3, <2>4, <2>5
<1>3. PromiseOK(s, runs)
  BY <1>2, RestPromise
<1> QED BY <1>1, <1>2, <1>3, SamePromise

(* _discover: nothing is planned yet.                                      *)
LEMMA DiscoverPromise ==
  ASSUME SchedInv, PromiseInv, NEW p \in Procs, Discover(p)
  PROVE  Kept
<1> DEFINE l == proc[p]
<1> PICK gate : gate = (UnacknowledgedBlocks # {})
  OBVIOUS
<1> DEFINE s == [l EXCEPT !.pc = "sync", !.todo = OpenItems, !.gate = gate]
<1>1. /\ l \in Locals /\ Fits(l, runs) /\ l.pc = "discover" /\ UNCHANGED runs
      /\ proc \in [Procs -> Locals]
  BY PromiseFacts DEF Discover, At
<1>2. \/ UNCHANGED proc \/ proc' = [proc EXCEPT ![p] = Ended(FALSE)]
      \/ proc' = [proc EXCEPT ![p] = s]
  BY <1>1 DEF Discover, Stop
<1>3. CASE UNCHANGED proc
  BY <1>1, <1>3, NothingTold DEF Kept, PromiseInv
<1>4. CASE proc' = [proc EXCEPT ![p] = Ended(FALSE)]
  BY <1>1, <1>4, SameEnd
<1>5. CASE proc' = [proc EXCEPT ![p] = s]
  <2>1. l.date = 0 /\ l.job = "wake"
    BY <1>1 DEF Fits, JobOK, WakePCs
  <2>2. s.pc = "sync" /\ s.date = 0
    BY <1>1, <2>1 DEF Locals
  <2> HIDE DEF s
  <2>3. PromiseOK(s, runs)
    BY <2>2, RestPromise DEF Reconciling, MissedPCs
  <2> QED BY <1>1, <1>5, <2>3, SamePromise
<1> QED BY <1>2, <1>3, <1>4, <1>5

(* _sync.                                                                  *)
LEMMA SyncPromise ==
  ASSUME SchedInv, PromiseInv, NEW p \in Procs, Sync(p)
  PROVE  Kept
<1> DEFINE l == proc[p]
           d == Current(p)
           s == [l EXCEPT !.pc = "decide"]
<1>1. /\ l \in Locals /\ PromiseOK(l, runs) /\ l.pc = "sync" /\ UNCHANGED runs
      /\ proc \in [Procs -> Locals]
  BY PromiseFacts DEF Sync, At
<1>2. s.pc = "decide" /\ s.todo = l.todo /\ KeepsPlan(l, s)
  <2>1. "decide" \in PCs
    BY DEF PCs
  <2> QED BY <1>1, <2>1, GotoFields
<1>3. \/ proc' = [proc EXCEPT ![p] = s]
      \/ \E state, run : Event(p, d, state, "observe", run, s)
  BY DEF Sync, Goto
<1> HIDE DEF s, d
<1>4. PromiseOK(s, runs)
  BY <1>1, <1>2, PlanPromise DEF Reconciling, ItemPCs, MissedPCs
<1> QED BY <1>1, <1>3, <1>4, SamePromise, EventPromise

(* A run that the evidence or a decision offers to resume can be resumed.  *)
LEMMA ResumableEvidence ==
  ASSUME runs \in Seq(RunType), \A r \in DOMAIN runs : RunOK(runs[r]), NEW d,
         Evidence(d).resumable
  PROVE  runs[Evidence(d).run].state \in RESUMABLE
<1> DEFINE rs == RunsFor(d)
           succeeded == {r \in rs : runs[r].state = "succeeded"}
           missed == {r \in rs : runs[r].missed}
           Follow(r, fresh) ==
             [state |-> runs[r].state, run |-> r,
              resumable |-> runs[r].state \in RESUMABLE /\ ~fresh]
<1> PICK ev : ev = Evidence(d)
  OBVIOUS
<1>1. \/ \E r, fresh : ev = Follow(r, fresh)
      \/ ev = [state |-> "missed", run |-> Max(missed), resumable |-> FALSE]
      \/ ev = [state |-> "pending", run |-> 0, resumable |-> FALSE]
  BY DEF Evidence
<1>2. ASSUME NEW r, NEW fresh, ev = Follow(r, fresh)
      PROVE  ev.run = r /\ (ev.resumable => runs[r].state \in RESUMABLE)
  <2>1. ev.run = r
    BY <1>2
  <2>2. Follow(r, fresh).resumable = (runs[r].state \in RESUMABLE /\ ~fresh)
    OBVIOUS
  <2> HIDE DEF Follow
  <2>3. ev.resumable => runs[r].state \in RESUMABLE
    BY <1>2, <2>2
  <2> QED BY <2>1, <2>3
<1>3. ev.resumable => runs[ev.run].state \in RESUMABLE
  BY <1>1, <1>2
<1> QED BY <1>3

(* ... so too one that is decided on.                                      *)
LEMMA ResumeDecided ==
  ASSUME runs \in Seq(RunType), \A r \in DOMAIN runs : RunOK(runs[r]),
         NEW d, NEW now, NEW gate, NEW ignore,
         Decide(d, now, gate, ignore).kind = "capture",
         Decide(d, now, gate, ignore).action = "resume"
  PROVE  runs[Decide(d, now, gate, ignore).run].state \in RESUMABLE
<1> PICK dec : dec = Decide(d, now, gate, ignore)
  OBVIOUS
<1> PICK ev : ev = Evidence(d)
  OBVIOUS
<1> DEFINE Dec(kind, run) == [kind |-> kind, action |-> "none", run |-> run]
<1>1. \/ \E kind \in {"wait", "not_applicable", "reprocess", "finalize", "record_missed"} :
           \E run : dec = Dec(kind, run)
      \/ dec = [kind |-> "capture",
                action |-> IF ev.resumable THEN "resume" ELSE "start",
                run |-> IF ev.resumable THEN ev.run ELSE 0]
  BY DEF Decide
<1>2. dec.kind = "capture" /\ dec.action = "resume"
  OBVIOUS
<1>3. ASSUME NEW kind \in {"wait", "not_applicable", "reprocess", "finalize",
                           "record_missed"}, NEW run, dec = Dec(kind, run)
      PROVE  FALSE
  <2>1. dec.kind = kind
    BY <1>3
  <2> QED BY <1>2, <2>1
<1>4. ev.resumable /\ dec.run = ev.run
  BY <1>1, <1>2, <1>3
<1> QED BY <1>4, ResumableEvidence

(* wait, not_applicable, finalize, capture.                                *)
LEMMA ApplyPromise ==
  ASSUME SchedInv, PromiseInv, NEW p \in Procs, Apply(p)
  PROVE  Kept
<1> DEFINE l == proc[p]
           d == Current(p)
           s == Advance(l)
           c == Candidate(l, d, DecisionOf(p))
           candidate == /\ DecisionOf(p).kind = "capture" /\ ~l.again /\ l.date = 0
                        /\ l.only \in {0, d}
<1>1. /\ l \in Locals /\ l.pc = "decide" /\ l.job = "wake" /\ d = Min(l.todo)
      /\ d \in Dates /\ PromiseOK(l, runs) /\ UNCHANGED runs
      /\ DecisionOK(d, DecisionOf(p))
      /\ Len(runs) \in Nat /\ Len(runs) <= MaxRuns
  BY DecideState, PromiseFacts, HolderFacts DEF Apply
<1>2. s.pc = "sync" /\ s.todo = l.todo \ {Min(l.todo)} /\ KeepsPlan(l, s)
  BY <1>1, AdvanceFields
<1>3. PromiseOK(s, runs)
  <2> HIDE DEF s
  <2> QED BY <1>1, <1>2, PlanPromise DEF Reconciling, ItemPCs, MissedPCs
<1>4. CASE DecisionOf(p).kind \in {"not_applicable", "finalize"}
  <2>1. \E state, run : Event(p, d, state, "finalize", run, s)
    BY <1>4 DEF Apply
  <2> HIDE DEF s, d
  <2> QED BY <1>1, <1>3, <2>1, EventPromise
<1>5. CASE DecisionOf(p).kind \in {"wait", "capture"}
  <2>0. proc' = [proc EXCEPT ![p] = IF candidate THEN c ELSE s]
    BY <1>5 DEF Apply, Candidate
  <2>1. CASE ~candidate
    <3>1. proc' = [proc EXCEPT ![p] = s]
      BY <2>0, <2>1
    <3> HIDE DEF s, d
    <3> QED BY <1>1, <1>3, <3>1, SamePromise
  <2>2. CASE candidate
    <3>1. proc' = [proc EXCEPT ![p] = c]
      BY <2>0, <2>2
    <3>2. DecisionOf(p).action \in CAPTURE_ACTIONS /\ DecisionOf(p).run \in 0..MaxRuns
      BY <1>1, <2>2, Bounds DEF DecisionOK, CAPTURE_ACTIONS
    <3>3. /\ c.pc = "sync" /\ c.date = d /\ c.run = DecisionOf(p).run
          /\ c.action = DecisionOf(p).action /\ c.todo = l.todo \ {Min(l.todo)}
      BY <1>1, <3>2, CandidateFields
    <3>4. DecisionOf(p).action = "resume" =>
            runs[DecisionOf(p).run].state \in RESUMABLE
      BY <2>2, HolderFacts, ResumeDecided DEF DecisionOf
    <3> HIDE DEF c, d
    <3>5. PromiseOK(c, runs)
      BY <1>1, <3>3, <3>4 DEF PromiseOK, Planned
    <3> QED BY <1>1, <3>1, <3>5, SamePromise
  <2> QED BY <2>1, <2>2
<1> QED BY <1>4, <1>5 DEF Apply

(* The item event of a missed record.                                      *)
LEMMA MissedItemPromise ==
  ASSUME SchedInv, PromiseInv, NEW p \in Procs, MissedItem(p)
  PROVE  Kept
<1> DEFINE l == proc[p]
           d == Current(p)
           s == Advance(l)
<1>1. /\ l \in Locals /\ PromiseOK(l, runs) /\ l.pc = "missed_item" /\ UNCHANGED runs
      /\ Event(p, d, "missed", "record_missed", l.sub, s)
  BY PromiseFacts DEF MissedItem, At
<1>2. s.pc = "sync" /\ s.todo = l.todo \ {Min(l.todo)} /\ KeepsPlan(l, s)
  BY <1>1, AdvanceFields
<1> HIDE DEF s, d
<1>3. PromiseOK(s, runs)
  BY <1>1, <1>2, PlanPromise DEF Reconciling, ItemPCs, MissedPCs
<1> QED BY <1>1, <1>3, EventPromise

(* A date to reprocess is taken up.                                        *)
LEMMA ReprocessDecidedPromise ==
  ASSUME SchedInv, PromiseInv, NEW p \in Procs, ReprocessDecided(p)
  PROVE  Kept
<1> DEFINE l == proc[p]
<1> PICK r : r = DecisionOf(p).run
  OBVIOUS
<1> DEFINE s == WithRun(l, "reprocess", r)
<1>1. /\ l \in Locals /\ l.pc = "decide" /\ PromiseOK(l, runs) /\ UNCHANGED runs
      /\ proc \in [Procs -> Locals] /\ DecisionOK(Current(p), DecisionOf(p))
      /\ DOMAIN runs = 1..Len(runs) /\ Len(runs) \in Nat /\ Len(runs) <= MaxRuns
  BY DecideState, PromiseFacts, HolderFacts DEF ReprocessDecided
<1>2. r \in 0..MaxRuns
  BY <1>1, Bounds DEF DecisionOK
<1>3. proc' = [proc EXCEPT ![p] = s]
  BY <1>1 DEF ReprocessDecided, Locals, WithRun
<1>4. s.pc = "reprocess" /\ s.todo = l.todo /\ KeepsPlan(l, s)
  <2>1. "reprocess" \in PCs
    BY DEF PCs
  <2> QED BY <1>1, <1>2, <2>1, WithRunFields
<1> HIDE DEF s
<1>5. PromiseOK(s, runs)
  BY <1>1, <1>4, PlanPromise DEF Reconciling, ItemPCs, MissedPCs, ReprocessPCs
<1> QED BY <1>1, <1>3, <1>5, SamePromise

(* The loop over the items is over.                                        *)
LEMMA ReconciledPromise ==
  ASSUME SchedInv, PromiseInv, NEW p \in Procs, Reconciled(p)
  PROVE  Kept
<1> DEFINE l == proc[p]
           s == [l EXCEPT !.pc = "capture"]
<1>1. /\ l \in Locals /\ PromiseOK(l, runs) /\ l.pc = "sync" /\ UNCHANGED runs
      /\ proc' = [proc EXCEPT ![p] = Ended(TRUE)] \/ proc' = [proc EXCEPT ![p] = s]
  BY PromiseFacts DEF Reconciled, At
<1>2. s.pc = "capture" /\ s.todo = l.todo /\ KeepsPlan(l, s)
  <2>1. "capture" \in PCs
    BY DEF PCs
  <2> QED BY <1>1, <2>1, GotoFields
<1> HIDE DEF s
<1>3. PromiseOK(s, runs)
  BY <1>1, <1>2, PlanPromise DEF Reconciling
<1> QED BY <1>1, <1>3, SamePromise, SameEnd

(* The item event after a reprocess.                                       *)
LEMMA ReprocessedPromise ==
  ASSUME SchedInv, PromiseInv, NEW p \in Procs, Reprocessed(p)
  PROVE  Kept
<1> DEFINE l == proc[p]
           a == Advance(l)
           s == [a EXCEPT !.pc = "open"]
           e == Ended(FALSE)
<1>1. /\ l \in Locals /\ PromiseOK(l, runs) /\ l.pc = "reprocessed" /\ UNCHANGED runs
  BY PromiseFacts DEF Reprocessed, At
<1>2. a \in Locals /\ a.todo = l.todo \ {Min(l.todo)} /\ KeepsPlan(l, a)
  BY <1>1, AdvanceFields
<1>3. \/ \E d, state, action, run : \/ Event(p, d, state, action, run, s)
                                    \/ Event(p, d, state, action, run, e)
      \/ proc' = [proc EXCEPT ![p] = e]
  BY DEF Reprocessed, Stop
<1> HIDE DEF a
<1>4. s.pc = "open" /\ s.todo = a.todo /\ KeepsPlan(a, s)
  <2>1. "open" \in PCs
    BY DEF PCs
  <2> QED BY <1>2, <2>1, GotoFields
<1>5. e.pc = "finish"
  BY EndedFields
<1> HIDE DEF s, e
<1>6. PromiseOK(s, runs)
  <2>1. KeepsPlan(l, s) /\ \A d : d \in s.todo => d \in l.todo
    BY <1>2, <1>4 DEF KeepsPlan
  <2> QED BY <1>1, <1>4, <2>1, PlanPromise
          DEF Reconciling, ItemPCs, MissedPCs, ReprocessPCs
<1>7. PromiseOK(e, runs)
  BY <1>5, RestPromise
<1> QED BY <1>1, <1>3, <1>6, <1>7, SamePromise, EventPromise

(* _calendar.                                                              *)
LEMMA OpenPromise ==
  ASSUME SchedInv, PromiseInv, NEW p \in Procs, Open(p)
  PROVE  Kept
<1> DEFINE l == proc[p]
           s == [l EXCEPT !.pc = "sync"]
<1>1. /\ l \in Locals /\ PromiseOK(l, runs) /\ l.pc = "open" /\ UNCHANGED runs
      /\ proc' = [proc EXCEPT ![p] = s]
  BY PromiseFacts DEF Open, At, Goto
<1>2. s.pc = "sync" /\ s.todo = l.todo /\ KeepsPlan(l, s)
  <2>1. "sync" \in PCs
    BY DEF PCs
  <2> QED BY <1>1, <2>1, GotoFields
<1> HIDE DEF s
<1>3. PromiseOK(s, runs)
  BY <1>1, <1>2, PlanPromise DEF Reconciling, ItemPCs, MissedPCs
<1> QED BY <1>1, <1>3, SamePromise

(* Nothing to capture, a capture refused before or after its item says     *)
(* that it runs, and the outcome of one.                                   *)
LEMMA NoCapturePromise ==
  ASSUME SchedInv, PromiseInv, NEW p \in Procs,
         NoCapture(p) \/ RefuseCapture(p) \/ P2Refuses(p)
  PROVE  Kept
<1> PICK done : done = (proc[p].job = "wake")
  OBVIOUS
<1> DEFINE next == Ended(done)
<1>1. UNCHANGED runs /\ done \in BOOLEAN
  BY DEF NoCapture, RefuseCapture, P2Refuses
<1>2. CASE NoCapture(p) \/ RefuseCapture(p)
  <2>1. proc' = [proc EXCEPT ![p] = Ended(TRUE)]
    BY <1>2 DEF NoCapture, RefuseCapture
  <2> QED BY <1>1, <2>1, SameEnd
<1>3. CASE P2Refuses(p)
  <2>1. \/ proc' = [proc EXCEPT ![p] = next]
        \/ \E d, state, run : Event(p, d, state, "refused", run, next)
    BY <1>3 DEF P2Refuses
  <2>2. next.pc = "finish"
    BY <1>1, EndedFields
  <2> HIDE DEF next
  <2>3. PromiseOK(next, runs)
    BY <2>2, RestPromise
  <2> QED BY <1>1, <2>1, <2>3, SamePromise, EventPromise
<1> QED BY <1>2, <1>3

(* The 'running' event of the item: no block awaits the owner.             *)
LEMMA StartCapturePromise ==
  ASSUME SchedInv, PromiseInv, NEW p \in Procs, StartCapture(p)
  PROVE  Kept
<1> DEFINE l == proc[p]
           s == [l EXCEPT !.pc = "p2"]
<1>1. /\ l \in Locals /\ Fits(l, runs) /\ PromiseOK(l, runs) /\ l.pc = "capture"
      /\ ~l.gate /\ UNCHANGED runs
      /\ Event(p, l.date, "running", l.action, l.run, s)
  BY PromiseFacts DEF StartCapture, At, Gated
<1>2. s.pc = "p2" /\ s.todo = l.todo /\ KeepsPlan(l, s)
  <2>1. "p2" \in PCs
    BY DEF PCs
  <2> QED BY <1>1, <2>1, GotoFields
<1>3. l.job = "wake" /\ ~l.again /\ l.date # 0
  BY <1>1 DEF Fits, JobOK, WakePCs, Capturing
<1>4. \A r \in DOMAIN runs : runs[r].state = "blocked" => runs[r].acked
  BY <1>1, <1>3 DEF Fits, GateOK
<1> HIDE DEF s
<1>5. PromiseOK(s, runs)
  <2>1. Planned(s) => Planned(l)
    BY <1>1, <1>2, <1>3 DEF Planned, KeepsPlan
  <2> QED BY <1>1, <1>2, <1>4, <2>1 DEF PromiseOK, KeepsPlan
<1> QED BY <1>1, <1>5, EventPromise

(* The outcome event; its item is reconciled once more.                    *)
LEMMA OutcomePromise ==
  ASSUME SchedInv, PromiseInv, NEW p \in Procs, Outcome(p)
  PROVE  Kept
<1> DEFINE l == proc[p]
<1> PICK gate : gate = (UnacknowledgedBlocks # {})
  OBVIOUS
<1> DEFINE s == AfterCapture(l, gate)
<1>1. /\ l \in Locals /\ Fits(l, runs) /\ l.pc = "outcome" /\ UNCHANGED runs
      /\ Event(p, l.date, runs[l.sub].state, l.action, l.sub, s)
  BY PromiseFacts DEF Outcome, At, AfterCapture
<1>2. l.date \in Dates /\ gate \in BOOLEAN
  BY <1>1, CaptureDate DEF Capturing
<1>3. s.pc = "open" /\ s.again
  BY <1>1, <1>2, AfterCaptureFields
<1> HIDE DEF s
<1>4. PromiseOK(s, runs)
  BY <1>3, RestPromise DEF Reconciling, MissedPCs
<1> QED BY <1>1, <1>4, EventPromise

-----------------------------------------------------------------------------
(* The steps that give up runs or create one                               *)

(* Giving up a run takes nothing from those that have their session.       *)
LEMMA GivenUpShown ==
  ASSUME NEW rs, NEW new, GivenUp(rs, new), DOMAIN new = DOMAIN rs, ShownOK(rs)
  PROVE  ShownOK(new)
BY DEF GivenUp, ShownOK

(* While no run is running there is none to give up.                       *)
LEMMA NoneGivenUp ==
  ASSUME NEW rs, \A r \in DOMAIN rs : rs[r].state # "running"
  PROVE  GivenUp(rs, rs)
BY DEF GivenUp

(* p2.recover, and an operator's reprocess under the lock.                 *)
LEMMA RecoverPromise ==
  ASSUME SchedInv, PromiseInv, NEW p \in Procs, Recover(p) \/ OperatorLock(p)
  PROVE  Kept
<1> DEFINE l == proc[p]
           e == Ended(FALSE)
           s == [l EXCEPT !.pc = "discover", !.armed = FALSE]
           o == [l EXCEPT !.pc = "reprocess"]
<1>1. /\ l \in Locals /\ runs' = Abandoned(runs) /\ (Past(p) \/ LockFree)
      /\ proc \in [Procs -> Locals]
  BY PromiseFacts DEF Recover, OperatorLock, At, Past
<1>2. ShownOK(runs')
  <2>1. GivenUp(runs, runs') /\ DOMAIN runs' = DOMAIN runs
    BY <1>1, AbandonedGivesUp
  <2> QED BY <2>1, GivenUpShown, PromiseFacts
<1>3. e.pc = "finish" /\ s.pc = "discover"
  <2>1. e.pc = "finish"
    BY EndedFields
  <2>2. s.pc = "discover"
    BY <1>1 DEF Locals
  <2> QED BY <2>1, <2>2
<1>4. OperatorLock(p) => o.pc = "reprocess" /\ o.job = "reprocess"
  BY <1>1 DEF OperatorLock, Locals
<1>5. \/ proc' = [proc EXCEPT ![p] = e] \/ proc' = [proc EXCEPT ![p] = s]
      \/ OperatorLock(p) /\ proc' = [proc EXCEPT ![p] = o]
  BY <1>1 DEF Recover, OperatorLock, Stop, Goto, Locals
<1> HIDE DEF e, s, o
<1>6. PromiseOK(e, runs') /\ PromiseOK(s, runs')
  BY <1>3, RestPromise
<1>7. OperatorLock(p) => PromiseOK(o, runs')
  BY <1>4, RestPromise DEF ReprocessPCs
<1>8. PromiseInv'
  BY <1>1, <1>2, <1>5, <1>6, <1>7, HolderPromise
<1>9. Ledger!Abandon \/ UNCHANGED LedgerTold
  BY <1>1, AbandonTold
<1> QED BY <1>8, <1>9 DEF Kept, Ledger!Next

(* cse-capture start or resume.                                            *)
LEMMA ManualCapturePromise ==
  ASSUME SchedInv, PromiseInv, NEW p \in Procs, NEW a \in CAPTURE_ACTIONS,
         NEW d \in Dates, NEW r \in 0..MaxRuns, ManualCapture(p, a, d, r)
  PROVE  Kept
<1> DEFINE s == Command("p2", d, a, r)
<1>1. /\ runs' = Abandoned(runs) /\ LockFree /\ UnacknowledgedBlocks = {}
      /\ proc' = [proc EXCEPT ![p] = s]
      /\ a = "resume" => runs'[r].state \in RESUMABLE
  BY DEF ManualCapture
<1>2. GivenUp(runs, runs') /\ DOMAIN runs' = DOMAIN runs
  BY <1>1, AbandonedGivesUp
<1>3. ShownOK(runs')
  BY <1>2, GivenUpShown, PromiseFacts
<1>4. /\ s.pc = "p2" /\ s.date = d /\ s.action = a /\ s.run = r /\ s.todo = {}
  BY DEF Command, IdleProcess
<1> HIDE DEF s
<1>5. \A q \in DOMAIN runs' : runs'[q].state = "blocked" => runs'[q].acked
  BY <1>1, <1>2 DEF GivenUp, UnacknowledgedBlocks
<1>6. PromiseOK(s, runs')
  BY <1>1, <1>4, <1>5 DEF PromiseOK, Planned
<1>7. PromiseInv'
  BY <1>1, <1>3, <1>6, HolderPromise
<1> QED BY <1>1, <1>7, AbandonTold DEF Kept, Ledger!Next

(* What a new run leaves of the others.                                    *)
LEMMA CreatePromise ==
  ASSUME SchedInv, PromiseInv, NEW rs \in Seq(RunType), GivenUp(runs, rs),
         DOMAIN rs = DOMAIN runs,
         NEW d \in Dates, NEW missed \in BOOLEAN, NEW manual \in BOOLEAN,
         NEW cap \in 0..RunCap, Len(rs) < MaxRuns,
         runs' = Append(rs, NewRun(d, missed, manual, cap)),
         IF missed THEN Unclaimed(runs, d) ELSE UnacknowledgedBlocks = {}
  PROVE  /\ ShownOK(runs') /\ Ledger!Next
         /\ DOMAIN runs' = DOMAIN runs \cup {Len(rs) + 1}
         /\ \A r \in DOMAIN runs : runs'[r] = rs[r]
         /\ runs'[Len(rs) + 1].state = "pending" /\ runs'[Len(rs) + 1].date = d
         /\ missed => Unclaimed(runs', d)
         /\ ~missed => \A r \in DOMAIN runs' : runs'[r].state = "blocked" => runs'[r].acked
<1> DEFINE n == NewRun(d, missed, manual, cap)
<1> PICK new : new = Len(rs) + 1
  OBVIOUS
<1>1. /\ n \in RunType /\ n.date = d /\ n.missed = missed /\ n.state = "pending"
  BY NewRunType
<1> HIDE DEF n
<1>2. runs' = Append(rs, n)
  BY DEF n
<1>3. /\ DOMAIN runs' = DOMAIN runs \cup {new} /\ new \notin DOMAIN runs
      /\ runs'[new] = n /\ \A r \in DOMAIN runs : runs'[r] = rs[r]
  BY <1>1, <1>2, AppendFacts
<1>4. Ledger!Next
  <2>1. Ledger!Create(Len(rs) + 1)
    BY CreateTold
  <2>2. Len(rs) + 1 \in 1..MaxRuns
    BY Bounds
  <2> QED BY <2>1, <2>2 DEF Ledger!Next
<1>5. ShownOK(rs)
  BY GivenUpShown, PromiseFacts DEF PromiseInv
<1>6. ShownOK(runs')
  BY <1>1, <1>3, <1>5 DEF ShownOK
<1>7. missed => Unclaimed(runs', d)
  <2> HAVE missed
  <2>1. \A r \in DOMAIN runs : runs'[r].date = d /\ ~runs'[r].missed =>
           runs'[r].state \notin {"succeeded", "partial"}
    <3> SUFFICES ASSUME NEW r \in DOMAIN runs, runs'[r].date = d, ~runs'[r].missed
                 PROVE  runs'[r].state \notin {"succeeded", "partial"}
      OBVIOUS
    <3>1. runs'[r] = rs[r]
      BY <1>3
    <3>2. /\ rs[r].date = runs[r].date /\ rs[r].missed = runs[r].missed
          /\ rs[r].state = IF runs[r].state = "running" THEN "abandoned" ELSE runs[r].state
      BY DEF GivenUp
    <3>3. runs[r].state \notin {"succeeded", "partial"}
      BY <3>1, <3>2 DEF Unclaimed
    <3> QED BY <3>1, <3>2, <3>3
  <2>2. runs'[new].missed
    BY <1>1, <1>3
  <2> QED BY <1>3, <2>1, <2>2 DEF Unclaimed
<1>8. ~missed => \A r \in DOMAIN runs' : runs'[r].state = "blocked" => runs'[r].acked
  BY <1>1, <1>3 DEF UnacknowledgedBlocks, GivenUp
<1>9. runs'[new].state = "pending" /\ runs'[new].date = d
  BY <1>1, <1>3
<1> HIDE DEF n
<1> QED BY <1>3, <1>4, <1>6, <1>7, <1>8, <1>9

(* cse-capture record-missed.                                              *)
LEMMA ManualMissedPromise ==
  ASSUME SchedInv, PromiseInv, NEW p \in Procs, NEW d \in Dates, ManualMissed(p, d)
  PROVE  Kept
<1> PICK rs : rs = Abandoned(runs)
  OBVIOUS
<1> PICK new : new = Len(runs) + 1
  OBVIOUS
<1> DEFINE s == Command("missed_event", d, "none", new)
<1>1. /\ LockFree /\ proc' = [proc EXCEPT ![p] = s] /\ Len(runs) < MaxRuns
      /\ runs' = Append(rs, NewRun(d, TRUE, TRUE, 0))
      /\ \A r \in RunsFor(d) : rs[r].state \notin {"succeeded", "partial"}
  BY DEF ManualMissed
<1>2. /\ rs \in Seq(RunType) /\ Len(rs) = Len(runs) /\ DOMAIN rs = DOMAIN runs
      /\ GivenUp(runs, rs)
  BY HolderFacts, AbandonedFacts, AbandonedGivesUp
<1>3. Unclaimed(runs, d)
  BY <1>1, <1>2 DEF Unclaimed, RunsFor, GivenUp
<1>4. /\ ShownOK(runs') /\ Ledger!Next
      /\ runs'[new].state = "pending" /\ runs'[new].date = d /\ Unclaimed(runs', d)
  <2>1. 0 \in 0..RunCap /\ Len(rs) < MaxRuns /\ new = Len(rs) + 1
    BY <1>1, <1>2, Bounds
  <2>2. runs' = Append(rs, NewRun(d, TRUE, TRUE, 0))
    BY <1>1
  <2>3. /\ ShownOK(runs') /\ Ledger!Next
        /\ runs'[Len(rs) + 1].state = "pending" /\ runs'[Len(rs) + 1].date = d
        /\ Unclaimed(runs', d)
    BY <1>2, <1>3, <2>1, <2>2, CreatePromise, ZenonT(30)
  <2> QED BY <2>1, <2>3
<1>5. s.pc = "missed_event" /\ s.sub = new /\ s.action = "none"
  BY DEF Command, IdleProcess
<1> HIDE DEF s
<1>6. PromiseOK(s, runs')
  BY <1>4, <1>5 DEF PromiseOK, Planned
<1>7. PromiseInv'
  BY <1>1, <1>4, <1>6, HolderPromise
<1> QED BY <1>4, <1>7 DEF Kept

(* _record_missed creates the run: a date that no run captured is claimed  *)
(* by none.                                                                *)
LEMMA MissedRunPromise ==
  ASSUME SchedInv, PromiseInv, NEW p \in Procs, MissedRun(p)
  PROVE  Kept
<1> DEFINE l == proc[p]
           d == Current(p)
<1> PICK new : new = Len(runs) + 1
  OBVIOUS
<1> DEFINE s == WithRun(l, "missed_event", new)
<1>1. /\ l \in Locals /\ Fits(l, runs) /\ PromiseOK(l, runs) /\ l.pc = "decide"
      /\ Past(p) /\ d \in Dates /\ Captured(d) = {}
      /\ \A r \in DOMAIN runs : runs[r].state # "running"
      /\ proc \in [Procs -> Locals] /\ runs \in Seq(RunType) /\ ShownOK(runs)
  BY DecideState, PromiseFacts DEF MissedRun, DecisionOK
<1>2. Len(runs) < MaxRuns /\ runs' = Append(runs, NewRun(d, TRUE, FALSE, 0))
  BY DEF MissedRun
<1>3. Unclaimed(runs, d)
  BY <1>1 DEF Unclaimed, ShownOK, Captured, RunsFor
<1> HIDE DEF d
<1>4. /\ ShownOK(runs') /\ Ledger!Next
      /\ runs'[new].state = "pending" /\ runs'[new].date = d /\ Unclaimed(runs', d)
      /\ \A r \in DOMAIN runs : runs'[r] = runs[r]
  <2>1. 0 \in 0..RunCap /\ GivenUp(runs, runs)
    BY <1>1, Bounds, NoneGivenUp
  <2> QED BY <1>1, <1>2, <1>3, <2>1, CreatePromise
<1>5. proc' = [proc EXCEPT ![p] = s]
  BY <1>1 DEF MissedRun, Locals, WithRun
<1>6. s.pc = "missed_event" /\ s.sub = new /\ s.todo = l.todo /\ KeepsPlan(l, s)
  <2>1. "missed_event" \in PCs /\ new \in 0..MaxRuns
    BY <1>1, <1>2, Bounds DEF PCs
  <2> QED BY <1>1, <2>1, WithRunFields
<1> HIDE DEF s
<1>7. Planned(s) => Planned(l) /\ runs'[l.run] = runs[l.run]
  <2>1. ASSUME Planned(s)
        PROVE  Planned(l) /\ l.run \in DOMAIN runs
    <3>1. Planned(l)
      BY <1>1, <1>6, <2>1 DEF Planned, KeepsPlan, Reconciling, ItemPCs
    <3> QED BY <1>1, <3>1 DEF Planned, Fits, CandidateOK
  <2> QED BY <1>4, <2>1
<1>8. PromiseOK(s, runs')
  BY <1>1, <1>4, <1>6, <1>7 DEF PromiseOK, KeepsPlan
<1>9. PromiseInv'
  BY <1>1, <1>4, <1>5, <1>8, HolderPromise
<1> QED BY <1>4, <1>9 DEF Kept

(* The run row.                                                            *)
LEMMA P2CreatePromise ==
  ASSUME SchedInv, PromiseInv, NEW p \in Procs, P2Create(p)
  PROVE  Kept
<1> DEFINE l == proc[p]
<1> PICK manual \in BOOLEAN : manual = (l.job # "wake")
  OBVIOUS
<1> PICK cap : cap = IF manual THEN RunCap ELSE Min({RunCap, Remaining(p)})
  OBVIOUS
<1> PICK new : new = Len(runs) + 1
  OBVIOUS
<1> DEFINE s == WithRun(l, "begun", new)
<1>1. /\ l \in Locals /\ Fits(l, runs) /\ PromiseOK(l, runs) /\ l.pc = "p2"
      /\ Past(p) /\ proc \in [Procs -> Locals] /\ runs \in Seq(RunType)
  BY PromiseFacts DEF P2Create, At, Past
<1>2. /\ Len(runs) < MaxRuns
      /\ runs' = Append(runs, NewRun(l.date, FALSE, manual, cap))
  BY DEF P2Create
<1>3. cap \in 0..RunCap /\ l.date \in Dates
  <2>1. Remaining(p) \in Nat /\ RunCap \in Nat
    BY RemainingType, Bounds
  <2>2. Min({RunCap, Remaining(p)}) \in 0..RunCap
    BY <2>1, MinOfTwo
  <2> QED BY <1>1, <2>1, <2>2, CaptureDate DEF Capturing
<1>4. UnacknowledgedBlocks = {}
  BY <1>1 DEF PromiseOK, UnacknowledgedBlocks
<1>5. /\ ShownOK(runs') /\ Ledger!Next /\ runs'[new].state = "pending"
      /\ \A r \in DOMAIN runs' : runs'[r].state = "blocked" => runs'[r].acked
  <2>1. \A r \in DOMAIN runs : runs[r].state # "running"
    BY <1>1 DEF Fits, NoneRunning, Working
  <2>2. GivenUp(runs, runs)
    BY <2>1, NoneGivenUp
  <2> QED BY <1>1, <1>2, <1>3, <1>4, <2>2, CreatePromise
<1>6. proc' = [proc EXCEPT ![p] = s]
  BY <1>1 DEF P2Create, Locals, WithRun
<1>7. s.pc = "begun" /\ s.sub = new
  <2>1. "begun" \in PCs /\ new \in 0..MaxRuns
    BY <1>1, <1>2, Bounds DEF PCs
  <2> QED BY <1>1, <2>1, WithRunFields
<1> HIDE DEF s
<1>8. PromiseOK(s, runs')
  BY <1>5, <1>7 DEF PromiseOK, Planned, Reconciling, ItemPCs, MissedPCs, ReprocessPCs
<1>9. PromiseInv'
  BY <1>1, <1>5, <1>6, <1>8, HolderPromise
<1> QED BY <1>5, <1>9 DEF Kept

-----------------------------------------------------------------------------
(* The steps that write to one run                                         *)

(* One run changes its state, and may come to say that it has its session. *)
LEMMA UpdateShown ==
  ASSUME NEW rs, NEW new, NEW r \in DOMAIN rs, ShownOK(rs), DOMAIN new = DOMAIN rs,
         \A q \in DOMAIN rs : q # r => new[q] = rs[q],
         new[r].state \in {"succeeded", "partial"} => new[r].snap = "own"
  PROVE  ShownOK(new)
BY DEF ShownOK

(* The 'missed' event of the run.                                          *)
LEMMA MissedEventPromise ==
  ASSUME SchedInv, PromiseInv, NEW p \in Procs, MissedEvent(p)
  PROVE  Kept
<1> DEFINE l == proc[p]
           n == [runs[l.sub] EXCEPT !.state = "missed"]
           s == [l EXCEPT !.pc = "missed_item"]
<1>1. /\ l \in Locals /\ Fits(l, runs) /\ PromiseOK(l, runs) /\ l.pc = "missed_event"
      /\ Past(p) /\ proc \in [Procs -> Locals] /\ runs \in Seq(RunType) /\ ShownOK(runs)
      /\ \A r \in DOMAIN runs : runs[r] \in RunType
  BY PromiseFacts DEF MissedEvent, At, Past
<1>2. l.sub \in DOMAIN runs /\ runs[l.sub].missed
  BY <1>1 DEF Fits, SubOK, SubPCs, MissedPCs
<1>3. runs[l.sub].state = "pending" /\ Unclaimed(runs, runs[l.sub].date)
  BY <1>1 DEF PromiseOK
<1>4. \A r \in DOMAIN runs : runs[r].state # "running"
  BY <1>1 DEF Fits, NoneRunning, Working
<1>5. /\ n \in RunType /\ n.state = "missed" /\ n.date = runs[l.sub].date
      /\ n.snap = runs[l.sub].snap /\ n.missed = runs[l.sub].missed
      /\ n.acked = runs[l.sub].acked
  <2>1. runs[l.sub] \in RunType /\ "missed" \in RunStates
    BY <1>1, <1>2 DEF RunStates
  <2> QED BY <2>1, StateUpdate
<1>6. runs' = [runs EXCEPT ![l.sub] = n]
  BY DEF MissedEvent
<1> HIDE DEF n
<1>7. /\ DOMAIN runs' = DOMAIN runs /\ runs'[l.sub] = n
      /\ \A q \in DOMAIN runs : q # l.sub => runs'[q] = runs[q]
  BY <1>1, <1>2, <1>5, <1>6, RunUpdate
<1>8. Ledger!Miss(l.sub)
  <2>1. Ledger!Becomes(l.sub, "missed")
    BY <1>2, <1>5, <1>7, RowTold
  <2>2. /\ LedgerTold[l.sub].state = "pending" /\ LedgerTold[l.sub].kind = "missed_record"
        /\ LedgerTold[l.sub].date = runs[l.sub].date /\ l.sub \in 1..MaxRuns
    BY <1>2, <1>3, ToldFields
  <2>3. Ledger!Running = {} /\ ~Ledger!Taken(runs[l.sub].date)
    <3>1. runs[l.sub].date \in Dates
      BY <1>1, <1>2 DEF RunType
    <3> QED BY <1>3, <1>4, <3>1, LedgerReads
  <2> QED BY <2>1, <2>2, <2>3 DEF Ledger!Miss, LedgerTold
<1>9. Ledger!Next
  <2>1. l.sub \in 1..MaxRuns
    BY <1>2, ToldFields
  <2> QED BY <1>8, <2>1 DEF Ledger!Next
<1>10. ShownOK(runs')
  BY <1>1, <1>2, <1>5, <1>7, UpdateShown
<1>11. CASE l.job = "wake"
  <2>1. proc' = [proc EXCEPT ![p] = s]
    BY <1>11 DEF MissedEvent, Goto
  <2>2. s.pc = "missed_item" /\ s.todo = l.todo /\ KeepsPlan(l, s)
    <3>1. "missed_item" \in PCs
      BY DEF PCs
    <3> QED BY <1>1, <3>1, GotoFields
  <2> HIDE DEF s
  <2>3. Planned(l) => runs'[l.run].state = runs[l.run].state
    <3>1. Planned(l) => /\ l.run # l.sub /\ l.run \in DOMAIN runs
      BY <1>1, <1>3 DEF PromiseOK, Planned, RESUMABLE, Fits, CandidateOK
    <3> QED BY <1>7, <3>1
  <2>4. PromiseOK(s, runs')
    BY <1>1, <2>2, <2>3, PlanPromise DEF Reconciling, ItemPCs, MissedPCs
  <2>5. PromiseInv'
    BY <1>1, <1>10, <2>1, <2>4, HolderPromise
  <2> QED BY <1>9, <2>5 DEF Kept
<1>12. CASE l.job # "wake"
  <2>1. proc' = [proc EXCEPT ![p] = Ended(FALSE)]
    BY <1>12 DEF MissedEvent, Stop
  <2>2. PromiseInv'
    BY <1>1, <1>10, <2>1, EndPromise
  <2> QED BY <1>9, <2>2 DEF Kept
<1> QED BY <1>11, <1>12

(* The 'running' event of the run.                                         *)
LEMMA P2RunningPromise ==
  ASSUME SchedInv, PromiseInv, NEW p \in Procs, P2Running(p)
  PROVE  Kept
<1> DEFINE l == proc[p]
<1> PICK r : r = CaptureSub(l)
  OBVIOUS
<1> DEFINE n == [runs[r] EXCEPT !.state = "running"]
           s == WithRun(l, "fetch", r)
<1>1. /\ l \in Locals /\ Fits(l, runs) /\ PromiseOK(l, runs) /\ l.pc \in {"p2", "begun"}
      /\ l.pc = IF l.action = "start" THEN "begun" ELSE "p2"
      /\ Past(p) /\ proc \in [Procs -> Locals] /\ runs \in Seq(RunType) /\ ShownOK(runs)
      /\ \A q \in DOMAIN runs : runs[q] \in RunType
      /\ DOMAIN runs = 1..Len(runs) /\ Len(runs) \in Nat /\ Len(runs) <= MaxRuns
  BY PromiseFacts, HolderFacts DEF P2Running, Past
<1>2. l.action \in CAPTURE_ACTIONS
  BY <1>1, CaptureDate DEF Capturing
<1>3. runs' = [runs EXCEPT ![r] = n]
  BY DEF P2Running, CaptureSub
<1>4. proc' = [proc EXCEPT ![p] = s]
  BY <1>1 DEF P2Running, Locals, WithRun, CaptureSub
<1>5. /\ r \in DOMAIN runs /\ ~runs[r].missed
      /\ \A q \in DOMAIN runs : runs[q].state # "running"
  BY <1>1, <1>2, CaptureRun
<1>6. runs[r].state \in {"pending"} \cup RESUMABLE
  <2>1. CASE l.action = "start"
    BY <1>1, <2>1 DEF PromiseOK, CaptureSub
  <2>2. CASE l.action = "resume"
    BY <1>1, <2>2 DEF PromiseOK, CaptureSub, Planned
  <2> QED BY <1>2, <2>1, <2>2 DEF CAPTURE_ACTIONS
<1>7. /\ n \in RunType /\ n.state = "running" /\ n.date = runs[r].date
      /\ n.snap = runs[r].snap /\ n.missed = runs[r].missed /\ n.acked = runs[r].acked
  <2>1. runs[r] \in RunType /\ "running" \in RunStates
    BY <1>1, <1>5 DEF RunStates
  <2> QED BY <2>1, StateUpdate
<1> HIDE DEF n
<1>8. /\ DOMAIN runs' = DOMAIN runs /\ runs'[r] = n
      /\ \A q \in DOMAIN runs : q # r => runs'[q] = runs[q]
  BY <1>1, <1>3, <1>5, <1>7, RunUpdate
<1>9. Ledger!Next
  <2>1. Ledger!Becomes(r, "running")
    BY <1>5, <1>7, <1>8, RowTold
  <2>2. /\ LedgerTold[r].state = runs[r].state /\ r \in 1..MaxRuns
        /\ LedgerTold[r].kind = "market_capture"
    BY <1>5, ToldFields
  <2>3. Ledger!Running = {} /\ Ledger!Unreviewed = {}
    BY <1>1, <1>5, LedgerReads DEF PromiseOK, UnacknowledgedBlocks
  <2>4. Ledger!Capture(r)
    BY <1>6, <2>1, <2>2, <2>3 DEF Ledger!Capture, LedgerTold, RESUMABLE
  <2> QED BY <2>2, <2>4 DEF Ledger!Next
<1>10. ShownOK(runs')
  BY <1>1, <1>5, <1>7, <1>8, UpdateShown
<1>11. s.pc = "fetch"
  <2>1. "fetch" \in PCs /\ r \in 0..MaxRuns
    BY <1>1, <1>5, Bounds DEF PCs
  <2> QED BY <1>1, <2>1, WithRunFields
<1> HIDE DEF s
<1>12. PromiseOK(s, runs')
  BY <1>11, RestPromise
<1>13. PromiseInv'
  BY <1>1, <1>4, <1>10, <1>12, HolderPromise
<1> QED BY <1>9, <1>13 DEF Kept

(* The item under reprocessing is not the one planned for capture.         *)
LEMMA OtherRun ==
  ASSUME NEW l \in Locals, NEW rs, Fits(l, rs), PromiseOK(l, rs), Planned(l),
         l.pc \in ReprocessPCs
  PROVE  l.run # l.sub /\ l.run \in DOMAIN rs
<1>0. /\ l.job = "wake" /\ ~l.again /\ l.date # 0 /\ l.action = "resume"
      /\ l.pc \in Reconciling
  BY DEF Planned, ReprocessPCs, Reconciling, ItemPCs
<1>1. rs[l.sub].date = Min(l.todo) /\ Min(l.todo) \in l.todo
  BY <1>0, ReprocessDate
<1>2. l.run \in DOMAIN rs /\ rs[l.run].date = l.date
  BY <1>0 DEF Fits, CandidateOK
<1>3. l.date \notin l.todo
  BY DEF PromiseOK
<1> QED BY <1>1, <1>2, <1>3

(* What is known of the run that a process works on.                       *)
LEMMA WorkFacts ==
  ASSUME SchedInv, PromiseInv, NEW p \in Procs, proc[p].pc \in Working
  PROVE  /\ proc[p].sub \in DOMAIN runs /\ runs[proc[p].sub] \in RunType
         /\ runs[proc[p].sub].state = "running" /\ ~runs[proc[p].sub].missed
         /\ proc[p].sub \in 1..MaxRuns
         /\ LedgerTold[proc[p].sub].state = "running"
         /\ LedgerTold[proc[p].sub].kind = "market_capture"
         /\ LedgerTold[proc[p].sub].shown = Shows(proc[p].sub)
         /\ Ledger!Running = {proc[p].sub}
<1> PICK l \in Locals : l = proc[p]
  BY PromiseFacts
<1>1. l.sub \in DOMAIN runs /\ runs[l.sub].state = "running"
  BY PromiseFacts DEF Fits, SubOK, SubPCs
<1>2. runs[l.sub] \in RunType /\ ~runs[l.sub].missed
  BY <1>1, HolderFacts DEF RunOK
<1>3. \A r \in DOMAIN runs : runs[r].state = "running" => r = l.sub
  <2>1. l.pc \notin {"idle", "ready", "recover", "finish"}
    BY DEF Working
  <2> QED BY <2>1, PromiseFacts DEF Fits, NoneRunning
<1>4. Ledger!Running = {l.sub}
  BY <1>1, <1>3, LedgerReads
<1> QED BY <1>1, <1>2, <1>4, ToldFields

(* p2.reprocess: its run has archived its session, and no other runs.      *)
LEMMA ReprocessPromise ==
  ASSUME SchedInv, PromiseInv, NEW p \in Procs, Reprocess(p)
  PROVE  Kept
<1> DEFINE l == proc[p]
           r == runs[l.sub]
           refused == \/ r.state \in {"pending", "running", "missed"}
                      \/ r.snap # "own"
           events == r.state \in {"partial", "failed", "abandoned"}
           n == [r EXCEPT !.state = "running"]
           a == Advance(l)
           re == [l EXCEPT !.pc = "rederive"]
           done == [l EXCEPT !.pc = "reprocessed"]
<1>1. /\ l \in Locals /\ Fits(l, runs) /\ PromiseOK(l, runs) /\ l.pc = "reprocess"
      /\ Past(p) /\ proc \in [Procs -> Locals] /\ runs \in Seq(RunType) /\ ShownOK(runs)
      /\ \A q \in DOMAIN runs : RunOK(runs[q]) /\ runs[q] \in RunType
  BY PromiseFacts, HolderFacts DEF Reprocess, At, Past
<1>2. l.sub \in DOMAIN runs
  BY <1>1 DEF Fits, SubOK, SubPCs, ReprocessPCs
<1>3. l.pc \in Reconciling /\ l.pc \in ReprocessPCs
  BY <1>1 DEF Reconciling, ItemPCs, ReprocessPCs
<1>4. CASE refused
  <2>1. /\ UNCHANGED runs
        /\ proc' = [proc EXCEPT ![p] = a] \/ proc' = [proc EXCEPT ![p] = Ended(FALSE)]
    BY <1>4 DEF Reprocess
  <2>2. a.pc = "sync" /\ a.todo = l.todo \ {Min(l.todo)} /\ KeepsPlan(l, a)
    BY <1>1, AdvanceFields
  <2> HIDE DEF a
  <2>3. PromiseOK(a, runs)
    BY <1>1, <1>3, <2>2, PlanPromise DEF Reconciling
  <2> QED BY <2>1, <2>3, SamePromise, SameEnd
<1>5. CASE ~refused /\ ~events
  <2>1. UNCHANGED runs /\ proc' = [proc EXCEPT ![p] = done]
    BY <1>5 DEF Reprocess
  <2>2. done.pc = "reprocessed" /\ done.todo = l.todo /\ KeepsPlan(l, done)
    <3>1. "reprocessed" \in PCs
      BY DEF PCs
    <3> QED BY <1>1, <3>1, GotoFields
  <2> HIDE DEF done
  <2>3. PromiseOK(done, runs)
    BY <1>1, <1>3, <2>2, PlanPromise DEF Reconciling, ItemPCs, ReprocessPCs
  <2> QED BY <2>1, <2>3, SamePromise
<1>6. CASE ~refused /\ events
  <2>1. runs' = [runs EXCEPT ![l.sub] = n] /\ proc' = [proc EXCEPT ![p] = re]
    BY <1>6 DEF Reprocess
  <2>2. /\ n \in RunType /\ n.state = "running" /\ n.date = r.date
        /\ n.snap = r.snap /\ n.missed = r.missed /\ n.acked = r.acked
    <3>1. r \in RunType /\ "running" \in RunStates
      BY <1>1, <1>2 DEF RunStates
    <3> HIDE DEF r
    <3> QED BY <3>1, StateUpdate
  <2>3. r.snap = "own" /\ r.state \in {"partial", "failed", "abandoned"} /\ ~r.missed
    BY <1>1, <1>2, <1>6 DEF RunOK
  <2> HIDE DEF n
  <2>4. /\ DOMAIN runs' = DOMAIN runs /\ runs'[l.sub] = n
        /\ \A q \in DOMAIN runs : q # l.sub => runs'[q] = runs[q]
    BY <1>1, <1>2, <2>1, <2>2, RunUpdate
  <2>5. \A q \in DOMAIN runs : runs[q].state # "running"
    BY <1>1 DEF Fits, NoneRunning, Working
  <2>6. Ledger!Next
    <3>1. Ledger!Becomes(l.sub, "running")
      BY <1>2, <2>2, <2>4, RowTold
    <3>2. /\ LedgerTold[l.sub].state = r.state /\ l.sub \in 1..MaxRuns
          /\ LedgerTold[l.sub].kind = "market_capture"
          /\ LedgerTold[l.sub].shown = Shows(l.sub)
      BY <1>2, <2>3, ToldFields
    <3>3. Ledger!Running = {} /\ Shows(l.sub)
      BY <2>3, <2>5, LedgerReads DEF Shows
    <3>4. Ledger!Rederive(l.sub)
      BY <2>3, <3>1, <3>2, <3>3 DEF Ledger!Rederive, LedgerTold
    <3> QED BY <3>2, <3>4 DEF Ledger!Next
  <2>7. ShownOK(runs')
    BY <1>1, <1>2, <2>2, <2>4, UpdateShown
  <2>8. re.pc = "rederive" /\ re.todo = l.todo /\ KeepsPlan(l, re)
    <3>1. "rederive" \in PCs
      BY DEF PCs
    <3> QED BY <1>1, <3>1, GotoFields
  <2> HIDE DEF re, r
  <2>9. Planned(l) => runs'[l.run].state = runs[l.run].state
    BY <1>1, <1>3, <2>4, OtherRun
  <2>10. PromiseOK(re, runs')
    BY <1>1, <1>3, <2>8, <2>9, PlanPromise DEF Reconciling, ItemPCs, ReprocessPCs
  <2>11. PromiseInv'
    BY <1>1, <2>1, <2>7, <2>10, HolderPromise
  <2> QED BY <2>6, <2>11 DEF Kept
<1> QED BY <1>4, <1>5, <1>6

(* derive_run says nothing to the ledger.                                  *)
LEMMA DerivePromise ==
  ASSUME SchedInv, PromiseInv, NEW p \in Procs, Derive(p)
  PROVE  Kept
<1> DEFINE l == proc[p]
           r == runs[l.sub]
           next == IF l.pc = "derive" THEN "settle" ELSE "resettle"
           s == [l EXCEPT !.pc = next]
<1>1. /\ l \in Locals /\ Fits(l, runs) /\ PromiseOK(l, runs)
      /\ l.pc \in {"derive", "rederive"} /\ Past(p)
      /\ proc \in [Procs -> Locals] /\ runs \in Seq(RunType) /\ ShownOK(runs)
  BY PromiseFacts DEF Derive, Past
<1>2. l.sub \in DOMAIN runs /\ r.state = "running" /\ r \in RunType /\ ~r.missed
  BY <1>1, WorkFacts DEF Working
<1>3. PICK any \in BOOLEAN : runs' = [runs EXCEPT ![l.sub].e1 = @ \/ any]
  <2>1. PICK any \in {FALSE, r.snap = "own"} : runs' = [runs EXCEPT ![l.sub].e1 = @ \/ any]
    BY DEF Derive
  <2>2. any \in BOOLEAN
    BY <2>1
  <2> QED BY <2>1, <2>2
<1> DEFINE n == [r EXCEPT !.e1 = @ \/ any]
<1>4. runs' = [runs EXCEPT ![l.sub] = n]
  BY <1>1, <1>2, <1>3
<1>5. /\ n \in RunType /\ n.state = r.state /\ n.date = r.date
      /\ n.snap = r.snap /\ n.missed = r.missed /\ n.acked = r.acked
  BY <1>2 DEF RunType
<1> HIDE DEF n
<1>6. /\ DOMAIN runs' = DOMAIN runs /\ runs'[l.sub] = n
      /\ \A q \in DOMAIN runs : q # l.sub => runs'[q] = runs[q]
  BY <1>1, <1>2, <1>4, <1>5, RunUpdate
<1>7. UNCHANGED LedgerTold
  BY <1>2, <1>5, <1>6, RowTold
<1>8. ShownOK(runs')
  BY <1>1, <1>2, <1>5, <1>6, UpdateShown
<1>9. proc' = [proc EXCEPT ![p] = s]
  BY DEF Derive, Goto
<1>10. next \in PCs
  BY DEF PCs
<1> HIDE DEF s
<1>11. s.pc = next /\ s.todo = l.todo /\ KeepsPlan(l, s)
  BY <1>1, <1>10, GotoFields DEF s
<1>12. PromiseOK(s, runs')
  <2>1. CASE l.pc = "derive"
    <3>1. s.pc = "settle"
      BY <1>11, <2>1
    <3> QED BY <3>1, RestPromise
  <2>2. CASE l.pc = "rederive"
    <3>1. s.pc = "resettle" /\ l.pc \in ReprocessPCs /\ l.pc \in Reconciling
      BY <1>11, <2>2 DEF ReprocessPCs, Reconciling, ItemPCs
    <3> HIDE DEF r
    <3>2. Planned(l) => runs'[l.run].state = runs[l.run].state
      BY <1>1, <1>6, <3>1, OtherRun
    <3> QED BY <1>1, <1>11, <3>1, <3>2, PlanPromise
            DEF Reconciling, ItemPCs, ReprocessPCs
  <2> QED BY <1>1, <2>1, <2>2
<1>13. PromiseInv'
  BY <1>1, <1>8, <1>9, <1>12, HolderPromise
<1> QED BY <1>7, <1>13 DEF Kept

(* What a run may say at its end: that it has its session only if it does. *)
LEMMA SettledTold ==
  ASSUME SchedInv, NEW r \in DOMAIN runs, NEW blocked \in BOOLEAN, NEW state,
         state \in SettledStates(runs[r], blocked)
  PROVE  /\ state \in {"succeeded", "partial", "failed", "blocked"}
         /\ state \in {"succeeded", "partial"} => Shows(r)
         /\ state = "failed" => ~Shows(r)
BY DEF SettledStates, Shows

(* The final event of a capture or of a reprocess.                         *)
LEMMA SettlePromise ==
  ASSUME SchedInv, PromiseInv, NEW p \in Procs, Settle(p)
  PROVE  Kept
<1> DEFINE l == proc[p]
           r == runs[l.sub]
           next == IF l.pc = "resettle" THEN "reprocessed" ELSE "outcome"
           s == [l EXCEPT !.pc = next]
<1>1. /\ l \in Locals /\ Fits(l, runs) /\ PromiseOK(l, runs)
      /\ l.pc \in {"settle", "resettle"} /\ Past(p)
      /\ proc \in [Procs -> Locals] /\ runs \in Seq(RunType) /\ ShownOK(runs)
  BY PromiseFacts DEF Settle, Past
<1>2. /\ l.sub \in DOMAIN runs /\ l.sub \in 1..MaxRuns
      /\ LedgerTold[l.sub].kind = "market_capture"
      /\ LedgerTold[l.sub].shown = Shows(l.sub) /\ Ledger!Running = {l.sub}
  BY <1>1, WorkFacts DEF Working
<1>3. PICK n \in RunType :
           /\ runs' = [runs EXCEPT ![l.sub] = n]
           /\ n.state \in SettledStates(r, l.blocked) /\ n.state \in Settled
           /\ n.date = r.date /\ n.snap = r.snap
           /\ n.missed = r.missed /\ n.acked = r.acked
  BY SettleFacts
<1>4. /\ DOMAIN runs' = DOMAIN runs /\ runs'[l.sub] = n
      /\ \A q \in DOMAIN runs : q # l.sub => runs'[q] = runs[q]
  BY <1>1, <1>2, <1>3, RunUpdate
<1>5. /\ n.state \in {"succeeded", "partial", "failed", "blocked"}
      /\ n.state \in {"succeeded", "partial"} => Shows(l.sub)
      /\ n.state = "failed" => ~Shows(l.sub)
  <2>1. l.blocked \in BOOLEAN
    BY <1>1 DEF Locals
  <2> QED BY <1>2, <1>3, <2>1, SettledTold
<1>6. Ledger!Next
  <2>1. Ledger!Becomes(l.sub, n.state)
    BY <1>2, <1>3, <1>4, RowTold
  <2>2. Ledger!Settle(l.sub)
    BY <1>2, <1>5, <2>1 DEF Ledger!Settle, LedgerTold
  <2> QED BY <1>2, <2>2 DEF Ledger!Next
<1>7. ShownOK(runs')
  <2>1. n.state \in {"succeeded", "partial"} => n.snap = "own"
    BY <1>3, <1>5 DEF Shows
  <2> QED BY <1>1, <1>2, <1>4, <2>1, UpdateShown
<1>8. CASE l.pc = "resettle" \/ l.job = "wake"
  <2>1. proc' = [proc EXCEPT ![p] = s]
    BY <1>8 DEF Settle, Goto
  <2>2. next \in PCs
    BY DEF PCs
  <2> HIDE DEF s
  <2>3. s.pc = next /\ s.todo = l.todo /\ KeepsPlan(l, s)
    BY <1>1, <2>2, GotoFields DEF s
  <2>4. PromiseOK(s, runs')
    <3>1. CASE l.pc = "settle"
      <4>1. s.pc = "outcome"
        BY <2>3, <3>1
      <4> QED BY <4>1, RestPromise
    <3>2. CASE l.pc = "resettle"
      <4>1. s.pc = "reprocessed" /\ l.pc \in ReprocessPCs /\ l.pc \in Reconciling
        BY <2>3, <3>2 DEF ReprocessPCs, Reconciling, ItemPCs
      <4> HIDE DEF r
      <4>2. Planned(l) => runs'[l.run].state = runs[l.run].state
        BY <1>1, <1>4, <4>1, OtherRun
      <4> QED BY <1>1, <2>3, <4>1, <4>2, PlanPromise
              DEF Reconciling, ItemPCs, ReprocessPCs
    <3> QED BY <1>1, <3>1, <3>2
  <2>5. PromiseInv'
    BY <1>1, <1>7, <2>1, <2>4, HolderPromise
  <2> QED BY <1>6, <2>5 DEF Kept
<1>9. CASE ~(l.pc = "resettle" \/ l.job = "wake")
  <2>1. proc' = [proc EXCEPT ![p] = Ended(FALSE)]
    BY <1>9 DEF Settle, Stop
  <2>2. PromiseInv'
    BY <1>1, <1>7, <2>1, EndPromise
  <2> QED BY <1>6, <2>2 DEF Kept
<1> QED BY <1>8, <1>9

(* What a fetch archives.                                                  *)
LEMMA FetchedSession ==
  ASSUME NEW r \in RunType, NEW snap \in {"none", "own", "earlier", "later"},
         NEW k \in 0..Others
  PROVE  FetchedRun(r, snap, k).snap = snap /\ FetchedRun(r, snap, k).acked = r.acked
BY DEF FetchedRun, RunType

(* The fetch phase: the session of the date is archived, or is not.        *)
LEMMA P2FetchPromise ==
  ASSUME SchedInv, PromiseInv, NEW p \in Procs,
         NEW snap \in {"none", "own", "earlier", "later"}, NEW k \in 0..Others,
         NEW blocked \in BOOLEAN, P2Fetch(p, snap, k, blocked)
  PROVE  Kept
<1> DEFINE l == proc[p]
           r == runs[l.sub]
           n == FetchedRun(r, snap, k)
           s == Fetched(l, blocked)
<1>1. /\ l \in Locals /\ l.pc = "fetch" /\ Past(p)
      /\ proc \in [Procs -> Locals] /\ runs \in Seq(RunType) /\ ShownOK(runs)
  BY PromiseFacts DEF P2Fetch, At, Past
<1>2. /\ l.sub \in DOMAIN runs /\ r.state = "running" /\ r \in RunType
      /\ l.sub \in 1..MaxRuns /\ LedgerTold[l.sub].state = "running"
      /\ LedgerTold[l.sub].kind = "market_capture"
      /\ LedgerTold[l.sub].shown = Shows(l.sub)
  BY <1>1, WorkFacts DEF Working
<1>3. k <= r.left
  <2>1. r.left \in Nat
    BY <1>2, Bounds DEF RunType
  <2>2. k <= IF snap = "own" THEN r.left ELSE 0
    BY DEF P2Fetch
  <2> QED BY <2>1, <2>2
<1>4. r.snap # "none" => snap = r.snap
  BY DEF P2Fetch
<1>5. runs' = [runs EXCEPT ![l.sub] = n]
  BY <1>1, <1>2 DEF P2Fetch, FetchedRun
<1>6. proc' = [proc EXCEPT ![p] = s]
  BY <1>1 DEF P2Fetch, Locals, Fetched
<1>7. /\ n \in RunType /\ n.state = "running" /\ n.date = r.date /\ n.missed = r.missed
      /\ n.snap = snap /\ n.acked = r.acked
  <2> HIDE DEF r
  <2> QED BY <1>2, <1>3, FetchedRunFields, FetchedSession
<1> HIDE DEF n
<1>8. /\ DOMAIN runs' = DOMAIN runs /\ runs'[l.sub] = n
      /\ \A q \in DOMAIN runs : q # l.sub => runs'[q] = runs[q]
  BY <1>1, <1>2, <1>5, <1>7, RunUpdate
<1>9. Ledger!Next \/ UNCHANGED LedgerTold
  <2>1. CASE snap = "own" /\ r.snap # "own"
    <3>1. LedgerTold' = [LedgerTold EXCEPT ![l.sub].shown = TRUE]
      BY <1>2, <1>7, <1>8, <2>1, RowTold
    <3>2. ~Shows(l.sub)
      BY <2>1 DEF Shows
    <3>3. Ledger!Show(l.sub)
      BY <1>2, <3>1, <3>2 DEF Ledger!Show, LedgerTold
    <3> QED BY <1>2, <3>3 DEF Ledger!Next
  <2>2. CASE ~(snap = "own" /\ r.snap # "own")
    <3>1. snap = "own" <=> r.snap = "own"
      BY <1>4, <2>2
    <3> QED BY <1>2, <1>7, <1>8, <3>1, RowTold
  <2> QED BY <2>1, <2>2
<1>10. ShownOK(runs')
  BY <1>1, <1>2, <1>7, <1>8, UpdateShown
<1>11. s.pc = "derive"
  BY <1>1, FetchedFields
<1> HIDE DEF s
<1>12. PromiseOK(s, runs')
  BY <1>11, RestPromise
<1>13. PromiseInv'
  BY <1>1, <1>6, <1>10, <1>12, HolderPromise
<1> QED BY <1>9, <1>13 DEF Kept

-----------------------------------------------------------------------------
(* The owner, and the promise                                              *)

(* A row once its block is acknowledged.                                   *)
Acking(row, x) == [row EXCEPT !.acked = x]

(* ... differs in that alone.                                              *)
LEMMA RowAcked ==
  ASSUME NEW state, NEW kind, NEW date, NEW shown, NEW acked, NEW row, NEW x,
         row = [state |-> state, kind |-> kind, date |-> date, shown |-> shown,
                acked |-> acked]
  PROVE  Acking(row, x) = [state |-> state, kind |-> kind, date |-> date,
                           shown |-> shown, acked |-> x]
BY DEF Acking

(* A process's promise outlives an acknowledgement.                        *)
LEMMA AckedPromise ==
  ASSUME NEW l, NEW rs, NEW new, DOMAIN new = DOMAIN rs, PromiseOK(l, rs), Fits(l, rs),
         \A r \in DOMAIN rs :
           /\ new[r].state = rs[r].state /\ new[r].date = rs[r].date
           /\ new[r].missed = rs[r].missed
           /\ rs[r].acked => new[r].acked
  PROVE  PromiseOK(l, new)
<1>1. Planned(l) => l.run \in DOMAIN rs
  BY DEF Planned, Fits, SubOK, CandidateOK
<1>2. l.pc \in {"begun", "missed_event"} => l.sub \in DOMAIN rs
  BY DEF Fits, SubOK, SubPCs, MissedPCs
<1>3. ASSUME l.pc = "missed_event"
      PROVE  Unclaimed(new, new[l.sub].date)
  <2>1. Unclaimed(rs, rs[l.sub].date)
    BY <1>3 DEF PromiseOK
  <2>2. new[l.sub].date = rs[l.sub].date
    BY <1>2, <1>3
  <2> QED BY <2>1, <2>2 DEF Unclaimed
<1> QED BY <1>1, <1>2, <1>3 DEF PromiseOK

(* The owner acknowledges a block.                                         *)
LEMMA AcknowledgePromise ==
  ASSUME SchedInv, PromiseInv, NEW r \in 1..MaxRuns, AcknowledgeBlock(r)
  PROVE  Kept
<1> DEFINE n == [runs[r] EXCEPT !.acked = TRUE]
<1>1. /\ r \in DOMAIN runs /\ runs \in Seq(RunType) /\ runs[r] \in RunType
      /\ r \in UnacknowledgedBlocks /\ proc' = proc
  BY DEF AcknowledgeBlock, UnacknowledgedBlocks, SchedInv, TypeOK
<1>2. /\ n \in RunType /\ n.state = runs[r].state /\ n.date = runs[r].date
      /\ n.snap = runs[r].snap /\ n.missed = runs[r].missed /\ n.acked = TRUE
  BY <1>1 DEF RunType
<1>3. runs' = [runs EXCEPT ![r] = n]
  BY DEF AcknowledgeBlock
<1> HIDE DEF n
<1>4. /\ DOMAIN runs' = DOMAIN runs /\ runs'[r] = n
      /\ \A q \in DOMAIN runs : q # r => runs'[q] = runs[q]
  BY <1>1, <1>2, <1>3, RunUpdate
<1>5. ShownOK(runs')
  BY <1>1, <1>2, <1>4, UpdateShown DEF PromiseInv, ShownOK
<1>6. \A p \in Procs : PromiseOK(proc'[p], runs')
  <2>1. \A q \in DOMAIN runs :
           /\ runs'[q].state = runs[q].state /\ runs'[q].date = runs[q].date
           /\ runs'[q].missed = runs[q].missed
           /\ runs[q].acked => runs'[q].acked
    BY <1>2, <1>4
  <2> QED BY <1>1, <1>4, <2>1, PromiseFacts, AckedPromise
<1>7. LedgerRow(r)' = [LedgerRow(r) EXCEPT !.acked = TRUE]
  <2> DEFINE row == LedgerRow(r)
             state == runs[r].state
             kind == IF runs[r].missed THEN "missed_record" ELSE "market_capture"
             date == runs[r].date
             shown == Shows(r)
             acked == runs[r].acked
  <2>1. row = [state |-> state, kind |-> kind, date |-> date, shown |-> shown,
               acked |-> acked]
    BY <1>1 DEF LedgerRow
  <2>2. Shows(r)' = Shows(r)
    BY <1>2, <1>4 DEF Shows
  <2>3. row' = [state |-> runs'[r].state,
          kind |-> IF runs'[r].missed THEN "missed_record" ELSE "market_capture",
          date |-> runs'[r].date, shown |-> Shows(r)', acked |-> runs'[r].acked]
    BY <1>1, <1>4 DEF LedgerRow
  <2>4. row' = [state |-> state, kind |-> kind, date |-> date, shown |-> shown,
                acked |-> TRUE]
    BY <1>2, <1>4, <2>2, <2>3
  <2> HIDE DEF row, state, kind, date, shown, acked
  <2>5. PICK yes : yes = TRUE
    OBVIOUS
  <2>6. Acking(row, yes) = [state |-> state, kind |-> kind, date |-> date,
                            shown |-> shown, acked |-> yes]
    BY <2>1, RowAcked
  <2>7. Acking(row, yes) = [LedgerRow(r) EXCEPT !.acked = TRUE]
    BY <2>5, Zenon DEF Acking, row
  <2> QED BY <2>4, <2>5, <2>6, <2>7, Zenon DEF row
<1>8. LedgerTold' = [LedgerTold EXCEPT ![r].acked = TRUE]
  <2>1. \A q \in (1..MaxRuns) \ {r} : LedgerRow(q)' = LedgerRow(q)
    BY <1>4 DEF LedgerRow, Shows
  <2> QED BY <1>7, <2>1 DEF LedgerTold
<1>9. Ledger!Next
  <2>1. r \in Ledger!Unreviewed
    BY <1>1, LedgerReads
  <2>2. Ledger!Acknowledge(r)
    BY <1>8, <2>1 DEF Ledger!Acknowledge, LedgerTold
  <2> QED BY <2>2 DEF Ledger!Next
<1> QED BY <1>5, <1>6, <1>9 DEF Kept, PromiseInv

(* A step that writes to no run and moves no process.                      *)
LEMMA UnchangedPromise ==
  ASSUME PromiseInv, UNCHANGED <<runs, proc>>
  PROVE  Kept
BY NothingTold DEF Kept, PromiseInv

(* Owner decisions, and an operator's new item.                            *)
LEMMA OwnerPromise ==
  ASSUME SchedInv, PromiseInv, Owner
  PROVE  Kept
<1>1. ASSUME NEW d \in Dates, AddItem(d) \/ DeclareCheck(d) \/ DeclareInsert(d)
      PROVE  Kept
  <2>1. UNCHANGED <<runs, proc>>
    BY <1>1 DEF AddItem, DeclareCheck, DeclareInsert
  <2> QED BY <2>1, UnchangedPromise
<1>2. ASSUME Disarm \/ Arm
      PROVE  Kept
  <2>1. UNCHANGED <<runs, proc>>
    BY <1>2 DEF Disarm, Arm
  <2> QED BY <2>1, UnchangedPromise
<1> QED BY <1>1, <1>2, AcknowledgePromise DEF Owner

(* The initial state promises nothing yet.                                 *)
LEMMA InitPromise == Init => PromiseInv /\ Ledger!Init
<1> SUFFICES ASSUME Init
             PROVE  PromiseInv /\ Ledger!Init
  OBVIOUS
<1>1. \A p \in Procs : proc[p].pc = "idle"
  BY DEF Init, IdleProcess
<1>2. DOMAIN runs = {}
  BY DEF Init
<1>3. PromiseInv
  BY <1>1, <1>2, RestPromise DEF PromiseInv, ShownOK
<1>4. \A r \in 1..MaxRuns : LedgerRow(r) = Ledger!Row("none", None, 0)
  BY <1>2 DEF LedgerRow, Ledger!Row
<1>5. Ledger!Init
  BY <1>4 DEF Ledger!Init
<1> QED BY <1>3, <1>5

(* Every step keeps the promise.                                           *)
LEMMA NextPromise ==
  ASSUME SchedInv, PromiseInv, [Next]_vars
  PROVE  Kept
<1>1. ASSUME NEW p \in Procs, Step(p)
      PROVE  Kept
  <2>1. CASE \/ Lock(p) \/ Skip(p) \/ Recover(p) \/ Discover(p) \/ Sync(p) \/ Apply(p)
             \/ MissedRun(p) \/ MissedEvent(p) \/ MissedItem(p) \/ ReprocessDecided(p)
    BY <2>1, EdgePromise, RecoverPromise, DiscoverPromise, SyncPromise,
       ApplyPromise, MissedRunPromise, MissedEventPromise, MissedItemPromise,
       ReprocessDecidedPromise
  <2>2. CASE \/ Reconciled(p) \/ Reprocess(p) \/ Derive(p) \/ Settle(p)
             \/ Reprocessed(p) \/ Open(p)
    BY <2>2, ReconciledPromise, ReprocessPromise, DerivePromise, SettlePromise,
       ReprocessedPromise, OpenPromise
  <2>3. CASE \/ NoCapture(p) \/ StartCapture(p) \/ P2Create(p) \/ P2Running(p)
             \/ Outcome(p) \/ OperatorLock(p) \/ Finish(p)
    BY <2>3, NoCapturePromise, StartCapturePromise, P2CreatePromise,
       P2RunningPromise, OutcomePromise, RecoverPromise, EdgePromise
  <2>4. CASE \E snap \in {"none", "own", "earlier", "later"}, k \in 0..Others,
                blocked \in BOOLEAN : P2Fetch(p, snap, k, blocked)
    BY <2>4, P2FetchPromise
  <2> QED BY <1>1, <2>1, <2>2, <2>3, <2>4 DEF Step
<1>2. ASSUME NEW p \in Procs, Fault(p)
      PROVE  Kept
  BY <1>2, EdgePromise, NoCapturePromise DEF Fault
<1>3. ASSUME NEW p \in Procs, Wake(p, 0, FALSE) \/ Operator(p)
      PROVE  Kept
  <2>1. 0 \in 0..LastDay /\ \A d \in Dates : d \in 0..LastDay
    BY Bounds
  <2> QED BY <1>3, <2>1, EdgePromise, ManualCapturePromise, ManualMissedPromise
          DEF Operator
<1>4. CASE UNCHANGED vars \/ Tick
  BY <1>4, UnchangedPromise DEF vars, Tick
<1> QED BY <1>1, <1>2, <1>3, <1>4, OwnerPromise DEF Next

(* Wake-ups, operator commands and the owner do to P2's runs what P2's     *)
(* ledger promises (ImplementsCaptureLedger), whatever dies in between:    *)
(* the summary of a run, of which the theorems above are proved, behaves   *)
(* as the ledger that the capture tool itself is proved to implement.      *)
THEOREM KeepsRunsPromise == Spec => ImplementsCaptureLedger
<1>1. SchedInv /\ PromiseInv /\ [Next]_vars => PromiseInv' /\ [Ledger!Next]_LedgerTold
  BY NextPromise DEF Kept
<1>2. SchedInv /\ [Next]_vars => SchedInv'
  BY NextInv
<1>3. Ledger!Spec <=> Ledger!Init /\ [][Ledger!Next]_LedgerTold
  BY DEF Ledger!Spec, LedgerTold
<1> QED BY InitInv, InitPromise, <1>1, <1>2, <1>3, PTL
        DEF Spec, ImplementsCaptureLedger
=============================================================================
