-------------------------- MODULE BackfillTransport --------------------------
(***************************************************************************)
(* HB-2, the governed backfill transport (worker/backfill_transport): how  *)
(* a CSE slice starts under P2's global lock, recovers what dead slices    *)
(* left, is admitted before every request, writes the intent, sends,       *)
(* spools and records, and closes.                                         *)
(*                                                                         *)
(* A slice is a process with one database session; sl[s] is what it keeps  *)
(* in memory.  Slice and lease are recycled: s opens a new session once    *)
(* its former lease is no longer active.  The steps of the two stages      *)
(* between claim and event are in BackfillDiscovery and BackfillDocuments. *)
(***************************************************************************)
EXTENDS BackfillLedger

CONSTANTS
    SliceMax,    \* slice_max_json_requests, slice_max_documents
    Breaker,     \* max_consecutive_failures of P2's request policy
    Passes,      \* attempts_per_document: F2 passes of one claim
    WorstCase,   \* DOCUMENT_WORST_CASE_REQUESTS
    Trouble,     \* which failures a run considers
    MaxTrouble   \* bound: deaths, lost sessions, failed writes

ASSUME TransportConstants ==
    /\ {SliceMax, Breaker, Passes, WorstCase} \subseteq Nat \ {0}
    /\ MaxTrouble \in Nat
    /\ Trouble \subseteq {"crash", "session", "journal", "spool", "record",
                          "sweep", "cleanup", "persist", "corrupt"}

VARIABLES
    sl,       \* what each slice keeps in memory
    files,    \* slices whose temporary document may remain in the root
    trouble   \* failures so far

vars == <<ledgerVars, sl, files, trouble>>

(* The points between two database transactions or external effects.       *)
PCs == {"idle", "lock", "recover", "gate", "reconcile", "work", "claimed",
        "begun", "fetch", "admitted", "intent", "journaled", "answered",
        "record", "finish", "settle", "f2", "dispose", "persist", "closing"}

IdleSlice ==
    [pc |-> "idle", stage |-> "discovery", seen |-> 0, item |-> None,
     stop |-> "none", fails |-> 0, n |-> 0, pass |-> 0, hop |-> 0,
     got |-> "none", up |-> TRUE, tried |-> {}]

Need(g) == IF g = "document" THEN WorstCase ELSE 1

(* The slice is done with its item: back to the loop, or to the end.       *)
Back(l) ==
    [l EXCEPT !.pc = IF l.stop = "none" THEN "work" ELSE "closing",
              !.item = None, !.pass = 0, !.hop = 0, !.got = "none"]

(* A failure of kind t happens: named and bounded.                         *)
Happens(t) ==
    /\ t \in Trouble /\ trouble < MaxTrouble
    /\ trouble' = trouble + 1

(***************************************************************************)
(* Gates.  Preflight, host, versions, clock and quiet window may refuse at *)
(* any time; what a property depends on is spelled out.                    *)
(***************************************************************************)
Gates(g) ==
    /\ arming.armed
    /\ blocks = {} /\ ~p2blocks
    /\ ~StageStopped(g)
    /\ Covers(Need(g))

DocumentGate == DiscoveryClosed /\ linked

StageGates(g) == g = "document" => CleanupStops = {} /\ DocumentGate

(* Slice.admit, before every intent: the decision the slice started under  *)
(* is still in force and the budgets cover what comes.                     *)
Admits(s, need) ==
    /\ sl[s].stop = "none"
    /\ arming.armed /\ arming.id = sl[s].seen
    /\ Covers(need)
    /\ sl[s].stage = "discovery" => sl[s].n < SliceMax

(***************************************************************************)
(* The start of a slice.                                                   *)
(***************************************************************************)

(* The stage's own checks and the start gates, before the lock.            *)
Start(s, g) ==
    /\ sl[s].pc = "idle" /\ lease[s].state # "active"
    /\ Gates(g) /\ StageGates(g)
    /\ sl' = [sl EXCEPT ![s] = [IdleSlice EXCEPT !.pc = "lock", !.stage = g,
                                                 !.seen = arming.id]]
    /\ UNCHANGED <<ledgerVars, files, trouble>>

(* Mutant: the lock is taken over.                                         *)
BugAcquire(s) ==
    /\ sl[s].pc = "lock"
    /\ lock' = s
    /\ sl' = [sl EXCEPT ![s].pc = "recover"]
    /\ UNCHANGED <<tables, outside, files, trouble>>

(* Busy: nothing is taken over and the slice is gone.                      *)
Acquire(s) ==
    /\ sl[s].pc = "lock"
    /\ IF lock = None
       THEN /\ lock' = s
            /\ sl' = [sl EXCEPT ![s].pc = "recover"]
       ELSE /\ sl' = [sl EXCEPT ![s] = IdleSlice]
            /\ UNCHANGED lock
    /\ UNCHANGED <<tables, outside, files, trouble>>

(* Mutant: the spool is not consulted.                                     *)
BugRecovered(i) == "unrecorded"

(* One transaction per dead lease: each open attempt gets the outcome the  *)
(* spool holds, or 'unrecorded'; each item in flight becomes abandoned.    *)
Recovered(i) ==
    IF attempt[i].spooled = None THEN "unrecorded" ELSE attempt[i].spooled

Expire(s, d) ==
    /\ sl[s].pc = "recover"
    /\ d \in ActiveLeases \ {s}
    /\ \A i \in OpenAttempts(d) : attempt[i].spooled # "corrupt"
    /\ lease' = [lease EXCEPT ![d] = NoLease]
    /\ results' = WithResult(d, "expired")
    /\ attempt' = [i \in Items |->
                     IF i \in OpenAttempts(d)
                     THEN Closed(Recovered(i))
                     ELSE attempt[i]]
    /\ blocks' = blocks \cup {i \in OpenAttempts(d) : Recovered(i) = "block"}
    /\ item' = [i \in Items |->
                  IF i \in InFlightItems(d)
                  THEN AfterEvent(item[i], "abandoned", "expire", d)
                  ELSE item[i]]
    /\ UNCHANGED <<used, f1, f5, outside, lock, sl, files, trouble>>

OpenLease(s) ==
    /\ sl[s].pc = "recover"
    /\ ActiveLeases \subseteq {s}
    /\ Gates(sl[s].stage) /\ arming.id = sl[s].seen
    /\ lease' = [lease EXCEPT ![s] = [state |-> "active", arming |-> arming.id,
                                      stage |-> sl[s].stage]]
    /\ sl' = [sl EXCEPT ![s].pc = IF sl[s].stage = "document" THEN "gate"
                                                              ELSE "reconcile"]
    /\ UNCHANGED <<item, attempt, blocks, results, used, f1, f5, outside, lock,
                   files, trouble>>

(* A gate refuses under the lock, or a spool record that must be recovered *)
(* does not match its hash: the wake-up ends and the lock is given back.   *)
RefuseOpen(s) ==
    /\ sl[s].pc = "recover"
    /\ \/ ActiveLeases \subseteq {s}
       \/ \E d \in ActiveLeases \ {s}, i \in Items :
             i \in OpenAttempts(d) /\ attempt[i].spooled = "corrupt"
    /\ lock' = None
    /\ sl' = [sl EXCEPT ![s] = IdleSlice]
    /\ UNCHANGED <<tables, outside, files, trouble>>

(***************************************************************************)
(* Claims.                                                                 *)
(***************************************************************************)
StageItems(g) == IF g = "discovery" THEN Discovery ELSE Documents

Eligible(s) ==
    {i \in StageItems(sl[s].stage) : /\ item[i].state \in Claimable
                                     /\ i \notin sl[s].tried
                                     /\ item[i].claims < ItemMax}

Claim(s, i) ==
    /\ sl[s].pc = "work" /\ i \in Eligible(s)
    /\ Admits(s, Need(sl[s].stage))
    /\ sl[s].stage = "document" => sl[s].n < SliceMax
    /\ item' = [item EXCEPT ![i] = AfterEvent(@, "requesting", "claim", s)]
    /\ sl' = [sl EXCEPT ![s].pc = "claimed", ![s].item = i, ![s].pass = 0,
                        ![s].tried = @ \cup {i}]
    /\ UNCHANGED <<lease, attempt, blocks, results, used, f1, f5, outside, lock,
                   files, trouble>>

(* Nothing is claimed: a gate, the slice's time, its documents or the free *)
(* space refuse; or the work, or the caller's item limit, is at its end.   *)
EndWork(s) ==
    /\ sl[s].pc = "work"
    /\ \/ Eligible(s) # {} /\ sl' = [sl EXCEPT ![s].pc = "closing",
                                               ![s].stop = "refused"]
       \/ sl' = [sl EXCEPT ![s].pc = "closing"]
    /\ UNCHANGED <<ledgerVars, files, trouble>>

(***************************************************************************)
(* One attempt: intent, journal, request, spool, outcome.                  *)
(***************************************************************************)

(* The admission reads; the intent is a transaction of its own.            *)
Admit(s) ==
    /\ sl[s].pc \in {"begun", "fetch"} /\ Admits(s, 1)
    /\ sl' = [sl EXCEPT ![s].pc = "admitted"]
    /\ UNCHANGED <<ledgerVars, files, trouble>>

Intend(s) ==
    LET i == sl[s].item
        json == sl[s].stage = "discovery"
    IN  /\ sl[s].pc = "admitted"
        /\ attempt' = [attempt EXCEPT
                         ![i] = [by |-> s, outcome |-> "open", spooled |-> None]]
        /\ used' = used + 1
        /\ item' = [item EXCEPT ![i].sent = @ + 1]
        /\ f1' = IF json THEN [f1 EXCEPT ![i].run = "requested"] ELSE f1
        /\ sl' = [sl EXCEPT ![s].pc = IF json THEN "intent" ELSE "journaled",
                            ![s].n = IF json THEN @ + 1 ELSE @]
        /\ UNCHANGED <<lease, blocks, results, f5, outside, lock, files, trouble>>

(* The intent line reaches the journal; or it does not, the request is not *)
(* sent and the slice stops with its item in flight.                       *)
JournalIntent(s) ==
    /\ sl[s].pc = "intent"
    /\ \/ /\ sl' = [sl EXCEPT ![s].pc = "journaled"]
          /\ UNCHANGED <<attempt, trouble>>
       \/ /\ Happens("journal")
          /\ attempt' = IF sl[s].up
                        THEN [attempt EXCEPT ![sl[s].item] = Closed("lost")]
                        ELSE attempt
          /\ sl' = [sl EXCEPT ![s].pc = "closing", ![s].stop = "error"]
    /\ UNCHANGED <<item, lease, blocks, results, used, f1, f5, outside, lock,
                   files>>

(* What CSE answers; a rate limit is a block when its Retry-After is too   *)
(* long, at the last try, or when it completes the circuit breaker.        *)
Answers(g) ==
    {"ok", "retryable", "terminal", "limited", "block"}
    \cup IF g = "document" THEN {"elsewhere"} ELSE {}

Classified(s, a) ==
    IF a # "limited" THEN a
    ELSE IF \/ sl[s].stage = "discovery"
            \/ sl[s].pass = Passes
            \/ sl[s].fails + 1 >= Breaker
         THEN "block" ELSE "retryable"

Answer(s, a) ==
    LET json == sl[s].stage = "discovery"
    IN  /\ sl[s].pc = "journaled"
        /\ sl' = [sl EXCEPT ![s].pc = IF json THEN "answered" ELSE "record",
                            ![s].got = Classified(s, a),
                            ![s].fails = IF a = "ok" THEN 0 ELSE @ + 1]
        /\ UNCHANGED <<ledgerVars, files, trouble>>

(* Spool first: the record is found by recovery while the attempt is open. *)
(* When the spool fails, a response that was ok counts as lost.            *)
Spool(s) ==
    LET i == sl[s].item
        mine == attempt[i].outcome = "open" /\ attempt[i].by = s
    IN  /\ sl[s].pc = "answered"
        /\ \/ /\ attempt' = IF mine
                            THEN [attempt EXCEPT ![i].spooled = sl[s].got]
                            ELSE attempt
              /\ sl' = [sl EXCEPT ![s].pc = "record"]
              /\ UNCHANGED trouble
           \/ /\ Happens("spool")
              /\ sl' = [sl EXCEPT ![s].pc = "record", ![s].stop = "error",
                                  ![s].got = IF @ = "ok" THEN "lost" ELSE @]
              /\ UNCHANGED attempt
        /\ UNCHANGED <<item, lease, blocks, results, used, f1, f5, outside, lock,
                       files>>

(* The outcome and, for a block, the block row: one transaction.           *)
AfterRecord(l) ==
    IF l.got = "block" THEN "blocked"
    ELSE IF l.stop = "error" THEN "error"
    ELSE IF l.got # "ok" /\ l.fails >= Breaker THEN "circuit_open"
    ELSE l.stop

Record(s) ==
    LET i == sl[s].item
        stop == AfterRecord(sl[s])
    IN  /\ sl[s].pc = "record" /\ sl[s].up
        /\ attempt' = [attempt EXCEPT ![i] = Closed(sl[s].got)]
        /\ blocks' = IF sl[s].got = "block" THEN blocks \cup {i} ELSE blocks
        /\ sl' = [sl EXCEPT ![s].stop = stop,
                            ![s].pc = CASE sl[s].stage = "document" -> "f2"
                                        [] stop = "error" -> "closing"
                                        [] OTHER -> "finish"]
        /\ UNCHANGED <<item, lease, results, used, f1, f5, outside, lock, files,
                       trouble>>

(* The outcome cannot be committed: the session is gone, or the commit     *)
(* fails.  A document is still cleaned up before the slice stops.          *)
RecordFails(s) ==
    /\ sl[s].pc = "record"
    /\ IF sl[s].up THEN Happens("record") ELSE UNCHANGED trouble
    /\ sl' = [sl EXCEPT ![s].stop = "error",
                        ![s].pc = IF sl[s].stage = "document" THEN "f2"
                                                              ELSE "closing"]
    /\ UNCHANGED <<ledgerVars, files>>

(***************************************************************************)
(* The end of a slice.                                                     *)
(***************************************************************************)

(* Mutant: an error releases the lease.                                    *)
BugKeepsLease(s) == ~sl[s].up \/ OpenAttempts(s) # {}

(* The lease is released only if no item is in flight under it and every   *)
(* attempt has an outcome; otherwise it stays active for the next slice.   *)
KeepsLease(s) ==
    \/ sl[s].stop = "error" \/ ~sl[s].up
    \/ InFlightItems(s) # {}
    \/ OpenAttempts(s) # {}

LeaseResult(stop) == IF stop = "none" THEN "completed" ELSE stop

Unlocked(s) == IF lock = s THEN None ELSE lock

Close(s) ==
    /\ sl[s].pc = "closing"
    /\ IF KeepsLease(s)
       THEN UNCHANGED <<lease, results>>
       ELSE /\ lease' = [lease EXCEPT ![s] = NoLease]
            /\ results' = WithResult(s, LeaseResult(sl[s].stop))
    /\ lock' = Unlocked(s)
    /\ sl' = [sl EXCEPT ![s] = IdleSlice]
    /\ UNCHANGED <<item, attempt, blocks, used, f1, f5, outside, files, trouble>>

(* The process dies: the session ends, and F2 cleans nothing up.           *)
Crash(s) ==
    /\ sl[s].pc \notin {"idle", "lock"} /\ Happens("crash")
    /\ lock' = Unlocked(s)
    /\ sl' = [sl EXCEPT ![s] = IdleSlice]
    /\ UNCHANGED <<tables, outside, files>>

(* The session ends under a living process with a request outstanding.     *)
LoseSession(s) ==
    /\ sl[s].pc \in {"intent", "journaled", "answered", "record"} /\ sl[s].up
    /\ Happens("session")
    /\ lock' = Unlocked(s)
    /\ sl' = [sl EXCEPT ![s].up = FALSE]
    /\ UNCHANGED <<tables, outside, files>>

(* The spool record of a slice that is gone is damaged on disk; a record   *)
(* only once, so this needs no bound.                                      *)
Corrupt(i) ==
    /\ attempt[i].outcome = "open" /\ attempt[i].spooled \notin {None, "corrupt"}
    /\ \A s \in Slices : sl[s].item # i
    /\ "corrupt" \in Trouble
    /\ attempt' = [attempt EXCEPT ![i].spooled = "corrupt"]
    /\ UNCHANGED <<item, lease, blocks, results, used, f1, f5, outside, lock, sl,
                   files, trouble>>

TransportStep(s) ==
    \/ \E g \in Stages : Start(s, g)
    \/ Acquire(s)
    \/ \E d \in Slices : Expire(s, d)
    \/ OpenLease(s) \/ RefuseOpen(s)
    \/ \E i \in Items : Claim(s, i)
    \/ EndWork(s)
    \/ Admit(s) \/ Intend(s) \/ JournalIntent(s)
    \/ \E a \in Answers(sl[s].stage) : Answer(s, a)
    \/ Spool(s) \/ Record(s) \/ RecordFails(s)
    \/ Close(s)
    \/ Crash(s) \/ LoseSession(s)
=============================================================================
