--------------------------- MODULE BackfillLedger ---------------------------
(***************************************************************************)
(* The HB-1 backfill ledger (worker/financial_backfill): the tables that   *)
(* every backfill stage reads and appends to, and the decisions the owner  *)
(* and the operator record in them.                                        *)
(*                                                                         *)
(* A work item is summarised by its current state, the lease its latest    *)
(* event names, and what happened since its last re-queue: how often it    *)
(* was claimed and how many requests were sent for it.  Of an item's       *)
(* attempts only the latest one is kept: an attempt is made while its item *)
(* is in flight, and an item leaves that state only once the attempt has   *)
(* an outcome (NothingStranded, in module Backfill, is about that).        *)
(***************************************************************************)
EXTENDS Naturals, Sequences, FiniteSets

CONSTANTS
    Slices,         \* sessions that run CSE slices
    None,           \* no session, no item, nothing
    P2,             \* a P2 or P3 process, as a holder of the global CSE lock
    Discovery,      \* discovery items: feed windows and listings of the plan
    Documents,      \* document items of the filings in the window
    DailyBudget,    \* daily_request_budget of the arming decision
    Ceiling,        \* combined_daily_ceiling
    P3Budget,       \* P3's armed daily budget, held back by A7
    ItemMax,        \* item_max_attempts: claims since the last re-queue
    StoppedSlices,  \* STOPPED_STAGE_SLICES (A5)
    Phases,         \* how far the backfill has come when a run starts
    MaxEvents       \* bound: decisions and happenings outside the slices

Stages == {"discovery", "document"}

Items == Discovery \cup Documents

ASSUME LedgerConstants ==
    /\ None \notin Slices \cup Items \cup {P2} /\ P2 \notin Slices
    /\ Discovery \cap Documents = {}
    /\ IsFiniteSet(Slices) /\ IsFiniteSet(Items)
    /\ {DailyBudget, Ceiling, P3Budget, MaxEvents} \subseteq Nat
    /\ {ItemMax, StoppedSlices} \subseteq Nat \ {0}
    /\ Phases \subseteq {"fresh", "discovering", "retrieving"}

VARIABLES
    item,      \* L2/L3: current state, lease, claims and requests of each item
    lease,     \* L8: the latest lease of each session
    attempt,   \* L4: the latest attempt of each item, with its spool record
    blocks,    \* L9: items whose block the owner has not acknowledged
    p2blocks,  \* an unacknowledged P2 block exists
    arming,    \* the owner's arming decision in force
    results,   \* how many of a stage's newest leases under that decision,
               \* in a row, ended on the circuit breaker
    used,      \* Phase 2 requests of the current Colombo day
    p2used,    \* P2 requests of that day
    p3due,     \* P3 is armed and its capture of the day is not final
    f1,        \* F1: the run of an item's latest claim, and the status of the
               \* latest successful run of its request
    f5,        \* documents with an F5 run under the armed versions
    linked,    \* the current plan's IE-4 pass has succeeded
    lock,      \* the session that holds P2's global CSE lock
    events     \* decisions and happenings outside the slices so far

(* What no slice ever changes, and what only slices and decisions change.  *)
outside == <<p2blocks, arming, p2used, p3due, linked, events>>
tables == <<item, lease, attempt, blocks, results, used, f1, f5>>
ledgerVars == <<tables, outside, lock>>

(***************************************************************************)
(* The states and the legal transitions of an item.                        *)
(***************************************************************************)
IN_FLIGHT == {"requesting", "processing"}

(* F1 reports a success as succeeded or partial; every reader treats the   *)
(* two alike.                                                              *)
SUCCESS == {"succeeded"}

DiscoveryFinal == SUCCESS \cup {"failed"}

DocumentFinal == {"retrieval_failed", "consumer_failed", "cleanup_failed",
                  "failed"}

Claimable == {"pending", "retry_wait"}

Final(i) == IF i \in Discovery THEN DiscoveryFinal ELSE DocumentFinal

DiscoveryTransitions ==
    (Claimable \X {"requesting"} \X {"claim"})
    \cup ({"requesting"} \X (DiscoveryFinal \cup {"retry_wait", "blocked"})
                         \X {"record"})
    \cup {<<"retry_wait", "failed", "record">>,
          <<"requesting", "abandoned", "expire">>,
          <<"blocked", "pending", "resume">>}
    \cup ({"abandoned"} \X (SUCCESS \cup {"pending"}) \X {"promote"})
    \cup (DiscoveryFinal \X {"pending"} \X {"requeue"})

DocumentTransitions ==
    (Claimable \X {"requesting"} \X {"claim"})
    \cup ({"requesting"} \X {"processing", "retry_wait", "retrieval_failed",
                             "blocked", "cleanup_failed"} \X {"record"})
    \cup ({"processing"} \X {"persisted", "consumer_failed", "cleanup_failed",
                             "retry_wait", "failed"} \X {"record"})
    \cup ({"retry_wait"} \X {"retrieval_failed", "failed"} \X {"record"})
    \cup (IN_FLIGHT \X {"abandoned"} \X {"expire"})
    \cup ((Claimable \cup {"discovered", "abandoned"}) \X {"persisted"}
                                                       \X {"promote"})
    \cup {<<"discovered", "pending", "promote">>,
          <<"abandoned", "pending", "promote">>,
          <<"blocked", "pending", "resume">>}
    \cup (DocumentFinal \X {"pending"} \X {"requeue"})

Transitions(i) ==
    IF i \in Discovery THEN DiscoveryTransitions ELSE DocumentTransitions

ItemStates ==
    {t[2] : t \in DiscoveryTransitions \cup DocumentTransitions}
    \cup {"discovered"}

(* One event: the new state, the lease that holds the item while it is in  *)
(* flight, and the counts since the last re-queue.                         *)
AfterEvent(r, to, action, s) ==
    [r EXCEPT !.state = to,
              !.lease = IF to \in IN_FLIGHT THEN s ELSE None,
              !.claims = CASE action = "claim" -> @ + 1
                           [] action = "requeue" -> 0
                           [] OTHER -> @,
              !.sent = IF action = "requeue" THEN 0 ELSE @]

(* The events of one transaction, three at most, all under the same lease. *)
AfterEvents(r, es, s) ==
    LET after(n, x) == IF n \in DOMAIN es
                       THEN AfterEvent(x, es[n][1], es[n][2], s) ELSE x
    IN  after(3, after(2, after(1, r)))

(***************************************************************************)
(* Reads.                                                                  *)
(***************************************************************************)
ActiveLeases == {s \in Slices : lease[s].state = "active"}

OpenAttempts(s) ==
    {i \in Items : attempt[i].outcome = "open" /\ attempt[i].by = s}

InFlightItems(s) ==
    {i \in Items : item[i].state \in IN_FLIGHT /\ item[i].lease = s}

(* Documents whose failure stopped the document stage (section 17).        *)
CleanupStops ==
    {i \in Documents : \/ item[i].state = "cleanup_failed"
                       \/ item[i].state = "failed" /\ item[i].stopped}

P3Reserve == IF p3due THEN P3Budget ELSE 0

(* Mutant: the last request of the day is admitted twice.                  *)
BugCovers(n) ==
    /\ used <= DailyBudget
    /\ used + p2used + P3Reserve + n <= Ceiling + 1

Covers(n) ==
    /\ used + n <= DailyBudget
    /\ used + p2used + P3Reserve + n <= Ceiling

StageStopped(g) == results[g] = StoppedSlices

(* A lease of stage g ends with result r; A5 counts only the leases that   *)
(* were acquired under the decision in force.                              *)
WithResult(s, r) ==
    IF lease[s].arming # arming.id THEN results
    ELSE [results EXCEPT ![lease[s].stage] =
            IF r # "circuit_open" THEN 0
            ELSE IF @ < StoppedSlices THEN @ + 1 ELSE @]

DiscoveryClosed == \A i \in Discovery : item[i].state \in DiscoveryFinal

(***************************************************************************)
(* Initial tables, by phase: nothing done yet; a plan to discover whose    *)
(* documents an earlier backfill persisted; a discovered plan whose        *)
(* documents are to be retrieved.                                          *)
(***************************************************************************)
FirstState(phase, i) ==
    CASE i \in Discovery -> IF phase = "retrieving" THEN "succeeded"
                                                    ELSE "pending"
      [] i \in Documents -> IF phase = "discovering" THEN "persisted"
                                                     ELSE "discovered"

NewItem(state) ==
    [state |-> state, lease |-> None, claims |-> 0, sent |-> 0,
     stopped |-> FALSE]

NoAttempt == [by |-> None, outcome |-> "none", spooled |-> None]

(* A released or an expired lease is kept only as a result of its stage.   *)
NoLease == [state |-> "none", arming |-> 0, stage |-> "discovery"]

(* The outcome a of an attempt; who made it no longer matters.             *)
Closed(a) == [by |-> None, outcome |-> a, spooled |-> None]

LedgerInit ==
    \E phase \in Phases :
       /\ item = [i \in Items |-> NewItem(FirstState(phase, i))]
       /\ f1 = [i \in Discovery |->
                  [run |-> "none", won |-> IF phase = "retrieving"
                                           THEN "succeeded" ELSE "none"]]
       /\ f5 = IF phase = "discovering" THEN Documents ELSE {}
       /\ linked = (phase = "retrieving")
       /\ lease = [s \in Slices |-> NoLease]
       /\ attempt = [i \in Items |-> NoAttempt]
       /\ blocks = {} /\ p2blocks = FALSE
       /\ arming = [id |-> 1, armed |-> TRUE]
       /\ results = [g \in Stages |-> 0]
       /\ used = 0 /\ p2used = 0 /\ p3due = FALSE
       /\ lock = None
       /\ events = 0

(***************************************************************************)
(* The owner and the operator.                                             *)
(***************************************************************************)

(* A new arming decision: its id differs from every slice's, and A5 counts *)
(* only the leases acquired since.                                         *)
Arm(armed) ==
    /\ events < MaxEvents
    /\ arming' = [id |-> arming.id + 1, armed |-> armed]
    /\ results' = [g \in Stages |-> 0]
    /\ events' = events + 1
    /\ UNCHANGED <<item, lease, attempt, blocks, p2blocks, used, p2used,
                   p3due, f1, f5, linked, lock>>

AcknowledgeBlock ==
    /\ \/ (\E i \in blocks : blocks' = blocks \ {i}) /\ UNCHANGED p2blocks
       \/ p2blocks /\ p2blocks' = FALSE /\ UNCHANGED blocks
    /\ UNCHANGED <<item, lease, attempt, arming, results, used, p2used, p3due,
                   f1, f5, linked, lock, events>>

Requeue(i) ==
    /\ events < MaxEvents
    /\ item[i].state \in Final(i)
    /\ item' = [item EXCEPT
                  ![i] = [AfterEvent(@, "pending", "requeue", None)
                            EXCEPT !.stopped = FALSE]]
    /\ events' = events + 1
    /\ UNCHANGED <<lease, attempt, blocks, p2blocks, arming, results, used,
                   p2used, p3due, f1, f5, linked, lock>>

(* The database refuses unless the owner acknowledged the item's block.    *)
Resume(i) ==
    /\ item[i].state = "blocked"
    /\ i \notin blocks
    /\ item' = [item EXCEPT ![i] = AfterEvent(@, "pending", "resume", None)]
    /\ UNCHANGED <<lease, attempt, blocks, results, used, f1, f5, outside, lock>>

(***************************************************************************)
(* The rest of the system, as the ledger sees it.                          *)
(***************************************************************************)

(* P2 or P3 holds the global lock, makes a request, and may be blocked.    *)
P2Takes ==
    /\ lock = None /\ events < MaxEvents
    /\ lock' = P2
    /\ events' = events + 1
    /\ UNCHANGED <<tables, p2blocks, arming, p2used, p3due, linked>>

P2Releases(blocked) ==
    /\ lock = P2
    /\ lock' = None
    /\ p2used' = p2used + 1
    /\ p2blocks' = (p2blocks \/ blocked)
    /\ UNCHANGED <<tables, arming, p3due, linked, events>>

(* P3's capture of the day is final, or P3 is armed during the day.        *)
P3Changes ==
    /\ events < MaxEvents
    /\ p3due' = ~p3due
    /\ events' = events + 1
    /\ UNCHANGED <<tables, p2blocks, arming, p2used, linked, lock>>

NewColomboDay ==
    /\ events < MaxEvents
    /\ used' = 0 /\ p2used' = 0
    /\ p3due' \in BOOLEAN
    /\ events' = events + 1
    /\ UNCHANGED <<item, lease, attempt, blocks, results, f1, f5, p2blocks,
                   arming, linked, lock>>

(* F1 and F5 runs of another origin (the stages' own command lines).       *)
ForeignEvidence(i) ==
    /\ events < MaxEvents
    /\ \/ /\ i \in Discovery /\ f1[i].won = "none"
          /\ \E r \in SUCCESS : f1' = [f1 EXCEPT ![i].won = r]
          /\ UNCHANGED f5
       \/ /\ i \in Documents \ f5
          /\ f5' = f5 \cup {i}
          /\ UNCHANGED f1
    /\ events' = events + 1
    /\ UNCHANGED <<item, lease, attempt, blocks, results, used, p2blocks, arming,
                   p2used, p3due, linked, lock>>

(* HB-3's IE-4 closure pass, between slices, once discovery is closed.     *)
ClosurePass ==
    /\ DiscoveryClosed /\ ~linked /\ ActiveLeases = {}
    /\ linked' = TRUE
    /\ UNCHANGED <<tables, p2blocks, arming, p2used, p3due, lock, events>>

LedgerEnvironment ==
    \/ \E a \in BOOLEAN : Arm(a)
    \/ AcknowledgeBlock
    \/ \E i \in Items : Requeue(i) \/ Resume(i) \/ ForeignEvidence(i)
    \/ P2Takes
    \/ \E b \in BOOLEAN : P2Releases(b)
    \/ P3Changes
    \/ NewColomboDay
    \/ ClosurePass
=============================================================================
