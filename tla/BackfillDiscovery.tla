-------------------------- MODULE BackfillDiscovery --------------------------
(***************************************************************************)
(* HB-3's discovery slices (worker/backfill_discovery/discovery.py and     *)
(* f1_cycle.py): reconciliation of abandoned items from evidence, the      *)
(* terminal decision at the item maximum (G10), and one claimed item       *)
(* through F1's run, one governed request and the item's event.            *)
(***************************************************************************)
EXTENDS BackfillTransport

(* NOT_INGESTIBLE: outcomes that left no durable response.                 *)
NotIngestible == {"open", "none", "unrecorded", "lost"}

Ingestible(i) == attempt[i].outcome \notin NotIngestible

(* F1 finishes the run of item i's latest claim from the recorded answer:  *)
(* an accepted body succeeds, wholly or in part; anything else fails.      *)
RunFinished(i, r) ==
    [f1[i] EXCEPT !.run = "finished",
                  !.won = IF attempt[i].outcome = "ok" THEN r ELSE @]

(* Evidence wins: a request some F1 run succeeded for never ends 'failed'. *)
EvidenceOr(i, state) ==
    IF state = "failed" /\ f1[i].won # "none" THEN f1[i].won ELSE state

(***************************************************************************)
(* Reconciliation, before any claim.                                       *)
(***************************************************************************)
Abandoned(g) == {i \in StageItems(g) : item[i].state = "abandoned"}

Reconciling(s, g) == sl[s].pc = "reconcile" /\ sl[s].stage = g

(* Mutant: abandoned items are promoted before their run is finished.      *)
BugUnfinishedRun(i) == FALSE

UnfinishedRun(i) == f1[i].run = "requested" /\ Ingestible(i)

FinishAbandonedRun(s, i) ==
    /\ Reconciling(s, "discovery") /\ i \in Abandoned("discovery")
    /\ UnfinishedRun(i)
    /\ \E r \in SUCCESS : f1' = [f1 EXCEPT ![i] = RunFinished(i, r)]
    /\ UNCHANGED <<item, lease, attempt, blocks, results, used, f5, outside, lock,
                   sl, files, trouble>>

PromoteDiscovery(s, i) ==
    /\ Reconciling(s, "discovery") /\ i \in Abandoned("discovery")
    /\ ~UnfinishedRun(i)
    /\ item' = [item EXCEPT
                  ![i] = AfterEvent(@, IF f1[i].won # "none" THEN f1[i].won
                                                             ELSE "pending",
                                    "promote", None)]
    /\ UNCHANGED <<lease, attempt, blocks, results, used, f1, f5, outside, lock,
                   sl, files, trouble>>

(* G10: at the claim maximum, every attempt with an outcome.               *)
AtMaximum(g) ==
    {i \in StageItems(g) : /\ item[i].state \in Claimable
                           /\ item[i].claims >= ItemMax
                           /\ attempt[i].outcome # "open"}

(* Mutant: no terminal claim.                                              *)
BugTerminalEvents(i) == <<<<EvidenceOr(i, "failed"), "record">>>>

(* One transaction, no request: from 'pending', and to a success, the      *)
(* state machine asks for a terminal claim first.                          *)
TerminalEvents(i) ==
    LET final == EvidenceOr(i, "failed")
        last == <<final, "record">>
    IN  IF item[i].state = "pending" \/ final # "failed"
        THEN <<<<"requesting", "claim">>, last>>
        ELSE <<last>>

TerminaliseDiscovery(s, i) ==
    /\ Reconciling(s, "discovery") /\ Abandoned("discovery") = {}
    /\ i \in AtMaximum("discovery")
    /\ item' = [item EXCEPT ![i] = AfterEvents(@, TerminalEvents(i), s)]
    /\ UNCHANGED <<lease, attempt, blocks, results, used, f1, f5, outside, lock,
                   sl, files, trouble>>

DiscoveryReconciled(s) ==
    /\ Reconciling(s, "discovery")
    /\ Abandoned("discovery") = {} /\ AtMaximum("discovery") = {}
    /\ sl' = [sl EXCEPT ![s].pc = "work"]
    /\ UNCHANGED <<ledgerVars, files, trouble>>

(***************************************************************************)
(* discover_one, from the claim on.                                        *)
(***************************************************************************)

(* F1's run row is committed before the request intent.                    *)
BeginRun(s) ==
    /\ sl[s].pc = "claimed" /\ sl[s].stage = "discovery" /\ Admits(s, 1)
    /\ f1' = [f1 EXCEPT ![sl[s].item].run = "begun"]
    /\ sl' = [sl EXCEPT ![s].pc = "begun"]
    /\ UNCHANGED <<item, lease, attempt, blocks, results, used, f5, outside, lock,
                   files, trouble>>

(* A gate or the slice's time refuses after the claim: nothing was sent,   *)
(* the claim is spent.                                                     *)
RefusedBeforeRequest(s) ==
    LET i == sl[s].item
        state == IF item[i].claims >= ItemMax THEN "failed" ELSE "retry_wait"
    IN  /\ sl[s].pc \in {"claimed", "begun"} /\ sl[s].stage = "discovery"
        /\ item' = [item EXCEPT
                      ![i] = AfterEvent(@, EvidenceOr(i, state), "record", s)]
        /\ sl' = [sl EXCEPT ![s] = Back([@ EXCEPT !.stop = "refused"])]
        /\ UNCHANGED <<lease, attempt, blocks, results, used, f1, f5, outside,
                       lock, files, trouble>>

(* finish_from_ledger, in a transaction of its own.                        *)
FinishRun(s) ==
    LET i == sl[s].item
    IN  /\ sl[s].pc = "finish"
        /\ \E r \in SUCCESS : f1' = [f1 EXCEPT ![i] = RunFinished(i, r)]
        /\ sl' = [sl EXCEPT ![s].pc = "settle"]
        /\ UNCHANGED <<item, lease, attempt, blocks, results, used, f5, outside,
                       lock, files, trouble>>

(* live_state: the item's state after one recorded attempt.                *)
LiveState(i, class) ==
    CASE class = "block" -> "blocked"
      [] class = "ok" -> f1[i].won
      [] class = "retryable" /\ item[i].claims < ItemMax -> "retry_wait"
      [] OTHER -> "failed"

Settle(s) ==
    LET i == sl[s].item
        state == EvidenceOr(i, LiveState(i, attempt[i].outcome))
    IN  /\ sl[s].pc = "settle"
        /\ item' = [item EXCEPT ![i] = AfterEvent(@, state, "record", s)]
        /\ sl' = [sl EXCEPT ![s] = Back(@)]
        /\ UNCHANGED <<lease, attempt, blocks, results, used, f1, f5, outside,
                       lock, files, trouble>>

DiscoveryStep(s) ==
    \/ \E i \in Discovery : \/ FinishAbandonedRun(s, i)
                            \/ PromoteDiscovery(s, i)
                            \/ TerminaliseDiscovery(s, i)
    \/ DiscoveryReconciled(s)
    \/ BeginRun(s) \/ RefusedBeforeRequest(s)
    \/ FinishRun(s) \/ Settle(s)
=============================================================================
