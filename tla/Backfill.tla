------------------------------ MODULE Backfill ------------------------------
(***************************************************************************)
(* The backfill's CSE side as one system: the ledger (HB-1) with its owner,*)
(* the transport (HB-2), the discovery and document stages (HB-3, HB-4,    *)
(* F2), and P2/P3 as the other users of the lock and of the budget.        *)
(***************************************************************************)
EXTENDS BackfillDocuments

Init ==
    /\ LedgerInit
    /\ sl = [s \in Slices |-> IdleSlice]
    /\ files = {}
    /\ trouble = 0

SliceStep(s) == TransportStep(s) \/ DiscoveryStep(s) \/ DocumentStep(s)

Next ==
    \/ \E s \in Slices : SliceStep(s)
    \/ \E i \in Items : Corrupt(i)
    \/ LedgerEnvironment /\ UNCHANGED <<sl, files, trouble>>

Spec == Init /\ [][Next]_vars

(***************************************************************************)
(* Properties.                                                             *)
(***************************************************************************)

(* Close and expire_dead: an item in flight, or an attempt without an      *)
(* outcome, always belongs to an active lease, so that the next slice      *)
(* under P2's lock finds it.                                               *)
NothingStranded ==
    /\ \A i \in Items :
          item[i].state \in IN_FLIGHT => item[i].lease \in ActiveLeases
    /\ \A i \in Items :
          attempt[i].outcome = "open" => attempt[i].by \in ActiveLeases

(* open_slice: only the session that holds P2's lock works under an active *)
(* lease, and no second lease is active beside it.                         *)
OneSliceAtWork ==
    \A s \in Slices :
       sl[s].pc \notin {"idle", "lock", "recover"} /\ sl[s].up =>
          lock = s /\ ActiveLeases = {s}

(* gates.request_refusals: whatever P2, P3 and the calendar do between the *)
(* admission and the intent, no request goes past the daily budget or,     *)
(* with P2's own requests, past the combined ceiling.                      *)
BudgetKept ==
    [][used' > used => used' <= DailyBudget /\ used' + p2used <= Ceiling]_vars

(* states.check and hb_item_event_guard: every event of every code path is *)
(* one the state machine allows (a transaction may append up to three, and *)
(* a claim is counted), so no slice dies on an event the database refuses. *)
Moves(i, claimed) ==
    {<<t[1], t[2]>> : t \in {u \in Transitions(i) : u[3] = "claim" => claimed}}

EventsLegal ==
    [][\A i \in Items :
          LET may(a, b) ==
                 a = b \/ <<a, b>> \in Moves(i, item'[i].claims > item[i].claims)
          IN  \E x, y \in {item[i].state, "requesting", "processing",
                           "retry_wait"} :
                 /\ may(item[i].state, x) /\ may(x, y)
                 /\ may(y, item'[i].state)]_vars

(* Recovery spool-first: once an answer to a discovery request was         *)
(* recorded as ok, by the slice or by whoever recovered it, the request is *)
(* not sent again unless the operator re-queues the item; and a claim      *)
(* sends one request at most.                                              *)
NoRepeatedRequest ==
    [][\A i \in Discovery : item'[i].sent > item[i].sent =>
          /\ item[i].sent > 0 => attempt[i].outcome # "ok"
          /\ item'[i].sent <= item[i].claims]_vars

(* temproot.sweep and F2's verified deletion: a document is downloaded     *)
(* only into a temporary root in which no earlier document can remain.     *)
DownloadsIntoCleanRoot ==
    [][\A s \in Slices : sl[s].pc = "claimed" /\ sl'[s].pc = "fetch" =>
          files = {}]_vars

(* The whole protocol of slices, leases and recovery implements the        *)
(* promise about requests.                                                 *)
Requests ==
    INSTANCE AttemptLedger WITH
        open <- {i \in Items : attempt[i].outcome = "open"},
        heard <- [i \in Items |-> IF attempt[i].outcome = "open"
                                  THEN attempt[i].spooled ELSE None],
        outcome <- [i \in Items |-> attempt[i].outcome],
        halted <- blocks # {} \/ p2blocks

(* HB-2 with its stages: one request at a time, none while a block awaits  *)
(* the owner, and no durable answer is lost or contradicted.               *)
ImplementsAttemptLedger == Requests!Spec
=============================================================================
