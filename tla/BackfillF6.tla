----------------------------- MODULE BackfillF6 -----------------------------
(***************************************************************************)
(* HB-5 (src/worker/backfill_f6): what one wake-up does with F6.4, in      *)
(* order: a bounded validate-pending batch, the configuration registered,  *)
(* the promotion of document items, the reconcile passes that are due,     *)
(* promotion again. F6.4's jobs commit on their own; the ledger event of a *)
(* job is a later transaction.                                             *)
(***************************************************************************)
EXTENDS TruthStore

CONSTANTS ValidateBatch, ReconcileBatch   \* jobs of one call

VARIABLES vitem,     \* validate:<run> items
          ritem,     \* reconcile:<issuer> items; None: the final full pass
          ditem,     \* document items of the filings' current paths
          arming     \* the owner's decision: armed, documents under it

f6Vars == <<vitem, ritem, ditem>>

PERSISTED == {"persisted", "validated", "reconciled", "needs_validation"}
FINAL_DOCUMENT == PERSISTED \cup {"retrieval_failed"}
NotStarted == "none"

\* The end of HB-5's part of a wake-up.
Leave(p) == Goto(p, [Idle EXCEPT !.cmd = "wake", !.armed = l[p].armed], "slice")

Event(item, k, state) == [item EXCEPT ![k] = state]
ensure_item(item, k) == IF item[k] = NotStarted THEN Event(item, k, "pending") ELSE item

-----------------------------------------------------------------------------
(* validation.py *)

\* The batch's snapshot; recover records the pending items whose run is no
\* longer pending.
validate_pending(p) ==
  /\ l[p].pc = "f6"
  /\ vitem' = [f \in Filings |-> IF vitem[f] = "pending" /\ canonical_validation_run(f) # {}
                                 THEN "succeeded" ELSE vitem[f]]
  /\ Goto(p, [l[p] EXCEPT !.todo = {f \in pending_runs : vitem[f] \notin Final},
                          !.left = ValidateBatch, !.res = "none"], "vnext")
  /\ UNCHANGED <<runs, document, links, uploaded, vruns, batches, records, config, shared,
                 exclusive, passed, trouble, ritem, ditem, arming>>

Next_validation(p) ==
  LET s == l[p]
      f == Min(s.todo)
  IN /\ s.pc = "vnext"
     /\ IF s.todo = {} \/ s.left = 0 \/ s.res = "refused"
        THEN /\ Goto(p, [s EXCEPT !.todo = {}, !.left = 0, !.res = "none"], "config")
             /\ UNCHANGED vitem
        ELSE /\ vitem' = ensure_item(vitem, f)
             /\ Goto(p, [s EXCEPT !.todo = @ \ {f}, !.left = @ - 1, !.run = f,
                                  !.wait = FALSE, !.back = "vevent"], "validate")
     /\ UNCHANGED <<runs, document, links, uploaded, vruns, batches, records, config, shared,
                    exclusive, passed, trouble, ritem, ditem, arming>>

\* The ledger event of one job; a refused job leaves its item pending.
outcome_event(item, k, res) ==
  IF res = "refused" THEN item
  ELSE Event(item, k, IF res = "failed" THEN "failed" ELSE "succeeded")

Record_validation(p) ==
  /\ l[p].pc = "vevent"
  /\ vitem' = outcome_event(vitem, l[p].run, l[p].res)
  /\ Goto(p, [l[p] EXCEPT !.run = 0], "vnext")
  /\ UNCHANGED <<runs, document, links, uploaded, vruns, batches, records, config, shared,
                 exclusive, passed, trouble, ritem, ditem, arming>>

-----------------------------------------------------------------------------
(* configuration.py *)

\* Registered, never designated here; refused while there is no run.
Register(p) ==
  /\ l[p].pc = "config"
  /\ IF config # "designated" /\ runs # <<>> THEN register_configuration
     ELSE UNCHANGED config
  /\ Goto(p, [l[p] EXCEPT !.desig = config = "designated", !.ran = FALSE], "plan")
  /\ UNCHANGED <<runs, document, links, uploaded, vruns, batches, records, shared, exclusive,
                 passed, trouble, vitem, ritem, ditem, arming>>

-----------------------------------------------------------------------------
(* promotion.py *)

reconciled(vr) == config = "designated" /\ vr \in provenance

\* Mutant: a re-validated item is not taken up again.
Bugdecide(f) ==
  LET validated == ditem[f] = "persisted"
      step(to) == [f |-> f, to |-> to, vr |-> InputSet(f)]
  IN IF canonical_validation_run(f) = {}
     THEN IF (\E vr \in vruns : vr[1] = f) /\ ditem[f] # "needs_validation"
          THEN <<step("needs_validation")>> ELSE <<>>
     ELSE (IF validated THEN <<step("validated")>> ELSE <<>>)
          \o (IF (validated \/ ditem[f] = "validated") /\ reconciled(InputSet(f))
              THEN <<step("reconciled")>> ELSE <<>>)
\* The promotions of one document item, in order.
decide(f) ==
  LET ever == \E vr \in vruns : vr[1] = f
      validated == ditem[f] \in {"persisted", "needs_validation"}
      step(to) == [f |-> f, to |-> to, vr |-> InputSet(f)]
  IN IF canonical_validation_run(f) = {}
     THEN IF ever /\ ditem[f] # "needs_validation" THEN <<step("needs_validation")>> ELSE <<>>
     ELSE (IF validated THEN <<step("validated")>> ELSE <<>>)
          \o (IF (validated \/ ditem[f] = "validated") /\ reconciled(InputSet(f))
              THEN <<step("reconciled")>> ELSE <<>>)

\* Every due promotion, from one snapshot.
Plan(p) ==
  LET fs == SetToSortSeq({f \in Filings : ditem[f] \in PERSISTED}, <)
  IN /\ l[p].pc = "plan"
     /\ Goto(p, [l[p] EXCEPT !.steps = FlattenSeq([n \in DOMAIN fs |-> decide(fs[n])])],
             "apply")
     /\ UNCHANGED <<runs, document, links, uploaded, vruns, batches, records, config, shared,
                    exclusive, passed, trouble, vitem, ritem, ditem, arming>>

\* The database guard on a document event: the claim holds as it commits.
item_event_guard(e) ==
  CASE e.to = "validated"        -> canonical_validation_run(e.f) = {e.vr}
    [] e.to = "reconciled"       -> canonical_validation_run(e.f) = {e.vr} /\ reconciled(e.vr)
    [] e.to = "needs_validation" -> canonical_validation_run(e.f) = {}

promote_documents(p) ==
  LET s == l[p]
      e == Head(s.steps)
  IN /\ s.pc = "apply"
     /\ IF s.steps = <<>>
        THEN /\ IF s.desig /\ ~s.ran THEN Goto(p, s, "ready") ELSE Leave(p)
             /\ UNCHANGED ditem
        ELSE IF item_event_guard(e)
        THEN /\ ditem' = Event(ditem, e.f, e.to)
             /\ Goto(p, [s EXCEPT !.steps = Tail(@)], "apply")
        ELSE /\ Goto(p, Idle, Abort(s))
             /\ UNCHANGED ditem
     /\ UNCHANGED <<runs, document, links, uploaded, vruns, batches, records, config, shared,
                    exclusive, passed, trouble, vitem, ritem, arming>>

-----------------------------------------------------------------------------
(* readiness.py and reconcile.py *)

open_filings(i) == {f \in Filings : ditem[f] \notin FINAL_DOCUMENT /\ current_issuer(f) = i}
all_final == \A f \in Filings : ditem[f] \in FINAL_DOCUMENT

\* The issuers of the canonical validation runs' observations.
partition_issuers ==
  UNION {run_issuer(InputSet(f)) : f \in Range(runs) \ pending_runs}

\* Refused without a window, deferred while a validation is pending. `ready`
\* holds None when every filing is final.
Reconcile_ready(p) ==
  /\ l[p].pc = "ready"
  /\ IF ~arming.armed \/ pending_runs # {}
     THEN Leave(p)
     ELSE Goto(p, [l[p] EXCEPT !.iss = partition_issuers, !.left = ReconcileBatch, !.res = "none",
                               !.ready = {i \in Issuers : open_filings(i) = {}}
                                         \cup (IF all_final THEN {None} ELSE {})], "rnext")
  /\ UNCHANGED <<runs, document, links, uploaded, vruns, batches, records, config, shared,
                 exclusive, passed, trouble, vitem, ritem, ditem, arming>>

\* The due passes in issuer order, then the final full pass.
Next_pass(p) ==
  LET s == l[p]
      open == s.left > 0 /\ s.res # "refused"
      due == {i \in s.iss \cap s.ready : ritem[i] \notin Final}
      final == None \in s.ready /\ ritem[None] \notin Final /\ \A i \in s.iss : ritem[i] = "succeeded"
      subject == IF due # {} THEN Min(due) ELSE None
  IN /\ s.pc = "rnext"
     /\ IF open /\ (due # {} \/ final)
        THEN /\ ritem' = ensure_item(ritem, subject)
             /\ Goto(p, [s EXCEPT !.scope = subject, !.noval = TRUE, !.left = @ - 1, !.ran = TRUE,
                                  !.back = "revent"], "reconcile")
        ELSE /\ IF s.ran
                THEN Goto(p, [s EXCEPT !.iss = {}, !.ready = {}, !.left = 0, !.res = "none"], "plan")
                ELSE Leave(p)
             /\ UNCHANGED ritem
     /\ UNCHANGED <<runs, document, links, uploaded, vruns, batches, records, config, shared,
                    exclusive, passed, trouble, vitem, ditem, arming>>

Record_pass(p) ==
  /\ l[p].pc = "revent"
  /\ ritem' = outcome_event(ritem, l[p].scope, l[p].res)
  /\ Goto(p, [l[p] EXCEPT !.scope = None, !.noval = FALSE], "rnext")
  /\ UNCHANGED <<runs, document, links, uploaded, vruns, batches, records, config, shared,
                 exclusive, passed, trouble, vitem, ditem, arming>>

-----------------------------------------------------------------------------
(* coverage.py: what the audit of a wake-up reports. Its snapshot is       *)
(* append-only and no step reads it, so it is no state here.               *)

\* The stage an F5 run reached: 5 no candidate, 6 not validated, 7 refused for
\* want of an issuer, 8 not reconciled, 9 complete.
evaluate_run(f) ==
  CASE Reports[f] = {} -> 5
    [] canonical_validation_run(f) = {} -> 6
    [] run_issuer(InputSet(f)) = {} -> 7
    [] ~reconciled(InputSet(f)) -> 8
    [] OTHER -> 9

evaluate_filing(f) == IF f \in Range(runs) THEN evaluate_run(f) ELSE 2

-----------------------------------------------------------------------------
F6Step(p) ==
  \/ validate_pending(p) \/ Next_validation(p) \/ Record_validation(p) \/ Register(p)
  \/ Plan(p) \/ promote_documents(p) \/ Reconcile_ready(p) \/ Next_pass(p)
  \/ Record_pass(p)
=============================================================================
