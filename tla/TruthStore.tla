----------------------------- MODULE TruthStore -----------------------------
(***************************************************************************)
(* F6.4, the financial truth store (src/worker/financial_truth_store): the *)
(* validate, reconcile and cleanup jobs with their session-level advisory  *)
(* lock, run by concurrent processes over committed rows.                  *)
(*                                                                         *)
(* One step is one transaction (or one lock attempt with the job row that  *)
(* follows it). A validation run is its input set: the F5 run, the issuer  *)
(* decision and the publication instant it was computed from (M4); its     *)
(* source observations follow from these three. A run carries the name of  *)
(* its filing.                                                             *)
(***************************************************************************)
EXTENDS Naturals, Sequences, FiniteSets, SequencesExt, FiniteSetsExt

CONSTANTS Procs,       \* processes that may run a command
          None,        \* no process, no batch; as a scope: every issuer
          Filings,     \* positive integers
          Issuers,     \* positive integers; 0 is "no evidenced issuer"
          Documents,   \* filing -> the documents (SHA-256) it may publish
          Reports,     \* filing -> the concepts its document reports
          MaxTrouble   \* bound on exceptional events in a behaviour

ASSUME TruthAssumption ==
  /\ Filings \subseteq Nat \ {0}
  /\ Issuers \subseteq Nat \ {0}
  /\ IsFiniteSet(Filings) /\ IsFiniteSet(Issuers)
  /\ None \notin Procs \cup Issuers
  /\ MaxTrouble \in Nat

VARIABLES runs,       \* F5 runs in the order they were recorded
          document,   \* filing -> the document its F5 run read (0: none yet)
          links,      \* filing -> its issuer decisions, oldest first
          uploaded,   \* filing -> its publication instant (a version number)
          vruns,      \* validation runs
          batches,    \* issuer -> its latest reconciliation batch
          records,    \* <<issuer, concept>> -> inputs of its latest record
          config,     \* the configuration: none, registered, designated
          shared,     \* holders of the shared F6 lock
          exclusive,  \* holder of the exclusive F6 lock
          passed,     \* issuers with a succeeded pass since the last change
          trouble,    \* exceptional events so far
          l           \* local state of each process

storeVars == <<runs, document, links, uploaded, vruns, batches, records, config, shared,
               exclusive, passed, trouble, l>>

Concepts == UNION {Reports[f] : f \in Filings}

\* An observation: its validation run and the concept it reports. A batch:
\* what it was computed from, and the concepts it has a record for.
Observations == (Filings \X Nat \X Nat) \X Concepts
Batches == [fp : [sel : SUBSET Filings, sos : SUBSET Observations],
            results : SUBSET Concepts]

ASSUME BatchAssumption == None \notin Batches

Final == {"succeeded", "failed"}

Idle == [pc |-> "idle", cmd |-> "none", back |-> "idle", job |-> "none",
         run |-> 0, vr |-> <<>>, res |-> "none", wait |-> FALSE, scope |-> None,
         noval |-> FALSE, todo |-> {}, sel |-> {}, parts |-> {},
         docs |-> <<>>, blocked |-> {}, bad |-> FALSE, clean |-> TRUE,
         left |-> 0, ran |-> FALSE, desig |-> FALSE, steps |-> <<>>,
         iss |-> {}, ready |-> {}, raced |-> FALSE, armed |-> FALSE]

At(s, pc) == IF pc = "idle" THEN Idle ELSE [s EXCEPT !.pc = pc]
Goto(p, s, pc) == l' = [l EXCEPT ![p] = At(s, pc)]
Trouble == trouble < MaxTrouble /\ trouble' = trouble + 1

\* Where an exception ends a command: a wake-up still records its error.
Abort(s) == IF s.cmd = "wake" THEN "finish" ELSE "idle"

\* A committed change of the evidence: no earlier pass vouches for it, nor
\* does the one now running.
Touch(p) == [l[p] EXCEPT !.clean = @ /\ exclusive # p]
Disturb == /\ passed' = {}
           /\ l' = [p \in Procs |-> Touch(p)]

-----------------------------------------------------------------------------
(* Selection: selection.py and the M4 view *)

current_issuer(f) == Last(links[f])
issuer_of(vr) == links[vr[1]][vr[2]]
InputSet(f) == <<f, Len(links[f]), uploaded[f]>>
canonical_validation_run(f) == {InputSet(f)} \cap vruns
pending_runs == {f \in Range(runs) : canonical_validation_run(f) = {}}

\* One run per document: the last recorded.
select_runs(rs) ==
  {f \in rs : \A g \in rs : document[g] = document[f] =>
     Max({n \in DOMAIN runs : runs[n] = g})
        <= Max({n \in DOMAIN runs : runs[n] = f})}

\* Without an evidenced issuer no candidate is admitted.
stored_observations(vr) ==
  IF issuer_of(vr) = 0 THEN {} ELSE {<<vr, c>> : c \in Reports[vr[1]]}
run_issuer(vr) == {issuer_of(vr) : o \in stored_observations(vr)}

\* Mutant: an issuer that lost its last document is no partition.
Bugissuers_with_facts == {}
issuers_with_facts ==
  {i \in Issuers : batches[i] # None /\ batches[i].results # {}}

\* financial_fact_provenance: the inputs of the records that the latest
\* batches report.
provenance == {vr \in vruns : \E i \in Issuers : batches[i] # None
                 /\ \E c \in batches[i].results : vr \in records[<<i, c>>]}

-----------------------------------------------------------------------------
(* The validate job; take_lock = FALSE is a child of a reconcile job *)

\* Mutant: the exclusive lock granted beside shared holders.
Buglock_exclusive(p) == exclusive = None
lock_exclusive(p) == exclusive = None /\ shared \subseteq {p}
start_job(s) == [s EXCEPT !.job = "started"]
Child(p) == l[p].back = "child"

\* lock_shared and the job row; without wait a held lock leads to a job that
\* only records its refusal.
LockShared(p) ==
  /\ l[p].pc = "validate"
  /\ \/ /\ exclusive = None
        /\ shared' = shared \cup {p}
        /\ Goto(p, start_job(l[p]), "compute")
     \/ /\ exclusive # None /\ ~l[p].wait
        /\ Goto(p, start_job(l[p]), "refuse")
        /\ UNCHANGED shared
  /\ UNCHANGED <<runs, document, links, uploaded, vruns, batches, records, config,
                 exclusive, passed, trouble>>

\* The input set as committed now.
compute_validation(p) ==
  /\ l[p].pc = "compute"
  /\ Goto(p, [l[p] EXCEPT !.vr = InputSet(l[p].run)], "insert")
  /\ UNCHANGED <<runs, document, links, uploaded, vruns, batches, records, config,
                 shared, exclusive, passed, trouble>>

\* Rows and 'succeeded' in one transaction; a committed twin (also one that
\* won the race for the natural key) is 'already_present'.
Insert(p, state) ==
  LET s == [l[p] EXCEPT !.res = state, !.vr = <<>>,
                        !.run = IF Child(p) THEN 0 ELSE @,
                        !.job = IF Child(p) THEN @ ELSE "none",
                        !.bad = @ \/ (Child(p) /\ state = "failed")]
  IN /\ l[p].pc = "insert"
     /\ Goto(p, s, s.back)
     /\ shared' = shared \ {p}
     /\ UNCHANGED <<runs, document, links, uploaded, batches, records, config,
                    exclusive, passed>>

insert_validation(p) ==
  \/ l[p].vr \notin vruns /\ vruns' = vruns \cup {l[p].vr}
     /\ Insert(p, "succeeded") /\ UNCHANGED trouble
  \/ l[p].vr \in vruns /\ Insert(p, "already_present")
     /\ UNCHANGED <<vruns, trouble>>
  \/ Trouble /\ Insert(p, "failed") /\ UNCHANGED vruns

\* The 'refused' event of a busy job. The event guard lets nothing follow a
\* final state: a job already marked abandoned ends its command in an error.
Refuse(p) ==
  /\ l[p].pc = "refuse"
  /\ IF l[p].job = "started"
     THEN Goto(p, [l[p] EXCEPT !.job = "none", !.res = "refused"], l[p].back)
     ELSE Goto(p, Idle, Abort(l[p]))
  /\ UNCHANGED <<runs, document, links, uploaded, vruns, batches, records, config,
                 shared, exclusive, passed, trouble>>

-----------------------------------------------------------------------------
(* The reconcile and cleanup jobs *)

\* load_configuration, then the lock attempt and the job row.
LockExclusive(p) ==
  /\ l[p].pc \in {"reconcile", "cleanup"}
  /\ IF l[p].pc = "reconcile" /\ config = "none"
     THEN Goto(p, [l[p] EXCEPT !.res = "refused"], l[p].back) /\ UNCHANGED exclusive
     ELSE IF lock_exclusive(p)
     THEN /\ exclusive' = p
          /\ Goto(p, [start_job(l[p]) EXCEPT !.clean = TRUE],
                  IF l[p].pc = "cleanup" THEN "sweep" ELSE "mark")
     ELSE Goto(p, start_job(l[p]), "refuse") /\ UNCHANGED exclusive
  /\ UNCHANGED <<runs, document, links, uploaded, vruns, batches, records, config,
                 shared, passed, trouble>>

\* Every other job still at 'started' becomes 'abandoned'.
mark_abandoned(p, s) ==
  l' = [q \in Procs |-> IF q = p THEN s ELSE
          [l[q] EXCEPT !.job = IF @ = "started" THEN "abandoned" ELSE @]]

Ended(s, state) ==
  At([s EXCEPT !.job = "none", !.res = state, !.sel = {}, !.docs = <<>>,
               !.blocked = {}, !.bad = FALSE, !.clean = TRUE], s.back)

cleanup(p) ==
  /\ l[p].pc = "sweep"
  /\ mark_abandoned(p, Ended(l[p], "succeeded"))
  /\ exclusive' = None
  /\ UNCHANGED <<runs, document, links, uploaded, vruns, batches, records, config,
                 shared, passed, trouble>>

\* mark_abandoned, then steps 1-2: one run per document, and those without
\* their canonical validation run.
Select(p) ==
  LET sel == select_runs(Range(runs))
      missing == sel \cap pending_runs
      refused == missing # {} /\ l[p].noval
  IN /\ l[p].pc = "mark"
     /\ mark_abandoned(p, IF refused THEN Ended(l[p], "refused")
                          ELSE [l[p] EXCEPT !.pc = "child", !.sel = sel,
                                            !.todo = missing])
     /\ exclusive' = IF refused THEN None ELSE p
     /\ UNCHANGED <<runs, document, links, uploaded, vruns, batches, records, config,
                    shared, passed, trouble>>

\* Step 2: the missing validations, in the job's own session.
Validate_missing(p) ==
  /\ l[p].pc = "child" /\ l[p].todo # {}
  /\ LET f == Min(l[p].todo)
     IN Goto(p, [l[p] EXCEPT !.todo = @ \ {f}, !.run = f, !.back = "child"],
             "compute")
  /\ UNCHANGED <<runs, document, links, uploaded, vruns, batches, records, config,
                 shared, exclusive, passed, trouble>>

\* Step 3: partitions by issuer. A selected run still without its canonical
\* validation run blocks its filing's current issuer.
Partition(p) ==
  LET sel == l[p].sel
      with == {f \in sel : canonical_validation_run(f) # {}}
      docs == [i \in Issuers |->
                 {document[f] : f \in {g \in with : i \in run_issuer(InputSet(g))}}]
      blocked == {current_issuer(f) : f \in sel \ with} \ {0}
      parts == {i \in Issuers : docs[i] # {}} \cup issuers_with_facts \cup blocked
  IN /\ l[p].pc = "child" /\ l[p].todo = {}
     /\ Goto(p, [l[p] EXCEPT !.docs = docs, !.blocked = blocked, !.sel = {},
                             !.back = IF l[p].cmd = "wake" THEN "revent" ELSE "idle",
                             !.parts = IF l[p].scope = None THEN parts
                                       ELSE parts \cap {l[p].scope}], "part")
     /\ UNCHANGED <<runs, document, links, uploaded, vruns, batches, records, config,
                    shared, exclusive, passed, trouble>>

\* plan_partition: the state of one issuer's pass in its snapshot.
plan_partition(i, docs) ==
  LET sel == select_runs({f \in Range(runs) : document[f] \in docs})
      sos == UNION {stored_observations(InputSet(f)) : f \in sel}
      fp  == [sel |-> sel, sos |-> sos]
  IN [fp |-> fp,
      state |-> IF \/ sel \cap pending_runs # {}
                   \/ \E o \in sos : issuer_of(o[1]) # i
                THEN "inputs_changed"
                ELSE IF batches[i] # None /\ batches[i].fp = fp THEN "unchanged"
                ELSE "planned"]

Advance(p, i, bad) ==
  Goto(p, [l[p] EXCEPT !.parts = @ \ {i}, !.bad = @ \/ bad], "part")

\* One partition, in issuer order, in its own transaction.
reconcile_partition(p) ==
  LET i == Min(l[p].parts)
      plan == plan_partition(i, l[p].docs[i])
      results == {o[2] : o \in plan.fp.sos}
  IN /\ l[p].pc = "part" /\ l[p].parts # {}
     /\ \/ /\ IF i \notin l[p].blocked /\ plan.state = "planned"
              THEN /\ batches' = [batches EXCEPT ![i] = [fp |-> plan.fp, results |-> results]]
                   /\ records' = [k \in DOMAIN records |->
                        IF k[1] = i /\ k[2] \in results
                        THEN {o[1] : o \in {x \in plan.fp.sos : x[2] = k[2]}}
                        ELSE records[k]]
              ELSE UNCHANGED <<batches, records>>
           /\ Advance(p, i, i \in l[p].blocked \/ plan.state = "inputs_changed")
           /\ UNCHANGED trouble
        \/ /\ Trouble /\ Advance(p, i, TRUE)
           /\ UNCHANGED <<batches, records>>
     /\ UNCHANGED <<runs, document, links, uploaded, vruns, config, shared, exclusive, passed>>

Final_event(p) ==
  /\ l[p].pc = "part" /\ l[p].parts = {}
  /\ l' = [l EXCEPT ![p] = Ended(l[p], IF l[p].bad THEN "failed" ELSE "succeeded")]
  /\ exclusive' = None
  /\ passed' = IF ~l[p].bad /\ l[p].clean
               THEN passed \cup (IF l[p].scope = None THEN Issuers ELSE {l[p].scope})
               ELSE passed
  /\ UNCHANGED <<runs, document, links, uploaded, vruns, batches, records, config,
                 shared, trouble>>

-----------------------------------------------------------------------------
StoreStep(p) ==
  \/ LockShared(p) \/ compute_validation(p) \/ insert_validation(p) \/ Refuse(p)
  \/ LockExclusive(p) \/ cleanup(p) \/ Select(p) \/ Validate_missing(p)
  \/ Partition(p) \/ reconcile_partition(p) \/ Final_event(p)

\* register_configuration is content-addressed; designate is the owner's.
register_configuration == config' = IF config = "none" THEN "registered" ELSE config
designate == config = "registered" /\ config' = "designated"
=============================================================================
