--------------------------- MODULE BackfillRunner ---------------------------
(***************************************************************************)
(* HB-6 (src/worker/backfill_ops): the single runner. A timer process and  *)
(* an operator's shell start wake-ups; the shell also runs F6.4 commands.  *)
(* A wake-up claims, passes its gates, does HB-5's work, and runs one      *)
(* document slice. Composed with F6.4 and HB-5, with crashes, late         *)
(* evidence, re-queues and the owner's decisions.                          *)
(***************************************************************************)
EXTENDS BackfillF6

CONSTANTS Timer,        \* the process the systemd timer starts
          FirstIssuer,  \* filing -> its issuer decision at discovery
          Block,        \* documents one arming decision allows
          ManualCost    \* bound: what an operator's command weighs

ASSUME RunnerAssumption ==
  /\ Timer \in Procs /\ Block \in Nat \ {0}
  /\ ManualCost \in Nat
  /\ FirstIssuer \in [Filings -> Issuers \cup {0}]

VARIABLE claims   \* a process's runner wake-up row: none, active, dead

vars == <<storeVars, f6Vars, arming, claims>>
dataVars == <<vruns, batches, records, config, shared, exclusive>>

Init ==
  /\ runs = <<>>
  /\ document = [f \in Filings |-> 0]
  /\ links = [f \in Filings |-> <<FirstIssuer[f]>>]
  /\ uploaded = [f \in Filings |-> 1]
  /\ vruns = {}
  /\ batches = [i \in Issuers |-> None]
  /\ records = [k \in Issuers \X Concepts |-> {}]
  /\ config = "none"
  /\ shared = {} /\ exclusive = None
  /\ passed = {} /\ trouble = 0
  /\ vitem = [f \in Filings |-> NotStarted]
  /\ ritem = [i \in Issuers \cup {None} |-> NotStarted]
  /\ ditem = [f \in Filings |-> "pending"]
  /\ arming = [armed |-> TRUE, docs |-> 0]
  /\ claims = [p \in Procs |-> "none"]
  /\ l = [p \in Procs |-> Idle]

-----------------------------------------------------------------------------
(* claim.py and the frame of the wake-up *)

\* An operator's command takes ManualCost of the budget of troubles.
Manual == trouble + ManualCost <= MaxTrouble /\ trouble' = trouble + ManualCost

\* A runner whose recording session lives; a dead row does not count.
live_runners == {q \in Procs : claims[q] = "active"}

\* The serializable read: busy, or on to the insert.
Wake(p) ==
  /\ l[p].pc = "idle"
  /\ live_runners = {}
  /\ IF p = Timer THEN UNCHANGED trouble ELSE Manual
  /\ Goto(p, [Idle EXCEPT !.cmd = "wake"], "claim")
  /\ UNCHANGED <<runs, document, links, uploaded, dataVars, passed, f6Vars, arming, claims>>

\* Mutant: the claim's transaction is not serializable.
Bugacquire(p) ==
  /\ l[p].pc = "claim"
  /\ claims' = [claims EXCEPT ![p] = "active"]
  /\ l' = [l EXCEPT ![p].pc = "gates"]
  /\ UNCHANGED <<runs, document, links, uploaded, dataVars, passed, trouble, f6Vars, arming>>

\* The insert commits only when no other claim did since this one's read.
acquire(p) ==
  /\ l[p].pc = "claim"
  /\ IF l[p].raced
     THEN Goto(p, Idle, "idle") /\ UNCHANGED claims
     ELSE /\ claims' = [claims EXCEPT ![p] = "active"]
          /\ l' = [q \in Procs |-> IF q = p THEN [l[p] EXCEPT !.pc = "gates"]
                     ELSE [l[q] EXCEPT !.raced = @ \/ l[q].pc = "claim"]]
  /\ UNCHANGED <<runs, document, links, uploaded, dataVars, passed, trouble, f6Vars, arming>>

\* expire_dead_wakeups, then the preflight, disk, block and clock gates.
Gates(p) ==
  /\ l[p].pc = "gates"
  /\ claims' = [q \in Procs |-> IF claims[q] = "dead" THEN "none" ELSE claims[q]]
  /\ \/ Goto(p, [l[p] EXCEPT !.armed = arming.armed], "f6") /\ UNCHANGED trouble
     \/ Goto(p, l[p], "finish") /\ Trouble
  /\ UNCHANGED <<runs, document, links, uploaded, dataVars, passed, f6Vars, arming>>

due_documents == {f \in Filings : ditem[f] = "pending"}

\* The document slice, up to the armed block: its first due document, which
\* is persisted or ends in a final failure. HB-2 reads the arming again under
\* its lock.
Slice(p) ==
  LET due == l[p].armed /\ arming.armed /\ arming.docs < Block /\ due_documents # {}
      f == Min(due_documents)
  IN /\ l[p].pc = "slice"
     /\ \/ /\ due
           /\ runs' = Append(runs, f)
           /\ \E d \in Documents[f] : document' = [document EXCEPT ![f] = d]
           /\ ditem' = Event(ditem, f, "persisted")
           /\ passed' = {}
           /\ l' = [q \in Procs |-> IF q = p THEN At(l[p], "finish") ELSE Touch(q)]
           /\ UNCHANGED trouble
        \/ /\ due /\ Trouble
           /\ ditem' = Event(ditem, f, "retrieval_failed")
           /\ Goto(p, l[p], "finish")
           /\ UNCHANGED <<runs, document, passed>>
        \/ /\ ~due
           /\ Goto(p, l[p], "finish")
           /\ UNCHANGED <<runs, document, ditem, passed, trouble>>
     /\ arming' = IF due THEN [arming EXCEPT !.docs = @ + 1] ELSE arming
     /\ UNCHANGED <<links, uploaded, dataVars, vitem, ritem, claims>>

finish_wakeup(p) ==
  /\ l[p].pc = "finish"
  /\ claims' = [claims EXCEPT ![p] = "none"]
  /\ Goto(p, Idle, "idle")
  /\ UNCHANGED <<runs, document, links, uploaded, dataVars, passed, trouble, f6Vars, arming>>

RunnerStep(p) == acquire(p) \/ Gates(p) \/ Slice(p) \/ finish_wakeup(p)

-----------------------------------------------------------------------------
(* The operator's F6.4 commands (financial_truth_store/cli.py) *)

Command(p) ==
  /\ p # Timer /\ l[p].pc = "idle" /\ Manual
  /\ \/ \E wait \in BOOLEAN :
          /\ pending_runs # {}
          /\ Goto(p, [Idle EXCEPT !.cmd = "validate", !.todo = pending_runs,
                                  !.wait = wait, !.back = "cnext"], "cnext")
     \/ \E scope \in Issuers \cup {None}, noval \in BOOLEAN :
          Goto(p, [Idle EXCEPT !.cmd = "reconcile", !.scope = scope,
                               !.noval = noval], "reconcile")
     \/ Goto(p, [Idle EXCEPT !.cmd = "cleanup"], "cleanup")
  /\ UNCHANGED <<runs, document, links, uploaded, dataVars, passed, f6Vars, arming, claims>>

\* validate --pending: every run of its list, whatever became of the others.
Command_next(p) ==
  /\ l[p].pc = "cnext"
  /\ IF l[p].todo = {} THEN Goto(p, Idle, "idle")
     ELSE LET f == Min(l[p].todo)
          IN Goto(p, [l[p] EXCEPT !.todo = @ \ {f}, !.run = f, !.res = "none"], "validate")
  /\ UNCHANGED <<runs, document, links, uploaded, dataVars, passed, trouble, f6Vars, arming, claims>>

-----------------------------------------------------------------------------
(* Crashes, late evidence, the operator and the owner *)

\* The process dies (its wake-up row stays active, its session gone), or
\* SIGTERM unwinds it (the row is finished); its locks go, its job stays.
Crash(p) ==
  /\ l[p].pc # "idle" /\ Trouble
  /\ \E row \in {"dead", "none"} :
       claims' = [claims EXCEPT ![p] = IF @ = "active" THEN row ELSE @]
  /\ shared' = shared \ {p}
  /\ exclusive' = IF exclusive = p THEN None ELSE exclusive
  /\ Goto(p, Idle, "idle")
  /\ UNCHANGED <<runs, document, links, uploaded, vruns, batches, records, config, passed,
                 f6Vars, arming>>

\* New evidence decides another issuer for a filing. The link pass over the
\* stored filings takes no claim and no lock of the truth store.
link_filing(f) ==
  /\ f \in Range(runs) /\ Trouble
  /\ \E i \in Issuers \cup {0} : i # current_issuer(f) /\ links' = [links EXCEPT ![f] = Append(@, i)]
  /\ Disturb
  /\ UNCHANGED <<runs, document, uploaded, dataVars, f6Vars, arming, claims>>

\* F1 sees another publication instant.
Upload_changed(f) ==
  /\ f \in Range(runs) /\ Trouble
  /\ uploaded' = [uploaded EXCEPT ![f] = @ + 1]
  /\ Disturb
  /\ UNCHANGED <<runs, document, links, dataVars, f6Vars, arming, claims>>

\* A final item back to pending.
requeue ==
  /\ Trouble
  /\ \/ \E f \in Filings : vitem[f] \in Final
          /\ vitem' = Event(vitem, f, "pending") /\ UNCHANGED ritem
     \/ \E i \in Issuers \cup {None} : ritem[i] \in Final
          /\ ritem' = Event(ritem, i, "pending") /\ UNCHANGED vitem
  /\ UNCHANGED <<runs, document, links, uploaded, dataVars, passed, l, ditem,
                 arming, claims>>

\* The owner designates, and arms: after a disarm, or the next block (its
\* checkpoint made) while documents are due.
Owner ==
  /\ \/ designate /\ UNCHANGED arming
     \/ /\ ~arming.armed \/ (arming.docs = Block /\ due_documents # {})
        /\ arming' = [armed |-> TRUE, docs |-> 0] /\ UNCHANGED config
  /\ UNCHANGED <<runs, document, links, uploaded, vruns, batches, records, shared, exclusive,
                 passed, trouble, l, f6Vars, claims>>

Disarm ==
  /\ arming.armed /\ Trouble
  /\ arming' = [armed |-> FALSE, docs |-> 0]
  /\ UNCHANGED <<runs, document, links, uploaded, dataVars, passed, l, f6Vars, claims>>

-----------------------------------------------------------------------------
Step(p) == \/ StoreStep(p) /\ UNCHANGED <<f6Vars, arming, claims>>
           \/ F6Step(p) /\ UNCHANGED claims
           \/ RunnerStep(p) \/ Command_next(p)

Next == \/ \E p \in Procs : Step(p) \/ Wake(p) \/ Command(p) \/ Crash(p)
        \/ \E f \in Filings : link_filing(f) \/ Upload_changed(f)
        \/ requeue \/ Owner \/ Disarm

\* The timer fires again and again and a started process runs on; the owner,
\* the operator and the troubles owe nothing.
Fairness == /\ \A p \in Procs : WF_vars(Step(p))
            /\ WF_vars(Wake(Timer))

Spec == Init /\ [][Next]_vars /\ Fairness

-----------------------------------------------------------------------------
(* Properties *)

\* The serializable claim admits one working runner, however two starts, a
\* death and the expiry of dead wake-ups interleave (claim.py).
Working(p) == l[p].cmd = "wake" /\ l[p].pc # "claim"
OneRunner == \A p, q \in Procs : Working(p) /\ Working(q) => p = q

\* mark_abandoned declares jobs dead because the exclusive lock excludes
\* running ones: the only job of a living process it ever marks is one that
\* found the lock busy and has still to record its refusal.
AbandonedIsDead == \A p \in Procs : l[p].job = "abandoned" => l[p].pc = "refuse"

\* What the current records of an issuer should hold: the observations of the
\* canonical validation runs of the selected F5 runs.
Expected(i) ==
  UNION {{o \in stored_observations(InputSet(f)) : issuer_of(o[1]) = i} : f \in select_runs(Range(runs))}
Reported(i) ==
  IF batches[i] = None THEN {}
  ELSE UNION {{<<vr, c>> : vr \in records[<<i, c>>]} : c \in batches[i].results}

\* A reconcile job that ended 'succeeded', with no evidence changed since it
\* started, leaves every issuer of its scope with exactly the current
\* evidence: nothing lost by an issuer stays reported, nothing is missing.
SucceededIsCurrent == \A i \in passed : Reported(i) = Expected(i)

\* What the runner reports as needing the operator or the owner, and the one
\* case it does not: a finished pass whose evidence changed later.
NeedsAttention(f) ==
  LET i == current_issuer(f)
  IN \/ ~arming.armed \/ config # "designated"
     \/ \E g \in pending_runs : vitem[g] \in Final
     \/ \E g \in due_documents : arming.docs = Block
     \/ i # 0 /\ ritem[i] \in Final /\ ~reconciled(InputSet(f))

\* Complete, or complete as far as its evidence goes. An item re-validated
\* under another decision before any promotion saw the gap keeps 'reconciled'
\* (promotion.decide takes nothing back while a canonical run exists): there
\* the stage an audit reports is the truth, not the item.
Complete(f) ==
  \/ ditem[f] = "reconciled" /\ evaluate_filing(f) = 9
  \/ evaluate_filing(f) \in {5, 7} /\ ditem[f] \in {"validated", "reconciled"}
  \/ f \notin select_runs(Range(runs)) /\ ditem[f] = "validated"

\* End to end: a persisted document is validated, reconciled and audited as
\* complete, or the operator has something to do, through crashed runners,
\* busy locks, lost ledger events and late evidence.
DocumentsReconcile ==
  \A f \in Filings : f \in Range(runs) ~> Complete(f) \/ NeedsAttention(f)
=============================================================================
