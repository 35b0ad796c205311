---------------------------- MODULE IssuerLinks ----------------------------
(***************************************************************************)
(* Who issued a filing, from CSE's answers to the links that F6 and F8     *)
(* read.  HB-3's discovery stores listing answers through F1, its link     *)
(* passes (worker/backfill_discovery/identity.py) choose what F5 records   *)
(* and hold back what would only create a dispute for lack of evidence,    *)
(* the owner resolves the holds, worker/link_issuers.py records by hand,   *)
(* and the document worker links the filing it persists.                   *)
(*                                                                         *)
(* F5's tables are append-only and shared.  A writer's rows carry it in    *)
(* tx until its transaction commits: it alone sees them, and an insert of  *)
(* the same key waits for it.  A row's place in its sequence is its id.    *)
(***************************************************************************)
EXTENDS FilingDiscovery, FiniteSetsExt

CONSTANTS
    Symbols,        \* securities CSE may list, numbered in their order
    Bodies,         \* company-info bodies a sweep may archive
    Imports,        \* the sets of bodies a run of the manual command reads
    Answers,        \* listing answers: [symbol -> the possible answers]
    FeedAnswers,    \* answers of the feed for the month of W
    Captures,       \* derived P2 captures: what each says of the universe
    Window,         \* upload times that lie in W
    MaxLate,        \* bound: late passes
    MaxTrouble      \* bound: crashes, answers lost, masters after the first,
                    \* manual runs, links by the worker, rulings

ASSUME IssuerAssumption ==
    /\ Symbols \subseteq Nat \ {0} /\ {MaxLate, MaxTrouble} \subseteq Nat
    /\ DOMAIN Answers = Symbols
    /\ None \notin {"pass", "shell", "worker", "pending", "succeeded", "partial",
                    "failed", "acquire_evidence", "record_as_is"}
    /\ \A c \in Captures : {x.symbol : x \in c.results} \subseteq Symbols

VARIABLES
    current,        \* report_filings: the entries in force, one per source
    item,           \* discovery items: natural key -> state
    answer,         \* the archived answer behind a listing that succeeded
    capture,        \* the latest derived P2 capture
    companies,      \* the securities that have a `companies` row
    swept,          \* bodies of the qualifying sweeps after that capture
    seen,           \* issuer_identifier_observations: [o, tx]
    issuers,        \* issuers: [sec, tx]
    securities,     \* issuer_securities: symbol -> sequence of [dec, tx]
    links,          \* filing_issuer_links: filing -> sequence of [dec, tx]
    holds,          \* backfill_holds with the owner's resolution in force
    passes,         \* link_pass items: [kind, plan, no, done]
    proc,           \* the writers: link pass, manual command, worker
    trouble         \* what has been spent of MaxTrouble

f1Vars == <<current, item, answer>>
marketVars == <<capture, companies, swept>>
issuerVars == <<seen, issuers, securities, links>>
vars == <<f1Vars, marketVars, issuerVars, holds, passes, proc, trouble>>

Procs == {"pass", "shell", "worker"}
Filings == {e.filing : e \in
    (UNION {collect(Rows(a), Listing, s) : s \in Symbols, a \in UNION {Answers[t] : t \in Symbols}})
    \cup UNION {collect(Rows(a), Feed, None) : a \in FeedAnswers}}
FeedKey == 0
Keys == Symbols \cup {FeedKey}

(***************************************************************************)
(* The security master and the plan.  A capture is [body, results], the    *)
(* body None when its archived bytes fail verification; a result says      *)
(* whether the security has its `companies` row.                           *)
(***************************************************************************)
status(c) ==
    LET planned == {r.symbol : r \in {x \in c.results : x.company /\ x.symbol \in c.body}}
    IN  IF c = None \/ c.body = None \/ c.body = {} \/ planned = {} THEN None
        ELSE planned

(* The window is fixed, so the universe is the plan's fingerprint.         *)
Plan == status(capture)
PlanKeys == Plan \cup {FeedKey}

SUCCESS == {"succeeded", "partial"}
FINAL == SUCCESS \cup {"failed"}

closed == \A k \in PlanKeys : item[k] \in FINAL

(***************************************************************************)
(* What a writer reads.                                                    *)
(***************************************************************************)
Seen(p) == {r.o : r \in {x \in seen : x.tx \in {None, p}}}
Recorded == Seen(None)
IssuersOf(p) == {r.sec : r \in {x \in issuers : x.tx \in {None, p}}}

CurrentOf(rows, p) ==
    LET mine == SelectSeq(rows, LAMBDA r : r.tx \in {None, p})
    IN  IF mine = <<>> THEN None ELSE Last(mine).dec

Row(f) == normalize_filing({e \in current : e.filing = f}, companies)
Stored == {e.filing : e \in current}
InWindow == {f \in Stored : Row(f).uploaded_at \in Window}

(***************************************************************************)
(* The hold rule.                                                          *)
(***************************************************************************)
(* Mutant: the batch is judged alone.                                      *)
Bugheld_sec_ids(recorded, batch) ==
    {sec \in disputed_sec_ids(batch) :
        \A f \in AllFailures(batch, sec) : f[1] = Insufficient}

held_sec_ids(recorded, batch) ==
    {sec \in disputed_sec_ids(recorded \cup batch) \ disputed_sec_ids(recorded) :
        \A f \in AllFailures(recorded \cup batch, sec) : f[1] = Insufficient}

(* Mutant: the simulation alone decides what is held.                      *)
Bugowner_held == {}

owner_held == {h.o : h \in {x \in holds : x.resolution \in {None, "keep_held"}}}

(* split_batch, with the observations the owner has not released.          *)
Held(recorded, batch) ==
    LET free == batch \ owner_held
    IN  (batch \cap owner_held)
        \cup {o \in free : o.symbol # None /\ o.sec \in held_sec_ids(recorded, free)}

(***************************************************************************)
(* F5's inserts, in the transaction of p.                                  *)
(***************************************************************************)
Insert(rows, dec, p) ==
    IF \E i \in DOMAIN rows : rows[i].dec = dec THEN rows
    ELSE Append(rows, [dec |-> dec, tx |-> p])

(* record_observations.                                                    *)
SeenWith(obs, p) ==
    seen \cup {[o |-> o, tx |-> p] : o \in obs \ {r.o : r \in seen}}

Decisions(obs) ==
    [s \in Symbols |-> IF s \in companies THEN decide_securities(obs, s) ELSE None]

EvidencedSecs(obs) ==
    {Decisions(obs)[s].sec :
        s \in {t \in Symbols : /\ Decisions(obs)[t] # None
                               /\ Decisions(obs)[t].status = "evidenced"}}

(* resolve_securities, from the observations p sees.                       *)
IssuersWith(obs, p) ==
    issuers \cup {[sec |-> x, tx |-> p] : x \in EvidencedSecs(obs) \ {r.sec : r \in issuers}}

SecuritiesWith(obs, p) ==
    [s \in Symbols |-> IF Decisions(obs)[s] = None THEN securities[s]
                       ELSE Insert(securities[s], Decisions(obs)[s], p)]

(* link_filing: the reuse guard from every observation p sees.             *)
Link(f, p, obs, known, secs) ==
    decide_filing(Row(f).path, Row(f).listing_symbols,
                  [s \in Symbols |-> CurrentOf(secs[s], p)], known,
                  disputed_sec_ids(obs))

(* No row of an open transaction of another writer has the key of a row p  *)
(* is about to insert.                                                     *)
NoWait(p, obs, secIds, decs) ==
    /\ \A r \in seen : r.o \in obs => r.tx \in {None, p}
    /\ \A r \in issuers : r.sec \in secIds => r.tx \in {None, p}
    /\ \A s \in Symbols : \A i \in DOMAIN securities[s] :
          securities[s][i].dec = decs[s] => securities[s][i].tx \in {None, p}

NoWaitLink(p, f, dec) ==
    \A i \in DOMAIN links[f] : links[f][i].dec = dec => links[f][i].tx \in {None, p}

Settle(rows, p) ==
    [i \in DOMAIN rows |-> IF rows[i].tx = p THEN [rows[i] EXCEPT !.tx = None] ELSE rows[i]]
Without(rows, p) == SelectSeq(rows, LAMBDA r : r.tx # p)

commit(p) ==
    /\ seen' = {IF r.tx = p THEN [r EXCEPT !.tx = None] ELSE r : r \in seen}
    /\ issuers' = {IF r.tx = p THEN [r EXCEPT !.tx = None] ELSE r : r \in issuers}
    /\ securities' = [s \in Symbols |-> Settle(securities[s], p)]
    /\ links' = [f \in Filings |-> Settle(links[f], p)]

rollback(p) ==
    /\ seen' = {r \in seen : r.tx # p}
    /\ issuers' = {r \in issuers : r.tx # p}
    /\ securities' = [s \in Symbols |-> Without(securities[s], p)]
    /\ links' = [f \in Filings |-> Without(links[f], p)]

(***************************************************************************)
(* CSE, P2 and discovery.                                                  *)
(***************************************************************************)
Idle == [at |-> "idle", kind |-> None, plan |-> {}, no |-> 0, batch |-> {}, base |-> {},
         hold |-> {}, todo |-> {}]

Init ==
    /\ current = {} /\ item = [k \in Keys |-> None]
    /\ answer = [s \in Symbols |-> None]
    /\ capture = None /\ companies = {} /\ swept = {}
    /\ seen = {} /\ issuers = {} /\ holds = {} /\ passes = {}
    /\ securities = [s \in Symbols |-> <<>>]
    /\ links = [f \in Filings |-> <<>>]
    /\ proc = [p \in Procs |-> Idle]
    /\ trouble = 0

Spend(n) == trouble + n <= MaxTrouble /\ trouble' = trouble + n

(* A P2 market capture is derived: ensure_companies, and a new security    *)
(* master, after which earlier sweeps no longer qualify.                   *)
Derive(c) ==
    /\ c # capture /\ Spend(IF capture = None THEN 0 ELSE 1)
    /\ capture' = c /\ swept' = {}
    /\ companies' = companies \cup {r.symbol : r \in {x \in c.results : x.company}}
    /\ UNCHANGED <<f1Vars, issuerVars, holds, passes, proc>>

(* A qualifying sweep archives a body.                                     *)
Sweep(b) ==
    /\ capture # None /\ b \notin swept
    /\ swept' = swept \cup {b}
    /\ UNCHANGED <<f1Vars, capture, companies, issuerVars, holds, passes, proc, trouble>>

create_plan_items ==
    /\ Plan # None /\ \E k \in PlanKeys : item[k] = None
    /\ item' = [k \in Keys |-> IF k \in PlanKeys /\ item[k] = None THEN "pending" ELSE item[k]]
    /\ UNCHANGED <<current, answer, marketVars, issuerVars, holds, passes, proc, trouble>>

(* The discovery item of key k is requested and its answer stored by F1;   *)
(* the entries of `lost` fail one by one.                                  *)
Ingest(k, rows, endpoint, symbol, lost) ==
    LET kept == collect(rows, endpoint, symbol) \ lost
    IN  /\ current' = IF rows = None THEN current
                      ELSE FoldSet(LAMBDA e, cur : apply_observation(cur, e), current, kept)
        /\ item' = [item EXCEPT ![k] = RunStatus(rows, IF rows = None THEN {} ELSE lost)]
        /\ Spend(IF rows # None /\ lost = {} THEN 0 ELSE 1)
        /\ UNCHANGED <<marketVars, issuerVars, holds, passes, proc>>

Requestable(k) == Plan # None /\ k \in PlanKeys /\ item[k] = "pending"

discover_company_listing(s, a) ==
    /\ Requestable(s)
    /\ LET rows == extract_listing_buckets(a)
       IN  /\ \E lost \in {{}, IF rows = None THEN {} ELSE collect(rows, Listing, s)} :
                 Ingest(s, rows, Listing, s, lost)
           /\ answer' = [answer EXCEPT ![s] = IF rows = None THEN None ELSE a]

discover_feed_window(a) ==
    /\ Requestable(FeedKey)
    /\ Ingest(FeedKey, extract_feed_items(a), Feed, None, {})
    /\ UNCHANGED answer

(***************************************************************************)
(* The link passes.  Every commit is a step of its own.                    *)
(***************************************************************************)
ie2_batch == UNION {observations_from_company_info(b, b.query) : b \in swept}

(* Mutant: only listings that succeeded wholly.                            *)
Bugie4_batch ==
    UNION {observations_from_financials(answer[s].secs, s) :
              s \in {t \in Symbols : item[t] = "succeeded"}}

ie4_batch ==
    UNION {observations_from_financials(answer[s].secs, s) :
              s \in {t \in Symbols : item[t] \in SUCCESS}}

Pass == proc["pass"]
IsDone(kind, plan) == \E q \in passes : q.kind = kind /\ q.plan = plan /\ q.done
IdentityDone == IsDone("identity", {})

(* A pass item is created, or found, and its batch read.                   *)
Begin(kind, plan, no, batch) ==
    /\ Pass.at = "idle" /\ Plan # None
    /\ passes' = passes \cup {[kind |-> kind, plan |-> plan, no |-> no, done |-> FALSE]}
    /\ proc' = [proc EXCEPT !["pass"] =
                  [at |-> "hold", kind |-> kind, plan |-> plan, no |-> no, base |-> Recorded,
                   batch |-> batch, hold |-> Held(Recorded, batch), todo |-> {}]]
    /\ UNCHANGED <<f1Vars, marketVars, issuerVars, holds, trouble>>

identity_pass ==
    /\ swept # {} /\ ~ IdentityDone
    /\ Begin("identity", {}, 0, ie2_batch)

closure_pass ==
    /\ Plan # None /\ IdentityDone /\ closed /\ ~ IsDone("ie4", Plan)
    /\ Begin("ie4", Plan, 0, ie4_batch)

(* A late pass always takes a new number.                                  *)
late_pass ==
    LET n == Cardinality({q \in passes : q.kind = "late"})
    IN  /\ Plan # None /\ IsDone("ie4", Plan) /\ n < MaxLate
        /\ Begin("late", Plan, n + 1, ie2_batch)

To(step) == proc' = [proc EXCEPT !["pass"] = step]

(* record_batch: the holds first, each committed.                          *)
record_hold(o) ==
    /\ Pass.at = "hold" /\ o \in Pass.hold
    /\ holds' = IF \E h \in holds : h.o = o THEN holds
                ELSE holds \cup {[o |-> o, resolution |-> None, released |-> FALSE]}
    /\ To([Pass EXCEPT !.hold = @ \ {o}, !.batch = @ \ {o}])
    /\ UNCHANGED <<f1Vars, marketVars, issuerVars, passes, trouble>>

(* record_observations and resolve_securities by p, not yet committed.     *)
RecordAndResolve(p, obs) ==
    LET all == Seen(p) \cup obs
    IN  /\ NoWait(p, obs, EvidencedSecs(all), Decisions(all))
        /\ seen' = SeenWith(obs, p)
        /\ issuers' = IssuersWith(all, p)
        /\ securities' = SecuritiesWith(all, p)

record_batch ==
    /\ Pass.at = "hold" /\ Pass.hold = {}
    /\ RecordAndResolve("pass", Pass.batch)
    /\ To([Pass EXCEPT !.at = "recorded"])
    /\ UNCHANGED <<f1Vars, marketVars, links, holds, passes, trouble>>

(* apply_resolutions: each acquire_evidence hold is judged by itself.      *)
ToApply(recorded) ==
    {h.o : h \in {x \in holds :
        \/ x.resolution = "record_as_is"
        \/ x.resolution = "acquire_evidence" /\ held_sec_ids(recorded, {x.o}) = {}}}

apply_resolutions ==
    /\ Pass.at = "resolutions"
    /\ NoWait("pass", ToApply(Recorded), {}, [s \in Symbols |-> None])
    /\ seen' = SeenWith(ToApply(Recorded), "pass")
    /\ To([Pass EXCEPT !.at = "applied"])
    /\ UNCHANGED <<f1Vars, marketVars, issuers, securities, links, holds, passes, trouble>>

resolve_securities ==
    /\ Pass.at = "resolve"
    /\ RecordAndResolve("pass", {})
    /\ To([Pass EXCEPT !.at = "resolved"])
    /\ UNCHANGED <<f1Vars, marketVars, links, holds, passes, trouble>>

(* link_window: the filings of W, one by one, in one transaction.          *)
LinkIn(p, f) ==
    LET dec == Link(f, p, Seen(p), IssuersOf(p), securities)
    IN  /\ NoWaitLink(p, f, dec)
        /\ links' = [links EXCEPT ![f] = Insert(@, dec, p)]

link_window ==
    /\ Pass.at = "link" /\ Pass.todo # {}
    /\ LinkIn("pass", Min(Pass.todo))
    /\ To([Pass EXCEPT !.todo = @ \ {Min(Pass.todo)}])
    /\ UNCHANGED <<f1Vars, marketVars, seen, issuers, securities, holds, passes, trouble>>

CommitPass ==
    LET linking == [Pass EXCEPT !.at = "link", !.todo = InWindow]
        next == CASE Pass.at = "recorded" /\ Pass.kind = "late" ->
                        [Pass EXCEPT !.at = "resolutions"]
                  [] Pass.at = "recorded" /\ Pass.kind = "identity" ->
                        [Pass EXCEPT !.at = "done"]
                  [] Pass.at = "applied" -> [Pass EXCEPT !.at = "resolve"]
                  [] Pass.at = "link" -> [Pass EXCEPT !.at = "done"]
                  [] OTHER -> linking
    IN  /\ \/ Pass.at \in {"recorded", "applied", "resolved"}
           \/ Pass.at = "link" /\ Pass.todo = {}
        /\ commit("pass") /\ To(next)
        /\ UNCHANGED <<f1Vars, marketVars, holds, passes, trouble>>

Finish ==
    /\ Pass.at = "done"
    /\ passes' = {IF q.kind = Pass.kind /\ q.plan = Pass.plan /\ q.no = Pass.no
                  THEN [q EXCEPT !.done = TRUE] ELSE q : q \in passes}
    /\ To(Idle)
    /\ UNCHANGED <<f1Vars, marketVars, issuerVars, holds, trouble>>

(* The process dies, or a statement fails: the transaction is lost.        *)
Crash(p) ==
    /\ proc[p].at # "idle"
    /\ rollback(p) /\ proc' = [proc EXCEPT ![p] = Idle] /\ Spend(1)
    /\ UNCHANGED <<f1Vars, marketVars, holds, passes>>

(***************************************************************************)
(* The owner, the manual command and the document worker.                  *)
(***************************************************************************)
resolve_hold_as_owner(h, r) ==
    /\ h.resolution # r /\ Spend(1)
    /\ holds' = (holds \ {h}) \cup {[h EXCEPT !.resolution = r,
                                              !.released = @ \/ r # "keep_held"]}
    /\ UNCHANGED <<f1Vars, marketVars, issuerVars, passes, proc>>

(* link_issuers.run: bodies from files, the market tables or live          *)
(* requests; everything in one transaction, and no hold.                   *)
link_issuers(bodies) ==
    LET obs == UNION {observations_from_company_info(b, b.query) : b \in bodies}
    IN  /\ proc["shell"].at = "idle" /\ Spend(1)
        /\ RecordAndResolve("shell", obs)
        /\ proc' = [proc EXCEPT !["shell"] =
                      [Idle EXCEPT !.at = "link", !.batch = obs, !.todo = Stored]]
        /\ UNCHANGED <<f1Vars, marketVars, links, holds, passes>>

LinkStored ==
    LET me == proc["shell"]
    IN  /\ me.at = "link" /\ me.todo # {}
        /\ LinkIn("shell", Min(me.todo))
        /\ proc' = [proc EXCEPT !["shell"].todo = @ \ {Min(me.todo)}]
        /\ UNCHANGED <<f1Vars, marketVars, seen, issuers, securities, holds, passes, trouble>>

(* link_filing in the transaction that persists a document.                *)
link_filing(f) ==
    /\ proc["worker"].at = "idle" /\ f \in Stored /\ Spend(1)
    /\ LinkIn("worker", f)
    /\ proc' = [proc EXCEPT !["worker"].at = "link"]
    /\ UNCHANGED <<f1Vars, marketVars, seen, issuers, securities, holds, passes>>

Commit(p) ==
    /\ p # "pass" /\ proc[p].at = "link" /\ proc[p].todo = {}
    /\ commit(p) /\ proc' = [proc EXCEPT ![p] = Idle]
    /\ UNCHANGED <<f1Vars, marketVars, holds, passes, trouble>>

PassStep ==
    \/ identity_pass \/ closure_pass \/ late_pass
    \/ \E o \in Pass.hold : record_hold(o)
    \/ record_batch \/ apply_resolutions \/ resolve_securities \/ link_window
    \/ CommitPass \/ Finish

Next ==
    \/ \E c \in Captures : Derive(c)
    \/ \E b \in Bodies : Sweep(b)
    \/ create_plan_items
    \/ \E s \in Symbols : \E a \in Answers[s] : discover_company_listing(s, a)
    \/ \E a \in FeedAnswers : discover_feed_window(a)
    \/ PassStep
    \/ \E h \in holds, r \in {"acquire_evidence", "record_as_is", "keep_held"} :
          resolve_hold_as_owner(h, r)
    \/ \E bs \in Imports : link_issuers(bs)
    \/ LinkStored
    \/ \E f \in Filings : link_filing(f)
    \/ \E p \in Procs : Commit(p) \/ Crash(p)

Spec == Init /\ [][Next]_vars

(***************************************************************************)
(* Properties.                                                             *)
(***************************************************************************)
(* A held observation is the owner's to release: a pass never records one  *)
(* whose hold the owner has not once released, whatever evidence came      *)
(* later, whatever crashed and however often a batch is imported again     *)
(* (owner_held, record_batch, apply_resolutions).                          *)
HeldStaysOut ==
    [][\A r \in seen' \ seen : r.tx = "pass" =>
          ~ \E h \in holds : h.o = r.o /\ ~ h.released]_vars

InsufficientOnly(obs) ==
    {sec \in disputed_sec_ids(obs) :
        \A f \in AllFailures(obs, sec) : f[1] = Insufficient}

(* Holding removes exactly the disputes it is meant to: recording what is  *)
(* left of a batch creates no dispute that only lacks evidence, unless     *)
(* another writer recorded something since the pass read the evidence      *)
(* (held_sec_ids, split_batch).                                            *)
HoldsWork ==
    [][/\ Pass.at = "hold" /\ proc'["pass"].at = "recorded"
       /\ Pass.base = Recorded
       => InsufficientOnly({r.o : r \in {x \in seen' : x.tx \in {None, "pass"}}})
             \subseteq disputed_sec_ids(Recorded)]_vars

(* A plan whose IE-4 pass succeeded has lost no secId sighting: whatever   *)
(* its listings' archived answers say is recorded or held, across crashes  *)
(* between the holds, the records and the links (closure_pass).            *)
ClosureLosesNothing ==
    \A q \in passes : q.kind = "ie4" /\ q.done =>
       \A s \in q.plan : answer[s] # None =>
          observations_from_financials(answer[s].secs, s)
             \subseteq Recorded \cup {h.o : h \in holds}

(* A filing whose evidence names a disputed secId is not evidenced to that *)
(* secId's issuer once it has been linked again (issuer_identity, the      *)
(* reuse guard; issuer_store, a changed decision is a new row and the      *)
(* highest id is current).                                                 *)
DisputedNotEvidenced ==
    [][\A f \in Filings, p \in {"pass", "shell"} :
          /\ proc[p].at = "link" /\ f \in proc[p].todo
          /\ proc'[p].at = "link" /\ f \notin proc'[p].todo
          /\ path_sec_id(Row(f).path) \in disputed_sec_ids(Seen(p))
          => CurrentOf(links'[f], p).status # "evidenced"]_vars
=============================================================================
