# CSE analysis: TLA+ models, checks and proofs

A verification development for the CSE market-data and financial-filings system
in this repository: TLA+ modules translated from the Python workers and the SQL
migrations, TLC configurations that check them on small instances, and theorems
proved with TLAPS for every value of the constants.

`PROJECT.json` is the machine-readable side: components, runs, mutants, the map
from definitions to source lines, findings, hazards and theorems.

## 1. The system

The program collects end-of-day market data and financial filings of the Colombo
Stock Exchange. A single host runs Python commands (`src/worker`) from timers and
by hand; the only shared state is one PostgreSQL database, one spool directory
and the exchange's web API. There are no threads. The concurrency is between
*processes*: the hourly timer, an operator's command, the owner's decisions. The
difficulty lies in what is committed before a process dies and what the next
process makes of it.

| Component | State it keeps | Operations | Where it is hard | What makes it correct |
|---|---|---|---|---|
| **P2 market capture** (`market_capture/`, migrations 0012, 0013) | runs and run events, archived responses, block acknowledgements; per run a spool directory with a journal | start, resume, reprocess, recover, record-missed, acknowledge-block; verify, status, export (read only) | a crash between intent, request, spool and archive; the advisory lock is lost with the session; budget, breaker, retries and blocks in one loop | nothing spooled is lost or requested again; a number names one attempt; no request passes an unreviewed block; a succeeded run is complete; dead runs are cleared |
| **P3 scheduler** (`scheduler/`, 0014) | settings, wake-ups and leases, one item per trading date with an event history, the calendar | wake-up, retry, reprocess, add-item, declare-closed, arm/disarm | three ledgers that are committed separately; a clock read before the lock; manual captures of the same date; closing windows | items say what P2's runs prove; one deriving run per date; attempts, windows, back-off; every item closes |
| **HB-1 backfill ledger** (`financial_backfill/`, 0016) | items, item events, attempts, outcomes, leases, blocks, arming | claim, transition, lease, resolve | the item state machine is shared by five workers | transitions legal; one active lease; attempts have one outcome |
| **HB-2 governed transport** (`backfill_transport/`) | slices, spool pairs, budgets | open slice, request, close, recover dead leases | gates read before the lock, under it and before each request; intent and outcome separated by a crash; shares P2's lock and budget | every sent request is accounted for; no request outside gates or budget |
| **HB-3 discovery** (`backfill_discovery/`) | discovery and link-pass items, holds, security master | plan, discover a listing or a feed window, identity passes, hold, resolve, link | holds, records and links are separate transactions beside a manual command | no sighting is lost; what is held stays out until the owner releases it |
| **HB-4 documents** (`backfill_documents/`) | document items, retrieval results | claim, retrieve, persist, clean up | clean-up failure after persistence | no persisted document without its record; a download goes only into a clean root |
| **HB-5 F6 orchestration** (`backfill_f6/`) | validate, reconcile and document items | drive F6.4 jobs, promote | the job commits, its ledger event is a later transaction | a persisted document becomes reconciled or someone is told |
| **HB-6 runner** (`backfill_ops/`) | single-runner claim, armed block | acquire, wake the workers in order, release | a runner dies holding the claim | one runner; a dead one does not block |
| **F6.4 truth store** (`financial_truth_store/`, 0015) | validation runs, batches, records, jobs, configuration | validate (shared lock), reconcile, clean up (exclusive lock), designate | the evidence changes between the steps of a pass; jobs that died | a succeeded pass reports the current evidence and nothing else |
| **F6.3 truth algorithms** (`financial_truth/`) | none (pure) | admission, observations, OP-1, reconciliation | roundings of several documents | values that agree share an interval |
| **F8 as-of** (`financial_asof/`, 0017) | none (reads) | known-at, availability, supersession, selection | four kinds of rows, each with its own recording time | an answer about a settled instant never changes |
| **F1, issuer identity** (`report_discovery.py`, `issuer_*.py`, 0004, 0007) | filings and their versions, observations, issuers, links | parse, merge, decide, link | append-only decisions whose evidence goes back and forth | the current link follows the current evidence |
| **F2 to F5** (`document_retrieval.py`, `report_classification.py`, `statement_extraction.py`, `financial_candidates.py`) | documents, classifications, candidates | validate content, classify, extract, propose | four stages with their own fallbacks | trust is never gained on the way |
| **Backups** (`ops/`, 0011) | ledger rows, status files, dumps | dump, sync, check, restore check, status | the commit of the terminal status fails; two commands at once | no success that was not; silence means protected |
| **R-F4 store**, **migrations**, spool files | | save, load; plan, apply | | not modelled, section 6 |
| Stage E, host, timers, CI | end-of-day rows; systemd units, scripts | | | the timers keep firing |

**Interactions.** Everything that contacts the exchange serialises on one
PostgreSQL advisory lock, P2's. P3 takes that lock itself and calls P2's commands
with it held; HB-2 takes the same lock. P3 reads P2's runs and never writes their
states except through P2's functions; P2 knows nothing of P3. HB-3 to HB-5 work
on HB-1's items through HB-2's slices, HB-6 starts them in order, and HB-5 calls
F6.4, which applies F6.3. F8 reads what they leave. The owner's decisions
(acknowledge a block, arm, disarm, declare a date closed) are database rows that
every process reads at its own moment.

The hazards of this code, at the lines where they bite, are listed in
`PROJECT.json` with the properties that would catch them.

## 2. What is modelled

### MarketCapture: P2

State and code:

| Variable | Code |
|---|---|
| `lock` | the session-level advisory lock taken by `_locked` |
| `lost` | living processes whose PostgreSQL session has ended (the lock is then free) |
| `kind`, `runState` | `market_capture_runs`, and the latest row of `market_capture_run_events` |
| `acked` | `market_capture_block_acknowledgements` (one per run) |
| `journal` | the highest sequence number among the run's `intent` journal lines |
| `spooled` | attempts with a `spooled` journal line; they survive crashes |
| `archive` | rows of `market_source_responses` |
| `proc` | control point and locals of each process: the `Requester` (made, failures, try) and the `Archiver` (sequence counter) |
| `bounds` | what is left of the named bounds |

A command is `Begin` (the argument checks and the lock), then `_locked`'s
prologue (`Recover`, `RecoverDone`, `MarkAbandoned`, `MarkAbandonedDone`), then
`Refuse` / `CreateRun` / `RecordMissed`, `EnterFetch` or `EnterReprocess`. One
attempt is `Intent` (journal line), `Send`, `Reply`, `Spool` (record and journal
line), `Archive` (row, then `fetch`'s decision). `FetchDone` or `OutOfBudget` ends
the phase, `RecordState` summarises, derives and appends the final event, and
`Release` leaves the lock. Each step ends where something becomes durable or
visible to another process. `Crash` may happen at every step; `LoseSession` ends
a session under a living process, which continues only as far as code that needs
no database (`LocalOnly`: an attempt under way and its retries) and then aborts.
`SpoolFails`, `IntentFails` and `SpoolGateRefuses` are the spool errors.

Abstractions. Response bodies are their classified outcome and, for tradeSummary,
whether the session matches the trading date. All runs are for one trading date
and mode, the unit over which `record_missed` looks for a clash. Minimum spacing
and back-off durations are not modelled (no clock). Which of several absent
securities comes first is left open. Derivation counts as "produced something" or
not.

`CaptureLedger` is the abstract specification: what the rows of the run ledger
promise whoever reads them, without processes, locks, sessions or a spool. One run
at a time is running; before a run is created every dead one has been given up; no
run begins to capture while a block awaits the owner; 'succeeded' and 'partial' say
that the session of the date is archived, 'failed' that it is not; and a date is
recorded missed only while no run of it holds its session. MarketCapture implements
it (`ImplementsCaptureLedger`) under

    state, kind, acked <- the run's rows
    date               <- 1 once the run exists (all runs are for one date)
    shown              <- the archive holds the tradeSummary of the date's session

Scheduler's summary of P2's runs implements the same ledger, under

    state, kind, date, acked <- the summary of the run
    shown                    <- its archived tradeSummary shows its date's session

so that what P3 takes from P2 and what P2 does are held to one specification.

A recovery after a crash may show a session of a run that has ended long ago, and
a process that lost its session may still leave records for one: both are steps
`Show` of the ledger.

### Scheduler: P3

| Variable | Code |
|---|---|
| `clock` | the Colombo wall clock in ticks (`DayLength` per day) |
| `lock` | P2's advisory lock, which the wake-up holds from lease to release |
| `armed` | the owner's latest row of `market_schedule_settings` |
| `runs` | P2's ledger in creation order: state, session shown by the archived tradeSummary, whether the database already shows it (`e1`), missing requests, request cap, acknowledgement |
| `item` | latest item event with the count and time of its capture actions |
| `calendar`, `declaring` | `trading_calendar`, and a `declare-closed` between its check and its insert |
| `used` | requests archived per Colombo day |
| `lease` | the wake-up's lease row |
| `proc`, `bounds` | control points and locals; the named bounds |

A wake-up is `Wake` (reads the clock, *before* the lock), `Lock` (lock, settings,
lease, expiry of dead leases) or `Skip`, `Recover`, `Discover`, then for every
open item, oldest first, `Sync` (reconcile with `planner.evidence`) and the
decision of `planner.decide`: `Apply`, `MissedRun`/`MissedEvent`/`MissedItem`
(three commits), or `ReprocessDecided` ... `Reprocessed`. `Open` chooses at most
one capture; `StartCapture` commits the item's 'running' event, `P2Create`,
`P2Running`, `P2Fetch`, `Derive`, `Settle` are P2's command as the scheduler sees
it, `Outcome` writes the item event and the calendar, and reconciliation runs
once more. `ManualCapture`, `ManualMissed`, `OperatorReprocess`, `AddItem`,
`DeclareCheck`/`DeclareInsert`, `Arm`, `Disarm`, `AcknowledgeBlock` are the other
actors. An item event that the trigger of migration 0014 refuses makes the
wake-up end in an error.

Abstractions. P2's run is summarised; module MarketCapture has the detail. The
summary makes its own assumptions about P2 (one run is running at a time, dead runs
are given up before a run is created, no capture passes an unacknowledged block,
what 'succeeded', 'partial' and 'failed' say about the session, when a date may be
recorded missed); `CaptureLedger` is the statement of them, and both the summary
(`Scheduler!ImplementsCaptureLedger`) and the capture tool
(`MarketCapture!ImplementsCaptureLedger`) are checked and proved to implement it.
Heartbeats, reports and the backup marker file write nothing a decision reads.

### The backfill's requests: BackfillLedger, BackfillTransport, BackfillDiscovery, BackfillDocuments, Backfill

Four modules, each extending the one before, and `Backfill`, which composes them
with the owner, P2 and P3.

- `BackfillLedger` (HB-1): items with their event machine, leases, attempts,
  blocks, arming decisions, the shared daily budget; the actions of the owner
  (`Arm`, `AcknowledgeBlock`), of the operator (`Requeue`, `Resume`) and of P2, P3
  and the calendar (`P2Takes`, `P3Changes`, `NewColomboDay`).
- `BackfillTransport` (HB-2): `Start` (gates before the lock), `Acquire`, `Expire`
  (a dead lease's attempts recovered from the spool, or 'unrecorded', in the
  transaction that expires the lease), `OpenLease`, `Claim`, `Admit`, `Intend`,
  `JournalIntent`, `Answer`, `Spool`, `Record`, `Close`; and `Crash`, `LoseSession`,
  `Corrupt`, failed journal, spool and record writes.
- `BackfillDiscovery` (HB-3 with F1's runs): reconciliation of abandoned items, the
  item maximum, a claimed item from `BeginRun` to `Settle`.
- `BackfillDocuments` (HB-4 with F2): the gate and the sweep of the temporary root,
  planning, F2's passes and content checks, cleanup failures, `Dispose` and
  `Persist` (two transactions).

Of an item's attempts only the latest is kept. Two or three events that one
transaction appends are one step; `EventsLegal` looks at each of them.

`AttemptLedger` is the abstract specification: requests one at a time, none while
a refusal awaits the owner, and the recorded outcome is the answer heard whenever
it was made durable. `Backfill` implements it (`ImplementsAttemptLedger`) under

    open    <- items whose latest attempt has no outcome
    heard   <- the spool record of an open attempt
    outcome <- the recorded outcome
    halted  <- an unacknowledged block of the backfill or of P2

### From a document to a reported fact: TruthStore, BackfillF6, BackfillRunner

`TruthStore` is F6.4: `LockShared`, `compute_validation`, `insert_validation` of a
validate job; `LockExclusive`, `mark_abandoned`, `Select`, `Validate_missing`,
`reconcile_partition`, `Final_event` of a reconcile pass; `cleanup`;
`register_configuration`, `designate`. A step is one transaction. A validation run is its input set (the F5 run,
the issuer decision, the publication instant), and what a partition reports is
computed from the canonical ones. `BackfillF6` (HB-5) drives these jobs from
ledger items and promotes document items (`decide`), with the guard of migration
0016 as `item_event_guard`; `evaluate_filing` is the audit's stage of a filing.
`BackfillRunner` (HB-6) adds the serializable claim, the stages of a wake-up, the
document slice as one step, an operator's shell that runs F6.4 commands and
re-queues, the owner's decisions, late evidence (`link_filing`,
`Upload_changed`) and crashes. `passed` is a history variable: issuers covered by a
succeeded pass since the evidence last changed.

### What was known when: AsOf, FinancialTruth, FinancialValidation

`AsOf` (F8) keeps the rows it reads (listing versions, issuer decisions, F5 runs,
validation runs), appended by `Observe`, `Decide_link`, `Extract`, `Validate` as
time passes, and answers every query as an operator on that evidence:
availability of a filing and of a document version, roles of versions, the
publication instant and the link as of an instant, the canonical validation run
at a horizon, supersession on its three bases, the fact with its result. `told`
is a history variable with the answers given when each instant settled.
`FinancialTruth` (F6.3) and `FinancialValidation` (F6.1) are operators: admission,
observation identity, OP-1, comparison of printed values with their precision,
arithmetic and sign diagnostics, reconciliation of a fact. Amounts are whole
numbers of half units of the finest printed precision, so that comparisons are
exact as they are with the code's Decimals.

### Who issued a filing: IssuerIdentity, FilingDiscovery, IssuerLinks

`IssuerIdentity` and `FilingDiscovery` are the pure rules (same-issuer evidence,
disputes, decisions; parsing of answers, merge over sources). `IssuerLinks` is the
state machine: discovery stores answers, the passes IE-2, IE-4 and the late pass
simulate a batch, hold what would only create a dispute for lack of evidence,
record the rest, resolve securities and link filings; the owner resolves holds;
`link_issuers` and the document worker write the same tables at the same time. A
row carries its writer until that transaction commits; an insert of the same key
waits for it, and `rollback` takes it back.

### What a document says: FinancialConcepts, Classification, Extraction, Candidates

F3, F4, F5 and F6.1 as operators, and the chain `Classify`, `Extract_document`,
`Build`, `Validate` that runs on a retrieved document. A document is what the rules
look at: phrases, statements, columns with the words matched to them, rows with
values, unit phrases, page trust. Where a word stands on the page, and which
wording matches a pattern, is settled before the model begins. A date is a month
number, so that durations and year ends are computed.

### Backups

`Backups` has the four commands (dump, off-site sync, off-site check, restore
check) over the ledger `ops.backup_runs` and the status file of each kind:
`open_ledger` (which closes abandoned rows), `start`, the operation's own steps,
`finish` with its terminal update that may fail, and `Fallback`, which writes the
file when the ledger cannot be. `alerts` is what the status command would print.
`Crash`, `Lose`, `Damage`, `Age` (a row becomes stale) are the environment.

### How the modules fit together

`Scheduler` summarises a P2 run; that summary and `MarketCapture` implement the same
`CaptureLedger`;
`Backfill` summarises P2 by its lock, budget and blocks; `BackfillRunner` takes a
document slice as one step, whose inside is `BackfillDocuments`; `TruthStore` takes
what a validation computes from its inputs, which is `FinancialValidation` and
`FinancialTruth`; `AsOf` computes with these two modules on rows. `Candidates` ends
where `FinancialValidation` begins, and extends it.

## 3. Runs

Bounds are constants named in the modules and given in the cfg files.

| Run | Instance | What it shows |
|---|---|---|
| `capture_crash` | 2 processes, 2 runs of both kinds, one absent and one sampled security, 2 attempts per key, 3 requests, breaker at 3, 2 contacting commands, 1 crash, 1 spool failure | nothing archived OK is requested again (`NoRepeatedRequest`); a sequence number names one attempt (`SequenceNamesAttempt`); `SucceededIsComplete`; the block gate (`GateHolds`); the run ledger keeps its promise (`ImplementsCaptureLedger`), which includes that only one run is running and that the trigger accepts every event (`RunningIsOwned` and `TriggerNeverRaises`, proved of their own) |
| `capture_live` | 2 processes, 1 run, 2 requests, 1 lost session, fairness | `OneLiveRequest`: two outstanding requests only if one process has lost its session; every spooled number reaches the archive; no run stays 'running' |
| `sched_safety` | 2 processes, 1 trading day of 3 ticks, due at 1, closing at 3, 2 attempts (3 for an operator), 2 confirmations, budget 2, 4 runs, 1 manual or owner action, 1 death or refusal at any point | leases, one deriving run, items current, nothing closed over an archived session, no capture while blocked |
| `sched_live` | 1 process, 2 days, a session only on the second, 1 attempt, 1 confirmation, 1 death outside the missed record, fairness | every item closes (`ItemsClose`); P2's runs change only as their ledger allows (`ImplementsCaptureLedger`): a capture that a block has ended stops that of the next date, and a dead run is given up before another is created |
| `sched_missed_gap` (violation) | the same with the death inside the missed record | every later wake-up stops at that item (finding 1) |
| `backfill_safety` | 2 slices, 1 discovery item of 2 passes, 1 document, budget 3, ceiling 4, P3's reserve 1, 2 claims per item, breaker at 2, 1 event of owner, operator, P2 or P3, 1 failure of nine kinds | nothing in flight without an active lease (`NothingStranded`); one slice at work; the budget; every event legal; no answered discovery request repeated; downloads only into a clean root; the refinement |
| `pipeline` | 2 filings of 2 issuers with two documents or the same one, a timer and a shell, batches of 2 and 1, a block of 1, `MaxTrouble` 2 (an operator's command counts `ManualCost` 2) | one runner; only dead or refusing jobs are abandoned; a succeeded pass is current; under fairness every persisted document is complete or needs the operator (`DocumentsReconcile`) |
| `asof_history` | 2 filings, 2 documents, one carried by both, 2 sources, 4 entries, 3 decisions, 4 F5 runs, 3 kinds of content, 3 instants, 7 rows | settled answers never change; a version becomes available earlier only by becoming base; supersession leaves one; agreement has an interval; F8 at the present agrees with F6.4's live rule |
| `identity` | 2 share classes that name one secId, one filing in two listings and one known from the feed, 2 captures, 1 late pass, `MaxTrouble` 2 | holds work, held observations stay out, a closed plan lost no sighting |
| `issuer_stale_link` (violation) | three manual imports: names that differ, ISINs that agree, an ISIN that differs | the current link stays 'evidenced' to a disputed secId (finding 2) |
| `documents` | 1149 documents under 5 listing entries each | the listing only withdraws trust; the document's quarter and its columns' labels agree; an audit label does not gain provenance |
| `backups` | a timer with all four commands, a shell that syncs, 2 ledger rows, 1 dump, `MaxTrouble` 2, fairness | no false success, quiet means protected, every row reaches a terminal status |

*Why the bounds are enough for the cases that matter.* A crash is interesting
once per recovery: the next process either finds everything or it does not, and
one crash with a second process (or the same one restarted) reaches each gap
between durable steps. Two runs are what `record_missed`, the gate and the
abandoned marking need in order to look at a run that is not their own. Two
attempts and a breaker at three make each of the limit tests decide in some
behaviour; the request budget of three is less than the plan, so `OutOfBudget`
stops runs half done. In the scheduler two attempts and three ticks put the last
attempt, the back-off and the closing instant on the same and on different
ticks, and four runs allow two captures, a manual one and a missed record of one
date. `sched_live` has two dates because only a block of another date reaches the gate of
the capture (for its own, `planner.decide` already waits); its wake-ups have no other
actor beside them, whose part in `ImplementsCaptureLedger` the proof covers. In the backfill two passes of one item and a document exercise both stages,
and the budgets are small enough that each of them refuses somewhere. In the
pipeline two filings that may publish the same document are what duplicate
selection needs, and two issuers let a filing move from one to the other, which is
how an issuer loses evidence. Three instants suffice for before, at and after; two
versions of a document and two sources for every precedence rule of F8 and F1.
Two share classes are the smallest dispute. `MaxTrouble` 2 lets a failure hit the
recovery from another one. Processes (in `capture_crash` runs too) are symmetric;
no symmetry is used under liveness.

*Deadlock.* It is checked except where a behaviour really ends: the histories of
`asof_history`, `identity` and `issuer_stale_link` end at their bounds,
`documents` with the last stage, and in `backfill_safety` a backfill whose work is
done, or that waits for the owner when no event is left, has nothing to do.

*Fairness.* `MarketCapture!Fairness`: a living process goes on (the transport has
connect and read timeouts, so an outstanding request ends), and some process
issues `recover` again and again (the hourly timer: each wake-up begins with it).
Nothing is assumed of resumes, of the owner or of CSE's answers.
`Scheduler!Fairness`: time passes, a living process goes on, and the timer fires.
`BackfillRunner!Fairness`: a started process goes on and the timer's wake-up is
taken again and again; owner, operator and shell owe nothing, which is why
`DocumentsReconcile` ends in "or needs attention". `Backups!Fairness`: a started
process goes on, hours pass, and the command of every kind is started again and
again: strong fairness, because systemd fires each timer independently of what
another process happens to be doing at that moment, so a command that is possible
again and again is eventually started.

*Mutants.* For every property of a passing run there is a definition `Bug...`
next to the definition it mutates: recover that finds nothing to ingest, a
sequence counter that starts again at 1 on resume, the latest run taken as
evidence, the window off by a day, a spool record that recovery does not read, a
sweep that removes nothing, an issuer that lost its facts left out of a pass, a
publication instant read without its horizon, a commit reported before it
happened, and so on. Under each of them TLC finds the property violated.

## 4. Findings and observations

Places where the code does not do what a document or comment of the repository
says; `PROJECT.json` quotes both sides.

1. **A half-made missed record stops the scheduler** (`sched_missed_gap`). The run
   row is committed before its 'missed' event; a death in between leaves evidence
   that says 'missed' and a run that says 'pending', and the item trigger refuses
   the event at every later wake-up, before any newer item is served.
2. **A decision that returns to earlier evidence is not recorded**
   (`issuer_stale_link`). `filing_issuer_links` has one row per evidence hash and the
   newest row is current. Evidence that goes from disputed to settled and back to
   disputed leaves the settled decision current.

Observations, met while modelling. The first five contradict a statement of the
repository and were found with these models; the property they break is given,
and the passing runs check the weaker one that holds:

- *One request at a time* (`P2_MARKET_CAPTURE.md:103`, `G-1_CSE_DATA_USE.md:50`).
  The lock is the session's: when the session dies while a request is outstanding
  (`market_capture/http.py:277`), the lock is free and a second command sends its
  own. What holds is `OneLiveRequest`.
- *After a block every capture is refused until the owner acknowledges*
  (`P2_MARKET_CAPTURE.md:107`). `unacknowledged_blocks` (`runs.py:132`) looks at run
  states; a process that dies after archiving a 401/403 and before the 'blocked'
  event leaves a run that is then marked abandoned and may be resumed. A spool
  failure on a refused response has the same effect, and a second block of an
  acknowledged run is not gated (one acknowledgement per run).
- *An upper bound on the requests of a resume* (`planner.py:160`). Before
  tradeSummary is archived the requests that depend on it count as none, so a
  resume is admitted with less budget left than it uses.
- *The document stage stays stopped until an operator re-queues*
  (`backfill_documents/errors.py:20-21`). The cleanup stops are read before the
  slice takes the lock (`worker.py:205`) and not again under it: a slice that was
  waiting goes on. What holds is `DownloadsIntoCleanRoot`.
- *acquire_evidence records a hold once the simulation no longer holds it*
  (`backfill_discovery/identity.py:21-22`). `apply_resolutions` (`:264`) tests each
  hold alone, so two held observations that dispute each other are both recorded.

Others, where no statement is contradicted, a property states the exception, or
the model does not reach:

- P2. `max_requests` bounds an invocation, not a run. The spacing between requests
  is seeded from the archive, where a request lost in a crash is not. With a lost
  session `SequenceNamesAttempt` fails: a process that loses its session while
  backing off goes on with its own counter, the next lock holder reads the same
  numbers, and recover never ingests the second record.
- P3. `declare-closed` checks, then inserts, without the lock: the calendar may
  say 'closed' beside a captured session, while the item stays right
  (`ClosedWithoutSession`). A death between the outcome event and `_calendar` loses
  the 'open' row. A manual record-missed inside an open window makes one wake-up
  end in an error.
- F6.4. A validate job that finds the lock busy inserts its job row without a lock
  (`jobs.py:148`); cleanup may mark it abandoned before it records its refusal,
  although `jobs.py:272-274` says no such job can be running. `AbandonedIsDead`
  states the exception.
- HB-5 and HB-6. A document item stays 'reconciled' when its run is re-validated
  under another decision before any promotion saw the gap; a succeeded
  reconcile:<issuer> item is not run again after late evidence, and nothing
  reports it (`NeedsAttention` names the case). The partitions query counts all
  canonical runs, not only the selected ones.
- F8. A version can become available earlier when later evidence makes it the base
  version (`availability.py:170`), against F8_DESIGN.md:1273-1280;
  `EarlierOnlyByRole` states when. F1 stores no row for an entry that returns to an
  earlier version, so history cannot show it; `CurrentAgreesWithLive` states it.
- F5. `financial_candidates.py:36-39` says a cover inference is always recorded as
  such. When another column of the same statement and period prints the word, F3
  keeps one statement period for both and the column without the word is recorded
  with 'f3_statement_period'. `AuditNeverUpgraded` states it.
- Issuers. `issuer_identity.py:33-36` says a dispute cannot silently revert; ISIN
  codes that agree, recorded later, lift it. Two transactions can each resolve
  securities without seeing the other's observations. Filings without an upload
  time in the window are never linked by a pass.
- Backups. A crashed run's row is 'running', and raises no alert, until it is
  stale. An overlapping run overwrites the status file of its kind. Damage between
  verification and upload is found only by a later check.

## 5. Proofs

Every safety and action property of section 3 is a theorem, for every value of the
constants. The numbers of processes, runs,
filings, documents and rows and the limits are arbitrary, and so is how often the
environment fails. An assumption on constants is an `ASSUME` of the module that
declares them, and TLC evaluates it in the runs. Each inductive invariant was
first checked by TLC on the bounds of its run.

| Module | Assumes | Theorem | Statement |
|---|---|---|---|
| `MarketCaptureProofs` | `CaptureConstants` | `Invariance`, `TypeCorrect` | `Spec => []IndInv`, `Spec => []TypeOK` |
| | | `LiveRequestsExclusive` | `Spec => []OneLiveRequest` |
| | | `GateAlwaysHolds` | `Spec => []GateHolds` |
| | | `RunningRunsOwned` | `Spec => []RunningIsOwned` |
| | | `TransitionsLegal` | `Spec => TriggerNeverRaises` |
| | | `NothingAskedTwice` | `Spec => [](NoneLost => NoRepeatedRequest)` |
| | | `NumbersNameAttempts` | `Spec => [](NoneLost => SequenceNamesAttempt)` |
| | | `SuccessMeansComplete` | `Spec => []SucceededIsComplete` |
| | | `KeepsLedgerPromise` | `Spec => ImplementsCaptureLedger` |
| `SchedulerProofs` | `ScheduleConstants` | `TypeCorrectness` | `Spec => []TypeOK` |
| | | `LeasesSound` | `Spec => []LiveLeaseStaysActive` |
| | | `SingleDerivingRun` | `Spec => []OneDerivingRun` |
| | | `ClosesOnlyWithoutSession` | `Spec => ClosedWithoutSession` |
| | | `CapturesOnlyUnblocked` | `Spec => NoCaptureWhileBlocked` |
| | | `ItemsStayCurrent` | `Spec => []ItemsCurrent` |
| | | `KeepsRunsPromise` | `Spec => ImplementsCaptureLedger` |
| `BackfillProofs` | `LedgerConstants`, `TransportConstants` | `Invariance`, `TypeCorrectness` | `Spec => []BackInv`, `Spec => []TypeOK` |
| | | `Recoverable` | `Spec => []NothingStranded` |
| | | `WorksAlone` | `Spec => []OneSliceAtWork` |
| | | `StaysInBudget` | `Spec => BudgetKept` |
| | | `EventsFollowStates` | `Spec => EventsLegal` |
| | | `SendsOnce` | `Spec => NoRepeatedRequest` |
| | | `DownloadsClean` | `Spec => DownloadsIntoCleanRoot` |
| | | `KeepsPromise` | `Spec => ImplementsAttemptLedger` |
| `PipelineProofs` | `TruthAssumption`, `BatchAssumption`, `RunnerAssumption` | `PipeInvariance` | `Spec => []PipeInv` |
| | | `SingleRunner` | `Spec => []OneRunner` |
| | | `AbandonedJobsDead` | `Spec => []AbandonedIsDead` |
| | | `PassesAreCurrent` | `Spec => []SucceededIsCurrent` |
| `IssuerLinksProofs` | `IssuerAssumption` | `Invariance` | `Spec => []LinkInv` |
| | | `ClosedPlansKeepAll` | `Spec => []ClosureLosesNothing` |
| | | `HeldObservationsStayOut` | `Spec => HeldStaysOut` |
| | | `HoldingWorks` | `Spec => HoldsWork` |
| `BackupsProofs` | `BoundsAreNatural` | `TypeCorrectness` | `Spec => []TypeOK` |
| | | `SuccessIsReal` | `Spec => []NoFalseSuccess` |
| | | `QuietIsProtected` | `Spec => []QuietMeansProtected` |
| `AsOfProofs` | `EvidenceAssumption`, `ContentAssumption`, `DayAssumption`, `DecimalsAssumption` | `Invariance` | `Spec => []HistInv` |
| | | `AnswersStay` | `Spec => []AnswersSettled` |
| | | `RoleMovesEarlier` | `Spec => []EarlierOnlyByRole` |
| | | `OneIsKept` | `Spec => []SupersessionKeepsOne` |
| | | `PresentAgrees` | `Spec => []CurrentAgreesWithLive` |
| | | `AgreedHaveInterval` | `Spec => []AgreementHasInterval` |
| `CandidatesProofs` | `NothingAssumption`, `DocumentsAssumption` | `ListingWithdraws` | `ChainSpec => []MetadataOnlyWithdraws` |
| | | `FiscalPeriodsAgree` | `ChainSpec => []QuartersAgree` |
| | | `CoverNeverUpgrades` | `ChainSpec => []AuditNeverUpgraded` |

### MarketCapture

None of the properties is inductive. The gate is passed many steps before the
request it protects, so `GateHolds` needs to know that no run can become 'blocked'
in between; only the lock holder appends run events, so that needs the lock; and
the holder's own run must be the only running one, which is what `mark_abandoned`
established under the same lock.

    IndInv == TypeOK /\ LocalsInv /\ JournalInv /\ LockInv /\ HolderInv

- `LocalsInv`: a process past `Begin` has the run, kind, key and number its control
  point needs, so that `runState[proc[p].run]` and the like are defined;
- `JournalInv`: journal intents bound every sequence number in use, so that
  `LoadedSeq` is a number whether or not the archive is finite;
- `LockInv`: a process inside `_locked` holds the lock or has lost its session, and
  the holder has not lost it;
- `HolderInv`: what the holder knows: its run is pending or running as its control
  point says, no other run is running once dead ones were marked, and no block is
  unacknowledged while it contacts CSE. A process without a session keeps none of
  this, and the model shows it writes no event either.

There is one lemma per action (or group of actions with the same footprint), and
below it one step per conjunct the action can disturb. The action property
`TriggerNeverRaises` follows from `IndInv` action by action.

`NoRepeatedRequest` and `SequenceNamesAttempt` are false once a database session
has been lost under a living process (section 4), so their theorems carry the
hypothesis `NoneLost`: no loss has happened so far, while crashes and spool
failures are unrestricted. `RowsInv` is their invariant: the numbers of a run come
from its journal, whose highest intent is the command's own; after recover every
spooled record is archived except the attempt about to be inserted; the number
under way is fresh; every key answered OK is among those the command has seen, and
none of these is requested. `SucceededIsComplete` needs no such hypothesis: the
archive only grows, and a run's kind is set when it is created.

`KeepsLedgerPromise` is the refinement. `LedgerInv` adds to `IndInv` what the
mapping needs to see: a run that was never created or is still pending has no
response, spooled or archived (`UnstartedInv`), so the ledger first shows it
without a session; a missed record is never started, and a run created as one is
not pending any more without being missed (`StartedInv`); and the command that is
to record a missed date has just seen, under the lock, that no run holds the
session (`CreatedInv`). `LedgerStep` maps each action to a step or a stutter;
`ReceivedShows` is the one lemma for all that ingest responses, of any run, at any
time.

### Scheduler

`SchedInv` holds what a process past the lock knows: it is the holder, its lease is
active, and the item, decision and gate it carries fit the rows. A run recorded
missed was never captured, and pending or missed runs archived nothing: this is
what makes evidence, once read, stay true while other commands run (`Fits`).
`ClosedWithoutSession` and `NoCaptureWhileBlocked` are action properties that
follow from it. `ItemsCurrent` needs `RecordInv` in addition: the items whose record
does not say what the runs prove (`Stale`) are among those the wake-up has still to
visit, plus the date it captured last, and there are none left when it ends
properly.

`KeepsRunsPromise` is the refinement. The ledger looks at a run when it is written,
and the wake-up decided about it many steps before, so `PromiseInv` says what it
still knows by then: no block is unacknowledged when P2 is called; the run it plans
to resume can be resumed until then, although other items are reconciled first,
because its own date is no longer among them and a reprocess writes only to runs of
the item it is at (`OtherRun`); the run it has just created is pending; and when a
date is about to be recorded missed no run of it says that it has the session. A
run that says 'succeeded' or 'partial' shows its session (`ShownOK`). `Kept` is what
each action's lemma proves: the promise afterwards, and a step of the ledger or no
change of it. `RowTold`, `AbandonTold` and `CreateTold` are the three ways a run
row changes, proved once.

### Backfill

`BackInv` is `TypeOK`, `LedgerOK` (an item in flight belongs to an active lease; an
open attempt is under the lease that holds its item; at most one attempt is open;
what a discovery item's attempts prove) and `SliceOK` for each slice: what it
remembers, what its spool pair may hold, and, while its session lives, that its
lease is the only active one, that nothing is open unless it is asking, that no
block came in since it looked, that what it was admitted to send is still within
the budget, and that the temporary root is clean before a download.
`KeepsPromise` is the refinement: initial states map to initial states of
`AttemptLedger` under the mapping of section 2, and each action maps to a step of
it or to a stutter.

### The pipeline

`OneRunner` compares two processes; that both work is excluded only by what
happened when they claimed, so the invariant says what a claim knows: a working
runner's row is active, two rows are never active, and a process still between its
read and its insert when another row is active has `raced` set (the serialization
failure it will get). `AbandonedIsDead` needs to know which jobs run under which
lock, all the way from the lock attempt to the last event, including the child
validations of a reconcile job, which take no lock of their own.

    PipeInv == LocalInv /\ LockInv /\ ClaimInv

- `LocalInv`: only a wake-up is at a wake-up's step or returns to one, only a child
  validation returns to its reconcile job, and a process has a job only at the
  steps of one;
- `LockInv`: a job at work is in `shared` or is `exclusive`, as its step requires,
  and beside an exclusive holder nobody shares;
- `ClaimInv`: as above.

Most actions move one process and change no lock or claim; `QuietStep` shows once
that such a step keeps the invariant, and the lemma of an action only says where
the process goes. The ones with an argument of their own are `WakeReads` and
`AcquireStep` (the two halves of the claim) and `MarkStep` (`mark_abandoned`).

`SucceededIsCurrent` is about a pass whose selection, partitions and plans are read
in different transactions. `CurInv` is inductive together with `PipeInv`: the
records an issuer's latest batch reports are exactly the observations its
fingerprint names (`BatchOK`); every issuer in `passed` is up to date; and for the
holder of the exclusive lock, as long as no evidence changed since it started, what
it has read is what it would read now, and every issuer of its scope that is no
longer among its partitions is up to date, unless a partition failed (`JobOK`).
`DisturbCur` treats all steps that change the evidence at once: the job at work is no
longer `clean`, and `passed` is empty.

### IssuerLinks

`LinkInv` says what a hold, an answer and the rows of an open transaction may look
like; that an observation has one hold, whose resolution while it is not released
is none or keep_held; that the observations of a closed pass or plan are recorded or
held (`PlanSafe`); and what a pass under way has split its batch into. Two lemmas
about the operators carry `HoldsWork`: `ClaimsDecide` (a dispute depends only on the
claims about a secId) and `LeftIsSound` (what the split leaves to record creates no
dispute that only lacks evidence, for every batch and every recorded history).

### Backups

`BackInv` keeps that a row recorded as succeeded is real given the dumps in place
(`RealIn`: the dump exists, the snapshot contains what it covers, nothing covered
was found bad), that a status file reporting a success names such a row, and that
a process about to write an outcome has what it claims. A step continues the
ledger (`Continues`: a success is never written over), and closing an abandoned row
never makes it one. `QuietIsProtected` reads the alerts off the same facts.

### As-of queries

`HistInv` is `EvidenceOK` (rows are of entries that exist, at times that have come; a
source has a current version exactly when a row shows one; runs are numbered and
of bytes their filing carries; a validation run is what F6.4 makes of its run and
inputs, once) and `ToldOK` (every answer told has a settled horizon and would be
given again).

- `AnswersSettled`: every writer appends rows at `now` and a told horizon is earlier,
  so the rows, the decision in force and the instants from which an answer is
  computed are unchanged (`Settled`). The lemmas follow the call tree of an answer
  (`AvailabilitySettled`, `SupersessionSettled`, `HeldSettled`, `AnswerSettled`): each
  operator reads only what is settled. This is where a read without its own cut-off
  would show.
- `EarlierOnlyByRole`: instants and document times seen by a horizon only become
  more, and the greatest of more is not earlier.
- `SupersessionKeepsOne`: a superseded candidate has a later one; the latest
  available candidate is therefore kept, whichever bases apply.
- `CurrentAgreesWithLive`: a source's latest rows show its current version, so the
  merge over the rows, which stops at the first source that has the field, yields
  exactly the value of the merge over current versions.
- `AgreementHasInterval`: an admitted value is normalised, has its fact's currency
  and its concept's type, and is a whole number of half units; two such values that
  do not disagree have overlapping precisions. All lower ends then lie below all
  upper ends, so the greatest and the least exist and are in order. That the
  interval lies in the precision of every document, and not just of those
  reconciled, needs that one run is selected for a document and one validation
  run is canonical for it unless the upload instant is tied.

`ContentAssumption` says what F5 stores of a printed amount: a number with its
decimals, and the value type of its concept (`financial_candidates.py:392`).

### Candidates

The chain has no loop, so its invariant `ChainInv` only says that each stage holds
what its operator gives for the document and the listing entry; the work is in
lemmas about the operators. Two of the properties compare the chain with the chain
on a variant of its input (no listing, no cover), and the lemmas say, stage by
stage, what the variant leaves alone.

- `MetadataOnlyWithdraws`: a listing entry reaches a classification only through its
  statuses, types, roles and labels; the columns that F4 and F5 read are those of the
  document (`FiguresAgree`). Where a classification with the listing is trusted, the
  one without it is the same (`JudgedAlike`), and F6.1 sees equal candidates.
- `QuartersAgree`: `QuarterEnds` is the arithmetic: with the year end and the end of
  the period as month numbers, F3 counts the months elapsed and F5 the months left,
  and both land in the same quarter, across the end of a calendar year.
- `AuditNeverUpgraded`: the cover changes no figure, role or duration (`CoverLeaves`),
  and a label whose source is a column or the statement is found again when the cover
  is silent (`LabelKept`), or some column prints it.

`DocumentsAssumption` says what a document of the program is: its years are those of
Python's dates (1 to 9999), a month that is named is one of twelve, statements and
columns are numbered, and a page without a heading continues a statement of its own
kind (`statement_extraction.py:1521`). `NothingAssumption` keeps None apart from
numbers and from the words for durations.

### Only model-checked

- The liveness properties (`SpoolReachesArchive`, `RunningEnds`, `ItemsClose`,
  `DocumentsReconcile`, `LedgerSettles`): the prover does not treat fairness and
  ENABLED.
- The two violations of section 4 are TLC's counterexamples.

## 6. Not modelled

- R-F4's structure store (`financial_f4_store/`): a content-keyed save in a
  savepoint and a strict read-back. Sequential; what could be wrong is in hashes
  and canonical text. The codecs of F6.4 are left out for the same reason.
- Migrations (`ops/migrate.py`): one transaction per file, arbitrated by a primary
  key. The file is hashed when files are discovered and read again when applied.
- Stage E (end-of-day rows): one sequential upsert; `MarketCapture` keeps of it
  whether every expected security was derived.
- F3 and F4 below the words: geometry, patterns, the layout that shares a date
  between columns, statement signals. F2's text extraction. The manual command
  lines of F1 to F5.
- HB-3's planning of windows, freshness of the security master and the audit
  outside the plan; the qualification of company-info sweeps is one step.
- The runner's second connection: losing only the control connection is not a
  step of the model. The snapshot an audit stores is not state.
- Spool files below the journal line (temporary file, fsync, rename): one step; the
  record counts once its journal line is there, which is what recover goes by.
- Seconds: throttle spacing, Retry-After values, transport and statement timeouts.
- Database roles and privileges, redaction, settings, provisioning, CI.

## 7. Plan

What remains: lemmas about OP-1 and the arithmetic diagnostics of
`FinancialValidation`, and the components and details of section 6.
