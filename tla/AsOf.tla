-------------------------------- MODULE AsOf --------------------------------
(***************************************************************************)
(* F8 (worker/financial_asof): what was known of a company's facts at an   *)
(* instant T, what had been published by T, and what is known now, all     *)
(* recomputed from rows that are only ever appended.                       *)
(*                                                                         *)
(* The state is the evidence F8 reads, with the four writers that append   *)
(* to it: F1's listing versions, the issuer decisions, F5's runs and       *)
(* F6.4's validation runs.  Every row carries the time it was recorded.  A *)
(* transaction is one step, so an instant before now is settled: every     *)
(* transaction that began by then has ended.                               *)
(* The answers to a query are operators on that evidence.                  *)
(***************************************************************************)
EXTENDS FinancialTruth, SequencesExt

CONSTANTS
    Absent,         \* a field the listing entry does not contain
    Filings,        \* CSE filings
    Sources,        \* F1's sources of a filing, in the order of precedence
    Contents,       \* what the documents may contain: [document -> content]
    Entries,        \* listing entries CSE may show: filing, source, instants
    Backlog,        \* the entries F1 had stored before, one per source
    LinkShapes,     \* issuer decisions that may be made of a filing
    Decided,        \* the decisions made before, a sequence of link shapes
    RunShapes,      \* F5 runs that may be made: filing, bytes, their times
    Issuer,         \* the issuer a query asks about
    MaxTime,        \* bound: the last instant
    MaxRows         \* bound: rows appended to the evidence

(* Which bytes a filing may carry.                                         *)
Carries == {<<r.filing, r.doc>> : r \in RunShapes}
Docs == {c[2] : c \in Carries}
Times == 0..MaxTime

ASSUME EvidenceAssumption ==
    /\ {MaxTime, MaxRows} \subseteq Nat
    /\ Sources \in Seq(ToSet(Sources)) /\ IsFiniteSet(Entries) /\ None \notin Entries
    /\ Backlog \subseteq Entries /\ Decided \in Seq(LinkShapes)
    /\ \A d, e \in Backlog : d.filing = e.filing /\ d.source = e.source => d = e
    /\ \A e \in Entries : /\ e.filing \in Filings /\ e.source \in ToSet(Sources)
                           /\ {e.uploaded, e.authorized} \subseteq Nat \cup {None, Absent}
    /\ \A r \in RunShapes : /\ r.filing \in Filings /\ r.accepted \in BOOLEAN
                             /\ {r.last_modified, r.path_epoch, r.retrieved}
                                   \subseteq Nat \cup {None}

(* What F5 stores of a printed amount; None is no kind of value.           *)
ASSUME ContentAssumption ==
    /\ None # "numeric"
    /\ \A c \in Contents : \A d \in Docs : \A row \in c[d].rows :
             /\ row.parsed_value \in Int \cup {None}
             /\ row.parsed_value # None => row.printed_decimals \in 0..Decimals
             /\ row.concept_key # None
                => row.value_type = concept_value_type(row.concept_key)

VARIABLES
    now,        \* the database's clock
    content,    \* what each document's bytes say
    listing,    \* report_filing_observations, append-only
    current,    \* report_filings: the version F1 applied last, per source
    links,      \* filing_issuer_links, append-only
    runs,       \* financial_extraction_runs with their F3 classification
    vruns,      \* financial_validation_runs with their observations
    told        \* history: the answers given as each instant settled

vars == <<now, content, listing, current, links, runs, vruns, told>>

(***************************************************************************)
(* f8.availability.1.                                                      *)
(***************************************************************************)
(* A-3: an instant at exactly a Colombo midnight is a date, and counts as  *)
(* the end of that day.                                                    *)
Effective(t) == IF t % DayLength = 0 THEN (Day(t) + 1) * DayLength ELSE t

ListedBy(f, h) == {o \in listing : o.filing = f /\ o.at <= h}

(* Mutant: the instants of the latest entry only.                          *)
BugFilingAvailability(f, h) ==
    LET last == {o \in ListedBy(f, h) : \A p \in ListedBy(f, h) : p.at <= o.at}
        seen == (UNION {{o.uploaded, o.authorized} : o \in last}) \ {None, Absent}
    IN  IF seen = {} THEN None ELSE Max({Effective(t) : t \in seen})

(* A-1, A-2, A-4: the latest upload or authorization instant seen by h.    *)
FilingAvailability(f, h) ==
    LET seen == (UNION {{o.uploaded, o.authorized} : o \in ListedBy(f, h)}) \ {None, Absent}
    IN  IF seen = {} THEN None ELSE Max({Effective(t) : t \in seen})

VersionRuns(f, d, h) == {r \in runs : r.filing = f /\ r.doc = d /\ r.at <= h}
Versions(f, h) == {r.doc : r \in {q \in runs : q.filing = f /\ q.at <= h}}

(* A-5: the version retrieved first is the base; without an order there is *)
(* none.                                                                   *)
Role(f, d, h) ==
    LET first(e) == {r.retrieved : r \in VersionRuns(f, e, h)} \ {None}
        lead == {e \in Versions(f, h) : \A g \in Versions(f, h) :
                    Min(first(e)) <= Min(first(g))}
    IN  CASE Versions(f, h) = {d} -> "base"
          [] \E e \in Versions(f, h) : first(e) = {} -> "unordered"
          [] Cardinality(lead) # 1 -> "unordered"
          [] OTHER -> IF d \in lead THEN "base" ELSE "later"

VersionAvailability(f, d, h) ==
    LET filing == FilingAvailability(f, h)
        own == (UNION {{r.last_modified, r.path_epoch} :
                          r \in VersionRuns(f, d, h)}) \ {None}
    IN  CASE filing = None -> None
          [] Role(f, d, h) = "base" -> filing
          [] own = {} -> None
          [] OTHER -> Max({filing} \cup own)

(* A-6: the same bytes under several filings are one document.             *)
DocumentAvailability(d, fs, h) ==
    LET known == {VersionAvailability(f, d, h) : f \in fs} \ {None}
    IN  IF known = {} THEN None ELSE Min(known)

(***************************************************************************)
(* f8.knowledge.1, and the F1 metadata and validation run in force at h.   *)
(***************************************************************************)
(* Every link of an observation's chain; F3's classification is recorded   *)
(* with the F5 run, the observation with its validation run.               *)
KnownAt(v) ==
    LET r == CHOOSE q \in runs : q.id = v.run
        first == Min({o.at : o \in {p \in listing : p.filing = r.filing}})
    IN  Max({first, r.at, v.at}
            \cup (IF v.link = 0 THEN {} ELSE {links[v.link].at}))

(* F1's merge takes a field from the first source whose current entry      *)
(* contains it; versions that share the latest time stay tied, and every   *)
(* value the merge of some choice of them gives is kept.                   *)
MergedUploads(rows) ==
    LET from(s) == {o \in rows : o.source = s}
        latest(s) == {o \in from(s) : \A p \in from(s) : p.at <= o.at}
        mayLack(s) == from(s) = {} \/ \E o \in latest(s) : o.uploaded = Absent
        reached == {i \in DOMAIN Sources :
                      \A j \in 1..(i - 1) : mayLack(Sources[j])}
    IN  ((UNION {{o.uploaded : o \in latest(Sources[i])} : i \in reached}) \ {Absent})
        \cup (IF \A i \in DOMAIN Sources : mayLack(Sources[i]) THEN {None} ELSE {})

(* Mutant: the merge of every version stored, whatever the horizon.        *)
BugUploadedAsOf(f, h) == MergedUploads({o \in listing : o.filing = f})

UploadedAsOf(f, h) == MergedUploads(ListedBy(f, h))

LinkAsOf(f, h) ==
    LET decided == {i \in DOMAIN links : links[i].filing = f /\ links[i].at <= h}
    IN  IF decided = {} THEN 0 ELSE Max(decided)

(* Mutant: any validation run made under the decision, whatever it took as *)
(* the publication instant.                                                *)
Bugcanonical_validation_run(r, h) ==
    [tie |-> Cardinality(UploadedAsOf(r.filing, h)) > 1,
     found |-> {v \in vruns : /\ v.run = r.id /\ v.at <= h
                              /\ v.link = LinkAsOf(r.filing, h)}]

(* M4 at h: the validation runs made from the inputs in force at h; more   *)
(* than one value of the merged upload instant is a tie, never broken.     *)
canonical_validation_run(r, h) ==
    LET uploaded == UploadedAsOf(r.filing, h)
        found == {v \in vruns : /\ v.run = r.id /\ v.at <= h
                                /\ v.link = LinkAsOf(r.filing, h)
                                /\ v.uploaded \in uploaded}
    IN  [tie |-> Cardinality(uploaded) > 1, found |-> found]

(***************************************************************************)
(* f8.supersession.1 over the visible observations of one fact; a          *)
(* candidate is [so, at, filings].                                         *)
(***************************************************************************)
S1Type(c) == c.so.document_type \in VERSION_DOCUMENT_TYPES
s1(c) == S1Type(c) /\ c.so.document_type_status \in TRUSTED_F3_STATUSES
s1_unclear(c) == S1Type(c) /\ ~ s1(c)
s2(c) == \E m \in c.so.members : m.restated

(* S-3: the source's own document times order the versions, in every       *)
(* filing that carries both.                                               *)
s3(s, o, h) ==
    LET common == s.filings \cap o.filings
        times(f, d, field) == {r[field] : r \in VersionRuns(f, d, h)} \ {None}
        both(f) == {k \in {"last_modified", "path_epoch"} :
                      times(f, s.so.doc, k) # {} /\ times(f, o.so.doc, k) # {}}
    IN  /\ common # {}
        /\ \A f \in common :
              /\ both(f) # {}
              /\ \A k \in both(f) :
                    Min(times(f, s.so.doc, k)) > Max(times(f, o.so.doc, k))

(* Mutant: equal availability is enough.                                   *)
BugLater(s, o) == s.at # None /\ o.at # None /\ s.at >= o.at

Later(s, o) == s.at # None /\ o.at # None /\ s.at > o.at

Supersedes(s, o, h) ==
    /\ s.so.doc # o.so.doc /\ Later(s, o)
    /\ s1(s) \/ s2(s) \/ s3(s, o, h)

disagree(a, b) ==
    \/ "internally_conflicting" \in {a.status, b.status}
    \/ \E m \in a.members, n \in b.members : compare_members(m, n) = "disagree"

(* Partial or contradictory evidence: then nothing is superseded.          *)
Ambiguous(cands, h) ==
    \E s \in cands : \E o \in cands \ {s} :
       LET common == s.filings \cap o.filings # {}
           known == s.at # None /\ o.at # None
       IN  \/ (s1(s) \/ s2(s) \/ s1_unclear(s) \/ common) /\ ~ known
           \/ s1_unclear(s) /\ Later(s, o) /\ ~ Supersedes(s, o, h)
           \/ /\ common /\ known
              /\ ~ Supersedes(s, o, h) /\ ~ Supersedes(o, s, h)
           \/ s1(s) /\ s1(o) /\ disagree(s.so, o.so)

Dropped(cands, h) ==
    IF Ambiguous(cands, h) THEN {}
    ELSE {o \in cands : \E s \in cands : Supersedes(s, o, h)}

(***************************************************************************)
(* f8.selection.1: a query is [mode, T, G] with G the governing horizon.   *)
(***************************************************************************)
Known(t) == [mode |-> "KNOWN", cutoff |-> t, horizon |-> t]
Available(t, h) == [mode |-> "AVAILABLE", cutoff |-> t, horizon |-> h]
Current(h) == [mode |-> "CURRENT", cutoff |-> None, horizon |-> h]

Passes(q, at) ==
    CASE q.mode = "KNOWN" -> at = None \/ at <= q.cutoff
      [] q.mode = "AVAILABLE" -> at # None /\ at <= q.cutoff
      [] OTHER -> TRUE

VersionVisible(q, r) == Passes(q, VersionAvailability(r.filing, r.doc, q.horizon))

(* D-6 over the runs of visible versions, then M4 at G: the observations   *)
(* known at G, of the selected run only.                                   *)
Held(rs, h) ==
    UNION {LET m4 == canonical_validation_run(r, h)
           IN  {[so |-> o, tie |-> m4.tie] :
                  o \in UNION {v.observations : v \in
                                  {w \in m4.found : KnownAt(w) <= h}}} :
           r \in select_runs(rs)}

FactsOf(held) == {x.so.identity : x \in held}

(* One fact: supersession over the visible observations, reconciliation of *)
(* the rest, and the exclusions that may be named.                         *)
FactView(id, seen, tied, pending, filingsOf, accepted, h) ==
    LET cands == {[so |-> x.so, filings |-> filingsOf[x.so.doc],
                   at |-> DocumentAvailability(x.so.doc, filingsOf[x.so.doc], h)] :
                     x \in {y \in seen : y.so.identity = id}}
        gone  == Dropped(cands, h)
        kept  == {c.so : c \in cands \ gone}
    IN  [identity |-> id,
         result |-> IF kept = {} THEN None
                    ELSE reconcile_fact(kept, \E o \in kept :
                            OtherCurrency({x.so : x \in seen}, o), accepted),
         visible |-> {o.doc : o \in kept},
         superseded |-> {c.so.doc : c \in gone},
         ambiguous |-> Ambiguous(cands, h),
         tied |-> {x.so.doc : x \in {y \in tied : y.so.identity = id}},
         not_yet_available |-> {x.so.doc : x \in {y \in pending : y.so.identity = id}}]

Answer(q) ==
    LET h == q.horizon
        known == {r \in runs : r.at <= h}
        shown == {r \in known : VersionVisible(q, r)}
        filingsOf == [d \in Docs |-> {r.filing : r \in {s \in shown : s.doc = d}}]
        accepted == [d \in Docs |-> {r.filing : r \in {s \in shown : s.doc = d /\ s.accepted}}]
        held == {x \in Held(shown, h) : x.so.identity.issuer_id = Issuer}
        seen == {x \in held : ~ x.tie}
        tied == {x \in held : x.tie}
        later == {r \in known \ shown : filingsOf[r.doc] = {}}
        pending == IF q.mode # "KNOWN" THEN {}
                   ELSE {x \in Held(later, h) : x.so.identity.issuer_id = Issuer}
    IN  {FactView(id, seen, tied, pending, filingsOf, accepted, h) :
            id \in FactsOf(held \cup pending)}

Queries(horizons) ==
    {Known(t) : t \in horizons} \cup {Current(h) : h \in horizons}
    \cup UNION {{Available(t, h) : t \in 1..h} : h \in horizons}

(***************************************************************************)
(* The writers.                                                            *)
(***************************************************************************)
ListingRow(e, at) == [filing |-> e.filing, source |-> e.source, at |-> at,
                      uploaded |-> e.uploaded, authorized |-> e.authorized]
LinkRow(l, at) == [filing |-> l.filing, at |-> at, status |-> l.status,
                   basis |-> l.basis, issuer_id |-> l.issuer_id]

(* Filings listed and decided earlier, nothing extracted yet.              *)
Init ==
    /\ now = 1
    /\ content \in Contents
    /\ runs = {} /\ vruns = {} /\ told = {}
    /\ listing = {ListingRow(e, 0) : e \in Backlog}
    /\ links = [i \in DOMAIN Decided |-> LinkRow(Decided[i], 0)]
    /\ current = [f \in Filings |-> [s \in ToSet(Sources) |->
          LET here == {e \in Backlog : e.filing = f /\ e.source = s}
          IN  IF here = {} THEN None ELSE CHOOSE e \in here : TRUE]]

Tick ==
    /\ now < MaxTime
    /\ now' = now + 1
    /\ told' = told \cup {<<q, Answer(q)>> : q \in Queries({now})}
    /\ UNCHANGED <<content, listing, current, links, runs, vruns>>

(* The bound on the evidence.                                              *)
Room == Cardinality(listing) + Len(links) + Cardinality(runs)
        + Cardinality(vruns) < MaxRows

(* F1's apply_observation: a changed entry becomes the source's current    *)
(* version, and a new row unless that version was stored before.           *)
Observe(e) ==
    /\ current[e.filing][e.source] # e
    /\ current' = [current EXCEPT ![e.filing][e.source] = e]
    /\ listing' =
          IF \E o \in listing : o = ListingRow(e, o.at)
          THEN listing
          ELSE listing \cup {ListingRow(e, now)}
    /\ listing' # listing => Room
    /\ UNCHANGED <<now, content, links, runs, vruns, told>>

Listed(f) == \E s \in ToSet(Sources) : current[f][s] # None

(* link_filing: a decision is appended unless the same one was stored for  *)
(* the filing before, so a return to an earlier decision leaves no row.    *)
Decide_link(shape) ==
    /\ Room /\ Listed(shape.filing)
    /\ \A i \in DOMAIN links : \E k \in DOMAIN shape : links[i][k] # shape[k]
    /\ links' = Append(links, LinkRow(shape, now))
    /\ UNCHANGED <<now, content, listing, current, runs, vruns, told>>

(* F5's persist: a run of the bytes a filing carried when F2 retrieved it, *)
(* with the document times seen then.                                      *)
Extract(shape) ==
    /\ Room /\ Listed(shape.filing)
    /\ shape.retrieved # None => shape.retrieved <= now
    /\ \A r \in runs : \E k \in DOMAIN shape : r[k] # shape[k]
    /\ runs' = runs \cup
          {[id |-> Cardinality(runs) + 1, filing |-> shape.filing,
            doc |-> shape.doc, at |-> now, last_modified |-> shape.last_modified,
            path_epoch |-> shape.path_epoch, retrieved |-> shape.retrieved,
            accepted |-> shape.accepted]}
    /\ UNCHANGED <<now, content, listing, current, links, vruns, told>>

(* report_filings.uploaded_at: F1's merge of the current versions.         *)
UploadedNow(f) ==
    LET has == {i \in DOMAIN Sources :
                  LET e == current[f][Sources[i]]
                  IN  e # None /\ e.uploaded # Absent}
    IN  IF has = {} THEN None ELSE current[f][Sources[Min(has)]].uploaded

(* F6.4's validate: one run per input set, from the inputs in force.       *)
Validate(r) ==
    LET link == LinkAsOf(r.filing, now)
        uploaded == UploadedNow(r.filing)
    IN  /\ Room
        /\ ~ \E v \in vruns : v.run = r.id /\ v.link = link /\ v.uploaded = uploaded
        /\ vruns' = vruns \cup
              {[run |-> r.id, link |-> link, uploaded |-> uploaded, at |-> now,
                observations |->
                   Observations(r.doc, content[r.doc],
                                IF link = 0 THEN None ELSE links[link], uploaded)]}
        /\ UNCHANGED <<now, content, listing, current, links, runs, told>>

Next ==
    \/ Tick
    \/ \E e \in Entries : Observe(e)
    \/ \E shape \in LinkShapes : Decide_link(shape)
    \/ \E shape \in RunShapes : Extract(shape)
    \/ \E r \in runs : Validate(r)

Spec == Init /\ [][Next]_vars

(***************************************************************************)
(* Properties.                                                             *)
(***************************************************************************)

(* The answer to a query whose governing time is settled never changes     *)
(* again, whatever is recorded later: no element of it reads a row, a      *)
(* merge or a version outside its information set (selection.py            *)
(* _recomputed, and every filter on observed_at, decided_at, recorded_at). *)
AnswersSettled == \A x \in told : Answer(x[1]) = x[2]

(* As the evidence grows a version may become available earlier only by    *)
(* becoming the base version after it was not (_roles); later listing      *)
(* entries and later document times never move it back.                    *)
EarlierOnlyByRole ==
    \A c \in Carries : \A g, h \in 1..now :
       LET at(e) == VersionAvailability(c[1], c[2], e)
       IN  g < h /\ VersionRuns(c[1], c[2], g) # {} /\ at(g) # None
           /\ at(h) # None /\ at(h) < at(g)
           => Role(c[1], c[2], g) # "base" /\ Role(c[1], c[2], h) = "base"

(* Supersession (derive) never leaves a fact that has visible observations *)
(* without any: the edges of the three bases form no cycle.                *)
SupersessionKeepsOne ==
    \A q \in Queries({now}) : \A v \in Answer(q) :
       v.superseded # {} => v.visible # {}

(* Observations that agree pairwise share an interval: the numeric result  *)
(* that reconcile_fact reports is never empty, lies within every printed   *)
(* precision of its documents, and a conflict has none.                    *)
AgreementHasInterval ==
    \A q \in {Current(now), Known(now)} : \A v \in Answer(q) : v.result # None =>
       /\ v.result.value_kind = "numeric" =>
             /\ v.result.low <= v.result.high
             /\ \A w \in vruns : \A o \in w.observations :
                   /\ o.identity = v.identity /\ o.doc \in v.visible
                   /\ w \in canonical_validation_run(
                               CHOOSE r \in runs : r.id = w.run, now).found
                   /\ w.run \in {r.id : r \in select_runs(
                               {p \in runs : VersionVisible(q, p)})}
                   => \A m \in o.members :
                         Low(m) <= v.result.low /\ v.result.high <= High(m)
       /\ v.result.state = "conflicting" => v.result.low = None

(* F8 recomputes the canonical validation run from history; at the present *)
(* instant it is the run F6.4 would call current from the live tables,     *)
(* except where two versions of an entry share a time or an entry returned *)
(* to an earlier version, which F1 stores no row for.                      *)
CurrentAgreesWithLive ==
    \A r \in runs :
       LET rows(s) == {o \in listing : o.filing = r.filing /\ o.source = s}
           last(s) == {o \in rows(s) : \A p \in rows(s) : p.at <= o.at}
           live == {v \in vruns : /\ v.run = r.id
                                  /\ v.link = LinkAsOf(r.filing, now)
                                  /\ v.uploaded = UploadedNow(r.filing)}
       IN  (\A s \in ToSet(Sources) : \A o \in last(s) :
               /\ current[r.filing][s].uploaded = o.uploaded
               /\ current[r.filing][s].authorized = o.authorized)
           => canonical_validation_run(r, now) = [tie |-> FALSE, found |-> live]
=============================================================================
