------------------------------ MODULE AsOfProofs ------------------------------
(***************************************************************************)
(* Proofs about AsOf, for every set of filings, sources, listing entries,  *)
(* decisions, runs and document contents, and any number of rows.          *)
(***************************************************************************)
EXTENDS AsOf, FiniteSetsExt, FiniteSetTheorems, NaturalsInduction, WellFoundedInduction,
        TLAPS

(***************************************************************************)
(* The least and the greatest element of a set of numbers.                 *)
(***************************************************************************)
(* A set with no smaller one in T.                                         *)
Smallest(x, T) == x \in T /\ \A y \in T : y \subseteq x => y = x

(* Every nonempty set of finite sets has a smallest one.                   *)
LEMMA SmallestExists ==
  ASSUME NEW S, NEW T \in SUBSET (SUBSET S), \A x \in T : IsFiniteSet(x), T # {}
  PROVE  \E x : Smallest(x, T)
<1> DEFINE R == StrictSubsetOrdering(S)
           F == FiniteSubsetsOf(S)
<1>1. IsWellFoundedOn(R, F)
  BY FS_StrictSubsetOrderingWellFounded
<1>2. T \subseteq F
  BY DEF FiniteSubsetsOf
<1> HIDE DEF R, F
<1>3. \E x \in T : \A y \in T : ~ (<<y, x>> \in R)
  BY <1>1, <1>2, WFMin
<1>4. PICK x \in T : \A y \in T : <<y, x>> \notin R
  BY <1>3
<1>5. ASSUME NEW y \in T, y \subseteq x
      PROVE  y = x
  <2>1. y \in SUBSET S /\ x \in SUBSET S
    OBVIOUS
  <2>2. y # x => <<y, x>> \in R
    BY <1>5, <2>1 DEF R, StrictSubsetOrdering
  <2> QED BY <1>4, <2>2
<1> QED BY <1>5 DEF Smallest

(* Max of a nonempty finite set of integers is its greatest element.       *)
LEMMA MaxInFinite ==
  ASSUME NEW S \in SUBSET Int, IsFiniteSet(S), S # {}
  PROVE  Max(S) \in S /\ \A y \in S : y <= Max(S)
<1> DEFINE Above(s) == {y \in S : s <= y}
           T == {Above(s) : s \in S}
<1>1. T \in SUBSET (SUBSET S) /\ T # {}
  OBVIOUS
<1>2. \A s \in S : IsFiniteSet(Above(s))
  BY FS_Subset
<1>3. \A x \in T : IsFiniteSet(x)
  BY <1>2
<1>4. PICK x : Smallest(x, T)
  <2> HIDE DEF T
  <2> QED BY <1>1, <1>3, SmallestExists
<1>5. PICK m \in S : x = Above(m)
  BY <1>4 DEF Smallest
<1>6. ASSUME NEW y \in S
      PROVE  m >= y
  <2>1. CASE m < y
    <3>1. Above(y) \in T
      OBVIOUS
    <3>2. Above(y) \subseteq Above(m)
      <4> HIDE DEF T
      <4>1. m \in Int /\ y \in Int /\ \A z \in S : z \in Int
        OBVIOUS
      <4>2. \A z \in S : y <= z => m <= z
        BY <2>1, <4>1
      <4> QED BY <4>2
    <3>3. Above(y) = Above(m)
      <4> HIDE DEF T, Above
      <4> QED BY <1>4, <1>5, <3>1, <3>2 DEF Smallest
    <3>4. m \in Above(m) /\ m \notin Above(y)
      <4> HIDE DEF T
      <4> QED BY <2>1
    <3> QED BY <3>3, <3>4
  <2> QED BY <2>1
<1>7. \E k \in S : \A y \in S : k >= y
  BY <1>6
<1>8. Max(S) \in S /\ \A y \in S : Max(S) >= y
  BY <1>7 DEF Max
<1> QED BY <1>8

(* The same for naturals below a bound.                                    *)
LEMMA MaxInSet ==
  ASSUME NEW n \in Nat, NEW S \in SUBSET (0..n), S # {}
  PROVE  Max(S) \in S /\ \A y \in S : y <= Max(S)
<1>1. IsFiniteSet(0..n) /\ S \in SUBSET Int
  BY FS_Interval
<1>2. IsFiniteSet(S)
  BY <1>1, FS_Subset
<1> QED BY <1>1, <1>2, MaxInFinite

(* The least element of a set of naturals.                                 *)
LEMMA MinOfNaturals ==
  ASSUME NEW S \in SUBSET Nat, S # {}
  PROVE  Min(S) \in S /\ \A y \in S : Min(S) <= y
<1> DEFINE less == {p \in Nat \X Nat : p[1] < p[2]}
<1>1. OpToRel(<, Nat) = less
  BY Zenon DEF OpToRel
<1>2. IsWellFoundedOn(less, Nat)
  BY <1>1, NatLessThanWellFounded, Zenon
<1>3. PICK k \in S : \A y \in S : ~ (<<y, k>> \in less)
  <2> HIDE DEF less
  <2> QED BY <1>2, WFMin, Zenon
<1>4. \A x, y \in Nat : ~ (<<y, x>> \in less) => x <= y
  OBVIOUS
<1> HIDE DEF less
<1>5. \A y \in S : k <= y
  BY <1>3, <1>4
<1> QED BY <1>5 DEF Min

(* A function takes a finite set to a finite set.                          *)
LEMMA FiniteImage ==
  ASSUME NEW S, IsFiniteSet(S), NEW f, f = [x \in S |-> f[x]]
  PROVE  IsFiniteSet({f[x] : x \in S})
<1> DEFINE T == {f[x] : x \in S}
<1>1. f \in [S -> T]
  OBVIOUS
<1>2. \A t \in T : \E s \in S : f[s] = t
  OBVIOUS
<1> HIDE DEF T
<1>3. f \in Surjection(S, T)
  BY <1>1, <1>2 DEF Surjection
<1>4. IsFiniteSet(T)
  BY <1>3, FS_Surjection
<1> QED BY <1>4 DEF T

(* Adding what is not less to a set of naturals keeps its least element.   *)
LEMMA MinKept ==
  ASSUME NEW S \in SUBSET Nat, S # {}, NEW T \in SUBSET Nat, S \subseteq T,
         \A t \in T \ S : \A s \in S : s <= t
  PROVE  Min(T) = Min(S)
<1>1. Min(S) \in S /\ (\A y \in S : Min(S) <= y)
  BY MinOfNaturals
<1>2. Min(T) \in T /\ (\A y \in T : Min(T) <= y)
  BY MinOfNaturals
<1>3. Min(T) <= Min(S) /\ Min(S) <= Min(T)
  BY <1>1, <1>2
<1>4. Min(T) \in Nat /\ Min(S) \in Nat
  BY <1>1, <1>2
<1> HIDE <1>1, <1>2
<1> QED BY <1>3, <1>4

(* A larger finite set has no smaller greatest element.                    *)
LEMMA MaxGrows ==
  ASSUME NEW T \in SUBSET Int, IsFiniteSet(T), NEW S \in SUBSET T, S # {}
  PROVE  Max(S) \in Int /\ Max(T) \in Int /\ Max(S) <= Max(T)
<1>1. IsFiniteSet(S)
  BY FS_Subset
<1>2. Max(S) \in S
  BY <1>1, MaxInFinite
<1>3. Max(T) \in T /\ \A y \in T : y <= Max(T)
  BY MaxInFinite
<1> QED BY <1>2, <1>3

(* A set of integers with an upper bound has a greatest element.           *)
LEMMA MaxBelow ==
  ASSUME NEW S \in SUBSET Int, S # {}, NEW b \in Int, \A y \in S : y <= b
  PROVE  Max(S) \in S /\ \A y \in S : y <= Max(S)
<1> DEFINE T == {b - y : y \in S}
<1>1. T \in SUBSET Nat /\ T # {}
  <2>1. \A y \in S : y \in Int /\ y <= b
    OBVIOUS
  <2>2. \A y \in S : b - y \in Nat
    BY <2>1
  <2> QED BY <2>2
<1>2. Min(T) \in T /\ \A t \in T : Min(T) <= t
  <2> HIDE DEF T
  <2> QED BY <1>1, MinOfNaturals
<1>3. PICK m \in S : Min(T) = b - m
  BY <1>2
<1>4. \A y \in S : m >= y
  <2> SUFFICES ASSUME NEW y \in S PROVE m >= y
    OBVIOUS
  <2>1. b - y \in T
    OBVIOUS
  <2> HIDE DEF T
  <2>2. b - m <= b - y
    BY <1>2, <1>3, <2>1
  <2> QED BY <2>2
<1>5. \E k \in S : \A y \in S : k >= y
  BY <1>4
<1>6. Max(S) \in S /\ \A y \in S : Max(S) >= y
  BY <1>5 DEF Max
<1> QED BY <1>6

(* A set of integers with a lower bound has a least element.               *)
LEMMA MinAbove ==
  ASSUME NEW S \in SUBSET Int, S # {}, NEW b \in Int, \A y \in S : b <= y
  PROVE  Min(S) \in S /\ \A y \in S : Min(S) <= y
<1> DEFINE T == {y - b : y \in S}
<1>1. T \in SUBSET Nat /\ T # {}
  <2>1. \A y \in S : y \in Int /\ b <= y
    OBVIOUS
  <2>2. \A y \in S : y - b \in Nat
    BY <2>1
  <2> QED BY <2>2
<1>2. Min(T) \in T /\ \A t \in T : Min(T) <= t
  <2> HIDE DEF T
  <2> QED BY <1>1, MinOfNaturals
<1>3. PICK m \in S : Min(T) = m - b
  BY <1>2
<1>4. \A y \in S : m <= y
  <2> SUFFICES ASSUME NEW y \in S PROVE m <= y
    OBVIOUS
  <2>1. y - b \in T
    OBVIOUS
  <2> HIDE DEF T
  <2>2. m - b <= y - b
    BY <1>2, <1>3, <2>1
  <2> QED BY <2>2
<1>5. \E k \in S : \A y \in S : k <= y
  BY <1>4
<1> QED BY <1>5 DEF Min

-----------------------------------------------------------------------------
(* The inductive invariant: what the evidence is. *)

LinkRows == {LinkRow(l, t) : l \in LinkShapes, t \in Nat}

(* A row shows an entry CSE may show, at a time that has come.             *)
ListingOK ==
  /\ IsFiniteSet(listing)
  /\ \A o \in listing : o.at \in 0..now /\ \E e \in Entries : o = ListingRow(e, o.at)

(* A source has a current version exactly when a row shows one.            *)
CurrentOK ==
  /\ current \in [Filings -> [ToSet(Sources) -> Entries \cup {None}]]
  /\ \A f \in Filings : \A s \in ToSet(Sources) :
       current[f][s] = None <=> ~ \E o \in listing : o.filing = f /\ o.source = s

LinksOK ==
  /\ links \in Seq(LinkRows)
  /\ \A i \in DOMAIN links : links[i].at \in 0..now

(* Runs are numbered; each is of bytes a listed filing carries.            *)
RunOK(r) ==
  /\ r.id \in 1..Cardinality(runs) /\ r.at \in 0..now
  /\ r.filing \in Filings /\ <<r.filing, r.doc>> \in Carries
  /\ r.accepted \in BOOLEAN
  /\ {r.last_modified, r.path_epoch, r.retrieved} \subseteq Nat \cup {None}
  /\ \E o \in listing : o.filing = r.filing

RunsOK ==
  /\ IsFiniteSet(runs)
  /\ \A r \in runs : RunOK(r)
  /\ \A q, r \in runs : q.id = r.id => q = r

(* A validation run is what F6.4 makes of its run and inputs, once.        *)
ValidationOK(v) ==
  /\ v.at \in 0..now /\ v.link \in {0} \cup DOMAIN links
  /\ \E r \in runs :
       /\ r.id = v.run
       /\ v.observations = Observations(r.doc, content[r.doc],
                             IF v.link = 0 THEN None ELSE links[v.link], v.uploaded)

ValidationsOK ==
  /\ \A v \in vruns : ValidationOK(v)
  /\ \A v, w \in vruns :
       v.run = w.run /\ v.link = w.link /\ v.uploaded = w.uploaded => v = w

EvidenceOK ==
  /\ now \in Nat \ {0} /\ content \in Contents
  /\ ListingOK /\ CurrentOK /\ LinksOK /\ RunsOK /\ ValidationsOK

(* The answers told are of settled horizons, and still given.              *)
ToldOK ==
  \A x \in told : x[1].horizon \in Nat /\ x[1].horizon < now /\ Answer(x[1]) = x[2]

HistInv == EvidenceOK /\ ToldOK


-----------------------------------------------------------------------------
(* Settled answers. *)

(* What was recorded by h stays, and nothing is recorded in the past.      *)
Settled(h) ==
  /\ {o \in listing' : o.at <= h} = {o \in listing : o.at <= h}
  /\ {r \in runs' : r.at <= h} = {r \in runs : r.at <= h}
  /\ {v \in vruns' : v.at <= h} = {v \in vruns : v.at <= h}
  /\ \A f : LinkAsOf(f, h)' = LinkAsOf(f, h)
  /\ \A v \in vruns : KnownAt(v)' = KnownAt(v)

(* The rows of a filing decide its availability, versions and inputs.      *)
LEMMA RowsSettled ==
  ASSUME NEW h, Settled(h)
  PROVE  /\ \A f : ListedBy(f, h)' = ListedBy(f, h)
         /\ \A f : Versions(f, h)' = Versions(f, h)
         /\ \A f, d : VersionRuns(f, d, h)' = VersionRuns(f, d, h)
<1>1. ASSUME NEW f
      PROVE  ListedBy(f, h)' = ListedBy(f, h)
  BY DEF ListedBy, Settled
<1>2. ASSUME NEW f
      PROVE  Versions(f, h)' = Versions(f, h)
  BY DEF Versions, Settled
<1>3. ASSUME NEW f, NEW d
      PROVE  VersionRuns(f, d, h)' = VersionRuns(f, d, h)
  BY DEF VersionRuns, Settled
<1> QED BY <1>1, <1>2, <1>3

(* ... and so its versions' roles and availability.                        *)
LEMMA AvailabilitySettled ==
  ASSUME NEW h, Settled(h)
  PROVE  /\ \A f : FilingAvailability(f, h)' = FilingAvailability(f, h)
         /\ \A f, d : VersionAvailability(f, d, h)' = VersionAvailability(f, d, h)
         /\ \A d, fs : DocumentAvailability(d, fs, h)' = DocumentAvailability(d, fs, h)
         /\ \A f : UploadedAsOf(f, h)' = UploadedAsOf(f, h)
<1>1. ASSUME NEW f
      PROVE  /\ FilingAvailability(f, h)' = FilingAvailability(f, h)
             /\ UploadedAsOf(f, h)' = UploadedAsOf(f, h)
  <2>1. ListedBy(f, h)' = ListedBy(f, h)
    BY RowsSettled
  <2>2. FilingAvailability(f, h)' = FilingAvailability(f, h)
    BY <2>1 DEF FilingAvailability
  <2>3. UploadedAsOf(f, h)' = UploadedAsOf(f, h)
    BY <2>1 DEF UploadedAsOf
  <2> QED BY <2>2, <2>3
<1>2. ASSUME NEW f, NEW d
      PROVE  VersionAvailability(f, d, h)' = VersionAvailability(f, d, h)
  <2>1. /\ Versions(f, h)' = Versions(f, h)
        /\ \A e : VersionRuns(f, e, h)' = VersionRuns(f, e, h)
        /\ FilingAvailability(f, h)' = FilingAvailability(f, h)
    BY <1>1, RowsSettled
  <2>2. Role(f, d, h)' = Role(f, d, h)
    BY <2>1 DEF Role
  <2>3. VersionAvailability(f, d, h)' = VersionAvailability(f, d, h)
    BY <2>1, <2>2 DEF VersionAvailability
  <2> QED BY <2>3
<1>3. ASSUME NEW d, NEW fs
      PROVE  DocumentAvailability(d, fs, h)' = DocumentAvailability(d, fs, h)
  BY <1>2 DEF DocumentAvailability
<1> QED BY <1>1, <1>2, <1>3

(* ... and what supersedes what.                                           *)
LEMMA SupersessionSettled ==
  ASSUME NEW h, Settled(h)
  PROVE  \A cands : /\ Ambiguous(cands, h)' = Ambiguous(cands, h)
                    /\ Dropped(cands, h)' = Dropped(cands, h)
<1>1. \A f, d : VersionRuns(f, d, h)' = VersionRuns(f, d, h)
  BY RowsSettled
<1>2. ASSUME NEW s, NEW o
      PROVE  s3(s, o, h)' <=> s3(s, o, h)
  BY <1>1 DEF s3
<1>3. \A s, o : Supersedes(s, o, h)' <=> Supersedes(s, o, h)
  BY <1>2 DEF Supersedes
<1>4. ASSUME NEW cands
      PROVE  Ambiguous(cands, h)' = Ambiguous(cands, h)
  BY <1>3 DEF Ambiguous
<1>5. ASSUME NEW cands
      PROVE  Dropped(cands, h)' = Dropped(cands, h)
  BY <1>3, <1>4 DEF Dropped
<1> QED BY <1>4, <1>5

(* ... and the observations of a set of runs, each known when its links    *)
(* are.                                                                    *)
LEMMA HeldSettled ==
  ASSUME NEW h, Settled(h)
  PROVE  \A rs : Held(rs, h)' = Held(rs, h)
<1>1. ASSUME NEW r
      PROVE  canonical_validation_run(r, h)' = canonical_validation_run(r, h)
  <2>1. /\ UploadedAsOf(r.filing, h)' = UploadedAsOf(r.filing, h)
        /\ LinkAsOf(r.filing, h)' = LinkAsOf(r.filing, h)
        /\ {v \in vruns' : v.at <= h} = {v \in vruns : v.at <= h}
    BY AvailabilitySettled DEF Settled
  <2> QED BY <2>1 DEF canonical_validation_run
<1>2. ASSUME NEW r, NEW w \in canonical_validation_run(r, h).found
      PROVE  KnownAt(w)' = KnownAt(w)
  <2>1. w \in vruns
    BY DEF canonical_validation_run
  <2> QED BY <2>1 DEF Settled
<1>3. ASSUME NEW r
      PROVE  {w \in canonical_validation_run(r, h).found : KnownAt(w)' <= h}
               = {w \in canonical_validation_run(r, h).found : KnownAt(w) <= h}
  BY <1>2
<1>4. ASSUME NEW rs
      PROVE  Held(rs, h)' = Held(rs, h)
  BY <1>1, <1>3 DEF Held
<1> QED BY <1>4

(* A fact's view, given what supersession leaves of its candidates.        *)
View(id, cands, gone, ambiguous, seen, tied, pending, accepted) ==
  LET kept == {c.so : c \in cands \ gone}
  IN  [identity |-> id,
       result |-> IF kept = {} THEN None
                  ELSE reconcile_fact(kept, \E o \in kept :
                          OtherCurrency({x.so : x \in seen}, o), accepted),
       visible |-> {o.doc : o \in kept},
       superseded |-> {c.so.doc : c \in gone},
       ambiguous |-> ambiguous,
       tied |-> {x.so.doc : x \in {y \in tied : y.so.identity = id}},
       not_yet_available |-> {x.so.doc : x \in {y \in pending : y.so.identity = id}}]

(* The candidates among which supersession decides a fact.                 *)
Cands(id, seen, filingsOf, h) ==
  {[so |-> x.so, filings |-> filingsOf[x.so.doc],
    at |-> DocumentAvailability(x.so.doc, filingsOf[x.so.doc], h)] :
      x \in {y \in seen : y.so.identity = id}}

(* FactView in these terms.                                                *)
LEMMA FactViewIs ==
  ASSUME NEW id, NEW seen, NEW tied, NEW pending, NEW filingsOf, NEW accepted, NEW h
  PROVE  /\ FactView(id, seen, tied, pending, filingsOf, accepted, h)
              = View(id, Cands(id, seen, filingsOf, h),
                     Dropped(Cands(id, seen, filingsOf, h), h),
                     Ambiguous(Cands(id, seen, filingsOf, h), h),
                     seen, tied, pending, accepted)
         /\ FactView(id, seen, tied, pending, filingsOf, accepted, h)'
              = View(id, Cands(id, seen, filingsOf, h)',
                     Dropped(Cands(id, seen, filingsOf, h), h)',
                     Ambiguous(Cands(id, seen, filingsOf, h), h)',
                     seen, tied, pending, accepted)
BY DEF FactView, View, Cands

(* The runs known, and those of the versions shown; what an answer takes   *)
(* from them.                                                              *)
KnownRuns(h) == {r \in runs : r.at <= h}
ShownRuns(q) == {r \in KnownRuns(q.horizon) : VersionVisible(q, r)}
Carrying(shown) == [d \in Docs |-> {r.filing : r \in {s \in shown : s.doc = d}}]
Accepting(shown) ==
  [d \in Docs |-> {r.filing : r \in {s \in shown : s.doc = d /\ s.accepted}}]
LaterRuns(known, shown) == {r \in known \ shown : Carrying(shown)[r.doc] = {}}
OfIssuer(held) == {x \in held : x.so.identity.issuer_id = Issuer}
Pending(q) ==
  IF q.mode # "KNOWN" THEN {}
  ELSE OfIssuer(Held(LaterRuns(KnownRuns(q.horizon), ShownRuns(q)), q.horizon))
Views(held, pending, shown, h) ==
  {FactView(id, {x \in held : ~ x.tie}, {x \in held : x.tie}, pending,
            Carrying(shown), Accepting(shown), h) : id \in FactsOf(held \cup pending)}

(* Answer in these terms.                                                  *)
LEMMA AnswerIs ==
  ASSUME NEW q
  PROVE  /\ Answer(q) = Views(OfIssuer(Held(ShownRuns(q), q.horizon)),
                             Pending(q), ShownRuns(q), q.horizon)
         /\ Answer(q)' = Views(OfIssuer(Held(ShownRuns(q), q.horizon)),
                              Pending(q), ShownRuns(q), q.horizon)'
BY DEF Answer, Views, Pending, OfIssuer, LaterRuns, Accepting, Carrying, ShownRuns, KnownRuns

(* An answer of a settled horizon reads nothing else.                      *)
LEMMA AnswerSettled ==
  ASSUME NEW q, Settled(q.horizon)
  PROVE  Answer(q)' = Answer(q)
<1> DEFINE h == q.horizon
<1>1. \A r : VersionVisible(q, r)' <=> VersionVisible(q, r)
  BY AvailabilitySettled DEF VersionVisible
<1>2. ASSUME NEW id, NEW seen, NEW tied, NEW pending, NEW filingsOf, NEW accepted
      PROVE  FactView(id, seen, tied, pending, filingsOf, accepted, h)'
               = FactView(id, seen, tied, pending, filingsOf, accepted, h)
  <2>1. Cands(id, seen, filingsOf, h)' = Cands(id, seen, filingsOf, h)
    BY AvailabilitySettled DEF Cands
  <2>2. PICK c : c = Cands(id, seen, filingsOf, h)
    OBVIOUS
  <2>3. Dropped(c, h)' = Dropped(c, h) /\ Ambiguous(c, h)' = Ambiguous(c, h)
    BY SupersessionSettled
  <2>4. /\ Dropped(Cands(id, seen, filingsOf, h), h)' = Dropped(c, h)'
        /\ Ambiguous(Cands(id, seen, filingsOf, h), h)' = Ambiguous(c, h)'
    BY <2>1, <2>2
  <2>5. /\ FactView(id, seen, tied, pending, filingsOf, accepted, h)
              = View(id, Cands(id, seen, filingsOf, h),
                     Dropped(Cands(id, seen, filingsOf, h), h),
                     Ambiguous(Cands(id, seen, filingsOf, h), h),
                     seen, tied, pending, accepted)
        /\ FactView(id, seen, tied, pending, filingsOf, accepted, h)'
              = View(id, Cands(id, seen, filingsOf, h)',
                     Dropped(Cands(id, seen, filingsOf, h), h)',
                     Ambiguous(Cands(id, seen, filingsOf, h), h)',
                     seen, tied, pending, accepted)
    BY FactViewIs
  <2> QED BY <2>1, <2>2, <2>3, <2>4, <2>5
<1>3. ShownRuns(q)' = ShownRuns(q) /\ KnownRuns(h)' = KnownRuns(h)
  BY <1>1 DEF ShownRuns, KnownRuns, Settled
<1>4. PICK shown, known : shown = ShownRuns(q) /\ known = KnownRuns(h)
  OBVIOUS
<1>5. \A rs : Held(rs, h)' = Held(rs, h)
  BY HeldSettled
<1>6. PICK held : held = OfIssuer(Held(shown, h))
  OBVIOUS
<1>7. OfIssuer(Held(ShownRuns(q), h)) = held /\ OfIssuer(Held(ShownRuns(q), h))' = held
  BY <1>3, <1>4, <1>5, <1>6 DEF OfIssuer
<1>8. PICK pending : pending = Pending(q)
  OBVIOUS
<1>9. Pending(q)' = pending
  BY <1>3, <1>4, <1>5, <1>8 DEF Pending, OfIssuer
<1>10. Views(held, pending, shown, h)' = Views(held, pending, shown, h)
  <2> DEFINE old(id) == FactView(id, {x \in held : ~ x.tie}, {x \in held : x.tie}, pending,
                                 Carrying(shown), Accepting(shown), h)
             new(id) == FactView(id, {x \in held : ~ x.tie}, {x \in held : x.tie}, pending,
                                 Carrying(shown), Accepting(shown), h)'
  <2>1. \A id : old(id) = new(id)
    BY <1>2
  <2>2. /\ Views(held, pending, shown, h) = {old(id) : id \in FactsOf(held \cup pending)}
        /\ Views(held, pending, shown, h)' = {new(id) : id \in FactsOf(held \cup pending)}
    BY DEF Views, Carrying, Accepting
  <2> HIDE DEF old, new
  <2> QED BY <2>1, <2>2
<1>11. /\ Answer(q) = Views(held, pending, shown, h)
       /\ Answer(q)' = Views(held, pending, shown, h)'
  BY <1>3, <1>4, <1>7, <1>8, <1>9, AnswerIs
<1> QED BY <1>10, <1>11

-----------------------------------------------------------------------------
(* The writers keep the evidence, and leave what is settled. *)

(* Nothing of the evidence changes.                                        *)
LEMMA StillSettled ==
  ASSUME UNCHANGED <<listing, links, runs, vruns>>
  PROVE  \A h : Settled(h)
<1>1. ASSUME NEW f, NEW h
      PROVE  LinkAsOf(f, h)' = LinkAsOf(f, h)
  BY DEF LinkAsOf
<1>2. ASSUME NEW v
      PROVE  KnownAt(v)' = KnownAt(v)
  BY DEF KnownAt
<1> QED BY <1>1, <1>2 DEF Settled

(* Init.                                                                   *)
LEMMA InitEvidence ==
  ASSUME Init
  PROVE  HistInv
<1> USE EvidenceAssumption DEF Init
<1>1. ListingOK
  <2> DEFINE f == [e \in Backlog |-> ListingRow(e, 0)]
  <2>1. IsFiniteSet(Backlog)
    BY FS_Subset
  <2>2. f = [e \in Backlog |-> f[e]]
    OBVIOUS
  <2>3. listing = {f[e] : e \in Backlog}
    OBVIOUS
  <2> HIDE DEF f, Init
  <2>4. IsFiniteSet({f[e] : e \in Backlog})
    BY <2>1, <2>2, FiniteImage
  <2> USE DEF Init
  <2>5. \A o \in listing : o.at = 0 /\ \E e \in Entries : o = ListingRow(e, o.at)
    BY DEF ListingRow
  <2>6. 0 \in 0..now
    OBVIOUS
  <2> HIDE DEF Init
  <2> QED BY <2>3, <2>4, <2>5, <2>6 DEF ListingOK
<1>2. CurrentOK
  <2> DEFINE here(f, s) == {e \in Backlog : e.filing = f /\ e.source = s}
  <2>1. \A f, s : here(f, s) # {} => (CHOOSE e \in here(f, s) : TRUE) \in here(f, s)
    OBVIOUS
  <2>2. \A f, s : here(f, s) \subseteq Entries
    OBVIOUS
  <2>3. ASSUME NEW f, NEW s
        PROVE  here(f, s) = {} <=> ~ \E o \in listing : o.filing = f /\ o.source = s
    <3>1. \A o : o \in listing <=> \E e \in Backlog : o = ListingRow(e, 0)
      OBVIOUS
    <3>2. \A e \in Backlog : ListingRow(e, 0).filing = e.filing /\ ListingRow(e, 0).source = e.source
      BY DEF ListingRow
    <3> HIDE DEF Init
    <3> QED BY <3>1, <3>2
  <2>4. current = [f \in Filings |-> [s \in ToSet(Sources) |->
          IF here(f, s) = {} THEN None ELSE CHOOSE e \in here(f, s) : TRUE]]
    OBVIOUS
  <2> HIDE DEF here, Init
  <2> QED BY <2>1, <2>2, <2>3, <2>4 DEF CurrentOK
<1>3. LinksOK
  <2>1. \A i \in DOMAIN Decided : LinkRow(Decided[i], 0) \in LinkRows
    BY DEF LinkRows
  <2>2. \A i \in DOMAIN Decided : LinkRow(Decided[i], 0).at = 0
    BY DEF LinkRow
  <2> HIDE DEF LinkRow
  <2>3. DOMAIN Decided = 1..Len(Decided) /\ Len(Decided) \in Nat
    OBVIOUS
  <2>4. links \in [1..Len(Decided) -> LinkRows]
    BY <2>1, <2>3
  <2>5. links \in Seq(LinkRows)
    BY <2>3, <2>4
  <2> QED BY <2>2, <2>5 DEF LinksOK
<1>4. RunsOK /\ ValidationsOK /\ ToldOK
  BY FS_EmptySet DEF RunsOK, ValidationsOK, ToldOK
<1> QED BY <1>1, <1>2, <1>3, <1>4 DEF HistInv, EvidenceOK

(* The clock.                                                              *)
LEMMA TickStep ==
  ASSUME HistInv, Tick
  PROVE  HistInv'
<1> USE DEF Tick, HistInv
<1>1. EvidenceOK'
  <2>1. now \in Nat /\ now' \in Nat \ {0} /\ 0..now \subseteq 0..now'
    BY DEF EvidenceOK
  <2>2. ListingOK' /\ LinksOK'
    BY <2>1 DEF EvidenceOK, ListingOK, LinksOK
  <2>3. CurrentOK'
    BY DEF EvidenceOK, CurrentOK
  <2>4. RunsOK'
    BY <2>1 DEF EvidenceOK, RunsOK, RunOK
  <2>5. ValidationsOK'
    BY <2>1 DEF EvidenceOK, ValidationsOK, ValidationOK
  <2> QED BY <2>1, <2>2, <2>3, <2>4, <2>5 DEF EvidenceOK
<1>2. \A q : Answer(q)' = Answer(q)
  BY StillSettled, AnswerSettled
<1>3. \A q \in Queries({now}) : q.horizon = now
  BY DEF Queries, Known, Available, Current
<1>4. now \in Nat /\ now' = now + 1
  BY DEF EvidenceOK
<1>5. ASSUME NEW x \in told'
      PROVE  x[1].horizon \in Nat /\ x[1].horizon < now' /\ Answer(x[1])' = x[2]
  <2>1. CASE x \in told
    <3>1. x[1].horizon \in Nat /\ x[1].horizon < now /\ Answer(x[1]) = x[2]
      BY <2>1 DEF ToldOK
    <3> QED BY <3>1, <1>2, <1>4
  <2>2. CASE x \notin told
    <3>1. PICK q \in Queries({now}) : x = <<q, Answer(q)>>
      BY <2>2
    <3>2. x[1] = q /\ x[2] = Answer(q) /\ q.horizon = now
      BY <3>1, <1>3
    <3> QED BY <3>2, <1>2, <1>4
  <2> QED BY <2>1, <2>2
<1> QED BY <1>1, <1>5 DEF ToldOK

(* A writer's step.                                                        *)
LEMMA WriterStep ==
  ASSUME HistInv, now' = now, told' = told, EvidenceOK',
         \A h \in Nat : h < now => Settled(h)
  PROVE  HistInv'
<1>1. ASSUME NEW x \in told'
      PROVE  x[1].horizon \in Nat /\ x[1].horizon < now' /\ Answer(x[1])' = x[2]
  <2>1. x[1].horizon \in Nat /\ x[1].horizon < now /\ Answer(x[1]) = x[2]
    BY DEF HistInv, ToldOK
  <2>2. Answer(x[1])' = Answer(x[1])
    BY <2>1, AnswerSettled
  <2> QED BY <2>1, <2>2
<1> QED BY <1>1 DEF HistInv, ToldOK

(* When a value became known is decided by rows that stay.                 *)
LEMMA KnownKept ==
  ASSUME EvidenceOK, NEW v \in vruns, vruns \subseteq vruns',
         runs \subseteq runs', \A q, r \in runs' : q.id = r.id => q = r,
         listing \subseteq listing', \A o \in listing' : o.at \in Nat,
         \A o \in listing' \ listing : o.at = now,
         \A i \in DOMAIN links : links'[i] = links[i]
  PROVE  KnownAt(v)' = KnownAt(v)
<1>1. PICK r \in runs : r.id = v.run
  BY DEF EvidenceOK, ValidationsOK, ValidationOK
<1>2. (CHOOSE q \in runs : q.id = v.run) = r /\ (CHOOSE q \in runs' : q.id = v.run) = r
  BY <1>1 DEF EvidenceOK, RunsOK
<1> DEFINE S == {o.at : o \in {p \in listing : p.filing = r.filing}}
           T == {o.at : o \in {p \in listing' : p.filing = r.filing}}
<1>3. S \in SUBSET Nat /\ S # {} /\ T \in SUBSET Nat /\ S \subseteq T
  <2>1. \E o \in listing : o.filing = r.filing
    BY DEF EvidenceOK, RunsOK, RunOK
  <2> QED BY <2>1
<1>4. \A t \in T \ S : \A s \in S : s <= t
  <2>1. \A s \in S : s <= now
    BY DEF EvidenceOK, ListingOK
  <2>2. \A t \in T \ S : t = now
    OBVIOUS
  <2> QED BY <2>1, <2>2
<1>5. Min(T) = Min(S)
  <2> HIDE DEF S, T
  <2> QED BY <1>3, <1>4, MinKept
<1>6. v.link # 0 => links'[v.link] = links[v.link]
  BY DEF EvidenceOK, ValidationsOK, ValidationOK
<1> DEFINE A == IF v.link = 0 THEN {} ELSE {links[v.link].at}
           B == IF v.link = 0 THEN {} ELSE {links'[v.link].at}
<1>7. A = B
  BY <1>6
<1>8. KnownAt(v) = Max({Min(S), r.at, v.at} \cup A)
  BY <1>2 DEF KnownAt
<1>9. KnownAt(v)' = Max({Min(T), r.at, v.at} \cup B)
  BY <1>2 DEF KnownAt
<1> HIDE DEF S, T, A, B
<1> QED BY <1>5, <1>7, <1>8, <1>9

(* F1 stores what the source shows.                                        *)
LEMMA ObserveStep ==
  ASSUME HistInv, NEW e \in Entries, Observe(e)
  PROVE  HistInv'
<1> DEFINE row == ListingRow(e, now)
<1>0. /\ now \in Nat \ {0} /\ now' = now /\ told' = told /\ content' = content
      /\ links' = links /\ runs' = runs /\ vruns' = vruns
      /\ e.filing \in Filings /\ e.source \in ToSet(Sources) /\ e # None
  BY EvidenceAssumption DEF HistInv, EvidenceOK, Observe
<1>1. row.filing = e.filing /\ row.source = e.source /\ row.at = now
  BY DEF ListingRow
<1>2. \/ listing' = listing /\ \E o \in listing : o.filing = e.filing /\ o.source = e.source
      \/ listing' = listing \cup {row}
  BY DEF Observe, ListingRow
<1>3. /\ listing \subseteq listing' /\ \A o \in listing' \ listing : o = row
      /\ \E o \in listing' : o.filing = e.filing /\ o.source = e.source
  BY <1>1, <1>2
<1>4. ListingOK'
  <2>1. ListingOK
    BY DEF HistInv, EvidenceOK
  <2>2. IsFiniteSet(listing')
    BY <1>2, <2>1, FS_AddElement DEF ListingOK
  <2>3. \A o \in listing' : o.at \in 0..now /\ \E d \in Entries : o = ListingRow(d, o.at)
    BY <1>0, <1>1, <1>2, <2>1 DEF ListingOK
  <2> QED BY <1>0, <2>2, <2>3 DEF ListingOK
<1>5. CurrentOK'
  <2>1. CurrentOK
    BY DEF HistInv, EvidenceOK
  <2>2. current' = [current EXCEPT ![e.filing][e.source] = e]
    BY DEF Observe
  <2>3. current' \in [Filings -> [ToSet(Sources) -> Entries \cup {None}]]
    BY <1>0, <2>1, <2>2 DEF CurrentOK
  <2>4. ASSUME NEW f \in Filings, NEW s \in ToSet(Sources)
        PROVE  current'[f][s] = None
                 <=> ~ \E o \in listing' : o.filing = f /\ o.source = s
    <3>1. CASE f = e.filing /\ s = e.source
      <4>1. current'[f][s] = e
        BY <1>0, <2>1, <2>2, <3>1 DEF CurrentOK
      <4> QED BY <1>0, <1>3, <3>1, <4>1
    <3>2. CASE ~ (f = e.filing /\ s = e.source)
      <4>1. current'[f][s] = current[f][s]
        BY <1>0, <2>1, <2>2, <3>2 DEF CurrentOK
      <4>2. (\E o \in listing' : o.filing = f /\ o.source = s)
              <=> \E o \in listing : o.filing = f /\ o.source = s
        BY <1>1, <1>3, <3>2
      <4> QED BY <2>1, <4>1, <4>2 DEF CurrentOK
    <3> QED BY <3>1, <3>2
  <2> QED BY <2>3, <2>4 DEF CurrentOK
<1>6. LinksOK' /\ RunsOK' /\ ValidationsOK'
  BY <1>0, <1>3 DEF HistInv, EvidenceOK, LinksOK, RunsOK, RunOK, ValidationsOK, ValidationOK
<1>7. EvidenceOK'
  BY <1>0, <1>4, <1>5, <1>6 DEF HistInv, EvidenceOK
<1>8. ASSUME NEW h \in Nat, h < now
      PROVE  Settled(h)
  <2>1. {o \in listing' : o.at <= h} = {o \in listing : o.at <= h}
    BY <1>0, <1>1, <1>3, <1>8
  <2>2. \A f : LinkAsOf(f, h)' = LinkAsOf(f, h)
    BY <1>0 DEF LinkAsOf
  <2>3. \A o \in listing' : o.at \in Nat
    BY <1>4 DEF ListingOK
  <2>4. \A q, r \in runs : q.id = r.id => q = r
    BY DEF HistInv, EvidenceOK, RunsOK
  <2>5. \A v \in vruns : KnownAt(v)' = KnownAt(v)
    BY <1>0, <1>1, <1>3, <2>3, <2>4, KnownKept DEF HistInv
  <2> QED BY <1>0, <2>1, <2>2, <2>5 DEF Settled
<1>9. \A h \in Nat : h < now => Settled(h)
  BY <1>8
<1>10. now' = now /\ told' = told
  BY <1>0
<1> QED BY <1>7, <1>9, <1>10, WriterStep

(* A decision about a filing.                                              *)
LEMMA LinkStep ==
  ASSUME HistInv, NEW shape \in LinkShapes, Decide_link(shape)
  PROVE  HistInv'
<1> DEFINE row == LinkRow(shape, now)
<1>0. /\ now \in Nat \ {0} /\ now' = now /\ told' = told /\ content' = content
      /\ listing' = listing /\ current' = current /\ runs' = runs /\ vruns' = vruns
      /\ links' = Append(links, row) /\ links \in Seq(LinkRows)
  BY DEF HistInv, EvidenceOK, LinksOK, Decide_link
<1>1. row \in LinkRows /\ row.at = now
  BY <1>0 DEF LinkRows, LinkRow
<1> HIDE DEF row
<1>2. /\ links' \in Seq(LinkRows) /\ DOMAIN links \subseteq DOMAIN links'
      /\ \A i \in DOMAIN links : links'[i] = links[i]
      /\ \A i \in DOMAIN links' : i \in DOMAIN links \/ links'[i] = row
  BY <1>0, <1>1
<1>3. LinksOK'
  <2>1. \A i \in DOMAIN links : links[i].at \in 0..now
    BY DEF HistInv, EvidenceOK, LinksOK
  <2> QED BY <1>0, <1>1, <1>2, <2>1 DEF LinksOK
<1>4. ListingOK' /\ CurrentOK' /\ RunsOK'
  BY <1>0 DEF HistInv, EvidenceOK, ListingOK, CurrentOK, RunsOK, RunOK
<1>5. ValidationsOK'
  <2>1. ValidationsOK
    BY DEF HistInv, EvidenceOK
  <2>2. ASSUME NEW v \in vruns
        PROVE  ValidationOK(v)'
    <3>1. v.at \in 0..now /\ v.link \in {0} \cup DOMAIN links
      BY <2>1 DEF ValidationsOK, ValidationOK
    <3>2. v.link # 0 => links'[v.link] = links[v.link]
      BY <1>2, <3>1
    <3>3. (IF v.link = 0 THEN None ELSE links'[v.link])
            = (IF v.link = 0 THEN None ELSE links[v.link])
      BY <3>2
    <3>4. PICK r \in runs :
             /\ r.id = v.run
             /\ v.observations = Observations(r.doc, content[r.doc],
                  IF v.link = 0 THEN None ELSE links[v.link], v.uploaded)
      BY <2>1 DEF ValidationsOK, ValidationOK
    <3>5. v.observations = Observations(r.doc, content[r.doc],
                  IF v.link = 0 THEN None ELSE links'[v.link], v.uploaded)
      BY <3>3, <3>4
    <3>6. v.link \in {0} \cup DOMAIN links'
      BY <1>2, <3>1
    <3> QED BY <1>0, <3>1, <3>4, <3>5, <3>6 DEF ValidationOK
  <2>3. \A v, w \in vruns :
           v.run = w.run /\ v.link = w.link /\ v.uploaded = w.uploaded => v = w
    BY <2>1 DEF ValidationsOK
  <2> QED BY <1>0, <2>2, <2>3 DEF ValidationsOK
<1>6. EvidenceOK'
  BY <1>0, <1>3, <1>4, <1>5 DEF HistInv, EvidenceOK
<1>7. ASSUME NEW h \in Nat, h < now
      PROVE  Settled(h)
  <2>1. ASSUME NEW f
        PROVE  LinkAsOf(f, h)' = LinkAsOf(f, h)
    <3>1. {i \in DOMAIN links' : links'[i].filing = f /\ links'[i].at <= h}
            = {i \in DOMAIN links : links[i].filing = f /\ links[i].at <= h}
      BY <1>0, <1>1, <1>2, <1>7
    <3> QED BY <3>1 DEF LinkAsOf
  <2>2. \A o \in listing : o.at \in Nat
    BY DEF HistInv, EvidenceOK, ListingOK
  <2>3. \A q, r \in runs : q.id = r.id => q = r
    BY DEF HistInv, EvidenceOK, RunsOK
  <2>4. \A v \in vruns : KnownAt(v)' = KnownAt(v)
    BY <1>0, <1>2, <2>2, <2>3, KnownKept DEF HistInv
  <2> QED BY <1>0, <2>1, <2>4 DEF Settled
<1>8. \A h \in Nat : h < now => Settled(h)
  BY <1>7
<1>9. now' = now /\ told' = told
  BY <1>0
<1> QED BY <1>6, <1>8, <1>9, WriterStep

(* F5 records a run.                                                       *)
LEMMA ExtractStep ==
  ASSUME HistInv, NEW shape \in RunShapes, Extract(shape)
  PROVE  HistInv'
<1> DEFINE new == [id |-> Cardinality(runs) + 1, filing |-> shape.filing,
                   doc |-> shape.doc, at |-> now, last_modified |-> shape.last_modified,
                   path_epoch |-> shape.path_epoch, retrieved |-> shape.retrieved,
                   accepted |-> shape.accepted]
<1>0. /\ now \in Nat \ {0} /\ now' = now /\ told' = told /\ content' = content
      /\ listing' = listing /\ current' = current /\ links' = links /\ vruns' = vruns
      /\ runs' = runs \cup {new} /\ RunsOK /\ IsFiniteSet(runs)
  BY DEF HistInv, EvidenceOK, RunsOK, Extract
<1>1. new.id = Cardinality(runs) + 1 /\ new.at = now
  OBVIOUS
<1>2. new.filing \in Filings /\ <<new.filing, new.doc>> \in Carries
      /\ new.accepted \in BOOLEAN
      /\ {new.last_modified, new.path_epoch, new.retrieved} \subseteq Nat \cup {None}
  BY EvidenceAssumption DEF Carries
<1>3. \E o \in listing : o.filing = new.filing
  <2>1. PICK s \in ToSet(Sources) : current[shape.filing][s] # None
    BY DEF Extract, Listed
  <2>2. shape.filing \in Filings
    BY EvidenceAssumption
  <2> QED BY <2>1, <2>2 DEF HistInv, EvidenceOK, CurrentOK
<1> HIDE DEF new
<1>4. Cardinality(runs) \in Nat /\ \A r \in runs : r.id \in 1..Cardinality(runs)
  BY <1>0, FS_CardinalityType DEF RunsOK, RunOK
<1>5. new \notin runs
  BY <1>1, <1>4
<1>6. IsFiniteSet(runs') /\ Cardinality(runs') = Cardinality(runs) + 1
  BY <1>0, <1>5, FS_AddElement
<1>7. \A q, r \in runs' : q.id = r.id => q = r
  BY <1>0, <1>1, <1>4 DEF RunsOK
<1>8. ASSUME NEW r \in runs'
      PROVE  RunOK(r)'
  <2>1. CASE r \in runs
    <3>1. RunOK(r)
      BY <1>0, <2>1 DEF RunsOK
    <3>2. r.id \in 1..Cardinality(runs')
      BY <1>4, <1>6, <2>1
    <3> QED BY <1>0, <3>1, <3>2 DEF RunOK
  <2>2. CASE r = new
    <3>1. r.id \in 1..Cardinality(runs') /\ r.at \in 0..now
      BY <1>0, <1>1, <1>4, <1>6, <2>2
    <3> QED BY <1>0, <1>2, <1>3, <2>2, <3>1 DEF RunOK
  <2> QED BY <1>0, <2>1, <2>2
<1>9. RunsOK'
  BY <1>6, <1>7, <1>8 DEF RunsOK
<1>10. ListingOK' /\ CurrentOK' /\ LinksOK' /\ ValidationsOK'
  BY <1>0 DEF HistInv, EvidenceOK, ListingOK, CurrentOK, LinksOK, ValidationsOK, ValidationOK
<1>11. EvidenceOK'
  BY <1>0, <1>9, <1>10 DEF HistInv, EvidenceOK
<1>12. ASSUME NEW h \in Nat, h < now
       PROVE  Settled(h)
  <2>1. {r \in runs' : r.at <= h} = {r \in runs : r.at <= h}
    BY <1>0, <1>1, <1>12
  <2>2. \A f : LinkAsOf(f, h)' = LinkAsOf(f, h)
    BY <1>0 DEF LinkAsOf
  <2>3. \A o \in listing : o.at \in Nat
    BY DEF HistInv, EvidenceOK, ListingOK
  <2>4. \A v \in vruns : KnownAt(v)' = KnownAt(v)
    BY <1>0, <1>7, <2>3, KnownKept DEF HistInv
  <2> QED BY <1>0, <2>1, <2>2, <2>4 DEF Settled
<1>13. \A h \in Nat : h < now => Settled(h)
  BY <1>12
<1>14. now' = now /\ told' = told
  BY <1>0
<1> QED BY <1>11, <1>13, <1>14, WriterStep

(* The decision in force is one that was made, or none.                    *)
LEMMA LinkAsOfIn ==
  ASSUME LinksOK, NEW f, NEW h
  PROVE  LinkAsOf(f, h) \in {0} \cup DOMAIN links
<1> DEFINE decided == {i \in DOMAIN links : links[i].filing = f /\ links[i].at <= h}
<1>1. CASE decided = {}
  BY <1>1 DEF LinkAsOf
<1>2. CASE decided # {}
  <2>1. Len(links) \in Nat /\ decided \in SUBSET (0..Len(links))
    BY DEF LinksOK
  <2>2. Max(decided) \in decided
    <3> HIDE DEF decided
    <3> QED BY <1>2, <2>1, MaxInSet
  <2> QED BY <1>2, <2>2 DEF LinkAsOf
<1> QED BY <1>1, <1>2

(* F6.4 validates a run.                                                   *)
LEMMA ValidateStep ==
  ASSUME HistInv, NEW r \in runs, Validate(r)
  PROVE  HistInv'
<1> DEFINE link == LinkAsOf(r.filing, now)
           uploaded == UploadedNow(r.filing)
           new == [run |-> r.id, link |-> link, uploaded |-> uploaded, at |-> now,
                   observations |->
                      Observations(r.doc, content[r.doc],
                                   IF link = 0 THEN None ELSE links[link], uploaded)]
<1>0. /\ now \in Nat \ {0} /\ now' = now /\ told' = told /\ content' = content
      /\ listing' = listing /\ current' = current /\ links' = links /\ runs' = runs
      /\ vruns' = vruns \cup {new} /\ ValidationsOK /\ LinksOK
      /\ ~ \E v \in vruns : v.run = new.run /\ v.link = new.link /\ v.uploaded = new.uploaded
  BY DEF HistInv, EvidenceOK, Validate
<1>1. new.at = now /\ new.run = r.id
  OBVIOUS
<1>2. ValidationOK(new)
  <2>1. link \in {0} \cup DOMAIN links
    BY <1>0, LinkAsOfIn
  <2>2. new.link = link /\ new.uploaded = uploaded
        /\ new.observations = Observations(r.doc, content[r.doc],
                                IF link = 0 THEN None ELSE links[link], uploaded)
    OBVIOUS
  <2> HIDE DEF new, link, uploaded
  <2>3. /\ new.at \in 0..now /\ new.link \in {0} \cup DOMAIN links
        /\ r.id = new.run
        /\ new.observations = Observations(r.doc, content[r.doc],
                IF new.link = 0 THEN None ELSE links[new.link], new.uploaded)
    BY <1>0, <1>1, <2>1, <2>2
  <2> QED BY <2>3 DEF ValidationOK
<1> HIDE DEF new, link, uploaded
<1>3. ValidationsOK'
  <2>1. \A v \in vruns' : ValidationOK(v)
    BY <1>0, <1>2 DEF ValidationsOK
  <2>2. \A v \in vruns' : ValidationOK(v)'
    BY <1>0, <2>1 DEF ValidationOK
  <2>3. \A v, w \in vruns' :
           v.run = w.run /\ v.link = w.link /\ v.uploaded = w.uploaded => v = w
    BY <1>0 DEF ValidationsOK
  <2> QED BY <2>2, <2>3 DEF ValidationsOK
<1>4. ListingOK' /\ CurrentOK' /\ LinksOK' /\ RunsOK'
  BY <1>0 DEF HistInv, EvidenceOK, ListingOK, CurrentOK, LinksOK, RunsOK, RunOK
<1>5. EvidenceOK'
  BY <1>0, <1>3, <1>4 DEF HistInv, EvidenceOK
<1>6. ASSUME NEW h \in Nat, h < now
      PROVE  Settled(h)
  <2>1. {v \in vruns' : v.at <= h} = {v \in vruns : v.at <= h}
    BY <1>0, <1>1, <1>6
  <2>2. \A f : LinkAsOf(f, h)' = LinkAsOf(f, h)
    BY <1>0 DEF LinkAsOf
  <2>3. \A v : KnownAt(v)' = KnownAt(v)
    BY <1>0 DEF KnownAt
  <2> QED BY <1>0, <2>1, <2>2, <2>3 DEF Settled
<1>7. \A h \in Nat : h < now => Settled(h)
  BY <1>6
<1>8. now' = now /\ told' = told
  BY <1>0
<1> QED BY <1>5, <1>7, <1>8, WriterStep

(* The evidence and the answers told stay as HistInv says.                 *)
THEOREM Invariance == Spec => []HistInv
<1>1. Init => HistInv
  BY InitEvidence
<1>2. HistInv /\ [Next]_vars => HistInv'
  <2> SUFFICES ASSUME HistInv, [Next]_vars
               PROVE  HistInv'
    OBVIOUS
  <2>1. CASE Tick
    BY <2>1, TickStep
  <2>2. ASSUME NEW e \in Entries, Observe(e)
        PROVE  HistInv'
    BY <2>2, ObserveStep
  <2>3. ASSUME NEW shape \in LinkShapes, Decide_link(shape)
        PROVE  HistInv'
    BY <2>3, LinkStep
  <2>4. ASSUME NEW shape \in RunShapes, Extract(shape)
        PROVE  HistInv'
    BY <2>4, ExtractStep
  <2>5. ASSUME NEW r \in runs, Validate(r)
        PROVE  HistInv'
    BY <2>5, ValidateStep
  <2>6. CASE UNCHANGED vars
    <3>1. \A q : Answer(q)' = Answer(q)
      BY <2>6, StillSettled, AnswerSettled DEF vars
    <3>2. EvidenceOK'
      BY <2>6 DEF vars, HistInv, EvidenceOK, ListingOK, CurrentOK, LinksOK, RunsOK, RunOK,
                  ValidationsOK, ValidationOK
    <3>3. ToldOK'
      BY <2>6, <3>1 DEF vars, HistInv, ToldOK
    <3> QED BY <3>2, <3>3 DEF HistInv
  <2> QED BY <2>1, <2>2, <2>3, <2>4, <2>5, <2>6 DEF Next
<1> QED BY <1>1, <1>2, PTL DEF Spec

(* The answer to a query whose governing time is settled never changes     *)
(* again, whatever listing entries, decisions, runs and validations are    *)
(* recorded later (AnswersSettled; selection.py _recomputed).              *)
THEOREM AnswersStay == Spec => []AnswersSettled
<1>1. HistInv => AnswersSettled
  BY DEF HistInv, ToldOK, AnswersSettled
<1> QED BY Invariance, <1>1, PTL

-----------------------------------------------------------------------------
(* Availability. *)

(* The instants that decide when a filing was available, and the times of  *)
(* a version's own documents.                                              *)
Instants(f, h) ==
  {Effective(t) : t \in (UNION {{o.uploaded, o.authorized} : o \in ListedBy(f, h)}) \ {None, Absent}}
OwnTimes(f, d, h) ==
  (UNION {{r.last_modified, r.path_epoch} : r \in VersionRuns(f, d, h)}) \ {None}

(* All of them.                                                            *)
ListedTimes == UNION {{Effective(o.uploaded), Effective(o.authorized)} : o \in listing}
DocumentTimes == UNION {{r.last_modified, r.path_epoch} : r \in runs}

(* A set of pairs' elements is finite.                                     *)
LEMMA PairsFinite ==
  ASSUME NEW S, IsFiniteSet(S), NEW a, NEW b, a = [x \in S |-> a[x]], b = [x \in S |-> b[x]]
  PROVE  IsFiniteSet(UNION {{a[x], b[x]} : x \in S})
<1>1. IsFiniteSet({a[x] : x \in S}) /\ IsFiniteSet({b[x] : x \in S})
  BY FiniteImage
<1>2. IsFiniteSet({a[x] : x \in S} \cup {b[x] : x \in S})
  BY <1>1, FS_Union
<1>3. UNION {{a[x], b[x]} : x \in S} = {a[x] : x \in S} \cup {b[x] : x \in S}
  OBVIOUS
<1> QED BY <1>2, <1>3

(* They are finitely many.                                                 *)
LEMMA TimesFinite ==
  ASSUME EvidenceOK
  PROVE  IsFiniteSet(ListedTimes) /\ IsFiniteSet(DocumentTimes)
<1>1. IsFiniteSet(listing) /\ IsFiniteSet(runs)
  BY DEF EvidenceOK, ListingOK, RunsOK
<1>2. PICK a, b : /\ a = [o \in listing |-> Effective(o.uploaded)]
                  /\ b = [o \in listing |-> Effective(o.authorized)]
  OBVIOUS
<1>3. ListedTimes = UNION {{a[o], b[o]} : o \in listing}
  BY <1>2 DEF ListedTimes
<1>4. a = [o \in listing |-> a[o]] /\ b = [o \in listing |-> b[o]]
  BY <1>2
<1>5. IsFiniteSet(ListedTimes)
  BY <1>1, <1>3, <1>4, PairsFinite
<1>6. PICK c, d : /\ c = [r \in runs |-> r.last_modified]
                  /\ d = [r \in runs |-> r.path_epoch]
  OBVIOUS
<1>7. DocumentTimes = UNION {{c[r], d[r]} : r \in runs}
  BY <1>6 DEF DocumentTimes
<1>8. c = [r \in runs |-> c[r]] /\ d = [r \in runs |-> d[r]]
  BY <1>6
<1>9. IsFiniteSet(DocumentTimes)
  BY <1>1, <1>7, <1>8, PairsFinite
<1> QED BY <1>5, <1>9

(* Those of a filing are numbers, and more with time.                      *)
LEMMA InstantsAre ==
  ASSUME EvidenceOK, NEW f, NEW g \in Nat, NEW h \in Nat, g <= h
  PROVE  /\ Instants(f, h) \in SUBSET Nat /\ IsFiniteSet(Instants(f, h))
         /\ Instants(f, g) \subseteq Instants(f, h)
         /\ Instants(f, h) \subseteq ListedTimes
<1>1. Instants(f, h) \subseteq ListedTimes
  BY DEF Instants, ListedBy, ListedTimes
<1>2. IsFiniteSet(Instants(f, h))
  BY <1>1, TimesFinite, FS_Subset
<1>3. \A t \in Nat : Effective(t) \in Nat
  <2>1. ASSUME NEW t \in Nat
        PROVE  Effective(t) \in Nat
    <3>1. t \div DayLength \in Nat
      BY DayAssumption
    <3>2. \A k \in Nat : (k + 1) * DayLength \in Nat
      BY DayAssumption
    <3> QED BY <3>1, <3>2 DEF Effective, Day
  <2> QED BY <2>1
<1>4. \A o \in listing : {o.uploaded, o.authorized} \subseteq Nat \cup {None, Absent}
  BY EvidenceAssumption DEF EvidenceOK, ListingOK, ListingRow
<1>5. Instants(f, h) \in SUBSET Nat
  <2>1. \A o \in listing : \A t \in {o.uploaded, o.authorized} \ {None, Absent} : Effective(t) \in Nat
    BY <1>3, <1>4
  <2>2. ASSUME NEW x \in Instants(f, h)
        PROVE  x \in Nat
    <3>1. PICK o \in listing :
             \E t \in {o.uploaded, o.authorized} \ {None, Absent} : x = Effective(t)
      BY DEF Instants, ListedBy
    <3> QED BY <2>1, <3>1
  <2> QED BY <2>2
<1>6. ListedBy(f, g) \subseteq ListedBy(f, h)
  BY DEF ListedBy, EvidenceOK, ListingOK
<1>7. Instants(f, g) \subseteq Instants(f, h)
  BY <1>6 DEF Instants
<1> QED BY <1>1, <1>2, <1>5, <1>7

(* So are a version's own times.                                           *)
LEMMA OwnTimesAre ==
  ASSUME EvidenceOK, NEW f, NEW d, NEW g \in Nat, NEW h \in Nat, g <= h
  PROVE  /\ OwnTimes(f, d, h) \in SUBSET Nat /\ IsFiniteSet(OwnTimes(f, d, h))
         /\ OwnTimes(f, d, g) \subseteq OwnTimes(f, d, h)
         /\ OwnTimes(f, d, h) \subseteq DocumentTimes
<1>1. OwnTimes(f, d, h) \subseteq DocumentTimes
  BY DEF OwnTimes, VersionRuns, DocumentTimes
<1>2. IsFiniteSet(OwnTimes(f, d, h))
  BY <1>1, TimesFinite, FS_Subset
<1>3. \A r \in runs : {r.last_modified, r.path_epoch} \subseteq Nat \cup {None}
  BY DEF EvidenceOK, RunsOK, RunOK
<1>4. OwnTimes(f, d, h) \in SUBSET Nat
  <2>1. \A r \in runs : \A t \in {r.last_modified, r.path_epoch} \ {None} : t \in Nat
    BY <1>3
  <2>2. ASSUME NEW x \in OwnTimes(f, d, h)
        PROVE  x \in Nat
    <3>1. PICK r \in runs : x \in {r.last_modified, r.path_epoch} \ {None}
      BY DEF OwnTimes, VersionRuns
    <3> QED BY <2>1, <3>1
  <2> QED BY <2>2
<1>5. VersionRuns(f, d, g) \subseteq VersionRuns(f, d, h)
  <2>1. \A r \in runs : r.at \in Nat
    <3>1. now \in Nat /\ \A r \in runs : RunOK(r)
      BY DEF EvidenceOK, RunsOK
    <3>2. \A r \in runs : r.at \in 0..now
      BY <3>1 DEF RunOK
    <3> QED BY <3>1, <3>2
  <2>2. \A r \in runs : r.at <= g => r.at <= h
    BY <2>1
  <2> QED BY <2>2 DEF VersionRuns
<1>6. OwnTimes(f, d, g) \subseteq OwnTimes(f, d, h)
  BY <1>5 DEF OwnTimes
<1> QED BY <1>1, <1>2, <1>4, <1>6

(* The availability of a version in these terms.                           *)
LEMMA AvailabilityIs ==
  ASSUME NEW f, NEW d, NEW h, VersionAvailability(f, d, h) # None
  PROVE  /\ Instants(f, h) # {}
         /\ FilingAvailability(f, h) = Max(Instants(f, h))
         /\ VersionAvailability(f, d, h) =
              IF Role(f, d, h) = "base" THEN FilingAvailability(f, h)
              ELSE Max({FilingAvailability(f, h)} \cup OwnTimes(f, d, h))
<1>1. FilingAvailability(f, h) # None
  BY DEF VersionAvailability
<1>2. VersionAvailability(f, d, h) =
        IF Role(f, d, h) = "base" THEN FilingAvailability(f, h)
        ELSE Max({FilingAvailability(f, h)} \cup OwnTimes(f, d, h))
  BY <1>1 DEF VersionAvailability, OwnTimes
<1>3. Instants(f, h) # {} /\ FilingAvailability(f, h) = Max(Instants(f, h))
  BY <1>1 DEF FilingAvailability, Instants
<1> QED BY <1>2, <1>3

(* As the evidence grows, a version that has an availability gets an       *)
(* earlier one only by becoming the base version after it was not          *)
(* (EarlierOnlyByRole; availability.py _roles).                            *)
THEOREM RoleMovesEarlier == Spec => []EarlierOnlyByRole
<1>1. ASSUME HistInv
      PROVE  EarlierOnlyByRole
  <2> SUFFICES ASSUME NEW c \in Carries, NEW g \in 1..now, NEW h \in 1..now, g < h,
                      VersionAvailability(c[1], c[2], g) # None,
                      VersionAvailability(c[1], c[2], h) # None,
                      VersionAvailability(c[1], c[2], h) < VersionAvailability(c[1], c[2], g)
               PROVE  Role(c[1], c[2], g) # "base" /\ Role(c[1], c[2], h) = "base"
    BY DEF EarlierOnlyByRole
  <2> DEFINE F == c[1]
             D == c[2]
  <2>1. EvidenceOK /\ g \in Nat /\ h \in Nat /\ g <= h /\ h <= h /\ g <= g
    <3>1. EvidenceOK
      BY <1>1 DEF HistInv
    <3>2. now \in Nat
      BY <3>1 DEF EvidenceOK
    <3> QED BY <3>1, <3>2
  <2>2. PICK fg, fh, og, oh : /\ fg = FilingAvailability(F, g) /\ fh = FilingAvailability(F, h)
                              /\ og = OwnTimes(F, D, g) /\ oh = OwnTimes(F, D, h)
    OBVIOUS
  <2>3. fg \in Nat /\ fh \in Nat /\ fg <= fh
    <3>1. fg = Max(Instants(F, g)) /\ fh = Max(Instants(F, h)) /\ Instants(F, g) # {}
      BY <2>2, AvailabilityIs
    <3>2. /\ Instants(F, h) \in SUBSET Nat /\ IsFiniteSet(Instants(F, h))
          /\ Instants(F, g) \subseteq Instants(F, h)
      BY <2>1, InstantsAre
    <3>3. Max(Instants(F, g)) \in Instants(F, g) /\ Max(Instants(F, h)) \in Instants(F, h)
      <4>1. IsFiniteSet(Instants(F, g))
        BY <3>2, FS_Subset
      <4> QED BY <3>1, <3>2, <4>1, MaxInFinite
    <3>4. Max(Instants(F, g)) <= Max(Instants(F, h))
      BY <3>1, <3>2, MaxGrows
    <3> QED BY <3>1, <3>2, <3>3, <3>4
  <2>4. oh \in SUBSET Nat /\ IsFiniteSet(oh) /\ og \subseteq oh
    BY <2>1, <2>2, OwnTimesAre
  <2>5. /\ VersionAvailability(F, D, g) = IF Role(F, D, g) = "base" THEN fg ELSE Max({fg} \cup og)
        /\ VersionAvailability(F, D, h) = IF Role(F, D, h) = "base" THEN fh ELSE Max({fh} \cup oh)
    BY <2>2, AvailabilityIs
  <2>6. IsFiniteSet(oh \cup {fh} \cup {fg}) /\ IsFiniteSet(oh \cup {fh})
    BY <2>4, FS_AddElement
  <2>7. fh <= Max({fh} \cup oh) /\ Max({fh} \cup oh) \in Nat
    <3>1. {fh} \cup oh = oh \cup {fh} /\ {fh} \cup oh \in SUBSET Int
      BY <2>3, <2>4
    <3>2. Max({fh} \cup oh) \in {fh} \cup oh /\ \A y \in {fh} \cup oh : y <= Max({fh} \cup oh)
      BY <2>6, <3>1, MaxInFinite
    <3> QED BY <2>3, <2>4, <3>2
  <2>8. Max({fg} \cup og) <= Max({fh} \cup oh) /\ Max({fg} \cup og) \in Nat
    <3>1. {fg} \cup og \in SUBSET Int /\ IsFiniteSet({fg} \cup og)
      <4>1. {fg} \cup og \in SUBSET (oh \cup {fh} \cup {fg})
        BY <2>4
      <4>2. IsFiniteSet({fg} \cup og)
        BY <2>6, <4>1, FS_Subset
      <4> QED BY <2>3, <2>4, <4>2
    <3>2. Max({fg} \cup og) \in {fg} \cup og
      BY <3>1, MaxInFinite
    <3>3. \A y \in oh : y <= Max({fh} \cup oh)
      <4>1. {fh} \cup oh = oh \cup {fh} /\ {fh} \cup oh \in SUBSET Int
        BY <2>3, <2>4
      <4> QED BY <2>6, <4>1, MaxInFinite
    <3> QED BY <2>3, <2>4, <2>7, <3>2, <3>3
  <2>9. VersionAvailability(F, D, h) < VersionAvailability(F, D, g)
    OBVIOUS
  <2> QED BY <2>3, <2>5, <2>7, <2>8, <2>9
<1> QED BY Invariance, <1>1, PTL

-----------------------------------------------------------------------------
(* Supersession. *)

(* A version's availability is one of these times, and so is a document's. *)
LEMMA AvailabilityIn ==
  ASSUME EvidenceOK, NEW h \in Nat
  PROVE  /\ \A f, d : VersionAvailability(f, d, h) # None =>
              VersionAvailability(f, d, h) \in Nat \cap (ListedTimes \cup DocumentTimes)
         /\ \A d, fs : DocumentAvailability(d, fs, h) # None =>
              DocumentAvailability(d, fs, h) \in Nat \cap (ListedTimes \cup DocumentTimes)
<1>1. ASSUME NEW f, NEW d, VersionAvailability(f, d, h) # None
      PROVE  VersionAvailability(f, d, h) \in Nat \cap (ListedTimes \cup DocumentTimes)
  <2>1. /\ Instants(f, h) \in SUBSET Nat /\ IsFiniteSet(Instants(f, h))
        /\ Instants(f, h) \subseteq ListedTimes
    BY InstantsAre
  <2>2. /\ OwnTimes(f, d, h) \in SUBSET Nat /\ IsFiniteSet(OwnTimes(f, d, h))
        /\ OwnTimes(f, d, h) \subseteq DocumentTimes
    BY OwnTimesAre
  <2>3. PICK x, own : x = FilingAvailability(f, h) /\ own = OwnTimes(f, d, h)
    OBVIOUS
  <2>4. /\ Instants(f, h) # {} /\ x = Max(Instants(f, h))
        /\ VersionAvailability(f, d, h) = IF Role(f, d, h) = "base" THEN x ELSE Max({x} \cup own)
    BY <1>1, <2>3, AvailabilityIs
  <2>5. x \in Instants(f, h)
    <3>1. Max(Instants(f, h)) \in Instants(f, h)
      BY <2>1, <2>4, MaxInFinite
    <3> QED BY <2>4, <3>1
  <2>6. Max({x} \cup own) \in {x} \cup own
    <3>1. IsFiniteSet(own \cup {x}) /\ own \cup {x} = {x} \cup own
      BY <2>2, <2>3, FS_AddElement
    <3>2. {x} \cup own \in SUBSET Int
      BY <2>1, <2>2, <2>3, <2>5
    <3> QED BY <3>1, <3>2, MaxInFinite
  <2> QED BY <2>1, <2>2, <2>3, <2>4, <2>5, <2>6
<1>2. ASSUME NEW d, NEW fs, DocumentAvailability(d, fs, h) # None
      PROVE  DocumentAvailability(d, fs, h) \in Nat \cap (ListedTimes \cup DocumentTimes)
  <2> DEFINE known == {VersionAvailability(f, d, h) : f \in fs} \ {None}
  <2>1. known # {} /\ DocumentAvailability(d, fs, h) = Min(known)
    BY <1>2 DEF DocumentAvailability
  <2>2. known \in SUBSET (Nat \cap (ListedTimes \cup DocumentTimes))
    BY <1>1
  <2> HIDE DEF known
  <2>3. Min(known) \in known
    BY <2>1, <2>2, MinOfNaturals
  <2> QED BY <2>1, <2>2, <2>3
<1> QED BY <1>1, <1>2

(* Of candidates available at finitely many instants, the latest stays.    *)
LEMMA LatestStays ==
  ASSUME NEW C, NEW h, NEW A \in SUBSET Nat, IsFiniteSet(A),
         \A c \in C : c.at \in A \cup {None}, Dropped(C, h) # {}
  PROVE  C \ Dropped(C, h) # {}
<1>1. /\ \A o \in Dropped(C, h) : o \in C /\ \E s \in C : Later(s, o)
      /\ \E o \in C : \E s \in C : Later(s, o)
  BY DEF Dropped, Supersedes
<1> DEFINE B == {c.at : c \in C} \ {None}
<1>2. B \in SUBSET A /\ B # {}
  BY <1>1 DEF Later
<1>3. Max(B) \in B /\ \A y \in B : y <= Max(B)
  <2> HIDE DEF B
  <2>1. IsFiniteSet(B) /\ B \in SUBSET Int
    <3>1. B \in SUBSET Int
      BY <1>2
    <3>2. IsFiniteSet(B)
      BY <1>2, FS_Subset
    <3> QED BY <3>1, <3>2
  <2> QED BY <1>2, <2>1, MaxInFinite
<1>4. PICK c \in C : c.at = Max(B)
  BY <1>3
<1>5. ASSUME c \in Dropped(C, h)
      PROVE  FALSE
  <2>1. PICK s \in C : Later(s, c)
    BY <1>1, <1>5
  <2>2. s.at \in B /\ s.at > c.at
    BY <2>1 DEF Later
  <2>3. s.at \in Nat /\ c.at \in Nat
    BY <1>2, <1>3, <1>4, <2>2
  <2> HIDE DEF B
  <2> QED BY <1>3, <1>4, <2>2, <2>3
<1> QED BY <1>4, <1>5

(* A fact that has observations keeps one: supersession never leaves it    *)
(* without any (SupersessionKeepsOne; supersession.py derive).             *)
THEOREM OneIsKept == Spec => []SupersessionKeepsOne
<1>1. ASSUME HistInv
      PROVE  SupersessionKeepsOne
  <2> SUFFICES ASSUME NEW q \in Queries({now}), NEW v \in Answer(q), v.superseded # {}
               PROVE  v.visible # {}
    BY DEF SupersessionKeepsOne
  <2>1. EvidenceOK
    BY <1>1 DEF HistInv
  <2>2. q.horizon = now /\ now \in Nat
    <3>1. now \in Nat
      BY <2>1 DEF EvidenceOK
    <3>2. q.horizon = now
      BY DEF Queries, Known, Available, Current
    <3> QED BY <3>1, <3>2
  <2>3. PICK id, seen, tied, pending, filingsOf, accepted :
          v = FactView(id, seen, tied, pending, filingsOf, accepted, now)
    <3> DEFINE hd == OfIssuer(Held(ShownRuns(q), q.horizon))
    <3>1. v \in Views(hd, Pending(q), ShownRuns(q), q.horizon)
      BY AnswerIs
    <3>2. PICK id \in FactsOf(hd \cup Pending(q)) :
            v = FactView(id, {x \in hd : ~ x.tie}, {x \in hd : x.tie}, Pending(q),
                         Carrying(ShownRuns(q)), Accepting(ShownRuns(q)), q.horizon)
      BY <3>1 DEF Views
    <3>3. v = FactView(id, {x \in hd : ~ x.tie}, {x \in hd : x.tie}, Pending(q),
                       Carrying(ShownRuns(q)), Accepting(ShownRuns(q)), now)
      BY <3>2, <2>2
    <3> HIDE DEF hd
    <3> QED BY <3>3, Zenon
  <2>4. PICK C : C = Cands(id, seen, filingsOf, now)
    OBVIOUS
  <2>5. v = View(id, C, Dropped(C, now), Ambiguous(C, now), seen, tied, pending, accepted)
    <3>1. FactView(id, seen, tied, pending, filingsOf, accepted, now)
            = View(id, Cands(id, seen, filingsOf, now),
                   Dropped(Cands(id, seen, filingsOf, now), now),
                   Ambiguous(Cands(id, seen, filingsOf, now), now),
                   seen, tied, pending, accepted)
      BY FactViewIs
    <3> QED BY <2>3, <2>4, <3>1
  <2>6. PICK D : D = Dropped(C, now)
    OBVIOUS
  <2>7. v.superseded = {c.so.doc : c \in D} /\ v.visible = {o.doc : o \in {c.so : c \in C \ D}}
    BY <2>5, <2>6 DEF View
  <2> DEFINE A == Nat \cap (ListedTimes \cup DocumentTimes)
  <2>8. IsFiniteSet(A)
    <3>1. IsFiniteSet(ListedTimes \cup DocumentTimes)
      BY <2>1, TimesFinite, FS_Union
    <3>2. A \in SUBSET (ListedTimes \cup DocumentTimes)
      OBVIOUS
    <3> HIDE DEF A
    <3> QED BY <3>1, <3>2, FS_Subset
  <2>9. \A c \in C : c.at \in A \cup {None}
    <3>1. \A d, fs : DocumentAvailability(d, fs, now) \in A \cup {None}
      BY <2>1, <2>2, AvailabilityIn
    <3> HIDE DEF A
    <3> QED BY <2>4, <3>1 DEF Cands
  <2>10. D # {}
    BY <2>7
  <2>11. C \ D # {}
    <3>1. A \in SUBSET Nat
      OBVIOUS
    <3> HIDE DEF A
    <3> QED BY <2>6, <2>8, <2>9, <2>10, <3>1, LatestStays
  <2>12. PICK c : c \in C \ D
    BY <2>11
  <2>13. c.so.doc \in v.visible
    BY <2>7, <2>12
  <2> QED BY <2>13
<1> QED BY Invariance, <1>1, PTL

-----------------------------------------------------------------------------
(* The present agrees with history (CurrentAgreesWithLive). *)

From(f, s) == {o \in listing : o.filing = f /\ o.source = s}
Latest(f, s) == {o \in From(f, s) : \A p \in From(f, s) : p.at <= o.at}
Shows(f, s) == current[f][s] # None /\ current[f][s].uploaded # Absent

(* The latest rows show what is current.                                   *)
Agrees(f) ==
  \A s \in ToSet(Sources) : \A o \in Latest(f, s) :
     /\ current[f][s].uploaded = o.uploaded
     /\ current[f][s].authorized = o.authorized

(* A source's latest rows show one value, none when it has no row.         *)
LEMMA LatestShow ==
  ASSUME EvidenceOK, NEW f \in Filings, Agrees(f), NEW s \in ToSet(Sources)
  PROVE  {o.uploaded : o \in Latest(f, s)} =
            IF current[f][s] = None THEN {} ELSE {current[f][s].uploaded}
<1>1. current[f][s] = None <=> From(f, s) = {}
  BY DEF EvidenceOK, CurrentOK, From
<1>2. \A o \in Latest(f, s) : o.uploaded = current[f][s].uploaded
  BY DEF Agrees
<1>3. From(f, s) # {} => Latest(f, s) # {}
  <2> SUFFICES ASSUME From(f, s) # {} PROVE Latest(f, s) # {}
    OBVIOUS
  <2>1. From(f, s) \in SUBSET listing /\ IsFiniteSet(listing)
    BY DEF From, EvidenceOK, ListingOK
  <2>2. IsFiniteSet(From(f, s))
    BY <2>1, FS_Subset
  <2>3. \A o \in From(f, s) : o.at \in Int
    BY DEF From, EvidenceOK, ListingOK
  <2>4. PICK a : a = [o \in From(f, s) |-> o.at]
    OBVIOUS
  <2>5. a = [o \in From(f, s) |-> a[o]]
    BY <2>4
  <2> DEFINE T == {a[o] : o \in From(f, s)}
  <2>6. IsFiniteSet(T)
    BY <2>2, <2>5, FiniteImage
  <2>7. T \in SUBSET Int /\ T # {}
    BY <2>3, <2>4
  <2> HIDE DEF T
  <2>8. Max(T) \in T /\ \A y \in T : y <= Max(T)
    BY <2>6, <2>7, MaxInFinite
  <2>9. PICK o \in From(f, s) : o.at = Max(T)
    BY <2>4, <2>8 DEF T
  <2>10. \A p \in From(f, s) : p.at <= o.at
    BY <2>4, <2>8, <2>9 DEF T
  <2> QED BY <2>9, <2>10 DEF Latest
<1>4. CASE current[f][s] = None
  BY <1>1, <1>4 DEF Latest
<1>5. CASE current[f][s] # None
  <2>1. PICK o : o \in Latest(f, s)
    BY <1>1, <1>3, <1>5
  <2> QED BY <1>2, <1>5, <2>1
<1> QED BY <1>4, <1>5

(* The merge of the rows is the merge of the current versions.             *)
LEMMA MergedIsNow ==
  ASSUME EvidenceOK, NEW f \in Filings, Agrees(f)
  PROVE  UploadedAsOf(f, now) = {UploadedNow(f)}
<1> DEFINE N == DOMAIN Sources
           lack(i) == ~ Shows(f, Sources[i])
           reached == {i \in N : \A j \in 1..(i - 1) : lack(j)}
           value(i) == {o.uploaded : o \in Latest(f, Sources[i])}
           merged == ((UNION {value(i) : i \in reached}) \ {Absent})
                       \cup (IF \A i \in N : lack(i) THEN {None} ELSE {})
           has == {i \in N : Shows(f, Sources[i])}
<1>1. Sources \in Seq(ToSet(Sources))
  BY EvidenceAssumption
<1>2. N = 1..Len(Sources) /\ Len(Sources) \in Nat /\ \A i \in N : Sources[i] \in ToSet(Sources)
  BY <1>1
<1>3. \A s \in ToSet(Sources) :
        (From(f, s) = {} \/ \E o \in Latest(f, s) : o.uploaded = Absent) <=> ~ Shows(f, s)
  <2> SUFFICES ASSUME NEW s \in ToSet(Sources)
               PROVE  (From(f, s) = {} \/ \E o \in Latest(f, s) : o.uploaded = Absent)
                         <=> ~ Shows(f, s)
    OBVIOUS
  <2>1. current[f][s] = None <=> From(f, s) = {}
    BY DEF EvidenceOK, CurrentOK, From
  <2>2. (\E o \in Latest(f, s) : o.uploaded = Absent)
           <=> Absent \in {o.uploaded : o \in Latest(f, s)}
    OBVIOUS
  <2>3. {o.uploaded : o \in Latest(f, s)} =
           IF current[f][s] = None THEN {} ELSE {current[f][s].uploaded}
    BY LatestShow
  <2> QED BY <2>1, <2>2, <2>3 DEF Shows
<1>4. \A s : {o \in ListedBy(f, now) : o.source = s} = From(f, s)
  BY DEF ListedBy, From, EvidenceOK, ListingOK
<1>5. UploadedAsOf(f, now) = merged
  <2> DEFINE from(s) == {o \in ListedBy(f, now) : o.source = s}
             latest(s) == {o \in from(s) : \A p \in from(s) : p.at <= o.at}
             mayLack(s) == from(s) = {} \/ \E o \in latest(s) : o.uploaded = Absent
             arrived == {i \in N : \A j \in 1..(i - 1) : mayLack(Sources[j])}
  <2>1. UploadedAsOf(f, now) =
           ((UNION {{o.uploaded : o \in latest(Sources[i])} : i \in arrived}) \ {Absent})
              \cup (IF \A i \in N : mayLack(Sources[i]) THEN {None} ELSE {})
    BY DEF UploadedAsOf, MergedUploads
  <2>2. \A s : latest(s) = Latest(f, s)
    <3> HIDE DEF from
    <3>1. \A s : from(s) = From(f, s)
      BY <1>4 DEF from
    <3> QED BY <3>1 DEF Latest
  <2>3. \A s \in ToSet(Sources) : mayLack(s) <=> ~ Shows(f, s)
    <3> HIDE DEF from, latest
    <3>1. \A s : from(s) = From(f, s)
      BY <1>4 DEF from
    <3> QED BY <1>3, <2>2, <3>1
  <2> HIDE DEF mayLack, latest
  <2>4. \A i \in N : {o.uploaded : o \in latest(Sources[i])} = value(i)
    BY <2>2
  <2>5. \A i \in N : \A j \in 1..(i - 1) : j \in N
    BY <1>2
  <2>6. arrived = reached
    BY <1>2, <2>3, <2>5
  <2>7. (\A i \in N : mayLack(Sources[i])) <=> (\A i \in N : lack(i))
    BY <1>2, <2>3
  <2>8. UNION {{o.uploaded : o \in latest(Sources[i])} : i \in arrived}
           = UNION {value(i) : i \in reached}
    <3> DEFINE w(i) == {o.uploaded : o \in latest(Sources[i])}
    <3>1. \A i \in reached : w(i) = value(i)
      BY <2>4
    <3> HIDE DEF w, value, reached, arrived
    <3>2. {w(i) : i \in arrived} = {value(i) : i \in reached}
      BY <2>6, <3>1
    <3> QED BY <3>2 DEF w
  <2> HIDE DEF arrived, value, reached
  <2> QED BY <2>1, <2>7, <2>8
<1>6. \A i \in N : value(i) = IF current[f][Sources[i]] = None THEN {}
                             ELSE {current[f][Sources[i]].uploaded}
  BY <1>2, LatestShow
<1>7. UploadedNow(f) = IF has = {} THEN None ELSE current[f][Sources[Min(has)]].uploaded
  BY DEF UploadedNow, Shows
<1>8. CASE has = {}
  <2>1. \A i \in N : lack(i) /\ value(i) \subseteq {Absent}
    BY <1>6, <1>8 DEF Shows
  <2> HIDE DEF value
  <2>2. merged = {None}
    BY <2>1
  <2> HIDE DEF merged, has
  <2> QED BY <1>5, <1>7, <1>8, <2>2
<1>9. CASE has # {}
  <2>1. PICK m : m = Min(has)
    OBVIOUS
  <2>2. m \in has /\ \A i \in has : m <= i
    <3>1. has \in SUBSET Nat
      BY <1>2
    <3> HIDE DEF has
    <3> QED BY <1>9, <2>1, <3>1, MinOfNaturals
  <2>3. \A i \in N : i < m => lack(i)
    BY <1>2, <2>2
  <2>4. m \in reached /\ \A i \in reached : i <= m
    BY <1>2, <2>2, <2>3
  <2>5. \A i \in reached : i # m => value(i) \subseteq {Absent}
    <3> SUFFICES ASSUME NEW i \in reached, i # m PROVE value(i) \subseteq {Absent}
      OBVIOUS
    <3>1. i \in N /\ i < m
      BY <1>2, <2>2, <2>4
    <3>2. lack(i)
      BY <2>3, <3>1
    <3> HIDE DEF value, reached
    <3> QED BY <1>6, <3>1, <3>2 DEF Shows
  <2>6. m \in N /\ value(m) = {current[f][Sources[m]].uploaded}
           /\ current[f][Sources[m]].uploaded # Absent
    <3> HIDE DEF value
    <3> QED BY <1>6, <2>2 DEF Shows
  <2>7. ~ \A i \in N : lack(i)
    BY <2>2
  <2> HIDE DEF value, reached, lack
  <2>8. merged = {current[f][Sources[m]].uploaded}
    BY <2>4, <2>5, <2>6, <2>7
  <2> HIDE DEF merged, has
  <2> QED BY <1>5, <1>7, <1>9, <2>1, <2>8
<1> QED BY <1>8, <1>9

(* At the present instant the canonical run recomputed from history is the *)
(* run F6.4 would call current from the live tables                        *)
(* (CurrentAgreesWithLive; validation_asof.py canonical_validation_run).   *)
THEOREM PresentAgrees == Spec => []CurrentAgreesWithLive
<1>1. ASSUME HistInv
      PROVE  CurrentAgreesWithLive
  <2>1. EvidenceOK
    BY <1>1 DEF HistInv
  <2> SUFFICES ASSUME NEW r \in runs, Agrees(r.filing)
               PROVE  canonical_validation_run(r, now) =
                        [tie |-> FALSE,
                         found |-> {v \in vruns : /\ v.run = r.id
                                                  /\ v.link = LinkAsOf(r.filing, now)
                                                  /\ v.uploaded = UploadedNow(r.filing)}]
    BY DEF CurrentAgreesWithLive, Agrees, Latest, From
  <2>2. r.filing \in Filings
    BY <2>1 DEF EvidenceOK, RunsOK, RunOK
  <2>3. UploadedAsOf(r.filing, now) = {UploadedNow(r.filing)}
    BY <2>1, <2>2, MergedIsNow
  <2>4. Cardinality({UploadedNow(r.filing)}) = 1
    BY FS_Singleton
  <2>5. \A v \in vruns : v.at <= now
    BY <2>1 DEF EvidenceOK, ValidationsOK, ValidationOK
  <2> DEFINE up == UploadedAsOf(r.filing, now)
  <2>6. canonical_validation_run(r, now) =
          [tie |-> Cardinality(up) > 1,
           found |-> {v \in vruns : /\ v.run = r.id /\ v.at <= now
                                    /\ v.link = LinkAsOf(r.filing, now)
                                    /\ v.uploaded \in up}]
    BY DEF canonical_validation_run
  <2>7. (Cardinality(up) > 1) = FALSE
    BY <2>3, <2>4
  <2>8. {v \in vruns : /\ v.run = r.id /\ v.at <= now
                       /\ v.link = LinkAsOf(r.filing, now) /\ v.uploaded \in up}
          = {v \in vruns : /\ v.run = r.id
                           /\ v.link = LinkAsOf(r.filing, now)
                           /\ v.uploaded = UploadedNow(r.filing)}
    BY <2>3, <2>5
  <2> HIDE DEF up
  <2> QED BY <2>6, <2>7, <2>8
<1> QED BY Invariance, <1>1, PTL

-----------------------------------------------------------------------------
(* What is agreed has an interval (AgreementHasInterval). *)

(* A numeric member of a fact: a number in the fact's currency and of its  *)
(* concept's type.                                                         *)
Number(m, id) ==
  /\ m.kind = "numeric" /\ m.value.normalized
  /\ m.value.value \in Int /\ m.value.half \in Int
  /\ m.value.currency = id.currency
  /\ m.value.type = concept_value_type(id.concept_key)

Agree(m, n) == compare_members(m, n) # "disagree"

(* Two numbers of one fact agree exactly when their precisions overlap.    *)
LEMMA AgreedOverlap ==
  ASSUME NEW id, NEW m, NEW n, Number(m, id), Number(n, id), Agree(m, n)
  PROVE  /\ Low(m) \in Int /\ High(m) \in Int
         /\ Low(m) <= High(n)
<1>1. compare_values(m.value, n.value) # "disagree"
  BY DEF Agree, compare_members, Number
<1>2. Within(m.value.value, n.value.value, m.value.half + n.value.half)
  BY <1>1 DEF compare_values, Number
<1>3. PICK a, b, c, d : /\ a = m.value.value /\ b = m.value.half
                        /\ c = n.value.value /\ d = n.value.half
  OBVIOUS
<1>4. a \in Int /\ b \in Int /\ c \in Int /\ d \in Int
  BY <1>3 DEF Number
<1>5. Abs(a - c) <= b + d
  BY <1>2, <1>3 DEF Within
<1>6. a - c <= b + d
  BY <1>4, <1>5 DEF Abs
<1> QED BY <1>3, <1>4, <1>6 DEF Low, High

(* Numbers that agree pairwise share an interval.                          *)
LEMMA SharedInterval ==
  ASSUME NEW id, NEW M, M # {}, \A m \in M : Number(m, id),
         \A m, n \in M : Agree(m, n)
  PROVE  /\ Max({Low(m) : m \in M}) \in {Low(m) : m \in M}
         /\ Min({High(m) : m \in M}) \in {High(m) : m \in M}
         /\ \A m \in M : /\ Low(m) <= Max({Low(k) : k \in M})
                         /\ Min({High(k) : k \in M}) <= High(m)
<1> DEFINE L == {Low(m) : m \in M}
           H == {High(m) : m \in M}
<1>1. \A m, n \in M : Low(m) \in Int /\ High(n) \in Int /\ Low(m) <= High(n)
  BY AgreedOverlap
<1>2. PICK k \in M : TRUE
  OBVIOUS
<1>3. /\ L \in SUBSET Int /\ L # {} /\ High(k) \in Int /\ \A y \in L : y <= High(k)
      /\ H \in SUBSET Int /\ H # {} /\ Low(k) \in Int /\ \A y \in H : Low(k) <= y
  BY <1>1, <1>2
<1>4. \A m \in M : Low(m) \in L /\ High(m) \in H
  OBVIOUS
<1> HIDE DEF L, H
<1>5. Max(L) \in L /\ \A y \in L : y <= Max(L)
  BY <1>3, MaxBelow
<1>6. Min(H) \in H /\ \A y \in H : Min(H) <= y
  BY <1>3, MinAbove
<1>7. \A m \in M : Low(m) <= Max(L) /\ Min(H) <= High(m)
  BY <1>4, <1>5, <1>6
<1> QED BY <1>5, <1>6, <1>7 DEF L, H

-----------------------------------------------------------------------------
(* What an admitted value is. *)

(* A value without a reason against it is a number.                        *)
LEMMA NormalizedIsNumber ==
  ASSUME NEW c, normalize_value(c).reasons = {},
         c.parsed_value \in Int \cup {None},
         c.parsed_value # None => c.printed_decimals \in 0..Decimals
  PROVE  /\ normalize_value(c).normalized
         /\ normalize_value(c).value \in Int /\ normalize_value(c).half \in Int
<1> DEFINE why == normalize_value(c).reasons
<1>1. classify_value(c) = "numeric" /\ c.reported_scale # None /\ IsPowerOfTen(c.reported_scale)
  BY DEF normalize_value, Why
<1>2. c.parsed_value # None
  BY <1>1 DEF classify_value
<1>3. c.parsed_value \in Int /\ c.printed_decimals \in 0..Decimals
  BY <1>2
<1>4. Decimals - c.printed_decimals \in Nat
  BY <1>3, DecimalsAssumption
<1>5. \A k \in Nat : 10 ^ k \in Int
  OBVIOUS
<1>6. c.reported_scale \in Int
  BY <1>1, <1>5 DEF IsPowerOfTen
<1>7. HalfUnit(c) \in Int
  <2>1. PICK p : p = 10 ^ (Decimals - c.printed_decimals)
    OBVIOUS
  <2>2. p \in Int
    BY <1>4, <1>5, <2>1
  <2>3. HalfUnit(c) = c.reported_scale * p
    BY <2>1 DEF HalfUnit
  <2>4. \A x, y \in Int : x * y \in Int
    OBVIOUS
  <2> QED BY <1>6, <2>2, <2>3, <2>4
<1>8. 2 * c.parsed_value * HalfUnit(c) \in Int
  <2>1. \A x, y \in Int : 2 * x * y \in Int
    OBVIOUS
  <2> QED BY <1>3, <1>7, <2>1
<1>9. /\ normalize_value(c).normalized = (why = {})
      /\ normalize_value(c).value = IF why = {} THEN 2 * c.parsed_value * HalfUnit(c) ELSE None
      /\ normalize_value(c).half = IF why = {} THEN HalfUnit(c) ELSE None
  BY DEF normalize_value
<1> QED BY <1>7, <1>8, <1>9

(* An admitted value with nothing against its normalisation is a number of *)
(* the fact it is about.                                                   *)
LEMMA AdmittedIsNumber ==
  ASSUME NEW c \in Contents, NEW d \in Docs, NEW row \in c[d].rows,
         NEW ev, NEW vals, NEW link, NEW v, v = validate_candidate(row, ev),
         AdmissionReasons(vals, v, link) = {}, v.norm = {}
  PROVE  Number(Member(v), Identity(v, link))
<1>1. PICK lifted : lifted = IF OP1Lifts(vals, v) THEN {OP1_LIFTABLE} ELSE {}
  OBVIOUS
<1>2. v.ineligible \ lifted = {}
  <2>1. Why(v.ineligible \ lifted # {}, "validation_ineligible") = {}
    BY <1>1 DEF AdmissionReasons
  <2> QED BY <2>1 DEF Why
<1>3. v.ineligible \subseteq {OP1_LIFTABLE}
  BY <1>1, <1>2
<1>4. PICK value : value = normalize_value(row)
  OBVIOUS
<1>5. /\ v.ineligible = EligibilityReasons(row, ev) \cup OperationsReasons(row)
                          \cup PeriodReasons(row, ev)
                          \cup (value.reasons \cap {"inconsistent_input"})
      /\ v.norm = value.reasons \ {"inconsistent_input"}
      /\ v.ctx = row /\ v.value = value
  BY <1>4 DEF validate_candidate
<1>6. value.reasons = {}
  BY <1>3, <1>5 DEF OP1_LIFTABLE
<1>7. row.concept_key # None
  <2>1. "mapping_not_single_concept" \notin EligibilityReasons(row, ev)
    BY <1>3, <1>5 DEF OP1_LIFTABLE
  <2> QED BY <2>1 DEF EligibilityReasons, Why
<1>8. /\ row.parsed_value \in Int \cup {None}
      /\ row.parsed_value # None => row.printed_decimals \in 0..Decimals
      /\ row.value_type = concept_value_type(row.concept_key)
  BY <1>7, ContentAssumption
<1>9. value.normalized /\ value.value \in Int /\ value.half \in Int
  BY <1>4, <1>6, <1>8, NormalizedIsNumber
<1>10. value.type = row.value_type
  BY <1>4 DEF normalize_value
<1>11. /\ Member(v).kind = "numeric" /\ Member(v).value = value
       /\ Identity(v, link).currency = value.currency
       /\ Identity(v, link).concept_key = row.concept_key
  BY <1>5 DEF Member, Identity, ValueKind
<1> QED BY <1>8, <1>9, <1>10, <1>11 DEF Number

(* A consistent numeric observation: its numbers agree, and its bounds are *)
(* the shared interval.                                                    *)
Numeric(o) == o.status # "internally_conflicting" /\ o.value_kind = "numeric"

Sound(o) ==
  Numeric(o) =>
    /\ o.members # {} /\ \A m \in o.members : Number(m, o.identity)
    /\ \A m, n \in o.members : Agree(m, n)
    /\ o.low = Max({Low(m) : m \in o.members})
    /\ o.high = Min({High(m) : m \in o.members})

(* The observation a validation run makes of a fact.                       *)
LEMMA ObservationSound ==
  ASSUME NEW d, NEW doc, NEW id, NEW M,
         \A m \in M : m.kind \in {"nil", "numeric"}
                       /\ (m.kind = "numeric" => Number(m, id))
  PROVE  Sound(observation(d, doc, id, M))
<1> DEFINE clash == \E a, b \in M : compare_members(a, b) = "disagree"
           kinds == {m.kind : m \in M}
           o == observation(d, doc, id, M)
<1>1. /\ o.identity = id /\ o.members = M
      /\ o.status = IF clash THEN "internally_conflicting" ELSE "consistent"
      /\ o.value_kind = IF Cardinality(kinds) = 1 THEN CHOOSE k \in kinds : TRUE ELSE None
      /\ o.low = IF ~ clash /\ kinds = {"numeric"} THEN Max({Low(m) : m \in M}) ELSE None
      /\ o.high = IF ~ clash /\ kinds = {"numeric"} THEN Min({High(m) : m \in M}) ELSE None
  BY DEF observation
<1> SUFFICES ASSUME Numeric(o)
             PROVE  /\ M # {} /\ \A m \in M : Number(m, id)
                    /\ \A m, n \in M : Agree(m, n)
                    /\ o.low = Max({Low(m) : m \in M})
                    /\ o.high = Min({High(m) : m \in M})
  BY <1>1 DEF Sound
<1>2. ~ clash
  BY <1>1 DEF Numeric
<1>3. kinds = {"numeric"}
  <2>1. Cardinality(kinds) = 1 /\ (CHOOSE k \in kinds : TRUE) = "numeric"
    <3> HIDE DEF kinds
    <3> QED BY <1>1, ContentAssumption DEF Numeric
  <2>2. kinds \subseteq {"nil", "numeric"}
    OBVIOUS
  <2> HIDE DEF kinds
  <2>3. IsFiniteSet({"nil"}) /\ IsFiniteSet({"numeric"})
    BY FS_Singleton
  <2>4. IsFiniteSet({"nil"} \cup {"numeric"})
    BY <2>3, FS_Union
  <2>5. kinds \in SUBSET ({"nil"} \cup {"numeric"})
    BY <2>2
  <2>6. IsFiniteSet(kinds)
    BY <2>4, <2>5, FS_Subset
  <2>7. PICK k : kinds = {k}
    BY <2>1, <2>6, FS_Singleton
  <2> QED BY <2>1, <2>7
<1>4. M # {} /\ \A m \in M : Number(m, id)
  BY <1>3
<1>5. \A m, n \in M : Agree(m, n)
  BY <1>2 DEF Agree
<1> HIDE DEF o
<1> QED BY <1>1, <1>2, <1>3, <1>4, <1>5

(* Every observation of a document is sound, and there is one for a fact.  *)
LEMMA ObservationsSound ==
  ASSUME NEW c \in Contents, NEW d \in Docs, NEW link, NEW up
  PROVE  /\ \A o \in Observations(d, c[d], link, up) : o.doc = d /\ Sound(o)
         /\ \A o, p \in Observations(d, c[d], link, up) : o.identity = p.identity => o = p
<1> DEFINE ev == RunEvidence(c[d], link, up)
           vals == validate_run(c[d].rows, ev).candidates
           admitted == {v \in vals : AdmissionReasons(vals, v, link) = {}}
           about(i) == {Member(v) : v \in {a \in admitted : Identity(a, link) = i}}
           obs(i) == observation(d, c[d], i, about(i))
           ids == {Identity(v, link) : v \in admitted}
<1>1. Observations(d, c[d], link, up) = {obs(i) : i \in ids}
  BY DEF Observations
<1>2. vals = {validate_candidate(row, ev) : row \in c[d].rows}
  BY DEF validate_run
<1>3. \A i : obs(i).doc = d /\ obs(i).identity = i
  <2> HIDE DEF about
  <2> QED BY DEF observation
<1>4. ASSUME NEW i, NEW m \in about(i)
      PROVE  m.kind \in {"nil", "numeric"} /\ (m.kind = "numeric" => Number(m, i))
  <2> HIDE DEF vals, ev
  <2>1. PICK v \in vals : /\ AdmissionReasons(vals, v, link) = {}
                          /\ Identity(v, link) = i /\ m = Member(v)
    OBVIOUS
  <2>2. PICK row \in c[d].rows : v = validate_candidate(row, ev)
    BY <1>2, <2>1
  <2>3. m.kind = IF v.norm = {} THEN "numeric" ELSE "nil"
    BY <2>1 DEF Member, ValueKind
  <2>4. v.norm = {} => Number(m, i)
    BY <2>1, <2>2, AdmittedIsNumber
  <2> QED BY <2>3, <2>4
<1>5. \A i : Sound(obs(i))
  <2> SUFFICES ASSUME NEW i PROVE Sound(obs(i))
    OBVIOUS
  <2>1. \A m \in about(i) : m.kind \in {"nil", "numeric"}
                             /\ (m.kind = "numeric" => Number(m, i))
    BY <1>4
  <2> HIDE DEF about
  <2> QED BY <2>1, ObservationSound
<1> HIDE DEF obs, ids
<1> QED BY <1>1, <1>3, <1>5

-----------------------------------------------------------------------------
(* What the observations of a fact say together. *)

(* The result has an interval in every member's precision when it is a     *)
(* number, and no interval when it is a conflict.                          *)
IntervalOK(sos, result) ==
  /\ result.value_kind = "numeric" =>
        /\ result.low <= result.high
        /\ \A o \in sos : \A m \in o.members :
              Low(m) <= result.low /\ result.high <= High(m)
  /\ result.state = "conflicting" => result.low = None

(* ... whatever sound observations of the fact are reconciled.             *)
LEMMA ReconciledInterval ==
  ASSUME NEW id, NEW sos, sos # {}, \A o \in sos : Sound(o) /\ o.identity = id,
         NEW other, NEW filings
  PROVE  IntervalOK(sos, reconcile_fact(sos, other, filings))
<1> DEFINE pairs == {p \in sos \X sos : p[1] # p[2]}
           conflict == \/ \E o \in sos : o.status = "internally_conflicting"
                       \/ \E p \in pairs : \E a \in p[1].members, b \in p[2].members :
                             compare_members(a, b) = "disagree"
           number == ~ conflict /\ \A o \in sos : o.value_kind = "numeric"
           result == reconcile_fact(sos, other, filings)
<1>1. /\ result.state = CASE conflict -> "conflicting"
                          [] Cardinality(sos) = 1 -> "single_source"
                          [] OTHER -> "corroborated"
      /\ result.value_kind = CASE conflict -> None [] number -> "numeric"
                               [] OTHER -> "nil"
      /\ result.low = IF number THEN Max({o.low : o \in sos}) ELSE None
      /\ result.high = IF number THEN Min({o.high : o \in sos}) ELSE None
  BY DEF reconcile_fact
<1>2. result.state = "conflicting" => conflict
  <2> HIDE DEF conflict, result
  <2> QED BY <1>1
<1>3. result.state = "conflicting" => result.low = None
  <2> HIDE DEF conflict, result
  <2> QED BY <1>1, <1>2
<1>4. result.value_kind = "numeric" => number
  <2> HIDE DEF conflict, result, number
  <2> QED BY <1>1, ContentAssumption
<1>5. ASSUME number
      PROVE  /\ result.low <= result.high
             /\ \A o \in sos : \A m \in o.members :
                   Low(m) <= result.low /\ result.high <= High(m)
  <2> DEFINE M == UNION {o.members : o \in sos}
             L == {Low(m) : m \in M}
             H == {High(m) : m \in M}
  <2>1. \A o \in sos : Numeric(o)
    BY <1>5 DEF Numeric
  <2>2. \A o \in sos : /\ o.members # {} /\ \A m \in o.members : Number(m, id)
                       /\ \A m, n \in o.members : Agree(m, n)
                       /\ o.low = Max({Low(m) : m \in o.members})
                       /\ o.high = Min({High(m) : m \in o.members})
    BY <2>1 DEF Sound
  <2>3. \A o, p \in sos : \A m \in o.members, n \in p.members : Agree(m, n)
    <3> SUFFICES ASSUME NEW o \in sos, NEW p \in sos,
                        NEW m \in o.members, NEW n \in p.members
                 PROVE  Agree(m, n)
      OBVIOUS
    <3>1. CASE o = p
      BY <2>2, <3>1
    <3>2. CASE o # p
      <4>1. <<o, p>> \in pairs /\ <<o, p>>[1] = o /\ <<o, p>>[2] = p
        BY <3>2
      <4>2. compare_members(m, n) # "disagree"
        BY <1>5, <4>1
      <4> QED BY <4>2 DEF Agree
    <3> QED BY <3>1, <3>2
  <2>4. \A o \in sos : /\ o.low \in {Low(m) : m \in o.members}
                       /\ o.high \in {High(m) : m \in o.members}
                       /\ \A m \in o.members : Low(m) <= o.low /\ o.high <= High(m)
    <3> SUFFICES ASSUME NEW o \in sos
                 PROVE  /\ o.low \in {Low(m) : m \in o.members}
                        /\ o.high \in {High(m) : m \in o.members}
                        /\ \A m \in o.members : Low(m) <= o.low /\ o.high <= High(m)
      OBVIOUS
    <3>1. /\ o.members # {} /\ \A m \in o.members : Number(m, id)
          /\ \A m, n \in o.members : Agree(m, n)
      BY <2>2
    <3> QED BY <2>2, <3>1, SharedInterval
  <2>5. \A o, p \in sos : \A m \in o.members, n \in p.members :
           Low(m) \in Int /\ High(n) \in Int /\ Low(m) <= High(n)
    <3> SUFFICES ASSUME NEW o \in sos, NEW p \in sos,
                        NEW m \in o.members, NEW n \in p.members
                 PROVE  Low(m) \in Int /\ High(n) \in Int /\ Low(m) <= High(n)
      OBVIOUS
    <3>1. Number(m, id) /\ Number(n, id) /\ Agree(m, n) /\ Agree(n, n)
      BY <2>2, <2>3
    <3> QED BY <3>1, AgreedOverlap
  <2>6. \A o, p \in sos : o.low \in Int /\ p.high \in Int /\ o.low <= p.high
    BY <2>4, <2>5
  <2> DEFINE LL == {o.low : o \in sos}
             HH == {o.high : o \in sos}
  <2>7. PICK k \in sos : TRUE
    OBVIOUS
  <2>8. /\ LL \in SUBSET Int /\ LL # {} /\ k.high \in Int /\ \A y \in LL : y <= k.high
        /\ HH \in SUBSET Int /\ HH # {} /\ k.low \in Int /\ \A y \in HH : k.low <= y
    BY <2>6, <2>7
  <2>9. \A o \in sos : o.low \in LL /\ o.high \in HH
    OBVIOUS
  <2>10. \A x \in LL, y \in HH : x <= y
    BY <2>6
  <2> HIDE DEF LL, HH
  <2>11. Max(LL) \in LL /\ \A y \in LL : y <= Max(LL)
    BY <2>8, MaxBelow
  <2>12. Min(HH) \in HH /\ \A y \in HH : Min(HH) <= y
    BY <2>8, MinAbove
  <2>13. result.low = Max(LL) /\ result.high = Min(HH)
    <3> HIDE DEF result, number
    <3> QED BY <1>1, <1>5 DEF LL, HH
  <2>14. result.low <= result.high
    BY <2>10, <2>11, <2>12, <2>13
  <2>15. ASSUME NEW o \in sos, NEW m \in o.members
         PROVE  Low(m) <= result.low /\ result.high <= High(m)
    <3>1. /\ Low(m) <= o.low /\ o.low <= Max(LL) /\ Min(HH) <= o.high /\ o.high <= High(m)
      BY <2>4, <2>9, <2>11, <2>12
    <3>2. /\ Low(m) \in Int /\ High(m) \in Int /\ o.low \in Int /\ o.high \in Int
          /\ Max(LL) \in Int /\ Min(HH) \in Int
      BY <2>5, <2>6, <2>8, <2>11, <2>12
    <3> QED BY <2>13, <3>1, <3>2
  <2> QED BY <2>14, <2>15
<1> HIDE DEF result, number
<1> QED BY <1>3, <1>4, <1>5 DEF IntervalOK, result

-----------------------------------------------------------------------------
(* A fact is reconciled from one observation per document. *)

(* The link a validation run was made with.                                *)
LinkOf(w) == IF w.link = 0 THEN None ELSE links[w.link]

(* A validation run's observations are those of its run's document.        *)
LEMMA ObservedBy ==
  ASSUME EvidenceOK, NEW w \in vruns, NEW r \in runs, r.id = w.run
  PROVE  /\ \A o \in w.observations : o.doc = r.doc /\ Sound(o)
         /\ \A o, p \in w.observations : o.identity = p.identity => o = p
<1>1. PICK s \in runs : /\ s.id = w.run
                        /\ w.observations = Observations(s.doc, content[s.doc],
                                                         LinkOf(w), w.uploaded)
  BY DEF EvidenceOK, ValidationsOK, ValidationOK, LinkOf
<1>2. s = r
  BY <1>1 DEF EvidenceOK, RunsOK
<1>3. content \in Contents
  BY DEF EvidenceOK
<1>4. <<r.filing, r.doc>> \in Carries
  BY DEF EvidenceOK, RunsOK, RunOK
<1>5. r.doc \in Docs
  BY <1>4 DEF Docs
<1>6. PICK c, d, link, up :
         c = content /\ d = r.doc /\ link = LinkOf(w) /\ up = w.uploaded
  OBVIOUS
<1>7. /\ \A o \in Observations(d, c[d], link, up) : o.doc = d /\ Sound(o)
      /\ \A o, p \in Observations(d, c[d], link, up) : o.identity = p.identity => o = p
  <2>1. c \in Contents /\ d \in Docs
    BY <1>3, <1>5, <1>6
  <2> QED BY <2>1, ObservationsSound
<1>8. w.observations = Observations(d, c[d], link, up)
  BY <1>1, <1>2, <1>6
<1> QED BY <1>6, <1>7, <1>8

(* One run is selected for a document.                                     *)
LEMMA SelectedOnce ==
  ASSUME EvidenceOK, NEW S \in SUBSET runs, NEW q \in select_runs(S),
         NEW r \in select_runs(S), q.doc = r.doc
  PROVE  q = r
<1>1. q \in runs /\ r \in runs /\ q \in S /\ r \in S /\ q.accepted /\ r.accepted
  BY DEF select_runs
<1>2. /\ q.at < r.at \/ (q.at = r.at /\ q.id <= r.id)
      /\ r.at < q.at \/ (q.at = r.at /\ r.id <= q.id)
  BY <1>1 DEF select_runs
<1>3. RunOK(q) /\ RunOK(r) /\ now \in Nat /\ IsFiniteSet(runs)
  BY <1>1 DEF EvidenceOK, RunsOK
<1>4. Cardinality(runs) \in Nat
  BY <1>3, FS_CardinalityType
<1>5. q.at \in Nat /\ r.at \in Nat /\ q.id \in Nat /\ r.id \in Nat
  BY <1>3, <1>4 DEF RunOK
<1>6. q.id = r.id
  BY <1>2, <1>5
<1> QED BY <1>1, <1>6 DEF EvidenceOK, RunsOK

(* Without a tie one upload instant is in force.                           *)
LEMMA OneUpload ==
  ASSUME EvidenceOK, NEW f, NEW h, ~ (Cardinality(UploadedAsOf(f, h)) > 1),
         NEW a \in UploadedAsOf(f, h), NEW b \in UploadedAsOf(f, h)
  PROVE  a = b
<1> DEFINE T == {o.uploaded : o \in listing} \cup {None}
<1>1. UploadedAsOf(f, h) \in SUBSET T
  BY DEF UploadedAsOf, MergedUploads, ListedBy
<1>2. IsFiniteSet(T)
  <2>1. PICK u : u = [o \in listing |-> o.uploaded]
    OBVIOUS
  <2>2. u = [o \in listing |-> u[o]] /\ IsFiniteSet(listing)
    BY <2>1 DEF EvidenceOK, ListingOK
  <2>3. IsFiniteSet({u[o] : o \in listing})
    BY <2>2, FiniteImage
  <2>4. {u[o] : o \in listing} = {o.uploaded : o \in listing}
    BY <2>1
  <2>5. IsFiniteSet({None})
    BY FS_Singleton
  <2> QED BY <2>3, <2>4, <2>5, FS_Union
<1> HIDE DEF T
<1>3. PICK S : S = UploadedAsOf(f, h)
  OBVIOUS
<1>4. IsFiniteSet(S) /\ ~ (Cardinality(S) > 1) /\ a \in S /\ b \in S
  BY <1>1, <1>2, <1>3, FS_Subset
<1>5. Cardinality(S) \in Nat
  BY <1>4, FS_CardinalityType
<1>6. Cardinality(S) # 0
  BY <1>4, FS_EmptySet
<1>7. Cardinality(S) = 1
  BY <1>4, <1>5, <1>6
<1>8. PICK x : S = {x}
  BY <1>4, <1>7, FS_Singleton
<1> QED BY <1>4, <1>8

(* One validation run is canonical for a run unless its inputs are tied.   *)
LEMMA CanonicalOnce ==
  ASSUME EvidenceOK, NEW r, NEW h, ~ canonical_validation_run(r, h).tie,
         NEW v \in canonical_validation_run(r, h).found,
         NEW w \in canonical_validation_run(r, h).found
  PROVE  v = w
<1>1. canonical_validation_run(r, h) =
        [tie |-> Cardinality(UploadedAsOf(r.filing, h)) > 1,
         found |-> {x \in vruns : /\ x.run = r.id /\ x.at <= h
                                  /\ x.link = LinkAsOf(r.filing, h)
                                  /\ x.uploaded \in UploadedAsOf(r.filing, h)}]
  BY DEF canonical_validation_run
<1>2. ~ (Cardinality(UploadedAsOf(r.filing, h)) > 1)
  <2>1. PICK t, u : /\ t = (Cardinality(UploadedAsOf(r.filing, h)) > 1)
                    /\ canonical_validation_run(r, h) = [tie |-> t, found |-> u]
    BY <1>1, Zenon
  <2>2. canonical_validation_run(r, h).tie = t
    BY <2>1
  <2> QED BY <2>1, <2>2, Zenon
<1>3. /\ v \in vruns /\ w \in vruns /\ v.run = w.run /\ v.link = w.link
      /\ v.uploaded \in UploadedAsOf(r.filing, h) /\ w.uploaded \in UploadedAsOf(r.filing, h)
  BY <1>1
<1>4. v.uploaded = w.uploaded
  BY <1>2, <1>3, OneUpload
<1> QED BY <1>3, <1>4 DEF EvidenceOK, ValidationsOK

(* What is held of a set of runs comes from a selected run's canonical     *)
(* validation run.                                                         *)
LEMMA HeldFrom ==
  ASSUME NEW S, NEW h, NEW x \in Held(S, h)
  PROVE  \E r \in select_runs(S) : \E w \in canonical_validation_run(r, h).found :
            x.so \in w.observations /\ x.tie = canonical_validation_run(r, h).tie
BY DEF Held

(* Observations that agree pairwise share an interval, and a conflict has  *)
(* none (AgreementHasInterval; reconcile.py reconcile_fact).               *)
THEOREM AgreedHaveInterval == Spec => []AgreementHasInterval
<1>1. ASSUME HistInv
      PROVE  AgreementHasInterval
  <2>1. EvidenceOK
    BY <1>1 DEF HistInv
  <2> SUFFICES ASSUME NEW q \in {Current(now), Known(now)}, NEW v \in Answer(q),
                      v.result # None
               PROVE  /\ v.result.value_kind = "numeric" =>
                           /\ v.result.low <= v.result.high
                           /\ \A w \in vruns : \A o \in w.observations :
                                 /\ o.identity = v.identity /\ o.doc \in v.visible
                                 /\ w \in canonical_validation_run(
                                             CHOOSE r \in runs : r.id = w.run, now).found
                                 /\ w.run \in {r.id : r \in select_runs(
                                                {p \in runs : VersionVisible(q, p)})}
                                 => \A m \in o.members :
                                       Low(m) <= v.result.low /\ v.result.high <= High(m)
                      /\ v.result.state = "conflicting" => v.result.low = None
    BY DEF AgreementHasInterval
  <2>2. q.horizon = now
    BY DEF Known, Current
  <2>3. PICK S : S = {p \in runs : VersionVisible(q, p)}
    OBVIOUS
  <2>4. S \in SUBSET runs /\ ShownRuns(q) = S
    <3>1. \A r \in runs : r.at <= now
      <4>1. now \in Nat /\ \A r \in runs : RunOK(r)
        BY <2>1 DEF EvidenceOK, RunsOK
      <4>2. \A r \in runs : r.at \in 0..now
        BY <4>1 DEF RunOK
      <4> QED BY <4>1, <4>2
    <3>2. ShownRuns(q) = {r \in {p \in runs : p.at <= now} : VersionVisible(q, r)}
      BY <2>2 DEF ShownRuns, KnownRuns
    <3> QED BY <2>3, <3>1, <3>2
  <2> DEFINE held == OfIssuer(Held(S, now))
             seen == {x \in held : ~ x.tie}
  <2>5. PICK id, tied, pending, filingsOf, accepted :
          v = FactView(id, seen, tied, pending, filingsOf, accepted, now)
    <3> DEFINE hd == OfIssuer(Held(ShownRuns(q), q.horizon))
    <3>1. v \in Views(hd, Pending(q), ShownRuns(q), q.horizon)
      BY AnswerIs
    <3>2. PICK id \in FactsOf(hd \cup Pending(q)) :
            v = FactView(id, {x \in hd : ~ x.tie}, {x \in hd : x.tie}, Pending(q),
                         Carrying(ShownRuns(q)), Accepting(ShownRuns(q)), q.horizon)
      BY <3>1 DEF Views
    <3>3. hd = held
      BY <2>2, <2>4
    <3>4. v = FactView(id, seen, {x \in hd : x.tie}, Pending(q),
                       Carrying(ShownRuns(q)), Accepting(ShownRuns(q)), now)
      BY <2>2, <3>2, <3>3
    <3> HIDE DEF hd, seen
    <3> QED BY <3>4, Zenon
  <2>6. PICK C, D : C = Cands(id, seen, filingsOf, now) /\ D = Dropped(C, now)
    OBVIOUS
  <2>7. v = View(id, C, D, Ambiguous(C, now), seen, tied, pending, accepted)
    <3>1. FactView(id, seen, tied, pending, filingsOf, accepted, now)
            = View(id, Cands(id, seen, filingsOf, now),
                   Dropped(Cands(id, seen, filingsOf, now), now),
                   Ambiguous(Cands(id, seen, filingsOf, now), now),
                   seen, tied, pending, accepted)
      <4> HIDE DEF seen
      <4> QED BY FactViewIs
    <3> HIDE DEF seen
    <3> QED BY <2>5, <2>6, <3>1
  <2>8. PICK sos : sos = {c.so : c \in C \ D}
    OBVIOUS
  <2>9. PICK other : other = \E o \in sos : OtherCurrency({x.so : x \in seen}, o)
    OBVIOUS
  <2>10. /\ v.identity = id
         /\ v.result = IF sos = {} THEN None ELSE reconcile_fact(sos, other, accepted)
         /\ v.visible = {o.doc : o \in sos}
    <3> HIDE DEF seen
    <3> QED BY <2>7, <2>8, <2>9 DEF View
  <2>11. \A c \in C : \E x \in seen : c.so = x.so /\ x.so.identity = id
    <3> HIDE DEF seen
    <3> QED BY <2>6 DEF Cands
  <2>12. \A o \in sos : \E r \in select_runs(S) :
           \E w \in canonical_validation_run(r, now).found :
              o \in w.observations /\ ~ canonical_validation_run(r, now).tie
    <3> SUFFICES ASSUME NEW o \in sos
                 PROVE  \E r \in select_runs(S) :
                          \E w \in canonical_validation_run(r, now).found :
                             o \in w.observations /\ ~ canonical_validation_run(r, now).tie
      OBVIOUS
    <3>1. PICK x \in seen : o = x.so
      <4> HIDE DEF seen
      <4> QED BY <2>8, <2>11
    <3>2. x \in Held(S, now) /\ ~ x.tie
      BY DEF OfIssuer
    <3> QED BY <3>1, <3>2, HeldFrom
  <2>13. \A r \in select_runs(S) : r \in runs
    BY <2>4 DEF select_runs
  <2>14. \A r, w : w \in canonical_validation_run(r, now).found => w \in vruns /\ w.run = r.id
    BY DEF canonical_validation_run
  <2>15. \A o \in sos : Sound(o) /\ o.identity = id
    <3> SUFFICES ASSUME NEW o \in sos PROVE Sound(o) /\ o.identity = id
      OBVIOUS
    <3>1. PICK r \in select_runs(S) :
            \E w \in canonical_validation_run(r, now).found : o \in w.observations
      BY <2>12
    <3>2. PICK w \in canonical_validation_run(r, now).found : o \in w.observations
      BY <3>1
    <3>3. Sound(o)
      BY <2>1, <2>13, <2>14, <3>2, ObservedBy
    <3>4. o.identity = id
      <4> HIDE DEF seen
      <4> QED BY <2>8, <2>11
    <3> QED BY <3>3, <3>4
  <2>16. sos # {} /\ v.result = reconcile_fact(sos, other, accepted)
    BY <2>10
  <2>17. IntervalOK(sos, v.result)
    BY <2>15, <2>16, ReconciledInterval
  <2>18. ASSUME NEW w \in vruns, NEW o \in w.observations,
                o.identity = v.identity, o.doc \in v.visible,
                w \in canonical_validation_run(CHOOSE r \in runs : r.id = w.run, now).found,
                w.run \in {r.id : r \in select_runs({p \in runs : VersionVisible(q, p)})}
         PROVE  o \in sos
    <3>1. PICK r \in select_runs(S) : w.run = r.id
      BY <2>3, <2>18
    <3>2. r \in runs /\ (CHOOSE s \in runs : s.id = w.run) = r
      <4>1. r \in runs
        BY <2>13
      <4>2. \A s \in runs : s.id = w.run => s = r
        BY <2>1, <3>1, <4>1 DEF EvidenceOK, RunsOK
      <4>3. (CHOOSE s \in runs : s.id = w.run) \in runs
            /\ (CHOOSE s \in runs : s.id = w.run).id = w.run
        BY <3>1, <4>1
      <4> QED BY <4>1, <4>2, <4>3
    <3>3. w \in canonical_validation_run(r, now).found
      BY <2>18, <3>2
    <3>4. PICK p \in sos : p.doc = o.doc
      BY <2>10, <2>18
    <3>5. PICK s \in select_runs(S) :
            \E u \in canonical_validation_run(s, now).found :
               p \in u.observations /\ ~ canonical_validation_run(s, now).tie
      BY <2>12
    <3>6. PICK u \in canonical_validation_run(s, now).found : p \in u.observations
      BY <3>5
    <3>7. u \in vruns /\ u.run = s.id /\ s \in runs
      BY <2>13, <2>14
    <3>8. p.doc = s.doc /\ o.doc = r.doc
      BY <2>1, <3>1, <3>2, <3>6, <3>7, ObservedBy
    <3>9. s = r
      BY <2>1, <2>4, <3>4, <3>8, SelectedOnce
    <3>10. u = w
      BY <2>1, <3>3, <3>5, <3>9, CanonicalOnce
    <3>11. p.identity = o.identity
      BY <2>10, <2>15, <2>18
    <3>12. p = o
      BY <2>1, <3>1, <3>2, <3>6, <3>10, <3>11, ObservedBy
    <3> QED BY <3>12
  <2> HIDE DEF seen, held
  <2> QED BY <2>17, <2>18 DEF IntervalOK
<1> QED BY Invariance, <1>1, PTL
=============================================================================
