-------------------------- MODULE IssuerLinksProofs --------------------------
(***************************************************************************)
(* Proofs about IssuerLinks, for every set of securities, bodies, answers  *)
(* and captures, any number of late passes, crashes, manual runs and       *)
(* rulings of the owner.                                                   *)
(***************************************************************************)
EXTENDS IssuerLinks, TLAPS

-----------------------------------------------------------------------------
(* What holding leaves of a batch                                          *)

(* The secId guard looks at nothing but the observations claiming a secId: *)
(* observations about other securities and secIds cannot change a dispute. *)
LEMMA ClaimsDecide ==
  ASSUME NEW a, NEW b, NEW sec, Claiming(a, sec) = Claiming(b, sec)
  PROVE  /\ AllFailures(a, sec) = AllFailures(b, sec)
         /\ sec \in disputed_sec_ids(a) <=> sec \in disputed_sec_ids(b)
<1> DEFINE of(c, t) == Identity({o \in c : o.symbol = t})
           failing(c, s) == {f \in {<<same_issuer(of(c, s), of(c, t), s = t), t>> :
                                      t \in {o.symbol : o \in c}} : f[1] # None}
           all(c) == UNION {failing(c, s) : s \in {o.symbol : o \in c}}
<1>1. \A obs : AllFailures(obs, sec) = all(Claiming(obs, sec))
  BY Zenon DEF AllFailures, Failures
<1> HIDE DEF all
<1>2. AllFailures(a, sec) = AllFailures(b, sec)
  BY <1>1
<1>3. \A obs : sec \in SecIds(obs) <=> sec # None /\ Claiming(obs, sec) # {}
  BY DEF SecIds, Claiming
<1> QED BY <1>2, <1>3 DEF disputed_sec_ids

(* What split_batch records of the observations it was free to record.     *)
Left(recorded, free) ==
  {o \in free : o.symbol = None \/ o.sec \notin held_sec_ids(recorded, free)}

(* Recording what is left creates no dispute that only lacks evidence.     *)
LEMMA LeftIsSound ==
  ASSUME NEW recorded, NEW free
  PROVE  InsufficientOnly(recorded \cup Left(recorded, free))
           \subseteq disputed_sec_ids(recorded)
<1> DEFINE after == recorded \cup Left(recorded, free)
<1> SUFFICES ASSUME NEW sec \in InsufficientOnly(after), sec \notin disputed_sec_ids(recorded)
             PROVE  FALSE
  OBVIOUS
<1>1. /\ sec \in disputed_sec_ids(after)
      /\ \A f \in AllFailures(after, sec) : f[1] = Insufficient
  BY DEF InsufficientOnly
<1>2. CASE sec \in held_sec_ids(recorded, free)
  <2>1. Claiming(after, sec) = Claiming(recorded, sec)
    BY <1>2 DEF Claiming, Left
  <2> QED BY <1>1, <2>1, ClaimsDecide
<1>3. CASE sec \notin held_sec_ids(recorded, free)
  <2>1. Claiming(after, sec) = Claiming(recorded \cup free, sec)
    BY <1>3 DEF Claiming, Left
  <2>2. /\ sec \in disputed_sec_ids(recorded \cup free)
        /\ AllFailures(after, sec) = AllFailures(recorded \cup free, sec)
    <3> HIDE DEF after
    <3> QED BY <1>1, <2>1, ClaimsDecide
  <2> QED BY <1>1, <1>3, <2>2 DEF held_sec_ids
<1> QED BY <1>2, <1>3

(* The batch without what a pass holds.                                    *)
LEMMA HeldLeaves ==
  ASSUME NEW recorded, NEW batch
  PROVE  batch \ Held(recorded, batch) = Left(recorded, batch \ owner_held)
BY DEF Held, Left

-----------------------------------------------------------------------------
(* The inductive invariant                                                 *)

HeldObs == {h.o : h \in holds}
Kept == Recorded \cup HeldObs
Sightings(an, s) == observations_from_financials(an[s].secs, s)

(* Every listing of the plan has been answered, and its sightings are in S. *)
PlanSafe(it, an, plan, S) ==
  \A s \in plan : /\ s \in Symbols /\ it[s] \in FINAL
                  /\ an[s] # None => Sightings(an, s) \subseteq S

(* The observations a pass has, or has taken care of, at its step.         *)
InHand ==
  CASE Pass.at = "hold"     -> Pass.batch \cup HeldObs
    [] Pass.at = "recorded" -> Seen("pass") \cup HeldObs
    [] OTHER                -> Kept

PassSteps == {"idle", "hold", "recorded", "resolutions", "applied", "resolve",
              "resolved", "link", "done"}

Shapes ==
  /\ DOMAIN item = Keys /\ DOMAIN answer = Symbols /\ DOMAIN proc = Procs
  /\ \A r \in seen : r = [o |-> r.o, tx |-> r.tx] /\ r.tx \in Procs \cup {None}
  /\ \A h \in holds : h = [o |-> h.o, resolution |-> h.resolution,
                           released |-> h.released] /\ h.released \in BOOLEAN
  /\ \A q \in passes : q = [kind |-> q.kind, plan |-> q.plan, no |-> q.no,
                            done |-> q.done] /\ q.done \in BOOLEAN
  /\ Pass = [at |-> Pass.at, kind |-> Pass.kind, plan |-> Pass.plan, no |-> Pass.no,
             batch |-> Pass.batch, base |-> Pass.base, hold |-> Pass.hold,
             todo |-> Pass.todo] /\ Pass.at \in PassSteps
  /\ capture \in Captures \cup {None}

(* An answer is kept for a listing that succeeded, and only for one.       *)
Answered == \A s \in Symbols : answer[s] # None => item[s] \in SUCCESS

(* The plan of a closure pass, while it works and once it is done.         *)
PassClosed ==
  Pass.at # "idle" /\ Pass.kind = "ie4" => PlanSafe(item, answer, Pass.plan, InHand)
DoneClosed ==
  \A q \in passes : q.kind = "ie4" /\ q.done => PlanSafe(item, answer, q.plan, Kept)

(* The pass has rows of its own only between an insert and its commit.     *)
OpenRows ==
  (\E r \in seen : r.tx = "pass") => Pass.at \in {"recorded", "applied", "resolved"}

(* One hold for an observation; the owner's resolutions release it.        *)
Unreleased(o) == \E h \in holds : h.o = o /\ ~ h.released
HoldsOK ==
  /\ \A h, k \in holds : h.o = k.o => h = k
  /\ \A h \in holds : ~ h.released => h.resolution \in {None, "keep_held"}

(* What is left to a pass that is holding: nothing unreleased, and what    *)
(* the rule leaves of the observations it was free to record.              *)
Holding ==
  Pass.at = "hold" =>
    /\ \A o \in Pass.batch \ Pass.hold : ~ Unreleased(o)
    /\ \E free : Pass.batch \ Pass.hold = Left(Pass.base, free)

LinkInv ==
  /\ Shapes /\ Answered /\ HoldsOK
  /\ PassClosed /\ DoneClosed /\ OpenRows /\ Holding

-----------------------------------------------------------------------------
(* Rows and transactions                                                   *)

(* None is no writer, no state and no resolution.                          *)
LEMMA NoneFacts ==
  /\ None \notin Procs \cup FINAL \cup {"pending", "acquire_evidence", "record_as_is"}
  /\ {"pass", "shell", "worker"} \subseteq Procs
BY IssuerAssumption DEF Procs, FINAL, SUCCESS

(* A commit shows a writer's rows to everyone.                             *)
LEMMA CommitRows ==
  ASSUME Shapes, NEW p \in Procs, commit(p)
  PROVE  /\ Recorded' = Seen(p)
         /\ Seen("pass") \subseteq Seen("pass")'
         /\ \A r \in seen' : /\ r = [o |-> r.o, tx |-> r.tx]
                             /\ r.tx \in Procs \cup {None}
                             /\ r.tx = "pass" => p # "pass" /\ r \in seen
<1> DEFINE shown(r) == IF r.tx = p THEN [r EXCEPT !.tx = None] ELSE r
<1>1. seen' = {shown(r) : r \in seen}
  BY DEF commit
<1>2. p # None /\ "pass" # None
  BY NoneFacts
<1>3. \A r \in seen : r = [o |-> r.o, tx |-> r.tx] /\ r.tx \in Procs \cup {None}
  BY DEF Shapes
<1>4. ASSUME NEW r \in seen
      PROVE  /\ shown(r) = [o |-> r.o, tx |-> shown(r).tx] /\ shown(r).o = r.o
             /\ shown(r).tx = IF r.tx = p THEN None ELSE r.tx
             /\ r.tx # p => shown(r) = r
  <2>1. CASE r.tx = p
    <3>1. shown(r) = [o |-> r.o, tx |-> None]
      BY <1>3, <2>1
    <3> QED BY <2>1, <3>1
  <2>2. CASE r.tx # p
    BY <1>3, <2>2
  <2> QED BY <2>1, <2>2
<1> HIDE DEF shown
<1>5. Recorded' = Seen(p)
  BY <1>1, <1>2, <1>3, <1>4 DEF Recorded, Seen
<1>6. Seen("pass") \subseteq Seen("pass")'
  BY <1>1, <1>2, <1>3, <1>4 DEF Seen
<1>7. \A r \in seen' : /\ r = [o |-> r.o, tx |-> r.tx]
                       /\ r.tx \in Procs \cup {None}
                       /\ r.tx = "pass" => p # "pass" /\ r \in seen
  BY <1>1, <1>2, <1>3, <1>4
<1> QED BY <1>5, <1>6, <1>7

(* A rollback takes nothing back but the writer's own rows.                *)
LEMMA RollbackRows ==
  ASSUME Shapes, NEW p \in Procs, rollback(p)
  PROVE  /\ Recorded' = Recorded
         /\ p # "pass" => Seen("pass") \subseteq Seen("pass")'
         /\ \A r \in seen' : r \in seen /\ r.tx # p
BY NoneFacts DEF rollback, Recorded, Seen

(* An insert that waits for nobody leaves its writer with all it inserted. *)
LEMMA InsertRows ==
  ASSUME Shapes, NEW p \in Procs, NEW obs, seen' = SeenWith(obs, p),
         \A r \in seen : r.o \in obs => r.tx \in {None, p}
  PROVE  /\ Recorded' = Recorded
         /\ Seen("pass") \subseteq Seen("pass")'
         /\ obs \subseteq Seen(p)' /\ Seen(p)' = Seen(p) \cup obs
         /\ \A r \in seen' : /\ r = [o |-> r.o, tx |-> r.tx]
                             /\ r.tx \in Procs \cup {None}
                             /\ r \notin seen => r.tx = p /\ r.o \in obs
<1>1. seen' = seen \cup {[o |-> o, tx |-> p] : o \in obs \ {r.o : r \in seen}}
  BY DEF SeenWith
<1>2. p # None
  BY NoneFacts
<1>3. \A r \in seen' : /\ r = [o |-> r.o, tx |-> r.tx]
                       /\ r.tx \in Procs \cup {None}
                       /\ r \notin seen => r.tx = p /\ r.o \in obs
  BY <1>1 DEF Shapes
<1>4. seen \subseteq seen'
  BY <1>1
<1>5. Recorded' = Recorded
  BY <1>2, <1>3, <1>4 DEF Recorded, Seen
<1>6. Seen("pass") \subseteq Seen("pass")'
  BY <1>4 DEF Seen
<1>7. obs \subseteq Seen(p)'
  <2> SUFFICES ASSUME NEW o \in obs
               PROVE  \E r \in seen' : r.o = o /\ r.tx \in {None, p}
    BY DEF Seen
  <2>1. CASE o \in {r.o : r \in seen}
    BY <1>4, <2>1
  <2>2. CASE o \notin {r.o : r \in seen}
    <3>1. [o |-> o, tx |-> p] \in seen'
      BY <1>1, <2>2
    <3> QED BY <3>1
  <2> QED BY <2>1, <2>2
<1>8. Seen(p)' \subseteq Seen(p) \cup obs /\ Seen(p) \subseteq Seen(p)'
  BY <1>3, <1>4 DEF Seen
<1> QED BY <1>3, <1>5, <1>6, <1>7, <1>8

-----------------------------------------------------------------------------
(* What an answer, once final, says                                        *)

FinalStays ==
  \A s \in Symbols : item[s] \in FINAL => item'[s] = item[s] /\ answer'[s] = answer[s]

LEMMA SafeGrows ==
  ASSUME FinalStays, NEW plan, NEW S, NEW T, PlanSafe(item, answer, plan, S), S \subseteq T
  PROVE  PlanSafe(item', answer', plan, T)
BY DEF FinalStays, PlanSafe, Sightings

(* What a pass knows of itself is read from these fields.                  *)
SamePass ==
  /\ Pass'.at = Pass.at /\ Pass'.kind = Pass.kind /\ Pass'.plan = Pass.plan
  /\ Pass'.batch = Pass.batch /\ Pass'.base = Pass.base /\ Pass'.hold = Pass.hold

(* A step that leaves the pass where it is and takes nothing away.         *)
LEMMA BesideThePass ==
  ASSUME LinkInv, Shapes', Answered', HoldsOK', FinalStays, SamePass, passes' = passes,
         Recorded \subseteq Recorded', Seen("pass") \subseteq Seen("pass")',
         HeldObs \subseteq HeldObs',
         \A r \in seen' : r.tx = "pass" => r \in seen,
         \A o : Unreleased(o)' => Unreleased(o)
  PROVE  LinkInv'
<1>1. Kept \subseteq Kept'
  BY DEF Kept
<1>2. InHand \subseteq InHand'
  BY <1>1 DEF InHand, SamePass
<1>3. PassClosed'
  <2> SUFFICES ASSUME Pass'.at # "idle", Pass'.kind = "ie4"
               PROVE  PlanSafe(item', answer', Pass'.plan, InHand')
    BY DEF PassClosed
  <2>1. PlanSafe(item, answer, Pass.plan, InHand)
    BY DEF LinkInv, PassClosed, SamePass
  <2>2. PlanSafe(item', answer', Pass.plan, InHand')
    BY <1>2, <2>1, SafeGrows
  <2> QED BY <2>2 DEF SamePass
<1>4. DoneClosed'
  <2> SUFFICES ASSUME NEW q \in passes, q.kind = "ie4", q.done
               PROVE  PlanSafe(item', answer', q.plan, Kept')
    BY DEF DoneClosed
  <2>1. PlanSafe(item, answer, q.plan, Kept)
    BY DEF LinkInv, DoneClosed
  <2> QED BY <1>1, <2>1, SafeGrows
<1>5. OpenRows'
  BY DEF LinkInv, OpenRows, SamePass
<1>6. Holding'
  BY DEF LinkInv, Holding, SamePass
<1> QED BY <1>3, <1>4, <1>5, <1>6 DEF LinkInv

-----------------------------------------------------------------------------
(* Steps beside the pass                                                   *)

(* A step that changes only what the market and the links say.             *)
LEMMA QuietStep ==
  ASSUME LinkInv, UNCHANGED <<item, answer, seen, holds, passes>>, SamePass, Shapes'
  PROVE  LinkInv'
<1>1. Answered' /\ HoldsOK' /\ FinalStays
  BY DEF LinkInv, Answered, HoldsOK, FinalStays
<1>2. Recorded' = Recorded /\ Seen("pass")' = Seen("pass") /\ HeldObs' = HeldObs
      /\ \A o : Unreleased(o)' <=> Unreleased(o)
  BY DEF Recorded, Seen, HeldObs, Unreleased
<1> QED BY <1>1, <1>2, BesideThePass

LEMMA MarketStep ==
  ASSUME LinkInv, \/ \E c \in Captures : Derive(c)
                  \/ \E b \in Bodies : Sweep(b)
                  \/ UNCHANGED vars
  PROVE  LinkInv'
<1>1. UNCHANGED <<item, answer, seen, holds, passes, proc>>
      /\ capture' \in Captures \cup {None}
  BY DEF LinkInv, Shapes, Derive, Sweep, vars, f1Vars, marketVars, issuerVars
<1>2. SamePass /\ Shapes'
  BY <1>1 DEF LinkInv, Shapes, SamePass, Pass
<1> QED BY <1>1, <1>2, QuietStep

(* Links are read by nobody who decides what to record.                    *)
LEMMA LinkStep ==
  ASSUME LinkInv, link_window \/ LinkStored \/ (\E f \in Filings : link_filing(f))
  PROVE  LinkInv'
<1>1. UNCHANGED <<item, answer, capture, seen, holds, passes>>
  BY DEF link_window, LinkStored, link_filing, f1Vars, marketVars
<1>2. Pass = [at |-> Pass.at, kind |-> Pass.kind, plan |-> Pass.plan, no |-> Pass.no,
              batch |-> Pass.batch, base |-> Pass.base, hold |-> Pass.hold,
              todo |-> Pass.todo] /\ DOMAIN proc = Procs
  BY DEF LinkInv, Shapes
<1>3. DOMAIN proc' = Procs
  BY <1>2 DEF link_window, To, LinkStored, link_filing
<1>4. \/ Pass' = Pass
      \/ \E t : Pass' = [Pass EXCEPT !.todo = t]
  <2>1. CASE link_window
    BY <1>2, <2>1, NoneFacts DEF link_window, To, Pass
  <2>2. CASE LinkStored \/ \E f \in Filings : link_filing(f)
    BY <1>2, <2>2, NoneFacts DEF LinkStored, link_filing, Pass
  <2> QED BY <2>1, <2>2
<1>5. SamePass /\ Pass' = [at |-> Pass'.at, kind |-> Pass'.kind, plan |-> Pass'.plan,
              no |-> Pass'.no, batch |-> Pass'.batch, base |-> Pass'.base,
              hold |-> Pass'.hold, todo |-> Pass'.todo]
  <2>1. CASE Pass' = Pass
    BY <1>2, <2>1 DEF SamePass
  <2>2. CASE \E t : Pass' = [Pass EXCEPT !.todo = t]
    <3> PICK t : Pass' = [Pass EXCEPT !.todo = t]
      BY <2>2
    <3>1. Pass' = [at |-> Pass.at, kind |-> Pass.kind, plan |-> Pass.plan, no |-> Pass.no,
              batch |-> Pass.batch, base |-> Pass.base, hold |-> Pass.hold, todo |-> t]
      BY <1>2
    <3> QED BY <3>1 DEF SamePass
  <2> QED BY <1>4, <2>1, <2>2
<1>6. Shapes'
  BY <1>1, <1>3, <1>5 DEF LinkInv, Shapes, SamePass
<1> QED BY <1>1, <1>5, <1>6, QuietStep

(* Discovery answers pending items only.                                   *)
LEMMA DiscoveryStep ==
  ASSUME LinkInv, \/ create_plan_items
                  \/ \E s \in Symbols : \E a \in Answers[s] : discover_company_listing(s, a)
                  \/ \E a \in FeedAnswers : discover_feed_window(a)
  PROVE  LinkInv'
<1>1. UNCHANGED <<capture, seen, holds, passes, proc>>
  BY DEF create_plan_items, discover_company_listing, discover_feed_window, Ingest,
         marketVars, issuerVars
<1>2. DOMAIN item = Keys /\ DOMAIN answer = Symbols /\ Symbols \subseteq Keys /\ Answered
  BY DEF LinkInv, Shapes, Keys
<1>3. DOMAIN item' = Keys /\ DOMAIN answer' = Symbols /\ FinalStays /\ Answered'
  <2>1. CASE create_plan_items
    BY <1>2, <2>1, NoneFacts DEF create_plan_items, FinalStays, Answered, FINAL
  <2>2. ASSUME NEW k \in Keys, NEW rows, NEW endpoint, NEW symbol, NEW lost,
               Ingest(k, rows, endpoint, symbol, lost), item[k] = "pending",
               DOMAIN answer' = Symbols,
               \A s \in Symbols : IF s = k THEN answer'[s] # None => rows # None
                                  ELSE answer'[s] = answer[s]
        PROVE  DOMAIN item' = Keys /\ FinalStays /\ Answered'
    <3>1. PICK result : /\ item' = [item EXCEPT ![k] = result]
                        /\ rows # None => result \in SUCCESS
      BY <2>2 DEF Ingest, RunStatus, SUCCESS
    <3>2. FinalStays
      BY <1>2, <2>2, <3>1, NoneFacts DEF FinalStays, FINAL, SUCCESS
    <3>3. Answered'
      BY <1>2, <2>2, <3>1 DEF Answered
    <3> QED BY <1>2, <3>1, <3>2, <3>3
  <2>3. ASSUME NEW s \in Symbols, NEW a \in Answers[s], discover_company_listing(s, a)
        PROVE  DOMAIN item' = Keys /\ DOMAIN answer' = Symbols /\ FinalStays /\ Answered'
    <3> PICK rows, lost : /\ Ingest(s, rows, Listing, s, lost)
                          /\ answer' = [answer EXCEPT ![s] = IF rows = None THEN None ELSE a]
      BY <2>3 DEF discover_company_listing
    <3>1. item[s] = "pending" /\ s \in Keys
      BY <1>2, <2>3 DEF discover_company_listing, Requestable
    <3>2. DOMAIN answer' = Symbols
          /\ \A t \in Symbols : IF t = s THEN answer'[t] # None => rows # None
                                ELSE answer'[t] = answer[t]
      BY <1>2
    <3> QED BY <2>2, <3>1, <3>2
  <2>4. ASSUME NEW a \in FeedAnswers, discover_feed_window(a)
        PROVE  DOMAIN item' = Keys /\ DOMAIN answer' = Symbols /\ FinalStays /\ Answered'
    <3>1. /\ Ingest(FeedKey, extract_feed_items(a), Feed, None, {})
          /\ item[FeedKey] = "pending" /\ FeedKey \in Keys /\ answer' = answer
      BY <2>4 DEF discover_feed_window, Requestable, Keys
    <3>2. \A t \in Symbols : t # FeedKey
      BY IssuerAssumption DEF FeedKey
    <3> QED BY <1>2, <2>2, <3>1, <3>2
  <2> QED BY <2>1, <2>3, <2>4
<1>4. /\ HoldsOK' /\ SamePass /\ Recorded' = Recorded /\ Seen("pass")' = Seen("pass")
      /\ HeldObs' = HeldObs /\ \A o : Unreleased(o)' <=> Unreleased(o)
  BY <1>1 DEF LinkInv, HoldsOK, SamePass, Pass, Recorded, Seen, HeldObs, Unreleased
<1>5. Shapes'
  BY <1>1, <1>3 DEF LinkInv, Shapes, Pass
<1> QED BY <1>1, <1>3, <1>4, <1>5, BesideThePass

(* A ruling keeps the observation of its hold and never takes a release    *)
(* back.                                                                   *)
LEMMA RulingStep ==
  ASSUME LinkInv, NEW h \in holds, NEW r \in {"acquire_evidence", "record_as_is", "keep_held"},
         resolve_hold_as_owner(h, r)
  PROVE  LinkInv'
<1> DEFINE new == [h EXCEPT !.resolution = r, !.released = @ \/ r # "keep_held"]
<1>1. /\ UNCHANGED <<item, answer, capture, seen, passes, proc>>
      /\ holds' = (holds \ {h}) \cup {new}
  BY DEF resolve_hold_as_owner, f1Vars, marketVars, issuerVars
<1>2. h = [o |-> h.o, resolution |-> h.resolution, released |-> h.released]
      /\ h.released \in BOOLEAN
  BY DEF LinkInv, Shapes
<1>3. PICK g : g = (h.released \/ r # "keep_held")
  OBVIOUS
<1>4. new = [h EXCEPT !.resolution = r, !.released = g]
  BY <1>3, Zenon
<1>5. g \in BOOLEAN /\ (~ g => ~ h.released /\ r = "keep_held")
  BY <1>2, <1>3
<1> HIDE DEF new
<1>6. new = [o |-> h.o, resolution |-> r, released |-> g]
  BY <1>2, <1>4
<1>7. /\ new.o = h.o /\ new.resolution = r /\ new.released \in BOOLEAN
      /\ new = [o |-> new.o, resolution |-> new.resolution, released |-> new.released]
      /\ ~ new.released => ~ h.released /\ r = "keep_held"
  BY <1>5, <1>6
<1>8. HoldsOK'
  BY <1>1, <1>7 DEF LinkInv, HoldsOK
<1>9. HeldObs' = HeldObs /\ \A o : Unreleased(o)' => Unreleased(o)
  BY <1>1, <1>7 DEF HeldObs, Unreleased
<1>10. /\ SamePass /\ Recorded' = Recorded /\ Seen("pass")' = Seen("pass")
      /\ FinalStays /\ Answered'
  BY <1>1 DEF LinkInv, SamePass, Pass, Recorded, Seen, FinalStays, Answered
<1>11. Shapes'
  BY <1>1, <1>7 DEF LinkInv, Shapes, Pass
<1> QED BY <1>1, <1>8, <1>9, <1>10, <1>11, BesideThePass

(* The manual command inserts in a transaction of its own.                 *)
LEMMA ManualStep ==
  ASSUME LinkInv, NEW bodies, link_issuers(bodies)
  PROVE  LinkInv'
<1>1. /\ UNCHANGED <<item, answer, capture, holds, passes>>
      /\ \E s : proc' = [proc EXCEPT !["shell"] = s]
      /\ \E obs : RecordAndResolve("shell", obs)
  BY DEF link_issuers, f1Vars, marketVars
<1>2. PICK obs : RecordAndResolve("shell", obs)
  BY <1>1
<1>3. /\ seen' = SeenWith(obs, "shell")
      /\ \A r \in seen : r.o \in obs => r.tx \in {None, "shell"}
  BY <1>2 DEF RecordAndResolve, NoWait
<1>4. Shapes /\ "shell" \in Procs
  BY NoneFacts DEF LinkInv
<1>5. /\ Recorded' = Recorded /\ Seen("pass") \subseteq Seen("pass")'
      /\ \A r \in seen' : /\ r = [o |-> r.o, tx |-> r.tx] /\ r.tx \in Procs \cup {None}
                          /\ r \notin seen => r.tx = "shell"
  BY <1>3, <1>4, InsertRows
<1>6. Pass' = Pass /\ DOMAIN proc' = Procs
  BY <1>1, <1>4, NoneFacts DEF Shapes, Pass
<1>7. /\ HoldsOK' /\ HeldObs' = HeldObs /\ \A o : Unreleased(o)' => Unreleased(o)
  BY <1>1 DEF LinkInv, HoldsOK, HeldObs, Unreleased
<1>8. SamePass /\ FinalStays /\ Answered'
  BY <1>1, <1>6 DEF LinkInv, SamePass, FinalStays, Answered
<1>9. Shapes'
  BY <1>1, <1>4, <1>5, <1>6 DEF Shapes
<1> QED BY <1>1, <1>5, <1>7, <1>8, <1>9, BesideThePass

(* The end of another writer's transaction.                                *)
LEMMA OtherEnds ==
  ASSUME LinkInv, NEW p \in Procs, p # "pass", Commit(p) \/ Crash(p)
  PROVE  LinkInv'
<1>1. /\ UNCHANGED <<item, answer, capture, holds, passes>>
      /\ proc' = [proc EXCEPT ![p] = Idle]
      /\ commit(p) \/ rollback(p)
  BY DEF Commit, Crash, f1Vars, marketVars
<1>2. Shapes /\ "pass" \in Procs
  BY NoneFacts DEF LinkInv
<1>3. /\ Recorded \subseteq Recorded' /\ Seen("pass") \subseteq Seen("pass")'
      /\ \A r \in seen' : /\ r = [o |-> r.o, tx |-> r.tx] /\ r.tx \in Procs \cup {None}
                          /\ r.tx = "pass" => r \in seen
  <2>1. CASE commit(p)
    <3>1. Recorded \subseteq Seen(p)
      BY DEF Recorded, Seen
    <3> QED BY <1>2, <2>1, <3>1, CommitRows
  <2>2. CASE rollback(p)
    <3>1. \A r \in seen : r = [o |-> r.o, tx |-> r.tx] /\ r.tx \in Procs \cup {None}
      BY <1>2 DEF Shapes
    <3> QED BY <1>2, <2>2, <3>1, RollbackRows
  <2> QED BY <1>1, <2>1, <2>2
<1>4. Pass' = Pass /\ DOMAIN proc' = Procs
  BY <1>1, <1>2 DEF Shapes, Pass
<1>5. /\ HoldsOK' /\ HeldObs' = HeldObs /\ \A o : Unreleased(o)' => Unreleased(o)
  BY <1>1 DEF LinkInv, HoldsOK, HeldObs, Unreleased
<1>6. SamePass /\ FinalStays /\ Answered'
  BY <1>1, <1>4 DEF LinkInv, SamePass, FinalStays, Answered
<1>7. Shapes'
  BY <1>1, <1>2, <1>3, <1>4 DEF Shapes
<1> QED BY <1>1, <1>3, <1>5, <1>6, <1>7, BesideThePass

-----------------------------------------------------------------------------
(* The steps of the pass                                                   *)

PassRecord(l) ==
  l = [at |-> l.at, kind |-> l.kind, plan |-> l.plan, no |-> l.no,
       batch |-> l.batch, base |-> l.base, hold |-> l.hold, todo |-> l.todo]

(* A step that moves the pass, with what it must show of the new place.    *)
LEMMA PassMoves ==
  ASSUME LinkInv, NEW l, proc' = [proc EXCEPT !["pass"] = l], PassRecord(l), l.at \in PassSteps,
         UNCHANGED <<item, answer, capture>>,
         \A r \in seen' : r = [o |-> r.o, tx |-> r.tx] /\ r.tx \in Procs \cup {None},
         \A h \in holds' : h = [o |-> h.o, resolution |-> h.resolution,
                                released |-> h.released] /\ h.released \in BOOLEAN,
         \A q \in passes' : q = [kind |-> q.kind, plan |-> q.plan, no |-> q.no,
                                 done |-> q.done] /\ q.done \in BOOLEAN,
         HoldsOK', PassClosed', DoneClosed', OpenRows', Holding'
  PROVE  LinkInv'
<1>1. Pass' = l /\ DOMAIN proc' = Procs
  BY NoneFacts DEF LinkInv, Shapes, Pass
<1>2. Shapes'
  BY <1>1 DEF LinkInv, Shapes, PassRecord
<1>3. Answered'
  BY DEF LinkInv, Answered
<1> QED BY <1>2, <1>3 DEF LinkInv

(* A pass that begins holds back every observation it must, and a closure  *)
(* pass has all that the answers of its plan say.                          *)
LEMMA BeginStep ==
  ASSUME LinkInv, NEW kind, NEW plan, NEW no, NEW batch, Begin(kind, plan, no, batch),
         kind = "ie4" => PlanSafe(item, answer, plan, batch)
  PROVE  LinkInv'
<1> DEFINE hold == Held(Recorded, batch)
           l == [at |-> "hold", kind |-> kind, plan |-> plan, no |-> no, base |-> Recorded,
                 batch |-> batch, hold |-> hold, todo |-> {}]
           new == [kind |-> kind, plan |-> plan, no |-> no, done |-> FALSE]
<1>1. /\ UNCHANGED <<item, answer, capture, seen, holds>>
      /\ Pass.at = "idle" /\ passes' = passes \cup {new}
      /\ proc' = [proc EXCEPT !["pass"] = l]
  BY DEF Begin, f1Vars, marketVars, issuerVars
<1>2. /\ PassRecord(l) /\ l.at = "hold" /\ l.kind = kind /\ l.plan = plan
      /\ l.base = Recorded /\ l.batch = batch /\ l.hold = hold
  BY DEF PassRecord
<1>3. new = [kind |-> new.kind, plan |-> new.plan, no |-> new.no, done |-> new.done]
      /\ new.done = FALSE
  OBVIOUS
<1> HIDE DEF l, new
<1>4. Pass' = l
  BY <1>1, NoneFacts DEF LinkInv, Shapes, Pass
<1>5. Recorded' = Recorded /\ HeldObs' = HeldObs /\ Kept' = Kept
      /\ \A o : Unreleased(o)' <=> Unreleased(o)
  BY <1>1 DEF Recorded, Seen, HeldObs, Kept, Unreleased
<1>6. HoldsOK'
  BY <1>1 DEF LinkInv, HoldsOK
<1>7. FinalStays
  BY <1>1 DEF FinalStays
<1>8. PassClosed'
  <2> SUFFICES ASSUME kind = "ie4"
               PROVE  PlanSafe(item', answer', plan, InHand')
    BY <1>2, <1>4 DEF PassClosed
  <2>1. batch \subseteq InHand'
    BY <1>2, <1>4 DEF InHand
  <2> QED BY <1>7, <2>1, SafeGrows
<1>9. DoneClosed'
  <2> SUFFICES ASSUME NEW q \in passes, q.kind = "ie4", q.done
               PROVE  PlanSafe(item', answer', q.plan, Kept')
    BY <1>1, <1>3 DEF DoneClosed
  <2>1. PlanSafe(item, answer, q.plan, Kept)
    BY DEF LinkInv, DoneClosed
  <2> QED BY <1>5, <1>7, <2>1, SafeGrows
<1>10. OpenRows'
  BY <1>1 DEF LinkInv, OpenRows
<1>11. Holding'
  <2>1. ASSUME NEW o \in batch \ hold, Unreleased(o)
        PROVE  FALSE
    <3>1. o \in owner_held
      BY <2>1 DEF LinkInv, HoldsOK, Unreleased, owner_held
    <3> QED BY <2>1, <3>1 DEF Held
  <2>2. batch \ hold = Left(Recorded, batch \ owner_held)
    BY HeldLeaves
  <2> HIDE DEF hold
  <2> QED BY <1>2, <1>4, <1>5, <2>1, <2>2 DEF Holding
<1>12. /\ \A r \in seen' : r = [o |-> r.o, tx |-> r.tx] /\ r.tx \in Procs \cup {None}
       /\ \A h \in holds' : h = [o |-> h.o, resolution |-> h.resolution,
                                 released |-> h.released] /\ h.released \in BOOLEAN
       /\ \A q \in passes' : q = [kind |-> q.kind, plan |-> q.plan, no |-> q.no,
                                  done |-> q.done] /\ q.done \in BOOLEAN
  BY <1>1, <1>3 DEF LinkInv, Shapes
<1>13. l.at \in PassSteps
  BY <1>2 DEF PassSteps
<1> QED BY <1>1, <1>2, <1>6, <1>8, <1>9, <1>10, <1>11, <1>12, <1>13, PassMoves

(* The closure pass begins when the plan is closed, and then reads all.    *)
LEMMA ClosureReadsAll ==
  ASSUME LinkInv, Plan # None, closed
  PROVE  PlanSafe(item, answer, Plan, ie4_batch)
<1>1. Plan = {r.symbol : r \in {x \in capture.results :
                                  x.company /\ x.symbol \in capture.body}}
      /\ capture # None
  BY DEF Plan, status
<1>2. Plan \subseteq Symbols
  BY <1>1, IssuerAssumption DEF LinkInv, Shapes
<1>3. \A s \in Plan : item[s] \in FINAL
  BY DEF closed, PlanKeys
<1>4. ASSUME NEW s \in Plan, answer[s] # None
      PROVE  Sightings(answer, s) \subseteq ie4_batch
  <2>1. s \in Symbols /\ item[s] \in SUCCESS
    BY <1>2, <1>4 DEF LinkInv, Answered
  <2> QED BY <2>1 DEF ie4_batch, Sightings
<1> QED BY <1>2, <1>3, <1>4 DEF PlanSafe

LEMMA PassBegins ==
  ASSUME LinkInv, identity_pass \/ closure_pass \/ late_pass
  PROVE  LinkInv'
<1>1. CASE identity_pass
  BY <1>1, BeginStep DEF identity_pass
<1>2. CASE closure_pass
  BY <1>2, BeginStep, ClosureReadsAll DEF closure_pass
<1>3. CASE late_pass
  BY <1>3, BeginStep DEF late_pass
<1> QED BY <1>1, <1>2, <1>3

(* A hold is committed before the observation leaves the batch.            *)
LEMMA HoldStep ==
  ASSUME LinkInv, NEW o \in Pass.hold, record_hold(o)
  PROVE  LinkInv'
<1> DEFINE l == [Pass EXCEPT !.hold = @ \ {o}, !.batch = @ \ {o}]
           new == [o |-> o, resolution |-> None, released |-> FALSE]
<1>1. /\ UNCHANGED <<item, answer, capture, seen, passes>>
      /\ Pass.at = "hold" /\ proc' = [proc EXCEPT !["pass"] = l]
      /\ \/ holds' = holds /\ \E h \in holds : h.o = o
         \/ holds' = holds \cup {new} /\ \A h \in holds : h.o # o
  BY DEF record_hold, To, f1Vars, marketVars, issuerVars
<1>2. PassRecord(Pass)
  BY DEF LinkInv, Shapes, PassRecord
<1>3. l = [at |-> Pass.at, kind |-> Pass.kind, plan |-> Pass.plan, no |-> Pass.no,
           batch |-> Pass.batch \ {o}, base |-> Pass.base, hold |-> Pass.hold \ {o},
           todo |-> Pass.todo]
  <2>1. PICK a, k, pl, n, b, s, d, t :
          Pass = [at |-> a, kind |-> k, plan |-> pl, no |-> n, batch |-> b, base |-> s,
                  hold |-> d, todo |-> t]
    BY <1>2 DEF PassRecord
  <2>2. l = [at |-> a, kind |-> k, plan |-> pl, no |-> n, batch |-> b \ {o}, base |-> s,
             hold |-> d \ {o}, todo |-> t]
    <3>1. Pass.hold = d /\ Pass.batch = b
      BY <2>1
    <3>2. l = [Pass EXCEPT !.hold = d \ {o}, !.batch = b \ {o}]
      BY <3>1
    <3>3. [Pass EXCEPT !.hold = d \ {o}] =
            [at |-> a, kind |-> k, plan |-> pl, no |-> n, batch |-> b, base |-> s,
             hold |-> d \ {o}, todo |-> t]
      BY <2>1
    <3>4. l = [[Pass EXCEPT !.hold = d \ {o}] EXCEPT !.batch = b \ {o}]
      BY <3>2
    <3> HIDE DEF l
    <3> QED BY <3>3, <3>4
  <2> QED BY <2>1, <2>2
<1> HIDE DEF l
<1>4. /\ PassRecord(l) /\ l.at = "hold" /\ l.kind = Pass.kind /\ l.plan = Pass.plan
      /\ l.base = Pass.base /\ l.batch = Pass.batch \ {o} /\ l.hold = Pass.hold \ {o}
  BY <1>1, <1>3 DEF PassRecord
<1>5. Pass' = l
  BY <1>1, NoneFacts DEF LinkInv, Shapes, Pass
<1>6. /\ new.o = o /\ new.resolution = None /\ new.released = FALSE
      /\ new = [o |-> new.o, resolution |-> new.resolution, released |-> new.released]
  OBVIOUS
<1> HIDE DEF new
<1>7. HeldObs' = HeldObs \cup {o}
  BY <1>1, <1>6 DEF HeldObs
<1>8. Recorded' = Recorded
  BY <1>1 DEF Recorded, Seen
<1>9. Kept \subseteq Kept'
  BY <1>7, <1>8 DEF Kept
<1>10. HoldsOK'
  BY <1>1, <1>6 DEF LinkInv, HoldsOK
<1>11. FinalStays
  BY <1>1 DEF FinalStays
<1>12. PassClosed'
  <2> SUFFICES ASSUME Pass.kind = "ie4"
               PROVE  PlanSafe(item', answer', Pass.plan, InHand')
    BY <1>4, <1>5 DEF PassClosed
  <2>1. PlanSafe(item, answer, Pass.plan, InHand)
    BY <1>1 DEF LinkInv, PassClosed
  <2>2. InHand \subseteq InHand'
    BY <1>1, <1>4, <1>5, <1>7 DEF InHand
  <2> QED BY <1>11, <2>1, <2>2, SafeGrows
<1>13. DoneClosed'
  <2> SUFFICES ASSUME NEW q \in passes, q.kind = "ie4", q.done
               PROVE  PlanSafe(item', answer', q.plan, Kept')
    BY <1>1 DEF DoneClosed
  <2>1. PlanSafe(item, answer, q.plan, Kept)
    BY DEF LinkInv, DoneClosed
  <2> QED BY <1>9, <1>11, <2>1, SafeGrows
<1>14. OpenRows'
  BY <1>1 DEF LinkInv, OpenRows
<1>15. Holding'
  <2>1. \A x : x # o /\ Unreleased(x)' => Unreleased(x)
    BY <1>1, <1>6 DEF Unreleased
  <2>2. l.batch \ l.hold = Pass.batch \ Pass.hold /\ o \notin l.batch
    BY <1>4
  <2> QED BY <1>1, <1>4, <1>5, <2>1, <2>2 DEF LinkInv, Holding
<1>16. /\ \A r \in seen' : r = [o |-> r.o, tx |-> r.tx] /\ r.tx \in Procs \cup {None}
       /\ \A h \in holds' : h = [o |-> h.o, resolution |-> h.resolution,
                                 released |-> h.released] /\ h.released \in BOOLEAN
       /\ \A q \in passes' : q = [kind |-> q.kind, plan |-> q.plan, no |-> q.no,
                                  done |-> q.done] /\ q.done \in BOOLEAN
  BY <1>1, <1>6 DEF LinkInv, Shapes
<1>17. l.at \in PassSteps
  BY <1>4 DEF PassSteps
<1> QED BY <1>1, <1>4, <1>10, <1>12, <1>13, <1>14, <1>15, <1>16, <1>17, PassMoves

(* A step that ends, or moves the pass past its holds, and lets go of      *)
(* nothing that it had in hand.                                            *)
LEMMA PassWrites ==
  ASSUME LinkInv, NEW l, proc' = [proc EXCEPT !["pass"] = l], PassRecord(l),
         l.at \in PassSteps, l.at # "hold",
         UNCHANGED <<item, answer, capture, holds, passes>>,
         \A r \in seen' : r = [o |-> r.o, tx |-> r.tx] /\ r.tx \in Procs \cup {None},
         Recorded \subseteq Recorded', OpenRows',
         l.at # "idle" => /\ Pass.at # "idle" /\ l.kind = Pass.kind /\ l.plan = Pass.plan
                          /\ InHand \subseteq InHand'
  PROVE  LinkInv'
<1>1. Pass' = l
  BY NoneFacts DEF LinkInv, Shapes, Pass
<1>2. Kept \subseteq Kept'
  BY DEF Kept, HeldObs
<1>3. FinalStays /\ HoldsOK'
  BY DEF LinkInv, FinalStays, HoldsOK
<1>4. PassClosed'
  <2> SUFFICES ASSUME l.at # "idle", Pass.kind = "ie4"
               PROVE  PlanSafe(item', answer', Pass.plan, InHand')
    BY <1>1 DEF PassClosed
  <2>1. PlanSafe(item, answer, Pass.plan, InHand)
    BY DEF LinkInv, PassClosed
  <2> QED BY <1>3, <2>1, SafeGrows
<1>5. DoneClosed'
  <2> SUFFICES ASSUME NEW q \in passes, q.kind = "ie4", q.done
               PROVE  PlanSafe(item', answer', q.plan, Kept')
    BY DEF DoneClosed
  <2>1. PlanSafe(item, answer, q.plan, Kept)
    BY DEF LinkInv, DoneClosed
  <2> QED BY <1>2, <1>3, <2>1, SafeGrows
<1>6. Holding'
  BY <1>1 DEF Holding
<1>7. /\ \A h \in holds' : h = [o |-> h.o, resolution |-> h.resolution,
                                 released |-> h.released] /\ h.released \in BOOLEAN
      /\ \A q \in passes' : q = [kind |-> q.kind, plan |-> q.plan, no |-> q.no,
                                 done |-> q.done] /\ q.done \in BOOLEAN
  BY DEF LinkInv, Shapes
<1> QED BY <1>3, <1>4, <1>5, <1>6, <1>7, PassMoves

(* Where the pass goes.                                                    *)
Moved(to) == [Pass EXCEPT !.at = to]
MovedWith(to, todo) == [Pass EXCEPT !.at = to, !.todo = todo]

LEMMA Onward ==
  ASSUME LinkInv, NEW to, NEW todo
  PROVE  /\ PassRecord(Moved(to)) /\ Moved(to).at = to
         /\ Moved(to).kind = Pass.kind /\ Moved(to).plan = Pass.plan
         /\ PassRecord(MovedWith(to, todo)) /\ MovedWith(to, todo).at = to
         /\ MovedWith(to, todo).kind = Pass.kind /\ MovedWith(to, todo).plan = Pass.plan
<1> DEFINE one == [Pass EXCEPT !.at = to]
           two == [Pass EXCEPT !.at = to, !.todo = todo]
<1>1. Pass = [at |-> Pass.at, kind |-> Pass.kind, plan |-> Pass.plan, no |-> Pass.no,
              batch |-> Pass.batch, base |-> Pass.base, hold |-> Pass.hold,
              todo |-> Pass.todo]
  BY DEF LinkInv, Shapes
<1>2. one = [at |-> to, kind |-> Pass.kind, plan |-> Pass.plan, no |-> Pass.no,
             batch |-> Pass.batch, base |-> Pass.base, hold |-> Pass.hold,
             todo |-> Pass.todo]
  BY <1>1
<1>3. two = [one EXCEPT !.todo = todo]
  OBVIOUS
<1> HIDE DEF one, two
<1>4. two = [at |-> to, kind |-> Pass.kind, plan |-> Pass.plan, no |-> Pass.no,
             batch |-> Pass.batch, base |-> Pass.base, hold |-> Pass.hold, todo |-> todo]
  BY <1>2, <1>3
<1>5. /\ PassRecord(one) /\ one.at = to /\ one.kind = Pass.kind /\ one.plan = Pass.plan
  BY <1>2 DEF PassRecord
<1>6. PassRecord(two) /\ two.at = to /\ two.kind = Pass.kind /\ two.plan = Pass.plan
  BY <1>4 DEF PassRecord
<1>7. Moved(to) = one /\ MovedWith(to, todo) = two
  BY DEF Moved, MovedWith, one, two
<1> QED BY <1>5, <1>6, <1>7

(* The batch is recorded, in a transaction still open.                     *)
LEMMA RecordStep ==
  ASSUME LinkInv, record_batch
  PROVE  LinkInv'
<1> DEFINE l == Moved("recorded")
<1>1. /\ UNCHANGED <<item, answer, capture, holds, passes>> /\ Pass.at = "hold"
      /\ proc' = [proc EXCEPT !["pass"] = l]
      /\ seen' = SeenWith(Pass.batch, "pass")
      /\ \A r \in seen : r.o \in Pass.batch => r.tx \in {None, "pass"}
  BY DEF record_batch, RecordAndResolve, NoWait, To, Moved, f1Vars, marketVars
<1>2. PassRecord(l) /\ l.at = "recorded" /\ l.kind = Pass.kind /\ l.plan = Pass.plan
  BY Onward
<1> HIDE DEF l
<1>3. Pass' = l
  BY <1>1, NoneFacts DEF LinkInv, Shapes, Pass
<1>4. /\ Recorded' = Recorded /\ Pass.batch \subseteq Seen("pass")'
      /\ \A r \in seen' : r = [o |-> r.o, tx |-> r.tx] /\ r.tx \in Procs \cup {None}
  <2>1. Shapes /\ "pass" \in Procs
    BY NoneFacts DEF LinkInv
  <2> QED BY <1>1, <2>1, InsertRows
<1>5. InHand \subseteq InHand'
  BY <1>1, <1>2, <1>3, <1>4 DEF InHand, HeldObs
<1>6. OpenRows' /\ l.at \in PassSteps
  BY <1>2, <1>3 DEF OpenRows, PassSteps
<1> QED BY <1>1, <1>2, <1>4, <1>5, <1>6, PassWrites

(* What the owner let go is recorded, or the securities resolved again.    *)
LEMMA LateWrites ==
  ASSUME LinkInv, apply_resolutions \/ resolve_securities
  PROVE  LinkInv'
<1> PICK to : to = IF apply_resolutions THEN "applied" ELSE "resolved"
  OBVIOUS
<1> PICK obs : obs = IF apply_resolutions THEN ToApply(Recorded) ELSE {}
  OBVIOUS
<1> DEFINE l == Moved(to)
<1>1. /\ UNCHANGED <<item, answer, capture, holds, passes>>
      /\ Pass.at \in {"resolutions", "resolve"} /\ to \in {"applied", "resolved"}
      /\ proc' = [proc EXCEPT !["pass"] = l]
      /\ seen' = SeenWith(obs, "pass")
      /\ \A r \in seen : r.o \in obs => r.tx \in {None, "pass"}
  BY DEF apply_resolutions, resolve_securities, RecordAndResolve, NoWait, To, Moved,
         f1Vars, marketVars
<1>2. PassRecord(l) /\ l.at = to /\ l.kind = Pass.kind /\ l.plan = Pass.plan
  BY Onward
<1> HIDE DEF l
<1>3. Pass' = l
  BY <1>1, NoneFacts DEF LinkInv, Shapes, Pass
<1>4. /\ Recorded' = Recorded
      /\ \A r \in seen' : r = [o |-> r.o, tx |-> r.tx] /\ r.tx \in Procs \cup {None}
  <2>1. Shapes /\ "pass" \in Procs
    BY NoneFacts DEF LinkInv
  <2> QED BY <1>1, <2>1, InsertRows
<1>5. InHand \subseteq InHand'
  BY <1>1, <1>2, <1>3, <1>4 DEF InHand, HeldObs, Kept
<1>6. OpenRows' /\ l.at \in PassSteps /\ l.at # "hold" /\ Pass.at # "idle"
  BY <1>1, <1>2, <1>3 DEF OpenRows, PassSteps
<1> QED BY <1>1, <1>2, <1>4, <1>5, <1>6, PassWrites

(* A commit of the pass: what it recorded is recorded for everyone.        *)
LEMMA CommitStep ==
  ASSUME LinkInv, CommitPass
  PROVE  LinkInv'
<1>1. /\ UNCHANGED <<item, answer, capture, holds, passes>> /\ commit("pass")
      /\ Pass.at \in {"recorded", "applied", "resolved", "link"}
      /\ \E to \in {"resolutions", "resolve", "link", "done"} : \E todo :
           \/ proc' = [proc EXCEPT !["pass"] = Moved(to)]
           \/ proc' = [proc EXCEPT !["pass"] = MovedWith(to, todo)]
  BY DEF CommitPass, To, Moved, MovedWith, f1Vars, marketVars
<1>2. PICK l : /\ proc' = [proc EXCEPT !["pass"] = l]
               /\ PassRecord(l) /\ l.at \in {"resolutions", "resolve", "link", "done"}
               /\ l.kind = Pass.kind /\ l.plan = Pass.plan
  <2>1. PICK to, todo :
          /\ to \in {"resolutions", "resolve", "link", "done"}
          /\ \/ proc' = [proc EXCEPT !["pass"] = Moved(to)]
             \/ proc' = [proc EXCEPT !["pass"] = MovedWith(to, todo)]
    BY <1>1
  <2> QED BY <2>1, Onward
<1>3. Pass' = l
  BY <1>2, NoneFacts DEF LinkInv, Shapes, Pass
<1>4. /\ Recorded' = Seen("pass")
      /\ \A r \in seen' : /\ r = [o |-> r.o, tx |-> r.tx] /\ r.tx \in Procs \cup {None}
                          /\ r.tx # "pass"
  <2>1. Shapes /\ "pass" \in Procs
    BY NoneFacts DEF LinkInv
  <2> QED BY <1>1, <2>1, CommitRows
<1>5. Recorded \subseteq Recorded'
  BY <1>4 DEF Recorded, Seen
<1>6. InHand \subseteq InHand'
  BY <1>1, <1>2, <1>3, <1>4, <1>5 DEF InHand, HeldObs, Kept
<1>7. OpenRows' /\ l.at \in PassSteps /\ l.at # "hold" /\ Pass.at # "idle"
  BY <1>1, <1>2, <1>4 DEF OpenRows, PassSteps
<1> QED BY <1>1, <1>2, <1>4, <1>5, <1>6, <1>7, PassWrites

(* The pass dies: its transaction is lost, what it had committed is not.   *)
LEMMA PassDies ==
  ASSUME LinkInv, Crash("pass")
  PROVE  LinkInv'
<1>1. /\ UNCHANGED <<item, answer, capture, holds, passes>> /\ rollback("pass")
      /\ proc' = [proc EXCEPT !["pass"] = Idle]
  BY DEF Crash, f1Vars, marketVars
<1>2. PassRecord(Idle) /\ Idle.at = "idle"
  BY DEF Idle, PassRecord
<1>3. /\ Recorded' = Recorded
      /\ \A r \in seen' : r \in seen /\ r.tx # "pass"
  <2>1. Shapes /\ "pass" \in Procs
    BY NoneFacts DEF LinkInv
  <2> QED BY <1>1, <2>1, RollbackRows
<1>4. \A r \in seen' : r = [o |-> r.o, tx |-> r.tx] /\ r.tx \in Procs \cup {None}
  BY <1>3 DEF LinkInv, Shapes
<1>5. OpenRows' /\ Idle.at \in PassSteps
  BY <1>2, <1>3 DEF OpenRows, PassSteps
<1> QED BY <1>1, <1>2, <1>3, <1>4, <1>5, PassWrites

(* A pass that finishes marks its own item, and by then everything it had  *)
(* in hand is recorded or held.                                            *)
LEMMA FinishStep ==
  ASSUME LinkInv, Finish
  PROVE  LinkInv'
<1> DEFINE mine(q) == q.kind = Pass.kind /\ q.plan = Pass.plan /\ q.no = Pass.no
           marked(q) == IF mine(q) THEN [q EXCEPT !.done = TRUE] ELSE q
<1>1. /\ UNCHANGED <<item, answer, capture, seen, holds>> /\ Pass.at = "done"
      /\ passes' = {marked(q) : q \in passes}
      /\ proc' = [proc EXCEPT !["pass"] = Idle]
  BY DEF Finish, To, f1Vars, marketVars, issuerVars
<1>2. \A q \in passes : q = [kind |-> q.kind, plan |-> q.plan, no |-> q.no,
                             done |-> q.done] /\ q.done \in BOOLEAN
  BY DEF LinkInv, Shapes
<1>3. ASSUME NEW q \in passes
      PROVE  /\ marked(q) = [kind |-> q.kind, plan |-> q.plan, no |-> q.no,
                             done |-> marked(q).done]
             /\ marked(q).kind = q.kind /\ marked(q).plan = q.plan /\ marked(q).no = q.no
             /\ marked(q).done \in BOOLEAN
             /\ ~ mine(q) => marked(q).done = q.done
  <2>1. CASE mine(q)
    <3>1. [q EXCEPT !.done = TRUE] = [kind |-> q.kind, plan |-> q.plan, no |-> q.no,
                                      done |-> TRUE]
      <4>1. q = [kind |-> q.kind, plan |-> q.plan, no |-> q.no, done |-> q.done]
        BY <1>2
      <4>2. PICK yes : yes = TRUE
        OBVIOUS
      <4>3. [q EXCEPT !.done = yes] = [kind |-> q.kind, plan |-> q.plan, no |-> q.no,
                                       done |-> yes]
        BY <4>1
      <4> QED BY <4>2, <4>3, Zenon
    <3> HIDE DEF mine
    <3>2. marked(q) = [kind |-> q.kind, plan |-> q.plan, no |-> q.no, done |-> TRUE]
      BY <2>1, <3>1
    <3> HIDE DEF marked
    <3> QED BY <2>1, <3>2
  <2>2. CASE ~ mine(q)
    <3>1. marked(q) = q
      BY <2>2
    <3> HIDE DEF marked
    <3> QED BY <1>2, <2>2, <3>1
  <2> QED BY <2>1, <2>2
<1>4. Pass' = Idle
  BY <1>1, NoneFacts DEF LinkInv, Shapes, Pass
<1>5. PassRecord(Idle) /\ Idle.at = "idle"
  BY DEF Idle, PassRecord
<1>6. Kept' = Kept /\ HoldsOK' /\ FinalStays
  BY <1>1 DEF LinkInv, Kept, Recorded, Seen, HeldObs, HoldsOK, FinalStays
<1> HIDE DEF marked
<1>7. DoneClosed'
  <2> SUFFICES ASSUME NEW q \in passes, marked(q).kind = "ie4", marked(q).done
               PROVE  PlanSafe(item', answer', marked(q).plan, Kept')
    BY <1>1 DEF DoneClosed
  <2>1. q.kind = "ie4" /\ marked(q).plan = q.plan
    BY <1>3
  <2>2. CASE mine(q)
    <3>1. PlanSafe(item, answer, q.plan, InHand) /\ InHand = Kept
      BY <1>1, <2>1, <2>2 DEF LinkInv, PassClosed, InHand
    <3> QED BY <1>6, <2>1, <3>1, SafeGrows
  <2>3. CASE ~ mine(q)
    <3>1. q.done
      BY <1>3, <2>3
    <3>2. PlanSafe(item, answer, q.plan, Kept)
      BY <2>1, <3>1 DEF LinkInv, DoneClosed
    <3> QED BY <1>6, <2>1, <3>2, SafeGrows
  <2> QED BY <2>2, <2>3
<1>8. PassClosed' /\ Holding' /\ Idle.at \in PassSteps
  BY <1>4, <1>5 DEF PassClosed, Holding, PassSteps
<1>9. OpenRows'
  BY <1>1 DEF LinkInv, OpenRows
<1>10. /\ \A r \in seen' : r = [o |-> r.o, tx |-> r.tx] /\ r.tx \in Procs \cup {None}
       /\ \A h \in holds' : h = [o |-> h.o, resolution |-> h.resolution,
                                 released |-> h.released] /\ h.released \in BOOLEAN
  BY <1>1 DEF LinkInv, Shapes
<1>11. \A q \in passes' : q = [kind |-> q.kind, plan |-> q.plan, no |-> q.no,
                               done |-> q.done] /\ q.done \in BOOLEAN
  BY <1>1, <1>3
<1> QED BY <1>1, <1>5, <1>6, <1>7, <1>8, <1>9, <1>10, <1>11, PassMoves

LEMMA InitInv ==
  ASSUME Init
  PROVE  LinkInv
<1>1. Pass = Idle
  BY NoneFacts DEF Init, Pass
<1>2. PassRecord(Idle) /\ Idle.at = "idle"
  BY DEF Idle, PassRecord
<1>3. Shapes
  BY <1>1, <1>2 DEF Init, Shapes, PassRecord, PassSteps
<1> QED BY <1>1, <1>2, <1>3 DEF Init, LinkInv, Answered, HoldsOK, PassClosed, DoneClosed,
           OpenRows, Holding

LEMMA NextInv ==
  ASSUME LinkInv, [Next]_vars
  PROVE  LinkInv'
<1>1. CASE PassStep
  BY <1>1, PassBegins, HoldStep, RecordStep, LateWrites, LinkStep, CommitStep, FinishStep
     DEF PassStep
<1>2. ASSUME NEW p \in Procs, Commit(p) \/ Crash(p)
      PROVE  LinkInv'
  <2>1. CASE p = "pass"
    BY <1>2, <2>1, PassDies DEF Commit
  <2>2. CASE p # "pass"
    BY <1>2, <2>2, OtherEnds
  <2> QED BY <2>1, <2>2
<1> QED BY <1>1, <1>2, MarketStep, DiscoveryStep, RulingStep, ManualStep, LinkStep DEF Next

(* What holds, what answers say, what a pass has in hand: the inductive    *)
(* invariant of the link passes.                                           *)
THEOREM Invariance == Spec => []LinkInv
<1>1. Init => LinkInv
  BY InitInv
<1>2. LinkInv /\ [Next]_vars => LinkInv'
  BY NextInv
<1> QED BY <1>1, <1>2, PTL DEF Spec

(* A plan whose closure pass succeeded lost no sighting of its listings:   *)
(* each is recorded or held, whatever crashed in between and whoever else  *)
(* recorded (closure_pass, record_batch).                                  *)
THEOREM ClosedPlansKeepAll == Spec => []ClosureLosesNothing
<1>1. LinkInv => ClosureLosesNothing
  BY DEF LinkInv, DoneClosed, PlanSafe, Sightings, Kept, HeldObs, ClosureLosesNothing
<1> QED BY <1>1, Invariance, PTL

-----------------------------------------------------------------------------
(* What a pass records                                                     *)

(* Only two steps of the pass insert observations, and neither inserts one *)
(* the owner has not released.                                             *)
LEMMA RecordsReleasedOnly ==
  ASSUME LinkInv, [Next]_vars, NEW r \in seen' \ seen, r.tx = "pass"
  PROVE  ~ Unreleased(r.o)
<1>1. Shapes /\ "pass" \in Procs /\ "shell" # "pass"
  BY NoneFacts DEF LinkInv
<1>2. CASE record_batch
  <2>1. /\ Pass.at = "hold" /\ Pass.hold = {} /\ seen' = SeenWith(Pass.batch, "pass")
        /\ \A x \in seen : x.o \in Pass.batch => x.tx \in {None, "pass"}
    BY <1>2 DEF record_batch, RecordAndResolve, NoWait
  <2>2. r.o \in Pass.batch
    BY <1>1, <2>1, InsertRows
  <2> QED BY <2>1, <2>2 DEF LinkInv, Holding
<1>3. CASE apply_resolutions
  <2>1. /\ seen' = SeenWith(ToApply(Recorded), "pass")
        /\ \A x \in seen : x.o \in ToApply(Recorded) => x.tx \in {None, "pass"}
    BY <1>3 DEF apply_resolutions, NoWait
  <2>2. r.o \in ToApply(Recorded)
    BY <1>1, <2>1, InsertRows
  <2>3. PICK h \in holds : h.o = r.o /\ h.resolution \in {"record_as_is", "acquire_evidence"}
    BY <2>2 DEF ToApply
  <2>4. h.resolution \notin {None, "keep_held"}
    BY <2>3, NoneFacts
  <2> QED BY <2>3, <2>4 DEF LinkInv, HoldsOK, Unreleased
<1>4. CASE resolve_securities
  <2>1. /\ seen' = SeenWith({}, "pass")
    BY <1>4 DEF resolve_securities, RecordAndResolve
  <2> QED BY <2>1 DEF SeenWith
<1>5. ASSUME NEW bodies, link_issuers(bodies)
      PROVE  FALSE
  <2>1. PICK obs : RecordAndResolve("shell", obs)
    BY <1>5 DEF link_issuers
  <2> QED BY <1>1, <2>1 DEF RecordAndResolve, SeenWith
<1>6. ASSUME NEW p \in Procs, commit(p) \/ rollback(p)
      PROVE  FALSE
  BY <1>1, <1>6, CommitRows, RollbackRows
<1>7. CASE CommitPass \/ \E p \in Procs : Commit(p) \/ Crash(p)
  BY <1>1, <1>6, <1>7 DEF CommitPass, Commit, Crash
<1>8. CASE UNCHANGED seen
  BY <1>8
<1>9. CASE PassStep
  <2>1. CASE identity_pass \/ closure_pass \/ late_pass
    BY <1>8, <2>1 DEF identity_pass, closure_pass, late_pass, Begin, issuerVars
  <2>2. CASE (\E o \in Pass.hold : record_hold(o)) \/ link_window \/ Finish
    BY <1>8, <2>2 DEF record_hold, link_window, Finish, issuerVars
  <2> QED BY <1>2, <1>3, <1>4, <1>7, <1>9, <2>1, <2>2 DEF PassStep
<1>10. CASE \/ \E c \in Captures : Derive(c)
            \/ \E b \in Bodies : Sweep(b)
            \/ create_plan_items
            \/ \E s \in Symbols : \E a \in Answers[s] : discover_company_listing(s, a)
            \/ \E a \in FeedAnswers : discover_feed_window(a)
  BY <1>8, <1>10 DEF Derive, Sweep, create_plan_items, discover_company_listing,
     discover_feed_window, Ingest, issuerVars
<1>11. CASE \/ \E h \in holds, q \in {"acquire_evidence", "record_as_is", "keep_held"} :
                  resolve_hold_as_owner(h, q)
            \/ LinkStored
            \/ \E f \in Filings : link_filing(f)
            \/ UNCHANGED vars
  BY <1>8, <1>11 DEF resolve_hold_as_owner, LinkStored, link_filing, vars, issuerVars
<1> QED BY <1>5, <1>7, <1>9, <1>10, <1>11 DEF Next

(* A pass never records an observation whose hold the owner has not once   *)
(* released, whatever crashed and however often the batch is imported.     *)
THEOREM HeldObservationsStayOut == Spec => HeldStaysOut
<1>1. LinkInv /\ [Next]_vars =>
        [\A r \in seen' \ seen : r.tx = "pass" =>
           ~ \E h \in holds : h.o = r.o /\ ~ h.released]_vars
  BY RecordsReleasedOnly DEF Unreleased
<1> QED BY <1>1, Invariance, PTL DEF HeldStaysOut, Spec

(* Holding works: what is recorded of a batch creates no dispute that only *)
(* lacks evidence, unless another writer recorded since the pass began     *)
(* (held_sec_ids, split_batch).                                            *)
THEOREM HoldingWorks == Spec => HoldsWork
<1>1. ASSUME LinkInv, [Next]_vars, Pass.at = "hold", proc'["pass"].at = "recorded",
             Pass.base = Recorded
      PROVE  InsufficientOnly({r.o : r \in {x \in seen' : x.tx \in {None, "pass"}}})
               \subseteq disputed_sec_ids(Recorded)
  <2> DEFINE saw == {r.o : r \in {x \in seen' : x.tx \in {None, "pass"}}}
  <2>1. Pass' = proc'["pass"] /\ "pass" \in Procs /\ Shapes /\ Pass'.at # Pass.at
    BY <1>1, NoneFacts DEF LinkInv, Pass
  <2>2. record_batch
    <3>1. CASE PassStep
      <4>1. CASE identity_pass \/ closure_pass \/ late_pass
        BY <1>1, <4>1 DEF identity_pass, closure_pass, late_pass, Begin
      <4>2. ASSUME NEW o \in Pass.hold, record_hold(o)
            PROVE  FALSE
        <5>1. proc' = [proc EXCEPT !["pass"] =
                         [Pass EXCEPT !.hold = @ \ {o}, !.batch = @ \ {o}]]
          BY <4>2 DEF record_hold, To
        <5>2. Pass'.at = Pass.at
          BY <2>1, <5>1 DEF Shapes, Pass
        <5> QED BY <2>1, <5>2
      <4>3. CASE apply_resolutions \/ resolve_securities \/ link_window \/ CommitPass
                 \/ Finish
        BY <1>1, <4>3 DEF apply_resolutions, resolve_securities, link_window, CommitPass,
           Finish
      <4> QED BY <3>1, <4>1, <4>2, <4>3 DEF PassStep
    <3>2. CASE \E p \in Procs : Commit(p) \/ Crash(p)
      <4>1. PICK p \in Procs : proc' = [proc EXCEPT ![p] = Idle]
        BY <3>2 DEF Commit, Crash
      <4>2. Idle.at = "idle"
        BY DEF Idle
      <4> QED BY <1>1, <2>1, <4>1, <4>2 DEF Shapes, Pass
    <3>3. CASE \E bodies \in Imports : link_issuers(bodies)
      <4>1. \E s : proc' = [proc EXCEPT !["shell"] = s]
        BY <3>3 DEF link_issuers
      <4> QED BY <2>1, <4>1 DEF Shapes, Pass
    <3>4. CASE LinkStored \/ \E f \in Filings : link_filing(f)
      <4>1. \E p \in {"shell", "worker"} : \A q \in Procs :
              q # p => proc'[q] = proc[q]
        BY <2>1, <3>4 DEF LinkStored, link_filing, Shapes
      <4> QED BY <2>1, <4>1 DEF Pass
    <3>5. proc' = proc => FALSE
      BY <2>1 DEF Pass
    <3>6. CASE \/ \E c \in Captures : Derive(c)
               \/ \E b \in Bodies : Sweep(b)
               \/ create_plan_items
               \/ \E s \in Symbols : \E a \in Answers[s] : discover_company_listing(s, a)
               \/ \E a \in FeedAnswers : discover_feed_window(a)
               \/ \E h \in holds, q \in {"acquire_evidence", "record_as_is", "keep_held"} :
                     resolve_hold_as_owner(h, q)
               \/ UNCHANGED vars
      BY <3>5, <3>6 DEF Derive, Sweep, create_plan_items, discover_company_listing,
         discover_feed_window, Ingest, resolve_hold_as_owner, vars
    <3> QED BY <1>1, <3>1, <3>2, <3>3, <3>4, <3>6 DEF Next
  <2>3. /\ Pass.hold = {} /\ seen' = SeenWith(Pass.batch, "pass")
        /\ \A x \in seen : x.o \in Pass.batch => x.tx \in {None, "pass"}
    BY <2>2 DEF record_batch, RecordAndResolve, NoWait
  <2>4. Seen("pass")' = Seen("pass") \cup Pass.batch
    BY <2>1, <2>3, InsertRows
  <2>5. Seen("pass") = Recorded
    BY <1>1 DEF LinkInv, OpenRows, Seen, Recorded
  <2>6. saw = Recorded \cup Pass.batch
    BY <2>4, <2>5 DEF Seen
  <2>7. PICK free : Pass.batch = Left(Recorded, free)
    BY <1>1, <2>3 DEF LinkInv, Holding
  <2> HIDE DEF saw
  <2>8. InsufficientOnly(saw) \subseteq disputed_sec_ids(Recorded)
    BY <2>6, <2>7, LeftIsSound
  <2> QED BY <2>8 DEF saw
<1>2. LinkInv /\ [Next]_vars =>
        [/\ Pass.at = "hold" /\ proc'["pass"].at = "recorded"
         /\ Pass.base = Recorded
         => InsufficientOnly({r.o : r \in {x \in seen' : x.tx \in {None, "pass"}}})
              \subseteq disputed_sec_ids(Recorded)]_vars
  BY <1>1
<1> QED BY <1>2, Invariance, PTL DEF HoldsWork, Spec
=============================================================================
