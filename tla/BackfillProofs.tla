---------------------------- MODULE BackfillProofs ----------------------------
(***************************************************************************)
(* Proofs about Backfill, for every set of slices and items, every budget  *)
(* and every bound: deaths, lost sessions and failed writes at any point.  *)
(***************************************************************************)
EXTENDS Backfill, TLAPS

-----------------------------------------------------------------------------
(* The inductive invariant: types                                          *)

States == {"pending", "retry_wait", "requesting", "processing", "abandoned",
           "blocked", "succeeded", "failed", "discovered", "persisted",
           "retrieval_failed", "consumer_failed", "cleanup_failed"}
Stops == {"none", "refused", "error", "blocked", "circuit_open", "cleanup_stop"}
Heard == {"ok", "retryable", "terminal", "block"}
Told == Heard \cup {"elsewhere", "lost"}
Leftovers == {"cleanup", "leftover", "cleanup_retrieved", "leftover_retrieved"}
Found == {"persist", "consumer", "terminal", "retryable", "refused", "local"}
            \cup Leftovers
Gots == {"none"} \cup Told \cup Found

ItemType == [state : States, lease : Slices \cup {None}, claims : Nat,
             sent : Nat, stopped : BOOLEAN]
LeaseType == [state : {"none", "active"}, arming : Nat, stage : Stages]
AttemptType == [by : Slices \cup {None},
                outcome : {"none", "open", "unrecorded"} \cup Told,
                spooled : {None, "corrupt"} \cup Heard]
RunType == [run : {"none", "begun", "requested", "finished"},
            won : {"none", "succeeded"}]
SliceType == [pc : PCs, stage : Stages, seen : Nat, item : Items \cup {None},
              stop : Stops, fails : Nat, n : Nat, pass : Nat, hop : Nat,
              got : Gots, up : BOOLEAN, tried : SUBSET Items]

TablesOK ==
  /\ item \in [Items -> ItemType]
  /\ lease \in [Slices -> LeaseType]
  /\ attempt \in [Items -> AttemptType]
  /\ blocks \in SUBSET Items
  /\ results \in [Stages -> Nat]
  /\ used \in Nat
  /\ f1 \in [Discovery -> RunType] /\ f5 \in SUBSET Documents
OutsideOK ==
  /\ p2blocks \in BOOLEAN /\ arming \in [id : Nat, armed : BOOLEAN]
  /\ p2used \in Nat /\ p3due \in BOOLEAN /\ linked \in BOOLEAN /\ events \in Nat
MemoryOK ==
  /\ sl \in [Slices -> SliceType]
  /\ files \in SUBSET Slices /\ trouble \in Nat
TypeOK == TablesOK /\ OutsideOK /\ MemoryOK

-----------------------------------------------------------------------------
(* The inductive invariant: the ledger                                     *)

Open(i) == attempt[i].outcome = "open"

(* An item in flight belongs to an active lease; an open attempt was made  *)
(* under the lease that holds its item.                                    *)
Owned(i) ==
  /\ item[i].state \in IN_FLIGHT => item[i].lease \in ActiveLeases
  /\ Open(i) => item[i].state = "requesting" /\ attempt[i].by = item[i].lease

(* What is known of a discovery request: a claim sends at most one, its    *)
(* item is never processed, and an answer that was ok has a run that       *)
(* succeeded or is still to be finished, and leads the item nowhere but to *)
(* its success.                                                            *)
Evident(i) ==
  /\ item[i].sent <= item[i].claims /\ item[i].state # "processing"
  /\ Open(i) => f1[i].run = "requested"
  /\ item[i].sent > 0 /\ attempt[i].outcome = "ok" =>
       /\ item[i].state \in {"requesting", "abandoned", "succeeded"}
       /\ f1[i].run = "requested" \/ f1[i].won # "none"

LedgerOK ==
  /\ \A i \in Items : Owned(i)
  /\ \A i, j \in Items : Open(i) /\ Open(j) => i = j
  /\ \A i \in Discovery : Evident(i)

-----------------------------------------------------------------------------
(* The inductive invariant: slices                                         *)

Asking == {"intent", "journaled", "answered", "record"}
Holding == {"claimed", "begun", "fetch", "admitted", "finish", "settle", "f2",
            "dispose"} \cup Asking

(* What a slice keeps in memory, on its own.                               *)
LocalOK(x) ==
  /\ ~x.up => \/ x.pc \in Asking
              \/ x.pc \in {"f2", "fetch", "dispose", "closing"} /\ x.stop = "error"
  /\ x.pc \in {"idle", "lock", "recover", "gate", "reconcile", "work", "claimed",
               "begun", "admitted", "intent", "journaled", "answered"} => x.stop = "none"
  /\ x.pc = "record" => x.stop \in {"none", "error"}
  /\ x.pc \in {"finish", "settle"} => x.stop # "error"
  /\ x.stop = "cleanup_stop" => x.pc = "closing"
  /\ x.pc = "persist" => x.stop \notin {"error", "blocked"}
  /\ x.pc \in Holding \cup {"persist"} => x.item \in StageItems(x.stage)
  /\ x.pc \in {"begun", "intent", "answered", "finish", "settle"} => x.stage = "discovery"
  /\ x.pc \in {"gate", "fetch", "f2", "dispose", "persist"} => x.stage = "document"
  /\ x.pc = "answered" => x.got \in Heard
  /\ x.pc = "record" => x.got \in Told
  /\ x.pc = "dispose" => x.got \in Found

(* Its attempt, as long as nobody has recovered it, has no spool record    *)
(* before the answer is spooled, and afterwards the answer or none.        *)
SpoolOK(s, x) ==
  x.pc \in Asking /\ Open(x.item) /\ attempt[x.item].by = s =>
    attempt[x.item].spooled \in IF x.pc = "record" THEN {None, x.got} ELSE {None}

(* While its session lives and it works, the ledger is its own.            *)
WorkOK(s, x) ==
  /\ ActiveLeases = {s}
  /\ \A i \in Items : Open(i) => x.pc \in Asking \/ x.stop = "error"
  /\ x.stop \in {"none", "refused", "circuit_open"} => blocks = {} /\ ~p2blocks
  /\ x.pc \in Holding => item[x.item].state = "requesting" /\ item[x.item].lease = s
  /\ x.pc = "persist" => item[x.item].state = "processing" /\ item[x.item].lease = s
  /\ x.pc \in Asking => Open(x.item) /\ attempt[x.item].by = s
  /\ x.pc \in {"claimed", "begun", "admitted"} /\ x.stage = "discovery" =>
       /\ item[x.item].sent < item[x.item].claims
       /\ item[x.item].sent > 0 => attempt[x.item].outcome # "ok"
  /\ x.pc = "settle" /\ attempt[x.item].outcome = "ok" => f1[x.item].won # "none"
  /\ x.pc = "admitted" => used + 1 <= DailyBudget /\ used + p2used + 1 <= Ceiling
  /\ x.stage = "document" /\ x.pc \notin {"gate", "closing"} =>
       /\ files \subseteq {s}
       /\ \/ x.pc \in {"reconcile", "work", "claimed", "persist"}
          \/ x.pc = "dispose" /\ x.got \notin Leftovers
          => files = {}

AtWork(x) == x.up /\ x.pc \notin {"idle", "lock", "recover"}

SliceOK(s, x) ==
  /\ LocalOK(x)
  /\ SpoolOK(s, x)
  /\ x.pc \in {"lock", "recover"} => lease[s].state = "none"
  /\ x.up /\ x.pc \notin {"idle", "lock"} => lock = s
  /\ AtWork(x) => WorkOK(s, x)

BackInv ==
  /\ TypeOK
  /\ LedgerOK
  /\ \A s \in Slices : SliceOK(s, sl[s])

-----------------------------------------------------------------------------
(* What a step must keep                                                   *)

(* The names of the constants do not meet.                                 *)
LEMMA Constants ==
  /\ None \notin Slices /\ None \notin Items /\ P2 \notin Slices
  /\ Discovery \subseteq Items /\ Documents \subseteq Items
  /\ Items = Discovery \cup Documents /\ Discovery \cap Documents = {}
  /\ {DailyBudget, Ceiling, P3Budget} \subseteq Nat
BY LedgerConstants DEF Items

(* What the invariant says of a slice.                                     *)
LEMMA SliceFacts ==
  ASSUME BackInv, NEW s \in Slices
  PROVE  /\ sl \in [Slices -> SliceType] /\ sl[s] \in SliceType
         /\ LocalOK(sl[s]) /\ SpoolOK(s, sl[s])
         /\ sl[s].pc \in {"lock", "recover"} => lease[s].state = "none"
         /\ sl[s].up /\ sl[s].pc \notin {"idle", "lock"} => lock = s
         /\ AtWork(sl[s]) => WorkOK(s, sl[s])
BY DEF BackInv, TypeOK, MemoryOK, SliceOK

(* What it says of the ledger.                                             *)
LEMMA LedgerFacts ==
  ASSUME BackInv
  PROVE  /\ item \in [Items -> ItemType] /\ lease \in [Slices -> LeaseType]
         /\ attempt \in [Items -> AttemptType] /\ blocks \in SUBSET Items
         /\ results \in [Stages -> Nat] /\ used \in Nat
         /\ f1 \in [Discovery -> RunType] /\ f5 \in SUBSET Documents
         /\ files \in SUBSET Slices /\ trouble \in Nat
         /\ LedgerOK
BY DEF BackInv, TypeOK, TablesOK, MemoryOK

(* Only the slice that holds the lock is at work.                          *)
LEMMA OneAtWork ==
  ASSUME BackInv, NEW s \in Slices, NEW t \in Slices \ {s}, lock = s
  PROVE  ~(sl[t].up /\ sl[t].pc \notin {"idle", "lock"}) /\ ~AtWork(sl[t])
BY SliceFacts DEF AtWork

(* A slice whose memory does not change.                                   *)
LEMMA Kept ==
  ASSUME BackInv, NEW t \in Slices, sl'[t] = sl[t],
         lease'[t] = lease[t] \/ lease'[t].state = "none",
         \A i \in Items : attempt'[i].outcome = "open" /\ attempt'[i].by = t =>
                            attempt'[i] = attempt[i],
         sl[t].up /\ sl[t].pc \notin {"idle", "lock"} => lock' = t,
         AtWork(sl[t]) => WorkOK(t, sl[t])'
  PROVE  SliceOK(t, sl[t])'
<1>1. LocalOK(sl[t]) /\ SpoolOK(t, sl[t]) /\ sl[t] \in SliceType
      /\ (sl[t].pc \in {"lock", "recover"} => lease[t].state = "none")
  BY SliceFacts
<1>2. LocalOK(sl[t])'
  BY <1>1 DEF LocalOK, StageItems
<1>3. SpoolOK(t, sl[t])'
  <2> SUFFICES ASSUME sl[t].pc \in Asking, attempt'[sl[t].item].outcome = "open",
                      attempt'[sl[t].item].by = t
               PROVE  attempt'[sl[t].item].spooled
                        \in IF sl[t].pc = "record" THEN {None, sl[t].got} ELSE {None}
    BY DEF SpoolOK, Open
  <2>1. sl[t].item \in Items
    BY <1>1, Constants DEF LocalOK, StageItems, Holding
  <2>2. attempt'[sl[t].item] = attempt[sl[t].item]
    BY <2>1
  <2> QED BY <1>1, <2>2 DEF SpoolOK, Open
<1>4. AtWork(sl[t])' <=> AtWork(sl[t])
  BY DEF AtWork
<1> QED BY <1>1, <1>2, <1>3, <1>4 DEF SliceOK

(* Its work, when nothing it relies on is taken away.                      *)
LEMMA WorkKept ==
  ASSUME BackInv, NEW t \in Slices, sl'[t] = sl[t], AtWork(sl[t]),
         ActiveLeases' = ActiveLeases,
         \A i \in Items : /\ attempt'[i].outcome = attempt[i].outcome
                          /\ attempt'[i].by = attempt[i].by,
         blocks' \subseteq blocks, p2blocks' => p2blocks,
         sl[t].pc \in Holding \cup {"persist"} => item'[sl[t].item] = item[sl[t].item],
         \A i \in Discovery : f1[i].won # "none" => f1'[i].won # "none",
         used' \in Nat, p2used' \in Nat, used' <= used, p2used' <= p2used,
         files' \subseteq files
  PROVE  WorkOK(t, sl[t])'
<1>1. WorkOK(t, sl[t]) /\ LocalOK(sl[t]) /\ sl[t] \in SliceType
  BY SliceFacts
<1>2. sl[t].pc \in Holding \cup {"persist"} => sl[t].item \in Items
  BY <1>1, Constants DEF LocalOK, StageItems
<1>3. sl[t].pc = "settle" => sl[t].item \in Discovery
  BY <1>1 DEF LocalOK, StageItems, Holding
<1>4. used \in Nat /\ p2used \in Nat
  BY DEF BackInv, TypeOK, TablesOK, OutsideOK
<1>5. ActiveLeases' = {t}
  BY <1>1 DEF WorkOK
<1>6. \A i \in Items : attempt'[i].outcome = "open" => sl[t].pc \in Asking \/ sl[t].stop = "error"
  BY <1>1 DEF WorkOK, Open
<1>7. sl[t].stop \in {"none", "refused", "circuit_open"} => blocks' = {} /\ ~p2blocks'
  BY <1>1 DEF WorkOK
<1>8. /\ sl[t].pc \in Holding => item'[sl[t].item].state = "requesting" /\ item'[sl[t].item].lease = t
      /\ sl[t].pc = "persist" => item'[sl[t].item].state = "processing" /\ item'[sl[t].item].lease = t
  BY <1>1 DEF WorkOK
<1>9. sl[t].pc \in Asking => attempt'[sl[t].item].outcome = "open" /\ attempt'[sl[t].item].by = t
  BY <1>1, <1>2 DEF WorkOK, Open, Holding
<1>10. sl[t].pc \in {"claimed", "begun", "admitted"} /\ sl[t].stage = "discovery" =>
         /\ item'[sl[t].item].sent < item'[sl[t].item].claims
         /\ item'[sl[t].item].sent > 0 => attempt'[sl[t].item].outcome # "ok"
  BY <1>1, <1>2 DEF WorkOK, Holding
<1>11. sl[t].pc = "settle" /\ attempt'[sl[t].item].outcome = "ok" => f1'[sl[t].item].won # "none"
  BY <1>1, <1>2, <1>3 DEF WorkOK, Holding
<1>12. sl[t].pc = "admitted" => used' + 1 <= DailyBudget /\ used' + p2used' + 1 <= Ceiling
  BY <1>1, <1>4, Constants DEF WorkOK
<1>13. sl[t].stage = "document" /\ sl[t].pc \notin {"gate", "closing"} =>
         /\ files' \subseteq {t}
         /\ \/ sl[t].pc \in {"reconcile", "work", "claimed", "persist"}
            \/ sl[t].pc = "dispose" /\ sl[t].got \notin Leftovers
            => files' = {}
  BY <1>1 DEF WorkOK
<1> QED BY <1>5, <1>6, <1>7, <1>8, <1>9, <1>10, <1>11, <1>12, <1>13 DEF WorkOK, Open

(* A step of the slice that holds the lock.                                *)
LEMMA HolderStep ==
  ASSUME BackInv, NEW s \in Slices, lock = s,
         sl' \in [Slices -> SliceType], \A t \in Slices \ {s} : sl'[t] = sl[t],
         TablesOK', OutsideOK', files' \in SUBSET Slices, trouble' \in Nat,
         LedgerOK', SliceOK(s, sl[s])',
         \A t \in Slices \ {s} : lease'[t] = lease[t] \/ lease'[t].state = "none",
         \A i \in Items : attempt'[i].outcome = "open" =>
                            attempt'[i] = attempt[i] \/ attempt'[i].by = s
  PROVE  BackInv'
<1>1. \A t \in Slices \ {s} : SliceOK(t, sl[t])'
  BY OneAtWork, Kept
<1> QED BY <1>1 DEF BackInv, TypeOK, MemoryOK

(* A step within the memory of a slice.                                    *)
LEMMA OwnStep ==
  ASSUME BackInv, NEW s \in Slices, UNCHANGED <<tables, outside>>,
         lock' = lock \/ lock \in {s, None},
         sl' \in [Slices -> SliceType], \A t \in Slices \ {s} : sl'[t] = sl[t],
         files' \in SUBSET Slices, files' \subseteq files \/ lock = s, trouble' \in Nat,
         SliceOK(s, sl[s])'
  PROVE  BackInv'
<1>1. /\ TablesOK' /\ OutsideOK' /\ UNCHANGED <<item, lease, attempt, blocks, p2blocks>>
      /\ UNCHANGED <<f1, used, p2used>> /\ used \in Nat /\ p2used \in Nat
  BY DEF tables, outside, BackInv, TypeOK, TablesOK, OutsideOK
<1>2. LedgerOK'
  BY <1>1 DEF BackInv, LedgerOK, Owned, Evident, Open, ActiveLeases
<1>3. ASSUME NEW t \in Slices \ {s}
      PROVE  SliceOK(t, sl[t])'
  <2>1. CASE AtWork(sl[t])
    <3>1. lock = t
      BY <2>1, SliceFacts DEF AtWork
    <3>2. files' \subseteq files
      BY <3>1
    <3>3. WorkOK(t, sl[t])'
      BY <1>1, <2>1, <3>2, WorkKept DEF ActiveLeases
    <3>4. lock' = t
      BY <3>1, Constants
    <3> QED BY <1>1, <3>3, <3>4, Kept
  <2>2. CASE ~AtWork(sl[t])
    <3>1. sl[t].up /\ sl[t].pc \notin {"idle", "lock"} => lock' = t
      BY SliceFacts, Constants
    <3> QED BY <1>1, <2>2, <3>1, Kept
  <2> QED BY <2>1, <2>2
<1> QED BY <1>1, <1>2, <1>3 DEF BackInv, TypeOK, MemoryOK

(* The slice that holds the lock records an event of an item.              *)
LEMMA ItemStep ==
  ASSUME BackInv, NEW s \in Slices, lock = s, NEW i \in Items, NEW r \in ItemType,
         item' = [item EXCEPT ![i] = r], ~Open(i),
         r.state \in IN_FLIGHT => r.lease \in ActiveLeases,
         i \in Discovery => r.sent <= r.claims /\ r.state # "processing",
         i \in Discovery /\ r.sent > 0 /\ attempt[i].outcome = "ok" =>
           /\ r.state \in {"requesting", "abandoned", "succeeded"}
           /\ f1[i].run = "requested" \/ f1[i].won # "none",
         UNCHANGED <<lease, attempt, blocks, results, used, f1, outside>>,
         f5' \in SUBSET Documents, files' \in SUBSET Slices, trouble' \in Nat,
         sl' \in [Slices -> SliceType], \A t \in Slices \ {s} : sl'[t] = sl[t],
         SliceOK(s, sl[s])'
  PROVE  BackInv'
<1>1. item \in [Items -> ItemType] /\ LedgerOK
  BY LedgerFacts
<1>2. TablesOK' /\ OutsideOK'
  BY <1>1 DEF outside, BackInv, TypeOK, TablesOK, OutsideOK
<1>3. \A j \in Items : item'[j] = IF j = i THEN r ELSE item[j]
  BY <1>1
<1>4. ActiveLeases' = ActiveLeases
  BY DEF ActiveLeases
<1>5. \A j \in Items : Owned(j)'
  BY <1>1, <1>3, <1>4 DEF LedgerOK, Owned, Open
<1>6. \A j \in Discovery : Evident(j)'
  <2> TAKE j \in Discovery
  <2>1. CASE j = i
    BY <1>3, <2>1, Constants DEF Evident, Open
  <2>2. CASE j # i
    <3>1. Evident(j) /\ item'[j] = item[j]
      BY <1>1, <1>3, <2>2, Constants DEF LedgerOK
    <3> QED BY <3>1 DEF Evident, Open
  <2> QED BY <2>1, <2>2
<1>7. LedgerOK'
  BY <1>1, <1>5, <1>6 DEF LedgerOK, Open
<1> QED BY <1>2, <1>7, HolderStep

-----------------------------------------------------------------------------
(* Steps within the memory of a slice                                      *)

(* A slice that is gone.                                                   *)
LEMMA IdleOK ==
  ASSUME NEW s \in Slices
  PROVE  /\ IdleSlice \in SliceType
         /\ sl'[s] = IdleSlice => SliceOK(s, sl[s])'
<1>1. IdleSlice \in SliceType
  BY DEF IdleSlice, SliceType, PCs, Stages, Stops, Gots
<1>2. IdleSlice.pc = "idle" /\ IdleSlice.up /\ IdleSlice.stop = "none"
  BY DEF IdleSlice
<1>3. ASSUME sl'[s] = IdleSlice
      PROVE  SliceOK(s, sl[s])'
  BY <1>2, <1>3 DEF SliceOK, LocalOK, SpoolOK, AtWork, Holding, Asking
<1> QED BY <1>1, <1>3

(* A failure is counted.                                                   *)
LEMMA Counted ==
  ASSUME BackInv
  PROVE  /\ trouble \in Nat
         /\ \A t : Happens(t) => trouble' \in Nat
BY DEF Happens, BackInv, TypeOK, MemoryOK

(* A slice leaves: nothing is taken over, a gate refuses, or it dies.      *)
LEMMA LeaveStep ==
  ASSUME BackInv, NEW s \in Slices, sl' = [sl EXCEPT ![s] = IdleSlice],
         lock' = lock \/ lock = s, UNCHANGED <<tables, outside, files>>, trouble' \in Nat
  PROVE  BackInv'
<1>1. /\ sl' \in [Slices -> SliceType] /\ sl'[s] = IdleSlice
      /\ \A t \in Slices \ {s} : sl'[t] = sl[t]
  BY IdleOK, SliceFacts
<1>2. files' \in SUBSET Slices /\ files' \subseteq files
  BY LedgerFacts
<1> QED BY <1>1, <1>2, IdleOK, OwnStep

(* The stage's own checks and the start gates.                             *)
LEMMA StartStep ==
  ASSUME BackInv, NEW s \in Slices, NEW g \in Stages, Start(s, g)
  PROVE  BackInv'
<1> DEFINE x == [IdleSlice EXCEPT !.pc = "lock", !.stage = g, !.seen = arming.id]
<1>1. /\ sl' = [sl EXCEPT ![s] = x] /\ lease[s].state # "active"
      /\ UNCHANGED <<tables, outside, lock, files, trouble>>
  BY DEF Start, ledgerVars
<1>2. arming.id \in Nat /\ "lock" \in PCs
  BY DEF BackInv, TypeOK, OutsideOK, PCs
<1>3. x \in SliceType /\ x.pc = "lock" /\ x.up /\ x.stop = "none"
  BY <1>2, IdleOK DEF IdleSlice, SliceType
<1> HIDE DEF x
<1>4. /\ sl' \in [Slices -> SliceType] /\ sl'[s] = x
      /\ \A t \in Slices \ {s} : sl'[t] = sl[t]
  BY <1>1, <1>3, SliceFacts
<1>5. lease'[s].state = "none"
  BY <1>1, LedgerFacts DEF LeaseType, tables
<1>6. SliceOK(s, sl[s])'
  BY <1>3, <1>4, <1>5 DEF SliceOK, LocalOK, SpoolOK, AtWork, Holding, Asking
<1>7. files' \in SUBSET Slices /\ files' \subseteq files /\ trouble' \in Nat
  BY <1>1, LedgerFacts
<1> QED BY <1>1, <1>4, <1>6, <1>7, OwnStep

(* The lock is taken, or it is busy.                                       *)
LEMMA AcquireStep ==
  ASSUME BackInv, NEW s \in Slices, Acquire(s)
  PROVE  BackInv'
<1>1. sl[s].pc = "lock" /\ UNCHANGED <<tables, outside, files, trouble>>
  BY DEF Acquire
<1>2. files' \in SUBSET Slices /\ files' \subseteq files /\ trouble' \in Nat
  BY <1>1, LedgerFacts
<1>3. CASE sl' = [sl EXCEPT ![s] = IdleSlice] /\ UNCHANGED lock
  BY <1>1, <1>2, <1>3, LeaveStep
<1>4. CASE lock = None /\ lock' = s /\ sl' = [sl EXCEPT ![s].pc = "recover"]
  <2>1. /\ sl[s] \in SliceType /\ LocalOK(sl[s]) /\ lease[s].state = "none"
        /\ "recover" \in PCs
    BY <1>1, SliceFacts DEF PCs
  <2>2. /\ sl' \in [Slices -> SliceType] /\ \A t \in Slices \ {s} : sl'[t] = sl[t]
        /\ sl'[s].pc = "recover" /\ sl'[s].up = sl[s].up /\ sl'[s].stop = sl[s].stop
        /\ sl'[s].item = sl[s].item /\ sl'[s].stage = sl[s].stage
    BY <1>4, <2>1, SliceFacts DEF SliceType
  <2>3. sl'[s].up /\ sl'[s].stop = "none"
    BY <1>1, <2>1, <2>2 DEF LocalOK, Asking
  <2>4. lease'[s].state = "none"
    BY <1>1, <2>1 DEF tables
  <2>5. SliceOK(s, sl[s])'
    BY <1>4, <2>2, <2>3, <2>4 DEF SliceOK, LocalOK, SpoolOK, AtWork, Holding, Asking
  <2> QED BY <1>1, <1>2, <1>4, <2>2, <2>5, OwnStep
<1> QED BY <1>3, <1>4 DEF Acquire

(* Nothing more is claimed.                                                *)
LEMMA EndWorkStep ==
  ASSUME BackInv, NEW s \in Slices, EndWork(s)
  PROVE  BackInv'
<1>1. /\ sl[s].pc = "work" /\ UNCHANGED <<tables, outside, lock, files, trouble>>
      /\ \/ sl' = [sl EXCEPT ![s].pc = "closing", ![s].stop = "refused"]
         \/ sl' = [sl EXCEPT ![s].pc = "closing"]
  BY DEF EndWork, ledgerVars
<1>2. /\ sl[s] \in SliceType /\ LocalOK(sl[s]) /\ "closing" \in PCs /\ "refused" \in Stops
      /\ files' \in SUBSET Slices /\ files' \subseteq files /\ trouble' \in Nat
  BY <1>1, SliceFacts, LedgerFacts DEF PCs, Stops
<1>3. sl[s].up /\ sl[s].stop = "none" /\ lock = s /\ WorkOK(s, sl[s])
  BY <1>1, <1>2, SliceFacts DEF LocalOK, Asking, AtWork
<1>4. /\ sl' \in [Slices -> SliceType] /\ \A t \in Slices \ {s} : sl'[t] = sl[t]
      /\ sl'[s].pc = "closing" /\ sl'[s].up = sl[s].up
      /\ sl'[s].stop \in {"none", "refused"}
  <2>1. CASE sl' = [sl EXCEPT ![s].pc = "closing"]
    BY <1>2, <1>3, <2>1, SliceFacts DEF SliceType
  <2>2. CASE sl' = [sl EXCEPT ![s].pc = "closing", ![s].stop = "refused"]
    <3>1. sl \in [Slices -> SliceType]
      BY SliceFacts
    <3>2. sl'[s] = [sl[s] EXCEPT !.pc = "closing", !.stop = "refused"]
          /\ sl' = [sl EXCEPT ![s] = sl'[s]]
      BY <2>2, <3>1
    <3>3. sl'[s] \in SliceType /\ sl'[s].pc = "closing" /\ sl'[s].up = sl[s].up
          /\ sl'[s].stop = "refused"
      BY <1>2, <3>2 DEF SliceType
    <3> QED BY <3>1, <3>2, <3>3
  <2> QED BY <1>1, <2>1, <2>2
<1>5. LocalOK(sl[s])' /\ SpoolOK(s, sl[s])'
  BY <1>3, <1>4 DEF LocalOK, SpoolOK, Holding, Asking
<1>6. WorkOK(s, sl[s])'
  BY <1>1, <1>3, <1>4 DEF WorkOK, Holding, Asking, Open, ActiveLeases, tables, outside
<1>7. SliceOK(s, sl[s])'
  BY <1>1, <1>3, <1>4, <1>5, <1>6 DEF SliceOK
<1> QED BY <1>1, <1>2, <1>4, <1>7, OwnStep

(* A slice that moves on without touching the ledger.                      *)
LEMMA MoveStep ==
  ASSUME BackInv, NEW s \in Slices, UNCHANGED ledgerVars, trouble' \in Nat,
         sl' \in [Slices -> SliceType], \A t \in Slices \ {s} : sl'[t] = sl[t],
         files' \in SUBSET Slices, files' \subseteq files \/ lock = s,
         LocalOK(sl[s])', SpoolOK(s, sl[s])',
         sl'[s].up = sl[s].up, sl[s].pc \notin {"idle", "lock", "recover"},
         sl'[s].pc \notin {"lock", "recover"},
         sl[s].up /\ WorkOK(s, sl[s]) /\ lock = s => WorkOK(s, sl[s])'
  PROVE  BackInv'
<1>1. UNCHANGED <<tables, outside, lock>>
  BY DEF ledgerVars
<1>2. sl[s].up => lock = s /\ WorkOK(s, sl[s])
  BY SliceFacts DEF AtWork
<1>3. SliceOK(s, sl[s])'
  BY <1>1, <1>2 DEF SliceOK, AtWork
<1> QED BY <1>1, <1>3, OwnStep

(* The admission before an intent.                                         *)
LEMMA AdmitStep ==
  ASSUME BackInv, NEW s \in Slices, Admit(s)
  PROVE  BackInv'
<1>1. /\ sl[s].pc \in {"begun", "fetch"} /\ sl[s].stop = "none"
      /\ used + 1 <= DailyBudget /\ used + p2used + P3Reserve + 1 <= Ceiling
      /\ sl' = [sl EXCEPT ![s].pc = "admitted"] /\ UNCHANGED <<ledgerVars, files, trouble>>
  BY DEF Admit, Admits, Covers
<1>2. /\ sl[s] \in SliceType /\ LocalOK(sl[s]) /\ "admitted" \in PCs
      /\ files' \in SUBSET Slices /\ files' \subseteq files /\ trouble' \in Nat
      /\ used \in Nat /\ p2used \in Nat
  BY <1>1, SliceFacts, LedgerFacts DEF PCs, BackInv, TypeOK, OutsideOK
<1>3. /\ sl' \in [Slices -> SliceType] /\ \A t \in Slices \ {s} : sl'[t] = sl[t]
      /\ sl'[s] = [sl[s] EXCEPT !.pc = "admitted"]
  BY <1>1, <1>2, SliceFacts DEF SliceType
<1>4. /\ sl'[s].pc = "admitted" /\ sl'[s].up = sl[s].up /\ sl'[s].stop = "none"
      /\ sl'[s].item = sl[s].item /\ sl'[s].stage = sl[s].stage
  BY <1>1, <1>2, <1>3 DEF SliceType
<1>5. LocalOK(sl[s])' /\ SpoolOK(s, sl[s])'
  BY <1>1, <1>2, <1>4 DEF LocalOK, SpoolOK, Holding, Asking, StageItems
<1>6. used + p2used + 1 <= Ceiling
  BY <1>1, <1>2, Constants DEF P3Reserve
<1>7. ASSUME WorkOK(s, sl[s])
      PROVE  WorkOK(s, sl[s])'
  <2>1. UNCHANGED <<item, lease, attempt, blocks, p2blocks, used, p2used, f1, files>>
    BY <1>1 DEF ledgerVars, tables, outside
  <2>2. sl[s].pc = "fetch" => sl[s].stage = "document"
    BY <1>2 DEF LocalOK
  <2> QED BY <1>1, <1>4, <1>6, <1>7, <2>1, <2>2
          DEF WorkOK, Holding, Asking, Open, ActiveLeases
<1> QED BY <1>1, <1>2, <1>3, <1>4, <1>5, <1>7, MoveStep

(* One slice turns.                                                        *)
LEMMA Turn ==
  ASSUME BackInv, NEW s \in Slices, NEW x \in SliceType, sl' = [sl EXCEPT ![s] = x]
  PROVE  /\ sl' \in [Slices -> SliceType] /\ sl'[s] = x
         /\ \A t \in Slices \ {s} : sl'[t] = sl[t]
BY SliceFacts

(* The step of a slice in its own memory, told by its fields.              *)
LEMMA FieldStep ==
  ASSUME BackInv, NEW s \in Slices, UNCHANGED ledgerVars, trouble' \in Nat,
         NEW x \in SliceType, sl' = [sl EXCEPT ![s] = x],
         files' \in SUBSET Slices, files' \subseteq files \/ lock = s,
         x.item = sl[s].item, x.stage = sl[s].stage, x.up = sl[s].up,
         sl[s].pc \notin {"idle", "lock", "recover"},
         x.pc \notin {"lock", "recover", "settle"},
         LocalOK(x), x.pc \in Asking => sl[s].pc \in Asking \ {"record"},
         x.pc \in Holding => sl[s].pc \in Holding,
         x.pc \in {"claimed", "begun", "admitted"} => sl[s].pc = x.pc,
         x.pc = "persist" => sl[s].pc = "persist",
         sl[s].pc \in Asking => x.pc \in Asking \/ x.stop = "error",
         sl[s].stop = "error" => x.stop = "error",
         x.stop \in {"none", "refused", "circuit_open"} =>
            sl[s].stop \in {"none", "refused", "circuit_open"},
         sl[s].up /\ WorkOK(s, sl[s]) /\ x.stage = "document"
            /\ x.pc \notin {"gate", "closing"} =>
              /\ files' \subseteq {s}
              /\ \/ x.pc \in {"reconcile", "work", "claimed", "persist"}
                 \/ x.pc = "dispose" /\ x.got \notin Leftovers
                 => files' = {}
  PROVE  BackInv'
<1>1. UNCHANGED <<item, lease, attempt, blocks, p2blocks, used, p2used, f1>>
  BY DEF ledgerVars, tables, outside
<1>2. /\ sl' \in [Slices -> SliceType] /\ sl'[s] = x
      /\ \A t \in Slices \ {s} : sl'[t] = sl[t]
  BY Turn
<1>3. LocalOK(sl[s])'
  BY <1>2 DEF LocalOK, StageItems
<1>4. SpoolOK(s, sl[s])'
  <2>1. SpoolOK(s, sl[s])
    BY SliceFacts
  <2> QED BY <1>1, <1>2, <2>1 DEF SpoolOK, Open, Asking
<1>5. ASSUME sl[s].up, WorkOK(s, sl[s])
      PROVE  WorkOK(s, sl[s])'
  <2>1. ActiveLeases' = {s} /\ \A i \in Items : attempt'[i].outcome = "open" =>
                                  x.pc \in Asking \/ x.stop = "error"
    BY <1>1, <1>5 DEF WorkOK, Open, ActiveLeases
  <2>2. x.stop \in {"none", "refused", "circuit_open"} => blocks' = {} /\ ~p2blocks'
    BY <1>1, <1>5 DEF WorkOK
  <2>3. /\ x.pc \in Holding => item'[x.item].state = "requesting" /\ item'[x.item].lease = s
        /\ x.pc = "persist" => item'[x.item].state = "processing" /\ item'[x.item].lease = s
        /\ x.pc \in Asking => attempt'[x.item].outcome = "open" /\ attempt'[x.item].by = s
    BY <1>1, <1>5 DEF WorkOK, Open
  <2>4. /\ x.pc \in {"claimed", "begun", "admitted"} /\ x.stage = "discovery" =>
             /\ item'[x.item].sent < item'[x.item].claims
             /\ item'[x.item].sent > 0 => attempt'[x.item].outcome # "ok"
        /\ x.pc = "admitted" => used' + 1 <= DailyBudget /\ used' + p2used' + 1 <= Ceiling
    BY <1>1, <1>5 DEF WorkOK
  <2>5. x.stage = "document" /\ x.pc \notin {"gate", "closing"} =>
          /\ files' \subseteq {s}
          /\ \/ x.pc \in {"reconcile", "work", "claimed", "persist"}
             \/ x.pc = "dispose" /\ x.got \notin Leftovers
             => files' = {}
    BY <1>5
  <2>6. x.pc # "settle"
    OBVIOUS
  <2> QED BY <1>2, <2>1, <2>2, <2>3, <2>4, <2>5, <2>6 DEF WorkOK, Open
<1> QED BY <1>2, <1>3, <1>4, <1>5, MoveStep

(* CSE answers.                                                            *)
LEMMA AnswerStep ==
  ASSUME BackInv, NEW s \in Slices, NEW a \in Answers(sl[s].stage), Answer(s, a)
  PROVE  BackInv'
<1> DEFINE x == [sl[s] EXCEPT
                   !.pc = IF sl[s].stage = "discovery" THEN "answered" ELSE "record",
                   !.got = Classified(s, a),
                   !.fails = IF a = "ok" THEN 0 ELSE @ + 1]
<1>1. /\ sl[s] \in SliceType /\ LocalOK(sl[s]) /\ sl[s].pc = "journaled"
      /\ UNCHANGED <<ledgerVars, files, trouble>> /\ sl[s].stop = "none"
      /\ sl \in [Slices -> SliceType] /\ sl[s].item \in StageItems(sl[s].stage)
  BY SliceFacts DEF Answer, LocalOK, Holding, Asking
<1>2. sl' = [sl EXCEPT ![s] = x]
  BY <1>1 DEF Answer
<1>3. /\ Classified(s, a) \in Told
      /\ sl[s].stage = "discovery" => Classified(s, a) \in Heard
  BY DEF Classified, Answers, Told, Heard
<1>4. sl[s].fails + 1 \in Nat /\ {"answered", "record"} \subseteq PCs /\ Told \subseteq Gots
  BY <1>1 DEF SliceType, PCs, Gots
<1>5. /\ x \in SliceType /\ x.item = sl[s].item /\ x.stage = sl[s].stage /\ x.up = sl[s].up
      /\ x.stop = "none" /\ x.got = Classified(s, a)
      /\ x.pc = IF sl[s].stage = "discovery" THEN "answered" ELSE "record"
  <2> DEFINE c == Classified(s, a)
             f == IF a = "ok" THEN 0 ELSE sl[s].fails + 1
  <2>1. c \in Gots /\ f \in Nat
    BY <1>3, <1>4
  <2> HIDE DEF c, f
  <2>2. x = [sl[s] EXCEPT !.pc = IF sl[s].stage = "discovery" THEN "answered" ELSE "record",
                          !.got = c, !.fails = f]
    BY DEF c, f
  <2> HIDE DEF x
  <2>3. x \in SliceType /\ x.item = sl[s].item /\ x.stage = sl[s].stage /\ x.up = sl[s].up
        /\ x.stop = "none" /\ x.got = c
        /\ x.pc = IF sl[s].stage = "discovery" THEN "answered" ELSE "record"
    BY <1>1, <1>4, <2>1, <2>2 DEF SliceType
  <2> QED BY <2>3 DEF c
<1> HIDE DEF x
<1>6. LocalOK(x)
  BY <1>1, <1>3, <1>5, Constants DEF LocalOK, Holding, Asking, SliceType, Stages
<1>7. files' \in SUBSET Slices /\ files' \subseteq files /\ trouble' \in Nat /\ files' = files
  BY <1>1, LedgerFacts
<1>8. /\ x.pc \in Asking /\ sl[s].pc \in Asking /\ sl[s].pc \in Holding
      /\ x.pc \notin {"idle", "lock", "recover", "gate", "closing", "reconcile", "work",
                      "claimed", "begun", "admitted", "persist", "dispose", "settle"}
  BY <1>1, <1>5 DEF Asking, Holding
<1>9. WorkOK(s, sl[s]) /\ x.stage = "document" => files' \subseteq {s}
  BY <1>1, <1>5, <1>7 DEF WorkOK
<1>10. sl[s].pc \notin {"idle", "lock", "recover", "record"}
  BY <1>1
<1> QED BY <1>1, <1>2, <1>5, <1>6, <1>7, <1>8, <1>9, <1>10, FieldStep

(* The outcome cannot be committed.                                        *)
LEMMA RecordFailsStep ==
  ASSUME BackInv, NEW s \in Slices, RecordFails(s)
  PROVE  BackInv'
<1> DEFINE pc == IF sl[s].stage = "document" THEN "f2" ELSE "closing"
           x == [sl[s] EXCEPT !.stop = "error", !.pc = pc]
<1>1. /\ sl[s] \in SliceType /\ LocalOK(sl[s]) /\ sl[s].pc = "record"
      /\ UNCHANGED <<ledgerVars, files>> /\ trouble' \in Nat
      /\ sl \in [Slices -> SliceType] /\ sl[s].item \in StageItems(sl[s].stage)
  BY SliceFacts, Counted DEF RecordFails, LocalOK, Holding, Asking
<1>2. sl' = [sl EXCEPT ![s] = x]
  BY <1>1 DEF RecordFails
<1>3. pc \in PCs /\ pc \in {"f2", "closing"} /\ (pc = "f2" => sl[s].stage = "document")
      /\ "error" \in Stops
  BY DEF PCs, Stops
<1> HIDE DEF pc
<1>4. /\ x \in SliceType /\ x.item = sl[s].item /\ x.stage = sl[s].stage /\ x.up = sl[s].up
      /\ x.stop = "error" /\ x.got = sl[s].got /\ x.pc = pc
  BY <1>1, <1>3 DEF SliceType
<1> HIDE DEF x
<1>5. LocalOK(x)
  BY <1>1, <1>3, <1>4 DEF LocalOK, Holding, Asking
<1>6. files' \in SUBSET Slices /\ files' \subseteq files /\ files' = files
  BY <1>1, LedgerFacts
<1>7. /\ x.pc \in {"f2", "closing"} /\ sl[s].pc \in Holding
      /\ x.pc \notin Asking /\ sl[s].pc \notin {"idle", "lock", "recover"}
  BY <1>1, <1>3, <1>4 DEF Asking, Holding
<1>8. WorkOK(s, sl[s]) /\ x.stage = "document" => files' \subseteq {s}
  BY <1>1, <1>4, <1>6 DEF WorkOK
<1> QED BY <1>1, <1>2, <1>4, <1>5, <1>6, <1>7, <1>8, FieldStep

(* The session ends under a living process.                                *)
LEMMA LoseStep ==
  ASSUME BackInv, NEW s \in Slices, LoseSession(s)
  PROVE  BackInv'
<1> DEFINE x == [sl[s] EXCEPT !.up = FALSE]
<1>1. /\ sl[s] \in SliceType /\ LocalOK(sl[s]) /\ SpoolOK(s, sl[s]) /\ sl[s].pc \in Asking
      /\ UNCHANGED <<tables, outside, files>> /\ trouble' \in Nat
      /\ lock' = lock \/ lock = s
  BY SliceFacts, Counted DEF LoseSession, Unlocked, Asking
<1>2. sl' = [sl EXCEPT ![s] = x]
  BY SliceFacts DEF LoseSession
<1>3. /\ x \in SliceType /\ x.item = sl[s].item /\ x.stage = sl[s].stage /\ ~x.up
      /\ x.stop = sl[s].stop /\ x.got = sl[s].got /\ x.pc = sl[s].pc
  BY <1>1 DEF SliceType
<1> HIDE DEF x
<1>4. /\ sl' \in [Slices -> SliceType] /\ sl'[s] = x
      /\ \A t \in Slices \ {s} : sl'[t] = sl[t]
  BY <1>2, <1>3, Turn
<1>5. LocalOK(sl[s])' /\ SpoolOK(s, sl[s])'
  BY <1>1, <1>3, <1>4 DEF LocalOK, SpoolOK, Open, StageItems, tables
<1>6. SliceOK(s, sl[s])'
  BY <1>1, <1>3, <1>4, <1>5 DEF SliceOK, AtWork, Asking
<1>7. files' \in SUBSET Slices /\ files' \subseteq files
  BY <1>1, LedgerFacts
<1> QED BY <1>1, <1>4, <1>6, <1>7, OwnStep

(* The reconciliation is done.                                             *)
LEMMA ReconciledStep ==
  ASSUME BackInv, NEW s \in Slices, DiscoveryReconciled(s) \/ DocumentsPlanned(s)
  PROVE  BackInv'
<1> DEFINE x == [sl[s] EXCEPT !.pc = "work"]
<1>1. /\ sl[s] \in SliceType /\ LocalOK(sl[s]) /\ sl[s].pc = "reconcile"
      /\ UNCHANGED <<ledgerVars, files, trouble>> /\ sl' = [sl EXCEPT ![s] = x]
  BY SliceFacts DEF DiscoveryReconciled, DocumentsPlanned, Reconciling
<1>2. "work" \in PCs
  BY DEF PCs
<1>3. /\ x \in SliceType /\ x.item = sl[s].item /\ x.stage = sl[s].stage /\ x.up = sl[s].up
      /\ x.stop = sl[s].stop /\ x.pc = "work"
  BY <1>1, <1>2 DEF SliceType
<1> HIDE DEF x
<1>4. LocalOK(x) /\ sl[s].stop = "none"
  BY <1>1, <1>3 DEF LocalOK, Holding, Asking
<1>5. files' \in SUBSET Slices /\ files' \subseteq files /\ files' = files /\ trouble' \in Nat
  BY <1>1, LedgerFacts
<1>6. WorkOK(s, sl[s]) /\ x.stage = "document" => files' = {}
  BY <1>1, <1>3, <1>5 DEF WorkOK
<1> QED BY <1>1, <1>3, <1>4, <1>5, <1>6, FieldStep DEF Asking, Holding

(* The gate of the document stage, and the sweep of the temporary root.    *)
LEMMA GateStep ==
  ASSUME BackInv, NEW s \in Slices, GateAndSweep(s)
  PROVE  BackInv'
<1>1. /\ sl[s] \in SliceType /\ LocalOK(sl[s]) /\ sl[s].pc = "gate" /\ sl[s].stop = "none"
      /\ sl[s].up /\ UNCHANGED ledgerVars /\ sl \in [Slices -> SliceType]
  BY SliceFacts DEF GateAndSweep, LocalOK, Asking
<1>2. {"reconcile", "closing"} \subseteq PCs /\ {"refused", "cleanup_stop"} \subseteq Stops
  BY DEF PCs, Stops
<1>3. CASE files' = {} /\ sl' = [sl EXCEPT ![s].pc = "reconcile"] /\ UNCHANGED trouble
  <2> DEFINE x == [sl[s] EXCEPT !.pc = "reconcile"]
  <2>1. /\ x \in SliceType /\ x.item = sl[s].item /\ x.stage = sl[s].stage /\ x.up = sl[s].up
        /\ x.stop = sl[s].stop /\ x.pc = "reconcile" /\ sl' = [sl EXCEPT ![s] = x]
    BY <1>1, <1>2, <1>3 DEF SliceType
  <2> HIDE DEF x
  <2>2. LocalOK(x)
    BY <1>1, <2>1 DEF LocalOK, Holding, Asking
  <2>3. files' \in SUBSET Slices /\ files' \subseteq files /\ trouble' \in Nat
    BY <1>3, Counted
  <2> QED BY <1>1, <1>3, <2>1, <2>2, <2>3, FieldStep DEF Asking, Holding
<1>4. ASSUME NEW stop \in {"refused", "cleanup_stop"}, UNCHANGED files, trouble' \in Nat,
             sl' = [sl EXCEPT ![s].pc = "closing", ![s].stop = stop]
      PROVE  BackInv'
  <2> DEFINE x == [sl[s] EXCEPT !.pc = "closing", !.stop = stop]
  <2>1. sl' = [sl EXCEPT ![s] = x]
    BY <1>1, <1>4
  <2>2. /\ x \in SliceType /\ x.item = sl[s].item /\ x.stage = sl[s].stage /\ x.up = sl[s].up
        /\ x.stop = stop /\ x.pc = "closing"
    BY <1>1, <1>2, <1>4 DEF SliceType
  <2> HIDE DEF x
  <2>3. LocalOK(x)
    BY <1>1, <1>4, <2>2 DEF LocalOK, Holding, Asking
  <2>4. files' \in SUBSET Slices /\ files' \subseteq files
    BY <1>4, LedgerFacts
  <2> QED BY <1>1, <1>4, <2>1, <2>2, <2>3, <2>4, FieldStep DEF Asking, Holding
<1> QED BY <1>3, <1>4, Counted DEF GateAndSweep, Swept

(* A pass begins: the document may now be in the temporary root.           *)
LEMMA BeginPassStep ==
  ASSUME BackInv, NEW s \in Slices, BeginPass(s)
  PROVE  BackInv'
<1> DEFINE x == [sl[s] EXCEPT !.pc = "fetch", !.pass = @ + 1, !.n = @ + 1, !.hop = 0,
                              !.got = "none"]
<1>1. /\ sl[s] \in SliceType /\ LocalOK(sl[s]) /\ sl[s].pc = "claimed"
      /\ sl[s].stage = "document" /\ UNCHANGED <<ledgerVars, trouble>>
      /\ files' = files \cup {s} /\ sl \in [Slices -> SliceType] /\ sl[s].up
      /\ lock = s
  BY SliceFacts DEF BeginPass, LocalOK, Asking
<1>2. sl' = [sl EXCEPT ![s] = x]
  BY <1>1 DEF BeginPass
<1>3. "fetch" \in PCs /\ "none" \in Gots /\ sl[s].pass + 1 \in Nat /\ sl[s].n + 1 \in Nat
  BY <1>1 DEF PCs, Gots, SliceType
<1>4. /\ x \in SliceType /\ x.item = sl[s].item /\ x.stage = sl[s].stage /\ x.up = sl[s].up
      /\ x.stop = sl[s].stop /\ x.pc = "fetch"
  <2> DEFINE a == sl[s].pass + 1
             b == sl[s].n + 1
  <2>1. a \in Nat /\ b \in Nat /\ x = [sl[s] EXCEPT !.pc = "fetch", !.pass = a, !.n = b,
                                                    !.hop = 0, !.got = "none"]
    BY <1>3
  <2> HIDE DEF a, b, x
  <2> QED BY <1>1, <1>3, <2>1 DEF SliceType
<1> HIDE DEF x
<1>5. LocalOK(x)
  BY <1>1, <1>4 DEF LocalOK, Holding, Asking
<1>6. files' \in SUBSET Slices /\ trouble' \in Nat
  BY <1>1, LedgerFacts
<1>7. WorkOK(s, sl[s]) => files' \subseteq {s}
  BY <1>1 DEF WorkOK
<1> QED BY <1>1, <1>2, <1>4, <1>5, <1>6, <1>7, FieldStep DEF Asking, Holding

(* The temporary root fails before anything is created.                    *)
LEMMA LocalFailureStep ==
  ASSUME BackInv, NEW s \in Slices, LocalFailure(s)
  PROVE  BackInv'
<1> DEFINE x == [sl[s] EXCEPT !.pc = "dispose", !.got = "local"]
<1>1. /\ sl[s] \in SliceType /\ LocalOK(sl[s]) /\ sl[s].pc = "claimed"
      /\ sl[s].stage = "document" /\ UNCHANGED <<ledgerVars, files, trouble>>
      /\ sl \in [Slices -> SliceType] /\ sl[s].up
  BY SliceFacts DEF LocalFailure, LocalOK, Asking
<1>2. sl' = [sl EXCEPT ![s] = x]
  BY <1>1 DEF LocalFailure
<1>3. "dispose" \in PCs /\ "local" \in Gots /\ "local" \in Found
  BY DEF PCs, Gots, Found
<1>4. /\ x \in SliceType /\ x.item = sl[s].item /\ x.stage = sl[s].stage /\ x.up = sl[s].up
      /\ x.stop = sl[s].stop /\ x.pc = "dispose" /\ x.got = "local"
  BY <1>1, <1>3 DEF SliceType
<1> HIDE DEF x
<1>5. LocalOK(x)
  BY <1>1, <1>3, <1>4 DEF LocalOK, Holding, Asking
<1>6. files' \in SUBSET Slices /\ trouble' \in Nat /\ files' = files
  BY <1>1, LedgerFacts
<1>7. WorkOK(s, sl[s]) => files' = {}
  BY <1>1 DEF WorkOK
<1> QED BY <1>1, <1>2, <1>4, <1>5, <1>6, <1>7, FieldStep DEF Asking, Holding

(* A request is refused inside F2, or it goes elsewhere.                   *)
LEMMA FetchStep ==
  ASSUME BackInv, NEW s \in Slices, RefusedFetch(s) \/ FetchAgain(s)
  PROVE  BackInv'
<1>1. /\ sl[s] \in SliceType /\ LocalOK(sl[s]) /\ sl[s].pc \in {"fetch", "f2"}
      /\ UNCHANGED <<ledgerVars, files, trouble>> /\ sl \in [Slices -> SliceType]
  BY SliceFacts DEF RefusedFetch, FetchAgain
<1>2. /\ {"f2", "fetch"} \subseteq PCs /\ "refused" \in Gots /\ "refused" \in Stops
  BY DEF PCs, Gots, Stops, Found
<1>3. ASSUME NEW x \in SliceType, sl' = [sl EXCEPT ![s] = x], x.item = sl[s].item,
             x.stage = sl[s].stage, x.up = sl[s].up, x.pc \in {"f2", "fetch"},
             x.stop = sl[s].stop \/ (sl[s].stop = "none" /\ x.stop = "refused")
      PROVE  BackInv'
  <2>1. LocalOK(x)
    BY <1>1, <1>3 DEF LocalOK, Holding, Asking
  <2>2. files' \in SUBSET Slices /\ trouble' \in Nat /\ files' = files
    BY <1>1, LedgerFacts
  <2>3. WorkOK(s, sl[s]) => files' \subseteq {s}
    BY <1>1, <2>2 DEF WorkOK, LocalOK
  <2> QED BY <1>1, <1>3, <2>1, <2>2, <2>3, FieldStep DEF Asking, Holding
<1>4. CASE RefusedFetch(s)
  <2> DEFINE stop == IF sl[s].stop = "none" THEN "refused" ELSE sl[s].stop
             x == [sl[s] EXCEPT !.pc = "f2", !.got = "refused", !.stop = stop]
  <2>1. sl' = [sl EXCEPT ![s] = x] /\ stop \in Stops
    BY <1>1, <1>2, <1>4 DEF RefusedFetch, SliceType
  <2>2. stop = sl[s].stop \/ (sl[s].stop = "none" /\ stop = "refused")
    OBVIOUS
  <2> HIDE DEF stop
  <2>3. /\ x \in SliceType /\ x.item = sl[s].item /\ x.stage = sl[s].stage /\ x.up = sl[s].up
        /\ x.stop = stop /\ x.pc = "f2"
    BY <1>1, <1>2, <2>1 DEF SliceType
  <2> HIDE DEF x
  <2> QED BY <1>3, <2>1, <2>2, <2>3
<1>5. CASE FetchAgain(s)
  <2> DEFINE h == sl[s].hop + 1
             x == [sl[s] EXCEPT !.pc = "fetch", !.hop = h]
  <2>1. sl' = [sl EXCEPT ![s] = x] /\ h \in Nat
    BY <1>1, <1>5 DEF FetchAgain, SliceType
  <2> HIDE DEF h
  <2>2. /\ x \in SliceType /\ x.item = sl[s].item /\ x.stage = sl[s].stage /\ x.up = sl[s].up
        /\ x.stop = sl[s].stop /\ x.pc = "fetch"
    BY <1>1, <1>2, <2>1 DEF SliceType
  <2> HIDE DEF x
  <2> QED BY <1>3, <2>1, <2>2
<1> QED BY <1>4, <1>5

(* What F2 makes of an answer.                                             *)
LEMMA DispositionFacts ==
  ASSUME NEW got
  PROVE  /\ Dispositions(got) \subseteq Found \ Leftovers
         /\ CleanupFailures(got) \subseteq Leftovers
         /\ CleanupFailures("ok") = Leftovers
<1>1. BodyDispositions \subseteq {"terminal", "retryable", "persist", "consumer"}
  BY DEF BodyDispositions
<1>2. Dispositions(got) \subseteq {"terminal", "retryable", "persist", "consumer", "refused"}
  BY <1>1 DEF Dispositions
<1>3. {"terminal", "retryable", "persist", "consumer", "refused"} \subseteq Found \ Leftovers
  BY DEF Found, Leftovers
<1>4. CleanupFailures(got) \subseteq Leftovers /\ CleanupFailures("ok") = Leftovers
  BY DEF CleanupFailures, Leftovers
<1> QED BY <1>2, <1>3, <1>4

(* The end of a pass.                                                      *)
LEMMA F2EndsStep ==
  ASSUME BackInv, NEW s \in Slices, F2Ends(s)
  PROVE  BackInv'
<1>1. /\ sl[s] \in SliceType /\ LocalOK(sl[s]) /\ sl[s].pc = "f2"
      /\ UNCHANGED ledgerVars /\ sl \in [Slices -> SliceType] /\ sl[s].stage = "document"
  BY SliceFacts DEF F2Ends, LocalOK
<1>2. "dispose" \in PCs /\ Found \subseteq Gots /\ Leftovers \subseteq Found
  BY DEF PCs, Gots, Found
<1>3. ASSUME NEW k \in Found, sl' = [sl EXCEPT ![s].pc = "dispose", ![s].got = k],
             files' \subseteq files, trouble' \in Nat,
             k \in Leftovers \/ files' = files \ {s}
      PROVE  BackInv'
  <2> DEFINE x == [sl[s] EXCEPT !.pc = "dispose", !.got = k]
  <2>1. sl' = [sl EXCEPT ![s] = x]
    BY <1>1, <1>3
  <2>2. /\ x \in SliceType /\ x.item = sl[s].item /\ x.stage = sl[s].stage /\ x.up = sl[s].up
        /\ x.stop = sl[s].stop /\ x.pc = "dispose" /\ x.got = k
    BY <1>1, <1>2, <1>3 DEF SliceType
  <2> HIDE DEF x
  <2>3. LocalOK(x)
    BY <1>1, <1>3, <2>2 DEF LocalOK, Holding, Asking
  <2>4. files' \in SUBSET Slices
    BY <1>3, LedgerFacts
  <2>5. WorkOK(s, sl[s]) => files' \subseteq {s} /\ (k \notin Leftovers => files' = {})
    BY <1>1, <1>3 DEF WorkOK
  <2> QED BY <1>1, <1>3, <2>1, <2>2, <2>3, <2>4, <2>5, FieldStep DEF Asking, Holding
<1>4. CASE /\ \E k \in Dispositions(sl[s].got) :
                 sl' = [sl EXCEPT ![s].pc = "dispose", ![s].got = k]
           /\ files' = files \ {s} /\ UNCHANGED trouble
  <2>1. \A k \in Dispositions(sl[s].got) : k \in Found
    BY DispositionFacts
  <2>2. files' \subseteq files /\ trouble' \in Nat
    BY <1>4, Counted
  <2> QED BY <1>3, <1>4, <2>1, <2>2
<1>5. CASE /\ \E k \in CleanupFailures(sl[s].got) :
                 sl' = [sl EXCEPT ![s].pc = "dispose", ![s].got = k]
           /\ Happens("cleanup") /\ UNCHANGED files
  <2>1. \A k \in CleanupFailures(sl[s].got) : k \in Found /\ k \in Leftovers
    BY <1>2, DispositionFacts
  <2>2. files' \subseteq files /\ trouble' \in Nat
    BY <1>5, Counted
  <2> QED BY <1>3, <1>5, <2>1, <2>2
<1> QED BY <1>4, <1>5 DEF F2Ends

-----------------------------------------------------------------------------
(* Events of an item                                                       *)

(* One event.                                                              *)
LEMMA EventFacts ==
  ASSUME NEW r \in ItemType, NEW to \in States, NEW action, NEW s \in Slices \cup {None}
  PROVE  LET e == AfterEvent(r, to, action, s) IN
         /\ e \in ItemType /\ e.state = to
         /\ e.lease = IF to \in IN_FLIGHT THEN s ELSE None
         /\ e.claims = CASE action = "claim" -> r.claims + 1
                         [] action = "requeue" -> 0
                         [] OTHER -> r.claims
         /\ e.sent = IF action = "requeue" THEN 0 ELSE r.sent
<1> DEFINE c == CASE action = "claim" -> r.claims + 1
                  [] action = "requeue" -> 0
                  [] OTHER -> r.claims
           n == IF action = "requeue" THEN 0 ELSE r.sent
           h == IF to \in IN_FLIGHT THEN s ELSE None
<1>1. c \in Nat /\ n \in Nat /\ h \in Slices \cup {None}
  <2>1. r.claims \in Nat /\ r.sent \in Nat
    BY DEF ItemType
  <2>2. c \in Nat
    BY <2>1
  <2>3. n \in Nat /\ h \in Slices \cup {None}
    BY <2>1
  <2> QED BY <2>2, <2>3
<1>2. AfterEvent(r, to, action, s)
        = [r EXCEPT !.state = to, !.lease = h, !.claims = c, !.sent = n]
  BY DEF AfterEvent
<1> HIDE DEF c, n, h
<1>3. LET e == [r EXCEPT !.state = to, !.lease = h, !.claims = c, !.sent = n] IN
        e \in ItemType /\ e.state = to /\ e.lease = h /\ e.claims = c /\ e.sent = n
  BY <1>1 DEF ItemType
<1> QED BY <1>2, <1>3 DEF c, n, h

(* The events of a transaction, one after the other: a single one.         *)
LEMMA OneEvent ==
  ASSUME NEW r, NEW s, NEW t, NEW a
  PROVE  AfterEvents(r, << <<t, a>> >>, s) = AfterEvent(r, t, a, s)
BY DEF AfterEvents

(* Two events.                                                             *)
LEMMA TwoEvents ==
  ASSUME NEW r, NEW s, NEW t, NEW a, NEW u, NEW b
  PROVE  AfterEvents(r, << <<t, a>>, <<u, b>> >>, s)
           = AfterEvent(AfterEvent(r, t, a, s), u, b, s)
BY DEF AfterEvents

(* Three events.                                                           *)
LEMMA ThreeEvents ==
  ASSUME NEW r, NEW s, NEW t, NEW a, NEW u, NEW b, NEW v, NEW c
  PROVE  AfterEvents(r, << <<t, a>>, <<u, b>>, <<v, c>> >>, s)
           = AfterEvent(AfterEvent(AfterEvent(r, t, a, s), u, b, s), v, c, s)
BY DEF AfterEvents

(* A slice at work holds the lock, and nothing is open before it asks.     *)
LEMMA WorkFacts ==
  ASSUME BackInv, NEW s \in Slices, sl[s].up,
         sl[s].pc \notin {"idle", "lock", "recover"}
  PROVE  /\ lock = s /\ WorkOK(s, sl[s]) /\ ActiveLeases = {s}
         /\ sl[s].pc \notin Asking /\ sl[s].stop # "error" => \A i \in Items : ~Open(i)
BY SliceFacts DEF AtWork, WorkOK

(* A slice that reconciles appends an event to an item.                    *)
LEMMA ReconcileItem ==
  ASSUME BackInv, NEW s \in Slices, sl[s].pc = "reconcile", UNCHANGED sl,
         NEW i \in Items, NEW r \in ItemType, item' = [item EXCEPT ![i] = r],
         r.state \notin IN_FLIGHT,
         i \in Discovery => r.sent = item[i].sent /\ r.sent <= r.claims,
         i \in Discovery /\ r.sent > 0 /\ attempt[i].outcome = "ok" => r.state = "succeeded",
         UNCHANGED <<lease, attempt, blocks, results, used, f1, f5, outside, lock,
                     files, trouble>>
  PROVE  BackInv'
<1>1. /\ sl[s].up /\ sl[s].stop = "none" /\ lock = s /\ AtWork(sl[s])
      /\ \A j \in Items : ~Open(j)
  BY SliceFacts, WorkFacts DEF LocalOK, Asking, AtWork
<1>2. /\ f5' \in SUBSET Documents /\ files' \in SUBSET Slices /\ trouble' \in Nat
      /\ sl' \in [Slices -> SliceType] /\ LedgerOK
      /\ used \in Nat /\ p2used \in Nat
  BY LedgerFacts, SliceFacts DEF BackInv, TypeOK, OutsideOK
<1>3. UNCHANGED <<p2blocks, p2used>>
  BY DEF outside
<1>4. WorkOK(s, sl[s])'
  BY <1>1, <1>2, <1>3, WorkKept DEF ActiveLeases, Holding, Asking
<1>5. SliceOK(s, sl[s])'
  BY <1>1, <1>4, Kept
<1>6. i \in Discovery /\ r.sent > 0 /\ attempt[i].outcome = "ok" =>
        f1[i].run = "requested" \/ f1[i].won # "none"
  <2> SUFFICES ASSUME i \in Discovery, r.sent > 0, attempt[i].outcome = "ok",
                      f1[i].run # "requested", f1[i].won = "none"
               PROVE  FALSE
    OBVIOUS
  <2> QED BY <1>2 DEF LedgerOK, Evident
<1>7. r.state # "processing"
  BY DEF IN_FLIGHT
<1> QED BY <1>1, <1>2, <1>5, <1>6, <1>7, ItemStep

(* A run that finished: only an answer that was ok makes it a success.     *)
LEMMA RunFacts ==
  ASSUME BackInv, NEW i \in Discovery
  PROVE  /\ f1[i] \in RunType /\ attempt[i] \in AttemptType /\ item[i] \in ItemType
         /\ Evident(i) /\ Owned(i)
         /\ \A r \in SUCCESS : /\ RunFinished(i, r) \in RunType
                               /\ RunFinished(i, r).run = "finished"
                               /\ attempt[i].outcome = "ok" =>
                                    RunFinished(i, r).won = "succeeded"
                               /\ f1[i].won # "none" => RunFinished(i, r).won # "none"
         /\ f1[i].won \in {"none", "succeeded"}
<1>1. /\ f1[i] \in RunType /\ attempt[i] \in AttemptType /\ item[i] \in ItemType
      /\ Evident(i) /\ Owned(i)
  BY LedgerFacts, Constants DEF LedgerOK
<1>2. \A r \in SUCCESS : /\ RunFinished(i, r) \in RunType
                         /\ RunFinished(i, r).run = "finished"
                         /\ attempt[i].outcome = "ok" => RunFinished(i, r).won = "succeeded"
                         /\ f1[i].won # "none" => RunFinished(i, r).won # "none"
  <2> TAKE r \in SUCCESS
  <2> DEFINE w == IF attempt[i].outcome = "ok" THEN r ELSE f1[i].won
  <2>1. RunFinished(i, r) = [f1[i] EXCEPT !.run = "finished", !.won = w]
    BY DEF RunFinished
  <2>2. /\ w \in {"none", "succeeded"} /\ (attempt[i].outcome = "ok" => w = "succeeded")
        /\ (f1[i].won # "none" => w # "none")
    BY <1>1 DEF SUCCESS, RunType
  <2> HIDE DEF w
  <2> QED BY <1>1, <2>1, <2>2 DEF RunType
<1> QED BY <1>1, <1>2 DEF RunType

(* The holder of the lock changes the run of a request.                    *)
LEMMA RunStep ==
  ASSUME BackInv, NEW s \in Slices, lock = s, NEW i \in Discovery, NEW r \in RunType,
         f1' = [f1 EXCEPT ![i] = r], ~Open(i),
         item[i].sent > 0 /\ attempt[i].outcome = "ok" => r.won # "none",
         UNCHANGED <<item, lease, attempt, blocks, results, used, f5, outside, files, trouble>>,
         sl' \in [Slices -> SliceType], \A t \in Slices \ {s} : sl'[t] = sl[t],
         SliceOK(s, sl[s])'
  PROVE  BackInv'
<1>1. f1 \in [Discovery -> RunType] /\ LedgerOK
  BY LedgerFacts
<1>2. TablesOK' /\ OutsideOK' /\ files' \in SUBSET Slices /\ trouble' \in Nat
  BY <1>1 DEF outside, BackInv, TypeOK, TablesOK, OutsideOK, MemoryOK
<1>3. ActiveLeases' = ActiveLeases
  BY DEF ActiveLeases
<1>4. \A j \in Items : Owned(j)'
  BY <1>1, <1>3 DEF LedgerOK, Owned, Open
<1>5. \A j \in Discovery : Evident(j)'
  <2> TAKE j \in Discovery
  <2>1. Evident(j) /\ f1'[j] = IF j = i THEN r ELSE f1[j]
    BY <1>1 DEF LedgerOK
  <2> QED BY <2>1 DEF Evident, Open
<1>6. LedgerOK'
  BY <1>1, <1>4, <1>5 DEF LedgerOK, Open
<1> QED BY <1>2, <1>6, HolderStep

(* An abandoned item: its run is finished, then the item follows.          *)
LEMMA FinishAbandonedStep ==
  ASSUME BackInv, NEW s \in Slices, NEW i \in Discovery, FinishAbandonedRun(s, i)
  PROVE  BackInv'
<1>1. /\ sl[s].pc = "reconcile" /\ UNCHANGED sl
      /\ UNCHANGED <<item, lease, attempt, blocks, results, used, f5, outside, lock>>
      /\ UNCHANGED <<files, trouble>>
  BY DEF FinishAbandonedRun, Reconciling
<1>2. PICK r \in SUCCESS : f1' = [f1 EXCEPT ![i] = RunFinished(i, r)]
  BY DEF FinishAbandonedRun
<1>3. /\ sl[s].up /\ sl[s].stop = "none" /\ lock = s /\ AtWork(sl[s])
      /\ ~Open(i) /\ sl' \in [Slices -> SliceType] /\ used \in Nat /\ p2used \in Nat
  BY <1>1, SliceFacts, WorkFacts, LedgerFacts, Constants
     DEF LocalOK, Asking, AtWork, BackInv, TypeOK, OutsideOK
<1> DEFINE f == RunFinished(i, r)
<1>4. f \in RunType /\ (attempt[i].outcome = "ok" => f.won # "none")
      /\ (f1[i].won # "none" => f.won # "none")
  BY RunFacts
<1> HIDE DEF f
<1>5. f1' = [f1 EXCEPT ![i] = f]
  BY <1>2 DEF f
<1>6. UNCHANGED <<p2blocks, p2used>>
  BY <1>1 DEF outside
<1>7. WorkOK(s, sl[s])'
  <2>1. \A j \in Discovery : f1[j].won # "none" => f1'[j].won # "none"
    BY <1>4, <1>5, LedgerFacts
  <2>2. ActiveLeases' = ActiveLeases
    BY <1>1 DEF ActiveLeases
  <2> QED BY <1>1, <1>3, <1>6, <2>1, <2>2, WorkKept
<1>8. SliceOK(s, sl[s])'
  BY <1>1, <1>3, <1>7, Kept
<1> QED BY <1>1, <1>3, <1>4, <1>5, <1>8, RunStep

(* An abandoned discovery item follows the evidence of its run.            *)
LEMMA PromoteDiscoveryStep ==
  ASSUME BackInv, NEW s \in Slices, NEW i \in Discovery, PromoteDiscovery(s, i)
  PROVE  BackInv'
<1> DEFINE to == IF f1[i].won # "none" THEN f1[i].won ELSE "pending"
           r == AfterEvent(item[i], to, "promote", None)
<1>1. /\ sl[s].pc = "reconcile" /\ UNCHANGED sl /\ i \in Items /\ ~UnfinishedRun(i)
      /\ UNCHANGED <<lease, attempt, blocks, results, used, f1, f5, outside, lock>>
      /\ UNCHANGED <<files, trouble>>
      /\ item' = [item EXCEPT ![i] = r]
  BY Constants DEF PromoteDiscovery, Reconciling
<1>2. to \in {"succeeded", "pending"} /\ to \in States /\ item[i] \in ItemType
      /\ Evident(i)
  BY RunFacts DEF States
<1>3. item[i].sent > 0 /\ attempt[i].outcome = "ok" => to = "succeeded"
  BY <1>1, <1>2, RunFacts DEF Evident, UnfinishedRun, Ingestible, NotIngestible
<1> HIDE DEF to
<1>4. r \in ItemType /\ r.state = to /\ r.claims = item[i].claims /\ r.sent = item[i].sent
  BY <1>2, EventFacts
<1> HIDE DEF r
<1>5. r.state \notin IN_FLIGHT /\ r.sent <= r.claims
  BY <1>2, <1>4 DEF IN_FLIGHT, Evident
<1> QED BY <1>1, <1>2, <1>3, <1>4, <1>5, ReconcileItem

(* The decision at the item maximum.                                       *)
LEMMA TerminaliseDiscoveryStep ==
  ASSUME BackInv, NEW s \in Slices, NEW i \in Discovery, TerminaliseDiscovery(s, i)
  PROVE  BackInv'
<1> DEFINE final == EvidenceOr(i, "failed")
           r == AfterEvents(item[i], TerminalEvents(i), s)
           c == AfterEvent(item[i], "requesting", "claim", s)
<1>1. /\ sl[s].pc = "reconcile" /\ UNCHANGED sl /\ i \in Items
      /\ item[i].state \in {"pending", "retry_wait"}
      /\ UNCHANGED <<lease, attempt, blocks, results, used, f1, f5, outside, lock>>
      /\ UNCHANGED <<files, trouble>>
      /\ item' = [item EXCEPT ![i] = r]
  BY Constants DEF TerminaliseDiscovery, Reconciling, AtMaximum, Claimable
<1>2. /\ final \in {"succeeded", "failed"} /\ final \in States /\ item[i] \in ItemType
      /\ Evident(i) /\ "requesting" \in States /\ item[i].claims \in Nat /\ item[i].sent \in Nat
  BY RunFacts DEF EvidenceOr, States, ItemType
<1>3. ~(item[i].sent > 0 /\ attempt[i].outcome = "ok")
  BY <1>1, <1>2 DEF Evident
<1>4. \/ r = AfterEvent(item[i], final, "record", s)
      \/ r = AfterEvent(c, final, "record", s)
  <2>1. \/ TerminalEvents(i) = << <<final, "record">> >>
        \/ TerminalEvents(i) = << <<"requesting", "claim">>, <<final, "record">> >>
    BY DEF TerminalEvents
  <2>2. AfterEvents(item[i], << <<final, "record">> >>, s)
              = AfterEvent(item[i], final, "record", s)
    BY OneEvent
  <2>3. AfterEvents(item[i], << <<"requesting", "claim">>, <<final, "record">> >>, s)
              = AfterEvent(c, final, "record", s)
    BY TwoEvents
  <2> QED BY <2>1, <2>2, <2>3, Zenon
<1>5. c \in ItemType /\ c.claims = item[i].claims + 1 /\ c.sent = item[i].sent
  BY <1>2, EventFacts
<1> HIDE DEF c, r, final
<1>6. ASSUME NEW b \in ItemType, r = AfterEvent(b, final, "record", s), b.sent = item[i].sent,
             b.claims \in Nat, b.claims >= item[i].claims
      PROVE  r \in ItemType /\ r.state = final /\ r.sent = item[i].sent /\ r.claims >= item[i].claims
  BY <1>2, <1>6, EventFacts
<1>7. r \in ItemType /\ r.state = final /\ r.sent = item[i].sent /\ r.claims >= item[i].claims
  BY <1>2, <1>4, <1>5, <1>6
<1>8. r.state \notin IN_FLIGHT /\ r.sent <= r.claims
  BY <1>2, <1>7 DEF IN_FLIGHT, Evident, ItemType
<1> QED BY <1>1, <1>3, <1>7, <1>8, ReconcileItem

(* Documents: reconciliation and planning from evidence.                   *)
LEMMA PromoteDocumentStep ==
  ASSUME BackInv, NEW s \in Slices, NEW i \in Documents,
         PromoteDocument(s, i) \/ PlanDocument(s, i)
  PROVE  BackInv'
<1> DEFINE to == IF i \in f5 THEN "persisted" ELSE "pending"
           r == AfterEvent(item[i], to, "promote", None)
<1>1. /\ sl[s].pc = "reconcile" /\ UNCHANGED sl /\ i \in Items /\ i \notin Discovery
      /\ UNCHANGED <<lease, attempt, blocks, results, used, f1, f5, outside, lock>>
      /\ UNCHANGED <<files, trouble>>
      /\ item' = [item EXCEPT ![i] = r]
  BY Constants DEF PromoteDocument, PlanDocument, Reconciling
<1>2. to \in States /\ to \notin IN_FLIGHT /\ item[i] \in ItemType
  BY <1>1, LedgerFacts DEF States, IN_FLIGHT
<1> HIDE DEF to
<1>3. r \in ItemType /\ r.state = to
  BY <1>2, EventFacts
<1> HIDE DEF r
<1> QED BY <1>1, <1>2, <1>3, ReconcileItem

(* The decision at the item maximum, for a document.                       *)
LEMMA TerminaliseDocumentStep ==
  ASSUME BackInv, NEW s \in Slices, NEW i \in Documents, TerminaliseDocument(s, i)
  PROVE  BackInv'
<1> DEFINE r == AfterEvents(item[i], TerminalDocument(i), s)
           c == AfterEvent(item[i], "requesting", "claim", s)
           w == AfterEvent(c, "retry_wait", "record", s)
<1>1. /\ sl[s].pc = "reconcile" /\ UNCHANGED sl /\ i \in Items /\ i \notin Discovery
      /\ UNCHANGED <<lease, attempt, blocks, results, used, f1, f5, outside, lock>>
      /\ UNCHANGED <<files, trouble>>
      /\ item' = [item EXCEPT ![i] = r]
  BY Constants DEF TerminaliseDocument, Reconciling
<1>2. /\ {"requesting", "retry_wait", "failed", "persisted"} \subseteq States
      /\ {"failed", "persisted"} \cap IN_FLIGHT = {} /\ item[i] \in ItemType
  BY <1>1, LedgerFacts DEF States, IN_FLIGHT
<1>3. \/ r = AfterEvent(item[i], "persisted", "promote", s)
      \/ r = AfterEvent(item[i], "failed", "record", s)
      \/ r = AfterEvent(w, "failed", "record", s)
  <2>1. \/ TerminalDocument(i) = << <<"persisted", "promote">> >>
        \/ TerminalDocument(i) = << <<"failed", "record">> >>
        \/ TerminalDocument(i) = << <<"requesting", "claim">>, <<"retry_wait", "record">>,
                                    <<"failed", "record">> >>
    BY DEF TerminalDocument
  <2>2. AfterEvents(item[i], << <<"persisted", "promote">> >>, s)
              = AfterEvent(item[i], "persisted", "promote", s)
    BY OneEvent
  <2>3. AfterEvents(item[i], << <<"failed", "record">> >>, s)
              = AfterEvent(item[i], "failed", "record", s)
    BY OneEvent
  <2>4. AfterEvents(item[i], << <<"requesting", "claim">>, <<"retry_wait", "record">>,
                               <<"failed", "record">> >>, s)
              = AfterEvent(w, "failed", "record", s)
    BY ThreeEvents
  <2> QED BY <2>1, <2>2, <2>3, <2>4, Zenon
<1>4. c \in ItemType
  BY <1>2, EventFacts
<1>5. w \in ItemType
  BY <1>2, <1>4, EventFacts
<1> HIDE DEF c, w, r
<1>6. r \in ItemType /\ r.state \notin IN_FLIGHT
  BY <1>2, <1>3, <1>4, <1>5, EventFacts
<1> QED BY <1>1, <1>6, ReconcileItem


-----------------------------------------------------------------------------
(* One attempt                                                             *)

(* The outcome of the open attempt, by the slice that holds the lock.      *)
LEMMA OutcomeStep ==
  ASSUME BackInv, NEW s \in Slices, lock = s, NEW i \in Items, NEW a \in Told,
         Open(i), attempt' = [attempt EXCEPT ![i] = Closed(a)], blocks' \in SUBSET Items,
         UNCHANGED <<item, lease, results, used, f1, f5, outside, files>>, trouble' \in Nat,
         sl' \in [Slices -> SliceType], \A t \in Slices \ {s} : sl'[t] = sl[t],
         SliceOK(s, sl[s])'
  PROVE  BackInv'
<1>1. attempt \in [Items -> AttemptType] /\ LedgerOK
  BY LedgerFacts
<1>2. Closed(a) \in AttemptType /\ Closed(a).outcome = a /\ a # "open"
  BY DEF Closed, AttemptType, Told, Heard
<1>3. \A j \in Items : attempt'[j] = IF j = i THEN Closed(a) ELSE attempt[j]
  BY <1>1
<1>4. TablesOK' /\ OutsideOK' /\ files' \in SUBSET Slices
  BY <1>1, <1>2 DEF outside, BackInv, TypeOK, TablesOK, OutsideOK, MemoryOK
<1>5. \A j \in Items : Owned(j)'
  BY <1>1, <1>2, <1>3 DEF LedgerOK, Owned, Open, ActiveLeases
<1>6. \A j \in Discovery : Evident(j)'
  <2> TAKE j \in Discovery
  <2>1. Evident(j) /\ Owned(j) /\ j \in Items
    BY <1>1, Constants DEF LedgerOK
  <2> QED BY <1>2, <1>3, <2>1 DEF Evident, Owned, Open
<1>7. \A j, k \in Items : Open(j)' /\ Open(k)' => j = k
  BY <1>1, <1>2, <1>3 DEF LedgerOK, Open
<1>8. LedgerOK'
  BY <1>5, <1>6, <1>7 DEF LedgerOK, Open
<1>9. \A j \in Items : attempt'[j].outcome = "open" => attempt'[j] = attempt[j]
  BY <1>2, <1>3
<1> QED BY <1>4, <1>8, <1>9, HolderStep

(* The intent line reaches the journal or it does not.                     *)
LEMMA JournalStep ==
  ASSUME BackInv, NEW s \in Slices, JournalIntent(s)
  PROVE  BackInv'
<1>1. /\ sl[s] \in SliceType /\ LocalOK(sl[s]) /\ sl[s].pc = "intent"
      /\ UNCHANGED <<item, lease, blocks, results, used, f1, f5, outside, lock, files>>
      /\ sl \in [Slices -> SliceType] /\ sl[s].stop = "none" /\ sl[s].stage = "discovery"
      /\ sl[s].item \in StageItems(sl[s].stage)
  BY SliceFacts DEF JournalIntent, LocalOK, Holding, Asking
<1>2. {"journaled", "closing"} \subseteq PCs /\ "error" \in Stops
  BY DEF PCs, Stops
<1>3. files' \in SUBSET Slices /\ files' \subseteq files /\ files' = files
  BY <1>1, LedgerFacts
<1>4. CASE sl' = [sl EXCEPT ![s].pc = "journaled"] /\ UNCHANGED <<attempt, trouble>>
  <2> DEFINE x == [sl[s] EXCEPT !.pc = "journaled"]
  <2>1. sl' = [sl EXCEPT ![s] = x] /\ trouble' \in Nat /\ UNCHANGED ledgerVars
    BY <1>1, <1>4, Counted DEF ledgerVars, tables
  <2>2. /\ x \in SliceType /\ x.item = sl[s].item /\ x.stage = sl[s].stage /\ x.up = sl[s].up
        /\ x.stop = sl[s].stop /\ x.pc = "journaled"
    BY <1>1, <1>2 DEF SliceType
  <2> HIDE DEF x
  <2>3. LocalOK(x)
    BY <1>1, <2>2 DEF LocalOK, Holding, Asking
  <2> QED BY <1>1, <1>3, <2>1, <2>2, <2>3, FieldStep DEF Asking, Holding
<1>5. CASE /\ Happens("journal")
           /\ attempt' = IF sl[s].up THEN [attempt EXCEPT ![sl[s].item] = Closed("lost")]
                         ELSE attempt
           /\ sl' = [sl EXCEPT ![s].pc = "closing", ![s].stop = "error"]
  <2> DEFINE x == [sl[s] EXCEPT !.pc = "closing", !.stop = "error"]
  <2>1. sl' = [sl EXCEPT ![s] = x] /\ trouble' \in Nat
    BY <1>1, <1>5, Counted
  <2>2. /\ x \in SliceType /\ x.item = sl[s].item /\ x.stage = sl[s].stage /\ x.up = sl[s].up
        /\ x.stop = "error" /\ x.pc = "closing"
    BY <1>1, <1>2 DEF SliceType
  <2> HIDE DEF x
  <2>3. LocalOK(x)
    BY <1>1, <2>2 DEF LocalOK, Holding, Asking
  <2>4. CASE ~sl[s].up
    <3>1. UNCHANGED ledgerVars
      BY <1>1, <1>5, <2>4 DEF ledgerVars, tables
    <3> QED BY <1>1, <1>3, <2>1, <2>2, <2>3, <3>1, FieldStep DEF Asking, Holding
  <2>5. CASE sl[s].up
    <3>1. /\ sl' \in [Slices -> SliceType] /\ sl'[s] = x
          /\ \A t \in Slices \ {s} : sl'[t] = sl[t]
      BY <2>1, <2>2, Turn
    <3>2. lock = s /\ WorkOK(s, sl[s])
      BY <1>1, <2>5, SliceFacts DEF AtWork
    <3>3. Open(sl[s].item) /\ sl[s].item \in Items
      BY <1>1, <3>2, Constants DEF WorkOK, Asking, StageItems
    <3>4. LocalOK(sl[s])' /\ SpoolOK(s, sl[s])'
      BY <2>2, <2>3, <3>1 DEF LocalOK, SpoolOK, StageItems, Asking
    <3>5. WorkOK(s, sl[s])'
      BY <1>1, <2>2, <3>1, <3>2 DEF WorkOK, ActiveLeases, Asking, Holding
    <3>6. SliceOK(s, sl[s])'
      BY <1>1, <2>2, <3>1, <3>2, <3>4, <3>5 DEF SliceOK
    <3>7. "lost" \in Told /\ blocks' \in SUBSET Items
          /\ attempt' = [attempt EXCEPT ![sl[s].item] = Closed("lost")]
      BY <1>1, <1>5, <2>5, LedgerFacts DEF Told
    <3> QED BY <1>1, <2>1, <3>1, <3>2, <3>3, <3>6, <3>7, OutcomeStep
  <2> QED BY <2>4, <2>5
<1> QED BY <1>4, <1>5 DEF JournalIntent

(* The outcome and, for a block, the block row.                            *)
LEMMA RecordStep ==
  ASSUME BackInv, NEW s \in Slices, Record(s)
  PROVE  BackInv'
<1> DEFINE i == sl[s].item
           stop == AfterRecord(sl[s])
           pc == CASE sl[s].stage = "document" -> "f2"
                   [] stop = "error" -> "closing"
                   [] OTHER -> "finish"
           x == [sl[s] EXCEPT !.stop = stop, !.pc = pc]
<1>1. /\ sl[s] \in SliceType /\ LocalOK(sl[s]) /\ sl[s].pc = "record" /\ sl[s].up
      /\ UNCHANGED <<item, lease, results, used, f1, f5, outside, lock, files, trouble>>
      /\ sl \in [Slices -> SliceType] /\ sl[s].stop \in {"none", "error"}
      /\ i \in StageItems(sl[s].stage) /\ sl[s].got \in Told
      /\ attempt' = [attempt EXCEPT ![i] = Closed(sl[s].got)]
      /\ blocks' = IF sl[s].got = "block" THEN blocks \cup {i} ELSE blocks
  BY SliceFacts DEF Record, LocalOK, Holding, Asking
<1>2. sl' = [sl EXCEPT ![s] = x]
  <2>1. sl' = [sl EXCEPT ![s].stop = stop, ![s].pc = pc]
    BY DEF Record
  <2> HIDE DEF stop, pc
  <2> QED BY <1>1, <2>1
<1>3. i \in Items /\ lock = s /\ WorkOK(s, sl[s]) /\ Open(i)
  BY <1>1, SliceFacts, Constants DEF StageItems, AtWork, WorkOK, Asking
<1>4. /\ stop \in {"none", "error", "blocked", "circuit_open"}
      /\ stop \in {"none", "circuit_open"} => sl[s].stop = "none" /\ sl[s].got # "block"
  BY <1>1 DEF AfterRecord
<1>5. /\ pc \in {"f2", "closing", "finish"} /\ pc \in PCs /\ stop \in Stops
      /\ pc = "f2" => sl[s].stage = "document"
      /\ pc = "finish" => sl[s].stage = "discovery" /\ stop # "error"
  <2>1. sl[s].stage \in {"discovery", "document"}
    BY <1>1 DEF SliceType, Stages
  <2>2. stop \in Stops
    BY <1>4 DEF Stops
  <2> HIDE DEF stop
  <2> QED BY <2>1, <2>2 DEF PCs
<1> HIDE DEF stop, pc
<1>6. /\ x \in SliceType /\ x.item = i /\ x.stage = sl[s].stage /\ x.up
      /\ x.stop = stop /\ x.got = sl[s].got /\ x.pc = pc
  BY <1>1, <1>5 DEF SliceType
<1> HIDE DEF x
<1>7. /\ sl' \in [Slices -> SliceType] /\ sl'[s] = x
      /\ \A t \in Slices \ {s} : sl'[t] = sl[t]
  BY <1>2, <1>6, Turn
<1>8. LocalOK(sl[s])' /\ SpoolOK(s, sl[s])'
  BY <1>1, <1>4, <1>5, <1>6, <1>7 DEF LocalOK, SpoolOK, StageItems, Asking, Holding
<1> HIDE DEF i
<1>9. WorkOK(s, sl[s])'
  <2>1. \A j \in Items : attempt'[j].outcome # "open"
    <3>1. attempt \in [Items -> AttemptType] /\ LedgerOK
      BY LedgerFacts
    <3>2. Closed(sl[s].got).outcome # "open"
      BY <1>1 DEF Closed, Told, Heard
    <3> QED BY <1>1, <1>3, <3>1, <3>2 DEF LedgerOK, Open
  <2>2. x.stop \in {"none", "refused", "circuit_open"} => blocks' = {} /\ ~p2blocks'
    BY <1>1, <1>3, <1>4, <1>6 DEF WorkOK, outside
  <2>3. item'[x.item].state = "requesting" /\ item'[x.item].lease = s /\ ActiveLeases' = {s}
    BY <1>1, <1>3, <1>6 DEF WorkOK, Holding, Asking, ActiveLeases, i
  <2>4. x.stage = "document" => files' \subseteq {s}
    BY <1>1, <1>3, <1>6 DEF WorkOK
  <2> QED BY <1>5, <1>6, <1>7, <2>1, <2>2, <2>3, <2>4 DEF WorkOK, Open, Asking
<1>10. SliceOK(s, sl[s])'
  BY <1>1, <1>3, <1>5, <1>6, <1>7, <1>8, <1>9 DEF SliceOK
<1>11. blocks' \in SUBSET Items /\ trouble' \in Nat
  BY <1>1, <1>3, LedgerFacts
<1> QED BY <1>1, <1>3, <1>7, <1>10, <1>11, OutcomeStep

(* The answer is spooled, or it is not and counts as lost.                 *)
LEMMA SpoolStep ==
  ASSUME BackInv, NEW s \in Slices, Spool(s)
  PROVE  BackInv'
<1> DEFINE i == sl[s].item
<1>1. /\ sl[s] \in SliceType /\ LocalOK(sl[s]) /\ SpoolOK(s, sl[s]) /\ sl[s].pc = "answered"
      /\ UNCHANGED <<item, lease, blocks, results, used, f1, f5, outside, lock, files>>
      /\ sl \in [Slices -> SliceType] /\ sl[s].stop = "none" /\ sl[s].got \in Heard
      /\ i \in StageItems(sl[s].stage) /\ sl[s].stage = "discovery"
  BY SliceFacts DEF Spool, LocalOK, Holding, Asking
<1>2. /\ "record" \in PCs /\ "error" \in Stops /\ "lost" \in Told /\ Heard \subseteq Told
      /\ Told \subseteq Gots
  BY DEF PCs, Stops, Told, Gots
<1>3. i \in Items /\ files' \in SUBSET Slices /\ files' \subseteq files
  BY <1>1, LedgerFacts, Constants DEF StageItems
<1>4. CASE Happens("spool") /\ UNCHANGED attempt
           /\ sl' = [sl EXCEPT ![s].pc = "record", ![s].stop = "error",
                               ![s].got = IF @ = "ok" THEN "lost" ELSE @]
  <2> DEFINE g == IF sl[s].got = "ok" THEN "lost" ELSE sl[s].got
             x == [sl[s] EXCEPT !.pc = "record", !.stop = "error", !.got = g]
  <2>1. sl' = [sl EXCEPT ![s] = x] /\ g \in Told
    BY <1>1, <1>2, <1>4
  <2> HIDE DEF g
  <2>2. /\ x \in SliceType /\ x.item = i /\ x.stage = sl[s].stage /\ x.up = sl[s].up
        /\ x.stop = "error" /\ x.pc = "record" /\ x.got = g
    BY <1>1, <1>2, <2>1 DEF SliceType
  <2> HIDE DEF x
  <2>3. LocalOK(x)
    BY <1>1, <2>1, <2>2 DEF LocalOK, Holding, Asking
  <2>4. trouble' \in Nat /\ UNCHANGED ledgerVars
    BY <1>1, <1>4, Counted DEF ledgerVars, tables
  <2> QED BY <1>1, <1>3, <2>1, <2>2, <2>3, <2>4, FieldStep DEF Asking, Holding
<1>5. CASE /\ sl' = [sl EXCEPT ![s].pc = "record"] /\ UNCHANGED trouble
           /\ attempt' = IF attempt[i].outcome = "open" /\ attempt[i].by = s
                         THEN [attempt EXCEPT ![i].spooled = sl[s].got] ELSE attempt
  <2> DEFINE x == [sl[s] EXCEPT !.pc = "record"]
  <2>1. sl' = [sl EXCEPT ![s] = x]
    BY <1>1, <1>5
  <2>2. /\ x \in SliceType /\ x.item = i /\ x.stage = sl[s].stage /\ x.up = sl[s].up
        /\ x.stop = "none" /\ x.pc = "record" /\ x.got = sl[s].got
    BY <1>1, <1>2 DEF SliceType
  <2> HIDE DEF x
  <2>3. /\ sl' \in [Slices -> SliceType] /\ sl'[s] = x
        /\ \A t \in Slices \ {s} : sl'[t] = sl[t]
    BY <2>1, <2>2, Turn
  <2> HIDE DEF i
  <2>4. attempt \in [Items -> AttemptType] /\ LedgerOK
    BY LedgerFacts
  <2>5. /\ attempt' \in [Items -> AttemptType]
        /\ \A j \in Items : attempt'[j].outcome = attempt[j].outcome
                            /\ attempt'[j].by = attempt[j].by
        /\ \A j \in Items : ~(j = i /\ Open(i) /\ attempt[i].by = s)
                              => attempt'[j] = attempt[j]
        /\ Open(i) /\ attempt[i].by = s => attempt'[i].spooled = sl[s].got
    <3>1. CASE ~(Open(i) /\ attempt[i].by = s)
      BY <1>5, <2>4, <3>1 DEF Open
    <3>2. CASE Open(i) /\ attempt[i].by = s
      <4> DEFINE e == [attempt[i] EXCEPT !.spooled = sl[s].got]
      <4>1. attempt' = [attempt EXCEPT ![i] = e]
        BY <1>3, <1>5, <2>4, <3>2 DEF Open
      <4>2. /\ e \in AttemptType /\ e.outcome = attempt[i].outcome
            /\ e.by = attempt[i].by /\ e.spooled = sl[s].got
        BY <1>1, <1>3, <2>4 DEF AttemptType
      <4> HIDE DEF e
      <4>3. \A j \in Items : attempt'[j] = IF j = i THEN e ELSE attempt[j]
        BY <1>3, <2>4, <4>1
      <4>4. attempt' \in [Items -> AttemptType]
        BY <2>4, <4>1, <4>2
      <4> QED BY <1>3, <3>2, <4>2, <4>3, <4>4
    <3> QED BY <3>1, <3>2
  <2>6. TablesOK' /\ OutsideOK' /\ trouble' \in Nat
    BY <1>1, <1>5, <2>5 DEF outside, BackInv, TypeOK, TablesOK, OutsideOK, MemoryOK
  <2>7. UNCHANGED <<p2blocks, p2used>> /\ used \in Nat /\ p2used \in Nat
    BY <1>1 DEF outside, BackInv, TypeOK, TablesOK, OutsideOK
  <2>8. ActiveLeases' = ActiveLeases
    BY <1>1 DEF ActiveLeases
  <2>9. LedgerOK'
    <3>1. \A j \in Items : Owned(j)'
      BY <1>1, <2>4, <2>5, <2>8 DEF LedgerOK, Owned, Open
    <3>2. \A j \in Discovery : Evident(j)'
      BY <1>1, <2>4, <2>5, Constants DEF LedgerOK, Evident, Open
    <3> QED BY <2>4, <2>5, <3>1, <3>2 DEF LedgerOK, Open
  <2>10. \A t \in Slices \ {s} : SliceOK(t, sl[t])'
    <3> TAKE t \in Slices \ {s}
    <3>1. AtWork(sl[t]) => WorkOK(t, sl[t])'
      BY <1>1, <1>3, <2>3, <2>5, <2>7, <2>8, WorkKept
    <3>2. \A j \in Items : attempt'[j].outcome = "open" /\ attempt'[j].by = t =>
                             attempt'[j] = attempt[j]
      BY <2>5
    <3>3. sl[t].up /\ sl[t].pc \notin {"idle", "lock"} => lock' = t
      BY <1>1, SliceFacts
    <3> QED BY <1>1, <2>3, <3>1, <3>2, <3>3, Kept
  <2>11. LocalOK(sl[s])'
    BY <1>1, <1>2, <2>2, <2>3 DEF LocalOK, StageItems, Holding, Asking, i
  <2>12. SpoolOK(s, sl[s])'
    BY <1>3, <2>2, <2>3, <2>5 DEF SpoolOK, Open
  <2>13. ASSUME WorkOK(s, sl[s])
         PROVE  WorkOK(s, sl[s])'
    <3>1. /\ ActiveLeases' = {s} /\ blocks' = {} /\ ~p2blocks'
          /\ item'[i].state = "requesting" /\ item'[i].lease = s
          /\ attempt'[i].outcome = "open" /\ attempt'[i].by = s
      BY <1>1, <1>3, <2>5, <2>7, <2>8, <2>13 DEF WorkOK, Open, Asking, Holding, i
    <3> QED BY <1>1, <2>2, <2>3, <3>1 DEF WorkOK, Open, Asking, Holding
  <2>14. SliceOK(s, sl[s])'
    <3>1. sl[s].up => lock = s /\ WorkOK(s, sl[s])
      BY <1>1, SliceFacts DEF AtWork
    <3> QED BY <1>1, <2>2, <2>3, <2>11, <2>12, <2>13, <3>1 DEF SliceOK, AtWork
  <2> QED BY <1>3, <2>3, <2>6, <2>9, <2>10, <2>14 DEF BackInv, TypeOK, MemoryOK
<1> QED BY <1>4, <1>5 DEF Spool

(* The intent: the request is counted, its attempt is open.                *)
LEMMA IntendStep ==
  ASSUME BackInv, NEW s \in Slices, Intend(s)
  PROVE  BackInv'
<1> DEFINE i == sl[s].item
           json == sl[s].stage = "discovery"
           a == [by |-> s, outcome |-> "open", spooled |-> None]
           r == [item[i] EXCEPT !.sent = item[i].sent + 1]
           pc == IF json THEN "intent" ELSE "journaled"
           n == IF json THEN sl[s].n + 1 ELSE sl[s].n
           x == [sl[s] EXCEPT !.pc = pc, !.n = n]
<1>1. /\ sl[s] \in SliceType /\ LocalOK(sl[s]) /\ sl[s].pc = "admitted"
      /\ UNCHANGED <<lease, blocks, results, f5, outside, lock, files, trouble>>
      /\ sl \in [Slices -> SliceType] /\ sl[s].stop = "none" /\ sl[s].up
      /\ i \in StageItems(sl[s].stage) /\ lock = s /\ WorkOK(s, sl[s])
      /\ \A j \in Items : ~Open(j)
  BY SliceFacts, WorkFacts DEF Intend, LocalOK, Holding, Asking, AtWork
<1>2. /\ i \in Items /\ item \in [Items -> ItemType] /\ attempt \in [Items -> AttemptType]
      /\ LedgerOK /\ used \in Nat /\ f1 \in [Discovery -> RunType]
      /\ (json => i \in Discovery) /\ (~json => i \in Documents /\ i \notin Discovery)
  BY <1>1, LedgerFacts, Constants DEF StageItems
<1>3. /\ attempt' = [attempt EXCEPT ![i] = a] /\ used' = used + 1
      /\ item' = [item EXCEPT ![i] = r]
      /\ f1' = IF json THEN [f1 EXCEPT ![i].run = "requested"] ELSE f1
      /\ sl' = [sl EXCEPT ![s] = x]
  <2>1. sl' = [sl EXCEPT ![s].pc = pc, ![s].n = n]
    BY <1>1 DEF Intend
  <2>2. sl' = [sl EXCEPT ![s] = x]
    <3> HIDE DEF pc, n
    <3> QED BY <1>1, <2>1
  <2> QED BY <1>2, <2>2 DEF Intend
<1>4. /\ pc \in PCs /\ n \in Nat /\ pc \in {"intent", "journaled"}
      /\ (pc = "intent" <=> json)
  <2>1. sl[s].n \in Nat /\ sl[s].n + 1 \in Nat
    BY <1>1 DEF SliceType
  <2> QED BY <2>1 DEF PCs
<1> HIDE DEF pc, n
<1>5. /\ x \in SliceType /\ x.item = i /\ x.stage = sl[s].stage /\ x.up
      /\ x.stop = "none" /\ x.pc = pc
  BY <1>1, <1>4 DEF SliceType
<1> HIDE DEF x
<1>6. /\ sl' \in [Slices -> SliceType] /\ sl'[s] = x
      /\ \A t \in Slices \ {s} : sl'[t] = sl[t]
  BY <1>3, <1>5, Turn
<1>7. /\ r \in ItemType /\ r.state = "requesting" /\ r.lease = s
      /\ r.sent = item[i].sent + 1 /\ r.claims = item[i].claims
  <2> DEFINE m == item[i].sent + 1
  <2>1. m \in Nat /\ item[i] \in ItemType /\ r = [item[i] EXCEPT !.sent = m]
    BY <1>2 DEF ItemType
  <2>2. item[i].state = "requesting" /\ item[i].lease = s
    BY <1>1 DEF WorkOK, Holding
  <2> HIDE DEF m, r
  <2>3. r \in ItemType /\ r.state = "requesting" /\ r.lease = s /\ r.sent = m
        /\ r.claims = item[i].claims
    BY <2>1, <2>2 DEF ItemType
  <2> QED BY <2>3 DEF m
<1>8. a \in AttemptType /\ a.by = s /\ a.outcome = "open" /\ a.spooled = None
  BY DEF AttemptType
<1>9. json => item[i].sent + 1 <= item[i].claims
  BY <1>1, <1>2 DEF WorkOK, ItemType
<1>10. json => f1'[i].run = "requested" /\ f1'[i].won = f1[i].won
  BY <1>2, <1>3 DEF RunType
<1>11. f1' \in [Discovery -> RunType] /\ \A j \in Discovery : j # i => f1'[j] = f1[j]
  <2>1. CASE ~json
    BY <1>2, <1>3, <2>1
  <2>2. CASE json
    <3> DEFINE f == [f1[i] EXCEPT !.run = "requested"]
    <3>1. f \in RunType /\ f1' = [f1 EXCEPT ![i] = f]
      BY <1>2, <1>3, <2>2 DEF RunType
    <3> HIDE DEF f
    <3> QED BY <1>2, <3>1
  <2> QED BY <2>1, <2>2
<1> HIDE DEF r, a
<1>12. /\ \A j \in Items : item'[j] = IF j = i THEN r ELSE item[j]
       /\ \A j \in Items : attempt'[j] = IF j = i THEN a ELSE attempt[j]
  BY <1>2, <1>3
<1>13. item' \in [Items -> ItemType] /\ attempt' \in [Items -> AttemptType] /\ used' \in Nat
  BY <1>2, <1>3, <1>7, <1>8
<1>14. TablesOK' /\ OutsideOK' /\ files' \in SUBSET Slices /\ trouble' \in Nat
  BY <1>1, <1>11, <1>13 DEF outside, BackInv, TypeOK, TablesOK, OutsideOK, MemoryOK
<1>15. ActiveLeases' = {s} /\ \A j \in Items : Open(j)' => j = i
  BY <1>1, <1>12 DEF WorkOK, ActiveLeases, Open
<1>16. \A j \in Items : Owned(j)'
  BY <1>1, <1>2, <1>7, <1>8, <1>12, <1>15 DEF LedgerOK, Owned, Open, WorkOK
<1>17. \A j \in Discovery : Evident(j)'
  <2> TAKE j \in Discovery
  <2>1. CASE j = i
    BY <1>2, <1>7, <1>8, <1>9, <1>10, <1>12, <2>1 DEF Evident, Open
  <2>2. CASE j # i
    <3>1. Evident(j) /\ item'[j] = item[j] /\ attempt'[j] = attempt[j] /\ f1'[j] = f1[j]
      BY <1>2, <1>11, <1>12, <2>2, Constants DEF LedgerOK
    <3> QED BY <3>1 DEF Evident, Open
  <2> QED BY <2>1, <2>2
<1>18. LedgerOK'
  BY <1>15, <1>16, <1>17 DEF LedgerOK, Open
<1>19. LocalOK(sl[s])'
  BY <1>1, <1>4, <1>5, <1>6 DEF LocalOK, StageItems, Asking, Holding
<1>20. SpoolOK(s, sl[s])'
  BY <1>2, <1>4, <1>5, <1>6, <1>8, <1>12 DEF SpoolOK
<1>21. WorkOK(s, sl[s])'
  <2>1. blocks' = {} /\ ~p2blocks'
    BY <1>1 DEF WorkOK, outside
  <2>2. item'[i].state = "requesting" /\ item'[i].lease = s
        /\ attempt'[i].outcome = "open" /\ attempt'[i].by = s
    BY <1>2, <1>7, <1>8, <1>12
  <2>3. x.stage = "document" => files' \subseteq {s}
    BY <1>1, <1>5 DEF WorkOK
  <2>4. \A j \in Items : attempt'[j].outcome = "open" => x.pc \in Asking
    BY <1>4, <1>5 DEF Asking
  <2> QED BY <1>4, <1>5, <1>6, <1>15, <2>1, <2>2, <2>3, <2>4 DEF WorkOK, Open, Asking, Holding
<1>22. SliceOK(s, sl[s])'
  BY <1>1, <1>4, <1>5, <1>6, <1>19, <1>20, <1>21 DEF SliceOK
<1>23. \A j \in Items : attempt'[j].outcome = "open" => attempt'[j].by = s
  BY <1>8, <1>12, <1>15 DEF Open
<1>24. \A t \in Slices \ {s} : lease'[t] = lease[t]
  BY <1>1
<1> QED BY <1>1, <1>6, <1>14, <1>18, <1>22, <1>23, <1>24, HolderStep

-----------------------------------------------------------------------------
(* The item of a slice                                                     *)

(* The slice is done with its item.                                        *)
LEMMA BackFacts ==
  ASSUME NEW y \in SliceType
  PROVE  /\ Back(y) \in SliceType /\ Back(y).stage = y.stage /\ Back(y).up = y.up
         /\ Back(y).stop = y.stop
         /\ Back(y).pc = IF y.stop = "none" THEN "work" ELSE "closing"
<1> DEFINE pc == IF y.stop = "none" THEN "work" ELSE "closing"
<1>1. pc \in PCs /\ "none" \in Gots
  BY DEF PCs, Gots
<1> DEFINE b == [y EXCEPT !.pc = pc, !.item = None, !.pass = 0, !.hop = 0, !.got = "none"]
<1>2. Back(y) = b
  BY DEF Back
<1> HIDE DEF pc
<1>3. /\ b \in SliceType /\ b.stage = y.stage /\ b.up = y.up
      /\ b.stop = y.stop /\ b.pc = pc
  BY <1>1 DEF SliceType
<1> HIDE DEF b
<1> QED BY <1>2, <1>3 DEF pc

(* The slice records the last event of its item's claim and goes back.     *)
LEMMA BackStep ==
  ASSUME BackInv, NEW s \in Slices, sl[s].up,
         sl[s].pc \in {"claimed", "begun", "settle", "dispose", "persist"},
         sl[s].stop # "error",
         NEW y \in SliceType, y.stage = sl[s].stage, y.up = sl[s].up,
         y.stop \in {"none", "refused", "circuit_open"} => sl[s].stop # "blocked",
         y.stop = "none" /\ y.stage = "document" => files = {},
         sl' = [sl EXCEPT ![s] = Back(y)],
         NEW i \in Items, NEW r \in ItemType, item' = [item EXCEPT ![i] = r],
         i = sl[s].item, r.state \notin IN_FLIGHT,
         i \in Discovery => r.sent = item[i].sent /\ r.claims = item[i].claims,
         i \in Discovery /\ r.sent > 0 /\ attempt[i].outcome = "ok" => r.state = "succeeded",
         UNCHANGED <<lease, attempt, blocks, results, used, f1, outside, lock, files>>,
         f5' \in SUBSET Documents, trouble' \in Nat
  PROVE  BackInv'
<1>1. /\ sl[s] \in SliceType /\ LocalOK(sl[s]) /\ lock = s /\ WorkOK(s, sl[s])
      /\ ActiveLeases = {s} /\ \A j \in Items : ~Open(j)
      /\ files' \in SUBSET Slices /\ LedgerOK
  BY SliceFacts, LedgerFacts, WorkFacts DEF Asking
<1> DEFINE x == Back(y)
<1>2. /\ x \in SliceType /\ x.stage = sl[s].stage /\ x.up /\ x.stop = y.stop
      /\ x.pc = IF y.stop = "none" THEN "work" ELSE "closing"
  BY BackFacts
<1> HIDE DEF x
<1>3. /\ sl' \in [Slices -> SliceType] /\ sl'[s] = x
      /\ \A t \in Slices \ {s} : sl'[t] = sl[t]
  <2>1. sl' = [sl EXCEPT ![s] = x]
    BY DEF x
  <2> QED BY <1>2, <2>1, Turn
<1>4. LocalOK(sl[s])' /\ SpoolOK(s, sl[s])'
  BY <1>2, <1>3 DEF LocalOK, SpoolOK, StageItems, Asking, Holding
<1>5. WorkOK(s, sl[s])'
  <2>1. x.stop \in {"none", "refused", "circuit_open"} => blocks' = {} /\ ~p2blocks'
    <3>1. UNCHANGED p2blocks
      BY DEF outside
    <3>2. sl[s].stop \notin {"blocked", "cleanup_stop"} =>
            sl[s].stop \in {"none", "refused", "circuit_open"}
      BY <1>1 DEF SliceType, Stops
    <3>3. sl[s].stop # "cleanup_stop"
      BY <1>1 DEF LocalOK
    <3> QED BY <1>1, <1>2, <3>1, <3>2, <3>3 DEF WorkOK
  <2>2. ActiveLeases' = {s} /\ \A j \in Items : attempt'[j].outcome # "open"
    BY <1>1 DEF ActiveLeases, Open
  <2>3. x.stage = "document" /\ x.pc # "closing" => files' = {}
    BY <1>2
  <2> QED BY <1>2, <1>3, <2>1, <2>2, <2>3 DEF WorkOK, Open, Asking, Holding
<1>6. SliceOK(s, sl[s])'
  BY <1>1, <1>2, <1>3, <1>4, <1>5 DEF SliceOK
<1>7. i \in Discovery => r.sent <= r.claims
  BY <1>1 DEF LedgerOK, Evident
<1>8. i \in Discovery /\ r.sent > 0 /\ attempt[i].outcome = "ok" =>
        f1[i].run = "requested" \/ f1[i].won # "none"
  BY <1>1 DEF LedgerOK, Evident
<1>9. UNCHANGED <<lease, attempt, blocks, results, used, f1, outside>>
  OBVIOUS
<1>10. r.state # "processing"
  BY DEF IN_FLIGHT
<1> QED BY <1>1, <1>3, <1>6, <1>7, <1>8, <1>9, <1>10, ItemStep

(* A claim.                                                                *)
LEMMA ClaimStep ==
  ASSUME BackInv, NEW s \in Slices, NEW i \in Items, Claim(s, i)
  PROVE  BackInv'
<1> DEFINE r == AfterEvent(item[i], "requesting", "claim", s)
           x == [sl[s] EXCEPT !.pc = "claimed", !.item = i, !.pass = 0,
                              !.tried = sl[s].tried \cup {i}]
<1>1. /\ sl[s] \in SliceType /\ LocalOK(sl[s]) /\ sl[s].pc = "work" /\ sl[s].stop = "none"
      /\ sl \in [Slices -> SliceType] /\ sl[s].up /\ lock = s /\ WorkOK(s, sl[s])
      /\ \A j \in Items : ~Open(j)
      /\ UNCHANGED <<lease, attempt, blocks, results, used, f1, f5, outside, lock>>
      /\ UNCHANGED <<files, trouble>>
  BY SliceFacts, WorkFacts DEF Claim, LocalOK, AtWork, Asking
<1>2. /\ i \in StageItems(sl[s].stage) /\ item[i].state \in {"pending", "retry_wait"}
      /\ item' = [item EXCEPT ![i] = r]
      /\ sl' = [sl EXCEPT ![s].pc = "claimed", ![s].item = i, ![s].pass = 0,
                          ![s].tried = @ \cup {i}]
  BY DEF Claim, Eligible, Claimable
<1>3. sl' = [sl EXCEPT ![s] = x] /\ "claimed" \in PCs
  BY <1>1, <1>2 DEF PCs
<1>4. /\ x \in SliceType /\ x.item = i /\ x.stage = sl[s].stage /\ x.up
      /\ x.stop = "none" /\ x.pc = "claimed"
  BY <1>1, <1>3 DEF SliceType
<1> HIDE DEF x
<1>5. /\ sl' \in [Slices -> SliceType] /\ sl'[s] = x
      /\ \A t \in Slices \ {s} : sl'[t] = sl[t]
  BY <1>3, <1>4, Turn
<1>6. item[i] \in ItemType /\ item[i].sent \in Nat /\ item[i].claims \in Nat /\ LedgerOK
      /\ item \in [Items -> ItemType] /\ "requesting" \in States
  BY LedgerFacts DEF ItemType, States
<1>7. /\ r \in ItemType /\ r.state = "requesting" /\ r.lease = s
      /\ r.claims = item[i].claims + 1 /\ r.sent = item[i].sent
  BY <1>6, EventFacts DEF IN_FLIGHT
<1> HIDE DEF r
<1>8. i \in Discovery => r.sent < r.claims /\ ~(r.sent > 0 /\ attempt[i].outcome = "ok")
  <2> SUFFICES ASSUME i \in Discovery
               PROVE  r.sent < r.claims /\ ~(r.sent > 0 /\ attempt[i].outcome = "ok")
    OBVIOUS
  <2>1. Evident(i)
    BY <1>6 DEF LedgerOK
  <2> QED BY <1>2, <1>6, <1>7, <2>1 DEF Evident
<1>9. i \in Discovery => r.sent <= r.claims
  BY <1>6, <1>7, <1>8
<1>10. LocalOK(sl[s])' /\ SpoolOK(s, sl[s])'
  <2>1. x.item \in IF x.stage = "discovery" THEN Discovery ELSE Documents
    BY <1>2, <1>4 DEF StageItems
  <2>2. LocalOK(sl[s])'
    BY <1>4, <1>5, <2>1 DEF LocalOK, StageItems, Asking
  <2>3. SpoolOK(s, sl[s])'
    BY <1>4, <1>5 DEF SpoolOK, Asking
  <2> QED BY <2>2, <2>3
<1>11. WorkOK(s, sl[s])'
  <2>1. blocks' = {} /\ ~p2blocks' /\ ActiveLeases' = {s}
        /\ \A j \in Items : attempt'[j].outcome # "open"
    BY <1>1 DEF WorkOK, outside, ActiveLeases, Open
  <2>2. item'[i] = r
    BY <1>2, <1>6
  <2>3. x.stage = "discovery" => i \in Discovery
    BY <1>2, <1>4 DEF StageItems
  <2>4. x.stage = "document" => files' = {}
    BY <1>1, <1>4 DEF WorkOK
  <2> QED BY <1>1, <1>4, <1>5, <1>7, <1>8, <2>1, <2>2, <2>3, <2>4
          DEF WorkOK, Open, Asking, Holding
<1>12. SliceOK(s, sl[s])'
  BY <1>1, <1>4, <1>5, <1>10, <1>11 DEF SliceOK
<1>13. /\ r.state \in IN_FLIGHT => r.lease \in ActiveLeases
       /\ f5' \in SUBSET Documents /\ files' \in SUBSET Slices /\ trouble' \in Nat
  BY <1>1, <1>7, LedgerFacts DEF WorkOK
<1> QED BY <1>1, <1>2, <1>5, <1>7, <1>8, <1>9, <1>12, <1>13, ItemStep

(* A refusal between the claim and the request.                            *)
LEMMA RefusedBeforeStep ==
  ASSUME BackInv, NEW s \in Slices, RefusedBeforeRequest(s)
  PROVE  BackInv'
<1> DEFINE i == sl[s].item
           to == EvidenceOr(i, IF item[i].claims >= ItemMax THEN "failed" ELSE "retry_wait")
           r == AfterEvent(item[i], to, "record", s)
           y == [sl[s] EXCEPT !.stop = "refused"]
<1>1. /\ sl[s] \in SliceType /\ LocalOK(sl[s]) /\ sl[s].pc \in {"claimed", "begun"}
      /\ sl[s].stage = "discovery" /\ sl[s].stop = "none" /\ sl[s].up /\ lock = s
      /\ WorkOK(s, sl[s]) /\ i \in Discovery /\ i \in Items
      /\ UNCHANGED <<lease, attempt, blocks, results, used, f1, f5, outside, lock>>
      /\ UNCHANGED <<files, trouble>>
  BY SliceFacts, Constants
     DEF RefusedBeforeRequest, LocalOK, AtWork, Asking, Holding, StageItems
<1>2. item' = [item EXCEPT ![i] = r] /\ sl' = [sl EXCEPT ![s] = Back(y)]
  <2>1. sl' = [sl EXCEPT ![s] = Back([@ EXCEPT !.stop = "refused"])]
        /\ item' = [item EXCEPT ![i] = AfterEvent(@, to, "record", s)]
    BY DEF RefusedBeforeRequest
  <2>2. sl' = [sl EXCEPT ![s] = Back([sl[s] EXCEPT !.stop = "refused"])]
    BY <2>1, SliceFacts
  <2> HIDE DEF to
  <2>3. item' = [item EXCEPT ![i] = AfterEvent(item[i], to, "record", s)]
    BY <1>1, <2>1, LedgerFacts
  <2> QED BY <2>2, <2>3
<1>3. y \in SliceType /\ y.stage = sl[s].stage /\ y.up = sl[s].up /\ y.stop = "refused"
  BY <1>1 DEF SliceType, Stops
<1> HIDE DEF y
<1>4. to \in {"failed", "retry_wait", "succeeded"}
  BY <1>1, RunFacts DEF EvidenceOr
<1>5. to \in States /\ to \notin IN_FLIGHT /\ item[i] \in ItemType
  BY <1>1, <1>4, LedgerFacts DEF States, IN_FLIGHT
<1> HIDE DEF to
<1>6. /\ r \in ItemType /\ r.state = to /\ r.sent = item[i].sent
      /\ r.claims = item[i].claims
  BY <1>5, EventFacts
<1> HIDE DEF r
<1>7. ~(item[i].sent > 0 /\ attempt[i].outcome = "ok")
  BY <1>1 DEF WorkOK
<1>8. f5' \in SUBSET Documents /\ trouble' \in Nat
  BY <1>1, LedgerFacts
<1> HIDE DEF i
<1>9. i = sl[s].item
  BY DEF i
<1> QED BY <1>1, <1>2, <1>3, <1>5, <1>6, <1>7, <1>8, <1>9, BackStep

(* The item's state after one recorded attempt.                            *)
LEMMA SettleStep ==
  ASSUME BackInv, NEW s \in Slices, Settle(s)
  PROVE  BackInv'
<1> DEFINE i == sl[s].item
           to == EvidenceOr(i, LiveState(i, attempt[i].outcome))
           r == AfterEvent(item[i], to, "record", s)
           y == sl[s]
<1>1. /\ y \in SliceType /\ LocalOK(y) /\ y.pc = "settle"
      /\ y.stage = "discovery" /\ y.stop # "error" /\ y.up /\ lock = s
      /\ WorkOK(s, y) /\ i \in Discovery /\ i \in Items
      /\ UNCHANGED <<lease, attempt, blocks, results, used, f1, f5, outside, lock>>
      /\ UNCHANGED <<files, trouble>>
  BY SliceFacts, Constants DEF Settle, LocalOK, AtWork, Asking, Holding, StageItems
<1>2. item' = [item EXCEPT ![i] = r] /\ sl' = [sl EXCEPT ![s] = Back(y)]
  <2>1. sl' = [sl EXCEPT ![s] = Back(@)]
        /\ item' = [item EXCEPT ![i] = AfterEvent(@, to, "record", s)]
    BY DEF Settle
  <2>2. sl' = [sl EXCEPT ![s] = Back(sl[s])]
    BY <2>1, SliceFacts
  <2> HIDE DEF to
  <2>3. item' = [item EXCEPT ![i] = AfterEvent(item[i], to, "record", s)]
    BY <1>1, <2>1, LedgerFacts
  <2> QED BY <2>2, <2>3
<1>3. /\ to \in {"blocked", "failed", "retry_wait", "succeeded"}
      /\ attempt[i].outcome = "ok" => to = "succeeded"
  BY <1>1, RunFacts DEF EvidenceOr, LiveState, WorkOK
<1>4. to \in States /\ to \notin IN_FLIGHT /\ item[i] \in ItemType
  BY <1>1, <1>3, LedgerFacts DEF States, IN_FLIGHT
<1> HIDE DEF to
<1>5. /\ r \in ItemType /\ r.state = to /\ r.sent = item[i].sent
      /\ r.claims = item[i].claims
  BY <1>4, EventFacts
<1> HIDE DEF r
<1>6. /\ f5' \in SUBSET Documents /\ trouble' \in Nat
      /\ y.stop \in {"none", "refused", "circuit_open"} => sl[s].stop # "blocked"
  BY <1>1, LedgerFacts
<1> HIDE DEF i
<1>7. i = sl[s].item
  BY DEF i
<1> QED BY <1>1, <1>2, <1>3, <1>4, <1>5, <1>6, <1>7, BackStep

(* A pass is refused.                                                      *)
LEMMA RefusedPassStep ==
  ASSUME BackInv, NEW s \in Slices, RefusedPass(s)
  PROVE  BackInv'
<1> DEFINE i == sl[s].item
           r == AfterEvent(item[i], "retry_wait", "record", s)
           y == [sl[s] EXCEPT !.stop = "refused"]
<1>1. /\ sl[s] \in SliceType /\ LocalOK(sl[s]) /\ sl[s].pc = "claimed"
      /\ sl[s].stage = "document" /\ sl[s].stop = "none" /\ sl[s].up /\ lock = s
      /\ WorkOK(s, sl[s]) /\ i \in Documents /\ i \in Items /\ i \notin Discovery
      /\ UNCHANGED <<lease, attempt, blocks, results, used, f1, f5, outside, lock>>
      /\ UNCHANGED <<files, trouble>>
  BY SliceFacts, Constants DEF RefusedPass, LocalOK, AtWork, Asking, Holding, StageItems
<1>2. item' = [item EXCEPT ![i] = r] /\ sl' = [sl EXCEPT ![s] = Back(y)]
  <2>1. sl' = [sl EXCEPT ![s] = Back([@ EXCEPT !.stop = "refused"])]
        /\ item' = [item EXCEPT ![i] = AfterEvent(@, "retry_wait", "record", s)]
    BY DEF RefusedPass
  <2>2. sl' = [sl EXCEPT ![s] = Back([sl[s] EXCEPT !.stop = "refused"])]
    BY <2>1, SliceFacts
  <2>3. item' = [item EXCEPT ![i] = AfterEvent(item[i], "retry_wait", "record", s)]
    BY <1>1, <2>1, LedgerFacts
  <2> QED BY <2>2, <2>3
<1>3. y \in SliceType /\ y.stage = sl[s].stage /\ y.up = sl[s].up /\ y.stop = "refused"
  BY <1>1 DEF SliceType, Stops
<1> HIDE DEF y
<1>4. "retry_wait" \in States /\ "retry_wait" \notin IN_FLIGHT /\ item[i] \in ItemType
  BY <1>1, LedgerFacts DEF States, IN_FLIGHT
<1>5. r \in ItemType /\ r.state = "retry_wait"
  BY <1>4, EventFacts
<1> HIDE DEF r
<1>6. f5' \in SUBSET Documents /\ trouble' \in Nat
  BY <1>1, LedgerFacts
<1> HIDE DEF i
<1>7. i = sl[s].item
  BY DEF i
<1> QED BY <1>1, <1>2, <1>3, <1>4, <1>5, <1>6, <1>7, BackStep

(* A document is persisted, or its persistence fails.                      *)
LEMMA PersistStep ==
  ASSUME BackInv, NEW s \in Slices, Persist(s)
  PROVE  BackInv'
<1> DEFINE i == sl[s].item
           y == sl[s]
           failed == IF item[i].claims < ItemMax THEN "retry_wait" ELSE "failed"
<1>1. /\ y \in SliceType /\ LocalOK(y) /\ y.pc = "persist"
      /\ y.stage = "document" /\ y.stop \notin {"error", "blocked"} /\ y.up /\ lock = s
      /\ WorkOK(s, y) /\ i \in Documents /\ i \in Items /\ i \notin Discovery
      /\ UNCHANGED <<lease, attempt, blocks, results, used, f1, outside, lock, files>>
  BY SliceFacts, Constants DEF Persist, LocalOK, AtWork, Asking, Holding, StageItems
<1>2. /\ sl' = [sl EXCEPT ![s] = Back(@)]
      /\ \/ /\ item' = [item EXCEPT ![i] = AfterEvent(@, "persisted", "record", s)]
            /\ f5' = f5 \cup {i} /\ UNCHANGED trouble
         \/ /\ item' = [item EXCEPT ![i] = AfterEvent(@, failed, "record", s)]
            /\ UNCHANGED f5 /\ Happens("persist")
  BY DEF Persist
<1>3. sl' = [sl EXCEPT ![s] = Back(y)]
  BY <1>2, SliceFacts
<1>4. /\ trouble' \in Nat
      /\ f5' \in SUBSET Documents
  BY <1>1, <1>2, Counted, LedgerFacts
<1>5. failed \in {"retry_wait", "failed"}
  OBVIOUS
<1>6. PICK to \in {"persisted", "retry_wait", "failed"} :
        item' = [item EXCEPT ![i] = AfterEvent(@, to, "record", s)]
  <2> HIDE DEF failed
  <2> QED BY <1>2, <1>5
<1> DEFINE r == AfterEvent(item[i], to, "record", s)
<1>7. item' = [item EXCEPT ![i] = r]
  BY <1>1, <1>6, LedgerFacts
<1>8. to \in States /\ to \notin IN_FLIGHT /\ item[i] \in ItemType
  BY <1>1, <1>6, LedgerFacts DEF States, IN_FLIGHT
<1>9. r \in ItemType /\ r.state = to
  BY <1>8, EventFacts
<1> HIDE DEF r
<1>10. files = {}
  BY <1>1 DEF WorkOK
<1> HIDE DEF i
<1>11. i = sl[s].item
  BY DEF i
<1>12. UNCHANGED <<lease, attempt, blocks, results, used, f1, outside, lock, files>>
  BY <1>1
<1> QED BY <1>1, <1>3, <1>4, <1>7, <1>8, <1>9, <1>10, <1>11, <1>12, BackStep

(* F1's run of the claim is begun.                                         *)
LEMMA BeginRunStep ==
  ASSUME BackInv, NEW s \in Slices, BeginRun(s)
  PROVE  BackInv'
<1> DEFINE i == sl[s].item
           f == [f1[i] EXCEPT !.run = "begun"]
           x == [sl[s] EXCEPT !.pc = "begun"]
<1>1. /\ sl[s] \in SliceType /\ LocalOK(sl[s]) /\ sl[s].pc = "claimed"
      /\ sl[s].stage = "discovery" /\ sl[s].stop = "none" /\ sl[s].up /\ lock = s
      /\ WorkOK(s, sl[s]) /\ i \in Discovery /\ i \in Items /\ \A j \in Items : ~Open(j)
      /\ sl \in [Slices -> SliceType] /\ f1 \in [Discovery -> RunType]
      /\ UNCHANGED <<item, lease, attempt, blocks, results, used, f5, outside, lock>>
      /\ UNCHANGED <<files, trouble>>
  BY SliceFacts, LedgerFacts, WorkFacts, Constants
     DEF BeginRun, LocalOK, AtWork, Asking, Holding, StageItems
<1>2. f1' = [f1 EXCEPT ![i] = f] /\ sl' = [sl EXCEPT ![s] = x] /\ "begun" \in PCs
  BY <1>1 DEF BeginRun, PCs
<1>3. /\ x \in SliceType /\ x.item = i /\ x.stage = "discovery" /\ x.up
      /\ x.stop = "none" /\ x.pc = "begun"
  BY <1>1, <1>2 DEF SliceType
<1>4. f \in RunType
  BY <1>1 DEF RunType
<1> HIDE DEF x, f
<1>5. /\ sl' \in [Slices -> SliceType] /\ sl'[s] = x
      /\ \A t \in Slices \ {s} : sl'[t] = sl[t]
  BY <1>2, <1>3, Turn
<1>6. LocalOK(sl[s])' /\ SpoolOK(s, sl[s])'
  BY <1>1, <1>3, <1>5 DEF LocalOK, SpoolOK, StageItems, Asking, Holding
<1>7. WorkOK(s, sl[s])'
  <2>1. UNCHANGED p2blocks
    BY <1>1 DEF outside
  <2> QED BY <1>1, <1>3, <1>5, <2>1 DEF WorkOK, ActiveLeases, Open, Asking, Holding
<1>8. SliceOK(s, sl[s])'
  BY <1>1, <1>3, <1>5, <1>6, <1>7 DEF SliceOK
<1>9. ~(item[i].sent > 0 /\ attempt[i].outcome = "ok")
  BY <1>1 DEF WorkOK
<1> HIDE DEF i
<1> QED BY <1>1, <1>2, <1>4, <1>5, <1>8, <1>9, RunStep

(* F1's run is finished from the recorded answer.                          *)
LEMMA FinishRunStep ==
  ASSUME BackInv, NEW s \in Slices, FinishRun(s)
  PROVE  BackInv'
<1> DEFINE i == sl[s].item
           x == [sl[s] EXCEPT !.pc = "settle"]
<1>1. /\ sl[s] \in SliceType /\ LocalOK(sl[s]) /\ sl[s].pc = "finish"
      /\ sl[s].stage = "discovery" /\ sl[s].stop # "error" /\ sl[s].up /\ lock = s
      /\ WorkOK(s, sl[s]) /\ i \in Discovery /\ i \in Items /\ \A j \in Items : ~Open(j)
      /\ sl \in [Slices -> SliceType] /\ f1 \in [Discovery -> RunType]
      /\ UNCHANGED <<item, lease, attempt, blocks, results, used, f5, outside, lock>>
      /\ UNCHANGED <<files, trouble>>
  BY SliceFacts, LedgerFacts, WorkFacts, Constants
     DEF FinishRun, LocalOK, AtWork, Asking, Holding, StageItems
<1>2. PICK q \in SUCCESS : f1' = [f1 EXCEPT ![i] = RunFinished(i, q)]
  BY DEF FinishRun
<1> DEFINE f == RunFinished(i, q)
<1>3. sl' = [sl EXCEPT ![s] = x] /\ "settle" \in PCs
  BY <1>1 DEF FinishRun, PCs
<1>4. /\ x \in SliceType /\ x.item = i /\ x.stage = "discovery" /\ x.up
      /\ x.stop = sl[s].stop /\ x.pc = "settle"
  BY <1>1, <1>3 DEF SliceType
<1>5. f \in RunType /\ (attempt[i].outcome = "ok" => f.won = "succeeded")
  BY <1>1, <1>2, RunFacts
<1> HIDE DEF x, f
<1>6. f1' = [f1 EXCEPT ![i] = f] /\ f1'[i] = f
  BY <1>1, <1>2 DEF f
<1>7. /\ sl' \in [Slices -> SliceType] /\ sl'[s] = x
      /\ \A t \in Slices \ {s} : sl'[t] = sl[t]
  BY <1>3, <1>4, Turn
<1>8. LocalOK(sl[s])' /\ SpoolOK(s, sl[s])'
  BY <1>1, <1>4, <1>7 DEF LocalOK, SpoolOK, StageItems, Asking, Holding
<1>9. WorkOK(s, sl[s])'
  <2>1. UNCHANGED p2blocks
    BY <1>1 DEF outside
  <2>2. attempt'[i].outcome = "ok" => f1'[i].won # "none"
    BY <1>1, <1>5, <1>6
  <2> QED BY <1>1, <1>4, <1>7, <2>1, <2>2 DEF WorkOK, ActiveLeases, Open, Asking, Holding
<1>10. SliceOK(s, sl[s])'
  BY <1>1, <1>4, <1>7, <1>8, <1>9 DEF SliceOK
<1>11. item[i].sent > 0 /\ attempt[i].outcome = "ok" => f.won # "none"
  BY <1>5
<1> HIDE DEF i
<1> QED BY <1>1, <1>5, <1>6, <1>7, <1>10, <1>11, RunStep

(* The events that end a pass: one alone, or one that follows another.     *)
Alone(to) == to \in {"cleanup_failed", "blocked", "retry_wait", "retrieval_failed"}
Follows(by, to) ==
  \/ by = "processing" /\ to \in {"consumer_failed", "cleanup_failed", "failed"}
  \/ by = "retry_wait" /\ to = "failed"

(* What follows a pass, in the four ways it can go on.                     *)
LEMMA DisposedFacts ==
  ASSUME NEW i, NEW l \in SliceType, l.got \in Found, l.stop # "cleanup_stop"
  PROVE  LET d == Disposed(i, l) IN
         \/ /\ l.stop = "error" /\ d.log = <<>> /\ d.stop = "error" /\ d.goes = "closing"
         \/ /\ l.stop \in {"none", "refused"} /\ l.got = "retryable"
            /\ d.log = <<>> /\ d.stop = "none" /\ d.goes = "claimed"
         \/ /\ l.stop \in {"none", "refused", "circuit_open"} /\ l.got = "persist"
            /\ d.log = << <<"processing", "record">> >>
            /\ d.stop = l.stop /\ d.goes = "persist"
         \/ /\ l.stop # "error" /\ d.goes = "back"
            /\ \E to \in {"cleanup_failed", "failed", "blocked", "consumer_failed",
                          "retry_wait", "retrieval_failed"},
                  by \in {"processing", "retry_wait"} :
                  \/ Alone(to) /\ d.log = << <<to, "record">> >>
                  \/ Follows(by, to) /\ d.log = << <<by, "record">>, <<to, "record">> >>
            /\ \/ d.stop = "cleanup_stop"
               \/ l.stop = "blocked" /\ d.stop = "blocked"
               \/ /\ l.stop # "blocked" /\ l.got \notin Leftovers
                  /\ d.stop \in {l.stop, "refused"}
<1> DEFINE as(states, stop, goes) ==
             [log |-> [k \in DOMAIN states |-> <<states[k], "record">>],
              stop |-> stop, goes |-> goes]
           d == Disposed(i, l)
<1>1. /\ \A stop, goes : as(<<>>, stop, goes) = [log |-> <<>>, stop |-> stop, goes |-> goes]
  OBVIOUS
<1>2. \A to, stop, goes : as(<<to>>, stop, goes)
              = [log |-> << <<to, "record">> >>, stop |-> stop, goes |-> goes]
  OBVIOUS
<1>3. \A by, to, stop, goes : as(<<by, to>>, stop, goes)
         = [log |-> << <<by, "record">>, <<to, "record">> >>, stop |-> stop, goes |-> goes]
  OBVIOUS
<1>4. CASE l.stop = "error"
  <2>1. d = as(<<>>, "error", "closing")
    BY <1>4 DEF Disposed
  <2> QED BY <1>1, <1>4, <2>1
<1>5. ASSUME NEW to \in {"cleanup_failed", "failed", "blocked", "consumer_failed",
                         "retry_wait", "retrieval_failed"},
             NEW by \in {"processing", "retry_wait"}, NEW states, NEW stop,
             \/ Alone(to) /\ states = <<to>>
             \/ Follows(by, to) /\ states = <<by, to>>,
             d = as(states, stop, "back")
      PROVE  /\ d.goes = "back" /\ d.stop = stop
             /\ \/ Alone(to) /\ d.log = << <<to, "record">> >>
                \/ Follows(by, to) /\ d.log = << <<by, "record">>, <<to, "record">> >>
  <2> HIDE DEF as, d
  <2>1. CASE Alone(to) /\ states = <<to>>
    <3>1. d = [log |-> << <<to, "record">> >>, stop |-> stop, goes |-> "back"]
      BY <1>2, <1>5, <2>1
    <3> QED BY <2>1, <3>1
  <2>2. CASE Follows(by, to) /\ states = <<by, to>>
    <3>1. d = [log |-> << <<by, "record">>, <<to, "record">> >>, stop |-> stop,
               goes |-> "back"]
      BY <1>3, <1>5, <2>2
    <3> QED BY <2>2, <3>1
  <2> QED BY <1>5, <2>1, <2>2
<1>6. CASE l.stop # "error" /\ l.got \in Leftovers
  <2>1. d = as(CleanupStates(l.got), "cleanup_stop", "back")
    <3>1. l.got \in CleanupFailures("ok") /\ l.got \notin {"persist", "consumer", "refused",
                                                         "local", "terminal", "retryable"}
      BY <1>6, DispositionFacts DEF Leftovers
    <3> QED BY <1>6, <3>1 DEF Disposed
  <2>2. \E to \in {"cleanup_failed", "failed", "blocked", "consumer_failed",
                  "retry_wait", "retrieval_failed"}, by \in {"processing", "retry_wait"} :
           \/ Alone(to) /\ CleanupStates(l.got) = <<to>>
           \/ Follows(by, to) /\ CleanupStates(l.got) = <<by, to>>
    BY <1>6 DEF CleanupStates, Leftovers, Alone, Follows
  <2> QED BY <1>5, <1>6, <2>1, <2>2
<1>7. CASE l.stop = "blocked" /\ l.got \notin Leftovers
  <2>1. d = as(<<"blocked">>, "blocked", "back")
    BY <1>7, DispositionFacts DEF Disposed
  <2> QED BY <1>5, <1>7, <2>1 DEF Alone
<1>8. CASE l.stop \notin {"error", "blocked"} /\ l.got = "persist"
  <2>1. d = as(<<"processing">>, l.stop, "persist")
    BY <1>8, DispositionFacts DEF Disposed, Leftovers
  <2> QED BY <1>2, <1>8, <2>1 DEF SliceType, Stops
<1>9. CASE l.stop \notin {"error", "blocked"} /\ l.got = "consumer"
  <2>1. d = as(<<"processing", "consumer_failed">>, l.stop, "back")
    BY <1>9, DispositionFacts DEF Disposed, Leftovers
  <2> QED BY <1>5, <1>9, <2>1 DEF Leftovers, Follows
<1>10. CASE l.stop \notin {"error", "blocked"} /\ l.got = "refused"
  <2>1. d = as(<<"retry_wait">>, l.stop, "back")
    BY <1>10, DispositionFacts DEF Disposed, Leftovers
  <2> QED BY <1>5, <1>10, <2>1 DEF Leftovers, Alone
<1>11. CASE l.stop \notin {"error", "blocked"} /\ l.got = "local"
  <2>1. d = as(<<"retry_wait">>, "refused", "back")
    BY <1>11, DispositionFacts DEF Disposed, Leftovers
  <2> QED BY <1>5, <1>11, <2>1 DEF Leftovers, Alone
<1>12. CASE l.stop \notin {"error", "blocked"} /\ l.got \in {"terminal", "retryable"}
  <2> DEFINE again == l.got = "retryable" /\ l.stop # "circuit_open" /\ l.pass < Passes
  <2>1. d = IF again THEN as(<<>>, "none", "claimed")
            ELSE as(<<DocumentLiveState(i, l.got)>>, l.stop, "back")
    BY <1>12, DispositionFacts DEF Disposed, Leftovers
  <2>2. CASE again
    <3>1. d = as(<<>>, "none", "claimed")
      BY <2>1, <2>2
    <3> QED BY <1>1, <1>12, <2>2, <3>1 DEF SliceType, Stops
  <2>3. CASE ~again
    <3>1. d = as(<<DocumentLiveState(i, l.got)>>, l.stop, "back")
      BY <2>1, <2>3
    <3>2. DocumentLiveState(i, l.got) \in {"retry_wait", "retrieval_failed"}
      BY DEF DocumentLiveState
    <3> QED BY <1>5, <1>12, <3>1, <3>2 DEF Leftovers, Alone
  <2> QED BY <2>2, <2>3
<1>13. l.got \in Leftovers \/ l.got \in {"persist", "consumer", "terminal", "retryable",
                                       "refused", "local"}
  BY DEF Found
<1> QED BY <1>4, <1>6, <1>7, <1>8, <1>9, <1>10, <1>11, <1>12, <1>13

(* A mark on an item changes nothing else.                                 *)
LEMMA Marked ==
  ASSUME NEW r \in ItemType, NEW b \in BOOLEAN
  PROVE  LET e == [r EXCEPT !.stopped = b] IN
         /\ e \in ItemType /\ e.state = r.state /\ e.lease = r.lease
         /\ e.claims = r.claims /\ e.sent = r.sent
BY DEF ItemType

(* What a pass leads to.                                                   *)
LEMMA DisposeStep ==
  ASSUME BackInv, NEW s \in Slices, Dispose(s)
  PROVE  BackInv'
<1> DEFINE i == sl[s].item
           l0 == sl[s]
           d == Disposed(i, l0)
           m == AfterEvents(item[i], d.log, s)
           b == IF d.log = <<>> THEN item[i].stopped
                ELSE l0.got \in {"leftover", "leftover_retrieved"}
           r == [m EXCEPT !.stopped = b]
           y == [l0 EXCEPT !.stop = d.stop, !.got = "none"]
<1>1. /\ l0 \in SliceType /\ LocalOK(l0) /\ l0.pc = "dispose" /\ l0.got \in Found
      /\ l0.stage = "document" /\ i \in Documents /\ i \in Items /\ i \notin Discovery
      /\ l0.stop # "cleanup_stop"
      /\ UNCHANGED <<lease, attempt, blocks, results, used, f1, f5, outside, lock>>
      /\ UNCHANGED <<files, trouble>>
      /\ sl \in [Slices -> SliceType] /\ item \in [Items -> ItemType]
  BY SliceFacts, LedgerFacts, Constants
     DEF Dispose, LocalOK, AtWork, Asking, Holding, StageItems
<1>2. /\ item[i] \in ItemType /\ f5' \in SUBSET Documents /\ files' \in SUBSET Slices
      /\ trouble' \in Nat
  BY <1>1, LedgerFacts
<1>3. /\ item' = [item EXCEPT ![i] = [AfterEvents(@, d.log, s) EXCEPT !.stopped = b]]
      /\ sl' = [sl EXCEPT ![s] = IF d.goes = "back" THEN Back(y) ELSE [y EXCEPT !.pc = d.goes]]
  BY DEF Dispose
<1>4. d.log # <<>> => item' = [item EXCEPT ![i] = r]
  <2> HIDE DEF d
  <2> QED BY <1>1, <1>3
<1>5. d.log = <<>> => item' = item
  <2>1. AfterEvents(item[i], <<>>, s) = item[i]
    BY DEF AfterEvents
  <2> HIDE DEF d
  <2>2. [item[i] EXCEPT !.stopped = item[i].stopped] = item[i]
    BY <1>2 DEF ItemType
  <2>3. d.log = <<>> => item' = [item EXCEPT ![i] = item[i]]
    <3> SUFFICES ASSUME d.log = <<>>
                 PROVE  item' = [item EXCEPT ![i] = item[i]]
      OBVIOUS
    <3>1. item' = [item EXCEPT ![i] = [AfterEvents(item[i], d.log, s) EXCEPT
                                        !.stopped = item[i].stopped]]
      BY <1>1, <1>3
    <3> QED BY <2>1, <2>2, <3>1
  <2>4. [item EXCEPT ![i] = item[i]] = item
    BY <1>1
  <2> QED BY <2>3, <2>4
<1>6. (lock = s /\ WorkOK(s, l0) /\ ActiveLeases = {s}) \/ ~l0.up
  BY <1>1, SliceFacts DEF AtWork, WorkOK
<1>7. "none" \in Gots /\ {"claimed", "persist", "closing"} \subseteq PCs
      /\ {"error", "none", "cleanup_stop", "blocked", "refused"} \subseteq Stops
      /\ l0.stop \in Stops
  BY <1>1 DEF Gots, PCs, Stops, SliceType
<1>8. CASE /\ l0.stop = "error" /\ d.log = <<>> /\ d.stop = "error" /\ d.goes = "closing"
  <2> DEFINE x == [l0 EXCEPT !.stop = "error", !.got = "none", !.pc = "closing"]
  <2>1. sl' = [sl EXCEPT ![s] = x]
    <3> HIDE DEF d
    <3> QED BY <1>1, <1>3, <1>8
  <2>2. /\ x \in SliceType /\ x.item = i /\ x.stage = "document" /\ x.up = l0.up
        /\ x.stop = "error" /\ x.pc = "closing"
    BY <1>1, <1>7 DEF SliceType
  <2> HIDE DEF x
  <2>3. LocalOK(x)
    BY <2>2 DEF LocalOK, Asking, Holding
  <2>4. UNCHANGED ledgerVars
    BY <1>1, <1>5, <1>8 DEF ledgerVars, tables
  <2> QED BY <1>1, <1>2, <1>8, <2>1, <2>2, <2>3, <2>4, FieldStep DEF Asking, Holding
<1>9. CASE /\ l0.stop \in {"none", "refused"} /\ l0.got = "retryable"
            /\ d.log = <<>> /\ d.stop = "none" /\ d.goes = "claimed"
  <2> DEFINE x == [l0 EXCEPT !.stop = "none", !.got = "none", !.pc = "claimed"]
  <2>1. sl' = [sl EXCEPT ![s] = x]
    <3> HIDE DEF d
    <3> QED BY <1>1, <1>3, <1>9
  <2>2. /\ x \in SliceType /\ x.item = i /\ x.stage = "document" /\ x.up = l0.up
        /\ x.stop = "none" /\ x.pc = "claimed"
    BY <1>1, <1>7 DEF SliceType
  <2> HIDE DEF x
  <2>3. /\ sl' \in [Slices -> SliceType] /\ sl'[s] = x
        /\ \A t \in Slices \ {s} : sl'[t] = sl[t]
    BY <2>1, <2>2, Turn
  <2>4. l0.up
    BY <1>1, <1>9 DEF LocalOK, Asking
  <2>5. LocalOK(sl[s])' /\ SpoolOK(s, sl[s])'
    BY <1>1, <2>2, <2>3, <2>4 DEF LocalOK, SpoolOK, StageItems, Asking, Holding
  <2>6. UNCHANGED ledgerVars
    BY <1>1, <1>5, <1>9 DEF ledgerVars, tables
  <2>7. WorkOK(s, sl[s])'
    <3>1. UNCHANGED <<item, lease, attempt, blocks, p2blocks, files>>
      BY <1>1, <1>5, <1>9 DEF outside
    <3>2. /\ ActiveLeases' = {s} /\ blocks' = {} /\ ~p2blocks'
          /\ \A j \in Items : attempt'[j].outcome # "open"
          /\ item'[i].state = "requesting" /\ item'[i].lease = s
          /\ files' = {}
      BY <1>1, <1>6, <1>9, <2>4, <3>1
         DEF WorkOK, ActiveLeases, Open, Asking, Holding, Leftovers
    <3> QED BY <1>1, <2>2, <2>3, <3>2 DEF WorkOK, Open, Asking, Holding
  <2> HIDE DEF i
  <2> QED BY <1>1, <1>2, <2>2, <2>3, <2>4, <2>5, <2>6, <2>7, MoveStep
<1>10. CASE /\ l0.stop \in {"none", "refused", "circuit_open"} /\ l0.got = "persist"
            /\ d.log = << <<"processing", "record">> >>
            /\ d.stop = l0.stop /\ d.goes = "persist"
  <2> DEFINE x == [l0 EXCEPT !.stop = l0.stop, !.got = "none", !.pc = "persist"]
             p == AfterEvent(item[i], "processing", "record", s)
  <2>1. sl' = [sl EXCEPT ![s] = x]
    <3> HIDE DEF d
    <3> QED BY <1>1, <1>3, <1>10
  <2>2. /\ x \in SliceType /\ x.item = i /\ x.stage = "document" /\ x.up = l0.up
        /\ x.stop = l0.stop /\ x.pc = "persist"
    BY <1>1, <1>7 DEF SliceType
  <2> HIDE DEF x
  <2>3. /\ sl' \in [Slices -> SliceType] /\ sl'[s] = x
        /\ \A t \in Slices \ {s} : sl'[t] = sl[t]
    BY <2>1, <2>2, Turn
  <2>4. l0.up /\ lock = s /\ WorkOK(s, l0) /\ ActiveLeases = {s}
        /\ \A j \in Items : ~Open(j)
    BY <1>1, <1>6, <1>10, WorkFacts DEF LocalOK, Asking
  <2>5. LocalOK(sl[s])' /\ SpoolOK(s, sl[s])'
    BY <1>1, <1>10, <2>2, <2>3, <2>4 DEF LocalOK, SpoolOK, StageItems, Asking, Holding
  <2>6. AfterEvents(item[i], << <<"processing", "record">> >>, s) = p
    BY OneEvent
  <2>7. p \in ItemType /\ p.state = "processing" /\ p.lease = s
    <3>1. "processing" \in States /\ "processing" \in IN_FLIGHT
      BY DEF States, IN_FLIGHT
    <3> QED BY <1>2, <3>1, EventFacts
  <2>8. m = p
    <3> HIDE DEF p, d
    <3> QED BY <1>10, <2>6
  <2>9. b \in BOOLEAN
    BY <1>2, <1>10
  <2>10. r \in ItemType /\ r.state = "processing" /\ r.lease = s
    <3> HIDE DEF m, b, p
    <3> QED BY <2>7, <2>8, <2>9, Marked
  <2>11. item' = [item EXCEPT ![i] = r]
    BY <1>4, <1>10
  <2> HIDE DEF r
  <2>12. WorkOK(s, sl[s])'
    <3>1. UNCHANGED <<lease, attempt, blocks, p2blocks, files>> /\ item'[i] = r
      BY <1>1, <2>11 DEF outside
    <3>2. /\ ActiveLeases' = {s} /\ blocks' = {} /\ ~p2blocks'
          /\ \A j \in Items : attempt'[j].outcome # "open" /\ files' = {}
      BY <1>1, <1>10, <2>4, <3>1
         DEF WorkOK, ActiveLeases, Open, Asking, Holding, Leftovers
    <3> QED BY <1>1, <1>2, <2>2, <2>3, <2>10, <3>1, <3>2 DEF WorkOK, Open, Asking, Holding
  <2>13. SliceOK(s, sl[s])'
    BY <1>1, <2>2, <2>3, <2>4, <2>5, <2>12 DEF SliceOK
  <2> HIDE DEF i
  <2> QED BY <1>1, <1>2, <2>3, <2>4, <2>10, <2>11, <2>13, ItemStep
<1>11. CASE /\ l0.stop # "error" /\ d.goes = "back"
            /\ \E to \in {"cleanup_failed", "failed", "blocked", "consumer_failed",
                          "retry_wait", "retrieval_failed"},
                  by \in {"processing", "retry_wait"} :
                  \/ d.log = << <<to, "record">> >>
                  \/ d.log = << <<by, "record">>, <<to, "record">> >>
            /\ \/ d.stop = "cleanup_stop"
               \/ l0.stop = "blocked" /\ d.stop = "blocked"
               \/ /\ l0.stop # "blocked" /\ l0.got \notin Leftovers
                  /\ d.stop \in {l0.stop, "refused"}
  <2>1. sl' = [sl EXCEPT ![s] = Back(y)]
    <3> HIDE DEF d, y
    <3> QED BY <1>3, <1>11
  <2>2. d.stop \in Stops
    BY <1>7, <1>11
  <2>3. y \in SliceType /\ y.stage = l0.stage /\ y.up = l0.up /\ y.stop = d.stop
    <3> HIDE DEF d
    <3> QED BY <1>1, <1>7, <2>2 DEF SliceType
  <2>4. l0.up /\ lock = s /\ WorkOK(s, l0)
    BY <1>1, <1>6, <1>11 DEF LocalOK, Asking
  <2>5. /\ y.stop \in {"none", "refused", "circuit_open"} => l0.stop # "blocked"
        /\ y.stop = "none" => files = {}
    <3>1. l0.got \notin Leftovers => files = {}
      BY <1>1, <2>4 DEF WorkOK
    <3> HIDE DEF d, y
    <3> QED BY <1>11, <2>3, <3>1
  <2> HIDE DEF y
  <2>6. PICK to \in {"cleanup_failed", "failed", "blocked", "consumer_failed",
                     "retry_wait", "retrieval_failed"},
             by \in {"processing", "retry_wait"} :
                  \/ d.log = << <<to, "record">> >>
                  \/ d.log = << <<by, "record">>, <<to, "record">> >>
    BY <1>11
  <2> DEFINE p == AfterEvent(item[i], by, "record", s)
             e1 == AfterEvent(item[i], to, "record", s)
             e2 == AfterEvent(p, to, "record", s)
  <2>7. to \in States /\ by \in States /\ to \notin IN_FLIGHT
    BY DEF States, IN_FLIGHT
  <2>8. p \in ItemType
    BY <1>2, <2>7, EventFacts
  <2> HIDE DEF p
  <2>9. e1 \in ItemType /\ e1.state = to /\ e2 \in ItemType /\ e2.state = to
    <3>1. e1 \in ItemType /\ e1.state = to
      BY <1>2, <2>7, EventFacts
    <3>2. e2 \in ItemType /\ e2.state = to
      BY <2>7, <2>8, EventFacts
    <3> QED BY <3>1, <3>2
  <2>10. m = e1 \/ m = e2
    <3>1. AfterEvents(item[i], << <<to, "record">> >>, s) = e1
      BY OneEvent
    <3>2. AfterEvents(item[i], << <<by, "record">>, <<to, "record">> >>, s) = e2
      BY TwoEvents DEF p
    <3> HIDE DEF e1, e2, d
    <3> QED BY <2>6, <3>1, <3>2
  <2>11. d.log # <<>> /\ b \in BOOLEAN
    <3>1. d.log # <<>>
      <4> HIDE DEF d
      <4> QED BY <2>6
    <3> QED BY <3>1
  <2>12. r \in ItemType /\ r.state = to
    <3>1. m \in ItemType /\ m.state = to
      <4> HIDE DEF m, e1, e2
      <4> QED BY <2>9, <2>10
    <3> HIDE DEF m, b
    <3> QED BY <2>11, <3>1, Marked
  <2>13. item' = [item EXCEPT ![i] = r]
    BY <1>4, <2>11
  <2> HIDE DEF r, d
  <2>14. i \notin Discovery /\ i \in Items /\ i = l0.item
    BY <1>1
  <2> HIDE DEF i
  <2> QED BY <1>1, <1>2, <1>11, <2>1, <2>3, <2>4, <2>5, <2>7, <2>12, <2>13, <2>14, BackStep
<1> HIDE DEF m, r, y, b
<1> QED BY <1>1, <1>8, <1>9, <1>10, <1>11, DisposedFacts

-----------------------------------------------------------------------------
(* Leases                                                                  *)

(* The results of the leases stay counts.                                  *)
LEMMA ResultsFacts ==
  ASSUME BackInv, NEW d \in Slices, NEW res
  PROVE  WithResult(d, res) \in [Stages -> Nat]
<1>1. results \in [Stages -> Nat] /\ lease[d].stage \in Stages
  BY LedgerFacts DEF LeaseType
<1>2. CASE lease[d].arming # arming.id
  BY <1>1, <1>2 DEF WithResult
<1>3. CASE lease[d].arming = arming.id
  <2> DEFINE g == lease[d].stage
             n == IF res # "circuit_open" THEN 0
                  ELSE IF results[g] < StoppedSlices THEN results[g] + 1 ELSE results[g]
  <2>1. n \in Nat
    BY <1>1
  <2>2. WithResult(d, res) = [results EXCEPT ![g] = n]
    BY <1>1, <1>3 DEF WithResult
  <2> HIDE DEF n, g
  <2> QED BY <1>1, <2>1, <2>2
<1> QED BY <1>2, <1>3

(* A dead lease is expired: its open attempts get the answer the spool     *)
(* holds, or 'unrecorded'; its items in flight are abandoned.              *)
LEMMA ExpireStep ==
  ASSUME BackInv, NEW s \in Slices, NEW d \in Slices, Expire(s, d)
  PROVE  BackInv'
<1>1. /\ sl[s].pc = "recover" /\ d # s /\ d \in ActiveLeases
      /\ \A i \in OpenAttempts(d) : attempt[i].spooled # "corrupt"
      /\ lease' = [lease EXCEPT ![d] = NoLease] /\ results' = WithResult(d, "expired")
      /\ attempt' = [i \in Items |-> IF i \in OpenAttempts(d) THEN Closed(Recovered(i))
                                     ELSE attempt[i]]
      /\ blocks' = blocks \cup {i \in OpenAttempts(d) : Recovered(i) = "block"}
      /\ item' = [i \in Items |-> IF i \in InFlightItems(d)
                                  THEN AfterEvent(item[i], "abandoned", "expire", d)
                                  ELSE item[i]]
      /\ UNCHANGED <<used, f1, f5, outside, lock, sl, files, trouble>>
  BY DEF Expire
<1>2. /\ sl[s].up /\ lock = s /\ lease[s].state = "none" /\ LocalOK(sl[s])
      /\ sl \in [Slices -> SliceType]
  BY <1>1, SliceFacts DEF LocalOK, Asking
<1>3. /\ item \in [Items -> ItemType] /\ attempt \in [Items -> AttemptType]
      /\ lease \in [Slices -> LeaseType] /\ LedgerOK /\ blocks \in SUBSET Items
  BY LedgerFacts
<1>4. NoLease \in LeaseType /\ NoLease.state = "none"
  BY DEF NoLease, LeaseType, Stages
<1>5. \A i \in Items : i \in OpenAttempts(d) =>
        /\ Closed(Recovered(i)) \in AttemptType
        /\ Closed(Recovered(i)).outcome \in Heard \cup {"unrecorded"}
        /\ Open(i)
  <2> TAKE i \in Items
  <2> HAVE i \in OpenAttempts(d)
  <2>1. Recovered(i) \in Heard \cup {"unrecorded"}
    BY <1>1, <1>3 DEF Recovered, AttemptType
  <2> DEFINE rec == Recovered(i)
  <2> HIDE DEF rec
  <2>2. rec \in Heard \cup {"unrecorded"}
    BY <2>1 DEF rec
  <2>3. Closed(rec) \in AttemptType /\ Closed(rec).outcome = rec
    BY <2>2 DEF Closed, AttemptType, Told
  <2> QED BY <2>2, <2>3 DEF OpenAttempts, Open, rec
<1>6. \A i \in Items : i \in InFlightItems(d) =>
        /\ AfterEvent(item[i], "abandoned", "expire", d) \in ItemType
        /\ AfterEvent(item[i], "abandoned", "expire", d).state = "abandoned"
        /\ AfterEvent(item[i], "abandoned", "expire", d).sent = item[i].sent
        /\ AfterEvent(item[i], "abandoned", "expire", d).claims = item[i].claims
  <2> TAKE i \in Items
  <2>1. item[i] \in ItemType /\ "abandoned" \in States
    BY <1>3 DEF States
  <2> QED BY <2>1, EventFacts
<1>7. item' \in [Items -> ItemType] /\ attempt' \in [Items -> AttemptType]
  BY <1>1, <1>3, <1>5, <1>6
<1>8. lease' \in [Slices -> LeaseType] /\ blocks' \in SUBSET Items
  BY <1>1, <1>3, <1>4 DEF OpenAttempts
<1>9. TablesOK' /\ OutsideOK' /\ files' \in SUBSET Slices /\ trouble' \in Nat
      /\ sl' \in [Slices -> SliceType]
  <2>1. results' \in [Stages -> Nat]
    BY <1>1, ResultsFacts
  <2> QED BY <1>1, <1>2, <1>7, <1>8, <2>1
      DEF outside, BackInv, TypeOK, TablesOK, OutsideOK, MemoryOK
<1>10. ActiveLeases' = ActiveLeases \ {d}
  BY <1>1, <1>3, <1>4 DEF ActiveLeases
<1>11. \A i \in Items : Owned(i)'
  <2> TAKE i \in Items
  <2>1. Owned(i)
    BY <1>3 DEF LedgerOK
  <2>2. item'[i].state \in IN_FLIGHT => item'[i] = item[i] /\ item[i].lease # d
    BY <1>1, <1>6 DEF InFlightItems, IN_FLIGHT
  <2>3. Open(i)' => attempt'[i] = attempt[i] /\ Open(i) /\ attempt[i].by # d
    BY <1>1, <1>5 DEF OpenAttempts, Open, Heard
  <2>4. Open(i)' => item'[i] = item[i]
    BY <1>1, <2>1, <2>3 DEF Owned, InFlightItems
  <2> QED BY <1>10, <2>1, <2>2, <2>3, <2>4 DEF Owned, Open
<1>12. \A i \in Discovery : Evident(i)'
  <2> TAKE i \in Discovery
  <2>1. i \in Items /\ Evident(i) /\ Owned(i) /\ UNCHANGED f1
    BY <1>1, <1>3, Constants DEF LedgerOK
  <2>2. item'[i].sent = item[i].sent /\ item'[i].claims = item[i].claims
        /\ item'[i].state \in {"abandoned", item[i].state}
    BY <1>1, <1>6, <2>1
  <2>3. Open(i)' => Open(i)
    BY <1>1, <1>5, <2>1 DEF Open, Heard
  <2>4. attempt'[i].outcome = "ok" => attempt[i].outcome = "ok" \/ Open(i)
    BY <1>1, <1>5, <2>1
  <2>5. Open(i) => item[i].state = "requesting" /\ f1[i].run = "requested"
    BY <2>1 DEF Owned, Evident
  <2> QED BY <2>1, <2>2, <2>3, <2>4, <2>5 DEF Evident
<1>13. \A i, j \in Items : Open(i)' /\ Open(j)' => i = j
  BY <1>1, <1>3, <1>5 DEF LedgerOK, Open, Heard
<1>14. LedgerOK'
  BY <1>11, <1>12, <1>13 DEF LedgerOK, Open
<1>15. lease'[s].state = "none"
  BY <1>1, <1>2, <1>3
<1>16. SliceOK(s, sl[s])'
  BY <1>1, <1>2, <1>15 DEF SliceOK, LocalOK, SpoolOK, AtWork, Asking, Holding
<1>17. \A t \in Slices \ {s} : lease'[t] = lease[t] \/ lease'[t].state = "none"
  BY <1>1, <1>3, <1>4
<1>18. \A i \in Items : attempt'[i].outcome = "open" => attempt'[i] = attempt[i]
  BY <1>1, <1>5 DEF Heard
<1>19. \A t \in Slices \ {s} : sl'[t] = sl[t]
  BY <1>1
<1> QED BY <1>2, <1>9, <1>14, <1>16, <1>17, <1>18, <1>19, HolderStep

(* The lease of a new slice.                                               *)
LEMMA OpenLeaseStep ==
  ASSUME BackInv, NEW s \in Slices, OpenLease(s)
  PROVE  BackInv'
<1> DEFINE pc == IF sl[s].stage = "document" THEN "gate" ELSE "reconcile"
           x == [sl[s] EXCEPT !.pc = pc]
           g == [state |-> "active", arming |-> arming.id, stage |-> sl[s].stage]
<1>1. /\ sl[s].pc = "recover" /\ ActiveLeases \subseteq {s} /\ Gates(sl[s].stage)
      /\ lease' = [lease EXCEPT ![s] = g]
      /\ UNCHANGED <<item, attempt, blocks, results, used, f1, f5, outside, lock>>
      /\ UNCHANGED <<files, trouble>>
  BY DEF OpenLease
<1>2. /\ sl[s] \in SliceType /\ LocalOK(sl[s]) /\ sl[s].stop = "none" /\ sl[s].up
      /\ lock = s /\ lease[s].state = "none" /\ sl \in [Slices -> SliceType]
  BY <1>1, SliceFacts DEF LocalOK, Asking
<1>3. sl' = [sl EXCEPT ![s] = x]
  BY <1>2 DEF OpenLease
<1>4. pc \in PCs /\ pc \in {"gate", "reconcile"} /\ (pc = "gate" <=> sl[s].stage = "document")
  BY DEF PCs
<1> HIDE DEF pc
<1>5. /\ x \in SliceType /\ x.item = sl[s].item /\ x.stage = sl[s].stage /\ x.up
      /\ x.stop = "none" /\ x.pc = pc
  BY <1>2, <1>4 DEF SliceType
<1> HIDE DEF x
<1>6. /\ sl' \in [Slices -> SliceType] /\ sl'[s] = x
      /\ \A t \in Slices \ {s} : sl'[t] = sl[t]
  BY <1>3, <1>5, Turn
<1>7. g \in LeaseType /\ g.state = "active"
  BY <1>2 DEF LeaseType, SliceType, BackInv, TypeOK, OutsideOK
<1> HIDE DEF g
<1>8. /\ lease \in [Slices -> LeaseType] /\ LedgerOK
      /\ files' \in SUBSET Slices /\ trouble' \in Nat
  BY <1>1, LedgerFacts
<1>9. ActiveLeases = {} /\ ActiveLeases' = {s}
  BY <1>1, <1>2, <1>7, <1>8 DEF ActiveLeases
<1>10. TablesOK' /\ OutsideOK'
  BY <1>1, <1>7, <1>8 DEF outside, BackInv, TypeOK, TablesOK, OutsideOK
<1>11. \A i \in Items : item[i].state \notin IN_FLIGHT /\ ~Open(i)
  BY <1>8, <1>9 DEF LedgerOK, Owned, IN_FLIGHT
<1>12. LedgerOK'
  <2>1. \A i \in Items : Owned(i)'
    BY <1>1, <1>11 DEF Owned, Open
  <2>2. \A i \in Discovery : Evident(i)'
    BY <1>1, <1>8 DEF LedgerOK, Evident, Open
  <2> QED BY <1>1, <1>11, <2>1, <2>2 DEF LedgerOK, Open
<1>13. LocalOK(sl[s])' /\ SpoolOK(s, sl[s])'
  BY <1>4, <1>5, <1>6 DEF LocalOK, SpoolOK, Asking, Holding
<1>14. WorkOK(s, sl[s])'
  <2>1. /\ blocks' = {} /\ ~p2blocks' /\ \A i \in Items : attempt'[i].outcome # "open"
    BY <1>1, <1>11 DEF Gates, outside, Open
  <2>2. x.stage = "document" => x.pc = "gate"
    BY <1>4, <1>5
  <2> QED BY <1>4, <1>5, <1>6, <1>9, <2>1, <2>2 DEF WorkOK, Open, Asking, Holding
<1>15. SliceOK(s, sl[s])'
  BY <1>1, <1>2, <1>4, <1>5, <1>6, <1>13, <1>14 DEF SliceOK
<1>16. /\ \A t \in Slices \ {s} : lease'[t] = lease[t]
       /\ \A i \in Items : attempt'[i] = attempt[i]
  BY <1>1, <1>8
<1> QED BY <1>2, <1>6, <1>8, <1>10, <1>12, <1>15, <1>16, HolderStep

(* A slice that never opened its lease, or that dies.                      *)
LEMMA GoneStep ==
  ASSUME BackInv, NEW s \in Slices, RefuseOpen(s) \/ Crash(s)
  PROVE  BackInv'
<1>1. sl' = [sl EXCEPT ![s] = IdleSlice] /\ UNCHANGED <<tables, outside, files>>
  BY DEF RefuseOpen, Crash
<1>2. trouble' \in Nat
  BY Counted DEF RefuseOpen, Crash
<1>3. lock' = lock \/ lock = s
  <2>1. CASE Crash(s)
    BY <2>1 DEF Crash, Unlocked
  <2>2. CASE RefuseOpen(s)
    BY <2>2, SliceFacts DEF RefuseOpen, LocalOK, Asking
  <2> QED BY <2>1, <2>2
<1> QED BY <1>1, <1>2, <1>3, LeaveStep

(* The end of a slice: its lease is released only when nothing is left     *)
(* under it.                                                               *)
LEMMA CloseStep ==
  ASSUME BackInv, NEW s \in Slices, Close(s)
  PROVE  BackInv'
<1>1. /\ sl[s].pc = "closing" /\ lock' = Unlocked(s)
      /\ sl' = [sl EXCEPT ![s] = IdleSlice]
      /\ UNCHANGED <<item, attempt, blocks, used, f1, f5, outside, files, trouble>>
  BY DEF Close
<1>2. trouble' \in Nat /\ files' \in SUBSET Slices
  BY <1>1, LedgerFacts
<1>3. CASE KeepsLease(s)
  <2>1. UNCHANGED <<tables, outside, files>> /\ (lock' = lock \/ lock = s)
    BY <1>1, <1>3 DEF Close, tables, Unlocked
  <2> QED BY <1>1, <1>2, <2>1, LeaveStep
<1>4. CASE ~KeepsLease(s)
  <2>1. /\ lease' = [lease EXCEPT ![s] = NoLease] /\ sl[s].up /\ sl[s].stop # "error"
        /\ results' = WithResult(s, LeaseResult(sl[s].stop))
        /\ InFlightItems(s) = {} /\ OpenAttempts(s) = {}
    BY <1>4 DEF Close, KeepsLease
  <2>2. lock = s /\ ActiveLeases = {s}
    BY <1>1, <2>1, WorkFacts
  <2>3. LedgerOK /\ lease \in [Slices -> LeaseType]
    BY LedgerFacts
  <2>4. \A i \in Items : item[i].state \notin IN_FLIGHT /\ ~Open(i)
    BY <2>1, <2>2, <2>3 DEF LedgerOK, Owned, InFlightItems, IN_FLIGHT
  <2>5. LedgerOK'
    <3>1. \A i \in Items : Owned(i)'
      BY <1>1, <2>4 DEF Owned, Open
    <3>2. \A i \in Discovery : Evident(i)'
      BY <1>1, <2>3 DEF LedgerOK, Evident, Open
    <3> QED BY <1>1, <2>4, <3>1, <3>2 DEF LedgerOK, Open
  <2>6. TablesOK' /\ OutsideOK'
    <3>1. NoLease \in LeaseType
      BY DEF NoLease, LeaseType, Stages
    <3>2. lease' \in [Slices -> LeaseType] /\ results' \in [Stages -> Nat]
      BY <2>1, <2>3, <3>1, ResultsFacts
    <3> QED BY <1>1, <3>2 DEF outside, BackInv, TypeOK, TablesOK, OutsideOK
  <2>7. /\ sl' \in [Slices -> SliceType] /\ sl'[s] = IdleSlice
        /\ \A t \in Slices \ {s} : sl'[t] = sl[t]
    BY <1>1, IdleOK, SliceFacts
  <2>8. SliceOK(s, sl[s])'
    BY <2>7, IdleOK
  <2>9. /\ \A t \in Slices \ {s} : lease'[t] = lease[t]
        /\ \A i \in Items : attempt'[i] = attempt[i]
    BY <1>1, <2>1, <2>3
  <2> QED BY <1>2, <2>2, <2>5, <2>6, <2>7, <2>8, <2>9, HolderStep
<1> QED BY <1>3, <1>4

-----------------------------------------------------------------------------
(* Outside the slices                                                      *)

(* A spool record of a slice that is gone is damaged.                      *)
LEMMA CorruptStep ==
  ASSUME BackInv, NEW i \in Items, Corrupt(i)
  PROVE  BackInv'
<1> DEFINE e == [attempt[i] EXCEPT !.spooled = "corrupt"]
<1>1. /\ Open(i) /\ \A s \in Slices : sl[s].item # i
      /\ attempt' = [attempt EXCEPT ![i].spooled = "corrupt"]
      /\ UNCHANGED <<item, lease, blocks, results, used, f1, f5, outside, lock, sl>>
      /\ UNCHANGED <<files, trouble>>
  BY DEF Corrupt, Open
<1>2. /\ attempt \in [Items -> AttemptType] /\ LedgerOK
      /\ files' \in SUBSET Slices /\ trouble' \in Nat
  BY <1>1, LedgerFacts
<1>3. attempt' = [attempt EXCEPT ![i] = e]
  BY <1>1, <1>2
<1>4. e \in AttemptType /\ e.outcome = attempt[i].outcome /\ e.by = attempt[i].by
  BY <1>2 DEF AttemptType
<1> HIDE DEF e
<1>5. /\ \A j \in Items : attempt'[j].outcome = attempt[j].outcome
                          /\ attempt'[j].by = attempt[j].by
      /\ \A j \in Items : j # i => attempt'[j] = attempt[j]
  BY <1>2, <1>3, <1>4
<1>6. TablesOK' /\ OutsideOK' /\ sl' \in [Slices -> SliceType]
  BY <1>1, <1>2, <1>3, <1>4 DEF outside, BackInv, TypeOK, TablesOK, OutsideOK, MemoryOK
<1>7. UNCHANGED <<p2blocks, p2used>> /\ used \in Nat /\ p2used \in Nat
      /\ ActiveLeases' = ActiveLeases
  BY <1>1 DEF outside, BackInv, TypeOK, TablesOK, OutsideOK, ActiveLeases
<1>8. LedgerOK'
  <2>1. \A j \in Items : Owned(j)'
    BY <1>1, <1>2, <1>5, <1>7 DEF LedgerOK, Owned, Open
  <2>2. \A j \in Discovery : Evident(j)'
    BY <1>1, <1>2, <1>5, Constants DEF LedgerOK, Evident, Open
  <2> QED BY <1>2, <1>5, <2>1, <2>2 DEF LedgerOK, Open
<1>9. \A t \in Slices : SliceOK(t, sl[t])'
  <2> TAKE t \in Slices
  <2>1. AtWork(sl[t]) => WorkOK(t, sl[t])'
    BY <1>1, <1>5, <1>7, WorkKept
  <2>2. /\ LocalOK(sl[t]) /\ SpoolOK(t, sl[t])
        /\ sl[t].pc \in {"lock", "recover"} => lease[t].state = "none"
        /\ sl[t].up /\ sl[t].pc \notin {"idle", "lock"} => lock = t
    BY SliceFacts
  <2>3. LocalOK(sl[t])'
    BY <1>1, <2>2 DEF LocalOK, StageItems
  <2>4. sl[t].pc \in Asking => sl[t].item \in Items
    BY <2>2, Constants DEF LocalOK, StageItems, Holding
  <2>5. SpoolOK(t, sl[t])'
    BY <1>1, <1>5, <2>2, <2>4 DEF SpoolOK, Open
  <2> QED BY <1>1, <2>1, <2>2, <2>3, <2>5 DEF SliceOK, AtWork
<1> QED BY <1>2, <1>6, <1>8, <1>9 DEF BackInv, TypeOK, MemoryOK

(* A step of anybody else: the owner, the operator, P2, P3 or the calendar.*)
LEMMA OtherStep ==
  ASSUME BackInv, UNCHANGED <<sl, files, trouble, lease, attempt>>,
         TablesOK', OutsideOK', LedgerOK',
         \A t \in Slices : AtWork(sl[t]) => WorkOK(t, sl[t])',
         lock' = lock \/ lock \notin Slices
  PROVE  BackInv'
<1>1. \A t \in Slices : SliceOK(t, sl[t])'
  <2> TAKE t \in Slices
  <2>1. sl[t].up /\ sl[t].pc \notin {"idle", "lock"} => lock' = t
    BY SliceFacts
  <2> QED BY <2>1, Kept
<1>2. MemoryOK'
  BY DEF BackInv, TypeOK, MemoryOK
<1> QED BY <1>1, <1>2 DEF BackInv, TypeOK

(* A decision that touches no item and no run.                             *)
LEMMA DecisionStep ==
  ASSUME BackInv, UNCHANGED <<item, lease, attempt, f1, f5, sl, files, trouble>>,
         blocks' \subseteq blocks, results' \in [Stages -> Nat],
         used' \in Nat, used' <= used, OutsideOK',
         \/ lock' = lock /\ (p2blocks' => p2blocks) /\ p2used' <= p2used
         \/ lock \notin Slices
  PROVE  BackInv'
<1>1. TablesOK'
  BY DEF BackInv, TypeOK, TablesOK
<1>2. LedgerOK' /\ ActiveLeases' = ActiveLeases
  BY LedgerFacts DEF LedgerOK, Owned, Evident, Open, ActiveLeases
<1>3. ASSUME NEW t \in Slices, AtWork(sl[t])
      PROVE  WorkOK(t, sl[t])'
  <2>1. lock = t
    BY <1>3, SliceFacts DEF AtWork
  <2>2. (p2blocks' => p2blocks) /\ p2used' <= p2used /\ p2used' \in Nat
    BY <2>1 DEF OutsideOK
  <2> QED BY <1>2, <1>3, <2>2, WorkKept
<1> QED BY <1>1, <1>2, <1>3, OtherStep

(* The operator's event on an item that no slice holds.                    *)
LEMMA OperatorStep ==
  ASSUME BackInv, NEW i \in Items, NEW r \in ItemType, item' = [item EXCEPT ![i] = r],
         item[i].state \notin IN_FLIGHT, r.state \notin IN_FLIGHT,
         i \in Discovery => r.sent <= r.claims,
         i \in Discovery => ~(r.sent > 0 /\ attempt[i].outcome = "ok"),
         UNCHANGED <<lease, attempt, blocks, results, used, f1, f5, lock, sl, files, trouble>>,
         UNCHANGED <<p2blocks, p2used>>, OutsideOK'
  PROVE  BackInv'
<1>1. item \in [Items -> ItemType] /\ LedgerOK /\ used \in Nat /\ p2used \in Nat
  BY LedgerFacts DEF BackInv, TypeOK, OutsideOK
<1>2. TablesOK'
  BY <1>1 DEF BackInv, TypeOK, TablesOK
<1>3. \A j \in Items : item'[j] = IF j = i THEN r ELSE item[j]
  BY <1>1
<1>4. ActiveLeases' = ActiveLeases
  BY DEF ActiveLeases
<1>5. \A j \in Items : Owned(j)'
  BY <1>1, <1>3, <1>4 DEF LedgerOK, Owned, Open, IN_FLIGHT
<1>6. \A j \in Discovery : Evident(j)'
  <2> TAKE j \in Discovery
  <2>1. Evident(j) /\ Owned(j) /\ j \in Items
    BY <1>1, Constants DEF LedgerOK
  <2>2. CASE j = i
    BY <1>3, <2>1, <2>2 DEF Evident, Owned, Open, IN_FLIGHT
  <2>3. CASE j # i
    BY <1>3, <2>1, <2>3 DEF Evident, Open
  <2> QED BY <2>2, <2>3
<1>7. LedgerOK'
  BY <1>1, <1>5, <1>6 DEF LedgerOK, Open
<1>8. ASSUME NEW t \in Slices, AtWork(sl[t])
      PROVE  WorkOK(t, sl[t])'
  <2>1. WorkOK(t, sl[t]) /\ LocalOK(sl[t])
    BY <1>8, SliceFacts
  <2>2. sl[t].pc \in Holding \cup {"persist"} => sl[t].item \in Items /\ sl[t].item # i
    BY <2>1, Constants DEF WorkOK, LocalOK, StageItems, IN_FLIGHT
  <2>3. sl[t].pc \in Holding \cup {"persist"} => item'[sl[t].item] = item[sl[t].item]
    BY <1>3, <2>2
  <2> QED BY <1>1, <1>4, <1>8, <2>3, WorkKept
<1> QED BY <1>2, <1>7, <1>8, OtherStep

(* What P2, P3, the owner, the operator and the calendar do.               *)
LEMMA EnvironmentStep ==
  ASSUME BackInv, LedgerEnvironment, UNCHANGED <<sl, files, trouble>>
  PROVE  BackInv'
<1> USE Constants
<1>1. /\ results \in [Stages -> Nat] /\ used \in Nat /\ p2used \in Nat /\ OutsideOK
      /\ arming.id \in Nat /\ events \in Nat /\ p2blocks \in BOOLEAN /\ LedgerOK
  BY LedgerFacts DEF BackInv, TypeOK, OutsideOK
<1>2. ASSUME NEW a \in BOOLEAN, Arm(a)
      PROVE  BackInv'
  <2>1. OutsideOK' /\ results' \in [Stages -> Nat]
    BY <1>1, <1>2 DEF Arm, OutsideOK
  <2> QED BY <1>1, <1>2, <2>1, DecisionStep DEF Arm
<1>3. CASE AcknowledgeBlock
  <2>1. OutsideOK'
    BY <1>1, <1>3 DEF AcknowledgeBlock, OutsideOK
  <2>2. blocks' \subseteq blocks /\ (p2blocks' => p2blocks)
    BY <1>3 DEF AcknowledgeBlock
  <2> QED BY <1>1, <1>3, <2>1, <2>2, DecisionStep DEF AcknowledgeBlock
<1>4. ASSUME NEW i \in Items, Requeue(i)
      PROVE  BackInv'
  <2> DEFINE q == AfterEvent(item[i], "pending", "requeue", None)
             r == [q EXCEPT !.stopped = FALSE]
  <2>1. item \in [Items -> ItemType] /\ item[i] \in ItemType /\ "pending" \in States
    BY LedgerFacts DEF States
  <2>2. item' = [item EXCEPT ![i] = r]
    BY <1>4, <2>1 DEF Requeue
  <2>3. q \in ItemType /\ q.state = "pending" /\ q.sent = 0 /\ q.claims = 0
    BY <2>1, EventFacts
  <2> HIDE DEF q
  <2>4. r \in ItemType /\ r.state = "pending" /\ r.sent = 0 /\ r.claims = 0
    BY <2>3, Marked
  <2> HIDE DEF r
  <2>5. item[i].state \notin IN_FLIGHT /\ r.state \notin IN_FLIGHT
    BY <1>4, <2>4 DEF Requeue, Final, DiscoveryFinal, DocumentFinal, SUCCESS, IN_FLIGHT
  <2>6. OutsideOK'
    BY <1>1, <1>4 DEF Requeue, OutsideOK
  <2>7. r.sent <= r.claims /\ ~(r.sent > 0)
    BY <2>4
  <2>8. /\ UNCHANGED <<lease, attempt, blocks, results, used, f1, f5, lock>>
        /\ UNCHANGED <<p2blocks, p2used>>
    BY <1>4 DEF Requeue
  <2> QED BY <2>2, <2>4, <2>5, <2>6, <2>7, <2>8, OperatorStep
<1>5. ASSUME NEW i \in Items, Resume(i)
      PROVE  BackInv'
  <2> DEFINE r == AfterEvent(item[i], "pending", "resume", None)
  <2>1. item \in [Items -> ItemType] /\ item[i] \in ItemType /\ "pending" \in States
    BY LedgerFacts DEF States
  <2>2. item' = [item EXCEPT ![i] = r]
    BY <1>5, <2>1 DEF Resume
  <2>3. r \in ItemType /\ r.state = "pending" /\ r.sent = item[i].sent
        /\ r.claims = item[i].claims
    BY <2>1, EventFacts
  <2> HIDE DEF r
  <2>4. item[i].state = "blocked"
    BY <1>5 DEF Resume
  <2>5. item[i].state \notin IN_FLIGHT /\ r.state \notin IN_FLIGHT
    BY <2>3, <2>4 DEF IN_FLIGHT
  <2>6. i \in Discovery => Evident(i)
    BY <1>1 DEF LedgerOK
  <2>7. /\ i \in Discovery => r.sent <= r.claims
        /\ i \in Discovery => ~(r.sent > 0 /\ attempt[i].outcome = "ok")
    BY <2>3, <2>4, <2>6 DEF Evident
  <2>8. OutsideOK' /\ UNCHANGED <<p2blocks, p2used>>
    BY <1>1, <1>5 DEF Resume, OutsideOK, outside
  <2> QED BY <1>5, <2>2, <2>3, <2>5, <2>7, <2>8, OperatorStep DEF Resume
<1>6. ASSUME NEW i \in Items, ForeignEvidence(i)
      PROVE  BackInv'
  <2>1. /\ UNCHANGED <<item, lease, attempt, blocks, results, used, p2blocks, p2used, lock>>
        /\ UNCHANGED <<arming, p3due, linked>> /\ events' = events + 1
        /\ f5' \in SUBSET Documents
    BY <1>6, LedgerFacts DEF ForeignEvidence
  <2>2. /\ f1' \in [Discovery -> RunType]
        /\ \A j \in Discovery : /\ f1'[j].run = f1[j].run
                                /\ f1[j].won # "none" => f1'[j].won # "none"
    <3>1. f1 \in [Discovery -> RunType]
      BY LedgerFacts
    <3>2. CASE UNCHANGED f1
      BY <3>1, <3>2
    <3>3. CASE i \in Discovery /\ \E r \in SUCCESS : f1' = [f1 EXCEPT ![i].won = r]
      <4>1. PICK q \in SUCCESS : f1' = [f1 EXCEPT ![i].won = q]
        BY <3>3
      <4> DEFINE f == [f1[i] EXCEPT !.won = q]
      <4>2. f1' = [f1 EXCEPT ![i] = f]
        BY <3>1, <3>3, <4>1
      <4>3. f \in RunType /\ f.run = f1[i].run /\ f.won = "succeeded"
        BY <3>1, <3>3 DEF RunType, SUCCESS
      <4> HIDE DEF f
      <4> QED BY <3>1, <3>3, <4>2, <4>3
    <3> QED BY <1>6, <3>2, <3>3 DEF ForeignEvidence
  <2>3. TablesOK'
    BY <2>1, <2>2 DEF BackInv, TypeOK, TablesOK
  <2>4. OutsideOK' /\ ActiveLeases' = ActiveLeases
    BY <1>1, <2>1 DEF OutsideOK, ActiveLeases
  <2>5. LedgerOK'
    <3>1. \A j \in Items : Owned(j)'
      BY <1>1, <2>1, <2>4 DEF LedgerOK, Owned, Open
    <3>2. \A j \in Discovery : Evident(j)'
      BY <1>1, <2>1, <2>2 DEF LedgerOK, Evident, Open
    <3> QED BY <1>1, <2>1, <3>1, <3>2 DEF LedgerOK, Open
  <2>6. \A t \in Slices : AtWork(sl[t]) => WorkOK(t, sl[t])'
    BY <1>1, <2>1, <2>2, <2>4, WorkKept
  <2> QED BY <2>1, <2>3, <2>4, <2>5, <2>6, OtherStep
<1>7. CASE P2Takes
  <2>1. OutsideOK'
    BY <1>1, <1>7 DEF P2Takes, OutsideOK
  <2> QED BY <1>1, <1>7, <2>1, DecisionStep DEF P2Takes, tables
<1>8. ASSUME NEW b \in BOOLEAN, P2Releases(b)
      PROVE  BackInv'
  <2>1. OutsideOK'
    BY <1>1, <1>8 DEF P2Releases, OutsideOK
  <2> QED BY <1>1, <1>8, <2>1, DecisionStep DEF P2Releases, tables
<1>9. CASE P3Changes
  <2>1. OutsideOK'
    BY <1>1, <1>9 DEF P3Changes, OutsideOK
  <2> QED BY <1>1, <1>9, <2>1, DecisionStep DEF P3Changes, tables
<1>10. CASE NewColomboDay
  <2>1. OutsideOK' /\ used' = 0 /\ p2used' = 0
    BY <1>1, <1>10 DEF NewColomboDay, OutsideOK
  <2> QED BY <1>1, <1>10, <2>1, DecisionStep DEF NewColomboDay
<1>11. CASE ClosurePass
  <2>1. OutsideOK'
    BY <1>1, <1>11 DEF ClosurePass, OutsideOK
  <2> QED BY <1>1, <1>11, <2>1, DecisionStep DEF ClosurePass, tables
<1> QED BY <1>2, <1>3, <1>4, <1>5, <1>6, <1>7, <1>8, <1>9, <1>10, <1>11 DEF LedgerEnvironment

-----------------------------------------------------------------------------
(* The invariant holds                                                     *)

(* The first tables, whatever the phase.                                   *)
LEMMA InitInv == Init => BackInv
<1> SUFFICES ASSUME Init PROVE BackInv
  OBVIOUS
<1> USE Constants
<1>1. PICK phase \in Phases :
        /\ item = [i \in Items |-> NewItem(FirstState(phase, i))]
        /\ f1 = [i \in Discovery |->
                   [run |-> "none", won |-> IF phase = "retrieving"
                                            THEN "succeeded" ELSE "none"]]
        /\ f5 = IF phase = "discovering" THEN Documents ELSE {}
        /\ linked = (phase = "retrieving")
        /\ lease = [s \in Slices |-> NoLease]
        /\ attempt = [i \in Items |-> NoAttempt]
        /\ blocks = {} /\ p2blocks = FALSE
        /\ arming = [id |-> 1, armed |-> TRUE]
        /\ results = [g \in Stages |-> 0]
        /\ used = 0 /\ p2used = 0 /\ p3due = FALSE
        /\ lock = None /\ events = 0
  BY DEF Init, LedgerInit
<1>2. sl = [s \in Slices |-> IdleSlice] /\ files = {} /\ trouble = 0
  BY DEF Init
<1>3. \A i \in Items : FirstState(phase, i) \in {"succeeded", "pending", "persisted", "discovered"}
  BY DEF FirstState, Items
<1>4. \A i \in Items : /\ item[i] \in ItemType /\ item[i].state \notin IN_FLIGHT
                       /\ item[i].sent = 0 /\ item[i].claims = 0
  <2> TAKE i \in Items
  <2> DEFINE st == FirstState(phase, i)
  <2>1. st \in States /\ st \notin IN_FLIGHT
    BY <1>3 DEF States, IN_FLIGHT
  <2>2. item[i] = [state |-> st, lease |-> None, claims |-> 0, sent |-> 0, stopped |-> FALSE]
    BY <1>1 DEF NewItem
  <2> HIDE DEF st
  <2> QED BY <2>1, <2>2 DEF ItemType
<1>5. item \in [Items -> ItemType]
  BY <1>1, <1>4
<1>6. /\ lease \in [Slices -> LeaseType] /\ attempt \in [Items -> AttemptType]
      /\ \A i \in Items : attempt[i].outcome = "none"
  BY <1>1 DEF NoLease, NoAttempt, LeaseType, AttemptType, Stages
<1>7. f1 \in [Discovery -> RunType]
  BY <1>1 DEF RunType
<1>8. TypeOK
  <2>1. TablesOK
    BY <1>1, <1>5, <1>6, <1>7 DEF TablesOK
  <2>2. OutsideOK
    BY <1>1 DEF OutsideOK
  <2>3. MemoryOK
    BY <1>2, IdleOK DEF MemoryOK
  <2> QED BY <2>1, <2>2, <2>3 DEF TypeOK
<1>9. LedgerOK
  BY <1>4, <1>6 DEF LedgerOK, Owned, Evident, Open, IN_FLIGHT
<1>10. \A s \in Slices : SliceOK(s, sl[s])
  <2> TAKE s \in Slices
  <2>1. sl[s].pc = "idle" /\ sl[s].up /\ sl[s].stop = "none"
    BY <1>2 DEF IdleSlice
  <2> QED BY <2>1 DEF SliceOK, LocalOK, SpoolOK, AtWork, Holding, Asking
<1> QED BY <1>8, <1>9, <1>10 DEF BackInv

(* Every step of a slice keeps it.                                         *)
LEMMA SliceInv ==
  ASSUME BackInv, NEW s \in Slices, SliceStep(s)
  PROVE  BackInv'
<1>1. CASE TransportStep(s)
  BY <1>1, StartStep, AcquireStep, ExpireStep, OpenLeaseStep, GoneStep, ClaimStep, EndWorkStep,
     AdmitStep, IntendStep, JournalStep, AnswerStep, SpoolStep, RecordStep, RecordFailsStep,
     CloseStep, LoseStep DEF TransportStep
<1>2. CASE DiscoveryStep(s)
  BY <1>2, FinishAbandonedStep, PromoteDiscoveryStep, TerminaliseDiscoveryStep, ReconciledStep,
     BeginRunStep, RefusedBeforeStep, FinishRunStep, SettleStep DEF DiscoveryStep
<1>3. CASE DocumentStep(s)
  BY <1>3, GateStep, PromoteDocumentStep, TerminaliseDocumentStep, ReconciledStep,
     BeginPassStep, LocalFailureStep, RefusedPassStep, FetchStep, F2EndsStep, DisposeStep,
     PersistStep DEF DocumentStep
<1> QED BY <1>1, <1>2, <1>3 DEF SliceStep

(* Nothing changes.                                                        *)
LEMMA StutterInv ==
  ASSUME BackInv, UNCHANGED vars
  PROVE  BackInv'
<1>1. /\ UNCHANGED <<item, lease, attempt, blocks, results, used, f1, f5>>
      /\ UNCHANGED <<p2blocks, arming, p2used, p3due, linked, events>>
      /\ UNCHANGED <<lock, sl, files, trouble>>
  BY DEF vars, ledgerVars, tables, outside
<1>2. OutsideOK'
  BY <1>1 DEF BackInv, TypeOK, OutsideOK
<1>3. results \in [Stages -> Nat] /\ used \in Nat /\ p2used \in Nat
  BY LedgerFacts DEF BackInv, TypeOK, OutsideOK
<1> QED BY <1>1, <1>2, <1>3, DecisionStep

(* The invariant of the backfill.                                          *)
THEOREM Invariance == Spec => []BackInv
<1>1. ASSUME BackInv, [Next]_vars
      PROVE  BackInv'
  BY <1>1, SliceInv, CorruptStep, EnvironmentStep, StutterInv DEF Next
<1> QED BY InitInv, <1>1, PTL DEF Spec

-----------------------------------------------------------------------------
(* The first theorems                                                      *)

(* Every table, every slice's memory and every counter stays of its type.  *)
THEOREM TypeCorrectness == Spec => []TypeOK
<1>1. BackInv => TypeOK
  BY DEF BackInv
<1> QED BY Invariance, <1>1, PTL

(* Close and expire_dead: whatever dies and whenever, an item in flight or *)
(* a request without an outcome always belongs to an active lease.         *)
THEOREM Recoverable == Spec => []NothingStranded
<1>1. BackInv => NothingStranded
  <2> SUFFICES ASSUME BackInv
               PROVE  NothingStranded
    OBVIOUS
  <2> QED BY LedgerFacts DEF LedgerOK, Owned, Open, NothingStranded, IN_FLIGHT
<1> QED BY Invariance, <1>1, PTL

(* open_slice: only the holder of P2's lock works, under the only lease.   *)
THEOREM WorksAlone == Spec => []OneSliceAtWork
<1>1. BackInv => OneSliceAtWork
  <2> SUFFICES ASSUME BackInv
               PROVE  OneSliceAtWork
    OBVIOUS
  <2> QED BY WorkFacts DEF OneSliceAtWork
<1> QED BY Invariance, <1>1, PTL

-----------------------------------------------------------------------------
(* The events of the items                                                 *)

(* One event at a time, three at most: the item goes from r to q along the  *)
(* state machine, and only a counted claim moves as one.                   *)
Legal(i, r, q) ==
  LET may(a, b) == a = b \/ <<a, b>> \in Moves(i, q.claims > r.claims)
  IN  \E x, y \in {r.state, "requesting", "processing", "retry_wait"} :
         may(r.state, x) /\ may(x, y) /\ may(y, q.state)

(* No request is sent, and every item goes where the state machine leads.  *)
Orderly == \A j \in Items : /\ Legal(j, item[j], item'[j])
                            /\ item'[j].sent <= item[j].sent

(* One transition.                                                         *)
LEMMA OneMove ==
  ASSUME NEW i, NEW r, NEW q, NEW action,
         <<r.state, q.state, action>> \in Transitions(i),
         action = "claim" => q.claims > r.claims
  PROVE  Legal(i, r, q)
<1>1. <<r.state, q.state>> \in Moves(i, q.claims > r.claims)
  BY DEF Moves
<1> QED BY <1>1 DEF Legal

(* Two transitions.                                                        *)
LEMMA TwoMoves ==
  ASSUME NEW i, NEW r, NEW q, NEW action, NEW x \in {"requesting", "processing", "retry_wait"},
         <<r.state, x, action>> \in Transitions(i),
         <<x, q.state, "record">> \in Transitions(i),
         action = "claim" => q.claims > r.claims
  PROVE  Legal(i, r, q)
<1>1. <<r.state, x>> \in Moves(i, q.claims > r.claims)
  BY DEF Moves
<1>2. <<x, q.state>> \in Moves(i, q.claims > r.claims)
  BY DEF Moves
<1> QED BY <1>1, <1>2 DEF Legal

(* Three: the terminal claim of a document, given back, and its end.       *)
LEMMA ThreeMoves ==
  ASSUME NEW i, NEW r, NEW q, q.claims > r.claims,
         <<r.state, "requesting", "claim">> \in Transitions(i),
         <<"requesting", "retry_wait", "record">> \in Transitions(i),
         <<"retry_wait", q.state, "record">> \in Transitions(i)
  PROVE  Legal(i, r, q)
<1>1. /\ <<r.state, "requesting">> \in Moves(i, q.claims > r.claims)
      /\ <<"requesting", "retry_wait">> \in Moves(i, q.claims > r.claims)
      /\ <<"retry_wait", q.state>> \in Moves(i, q.claims > r.claims)
  BY DEF Moves
<1> QED BY <1>1 DEF Legal

(* An item that stays where it is.                                         *)
LEMMA NoMove ==
  ASSUME NEW i, NEW r, NEW q, q.state = r.state
  PROVE  Legal(i, r, q)
BY DEF Legal

(* The transitions by their names.                                         *)
LEMMA TransitionFacts ==
  /\ \A i \in Discovery : Transitions(i) = DiscoveryTransitions
  /\ \A i \in Documents : Transitions(i) = DocumentTransitions
BY Constants DEF Transitions

(* One item changes.                                                       *)
LEMMA OneItem ==
  ASSUME BackInv, NEW i \in Items, NEW q, item' = [item EXCEPT ![i] = q],
         Legal(i, item[i], q), q.sent <= item[i].sent
  PROVE  Orderly
<1>1. item \in [Items -> ItemType]
  BY LedgerFacts
<1> SUFFICES ASSUME NEW j \in Items
             PROVE  Legal(j, item[j], item'[j]) /\ item'[j].sent <= item[j].sent
  BY DEF Orderly
<1>2. CASE j = i
  BY <1>1, <1>2
<1>3. CASE j # i
  <2>1. item'[j] = item[j] /\ item[j].sent \in Nat
    BY <1>1, <1>3 DEF ItemType
  <2> QED BY <2>1, NoMove
<1> QED BY <1>2, <1>3

(* No item changes.                                                        *)
LEMMA NoItem ==
  ASSUME BackInv, UNCHANGED item
  PROVE  Orderly
<1> SUFFICES ASSUME NEW j \in Items
             PROVE  Legal(j, item[j], item'[j]) /\ item'[j].sent <= item[j].sent
  BY DEF Orderly
<1>1. item'[j] = item[j] /\ item[j].sent \in Nat
  BY LedgerFacts DEF ItemType
<1> QED BY <1>1, NoMove

(* One event that is a transition and not a re-queue.                      *)
LEMMA OneItemEvent ==
  ASSUME BackInv, NEW i \in Items, NEW to \in States, NEW action, NEW s \in Slices \cup {None},
         item' = [item EXCEPT ![i] = AfterEvent(item[i], to, action, s)],
         <<item[i].state, to, action>> \in Transitions(i)
  PROVE  Orderly
<1> DEFINE q == AfterEvent(item[i], to, action, s)
<1>1. item[i] \in ItemType /\ item[i].claims \in Nat /\ item[i].sent \in Nat
  BY LedgerFacts DEF ItemType
<1>2. /\ q.state = to /\ (action = "claim" => q.claims = item[i].claims + 1)
      /\ q.sent \in {0, item[i].sent}
  BY <1>1, EventFacts
<1> HIDE DEF q
<1>3. Legal(i, item[i], q)
  BY <1>1, <1>2, OneMove
<1>4. item' = [item EXCEPT ![i] = q] /\ q.sent <= item[i].sent
  BY <1>1, <1>2 DEF q
<1> QED BY <1>3, <1>4, OneItem

(* The events a slice records alone.                                       *)
LEMMA SliceEvents ==
  ASSUME BackInv, NEW s \in Slices,
         \/ \E i \in Items : Claim(s, i)
         \/ \E i \in Discovery : PromoteDiscovery(s, i)
         \/ \E i \in Documents : PromoteDocument(s, i) \/ PlanDocument(s, i)
         \/ RefusedBeforeRequest(s) \/ Settle(s) \/ RefusedPass(s) \/ Persist(s)
  PROVE  Orderly
<1>1. item \in [Items -> ItemType] /\ LedgerOK
  BY LedgerFacts
<1>2. ASSUME NEW i \in Items, Claim(s, i)
      PROVE  Orderly
  <2>1. /\ item' = [item EXCEPT ![i] = AfterEvent(item[i], "requesting", "claim", s)]
        /\ item[i].state \in Claimable
    BY <1>2 DEF Claim, Eligible
  <2>2. <<item[i].state, "requesting", "claim">> \in Transitions(i)
    BY <2>1 DEF Transitions, DiscoveryTransitions, DocumentTransitions
  <2> QED BY <2>1, <2>2, OneItemEvent DEF States
<1>3. ASSUME NEW i \in Discovery, PromoteDiscovery(s, i)
      PROVE  Orderly
  <2> DEFINE to == IF f1[i].won # "none" THEN f1[i].won ELSE "pending"
  <2>1. /\ item' = [item EXCEPT ![i] = AfterEvent(item[i], to, "promote", None)]
        /\ item[i].state = "abandoned"
    BY <1>3 DEF PromoteDiscovery, Abandoned
  <2>2. to \in {"succeeded", "pending"} /\ i \in Items
    BY RunFacts, Constants
  <2> HIDE DEF to
  <2>3. <<"abandoned", to, "promote">> \in Transitions(i) /\ to \in States
    BY <2>2, TransitionFacts DEF DiscoveryTransitions, SUCCESS, States
  <2> QED BY <2>1, <2>2, <2>3, OneItemEvent
<1>4. ASSUME NEW i \in Documents, PromoteDocument(s, i) \/ PlanDocument(s, i)
      PROVE  Orderly
  <2> DEFINE to == IF i \in f5 THEN "persisted" ELSE "pending"
  <2>1. item' = [item EXCEPT ![i] = AfterEvent(item[i], to, "promote", None)]
    BY <1>4 DEF PromoteDocument, PlanDocument
  <2>2. \/ item[i].state \in {"abandoned", "discovered"}
        \/ item[i].state \in Claimable /\ i \in f5
    BY <1>4 DEF PromoteDocument, PlanDocument, Abandoned, Plannable
  <2>3. to \in States /\ i \in Items
    BY Constants DEF States
  <2>4. <<item[i].state, to, "promote">> \in Transitions(i)
    BY <2>2, TransitionFacts DEF DocumentTransitions, Claimable
  <2> HIDE DEF to
  <2> QED BY <2>1, <2>3, <2>4, OneItemEvent
<1>5. CASE RefusedBeforeRequest(s)
  <2> DEFINE i == sl[s].item
             to == EvidenceOr(i, IF item[i].claims >= ItemMax THEN "failed" ELSE "retry_wait")
  <2>1. /\ sl[s].pc \in {"claimed", "begun"} /\ sl[s].stage = "discovery"
        /\ item' = [item EXCEPT ![i] = AfterEvent(@, to, "record", s)]
    BY <1>5 DEF RefusedBeforeRequest
  <2>2. i \in Discovery /\ i \in Items /\ item[i].state = "requesting"
    BY <2>1, SliceFacts, Constants DEF LocalOK, AtWork, WorkOK, Asking, Holding, StageItems
  <2>3. to \in {"failed", "retry_wait", "succeeded"}
    BY <2>2, RunFacts DEF EvidenceOr
  <2> HIDE DEF to
  <2>4. item' = [item EXCEPT ![i] = AfterEvent(item[i], to, "record", s)]
    BY <1>1, <2>1, <2>2
  <2>5. <<"requesting", to, "record">> \in Transitions(i) /\ to \in States
    BY <2>2, <2>3, TransitionFacts DEF DiscoveryTransitions, DiscoveryFinal, SUCCESS, States
  <2> HIDE DEF i
  <2> QED BY <2>2, <2>4, <2>5, OneItemEvent
<1>6. CASE Settle(s)
  <2> DEFINE i == sl[s].item
             to == EvidenceOr(i, LiveState(i, attempt[i].outcome))
  <2>1. /\ sl[s].pc = "settle"
        /\ item' = [item EXCEPT ![i] = AfterEvent(@, to, "record", s)]
    BY <1>6 DEF Settle
  <2>2. i \in Discovery /\ i \in Items /\ item[i].state = "requesting"
        /\ (attempt[i].outcome = "ok" => f1[i].won # "none")
    BY <2>1, SliceFacts, Constants DEF LocalOK, AtWork, WorkOK, Asking, Holding, StageItems
  <2>3. to \in {"failed", "retry_wait", "succeeded", "blocked"}
    BY <2>2, RunFacts DEF EvidenceOr, LiveState
  <2> HIDE DEF to
  <2>4. item' = [item EXCEPT ![i] = AfterEvent(item[i], to, "record", s)]
    BY <1>1, <2>1, <2>2
  <2>5. <<"requesting", to, "record">> \in Transitions(i) /\ to \in States
    BY <2>2, <2>3, TransitionFacts DEF DiscoveryTransitions, DiscoveryFinal, SUCCESS, States
  <2> HIDE DEF i
  <2> QED BY <2>2, <2>4, <2>5, OneItemEvent
<1>7. CASE RefusedPass(s)
  <2> DEFINE i == sl[s].item
  <2>1. /\ sl[s].pc = "claimed" /\ sl[s].stage = "document"
        /\ item' = [item EXCEPT ![i] = AfterEvent(@, "retry_wait", "record", s)]
    BY <1>7 DEF RefusedPass
  <2>2. i \in Documents /\ i \in Items /\ item[i].state = "requesting"
    BY <2>1, SliceFacts, Constants DEF LocalOK, AtWork, WorkOK, Asking, Holding, StageItems
  <2>3. item' = [item EXCEPT ![i] = AfterEvent(item[i], "retry_wait", "record", s)]
    BY <1>1, <2>1, <2>2
  <2>4. <<"requesting", "retry_wait", "record">> \in Transitions(i) /\ "retry_wait" \in States
    BY <2>2, TransitionFacts DEF DocumentTransitions, States
  <2> HIDE DEF i
  <2> QED BY <2>2, <2>3, <2>4, OneItemEvent
<1>8. CASE Persist(s)
  <2> DEFINE i == sl[s].item
             failed == IF item[i].claims < ItemMax THEN "retry_wait" ELSE "failed"
  <2>1. /\ sl[s].pc = "persist"
        /\ \/ item' = [item EXCEPT ![i] = AfterEvent(@, "persisted", "record", s)]
           \/ item' = [item EXCEPT ![i] = AfterEvent(@, failed, "record", s)]
    BY <1>8 DEF Persist
  <2>2. i \in Documents /\ i \in Items /\ item[i].state = "processing"
    BY <2>1, SliceFacts, Constants DEF LocalOK, AtWork, WorkOK, Asking, Holding, StageItems
  <2>3. failed \in {"retry_wait", "failed"}
    OBVIOUS
  <2> HIDE DEF failed
  <2>4. PICK to \in {"persisted", "retry_wait", "failed"} :
           item' = [item EXCEPT ![i] = AfterEvent(@, to, "record", s)]
    BY <2>1, <2>3
  <2>5. item' = [item EXCEPT ![i] = AfterEvent(item[i], to, "record", s)]
    BY <1>1, <2>4, <2>2
  <2>6. <<"processing", to, "record">> \in Transitions(i) /\ to \in States
    BY <2>2, TransitionFacts DEF DocumentTransitions, States
  <2> HIDE DEF i
  <2> QED BY <2>2, <2>5, <2>6, OneItemEvent
<1> QED BY <1>2, <1>3, <1>4, <1>5, <1>6, <1>7, <1>8

(* The decisions at the item maximum.                                      *)
LEMMA TerminalEventsOrderly ==
  ASSUME BackInv, NEW s \in Slices,
         \/ \E i \in Discovery : TerminaliseDiscovery(s, i)
         \/ \E i \in Documents : TerminaliseDocument(s, i)
  PROVE  Orderly
<1>1. item \in [Items -> ItemType]
  BY LedgerFacts
<1>2. ASSUME NEW i \in Discovery, TerminaliseDiscovery(s, i)
      PROVE  Orderly
  <2> DEFINE final == EvidenceOr(i, "failed")
             c == AfterEvent(item[i], "requesting", "claim", s)
             q == AfterEvent(c, final, "record", s)
  <2>1. /\ item' = [item EXCEPT ![i] = AfterEvents(item[i], TerminalEvents(i), s)]
        /\ item[i].state \in Claimable
    BY <1>2 DEF TerminaliseDiscovery, AtMaximum
  <2>2. /\ final \in {"succeeded", "failed"} /\ final \in States /\ "requesting" \in States
        /\ i \in Items /\ item[i] \in ItemType /\ item[i].claims \in Nat /\ item[i].sent \in Nat
    BY RunFacts, Constants DEF EvidenceOr, States, ItemType
  <2>3. CASE item[i].state = "pending" \/ final # "failed"
    <3>1. TerminalEvents(i) = << <<"requesting", "claim">>, <<final, "record">> >>
      BY <2>3 DEF TerminalEvents
    <3>2. AfterEvents(item[i], << <<"requesting", "claim">>, <<final, "record">> >>, s) = q
      BY TwoEvents
    <3> HIDE DEF final
    <3>3. c \in ItemType /\ c.claims = item[i].claims + 1 /\ c.sent = item[i].sent
      BY <2>2, EventFacts
    <3> HIDE DEF c
    <3>4. q.state = final /\ q.claims = item[i].claims + 1 /\ q.sent = item[i].sent
      BY <2>2, <3>3, EventFacts
    <3> HIDE DEF q
    <3>5. /\ <<item[i].state, "requesting", "claim">> \in Transitions(i)
          /\ <<"requesting", final, "record">> \in Transitions(i)
      BY <2>1, <2>2, TransitionFacts DEF DiscoveryTransitions, DiscoveryFinal, SUCCESS
    <3>6. q.claims > item[i].claims /\ q.sent <= item[i].sent
      BY <2>2, <3>4
    <3>7. Legal(i, item[i], q)
      BY <3>4, <3>5, <3>6, TwoMoves
    <3>8. item' = [item EXCEPT ![i] = q]
      BY <2>1, <3>1, <3>2
    <3> QED BY <2>2, <3>6, <3>7, <3>8, OneItem
  <2>4. CASE item[i].state # "pending" /\ final = "failed"
    <3>1. TerminalEvents(i) = << <<"failed", "record">> >>
      BY <2>4 DEF TerminalEvents
    <3>2. item' = [item EXCEPT ![i] = AfterEvent(item[i], "failed", "record", s)]
      BY <2>1, <3>1, OneEvent
    <3>3. <<item[i].state, "failed", "record">> \in Transitions(i) /\ "failed" \in States
      BY <2>1, <2>4, TransitionFacts DEF DiscoveryTransitions, Claimable, States
    <3> QED BY <2>2, <3>2, <3>3, OneItemEvent
  <2> QED BY <2>3, <2>4
<1>3. ASSUME NEW i \in Documents, TerminaliseDocument(s, i)
      PROVE  Orderly
  <2> DEFINE c == AfterEvent(item[i], "requesting", "claim", s)
             w == AfterEvent(c, "retry_wait", "record", s)
             q == AfterEvent(w, "failed", "record", s)
  <2>1. /\ item' = [item EXCEPT ![i] = AfterEvents(item[i], TerminalDocument(i), s)]
        /\ item[i].state \in {"pending", "retry_wait"}
    BY <1>3 DEF TerminaliseDocument, AtMaximum, Claimable
  <2>2. /\ {"requesting", "retry_wait", "failed", "persisted"} \subseteq States
        /\ i \in Items /\ item[i] \in ItemType /\ item[i].claims \in Nat /\ item[i].sent \in Nat
    BY <1>1, Constants DEF States, ItemType
  <2>3. CASE i \in f5
    <3>1. TerminalDocument(i) = << <<"persisted", "promote">> >>
      BY <2>3 DEF TerminalDocument
    <3>2. item' = [item EXCEPT ![i] = AfterEvent(item[i], "persisted", "promote", s)]
      BY <2>1, <3>1, OneEvent
    <3>3. <<item[i].state, "persisted", "promote">> \in Transitions(i)
      BY <2>1, TransitionFacts DEF DocumentTransitions, Claimable
    <3> QED BY <2>2, <3>2, <3>3, OneItemEvent
  <2>4. CASE i \notin f5 /\ item[i].state = "retry_wait"
    <3>1. TerminalDocument(i) = << <<"failed", "record">> >>
      BY <2>4 DEF TerminalDocument
    <3>2. item' = [item EXCEPT ![i] = AfterEvent(item[i], "failed", "record", s)]
      BY <2>1, <3>1, OneEvent
    <3>3. <<"retry_wait", "failed", "record">> \in Transitions(i)
      BY TransitionFacts DEF DocumentTransitions
    <3> QED BY <2>2, <2>4, <3>2, <3>3, OneItemEvent
  <2>5. CASE i \notin f5 /\ item[i].state = "pending"
    <3>1. TerminalDocument(i) = << <<"requesting", "claim">>, <<"retry_wait", "record">>,
                                   <<"failed", "record">> >>
      BY <2>5 DEF TerminalDocument
    <3>2. AfterEvents(item[i], << <<"requesting", "claim">>, <<"retry_wait", "record">>,
                                  <<"failed", "record">> >>, s) = q
      BY ThreeEvents
    <3>3. c \in ItemType /\ c.claims = item[i].claims + 1 /\ c.sent = item[i].sent
      BY <2>2, EventFacts
    <3> HIDE DEF c
    <3>4. w \in ItemType /\ w.claims = c.claims /\ w.sent = c.sent
      BY <2>2, <3>3, EventFacts
    <3> HIDE DEF w
    <3>5. q.state = "failed" /\ q.claims = w.claims /\ q.sent = w.sent
      BY <2>2, <3>4, EventFacts
    <3> HIDE DEF q
    <3>6. /\ <<"pending", "requesting", "claim">> \in Transitions(i)
          /\ <<"requesting", "retry_wait", "record">> \in Transitions(i)
          /\ <<"retry_wait", "failed", "record">> \in Transitions(i)
      BY TransitionFacts DEF DocumentTransitions, Claimable
    <3>7. q.claims > item[i].claims /\ q.sent <= item[i].sent
      BY <2>2, <3>3, <3>4, <3>5
    <3>8. Legal(i, item[i], q)
      BY <2>5, <3>5, <3>6, <3>7, ThreeMoves
    <3>9. item' = [item EXCEPT ![i] = q]
      BY <2>1, <3>1, <3>2
    <3> QED BY <2>2, <3>7, <3>8, <3>9, OneItem
  <2> QED BY <2>1, <2>3, <2>4, <2>5
<1> QED BY <1>2, <1>3

(* The events that end a pass.                                             *)
LEMMA DisposeOrderly ==
  ASSUME BackInv, NEW s \in Slices, Dispose(s)
  PROVE  Orderly
<1> DEFINE i == sl[s].item
           l0 == sl[s]
           d == Disposed(i, l0)
           m == AfterEvents(item[i], d.log, s)
           b == IF d.log = <<>> THEN item[i].stopped
                ELSE l0.got \in {"leftover", "leftover_retrieved"}
           q == [m EXCEPT !.stopped = b]
<1>1. /\ l0 \in SliceType /\ l0.got \in Found /\ l0.stop # "cleanup_stop"
      /\ i \in Documents /\ i \in Items /\ item \in [Items -> ItemType]
      /\ l0.stop # "error" => item[i].state = "requesting"
  <2>1. sl[s].pc = "dispose"
    BY DEF Dispose
  <2> QED BY <2>1, SliceFacts, LedgerFacts, Constants
          DEF LocalOK, AtWork, WorkOK, Asking, Holding, StageItems
<1>2. item[i] \in ItemType /\ item[i].claims \in Nat /\ item[i].sent \in Nat
  BY <1>1 DEF ItemType
<1>3. item' = [item EXCEPT ![i] = q]
  <2>1. item' = [item EXCEPT ![i] = [AfterEvents(@, d.log, s) EXCEPT !.stopped = b]]
    BY DEF Dispose
  <2> HIDE DEF d, b
  <2> QED BY <1>1, <2>1
<1>4. ASSUME m \in ItemType, Legal(i, item[i], m), m.sent <= item[i].sent
      PROVE  Orderly
  <2>1. b \in BOOLEAN
    <3>1. item[i].stopped \in BOOLEAN
      BY <1>1 DEF ItemType
    <3>2. CASE d.log = <<>>
      BY <3>1, <3>2
    <3>3. CASE d.log # <<>>
      BY <3>3
    <3> QED BY <3>2, <3>3
  <2>2. q.state = m.state /\ q.claims = m.claims /\ q.sent = m.sent
    <3> HIDE DEF m, b
    <3> QED BY <1>4, <2>1, Marked
  <2> HIDE DEF m, q, b, d
  <2>3. Legal(i, item[i], q)
    BY <1>4, <2>2 DEF Legal
  <2> HIDE DEF i
  <2> QED BY <1>1, <1>3, <1>4, <2>2, <2>3, OneItem
<1>5. CASE d.log = <<>>
  <2>1. AfterEvents(item[i], <<>>, s) = item[i]
    BY DEF AfterEvents
  <2>2. m = item[i]
    <3> HIDE DEF d
    <3> QED BY <1>5, <2>1
  <2> HIDE DEF m, q, b, d
  <2>3. Legal(i, item[i], m)
    BY <2>2, NoMove
  <2> QED BY <1>2, <1>4, <2>2, <2>3
<1>6. ASSUME NEW to \in States, l0.stop # "error", d.log = << <<to, "record">> >>,
             <<"requesting", to, "record">> \in Transitions(i)
      PROVE  Orderly
  <2> DEFINE e == AfterEvent(item[i], to, "record", s)
  <2>1. AfterEvents(item[i], << <<to, "record">> >>, s) = e
    BY OneEvent
  <2>2. m = e
    <3> HIDE DEF d, e
    <3> QED BY <1>6, <2>1
  <2>3. e \in ItemType /\ e.state = to /\ e.sent = item[i].sent
    BY <1>2, EventFacts
  <2> HIDE DEF m, q, b, d, e
  <2>4. Legal(i, item[i], m)
    BY <1>1, <1>6, <2>2, <2>3, OneMove
  <2> QED BY <1>2, <1>4, <2>2, <2>3, <2>4
<1>7. ASSUME NEW to \in States, NEW by \in {"processing", "retry_wait"}, l0.stop # "error",
             d.log = << <<by, "record">>, <<to, "record">> >>,
             <<"requesting", by, "record">> \in Transitions(i),
             <<by, to, "record">> \in Transitions(i)
      PROVE  Orderly
  <2> DEFINE p == AfterEvent(item[i], by, "record", s)
             e == AfterEvent(p, to, "record", s)
  <2>1. AfterEvents(item[i], << <<by, "record">>, <<to, "record">> >>, s) = e
    BY TwoEvents
  <2>2. m = e
    <3> HIDE DEF d, e
    <3> QED BY <1>7, <2>1
  <2>3. p \in ItemType /\ p.sent = item[i].sent
    <3>1. by \in States
      BY DEF States
    <3> QED BY <1>2, <3>1, EventFacts
  <2> HIDE DEF p
  <2>4. e \in ItemType /\ e.state = to /\ e.sent = item[i].sent
    BY <2>3, EventFacts
  <2> HIDE DEF m, q, b, d, e
  <2>5. /\ <<item[i].state, by, "record">> \in Transitions(i)
        /\ <<by, m.state, "record">> \in Transitions(i)
    BY <1>1, <1>7, <2>2, <2>4
  <2>6. Legal(i, item[i], m)
    <3>1. by \in {"requesting", "processing", "retry_wait"}
      OBVIOUS
    <3>2. "record" = "claim" => m.claims > item[i].claims
      OBVIOUS
    <3> HIDE DEF i
    <3> QED BY <2>5, <3>1, <3>2, TwoMoves
  <2> QED BY <1>2, <1>4, <2>2, <2>4, <2>6
<1>8. ASSUME NEW to \in {"cleanup_failed", "failed", "blocked", "consumer_failed",
                         "retry_wait", "retrieval_failed", "processing"}
      PROVE  /\ to \in States
             /\ Alone(to) \/ to = "processing" =>
                  <<"requesting", to, "record">> \in Transitions(i)
             /\ \A by \in {"processing", "retry_wait"} : Follows(by, to) =>
                  /\ <<"requesting", by, "record">> \in Transitions(i)
                  /\ <<by, to, "record">> \in Transitions(i)
  <2>1. Transitions(i) = DocumentTransitions
    BY <1>1, TransitionFacts
  <2> HIDE DEF i
  <2> QED BY <2>1 DEF DocumentTransitions, Alone, Follows, States
<1> HIDE DEF m, q, b
<1>9. \/ d.log = <<>>
      \/ l0.stop # "error" /\ d.log = << <<"processing", "record">> >>
      \/ /\ l0.stop # "error"
         /\ \E to \in {"cleanup_failed", "failed", "blocked", "consumer_failed",
                       "retry_wait", "retrieval_failed"},
               by \in {"processing", "retry_wait"} :
               \/ Alone(to) /\ d.log = << <<to, "record">> >>
               \/ Follows(by, to) /\ d.log = << <<by, "record">>, <<to, "record">> >>
  <2> HIDE DEF i, l0
  <2>1. l0 \in SliceType /\ l0.got \in Found /\ l0.stop # "cleanup_stop"
    BY <1>1
  <2> QED BY <2>1, DisposedFacts
<1> HIDE DEF d, i, l0
<1> QED BY <1>5, <1>6, <1>7, <1>8, <1>9

(* The recovery of a dead lease.                                           *)
LEMMA ExpireOrderly ==
  ASSUME BackInv, NEW s \in Slices, NEW d \in Slices, Expire(s, d)
  PROVE  Orderly
<1> SUFFICES ASSUME NEW j \in Items
             PROVE  Legal(j, item[j], item'[j]) /\ item'[j].sent <= item[j].sent
  BY DEF Orderly
<1> DEFINE q == AfterEvent(item[j], "abandoned", "expire", d)
<1>1. item[j] \in ItemType /\ item[j].sent \in Nat /\ LedgerOK /\ "abandoned" \in States
  BY LedgerFacts DEF ItemType, States
<1>2. item'[j] = IF j \in InFlightItems(d) THEN q ELSE item[j]
  BY DEF Expire
<1>3. q.state = "abandoned" /\ q.sent = item[j].sent
  BY <1>1, EventFacts
<1> HIDE DEF q
<1>4. CASE j \in InFlightItems(d)
  <2>1. item[j].state \in IN_FLIGHT /\ (j \in Discovery => item[j].state = "requesting")
    BY <1>1, <1>4 DEF InFlightItems, LedgerOK, Evident, IN_FLIGHT
  <2>2. <<item[j].state, "abandoned", "expire">> \in Transitions(j)
    BY <2>1 DEF Transitions, DiscoveryTransitions, DocumentTransitions
  <2>3. Legal(j, item[j], q)
    BY <1>3, <2>2, OneMove
  <2> QED BY <1>1, <1>2, <1>3, <1>4, <2>3
<1>5. CASE j \notin InFlightItems(d)
  BY <1>1, <1>2, <1>5, NoMove
<1> QED BY <1>4, <1>5

(* What the operator decides about an item.                                *)
LEMMA OperatorOrderly ==
  ASSUME BackInv, NEW i \in Items, Requeue(i) \/ Resume(i)
  PROVE  Orderly
<1>1. item \in [Items -> ItemType] /\ item[i] \in ItemType /\ item[i].sent \in Nat
      /\ "pending" \in States
  BY LedgerFacts DEF ItemType, States
<1>2. CASE Resume(i)
  <2>1. /\ item[i].state = "blocked"
        /\ item' = [item EXCEPT ![i] = AfterEvent(item[i], "pending", "resume", None)]
    BY <1>2 DEF Resume
  <2>2. <<"blocked", "pending", "resume">> \in Transitions(i)
    BY DEF Transitions, DiscoveryTransitions, DocumentTransitions
  <2> QED BY <1>1, <2>1, <2>2, OneItemEvent
<1>3. CASE Requeue(i)
  <2> DEFINE e == AfterEvent(item[i], "pending", "requeue", None)
             q == [e EXCEPT !.stopped = FALSE]
  <2>1. item' = [item EXCEPT ![i] = q] /\ item[i].state \in Final(i)
    BY <1>1, <1>3 DEF Requeue
  <2>2. e \in ItemType /\ e.state = "pending" /\ e.sent = 0
    BY <1>1, EventFacts
  <2> HIDE DEF e
  <2>3. q.state = "pending" /\ q.sent = 0
    BY <2>2, Marked
  <2> HIDE DEF q
  <2>4. <<item[i].state, "pending", "requeue">> \in Transitions(i)
    BY <2>1 DEF Final, Transitions, DiscoveryTransitions, DocumentTransitions
  <2>5. Legal(i, item[i], q)
    BY <2>3, <2>4, OneMove
  <2>6. q.sent <= item[i].sent
    BY <1>1, <2>3
  <2> QED BY <2>1, <2>5, <2>6, OneItem
<1> QED BY <1>2, <1>3

(* The steps that record no event and make no request.                     *)
Silent(s) ==
  \/ \E g \in Stages : Start(s, g)
  \/ Acquire(s) \/ OpenLease(s) \/ RefuseOpen(s) \/ EndWork(s) \/ Admit(s) \/ JournalIntent(s)
  \/ \E a \in Answers(sl[s].stage) : Answer(s, a)
  \/ Spool(s) \/ Record(s) \/ RecordFails(s) \/ Close(s) \/ Crash(s) \/ LoseSession(s)
  \/ \E i \in Discovery : FinishAbandonedRun(s, i)
  \/ DiscoveryReconciled(s) \/ BeginRun(s) \/ FinishRun(s)
  \/ GateAndSweep(s) \/ DocumentsPlanned(s) \/ BeginPass(s) \/ LocalFailure(s)
  \/ RefusedFetch(s) \/ FetchAgain(s) \/ F2Ends(s)

(* They leave the items and the day's requests alone.                      *)
LEMMA SilentFacts ==
  ASSUME NEW s \in Slices, Silent(s)
  PROVE  UNCHANGED <<item, used>>
<1> USE DEF ledgerVars, tables, outside
<1>1. CASE \/ \E g \in Stages : Start(s, g)
           \/ Acquire(s) \/ OpenLease(s) \/ RefuseOpen(s) \/ EndWork(s) \/ Admit(s)
  BY <1>1 DEF Start, Acquire, OpenLease, RefuseOpen, EndWork, Admit
<1>2. CASE \/ JournalIntent(s) \/ Spool(s) \/ Record(s) \/ RecordFails(s)
           \/ \E a \in Answers(sl[s].stage) : Answer(s, a)
  BY <1>2 DEF JournalIntent, Answer, Spool, Record, RecordFails
<1>3. CASE Close(s) \/ Crash(s) \/ LoseSession(s)
  BY <1>3 DEF Close, Crash, LoseSession
<1>4. CASE \/ \E i \in Discovery : FinishAbandonedRun(s, i)
           \/ DiscoveryReconciled(s) \/ BeginRun(s) \/ FinishRun(s)
  BY <1>4 DEF FinishAbandonedRun, DiscoveryReconciled, BeginRun, FinishRun
<1>5. CASE GateAndSweep(s) \/ DocumentsPlanned(s) \/ BeginPass(s) \/ LocalFailure(s)
  BY <1>5 DEF GateAndSweep, DocumentsPlanned, BeginPass, LocalFailure
<1>6. CASE RefusedFetch(s) \/ FetchAgain(s) \/ F2Ends(s)
  BY <1>6 DEF RefusedFetch, FetchAgain, F2Ends
<1> QED BY <1>1, <1>2, <1>3, <1>4, <1>5, <1>6 DEF Silent

(* The steps that record events of items.                                  *)
Recording(s) ==
  \/ \E d \in Slices : Expire(s, d)
  \/ \E i \in Items : Claim(s, i)
  \/ \E i \in Discovery : PromoteDiscovery(s, i) \/ TerminaliseDiscovery(s, i)
  \/ \E i \in Documents : \/ PromoteDocument(s, i) \/ TerminaliseDocument(s, i)
                          \/ PlanDocument(s, i)
  \/ RefusedBeforeRequest(s) \/ Settle(s) \/ RefusedPass(s) \/ Dispose(s) \/ Persist(s)

(* A step of a slice is silent, records events, or makes a request.        *)
LEMMA SliceKinds ==
  ASSUME NEW s \in Slices, SliceStep(s)
  PROVE  Silent(s) \/ Recording(s) \/ Intend(s)
BY Constants DEF SliceStep, TransportStep, DiscoveryStep, DocumentStep, Silent, Recording

(* Recording an event makes no request.                                    *)
LEMMA RecordingFacts ==
  ASSUME BackInv, NEW s \in Slices, Recording(s)
  PROVE  Orderly /\ UNCHANGED used
<1>1. Orderly
  BY SliceEvents, TerminalEventsOrderly, DisposeOrderly, ExpireOrderly DEF Recording
<1>2. UNCHANGED used
  BY DEF Recording, Expire, Claim, PromoteDiscovery, TerminaliseDiscovery, PromoteDocument,
         TerminaliseDocument, PlanDocument, RefusedBeforeRequest, Settle, RefusedPass,
         Dispose, Persist
<1> QED BY <1>1, <1>2

(* So does whatever the environment does.                                  *)
LEMMA EnvironmentFacts ==
  ASSUME BackInv, LedgerEnvironment
  PROVE  Orderly /\ used' <= used
<1>1. used \in Nat
  BY LedgerFacts
<1>2. ASSUME NEW i \in Items, Requeue(i) \/ Resume(i)
      PROVE  Orderly /\ used' = used
  <2>1. used' = used
    BY <1>2 DEF Requeue, Resume
  <2> QED BY <1>2, <2>1, OperatorOrderly
<1>3. CASE \/ \E a \in BOOLEAN : Arm(a)
           \/ AcknowledgeBlock \/ P2Takes \/ P3Changes \/ ClosurePass
           \/ \E i \in Items : ForeignEvidence(i)
           \/ \E b \in BOOLEAN : P2Releases(b)
  <2>1. UNCHANGED <<item, used>>
    BY <1>3 DEF Arm, AcknowledgeBlock, P2Takes, P3Changes, ClosurePass, ForeignEvidence,
                P2Releases, tables
  <2> QED BY <1>1, <2>1, NoItem
<1>4. CASE NewColomboDay
  BY <1>1, <1>4, NoItem DEF NewColomboDay
<1> QED BY <1>1, <1>2, <1>3, <1>4 DEF LedgerEnvironment

(* The intent: the only request, and the only step that counts one.        *)
LEMMA IntendFacts ==
  ASSUME BackInv, NEW s \in Slices, Intend(s)
  PROVE  LET i == sl[s].item IN
         /\ i \in Items /\ \A j \in Items : ~Open(j)
         /\ blocks = {} /\ ~p2blocks
         /\ UNCHANGED <<blocks, p2blocks, p2used>>
         /\ used' = used + 1 /\ used' <= DailyBudget /\ used' + p2used <= Ceiling
         /\ attempt' = [attempt EXCEPT ![i] = [by |-> s, outcome |-> "open", spooled |-> None]]
         /\ \A j \in Items : /\ item'[j].state = item[j].state
                             /\ item'[j].claims = item[j].claims
                             /\ item'[j].sent = IF j = i THEN item[j].sent + 1
                                                         ELSE item[j].sent
         /\ i \in Discovery => /\ item[i].sent < item[i].claims
                               /\ item[i].sent > 0 => attempt[i].outcome # "ok"
<1> DEFINE i == sl[s].item
<1>1. sl[s].pc = "admitted" /\ LocalOK(sl[s]) /\ sl[s].up /\ sl[s].stop = "none"
  BY SliceFacts DEF Intend, LocalOK, Asking
<1>2. WorkOK(s, sl[s]) /\ \A j \in Items : ~Open(j)
  BY <1>1, WorkFacts DEF Asking
<1>3. i \in Items /\ (i \in Discovery => sl[s].stage = "discovery")
  BY <1>1, SliceFacts, Constants DEF LocalOK, StageItems, Holding, SliceType
<1>4. /\ item \in [Items -> ItemType] /\ used \in Nat /\ p2used \in Nat
  BY LedgerFacts DEF BackInv, TypeOK, OutsideOK
<1>5. /\ used' = used + 1 /\ item' = [item EXCEPT ![i].sent = @ + 1]
      /\ UNCHANGED <<blocks, outside>>
      /\ attempt' = [attempt EXCEPT ![i] = [by |-> s, outcome |-> "open", spooled |-> None]]
  BY DEF Intend
<1>6. UNCHANGED <<p2blocks, p2used>>
  BY <1>5 DEF outside
<1>7. \A j \in Items : /\ item'[j].state = item[j].state
                       /\ item'[j].claims = item[j].claims
                       /\ item'[j].sent = IF j = i THEN item[j].sent + 1 ELSE item[j].sent
  <2> TAKE j \in Items
  <2>1. item[j] \in ItemType /\ item'[j] = IF j = i THEN [item[j] EXCEPT !.sent = @ + 1]
                                          ELSE item[j]
    BY <1>3, <1>4, <1>5
  <2> QED BY <2>1 DEF ItemType
<1>8. used' <= DailyBudget /\ used' + p2used <= Ceiling
  BY <1>1, <1>2, <1>4, <1>5, Constants DEF WorkOK
<1>9. blocks = {} /\ ~p2blocks
  BY <1>1, <1>2 DEF WorkOK
<1>10. i \in Discovery => /\ item[i].sent < item[i].claims
                          /\ item[i].sent > 0 => attempt[i].outcome # "ok"
  BY <1>1, <1>2, <1>3 DEF WorkOK
<1> QED BY <1>2, <1>3, <1>5, <1>6, <1>7, <1>8, <1>9, <1>10

(* Every step, told by its effect on the items and on the day's requests.  *)
LEMMA StepKinds ==
  ASSUME BackInv, [Next]_vars
  PROVE  (Orderly /\ used' <= used) \/ \E s \in Slices : Intend(s)
<1>1. used \in Nat
  BY LedgerFacts
<1>2. ASSUME NEW s \in Slices, SliceStep(s), ~Intend(s)
      PROVE  Orderly /\ used' <= used
  <2>1. CASE Silent(s)
    BY <1>1, <2>1, SilentFacts, NoItem
  <2>2. CASE Recording(s)
    BY <1>1, <2>2, RecordingFacts
  <2> QED BY <1>2, <2>1, <2>2, SliceKinds
<1>3. CASE \E i \in Items : Corrupt(i)
  <2>1. UNCHANGED <<item, used>>
    BY <1>3 DEF Corrupt
  <2> QED BY <1>1, <2>1, NoItem
<1>4. CASE LedgerEnvironment
  BY <1>4, EnvironmentFacts
<1>5. CASE UNCHANGED vars
  <2>1. UNCHANGED <<item, used>>
    BY <1>5 DEF vars, ledgerVars, tables
  <2> QED BY <1>1, <2>1, NoItem
<1> QED BY <1>2, <1>3, <1>4, <1>5 DEF Next

-----------------------------------------------------------------------------
(* What no step may do                                                     *)

(* gates.request_refusals: no request goes past the daily budget or, with  *)
(* P2's own requests, past the combined ceiling.                           *)
THEOREM StaysInBudget == Spec => BudgetKept
<1>1. ASSUME BackInv, [Next]_vars, used' > used
      PROVE  used' <= DailyBudget /\ used' + p2used <= Ceiling
  <2>1. used \in Nat /\ used' \in Nat
    <3>1. BackInv'
      BY <1>1, SliceInv, CorruptStep, EnvironmentStep, StutterInv DEF Next
    <3> QED BY <1>1, <3>1 DEF BackInv, TypeOK, TablesOK
  <2>2. ~(used' <= used)
    BY <1>1, <2>1
  <2>3. PICK s \in Slices : Intend(s)
    BY <1>1, <2>2, StepKinds
  <2> QED BY <1>1, <2>3, IntendFacts
<1>2. BackInv /\ [Next]_vars => [used' > used => used' <= DailyBudget /\ used' + p2used <= Ceiling]_vars
  BY <1>1
<1> QED BY Invariance, <1>2, PTL DEF Spec, BudgetKept

(* states.check and hb_item_event_guard: every event of every path is one  *)
(* the state machine allows.                                               *)
THEOREM EventsFollowStates == Spec => EventsLegal
<1>1. ASSUME BackInv, [Next]_vars, NEW i \in Items
      PROVE  Legal(i, item[i], item'[i])
  <2>1. ASSUME NEW s \in Slices, Intend(s)
        PROVE  Legal(i, item[i], item'[i])
    BY <1>1, <2>1, IntendFacts, NoMove
  <2> QED BY <1>1, <2>1, StepKinds DEF Orderly
<1>2. ASSUME BackInv, [Next]_vars
      PROVE  [\A i \in Items :
                LET may(a, b) ==
                       a = b \/ <<a, b>> \in Moves(i, item'[i].claims > item[i].claims)
                IN  \E x, y \in {item[i].state, "requesting", "processing",
                                 "retry_wait"} :
                       /\ may(item[i].state, x) /\ may(x, y)
                       /\ may(y, item'[i].state)]_vars
  BY <1>1, <1>2 DEF Legal
<1> QED BY Invariance, <1>2, PTL DEF Spec, EventsLegal

(* Recovery spool-first: a request whose answer was recorded as ok is not  *)
(* sent again, and a claim sends one request at most.                      *)
THEOREM SendsOnce == Spec => NoRepeatedRequest
<1>1. ASSUME BackInv, [Next]_vars, NEW i \in Discovery, item'[i].sent > item[i].sent
      PROVE  /\ item[i].sent > 0 => attempt[i].outcome # "ok"
             /\ item'[i].sent <= item[i].claims
  <2>1. item[i] \in ItemType /\ item[i].sent \in Nat /\ item[i].claims \in Nat /\ i \in Items
    BY <1>1, RunFacts, Constants DEF ItemType
  <2>2. item'[i].sent \in Nat
    <3>1. BackInv'
      BY <1>1, SliceInv, CorruptStep, EnvironmentStep, StutterInv DEF Next
    <3> QED BY <2>1, <3>1 DEF BackInv, TypeOK, TablesOK, ItemType
  <2>3. ~Orderly
    BY <1>1, <2>1, <2>2 DEF Orderly
  <2>4. PICK s \in Slices : Intend(s)
    BY <1>1, <2>3, StepKinds
  <2>5. i = sl[s].item
    <3>1. i # sl[s].item => item'[i].sent = item[i].sent
      BY <1>1, <2>1, <2>4, IntendFacts
    <3> QED BY <1>1, <2>1, <3>1
  <2>6. /\ item'[i].sent = item[i].sent + 1 /\ item[i].sent < item[i].claims
        /\ item[i].sent > 0 => attempt[i].outcome # "ok"
    BY <1>1, <2>1, <2>4, <2>5, IntendFacts
  <2> QED BY <2>1, <2>6
<1>2. BackInv /\ [Next]_vars =>
        [\A i \in Discovery : item'[i].sent > item[i].sent =>
            /\ item[i].sent > 0 => attempt[i].outcome # "ok"
            /\ item'[i].sent <= item[i].claims]_vars
  BY <1>1
<1> QED BY Invariance, <1>2, PTL DEF Spec, NoRepeatedRequest

(* A slice changes no other slice's memory.                                *)
LEMMA OwnMemory ==
  ASSUME BackInv, NEW s \in Slices, SliceStep(s), NEW t \in Slices \ {s}
  PROVE  sl'[t] = sl[t]
<1>1. sl \in [Slices -> SliceType]
  BY SliceFacts
<1>2. CASE Silent(s)
  <2>1. CASE \/ \E g \in Stages : Start(s, g)
             \/ Acquire(s) \/ OpenLease(s) \/ RefuseOpen(s) \/ EndWork(s) \/ Admit(s)
    BY <1>1, <2>1 DEF Start, Acquire, OpenLease, RefuseOpen, EndWork, Admit
  <2>2. CASE \/ JournalIntent(s) \/ Spool(s) \/ Record(s) \/ RecordFails(s)
             \/ \E a \in Answers(sl[s].stage) : Answer(s, a)
    BY <1>1, <2>2 DEF JournalIntent, Answer, Spool, Record, RecordFails
  <2>3. CASE Close(s) \/ Crash(s) \/ LoseSession(s)
    BY <1>1, <2>3 DEF Close, Crash, LoseSession
  <2>4. CASE \/ \E i \in Discovery : FinishAbandonedRun(s, i)
             \/ DiscoveryReconciled(s) \/ BeginRun(s) \/ FinishRun(s)
    BY <1>1, <2>4 DEF FinishAbandonedRun, DiscoveryReconciled, BeginRun, FinishRun
  <2>5. CASE GateAndSweep(s) \/ DocumentsPlanned(s) \/ BeginPass(s) \/ LocalFailure(s)
    BY <1>1, <2>5 DEF GateAndSweep, DocumentsPlanned, BeginPass, LocalFailure
  <2>6. CASE RefusedFetch(s) \/ FetchAgain(s) \/ F2Ends(s)
    BY <1>1, <2>6 DEF RefusedFetch, FetchAgain, F2Ends
  <2> QED BY <1>2, <2>1, <2>2, <2>3, <2>4, <2>5, <2>6 DEF Silent
<1>3. CASE Recording(s)
  <2>1. CASE \/ \E d \in Slices : Expire(s, d)
             \/ \E i \in Discovery : PromoteDiscovery(s, i) \/ TerminaliseDiscovery(s, i)
             \/ \E i \in Documents : \/ PromoteDocument(s, i) \/ TerminaliseDocument(s, i)
                                     \/ PlanDocument(s, i)
    BY <2>1 DEF Expire, PromoteDiscovery, TerminaliseDiscovery, PromoteDocument,
                TerminaliseDocument, PlanDocument
  <2>2. CASE \/ \E i \in Items : Claim(s, i)
             \/ RefusedBeforeRequest(s) \/ Settle(s) \/ RefusedPass(s) \/ Persist(s)
    BY <1>1, <2>2 DEF Claim, RefusedBeforeRequest, Settle, RefusedPass, Persist
  <2>3. CASE Dispose(s)
    BY <1>1, <2>3 DEF Dispose
  <2> QED BY <1>3, <2>1, <2>2, <2>3 DEF Recording
<1>4. CASE Intend(s)
  BY <1>1, <1>4 DEF Intend
<1> QED BY <1>2, <1>3, <1>4, SliceKinds

(* From its claim, a document goes to a download only by the start of a    *)
(* pass.                                                                   *)
LEMMA OnlyPasses ==
  ASSUME BackInv, NEW s \in Slices, SliceStep(s), sl[s].pc = "claimed", sl'[s].pc = "fetch"
  PROVE  sl[s].stage = "document"
<1>1. sl \in [Slices -> SliceType] /\ sl[s] \in SliceType
  BY SliceFacts
<1>2. \/ Crash(s) \/ BeginRun(s) \/ RefusedBeforeRequest(s)
      \/ sl[s].stage = "document"
  <2>1. TransportStep(s) => Crash(s)
    BY DEF TransportStep, Start, Acquire, Expire, OpenLease, RefuseOpen, Claim, EndWork, Admit,
           Intend, JournalIntent, Answer, Spool, Record, RecordFails, Close, LoseSession
  <2>2. DiscoveryStep(s) => BeginRun(s) \/ RefusedBeforeRequest(s)
    BY DEF DiscoveryStep, Reconciling, FinishAbandonedRun, PromoteDiscovery,
           TerminaliseDiscovery, DiscoveryReconciled, FinishRun, Settle
  <2>3. DocumentStep(s) => sl[s].stage = "document"
    BY DEF DocumentStep, Reconciling, GateAndSweep, PromoteDocument, TerminaliseDocument,
           PlanDocument, DocumentsPlanned, BeginPass, LocalFailure, RefusedPass, RefusedFetch,
           FetchAgain, F2Ends, Dispose, Persist
  <2> QED BY <2>1, <2>2, <2>3 DEF SliceStep
<1>3. ~Crash(s)
  BY <1>1 DEF Crash, IdleSlice
<1>4. ~BeginRun(s)
  <2>1. BeginRun(s) => sl' = [sl EXCEPT ![s].pc = "begun"]
    BY DEF BeginRun
  <2>2. sl' = [sl EXCEPT ![s].pc = "begun"] => sl'[s].pc = "begun"
    BY <1>1 DEF SliceType
  <2> QED BY <2>1, <2>2
<1>5. ~RefusedBeforeRequest(s)
  <2> SUFFICES ASSUME RefusedBeforeRequest(s)
               PROVE  FALSE
    OBVIOUS
  <2> DEFINE y == [sl[s] EXCEPT !.stop = "refused"]
  <2>1. sl'[s] = Back(y)
    BY <1>1 DEF RefusedBeforeRequest
  <2>2. y \in SliceType
    BY <1>1 DEF SliceType, Stops
  <2> HIDE DEF y
  <2> QED BY <2>1, <2>2, BackFacts
<1> QED BY <1>2, <1>3, <1>4, <1>5

(* temproot.sweep and F2's verified deletion: a document is downloaded     *)
(* only into a temporary root in which no earlier document can remain.     *)
THEOREM DownloadsClean == Spec => DownloadsIntoCleanRoot
<1>1. ASSUME BackInv, [Next]_vars, NEW s \in Slices, sl[s].pc = "claimed", sl'[s].pc = "fetch"
      PROVE  files = {}
  <2>1. CASE UNCHANGED sl
    BY <1>1, <2>1
  <2>2. CASE ~(UNCHANGED sl)
    <3>1. PICK t \in Slices : SliceStep(t)
      BY <1>1, <2>2 DEF Next, Corrupt, vars
    <3>2. t = s
      BY <1>1, <3>1, OwnMemory
    <3>3. sl[s].stage = "document"
      BY <1>1, <3>1, <3>2, OnlyPasses
    <3>4. sl[s].up
      BY <1>1, SliceFacts DEF LocalOK, Asking
    <3>5. WorkOK(s, sl[s])
      BY <1>1, <3>4, WorkFacts
    <3> QED BY <1>1, <3>3, <3>5 DEF WorkOK
  <2> QED BY <2>1, <2>2
<1>2. BackInv /\ [Next]_vars =>
        [\A s \in Slices : sl[s].pc = "claimed" /\ sl'[s].pc = "fetch" => files = {}]_vars
  BY <1>1
<1> QED BY Invariance, <1>2, PTL DEF Spec, DownloadsIntoCleanRoot

-----------------------------------------------------------------------------
(* The promise about requests                                              *)

(* What the promise is about, by the names it uses.                        *)
Opened == {i \in Items : attempt[i].outcome = "open"}
HeardOf == [i \in Items |-> IF attempt[i].outcome = "open" THEN attempt[i].spooled ELSE None]
Outcomes == [i \in Items |-> attempt[i].outcome]
Halted == blocks # {} \/ p2blocks
PromiseVars == <<Opened, HeardOf, Outcomes, Halted>>

(* Nothing happens to the requests.                                        *)
LEMMA NoRequest ==
  ASSUME UNCHANGED attempt, Halted' <=> Halted
  PROVE  UNCHANGED PromiseVars
<1>1. Opened' = Opened
  BY DEF Opened
<1>2. HeardOf' = HeardOf
  BY DEF HeardOf
<1>3. Outcomes' = Outcomes
  BY DEF Outcomes
<1>4. Halted' = Halted
  BY DEF Halted
<1> QED BY <1>1, <1>2, <1>3, <1>4 DEF PromiseVars

(* A request is made.                                                      *)
LEMMA IntentKeepsPromise ==
  ASSUME NEW i \in Items, NEW a, a.outcome = "open", a.spooled = None,
         \A j \in Items : ~Open(j), ~Halted, ~Halted',
         \A j \in Items : attempt'[j] = IF j = i THEN a ELSE attempt[j]
  PROVE  Requests!Next
<1>1. Opened = {} /\ Opened' = {i}
  BY DEF Opened, Open
<1>2. HeardOf' = HeardOf
  BY DEF HeardOf, Open
<1>3. Outcomes' = [Outcomes EXCEPT ![i] = "open"]
  BY DEF Outcomes
<1>4. Requests!Intend(i)
  BY <1>1, <1>2, <1>3 DEF Requests!Intend, Opened, HeardOf, Outcomes, Halted
<1> QED BY <1>4 DEF Requests!Next

(* An open request gets an outcome: what its durable copy says, if there   *)
(* is one; a block halts.                                                  *)
LEMMA OutcomeKeepsPromise ==
  ASSUME NEW i \in Items, Open(i), NEW a \in Told \cup {"unrecorded"},
         \A j \in Items : attempt'[j] = IF j = i THEN Closed(a) ELSE attempt[j],
         attempt[i].spooled \in {None, a},
         Halted' <=> Halted \/ a = "block"
  PROVE  Requests!Next
<1>1. Closed(a).outcome = a /\ a # "open"
  BY DEF Closed, Told, Heard
<1>2. Opened' = Opened \ {i} /\ i \in Opened
  BY <1>1 DEF Opened, Open
<1>3. HeardOf' = [HeardOf EXCEPT ![i] = None] /\ HeardOf[i] \in {None, a}
  BY <1>1 DEF HeardOf, Open
<1>4. Outcomes' = [Outcomes EXCEPT ![i] = a]
  BY <1>1 DEF Outcomes
<1>5. Halted' = (Halted \/ a = "block")
  BY DEF Halted
<1>6. a \in {"ok", "retryable", "terminal", "block", "elsewhere", "lost", "unrecorded"}
  BY DEF Told, Heard
<1>7. Requests!Close(i)
  BY <1>2, <1>3, <1>4, <1>5, <1>6 DEF Requests!Close, Opened, HeardOf, Outcomes, Halted
<1> QED BY <1>7 DEF Requests!Next

(* The steps that leave the requests and the blocks alone.                 *)
Apart(s) ==
  \/ \E g \in Stages : Start(s, g)
  \/ Acquire(s) \/ OpenLease(s) \/ RefuseOpen(s) \/ EndWork(s) \/ Admit(s)
  \/ \E a \in Answers(sl[s].stage) : Answer(s, a)
  \/ RecordFails(s) \/ Close(s) \/ Crash(s) \/ LoseSession(s)
  \/ \E i \in Discovery : FinishAbandonedRun(s, i)
  \/ DiscoveryReconciled(s) \/ BeginRun(s) \/ FinishRun(s)
  \/ GateAndSweep(s) \/ DocumentsPlanned(s) \/ BeginPass(s) \/ LocalFailure(s)
  \/ RefusedFetch(s) \/ FetchAgain(s) \/ F2Ends(s)

(* They do.                                                                *)
LEMMA ApartFacts ==
  ASSUME NEW s \in Slices, Apart(s)
  PROVE  UNCHANGED <<attempt, blocks, p2blocks>>
<1> USE DEF ledgerVars, tables, outside
<1>1. CASE \/ \E g \in Stages : Start(s, g)
           \/ Acquire(s) \/ OpenLease(s) \/ RefuseOpen(s) \/ EndWork(s) \/ Admit(s)
  BY <1>1 DEF Start, Acquire, OpenLease, RefuseOpen, EndWork, Admit
<1>2. CASE \/ \E a \in Answers(sl[s].stage) : Answer(s, a)
           \/ RecordFails(s) \/ Close(s) \/ Crash(s) \/ LoseSession(s)
  BY <1>2 DEF Answer, RecordFails, Close, Crash, LoseSession
<1>3. CASE \/ \E i \in Discovery : FinishAbandonedRun(s, i)
           \/ DiscoveryReconciled(s) \/ BeginRun(s) \/ FinishRun(s)
  BY <1>3 DEF FinishAbandonedRun, DiscoveryReconciled, BeginRun, FinishRun
<1>4. CASE GateAndSweep(s) \/ DocumentsPlanned(s) \/ BeginPass(s) \/ LocalFailure(s)
  BY <1>4 DEF GateAndSweep, DocumentsPlanned, BeginPass, LocalFailure
<1>5. CASE RefusedFetch(s) \/ FetchAgain(s) \/ F2Ends(s)
  BY <1>5 DEF RefusedFetch, FetchAgain, F2Ends
<1> QED BY <1>1, <1>2, <1>3, <1>4, <1>5 DEF Apart

(* So do all events but those of a recovery.                               *)
LEMMA EventsApart ==
  ASSUME NEW s \in Slices, Recording(s), \A d \in Slices : ~Expire(s, d)
  PROVE  UNCHANGED <<attempt, blocks, p2blocks>>
BY DEF Recording, Claim, PromoteDiscovery, TerminaliseDiscovery, PromoteDocument,
       TerminaliseDocument, PlanDocument, RefusedBeforeRequest, Settle, RefusedPass,
       Dispose, Persist, outside

(* The intent line cannot be written: the request counts as lost.          *)
LEMMA JournalKeepsPromise ==
  ASSUME BackInv, NEW s \in Slices, JournalIntent(s)
  PROVE  Requests!Next \/ UNCHANGED PromiseVars
<1> DEFINE i == sl[s].item
<1>1. /\ sl[s].pc = "intent" /\ UNCHANGED <<blocks, outside>>
      /\ \/ UNCHANGED attempt
         \/ sl[s].up /\ attempt' = [attempt EXCEPT ![i] = Closed("lost")]
  BY DEF JournalIntent
<1>2. UNCHANGED p2blocks /\ (Halted' <=> Halted)
  BY <1>1 DEF outside, Halted
<1>3. CASE UNCHANGED attempt
  BY <1>2, <1>3, NoRequest
<1>4. CASE sl[s].up /\ attempt' = [attempt EXCEPT ![i] = Closed("lost")]
  <2>1. WorkOK(s, sl[s]) /\ SpoolOK(s, sl[s]) /\ attempt \in [Items -> AttemptType]
    BY <1>1, <1>4, WorkFacts, SliceFacts, LedgerFacts
  <2>2. i \in Items
    BY <1>1, SliceFacts, Constants DEF LocalOK, StageItems, Holding, Asking
  <2>3. Open(i) /\ attempt[i].spooled = None
    BY <1>1, <2>1, <2>2 DEF WorkOK, SpoolOK, Asking
  <2>4. \A j \in Items : attempt'[j] = IF j = i THEN Closed("lost") ELSE attempt[j]
    BY <1>4, <2>1, <2>2
  <2>5. "lost" \in Told \cup {"unrecorded"} /\ (Halted' <=> Halted \/ "lost" = "block")
        /\ attempt[i].spooled \in {None, "lost"}
    BY <1>2, <2>3 DEF Told
  <2> HIDE DEF i
  <2> QED BY <2>2, <2>3, <2>4, <2>5, OutcomeKeepsPromise
<1> QED BY <1>1, <1>3, <1>4

(* The outcome is recorded: it is the answer the spool holds, if it does.  *)
LEMMA RecordKeepsPromise ==
  ASSUME BackInv, NEW s \in Slices, Record(s)
  PROVE  Requests!Next
<1> DEFINE i == sl[s].item
           a == sl[s].got
<1>1. /\ sl[s].pc = "record" /\ sl[s].up /\ UNCHANGED outside
      /\ attempt' = [attempt EXCEPT ![i] = Closed(a)]
      /\ blocks' = IF a = "block" THEN blocks \cup {i} ELSE blocks
  BY DEF Record
<1>2. WorkOK(s, sl[s]) /\ SpoolOK(s, sl[s]) /\ attempt \in [Items -> AttemptType]
  BY <1>1, WorkFacts, SliceFacts, LedgerFacts
<1>3. i \in Items /\ a \in Told
  BY <1>1, SliceFacts, Constants DEF LocalOK, StageItems, Holding, Asking
<1>4. Open(i) /\ attempt[i].spooled \in {None, a}
  BY <1>1, <1>2, <1>3 DEF WorkOK, SpoolOK, Asking
<1>5. \A j \in Items : attempt'[j] = IF j = i THEN Closed(a) ELSE attempt[j]
  BY <1>1, <1>2, <1>3
<1>6. Halted' <=> Halted \/ a = "block"
  BY <1>1, <1>3 DEF outside, Halted
<1> HIDE DEF i, a
<1> QED BY <1>3, <1>4, <1>5, <1>6, OutcomeKeepsPromise

(* The durable copy of an open request's answer changes.                   *)
LEMMA CopyFacts ==
  ASSUME NEW i \in Items, NEW a, Open(i), UNCHANGED Halted,
         \A j \in Items : /\ attempt'[j].outcome = attempt[j].outcome
                          /\ attempt'[j].spooled = IF j = i THEN a ELSE attempt[j].spooled
  PROVE  /\ attempt[i].spooled = None /\ a \in Heard => Requests!Next
         /\ attempt[i].spooled # None /\ a = "corrupt" => Requests!Next
<1>1. UNCHANGED <<Opened, Outcomes>> /\ i \in Opened
  BY DEF Opened, Outcomes, Open
<1>2. HeardOf' = [HeardOf EXCEPT ![i] = a] /\ HeardOf[i] = attempt[i].spooled
  BY DEF HeardOf, Open
<1>3. attempt[i].spooled = None /\ a \in Heard => Requests!Hear(i)
  BY <1>1, <1>2 DEF Requests!Hear, Opened, HeardOf, Outcomes, Halted, Heard
<1>4. attempt[i].spooled # None /\ a = "corrupt" => Requests!Damage(i)
  BY <1>1, <1>2 DEF Requests!Damage, Opened, HeardOf, Outcomes, Halted
<1> QED BY <1>3, <1>4 DEF Requests!Next

(* The answer becomes durable.                                             *)
LEMMA SpoolKeepsPromise ==
  ASSUME BackInv, NEW s \in Slices, Spool(s)
  PROVE  Requests!Next \/ UNCHANGED PromiseVars
<1> DEFINE i == sl[s].item
           a == sl[s].got
<1>1. /\ sl[s].pc = "answered" /\ UNCHANGED <<blocks, outside>>
      /\ \/ UNCHANGED attempt
         \/ /\ Open(i) /\ attempt[i].by = s
            /\ attempt' = [attempt EXCEPT ![i].spooled = a]
  BY DEF Spool, Open
<1>2. UNCHANGED p2blocks /\ (Halted' <=> Halted)
  BY <1>1 DEF outside, Halted
<1>3. CASE UNCHANGED attempt
  BY <1>2, <1>3, NoRequest
<1>4. CASE /\ Open(i) /\ attempt[i].by = s
           /\ attempt' = [attempt EXCEPT ![i].spooled = a]
  <2>1. SpoolOK(s, sl[s]) /\ attempt \in [Items -> AttemptType] /\ a \in Heard
    BY <1>1, SliceFacts, LedgerFacts DEF LocalOK
  <2>2. i \in Items
    BY <1>1, SliceFacts, Constants DEF LocalOK, StageItems, Holding, Asking
  <2>3. attempt[i].spooled = None
    BY <1>1, <1>4, <2>1 DEF SpoolOK, Asking
  <2>4. \A j \in Items : /\ attempt'[j].outcome = attempt[j].outcome
                         /\ attempt'[j].spooled = IF j = i THEN a ELSE attempt[j].spooled
    <3> TAKE j \in Items
    <3>1. attempt[j] \in AttemptType
          /\ attempt'[j] = IF j = i THEN [attempt[j] EXCEPT !.spooled = a] ELSE attempt[j]
      BY <1>4, <2>1, <2>2
    <3> HIDE DEF i, a
    <3> QED BY <3>1 DEF AttemptType
  <2>5. UNCHANGED Halted
    BY <1>2 DEF Halted
  <2> HIDE DEF i, a
  <2> QED BY <1>4, <2>1, <2>2, <2>3, <2>4, <2>5, CopyFacts
<1> QED BY <1>1, <1>3, <1>4

(* The spool record of a dead slice is damaged.                            *)
LEMMA CorruptKeepsPromise ==
  ASSUME BackInv, NEW i \in Items, Corrupt(i)
  PROVE  Requests!Next
<1>1. /\ Open(i) /\ attempt[i].spooled # None /\ UNCHANGED <<blocks, outside>>
      /\ attempt' = [attempt EXCEPT ![i].spooled = "corrupt"]
  BY DEF Corrupt, Open
<1>2. attempt \in [Items -> AttemptType]
  BY LedgerFacts
<1>3. \A j \in Items : /\ attempt'[j].outcome = attempt[j].outcome
                       /\ attempt'[j].spooled = IF j = i THEN "corrupt" ELSE attempt[j].spooled
  <2> TAKE j \in Items
  <2>1. attempt[j] \in AttemptType
        /\ attempt'[j] = IF j = i THEN [attempt[j] EXCEPT !.spooled = "corrupt"] ELSE attempt[j]
    BY <1>1, <1>2
  <2> QED BY <2>1 DEF AttemptType
<1>4. UNCHANGED Halted
  BY <1>1 DEF outside, Halted
<1> QED BY <1>1, <1>3, <1>4, CopyFacts

(* A dead lease is recovered: its open request, if it has one, gets the    *)
(* outcome its spool record holds.                                         *)
LEMMA ExpireKeepsPromise ==
  ASSUME BackInv, NEW s \in Slices, NEW d \in Slices, Expire(s, d)
  PROVE  Requests!Next \/ UNCHANGED PromiseVars
<1>1. /\ \A i \in OpenAttempts(d) : attempt[i].spooled # "corrupt"
      /\ attempt' = [i \in Items |-> IF i \in OpenAttempts(d) THEN Closed(Recovered(i))
                                     ELSE attempt[i]]
      /\ blocks' = blocks \cup {i \in OpenAttempts(d) : Recovered(i) = "block"}
      /\ UNCHANGED p2blocks
  BY DEF Expire, outside
<1>2. attempt \in [Items -> AttemptType] /\ \A i, j \in Items : Open(i) /\ Open(j) => i = j
  BY LedgerFacts DEF LedgerOK
<1>3. CASE OpenAttempts(d) = {}
  <2>1. UNCHANGED attempt
    BY <1>1, <1>2, <1>3
  <2>2. blocks' = blocks
    BY <1>1, <1>3
  <2> QED BY <1>1, <2>1, <2>2, NoRequest DEF Halted
<1>4. CASE OpenAttempts(d) # {}
  <2>1. PICK i \in Items : i \in OpenAttempts(d)
    BY <1>4 DEF OpenAttempts
  <2>2. Open(i) /\ OpenAttempts(d) = {i}
    BY <1>2, <2>1 DEF OpenAttempts, Open
  <2> DEFINE a == Recovered(i)
  <2>3. a \in Told \cup {"unrecorded"} /\ attempt[i].spooled \in {None, a}
    BY <1>1, <1>2, <2>1 DEF Recovered, AttemptType, Told
  <2>4. \A j \in Items : attempt'[j] = IF j = i THEN Closed(a) ELSE attempt[j]
    BY <1>1, <2>2
  <2>5. Halted' <=> Halted \/ a = "block"
    BY <1>1, <2>2 DEF Halted
  <2> HIDE DEF a
  <2> QED BY <2>2, <2>3, <2>4, <2>5, OutcomeKeepsPromise
<1> QED BY <1>3, <1>4

(* What the owner, P2 and the others do.                                   *)
LEMMA EnvironmentKeepsPromise ==
  ASSUME LedgerEnvironment
  PROVE  Requests!Next \/ UNCHANGED PromiseVars
<1>1. UNCHANGED attempt
  BY DEF LedgerEnvironment, Arm, AcknowledgeBlock, P2Takes, P3Changes, ClosurePass,
         ForeignEvidence, P2Releases, NewColomboDay, Requeue, Resume, tables
<1>2. UNCHANGED <<Opened, HeardOf, Outcomes>>
  BY <1>1 DEF Opened, HeardOf, Outcomes
<1>3. CASE Halted /\ ~Halted'
  <2>1. Requests!Acknowledge
    BY <1>2, <1>3 DEF Requests!Acknowledge, Opened, HeardOf, Outcomes, Halted
  <2> QED BY <2>1 DEF Requests!Next
<1>4. CASE ~Halted /\ Halted'
  <2>1. Requests!OtherBlock
    BY <1>2, <1>4 DEF Requests!OtherBlock, Opened, HeardOf, Outcomes, Halted
  <2> QED BY <2>1 DEF Requests!Next
<1>5. CASE Halted' <=> Halted
  BY <1>1, <1>5, NoRequest
<1> QED BY <1>3, <1>4, <1>5

(* Every step of the backfill is a step of the promise or none of it.      *)
LEMMA StepKeepsPromise ==
  ASSUME BackInv, [Next]_vars
  PROVE  Requests!Next \/ UNCHANGED PromiseVars
<1>1. ASSUME UNCHANGED <<attempt, blocks, p2blocks>>
      PROVE  UNCHANGED PromiseVars
  <2>1. Halted' <=> Halted
    BY <1>1 DEF Halted
  <2> QED BY <1>1, <2>1, NoRequest
<1>2. ASSUME NEW s \in Slices, SliceStep(s)
      PROVE  Requests!Next \/ UNCHANGED PromiseVars
  <2>1. CASE Silent(s)
    <3>1. Apart(s) \/ JournalIntent(s) \/ Spool(s) \/ Record(s)
      BY <2>1 DEF Silent, Apart
    <3> QED BY <1>1, <3>1, ApartFacts, JournalKeepsPromise, SpoolKeepsPromise, RecordKeepsPromise
  <2>2. CASE Recording(s)
    BY <1>1, <2>2, EventsApart, ExpireKeepsPromise
  <2>3. CASE Intend(s)
    <3> DEFINE i == sl[s].item
               a == [by |-> s, outcome |-> "open", spooled |-> None]
    <3>1. /\ i \in Items /\ \A j \in Items : ~Open(j)
          /\ ~Halted /\ ~Halted' /\ attempt' = [attempt EXCEPT ![i] = a]
      BY <2>3, IntendFacts DEF Halted
    <3>2. attempt \in [Items -> AttemptType] /\ a.outcome = "open" /\ a.spooled = None
      BY LedgerFacts
    <3> HIDE DEF i, a
    <3>3. \A j \in Items : attempt'[j] = IF j = i THEN a ELSE attempt[j]
      BY <3>1, <3>2
    <3> QED BY <3>1, <3>2, <3>3, IntentKeepsPromise
  <2> QED BY <1>2, <2>1, <2>2, <2>3, SliceKinds
<1>3. CASE UNCHANGED vars
  BY <1>1, <1>3 DEF vars, ledgerVars, tables, outside
<1> QED BY <1>2, <1>3, CorruptKeepsPromise, EnvironmentKeepsPromise DEF Next

(* HB-2 with its stages keeps the promise: one request at a time, none     *)
(* while a block awaits the owner, no durable answer lost or contradicted. *)
THEOREM KeepsPromise == Spec => ImplementsAttemptLedger
<1>1. Init => Requests!Init
  <2> SUFFICES ASSUME Init
               PROVE  Requests!Init
    OBVIOUS
  <2>1. attempt = [i \in Items |-> NoAttempt] /\ blocks = {} /\ p2blocks = FALSE
    BY DEF Init, LedgerInit
  <2> QED BY <2>1 DEF Requests!Init, NoAttempt
<1>2. BackInv /\ [Next]_vars => [Requests!Next]_PromiseVars
  BY StepKeepsPromise
<1>3. Requests!Spec <=> Requests!Init /\ [][Requests!Next]_PromiseVars
  BY DEF Requests!Spec, PromiseVars, Opened, HeardOf, Outcomes, Halted
<1> QED BY Invariance, <1>1, <1>2, <1>3, PTL DEF Spec, ImplementsAttemptLedger
=============================================================================
