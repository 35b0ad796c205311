--------------------------- MODULE PipelineProofs ---------------------------
(***************************************************************************)
(* Proofs about BackfillRunner, for every set of processes, filings and    *)
(* issuers, every batch size and any number of troubles: the claim admits  *)
(* one runner, the exclusive lock of the truth store makes its "abandoned" *)
(* mark true, and a pass that succeeded reports what the evidence implies. *)
(***************************************************************************)
EXTENDS BackfillRunner, FiniteSetsExt, FiniteSetTheorems, NaturalsInduction, WellFoundedInduction,
        TLAPS

(***************************************************************************)
(* The least and the greatest element of a set of numbers.                 *)
(***************************************************************************)
(* The least element of a set of naturals.                                 *)
LEMMA MinOfNaturals ==
  ASSUME NEW S \in SUBSET Nat, S # {}
  PROVE  Min(S) \in S /\ \A y \in S : Min(S) <= y
<1> DEFINE less == {p \in Nat \X Nat : p[1] < p[2]}
<1>1. OpToRel(<, Nat) = less
  BY Zenon DEF OpToRel
<1>2. IsWellFoundedOn(less, Nat)
  BY <1>1, NatLessThanWellFounded, Zenon
<1>3. PICK k \in S : \A y \in S : ~ (<<y, k>> \in less)
  <2> HIDE DEF less
  <2> QED BY <1>2, WFMin, Zenon
<1>4. \A x, y \in Nat : ~ (<<y, x>> \in less) => x <= y
  OBVIOUS
<1> HIDE DEF less
<1>5. \A y \in S : k <= y
  BY <1>3, <1>4
<1> QED BY <1>5 DEF Min

(* The fields of a process's state that the arguments read.                *)
Fields == {"pc", "cmd", "back", "job", "raced"}

(* The steps of a wake-up that end in another one by name, and the places  *)
(* a job returns to.                                                       *)
WakePCs == {"claim", "gates", "f6", "vnext", "vevent", "config", "plan",
            "apply", "ready", "rnext", "revent"}
Backs == {"idle", "cnext", "child", "vevent", "revent"}

(* A process's own state: only a wake-up is at a wake-up's step, and only  *)
(* a child of a reconcile job returns to it.                               *)
LocalOK(s) ==
  /\ Fields \subseteq DOMAIN s
  /\ s.back \in Backs
  /\ s.pc \in WakePCs \/ s.back \in {"vevent", "revent"} => s.cmd = "wake"
  /\ s.back = "child" => s.pc \in {"compute", "insert", "child"}
  /\ s.job # "none" => s.pc \in {"compute", "insert", "mark", "sweep", "child",
                                 "part", "refuse"}
  /\ s.job = "abandoned" => s.pc = "refuse"

LocalInv == /\ DOMAIN l = Procs
            /\ \A p \in Procs : LocalOK(l[p])

(* What a job at work holds of the truth store's lock.                     *)
Exclusively(s) ==
  \/ s.pc \in {"mark", "sweep", "child", "part"}
  \/ s.pc \in {"compute", "insert"} /\ s.back = "child"
Shared(s) == s.pc \in {"compute", "insert"} /\ s.back # "child"

LockInv ==
  /\ \A p \in Procs : /\ Exclusively(l[p]) => exclusive = p
                      /\ Shared(l[p]) => p \in shared
  /\ exclusive # None => shared \subseteq {exclusive}

(* A working runner has its claim, two claims are never active, and a      *)
(* process that read before a claim committed will lose.                   *)
ClaimInv ==
  /\ DOMAIN claims = Procs
  /\ \A p \in Procs : Working(p) => claims[p] = "active"
  /\ \A p, q \in Procs : claims[p] = "active" /\ claims[q] = "active" => p = q
  /\ \A p, q \in Procs : l[p].pc = "claim" /\ claims[q] = "active" => l[p].raced

PipeInv == LocalInv /\ LockInv /\ ClaimInv

-----------------------------------------------------------------------------
(* Idle's fields.                                                          *)
LEMMA IdleFields ==
  /\ Fields \subseteq DOMAIN Idle
  /\ Idle.pc = "idle" /\ Idle.cmd = "none" /\ Idle.back = "idle"
  /\ Idle.job = "none" /\ Idle.raced = FALSE
BY DEF Idle, Fields

(* Another process keeps what the arguments read of it; its job row may    *)
(* have been marked.                                                       *)
Kept(q) ==
  /\ LocalOK(l'[q])
  /\ l'[q].pc = l[q].pc /\ l'[q].cmd = l[q].cmd
  /\ l'[q].back = l[q].back /\ l'[q].raced = l[q].raced

(* What process p may do without taking a claim: it goes anywhere but to a *)
(* claim and becomes no wake-up; claims end, and only its own does when it *)
(* works no more.                                                          *)
Quiet(p) ==
  /\ DOMAIN l' = Procs
  /\ \A q \in Procs \ {p} : Kept(q)
  /\ LocalOK(l'[p]) /\ l'[p].pc # "claim"
  /\ l'[p].cmd = "wake" => l[p].cmd = "wake" /\ l[p].pc # "claim"

Claims(p) ==
  /\ DOMAIN claims' = Procs
  /\ \A q \in Procs : claims'[q] = "active" => claims[q] = "active"
  /\ \A q \in Procs : q # p \/ l'[p].cmd = "wake" =>
        (claims[q] = "active" => claims'[q] = "active")

(* Process p holds what its new place needs, and takes nothing from the    *)
(* others.                                                                 *)
Locks(p) ==
  /\ Exclusively(l'[p]) => exclusive' = p
  /\ Shared(l'[p]) => p \in shared'
  /\ \A q \in Procs \ {p} :
        (exclusive = q => exclusive' = q) /\ (q \in shared => q \in shared')
  /\ exclusive' # None => shared' \subseteq {exclusive'}

(* A quiet step that respects the lock keeps the invariant.                *)
LEMMA QuietStep ==
  ASSUME PipeInv, NEW p \in Procs, Quiet(p), Locks(p), Claims(p)
  PROVE  PipeInv'
<1>1. LocalInv'
  BY DEF LocalInv, Quiet, Kept
<1>2. LockInv'
  <2>1. ASSUME NEW q \in Procs
        PROVE  /\ Exclusively(l'[q]) => exclusive' = q
               /\ Shared(l'[q]) => q \in shared'
    <3>1. CASE q = p
      BY <3>1 DEF Locks
    <3>2. CASE q # p
      <4>1. Kept(q) /\ q \in Procs \ {p}
        BY <3>2 DEF Quiet
      <4>2. /\ Exclusively(l'[q]) => Exclusively(l[q])
            /\ Shared(l'[q]) => Shared(l[q])
        BY <4>1 DEF Kept, Exclusively, Shared
      <4> QED BY <4>1, <4>2 DEF PipeInv, LockInv, Locks
    <3> QED BY <3>1, <3>2
  <2> QED BY <2>1 DEF LockInv, Locks
<1>3. ClaimInv'
  <2>1. \A q \in Procs : Working(q)' => Working(q) /\ (q = p => l'[p].cmd = "wake")
    BY DEF Quiet, Kept, Working
  <2>2. \A q \in Procs : l'[q].pc = "claim" => l[q].pc = "claim" /\ l'[q].raced = l[q].raced
    BY DEF Quiet, Kept
  <2>3. \A q \in Procs : Working(q)' => claims'[q] = "active"
    BY <2>1 DEF PipeInv, ClaimInv, Claims
  <2>4. \A q, r \in Procs : claims'[q] = "active" /\ claims'[r] = "active" => q = r
    BY DEF PipeInv, ClaimInv, Claims
  <2>5. \A q, r \in Procs : l'[q].pc = "claim" /\ claims'[r] = "active" => l'[q].raced
    BY <2>2 DEF PipeInv, ClaimInv, Claims
  <2> QED BY <2>3, <2>4, <2>5 DEF ClaimInv, Claims
<1> QED BY <1>1, <1>2, <1>3 DEF PipeInv

(* A step of p alone.                                                      *)
LEMMA LocalStep ==
  ASSUME PipeInv, NEW p \in Procs, NEW s, l' = [l EXCEPT ![p] = s],
         LocalOK(s), s.pc # "claim",
         s.cmd = "wake" => l[p].cmd = "wake" /\ l[p].pc # "claim",
         Locks(p), claims' = claims
  PROVE  PipeInv'
<1>1. /\ l'[p] = s /\ \A q \in Procs \ {p} : l'[q] = l[q]
      /\ DOMAIN l' = Procs
  BY DEF PipeInv, LocalInv
<1>2. Quiet(p)
  BY <1>1 DEF PipeInv, LocalInv, Quiet, Kept
<1>3. Claims(p)
  BY DEF PipeInv, ClaimInv, Claims
<1> QED BY <1>2, <1>3, QuietStep

(* ... that leaves the lock to whoever held it.                            *)
LEMMA PlainStep ==
  ASSUME PipeInv, NEW p \in Procs, NEW s, l' = [l EXCEPT ![p] = s],
         LocalOK(s), s.pc # "claim",
         s.cmd = "wake" => l[p].cmd = "wake" /\ l[p].pc # "claim",
         Exclusively(s) => Exclusively(l[p]), Shared(s) => Shared(l[p]),
         UNCHANGED <<claims, shared, exclusive>>
  PROVE  PipeInv'
<1>1. l'[p] = s
  BY DEF PipeInv, LocalInv
<1>2. Locks(p)
  BY <1>1 DEF PipeInv, LockInv, Locks
<1> QED BY <1>2, LocalStep

(* At changes the place alone, or forgets everything.                      *)
LEMMA AtFields ==
  ASSUME NEW s, Fields \subseteq DOMAIN s, NEW pc
  PROVE  /\ Fields \subseteq DOMAIN At(s, pc)
         /\ At(s, pc).pc = pc
         /\ pc = "idle" => At(s, pc) = Idle
         /\ pc # "idle" => /\ At(s, pc).cmd = s.cmd /\ At(s, pc).back = s.back
                           /\ At(s, pc).job = s.job /\ At(s, pc).raced = s.raced
BY IdleFields DEF At, Fields

(* start_job sets the job alone.                                           *)
LEMMA StartFields ==
  ASSUME NEW s, Fields \subseteq DOMAIN s
  PROVE  /\ Fields \subseteq DOMAIN start_job(s)
         /\ start_job(s).job = "started" /\ start_job(s).back = s.back
         /\ start_job(s).cmd = s.cmd /\ start_job(s).pc = s.pc
BY DEF start_job, Fields

(* An idle process satisfies LocalOK.                                      *)
LEMMA IdleOK ==
  LocalOK(Idle) /\ ~Exclusively(Idle) /\ ~Shared(Idle)
BY IdleFields DEF LocalOK, Exclusively, Shared, Backs, WakePCs

(* A command that ends, or a wake-up that goes to record its error.        *)
LEMMA AbortStep ==
  ASSUME PipeInv, NEW p \in Procs, NEW pc \in {"idle", "finish"},
         Goto(p, Idle, pc), UNCHANGED <<claims, shared, exclusive>>
  PROVE  PipeInv'
<1> DEFINE s == At(Idle, pc)
<1>1. l' = [l EXCEPT ![p] = s]
  BY DEF Goto
<1>2. /\ Fields \subseteq DOMAIN s /\ s.pc = pc /\ s.cmd = "none"
      /\ s.back = "idle" /\ s.job = "none"
  BY AtFields, IdleFields
<1> HIDE DEF s
<1>3. LocalOK(s) /\ ~Exclusively(s) /\ ~Shared(s)
  BY <1>2 DEF LocalOK, Exclusively, Shared, Backs, WakePCs
<1> QED BY <1>1, <1>2, <1>3, PlainStep

(* The places of a process that holds no lock and has no job.              *)
FreePCs == {"idle", "cnext", "validate", "reconcile", "cleanup", "slice", "finish",
            "gates", "f6", "vnext", "vevent", "config", "plan", "apply", "ready",
            "rnext", "revent"}

(* A process without a job that goes to such a place.                      *)
LEMMA FreeStep ==
  ASSUME PipeInv, NEW p \in Procs, NEW t, NEW pc \in FreePCs, Goto(p, t, pc),
         Fields \subseteq DOMAIN t, t.job = "none", t.back \in Backs \ {"child"},
         pc \in WakePCs \/ t.back \in {"vevent", "revent"} => t.cmd = "wake",
         t.cmd = "wake" => l[p].cmd = "wake" /\ l[p].pc # "claim",
         UNCHANGED <<claims, shared, exclusive>>
  PROVE  PipeInv'
<1>1. CASE pc = "idle"
  <2>1. l' = [l EXCEPT ![p] = Idle]
    BY <1>1 DEF Goto, At
  <2> QED BY <2>1, IdleOK, IdleFields, PlainStep
<1>2. CASE pc # "idle"
  <2> DEFINE s == At(t, pc)
  <2>1. l' = [l EXCEPT ![p] = s]
    BY DEF Goto
  <2>2. /\ Fields \subseteq DOMAIN s /\ s.pc = pc /\ s.cmd = t.cmd
        /\ s.back = t.back /\ s.job = t.job
    BY <1>2, AtFields
  <2> HIDE DEF s
  <2>3. LocalOK(s) /\ ~Exclusively(s) /\ ~Shared(s) /\ s.pc # "claim"
    BY <2>2 DEF LocalOK, Exclusively, Shared, FreePCs
  <2> QED BY <2>1, <2>2, <2>3, PlainStep
<1> QED BY <1>1, <1>2

-----------------------------------------------------------------------------
(* The jobs of the truth store.                                            *)

(* lock_shared: granted beside no exclusive holder, or refused.            *)
LEMMA LockSharedStep ==
  ASSUME PipeInv, NEW p \in Procs, LockShared(p), claims' = claims
  PROVE  PipeInv'
<1>1. PICK pc \in {"compute", "refuse"} :
          /\ l' = [l EXCEPT ![p] = At(start_job(l[p]), pc)]
          /\ pc = "compute" => exclusive = None /\ shared' = shared \cup {p}
          /\ pc = "refuse" => shared' = shared
  BY DEF LockShared, Goto
<1>2. LocalOK(l[p]) /\ l[p].pc = "validate" /\ exclusive' = exclusive
  BY DEF LockShared, PipeInv, LocalInv
<1> DEFINE s == At(start_job(l[p]), pc)
<1>3. /\ Fields \subseteq DOMAIN s /\ s.pc = pc /\ s.job = "started"
      /\ s.back = l[p].back /\ s.cmd = l[p].cmd
  BY <1>2, AtFields, StartFields DEF LocalOK
<1>4. l' = [l EXCEPT ![p] = s] /\ l'[p] = s
  BY <1>1 DEF PipeInv, LocalInv
<1> HIDE DEF s
<1>5. LocalOK(s)
  BY <1>2, <1>3 DEF LocalOK, WakePCs
<1>6. Locks(p)
  BY <1>1, <1>2, <1>3, <1>4 DEF Locks, PipeInv, LockInv, LocalOK, Exclusively, Shared
<1> QED BY <1>2, <1>3, <1>4, <1>5, <1>6, LocalStep

(* compute_validation keeps the lock it runs under.                        *)
LEMMA ComputeStep ==
  ASSUME PipeInv, NEW p \in Procs, compute_validation(p), claims' = claims
  PROVE  PipeInv'
<1> DEFINE t == [l[p] EXCEPT !.vr = InputSet(l[p].run)]
           s == At(t, "insert")
<1>1. LocalOK(l[p]) /\ l[p].pc = "compute" /\ l' = [l EXCEPT ![p] = s]
  BY DEF compute_validation, PipeInv, LocalInv, Goto
<1>2. /\ Fields \subseteq DOMAIN t /\ t.cmd = l[p].cmd /\ t.back = l[p].back
      /\ t.job = l[p].job
  BY <1>1 DEF LocalOK, Fields
<1> HIDE DEF t
<1>3. /\ Fields \subseteq DOMAIN s /\ s.pc = "insert" /\ s.cmd = l[p].cmd
      /\ s.back = l[p].back /\ s.job = l[p].job
  BY <1>2, AtFields
<1> HIDE DEF s
<1>4. LocalOK(s)
  BY <1>1, <1>3 DEF LocalOK, WakePCs
<1> QED
  BY <1>1, <1>3, <1>4, PlainStep DEF compute_validation, Exclusively, Shared

(* The end of a validate job, or of a child of a reconcile job.            *)
LEMMA InsertStep ==
  ASSUME PipeInv, NEW p \in Procs, NEW state, Insert(p, state), claims' = claims
  PROVE  PipeInv'
<1> DEFINE t == [l[p] EXCEPT !.res = state, !.vr = <<>>,
                             !.run = IF Child(p) THEN 0 ELSE @,
                             !.job = IF Child(p) THEN @ ELSE "none",
                             !.bad = @ \/ (Child(p) /\ state = "failed")]
           s == At(t, t.back)
<1>1. /\ LocalOK(l[p]) /\ l[p].pc = "insert" /\ l' = [l EXCEPT ![p] = s]
      /\ shared' = shared \ {p} /\ exclusive' = exclusive
  BY DEF Insert, PipeInv, LocalInv, Goto
<1>2. /\ Fields \subseteq DOMAIN t /\ t.cmd = l[p].cmd /\ t.back = l[p].back
      /\ t.job = IF l[p].back = "child" THEN l[p].job ELSE "none"
  BY <1>1 DEF LocalOK, Fields, Child
<1> HIDE DEF t
<1>3. /\ Fields \subseteq DOMAIN s /\ s.pc = l[p].back
      /\ s = Idle \/ (s.cmd = l[p].cmd /\ s.back = l[p].back /\ s.job = t.job)
  BY <1>2, AtFields
<1>4. l'[p] = s
  BY <1>1 DEF PipeInv, LocalInv
<1> HIDE DEF s
<1>5. LocalOK(s) /\ s.pc # "claim" /\ ~Shared(s)
  <2>1. CASE s = Idle
    BY <2>1, IdleOK, IdleFields
  <2>2. CASE s # Idle
    BY <1>1, <1>2, <1>3, <2>2 DEF LocalOK, Backs, WakePCs, Shared
  <2> QED BY <2>1, <2>2
<1>6. Exclusively(s) => exclusive = p
  <2>1. CASE s = Idle
    BY <2>1, IdleOK
  <2>2. CASE s # Idle
    BY <1>1, <1>2, <1>3, <2>2 DEF LocalOK, Backs, Exclusively, PipeInv, LockInv
  <2> QED BY <2>1, <2>2
<1>7. Locks(p)
  BY <1>1, <1>4, <1>5, <1>6 DEF Locks, PipeInv, LockInv
<1>8. s.cmd = "wake" => l[p].cmd = "wake" /\ l[p].pc # "claim"
  BY <1>1, <1>3, IdleFields
<1> QED BY <1>1, <1>5, <1>7, <1>8, LocalStep

(* A refused job returns, or ends its command in an error.                 *)
LEMMA RefuseStep ==
  ASSUME PipeInv, NEW p \in Procs, Refuse(p), claims' = claims
  PROVE  PipeInv'
<1>1. /\ LocalOK(l[p]) /\ l[p].pc = "refuse" /\ UNCHANGED <<claims, shared, exclusive>>
  BY DEF Refuse, PipeInv, LocalInv
<1>2. CASE l[p].job = "started"
  <2> DEFINE t == [l[p] EXCEPT !.job = "none", !.res = "refused"]
  <2>1. Goto(p, t, l[p].back)
    BY <1>2 DEF Refuse
  <2>2. /\ Fields \subseteq DOMAIN t /\ t.cmd = l[p].cmd /\ t.back = l[p].back
        /\ t.job = "none"
    BY <1>1 DEF LocalOK, Fields
  <2> HIDE DEF t
  <2>3. l[p].back \in FreePCs /\ l[p].back \in Backs \ {"child"}
    BY <1>1 DEF LocalOK, Backs, FreePCs
  <2>4. l[p].back \in WakePCs \/ t.back \in {"vevent", "revent"} => t.cmd = "wake"
    BY <1>1, <2>2, <2>3 DEF LocalOK, Backs, WakePCs
  <2> QED BY <1>1, <2>1, <2>2, <2>3, <2>4, FreeStep
<1>3. CASE l[p].job # "started"
  <2>1. Goto(p, Idle, Abort(l[p])) /\ Abort(l[p]) \in {"idle", "finish"}
    BY <1>3 DEF Refuse, Abort
  <2> QED BY <1>1, <2>1, AbortStep
<1> QED BY <1>2, <1>3

(* lock_exclusive: granted when nobody else holds the lock, or refused.    *)
LEMMA LockExclusiveStep ==
  ASSUME PipeInv, NEW p \in Procs, LockExclusive(p), claims' = claims
  PROVE  PipeInv'
<1>1. /\ LocalOK(l[p]) /\ l[p].pc \in {"reconcile", "cleanup"} /\ shared' = shared
  BY DEF LockExclusive, PipeInv, LocalInv
<1>2. CASE l[p].pc = "reconcile" /\ config = "none"
  <2> DEFINE t == [l[p] EXCEPT !.res = "refused"]
  <2>1. Goto(p, t, l[p].back) /\ exclusive' = exclusive
    BY <1>2 DEF LockExclusive
  <2>2. /\ Fields \subseteq DOMAIN t /\ t.cmd = l[p].cmd /\ t.back = l[p].back
        /\ t.job = l[p].job
    BY <1>1 DEF LocalOK, Fields
  <2> HIDE DEF t
  <2>3. /\ l[p].back \in FreePCs /\ l[p].back \in Backs \ {"child"}
        /\ l[p].job = "none"
    BY <1>1 DEF LocalOK, Backs, FreePCs
  <2>4. l[p].back \in WakePCs \/ t.back \in {"vevent", "revent"} => t.cmd = "wake"
    BY <1>1, <2>2, <2>3 DEF LocalOK, Backs, WakePCs
  <2> QED BY <1>1, <2>1, <2>2, <2>3, <2>4, FreeStep
<1>3. CASE ~(l[p].pc = "reconcile" /\ config = "none") /\ lock_exclusive(p)
  <2> DEFINE t == [start_job(l[p]) EXCEPT !.clean = TRUE]
  <2>1. PICK pc \in {"sweep", "mark"} :
           l' = [l EXCEPT ![p] = At(t, pc)] /\ exclusive' = p
    BY <1>3 DEF LockExclusive, Goto
  <2>2. /\ Fields \subseteq DOMAIN t /\ t.cmd = l[p].cmd /\ t.back = l[p].back
        /\ t.job = "started"
    BY <1>1, StartFields DEF LocalOK, Fields
  <2> HIDE DEF t
  <2> DEFINE s == At(t, pc)
  <2>3. /\ Fields \subseteq DOMAIN s /\ s.pc = pc /\ s.cmd = l[p].cmd
        /\ s.back = l[p].back /\ s.job = "started"
    BY <2>2, AtFields
  <2>4. l' = [l EXCEPT ![p] = s] /\ l'[p] = s
    BY <2>1 DEF PipeInv, LocalInv
  <2> HIDE DEF s
  <2>5. LocalOK(s) /\ ~Shared(s)
    BY <1>1, <2>3 DEF LocalOK, WakePCs, Shared
  <2>6. Locks(p)
    BY <1>1, <1>3, <2>1, <2>4, <2>5, TruthAssumption DEF Locks, lock_exclusive
  <2> QED BY <1>1, <2>3, <2>4, <2>5, <2>6, LocalStep
<1>4. CASE ~(l[p].pc = "reconcile" /\ config = "none") /\ ~lock_exclusive(p)
  <2> DEFINE s == At(start_job(l[p]), "refuse")
  <2>1. l' = [l EXCEPT ![p] = s] /\ exclusive' = exclusive
    BY <1>4 DEF LockExclusive, Goto
  <2>2. /\ Fields \subseteq DOMAIN s /\ s.pc = "refuse" /\ s.job = "started"
        /\ s.back = l[p].back /\ s.cmd = l[p].cmd
    BY <1>1, AtFields, StartFields DEF LocalOK
  <2> HIDE DEF s
  <2>3. LocalOK(s) /\ ~Exclusively(s) /\ ~Shared(s)
    BY <1>1, <2>2 DEF LocalOK, WakePCs, Exclusively, Shared
  <2> QED BY <1>1, <2>1, <2>2, <2>3, PlainStep
<1> QED BY <1>2, <1>3, <1>4

(* Ended goes back to where the job was called, without a job.             *)
LEMMA EndedFields ==
  ASSUME NEW s, LocalOK(s), s.back # "child", NEW state
  PROVE  /\ LocalOK(Ended(s, state)) /\ Ended(s, state).pc # "claim"
         /\ ~Exclusively(Ended(s, state)) /\ ~Shared(Ended(s, state))
         /\ Ended(s, state).cmd = "wake" => s.cmd = "wake"
<1> DEFINE t == [s EXCEPT !.job = "none", !.res = state, !.sel = {}, !.docs = <<>>,
                          !.blocked = {}, !.bad = FALSE, !.clean = TRUE]
           e == At(t, s.back)
<1>1. /\ Fields \subseteq DOMAIN t /\ t.cmd = s.cmd /\ t.back = s.back
      /\ t.job = "none"
  BY DEF LocalOK, Fields
<1>2. Ended(s, state) = e
  BY DEF Ended
<1> HIDE DEF t
<1>3. /\ Fields \subseteq DOMAIN e /\ e.pc = s.back
      /\ e = Idle \/ (e.cmd = s.cmd /\ e.back = s.back /\ e.job = "none")
  BY <1>1, AtFields
<1> HIDE DEF e
<1>4. CASE e = Idle
  BY <1>2, <1>4, IdleOK, IdleFields
<1>5. CASE e # Idle
  BY <1>2, <1>3, <1>5 DEF LocalOK, Exclusively, Shared, Backs, WakePCs
<1> QED BY <1>4, <1>5

(* mark_abandoned under the exclusive lock marks no job at work.           *)
LEMMA MarkStep ==
  ASSUME PipeInv, NEW p \in Procs, exclusive = p, NEW s, mark_abandoned(p, s),
         LocalOK(s), s.pc # "claim", s.cmd = "wake" => l[p].cmd = "wake" /\ l[p].pc # "claim",
         Locks(p), claims' = claims
  PROVE  PipeInv'
<1>1. /\ DOMAIN l' = Procs /\ l'[p] = s
      /\ \A q \in Procs \ {p} :
            l'[q] = [l[q] EXCEPT !.job = IF @ = "started" THEN "abandoned" ELSE @]
  BY DEF mark_abandoned
<1>2. ASSUME NEW q \in Procs \ {p}
      PROVE  Kept(q)
  <2>1. LocalOK(l[q]) /\ ~Exclusively(l[q]) /\ ~Shared(l[q])
    BY <1>2, TruthAssumption DEF PipeInv, LocalInv, LockInv
  <2>2. l[q].job # "none" => l[q].pc = "refuse"
    BY <2>1 DEF LocalOK, Exclusively, Shared
  <2>3. /\ Fields \subseteq DOMAIN l'[q]
        /\ l'[q].pc = l[q].pc /\ l'[q].cmd = l[q].cmd
        /\ l'[q].back = l[q].back /\ l'[q].raced = l[q].raced
        /\ l'[q].job = IF l[q].job = "started" THEN "abandoned" ELSE l[q].job
    BY <1>1, <2>1 DEF LocalOK, Fields
  <2>4. LocalOK(l'[q])
    BY <2>1, <2>2, <2>3 DEF LocalOK
  <2> QED BY <2>3, <2>4 DEF Kept
<1>3. Quiet(p)
  BY <1>1, <1>2 DEF Quiet
<1>4. Claims(p)
  BY DEF PipeInv, ClaimInv, Claims
<1> QED BY <1>3, <1>4, QuietStep

(* cleanup marks and releases.                                             *)
LEMMA CleanupStep ==
  ASSUME PipeInv, NEW p \in Procs, cleanup(p), claims' = claims
  PROVE  PipeInv'
<1> DEFINE s == Ended(l[p], "succeeded")
<1>1. /\ LocalOK(l[p]) /\ l[p].pc = "sweep" /\ mark_abandoned(p, s)
      /\ shared' = shared /\ exclusive' = None
  BY DEF cleanup, PipeInv, LocalInv
<1>2. exclusive = p /\ l[p].back # "child"
  BY <1>1 DEF PipeInv, LockInv, LocalOK, Exclusively
<1>3. /\ LocalOK(s) /\ s.pc # "claim" /\ ~Exclusively(s) /\ ~Shared(s)
      /\ s.cmd = "wake" => l[p].cmd = "wake"
  BY <1>1, <1>2, EndedFields
<1> HIDE DEF s
<1>4. l'[p] = s
  BY <1>1 DEF mark_abandoned
<1>5. Locks(p)
  BY <1>1, <1>2, <1>3, <1>4 DEF Locks
<1> QED BY <1>1, <1>2, <1>3, <1>5, MarkStep

(* The reconcile job marks, then goes on or refuses and releases.          *)
LEMMA SelectStep ==
  ASSUME PipeInv, NEW p \in Procs, Select(p), claims' = claims
  PROVE  PipeInv'
<1>1. /\ LocalOK(l[p]) /\ l[p].pc = "mark" /\ shared' = shared
  BY DEF Select, PipeInv, LocalInv
<1>2. exclusive = p /\ l[p].back # "child"
  BY <1>1 DEF PipeInv, LockInv, LocalOK, Exclusively
<1>3. \/ mark_abandoned(p, Ended(l[p], "refused")) /\ exclusive' = None
      \/ \E sel, todo :
            /\ mark_abandoned(p, [l[p] EXCEPT !.pc = "child", !.sel = sel, !.todo = todo])
            /\ exclusive' = p
  <2> DEFINE sel == select_runs(Range(runs))
             missing == sel \cap pending_runs
  <2>1. CASE missing # {} /\ l[p].noval
    BY <2>1 DEF Select
  <2>2. CASE ~(missing # {} /\ l[p].noval)
    <3>1. /\ mark_abandoned(p, [l[p] EXCEPT !.pc = "child", !.sel = sel,
                                            !.todo = missing])
          /\ exclusive' = p
      BY <2>2 DEF Select
    <3> QED BY <3>1
  <2> QED BY <2>1, <2>2
<1>4. CASE mark_abandoned(p, Ended(l[p], "refused")) /\ exclusive' = None
  <2> DEFINE s == Ended(l[p], "refused")
  <2>1. /\ LocalOK(s) /\ s.pc # "claim" /\ ~Exclusively(s) /\ ~Shared(s)
        /\ s.cmd = "wake" => l[p].cmd = "wake"
    BY <1>1, <1>2, EndedFields
  <2> HIDE DEF s
  <2>2. mark_abandoned(p, s) /\ l'[p] = s
    BY <1>4 DEF mark_abandoned, s
  <2>3. Locks(p)
    BY <1>1, <1>2, <1>4, <2>1, <2>2 DEF Locks
  <2> QED BY <1>1, <1>2, <2>1, <2>2, <2>3, MarkStep
<1>5. ASSUME NEW sel, NEW todo,
             mark_abandoned(p, [l[p] EXCEPT !.pc = "child", !.sel = sel, !.todo = todo]),
             exclusive' = p
      PROVE  PipeInv'
  <2> DEFINE s == [l[p] EXCEPT !.pc = "child", !.sel = sel, !.todo = todo]
  <2>1. /\ Fields \subseteq DOMAIN s /\ s.pc = "child" /\ s.cmd = l[p].cmd
        /\ s.back = l[p].back /\ s.job = l[p].job
    BY <1>1 DEF LocalOK, Fields
  <2>2. mark_abandoned(p, s)
    BY <1>5
  <2> HIDE DEF s
  <2>3. l'[p] = s
    BY <2>2 DEF mark_abandoned
  <2>4. LocalOK(s) /\ ~Shared(s)
    BY <1>1, <2>1 DEF LocalOK, WakePCs, Shared
  <2>5. Locks(p)
    BY <1>1, <1>2, <1>5, <2>3, <2>4 DEF Locks, PipeInv, LockInv
  <2> QED BY <1>1, <1>2, <2>1, <2>2, <2>4, <2>5, MarkStep
<1> QED BY <1>3, <1>4, <1>5

(* A step of a reconcile job that keeps its lock.                          *)
LEMMA JobStep ==
  ASSUME PipeInv, NEW p \in Procs, NEW t, NEW pc \in {"compute", "part"}, Goto(p, t, pc),
         l[p].pc \in {"child", "part"}, Fields \subseteq DOMAIN t,
         t.cmd = l[p].cmd, t.job = l[p].job, t.back \in Backs,
         t.back = "child" <=> pc = "compute",
         t.back \in {"vevent", "revent"} => t.cmd = "wake",
         UNCHANGED <<claims, shared, exclusive>>
  PROVE  PipeInv'
<1> DEFINE s == At(t, pc)
<1>1. LocalOK(l[p]) /\ l' = [l EXCEPT ![p] = s]
  BY DEF Goto, PipeInv, LocalInv
<1>2. /\ Fields \subseteq DOMAIN s /\ s.pc = pc /\ s.cmd = l[p].cmd
      /\ s.back = t.back /\ s.job = l[p].job
  BY AtFields
<1> HIDE DEF s
<1>3. LocalOK(s) /\ ~Shared(s) /\ Exclusively(l[p])
  BY <1>1, <1>2 DEF LocalOK, WakePCs, Shared, Exclusively
<1> QED BY <1>1, <1>2, <1>3, PlainStep

(* The transactions of a reconcile job between its mark and its end.       *)
LEMMA ReconcileStep ==
  ASSUME PipeInv, NEW p \in Procs, claims' = claims,
         Validate_missing(p) \/ Partition(p) \/ reconcile_partition(p)
  PROVE  PipeInv'
<1>1. LocalOK(l[p])
  BY DEF PipeInv, LocalInv
<1>2. CASE Validate_missing(p)
  <2> DEFINE f == Min(l[p].todo)
             t == [l[p] EXCEPT !.todo = @ \ {f}, !.run = f, !.back = "child"]
  <2>1. l[p].pc = "child" /\ Goto(p, t, "compute") /\ UNCHANGED <<claims, shared, exclusive>>
    BY <1>2 DEF Validate_missing
  <2>2. /\ Fields \subseteq DOMAIN t /\ t.cmd = l[p].cmd /\ t.back = "child"
        /\ t.job = l[p].job
    BY <1>1 DEF LocalOK, Fields
  <2> HIDE DEF t
  <2> QED BY <2>1, <2>2, JobStep DEF Backs
<1>3. CASE Partition(p)
  <2>1. /\ l[p].pc = "child" /\ UNCHANGED <<claims, shared, exclusive>>
        /\ \E docs, blocked, parts :
             Goto(p, [l[p] EXCEPT !.docs = docs, !.blocked = blocked, !.sel = {},
                             !.back = IF l[p].cmd = "wake" THEN "revent" ELSE "idle",
                             !.parts = parts], "part")
    BY <1>3 DEF Partition
  <2>2. PICK docs, blocked, parts :
             Goto(p, [l[p] EXCEPT !.docs = docs, !.blocked = blocked, !.sel = {},
                             !.back = IF l[p].cmd = "wake" THEN "revent" ELSE "idle",
                             !.parts = parts], "part")
    BY <2>1
  <2> DEFINE t == [l[p] EXCEPT !.docs = docs, !.blocked = blocked, !.sel = {},
                             !.back = IF l[p].cmd = "wake" THEN "revent" ELSE "idle",
                             !.parts = parts]
  <2>3. /\ Fields \subseteq DOMAIN t /\ t.cmd = l[p].cmd /\ t.job = l[p].job
        /\ t.back = IF l[p].cmd = "wake" THEN "revent" ELSE "idle"
    BY <1>1 DEF LocalOK, Fields
  <2>4. Goto(p, t, "part")
    BY <2>2
  <2> HIDE DEF t
  <2> QED BY <2>1, <2>3, <2>4, JobStep DEF Backs
<1>4. CASE reconcile_partition(p)
  <2>1. /\ l[p].pc = "part" /\ UNCHANGED <<claims, shared, exclusive>>
        /\ \E i, bad : Advance(p, i, bad)
    BY <1>4 DEF reconcile_partition
  <2>2. PICK i, bad : Advance(p, i, bad)
    BY <2>1
  <2> DEFINE t == [l[p] EXCEPT !.parts = @ \ {i}, !.bad = @ \/ bad]
  <2>3. Goto(p, t, "part")
    BY <2>2 DEF Advance
  <2>4. /\ Fields \subseteq DOMAIN t /\ t.cmd = l[p].cmd /\ t.job = l[p].job
        /\ t.back = l[p].back
    BY <1>1 DEF LocalOK, Fields
  <2> HIDE DEF t
  <2>5. /\ t.back \in Backs /\ t.back # "child"
        /\ t.back \in {"vevent", "revent"} => t.cmd = "wake"
    BY <1>1, <2>1, <2>4 DEF LocalOK
  <2> QED BY <2>1, <2>3, <2>4, <2>5, JobStep
<1> QED BY <1>2, <1>3, <1>4

(* The end of a reconcile job releases the lock.                           *)
LEMMA FinalEventStep ==
  ASSUME PipeInv, NEW p \in Procs, Final_event(p), claims' = claims
  PROVE  PipeInv'
<1> DEFINE s == Ended(l[p], IF l[p].bad THEN "failed" ELSE "succeeded")
<1>1. /\ LocalOK(l[p]) /\ l[p].pc = "part" /\ l' = [l EXCEPT ![p] = s]
      /\ shared' = shared /\ exclusive' = None
  BY DEF Final_event, PipeInv, LocalInv
<1>2. exclusive = p /\ l[p].back # "child"
  BY <1>1 DEF PipeInv, LockInv, LocalOK, Exclusively
<1>3. /\ LocalOK(s) /\ s.pc # "claim" /\ ~Exclusively(s) /\ ~Shared(s)
      /\ s.cmd = "wake" => l[p].cmd = "wake"
  BY <1>1, <1>2, EndedFields
<1> HIDE DEF s
<1>4. l'[p] = s
  BY <1>1 DEF PipeInv, LocalInv
<1>5. Locks(p)
  BY <1>1, <1>2, <1>3, <1>4 DEF Locks
<1> QED BY <1>1, <1>3, <1>5, LocalStep

(* Every step of the truth store.                                          *)
LEMMA StoreStepInv ==
  ASSUME PipeInv, NEW p \in Procs, StoreStep(p), claims' = claims
  PROVE  PipeInv'
<1>1. CASE insert_validation(p)
  <2>1. \E state : Insert(p, state)
    BY <1>1 DEF insert_validation
  <2> QED BY <2>1, InsertStep
<1> QED BY <1>1, LockSharedStep, ComputeStep, RefuseStep, LockExclusiveStep, CleanupStep,
           SelectStep, ReconcileStep, FinalEventStep DEF StoreStep

-----------------------------------------------------------------------------
(* HB-5's part of a wake-up: a wake-up without a job goes to another place *)
(* of the wake-up, or calls a job and says where it returns to.            *)
LEMMA WakeStep ==
  ASSUME PipeInv, NEW p \in Procs, l[p].pc \in WakePCs \ {"claim"},
         NEW t, NEW pc \in FreePCs, Goto(p, t, pc), Fields \subseteq DOMAIN t,
         t.cmd = "wake", t.job = "none", t.back \in Backs \ {"child"},
         UNCHANGED <<claims, shared, exclusive>>
  PROVE  PipeInv'
<1>1. l[p].cmd = "wake" /\ l[p].pc # "claim"
  BY DEF PipeInv, LocalInv, LocalOK
<1> QED BY <1>1, FreeStep

(* A process of a wake-up that keeps the fields the argument reads.        *)
Same(t, s) == /\ Fields \subseteq DOMAIN t
              /\ t.cmd = s.cmd /\ t.job = s.job /\ t.back = s.back

(* ... and such a step keeps the invariant.                                *)
LEMMA SameStep ==
  ASSUME PipeInv, NEW p \in Procs, l[p].pc \in WakePCs \ {"claim"},
         NEW t, NEW pc \in FreePCs, Goto(p, t, pc), Same(t, l[p]),
         UNCHANGED <<claims, shared, exclusive>>
  PROVE  PipeInv'
<1>1. /\ l[p].cmd = "wake" /\ l[p].job = "none" /\ l[p].back \in Backs \ {"child"}
  BY DEF PipeInv, LocalInv, LocalOK, WakePCs
<1> QED BY <1>1, WakeStep DEF Same

(* The end of HB-5's part.                                                 *)
LEMMA LeaveStep ==
  ASSUME PipeInv, NEW p \in Procs, l[p].pc \in WakePCs \ {"claim"}, Leave(p),
         UNCHANGED <<claims, shared, exclusive>>
  PROVE  PipeInv'
<1> DEFINE t == [Idle EXCEPT !.cmd = "wake", !.armed = l[p].armed]
<1>1. Goto(p, t, "slice")
  BY DEF Leave
<1>2. /\ Fields \subseteq DOMAIN t /\ t.cmd = "wake" /\ t.job = "none" /\ t.back = "idle"
  BY IdleFields DEF Fields
<1> HIDE DEF t
<1>3. "slice" \in FreePCs /\ "idle" \in Backs \ {"child"}
  BY DEF FreePCs, Backs
<1> QED BY <1>1, <1>2, <1>3, WakeStep

(* Every step of HB-5.                                                     *)
LEMMA F6StepInv ==
  ASSUME PipeInv, NEW p \in Procs, F6Step(p), claims' = claims
  PROVE  PipeInv'
<1>1. Fields \subseteq DOMAIN l[p]
  BY DEF PipeInv, LocalInv, LocalOK
<1>2. CASE validate_pending(p)
  <2>1. PICK todo :
           Goto(p, [l[p] EXCEPT !.todo = todo, !.left = ValidateBatch, !.res = "none"], "vnext")
    BY <1>2 DEF validate_pending
  <2>2. Same([l[p] EXCEPT !.todo = todo, !.left = ValidateBatch, !.res = "none"], l[p])
    BY <1>1 DEF Same, Fields
  <2>3. l[p].pc \in WakePCs \ {"claim"} /\ "vnext" \in FreePCs /\ UNCHANGED <<shared, exclusive>>
    BY <1>2 DEF validate_pending, WakePCs, FreePCs
  <2> QED BY <2>1, <2>2, <2>3, SameStep
<1>3. CASE Next_validation(p)
  <2> DEFINE f == Min(l[p].todo)
             t == [l[p] EXCEPT !.todo = {}, !.left = 0, !.res = "none"]
             u == [l[p] EXCEPT !.todo = @ \ {f}, !.left = @ - 1, !.run = f,
                               !.wait = FALSE, !.back = "vevent"]
  <2>1. Goto(p, t, "config") \/ Goto(p, u, "validate")
    BY <1>3 DEF Next_validation
  <2>2. /\ l[p].pc \in WakePCs \ {"claim"} /\ {"config", "validate"} \subseteq FreePCs
        /\ UNCHANGED <<shared, exclusive>>
    BY <1>3 DEF Next_validation, WakePCs, FreePCs
  <2>3. Same(t, l[p])
    BY <1>1 DEF Same, Fields
  <2>4. /\ Fields \subseteq DOMAIN u /\ u.cmd = l[p].cmd /\ u.job = l[p].job
        /\ u.back = "vevent"
    BY <1>1 DEF Fields
  <2>5. l[p].cmd = "wake" /\ l[p].job = "none" /\ "vevent" \in Backs \ {"child"}
    BY <2>2 DEF PipeInv, LocalInv, LocalOK, WakePCs, Backs
  <2> HIDE DEF t, u
  <2> QED BY <2>1, <2>2, <2>3, <2>4, <2>5, SameStep, WakeStep
<1>4. CASE Record_validation(p)
  <2> DEFINE t == [l[p] EXCEPT !.run = 0]
  <2>1. /\ Goto(p, t, "vnext") /\ UNCHANGED <<shared, exclusive>>
        /\ l[p].pc \in WakePCs \ {"claim"} /\ "vnext" \in FreePCs
    BY <1>4 DEF Record_validation, WakePCs, FreePCs
  <2>2. Same(t, l[p])
    BY <1>1 DEF Same, Fields
  <2> HIDE DEF t
  <2> QED BY <2>1, <2>2, SameStep
<1>5. CASE Register(p)
  <2> DEFINE t == [l[p] EXCEPT !.desig = config = "designated", !.ran = FALSE]
  <2>1. /\ Goto(p, t, "plan") /\ UNCHANGED <<shared, exclusive>>
        /\ l[p].pc \in WakePCs \ {"claim"} /\ "plan" \in FreePCs
    BY <1>5 DEF Register, WakePCs, FreePCs
  <2>2. Same(t, l[p])
    BY <1>1 DEF Same, Fields
  <2> HIDE DEF t
  <2> QED BY <2>1, <2>2, SameStep
<1>6. CASE Plan(p)
  <2>1. PICK steps : Goto(p, [l[p] EXCEPT !.steps = steps], "apply")
    BY <1>6 DEF Plan
  <2>2. Same([l[p] EXCEPT !.steps = steps], l[p])
    BY <1>1 DEF Same, Fields
  <2>3. l[p].pc \in WakePCs \ {"claim"} /\ "apply" \in FreePCs /\ UNCHANGED <<shared, exclusive>>
    BY <1>6 DEF Plan, WakePCs, FreePCs
  <2> QED BY <2>1, <2>2, <2>3, SameStep
<1>7. CASE promote_documents(p)
  <2> DEFINE t == [l[p] EXCEPT !.steps = Tail(@)]
  <2>1. \/ Goto(p, l[p], "ready") \/ Leave(p) \/ Goto(p, t, "apply")
        \/ Goto(p, Idle, Abort(l[p]))
    BY <1>7 DEF promote_documents
  <2>2. /\ l[p].pc \in WakePCs \ {"claim"} /\ {"ready", "apply"} \subseteq FreePCs
        /\ UNCHANGED <<shared, exclusive>>
    BY <1>7 DEF promote_documents, WakePCs, FreePCs
  <2>3. Same(t, l[p]) /\ Same(l[p], l[p])
    BY <1>1 DEF Same, Fields
  <2>4. Abort(l[p]) \in {"idle", "finish"}
    BY DEF Abort
  <2> HIDE DEF t
  <2> QED BY <2>1, <2>2, <2>3, <2>4, SameStep, LeaveStep, AbortStep
<1>8. CASE Reconcile_ready(p)
  <2>1. /\ l[p].pc \in WakePCs \ {"claim"} /\ "rnext" \in FreePCs
        /\ UNCHANGED <<shared, exclusive>>
    BY <1>8 DEF Reconcile_ready, WakePCs, FreePCs
  <2>2. CASE Leave(p)
    BY <2>1, <2>2, LeaveStep
  <2>3. CASE ~Leave(p)
    <3>1. PICK iss, ready :
             Goto(p, [l[p] EXCEPT !.iss = iss, !.left = ReconcileBatch, !.res = "none",
                                  !.ready = ready], "rnext")
      BY <1>8, <2>3 DEF Reconcile_ready
    <3>2. Same([l[p] EXCEPT !.iss = iss, !.left = ReconcileBatch, !.res = "none",
                            !.ready = ready], l[p])
      BY <1>1 DEF Same, Fields
    <3> QED BY <2>1, <3>1, <3>2, SameStep
  <2> QED BY <2>2, <2>3
<1>9. CASE Next_pass(p)
  <2>1. /\ l[p].pc \in WakePCs \ {"claim"} /\ {"plan", "reconcile"} \subseteq FreePCs
        /\ UNCHANGED <<shared, exclusive>>
    BY <1>9 DEF Next_pass, WakePCs, FreePCs
  <2> DEFINE t == [l[p] EXCEPT !.iss = {}, !.ready = {}, !.left = 0, !.res = "none"]
             u(subject) == [l[p] EXCEPT !.scope = subject, !.noval = TRUE, !.left = @ - 1,
                                        !.ran = TRUE, !.back = "revent"]
  <2>2. \/ Goto(p, t, "plan") \/ Leave(p) \/ \E subject : Goto(p, u(subject), "reconcile")
    BY <1>9 DEF Next_pass
  <2>3. Same(t, l[p])
    BY <1>1 DEF Same, Fields
  <2>4. \A subject : /\ Fields \subseteq DOMAIN u(subject) /\ u(subject).cmd = l[p].cmd
                     /\ u(subject).job = l[p].job /\ u(subject).back = "revent"
    BY <1>1 DEF Fields
  <2>5. l[p].cmd = "wake" /\ l[p].job = "none" /\ "revent" \in Backs \ {"child"}
    BY <2>1 DEF PipeInv, LocalInv, LocalOK, WakePCs, Backs
  <2> HIDE DEF t, u
  <2> QED BY <2>1, <2>2, <2>3, <2>4, <2>5, SameStep, WakeStep, LeaveStep
<1>10. CASE Record_pass(p)
  <2> DEFINE t == [l[p] EXCEPT !.scope = None, !.noval = FALSE]
  <2>1. /\ Goto(p, t, "rnext") /\ UNCHANGED <<shared, exclusive>>
        /\ l[p].pc \in WakePCs \ {"claim"} /\ "rnext" \in FreePCs
    BY <1>10 DEF Record_pass, WakePCs, FreePCs
  <2>2. Same(t, l[p])
    BY <1>1 DEF Same, Fields
  <2> HIDE DEF t
  <2> QED BY <2>1, <2>2, SameStep
<1> QED BY <1>2, <1>3, <1>4, <1>5, <1>6, <1>7, <1>8, <1>9, <1>10 DEF F6Step

-----------------------------------------------------------------------------
(* The frame of a wake-up, the operator's commands, crashes and evidence.  *)

(* The read of the claim: no claim is active, so none has been missed.     *)
LEMMA WakeReads ==
  ASSUME PipeInv, NEW p \in Procs, Wake(p)
  PROVE  PipeInv'
<1> DEFINE t == [Idle EXCEPT !.cmd = "wake"]
           s == At(t, "claim")
<1>1. /\ l' = [l EXCEPT ![p] = s] /\ \A q \in Procs : claims[q] # "active"
      /\ UNCHANGED <<claims, shared, exclusive>>
  BY DEF Wake, Goto, live_runners, dataVars
<1>2. /\ Fields \subseteq DOMAIN t /\ t.cmd = "wake" /\ t.back = "idle"
      /\ t.job = "none"
  BY IdleFields DEF Fields
<1> HIDE DEF t
<1>3. /\ Fields \subseteq DOMAIN s /\ s.pc = "claim" /\ s.cmd = "wake"
      /\ s.back = "idle" /\ s.job = "none"
  BY <1>2, AtFields
<1> HIDE DEF s
<1>4. LocalOK(s) /\ ~Exclusively(s) /\ ~Shared(s)
  BY <1>3 DEF LocalOK, Exclusively, Shared, Backs
<1>5. /\ DOMAIN l' = Procs /\ l'[p] = s /\ \A q \in Procs \ {p} : l'[q] = l[q]
  BY <1>1 DEF PipeInv, LocalInv
<1>6. LocalInv'
  BY <1>4, <1>5 DEF PipeInv, LocalInv
<1>7. LockInv'
  BY <1>1, <1>4, <1>5 DEF PipeInv, LockInv
<1>8. ClaimInv'
  BY <1>1, <1>3, <1>5 DEF PipeInv, ClaimInv, Working
<1> QED BY <1>6, <1>7, <1>8 DEF PipeInv

(* The insert of the claim: every other process that read before loses.    *)
LEMMA AcquireStep ==
  ASSUME PipeInv, NEW p \in Procs, acquire(p)
  PROVE  PipeInv'
<1>1. /\ LocalOK(l[p]) /\ l[p].pc = "claim" /\ l[p].cmd = "wake"
      /\ UNCHANGED <<shared, exclusive>>
  BY DEF acquire, dataVars, PipeInv, LocalInv, LocalOK, WakePCs
<1>2. CASE l[p].raced
  <2>1. Goto(p, Idle, "idle") /\ claims' = claims
    BY <1>2 DEF acquire
  <2> QED BY <1>1, <2>1, AbortStep
<1>3. CASE ~l[p].raced
  <2> DEFINE s == [l[p] EXCEPT !.pc = "gates"]
  <2>1. /\ claims' = [claims EXCEPT ![p] = "active"] /\ DOMAIN l' = Procs /\ l'[p] = s
        /\ \A q \in Procs \ {p} :
              l'[q] = [l[q] EXCEPT !.raced = @ \/ l[q].pc = "claim"]
    BY <1>3 DEF acquire
  <2>2. \A q \in Procs : claims[q] # "active"
    BY <1>1, <1>3 DEF PipeInv, ClaimInv
  <2>3. /\ Fields \subseteq DOMAIN s /\ s.pc = "gates" /\ s.cmd = "wake"
        /\ s.back = l[p].back /\ s.job = l[p].job
    BY <1>1 DEF LocalOK, Fields
  <2> HIDE DEF s
  <2>4. LocalOK(s) /\ ~Exclusively(s) /\ ~Shared(s)
    BY <1>1, <2>3 DEF LocalOK, Exclusively, Shared
  <2>5. ASSUME NEW q \in Procs \ {p}
        PROVE  /\ Fields \subseteq DOMAIN l'[q] /\ l'[q].pc = l[q].pc
               /\ l'[q].cmd = l[q].cmd /\ l'[q].back = l[q].back /\ l'[q].job = l[q].job
               /\ l[q].pc = "claim" => l'[q].raced
    BY <2>1 DEF PipeInv, LocalInv, LocalOK, Fields
  <2>6. \A q \in Procs \ {p} : LocalOK(l'[q])
    BY <2>5 DEF PipeInv, LocalInv, LocalOK
  <2>7. LocalInv'
    BY <2>1, <2>4, <2>6 DEF LocalInv
  <2>8. \A q \in Procs \ {p} : /\ Exclusively(l'[q]) => Exclusively(l[q])
                               /\ Shared(l'[q]) => Shared(l[q])
    BY <2>5 DEF Exclusively, Shared
  <2>9. LockInv'
    BY <1>1, <2>1, <2>4, <2>8 DEF PipeInv, LockInv
  <2>10. \A q \in Procs \ {p} : ~Working(q)'
    BY <2>2, <2>5 DEF PipeInv, ClaimInv, Working
  <2>11. /\ DOMAIN claims' = Procs /\ claims'[p] = "active"
         /\ \A q \in Procs \ {p} : claims'[q] # "active"
    BY <2>1, <2>2 DEF PipeInv, ClaimInv
  <2>12. ClaimInv'
    BY <2>1, <2>3, <2>5, <2>10, <2>11 DEF ClaimInv
  <2> QED BY <2>7, <2>9, <2>12 DEF PipeInv
<1> QED BY <1>2, <1>3

(* The expiry of dead wake-ups ends no active claim.                       *)
LEMMA GatesStep ==
  ASSUME PipeInv, NEW p \in Procs, Gates(p)
  PROVE  PipeInv'
<1> DEFINE t == [l[p] EXCEPT !.armed = arming.armed]
<1>1. /\ LocalOK(l[p]) /\ l[p].pc = "gates" /\ UNCHANGED <<shared, exclusive>>
  BY DEF Gates, dataVars, PipeInv, LocalInv
<1>2. Same(t, l[p]) /\ Same(l[p], l[p])
  BY <1>1 DEF LocalOK, Same, Fields
<1>3. PICK u, pc : /\ Same(u, l[p]) /\ pc \in {"f6", "finish"}
                   /\ l' = [l EXCEPT ![p] = At(u, pc)]
  BY <1>2 DEF Gates, Goto
<1> HIDE DEF t
<1> DEFINE s == At(u, pc)
<1>4. /\ Fields \subseteq DOMAIN s /\ s.pc = pc /\ s.cmd = l[p].cmd
      /\ s.back = l[p].back /\ s.job = l[p].job
  BY <1>3, AtFields DEF Same
<1>5. /\ DOMAIN l' = Procs /\ l'[p] = s /\ \A q \in Procs \ {p} : l'[q] = l[q]
  BY <1>3 DEF PipeInv, LocalInv
<1> HIDE DEF s
<1>6. LocalOK(s) /\ ~Exclusively(s) /\ ~Shared(s) /\ s.pc # "claim"
  BY <1>1, <1>3, <1>4 DEF LocalOK, WakePCs, Exclusively, Shared
<1>7. Quiet(p)
  BY <1>1, <1>4, <1>5, <1>6 DEF Quiet, Kept, PipeInv, LocalInv
<1>8. Locks(p)
  BY <1>1, <1>5, <1>6 DEF Locks, PipeInv, LockInv
<1>9. Claims(p)
  BY DEF Gates, Claims, PipeInv, ClaimInv
<1> QED BY <1>7, <1>8, <1>9, QuietStep

(* A change of the evidence changes nothing that the argument reads.       *)
LEMMA TouchKeeps ==
  ASSUME PipeInv, NEW q \in Procs, l'[q] = Touch(q)
  PROVE  Kept(q) /\ l'[q].job = l[q].job
<1>1. LocalOK(l[q])
  BY DEF PipeInv, LocalInv
<1>2. /\ Fields \subseteq DOMAIN l'[q]
      /\ l'[q].pc = l[q].pc /\ l'[q].cmd = l[q].cmd /\ l'[q].job = l[q].job
      /\ l'[q].back = l[q].back /\ l'[q].raced = l[q].raced
  BY <1>1 DEF LocalOK, Fields, Touch
<1> QED BY <1>1, <1>2 DEF LocalOK, Kept

(* The document slice: it may add evidence, and ends the wake-up.          *)
LEMMA SliceStep ==
  ASSUME PipeInv, NEW p \in Procs, Slice(p)
  PROVE  PipeInv'
<1> DEFINE s == At(l[p], "finish")
<1>1. /\ LocalOK(l[p]) /\ l[p].pc = "slice" /\ UNCHANGED <<shared, exclusive, claims>>
  BY DEF Slice, dataVars, PipeInv, LocalInv
<1>2. /\ Fields \subseteq DOMAIN s /\ s.pc = "finish" /\ s.cmd = l[p].cmd
      /\ s.back = l[p].back /\ s.job = l[p].job
  BY <1>1, AtFields DEF LocalOK
<1>3. \/ l' = [l EXCEPT ![p] = s]
      \/ l' = [q \in Procs |-> IF q = p THEN s ELSE Touch(q)]
  BY DEF Slice, Goto
<1> HIDE DEF s
<1>4. LocalOK(s) /\ ~Exclusively(s) /\ ~Shared(s) /\ s.pc # "claim"
  BY <1>1, <1>2 DEF LocalOK, WakePCs, Exclusively, Shared
<1>5. CASE l' = [l EXCEPT ![p] = s]
  BY <1>1, <1>2, <1>4, <1>5, PlainStep
<1>6. CASE l' = [q \in Procs |-> IF q = p THEN s ELSE Touch(q)]
  <2>1. /\ DOMAIN l' = Procs /\ l'[p] = s /\ \A q \in Procs \ {p} : l'[q] = Touch(q)
    BY <1>6
  <2>2. \A q \in Procs \ {p} : Kept(q)
    BY <2>1, TouchKeeps
  <2>3. Quiet(p)
    BY <1>1, <1>2, <1>4, <2>1, <2>2 DEF Quiet
  <2>4. Locks(p)
    BY <1>1, <1>4, <2>1 DEF Locks, PipeInv, LockInv
  <2>5. Claims(p)
    BY <1>1 DEF Claims, PipeInv, ClaimInv
  <2> QED BY <2>3, <2>4, <2>5, QuietStep
<1> QED BY <1>3, <1>5, <1>6

(* The end of a wake-up, and a death: the process is idle, its claim and   *)
(* its locks are gone or stay to nobody's harm.                            *)
LEMMA EndStep ==
  ASSUME PipeInv, NEW p \in Procs, finish_wakeup(p) \/ Crash(p)
  PROVE  PipeInv'
<1>1. l' = [l EXCEPT ![p] = Idle]
  BY DEF finish_wakeup, Crash, Goto, At
<1>2. /\ DOMAIN l' = Procs /\ l'[p] = Idle /\ \A q \in Procs \ {p} : l'[q] = l[q]
  BY <1>1 DEF PipeInv, LocalInv
<1>3. Quiet(p)
  BY <1>2, IdleOK, IdleFields DEF Quiet, Kept, PipeInv, LocalInv
<1>4. \/ UNCHANGED <<shared, exclusive>>
      \/ /\ shared' = shared \ {p}
         /\ exclusive' = IF exclusive = p THEN None ELSE exclusive
  BY DEF finish_wakeup, Crash, dataVars
<1>5. Locks(p)
  BY <1>2, <1>4, IdleOK DEF Locks, PipeInv, LockInv
<1>6. /\ DOMAIN claims' = Procs /\ claims'[p] # "active"
      /\ \A q \in Procs \ {p} : claims'[q] = claims[q]
  <2>1. CASE finish_wakeup(p)
    BY <2>1 DEF finish_wakeup, PipeInv, ClaimInv
  <2>2. CASE Crash(p)
    BY <2>2 DEF Crash, PipeInv, ClaimInv
  <2> QED BY <2>1, <2>2
<1>7. Claims(p)
  BY <1>2, <1>6, IdleFields DEF Claims, PipeInv, ClaimInv
<1> QED BY <1>3, <1>5, <1>7, QuietStep

(* An operator's command is no wake-up.                                    *)
LEMMA CommandStep ==
  ASSUME PipeInv, NEW p \in Procs, Command(p) \/ Command_next(p)
  PROVE  PipeInv'
<1>1. UNCHANGED <<shared, exclusive, claims>> /\ Fields \subseteq DOMAIN l[p]
  BY DEF Command, Command_next, dataVars, PipeInv, LocalInv, LocalOK
<1>2. CASE Command(p)
  <2>1. PICK t, pc : /\ Goto(p, t, pc) /\ pc \in {"cnext", "reconcile", "cleanup"}
                     /\ Fields \subseteq DOMAIN t /\ t.cmd # "wake" /\ t.job = "none"
                     /\ t.back \in {"cnext", "idle"}
    <3>1. ASSUME NEW wait \in BOOLEAN
          PROVE  LET t == [Idle EXCEPT !.cmd = "validate", !.todo = pending_runs,
                                       !.wait = wait, !.back = "cnext"]
                 IN  /\ Fields \subseteq DOMAIN t /\ t.cmd # "wake" /\ t.job = "none"
                     /\ t.back \in {"cnext", "idle"}
      BY IdleFields DEF Fields
    <3>2. ASSUME NEW scope, NEW noval
          PROVE  LET t == [Idle EXCEPT !.cmd = "reconcile", !.scope = scope, !.noval = noval]
                 IN  /\ Fields \subseteq DOMAIN t /\ t.cmd # "wake" /\ t.job = "none"
                     /\ t.back \in {"cnext", "idle"}
      BY IdleFields DEF Fields
    <3>3. LET t == [Idle EXCEPT !.cmd = "cleanup"]
          IN  /\ Fields \subseteq DOMAIN t /\ t.cmd # "wake" /\ t.job = "none"
              /\ t.back \in {"cnext", "idle"}
      BY IdleFields DEF Fields
    <3>4. \/ \E wait \in BOOLEAN :
               Goto(p, [Idle EXCEPT !.cmd = "validate", !.todo = pending_runs,
                                    !.wait = wait, !.back = "cnext"], "cnext")
          \/ \E scope, noval :
               Goto(p, [Idle EXCEPT !.cmd = "reconcile", !.scope = scope,
                                    !.noval = noval], "reconcile")
          \/ Goto(p, [Idle EXCEPT !.cmd = "cleanup"], "cleanup")
      BY <1>2 DEF Command
    <3> QED BY <3>1, <3>2, <3>3, <3>4
  <2>2. pc \in FreePCs \ WakePCs /\ t.back \in Backs \ {"child"}
    BY <2>1 DEF FreePCs, WakePCs, Backs
  <2> QED BY <1>1, <2>1, <2>2, FreeStep
<1>3. CASE Command_next(p)
  <2> DEFINE f == Min(l[p].todo)
             t == [l[p] EXCEPT !.todo = @ \ {f}, !.run = f, !.res = "none"]
  <2>1. Goto(p, Idle, "idle") \/ Goto(p, t, "validate")
    BY <1>3 DEF Command_next
  <2>2. Same(t, l[p])
    BY <1>1 DEF Same, Fields
  <2>3. /\ l[p].pc = "cnext" /\ l[p].job = "none" /\ l[p].back \in Backs \ {"child"}
        /\ l[p].back \in {"vevent", "revent"} => l[p].cmd = "wake"
    BY <1>3 DEF Command_next, PipeInv, LocalInv, LocalOK
  <2> HIDE DEF t
  <2>4. CASE Goto(p, Idle, "idle")
    BY <1>1, <2>4, AbortStep
  <2>5. CASE Goto(p, t, "validate")
    <3>1. "validate" \in FreePCs \ WakePCs
      BY DEF FreePCs, WakePCs
    <3> QED BY <1>1, <2>2, <2>3, <2>5, <3>1, FreeStep DEF Same
  <2> QED BY <2>1, <2>4, <2>5
<1> QED BY <1>2, <1>3

(* Steps that only touch the evidence, and steps of the operator and the   *)
(* owner that touch no process.                                            *)
LEMMA EvidenceStep ==
  ASSUME PipeInv, UNCHANGED <<shared, exclusive, claims>>,
         l' = l \/ Disturb
  PROVE  PipeInv'
<1>1. CASE l' = l
  <2>1. LocalInv'
    BY <1>1 DEF PipeInv, LocalInv
  <2>2. LockInv'
    BY <1>1 DEF PipeInv, LockInv
  <2>3. ClaimInv'
    BY <1>1 DEF PipeInv, ClaimInv, Working
  <2> QED BY <2>1, <2>2, <2>3 DEF PipeInv
<1>2. CASE Disturb
  <2>1. DOMAIN l' = Procs /\ \A q \in Procs : l'[q] = Touch(q)
    BY <1>2 DEF Disturb
  <2>2. \A q \in Procs : Kept(q)
    BY <2>1, TouchKeeps
  <2>3. LocalInv'
    BY <2>1, <2>2 DEF LocalInv, Kept
  <2>4. \A q \in Procs : /\ Exclusively(l'[q]) => Exclusively(l[q])
                         /\ Shared(l'[q]) => Shared(l[q])
    BY <2>2 DEF Kept, Exclusively, Shared
  <2>5. LockInv'
    BY <2>4 DEF PipeInv, LockInv
  <2>6. ClaimInv'
    BY <2>2 DEF PipeInv, ClaimInv, Working, Kept
  <2> QED BY <2>3, <2>5, <2>6 DEF PipeInv
<1> QED BY <1>1, <1>2

-----------------------------------------------------------------------------
(* The theorems.                                                           *)

(* Initially every process is idle.                                        *)
LEMMA InitInv ==
  ASSUME Init
  PROVE  PipeInv
<1>1. DOMAIN l = Procs /\ \A p \in Procs : l[p] = Idle
  BY DEF Init
<1>2. LocalInv
  BY <1>1, IdleOK DEF LocalInv
<1>3. LockInv
  BY <1>1, IdleOK DEF LockInv, Init
<1>4. ClaimInv
  BY <1>1, IdleFields DEF ClaimInv, Init, Working
<1> QED BY <1>2, <1>3, <1>4 DEF PipeInv

(* Every step keeps the invariant.                                         *)
LEMMA NextInv ==
  ASSUME PipeInv, [Next]_vars
  PROVE  PipeInv'
<1>1. ASSUME NEW p \in Procs, Step(p)
      PROVE  PipeInv'
  BY <1>1, StoreStepInv, F6StepInv, AcquireStep, GatesStep, SliceStep, EndStep, CommandStep
     DEF Step, RunnerStep
<1>2. ASSUME NEW p \in Procs, Wake(p) \/ Command(p) \/ Crash(p)
      PROVE  PipeInv'
  BY <1>2, WakeReads, CommandStep, EndStep
<1>3. ASSUME NEW f \in Filings, link_filing(f) \/ Upload_changed(f)
      PROVE  PipeInv'
  BY <1>3, EvidenceStep DEF link_filing, Upload_changed, dataVars
<1>4. CASE requeue \/ Owner \/ Disarm
  BY <1>4, EvidenceStep DEF requeue, Owner, Disarm, dataVars
<1>5. CASE UNCHANGED vars
  BY <1>5, EvidenceStep DEF vars, storeVars
<1> QED BY <1>1, <1>2, <1>3, <1>4, <1>5 DEF Next

(* The inductive invariant holds in every reachable state.                 *)
THEOREM PipeInvariance == Spec => []PipeInv
<1>1. Init => PipeInv
  BY InitInv
<1>2. PipeInv /\ [Next]_vars => PipeInv'
  BY NextInv
<1> QED BY <1>1, <1>2, PTL DEF Spec

(* The claim of backfill_ops/claim.py admits one working runner: for any   *)
(* number of processes, starts, deaths and expiries.                       *)
THEOREM SingleRunner == Spec => []OneRunner
<1>1. PipeInv => OneRunner
  BY DEF PipeInv, ClaimInv, OneRunner
<1> QED BY <1>1, PipeInvariance, PTL

(* mark_abandoned of financial_truth_store/jobs.py never marks a job that  *)
(* is at work.                                                             *)
THEOREM AbandonedJobsDead == Spec => []AbandonedIsDead
<1>1. PipeInv => AbandonedIsDead
  BY DEF PipeInv, LocalInv, LocalOK, AbandonedIsDead
<1> QED BY <1>1, PipeInvariance, PTL

-----------------------------------------------------------------------------
(* What a reconcile job knows of the evidence                              *)

(* Every step keeps the fields of a process's state; a pass is for one     *)
(* issuer or for all of them.                                              *)
ScopeOK(s) ==
  /\ DOMAIN s = DOMAIN Idle
  /\ s.scope \in Issuers \cup {None}
  /\ s.iss \subseteq Issuers
  /\ s.ready \subseteq Issuers \cup {None}

EvidenceOK ==
  /\ runs \in Seq(Filings)
  /\ links \in [Filings -> Seq(Issuers \cup {0}) \ {<<>>}]
  /\ uploaded \in [Filings -> Nat]
  /\ DOMAIN batches = Issuers
  /\ DOMAIN records = Issuers \X Concepts

(* The records that the latest batch of an issuer reports are the ones it  *)
(* wrote: records change only together with the batch.                     *)
BatchOK == \A i \in Issuers : batches[i] # None =>
             /\ batches[i].results \subseteq Concepts
             /\ Reported(i) = batches[i].fp.sos

(* The partitions of the evidence as committed now, and the issuers whose  *)
(* reported facts are the ones it implies.                                 *)
Selected == select_runs(Range(runs))
Validated == {f \in Selected : canonical_validation_run(f) # {}}
Docs == [i \in Issuers |->
           {document[f] : f \in {g \in Validated : i \in run_issuer(InputSet(g))}}]
Blocked == {current_issuer(f) : f \in Selected \ Validated} \ {0}
UpToDate == {i \in Issuers : Reported(i) = Expected(i)}

Scope(s) == IF s.scope = None THEN Issuers ELSE {s.scope}

(* What the job has read is what it would read now; unless it has met a    *)
(* bad partition, every issuer of its scope it is done with is up to date. *)
Reads(s, selected, docs, blocked, done) ==
  /\ s.pc \in {"child", "compute", "insert"} => s.sel = selected
  /\ s.pc = "part" => /\ s.docs = docs /\ s.blocked = blocked
                      /\ ~s.bad => Scope(s) \ s.parts \subseteq done

(* A job that holds the exclusive lock has read the current evidence, or   *)
(* it has noticed the change (clean), and nothing has passed since.        *)
JobOK(s) ==
  /\ s.clean \/ passed = {}
  /\ s.pc \in {"child", "compute", "insert"} => s.sel \subseteq Filings
  /\ s.pc = "part" => s.parts \subseteq Issuers
  /\ s.clean => Reads(s, Selected, Docs, Blocked, UpToDate)

CurInv ==
  /\ EvidenceOK
  /\ BatchOK
  /\ passed \subseteq UpToDate
  /\ \A p \in Procs : ScopeOK(l[p])
  /\ \A p \in Procs : Exclusively(l[p]) => JobOK(l[p])

-----------------------------------------------------------------------------
(* Selection and partitions                                                *)

(* A filing with a run has an issuer decision, and its input set names it. *)
LEMMA IssuerOfInput ==
  ASSUME EvidenceOK, NEW f \in Filings
  PROVE  /\ issuer_of(InputSet(f)) = current_issuer(f)
         /\ current_issuer(f) \in Issuers \cup {0}
         /\ InputSet(f) \in Filings \X Nat \X Nat
<1>1. links[f] \in Seq(Issuers \cup {0}) /\ links[f] # <<>>
  BY DEF EvidenceOK
<1>2. Len(links[f]) \in Nat /\ Len(links[f]) \in 1..Len(links[f])
  BY <1>1
<1>3. current_issuer(f) = links[f][Len(links[f])]
  BY DEF current_issuer, Last
<1>4. issuer_of(InputSet(f)) = links[f][Len(links[f])]
  BY DEF issuer_of, InputSet
<1>5. uploaded[f] \in Nat
  BY DEF EvidenceOK
<1> QED BY <1>1, <1>2, <1>3, <1>4, <1>5 DEF InputSet

(* The observations of a filing's input set.                               *)
LEMMA StoredAre ==
  ASSUME EvidenceOK, NEW f \in Filings, NEW o \in stored_observations(InputSet(f))
  PROVE  /\ o = <<o[1], o[2]>> /\ o[1] = InputSet(f) /\ o[2] \in Reports[f]
         /\ o \in Observations /\ o[2] \in Concepts
         /\ issuer_of(o[1]) = current_issuer(f)
         /\ current_issuer(f) \in Issuers
         /\ current_issuer(f) \in run_issuer(InputSet(f))
<1>1. issuer_of(InputSet(f)) # 0
  BY DEF stored_observations
<1>2. InputSet(f)[1] = f
  BY DEF InputSet
<1>3. PICK c \in Reports[f] : o = <<InputSet(f), c>>
  BY <1>1, <1>2 DEF stored_observations
<1>4. c \in Concepts
  BY <1>3 DEF Concepts
<1>5. o[1] = InputSet(f) /\ o[2] = c
  BY <1>3
<1>6. o \in Observations
  BY <1>3, <1>4, IssuerOfInput DEF Observations
<1>7. issuer_of(InputSet(f)) \in run_issuer(InputSet(f))
  BY DEF run_issuer
<1> QED BY <1>1, <1>3, <1>4, <1>5, <1>6, <1>7, IssuerOfInput

(* The runs in order are runs of filings.                                  *)
LEMMA RunsOfFilings ==
  ASSUME EvidenceOK
  PROVE  Range(runs) \subseteq Filings /\ Selected \subseteq Range(runs)
<1>1. runs \in Seq(Filings)
  BY DEF EvidenceOK
<1>2. Range(runs) \subseteq Filings
  BY <1>1 DEF Range
<1> QED BY <1>2 DEF Selected, select_runs

(* Selection looks at the runs of one document at a time.                  *)
LEMMA SelectOfDocuments ==
  ASSUME NEW docs
  PROVE  select_runs({f \in Range(runs) : document[f] \in docs})
           = {f \in Selected : document[f] \in docs}
BY DEF select_runs, Selected

(* An issuer that is no partition has nothing to report and reports        *)
(* nothing.                                                                *)
LEMMA NoPartition ==
  ASSUME EvidenceOK, NEW i \in Issuers, Docs[i] = {}, i \notin Blocked,
         i \notin issuers_with_facts
  PROVE  i \in UpToDate
<1>1. Reported(i) = {}
  BY DEF Reported, issuers_with_facts
<1>2. Expected(i) = {}
  <2> SUFFICES ASSUME NEW f \in Selected, NEW o \in stored_observations(InputSet(f)),
                      issuer_of(o[1]) = i
               PROVE  FALSE
    BY DEF Expected, Selected
  <2>1. f \in Filings
    BY RunsOfFilings
  <2>2. current_issuer(f) = i /\ i \in run_issuer(InputSet(f))
    BY <2>1, StoredAre
  <2>3. CASE f \in Validated
    <3>1. document[f] \in Docs[i]
      BY <2>2, <2>3 DEF Docs
    <3> QED BY <3>1
  <2>4. CASE f \notin Validated
    <3>1. i # 0
      BY TruthAssumption
    <3> QED BY <2>2, <2>4, <3>1 DEF Blocked
  <2> QED BY <2>3, <2>4
<1> QED BY <1>1, <1>2 DEF UpToDate

(* A partition whose inputs have not changed and that no missing           *)
(* validation blocks plans exactly what the issuer should report.          *)
LEMMA PlanIsExpected ==
  ASSUME EvidenceOK, NEW i \in Issuers, i \notin Blocked,
         plan_partition(i, Docs[i]).state # "inputs_changed"
  PROVE  plan_partition(i, Docs[i]).fp.sos = Expected(i)
<1> DEFINE sel == select_runs({f \in Range(runs) : document[f] \in Docs[i]})
           sos == UNION {stored_observations(InputSet(f)) : f \in sel}
<1>1. plan_partition(i, Docs[i]).fp.sos = sos
  BY DEF plan_partition
<1>2. \A o \in sos : issuer_of(o[1]) = i
  BY DEF plan_partition
<1>3. sel = {f \in Selected : document[f] \in Docs[i]}
  BY SelectOfDocuments
<1>4. sos \subseteq Expected(i)
  <2> SUFFICES ASSUME NEW o \in sos
               PROVE  o \in Expected(i)
    OBVIOUS
  <2>1. PICK f \in sel : o \in stored_observations(InputSet(f))
    OBVIOUS
  <2>2. f \in select_runs(Range(runs))
    BY <1>3 DEF Selected
  <2>3. issuer_of(o[1]) = i
    BY <1>2
  <2> QED BY <2>1, <2>2, <2>3 DEF Expected
<1>5. ASSUME NEW f \in Selected, NEW o \in stored_observations(InputSet(f)),
             issuer_of(o[1]) = i
      PROVE  o \in sos
  <2>1. f \in Filings
    BY RunsOfFilings
  <2>2. current_issuer(f) = i /\ i \in run_issuer(InputSet(f))
    BY <1>5, <2>1, StoredAre
  <2>3. f \in Validated
    <3>1. i # 0
      BY TruthAssumption
    <3> QED BY <2>2, <3>1 DEF Blocked
  <2>4. document[f] \in Docs[i]
    BY <2>2, <2>3 DEF Docs
  <2> QED BY <1>3, <2>4
<1>6. Expected(i) \subseteq sos
  BY <1>5 DEF Expected, Selected
<1> QED BY <1>1, <1>4, <1>6

(* A plan can be told from no batch, and its observations are pairs.       *)
LEMMA PlanType ==
  ASSUME EvidenceOK, NEW i, NEW docs
  PROVE  LET fp == plan_partition(i, docs).fp IN
         /\ fp = [sel |-> fp.sel, sos |-> fp.sos]
         /\ fp.sel \subseteq Filings /\ fp.sos \subseteq Observations
         /\ \A o \in fp.sos : o = <<o[1], o[2]>> /\ o[2] \in Concepts
<1> DEFINE sel == select_runs({f \in Range(runs) : document[f] \in docs})
           sos == UNION {stored_observations(InputSet(f)) : f \in sel}
<1>1. plan_partition(i, docs).fp = [sel |-> sel, sos |-> sos]
  BY DEF plan_partition
<1>2. sel \subseteq Filings
  BY RunsOfFilings DEF select_runs
<1>3. \A o \in sos : o \in Observations /\ o = <<o[1], o[2]>> /\ o[2] \in Concepts
  BY <1>2, StoredAre
<1> HIDE DEF sel, sos
<1> QED BY <1>1, <1>2, <1>3

-----------------------------------------------------------------------------
(* Steps that change no evidence and no record                             *)

Settled == UNCHANGED <<runs, document, links, uploaded>>
Unmoved == Settled /\ UNCHANGED <<batches, records, passed>>

(* What the arguments read of a process's state.                           *)
SameJob(t, s) ==
  /\ DOMAIN t = DOMAIN s /\ t.pc = s.pc /\ t.back = s.back
  /\ t.scope = s.scope /\ t.iss = s.iss /\ t.ready = s.ready
  /\ t.clean = s.clean /\ t.sel = s.sel /\ t.parts = s.parts
  /\ t.docs = s.docs /\ t.blocked = s.blocked /\ t.bad = s.bad

(* A process with the same values is in the same position.                 *)
LEMMA SameJobKeeps ==
  ASSUME NEW t, NEW s, SameJob(t, s)
  PROVE  /\ ScopeOK(s) => ScopeOK(t)
         /\ Exclusively(t) <=> Exclusively(s)
         /\ JobOK(s) => JobOK(t)
BY DEF SameJob, ScopeOK, Exclusively, JobOK, Reads, Scope

(* The data decides what is selected, blocked and up to date.              *)
LEMMA ViewKept ==
  ASSUME Settled
  PROVE  /\ Selected' = Selected
         /\ \A i \in Issuers : Expected(i)' = Expected(i)
         /\ vruns' = vruns => Docs' = Docs /\ Blocked' = Blocked
<1> USE DEF Settled
<1>1. Selected' = Selected
  BY DEF Selected, select_runs
<1>2. \A i \in Issuers : Expected(i)' = Expected(i)
  BY DEF Expected, select_runs, stored_observations, issuer_of, InputSet
<1>3. ASSUME vruns' = vruns
      PROVE  Docs' = Docs /\ Blocked' = Blocked
  <2>1. Validated' = Validated
    BY <1>1, <1>3 DEF Validated, canonical_validation_run, InputSet
  <2>2. Docs' = Docs
    BY <2>1 DEF Docs, run_issuer, stored_observations, issuer_of, InputSet
  <2>3. Blocked' = Blocked
    BY <1>1, <2>1 DEF Blocked, current_issuer
  <2> QED BY <2>2, <2>3
<1> QED BY <1>1, <1>2, <1>3

(* ... and with the records what is up to date.                            *)
LEMMA StoreKept ==
  ASSUME Unmoved
  PROVE  /\ UpToDate' = UpToDate
         /\ EvidenceOK => EvidenceOK'
         /\ BatchOK => BatchOK'
<1> USE DEF Unmoved
<1>1. \A i \in Issuers : Reported(i)' = Reported(i)
  BY DEF Reported
<1>2. UpToDate' = UpToDate
  BY <1>1, ViewKept DEF UpToDate
<1>3. EvidenceOK => EvidenceOK'
  BY DEF EvidenceOK, Settled
<1>4. BatchOK => BatchOK'
  BY <1>1 DEF BatchOK
<1> QED BY <1>2, <1>3, <1>4

(* Such a step keeps the invariant if the process that takes it does; new  *)
(* validation runs come only while no partition is being written.          *)
LEMMA MoveStep ==
  ASSUME CurInv, Unmoved,
         vruns' = vruns \/ \A q \in Procs : l'[q].pc # "part",
         NEW p \in Procs, \A q \in Procs \ {p} : SameJob(l'[q], l[q]),
         NEW s, l'[p] = s, ScopeOK(s), Exclusively(s) => JobOK(s)
  PROVE  CurInv'
<1>1. EvidenceOK' /\ BatchOK' /\ Selected' = Selected /\ UpToDate' = UpToDate
      /\ (vruns' = vruns => Docs' = Docs /\ Blocked' = Blocked)
      /\ passed' = passed
  BY ViewKept, StoreKept DEF CurInv, Unmoved
<1>2. ASSUME NEW q \in Procs
      PROVE  ScopeOK(l'[q]) /\ (Exclusively(l'[q]) => JobOK(l'[q]))
  <2>1. CASE q = p
    BY <2>1
  <2>2. CASE q # p
    <3>1. SameJob(l'[q], l[q])
      BY <2>2
    <3>2. ScopeOK(l[q]) /\ (Exclusively(l[q]) => JobOK(l[q]))
      BY DEF CurInv
    <3> QED BY <3>1, <3>2, SameJobKeeps
  <2> QED BY <2>1, <2>2
<1>3. ASSUME NEW q \in Procs, Exclusively(l'[q])
      PROVE  JobOK(l[q])'
  <2> DEFINE u == l'[q]
  <2>1. JobOK(u)
    BY <1>2, <1>3
  <2>2. vruns' = vruns \/ u.pc # "part"
    OBVIOUS
  <2> HIDE DEF u
  <2>3. /\ u.clean \/ passed' = {}
        /\ u.pc \in {"child", "compute", "insert"} => u.sel \subseteq Filings
        /\ u.pc = "part" => u.parts \subseteq Issuers
    BY <1>1, <2>1 DEF JobOK
  <2>4. u.clean => Reads(u, Selected', Docs', Blocked', UpToDate')
    BY <1>1, <2>1, <2>2 DEF JobOK, Reads
  <2> USE DEF u
  <2> QED BY <2>3, <2>4 DEF JobOK
<1>4. passed' \subseteq UpToDate'
  BY <1>1 DEF CurInv
<1>5. \A q \in Procs : ScopeOK(l[q])'
  BY <1>2 DEF ScopeOK
<1> QED BY <1>1, <1>3, <1>4, <1>5 DEF CurInv, Exclusively

(* ... of one process alone.                                               *)
LEMMA AloneStep ==
  ASSUME CurInv, PipeInv, Unmoved,
         vruns' = vruns \/ \A q \in Procs : l'[q].pc # "part",
         NEW p \in Procs, NEW s, l' = [l EXCEPT ![p] = s],
         ScopeOK(s), Exclusively(s) => JobOK(s)
  PROVE  CurInv'
<1>1. l'[p] = s /\ \A q \in Procs \ {p} : l'[q] = l[q]
  BY DEF PipeInv, LocalInv
<1>2. \A q \in Procs \ {p} : SameJob(l'[q], l[q])
  BY <1>1 DEF SameJob
<1> QED BY <1>1, <1>2, MoveStep

(* The fields of a process's state are Idle's.                             *)
AllFields == {"pc", "cmd", "back", "job", "run", "vr", "res", "wait", "scope",
              "noval", "todo", "sel", "parts", "docs", "blocked", "bad",
              "clean", "left", "ran", "desig", "steps", "iss", "ready",
              "raced", "armed"}

(* Idle has them all.                                                      *)
LEMMA IdleScope ==
  /\ DOMAIN Idle = AllFields
  /\ ScopeOK(Idle)
BY DEF Idle, AllFields, ScopeOK

(* A step that keeps the fields of the pass.                               *)
LEMMA ScopeKept ==
  ASSUME NEW s, ScopeOK(s), NEW t, DOMAIN t = DOMAIN s, t.scope = s.scope,
         t.iss = s.iss, t.ready = s.ready
  PROVE  ScopeOK(t)
BY DEF ScopeOK

(* At changes the place alone, or forgets everything.                      *)
LEMMA AtScope ==
  ASSUME NEW s, ScopeOK(s), NEW pc
  PROVE  /\ ScopeOK(At(s, pc)) /\ At(s, pc).pc = pc
         /\ pc # "idle" =>
              /\ At(s, pc).back = s.back /\ At(s, pc).clean = s.clean
              /\ At(s, pc).sel = s.sel /\ At(s, pc).parts = s.parts
              /\ At(s, pc).docs = s.docs /\ At(s, pc).blocked = s.blocked
              /\ At(s, pc).bad = s.bad /\ At(s, pc).scope = s.scope
<1>1. CASE pc = "idle"
  <2>1. At(s, pc) = Idle
    BY <1>1 DEF At
  <2> QED BY <1>1, <2>1, IdleScope, IdleFields
<1>2. CASE pc # "idle"
  <2> DEFINE t == [s EXCEPT !.pc = pc]
  <2>1. At(s, pc) = t
    BY <1>2 DEF At
  <2>2. DOMAIN s = AllFields
    BY IdleScope DEF ScopeOK
  <2>3. /\ DOMAIN t = DOMAIN s /\ t.pc = pc
        /\ t.scope = s.scope /\ t.iss = s.iss /\ t.ready = s.ready
        /\ t.back = s.back /\ t.clean = s.clean /\ t.sel = s.sel
        /\ t.parts = s.parts /\ t.docs = s.docs /\ t.blocked = s.blocked
        /\ t.bad = s.bad
    BY <2>2 DEF AllFields
  <2> HIDE DEF t
  <2> QED BY <2>1, <2>3, ScopeKept
<1> QED BY <1>1, <1>2

(* The places where a process holds no exclusive lock.                     *)
OutPCs == FreePCs \cup {"refuse", "claim"}

(* A process that goes to such a place.                                    *)
LEMMA OutStep ==
  ASSUME CurInv, PipeInv, Unmoved, vruns' = vruns,
         NEW p \in Procs, NEW t, NEW pc \in OutPCs, Goto(p, t, pc), ScopeOK(t)
  PROVE  CurInv'
<1> DEFINE s == At(t, pc)
<1>1. l' = [l EXCEPT ![p] = s]
  BY DEF Goto
<1>2. ScopeOK(s) /\ s.pc = pc
  BY AtScope
<1> HIDE DEF s
<1>3. ~Exclusively(s)
  BY <1>2 DEF Exclusively, OutPCs, FreePCs
<1> QED BY <1>1, <1>2, <1>3, AloneStep

(* A step of a job between two validations of its own.                     *)
LEMMA ChildKeeps ==
  ASSUME NEW s, JobOK(s), s.pc \in {"child", "compute", "insert"},
         NEW t, t.pc \in {"child", "compute", "insert"}, t.clean = s.clean,
         t.sel = s.sel
  PROVE  JobOK(t)
BY DEF JobOK, Reads

-----------------------------------------------------------------------------
(* The jobs of the truth store and the current evidence                    *)

(* What CurInv says of one process.                                        *)
LEMMA OneProcess ==
  ASSUME CurInv, PipeInv, NEW p \in Procs
  PROVE  /\ LocalOK(l[p]) /\ ScopeOK(l[p])
         /\ Exclusively(l[p]) => JobOK(l[p]) /\ exclusive = p
BY DEF CurInv, PipeInv, LocalInv, LockInv

(* A partition is written by the only holder of the lock, and nobody       *)
(* shares it.                                                              *)
LEMMA PartAlone ==
  ASSUME PipeInv, NEW p \in Procs, Exclusively(l[p]) \/ Shared(l[p]),
         NEW q \in Procs \ {p}
  PROVE  ~Exclusively(l[q])
BY TruthAssumption DEF PipeInv, LockInv

(* start_job changes the job alone.                                        *)
LEMMA StartScope ==
  ASSUME NEW s, ScopeOK(s)
  PROVE  /\ ScopeOK(start_job(s)) /\ start_job(s).back = s.back
         /\ start_job(s).clean = s.clean
<1> DEFINE t == [s EXCEPT !.job = "started"]
<1>1. DOMAIN s = AllFields
  BY IdleScope DEF ScopeOK
<1>2. /\ DOMAIN t = DOMAIN s /\ t.scope = s.scope /\ t.iss = s.iss
      /\ t.ready = s.ready /\ t.back = s.back /\ t.clean = s.clean
  BY <1>1 DEF AllFields
<1>3. start_job(s) = t
  BY DEF start_job
<1> HIDE DEF t
<1> QED BY <1>2, <1>3, ScopeKept

(* lock_shared: a validate job never holds the exclusive lock.             *)
LEMMA LockSharedCur ==
  ASSUME CurInv, PipeInv, NEW p \in Procs, LockShared(p)
  PROVE  CurInv'
<1>1. PICK pc \in {"compute", "refuse"} : l' = [l EXCEPT ![p] = At(start_job(l[p]), pc)]
  BY DEF LockShared, Goto
<1>2. l[p].pc = "validate" /\ Unmoved /\ vruns' = vruns
  BY DEF LockShared, Unmoved, Settled
<1>3. l[p].back # "child" /\ ScopeOK(l[p])
  BY <1>2, OneProcess DEF LocalOK
<1> DEFINE s == At(start_job(l[p]), pc)
<1>4. ScopeOK(s) /\ s.pc = pc /\ s.back = l[p].back
  BY <1>3, AtScope, StartScope
<1>5. l' = [l EXCEPT ![p] = s]
  BY <1>1
<1> HIDE DEF s
<1>6. ~Exclusively(s)
  BY <1>3, <1>4 DEF Exclusively
<1> QED BY <1>2, <1>4, <1>5, <1>6, AloneStep

(* compute_validation touches nothing the job has read.                    *)
LEMMA ComputeCur ==
  ASSUME CurInv, PipeInv, NEW p \in Procs, compute_validation(p)
  PROVE  CurInv'
<1> DEFINE t == [l[p] EXCEPT !.vr = InputSet(l[p].run)]
           s == At(t, "insert")
<1>1. l[p].pc = "compute" /\ l' = [l EXCEPT ![p] = s] /\ Unmoved /\ vruns' = vruns
  BY DEF compute_validation, Goto, Unmoved, Settled
<1>2. ScopeOK(l[p]) /\ (Exclusively(l[p]) => JobOK(l[p]))
  BY OneProcess
<1>3. DOMAIN l[p] = AllFields
  BY <1>2, IdleScope DEF ScopeOK
<1>4. /\ DOMAIN t = DOMAIN l[p] /\ t.scope = l[p].scope /\ t.iss = l[p].iss
      /\ t.ready = l[p].ready /\ t.back = l[p].back /\ t.clean = l[p].clean
      /\ t.sel = l[p].sel
  BY <1>3 DEF AllFields
<1> HIDE DEF t
<1>5. ScopeOK(t)
  BY <1>2, <1>4, ScopeKept
<1>6. /\ ScopeOK(s) /\ s.pc = "insert" /\ s.back = l[p].back
      /\ s.clean = l[p].clean /\ s.sel = l[p].sel
  BY <1>4, <1>5, AtScope
<1> HIDE DEF s
<1>7. ASSUME Exclusively(s)
      PROVE  JobOK(s)
  <2>1. Exclusively(l[p])
    BY <1>1, <1>6, <1>7 DEF Exclusively
  <2> QED BY <1>1, <1>2, <1>6, <2>1, ChildKeeps
<1> QED BY <1>1, <1>6, <1>7, AloneStep

(* A validation commits its run under the lock: nobody is then writing     *)
(* partitions.                                                             *)
LEMMA InsertCur ==
  ASSUME CurInv, PipeInv, NEW p \in Procs, NEW state, Insert(p, state)
  PROVE  CurInv'
<1> DEFINE t == [l[p] EXCEPT !.res = state, !.vr = <<>>,
                             !.run = IF Child(p) THEN 0 ELSE @,
                             !.job = IF Child(p) THEN @ ELSE "none",
                             !.bad = @ \/ (Child(p) /\ state = "failed")]
           s == At(t, t.back)
<1>1. l[p].pc = "insert" /\ l' = [l EXCEPT ![p] = s] /\ Unmoved
  BY DEF Insert, Goto, Unmoved, Settled
<1>2. /\ LocalOK(l[p]) /\ ScopeOK(l[p])
      /\ (Exclusively(l[p]) => JobOK(l[p]))
  BY OneProcess
<1>3. DOMAIN l[p] = AllFields
  BY <1>2, IdleScope DEF ScopeOK
<1>4. /\ DOMAIN t = DOMAIN l[p] /\ t.scope = l[p].scope /\ t.iss = l[p].iss
      /\ t.ready = l[p].ready /\ t.back = l[p].back /\ t.clean = l[p].clean
      /\ t.sel = l[p].sel
  BY <1>3 DEF AllFields
<1> HIDE DEF t
<1>5. ScopeOK(t)
  BY <1>2, <1>4, ScopeKept
<1>6. /\ ScopeOK(s) /\ s.pc = l[p].back
      /\ l[p].back # "idle" => s.clean = l[p].clean /\ s.sel = l[p].sel
  BY <1>4, <1>5, AtScope
<1> HIDE DEF s
<1>7. l[p].back \in Backs
  BY <1>2 DEF LocalOK
<1>8. ASSUME Exclusively(s)
      PROVE  JobOK(s)
  <2>1. l[p].back = "child"
    BY <1>6, <1>7, <1>8 DEF Exclusively, Backs
  <2>2. Exclusively(l[p])
    BY <1>1, <2>1 DEF Exclusively
  <2> QED BY <1>1, <1>2, <1>6, <2>1, <2>2, ChildKeeps
<1>9. \A q \in Procs : l'[q].pc # "part"
  <2>1. Exclusively(l[p]) \/ Shared(l[p])
    BY <1>1 DEF Exclusively, Shared
  <2>2. ASSUME NEW q \in Procs \ {p}
        PROVE  l'[q].pc # "part"
    <3>1. ~Exclusively(l[q])
      BY <2>1, PartAlone
    <3>2. l'[q] = l[q]
      BY <1>1 DEF PipeInv, LocalInv
    <3> QED BY <3>1, <3>2 DEF Exclusively
  <2>3. l'[p] = s
    BY <1>1 DEF PipeInv, LocalInv
  <2> QED BY <1>6, <1>7, <2>2, <2>3 DEF Backs
<1> QED BY <1>1, <1>6, <1>8, <1>9, AloneStep

(* A refused job returns, or ends its command in an error.                 *)
LEMMA RefuseCur ==
  ASSUME CurInv, PipeInv, NEW p \in Procs, Refuse(p)
  PROVE  CurInv'
<1> DEFINE t == [l[p] EXCEPT !.job = "none", !.res = "refused"]
<1>1. l[p].pc = "refuse" /\ Unmoved /\ vruns' = vruns
  BY DEF Refuse, Unmoved, Settled
<1>2. LocalOK(l[p]) /\ ScopeOK(l[p])
  BY OneProcess
<1>3. l[p].back \in OutPCs
  BY <1>1, <1>2 DEF LocalOK, Backs, OutPCs, FreePCs
<1>4. DOMAIN l[p] = AllFields
  BY <1>2, IdleScope DEF ScopeOK
<1>5. /\ DOMAIN t = DOMAIN l[p] /\ t.scope = l[p].scope /\ t.iss = l[p].iss
      /\ t.ready = l[p].ready
  BY <1>4 DEF AllFields
<1>6. \/ Goto(p, t, l[p].back)
      \/ Goto(p, Idle, Abort(l[p]))
  BY DEF Refuse
<1>7. Abort(l[p]) \in OutPCs
  BY DEF Abort, OutPCs, FreePCs
<1> HIDE DEF t
<1>8. ScopeOK(t)
  BY <1>2, <1>5, ScopeKept
<1> QED BY <1>1, <1>3, <1>6, <1>7, <1>8, IdleScope, OutStep

(* lock_exclusive: a job that starts has read nothing yet.                 *)
LEMMA LockExclusiveCur ==
  ASSUME CurInv, PipeInv, NEW p \in Procs, LockExclusive(p)
  PROVE  CurInv'
<1> DEFINE t == [l[p] EXCEPT !.res = "refused"]
           u == [start_job(l[p]) EXCEPT !.clean = TRUE]
<1>1. l[p].pc \in {"reconcile", "cleanup"} /\ Unmoved /\ vruns' = vruns
  BY DEF LockExclusive, Unmoved, Settled
<1>2. LocalOK(l[p]) /\ ScopeOK(l[p])
  BY OneProcess
<1>3. l[p].back \in OutPCs /\ "refuse" \in OutPCs
  BY <1>1, <1>2 DEF LocalOK, Backs, OutPCs, FreePCs
<1>4. DOMAIN l[p] = AllFields
  BY <1>2, IdleScope DEF ScopeOK
<1>5. /\ DOMAIN t = DOMAIN l[p] /\ t.scope = l[p].scope /\ t.iss = l[p].iss
      /\ t.ready = l[p].ready
  BY <1>4 DEF AllFields
<1>6. ScopeOK(start_job(l[p]))
  BY <1>2, StartScope
<1>7. DOMAIN start_job(l[p]) = AllFields
  BY <1>6, IdleScope DEF ScopeOK
<1>8. /\ DOMAIN u = DOMAIN start_job(l[p]) /\ u.scope = start_job(l[p]).scope
      /\ u.iss = start_job(l[p]).iss /\ u.ready = start_job(l[p]).ready
      /\ u.clean = TRUE
  BY <1>7 DEF AllFields
<1>9. \/ Goto(p, t, l[p].back)
      \/ Goto(p, start_job(l[p]), "refuse")
      \/ \E pc \in {"mark", "sweep"} : Goto(p, u, pc)
  BY DEF LockExclusive
<1> HIDE DEF t, u
<1>10. ScopeOK(t) /\ ScopeOK(u)
  BY <1>2, <1>5, <1>6, <1>8, ScopeKept
<1>11. ASSUME NEW pc \in {"mark", "sweep"}, Goto(p, u, pc)
       PROVE  CurInv'
  <2> DEFINE s == At(u, pc)
  <2>1. l' = [l EXCEPT ![p] = s]
    BY <1>11 DEF Goto
  <2>2. ScopeOK(s) /\ s.pc = pc /\ s.clean = TRUE
    BY <1>8, <1>10, AtScope
  <2> HIDE DEF s
  <2>3. JobOK(s)
    BY <2>2 DEF JobOK, Reads
  <2> QED BY <1>1, <2>1, <2>2, <2>3, AloneStep
<1> QED BY <1>1, <1>3, <1>6, <1>9, <1>10, <1>11, OutStep

(* mark_abandoned touches the job rows alone.                              *)
LEMMA MarkedStep ==
  ASSUME CurInv, PipeInv, Unmoved, vruns' = vruns, NEW p \in Procs, NEW s,
         mark_abandoned(p, s), ScopeOK(s), Exclusively(s) => JobOK(s)
  PROVE  CurInv'
<1>1. l'[p] = s
  BY DEF mark_abandoned
<1>2. ASSUME NEW q \in Procs \ {p}
      PROVE  SameJob(l'[q], l[q])
  <2> DEFINE t == [l[q] EXCEPT !.job = IF @ = "started" THEN "abandoned" ELSE @]
  <2>1. l'[q] = t
    BY DEF mark_abandoned
  <2>2. DOMAIN l[q] = AllFields
    BY OneProcess, IdleScope DEF ScopeOK
  <2>3. SameJob(t, l[q])
    BY <2>2 DEF SameJob, AllFields
  <2> HIDE DEF t
  <2> QED BY <2>1, <2>3
<1> QED BY <1>1, <1>2, MoveStep

(* A job that has ended is out of the lock, wherever it returns to.        *)
LEMMA EndedScope ==
  ASSUME NEW s, ScopeOK(s), LocalOK(s), s.back # "child", NEW state
  PROVE  ScopeOK(Ended(s, state)) /\ ~Exclusively(Ended(s, state))
<1> DEFINE t == [s EXCEPT !.job = "none", !.res = state, !.sel = {}, !.docs = <<>>,
                          !.blocked = {}, !.bad = FALSE, !.clean = TRUE]
<1>1. DOMAIN s = AllFields
  BY IdleScope DEF ScopeOK
<1>2. /\ DOMAIN t = DOMAIN s /\ t.scope = s.scope /\ t.iss = s.iss
      /\ t.ready = s.ready
  BY <1>1 DEF AllFields
<1>3. Ended(s, state) = At(t, s.back)
  BY DEF Ended
<1> HIDE DEF t
<1>4. ScopeOK(t)
  BY <1>2, ScopeKept
<1> DEFINE u == At(t, s.back)
<1>5. ScopeOK(u) /\ u.pc = s.back
  BY <1>4, AtScope
<1> HIDE DEF u
<1>6. ~Exclusively(u)
  BY <1>5 DEF Exclusively, LocalOK, Backs
<1> QED BY <1>3, <1>5, <1>6 DEF u

(* cleanup marks and ends.                                                 *)
LEMMA CleanupCur ==
  ASSUME CurInv, PipeInv, NEW p \in Procs, cleanup(p)
  PROVE  CurInv'
<1> DEFINE s == Ended(l[p], "succeeded")
<1>1. /\ l[p].pc = "sweep" /\ mark_abandoned(p, s)
      /\ Unmoved /\ vruns' = vruns
  BY DEF cleanup, Unmoved, Settled
<1>2. LocalOK(l[p]) /\ ScopeOK(l[p]) /\ l[p].back # "child"
  BY <1>1, OneProcess DEF LocalOK
<1>3. ScopeOK(s) /\ ~Exclusively(s)
  BY <1>2, EndedScope
<1> HIDE DEF s
<1> QED BY <1>1, <1>3, MarkedStep

(* The selection is the current one.                                       *)
LEMMA SelectCur ==
  ASSUME CurInv, PipeInv, NEW p \in Procs, Select(p)
  PROVE  CurInv'
<1> DEFINE e == Ended(l[p], "refused")
           missing == Selected \cap pending_runs
           t == [l[p] EXCEPT !.pc = "child", !.sel = Selected, !.todo = missing]
<1>1. /\ l[p].pc = "mark" /\ Unmoved /\ vruns' = vruns
      /\ mark_abandoned(p, e) \/ mark_abandoned(p, t)
  BY DEF Select, Selected, Unmoved, Settled
<1>2. /\ LocalOK(l[p]) /\ ScopeOK(l[p]) /\ l[p].back # "child"
  BY <1>1, OneProcess DEF LocalOK
<1>3. JobOK(l[p])
  BY <1>1, OneProcess DEF Exclusively
<1>4. ScopeOK(e) /\ ~Exclusively(e)
  BY <1>2, EndedScope
<1>5. DOMAIN l[p] = AllFields
  BY <1>2, IdleScope DEF ScopeOK
<1> HIDE DEF missing
<1>6. /\ DOMAIN t = DOMAIN l[p] /\ t.scope = l[p].scope /\ t.iss = l[p].iss
      /\ t.ready = l[p].ready /\ t.clean = l[p].clean
      /\ t.pc = "child" /\ t.sel = Selected
  BY <1>5 DEF AllFields
<1> HIDE DEF t, e
<1>7. ScopeOK(t)
  BY <1>2, <1>6, ScopeKept
<1>8. Selected \subseteq Filings
  BY RunsOfFilings DEF CurInv
<1>9. JobOK(t)
  BY <1>3, <1>6, <1>8 DEF JobOK, Reads
<1> QED BY <1>1, <1>4, <1>7, <1>9, MarkedStep

(* The job's own validations.                                              *)
LEMMA ValidateMissingCur ==
  ASSUME CurInv, PipeInv, NEW p \in Procs, Validate_missing(p)
  PROVE  CurInv'
<1> DEFINE f == Min(l[p].todo)
           t == [l[p] EXCEPT !.todo = @ \ {f}, !.run = f, !.back = "child"]
           s == At(t, "compute")
<1>1. /\ l[p].pc = "child" /\ Unmoved /\ vruns' = vruns
      /\ l' = [l EXCEPT ![p] = s]
  BY DEF Validate_missing, Goto, Unmoved, Settled
<1>2. ScopeOK(l[p]) /\ JobOK(l[p])
  BY <1>1, OneProcess DEF Exclusively
<1>3. DOMAIN l[p] = AllFields
  BY <1>2, IdleScope DEF ScopeOK
<1> HIDE DEF f
<1>4. /\ DOMAIN t = DOMAIN l[p] /\ t.scope = l[p].scope /\ t.iss = l[p].iss
      /\ t.ready = l[p].ready /\ t.clean = l[p].clean /\ t.sel = l[p].sel
  BY <1>3 DEF AllFields
<1> HIDE DEF t
<1>5. ScopeOK(t)
  BY <1>2, <1>4, ScopeKept
<1>6. /\ ScopeOK(s) /\ s.pc = "compute" /\ s.clean = l[p].clean
      /\ s.sel = l[p].sel
  BY <1>4, <1>5, AtScope
<1> HIDE DEF s
<1>7. JobOK(s)
  BY <1>1, <1>2, <1>6, ChildKeeps
<1> QED BY <1>1, <1>6, <1>7, AloneStep

(* The end of a pass: it vouches for its scope only if it has seen no      *)
(* change and met no bad partition.                                        *)
LEMMA FinalCur ==
  ASSUME CurInv, PipeInv, NEW p \in Procs, Final_event(p)
  PROVE  CurInv'
<1> DEFINE state == IF l[p].bad THEN "failed" ELSE "succeeded"
           s == Ended(l[p], state)
<1>1. /\ l[p].pc = "part" /\ l[p].parts = {} /\ Settled
      /\ l' = [l EXCEPT ![p] = s]
      /\ UNCHANGED <<vruns, batches, records>>
      /\ passed' = IF ~l[p].bad /\ l[p].clean THEN passed \cup Scope(l[p]) ELSE passed
  BY DEF Final_event, Settled, Scope
<1>2. /\ LocalOK(l[p]) /\ ScopeOK(l[p]) /\ l[p].back # "child" /\ JobOK(l[p])
  BY <1>1, OneProcess DEF LocalOK, Exclusively
<1>3. ScopeOK(s) /\ ~Exclusively(s)
  BY <1>2, EndedScope
<1> HIDE DEF s
<1>4. ASSUME NEW q \in Procs
      PROVE  ScopeOK(l'[q]) /\ ~Exclusively(l'[q])
  <2>1. CASE q = p
    BY <1>1, <1>3, <2>1 DEF PipeInv, LocalInv
  <2>2. CASE q # p
    <3>1. ~Exclusively(l[q])
      BY <1>1, <2>2, PartAlone DEF Exclusively
    <3>2. l'[q] = l[q]
      BY <1>1, <2>2 DEF PipeInv, LocalInv
    <3> QED BY <3>1, <3>2, OneProcess
  <2> QED BY <2>1, <2>2
<1>5. UpToDate' = UpToDate /\ EvidenceOK' /\ BatchOK'
  <2>1. \A i \in Issuers : Reported(i)' = Reported(i)
    BY <1>1 DEF Reported
  <2>2. \A i \in Issuers : Expected(i)' = Expected(i)
    BY <1>1, ViewKept
  <2>3. EvidenceOK'
    BY <1>1 DEF CurInv, EvidenceOK, Settled
  <2>4. BatchOK'
    BY <1>1, <2>1 DEF CurInv, BatchOK
  <2> QED BY <2>1, <2>2, <2>3, <2>4 DEF UpToDate
<1>6. passed' \subseteq UpToDate
  <2>1. passed \subseteq UpToDate
    BY DEF CurInv
  <2>2. ~l[p].bad /\ l[p].clean => Scope(l[p]) \subseteq UpToDate
    BY <1>1, <1>2 DEF JobOK, Reads
  <2> QED BY <1>1, <2>1, <2>2
<1>7. \A q \in Procs : ScopeOK(l[q])'
  BY <1>4 DEF ScopeOK
<1> QED BY <1>4, <1>5, <1>6, <1>7 DEF CurInv, Exclusively

(* The partitions are those of the evidence the job has read; an issuer    *)
(* that is none of them has nothing to report.                             *)
LEMMA PartitionCur ==
  ASSUME CurInv, PipeInv, NEW p \in Procs, Partition(p)
  PROVE  CurInv'
<1> DEFINE sel == l[p].sel
           with == {f \in sel : canonical_validation_run(f) # {}}
           docs == [i \in Issuers |->
                      {document[f] : f \in {g \in with : i \in run_issuer(InputSet(g))}}]
           blocked == {current_issuer(f) : f \in sel \ with} \ {0}
           all == {i \in Issuers : docs[i] # {}} \cup issuers_with_facts \cup blocked
           parts == IF l[p].scope = None THEN all ELSE all \cap {l[p].scope}
           back == IF l[p].cmd = "wake" THEN "revent" ELSE "idle"
           t == [l[p] EXCEPT !.docs = docs, !.blocked = blocked, !.sel = {},
                             !.back = back, !.parts = parts]
           s == At(t, "part")
<1>1. /\ l[p].pc = "child" /\ Unmoved /\ vruns' = vruns
      /\ l' = [l EXCEPT ![p] = s]
  BY DEF Partition, Goto, Unmoved, Settled
<1>2. ScopeOK(l[p]) /\ JobOK(l[p])
  BY <1>1, OneProcess DEF Exclusively
<1>3. sel \subseteq Filings
  BY <1>1, <1>2 DEF JobOK
<1>4. parts \subseteq Issuers
  <2>1. \A f \in sel : current_issuer(f) \in Issuers \cup {0}
    BY <1>3, IssuerOfInput DEF CurInv
  <2>2. blocked \subseteq Issuers
    BY <2>1
  <2>3. issuers_with_facts \subseteq Issuers
    BY DEF issuers_with_facts
  <2> HIDE DEF blocked, docs
  <2>4. all \subseteq Issuers
    BY <2>2, <2>3
  <2> QED BY <2>4
<1>5. ASSUME l[p].clean
      PROVE  docs = Docs /\ blocked = Blocked /\ Scope(l[p]) \ parts \subseteq UpToDate
  <2>1. sel = Selected
    BY <1>1, <1>2, <1>5 DEF JobOK, Reads
  <2>2. with = Validated
    BY <2>1 DEF Validated
  <2>3. docs = Docs
    BY <2>2 DEF Docs
  <2>4. blocked = Blocked
    BY <2>1, <2>2 DEF Blocked
  <2>5. ASSUME NEW i \in Scope(l[p]) \ parts
        PROVE  i \in UpToDate
    <3>1. i \in Issuers
      BY <1>2, TruthAssumption DEF Scope, ScopeOK
    <3> HIDE DEF docs, blocked, with, sel
    <3>2. i \notin all
      BY <2>5 DEF Scope
    <3>3. Docs[i] = {} /\ i \notin Blocked /\ i \notin issuers_with_facts
      BY <2>3, <2>4, <3>1, <3>2
    <3> QED BY <3>1, <3>3, NoPartition DEF CurInv
  <2> HIDE DEF docs, blocked, parts
  <2> QED BY <2>3, <2>4, <2>5
<1> HIDE DEF docs, blocked, parts, back, sel
<1>6. DOMAIN l[p] = AllFields
  BY <1>2, IdleScope DEF ScopeOK
<1>7. /\ DOMAIN t = DOMAIN l[p] /\ t.scope = l[p].scope /\ t.iss = l[p].iss
      /\ t.ready = l[p].ready /\ t.clean = l[p].clean /\ t.docs = docs
      /\ t.blocked = blocked /\ t.parts = parts /\ t.bad = l[p].bad
  BY <1>6 DEF AllFields
<1> HIDE DEF t
<1>8. ScopeOK(t)
  BY <1>2, <1>7, ScopeKept
<1>9. /\ ScopeOK(s) /\ s.pc = "part" /\ s.clean = l[p].clean
      /\ s.docs = docs /\ s.blocked = blocked /\ s.parts = parts
      /\ s.scope = l[p].scope
  BY <1>7, <1>8, AtScope
<1> HIDE DEF s
<1>10. JobOK(s)
  <2>1. Scope(s) = Scope(l[p])
    BY <1>9 DEF Scope
  <2>2. s.clean \/ passed = {}
    BY <1>2, <1>9 DEF JobOK
  <2> QED BY <1>4, <1>5, <1>9, <2>1, <2>2 DEF JobOK, Reads
<1> QED BY <1>1, <1>9, <1>10, AloneStep

(* A job done with partition i, b telling whether it has met a bad one,    *)
(* and what that leaves of it.                                             *)
Advanced(s, i, b) == At([s EXCEPT !.parts = @ \ {i}, !.bad = b], "part")
DoneWith(t, s, i) ==
  /\ ScopeOK(t) /\ t.pc = "part" /\ t.clean = s.clean
  /\ t.docs = s.docs /\ t.blocked = s.blocked
  /\ t.parts = s.parts \ {i} /\ Scope(t) = Scope(s)

(* Advance keeps the job's place and the pass.                             *)
LEMMA AdvanceScope ==
  ASSUME NEW s, ScopeOK(s), NEW i, NEW b, NEW t, t = Advanced(s, i, b)
  PROVE  DoneWith(t, s, i) /\ t.bad = b
<1> DEFINE u == [s EXCEPT !.parts = @ \ {i}, !.bad = b]
<1>1. DOMAIN s = AllFields
  BY IdleScope DEF ScopeOK
<1>2. /\ DOMAIN u = DOMAIN s /\ u.scope = s.scope /\ u.iss = s.iss
      /\ u.ready = s.ready /\ u.clean = s.clean /\ u.docs = s.docs
      /\ u.blocked = s.blocked /\ u.parts = s.parts \ {i} /\ u.bad = b
  BY <1>1 DEF AllFields
<1>3. t = At(u, "part")
  BY DEF Advanced
<1> HIDE DEF u
<1>4. ScopeOK(u)
  BY <1>2, ScopeKept
<1>5. /\ ScopeOK(t) /\ t.pc = "part" /\ t.clean = u.clean
      /\ t.docs = u.docs /\ t.blocked = u.blocked
      /\ t.parts = u.parts /\ t.bad = u.bad /\ t.scope = u.scope
  BY <1>3, <1>4, AtScope
<1> QED BY <1>2, <1>5 DEF Scope, DoneWith

(* A partition done with: if the job has read current evidence and met no  *)
(* bad partition, its issuer is up to date.                                *)
LEMMA AdvanceJob ==
  ASSUME NEW s, NEW i, s.pc = "part", NEW t, NEW old, NEW done, old \subseteq done,
         DoneWith(t, s, i), s.clean, Reads(s, Selected, Docs, Blocked, old),
         t.bad \/ i \in done, s.bad => t.bad
  PROVE  Reads(t, Selected, Docs, Blocked, done)
<1> USE DEF DoneWith
<1>1. t.docs = Docs /\ t.blocked = Blocked
  BY DEF Reads
<1>2. ASSUME ~t.bad
      PROVE  Scope(t) \ t.parts \subseteq done
  <2>1. Scope(s) \ s.parts \subseteq old
    BY <1>2 DEF Reads
  <2> QED BY <1>2, <2>1
<1> QED BY <1>1, <1>2 DEF Reads

(* A new batch reports exactly the observations it was planned from, and   *)
(* touches no other issuer's records.                                      *)
Writes(i, fp) ==
  LET results == {o[2] : o \in fp.sos}
  IN /\ batches' = [batches EXCEPT ![i] = [fp |-> fp, results |-> results]]
     /\ records' = [k \in DOMAIN records |->
                      IF k[1] = i /\ k[2] \in results
                      THEN {o[1] : o \in {x \in fp.sos : x[2] = k[2]}}
                      ELSE records[k]]

(* Such a write keeps the batches' promise.                                *)
LEMMA WritesReport ==
  ASSUME EvidenceOK, BatchOK, Settled, NEW i \in Issuers, NEW docs,
         NEW fp, fp = plan_partition(i, docs).fp, Writes(i, fp)
  PROVE  /\ EvidenceOK' /\ BatchOK'
         /\ Reported(i)' = fp.sos
         /\ \A j \in Issuers \ {i} : Reported(j)' = Reported(j)
<1> DEFINE results == {o[2] : o \in fp.sos}
           batch == [fp |-> fp, results |-> results]
<1>1. /\ fp = [sel |-> fp.sel, sos |-> fp.sos]
      /\ fp.sel \subseteq Filings /\ fp.sos \subseteq Observations
      /\ \A o \in fp.sos : o = <<o[1], o[2]>> /\ o[2] \in Concepts
  BY PlanType
<1>2. results \subseteq Concepts
  BY <1>1
<1>3. batch \in Batches
  <2>1. fp \in [sel : SUBSET Filings, sos : SUBSET Observations]
    BY <1>1
  <2> HIDE DEF results
  <2> QED BY <1>2, <2>1 DEF Batches
<1>4. batch # None
  BY <1>3, BatchAssumption
<1>5. DOMAIN batches = Issuers /\ DOMAIN records = Issuers \X Concepts
  BY DEF EvidenceOK
<1>6. /\ DOMAIN batches' = Issuers /\ batches'[i] = batch
      /\ \A j \in Issuers \ {i} : batches'[j] = batches[j]
  BY <1>5 DEF Writes
<1>7. DOMAIN records' = DOMAIN records
  BY DEF Writes
<1>8. \A c \in results : records'[<<i, c>>] = {o[1] : o \in {x \in fp.sos : x[2] = c}}
  <2>1. \A c \in results : <<i, c>> \in DOMAIN records
    BY <1>2, <1>5
  <2> QED BY <2>1 DEF Writes
<1>9. \A j \in Issuers \ {i} : \A c \in Concepts : records'[<<j, c>>] = records[<<j, c>>]
  <2>1. \A j \in Issuers \ {i} : \A c \in Concepts : <<j, c>> \in DOMAIN records
    BY <1>5
  <2> QED BY <2>1 DEF Writes
<1>10. batch.results = results /\ batch.fp = fp
  OBVIOUS
<1>11. Reported(i)' = fp.sos
  <2>1. Reported(i)' = UNION {{<<vr, c>> : vr \in records'[<<i, c>>]} : c \in results}
    BY <1>4, <1>6, <1>10 DEF Reported
  <2>2. ASSUME NEW o \in fp.sos
        PROVE  o \in Reported(i)'
    <3>1. o[2] \in results /\ o = <<o[1], o[2]>>
      BY <1>1
    <3>2. o[1] \in records'[<<i, o[2]>>]
      BY <1>8, <3>1
    <3> QED BY <2>1, <3>1, <3>2
  <2>3. ASSUME NEW x \in Reported(i)'
        PROVE  x \in fp.sos
    <3>1. PICK c \in results : x \in {<<vr, c>> : vr \in records'[<<i, c>>]}
      BY <2>1
    <3>2. PICK vr \in records'[<<i, c>>] : x = <<vr, c>>
      BY <3>1
    <3>3. PICK o \in fp.sos : o[2] = c /\ vr = o[1]
      BY <1>8, <3>2
    <3> QED BY <1>1, <3>2, <3>3
  <2> QED BY <2>2, <2>3
<1>12. \A j \in Issuers \ {i} : Reported(j)' = Reported(j)
  <2> SUFFICES ASSUME NEW j \in Issuers \ {i}
               PROVE  Reported(j)' = Reported(j)
    OBVIOUS
  <2>1. CASE batches[j] = None
    BY <1>6, <2>1 DEF Reported
  <2>2. CASE batches[j] # None
    <3>1. batches[j].results \subseteq Concepts
      BY <2>2 DEF BatchOK
    <3> DEFINE old(c) == {<<vr, c>> : vr \in records[<<j, c>>]}
               new(c) == {<<vr, c>> : vr \in records'[<<j, c>>]}
               rs == batches[j].results
    <3>2. Reported(j)' = UNION {new(c) : c \in rs}
      BY <1>6, <2>2 DEF Reported
    <3>3. Reported(j) = UNION {old(c) : c \in rs}
      BY <2>2 DEF Reported
    <3>4. \A c \in rs : new(c) = old(c)
      BY <1>9, <3>1
    <3> HIDE DEF old, new, rs
    <3>5. UNION {new(c) : c \in rs} = UNION {old(c) : c \in rs}
      BY <3>4
    <3> QED BY <3>2, <3>3, <3>5
  <2> QED BY <2>1, <2>2
<1>13. EvidenceOK'
  BY <1>5, <1>6, <1>7 DEF EvidenceOK, Settled
<1>14. BatchOK'
  <2>1. ASSUME NEW j \in Issuers, batches'[j] # None
        PROVE  /\ batches'[j].results \subseteq Concepts
               /\ Reported(j)' = batches'[j].fp.sos
    <3>1. CASE j = i
      BY <1>2, <1>6, <1>10, <1>11, <3>1
    <3>2. CASE j # i
      BY <1>6, <1>12, <2>1, <3>2 DEF BatchOK
    <3> QED BY <3>1, <3>2
  <2> QED BY <2>1 DEF BatchOK
<1> QED BY <1>11, <1>12, <1>13, <1>14

(* A partition that is written.                                            *)
LEMMA PartitionWritten ==
  ASSUME CurInv, PipeInv, NEW p \in Procs, NEW s, s = l[p], s.pc = "part",
         NEW i \in s.parts, i \in Issuers, Settled, UNCHANGED <<vruns, passed>>,
         NEW fp, fp = plan_partition(i, s.docs[i]).fp, s.clean => fp.sos = Expected(i),
         NEW t, DoneWith(t, s, i), s.bad => t.bad, l' = [l EXCEPT ![p] = t],
         Writes(i, fp)
  PROVE  CurInv'
<1>1. ScopeOK(s) /\ JobOK(s)
  BY OneProcess DEF Exclusively
<1>2. /\ Selected' = Selected /\ Docs' = Docs /\ Blocked' = Blocked
      /\ \A j \in Issuers : Expected(j)' = Expected(j)
  BY ViewKept
<1>3. /\ EvidenceOK' /\ BatchOK'
      /\ Reported(i)' = fp.sos
      /\ \A j \in Issuers \ {i} : Reported(j)' = Reported(j)
  BY WritesReport DEF CurInv
<1>4. ASSUME s.clean
      PROVE  UpToDate \subseteq UpToDate' /\ i \in UpToDate'
  <2>1. \A j \in UpToDate : j \in Issuers /\ Reported(j) = Expected(j)
    BY DEF UpToDate
  <2>2. ASSUME NEW j \in UpToDate \cup {i}
        PROVE  j \in Issuers /\ Reported(j)' = Expected(j)'
    <3>1. CASE j = i
      BY <1>2, <1>3, <1>4, <3>1
    <3>2. CASE j # i
      BY <1>2, <1>3, <2>1, <3>2
    <3> QED BY <3>1, <3>2
  <2> QED BY <2>2 DEF UpToDate
<1>5. passed' \subseteq UpToDate'
  <2>1. s.clean \/ passed = {}
    BY <1>1 DEF JobOK
  <2> QED BY <1>4, <2>1 DEF CurInv
<1>6. ASSUME NEW q \in Procs
      PROVE  ScopeOK(l'[q]) /\ (Exclusively(l'[q]) => l'[q] = t)
  <2>1. CASE q = p
    BY <2>1 DEF PipeInv, LocalInv, DoneWith
  <2>2. CASE q # p
    <3>1. ~Exclusively(l[q])
      BY <2>2, PartAlone DEF Exclusively
    <3>2. l'[q] = l[q]
      BY <2>2 DEF PipeInv, LocalInv
    <3> QED BY <3>1, <3>2, OneProcess
  <2> QED BY <2>1, <2>2
<1>7. t.clean => Reads(t, Selected, Docs, Blocked, UpToDate')
  <2> SUFFICES ASSUME s.clean
               PROVE  Reads(t, Selected, Docs, Blocked, UpToDate')
    BY DEF DoneWith
  <2>1. Reads(s, Selected, Docs, Blocked, UpToDate)
    BY <1>1 DEF JobOK
  <2> QED BY <1>4, <2>1, AdvanceJob
<1>8. ASSUME NEW q \in Procs, Exclusively(l'[q])
      PROVE  JobOK(l[q])'
  <2>1. l'[q] = t
    BY <1>6, <1>8
  <2>2. /\ t.clean \/ passed' = {}
        /\ t.parts \subseteq Issuers /\ t.pc = "part"
    BY <1>1 DEF JobOK, DoneWith
  <2>3. t.clean => Reads(t, Selected', Docs', Blocked', UpToDate')
    BY <1>2, <1>7
  <2> QED BY <2>1, <2>2, <2>3 DEF JobOK
<1>9. \A q \in Procs : ScopeOK(l[q])'
  BY <1>6 DEF ScopeOK
<1> QED BY <1>3, <1>5, <1>8, <1>9 DEF CurInv, Exclusively

(* A partition that is not.                                                *)
LEMMA PartitionLeft ==
  ASSUME CurInv, PipeInv, NEW p \in Procs, NEW s, s = l[p], s.pc = "part",
         NEW i \in s.parts, Unmoved, vruns' = vruns,
         NEW t, DoneWith(t, s, i), s.bad => t.bad, l' = [l EXCEPT ![p] = t],
         s.clean => t.bad \/ i \in UpToDate
  PROVE  CurInv'
<1>1. ScopeOK(s) /\ JobOK(s)
  BY OneProcess DEF Exclusively
<1>2. ASSUME s.clean
      PROVE  Reads(t, Selected, Docs, Blocked, UpToDate)
  <2>1. Reads(s, Selected, Docs, Blocked, UpToDate)
    BY <1>1, <1>2 DEF JobOK
  <2> QED BY <1>2, <2>1, AdvanceJob
<1>3. JobOK(t)
  BY <1>1, <1>2 DEF JobOK, DoneWith
<1>4. ScopeOK(t)
  BY DEF DoneWith
<1> QED BY <1>3, <1>4, AloneStep

(* One partition: written, found unchanged, or bad.                        *)
LEMMA ReconcilePartitionCur ==
  ASSUME CurInv, PipeInv, NEW p \in Procs, reconcile_partition(p)
  PROVE  CurInv'
<1>1. PICK s, i, plan : /\ s = l[p] /\ i = Min(l[p].parts)
                        /\ plan = plan_partition(i, l[p].docs[i])
  OBVIOUS
<1>2. /\ s.pc = "part" /\ s.parts # {} /\ Settled
      /\ UNCHANGED <<vruns, passed>>
  BY <1>1 DEF reconcile_partition, Settled
<1>3. /\ ScopeOK(s) /\ JobOK(s) /\ s.parts \subseteq Issuers
      /\ EvidenceOK /\ BatchOK
  BY <1>1, <1>2, OneProcess DEF Exclusively, JobOK, CurInv
<1>4. i \in s.parts /\ i \in Issuers
  <2>1. s.parts \in SUBSET Nat
    BY <1>3, TruthAssumption
  <2> QED BY <1>1, <1>2, <1>3, <2>1, MinOfNaturals
<1>5. s.clean /\ i \notin s.blocked /\ plan.state # "inputs_changed"
        => plan.fp.sos = Expected(i)
  <2>1. s.clean => s.docs = Docs /\ s.blocked = Blocked
    BY <1>2, <1>3 DEF JobOK, Reads
  <2> QED BY <1>1, <1>3, <1>4, <2>1, PlanIsExpected
<1>6. /\ plan.state = "unchanged" => batches[i] # None /\ batches[i].fp = plan.fp
      /\ plan.state \in {"inputs_changed", "unchanged", "planned"}
  BY <1>1 DEF plan_partition
<1> DEFINE bad == i \in s.blocked \/ plan.state = "inputs_changed"
           Written == Writes(i, plan.fp) /\ i \notin s.blocked /\ plan.state = "planned"
           Left == UNCHANGED <<batches, records>>
           Present == i \notin s.blocked /\ plan.state = "unchanged"
<1>7. \/ Written /\ Advance(p, i, bad)
      \/ Left /\ (bad \/ Present) /\ Advance(p, i, bad)
      \/ Left /\ Advance(p, i, TRUE)
  BY <1>1, <1>6 DEF reconcile_partition, Writes
<1>8. \E b : /\ l' = [l EXCEPT ![p] = Advanced(s, i, b)] /\ (s.bad => b)
             /\ Written \/ (Left /\ (b \/ Present))
  <2>1. CASE (Written \/ (Left /\ (bad \/ Present))) /\ Advance(p, i, bad)
    <3>1. PICK b : b = (s.bad \/ bad)
      OBVIOUS
    <3>2. l' = [l EXCEPT ![p] = Advanced(s, i, b)]
      BY <1>1, <2>1, <3>1, Zenon DEF Advance, Goto, Advanced
    <3> HIDE DEF bad, Written, Left, Present
    <3>3. (s.bad => b) /\ (bad => b)
      BY <3>1, Zenon
    <3> QED BY <2>1, <3>2, <3>3
  <2>2. CASE Left /\ Advance(p, i, TRUE)
    <3>1. PICK b : b = (s.bad \/ TRUE)
      OBVIOUS
    <3>2. l' = [l EXCEPT ![p] = Advanced(s, i, b)]
      BY <1>1, <2>2, <3>1, Zenon DEF Advance, Goto, Advanced
    <3> HIDE DEF bad, Written, Left, Present
    <3>3. b
      BY <3>1, Zenon
    <3> QED BY <2>2, <3>2, <3>3
  <2> QED BY <1>7, <2>1, <2>2
<1>9. PICK b : /\ l' = [l EXCEPT ![p] = Advanced(s, i, b)] /\ (s.bad => b)
               /\ Written \/ (Left /\ (b \/ Present))
  BY <1>8
<1>10. PICK t : t = Advanced(s, i, b)
  OBVIOUS
<1>11. DoneWith(t, s, i) /\ t.bad = b
  BY <1>3, <1>10, AdvanceScope
<1> HIDE DEF Written, Left, Present
<1>12. /\ l' = [l EXCEPT ![p] = t] /\ (s.bad => t.bad)
       /\ Written \/ (Left /\ (t.bad \/ Present))
  BY <1>9, <1>10, <1>11, Zenon
<1>13. CASE Written
  <2>1. PICK fp : fp = plan.fp
    OBVIOUS
  <2>2. /\ fp = plan_partition(i, s.docs[i]).fp /\ Writes(i, fp)
        /\ s.clean => fp.sos = Expected(i)
    BY <1>1, <1>5, <1>13, <2>1 DEF Written
  <2> QED BY <1>1, <1>2, <1>4, <1>11, <1>12, <2>2, PartitionWritten
<1>14. CASE Left /\ (t.bad \/ Present)
  <2>1. Unmoved /\ vruns' = vruns
    BY <1>2, <1>14 DEF Unmoved, Left
  <2>2. s.clean /\ Present => i \in UpToDate
    <3> SUFFICES ASSUME s.clean, Present
                 PROVE  i \in UpToDate
      OBVIOUS
    <3>1. Expected(i) = plan.fp.sos
      BY <1>5 DEF Present
    <3>2. Reported(i) = plan.fp.sos
      BY <1>3, <1>4, <1>6 DEF BatchOK, Present
    <3> QED BY <1>4, <3>1, <3>2 DEF UpToDate
  <2>3. s.clean => t.bad \/ i \in UpToDate
    BY <1>14, <2>2
  <2> QED BY <1>1, <1>2, <1>4, <1>11, <1>12, <2>1, <2>3, PartitionLeft
<1> QED BY <1>12, <1>13, <1>14

(* The steps of the truth store.                                           *)
LEMMA StoreStepCur ==
  ASSUME CurInv, PipeInv, NEW p \in Procs, StoreStep(p)
  PROVE  CurInv'
<1>1. CASE insert_validation(p)
  <2>1. \E state : Insert(p, state)
    BY <1>1 DEF insert_validation
  <2> QED BY <2>1, InsertCur
<1> QED
  BY <1>1, LockSharedCur, ComputeCur, RefuseCur, LockExclusiveCur, CleanupCur, SelectCur,
     ValidateMissingCur, PartitionCur, ReconcilePartitionCur, FinalCur DEF StoreStep

-----------------------------------------------------------------------------
(* The wake-up, the commands, and changes of the evidence                  *)

(* A process outside the lock that keeps the pass it is at.                *)
KeptPass(t, s) == /\ DOMAIN t = DOMAIN s /\ t.scope = s.scope
                  /\ t.iss = s.iss /\ t.ready = s.ready

(* Such a step reads and writes nothing that a job relies on.              *)
LEMMA OutKept ==
  ASSUME CurInv, PipeInv, Unmoved, vruns' = vruns, NEW p \in Procs, NEW t,
         NEW pc \in OutPCs, Goto(p, t, pc), KeptPass(t, l[p])
  PROVE  CurInv'
<1>1. ScopeOK(t)
  BY OneProcess, ScopeKept DEF KeptPass
<1> QED BY <1>1, OutStep

(* The end of HB-5's part of a wake-up.                                    *)
LEMMA LeaveCur ==
  ASSUME CurInv, PipeInv, Unmoved, vruns' = vruns, NEW p \in Procs, Leave(p)
  PROVE  CurInv'
<1> DEFINE t == [Idle EXCEPT !.cmd = "wake", !.armed = l[p].armed]
<1>1. DOMAIN t = DOMAIN Idle /\ t.scope = Idle.scope /\ t.iss = Idle.iss
      /\ t.ready = Idle.ready
  BY IdleScope DEF AllFields
<1>2. Goto(p, t, "slice") /\ "slice" \in OutPCs
  BY DEF Leave, OutPCs, FreePCs
<1> HIDE DEF t
<1>3. ScopeOK(t)
  BY <1>1, IdleScope, ScopeKept
<1> QED BY <1>2, <1>3, OutStep

(* The passes HB-5 plans are for issuers, or for all of them.              *)
LEMMA PartitionIssuers ==
  ASSUME EvidenceOK
  PROVE  partition_issuers \subseteq Issuers
<1>1. ASSUME NEW f \in Filings, NEW i \in run_issuer(InputSet(f))
      PROVE  i \in Issuers
  <2>1. PICK o \in stored_observations(InputSet(f)) : i = issuer_of(InputSet(f))
    BY DEF run_issuer
  <2> QED BY <2>1, StoredAre, IssuerOfInput
<1>2. Range(runs) \subseteq Filings
  BY RunsOfFilings
<1> QED BY <1>1, <1>2 DEF partition_issuers

(* The steps of HB-5 change no evidence; a pass gets its scope here.       *)
LEMMA F6StepCur ==
  ASSUME CurInv, PipeInv, NEW p \in Procs, F6Step(p)
  PROVE  CurInv'
<1>1. Unmoved /\ vruns' = vruns
  BY DEF F6Step, validate_pending, Next_validation, Record_validation, Register, Plan,
         promote_documents, Reconcile_ready, Next_pass, Record_pass, Unmoved, Settled
<1>2. ScopeOK(l[p]) /\ DOMAIN l[p] = AllFields
  BY OneProcess, IdleScope DEF ScopeOK
<1>3. {"vnext", "config", "validate", "plan", "apply", "ready", "rnext", "reconcile",
       "idle", "finish", "slice"} \subseteq OutPCs
  BY DEF OutPCs, FreePCs
<1>4. CASE validate_pending(p)
  <2> DEFINE todo == {f \in pending_runs : vitem[f] \notin Final}
             t == [l[p] EXCEPT !.todo = todo, !.left = ValidateBatch, !.res = "none"]
  <2>1. Goto(p, t, "vnext")
    BY <1>4 DEF validate_pending
  <2> HIDE DEF todo
  <2>2. KeptPass(t, l[p])
    BY <1>2 DEF KeptPass, AllFields
  <2> HIDE DEF t
  <2> QED BY <1>1, <1>3, <2>1, <2>2, OutKept
<1>5. CASE Next_validation(p)
  <2> DEFINE f == Min(l[p].todo)
             t == [l[p] EXCEPT !.todo = {}, !.left = 0, !.res = "none"]
             u == [l[p] EXCEPT !.todo = @ \ {f}, !.left = @ - 1, !.run = f,
                               !.wait = FALSE, !.back = "vevent"]
  <2>1. Goto(p, t, "config") \/ Goto(p, u, "validate")
    BY <1>5 DEF Next_validation
  <2> HIDE DEF f
  <2>2. KeptPass(t, l[p]) /\ KeptPass(u, l[p])
    BY <1>2 DEF KeptPass, AllFields
  <2> HIDE DEF t, u
  <2> QED BY <1>1, <1>3, <2>1, <2>2, OutKept
<1>6. CASE Record_validation(p)
  <2> DEFINE t == [l[p] EXCEPT !.run = 0]
  <2>1. Goto(p, t, "vnext")
    BY <1>6 DEF Record_validation
  <2>2. KeptPass(t, l[p])
    BY <1>2 DEF KeptPass, AllFields
  <2> HIDE DEF t
  <2> QED BY <1>1, <1>3, <2>1, <2>2, OutKept
<1>7. CASE Register(p)
  <2>1. PICK d : d = (config = "designated")
    OBVIOUS
  <2> DEFINE t == [l[p] EXCEPT !.desig = d, !.ran = FALSE]
  <2>2. Goto(p, t, "plan")
    BY <1>7, <2>1, Zenon DEF Register
  <2>3. KeptPass(t, l[p])
    BY <1>2 DEF KeptPass, AllFields
  <2> HIDE DEF t
  <2> QED BY <1>1, <1>3, <2>2, <2>3, OutKept
<1>8. CASE Plan(p)
  <2>1. PICK steps : Goto(p, [l[p] EXCEPT !.steps = steps], "apply")
    BY <1>8 DEF Plan
  <2> DEFINE t == [l[p] EXCEPT !.steps = steps]
  <2>2. KeptPass(t, l[p])
    BY <1>2 DEF KeptPass, AllFields
  <2> HIDE DEF t
  <2> QED BY <1>1, <1>3, <2>1, <2>2, OutKept DEF t
<1>9. CASE promote_documents(p)
  <2> DEFINE t == [l[p] EXCEPT !.steps = Tail(@)]
  <2>1. \/ Goto(p, l[p], "ready") \/ Leave(p) \/ Goto(p, t, "apply")
        \/ Goto(p, Idle, Abort(l[p]))
    BY <1>9 DEF promote_documents
  <2>2. KeptPass(t, l[p]) /\ KeptPass(l[p], l[p])
    BY <1>2 DEF KeptPass, AllFields
  <2>3. Abort(l[p]) \in OutPCs
    BY <1>3 DEF Abort
  <2> HIDE DEF t
  <2> QED BY <1>1, <1>3, <2>1, <2>2, <2>3, OutKept, OutStep, LeaveCur, IdleScope
<1>10. CASE Reconcile_ready(p)
  <2> DEFINE ready == {i \in Issuers : open_filings(i) = {}}
                        \cup (IF all_final THEN {None} ELSE {})
             t == [l[p] EXCEPT !.iss = partition_issuers, !.left = ReconcileBatch,
                               !.res = "none", !.ready = ready]
  <2>1. Leave(p) \/ Goto(p, t, "rnext")
    BY <1>10 DEF Reconcile_ready
  <2>2. ready \subseteq Issuers \cup {None}
    OBVIOUS
  <2>3. partition_issuers \subseteq Issuers
    BY PartitionIssuers DEF CurInv
  <2> HIDE DEF ready
  <2>4. /\ DOMAIN t = DOMAIN l[p] /\ t.scope = l[p].scope
        /\ t.iss = partition_issuers /\ t.ready = ready
    BY <1>2 DEF AllFields
  <2> HIDE DEF t
  <2>5. ScopeOK(t)
    BY <1>2, <2>2, <2>3, <2>4 DEF ScopeOK
  <2> QED BY <1>1, <1>3, <2>1, <2>5, OutStep, LeaveCur
<1>11. CASE Next_pass(p)
  <2> DEFINE due == {i \in l[p].iss \cap l[p].ready : ritem[i] \notin Final}
             subject == IF due # {} THEN Min(due) ELSE None
             t == [l[p] EXCEPT !.scope = subject, !.noval = TRUE, !.left = @ - 1,
                               !.ran = TRUE, !.back = "revent"]
             u == [l[p] EXCEPT !.iss = {}, !.ready = {}, !.left = 0, !.res = "none"]
  <2>1. Leave(p) \/ Goto(p, t, "reconcile") \/ Goto(p, u, "plan")
    BY <1>11 DEF Next_pass
  <2>2. subject \in Issuers \cup {None}
    <3>1. due \subseteq Issuers
      BY <1>2 DEF ScopeOK
    <3> HIDE DEF due
    <3>2. due \in SUBSET Nat
      BY <3>1, TruthAssumption
    <3> QED BY <3>1, <3>2, MinOfNaturals
  <2> HIDE DEF subject
  <2>3. /\ DOMAIN t = DOMAIN l[p] /\ t.scope = subject
        /\ t.iss = l[p].iss /\ t.ready = l[p].ready
    BY <1>2 DEF AllFields
  <2>4. /\ DOMAIN u = DOMAIN l[p] /\ u.scope = l[p].scope
        /\ u.iss = {} /\ u.ready = {}
    BY <1>2 DEF AllFields
  <2> HIDE DEF t, u
  <2>5. ScopeOK(t) /\ ScopeOK(u)
    BY <1>2, <2>2, <2>3, <2>4 DEF ScopeOK
  <2> QED BY <1>1, <1>3, <2>1, <2>5, OutStep, LeaveCur
<1>12. CASE Record_pass(p)
  <2> DEFINE t == [l[p] EXCEPT !.scope = None, !.noval = FALSE]
  <2>1. Goto(p, t, "rnext")
    BY <1>12 DEF Record_pass
  <2>2. /\ DOMAIN t = DOMAIN l[p] /\ t.scope = None
        /\ t.iss = l[p].iss /\ t.ready = l[p].ready
    BY <1>2 DEF AllFields
  <2> HIDE DEF t
  <2>3. ScopeOK(t)
    BY <1>2, <2>2 DEF ScopeOK
  <2> QED BY <1>1, <1>3, <2>1, <2>3, OutStep
<1> QED BY <1>4, <1>5, <1>6, <1>7, <1>8, <1>9, <1>10, <1>11, <1>12 DEF F6Step

(* A step that touches no process, no evidence and no record.              *)
LEMMA StillCur ==
  ASSUME CurInv, PipeInv, Unmoved, vruns' = vruns, l' = l
  PROVE  CurInv'
<1>1. Timer \in Procs
  BY RunnerAssumption
<1>2. \A q \in Procs : SameJob(l'[q], l[q])
  BY DEF SameJob
<1>3. ScopeOK(l[Timer]) /\ (Exclusively(l[Timer]) => JobOK(l[Timer]))
  BY <1>1, OneProcess
<1>4. l'[Timer] = l[Timer]
  OBVIOUS
<1>5. PICK s : s = l[Timer]
  OBVIOUS
<1> QED BY <1>1, <1>2, <1>3, <1>4, <1>5, MoveStep

(* A change of the evidence: no pass vouches for it any more, and the job  *)
(* at work, if any, is no longer clean.                                    *)
LEMMA DisturbCur ==
  ASSUME CurInv, PipeInv, EvidenceOK', UNCHANGED <<batches, records>>, passed' = {},
         \A q \in Procs : \/ l'[q] = Touch(q)
                          \/ ScopeOK(l'[q]) /\ ~Exclusively(l'[q])
  PROVE  CurInv'
<1>1. BatchOK'
  <2>1. \A i \in Issuers : Reported(i)' = Reported(i)
    BY DEF Reported
  <2> QED BY <2>1 DEF CurInv, BatchOK
<1>2. ASSUME NEW q \in Procs, l'[q] = Touch(q)
      PROVE  /\ ScopeOK(l'[q])
             /\ Exclusively(l'[q]) => JobOK(l[q])'
  <2>1. ScopeOK(l[q]) /\ (Exclusively(l[q]) => JobOK(l[q]) /\ exclusive = q)
    BY OneProcess
  <2>2. DOMAIN l[q] = AllFields
    BY <2>1, IdleScope DEF ScopeOK
  <2>3. PICK b : b = (l[q].clean /\ exclusive # q)
    OBVIOUS
  <2> DEFINE t == [l[q] EXCEPT !.clean = b]
  <2>4. l'[q] = t
    BY <1>2, <2>3, Zenon DEF Touch
  <2>5. /\ DOMAIN t = DOMAIN l[q] /\ t.scope = l[q].scope /\ t.iss = l[q].iss
        /\ t.ready = l[q].ready /\ t.pc = l[q].pc /\ t.back = l[q].back
        /\ t.sel = l[q].sel /\ t.parts = l[q].parts /\ t.clean = b
    BY <2>2 DEF AllFields
  <2> HIDE DEF t
  <2>6. ScopeOK(l'[q])
    BY <2>1, <2>4, <2>5, ScopeKept
  <2>7. ASSUME Exclusively(l'[q])
        PROVE  JobOK(l[q])'
    <3>1. Exclusively(l[q])
      BY <2>4, <2>5, <2>7 DEF Exclusively
    <3>2. ~b
      BY <2>1, <2>3, <3>1, Zenon
    <3>3. ~l'[q].clean
      BY <2>4, <2>5, <3>2, Zenon
    <3>4. /\ l'[q].pc = l[q].pc /\ l'[q].sel = l[q].sel /\ l'[q].parts = l[q].parts
      BY <2>4, <2>5
    <3> QED BY <2>1, <3>1, <3>3, <3>4 DEF JobOK
  <2> QED BY <2>6, <2>7
<1>3. \A q \in Procs : ScopeOK(l[q])'
  BY <1>2 DEF ScopeOK
<1> QED BY <1>1, <1>2, <1>3 DEF CurInv, Exclusively

(* A document persisted by the slice.                                      *)
LEMMA SliceCur ==
  ASSUME CurInv, PipeInv, NEW p \in Procs, Slice(p)
  PROVE  CurInv'
<1>1. "finish" \in OutPCs
  BY DEF OutPCs, FreePCs
<1>2. ScopeOK(l[p])
  BY OneProcess
<1>3. CASE Goto(p, l[p], "finish") /\ UNCHANGED <<runs, document, passed>>
  <2>1. Unmoved /\ vruns' = vruns
    BY <1>3 DEF Slice, Unmoved, Settled, dataVars
  <2> QED BY <1>1, <1>2, <1>3, <2>1, OutStep
<1>4. CASE /\ due_documents # {} /\ runs' = Append(runs, Min(due_documents))
           /\ passed' = {}
           /\ l' = [q \in Procs |-> IF q = p THEN At(l[p], "finish") ELSE Touch(q)]
  <2>1. due_documents \subseteq Filings
    BY DEF due_documents
  <2>2. Min(due_documents) \in Filings
    BY <1>4, <2>1, MinOfNaturals, TruthAssumption
  <2>3. UNCHANGED <<links, uploaded, batches, records>>
    BY DEF Slice, dataVars
  <2>4. EvidenceOK'
    BY <1>4, <2>2, <2>3 DEF CurInv, EvidenceOK
  <2> DEFINE s == At(l[p], "finish")
  <2>5. ScopeOK(s) /\ s.pc = "finish"
    BY <1>2, AtScope
  <2>6. l'[p] = s /\ \A q \in Procs \ {p} : l'[q] = Touch(q)
    BY <1>4
  <2> HIDE DEF s
  <2>7. ScopeOK(s) /\ ~Exclusively(s)
    BY <2>5 DEF Exclusively
  <2> QED BY <1>4, <2>3, <2>4, <2>6, <2>7, DisturbCur
<1> QED BY <1>3, <1>4 DEF Slice

(* A new issuer decision, a new publication instant.                       *)
LEMMA EvidenceCur ==
  ASSUME CurInv, PipeInv, NEW f \in Filings, link_filing(f) \/ Upload_changed(f)
  PROVE  CurInv'
<1>1. UNCHANGED <<runs, batches, records>> /\ Disturb
  BY DEF link_filing, Upload_changed, dataVars
<1>2. EvidenceOK'
  <2>1. CASE link_filing(f)
    <3>1. PICK i \in Issuers \cup {0} : links' = [links EXCEPT ![f] = Append(@, i)]
      BY <2>1 DEF link_filing
    <3>2. links[f] \in Seq(Issuers \cup {0})
      BY DEF CurInv, EvidenceOK
    <3>3. Append(links[f], i) \in Seq(Issuers \cup {0}) \ {<<>>}
      BY <3>2
    <3>4. links' \in [Filings -> Seq(Issuers \cup {0}) \ {<<>>}]
      BY <3>1, <3>3 DEF CurInv, EvidenceOK
    <3> QED BY <1>1, <2>1, <3>4 DEF link_filing, CurInv, EvidenceOK
  <2>2. CASE Upload_changed(f)
    <3>1. uploaded' \in [Filings -> Nat]
      BY <2>2 DEF Upload_changed, CurInv, EvidenceOK
    <3> QED BY <1>1, <2>2, <3>1 DEF Upload_changed, CurInv, EvidenceOK
  <2> QED BY <2>1, <2>2
<1>3. passed' = {} /\ \A q \in Procs : l'[q] = Touch(q)
  BY <1>1 DEF Disturb
<1> QED BY <1>1, <1>2, <1>3, DisturbCur

(* The frame of a wake-up and the commands.                                *)
LEMMA FrameCur ==
  ASSUME CurInv, PipeInv, NEW p \in Procs,
         \/ Wake(p) \/ acquire(p) \/ Gates(p) \/ finish_wakeup(p)
         \/ Command(p) \/ Command_next(p) \/ Crash(p)
  PROVE  CurInv'
<1>1. Unmoved /\ vruns' = vruns
  BY DEF Wake, acquire, Gates, finish_wakeup, Command, Command_next, Crash, Unmoved,
         Settled, dataVars
<1>2. ScopeOK(l[p]) /\ DOMAIN l[p] = AllFields
  BY OneProcess, IdleScope DEF ScopeOK
<1>3. {"claim", "f6", "finish", "idle", "cnext", "reconcile", "cleanup", "validate"}
        \subseteq OutPCs
  BY DEF OutPCs, FreePCs
<1>4. CASE Wake(p)
  <2> DEFINE t == [Idle EXCEPT !.cmd = "wake"]
  <2>1. Goto(p, t, "claim")
    BY <1>4 DEF Wake
  <2>2. /\ DOMAIN t = DOMAIN Idle /\ t.scope = Idle.scope /\ t.iss = Idle.iss
        /\ t.ready = Idle.ready
    BY IdleScope DEF AllFields
  <2> HIDE DEF t
  <2>3. ScopeOK(t)
    BY <2>2, IdleScope, ScopeKept
  <2> QED BY <1>1, <1>3, <2>1, <2>3, OutStep
<1>5. CASE acquire(p) /\ l[p].raced
  <2>1. Goto(p, Idle, "idle")
    BY <1>5 DEF acquire
  <2> QED BY <1>1, <1>3, <2>1, IdleScope, OutStep
<1>6. CASE acquire(p) /\ ~l[p].raced
  <2> DEFINE s == [l[p] EXCEPT !.pc = "gates"]
  <2>1. /\ l'[p] = s
        /\ \A q \in Procs \ {p} :
              l'[q] = [l[q] EXCEPT !.raced = @ \/ l[q].pc = "claim"]
    BY <1>6 DEF acquire
  <2>2. KeptPass(s, l[p]) /\ s.pc = "gates"
    BY <1>2 DEF KeptPass, AllFields
  <2> HIDE DEF s
  <2>3. ScopeOK(s) /\ ~Exclusively(s)
    BY <1>2, <2>2, ScopeKept DEF KeptPass, Exclusively
  <2>4. ASSUME NEW q \in Procs \ {p}
        PROVE  SameJob(l'[q], l[q])
    <3>1. DOMAIN l[q] = AllFields
      BY OneProcess, IdleScope DEF ScopeOK
    <3>2. PICK b : b = (l[q].raced \/ l[q].pc = "claim")
      OBVIOUS
    <3> DEFINE t == [l[q] EXCEPT !.raced = b]
    <3>3. l'[q] = t
      BY <2>1, <3>2, Zenon
    <3>4. SameJob(t, l[q])
      BY <3>1 DEF SameJob, AllFields
    <3> HIDE DEF t
    <3> QED BY <3>3, <3>4
  <2> QED BY <1>1, <2>1, <2>3, <2>4, MoveStep
<1>7. CASE Gates(p)
  <2> DEFINE t == [l[p] EXCEPT !.armed = arming.armed]
  <2>1. Goto(p, t, "f6") \/ Goto(p, l[p], "finish")
    BY <1>7 DEF Gates
  <2>2. KeptPass(t, l[p]) /\ KeptPass(l[p], l[p])
    BY <1>2 DEF KeptPass, AllFields
  <2> HIDE DEF t
  <2> QED BY <1>1, <1>3, <2>1, <2>2, OutKept
<1>8. CASE finish_wakeup(p) \/ Crash(p)
  <2>1. Goto(p, Idle, "idle")
    BY <1>8 DEF finish_wakeup, Crash
  <2> QED BY <1>1, <1>3, <2>1, IdleScope, OutStep
<1>9. CASE Command(p)
  <2>1. CASE \E wait \in BOOLEAN :
               Goto(p, [Idle EXCEPT !.cmd = "validate", !.todo = pending_runs,
                                    !.wait = wait, !.back = "cnext"], "cnext")
    <3>1. PICK wait \in BOOLEAN :
               Goto(p, [Idle EXCEPT !.cmd = "validate", !.todo = pending_runs,
                                    !.wait = wait, !.back = "cnext"], "cnext")
      BY <2>1
    <3> DEFINE t == [Idle EXCEPT !.cmd = "validate", !.todo = pending_runs,
                                 !.wait = wait, !.back = "cnext"]
    <3>2. /\ DOMAIN t = DOMAIN Idle /\ t.scope = Idle.scope /\ t.iss = Idle.iss
          /\ t.ready = Idle.ready
      BY IdleScope DEF AllFields
    <3> HIDE DEF t
    <3>3. ScopeOK(t)
      BY <3>2, IdleScope, ScopeKept
    <3> QED BY <1>1, <1>3, <3>1, <3>3, OutStep DEF t
  <2>2. CASE \E scope \in Issuers \cup {None}, noval \in BOOLEAN :
               Goto(p, [Idle EXCEPT !.cmd = "reconcile", !.scope = scope,
                                    !.noval = noval], "reconcile")
    <3>1. PICK scope \in Issuers \cup {None}, noval \in BOOLEAN :
               Goto(p, [Idle EXCEPT !.cmd = "reconcile", !.scope = scope,
                                    !.noval = noval], "reconcile")
      BY <2>2
    <3> DEFINE t == [Idle EXCEPT !.cmd = "reconcile", !.scope = scope, !.noval = noval]
    <3>2. /\ DOMAIN t = DOMAIN Idle /\ t.scope = scope /\ t.iss = Idle.iss
          /\ t.ready = Idle.ready
      BY IdleScope DEF AllFields
    <3> HIDE DEF t
    <3>3. ScopeOK(t)
      BY <3>2, IdleScope DEF ScopeOK
    <3> QED BY <1>1, <1>3, <3>1, <3>3, OutStep DEF t
  <2>3. CASE Goto(p, [Idle EXCEPT !.cmd = "cleanup"], "cleanup")
    <3> DEFINE t == [Idle EXCEPT !.cmd = "cleanup"]
    <3>1. /\ DOMAIN t = DOMAIN Idle /\ t.scope = Idle.scope /\ t.iss = Idle.iss
          /\ t.ready = Idle.ready
      BY IdleScope DEF AllFields
    <3> HIDE DEF t
    <3>2. ScopeOK(t)
      BY <3>1, IdleScope, ScopeKept
    <3> QED BY <1>1, <1>3, <2>3, <3>2, OutStep DEF t
  <2> QED BY <1>9, <2>1, <2>2, <2>3 DEF Command
<1>10. CASE Command_next(p)
  <2> DEFINE f == Min(l[p].todo)
             t == [l[p] EXCEPT !.todo = @ \ {f}, !.run = f, !.res = "none"]
  <2>1. Goto(p, Idle, "idle") \/ Goto(p, t, "validate")
    BY <1>10 DEF Command_next
  <2> HIDE DEF f
  <2>2. KeptPass(t, l[p])
    BY <1>2 DEF KeptPass, AllFields
  <2> HIDE DEF t
  <2> QED BY <1>1, <1>3, <2>1, <2>2, OutKept, OutStep, IdleScope
<1> QED BY <1>4, <1>5, <1>6, <1>7, <1>8, <1>9, <1>10

(* Initially nothing is recorded and no issuer reports or should report    *)
(* anything.                                                               *)
LEMMA InitCur ==
  ASSUME Init
  PROVE  CurInv
<1>1. runs = <<>> /\ passed = {} /\ \A p \in Procs : l[p] = Idle
  BY DEF Init
<1>2. links \in [Filings -> Seq(Issuers \cup {0}) \ {<<>>}]
  <2>1. \A f \in Filings : <<FirstIssuer[f]>> \in Seq(Issuers \cup {0}) \ {<<>>}
    BY RunnerAssumption
  <2> QED BY <2>1 DEF Init
<1>3. EvidenceOK
  BY <1>2 DEF EvidenceOK, Init
<1>4. BatchOK
  BY DEF BatchOK, Init
<1>5. \A p \in Procs : ScopeOK(l[p]) /\ ~Exclusively(l[p])
  BY <1>1, IdleScope, IdleOK
<1> QED BY <1>1, <1>3, <1>4, <1>5 DEF CurInv

(* Every step keeps the invariant.                                         *)
LEMMA NextCur ==
  ASSUME CurInv, PipeInv, [Next]_vars
  PROVE  CurInv'
<1>1. ASSUME NEW p \in Procs, Step(p) \/ Wake(p) \/ Command(p) \/ Crash(p)
      PROVE  CurInv'
  BY <1>1, StoreStepCur, F6StepCur, SliceCur, FrameCur DEF Step, RunnerStep
<1>2. ASSUME NEW f \in Filings, link_filing(f) \/ Upload_changed(f)
      PROVE  CurInv'
  BY <1>2, EvidenceCur
<1>3. CASE requeue \/ Owner \/ Disarm
  <2>1. Unmoved /\ vruns' = vruns /\ l' = l
    BY <1>3 DEF requeue, Owner, Disarm, dataVars, Unmoved, Settled
  <2> QED BY <2>1, StillCur
<1>4. CASE UNCHANGED vars
  <2>1. Unmoved /\ vruns' = vruns /\ l' = l
    BY <1>4 DEF vars, storeVars, Unmoved, Settled
  <2> QED BY <2>1, StillCur
<1> QED BY <1>1, <1>2, <1>3, <1>4 DEF Next

(* A reconcile pass of financial_truth_store/jobs.py that ended            *)
(* 'succeeded', with no evidence changed since it started, leaves every    *)
(* issuer of its scope with exactly the facts the evidence implies.        *)
THEOREM PassesAreCurrent == Spec => []SucceededIsCurrent
<1>1. Init => PipeInv /\ CurInv
  BY InitInv, InitCur
<1>2. (PipeInv /\ CurInv) /\ [Next]_vars => (PipeInv /\ CurInv)'
  BY NextInv, NextCur
<1>3. CurInv => SucceededIsCurrent
  BY DEF CurInv, UpToDate, SucceededIsCurrent
<1> QED BY <1>1, <1>2, <1>3, PTL DEF Spec
=============================================================================
