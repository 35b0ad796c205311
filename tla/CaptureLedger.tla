---------------------------- MODULE CaptureLedger ----------------------------
(***************************************************************************)
(* What P2's run ledger promises whoever reads it (the scheduler, the      *)
(* owner), without processes, locks, sessions or a spool: one run at a     *)
(* time is running, none begins to capture while a block awaits the owner, *)
(* a run says succeeded or partial only if it shows its date's session,    *)
(* and a date is recorded missed only while no run of it says so.          *)
(***************************************************************************)
EXTENDS Naturals

CONSTANTS Runs, Dates, None

VARIABLE ledger     \* [Runs -> what the ledger says of the run]

Row(state, kind, date) ==
    [state |-> state, kind |-> kind, date |-> date, shown |-> FALSE,
     acked |-> FALSE]

Init == ledger = [r \in Runs |-> Row("none", None, 0)]

Running == {r \in Runs : ledger[r].state = "running"}

(* Blocked, and the owner has not acknowledged it.                         *)
Unreviewed == {r \in Runs : ledger[r].state = "blocked" /\ ~ledger[r].acked}

(* A run of the date holds its session, complete or not.                   *)
Taken(d) == \E r \in Runs : /\ ledger[r].kind = "market_capture"
                            /\ ledger[r].date = d
                            /\ ledger[r].state \in {"succeeded", "partial"}

Becomes(r, state) == ledger' = [ledger EXCEPT ![r].state = state]

(* Some runs of dead processes are given up.                               *)
WithoutRuns(dead) ==
    [r \in Runs |-> IF r \in dead THEN [ledger[r] EXCEPT !.state = "abandoned"]
                    ELSE ledger[r]]

Abandon ==
    \E dead \in (SUBSET Running) \ {{}} : ledger' = WithoutRuns(dead)

(* Before a run is created every dead one has been given up.               *)
Create(r) ==
    /\ ledger[r].state = "none"
    /\ \E kind \in {"market_capture", "metadata_sweep", "missed_record"}, d \in Dates :
          /\ IF kind = "missed_record" THEN ~Taken(d) ELSE Unreviewed = {}
          /\ ledger' = [WithoutRuns(Running) EXCEPT
                ![r] = Row("pending", kind, d)]

Miss(r) ==
    /\ ledger[r].state = "pending" /\ ledger[r].kind = "missed_record"
    /\ Running = {} /\ ~Taken(ledger[r].date)
    /\ Becomes(r, "missed")

(* A new or resumed capture or sweep makes requests.                       *)
Capture(r) ==
    /\ ledger[r].state \in {"pending", "partial", "failed", "abandoned", "blocked"}
    /\ ledger[r].kind # "missed_record"
    /\ Running = {} /\ Unreviewed = {}
    /\ Becomes(r, "running")

(* Derived again from what is archived: no request, so no gate.            *)
Rederive(r) ==
    /\ ledger[r].state \in {"partial", "failed", "abandoned"}
    /\ ledger[r].kind = "market_capture" /\ ledger[r].shown
    /\ Running = {}
    /\ Becomes(r, "running")

(* The session of its date is archived, at once or by a later recovery.    *)
Show(r) ==
    /\ ledger[r].state \notin {"none", "pending", "missed"}
    /\ ledger[r].kind # "missed_record" /\ ~ledger[r].shown
    /\ ledger' = [ledger EXCEPT ![r].shown = TRUE]

Settle(r) ==
    /\ Running = {r}
    /\ \E state \in {"succeeded", "partial", "failed", "blocked"} :
          /\ ledger[r].kind = "market_capture" =>
               /\ state \in {"succeeded", "partial"} => ledger[r].shown
               /\ state = "failed" => ~ledger[r].shown
          /\ Becomes(r, state)

Acknowledge(r) ==
    /\ r \in Unreviewed
    /\ ledger' = [ledger EXCEPT ![r].acked = TRUE]

Next ==
    \/ Abandon
    \/ \E r \in Runs : \/ Create(r) \/ Miss(r) \/ Capture(r) \/ Rederive(r)
                      \/ Show(r) \/ Settle(r) \/ Acknowledge(r)

Spec == Init /\ [][Next]_ledger
=============================================================================
