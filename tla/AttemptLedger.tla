---------------------------- MODULE AttemptLedger ----------------------------
(***************************************************************************)
(* What the backfill promises CSE and its owner about requests, without    *)
(* slices, leases, locks or gates: requests are made one at a time, none   *)
(* while a refusal awaits the owner's review, and the outcome on record is *)
(* the answer that was heard whenever the answer was made durable.         *)
(***************************************************************************)
CONSTANTS Items, None

VARIABLES
    open,     \* items whose latest request has no outcome yet
    heard,    \* the durable copy of the answer to an open request
    outcome,  \* the outcome on record for the latest request of an item
    halted    \* a block awaits the owner

Init ==
    /\ open = {} /\ halted = FALSE
    /\ heard = [i \in Items |-> None]
    /\ outcome = [i \in Items |-> "none"]

Intend(i) ==
    /\ open = {} /\ ~halted
    /\ open' = {i}
    /\ outcome' = [outcome EXCEPT ![i] = "open"]
    /\ UNCHANGED <<heard, halted>>

Hear(i) ==
    /\ i \in open /\ heard[i] = None
    /\ \E a \in {"ok", "retryable", "terminal", "block"} :
          heard' = [heard EXCEPT ![i] = a]
    /\ UNCHANGED <<open, outcome, halted>>

(* A damaged copy is never guessed at: such a request stays open.          *)
Damage(i) ==
    /\ i \in open /\ heard[i] # None
    /\ heard' = [heard EXCEPT ![i] = "corrupt"]
    /\ UNCHANGED <<open, outcome, halted>>

Close(i) ==
    /\ i \in open
    /\ \E a \in {"ok", "retryable", "terminal", "block", "elsewhere",
                 "lost", "unrecorded"} :
          /\ heard[i] \in {None, a}
          /\ outcome' = [outcome EXCEPT ![i] = a]
          /\ halted' = (halted \/ a = "block")
    /\ open' = open \ {i}
    /\ heard' = [heard EXCEPT ![i] = None]

(* Market capture may be refused as well: one relationship with CSE.       *)
OtherBlock ==
    /\ ~halted
    /\ halted' = TRUE
    /\ UNCHANGED <<open, heard, outcome>>

Acknowledge ==
    /\ halted
    /\ halted' = FALSE
    /\ UNCHANGED <<open, heard, outcome>>

Next ==
    \/ \E i \in Items : Intend(i) \/ Hear(i) \/ Damage(i) \/ Close(i)
    \/ OtherBlock \/ Acknowledge

Spec == Init /\ [][Next]_<<open, heard, outcome, halted>>
=============================================================================
