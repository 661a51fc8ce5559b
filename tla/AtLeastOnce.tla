---------------------------- MODULE AtLeastOnce ----------------------------
(***************************************************************************)
(* What the durable outbox promises, with no database, no tasks and no     *)
(* pages: a notification that was promised stays owed until it is settled, *)
(* and it is settled only after some channel has really accepted it.       *)
(* Accepting twice is allowed, losing a promise is not.                    *)
(***************************************************************************)
CONSTANT Intents

VARIABLES promised,   \* the intents ever committed
          owed,       \* the promised intents not settled yet
          accepted    \* the intents some channel has accepted at least once

vars == <<promised, owed, accepted>>

Init == promised = {} /\ owed = {} /\ accepted = {}

(* One check commits any set of new intents together, or none of them. *)
Promise(new) ==
    /\ new \cap promised = {}
    /\ promised' = promised \cup new
    /\ owed' = owed \cup new
    /\ UNCHANGED accepted

Accept(i) ==
    /\ i \in promised
    /\ accepted' = accepted \cup {i}
    /\ UNCHANGED <<promised, owed>>

Settle(i) ==
    /\ i \in owed \cap accepted
    /\ owed' = owed \ {i}
    /\ UNCHANGED <<promised, accepted>>

Next ==
    \/ \E new \in SUBSET Intents : Promise(new)
    \/ \E i \in Intents : Accept(i) \/ Settle(i)

Spec == Init /\ [][Next]_vars

=============================================================================
