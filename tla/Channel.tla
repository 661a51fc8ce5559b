------------------------------ MODULE Channel ------------------------------
(***************************************************************************)
(* What the dispatcher asks of a channel (Notifier.send), and what the     *)
(* module DurableOutbox assumes of it: a call that returns has handed over *)
(* its notification exactly once, one that raises at most once, and every  *)
(* call ends.  A caller that is cancelled leaves a call that may still     *)
(* hand it over, once, without anybody being told.                         *)
(***************************************************************************)
CONSTANT Tasks

VARIABLES
    call,       \* of each task: none, open, or accepted; left when nobody waits
    result      \* how its last call ended

vars == <<call, result>>

Init ==
    /\ call = [t \in Tasks |-> "none"]
    /\ result = [t \in Tasks |-> "none"]

Moves(t, from, to) == call[t] = from /\ call' = [call EXCEPT ![t] = to]

Call(t) ==
    /\ Moves(t, "none", "open")
    /\ result' = [result EXCEPT ![t] = "none"]

Accept(t) ==
    /\ Moves(t, "open", "accepted") \/ Moves(t, "left", "left accepted")
    /\ UNCHANGED result

Return(t) ==
    /\ Moves(t, "accepted", "none")
    /\ result' = [result EXCEPT ![t] = "sent"]

Raise(t) ==
    /\ Moves(t, "open", "none") \/ Moves(t, "accepted", "none")
    /\ result' = [result EXCEPT ![t] = "raised"]

End(t) == Return(t) \/ Raise(t)

(* The tasks are cancelled together when the worker stops.  A process that *)
(* is killed takes what is left of its calls with it.                      *)
Left(place) ==
    CASE place = "open" -> "left" [] place = "accepted" -> "left accepted" [] OTHER -> place

LeaveAll == call' = [t \in Tasks |-> Left(call[t])] /\ UNCHANGED result

Forget(t) ==
    /\ Moves(t, "left", "none") \/ Moves(t, "left accepted", "none")
    /\ UNCHANGED result

ForgetAll == call' = [t \in Tasks |-> "none"] /\ UNCHANGED result

Next ==
    \/ \E t \in Tasks : Call(t) \/ Accept(t) \/ End(t) \/ Forget(t)
    \/ LeaveAll \/ ForgetAll

Spec == Init /\ [][Next]_vars

(* No call is open for ever, whatever the server does or fails to do. *)
Waiting(t) == call[t] \in {"open", "accepted"}
Ends == \A t \in Tasks : []<>~Waiting(t)

Contract == Spec /\ Ends

=============================================================================
