---------------------------- MODULE MCFailedCheck ----------------------------
(***************************************************************************)
(* What DESIGN.md says of a failed check, for the worker of MCWorker.  A   *)
(* history variable remembers whether the attempt a job is at, or the last *)
(* one it made, has recorded its snapshot.                                 *)
(***************************************************************************)
EXTENDS MCWorker

VARIABLE recorded   \* the attempt has recorded its snapshot

HistoryInit == Init /\ recorded = [j \in Jobs |-> FALSE]

HistoryNext ==
    /\ Next
    /\ recorded' = [j \in Jobs |->
          CASE at'[j] = "checking" -> FALSE
            [] at'[j] = "dispatching" -> TRUE
            [] OTHER -> recorded[j]]

HistorySpec == HistoryInit /\ [][HistoryNext]_<<vars, recorded>>

(* DESIGN.md: a failed check records a failure but does not replace the     *)
(* last good state.  Here: when a failure is counted, and its alert raised, *)
(* the attempt that failed has not recorded a snapshot.                     *)
FailureKeepsState ==
    [][\A j \in Jobs : failures'[j] > failures[j] => ~recorded[j]]_<<vars, recorded>>
=============================================================================
