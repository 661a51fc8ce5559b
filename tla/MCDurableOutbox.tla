-------------------------- MODULE MCDurableOutbox --------------------------
(* Instances of DurableOutbox: one or two park days, one or two jobs.      *)
EXTENDS DurableOutbox, TLC

CONSTANTS o1, o2, j1, j2, t1, t2, email, console

(* One task per job, as the worker runs them. *)
OneTaskPerJob == (t1 :> {j1}) @@ (t2 :> {j2})

(* A worker and a one-shot check of the same job. *)
TwoTasksOneJob == (t1 :> {j1}) @@ (t2 :> {j1})

(* A worker, and one-shot checks of its job and of another one. *)
WorkerAndCommand == (t1 :> {j1}) @@ (t2 :> {j1, j2})

EveryChange == [j \in Jobs |-> TransitionTypes]

(* The first job reports what goes, the second one what is new. *)
DifferentPlans ==
    (j1 :> {"disappeared"}) @@ (j2 :> {"initially_available", "appeared"})

EveryChannel == [j \in Jobs |-> Channels]

Available == [o \in Opportunities |-> "available"]
Unavailable == [o \in Opportunities |-> "unavailable"]
TwoSnapshots == {Available, Unavailable}

(* A day that is taken off the list while another one is added, and back. *)
Replaced ==
    {(o1 :> "available") @@ (o2 :> Absent), (o1 :> Absent) @@ (o2 :> "available")}

(* Exchanging the two days maps this set to itself, and nothing else tells  *)
(* them apart.                                                              *)
DaysAlike == Permutations({o1, o2})
=============================================================================
