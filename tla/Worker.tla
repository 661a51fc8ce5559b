------------------------------- MODULE Worker -------------------------------
(***************************************************************************)
(* The worker process of web_checker/cli.py put together: the executions   *)
(* that core/scheduler.py starts, each of them a check with its retries,   *)
(* the dispatch of notifications that belongs to a check, and the health   *)
(* accounting that follows it (OperationalAlerts, an instance of which     *)
(* keeps job_status and the alerts here).  The tasks of all jobs share one *)
(* event loop: nothing happens between a store call and the next send, so  *)
(* a send and the update of its row are the steps of a dispatch.  When an  *)
(* execution starts, and how long a retry waits, is Scheduler's subject.   *)
(***************************************************************************)
EXTENDS Integers, FiniteSets, Sequences, SequencesExt, FiniteSetsExt

CONSTANTS
    JobOrder, OpChannels, AlertAfter, MaxCount, MaxAlertId, Null,  \* OperationalAlerts
    MaxAttempts,   \* RetryPolicy.max_attempts
    Ids            \* names for the ids of notifications that coexist

ASSUME WorkerAssumption ==
    /\ MaxAttempts \in Nat \ {0}
    /\ AlertAfter \in Nat \ {0} /\ MaxCount \in Nat /\ MaxCount >= AlertAfter
    /\ MaxAlertId \in Nat /\ Null \notin Nat
    /\ JobOrder \in Seq(Range(JobOrder))
    /\ OpChannels \in Seq(Range(OpChannels)) /\ IsInjective(OpChannels)

VARIABLES
    known, failures, failureActive, deliveryActive, alerts, pc, page,
    outbox,    \* the pending rows of notification_outbox, in the order of their ids
    at,        \* where the execution of a job is
    attempt,   \* of _execute_with_retries
    listed,    \* the ids dispatch_pending has not dealt with yet
    outage     \* drivers may fail and channels refuse what they are sent

health == <<known, failures, failureActive, deliveryActive, alerts, pc, page>>
execution == <<at, attempt, listed>>
vars == <<health, outbox, execution, outage>>

Jobs == Range(JobOrder)
RowsOf(j) == {outbox[i] : i \in {k \in DOMAIN outbox : outbox[k].job = j}}
Pending == {outbox[i].id : i \in DOMAIN outbox}

(* What raise_delivery_backlog_alerts selects: MAX(attempts), or no row. *)
Backlog ==
    [j \in Jobs |-> IF RowsOf(j) = {} THEN Null ELSE Max({r.attempts : r \in RowsOf(j)})]

Health == INSTANCE OperationalAlerts WITH backlog <- Backlog, Faults <- {"abort", "refuse"}

-----------------------------------------------------------------------------
Init ==
    /\ outbox = << >>
    /\ at = [j \in Jobs |-> "checking"]
    /\ attempt = [j \in Jobs |-> 1]
    /\ listed = [j \in Jobs |-> << >>]
    /\ Health!Init
    /\ outage = TRUE

Goto(j, place) == at' = [at EXCEPT ![j] = place]

(* Mutant: one attempt more than max_attempts. *)
RaisedOnceMore(j) ==
    IF attempt[j] <= MaxAttempts
    THEN Goto(j, "checking") /\ attempt' = [attempt EXCEPT ![j] = @ + 1]
    ELSE Goto(j, "failed") /\ UNCHANGED attempt

(* check raised: there is another attempt, or the last one has failed. *)
Raised(j) ==
    IF attempt[j] < MaxAttempts
    THEN Goto(j, "checking") /\ attempt' = [attempt EXCEPT ![j] = @ + 1]
    ELSE Goto(j, "failed") /\ UNCHANGED attempt

DriverFails(j) ==
    /\ outage
    /\ at[j] = "checking"
    /\ Raised(j)
    /\ UNCHANGED <<health, outbox, listed, outage>>

Taken == Pending \cup UNION {Range(listed[j]) : j \in Jobs}

(* A new notification comes last; the names of the ids are of no account,  *)
(* so it takes the first that is neither pending nor listed.               *)
Inserted(j) ==
    \/ UNCHANGED outbox
    \/ \E id \in Ids \ Taken :
          /\ \A k \in Ids : k < id => k \in Taken
          /\ outbox' = Append(outbox, [id |-> id, job |-> j, attempts |-> 0])

(* Mutant: what was refused once is not listed again. *)
RecordSuccessOnce(j) ==
    LET Fresh(r) == r.attempts = 0 IN
    /\ at[j] = "checking"
    /\ Health!ResetHealth(j)
    /\ Inserted(j)
    /\ listed' = [listed EXCEPT ![j] =
          LET fresh == SelectSeq(outbox', Fresh) IN [i \in DOMAIN fresh |-> fresh[i].id]]
    /\ Goto(j, "dispatching")
    /\ pc' = [pc EXCEPT ![j] = "notifying"]
    /\ UNCHANGED <<page, attempt, outage>>

(* record_success, and dispatch_pending lists what is pending after it. *)
RecordSuccess(j) ==
    /\ at[j] = "checking"
    /\ Health!ResetHealth(j)
    /\ Inserted(j)
    /\ listed' = [listed EXCEPT ![j] = [i \in DOMAIN outbox' |-> outbox'[i].id]]
    /\ Goto(j, "dispatching")
    /\ pc' = [pc EXCEPT ![j] = "notifying"]
    /\ UNCHANGED <<page, attempt, outage>>

Dispatching(j) == at[j] = "dispatching" /\ listed[j] # << >>

(* The row dispatch_pending is at, while it is pending. *)
Current(j) ==
    {i \in DOMAIN outbox : Dispatching(j) /\ outbox[i].id = Head(listed[j])}

(* The channel accepted the notification and its row is marked. *)
Deliver(j) ==
    /\ \E i \in Current(j) : outbox' = RemoveAt(outbox, i)
    /\ listed' = [listed EXCEPT ![j] = Tail(@)]
    /\ UNCHANGED <<health, at, attempt, outage>>

(* Mutant: the attempt is counted for every pending row. *)
RefuseAll(j) ==
    /\ outage
    /\ Current(j) # {}
    /\ outbox' = [i \in DOMAIN outbox |->
                    [outbox[i] EXCEPT !.attempts = Health!Capped(@ + 1)]]
    /\ listed' = [listed EXCEPT ![j] = Tail(@)]
    /\ UNCHANGED <<health, at, attempt, outage>>

(* The channel raised and the attempt is counted. *)
Refuse(j) ==
    /\ outage
    /\ \E i \in Current(j) :
          outbox' = [outbox EXCEPT ![i].attempts = Health!Capped(@ + 1)]
    /\ listed' = [listed EXCEPT ![j] = Tail(@)]
    /\ UNCHANGED <<health, at, attempt, outage>>

(* Another dispatcher delivered the row meanwhile.  The StorageError of    *)
(* the update leaves check like an error of the driver does, although the  *)
(* snapshot is recorded, and the rest of the page is given up.             *)
DispatchRaises(j) ==
    /\ Dispatching(j) /\ Current(j) = {}
    /\ Raised(j)
    /\ listed' = [listed EXCEPT ![j] = << >>]
    /\ pc' = [pc EXCEPT ![j] = "idle"]
    /\ UNCHANGED <<known, failures, failureActive, deliveryActive, alerts, page,
                   outbox, outage>>

(* check returned; check_failed after the last attempt. *)
DeliveryBacklog(j) ==
    /\ at[j] = "dispatching" /\ listed[j] = << >>
    /\ UNCHANGED <<outbox, attempt, listed, outage>>
    /\ Health!DeliveryBacklog(j)
    /\ Goto(j, "alerting")

CheckFailed(j) ==
    /\ at[j] = "failed"
    /\ UNCHANGED <<outbox, attempt, listed, outage>>
    /\ Health!CheckFailed(j)
    /\ Goto(j, "alerting")

(* Mutant: an alert that was accepted is not marked. *)
DispatchAlertUnmarked(j) ==
    /\ at[j] = "alerting"
    /\ UNCHANGED <<outbox, execution, outage>>
    /\ \/ Health!SendAccepted(j)
       \/ /\ pc[j] = "accepted"
          /\ page' = [page EXCEPT ![j] = @ \ Health!Current(j)]
          /\ pc' = [pc EXCEPT ![j] = "dispatching"]
          /\ UNCHANGED <<known, failures, failureActive, deliveryActive, alerts>>

(* The alerts are dispatched; the execution ends with it, or with the      *)
(* StorageError of an alert that was delivered or withdrawn meanwhile, and *)
(* the next execution of the job begins at its first attempt.              *)
DispatchAlert(j) ==
    /\ at[j] = "alerting"
    /\ UNCHANGED <<outbox, execution, outage>>
    /\ \/ Health!SendAccepted(j) \/ (outage /\ Health!SendRefused(j))
       \/ Health!MarkDelivered(j) \/ Health!RecordFailure(j)

Finish(j) ==
    /\ at[j] = "alerting"
    /\ UNCHANGED <<outbox, listed, outage>>
    /\ Health!Return(j) \/ Health!UpdateFails(j)
    /\ Goto(j, "checking")
    /\ attempt' = [attempt EXCEPT ![j] = 1]

Step(j) ==
    \/ DriverFails(j) \/ RecordSuccess(j)
    \/ Deliver(j) \/ Refuse(j) \/ DispatchRaises(j)
    \/ DeliveryBacklog(j) \/ CheckFailed(j) \/ DispatchAlert(j) \/ Finish(j)

OutageEnds ==
    /\ outage
    /\ outage' = FALSE
    /\ UNCHANGED <<health, outbox, execution>>

Next == OutageEnds \/ \E j \in Jobs : Step(j)

Spec == Init /\ [][Next]_vars

(* Short of the bound on alert ids Step(j) is always enabled, so weak       *)
(* fairness of it says that the task of each job moves again and again.    *)
(* The outage may last for ever.                                           *)
Fairness ==
    \A j \in Jobs : []<><<TRUE>>_<<at[j], attempt[j], listed[j], pc[j], page[j]>>

FairSpec == Spec /\ Fairness

-----------------------------------------------------------------------------
TypeOK ==
    /\ \A i \in DOMAIN outbox :
          outbox[i] \in [id : Ids, job : Jobs, attempts : 0..MaxCount]
    /\ at \in [Jobs -> {"checking", "failed", "dispatching", "alerting"}]
    /\ attempt \in [Jobs -> 1..MaxAttempts]
    /\ listed \in [Jobs -> Seq(Ids)]
    /\ Health!TypeOK

(* The composition keeps the accounts OperationalAlerts keeps: whatever the *)
(* retries, the dispatch and its errors do, a job's failures, its alerts    *)
(* and their withdrawal are those of the accounting alone.                  *)
KeepsAccounts == Health!Spec

(* status --health reports the job. *)
Degraded(j) == failures[j] > 0 \/ \E r \in RowsOf(j) : r.attempts > 0

(* Once drivers and channels work, no job stays degraded: the errors that   *)
(* two dispatchers cause each other do not keep its failures counted, and   *)
(* a notification that was refused does not wait for ever behind others.    *)
HealthRecovers == \A j \in Jobs : (~outage /\ Degraded(j)) ~> ~Degraded(j)

(* An alert does not stay pending for ever once its channel works, whether  *)
(* its job goes on failing or not and whoever dispatches it.                *)
Waiting(key) == \E n \in Health!Pending : alerts[n].key = key
AlertsSettle == \A key \in Health!Keys : (~outage /\ Waiting(key)) ~> ~Waiting(key)
=============================================================================
