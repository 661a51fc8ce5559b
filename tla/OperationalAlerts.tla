------------------------- MODULE OperationalAlerts -------------------------
(***************************************************************************)
(* Health accounting and operational alerts:                               *)
(*   web_checker/storage.py                    job_status and              *)
(*                                             operational_alert_outbox    *)
(*   web_checker/notifications/operational.py  OperationalAlertService     *)
(*   web_checker/core/scheduler.py             the calls that drive them   *)
(* Each job has one scheduled task; all tasks share the two tables and     *)
(* each of them dispatches whatever alert is pending, its own or not.  A   *)
(* one-shot check of another process records successes on the same file.   *)
(***************************************************************************)
EXTENDS Integers, FiniteSets, Sequences, SequencesExt

CONSTANTS
    JobOrder,      \* the job ids as GROUP BY s.job_id returns them
    OpChannels,    \* WEB_CHECKER_OPERATIONAL_CHANNELS, in order
    AlertAfter,    \* WEB_CHECKER_FAILURE_ALERT_AFTER
    Faults,        \* which of "abort", "refuse" and "oneshot" may happen
    MaxCount,      \* bound: counters stay there once they reach it
    MaxAlertId,    \* bound on the ids given to alert rows
    Null           \* no pending notification

ASSUME AlertAssumption ==
    /\ JobOrder \in Seq(Range(JobOrder)) /\ OpChannels \in Seq(Range(OpChannels))
    /\ AlertAfter \in Nat \ {0}
    /\ MaxCount \in Nat /\ MaxCount >= AlertAfter
    /\ MaxAlertId \in Nat
    /\ Null \notin Nat
    /\ IsInjective(OpChannels)   \* a channel named twice breaks UNIQUE (alert_key, channel)

Jobs == Range(JobOrder)
Channels == Range(OpChannels)
Kinds == {"check-failure", "delivery-backlog"}
Key(kind, job) == [kind |-> kind, job |-> job]

VARIABLES
    known,            \* jobs that have a job_status row
    failures,         \* consecutive_failures
    failureActive,    \* failure_alert_active
    deliveryActive,   \* delivery_alert_active
    backlog,          \* MAX(attempts) of a job's pending notifications, or Null
    alerts,           \* operational_alert_outbox, by id
    pc, page          \* each job's task: where it is, the alerts it still has listed

status == <<known, failures, failureActive, deliveryActive>>
vars == <<status, backlog, alerts, pc, page>>

Keys == [kind : Kinds, job : Jobs]
Alert == [key : Keys, channel : Channels, delivered : BOOLEAN]

Largest(ids) == CHOOSE n \in ids \cup {0} : \A m \in ids : m <= n
Pending == {n \in DOMAIN alerts : ~alerts[n].delivered}
Without(table, key) == [n \in {m \in DOMAIN table : table[m].key # key} |-> table[n]]
Raised(table, key) == \E n \in DOMAIN table : table[n].key = key

(* One row per channel, under the largest id plus one and so on. *)
Enqueue(table, key) ==
    LET top == Largest(DOMAIN table)
    IN  [n \in DOMAIN table \cup (top + 1)..(top + Len(OpChannels)) |->
            IF n \in DOMAIN table THEN table[n]
            ELSE [key |-> key, channel |-> OpChannels[n - top], delivered |-> FALSE]]

(* UNIQUE (alert_key, channel); a violation rolls the transaction back. *)
Unique(table) ==
    \A m, n \in DOMAIN table :
        (table[m].key = table[n].key /\ table[m].channel = table[n].channel) => m = n

(* What a transaction may leave behind, within the bound on ids. *)
Committed(table) == Unique(table) /\ DOMAIN table \subseteq 1..MaxAlertId

Capped(n) == IF n > MaxCount THEN MaxCount ELSE n

-----------------------------------------------------------------------------
Init ==
    /\ known = {}
    /\ failures = [j \in Jobs |-> 0]
    /\ failureActive = [j \in Jobs |-> FALSE]
    /\ deliveryActive = [j \in Jobs |-> FALSE]
    /\ backlog = [j \in Jobs |-> Null]
    /\ alerts = [n \in {} |-> Null]
    /\ pc = [j \in Jobs |-> "idle"]
    /\ page = [j \in Jobs |-> {}]

(* Mutant: a success leaves failure_alert_active set. *)
ResetHealthKeepingFlag(j) ==
    /\ known' = known \cup {j}
    /\ failures' = [failures EXCEPT ![j] = 0]
    /\ alerts' = Without(alerts, Key("check-failure", j))
    /\ UNCHANGED <<failureActive, deliveryActive>>

(* record_success: the health columns are reset and the alert withdrawn. *)
ResetHealth(j) ==
    /\ known' = known \cup {j}
    /\ failures' = [failures EXCEPT ![j] = 0]
    /\ failureActive' = [failureActive EXCEPT ![j] = FALSE]
    /\ alerts' = Without(alerts, Key("check-failure", j))
    /\ UNCHANGED deliveryActive

(* The check records its snapshot, with or without new notifications. *)
RecordSuccess(j) ==
    /\ pc[j] = "idle"
    /\ ResetHealth(j)
    /\ \/ UNCHANGED backlog
       \/ backlog[j] = Null /\ backlog' = [backlog EXCEPT ![j] = 0]
    /\ pc' = [pc EXCEPT ![j] = "notifying"]
    /\ UNCHANGED page

(* The same in the process of a one-shot check. *)
OneShotSuccess(j) ==
    /\ "oneshot" \in Faults
    /\ ResetHealth(j)
    /\ \/ UNCHANGED backlog
       \/ backlog[j] = Null /\ backlog' = [backlog EXCEPT ![j] = 0]
    /\ UNCHANGED <<pc, page>>

(* What a dispatch of notifications does to a backlog (DurableOutbox): one *)
(* more failed attempt, or the most tried rows, or all of them, delivered. *)
NotificationsTried(j) ==
    /\ "oneshot" \in Faults \/ \E k \in Jobs : pc[k] = "notifying"
    /\ backlog[j] # Null
    /\ \E tried \in {Null} \cup 0..Capped(backlog[j] + 1) :
          backlog' = [backlog EXCEPT ![j] = tried]
    /\ UNCHANGED <<status, alerts, pc, page>>

(* The alerts a task lists right after its transaction. *)
Listed(table) ==
    {[id |-> n, key |-> table[n].key, channel |-> table[n].channel] :
        n \in {m \in DOMAIN table : ~table[m].delivered}}

(* Mutant: the threshold is compared with the count before the failure.    *)
CountFailureLate(j) ==
    LET raised == failures[j] >= AlertAfter /\ ~failureActive[j]
        table == IF raised THEN Enqueue(alerts, Key("check-failure", j)) ELSE alerts
    IN
    /\ Committed(table)
    /\ known' = known \cup {j}
    /\ failures' = [failures EXCEPT ![j] = Capped(@ + 1)]
    /\ failureActive' = [failureActive EXCEPT ![j] = @ \/ raised]
    /\ alerts' = table

(* record_check_failure; the alert is raised once per streak of failures. *)
CountFailure(j) ==
    LET count == Capped(failures[j] + 1)
        raised == count >= AlertAfter /\ ~failureActive[j]
        table == IF raised THEN Enqueue(alerts, Key("check-failure", j)) ELSE alerts
    IN
    /\ Committed(table)
    /\ known' = known \cup {j}
    /\ failures' = [failures EXCEPT ![j] = count]
    /\ failureActive' = [failureActive EXCEPT ![j] = @ \/ raised]
    /\ alerts' = table

(* check_failed: the last attempt of a scheduled check failed.  Up to the  *)
(* first send there is no suspension point, so listing belongs to it.      *)
CheckFailed(j) ==
    /\ pc[j] = "idle"
    /\ CountFailure(j)
    /\ page' = [page EXCEPT ![j] = Listed(alerts')]
    /\ pc' = [pc EXCEPT ![j] = "dispatching"]
    /\ UNCHANGED <<deliveryActive, backlog>>

Backlogged(j) == backlog[j] # Null /\ backlog[j] >= AlertAfter

(* Mutant: an alert is withdrawn whenever it was raised before. *)
EvaluateBacklogWithdrawing(table, j) ==
    LET key == Key("delivery-backlog", j)
    IN  CASE j \in known /\ Backlogged(j) /\ ~deliveryActive[j] -> Enqueue(table, key)
          [] j \in known /\ deliveryActive[j] -> Without(table, key)
          [] OTHER -> table

(* One turn of the loop of raise_delivery_backlog_alerts. *)
EvaluateBacklog(table, j) ==
    LET key == Key("delivery-backlog", j)
    IN  CASE j \in known /\ Backlogged(j) /\ ~deliveryActive[j] -> Enqueue(table, key)
          [] j \in known /\ ~Backlogged(j) /\ deliveryActive[j] -> Without(table, key)
          [] OTHER -> table

(* The loop: the table after each of its turns. *)
BacklogTables(table) ==
    LET t[i \in 0..Len(JobOrder)] ==
            IF i = 0 THEN table ELSE EvaluateBacklog(t[i - 1], JobOrder[i])
    IN  t

(* delivery_backlog, after a successful check: every job is evaluated. *)
DeliveryBacklog(j) ==
    LET table == BacklogTables(alerts)[Len(JobOrder)]
    IN
    /\ pc[j] = "notifying"
    /\ Committed(table)
    /\ alerts' = table
    /\ deliveryActive' = [k \in Jobs |-> IF k \in known THEN Backlogged(k)
                                         ELSE deliveryActive[k]]
    /\ page' = [page EXCEPT ![j] = Listed(table)]
    /\ pc' = [pc EXCEPT ![j] = "dispatching"]
    /\ UNCHANGED <<known, failures, failureActive, backlog>>

-----------------------------------------------------------------------------
(* dispatch_pending of the alert service. *)

Current(j) == {p \in page[j] : \A q \in page[j] : p.id <= q.id}

SendAccepted(j) ==
    /\ pc[j] = "dispatching"
    /\ page[j] # {}
    /\ pc' = [pc EXCEPT ![j] = "accepted"]
    /\ UNCHANGED <<status, backlog, alerts, page>>

SendRefused(j) ==
    /\ "refuse" \in Faults
    /\ pc[j] = "dispatching"
    /\ page[j] # {}
    /\ pc' = [pc EXCEPT ![j] = "raised"]
    /\ UNCHANGED <<status, backlog, alerts, page>>

(* The row is delivered or withdrawn meanwhile: the StorageError ends the  *)
(* task of the job.                                                        *)
UpdateFails(j) ==
    /\ pc[j] \in {"accepted", "raised"}
    /\ \E p \in Current(j) : p.id \notin Pending
    /\ pc' = [pc EXCEPT ![j] = "idle"]
    /\ page' = [page EXCEPT ![j] = {}]
    /\ UNCHANGED <<status, backlog, alerts>>

MarkDelivered(j) ==
    /\ pc[j] = "accepted"
    /\ \E p \in Current(j) :
          /\ p.id \in Pending
          /\ alerts' = [alerts EXCEPT ![p.id].delivered = TRUE]
          /\ page' = [page EXCEPT ![j] = @ \ {p}]
    /\ pc' = [pc EXCEPT ![j] = "dispatching"]
    /\ UNCHANGED <<status, backlog>>

RecordFailure(j) ==
    /\ pc[j] = "raised"
    /\ \E p \in Current(j) :
          /\ p.id \in Pending
          /\ page' = [page EXCEPT ![j] = @ \ {p}]
    /\ pc' = [pc EXCEPT ![j] = "dispatching"]
    /\ UNCHANGED <<status, backlog, alerts>>

Return(j) ==
    /\ pc[j] = "dispatching"
    /\ page[j] = {}
    /\ pc' = [pc EXCEPT ![j] = "idle"]
    /\ UNCHANGED <<status, backlog, alerts, page>>

(* The task is cancelled at shutdown, its process is killed, or a store    *)
(* call finds the database locked.                                         *)
Abort(j) ==
    /\ "abort" \in Faults
    /\ pc[j] # "idle"
    /\ pc' = [pc EXCEPT ![j] = "idle"]
    /\ page' = [page EXCEPT ![j] = {}]
    /\ UNCHANGED <<status, backlog, alerts>>

Step(j) ==
    \/ RecordSuccess(j) \/ CheckFailed(j) \/ DeliveryBacklog(j)
    \/ SendAccepted(j) \/ SendRefused(j) \/ UpdateFails(j)
    \/ MarkDelivered(j) \/ RecordFailure(j) \/ Return(j)

Next ==
    \/ \E j \in Jobs : Step(j)
    \/ \E j \in Jobs : OneShotSuccess(j)
    \/ \E j \in Jobs : NotificationsTried(j)
    \/ \E j \in Jobs : Abort(j)

Spec == Init /\ [][Next]_vars

-----------------------------------------------------------------------------
TypeOK ==
    /\ known \subseteq Jobs
    /\ failures \in [Jobs -> 0..MaxCount]
    /\ failureActive \in [Jobs -> BOOLEAN] /\ deliveryActive \in [Jobs -> BOOLEAN]
    /\ backlog \in [Jobs -> 0..MaxCount \cup {Null}]
    /\ DOMAIN alerts \subseteq Nat /\ alerts \in [DOMAIN alerts -> Alert]
    /\ pc \in [Jobs -> {"idle", "notifying", "dispatching", "accepted", "raised"}]
    /\ page \in [Jobs -> SUBSET [id : Nat, key : Keys, channel : Channels]]

(* An alert's flag in job_status is set exactly while its rows exist, one   *)
(* for each channel; otherwise the next episode would hit the UNIQUE        *)
(* constraint and never be reported, or the same one be reported twice.     *)
FlagsMatchRows ==
    \A j \in Jobs, c \in Channels :
        /\ failureActive[j] <=>
              \E n \in DOMAIN alerts : alerts[n].key = Key("check-failure", j)
                                       /\ alerts[n].channel = c
        /\ deliveryActive[j] <=>
              \E n \in DOMAIN alerts : alerts[n].key = Key("delivery-backlog", j)
                                       /\ alerts[n].channel = c

(* A job is reported exactly while its streak of failed checks has reached  *)
(* the threshold, whichever process records the success that ends it.       *)
StreakIsReported ==
    \A j \in Jobs : failureActive[j] <=> failures[j] >= AlertAfter

(* An alert is only withdrawn when what it reports is over: a success of    *)
(* that very job, or a backlog that is delivered or young again.            *)
WithdrawnWhenOver ==
    [][\A j \in Jobs :
          /\ Raised(alerts, Key("check-failure", j)) /\ ~Raised(alerts', Key("check-failure", j))
                => failures'[j] = 0
          /\ Raised(alerts, Key("delivery-backlog", j))
                /\ ~Raised(alerts', Key("delivery-backlog", j))
                => ~Backlogged(j)]_vars

-----------------------------------------------------------------------------
(* A claim of the documentation.                                           *)

(* DESIGN.md: the dispatcher marks a delivery complete only after its       *)
(* adapter returned.  Here: the task that marks an alert listed, and so     *)
(* sent, an alert of that kind and job, not one that had its id before.     *)
MarkedWasSent ==
    [][\A n \in Pending \cap DOMAIN alerts' :
          alerts'[n].delivered =>
              \E j \in Jobs : \E p \in Current(j) : p.id = n /\ p.key = alerts[n].key]_vars

=============================================================================
