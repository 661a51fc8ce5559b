--------------------------- MODULE DurableOutbox ---------------------------
(***************************************************************************)
(* Checks, the SQLite observation store and the notification dispatcher:   *)
(*   web_checker/core/service.py           CheckService.check              *)
(*   web_checker/storage.py                SQLiteObservationStore          *)
(*   web_checker/notifications/service.py  NotificationService             *)
(* Several tasks run checks concurrently: the worker has one per job, and  *)
(* the one-shot checks of the command line are one more, for any job.      *)
(* Every store method opens its own connection and is one transaction, so  *)
(* it is one action here; a task may be overtaken, cancelled or killed     *)
(* between any two of them.  The maintenance process prunes the same file. *)
(***************************************************************************)
EXTENDS Integers, FiniteSets, Transitions

CONSTANTS
    Jobs, Tasks, Channels,
    JobsOf,          \* [Tasks -> SUBSET Jobs] the jobs whose checks a task runs
    AlertOn,         \* [Jobs -> SUBSET TransitionTypes] notification plan: on
    PlanChannels,    \* [Jobs -> SUBSET Channels] notification plan: channels
    Observable,      \* the snapshots the drivers return
    Limit,           \* page size of one dispatch pass (100 in the code)
    ObservationAge, NotificationAge,   \* retention ages in days, less one
    Healthy,         \* the channels that keep accepting what they are sent
    Faults,          \* which of "abort", "refuse", "late" may happen
    MaxRuns, MaxClock,                 \* bounds of the model
    Null             \* SQL NULL

ASSUME ConstantsAssumption ==
    /\ JobsOf \in [Tasks -> SUBSET Jobs]
    /\ AlertOn \in [Jobs -> SUBSET TransitionTypes]
    /\ PlanChannels \in [Jobs -> SUBSET Channels]
    /\ Observable \subseteq Snapshots
    /\ Limit \in Nat
    /\ ObservationAge \in Nat /\ NotificationAge \in Nat
    /\ MaxRuns \in Nat /\ MaxClock \in Nat
    /\ Null \notin Nat \cup Snapshots \cup [job : Jobs, snapshot : Snapshots, checked_at : Nat]

VARIABLES
    runs,         \* check_runs with opportunity_observations, by id
    transitions,  \* transitions, by id
    outbox,       \* notification_outbox, by id
    pc,           \* where each task is in CheckService.check
    result,       \* what its driver returned: snapshot, checked_at, for which job
    page,         \* the listed notifications it has not dealt with yet
    clock,        \* the current time
    promised, accepted, resent, belief   \* history variables

store == <<runs, transitions, outbox>>
task == <<pc, result, page>>
history == <<promised, accepted, resent, belief>>
vars == <<store, task, clock, history>>

Run == [job : Jobs, snapshot : Snapshots, checked_at : Nat]
Transition == [run : Nat, change : Changes]
OutboxRow == [transition : Nat, channel : Channels, delivered_at : Nat \cup {Null}]
Intent == [run : Nat, opportunity : Opportunities, channel : Channels]
Locations == {"idle", "fetched", "recorded", "dispatching", "accepted", "raised"}

-----------------------------------------------------------------------------
(* Rows and keys. *)

(* The largest id of a table, or 0: SQLite gives a new row of an           *)
(* INTEGER PRIMARY KEY without AUTOINCREMENT the largest id plus one.      *)
Largest(ids) == {n \in ids \cup {0} : \A m \in ids : m <= n}

(* The ways to number a batch of inserted rows, one after the other. *)
Numbering(rows, top) ==
    {number \in [rows -> (top + 1)..(top + Cardinality(rows))] :
        \A x, y \in rows : number[x] = number[y] => x = y}

Inserted(table, number, row) ==
    [n \in DOMAIN table \cup {number[x] : x \in DOMAIN row} |->
        IF n \in DOMAIN table THEN table[n]
        ELSE row[CHOOSE x \in DOMAIN row : number[x] = n]]

Restricted(table, ids) == [n \in ids |-> table[n]]

(* ORDER BY id DESC LIMIT 1: empty before the first check of the job. *)
Newest(job) ==
    {r \in DOMAIN runs :
        /\ runs[r].job = job
        /\ \A s \in DOMAIN runs : runs[s].job = job => s <= r}

Pending == {n \in DOMAIN outbox : outbox[n].delivered_at = Null}

(* The notification a row stands for; run ids are never used twice. *)
IntentOf(n) ==
    [run         |-> transitions[outbox[n].transition].run,
     opportunity |-> transitions[outbox[n].transition].change.opportunity,
     channel     |-> outbox[n].channel]

Owed == {IntentOf(n) : n \in Pending}

-----------------------------------------------------------------------------
Init ==
    /\ runs = [n \in {} |-> Null]
    /\ transitions = [n \in {} |-> Null]
    /\ outbox = [n \in {} |-> Null]
    /\ pc = [t \in Tasks |-> "idle"]
    /\ result = [t \in Tasks |-> Null]
    /\ page = [t \in Tasks |-> {}]
    /\ clock = 0
    /\ promised = {} /\ accepted = {} /\ resent = {}
    /\ belief = [j \in Jobs |-> Null]

(* The driver returns a complete snapshot; a driver that raises leaves no  *)
(* trace in the store and is no step here.                                 *)
Fetch(t) ==
    /\ pc[t] = "idle"
    /\ \E job \in JobsOf[t], snapshot \in Observable :
          result' = [result EXCEPT ![t] =
                        [job |-> job, snapshot |-> snapshot, checked_at |-> clock]]
    /\ pc' = [pc EXCEPT ![t] = "fetched"]
    /\ UNCHANGED <<store, page, clock, history>>

(* Mutant: the newest run is read before the transaction, so the one that   *)
(* an overlapping check of the job has recorded meanwhile is missed.       *)
DetectedBeforehand(job, snapshot) ==
    LET overlap == \E t \in Tasks : job \in JobsOf[t] /\ pc[t] \in {"recorded", "dispatching"}
        seen == {r \in DOMAIN runs : runs[r].job = job} \ (IF overlap THEN Newest(job) ELSE {})
    IN  IF seen = {} THEN DetectInitialTransitions(snapshot)
        ELSE UNION {DetectTransitions(runs[r].snapshot, snapshot) :
                       r \in {q \in seen : \A s \in seen : q >= s}}

(* What record_success compares the snapshot with and finds. *)
Detected(job, snapshot) ==
    IF Newest(job) = {} THEN DetectInitialTransitions(snapshot)
    ELSE UNION {DetectTransitions(runs[r].snapshot, snapshot) : r \in Newest(job)}

(* What the plan wants sent: one outbox row per change and channel. *)
Notified(job, changes) ==
    {c \in changes : c.type \in AlertOn[job]} \X PlanChannels[job]

(* Disappearances come after the changes of the listed opportunities, and  *)
(* the outbox rows follow the order of their transitions.                  *)
InInsertionOrder(transition, notification) ==
    /\ \A c, d \in DOMAIN transition :
          (c.type # "disappeared" /\ d.type = "disappeared")
              => transition[c] < transition[d]
    /\ \A a, b \in DOMAIN notification :
          transition[a[1]] < transition[b[1]] => notification[a] < notification[b]

InsertRun(job, found, run, changes) ==
    \E lastTransition \in Largest(DOMAIN transitions),
       lastNotification \in Largest(DOMAIN outbox) :
    \E transition \in Numbering(changes, lastTransition),
       notification \in Numbering(Notified(job, changes), lastNotification) :
       /\ InInsertionOrder(transition, notification)
       /\ runs' = [r \in DOMAIN runs \cup {run} |->
                      IF r = run THEN [job |-> job, snapshot |-> found.snapshot,
                                       checked_at |-> found.checked_at]
                      ELSE runs[r]]
       /\ transitions' = Inserted(transitions, transition,
                           [c \in changes |-> [run |-> run, change |-> c]])
       /\ outbox' = Inserted(outbox, notification,
                      [a \in Notified(job, changes) |->
                          [transition |-> transition[a[1]], channel |-> a[2],
                           delivered_at |-> Null]])

(* record_success: compare with the newest run inside the transaction and  *)
(* insert the run, its transitions and its notification intents together.  *)
RecordSuccess(t) ==
    LET job == result[t].job
        changes == Detected(job, result[t].snapshot)
    IN
    /\ pc[t] = "fetched"
    /\ \E lastRun \in Largest(DOMAIN runs) :
          /\ lastRun < MaxRuns
          /\ InsertRun(job, result[t], lastRun + 1, changes)
          /\ promised' = promised \cup
                {[run |-> lastRun + 1, opportunity |-> a[1].opportunity, channel |-> a[2]] :
                    a \in Notified(job, changes)}
    /\ belief' = [belief EXCEPT ![job] =
                    IF @ = Null THEN result[t].snapshot ELSE Replay(@, changes)]
    /\ pc' = [pc EXCEPT ![t] = "recorded"]
    /\ result' = [result EXCEPT ![t] = Null]
    /\ UNCHANGED <<page, clock, accepted, resent>>

(* Stands for the checks after the bound on runs is reached: they are      *)
(* taken to find nothing changed; the run without transitions each of them *)
(* inserts is left out, and they go on to dispatch.                        *)
RecordUnchanged(t) ==
    /\ pc[t] = "fetched"
    /\ \E lastRun \in Largest(DOMAIN runs) : lastRun >= MaxRuns
    /\ pc' = [pc EXCEPT ![t] = "recorded"]
    /\ result' = [result EXCEPT ![t] = Null]
    /\ UNCHANGED <<store, page, clock, history>>

(* Mutant: rows are claimed as delivered when they are listed. *)
ListPendingClaiming(t) ==
    LET first == {m \in Pending : Cardinality({k \in Pending : k < m}) < Limit}
    IN
    /\ pc[t] = "recorded"
    /\ page' = [page EXCEPT ![t] = {[id |-> n, intent |-> IntentOf(n)] : n \in first}]
    /\ outbox' = [n \in DOMAIN outbox |->
                    IF n \in first THEN [outbox[n] EXCEPT !.delivered_at = clock]
                    ELSE outbox[n]]
    /\ pc' = [pc EXCEPT ![t] = "dispatching"]
    /\ UNCHANGED <<runs, transitions, result, clock, history>>

(* list_pending_notifications: the first Limit undelivered rows by id. *)
ListPending(t) ==
    /\ pc[t] = "recorded"
    /\ page' = [page EXCEPT ![t] =
                  {[id |-> n, intent |-> IntentOf(n)] : n \in
                      {m \in Pending : Cardinality({k \in Pending : k < m}) < Limit}}]
    /\ pc' = [pc EXCEPT ![t] = "dispatching"]
    /\ UNCHANGED <<store, result, clock, history>>

(* The notification the loop of dispatch_pending is at. *)
Current(t) == {p \in page[t] : \A q \in page[t] : p.id <= q.id}

(* The channel accepts the message.  "late": the adapter raises all the    *)
(* same, as a connection lost after the final SMTP reply would make it.    *)
SendAccepted(t, channel) ==
    /\ pc[t] = "dispatching"
    /\ \E p \in Current(t) :
          /\ p.intent.channel = channel
          /\ accepted' = accepted \cup {p.intent}
          /\ resent' = resent \cup ({p.intent} \ Owed)
    /\ \/ pc' = [pc EXCEPT ![t] = "accepted"]
       \/ "late" \in Faults /\ pc' = [pc EXCEPT ![t] = "raised"]
    /\ UNCHANGED <<store, result, page, clock, promised, belief>>

(* registry.get or send raises and nothing was accepted. *)
SendRefused(t, channel) ==
    /\ pc[t] = "dispatching"
    /\ channel \notin Healthy \/ "refuse" \in Faults
    /\ \E p \in Current(t) : p.intent.channel = channel
    /\ pc' = [pc EXCEPT ![t] = "raised"]
    /\ UNCHANGED <<store, result, page, clock, history>>

(* _update_notification finds no undelivered row: its StorageError leaves  *)
(* dispatch_pending and check, although the snapshot is recorded.          *)
UpdateFails(t) ==
    /\ pc[t] \in {"accepted", "raised"}
    /\ \E p \in Current(t) : p.id \notin Pending
    /\ pc' = [pc EXCEPT ![t] = "idle"]
    /\ page' = [page EXCEPT ![t] = {}]
    /\ UNCHANGED <<store, result, clock, history>>

(* Mutant: a send that raised is recorded as delivered too. *)
MarkDeliveredAlways(t) ==
    /\ pc[t] \in {"accepted", "raised"}
    /\ \E p \in Current(t) :
          /\ p.id \in Pending
          /\ outbox' = [outbox EXCEPT ![p.id].delivered_at = clock]
          /\ page' = [page EXCEPT ![t] = @ \ {p}]
    /\ pc' = [pc EXCEPT ![t] = "dispatching"]
    /\ UNCHANGED <<runs, transitions, result, clock, history>>

(* mark_notification_delivered, dated with the time of the attempt. *)
MarkDelivered(t) ==
    /\ pc[t] = "accepted"
    /\ \E p \in Current(t) :
          /\ p.id \in Pending
          /\ outbox' = [outbox EXCEPT ![p.id].delivered_at = clock]
          /\ page' = [page EXCEPT ![t] = @ \ {p}]
    /\ pc' = [pc EXCEPT ![t] = "dispatching"]
    /\ UNCHANGED <<runs, transitions, result, clock, history>>

(* Mutant: the first failure ends the pass. *)
RecordFailureStopping(t) ==
    /\ pc[t] = "raised"
    /\ \E p \in Current(t) : p.id \in Pending
    /\ page' = [page EXCEPT ![t] = {}]
    /\ pc' = [pc EXCEPT ![t] = "dispatching"]
    /\ UNCHANGED <<store, result, clock, history>>

(* record_notification_failure: attempts and last_error are abstracted, so *)
(* the row stays as it is.                                                 *)
RecordFailure(t) ==
    /\ pc[t] = "raised"
    /\ \E p \in Current(t) :
          /\ p.id \in Pending
          /\ page' = [page EXCEPT ![t] = @ \ {p}]
    /\ pc' = [pc EXCEPT ![t] = "dispatching"]
    /\ UNCHANGED <<store, result, clock, history>>

(* The page is empty: check returns. *)
Return(t) ==
    /\ pc[t] = "dispatching"
    /\ page[t] = {}
    /\ pc' = [pc EXCEPT ![t] = "idle"]
    /\ UNCHANGED <<store, result, page, clock, history>>

(* The task is cancelled, its process is killed, or a store call raises    *)
(* because the database stays locked; its transaction rolls back.  A crash *)
(* of the process is the abort of each of its tasks.                       *)
Abort(t) ==
    /\ "abort" \in Faults
    /\ pc[t] # "idle"
    /\ pc' = [pc EXCEPT ![t] = "idle"]
    /\ result' = [result EXCEPT ![t] = Null]
    /\ page' = [page EXCEPT ![t] = {}]
    /\ UNCHANGED <<store, clock, history>>

(* Mutant: completed notifications are deleted at once, whatever their age. *)
UnexpiredPendingOnly == {n \in DOMAIN outbox : outbox[n].delivered_at = Null}

(* prune: completed notifications first, then the old runs that are        *)
(* neither the newest of their job nor referenced by a pending row.        *)
Unexpired ==
    {n \in DOMAIN outbox :
        outbox[n].delivered_at = Null \/ outbox[n].delivered_at + NotificationAge >= clock}

(* Mutant: the NOT EXISTS clause on pending notifications is missing. *)
KeptRunsWithoutPending ==
    {r \in DOMAIN runs :
        \/ runs[r].checked_at + ObservationAge >= clock
        \/ r \in Newest(runs[r].job)}

KeptRuns ==
    {r \in DOMAIN runs :
        \/ runs[r].checked_at + ObservationAge >= clock
        \/ r \in Newest(runs[r].job)
        \/ \E n \in Pending : transitions[outbox[n].transition].run = r}

(* Mutant: foreign keys are not enforced, nothing cascades. *)
PruneWithoutCascade ==
    /\ runs' = Restricted(runs, KeptRuns)
    /\ outbox' = Restricted(outbox, Unexpired)
    /\ UNCHANGED <<transitions, task, clock, history>>

(* Deleting a run cascades to its transitions and to their outbox rows,    *)
(* completed ones that are still on the page of a dispatch pass included.  *)
Prune ==
    LET keptTransitions == {n \in DOMAIN transitions : transitions[n].run \in KeptRuns}
        keptRows == {n \in Unexpired : outbox[n].transition \in keptTransitions}
    IN
    /\ runs' = Restricted(runs, KeptRuns)
    /\ transitions' = Restricted(transitions, keptTransitions)
    /\ outbox' = Restricted(outbox, keptRows)
    /\ UNCHANGED <<task, clock, history>>

(* One clock unit is a little over a day, the smallest retention age: a    *)
(* check and its dispatch pass, bounded by their timeouts, end within it.  *)
Tick ==
    /\ clock < MaxClock
    /\ \A t \in Tasks : pc[t] = "idle"
    /\ clock' = clock + 1
    /\ UNCHANGED <<store, task, history>>

Step(t) ==
    \/ Fetch(t) \/ RecordSuccess(t) \/ RecordUnchanged(t) \/ ListPending(t)
    \/ \E c \in Channels : SendAccepted(t, c) \/ SendRefused(t, c)
    \/ UpdateFails(t) \/ MarkDelivered(t) \/ RecordFailure(t) \/ Return(t)

Next ==
    \/ \E t \in Tasks : Step(t) \/ Abort(t)
    \/ Prune
    \/ Tick

Spec == Init /\ [][Next]_vars

(* An assumption about the environment that some promises need, and that   *)
(* nothing in the code enforces: retention does not delete, with its run,  *)
(* a row a dispatch pass has listed.  It would if the notification had     *)
(* waited for longer than the observation age, and another task delivered  *)
(* it while this one still has it listed.                                  *)
ListedRowsKept ==
    \A t \in Tasks : \A p \in page[t] : p.id \in Unexpired => p.id \in DOMAIN outbox'

NextUncascaded ==
    \/ \E t \in Tasks : Step(t) \/ Abort(t)
    \/ Prune /\ ListedRowsKept
    \/ Tick

UncascadedSpec == Init /\ [][NextUncascaded]_vars

(* The event loop runs a runnable task, a driver and a channel answer      *)
(* within their timeouts, a healthy channel that is tried again and again  *)
(* accepts in the end, and the worker is not restarted for ever.  Nothing  *)
(* is assumed of prune.                                                    *)
Fairness ==
    /\ \A t \in Tasks :
          /\ WF_vars(Step(t))
          /\ \A c \in Healthy : SF_vars(SendAccepted(t, c) /\ pc'[t] = "accepted")
    /\ <>[][\A t \in Tasks : Abort(t) => Step(t)]_vars

FairSpec == Spec /\ Fairness

-----------------------------------------------------------------------------
(* Every table, task field and history variable has the shape the schema   *)
(* and the code give it.                                                   *)
TypeOK ==
    /\ DOMAIN runs \subseteq Nat /\ runs \in [DOMAIN runs -> Run]
    /\ DOMAIN transitions \subseteq Nat
    /\ transitions \in [DOMAIN transitions -> Transition]
    /\ DOMAIN outbox \subseteq Nat /\ outbox \in [DOMAIN outbox -> OutboxRow]
    /\ pc \in [Tasks -> Locations]
    /\ result \in [Tasks -> Run \cup {Null}]
    /\ page \in [Tasks -> SUBSET [id : Nat, intent : Intent]]
    /\ clock \in Nat
    /\ promised \subseteq Intent /\ accepted \subseteq Intent /\ resent \subseteq Intent
    /\ belief \in [Jobs -> Snapshots \cup {Null}]

(* A notification committed with its transition is either still undelivered *)
(* in the outbox or was accepted by its channel: no crash, failed send,     *)
(* overlapping dispatch, retention pass or reused row id loses it, as long  *)
(* as no listed row is cascaded over (UncascadedSpec).                      *)
NoIntentLost ==
    promised \subseteq accepted \cup Owed

(* A row recorded as delivered was really accepted by its channel, also     *)
(* when its id once belonged to another row or another task dispatched it,  *)
(* under the same assumption.                                               *)
RecordedWasAccepted ==
    \A n \in DOMAIN outbox : outbox[n].delivered_at # Null => IntentOf(n) \in accepted

(* The recorded changes of a job, replayed from its baseline, always lead   *)
(* to the newest retained snapshot: no change is missed or reported twice,  *)
(* whatever the overlap of its checks, and pruning never takes the baseline.*)
ChangesExplainLatest ==
    \A j \in Jobs :
        IF belief[j] = Null THEN Newest(j) = {}
        ELSE \E r \in Newest(j) : runs[r].snapshot = belief[j]

(* The foreign keys and the UNIQUE (transition_id, channel) of the schema   *)
(* hold in every state, although deleted ids are handed out again, and a    *)
(* notification never ends up attached to a change of another kind.         *)
RowsAreConsistent ==
    /\ \A n \in DOMAIN transitions : transitions[n].run \in DOMAIN runs
    /\ \A n \in DOMAIN outbox :
          /\ outbox[n].transition \in DOMAIN transitions
          /\ LET tr == transitions[outbox[n].transition]
                 job == runs[tr.run].job
             IN  tr.change.type \in AlertOn[job] /\ outbox[n].channel \in PlanChannels[job]
    /\ \A m, n \in DOMAIN outbox :
          (outbox[m].transition = outbox[n].transition
             /\ outbox[m].channel = outbox[n].channel) => m = n

(* While a page is worked off, each id on it names the row that was listed  *)
(* as long as the run of that notification is retained: another dispatcher  *)
(* that delivers it and a retention pass that deletes what is completed     *)
(* cannot free the id.  Only the deletion of the run itself can, and then   *)
(* an update by id may hit another notification.                            *)
PagesStayValid ==
    \A t \in Tasks : \A p \in page[t] :
        p.intent.run \in DOMAIN runs =>
            p.id \in DOMAIN outbox /\ IntentOf(p.id) = p.intent

(* The outbox implements at-least-once delivery, under the same assumption. *)
Promises == INSTANCE AtLeastOnce
    WITH Intents <- [run : 1..MaxRuns, opportunity : Opportunities, channel : Channels],
         owed <- Owed
AtLeastOnceDelivery == Promises!Spec

(* A notification owed to a channel that keeps working is settled in the    *)
(* end, however the other channels behave and however the tasks overlap.    *)
HealthySettled ==
    \A i \in [run : 1..MaxRuns, opportunity : Opportunities, channel : Healthy] :
        (i \in Owed) ~> (i \notin Owed)

-----------------------------------------------------------------------------
(* A claim of the documentation.                                           *)

(* DESIGN.md: the outbox prevents a successfully recorded delivery from     *)
(* being emitted again.                                                     *)
NeverResent == resent = {}

=============================================================================
