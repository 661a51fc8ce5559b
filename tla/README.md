# A TLA+ verification project for web-checker

`web-checker` watches websites for the opening of opportunities (day-use passes
of BC Parks, draws of WelcomeBC, anything a selector can find on a page). A
worker checks its jobs at intervals, stores every complete snapshot in SQLite,
compares it with the one before, and sends each change that a job's plan asks
for through an outbox to console or e-mail. A second process backs the database
up and prunes it, and a script deploys new images to production.

This directory holds TLA+ models of that program, the TLC configurations that
check them, and proofs that TLAPS checks. Every definition is translated from
the code and not from its documents; where code and documents disagree, a run
shows it (section 6). `PROJECT.json` maps each definition to the lines it stands
for, and lists the hazards of the code with the properties aimed at them.

## 1. Inventory

| Component | Code (below `src/`) | State it keeps | Operations | Model |
|---|---|---|---|---|
| Transition core | `web_checker/core/transitions.py`, `core/models.py` | none | `detect_transitions`, `detect_initial_transitions` | `Transitions` |
| Check service, observation store | `core/service.py`, `storage.py` | `check_runs`, `opportunity_observations`, `transitions`, `notification_outbox` | `check`, `record_success`, `list_pending_notifications`, `mark_notification_delivered`, `record_notification_failure` | `DurableOutbox` |
| Notification dispatcher | `notifications/service.py` | the page of one pass | `dispatch_pending` | `DurableOutbox` |
| Retention | `storage.py` `prune` | the same tables | `prune` | `DurableOutbox`, `StoreLifecycle` |
| Operational alerts, job health | `notifications/operational.py`, `storage.py` | `job_status`, `operational_alert_outbox` | `record_check_failure`, `raise_delivery_backlog_alerts`, the alert half of `record_success`, `dispatch_pending` | `OperationalAlerts`, `Worker` |
| Scheduler, worker loop | `core/scheduler.py`, `config.py` `RetryPolicy`, `cli.py` | next due times, registered tasks, stop event | `run`, `tick`, `_execute_with_retries`, `shutdown` | `Scheduler`; `Worker` for what an execution does |
| Schema start-up | `storage.py` `_initialize` | `user_version`, tables | create, upgrade from versions 1 and 2 | `StoreLifecycle` |
| Backup and maintenance | `maintenance.py`, `cli.py` | backup directory, `last-backup.json` | `create_backup`, `_perform_maintenance` | `StoreLifecycle` |
| BC Parks driver | `drivers/bcparks_dayuse/` | none between checks | `check`: four requests and `_build_opportunities` | `BCParks` |
| WelcomeBC driver | `drivers/welcomebc_high_impact/` | none between checks | `check`: one request and the table and prose parser | `WelcomeBC` |
| Production deployment | `scripts/deploy_production.py` | host lock, two image files, the container | `deploy`, `rollback` | `Deployment` |
| Generic HTML driver | `drivers/generic_html/` | none between checks | `check`: one request and `parse_opportunities` | `GenericHtml`, in the checks of `MockSite` |
| Channels | `notifications/email.py`, `console.py`, `fake.py` | the SMTP conversation, in a thread | `send` | `EmailNotifier` against `Channel` |
| Configuration, registries | `config.py`, `drivers/registry.py`, `notifications/registry.py` | what a process loaded at its start | `load_config`, `SMTPSettings.from_environment`, the registries | `Configuration` |
| Command line and reports | `cli.py` | none | `validate-config`, `worker`, `check`, maintenance, `status` | `Configuration`, `Scheduler`, `StoreLifecycle`, `Worker` |
| Mock site | `mock_site/` | three providers, each behind its lock | the control API and the pages | `MockSite` |
| CI scripts | `scripts/` | none | | not modelled, section 9 |

**How they interact.** The worker's event loop holds the scheduler and one task
per running execution. An execution calls `CheckService.check`, which awaits the
driver, calls the store, and then awaits the dispatcher; after the last failure
or after a success it calls the alert service. A store method opens its own
connection and is one transaction without a suspension point in it. The
one-shot command `check` and the maintenance service are further processes on
the same file. Nothing is claimed or locked across a suspension point: the
database is the only thing the tasks and processes share.

**What is hard.** Every `await` of a send is a place where other tasks, other
processes, cancellation or a kill come in: a row may be sent by two tasks, or
be delivered, withdrawn, pruned, or replaced by another row of the same id while
a task still holds it. A commit and the send it asks for are two steps. The
event loop may wake late. Schema scripts commit statement by statement while
another process starts. Two maintenance cycles may work in one directory. A
provider moves on between the requests of one check. The thread of an e-mail
outlives the task that awaits it. The jobs file and the environment change under
a worker that has read them once.

**What makes each part correct.**

- Outbox: what was committed is sent at least once; what is recorded as
  delivered was sent; the stored changes explain the stored snapshots.
- Alerts: a streak of failures and a backlog are reported once per episode, and
  withdrawn exactly when it is over; flags and rows never part.
- Scheduler: a job never overlaps itself, keeps its phase, is never made up for
  in a burst, keeps running until a stop request, and shutdown ends cleanly.
- Life of the store: a store that was opened is complete; a published backup is
  restorable; retention deletes only what a backup still holds; backups expire
  only when enough newer ones exist; both services recover from failures.
- Drivers: an incomplete or torn answer never becomes a snapshot, because the
  core would report what is missing as disappeared.
- Worker: retries, dispatches and the errors of either change a job's health only
  as the accounting means it; once drivers and channels work, every job recovers
  and every alert gets out.
- E-mail: a send that returns was accepted once, one that raises at most once,
  and every send ends.
- Configuration: what a worker accepted at its start it can deliver and retry.
- Mock site: the outcome of a check is explained by what was set, so that a
  scripted scenario is not flaky.
- Deployment: the image records tell what production runs; a rollback leads to
  another image; queued operations are served.

## 2. Modules

| Module | What it is |
|---|---|
| `Transitions` | The pure comparison of snapshots, as operators. Extended by `DurableOutbox`, instantiated by the drivers. |
| `AtLeastOnce` | The abstract specification of the outbox: promised, owed, accepted. |
| `DurableOutbox` | Checks, store, dispatcher and retention composed: tasks over shared tables. Refines `AtLeastOnce`. |
| `OperationalAlerts` | Health columns, alert rows and their dispatch; takes the backlog of notifications as an input. |
| `Scheduler` | The interval loop, executions with retries, shutdown. |
| `Worker` | Executions composed: check with retries, dispatch of notifications, health accounting and alerts. Computes the backlog from the rows. Refines `OperationalAlerts`. |
| `StoreLifecycle` | Start-up, backup cycles and retention of several processes. |
| `Deployment` | Deployments and rollbacks behind the host lock. |
| `Channel` | The abstract specification of a channel, what the dispatcher relies on. |
| `EmailNotifier` | The SMTP conversation in its thread, cancellation, shutdown, kill. Refines `Channel`. |
| `BookingWindow` | What the BC Parks driver makes of its responses, as operators. Extended by `BCParks`, instantiated by `MockSite`. |
| `BCParks`, `WelcomeBC` | A driver against a provider that changes, recording through `Transitions`. |
| `GenericHtml` | The generic driver's extraction of a snapshot, as operators. |
| `MockSite` | The three mock providers under control calls while a check reads them. |
| `Configuration` | Jobs file, environment and the commands that read them, over one outbox. |
| `DurableOutbox_proofs`, `AtLeastOnce_proofs`, `OperationalAlerts_proofs`, `Worker_proofs`, `Scheduler_proofs`, `Deployment_proofs`, `MCOperation_proofs`, `MCBoundary_proofs` | The theorems of section 7. The last two prove about the composed specifications of `MCOperation` and `MCBoundary`, whose constants are as free as those of their parts. |
| `MCOperation` | Instance of `Deployment`, `StoreLifecycle` and `EmailNotifier` side by side. |
| `MCBoundary` | Instance of `BCParks`, `WelcomeBC`, `MockSite` and `Configuration` side by side. |
| `MCFailedCheck` | `MCWorker` with a history variable, for the claim that run is about. |
| the other `MC*` | The instances for TLC of one module each. |

Each module holds, next to some definitions, a variant marked `Mutant:`, the
same code with a plausible mistake. No specification uses them. Put in the place
of the definition they belong to, they make TLC report the property listed with
them in `PROJECT.json`: evidence that the property tells right code from wrong.

## 3. State and actions against the code

**DurableOutbox.** `runs`, `transitions` and `outbox` are the tables, by row id;
an opportunity's observation is part of its run. New ids are the largest id plus
one, as SQLite assigns them for `INTEGER PRIMARY KEY` without `AUTOINCREMENT`,
so ids are used again after deletions. `pc`, `result` and `page` are the locals of
one call of `check`. Each action is one transaction or one external outcome:

| Action | Code |
|---|---|
| `Fetch` | `CheckService.check` up to the snapshot of the driver |
| `RecordSuccess` | the transaction of `record_success`: compare with the newest run, insert run, transitions, notifications |
| `ListPending` | `list_pending_notifications`, the oldest `Limit` undelivered rows |
| `SendAccepted`, `SendRefused` | the outcomes of `notifier.send`; accepted and raising all the same is `"late"` |
| `MarkDelivered`, `RecordFailure`, `UpdateFails` | `_update_notification`, and its `StorageError` when no undelivered row has the id |
| `Abort` | cancellation, a kill, or a locked database at any await or between two transactions |
| `Prune` | `prune`, its two deletions and their cascades, unconditional, in one transaction |

`record_success` commits and the dispatcher lists without a suspension point in
between. Two steps are exact towards other processes and for crashes; towards
tasks of the same process they allow more orders than occur, so a safety
property that holds here holds there. `promised`, `accepted`, `resent` and
`belief` are history: what was committed, what a channel ever took, what was sent
when already settled, and what a reader of the change log believes. The health
columns that `record_success` also writes are in `OperationalAlerts`. `JobsOf`
says which jobs a task may check: one for a task of the worker, any for one-shot
commands. `UncascadedSpec` is `Spec` under an assumption about the environment
that nothing in the code enforces (`ListedRowsKept`): `prune` does not delete,
together with its run, a row that some task has listed.

**OperationalAlerts.** `failures`, `failureActive`, `deliveryActive` and `known`
are the columns of `job_status`, `alerts` the alert outbox by id with the same
rule for ids, `backlog` the largest number of attempts among a job's pending
notifications. `CheckFailed` is `record_check_failure` and the listing after it,
`RecordSuccess` the withdrawal in `record_success`, `DeliveryBacklog` the loop of
`raise_delivery_backlog_alerts` over all jobs. When the `UNIQUE` constraint
would fail, the transaction rolls back and the action is not enabled.
`NotificationsTried` is what a dispatch of notifications does to a backlog.

**Scheduler.** Time is relative: `dueIn` is the time to a job's next occurrence,
negative when the loop is late. `phase` counts the time since start modulo the
interval. `Tick` is all of `tick`, with registration and the new due time;
`EnterShutdown`, `Drained`, `GraceExpires` and `Gathered` are the three awaits of
`shutdown`. Executions are named by a job and a slot, so that overlapping ones
could exist. An error of the check is `CheckFails`, also a `StorageError` that
the dispatcher raised after the snapshot was stored. Retry delays are computed
as `delay_after_failure` does, in whole time units, rounded down.

**StoreLifecycle.** A start reads `user_version` (`Open`) and runs the script for
it one `Statement` at a time, because `executescript` commits each of them. A
cycle goes through `Copy`, `CheckIntegrity`, `Publish`, `ListBackups`, `Unlink`,
`WriteManifest` and `Prune`, the places where another process or a kill makes a
difference; `CheckFails` is a cycle that finds its temporary file locked by another
one of the same second, and `Fails` is the `finally` clause. Backups are named by the second. Runs are known by
their time alone, and of several jobs one is modelled; `OldRuns` are those a file
has before the first start.

**Worker.** `at` and `attempt` are the locals of `_execute_with_retries`, `listed`
what is left of a notification page, `outbox` the pending rows in the order of
their ids with their attempts. The health accounting is an instance of
`OperationalAlerts` on the same variables, whose backlog is no longer an input
but the `MAX(attempts)` of the rows.

| Action | Code |
|---|---|
| `DriverFails`, `Raised` | `check` raises: the next attempt, or `check_failed` after the last |
| `RecordSuccess` | `record_success` with the reset of the job's health, and the listing that follows without a suspension point |
| `Deliver`, `Refuse` | one turn of the loop of `dispatch_pending` |
| `DispatchRaises` | the `StorageError` of an update whose row another task delivered; it leaves `check` like an error of the driver |
| `DeliveryBacklog`, `CheckFailed` | the two reports of the scheduler |
| `DispatchAlert`, `Finish` | `OperationalAlertService.dispatch_pending` to its end or its error |

Names of row ids are interchangeable, so a new row takes the first free one; that
ids are used again is `DurableOutbox`' subject. `outage` lets drivers fail and
channels refuse, until it ends or for ever.

**EmailNotifier.** `send` starts a thread (`Send`) and awaits it (`Resume`); the
thread goes through the stages of `_send_message`, each of which succeeds or
raises. `reached` are the recipients the server took the message for: one is
enough for `send_message` to return. `Stop` cancels all tasks and `Exit` waits for
the threads, as `asyncio.run` does; `Kill` waits for nothing. To `Channel` a call
is none, open or accepted, and one that nobody awaits any more is left.

**Configuration.** An entry of the file is well-formed or not, suits its driver
or not, is enabled or not, and has channels and a schedule. `StartWorker` is all
of the validation of `worker`, `StartCheck` that of the one-shot `check`, which
looks up no channel. `EditFile` and `EditEnvironment` change one thing at a time.
Both processes put rows in the outbox and deliver what they have a channel for.
`Schedules` are the schedules an entry may have.

**MockSite and GenericHtml.** A request is taken (`Arrive`: routes copy the
behaviour, the page routes also their content) and served later, so that control
calls fall in between and between the four requests of a BC Parks check.
`ServeReservations` gives the page to `GenericHtml`, which refuses it or makes a
snapshot of it; `ServeFacility` tells the mock's full time, and
`ServeReservation` gives dates and that time to `BookingWindow`, as the driver
does. `SetCurrentTime` sets any time of any day: the dates move with the day, and
with the time of the day what is over and what can be booked. `online` and `excused` are history: the contents that were online
during the check, and whether it had a cause to fail.

**BCParks.** `ReadConfig`, `ReadPark`, `ReadFacility`, `ReadReservations` are the
four requests of a check; the provider's clock, capacity and season change
between them. Dates are opportunities, the slot is fixed. Malformed answers,
time-outs and contradictions between pass limit and opening hour are `CheckFails`.

**WelcomeBC.** An editor inserts and deletes rows and sections one at a time; a
check reads the page between two edits. `ParseRow` is one turn of the parser's
loop with the date in force and the rows it still covers. `DateOf` and `Legible`
are an independent reading of the layout the parser is held against.

**Deployment.** Each process waits for the lock (`Acquire`), inspects (`Prepare`,
`NoOp`), updates, returns to the old image if it must, and writes the two files
one after the other. `rollback` reads its target before it has the lock, as the
code does. What docker leaves behind after a failed or interrupted update is any
of: the old container, the new one in any health, none.

## 4. Runs

| Run | Bounds | What it asks |
|---|---|---|
| `outbox` | 2 jobs with different plans, a task of the worker for one and one-shot checks of either, 2 opportunities of which one is always listed, 1 channel, page 2, 3 runs, 2 days, aborts, refusals and late acceptance; `UncascadedSpec` | The safety of the outbox and its refinement of `AtLeastOnce` |
| `outbox_liveness` | worker and one-shot check of one job, 2 channels of which one may refuse for ever, page 4, 2 runs, aborts | What is owed to a working channel is settled |
| `cascade` | as `outbox`, 1 opportunity, 4 runs, `Spec`: retention cascades over listed rows too | Refutes `NoIntentLost`: finding 1 |
| `never_resent` | as `outbox`, 1 opportunity, no faults at all | Refutes a claim of `DESIGN.md`: finding 2 |
| `alerts` | 2 jobs, 1 channel, threshold 2, 2 alert ids, one-shot successes, refusals, aborts | Flags, rows, streaks and withdrawal agree |
| `alert_ids` | as `alerts`, refusals only | Refutes `MarkedWasSent`: finding 4 |
| `worker` | 2 jobs, 1 channel, threshold 1, 2 alert ids, 2 attempts, 2 notification ids | Refinement of `OperationalAlerts`, recovery of jobs, settling of alerts |
| `failed_check` | as `worker`, with the history of `MCFailedCheck` | Refutes a claim of `DESIGN.md`: finding 5 |
| `scheduler` | 2 jobs of intervals 2 and 3, 2 slots, 3 attempts, full jitter, loop up to 4 units late, grace 2 | All safety and liveness of the loop |
| `operation` | *deployment*: 2 processes, 3 images, failures, kills, changing health; *store*: 3 processes, 2 of them maintainers, files of version 0, 1 and 2, keep 1 backup, 2 seconds, kills in a cycle; *e-mail*: 2 tasks, 2 recipients, with and without TLS and login | Image records, backups and channel keep their contracts, and each part gets going again |
| `boundary` | *BC Parks*: 3 units a day, window of 2 days, 3 midnights, optional pass days; *WelcomeBC*: all pages of 3 entries over 2 dates and 2 routes; *mock site*: 2 control calls, its clock at any of 9 times of 3 days; *configuration*: 2 jobs, 2 edits, 2 worker starts, 2 pending rows | Torn, short or reopening snapshots; outcomes explained; the worker can serve what it took on |
| `malformed_dates` | *WelcomeBC* as above | Refutes a claim of `DESIGN.md`: finding 3 |

`operation` and `boundary` check several modules in one run. Their parts share no
variable and no process, so a behaviour belongs to the one part that is chosen in
its initial state while the others stay where they are: the states are the sum,
not the product, and nothing is lost by it. Fairness is stated for the part that
runs.

**Why the bounds are enough for the question.** Three runs of two jobs let a job
have a baseline, a change, and a notification of an older run pending while a
newer one exists, and let a deleted id be used again; two tasks are enough to
overlap every pair of transactions, of checks of one job and of two. Two opportunities that replace each other
make one comparison yield two changes that different plans want; they are
interchangeable, and so the run uses symmetry. The `cascade` run needs one more
run: one to be cascaded away and one whose rows take over its ids. Counters of
alerts stay at the threshold once they reach it, because the code only asks
whether it is reached; two alert ids allow an id to be used again. In `worker` two
jobs suffice for two dispatchers of one row and for one job that fails while the
other delivers; with two attempts an error is retried or is the last one; two
notification ids let a refused row stand in front of another. In `alerts` the
threshold is two, so that a streak can be broken before it is reported.
Intervals 2 and 3 with delays up to 4 make the loop miss two occurrences of one
job and one of the other, with a check of either one in flight; two slots are
one more than is ever used. Three entries of a page suffice for a row, one it
covers and one it should not cover, and for a draw told in table and prose. Two
maintainers and two seconds give overlapping cycles the same or different names.
Two control calls suffice to change and restore a provider within one check, two
edits to make the file and the environment disagree after the worker has started.
The dates and routes of WelcomeBC and the jobs of the configuration are only
compared for equality, and so that run uses symmetry.
`BCParks`' three units a day separate midnight, opening time and end of slot;
four required dates of five leave one without a pass.

Runs that stop on a bound (`MaxRuns`, `MaxAlertId`, `LastDay`) or in which the
program may come to rest turn the deadlock check off. `RecordUnchanged` stands
for the checks after the last counted run so that dispatching goes on for ever,
as it does in the worker.

## 5. Fairness, and why the code justifies it

- *Tasks* (`WF` on `Step(t)`): the event loop runs what is runnable, drivers and
  channels have timeouts, SQLite has a busy timeout. `Abort` may happen finitely
  often; as an abort can coincide with an ordinary step, the assumption is that
  from some point on every abort is also one (`Abort => Step`).
- *Healthy channels* (`SF` on an accepted send): in `outbox_liveness` the working
  channel accepts whenever it is asked, and a task that reaches it again and
  again gets to that step although aborts disable it in between. Of the other
  channel nothing is assumed, nor of retention. A channel that refuses for a while
  and then works is `worker`'s subject. The page must hold the whole backlog: with
  a page shorter than the rows a broken channel refuses, TLC refutes
  `HealthySettled`, and the code's page of 100 has that limit.
- *Worker* (the task of each job moves again and again): the event loop runs what
  is runnable, and drivers, channels and SQLite have timeouts. That the outage
  ends is not assumed: `HealthRecovers` and `AlertsSettle` speak of what happens
  after it has. One job may be overtaken by the other at every send.
- *E-mail* (`WF` on the conversation and on the task that awaits it): every socket
  operation has the timeout of the settings. Shutdown, kill and restart are free.
- *Scheduler*: time passes, the loop ticks, executions proceed. That a check ends
  is assumed only while the loop runs: during shutdown it may hang, and
  `StopsEventually` holds all the same because of the grace period. No signal is
  assumed to come.
- *StoreLifecycle*: restarted containers, repeated cycles, finitely many kills
  that are not also ordinary failures. The clock does not go back, and a cycle
  takes less than the retention age of at least a day.
- *Deployment*: the holder of the lock goes on, its commands end, and the kernel
  grants a lock that is free again and again to each waiting process (`SF`).

## 6. Findings

1. **A pending notification can be lost** (`cascade`, `storage.py:207`). A row is
   listed by one task and delivered by another; retention deletes it and its
   run; a new notification takes over the row id; the first task then records
   its own late success on that id. The new notification counts as delivered and
   was never sent. It takes a dispatch pass that overlaps with retention and a
   row pending for longer than the observation age. `docs/deployment.md` says
   pending deliveries are always retained. What depends on that step not
   happening is checked and proved under `UncascadedSpec`, and says so.
2. **A recorded delivery is sent again without any failure** (`never_resent`,
   `notifications/service.py:42`). Rows are not claimed, every task dispatches
   the rows of all jobs, and two overlapping passes send the same row, the second
   one after the first is recorded. `DESIGN.md` says the outbox prevents it, and
   `README.md` names only the process crash as a source of duplicates.
3. **A malformed date does not always fail a check** (`malformed_dates`,
   `welcomebc_high_impact/parser.py:164`). A heading that is not a date is passed
   over with its section; the draw below it is missing from the snapshot, and
   reported as disappeared if it was known. `DESIGN.md` says malformed dates
   fail the check.

4. **A pending alert can be lost** (`alert_ids`, `storage.py:472`). While a task sends
   an alert, its episode ends and the row is deleted; the alert of another job
   takes the id over; the first task then marks that one, by its id. It counts as
   delivered without having been sent (`DESIGN.md` says that of the notification
   dispatcher, which the alert dispatcher mirrors). Unlike finding 1 this takes no retention and no
   day of waiting, only a check of another task that ends within one send.
5. **A failed check can replace the last good state** (`failed_check`,
   `scheduler.py:148`). A check records its snapshot and then dispatches. The
   `StorageError` of a row that another dispatcher delivered leaves `check` like an
   error of the driver, so after the last attempt the execution counts as failed.
   The trace ends in the step that counts the failure and raises its alert,
   although the snapshot is stored. `DESIGN.md` says a failed check does not replace
   the last good state. That such errors do not keep a job degraded for ever is
   checked (`HealthRecovers`).

Met on the way, and not kept as runs:

- A process killed inside a schema script leaves tables without a version, and
  every later start fails on them (`"torn"` in `StoreLifecycle` shows it).
- After an operation that ended badly both image records may name one image. An
  operation that finds production as it wants it is a no-op and leaves records
  that lag behind as they are.
- A rollback that waits for the lock deploys the image it read before, which may no
  longer be the previous one; the records are then not swapped, though
  `docs/deployment.md:197-198` says that a rollback swaps them.
- Two maintenance cycles that overlap again and again, with one backup to keep, can
  each unlink the backup of the other before that one has written its manifest, so
  that the manifest names a file that is gone for as long as this goes on.
- A control call that sets the mock's clock within the day, between the facility and
  the reservation request of a check, makes it record an availability that was never
  online: dates of one moment with the opening state of another. With the facility
  read before the opening hour, the clock then set past it, and passes given to a
  date that was full, the snapshot shows those passes, which came last, and the
  newest date still as not yet open.

## 7. What is proved

Every safety property that a passing run checks, invariant or action property, is
also a theorem, and so is the safety half of each refinement. The proofs are for
all values of the constants that meet the modules' `ASSUME`s: any sets of jobs,
tasks, channels, opportunities, processes and facilities, any plans, intervals,
retention ages, tables and page size. Nothing is taken on trust; each module
is proved by `tlapm` from its first line to its last leaf.

The assumptions are those the code justifies: counts and bounds are naturals, an
interval, a threshold and a day are not empty, a null is no value, what is listed is
a sequence, and no operational channel is listed twice. `WelcomeBC` and
`OperationalAlerts` loop over a list with a recursive function. Such a function
exists for a list of any length because a shortest list without one would have a
predecessor with one (`PassExtended`, `TurnAdded`): the least counterexample in
place of an induction theorem, which takes an operator that these provers cannot
instantiate. Loop invariants
(`ParseInv`, `Evaluated`) are carried along a list in the same way.

**DurableOutbox_proofs.** Lemmas first say what one transaction inserts
(`InsertRunInserts`: new ids lie above the old ones, numbering is one-to-one,
each notification refers to its own transition), so that the steps need not look
inside the numbering again.

- `TypeCorrect`. `TypeOK` is not inductive: that the run inserted by
  `RecordSuccess` is well shaped needs that a fetched task has a result
  (`ResultReady`), and that `IntentOf` is defined on a row needs the foreign keys
  (`ForeignKeys`), which survive retention because of the cascade.
- `PagesAlwaysValid` (`PagesStayValid`), of `Spec` and so with every cascade: an id on
  a page names the listed row as long as the run of that notification is retained.
- `NothingLost`, `RecordedDeliveriesHappened`, under `UncascadedSpec`.
  `NoIntentLost` says nothing of pages, yet the page
  decides which row an update by id hits. `OutboxInv` adds that a page entry
  names the row that was listed (`PagesStayValid`), that this row is undelivered
  or was delivered in the current day (`PagesFresh`), so that retention does not
  take it and its id cannot be used again meanwhile, that tasks outside the
  dispatch hold no page (`PagesEmptied`), and that a task about to record a
  delivery has sent that very notification (`SentFirst`). `Tick`, the one step
  that could break `PagesFresh`, happens when no pass is under way: a pass is
  bounded by its timeouts, the smallest age is a day.

**AtLeastOnce_proofs**, over the same specification and its invariants.

- `SchemaIsKept` (`RowsAreConsistent`) and `ChangeLogIsComplete`
  (`ChangesExplainLatest`) hold of `Spec`, with every cascade. The first needs that
  one run never records two changes of one opportunity (`ChangesAreSingle`), the
  second that the latest snapshot differs from the job's baseline by exactly the
  changes of the remaining runs (`Baselines`), with the lemma of `Transitions`
  that detecting and replaying are inverse.
- `ImplementsAtLeastOnce`: every step of the outbox is a step of `AtLeastOnce` or
  a stutter, under `UncascadedSpec`. The refinement maps an intent to the
  rows that carry it, so the inductive invariant says that an intent has one row
  (`IntentHasOneRow`), because a run's identity is not used twice
  (`RunIdsAreFresh`).

**Scheduler_proofs.**

- `NoOverlap` and `NothingLeftBehind` from `IInv`: an execution that is not done
  is the registered one of its job (`LiveIsRegistered`), so `tick` sees it; once
  the loop has ended, shutdown waits for everything that is not done, and has
  ended only when nothing is (`LiveIsAwaited`).
- `TypeCorrect` from `TInv`: attempts are counted only inside an execution, and
  `DelayIsBounded` shows that a delay stays between zero and the cap, whatever
  the jitter.
- `MissedOccurrencesSkipped` and `CadenceKept` from `NextDueIsAhead` and the
  arithmetic of remainders: the next due time is the first point of the job's
  grid that lies ahead.

**OperationalAlerts_proofs.**

- `StreaksAreReported`: the failure columns are those that the executions give
  (`Counted`), and no update of the alerts touches them.
- `FlagsAreRows` (`FlagsMatchRows`) and `WithdrawnIsOver` (`WithdrawnWhenOver`) from
  `RowsInv`: the ids of the rows are finite in number, so that a new row's id is
  free (`LargestIsBound`, `Enqueued`), a withdrawal takes the rows of its own key
  only (`Withdrawn`), and each turn of the loop over the jobs settles the flag and
  the rows of its job and leaves those of the others (`Evaluated`). The two kinds
  of alert share a table: that a success withdraws no backlog alert and the loop no
  failure alert is the part of `Evaluated` that a reader would miss.

**Worker_proofs.**

- `AccountsAreKept`: the worker, with its attempts, reports, dispatches and their
  errors, is a refinement of `OperationalAlerts`, whose module knows only the
  updates of the health row. A step of the worker must be one update the alerts'
  specification allows, so the invariant says at which stage of an execution a task
  is (`Stages`) and which shape the rows and the page have then (`Shapes`). That
  the largest of a job's attempts exists and is what `Max` returns is a lemma by
  the least counterexample; a dispatch changes the backlog of one job by at most
  one attempt.
- `WorkerFlagsAreRows`, `WorkerReportsStreaks`: what is proved of the accounting
  carries over to the worker by the refinement. `WorkerTyped` takes the types of
  the accounts from there too, and adds those of attempts and lists (`Lists`).

**Deployment_proofs.** `ProductionIsRecorded` and `RollbackHasTarget`. The
invariant is about the file lock: one operation holds it (`MutualExclusion`), what
the holder read of the records under it is still true when it writes
(`HolderKnows`), an operation under way has a target (`TargetChosen`),
`current-image` names what the holder found until the new release is recorded
(`RecordsFollow`), and the two records differ unless a deployment is between its
two writes (`RecordsDiffer`).

**MCOperation_proofs**, over `ServiceSpec`; the invariant of each part is kept by
its own steps, and untouched by the others (`EachPart`). `OperationTyped` puts the
three together, with `Deployment_proofs` for the first. For the store, with every
fault allowed, the torn script included:

- `StoreIsComplete` (`StoresAreComplete`). That a file is complete when its version
  is 3 is not inductive: a script that is under way decides which tables there are.
  `Progress` says of every remainder of a script which version and tables it
  may meet, `Schema` which tables a version has, and `Alone` that two processes are
  never both in the creation past its first table, or at the same stage of an
  upgrade past the table made there: the second one fails on that table, and so
  does not write its version over a file that another process has finished.
- `PruneAfterBackup` (`PrunedIsBackedUp`) from `CopiesKeep` (a file named after a
  second holds every older run that the database still has) and `CyclesAreShort`
  (when a cycle prunes, a backup at least as recent as its own exists, and the cycle
  is younger than the retention age).
- `ExpiryKeepsNewest` (`OnlySurplusExpires`) from `SurplusListed`: what any cycle
  still means to unlink has `Retain` newer backups, though others unlink meanwhile.
- `EmailIsAChannel`: every step of the notifier, whose thread may outlive its task,
  is a step of `Channel` or a stutter. `Conversations`: the server has taken a message
  exactly when its thread got that far, so a task that was told "sent" was told so
  of a message that reached a recipient. It is the safety half of
  `KeepsChannelContract`.

**MCBoundary_proofs.** `BCParks` by itself, the others over `BoundarySpec`;
`BoundaryTyped` puts them together.

- *BC Parks.* `Computed`: the latest snapshot is the one of some past moment not
  later than the facility's clock, and the facility day it was computed for is still
  current, because the dates offered must cover the window. From this
  `SnapshotOfOneDay`, `NothingDisappearsEarly` and `OpeningIsFinal` follow by the
  order of the two clocks.
- *Configuration.* `AcceptedCanBeServed` (`AcceptedIsServable`; it speaks of base delays,
  which jitter may still take near zero) from `SettingsInv`: a
  worker holds what was valid together when it started (`Loaded`), and a pending
  row that carries the number of its start names one of its channels, whatever
  the file, the environment and a one-shot check do since.
- *Mock site.* `MockIsAccountable` (`OutcomeIsExplained`) from `MockInv`: while a check
  runs, what is online now is recorded in `online`, or it has an excuse
  (`Witnessed`); a page that is held back was online when it was taken (`HeldPage`);
  the time the facility told was that of a moment of the check, and it is still
  that day, or there is an excuse (`Told`). A snapshot so has one moment for its
  dates and one of the same day for their availability; that the two coincide
  cannot be proved, since it is not so (section 6).
  `ReservationsServed` follows a page through `GenericHtml`.
- *WelcomeBC.* `ParserCountsTheLayout` (`TableMatchesLayout`) and `SnapshotIsComplete`
  (`RecordedIsComplete`). `ParseInv` relates the one-pass counter after each row to the
  layout: it has failed exactly if a target row so far is not legible, else it has
  found every draw so far (`Given`), and what is left of its row span is what the
  last date still covers (`Covers`).

## 8. What is only model-checked

- All liveness: `HealthySettled`, `HealthRecovers`, `AlertsSettle`,
  `StopsEventually`, `EveryJobKeepsRunning`, `EveryOperationServed`,
  `EveryStartOpens`, `MaintenanceRecovers`, and the half of
  `KeepsChannelContract` that says a send ends. Fairness is out of the prover's
  reach.
- The runs that refute a claim: a counterexample is their whole point.
- That `NothingLost`, `RecordedDeliveriesHappened` and `ImplementsAtLeastOnce` need
  their assumption: the run `cascade` refutes the first without it (finding 1).
- `MaintenanceRecovers` asks for a manifest that names a backup only once cycles
  overlap no more (section 6). Its clock stops at the bound, so that cycles after
  it share a name; that expiry keeps the newest for any number of names is
  proved (`ExpiryKeepsNewest`).

## 9. What is not modelled, and why

- *Repository governance scripts*: single requests to the hosting service's API from
  CI, with no state of their own; no part of the running program.
- *Console and fake channels*: one writes a line, the other is a test double; the
  dispatcher's actions already cover what a channel may answer.
- *Duplicate operational channels*: a channel listed twice is legal in the settings
  and breaks every alert on `UNIQUE (alert_key, channel)`. In `Configuration` the
  channels are a set, `OperationalAlerts` and `Worker` assume that none is listed
  twice.
- *Texts*: the wording of notifications, alerts, errors and status reports; the
  status report only reads.
- *The mock site's bookkeeping*: its control pages, beyond the changes of state
  that the monitored page shows; the syntax of YAML below the fields that are
  validated.
- *Abstractions inside modelled parts*: indexes, the content of `job_status` during
  upgrades, the page of 100 alerts, the length of the sleep between cycles,
  a cycle that still copies into the temporary file another one of the same second
  publishes (the copy is one step), the hand-over of a response (answered and
  received in one step), HTTP
  and HTML below the rows and sections, and the checks of a deployment's
  arguments and checkout, which precede the lock.

## 10. Plan

Done, in this order: `Transitions`, `DurableOutbox` with `AtLeastOnce` and its
proofs, `OperationalAlerts`, `Scheduler` and its proofs, `Deployment`, `BCParks`,
`WelcomeBC`, `StoreLifecycle`; then `Worker`, which composes executions, dispatch
and alerts, `GenericHtml` with `MockSite`, `EmailNotifier` with `Channel`,
`Configuration`, the composed runs `worker`, `operation` and `boundary`, and the
proofs of `AtLeastOnce`, `OperationalAlerts`, `Worker`, `Deployment`, `BCParks` and
`EmailNotifier`; then the proofs of `StoreLifecycle`, `Configuration`, `MockSite`,
`WelcomeBC` and the rest of `OperationalAlerts` and `Worker`. The outbox comes first because losing a notification is the one
failure the program exists to avoid.

What is left:

1. Faults of `StoreLifecycle`: a clock set back, torn scripts with the repair that
   the operator has, the rows of `job_status` through an upgrade.
2. Operational channels with duplicates; alert pages shorter than the alerts.
3. Safety lemmas that the liveness properties rest on, which the provers can reach:
   that the scheduler's grace period bounds the steps of a shutdown, and that a
   dispatch shortens its page with every step.

## 11. Running it

    tlc -config MCDurableOutbox.cfg MCDurableOutbox
    tlc -config MCWorker.cfg MCWorker
    tlapm DurableOutbox_proofs.tla

The other runs and proof modules likewise; `PROJECT.json` names the module of each
run. On two cores the longest runs, `worker` and `boundary`, take a little over two
minutes; `outbox`, `alerts` and `operation` take one to one and a half.
