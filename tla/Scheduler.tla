----------------------------- MODULE Scheduler -----------------------------
(***************************************************************************)
(* The interval scheduler of the worker: web_checker/core/scheduler.py,    *)
(* with the retry delays of web_checker/config.py and the signal handling  *)
(* of web_checker/cli.py.                                                  *)
(* One task runs the loop, one task each runs an execution of a job.  Time *)
(* is relative: a timer holds the units left until it expires, negative    *)
(* when it is overdue, because a busy event loop wakes up late.            *)
(***************************************************************************)
EXTENDS Integers

CONSTANTS
    Jobs,             \* the enabled jobs that have a schedule
    Slots,            \* names for the executions of a job that may coexist
    Interval,         \* [Jobs -> Nat \ {0}] interval_seconds
    MaxAttempts, InitialDelay, MaxDelay, JitterPercent,    \* RetryPolicy
    Grace,            \* shutdown_timeout_seconds
    RandomPercents,   \* what random_unit may return, in percent
    MaxLate,          \* bound: how late the loop may wake up
    None              \* no task is registered for the job

ASSUME SchedulerAssumption ==
    /\ Interval \in [Jobs -> Nat \ {0}]
    /\ MaxAttempts \in Nat \ {0}
    /\ InitialDelay \in Nat /\ MaxDelay \in Nat /\ InitialDelay <= MaxDelay
    /\ JitterPercent \in 0..100
    /\ RandomPercents \subseteq 0..99
    /\ Grace \in Nat /\ MaxLate \in Nat
    /\ None \notin Slots

VARIABLES
    dueIn,     \* _next_due, as the time left; frozen once the loop has ended
    phase,     \* time since startup, modulo the interval of the job
    loop,      \* where run is
    stop,      \* stop_event
    graceLeft, \* the rest of the shutdown timeout
    tasks,     \* _tasks: the slot of the registered execution of a job
    awaited,   \* the executions shutdown waits for
    state,     \* where each execution is in _execute_with_retries
    attempt, wake

timing == <<dueIn, phase>>
ending == <<loop, stop, graceLeft, awaited>>
execution == <<state, attempt, wake>>
vars == <<timing, ending, tasks, execution>>

Executions == Jobs \X Slots
Live(e) == state[e] # "done"
Registered == {e \in Executions : tasks[e[1]] = e[2]}
Smaller(a, b) == IF a <= b THEN a ELSE b
Larger(a, b) == IF a <= b THEN b ELSE a

-----------------------------------------------------------------------------
Init ==
    /\ dueIn = [j \in Jobs |-> 0]
    /\ phase = [j \in Jobs |-> 0]
    /\ loop = "running" /\ stop = FALSE /\ graceLeft = 0 /\ awaited = {}
    /\ tasks = [j \in Jobs |-> None]
    /\ state = [e \in Executions |-> "done"]
    /\ attempt = [e \in Executions |-> 0]
    /\ wake = [e \in Executions |-> 0]

(* One unit of time goes by.  The loop wakes up at most MaxLate late, and  *)
(* shutdown looks at its timeout as soon as it expires.                    *)
Pass ==
    /\ \/ /\ loop = "running"
          /\ \A j \in Jobs : dueIn[j] > -MaxLate
          /\ dueIn' = [j \in Jobs |-> dueIn[j] - 1]
          /\ phase' = [j \in Jobs |-> (phase[j] + 1) % Interval[j]]
          /\ UNCHANGED graceLeft
       \/ /\ loop = "draining" /\ graceLeft > 0
          /\ graceLeft' = graceLeft - 1
          /\ UNCHANGED timing
    /\ wake' = [e \in Executions |-> IF wake[e] > 0 THEN wake[e] - 1 ELSE 0]
    /\ UNCHANGED <<loop, stop, awaited, tasks, state, attempt>>

Due == {j \in Jobs : dueIn[j] <= 0}

(* Mutant: the cadence restarts at the time of the tick. *)
NextDueFromNow(j) == Interval[j]

(* Mutant: intervals missed by a late tick are not skipped. *)
NextDueOneStep(j) == dueIn[j] + Interval[j]

(* The next multiple of the interval that still lies ahead. *)
NextDue(j) == dueIn[j] + ((-dueIn[j]) \div Interval[j] + 1) * Interval[j]

(* Mutant: the overlap check is missing. *)
BusyNever(j) == FALSE

(* Mutant: a registered task counts as running although it is done. *)
BusyWhenRegistered(j) == tasks[j] # None

(* The registered execution of the job is not done. *)
Busy(j) == \E e \in Registered : e[1] = j /\ Live(e)

(* tick: forget the executions that are done and start one for every due   *)
(* job, unless its last one still runs.  Up to its final sleep(0) there is *)
(* no suspension point; the next due time moves on in either case.         *)
Tick ==
    LET Started == {j \in Due : ~Busy(j)}
    IN
    /\ loop = "running" /\ ~stop
    /\ Due # {}
    /\ dueIn' = [j \in Jobs |-> IF j \in Due THEN NextDue(j) ELSE dueIn[j]]
    /\ \E slot \in [Started -> Slots] :
          /\ \A j \in Started : ~Live(<<j, slot[j]>>)
          /\ tasks' = [j \in Jobs |-> IF j \in Started THEN slot[j]
                                      ELSE IF Busy(j) THEN tasks[j] ELSE None]
          /\ state' = [e \in Executions |->
                          IF e[1] \in Started /\ slot[e[1]] = e[2] THEN "created"
                          ELSE state[e]]
    /\ UNCHANGED <<phase, ending, attempt, wake>>

-----------------------------------------------------------------------------
(* An execution: _execute_with_retries. *)

Begin(e) ==
    /\ state[e] = "created"
    /\ state' = [state EXCEPT ![e] = "checking"]
    /\ attempt' = [attempt EXCEPT ![e] = 1]
    /\ UNCHANGED <<timing, ending, tasks, wake>>

(* The driver, the store and the notifications are done; delivery_backlog  *)
(* is called next.                                                         *)
CheckSucceeds(e) ==
    /\ state[e] = "checking"
    /\ state' = [state EXCEPT ![e] = "reporting"]
    /\ UNCHANGED <<timing, ending, tasks, attempt, wake>>

BaseDelay(n) == Smaller(InitialDelay * 2^(n - 1), MaxDelay)
Jitter(random) == 100 + (JitterPercent * (2 * random - 100)) \div 100

(* Mutant: jitter is applied after the cap. *)
DelayUncapped(n, random) == Larger(0, (BaseDelay(n) * Jitter(random)) \div 100)

(* delay_after_failure: capped exponential delay with symmetric jitter,    *)
(* here rounded down to units of time.                                     *)
DelayAfterFailure(n, random) ==
    Smaller(MaxDelay, Larger(0, (BaseDelay(n) * Jitter(random)) \div 100))

(* The last attempt goes on to check_failed, the others to a retry. *)
CheckFails(e) ==
    /\ state[e] = "checking"
    /\ \/ /\ attempt[e] = MaxAttempts
          /\ state' = [state EXCEPT ![e] = "reporting"]
          /\ UNCHANGED wake
       \/ /\ attempt[e] < MaxAttempts
          /\ state' = [state EXCEPT ![e] = "sleeping"]
          /\ \E random \in RandomPercents :
                wake' = [wake EXCEPT ![e] = DelayAfterFailure(attempt[e], random)]
    /\ UNCHANGED <<timing, ending, tasks, attempt>>

WakeUp(e) ==
    /\ state[e] = "sleeping" /\ wake[e] = 0
    /\ state' = [state EXCEPT ![e] = "checking"]
    /\ attempt' = [attempt EXCEPT ![e] = @ + 1]
    /\ UNCHANGED <<timing, ending, tasks, wake>>

(* The alert service returns or raises: the task is done in either case.   *)
ReportEnds(e) ==
    /\ state[e] = "reporting"
    /\ state' = [state EXCEPT ![e] = "done"]
    /\ attempt' = [attempt EXCEPT ![e] = 0]
    /\ UNCHANGED <<timing, ending, tasks, wake>>

-----------------------------------------------------------------------------
(* Shutdown. *)

(* SIGINT or SIGTERM. *)
RequestStop ==
    /\ ~stop
    /\ stop' = TRUE
    /\ UNCHANGED <<timing, loop, graceLeft, awaited, tasks, execution>>

(* run leaves its loop and shutdown collects the executions not done yet.  *)
EnterShutdown ==
    LET unfinished == {e \in Registered : Live(e)}
    IN
    /\ loop = "running" /\ stop
    /\ awaited' = unfinished
    /\ graceLeft' = IF unfinished = {} THEN 0 ELSE Grace
    /\ loop' = IF unfinished = {} THEN "stopped" ELSE "draining"
    /\ UNCHANGED <<timing, stop, tasks, execution>>

Drained ==
    /\ loop = "draining"
    /\ \A e \in awaited : ~Live(e)
    /\ loop' = "stopped"
    /\ graceLeft' = 0
    /\ UNCHANGED <<timing, stop, awaited, tasks, execution>>

(* Mutant: shutdown returns when its timeout expires. *)
GraceExpiresReturning ==
    /\ loop = "draining" /\ graceLeft = 0
    /\ loop' = "stopped"
    /\ UNCHANGED <<timing, stop, graceLeft, awaited, tasks, execution>>

(* Mutant: shutdown waits on when its timeout expires. *)
GraceExpiresWaiting ==
    /\ loop = "draining" /\ graceLeft = 0
    /\ graceLeft' = Grace
    /\ UNCHANGED <<timing, loop, stop, awaited, tasks, execution>>

(* The timeout expires: every execution that is still pending is cancelled *)
(* at the await it is suspended in.                                        *)
GraceExpires ==
    /\ loop = "draining" /\ graceLeft = 0
    /\ \E e \in awaited : Live(e)
    /\ loop' = "gathering"
    /\ state' = [e \in Executions |->
                    IF e \in awaited /\ Live(e) THEN "cancelled" ELSE state[e]]
    /\ UNCHANGED <<timing, stop, graceLeft, awaited, tasks, attempt, wake>>

(* CancelledError has unwound the execution. *)
Unwound(e) ==
    /\ state[e] = "cancelled"
    /\ state' = [state EXCEPT ![e] = "done"]
    /\ attempt' = [attempt EXCEPT ![e] = 0]
    /\ wake' = [wake EXCEPT ![e] = 0]
    /\ UNCHANGED <<timing, ending, tasks>>

(* gather returns when all that was cancelled has ended. *)
Gathered ==
    /\ loop = "gathering"
    /\ \A e \in awaited : ~Live(e)
    /\ loop' = "stopped"
    /\ UNCHANGED <<timing, stop, graceLeft, awaited, tasks, execution>>

Attempted(e) == CheckSucceeds(e) \/ CheckFails(e) \/ ReportEnds(e)

Next ==
    \/ Pass \/ Tick
    \/ \E e \in Executions : Begin(e) \/ Attempted(e) \/ WakeUp(e) \/ Unwound(e)
    \/ RequestStop \/ EnterShutdown \/ Drained \/ GraceExpires \/ Gathered

Spec == Init /\ [][Next]_vars

(* Time passes and the event loop runs what is runnable.  A check ends by  *)
(* the timeouts of its driver and channels while the loop runs; during     *)
(* shutdown nothing is assumed of it, it may hang.  No signal need come.   *)
Fairness ==
    /\ WF_vars(Pass) /\ WF_vars(Tick)
    /\ WF_vars(EnterShutdown) /\ WF_vars(Drained) /\ WF_vars(GraceExpires)
    /\ WF_vars(Gathered)
    /\ \A e \in Executions :
          /\ WF_vars(Begin(e)) /\ WF_vars(WakeUp(e)) /\ WF_vars(Unwound(e))
          /\ WF_vars(loop = "running" /\ Attempted(e))

FairSpec == Spec /\ Fairness

-----------------------------------------------------------------------------
(* Timers, counters and registrations stay in the ranges the retry policy,  *)
(* the interval and the shutdown timeout of the worker allow: no execution  *)
(* makes more than max_attempts checks or waits longer than max_delay.      *)
TypeOK ==
    /\ dueIn \in [Jobs -> Int] /\ \A j \in Jobs : dueIn[j] <= Interval[j]
    /\ phase \in [Jobs -> Nat]
    /\ loop \in {"running", "draining", "gathering", "stopped"}
    /\ stop \in BOOLEAN
    /\ graceLeft \in 0..Grace
    /\ tasks \in [Jobs -> Slots \cup {None}]
    /\ awaited \subseteq Executions
    /\ state \in [Executions -> {"done", "created", "checking", "sleeping",
                                 "reporting", "cancelled"}]
    /\ attempt \in [Executions -> 0..MaxAttempts]
    /\ wake \in [Executions -> 0..MaxDelay]

(* A job never overlaps with itself, however late the loop ticks and        *)
(* however long its checks, retries and alert deliveries take.              *)
SerialExecution ==
    \A e, f \in Executions : (e[1] = f[1] /\ Live(e) /\ Live(f)) => e = f

(* A job is only due at whole intervals after startup: a late tick, a       *)
(* skipped occurrence or a slow check never shifts the cadence.             *)
Cadence ==
    \A j \in Jobs : (dueIn[j] + phase[j]) % Interval[j] = 0

(* A tick leaves every job due in the future, within one interval, so that  *)
(* occurrences missed by a late loop do not pile up into a burst of checks. *)
NoBurst ==
    [][\A j \in Jobs : dueIn'[j] > dueIn[j] => dueIn'[j] \in 1..Interval[j]]_vars

(* When the worker has stopped, no execution is left behind: none is cut    *)
(* off in the middle of a store transaction by the end of the event loop.   *)
NoOrphans ==
    loop = "stopped" => \A e \in Executions : ~Live(e)

(* Once a signal came the worker stops, even if the checks in flight hang.  *)
StopsEventually == stop ~> loop = "stopped"

(* Until a signal comes every job is started again and again, whether its   *)
(* executions succeed, exhaust their retries or fail to report.             *)
EveryJobKeepsRunning ==
    \A j \in Jobs : []<>(stop \/ \E e \in Executions : e[1] = j /\ state[e] = "created")

=============================================================================
