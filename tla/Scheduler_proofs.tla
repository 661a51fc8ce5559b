-------------------------- MODULE Scheduler_proofs --------------------------
(***************************************************************************)
(* Proofs about Scheduler.  A job never overlaps with itself because every *)
(* execution that is not done is the registered one of its job; nothing is *)
(* left behind because shutdown awaits all of those.                       *)
(***************************************************************************)
EXTENDS Scheduler, TLAPS

States == {"done", "created", "checking", "sleeping", "reporting", "cancelled"}

(* The part of TypeOK the other conjuncts rest on. *)
Shapes ==
    /\ tasks \in [Jobs -> Slots \cup {None}]
    /\ state \in [Executions -> States]
    /\ loop \in {"running", "draining", "gathering", "stopped"}

(* An execution that is not done is the registered one of its job. *)
LiveIsRegistered ==
    \A e \in Executions : Live(e) => tasks[e[1]] = e[2]

(* Once the loop has ended, shutdown waits for whatever is not done, *)
(* and has returned only when nothing is.                            *)
LiveIsAwaited ==
    /\ loop # "running" => \A e \in Executions : Live(e) => e \in awaited
    /\ loop = "stopped" => \A e \in Executions : ~Live(e)

IInv == Shapes /\ LiveIsRegistered /\ LiveIsAwaited

(* The step of one execution that was not done: it may only end. *)
Moves(e) ==
    /\ Live(e)
    /\ \E s \in States : state' = [state EXCEPT ![e] = s]
    /\ UNCHANGED <<tasks, loop, awaited>>

LEMMA ExecutionMoves ==
  ASSUME NEW e \in Executions,
         Begin(e) \/ Attempted(e) \/ WakeUp(e) \/ Unwound(e)
  PROVE  Moves(e)
<1>1. CASE Begin(e)
  BY <1>1 DEF Begin, Moves, Live, States, ending
<1>2. CASE CheckSucceeds(e)
  BY <1>2 DEF CheckSucceeds, Moves, Live, States, ending
<1>3. CASE CheckFails(e)
  BY <1>3 DEF CheckFails, Moves, Live, States, ending
<1>4. CASE ReportEnds(e)
  BY <1>4 DEF ReportEnds, Moves, Live, States, ending
<1>5. CASE WakeUp(e)
  BY <1>5 DEF WakeUp, Moves, Live, States, ending
<1>6. CASE Unwound(e)
  BY <1>6 DEF Unwound, Moves, Live, States, ending
<1> QED
  BY <1>1, <1>2, <1>3, <1>4, <1>5, <1>6 DEF Attempted

LEMMA MovePreserves ==
  ASSUME IInv, NEW e \in Executions, Moves(e)
  PROVE  IInv'
<1> USE DEF Moves, Live
<1>1. Shapes'
  BY DEF IInv, Shapes
<1>2. \A f \in Executions : Live(f)' => Live(f)
  BY DEF IInv, Shapes
<1>3. LiveIsRegistered'
  BY <1>2 DEF IInv, LiveIsRegistered
<1>4. LiveIsAwaited'
  BY <1>2 DEF IInv, LiveIsAwaited
<1> QED
  BY <1>1, <1>3, <1>4 DEF IInv

(* A tick starts a job only when its registered execution is done, hence   *)
(* when none of its executions is live.                                    *)
LEMMA TickPreserves ==
  ASSUME IInv, Tick
  PROVE  IInv'
<1> DEFINE Started == {j \in Due : ~Busy(j)}
<1>1. PICK slot \in [Started -> Slots] :
        /\ tasks' = [j \in Jobs |-> IF j \in Started THEN slot[j]
                                    ELSE IF Busy(j) THEN tasks[j] ELSE None]
        /\ state' = [e \in Executions |->
                        IF e[1] \in Started /\ slot[e[1]] = e[2] THEN "created"
                        ELSE state[e]]
  BY Zenon DEF Tick
<1>2. loop = "running" /\ loop' = loop
  BY DEF Tick, ending
<1>3. Started \subseteq Jobs
  BY DEF Due
<1>4. Shapes'
  BY <1>1, <1>2, <1>3 DEF IInv, Shapes, States, Executions
<1>5. ASSUME NEW e \in Executions, Live(e)'
      PROVE  tasks'[e[1]] = e[2]
  <2>1. e[1] \in Jobs /\ e[2] \in Slots
    BY DEF Executions
  <2>2. CASE e[1] \in Started /\ slot[e[1]] = e[2]
    BY <1>1, <2>1, <2>2
  <2>3. CASE ~(e[1] \in Started /\ slot[e[1]] = e[2])
    <3>1. state'[e] = state[e]
      BY <1>1, <2>3
    <3>2. Live(e)
      BY <1>5, <3>1 DEF Live
    <3>3. tasks[e[1]] = e[2]
      BY <3>2 DEF IInv, LiveIsRegistered
    <3>4. Busy(e[1])
      BY <3>2, <3>3 DEF Busy, Registered
    <3> QED
      BY <1>1, <2>1, <3>3, <3>4
  <2> QED
    BY <2>2, <2>3
<1>6. LiveIsRegistered'
  BY <1>5 DEF LiveIsRegistered, Live
<1>7. LiveIsAwaited'
  BY <1>2 DEF LiveIsAwaited
<1> QED
  BY <1>4, <1>6, <1>7 DEF IInv

LEMMA ShutdownPreserves ==
  ASSUME IInv, EnterShutdown \/ Drained \/ GraceExpires \/ Gathered
  PROVE  IInv'
<1>1. CASE EnterShutdown
  <2>1. UNCHANGED <<tasks, state>>
    BY <1>1 DEF EnterShutdown, execution
  <2>2. \A e \in Executions : Live(e) => e \in Registered
    BY DEF IInv, LiveIsRegistered, Registered
  <2>3. awaited' = {e \in Registered : Live(e)}
    BY <1>1 DEF EnterShutdown
  <2>4. loop' \in {"draining", "stopped"}
        /\ (loop' = "stopped" => {e \in Registered : Live(e)} = {})
    BY <1>1 DEF EnterShutdown
  <2> QED
    BY <2>1, <2>2, <2>3, <2>4
       DEF IInv, Shapes, LiveIsRegistered, LiveIsAwaited, Live
<1>2. CASE Drained \/ Gathered
  <2>1. UNCHANGED <<tasks, state, awaited>> /\ loop # "running" /\ loop' = "stopped"
    BY <1>2 DEF Drained, Gathered, execution
  <2>2. \A e \in Executions : ~Live(e)
    <3>1. \A e \in awaited : ~Live(e)
      BY <1>2 DEF Drained, Gathered
    <3> QED
      BY <2>1, <3>1 DEF IInv, LiveIsAwaited
  <2> QED
    BY <2>1, <2>2 DEF IInv, Shapes, LiveIsRegistered, LiveIsAwaited, Live
<1>3. CASE GraceExpires
  <2>1. UNCHANGED <<tasks, awaited>> /\ loop = "draining" /\ loop' = "gathering"
    BY <1>3 DEF GraceExpires
  <2>2. state' = [e \in Executions |->
                     IF e \in awaited /\ Live(e) THEN "cancelled" ELSE state[e]]
    BY <1>3 DEF GraceExpires
  <2>3. \A e \in Executions : Live(e)' => Live(e)
    BY <2>2 DEF Live
  <2>4. Shapes'
    BY <2>1, <2>2 DEF IInv, Shapes, States
  <2> QED
    BY <2>1, <2>3, <2>4 DEF IInv, LiveIsRegistered, LiveIsAwaited, Live
<1> QED
  BY <1>1, <1>2, <1>3

THEOREM SchedulerInvariant == Spec => []IInv
<1>1. Init => IInv
  BY DEF Init, IInv, Shapes, LiveIsRegistered, LiveIsAwaited, Live, States
<1>2. IInv /\ [Next]_vars => IInv'
  <2> SUFFICES ASSUME IInv, [Next]_vars PROVE IInv'
    OBVIOUS
  <2>1. CASE \E e \in Executions : Begin(e) \/ Attempted(e) \/ WakeUp(e) \/ Unwound(e)
    BY <2>1, ExecutionMoves, MovePreserves
  <2>2. CASE Tick
    BY <2>2, TickPreserves
  <2>3. CASE EnterShutdown \/ Drained \/ GraceExpires \/ Gathered
    BY <2>3, ShutdownPreserves
  <2>4. CASE Pass \/ RequestStop \/ UNCHANGED vars
    <3>1. UNCHANGED <<tasks, state, loop, awaited>>
      BY <2>4 DEF Pass, RequestStop, vars, execution, ending
    <3> QED
      BY <3>1 DEF IInv, Shapes, LiveIsRegistered, LiveIsAwaited, Live
  <2> QED
    BY <2>1, <2>2, <2>3, <2>4 DEF Next
<1> QED
  BY <1>1, <1>2, PTL DEF Spec

(* However many jobs there are and however late the loop ticks, no job ever *)
(* has two executions that are not done (tick's overlap check).             *)
THEOREM NoOverlap == Spec => []SerialExecution
<1>1. IInv => SerialExecution
  BY DEF IInv, LiveIsRegistered, SerialExecution, Executions
<1> QED
  BY <1>1, SchedulerInvariant, PTL

(* Whatever the retry policy and the timeout, shutdown never returns while  *)
(* an execution is still under way.                                         *)
THEOREM NothingLeftBehind == Spec => []NoOrphans
<1>1. IInv => NoOrphans
  BY DEF IInv, LiveIsAwaited, NoOrphans
<1> QED
  BY <1>1, SchedulerInvariant, PTL

-----------------------------------------------------------------------------
(* The cadence. *)

(* What integer division means. *)
LEMMA DivisionRemainder ==
  ASSUME NEW a \in Int, NEW n \in Nat \ {0}
  PROVE  /\ a \div n \in Int
         /\ a % n \in 0..(n - 1)
         /\ a = n * (a \div n) + (a % n)
  OBVIOUS

LEMMA IntervalsPositive ==
  ASSUME NEW j \in Jobs
  PROVE  Interval[j] \in Nat \ {0} /\ 0 <= Interval[j]
<1>1. Interval[j] \in Nat \ {0}
  BY SchedulerAssumption, Zenon
<1>2. \A n \in Nat \ {0} : 0 <= n
  OBVIOUS
<1> QED
  BY <1>1, <1>2, Zenon

LEMMA NextDueIsAhead ==
  ASSUME NEW d \in Int, d <= 0, NEW n \in Nat \ {0}
  PROVE  d + ((-d) \div n + 1) * n \in 1..n
<1>0. -d \in Int
  OBVIOUS
<1>1. /\ (-d) \div n \in Int
      /\ (-d) % n \in 0..(n - 1)
      /\ -d = n * ((-d) \div n) + ((-d) % n)
  BY <1>0, DivisionRemainder, Zenon
<1>2. \A q, r \in Int : (r \in 0..(n - 1) /\ -d = n * q + r) => d + (q + 1) * n \in 1..n
  <2> SUFFICES ASSUME NEW q \in Int, NEW r \in 0..(n - 1), -d = n * q + r
               PROVE  d + (q + 1) * n \in 1..n
    OBVIOUS
  <2>1. (q + 1) * n = n * q + n
    OBVIOUS
  <2> QED
    BY <2>1
<1> QED
  BY <1>1, <1>2

(* Two remainders that differ by a multiple of the divisor are equal. *)
LEMMA RemainderUnique ==
  ASSUME NEW n \in Nat \ {0}, NEW r \in 0..(n - 1), NEW s \in 0..(n - 1),
         NEW m \in Int, r - s = n * m
  PROVE  r = s
<1>1. CASE m = 0
  BY <1>1
<1>2. CASE m >= 1
  <2>1. n * m >= n
    BY <1>2
  <2> QED
    BY <2>1
<1>3. CASE m <= -1
  <2>1. n * m <= -n
    BY <1>3
  <2> QED
    BY <2>1
<1> QED
  BY <1>1, <1>2, <1>3

LEMMA RemainderOfMultiple ==
  ASSUME NEW a \in Int, NEW k \in Int, NEW n \in Nat \ {0}
  PROVE  (a + k * n) % n = a % n
<1>1. a + k * n \in Int
  OBVIOUS
<1>2. /\ a \div n \in Int /\ a % n \in 0..(n - 1)
      /\ a = n * (a \div n) + (a % n)
  BY DivisionRemainder
<1>3. /\ (a + k * n) \div n \in Int /\ (a + k * n) % n \in 0..(n - 1)
      /\ a + k * n = n * ((a + k * n) \div n) + ((a + k * n) % n)
  BY <1>1, DivisionRemainder
<1>4. \A q, p, r, s \in Int :
        (a = n * q + r /\ a + k * n = n * p + s) => s - r = n * (q + k - p)
  OBVIOUS
<1>5. ((a + k * n) % n) - (a % n) = n * (a \div n + k - ((a + k * n) \div n))
  BY <1>2, <1>3, <1>4
<1>6. a \div n + k - ((a + k * n) \div n) \in Int
  BY <1>2, <1>3
<1> QED
  BY <1>2, <1>3, <1>5, <1>6, RemainderUnique, Zenon

LEMMA DelayIsBounded ==
  ASSUME NEW n \in 1..MaxAttempts, NEW random \in RandomPercents
  PROVE  DelayAfterFailure(n, random) \in 0..MaxDelay
<1> USE SchedulerAssumption
<1>1. n - 1 \in Nat /\ 2^(n - 1) \in Int
  OBVIOUS
<1>2. \A power \in Int : InitialDelay * power \in Int
  OBVIOUS
<1>3. BaseDelay(n) \in Int
  BY <1>1, <1>2 DEF BaseDelay, Smaller
<1>4. random \in Int /\ JitterPercent \in Int
  OBVIOUS
<1>5. JitterPercent * (2 * random - 100) \in Int
  BY <1>4
<1>6. Jitter(random) \in Int
  BY <1>5 DEF Jitter
<1>7. (BaseDelay(n) * Jitter(random)) \div 100 \in Int
  BY <1>3, <1>6
<1> QED
  BY <1>7 DEF DelayAfterFailure, Smaller, Larger

(* TypeOK is not inductive by itself: a retry stays within max_attempts    *)
(* only because an execution sleeps after a failure that is not its last.  *)
AttemptsCounted ==
    \A e \in Executions :
        /\ state[e] = "checking" => attempt[e] \in 1..MaxAttempts
        /\ state[e] = "sleeping" => attempt[e] \in 1..(MaxAttempts - 1)

TInv == TypeOK /\ AttemptsCounted

LEMMA ExecutionTyped ==
  ASSUME TInv, NEW e \in Executions,
         Begin(e) \/ Attempted(e) \/ WakeUp(e) \/ Unwound(e)
  PROVE  TInv'
<1> USE SchedulerAssumption DEF TInv, TypeOK, AttemptsCounted, timing, ending
<1>1. CASE Begin(e)
  BY <1>1 DEF Begin
<1>2. CASE CheckSucceeds(e)
  BY <1>2 DEF CheckSucceeds
<1>3. CASE CheckFails(e)
  <2>1. CASE attempt[e] = MaxAttempts /\ state' = [state EXCEPT ![e] = "reporting"]
             /\ UNCHANGED wake
    BY <1>3, <2>1 DEF CheckFails
  <2>2. CASE /\ attempt[e] < MaxAttempts
             /\ state' = [state EXCEPT ![e] = "sleeping"]
             /\ \E random \in RandomPercents :
                   wake' = [wake EXCEPT ![e] = DelayAfterFailure(attempt[e], random)]
    <3>1. attempt[e] \in 1..(MaxAttempts - 1)
      BY <1>3, <2>2 DEF CheckFails
    <3>2. wake' \in [Executions -> 0..MaxDelay]
      BY <2>2, <3>1, DelayIsBounded
    <3> QED
      BY <1>3, <2>2, <3>1, <3>2 DEF CheckFails
  <2> QED
    BY <1>3, <2>1, <2>2 DEF CheckFails
<1>4. CASE ReportEnds(e)
  BY <1>4 DEF ReportEnds
<1>5. CASE WakeUp(e)
  BY <1>5 DEF WakeUp
<1>6. CASE Unwound(e)
  BY <1>6 DEF Unwound
<1> QED
  BY <1>1, <1>2, <1>3, <1>4, <1>5, <1>6 DEF Attempted

LEMMA LoopTyped ==
  ASSUME TInv, Pass \/ Tick
  PROVE  TInv'
<1> USE SchedulerAssumption DEF TInv, TypeOK, AttemptsCounted, timing, ending
<1>1. CASE Pass
  <2>1. phase' \in [Jobs -> Nat] /\ dueIn' \in [Jobs -> Int]
        /\ \A j \in Jobs : dueIn'[j] <= Interval[j]
    <3>1. \A n \in Nat \ {0}, d \in Int, p \in Nat :
            d <= n => d - 1 \in Int /\ d - 1 <= n /\ (p + 1) % n \in Nat
      BY DivisionRemainder
    <3>2. \A j \in Jobs : dueIn[j] \in Int /\ dueIn[j] <= Interval[j] /\ phase[j] \in Nat
      BY Zenon
    <3>3. \A j \in Jobs : /\ dueIn[j] - 1 \in Int /\ dueIn[j] - 1 <= Interval[j]
                           /\ (phase[j] + 1) % Interval[j] \in Nat
      BY <3>1, <3>2, IntervalsPositive, Zenon
    <3> QED
      BY <1>1, <3>2, <3>3 DEF Pass
  <2>2. wake' \in [Executions -> 0..MaxDelay]
    BY <1>1 DEF Pass
  <2>3. graceLeft' \in 0..Grace
    BY <1>1 DEF Pass
  <2> QED
    BY <1>1, <2>1, <2>2, <2>3 DEF Pass
<1>2. CASE Tick
  <2>1. dueIn' = [j \in Jobs |-> IF j \in Due THEN NextDue(j) ELSE dueIn[j]]
    BY <1>2 DEF Tick
  <2>2. \A j \in Due : NextDue(j) \in 1..Interval[j]
    BY NextDueIsAhead DEF Due, NextDue
  <2>3. dueIn' \in [Jobs -> Int] /\ \A j \in Jobs : dueIn'[j] <= Interval[j]
    BY <2>1, <2>2
  <2>4. tasks' \in [Jobs -> Slots \cup {None}]
    BY <1>2 DEF Tick, Due
  <2>5. /\ state' \in [Executions -> States]
        /\ \A e \in Executions : state'[e] \in {"created", state[e]}
    BY <1>2 DEF Tick, States
  <2> QED
    BY <1>2, <2>3, <2>4, <2>5 DEF Tick, States
<1> QED
  BY <1>1, <1>2

(* Timers, delays and attempts stay in range for every retry policy the     *)
(* configuration accepts and however late the loop ticks.                   *)
THEOREM TypeCorrect == Spec => []TypeOK
<1>1. Init => TInv
  <2> SUFFICES ASSUME Init PROVE TInv
    OBVIOUS
  <2> USE DEF Init
  <2>1. \A j \in Jobs : 0 <= Interval[j]
    BY IntervalsPositive
  <2>2. dueIn \in [Jobs -> Int] /\ \A j \in Jobs : dueIn[j] <= Interval[j]
    BY <2>1
  <2>3. TypeOK
    <3>1. 0 \in 0..Grace /\ 0 \in 0..MaxAttempts /\ 0 \in 0..MaxDelay
      BY SchedulerAssumption
    <3> QED
      BY <2>2, <3>1 DEF TypeOK
  <2>4. AttemptsCounted
    BY DEF AttemptsCounted
  <2> QED
    BY <2>3, <2>4 DEF TInv
<1>2. TInv /\ [Next]_vars => TInv'
  <2> SUFFICES ASSUME TInv, [Next]_vars PROVE TInv'
    OBVIOUS
  <2> USE DEF TInv, TypeOK, AttemptsCounted, timing, ending, execution
  <2>1. CASE \E e \in Executions : Begin(e) \/ Attempted(e) \/ WakeUp(e) \/ Unwound(e)
    BY <2>1, ExecutionTyped
  <2>2. CASE Pass \/ Tick
    BY <2>2, LoopTyped
  <2>3. CASE EnterShutdown
    BY <2>3, SchedulerAssumption DEF EnterShutdown, Registered
  <2>4. CASE GraceExpires
    BY <2>4 DEF GraceExpires
  <2>5. CASE RequestStop
    BY <2>5 DEF RequestStop
  <2>6. CASE Drained \/ Gathered
    BY <2>6, SchedulerAssumption DEF Drained, Gathered
  <2>7. CASE UNCHANGED vars
    BY <2>7 DEF vars
  <2> QED
    BY <2>1, <2>2, <2>3, <2>4, <2>5, <2>6, <2>7 DEF Next
<1>3. TInv => TypeOK
  BY DEF TInv
<1> QED
  BY <1>1, <1>2, <1>3, PTL DEF Spec

-----------------------------------------------------------------------------
(* What a step does to the timer of a job: time passes, or a tick that     *)
(* finds it due moves it on, or nothing.                                   *)
LEMMA TimerSteps ==
  ASSUME TypeOK, [Next]_vars, NEW j \in Jobs
  PROVE  \/ dueIn'[j] = dueIn[j] /\ phase'[j] = phase[j]
         \/ dueIn'[j] = dueIn[j] - 1 /\ phase'[j] = (phase[j] + 1) % Interval[j]
         \/ dueIn[j] <= 0 /\ dueIn'[j] = NextDue(j) /\ phase'[j] = phase[j]
<1>1. CASE Pass
  BY <1>1 DEF Pass, timing
<1>2. CASE Tick
  <2>1. dueIn' = [i \in Jobs |-> IF i \in Due THEN NextDue(i) ELSE dueIn[i]]
        /\ phase' = phase
    BY <1>2 DEF Tick
  <2> QED
    BY <2>1 DEF Due
<1>3. CASE ~(Pass \/ Tick)
  <2>1. UNCHANGED timing
    BY <1>3 DEF Next, Begin, Attempted, CheckSucceeds, CheckFails, ReportEnds,
                WakeUp, Unwound, RequestStop, EnterShutdown, Drained, GraceExpires,
                Gathered, vars
  <2> QED
    BY <2>1 DEF timing
<1> QED
  BY <1>1, <1>2, <1>3

(* A late tick leaves a job due within one interval, for any lateness and   *)
(* any interval: occurrences that were missed are skipped, not caught up.   *)
THEOREM MissedOccurrencesSkipped == Spec => NoBurst
<1>1. TypeOK /\ [Next]_vars
      => [\A j \in Jobs : dueIn'[j] > dueIn[j] => dueIn'[j] \in 1..Interval[j]]_vars
  <2> SUFFICES ASSUME TypeOK, [Next]_vars, NEW j \in Jobs, dueIn'[j] > dueIn[j]
               PROVE  dueIn'[j] \in 1..Interval[j]
    OBVIOUS
  <2>1. dueIn[j] \in Int
    BY DEF TypeOK
  <2>2. dueIn[j] <= 0 /\ dueIn'[j] = NextDue(j)
    BY <2>1, TimerSteps
  <2> QED
    BY <2>1, <2>2, IntervalsPositive, NextDueIsAhead DEF NextDue
<1> QED
  BY <1>1, TypeCorrect, PTL DEF Spec, NoBurst

(* One unit of time, or a jump of whole intervals, keeps a job on the grid. *)
LEMMA GridKept ==
  ASSUME NEW d \in Int, NEW p \in Nat, NEW n \in Nat \ {0}, (d + p) % n = 0
  PROVE  /\ ((d - 1) + ((p + 1) % n)) % n = 0
         /\ \A k \in Int : ((d + k * n) + p) % n = 0
<1>1. /\ (p + 1) \div n \in Int /\ (p + 1) % n \in 0..(n - 1)
      /\ p + 1 = n * ((p + 1) \div n) + ((p + 1) % n)
  <2>1. p + 1 \in Int
    OBVIOUS
  <2> QED
    BY <2>1, DivisionRemainder, Zenon
<1>2. \A q \in Int, r \in 0..(n - 1) :
        p + 1 = n * q + r => (d - 1) + r = (d + p) + (-q) * n
  OBVIOUS
<1>3. (d - 1) + ((p + 1) % n) = (d + p) + (-((p + 1) \div n)) * n
  BY <1>1, <1>2, Zenon
<1>4. -((p + 1) \div n) \in Int /\ d + p \in Int
  BY <1>1
<1>5. ((d - 1) + ((p + 1) % n)) % n = 0
  <2>1. ((d + p) + (-((p + 1) \div n)) * n) % n = (d + p) % n
    BY <1>4, RemainderOfMultiple, Zenon
  <2> QED
    BY <1>3, <2>1, Zenon
<1>6. ASSUME NEW k \in Int
      PROVE  ((d + k * n) + p) % n = 0
  <2>1. (d + k * n) + p = (d + p) + k * n
    <3>1. k * n \in Int
      OBVIOUS
    <3> QED
      BY <3>1
  <2>2. ((d + p) + k * n) % n = (d + p) % n
    BY <1>4, RemainderOfMultiple, Zenon
  <2> QED
    BY <2>1, <2>2, Zenon
<1> QED
  BY <1>5, <1>6

(* Every job stays on the grid of its interval since startup, for any       *)
(* interval and any lateness of the loop.                                   *)
THEOREM CadenceKept == Spec => []Cadence
<1>1. Init => Cadence
  <2>1. \A n \in Nat \ {0} : (0 + 0) % n = 0
    OBVIOUS
  <2>2. ASSUME Init, NEW j \in Jobs
        PROVE  dueIn[j] = 0 /\ phase[j] = 0
    BY <2>2 DEF Init
  <2> QED
    BY <2>1, <2>2, IntervalsPositive DEF Cadence
<1>2. TypeOK /\ Cadence /\ [Next]_vars => Cadence'
  <2> SUFFICES ASSUME TypeOK, Cadence, [Next]_vars, NEW j \in Jobs
               PROVE  (dueIn'[j] + phase'[j]) % Interval[j] = 0
    BY DEF Cadence
  <2>1. /\ dueIn[j] \in Int /\ phase[j] \in Nat /\ Interval[j] \in Nat \ {0}
        /\ (dueIn[j] + phase[j]) % Interval[j] = 0
    BY IntervalsPositive DEF TypeOK, Cadence
  <2>2. CASE dueIn'[j] = dueIn[j] /\ phase'[j] = phase[j]
    BY <2>1, <2>2
  <2>3. CASE dueIn'[j] = dueIn[j] - 1 /\ phase'[j] = (phase[j] + 1) % Interval[j]
    <3>1. ((dueIn[j] - 1) + ((phase[j] + 1) % Interval[j])) % Interval[j] = 0
      BY <2>1, GridKept, Zenon
    <3> QED
      BY <2>3, <3>1, Zenon
  <2>4. CASE dueIn'[j] = NextDue(j) /\ phase'[j] = phase[j]
    <3>1. (-dueIn[j]) \div Interval[j] + 1 \in Int
      <4>1. -dueIn[j] \in Int
        BY <2>1
      <4>2. (-dueIn[j]) \div Interval[j] \in Int
        BY <2>1, <4>1, DivisionRemainder, Zenon
      <4> QED
        BY <4>2
    <3>2. ((dueIn[j] + ((-dueIn[j]) \div Interval[j] + 1) * Interval[j]) + phase[j])
            % Interval[j] = 0
      <4>1. \A k \in Int : ((dueIn[j] + k * Interval[j]) + phase[j]) % Interval[j] = 0
        BY <2>1, GridKept, Zenon
      <4> QED
        BY <3>1, <4>1, Zenon
    <3> QED
      BY <2>4, <3>2, Zenon DEF NextDue
  <2>5. \/ dueIn'[j] = dueIn[j] /\ phase'[j] = phase[j]
        \/ dueIn'[j] = dueIn[j] - 1 /\ phase'[j] = (phase[j] + 1) % Interval[j]
        \/ dueIn'[j] = NextDue(j) /\ phase'[j] = phase[j]
    BY TimerSteps, Zenon
  <2> QED
    BY <2>2, <2>3, <2>4, <2>5, Zenon
<1> QED
  BY <1>1, <1>2, TypeCorrect, PTL DEF Spec

=============================================================================
