--------------------------- MODULE Configuration ---------------------------
(***************************************************************************)
(* The jobs file (web_checker/config.py), the environment, and what the    *)
(* commands validate-config, worker and check make of them (cli.py).  Each *)
(* process reads both once, when it starts; they are edited at any time,   *)
(* and every process puts its notifications in the same outbox.            *)
(***************************************************************************)
EXTENDS Integers, FiniteSets, FiniteSetsExt

CONSTANTS
    Jobs,           \* the ids a job may have
    Absent,         \* a job that is not in the file, or has no schedule
    Null,           \* no process
    Schedules,      \* schedules a file may hold, valid or not
    MaxEdits,       \* bound: edits of the file and the environment
    MaxRuns,        \* bound: starts of the worker
    MaxRows         \* bound: rows pending in the outbox

ConfigurationAssumption ==
    /\ Schedules \subseteq [interval : Int, attempts : Int, initial : Int, maximum : Int]
    /\ MaxEdits \in Nat

VARIABLES
    file,           \* jobs.yaml
    environment,    \* WEB_CHECKER_*, as the next process will read it
    worker,         \* what the running worker loaded
    check,          \* what the running one-shot check loaded
    rows,           \* the pending rows of the outbox, and who put them there
    edits, runs

vars == <<file, environment, worker, check, rows, edits, runs>>

Channels == {"console", "email"}

-----------------------------------------------------------------------------
(* A job of the file.  wellFormed stands for the structure, the names and  *)
(* the types load_config wants; suits for a registered driver whose        *)
(* validate_config takes the job's config.                                 *)

Entries == [wellFormed : BOOLEAN, suits : BOOLEAN, enabled : BOOLEAN,
            channels : SUBSET Channels, schedule : Schedules \cup {Absent}]

ValidRetryPolicy(retry) ==
    /\ retry.attempts \in 1 .. 10
    /\ 0 <= retry.initial /\ retry.initial <= retry.maximum
    /\ retry.attempts > 1 => retry.initial > 0

ParsesSchedule(s) == s # Absent => s.interval > 0 /\ ValidRetryPolicy(s)

Listed == {j \in Jobs : file[j] # Absent}

LoadConfig ==
    /\ Listed # {}
    /\ \A j \in Listed : file[j].wellFormed /\ ParsesSchedule(file[j].schedule)

Enabled == {j \in Listed : file[j].enabled}

-----------------------------------------------------------------------------
(* The SMTP variables: absent, wrong (or blank), right.  "address" stands  *)
(* for HOST, FROM and TO, which are required, and is wrong when some are   *)
(* missing; "option" for SECURITY, PORT and TIMEOUT_SECONDS.               *)

Fields == {"address", "option", "username", "password"}
Values == {"absent", "wrong", "right"}

NoSmtp(smtp) == \A f \in Fields : smtp[f] = "absent"

FromEnvironment(smtp) ==
    \/ NoSmtp(smtp)
    \/ /\ smtp["address"] = "right"
       /\ \A f \in Fields : smtp[f] # "wrong"
       /\ smtp["username"] = "absent" <=> smtp["password"] = "absent"

(* create_default_notifier_registry, which fails on a half configured SMTP. *)
Registered == {"console"} \cup IF NoSmtp(environment.smtp) THEN {} ELSE {"email"}

OperationalChannels ==
    IF environment.operational = Absent THEN Registered ELSE environment.operational

-----------------------------------------------------------------------------
(* The three commands all build the registries and load the file. *)
Prepares == FromEnvironment(environment.smtp) /\ LoadConfig

(* Mutant: the channels of the jobs are left to the first delivery. *)
ValidateIntegrationsOfDrivers == \A j \in Listed : file[j].suits

ValidateIntegrations ==
    /\ \A j \in Listed : file[j].suits
    /\ \A j \in Enabled : file[j].channels \subseteq Registered

ValidateWorkerSchedules == Enabled # {} /\ \A j \in Enabled : file[j].schedule # Absent

ValidateConfig == Prepares /\ ValidateIntegrations

RunWorker ==
    /\ OperationalChannels # {} /\ OperationalChannels \subseteq Registered
    /\ environment.alertAfter >= 1

StartWorker ==
    /\ worker = Null /\ runs < MaxRuns
    /\ ValidateConfig /\ ValidateWorkerSchedules /\ RunWorker
    /\ runs' = runs + 1
    /\ worker' = [run |-> runs', registered |-> Registered,
                  operational |-> OperationalChannels, jobs |-> [j \in Enabled |-> file[j]]]
    /\ UNCHANGED <<file, environment, check, rows, edits>>

StopWorker ==
    /\ worker # Null
    /\ worker' = Null
    /\ UNCHANGED <<file, environment, check, rows, edits, runs>>

(* get_job, and the test that it is enabled: no channel is looked up. *)
StartCheck(j) ==
    /\ check = Null
    /\ Prepares /\ j \in Enabled
    /\ check' = [job |-> j, registered |-> Registered,
                 suits |-> file[j].suits, channels |-> file[j].channels]
    /\ UNCHANGED <<file, environment, worker, rows, edits, runs>>

EndCheck ==
    /\ check # Null
    /\ check' = Null
    /\ UNCHANGED <<file, environment, worker, rows, edits, runs>>

-----------------------------------------------------------------------------
(* A check that finds changes, or an alert, adds a row for each channel. *)
Puts(j, channels, by) ==
    /\ rows' = rows \cup [job : {j}, channel : channels, by : {by}]
    /\ Cardinality(rows') <= MaxRows
    /\ UNCHANGED <<file, environment, worker, check, edits, runs>>

(* dispatch_pending takes every pending row, whoever put it there; one for *)
(* a channel that is not registered fails and stays.                       *)
Delivers(registered) ==
    /\ \E r \in rows : r.channel \in registered /\ rows' = rows \ {r}
    /\ UNCHANGED <<file, environment, worker, check, edits, runs>>

WorkerChecks(j) ==
    /\ worker # Null /\ j \in DOMAIN worker.jobs
    /\ Puts(j, worker.jobs[j].channels, worker.run)

WorkerAlerts(j) ==
    /\ worker # Null /\ j \in DOMAIN worker.jobs
    /\ Puts(j, worker.operational, worker.run)

WorkerDelivers == worker # Null /\ Delivers(worker.registered)

(* The driver is looked up, and refuses the config, before it checks. *)
OneShotChecks ==
    /\ check # Null /\ check.suits
    /\ Puts(check.job, check.channels, 0)

OneShotDelivers == check # Null /\ Delivers(check.registered)

-----------------------------------------------------------------------------
Edits ==
    /\ edits < MaxEdits
    /\ edits' = edits + 1
    /\ UNCHANGED <<worker, check, rows, runs>>

Sound(channels, s) ==
    [wellFormed |-> TRUE, suits |-> TRUE, enabled |-> TRUE,
     channels |-> channels, schedule |-> s]

(* One field at a time, or the whole job. *)
EditFile(j) ==
    /\ Edits
    /\ \/ file' = [file EXCEPT ![j] = Absent]
       \/ /\ file[j] = Absent
          /\ \E s \in Schedules : file' = [file EXCEPT ![j] = Sound(Channels, s)]
       \/ /\ file[j] # Absent
          /\ \/ file' = [file EXCEPT ![j].wellFormed = ~@]
             \/ file' = [file EXCEPT ![j].suits = ~@]
             \/ file' = [file EXCEPT ![j].enabled = ~@]
             \/ \E c \in SUBSET Channels : file' = [file EXCEPT ![j].channels = c]
             \/ \E s \in Schedules \cup {Absent} : file' = [file EXCEPT ![j].schedule = s]
    /\ UNCHANGED environment

Everywhere(value) == [f \in Fields |-> value]

EditEnvironment ==
    /\ Edits
    /\ \/ \E value \in {"absent", "right"} : environment' = [environment EXCEPT !.smtp = Everywhere(value)]
       \/ \E f \in Fields, value \in Values :
             environment' = [environment EXCEPT !.smtp[f] = value]
       \/ \E o \in {Absent} \cup SUBSET Channels : environment' = [environment EXCEPT !.operational = o]
       \/ \E n \in 0 .. 1 : environment' = [environment EXCEPT !.alertAfter = n]
    /\ UNCHANGED file

Init ==
    /\ \E c \in {{}, Channels}, s \in Schedules :
          ParsesSchedule(s) /\ file = [j \in Jobs |-> Sound(c, s)]
    /\ environment \in [smtp : {Everywhere("absent"), Everywhere("right")},
                        operational : {Absent}, alertAfter : {1}]
    /\ worker = Null /\ check = Null
    /\ rows = {}
    /\ edits = 0 /\ runs = 0

Next ==
    \/ \E j \in Jobs : EditFile(j)
    \/ EditEnvironment
    \/ StartWorker \/ StopWorker
    \/ \E j \in Jobs : StartCheck(j)
    \/ EndCheck
    \/ \E j \in Jobs : WorkerChecks(j) \/ WorkerAlerts(j)
    \/ WorkerDelivers \/ OneShotChecks \/ OneShotDelivers

Spec == Init /\ [][Next]_vars

-----------------------------------------------------------------------------
TypeOK ==
    /\ file \in [Jobs -> Entries \cup {Absent}]
    /\ environment.smtp \in [Fields -> Values]
    /\ environment.operational \in {Absent} \cup SUBSET Channels
    /\ worker # Null => DOMAIN worker.jobs \subseteq Jobs
    /\ check # Null => check.job \in Jobs
    /\ rows \subseteq [job : Jobs, channel : Channels, by : 0 .. runs]
    /\ edits \in 0 .. MaxEdits

BaseDelay(s, failures) == Min({s.initial * 2 ^ (failures - 1), s.maximum})

RetriesPause(s) == \A failures \in 1 .. s.attempts - 1 : BaseDelay(s, failures) > 0

(* What the worker takes on it can carry out for as long as it runs, while *)
(* the file and the environment change under it: the rows and alerts it    *)
(* puts in the outbox name channels it has, and the base delay of each     *)
(* retry is positive; jitter may still take the delay itself near zero.  A *)
(* row it cannot deliver is one it found, or a one-shot check put there.   *)
AcceptedIsServable ==
    worker # Null =>
        /\ \A r \in rows : r.by = worker.run => r.channel \in worker.registered
        /\ \A j \in DOMAIN worker.jobs : RetriesPause(worker.jobs[j].schedule)

=============================================================================
