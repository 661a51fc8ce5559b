--------------------------- MODULE StoreLifecycle ---------------------------
(***************************************************************************)
(* The database file over its life: the processes that share its volume    *)
(* create or upgrade the schema when they start                            *)
(* (SQLiteObservationStore._initialize), the checks add runs, and each     *)
(* maintenance process backs the file up and prunes it, cycle after cycle  *)
(* (cli._perform_maintenance, maintenance.create_backup).  A script of the *)
(* schema commits statement by statement, so starts interleave inside it.  *)
(***************************************************************************)
EXTENDS Integers, FiniteSets, Sequences, FiniteSetsExt

CONSTANTS
    Processes,      \* the starts: the worker, the maintenance service, one-shot runs
    Maintainers,    \* those of them that run maintenance
    OldVersions,    \* PRAGMA user_version of the file that is found
    OldRuns,        \* the times of the check runs it holds, before the first start
    Retain,         \* --retain-backups
    Age,            \* --observation-days
    Faults,         \* "crash" in a maintenance cycle, "torn" inside a script
    MaxClock,       \* bound: the clock that stamps runs and names backups
    Null

Tables == {"check_runs", "observations", "transitions", "outbox", "job_status", "alerts"}

StoreLifecycleAssumption ==
    /\ Maintainers \subseteq Processes
    /\ OldVersions \subseteq 0..2 /\ MaxClock \in Nat
    /\ Retain \in Nat \ {0} /\ Age \in Nat \ {0}
    /\ OldRuns \subseteq Int /\ \A t \in OldRuns : t < 0
    /\ Faults \subseteq {"crash", "torn"}
    /\ Null \notin Tables \cup Nat

SchemaVersion == 3

VARIABLES
    version, tables, runs,      \* the database: user_version, tables, times of its runs
    pc, script, name, expired,  \* of each process: where it is and what it holds
    temps, backups, manifest,   \* the backup directory
    clock

database == <<version, tables, runs>>
directory == <<temps, backups, manifest>>
locals == <<script, name, expired>>
vars == <<database, directory, locals, pc, clock>>

(* The content of a database file, a backup included. *)
Content ==
    [version : 0..SchemaVersion, tables : SUBSET Tables,
     runs : SUBSET (OldRuns \cup 0..MaxClock)]

Without(files, t) == [u \in DOMAIN files \ {t} |-> files[u]]

With(files, t, content) ==
    [u \in DOMAIN files \cup {t} |-> IF u = t THEN content ELSE files[u]]

Cycle == {"copied", "checked", "published", "expiring", "pruning"}
InCycle(p) == pc[p] \in Cycle

-----------------------------------------------------------------------------
(* _initialize.  A statement creates a table with its indexes or sets the  *)
(* version; an upgrade ends with one row of job_status for every job that  *)
(* has runs.                                                               *)

Creates(table) == [table |-> table, version |-> Null]
Sets(v) == [table |-> Null, version |-> v]
Backfill == [table |-> Null, version |-> Null]

UpgradeFrom2 == <<Creates("job_status"), Creates("alerts"), Sets(3), Backfill>>
UpgradeFrom1 == <<Creates("outbox"), Sets(2)>> \o UpgradeFrom2

Script(v) ==
    CASE v = 0 -> <<Creates("check_runs"), Creates("observations"), Creates("transitions"),
                    Creates("outbox"), Creates("job_status"), Creates("alerts"), Sets(3)>>
      [] v = 1 -> UpgradeFrom1
      [] v = 2 -> UpgradeFrom2
      [] OTHER -> << >>

TablesOf(v) ==
    CASE v = 0 -> {}
      [] v = 1 -> {"check_runs", "observations", "transitions"}
      [] v = 2 -> {"check_runs", "observations", "transitions", "outbox"}

Init ==
    /\ version \in OldVersions /\ tables = TablesOf(version)
    /\ runs = IF version = 0 THEN {} ELSE OldRuns
    /\ pc = [p \in Processes |-> "start"]
    /\ script = [p \in Processes |-> << >>]
    /\ name = [p \in Processes |-> Null]
    /\ expired = [p \in Processes |-> {}]
    /\ temps = [t \in {} |-> Null] /\ backups = [t \in {} |-> Null] /\ manifest = Null
    /\ clock = 0

(* The version is read, then the script for it runs. *)
Open(p) ==
    /\ pc[p] = "start"
    /\ script' = [script EXCEPT ![p] = Script(version)]
    /\ pc' = [pc EXCEPT ![p] = IF version = SchemaVersion THEN "ready" ELSE "script"]
    /\ UNCHANGED <<database, directory, name, expired, clock>>

Statement(p) ==
    /\ pc[p] = "script"
    /\ script[p] # << >>
    /\ LET statement == Head(script[p]) IN
          /\ statement.table \notin tables
          /\ statement = Backfill => \A t \in runs : t < 0
          /\ tables' = tables \cup ({statement.table} \ {Null})
          /\ version' = IF statement.version = Null THEN version ELSE statement.version
    /\ script' = [script EXCEPT ![p] = Tail(@)]
    /\ UNCHANGED <<runs, directory, name, expired, pc, clock>>

(* Mutant: the statement is tried again, the version is not read again.    *)
StatementFailsRetrying(p) ==
    /\ pc[p] = "script"
    /\ script[p] # << >>
    /\ Head(script[p]).table \in tables
    /\ UNCHANGED vars

(* A table or a row of job_status exists already: another start is ahead,  *)
(* and its checks write to job_status as soon as the version is set.  The  *)
(* process exits and is restarted, or maintenance logs the error and tries *)
(* again.                                                                  *)
StatementFails(p) ==
    /\ pc[p] = "script"
    /\ script[p] # << >>
    /\ \/ Head(script[p]).table \in tables
       \/ Head(script[p]) = Backfill /\ \E q \in Processes \ Maintainers : pc[q] = "ready"
    /\ script' = [script EXCEPT ![p] = << >>]
    /\ pc' = [pc EXCEPT ![p] = "start"]
    /\ UNCHANGED <<database, directory, name, expired, clock>>

Opened(p) ==
    /\ pc[p] = "script"
    /\ script[p] = << >>
    /\ pc' = [pc EXCEPT ![p] = "ready"]
    /\ UNCHANGED <<database, directory, locals, clock>>

(* A check of a process that opened the database records its run. *)
RecordRun(p) ==
    /\ pc[p] = "ready"
    /\ p \notin Maintainers
    /\ runs' = runs \cup {clock}
    /\ UNCHANGED <<version, tables, directory, locals, pc, clock>>

-----------------------------------------------------------------------------
(* One maintenance cycle. *)

(* What an error in create_backup leaves: the finally clause has run.      *)
Fails(p) ==
    /\ pc' = [pc EXCEPT ![p] = "start"]
    /\ temps' = Without(temps, name[p])
    /\ name' = [name EXCEPT ![p] = Null]
    /\ expired' = [expired EXCEPT ![p] = {}]
    /\ UNCHANGED <<database, script, backups, manifest, clock>>

(* Mutant: the file is copied without opening the store first. *)
CopyAtOnce(p) ==
    /\ p \in Maintainers
    /\ pc[p] \in {"start", "ready"}
    /\ name' = [name EXCEPT ![p] = clock]
    /\ temps' = With(temps, clock, [version |-> version, tables |-> tables, runs |-> runs])
    /\ pc' = [pc EXCEPT ![p] = "copied"]
    /\ UNCHANGED <<database, backups, manifest, script, expired, clock>>

(* The file is copied, in one transaction, into a temporary one that is    *)
(* named after the second.                                                 *)
Copy(p) ==
    /\ p \in Maintainers
    /\ pc[p] = "ready"
    /\ name' = [name EXCEPT ![p] = clock]
    /\ temps' = With(temps, clock, [version |-> version, tables |-> tables, runs |-> runs])
    /\ pc' = [pc EXCEPT ![p] = "copied"]
    /\ UNCHANGED <<database, backups, manifest, script, expired, clock>>

(* The integrity check only reads what was copied.                         *)
CheckIntegrity(p) ==
    /\ pc[p] = "copied"
    /\ pc' = [pc EXCEPT ![p] = "checked"]
    /\ UNCHANGED <<database, directory, locals, clock>>

(* Another cycle of the same second copies into the file and has it locked. *)
CheckFails(p) ==
    /\ pc[p] = "copied"
    /\ \E q \in Maintainers \ {p} : pc[q] = "copied" /\ name[q] = name[p]
    /\ Fails(p)

Publish(p) ==
    /\ pc[p] = "checked"
    /\ name[p] \in DOMAIN temps
    /\ backups' = With(backups, name[p], temps[name[p]])
    /\ temps' = Without(temps, name[p])
    /\ pc' = [pc EXCEPT ![p] = "published"]
    /\ UNCHANGED <<database, manifest, locals, clock>>

(* Another cycle of the same second has taken the temporary file. *)
PublishFails(p) ==
    /\ pc[p] = "checked"
    /\ name[p] \notin DOMAIN temps
    /\ Fails(p)

(* Mutant: the names are sorted in ascending order. *)
ExpiredOldestFirst(names) ==
    {t \in names : Cardinality({u \in names : u < t}) >= Retain}

(* Mutant: one backup too many is kept. *)
ExpiredOffByOne(names) ==
    {t \in names : Cardinality({u \in names : u > t}) > Retain}

(* All but the Retain greatest names. *)
Expired(names) == {t \in names : Cardinality({u \in names : u > t}) >= Retain}

ListBackups(p) ==
    /\ pc[p] = "published"
    /\ expired' = [expired EXCEPT ![p] = Expired(DOMAIN backups)]
    /\ pc' = [pc EXCEPT ![p] = "expiring"]
    /\ UNCHANGED <<database, directory, script, name, clock>>

Unlink(p) ==
    /\ pc[p] = "expiring"
    /\ expired[p] # {}
    /\ Max(expired[p]) \in DOMAIN backups
    /\ backups' = Without(backups, Max(expired[p]))
    /\ expired' = [expired EXCEPT ![p] = @ \ {Max(@)}]
    /\ UNCHANGED <<database, temps, manifest, script, name, pc, clock>>

(* Another cycle has unlinked the file, or the backup of this one.         *)
UnlinkFails(p) ==
    /\ pc[p] = "expiring"
    /\ IF expired[p] = {} THEN name[p] \notin DOMAIN backups
       ELSE Max(expired[p]) \notin DOMAIN backups
    /\ Fails(p)

(* last-backup.json is written, and finally the temporary file removed.    *)
WriteManifest(p) ==
    /\ pc[p] = "expiring"
    /\ expired[p] = {}
    /\ name[p] \in DOMAIN backups
    /\ manifest' = name[p]
    /\ temps' = Without(temps, name[p])
    /\ pc' = [pc EXCEPT ![p] = "pruning"]
    /\ UNCHANGED <<database, backups, locals, clock>>

(* The runs prune deletes: old ones, the newest and those with pending     *)
(* notifications (DurableOutbox) excepted.                                 *)
Prunable == {t \in runs : t < clock - Age /\ t # Max(runs)}

(* Mutant: the retention pass does not wait for the backup. *)
PruneAtOnce(p) ==
    /\ pc[p] \in {"ready", "pruning"}
    /\ runs' = runs \ Prunable
    /\ UNCHANGED <<version, tables, directory, locals, pc, clock>>

Prune(p) ==
    /\ pc[p] = "pruning"
    /\ \E held \in SUBSET Prunable : runs' = (runs \ Prunable) \cup held
    /\ pc' = [pc EXCEPT ![p] = "start"]
    /\ name' = [name EXCEPT ![p] = Null]
    /\ UNCHANGED <<version, tables, directory, script, expired, clock>>

Killed(fault) == IF fault = "torn" THEN {"script"} ELSE Cycle

(* The process is killed: no finally clause runs. *)
Crash(p) ==
    /\ \E fault \in Faults : pc[p] \in Killed(fault)
    /\ pc' = [pc EXCEPT ![p] = "start"]
    /\ script' = [script EXCEPT ![p] = << >>]
    /\ name' = [name EXCEPT ![p] = Null]
    /\ expired' = [expired EXCEPT ![p] = {}]
    /\ UNCHANGED <<database, directory, clock>>

(* The clock.  A cycle takes less than Age: seconds or minutes against at  *)
(* least one day.                                                          *)
Tick ==
    /\ clock < MaxClock
    /\ \A p \in Processes : InCycle(p) => clock + 1 < name[p] + Age
    /\ clock' = clock + 1
    /\ UNCHANGED <<database, directory, locals, pc>>

Starting(p) == Open(p) \/ Statement(p) \/ StatementFails(p) \/ Opened(p)

Maintaining(p) ==
    \/ Copy(p) \/ CheckIntegrity(p) \/ CheckFails(p)
    \/ Publish(p) \/ PublishFails(p) \/ ListBackups(p)
    \/ Unlink(p) \/ UnlinkFails(p) \/ WriteManifest(p) \/ Prune(p)

Next ==
    \/ \E p \in Processes : Starting(p)
    \/ \E p \in Processes : RecordRun(p)
    \/ \E p \in Processes : Maintaining(p)
    \/ \E p \in Processes : Crash(p)
    \/ Tick

Spec == Init /\ [][Next]_vars

(* Containers are restarted, maintenance repeats its cycle, and the host   *)
(* does not kill processes for ever.                                       *)
FairSpec ==
    /\ Spec
    /\ \A p \in Processes : WF_vars(Starting(p)) /\ WF_vars(Maintaining(p))
    /\ <>[][\A p \in Processes : Crash(p) => Starting(p) \/ Maintaining(p)]_vars

-----------------------------------------------------------------------------
TypeOK ==
    /\ [version |-> version, tables |-> tables, runs |-> runs] \in Content
    /\ pc \in [Processes -> {"start", "script", "ready"} \cup Cycle]
    /\ \A p \in Processes : Len(script[p]) <= Len(Script(0))
    /\ name \in [Processes -> 0..MaxClock \cup {Null}]
    /\ expired \in [Processes -> SUBSET (0..MaxClock)]
    /\ DOMAIN temps \subseteq 0..clock /\ temps \in [DOMAIN temps -> Content]
    /\ DOMAIN backups \subseteq 0..clock /\ backups \in [DOMAIN backups -> Content]
    /\ manifest \in 0..clock \cup {Null}
    /\ clock \in 0..MaxClock

OpenedIsComplete ==
    \A p \in Processes :
        pc[p] \in {"ready"} \cup Cycle => version = SchemaVersion /\ tables = Tables

BackupsRestorable ==
    \A t \in DOMAIN backups :
        backups[t].version = SchemaVersion /\ backups[t].tables = Tables

(* However the starts of several processes interleave on a file that is     *)
(* new, or two versions behind, none of them gets a store whose schema is   *)
(* not complete, and what validate-restore asks of a backup holds for every *)
(* published one, those of cycles that later failed or were killed included.*)
StoresAreComplete == OpenedIsComplete /\ BackupsRestorable

(* Retention only deletes runs that are in a backup which still exists,     *)
(* though another cycle may expire the backup of this one meanwhile.        *)
PrunedIsBackedUp ==
    [][\A t \in runs \ runs' : \E u \in DOMAIN backups : t \in backups[u].runs]_vars

(* A backup is deleted only when Retain newer ones remain, whatever another *)
(* cycle lists and unlinks at the same time.                                *)
OnlySurplusExpires ==
    [][\A t \in DOMAIN backups \ DOMAIN backups' :
          Cardinality({u \in DOMAIN backups' : u > t}) >= Retain]_vars

(* Every start ends with an open store: processes that create the schema    *)
(* at the same time make each other fail, but not for ever.                 *)
EveryStartOpens ==
    \A p \in Processes : []<>(pc[p] = "ready")

(* The status command finds the backup last-backup.json names, and no more  *)
(* than Retain of them, again and again, once cycles overlap no more: what  *)
(* killed and overlapping cycles leave behind is put right by a later one.  *)
(* Cycles that overlap for ever may do without: each can unlink the backup  *)
(* of the other before that one names it in the manifest.                   *)
OneCycleAtATime == \A p, q \in Processes : InCycle(p) /\ InCycle(q) => p = q

MaintenanceRecovers ==
    Maintainers # {} /\ <>[]OneCycleAtATime
        => []<>(manifest \in DOMAIN backups /\ Cardinality(DOMAIN backups) <= Retain)

=============================================================================
