---------------------------- MODULE MCOperation ----------------------------
(***************************************************************************)
(* The operation of the service: the deployment script, the database file  *)
(* over its life, and the email channel of the worker.  They share no      *)
(* state, so a behaviour is one of a single part, chosen at the start,     *)
(* while the other two stay where they are.  Deployment is extended, for   *)
(* its properties are also proved; the others are instances.               *)
(***************************************************************************)
EXTENDS Deployment, Integers, FiniteSets

CONSTANTS
    Null,
    Processes, Maintainers, OldVersions, OldRuns, Retain, Age, StoreFaults, MaxClock,
    Tasks, Recipients, Securities

VARIABLES
    part,
    version, tables, runs, at, script, name, expired, temps, backups, manifest, clock,
    settings, worker, awaiting, thread, reached, verdict, result

Store == INSTANCE StoreLifecycle WITH pc <- at, Faults <- StoreFaults
Email == INSTANCE EmailNotifier WITH process <- worker

ASSUME StoreAssumption == Store!StoreLifecycleAssumption

(* The value of OldRuns for TLC. *)
RunsBefore == {-2}

store == <<version, tables, runs, at, script, name, expired, temps, backups, manifest, clock>>
email == <<settings, worker, awaiting, thread, reached, verdict, result>>
service == <<part, vars, store, email>>

ServiceInit ==
    /\ part \in {"production", "store", "email"}
    /\ Init /\ Store!Init /\ Email!Init
    /\ part # "store" => version = 0
    /\ part # "email" => settings.security = "none" /\ ~settings.credentials

ProductionNext == part = "production" /\ Next /\ UNCHANGED <<part, store, email>>
StoreNext == part = "store" /\ Store!Next /\ UNCHANGED <<part, vars, email>>
EmailNext == part = "email" /\ Email!Next /\ UNCHANGED <<part, vars, store>>

ServiceNext == ProductionNext \/ StoreNext \/ EmailNext

ServiceSpec == ServiceInit /\ [][ServiceNext]_service

(* The fairness of each part, where it is the one that runs. *)
FairService ==
    /\ ServiceSpec
    /\ \A p \in Operators :
          /\ WF_vars(part = "production" /\ Step(p))
          /\ SF_vars(part = "production" /\ Acquire(p))
    /\ \A p \in Processes :
          /\ WF_store(part = "store" /\ Store!Starting(p))
          /\ WF_store(part = "store" /\ Store!Maintaining(p))
    /\ <>[][\A p \in Processes :
               part = "store" /\ Store!Crash(p) => Store!Starting(p) \/ Store!Maintaining(p)]_store
    /\ \A t \in Tasks :
          /\ WF_email(part = "email" /\ Email!Conversation(t))
          /\ WF_email(part = "email" /\ Email!Resume(t))

-----------------------------------------------------------------------------
(* The types of the three parts. *)
TypesOK == TypeOK /\ Store!TypeOK /\ Email!TypeOK

(* StoreLifecycle: every open store and every backup has the whole schema. *)
StoresAreComplete == Store!StoresAreComplete

(* StoreLifecycle: retention deletes only runs that a backup still holds. *)
PrunedIsBackedUp == Store!PrunedIsBackedUp

(* StoreLifecycle: a backup is deleted only when enough newer ones remain. *)
OnlySurplusExpires == Store!OnlySurplusExpires

(* StoreLifecycle: every start of a process ends with an open store. *)
EveryStartOpens ==
    \A p \in Processes : []<>(part = "store" => at[p] = "ready")

(* StoreLifecycle: what killed and overlapping cycles leave behind is put   *)
(* right when cycles overlap no more.                                       *)
MaintenanceRecovers ==
    <>[](part = "store" => Store!OneCycleAtATime)
        => []<>(part = "store" => /\ manifest \in DOMAIN backups
                                  /\ Cardinality(DOMAIN backups) <= Retain)

(* EmailNotifier: it implements the channel the dispatcher relies on. *)
KeepsChannelContract == Email!KeepsChannelContract

=============================================================================
