---------------------------- MODULE Deployment ----------------------------
(***************************************************************************)
(* The production deployment script, scripts/deploy_production.py.  Queued *)
(* deployments and manual rollbacks are processes of one host that share a *)
(* file lock, the Compose stack and two files naming the current and the   *)
(* previous image.  An image stands for the revision it is tagged and      *)
(* labelled with.  What docker compose up leaves behind when it fails is   *)
(* external: the old container, the new one in any health, or none.        *)
(***************************************************************************)
CONSTANTS
    Operators,   \* the runs of the script that may coexist
    Images,      \* the validated revisions
    Faults,      \* which of "fail", "crash" and "health" may happen
    None         \* no image: no container, or no such file

ASSUME DeploymentAssumption == None \notin Images

VARIABLES
    container,        \* what docker inspect says of the checker: image and health
    currentImage, previousImage,   \* the two state files
    pc, operation,    \* where each process is, and in which of the two operations
    target,           \* the image it wants to run
    seen,             \* the image it found running when it had the lock
    trouble           \* history: "open" once an operation ended badly, "past"
                      \* when a later one has recorded what production runs

files == <<currentImage, previousImage>>
process == <<pc, operation, target, seen>>
vars == <<container, files, process, trouble>>

Locations == {"idle", "waiting", "locked", "updating", "restoring",
              "recording", "swapping"}

Running(image, healthy) == [image |-> image, healthy |-> healthy]
Absent == Running(None, FALSE)

(* flock: exclusive, and released when its holder ends in any way. *)
LockFree == \A p \in Operators : pc[p] \in {"idle", "waiting"}

(* A record of the image to go back to, unless it is the wanted one. *)
Replaceable(p) == seen[p] \notin {None, target[p]}

AfterFailure(image) ==
    {container, Absent, Running(image, TRUE), Running(image, FALSE)}

-----------------------------------------------------------------------------
Init ==
    /\ container = Absent
    /\ currentImage = None /\ previousImage = None
    /\ pc = [p \in Operators |-> "idle"]
    /\ operation = [p \in Operators |-> "deploy"]
    /\ target = [p \in Operators |-> None]
    /\ seen = [p \in Operators |-> None]
    /\ trouble = "none"

Begin(p, kind, image) ==
    /\ pc[p] = "idle"
    /\ pc' = [pc EXCEPT ![p] = "waiting"]
    /\ operation' = [operation EXCEPT ![p] = kind]
    /\ target' = [target EXCEPT ![p] = image]
    /\ UNCHANGED <<container, files, seen, trouble>>

Deploy(p, image) == Begin(p, "deploy", image)

(* rollback reads the file before it waits for the lock. *)
Rollback(p) ==
    /\ previousImage # None
    /\ Begin(p, "rollback", previousImage)

(* Mutant: the file is opened but not locked. *)
AcquireUnlocked(p) ==
    /\ pc[p] = "waiting"
    /\ pc' = [pc EXCEPT ![p] = "locked"]
    /\ UNCHANGED <<container, files, operation, target, seen, trouble>>

Acquire(p) ==
    /\ pc[p] = "waiting"
    /\ LockFree
    /\ pc' = [pc EXCEPT ![p] = "locked"]
    /\ UNCHANGED <<container, files, operation, target, seen, trouble>>

(* The process ends and forgets what it knew. *)
Ended(p) ==
    /\ pc' = [pc EXCEPT ![p] = "idle"]
    /\ operation' = [operation EXCEPT ![p] = "deploy"]
    /\ target' = [target EXCEPT ![p] = None]
    /\ seen' = [seen EXCEPT ![p] = None]

(* The wanted image already runs and is healthy. *)
NoOp(p) ==
    /\ pc[p] = "locked"
    /\ container = Running(target[p], TRUE)
    /\ Ended(p)
    /\ UNCHANGED <<container, files, trouble>>

(* Mutant: the whole inspected state is kept in place of the image. *)
PrepareWithState(p) ==
    /\ pc[p] = "locked"
    /\ pc' = [pc EXCEPT ![p] = "updating"]
    /\ seen' = [seen EXCEPT ![p] = container]
    /\ UNCHANGED <<container, files, operation, target, trouble>>

(* Validation, build and the label check succeed. *)
Prepare(p) ==
    /\ pc[p] = "locked"
    /\ container # Running(target[p], TRUE)
    /\ pc' = [pc EXCEPT ![p] = "updating"]
    /\ seen' = [seen EXCEPT ![p] = container.image]
    /\ UNCHANGED <<container, files, operation, target, trouble>>

(* One of them fails: nothing has been touched. *)
Refused(p) ==
    /\ "fail" \in Faults
    /\ pc[p] = "locked"
    /\ Ended(p)
    /\ UNCHANGED <<container, files, trouble>>

(* docker compose up --wait: the new containers are healthy. *)
Updated(p) ==
    /\ pc[p] = "updating"
    /\ container' = Running(target[p], TRUE)
    /\ pc' = [pc EXCEPT ![p] = "recording"]
    /\ UNCHANGED <<files, operation, target, seen, trouble>>

(* compose up fails: deploy reapplies the image it found, if there is one; *)
(* rollback gives up.                                                      *)
UpdateFails(p) ==
    /\ "fail" \in Faults
    /\ pc[p] = "updating"
    /\ container' \in AfterFailure(target[p])
    /\ \/ /\ operation[p] = "deploy" /\ Replaceable(p)
          /\ pc' = [pc EXCEPT ![p] = "restoring"]
          /\ UNCHANGED <<operation, target, seen, trouble>>
       \/ /\ ~(operation[p] = "deploy" /\ Replaceable(p))
          /\ Ended(p)
          /\ trouble' = "open"
    /\ UNCHANGED files

(* Mutant: after the automatic rollback the update is tried again. *)
RestoredRetrying(p) ==
    /\ pc[p] = "restoring"
    /\ container' = Running(seen[p], TRUE)
    /\ pc' = [pc EXCEPT ![p] = "updating"]
    /\ UNCHANGED <<files, operation, target, seen, trouble>>

(* The automatic rollback works; the deployment is reported as failed. *)
Restored(p) ==
    /\ pc[p] = "restoring"
    /\ container' = Running(seen[p], TRUE)
    /\ Ended(p)
    /\ UNCHANGED <<files, trouble>>

RestoreFails(p) ==
    /\ "fail" \in Faults
    /\ pc[p] = "restoring"
    /\ container' \in AfterFailure(seen[p])
    /\ Ended(p)
    /\ trouble' = "open"
    /\ UNCHANGED files

(* _write_state replaces one file at a time: first the current image ... *)
RecordCurrent(p) ==
    /\ pc[p] = "recording"
    /\ currentImage' = target[p]
    /\ trouble' = IF trouble = "none" THEN "none" ELSE "past"
    /\ \/ /\ Replaceable(p)
          /\ pc' = [pc EXCEPT ![p] = "swapping"]
          /\ UNCHANGED <<operation, target, seen>>
       \/ ~Replaceable(p) /\ Ended(p)
    /\ UNCHANGED <<container, previousImage>>

(* Mutant: the image just deployed is recorded as the previous one too. *)
RecordPreviousTarget(p) ==
    /\ pc[p] = "swapping"
    /\ previousImage' = target[p]
    /\ Ended(p)
    /\ UNCHANGED <<container, currentImage, trouble>>

(* ... then the one it replaced. *)
RecordPrevious(p) ==
    /\ pc[p] = "swapping"
    /\ previousImage' = seen[p]
    /\ Ended(p)
    /\ UNCHANGED <<container, currentImage, trouble>>

(* The process is killed: by its operator, by the runner's time limit.     *)
Crash(p) ==
    /\ "crash" \in Faults
    /\ pc[p] # "idle"
    /\ container' \in CASE pc[p] = "updating"  -> AfterFailure(target[p])
                        [] pc[p] = "restoring" -> AfterFailure(seen[p])
                        [] OTHER               -> {container}
    /\ Ended(p)
    /\ trouble' = CASE pc[p] \in {"waiting", "locked"} -> trouble
                    [] pc[p] = "swapping"               -> "past"
                    [] OTHER                            -> "open"
    /\ UNCHANGED files

(* The container's health check changes its mind. *)
HealthChanges ==
    /\ "health" \in Faults
    /\ container.image # None
    /\ container' = [container EXCEPT !.healthy = ~@]
    /\ UNCHANGED <<files, process, trouble>>

Step(p) ==
    \/ Acquire(p) \/ NoOp(p) \/ Prepare(p) \/ Refused(p)
    \/ Updated(p) \/ UpdateFails(p) \/ Restored(p) \/ RestoreFails(p)
    \/ RecordCurrent(p) \/ RecordPrevious(p)

Next ==
    \/ \E p \in Operators :
          \/ \E image \in Images : Deploy(p, image)
          \/ Rollback(p) \/ Step(p) \/ Crash(p)
    \/ HealthChanges

Spec == Init /\ [][Next]_vars

(* A holder of the lock goes on, all its commands end, and the kernel      *)
(* grants a lock that is free again and again to each process that waits.  *)
FairSpec ==
    Spec /\ \A p \in Operators : WF_vars(Step(p)) /\ SF_vars(Acquire(p))

-----------------------------------------------------------------------------
TypeOK ==
    /\ container \in [image : Images \cup {None}, healthy : BOOLEAN]
    /\ currentImage \in Images \cup {None}
    /\ previousImage \in Images \cup {None}
    /\ pc \in [Operators -> Locations]
    /\ operation \in [Operators -> {"deploy", "rollback"}]
    /\ target \in [Operators -> Images \cup {None}]
    /\ seen \in [Operators -> Images \cup {None}]
    /\ trouble \in {"none", "open", "past"}

(* Between operations current-image names the image production runs, also   *)
(* after deployments that failed and were rolled back automatically, however *)
(* the queued operations follow one another, until an operation is killed   *)
(* or leaves production where its commands failed.                          *)
RecordsMatchProduction ==
    (LockFree /\ trouble # "open") => currentImage = container.image

(* A rollback has an image to go back to: as long as no operation ends      *)
(* badly, the two records never name the same image.                        *)
RollbackLeadsElsewhere ==
    (LockFree /\ previousImage # None /\ trouble = "none") => previousImage # currentImage

(* No queued operation waits for ever: every holder of the lock ends,       *)
(* whatever fails under it.                                                 *)
EveryOperationServed ==
    \A p \in Operators : []<>(pc[p] # "waiting")

=============================================================================
