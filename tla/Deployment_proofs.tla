------------------------- MODULE Deployment_proofs -------------------------
(***************************************************************************)
(* Proofs about Deployment, for any number of operations and images and    *)
(* any of the faults.  The operation that holds the lock is the only one   *)
(* that touches production or the two records, so what it saw under the    *)
(* lock is still true when it writes them.                                 *)
(***************************************************************************)
EXTENDS Deployment, TLAPS

Holds(p) == pc[p] \notin {"idle", "waiting"}

MutualExclusion == \A p, q \in Operators : Holds(p) /\ Holds(q) => p = q

TargetChosen == \A p \in Operators : pc[p] # "idle" => target[p] \in Images

(* What the holder knows of production. *)
HolderKnows ==
    \A p \in Operators :
       /\ pc[p] = "updating"  => seen[p] = container.image
       /\ pc[p] = "recording" => container.image = target[p]
       /\ pc[p] = "swapping"  =>
             /\ Replaceable(p) /\ trouble # "open"
             /\ currentImage = target[p] /\ container.image = target[p]

(* Until production is recorded, current-image names what the holder found. *)
RecordsFollow ==
    trouble # "open" =>
       /\ \A p \in Operators :
             pc[p] \in {"restoring", "recording"} => currentImage = seen[p]
       /\ (\A p \in Operators : pc[p] \notin {"restoring", "recording"})
             => currentImage = container.image

(* The records differ while no deployment is between its two writes. *)
RecordsDiffer ==
    /\ currentImage = None => previousImage = None
    /\ (trouble = "none" /\ previousImage # None
          /\ \A p \in Operators : pc[p] # "swapping") => previousImage # currentImage

IInv ==
    /\ TypeOK /\ MutualExclusion /\ TargetChosen
    /\ HolderKnows /\ RecordsFollow /\ RecordsDiffer

-----------------------------------------------------------------------------
(* Each operation keeps the shape of the state.                            *)
LEMMA TypeStep == TypeOK /\ [Next]_vars => TypeOK'
<1> SUFFICES ASSUME TypeOK, [Next]_vars PROVE TypeOK'
  OBVIOUS
<1> USE DEF TypeOK, Locations
<1>1. ASSUME NEW p \in Operators,
             \/ \E image \in Images : Deploy(p, image)
             \/ Rollback(p) \/ Acquire(p) \/ Prepare(p)
      PROVE  TypeOK'
  <2>1. CASE (\E image \in Images : Deploy(p, image)) \/ Rollback(p)
    BY <2>1 DEF Deploy, Rollback, Begin, files
  <2>2. CASE Acquire(p)
    BY <2>2 DEF Acquire, files
  <2>3. CASE Prepare(p)
    BY <2>3 DEF Prepare, files
  <2> QED
    BY <1>1, <2>1, <2>2, <2>3
<1>2. ASSUME NEW p \in Operators, NoOp(p) \/ Refused(p)
      PROVE  TypeOK'
  BY <1>2 DEF NoOp, Refused, Ended, files
<1>3. ASSUME NEW p \in Operators, Updated(p) \/ Restored(p)
      PROVE  TypeOK'
  <2>1. target[p] \in Images \cup {None} /\ seen[p] \in Images \cup {None}
    OBVIOUS
  <2>2. container' \in [image : Images \cup {None}, healthy : BOOLEAN]
    <3>1. \A image \in Images \cup {None} :
             Running(image, TRUE) \in [image : Images \cup {None}, healthy : BOOLEAN]
      BY DEF Running
    <3>2. container' = Running(target[p], TRUE) \/ container' = Running(seen[p], TRUE)
      BY <1>3 DEF Updated, Restored
    <3>3. /\ Running(target[p], TRUE) \in [image : Images \cup {None}, healthy : BOOLEAN]
          /\ Running(seen[p], TRUE) \in [image : Images \cup {None}, healthy : BOOLEAN]
      BY <2>1, <3>1
    <3> QED
      BY <3>2, <3>3
  <2>3. CASE Updated(p)
    BY <2>2, <2>3 DEF Updated, files
  <2>4. CASE Restored(p)
    BY <2>2, <2>4 DEF Restored, Ended, files
  <2> QED
    BY <1>3, <2>3, <2>4
<1>4. ASSUME NEW p \in Operators
      PROVE  /\ AfterFailure(target[p]) \subseteq [image : Images \cup {None}, healthy : BOOLEAN]
             /\ AfterFailure(seen[p]) \subseteq [image : Images \cup {None}, healthy : BOOLEAN]
  BY <1>4 DEF AfterFailure, Absent, Running
<1>5. ASSUME NEW p \in Operators, UpdateFails(p) \/ RestoreFails(p)
      PROVE  TypeOK'
  BY <1>4, <1>5 DEF UpdateFails, RestoreFails, Ended, files
<1>6. ASSUME NEW p \in Operators, RecordCurrent(p) \/ RecordPrevious(p)
      PROVE  TypeOK'
  BY <1>6 DEF RecordCurrent, RecordPrevious, Ended, files
<1>7. ASSUME NEW p \in Operators, Crash(p)
      PROVE  TypeOK'
  <2>1. container' \in [image : Images \cup {None}, healthy : BOOLEAN]
    BY <1>4, <1>7 DEF Crash
  <2>2. trouble' \in {"none", "open", "past"}
    BY <1>7 DEF Crash
  <2> QED
    BY <1>7, <2>1, <2>2 DEF Crash, Ended, files
<1>8. CASE HealthChanges
  BY <1>8 DEF HealthChanges, files, process
<1>9. CASE UNCHANGED vars
  BY <1>9 DEF vars, files, process
<1> QED
  BY <1>1, <1>2, <1>3, <1>5, <1>6, <1>7, <1>8, <1>9 DEF Next, Step

(* The lock lets one operation in, and no operation forgets its image.     *)
LEMMA LockStep ==
  ASSUME TypeOK, MutualExclusion, TargetChosen, [Next]_vars
  PROVE  MutualExclusion' /\ TargetChosen'
<1> USE DEF TypeOK, MutualExclusion, TargetChosen, Holds
<1>1. ASSUME NEW p \in Operators,
             (\E image \in Images : Deploy(p, image)) \/ Rollback(p)
      PROVE  MutualExclusion' /\ TargetChosen'
  BY <1>1 DEF Deploy, Rollback, Begin
<1>2. ASSUME NEW p \in Operators, Acquire(p)
      PROVE  MutualExclusion' /\ TargetChosen'
  BY <1>2 DEF Acquire, LockFree
<1>3. ASSUME NEW p \in Operators, Ended(p)
      PROVE  MutualExclusion' /\ TargetChosen'
  BY <1>3 DEF Ended
<1>4. ASSUME NEW p \in Operators, Holds(p),
             \E place \in Locations : pc' = [pc EXCEPT ![p] = place], target' = target
      PROVE  MutualExclusion' /\ TargetChosen'
  BY <1>4
<1>5. ASSUME NEW p \in Operators,
             Prepare(p) \/ Updated(p) \/ UpdateFails(p) \/ RecordCurrent(p)
      PROVE  MutualExclusion' /\ TargetChosen'
  <2>1. CASE Prepare(p) \/ Updated(p)
    BY <1>4, <2>1 DEF Prepare, Updated, Locations
  <2>2. CASE UpdateFails(p)
    BY <1>3, <1>4, <2>2 DEF UpdateFails, Locations
  <2>3. CASE RecordCurrent(p)
    BY <1>3, <1>4, <2>3 DEF RecordCurrent, Locations
  <2> QED
    BY <1>5, <2>1, <2>2, <2>3
<1>6. ASSUME NEW p \in Operators,
             NoOp(p) \/ Refused(p) \/ Restored(p) \/ RestoreFails(p)
               \/ RecordPrevious(p) \/ Crash(p)
      PROVE  MutualExclusion' /\ TargetChosen'
  BY <1>3, <1>6 DEF NoOp, Refused, Restored, RestoreFails, RecordPrevious, Crash
<1>7. CASE HealthChanges \/ UNCHANGED vars
  BY <1>7 DEF HealthChanges, vars, process
<1> QED
  BY <1>1, <1>2, <1>5, <1>6, <1>7 DEF Next, Step

(* What an operation must leave behind when it gives up the lock.          *)
LockGivenUp ==
    /\ trouble # "open" => currentImage = container.image
    /\ currentImage = None => previousImage = None
    /\ (trouble = "none" /\ previousImage # None) => previousImage # currentImage

LEMMA EndedKnows ==
  ASSUME TypeOK, MutualExclusion, NEW p \in Operators, Holds(p), Ended(p), LockGivenUp'
  PROVE  HolderKnows' /\ RecordsFollow' /\ RecordsDiffer'
<1>1. \A q \in Operators : pc'[q] \in {"idle", "waiting"}
  BY DEF TypeOK, MutualExclusion, Holds, Ended
<1> QED
  BY <1>1 DEF HolderKnows, RecordsFollow, RecordsDiffer, LockGivenUp

(* While the holder has changed nothing, production is as the records say. *)
LEMMA HolderBefore ==
  ASSUME TypeOK, MutualExclusion, RecordsFollow, RecordsDiffer,
         NEW p \in Operators, Holds(p)
  PROVE  /\ pc[p] \in {"locked", "updating", "swapping"} =>
               (trouble # "open" => currentImage = container.image)
         /\ pc[p] # "swapping" =>
               ((trouble = "none" /\ previousImage # None) => previousImage # currentImage)
         /\ currentImage = None => previousImage = None
<1>1. \A q \in Operators : q # p => pc[q] \in {"idle", "waiting"}
  BY DEF TypeOK, MutualExclusion, Holds
<1> QED
  BY <1>1 DEF RecordsFollow, RecordsDiffer

(* What the holder does to production and to the records.                  *)
LEMMA RecordsStep ==
  ASSUME TypeOK, MutualExclusion, TargetChosen, HolderKnows, RecordsFollow, RecordsDiffer,
         [Next]_vars
  PROVE  HolderKnows' /\ RecordsFollow' /\ RecordsDiffer'
<1> USE DeploymentAssumption DEF TypeOK, HolderKnows, RecordsFollow, RecordsDiffer
<1> DEFINE Goal == HolderKnows' /\ RecordsFollow' /\ RecordsDiffer'
<1>1. ASSUME NEW p \in Operators,
             (\E image \in Images : Deploy(p, image)) \/ Rollback(p)
      PROVE  Goal
  <2>1. /\ pc[p] = "idle" /\ pc' = [pc EXCEPT ![p] = "waiting"]
        /\ \A q \in Operators : q # p => target'[q] = target[q]
        /\ UNCHANGED <<container, currentImage, previousImage, seen, trouble>>
    BY <1>1 DEF Deploy, Rollback, Begin, files
  <2>2. \A q \in Operators : /\ q # p => pc'[q] = pc[q]
                              /\ pc'[p] = "waiting"
    BY <2>1
  <2>3. HolderKnows'
    BY <2>1, <2>2 DEF Replaceable
  <2>4. RecordsFollow'
    BY <2>1, <2>2
  <2>5. RecordsDiffer'
    BY <2>1, <2>2
  <2> QED
    BY <2>3, <2>4, <2>5
<1>2. ASSUME NEW p \in Operators, Acquire(p) PROVE Goal
  BY <1>2 DEF Acquire, Replaceable, files
<1>3. ASSUME NEW p \in Operators, Holds(p), Ended(p), LockGivenUp' PROVE Goal
  BY <1>3, EndedKnows
<1>4. ASSUME NEW p \in Operators, NoOp(p) \/ Refused(p) PROVE Goal
  <2>1. Holds(p) /\ Ended(p) /\ pc[p] = "locked" /\ UNCHANGED <<container, files, trouble>>
    BY <1>4 DEF NoOp, Refused, Holds
  <2>2. LockGivenUp'
    BY <2>1, HolderBefore DEF LockGivenUp, files
  <2> QED
    BY <1>3, <2>1, <2>2
<1>5. ASSUME NEW p \in Operators, Prepare(p) PROVE Goal
  BY <1>5 DEF Prepare, Holds, MutualExclusion, Replaceable, files
<1>6. ASSUME NEW p \in Operators, Updated(p) PROVE Goal
  BY <1>6 DEF Updated, Running, Holds, MutualExclusion, Replaceable, files
<1>7. ASSUME NEW p \in Operators, UpdateFails(p) PROVE Goal
  <2>1. Holds(p) /\ pc[p] = "updating" /\ UNCHANGED <<currentImage, previousImage>>
    BY <1>7 DEF UpdateFails, Holds, files
  <2>2. CASE Ended(p) /\ trouble' = "open"
    <3>1. LockGivenUp'
      BY <2>1, <2>2, HolderBefore DEF LockGivenUp
    <3> QED
      BY <1>3, <2>1, <2>2, <3>1
  <2>3. CASE pc' = [pc EXCEPT ![p] = "restoring"] /\ UNCHANGED <<target, seen, trouble>>
    <3>1. \A q \in Operators : q # p => pc[q] \in {"idle", "waiting"} /\ pc'[q] = pc[q]
      BY <2>1, <2>3 DEF MutualExclusion, Holds
    <3>2. pc'[p] = "restoring" /\ (trouble # "open" => currentImage = seen[p])
      BY <2>1, <2>3, HolderBefore
    <3>3. HolderKnows' /\ RecordsDiffer'
      BY <2>1, <2>3, <3>1, <3>2, HolderBefore
    <3>4. RecordsFollow'
      BY <2>1, <2>3, <3>1, <3>2
    <3> QED
      BY <3>3, <3>4
  <2> QED
    BY <1>7, <2>2, <2>3 DEF UpdateFails
<1>8. ASSUME NEW p \in Operators, Restored(p) \/ RestoreFails(p) PROVE Goal
  <2>1. /\ Holds(p) /\ Ended(p) /\ pc[p] = "restoring"
        /\ UNCHANGED <<currentImage, previousImage>>
        /\ trouble' = "open" \/ (trouble' = trouble /\ container' = Running(seen[p], TRUE))
    BY <1>8 DEF Restored, RestoreFails, Holds, files
  <2>2. LockGivenUp'
    BY <2>1, HolderBefore DEF LockGivenUp, Running
  <2> QED
    BY <1>3, <2>1, <2>2
<1>9. ASSUME NEW p \in Operators, RecordCurrent(p) PROVE Goal
  <2>1. /\ Holds(p) /\ pc[p] = "recording" /\ UNCHANGED <<container, previousImage>>
        /\ currentImage' = target[p] /\ container.image = target[p] /\ target[p] # None
        /\ trouble' # "open" /\ (trouble' = "none" => trouble = "none")
    BY <1>9 DEF RecordCurrent, Holds, TargetChosen
  <2>2. CASE ~Replaceable(p) /\ Ended(p)
    <3>1. LockGivenUp'
      BY <2>1, <2>2, HolderBefore DEF LockGivenUp, Replaceable
    <3> QED
      BY <1>3, <2>1, <2>2, <3>1
  <2>3. CASE /\ Replaceable(p) /\ pc' = [pc EXCEPT ![p] = "swapping"]
             /\ UNCHANGED <<operation, target, seen>>
    <3>1. \A q \in Operators : q # p => pc[q] \in {"idle", "waiting"} /\ pc'[q] = pc[q]
      BY <2>1, <2>3 DEF MutualExclusion, Holds
    <3>2. pc'[p] = "swapping"
      BY <2>3
    <3> QED
      BY <2>1, <2>3, <3>1, <3>2 DEF Replaceable
  <2> QED
    BY <1>9, <2>2, <2>3 DEF RecordCurrent
<1>10. ASSUME NEW p \in Operators, RecordPrevious(p) PROVE Goal
  <2>1. /\ Holds(p) /\ Ended(p) /\ pc[p] = "swapping" /\ UNCHANGED <<container, currentImage, trouble>>
        /\ previousImage' = seen[p] /\ currentImage = target[p] /\ target[p] # None
    BY <1>10 DEF RecordPrevious, Holds, TargetChosen
  <2>2. LockGivenUp'
    BY <2>1 DEF LockGivenUp, Replaceable
  <2> QED
    BY <1>3, <2>1, <2>2
<1>11. ASSUME NEW p \in Operators, Crash(p) PROVE Goal
  <2>1. Ended(p) /\ pc[p] # "idle" /\ UNCHANGED <<currentImage, previousImage>>
    BY <1>11 DEF Crash, files
  <2>2. CASE pc[p] = "waiting"
    <3>1. container' = container /\ trouble' = trouble
      BY <1>11, <2>2 DEF Crash
    <3>2. /\ pc'[p] = "idle"
          /\ \A q \in Operators : q # p =>
                pc'[q] = pc[q] /\ target'[q] = target[q] /\ seen'[q] = seen[q]
      BY <2>1 DEF Ended
    <3> QED
      BY <2>1, <2>2, <3>1, <3>2 DEF Replaceable
  <2>3. CASE pc[p] \in {"locked", "swapping"}
    <3>1. /\ Holds(p) /\ container' = container
          /\ trouble' = IF pc[p] = "locked" THEN trouble ELSE "past"
      BY <1>11, <2>3 DEF Crash, Holds
    <3>2. LockGivenUp'
      BY <2>1, <2>3, <3>1, HolderBefore DEF LockGivenUp
    <3> QED
      BY <1>3, <2>1, <3>1, <3>2
  <2>4. CASE pc[p] \in {"updating", "restoring", "recording"}
    <3>1. Holds(p) /\ trouble' = "open"
      BY <1>11, <2>4 DEF Crash, Holds
    <3>2. LockGivenUp'
      BY <2>1, <3>1, HolderBefore DEF LockGivenUp
    <3> QED
      BY <1>3, <2>1, <3>1, <3>2
  <2> QED
    BY <2>1, <2>2, <2>3, <2>4 DEF Locations
<1>12. CASE HealthChanges
  BY <1>12 DEF HealthChanges, Replaceable, files, process
<1>13. CASE UNCHANGED vars
  BY <1>13 DEF vars, files, process, Replaceable
<1> QED
  BY <1>1, <1>2, <1>3, <1>4, <1>5, <1>6, <1>7, <1>8, <1>9, <1>10, <1>11, <1>12, <1>13
  DEF Next, Step

-----------------------------------------------------------------------------
LEMMA DeploymentInvariant == Spec => []IInv
<1>1. Init => IInv
  BY DeploymentAssumption DEF Init, IInv, TypeOK, MutualExclusion, TargetChosen, HolderKnows,
     RecordsFollow, RecordsDiffer, Holds, Locations, Absent, Running
<1>2. IInv /\ [Next]_vars => IInv'
  BY TypeStep, LockStep, RecordsStep DEF IInv
<1> QED
  BY <1>1, <1>2, PTL DEF Spec

(* Every reachable state of the script has its declared shape.             *)
THEOREM TypeCorrect == Spec => []TypeOK
<1>1. IInv => TypeOK
  BY DEF IInv
<1> QED
  BY <1>1, DeploymentInvariant, PTL

(* current-image names what production runs whenever no operation is under *)
(* way, however many are queued, fail and are rolled back automatically,   *)
(* until one ends badly (_write_state is called under the lock, after the  *)
(* update).                                                                *)
THEOREM ProductionIsRecorded == Spec => []RecordsMatchProduction
<1>1. IInv => RecordsMatchProduction
  BY DEF IInv, RecordsFollow, RecordsMatchProduction, LockFree
<1> QED
  BY <1>1, DeploymentInvariant, PTL

(* While none has ended badly, a rollback has another image to go to.      *)
THEOREM RollbackHasTarget == Spec => []RollbackLeadsElsewhere
<1>1. IInv => RollbackLeadsElsewhere
  BY DEF IInv, RecordsDiffer, RollbackLeadsElsewhere, LockFree
<1> QED
  BY <1>1, DeploymentInvariant, PTL

=============================================================================
