------------------------- MODULE AtLeastOnce_proofs -------------------------
(***************************************************************************)
(* That the outbox keeps the constraints of its schema, that its change    *)
(* log explains the stored snapshots, and that it implements AtLeastOnce,  *)
(* for all values of the constants.                                        *)
(***************************************************************************)
EXTENDS DurableOutbox_proofs

-----------------------------------------------------------------------------
(* What one comparison finds. *)

(* A job has at most one newest run.                                       *)
LEMMA NewestIsOne ==
    ASSUME DOMAIN runs \subseteq Nat, NEW job, NEW r \in Newest(job), NEW s \in Newest(job)
    PROVE  r = s
BY DEF Newest

(* A comparison reports each opportunity once.                             *)
LEMMA DetectedOnce ==
    ASSUME DOMAIN runs \subseteq Nat, NEW job, NEW snapshot,
           NEW c \in Detected(job, snapshot), NEW d \in Detected(job, snapshot),
           c.opportunity = d.opportunity
    PROVE  c = d
<1>1. CASE Newest(job) = {}
  <2>1. c \in DetectInitialTransitions(snapshot) /\ d \in DetectInitialTransitions(snapshot)
    BY <1>1 DEF Detected
  <2>2. QED BY <2>1 DEF DetectInitialTransitions
<1>2. CASE Newest(job) # {}
  <2>1. PICK r \in Newest(job) : c \in DetectTransitions(runs[r].snapshot, snapshot)
    BY <1>2 DEF Detected
  <2>2. PICK s \in Newest(job) : d \in DetectTransitions(runs[s].snapshot, snapshot)
    BY <1>2 DEF Detected
  <2>3. r = s
    BY NewestIsOne
  <2>4. QED BY <2>1, <2>2, <2>3 DEF DetectTransitions
<1>3. QED BY <1>1, <1>2

(* Replaying what a comparison found leads from the one snapshot to the     *)
(* other.                                                                   *)
LEMMA ReplayDetected ==
    ASSUME NEW s \in Snapshots, NEW u \in Snapshots
    PROVE  Replay(s, DetectTransitions(s, u)) = u
<1> DEFINE C == DetectTransitions(s, u)
<1>1. ASSUME NEW o \in Opportunities
      PROVE  (IF \E c \in C : c.opportunity = o
              THEN (CHOOSE c \in C : c.opportunity = o).current ELSE s[o]) = u[o]
  <2>1. CASE s[o] = u[o]
    <3>1. ~ \E c \in C : c.opportunity = o
      BY <2>1 DEF DetectTransitions
    <3>2. QED BY <2>1, <3>1
  <2>2. CASE s[o] # u[o]
    <3> DEFINE d == [opportunity |-> o, type |-> TransitionType(s[o], u[o]),
                     previous |-> s[o], current |-> u[o]]
    <3>1. d \in C /\ d.opportunity = o
      BY <2>2 DEF DetectTransitions
    <3>2. \A c \in C : c.opportunity = o => c.current = u[o]
      BY DEF DetectTransitions
    <3>3. /\ (CHOOSE c \in C : c.opportunity = o) \in C
          /\ (CHOOSE c \in C : c.opportunity = o).opportunity = o
      <4> HIDE DEF C, d
      <4>1. QED BY <3>1
    <3>4. QED
      <4> HIDE DEF C, d
      <4>1. QED BY <3>1, <3>2, <3>3
  <2>3. QED BY <2>1, <2>2
<1> HIDE DEF C
<1>2. Replay(s, C) = [o \in Opportunities |-> u[o]]
  BY <1>1 DEF Replay
<1>3. u = [o \in Opportunities |-> u[o]]
  BY DEF Snapshots
<1>4. QED BY <1>2, <1>3 DEF C

(* What the transaction of record_success does to the tables.              *)
LEMMA RecordSuccessInserts ==
    ASSUME TypeInv, NEW t \in Tasks, RecordSuccess(t)
    PROVE  \E lastRun \in Largest(DOMAIN runs) :
              /\ lastRun \in Nat /\ lastRun < MaxRuns
              /\ \A r \in DOMAIN runs : r <= lastRun
              /\ InsertsRun(result[t].job, result[t], lastRun + 1,
                            Detected(result[t].job, result[t].snapshot))
              /\ promised' = promised \cup
                   {[run |-> lastRun + 1, opportunity |-> a[1].opportunity, channel |-> a[2]] :
                       a \in Notified(result[t].job, Detected(result[t].job, result[t].snapshot))}
<1>1. DOMAIN runs \subseteq Nat /\ DOMAIN transitions \subseteq Nat /\ DOMAIN outbox \subseteq Nat
  BY DEF TypeInv, TypeOK
<1>2. QED BY <1>1, LargestBounds, InsertRunInserts DEF RecordSuccess

(* Deletions only take rows away, and transitions only with their run.     *)
LEMMA PruneRestricts ==
    ASSUME Prune
    PROVE  /\ DOMAIN runs' = KeptRuns /\ KeptRuns \subseteq DOMAIN runs
           /\ \A r \in KeptRuns : runs'[r] = runs[r]
           /\ \A n \in DOMAIN transitions' :
                 n \in DOMAIN transitions /\ transitions'[n] = transitions[n]
           /\ \A n \in DOMAIN outbox' :
                 /\ n \in DOMAIN outbox /\ outbox'[n] = outbox[n]
                 /\ outbox[n].transition \in DOMAIN transitions'
           /\ \A n \in DOMAIN transitions : 
                 transitions[n].run \in KeptRuns => n \in DOMAIN transitions'
           /\ \A n \in Pending : 
                 outbox[n].transition \in DOMAIN transitions' => n \in DOMAIN outbox'
           /\ UNCHANGED <<task, clock, history>>
BY DEF Prune, Restricted, Unexpired, KeptRuns, Pending

-----------------------------------------------------------------------------
(* The constraints of the schema.                                          *)

(* A run reports each opportunity in one transition. *)
ChangesAreSingle ==
    \A m, n \in DOMAIN transitions :
        (/\ transitions[m].run = transitions[n].run
         /\ transitions[m].change.opportunity = transitions[n].change.opportunity) => m = n

ConsistentInv == TypeInv /\ ForeignKeys /\ RowsAreConsistent /\ ChangesAreSingle

LEMMA RecordSuccessConsistent ==
    ASSUME ConsistentInv, NEW t \in Tasks, RecordSuccess(t)
    PROVE  RowsAreConsistent' /\ ChangesAreSingle'
<1> DEFINE job == result[t].job
           changes == Detected(job, result[t].snapshot)
<1>0. TypeInv /\ ForeignKeys /\ RowsAreConsistent /\ ChangesAreSingle
  BY DEF ConsistentInv
<1>1. PICK lastRun \in Largest(DOMAIN runs) :
         /\ lastRun \in Nat
         /\ \A r \in DOMAIN runs : r <= lastRun
         /\ InsertsRun(job, result[t], lastRun + 1, changes)
  BY <1>0, RecordSuccessInserts
<1>2. ASSUME NEW c \in changes, NEW d \in changes, c.opportunity = d.opportunity
      PROVE  c = d
  BY <1>0, <1>2, DetectedOnce DEF TypeInv, TypeOK
<1>3. \A a \in Notified(job, changes) :
         a[1] \in changes /\ a[1].type \in AlertOn[job] /\ a[2] \in PlanChannels[job]
  BY DEF Notified
<1> HIDE DEF changes, job
<1> DEFINE run == lastRun + 1
<1>4. run \notin DOMAIN runs /\ runs'[run].job = job
      /\ \A r \in DOMAIN runs : r \in DOMAIN runs' /\ runs'[r] = runs[r]
  <2>1. DOMAIN runs \subseteq Nat
    BY <1>0 DEF TypeInv, TypeOK
  <2>2. run \notin DOMAIN runs
    BY <1>1, <2>1
  <2>3. QED BY <1>1, <2>2 DEF InsertsRun
<1>5. ASSUME NEW n \in DOMAIN transitions' \ DOMAIN transitions
      PROVE  transitions'[n].run = run /\ transitions'[n].change \in changes
  <2>1. PICK c \in changes : transitions'[n] = [run |-> run, change |-> c]
    BY <1>1 DEF InsertsRun
  <2>2. QED BY <2>1
<1>6. ASSUME NEW n \in DOMAIN transitions
      PROVE  /\ n \in DOMAIN transitions' /\ transitions'[n] = transitions[n]
             /\ transitions[n].run \in DOMAIN runs
  BY <1>0, <1>1 DEF InsertsRun, ForeignKeys
<1>7. ASSUME NEW n \in DOMAIN transitions' \ DOMAIN transitions
      PROVE  transitions'[n] = [run |-> run, change |-> transitions'[n].change]
  <2>1. PICK c \in changes : transitions'[n] = [run |-> run, change |-> c]
    BY <1>1 DEF InsertsRun
  <2>2. QED BY <2>1
<1>8. ChangesAreSingle'
  <2> SUFFICES ASSUME NEW m \in DOMAIN transitions', NEW n \in DOMAIN transitions',
                      transitions'[m].run = transitions'[n].run,
                      transitions'[m].change.opportunity = transitions'[n].change.opportunity
               PROVE  m = n
    BY DEF ChangesAreSingle
  <2>1. CASE m \in DOMAIN transitions /\ n \in DOMAIN transitions
    BY <1>0, <1>6, <2>1 DEF ChangesAreSingle
  <2>2. CASE m \notin DOMAIN transitions /\ n \notin DOMAIN transitions
    <3>1. transitions'[m].change = transitions'[n].change
      BY <1>2, <1>5, <2>2
    <3>2. transitions'[m] = transitions'[n]
      BY <1>7, <2>2, <3>1
    <3>3. QED BY <1>1, <2>2, <3>2 DEF InsertsRun
  <2>3. CASE (m \in DOMAIN transitions) # (n \in DOMAIN transitions)
    BY <1>4, <1>5, <1>6, <2>3
  <2>4. QED BY <2>1, <2>2, <2>3
<1>9. ASSUME NEW n \in DOMAIN transitions' PROVE transitions'[n].run \in DOMAIN runs'
  <2>1. run \in DOMAIN runs'
    BY <1>1 DEF InsertsRun
  <2>2. QED BY <1>4, <1>5, <1>6, <2>1
<1>10. ASSUME NEW n \in DOMAIN outbox
       PROVE  /\ n \in DOMAIN outbox' /\ outbox'[n] = outbox[n]
              /\ outbox[n].transition \in DOMAIN transitions
  BY <1>0, <1>1 DEF InsertsRun, ForeignKeys
<1>11. ASSUME NEW n \in DOMAIN outbox'
       PROVE  /\ outbox'[n].transition \in DOMAIN transitions'
              /\ transitions'[outbox'[n].transition].change.type
                    \in AlertOn[runs'[transitions'[outbox'[n].transition].run].job]
              /\ outbox'[n].channel
                    \in PlanChannels[runs'[transitions'[outbox'[n].transition].run].job]
  <2>1. CASE n \in DOMAIN outbox
    <3>1. /\ transitions[outbox[n].transition].change.type
                \in AlertOn[runs[transitions[outbox[n].transition].run].job]
          /\ outbox[n].channel \in PlanChannels[runs[transitions[outbox[n].transition].run].job]
      BY <1>0, <2>1 DEF RowsAreConsistent
    <3>2. /\ outbox'[n] = outbox[n] /\ outbox[n].transition \in DOMAIN transitions
      BY <1>10, <2>1
    <3>3. /\ transitions'[outbox[n].transition] = transitions[outbox[n].transition]
          /\ outbox[n].transition \in DOMAIN transitions'
          /\ transitions[outbox[n].transition].run \in DOMAIN runs
      BY <1>6, <3>2
    <3>4. QED BY <1>4, <3>1, <3>2, <3>3
  <2>2. CASE n \notin DOMAIN outbox
    <3>1. PICK a \in Notified(job, changes) :
             /\ outbox'[n].transition \in DOMAIN transitions'
             /\ outbox'[n] = [transition |-> outbox'[n].transition, channel |-> a[2],
                              delivered_at |-> Null]
             /\ transitions'[outbox'[n].transition] = [run |-> run, change |-> a[1]]
      BY <1>1, <2>2 DEF InsertsRun
    <3>2. outbox'[n].channel = a[2]
      BY <3>1
    <3>3. /\ transitions'[outbox'[n].transition].run = run
          /\ transitions'[outbox'[n].transition].change = a[1]
      BY <3>1
    <3>4. QED BY <1>3, <1>4, <3>1, <3>2, <3>3
  <2>3. QED BY <2>1, <2>2
<1>12. ASSUME NEW m \in DOMAIN outbox', NEW n \in DOMAIN outbox',
              outbox'[m].transition = outbox'[n].transition,
              outbox'[m].channel = outbox'[n].channel
       PROVE  m = n
  <2>1. CASE m \in DOMAIN outbox /\ n \in DOMAIN outbox
    BY <1>0, <1>10, <1>12, <2>1 DEF RowsAreConsistent
  <2>2. CASE m \notin DOMAIN outbox /\ n \notin DOMAIN outbox
    BY <1>1, <1>12, <2>2 DEF InsertsRun
  <2>3. ASSUME NEW o \in DOMAIN outbox' \ DOMAIN outbox
        PROVE  outbox'[o].transition \notin DOMAIN transitions
    BY <1>1 DEF InsertsRun
  <2>4. CASE (m \in DOMAIN outbox) # (n \in DOMAIN outbox)
    BY <1>10, <1>12, <2>3, <2>4
  <2>5. QED BY <2>1, <2>2, <2>4
<1>13. RowsAreConsistent'
  BY <1>9, <1>11, <1>12 DEF RowsAreConsistent
<1>14. QED BY <1>8, <1>13

LEMMA MarkDeliveredConsistent ==
    ASSUME ConsistentInv, NEW t \in Tasks, MarkDelivered(t)
    PROVE  RowsAreConsistent' /\ ChangesAreSingle'
<1>1. PICK p \in Current(t) :
         p.id \in Pending /\ outbox' = [outbox EXCEPT ![p.id].delivered_at = clock]
  BY DEF MarkDelivered
<1>2. UNCHANGED <<runs, transitions>> /\ DOMAIN outbox' = DOMAIN outbox
  BY <1>1 DEF MarkDelivered
<1>3. ASSUME NEW n \in DOMAIN outbox
      PROVE  outbox'[n].transition = outbox[n].transition /\ outbox'[n].channel = outbox[n].channel
  <2>1. outbox[n] \in OutboxRow
    BY DEF ConsistentInv, TypeInv, TypeOK
  <2>2. QED BY <1>1, <2>1 DEF OutboxRow
<1>4. QED BY <1>2, <1>3 DEF ConsistentInv, RowsAreConsistent, ChangesAreSingle

LEMMA PruneConsistent ==
    ASSUME ConsistentInv, Prune
    PROVE  RowsAreConsistent' /\ ChangesAreSingle'
<1>0. RowsAreConsistent /\ ChangesAreSingle /\ ForeignKeys
  BY DEF ConsistentInv
<1>1. ForeignKeys'
  BY ForeignKeysStep DEF ConsistentInv, Next
<1>2. /\ \A n \in DOMAIN transitions' :
            n \in DOMAIN transitions /\ transitions'[n] = transitions[n]
      /\ \A n \in DOMAIN outbox' : n \in DOMAIN outbox /\ outbox'[n] = outbox[n]
      /\ \A r \in DOMAIN runs' : runs'[r] = runs[r]
  BY PruneRestricts
<1>3. ChangesAreSingle'
  BY <1>0, <1>2 DEF ChangesAreSingle
<1>4. ASSUME NEW n \in DOMAIN outbox'
      PROVE  /\ outbox'[n].transition \in DOMAIN transitions'
             /\ outbox'[n] = outbox[n] /\ n \in DOMAIN outbox
             /\ transitions'[outbox'[n].transition] = transitions[outbox[n].transition]
             /\ runs'[transitions'[outbox'[n].transition].run].job
                   = runs[transitions[outbox[n].transition].run].job
  BY <1>1, <1>2 DEF ForeignKeys
<1>5. RowsAreConsistent'
  BY <1>0, <1>1, <1>4 DEF RowsAreConsistent, ForeignKeys
<1>6. QED BY <1>3, <1>5

LEMMA ConsistentStep == ConsistentInv /\ [Next]_vars => ConsistentInv'
<1> SUFFICES ASSUME ConsistentInv, [Next]_vars PROVE ConsistentInv'
  OBVIOUS
<1>1. (TypeInv /\ ForeignKeys)'
  BY TypeStep, ForeignKeysStep DEF ConsistentInv
<1>2. ASSUME UNCHANGED store PROVE RowsAreConsistent' /\ ChangesAreSingle'
  BY <1>2 DEF store, ConsistentInv, RowsAreConsistent, ChangesAreSingle
<1>3. RowsAreConsistent' /\ ChangesAreSingle'
  BY <1>2, RecordSuccessConsistent, MarkDeliveredConsistent, PruneConsistent
     DEF Next, Step, vars, Fetch, RecordUnchanged, ListPending, SendAccepted, SendRefused,
         UpdateFails, RecordFailure, Return, Abort, Tick
<1>4. QED BY <1>1, <1>3 DEF ConsistentInv

LEMMA ConsistentInvariant == Spec => []ConsistentInv
<1>1. Init => ConsistentInv
  BY TypeInit DEF Init, ConsistentInv, RowsAreConsistent, ChangesAreSingle
<1>2. QED BY <1>1, ConsistentStep, PTL DEF Spec

(* The foreign keys and the UNIQUE constraint hold in every state, and no   *)
(* notification is attached to a change its job's plan did not ask for,     *)
(* with ids handed out again and retention cascading over listed rows.      *)
THEOREM SchemaIsKept == Spec => []RowsAreConsistent
<1>1. ConsistentInv => RowsAreConsistent
  BY DEF ConsistentInv
<1>2. QED BY <1>1, ConsistentInvariant, PTL

-----------------------------------------------------------------------------
(* The change log explains the snapshots.                                  *)

(* ChangesExplainLatest says of a job without a baseline that it has no     *)
(* newest run; that it has no run at all is what a step can use.            *)
Baselines ==
    \A j \in Jobs :
        /\ belief[j] = Null => \A r \in DOMAIN runs : runs[r].job # j
        /\ belief[j] # Null => \E r \in Newest(j) : runs[r].snapshot = belief[j]

LEMMA RecordSuccessBaselines ==
    ASSUME TypeInv, Baselines, NEW t \in Tasks, RecordSuccess(t)
    PROVE  Baselines'
<1> DEFINE job == result[t].job
           snapshot == result[t].snapshot
           changes == Detected(job, snapshot)
<1>1. PICK lastRun \in Largest(DOMAIN runs) :
         /\ lastRun \in Nat
         /\ \A r \in DOMAIN runs : r <= lastRun
         /\ InsertsRun(job, result[t], lastRun + 1, changes)
  BY RecordSuccessInserts
<1>2. /\ job \in Jobs /\ pc[t] = "fetched" /\ DOMAIN runs \subseteq Nat
      /\ result[t] \in Run
      /\ belief \in [Jobs -> Snapshots \cup {Null}]
      /\ \A r \in DOMAIN runs : runs[r] \in Run
  BY DEF RecordSuccess, TypeInv, TypeOK, ResultReady, Run
<1>3. snapshot \in Snapshots /\ snapshot # Null
  BY <1>2, ConstantsAssumption DEF Run
<1>4. belief' = [belief EXCEPT ![job] = IF @ = Null THEN snapshot ELSE Replay(@, changes)]
  BY DEF RecordSuccess
<1>5. belief'[job] = snapshot
  <2>1. CASE belief[job] = Null
    BY <1>2, <1>4, <2>1
  <2>2. CASE belief[job] # Null
    <3>1. PICK r \in Newest(job) : runs[r].snapshot = belief[job]
      BY <1>2, <2>2 DEF Baselines
    <3>2. Newest(job) = {r}
      BY <1>2, <3>1, NewestIsOne
    <3>3. changes = DetectTransitions(belief[job], snapshot)
      BY <3>1, <3>2 DEF Detected
    <3>4. belief[job] \in Snapshots
      BY <1>2, <2>2
    <3>5. Replay(belief[job], changes) = snapshot
      BY <1>3, <3>3, <3>4, ReplayDetected
    <3>6. QED BY <1>2, <1>4, <2>2, <3>5
  <2>3. QED BY <2>1, <2>2
<1> HIDE DEF changes
<1> DEFINE run == lastRun + 1
<1>6. /\ DOMAIN runs' = DOMAIN runs \cup {run} /\ run \notin DOMAIN runs
      /\ runs'[run] = [job |-> job, snapshot |-> snapshot, checked_at |-> result[t].checked_at]
      /\ \A r \in DOMAIN runs : runs'[r] = runs[r] /\ r < run
  <2>1. \A r \in DOMAIN runs : r < run
    BY <1>1, <1>2
  <2>2. run \notin DOMAIN runs
    BY <1>1, <1>2
  <2>3. QED BY <1>1, <2>1, <2>2 DEF InsertsRun
<1>7. ASSUME NEW j \in Jobs
      PROVE  /\ belief'[j] = Null => \A r \in DOMAIN runs' : runs'[r].job # j
             /\ belief'[j] # Null => \E r \in Newest(j)' : runs'[r].snapshot = belief'[j]
  <2>1. CASE j = job
    <3>1. run \in Newest(j)' /\ runs'[run].snapshot = snapshot
      <4>1. runs'[run].job = j /\ runs'[run].snapshot = snapshot
        BY <1>6, <2>1
      <4>2. \A s \in DOMAIN runs' : s <= run
        BY <1>1, <1>2, <1>6
      <4>3. QED BY <1>6, <4>1, <4>2 DEF Newest
    <3>2. QED BY <1>3, <1>5, <2>1, <3>1
  <2>2. CASE j # job
    <3>1. belief'[j] = belief[j]
      BY <1>2, <1>4, <2>2
    <3>2. runs'[run].job # j
      BY <1>6, <2>2
    <3>3. ASSUME NEW r \in Newest(j) PROVE r \in Newest(j)' /\ runs'[r] = runs[r]
      BY <1>6, <3>2 DEF Newest
    <3>4. QED BY <1>6, <3>1, <3>2, <3>3 DEF Baselines
  <2>3. QED BY <2>1, <2>2
<1>8. QED BY <1>7 DEF Baselines

(* Retention keeps the newest run of every job.                            *)
LEMMA PruneBaselines ==
    ASSUME TypeInv, Baselines, Prune
    PROVE  Baselines'
<1>1. /\ DOMAIN runs' = KeptRuns /\ KeptRuns \subseteq DOMAIN runs
      /\ \A r \in KeptRuns : runs'[r] = runs[r]
      /\ belief' = belief
  BY PruneRestricts DEF history
<1>2. ASSUME NEW j \in Jobs, NEW r \in Newest(j)
      PROVE  r \in Newest(j)' /\ runs'[r] = runs[r]
  <2>1. r \in DOMAIN runs /\ runs[r].job = j
    BY DEF Newest
  <2>2. r \in KeptRuns
    BY <2>1 DEF KeptRuns
  <2>3. QED BY <1>1, <2>1, <2>2 DEF Newest
<1>3. QED BY <1>1, <1>2 DEF Baselines

LEMMA BaselinesInvariant == Spec => [](TypeInv /\ ForeignKeys /\ Baselines)
<1>1. Init => TypeInv /\ ForeignKeys /\ Baselines
  BY TypeInit DEF Init, Baselines
<1>2. TypeInv /\ ForeignKeys /\ Baselines /\ [Next]_vars => (TypeInv /\ ForeignKeys /\ Baselines)'
  <2> SUFFICES ASSUME TypeInv, ForeignKeys, Baselines, [Next]_vars
               PROVE  (TypeInv /\ ForeignKeys /\ Baselines)'
    OBVIOUS
  <2>1. (TypeInv /\ ForeignKeys)'
    BY TypeStep, ForeignKeysStep
  <2>2. ASSUME UNCHANGED <<runs, belief>> PROVE Baselines'
    BY <2>2 DEF Baselines, Newest
  <2>3. Baselines'
    BY <2>2, RecordSuccessBaselines, PruneBaselines
       DEF Next, Step, vars, store, history, Fetch, RecordUnchanged, ListPending,
           SendAccepted, SendRefused, UpdateFails, MarkDelivered, RecordFailure, Return,
           Abort, Tick
  <2>4. QED BY <2>1, <2>3
<1>3. QED BY <1>1, <1>2, PTL DEF Spec

(* However the checks of a job overlap and whatever retention deletes, the  *)
(* recorded changes lead from the baseline to the newest stored snapshot.   *)
THEOREM ChangeLogIsComplete == Spec => []ChangesExplainLatest
<1>1. Baselines => ChangesExplainLatest
  BY DEF Baselines, ChangesExplainLatest, Newest
<1>2. QED BY <1>1, BaselinesInvariant, PTL

-----------------------------------------------------------------------------
(* The outbox implements AtLeastOnce. *)

Intents == [run : 1..MaxRuns, opportunity : Opportunities, channel : Channels]

(* No promise ever made is of a run that is still to come: retention leaves *)
(* the newest run of all, so that its id is not handed out again.           *)
RunIdsAreFresh ==
    \/ DOMAIN runs = {} /\ promised = {}
    \/ \E top \in DOMAIN runs :
          /\ \A r \in DOMAIN runs : r <= top
          /\ \A i \in promised : i.run <= top

(* What is owed, and what a task may be about to send, was promised. *)
PromiseInv ==
    /\ promised \subseteq Intents
    /\ Owed \subseteq promised
    /\ \A t \in Tasks : \A p \in page[t] : p.intent \in promised
    /\ RunIdsAreFresh

RefinementInv == OutboxInv /\ ConsistentInv /\ PromiseInv

(* A notification has one row.                                             *)
LEMMA IntentHasOneRow ==
    ASSUME ConsistentInv, NEW m \in DOMAIN outbox, NEW n \in DOMAIN outbox,
           IntentOf(m) = IntentOf(n)
    PROVE  m = n
<1>1. /\ outbox[m].transition \in DOMAIN transitions
      /\ outbox[n].transition \in DOMAIN transitions
  BY DEF ConsistentInv, ForeignKeys
<1>2. /\ transitions[outbox[m].transition].run = transitions[outbox[n].transition].run
      /\ transitions[outbox[m].transition].change.opportunity
            = transitions[outbox[n].transition].change.opportunity
      /\ outbox[m].channel = outbox[n].channel
  BY DEF IntentOf
<1>3. outbox[m].transition = outbox[n].transition
  BY <1>1, <1>2 DEF ConsistentInv, ChangesAreSingle
<1>4. QED BY <1>2, <1>3 DEF ConsistentInv, RowsAreConsistent

(* Recording a check promises what its plan wants sent, and nothing twice.  *)
LEMMA RecordSuccessPromises ==
    ASSUME RefinementInv, NEW t \in Tasks, RecordSuccess(t)
    PROVE  PromiseInv' /\ \E new \in SUBSET Intents : Promises!Promise(new)
<1> DEFINE job == result[t].job
           changes == Detected(job, result[t].snapshot)
<1>0. TypeInv /\ ForeignKeys /\ PromiseInv
  BY DEF RefinementInv, ConsistentInv
<1>1. PICK lastRun \in Largest(DOMAIN runs) :
         /\ lastRun \in Nat /\ lastRun < MaxRuns
         /\ \A r \in DOMAIN runs : r <= lastRun
         /\ InsertsRun(job, result[t], lastRun + 1, changes)
         /\ promised' = promised \cup
              {[run |-> lastRun + 1, opportunity |-> a[1].opportunity, channel |-> a[2]] :
                  a \in Notified(job, changes)}
  BY <1>0, RecordSuccessInserts
<1>2. /\ job \in Jobs /\ result[t] \in Run /\ result[t].snapshot \in Snapshots
      /\ DOMAIN runs \subseteq Nat /\ MaxRuns \in Nat
  BY <1>0, ConstantsAssumption DEF RecordSuccess, TypeInv, TypeOK, ResultReady, Run
<1>3. changes \subseteq Changes
  BY <1>0, <1>2, DetectedTyped DEF TypeInv
<1>4. \A a \in Notified(job, changes) : a[1].opportunity \in Opportunities /\ a[2] \in Channels
  <2>1. PlanChannels[job] \subseteq Channels
    BY <1>2, ConstantsAssumption
  <2>2. QED BY <1>3, <2>1 DEF Notified, Changes
<1> HIDE DEF changes, job
<1>5. /\ UNCHANGED <<page, accepted>>
      /\ \A n \in DOMAIN outbox' \ DOMAIN outbox :
            \E a \in Notified(job, changes) :
               /\ outbox'[n] = [transition |-> outbox'[n].transition, channel |-> a[2],
                                delivered_at |-> Null]
               /\ transitions'[outbox'[n].transition] = [run |-> lastRun + 1, change |-> a[1]]
  <2>1. UNCHANGED <<page, accepted>>
    BY DEF RecordSuccess
  <2>2. ASSUME NEW n \in DOMAIN outbox' \ DOMAIN outbox
        PROVE  \E a \in Notified(job, changes) :
               /\ outbox'[n] = [transition |-> outbox'[n].transition, channel |-> a[2],
                                delivered_at |-> Null]
               /\ transitions'[outbox'[n].transition] = [run |-> lastRun + 1, change |-> a[1]]
    <3>1. PICK a \in Notified(job, changes) :
             /\ outbox'[n].transition \in DOMAIN transitions'
             /\ outbox'[n] = [transition |-> outbox'[n].transition, channel |-> a[2],
                              delivered_at |-> Null]
             /\ transitions'[outbox'[n].transition] = [run |-> lastRun + 1, change |-> a[1]]
      BY <1>1 DEF InsertsRun
    <3>2. QED BY <3>1
  <2>3. QED BY <2>1, <2>2
<1> DEFINE run == lastRun + 1
           intent(a) == [run |-> run, opportunity |-> a[1].opportunity, channel |-> a[2]]
           new == {intent(a) : a \in Notified(job, changes)}
<1>6. run \in 1..MaxRuns
  BY <1>1, <1>2
<1>7. new \subseteq Intents
  BY <1>4, <1>6 DEF Intents
<1>8. \A i \in new : i.run = run
  OBVIOUS
<1>9. \A i \in promised : i.run < run
  <2>1. CASE promised = {}
    BY <2>1
  <2>2. CASE promised # {}
    <3>1. PICK top \in DOMAIN runs : \A i \in promised : i.run <= top
      BY <1>0, <2>2 DEF PromiseInv, RunIdsAreFresh
    <3>2. top \in Nat /\ top <= lastRun
      BY <1>1, <1>2
    <3>3. \A i \in promised : i.run \in Int
      BY <1>0 DEF PromiseInv, Intents
    <3>4. QED BY <1>1, <3>1, <3>2, <3>3
  <2>3. QED BY <2>1, <2>2
<1>10. new \cap promised = {}
  <2>1. ASSUME NEW i \in promised, i \in new PROVE FALSE
    <3>1. i.run < run /\ i.run = run
      BY <1>8, <1>9, <2>1
    <3>2. QED BY <1>1, <3>1
  <2>2. QED BY <2>1
<1>11. promised' = promised \cup new
  BY <1>1
<1>12. ASSUME NEW n \in DOMAIN outbox
       PROVE  n \in DOMAIN outbox' /\ outbox'[n] = outbox[n] /\ IntentOf(n)' = IntentOf(n)
  BY <1>0, <1>1 DEF InsertsRun, IntentOf, ForeignKeys
<1>13. ASSUME NEW n \in DOMAIN outbox' \ DOMAIN outbox, NEW a \in Notified(job, changes),
              outbox'[n] = [transition |-> outbox'[n].transition, channel |-> a[2],
                            delivered_at |-> Null],
              transitions'[outbox'[n].transition] = [run |-> run, change |-> a[1]]
       PROVE  n \in Pending' /\ IntentOf(n)' = intent(a)
  <2>1. outbox'[n].delivered_at = Null /\ outbox'[n].channel = a[2]
    BY <1>13
  <2>2. /\ transitions'[outbox'[n].transition].run = run
        /\ transitions'[outbox'[n].transition].change = a[1]
    BY <1>13
  <2>3. QED BY <2>1, <2>2 DEF Pending, IntentOf
<1>14. Owed' = Owed \cup new
  <2>1. ASSUME NEW i \in Owed PROVE i \in Owed'
    <3>1. PICK n \in Pending : i = IntentOf(n)
      BY <2>1 DEF Owed
    <3>2. n \in Pending' /\ IntentOf(n)' = i
      BY <1>12, <3>1 DEF Pending
    <3>3. QED BY <3>2 DEF Owed
  <2>2. ASSUME NEW a \in Notified(job, changes) PROVE intent(a) \in Owed'
    <3>1. PICK n \in DOMAIN outbox' \ DOMAIN outbox :
             /\ outbox'[n] = [transition |-> outbox'[n].transition, channel |-> a[2],
                              delivered_at |-> Null]
             /\ transitions'[outbox'[n].transition] = [run |-> run, change |-> a[1]]
      BY <1>1 DEF InsertsRun
    <3> HIDE DEF intent
    <3>2. n \in Pending' /\ IntentOf(n)' = intent(a)
      BY <1>13, <3>1
    <3>3. QED BY <3>2 DEF Owed
  <2>3. ASSUME NEW n \in Pending' PROVE IntentOf(n)' \in Owed \cup new
    <3>1. CASE n \in DOMAIN outbox
      BY <1>12, <2>3, <3>1 DEF Pending, Owed
    <3>2. CASE n \notin DOMAIN outbox
      <4>1. n \in DOMAIN outbox' \ DOMAIN outbox
        BY <2>3, <3>2 DEF Pending
      <4>2. PICK a \in Notified(job, changes) :
               /\ outbox'[n] = [transition |-> outbox'[n].transition, channel |-> a[2],
                                delivered_at |-> Null]
               /\ transitions'[outbox'[n].transition] = [run |-> run, change |-> a[1]]
        BY <1>5, <4>1
      <4> HIDE DEF intent
      <4>3. IntentOf(n)' = intent(a)
        BY <1>13, <4>1, <4>2
      <4>4. QED BY <4>3
    <3>3. QED BY <3>1, <3>2
  <2>4. Owed' \subseteq Owed \cup new
    BY <2>3 DEF Owed
  <2>5. new \subseteq Owed'
    BY <2>2
  <2> HIDE DEF new
  <2>6. QED BY <2>1, <2>4, <2>5
<1> HIDE DEF new
<1>15. Promises!Promise(new)
  BY <1>5, <1>10, <1>11, <1>14 DEF Promises!Promise
<1>16. RunIdsAreFresh'
  <2>1. DOMAIN runs' = DOMAIN runs \cup {run}
    BY <1>1 DEF InsertsRun
  <2>2. \A r \in DOMAIN runs' : r <= run
    BY <1>1, <1>2, <2>1
  <2>3. \A i \in promised' : i.run <= run
    <3>1. \A i \in promised : i.run <= run
      BY <1>1, <1>9, <1>0 DEF PromiseInv, Intents
    <3>2. QED BY <1>1, <1>8, <1>11, <3>1
  <2>4. QED BY <2>1, <2>2, <2>3 DEF RunIdsAreFresh
<1>17. PromiseInv'
  <2>1. promised' \subseteq Intents'
    BY <1>0, <1>7, <1>11 DEF PromiseInv, Intents
  <2>2. Owed' \subseteq promised'
    BY <1>0, <1>11, <1>14 DEF PromiseInv
  <2>3. \A u \in Tasks : \A p \in page'[u] : p.intent \in promised'
    BY <1>0, <1>5, <1>11 DEF PromiseInv
  <2>4. QED BY <1>16, <2>1, <2>2, <2>3 DEF PromiseInv
<1>18. QED BY <1>7, <1>15, <1>17

(* Recording a delivery settles the one notification that was sent.         *)
LEMMA MarkDeliveredSettles ==
    ASSUME RefinementInv, NEW t \in Tasks, MarkDelivered(t)
    PROVE  PromiseInv' /\ \E i \in Intents : Promises!Settle(i)
<1>0. TypeInv /\ ConsistentInv /\ DispatchInv /\ PromiseInv
  BY DEF RefinementInv, OutboxInv
<1>1. PICK p \in Current(t) :
         /\ p.id \in Pending
         /\ outbox' = [outbox EXCEPT ![p.id].delivered_at = clock]
         /\ page' = [page EXCEPT ![t] = @ \ {p}]
  BY DEF MarkDelivered
<1>2. /\ UNCHANGED <<runs, transitions, promised, accepted>> /\ pc[t] = "accepted"
      /\ DOMAIN outbox' = DOMAIN outbox
  BY <1>1 DEF MarkDelivered, history
<1>3. p \in page[t] /\ p.intent \in accepted /\ IntentOf(p.id) = p.intent
      /\ p.id \in DOMAIN outbox
  BY <1>0, <1>1, <1>2 DEF DispatchInv, SentFirst, PagesValid, Current
<1>4. p.intent \in Owed /\ p.intent \in Intents
  BY <1>0, <1>1, <1>3 DEF Owed, PromiseInv
<1>5. clock # Null
  BY <1>0, ConstantsAssumption DEF TypeInv, TypeOK
<1>6. ASSUME NEW n \in DOMAIN outbox
      PROVE  /\ IntentOf(n)' = IntentOf(n)
             /\ n # p.id => outbox'[n] = outbox[n]
             /\ n = p.id => outbox'[n].delivered_at = clock
  <2>1. outbox[n] \in OutboxRow
    BY <1>0 DEF TypeInv, TypeOK
  <2>2. QED BY <1>1, <1>2, <2>1 DEF OutboxRow, IntentOf
<1>7. Owed' = Owed \ {p.intent}
  <2>1. ASSUME NEW i \in Owed, i # p.intent PROVE i \in Owed'
    <3>1. PICK n \in Pending : i = IntentOf(n)
      BY <2>1 DEF Owed
    <3>2. n # p.id /\ n \in DOMAIN outbox
      BY <1>3, <2>1, <3>1 DEF Pending
    <3>3. n \in Pending' /\ IntentOf(n)' = i
      BY <1>2, <1>6, <3>1, <3>2 DEF Pending
    <3>4. QED BY <3>3 DEF Owed
  <2>2. ASSUME NEW i \in Owed' PROVE i \in Owed /\ i # p.intent
    <3>1. PICK n \in Pending' : i = IntentOf(n)'
      BY <2>2 DEF Owed
    <3>2. n \in DOMAIN outbox /\ n # p.id
      BY <1>2, <1>5, <1>6, <3>1 DEF Pending
    <3>3. n \in Pending /\ i = IntentOf(n)
      BY <1>6, <3>1, <3>2 DEF Pending
    <3>4. IntentOf(n) # IntentOf(p.id)
      BY <1>0, <1>3, <3>2, IntentHasOneRow
    <3>5. QED BY <1>3, <3>3, <3>4 DEF Owed
  <2>3. QED BY <2>1, <2>2
<1>8. Promises!Settle(p.intent)
  BY <1>2, <1>3, <1>4, <1>7 DEF Promises!Settle
<1>9. PromiseInv'
  <2>1. \A u \in Tasks : page'[u] \subseteq page[u]
    BY <1>0, <1>1 DEF TypeInv, TypeOK
  <2>2. QED BY <1>0, <1>2, <1>7, <2>1 DEF PromiseInv, RunIdsAreFresh, Intents
<1>10. QED BY <1>4, <1>8, <1>9

(* Retention settles nothing.                                              *)
LEMMA PruneStutters ==
    ASSUME RefinementInv, Prune
    PROVE  PromiseInv' /\ UNCHANGED <<promised, Owed, accepted>>
<1>0. ForeignKeys /\ TypeInv /\ PromiseInv
  BY DEF RefinementInv, ConsistentInv
<1>1. /\ DOMAIN runs' = KeptRuns /\ KeptRuns \subseteq DOMAIN runs
      /\ \A r \in KeptRuns : runs'[r] = runs[r]
      /\ \A n \in DOMAIN transitions' :
            n \in DOMAIN transitions /\ transitions'[n] = transitions[n]
      /\ \A n \in DOMAIN outbox' :
            /\ n \in DOMAIN outbox /\ outbox'[n] = outbox[n]
            /\ outbox[n].transition \in DOMAIN transitions'
      /\ \A n \in DOMAIN transitions :
            transitions[n].run \in KeptRuns => n \in DOMAIN transitions'
      /\ \A n \in Pending :
            outbox[n].transition \in DOMAIN transitions' => n \in DOMAIN outbox'
      /\ UNCHANGED <<page, promised, accepted>>
  BY PruneRestricts DEF task, history
<1>2. ASSUME NEW n \in DOMAIN outbox'
      PROVE  outbox'[n] = outbox[n] /\ n \in DOMAIN outbox /\ IntentOf(n)' = IntentOf(n)
  BY <1>1 DEF IntentOf
<1>3. Pending' = Pending
  <2>1. ASSUME NEW n \in Pending PROVE n \in Pending'
    <3>1. outbox[n].transition \in DOMAIN transitions
      BY <1>0 DEF ForeignKeys, Pending
    <3>2. transitions[outbox[n].transition].run \in KeptRuns
      BY <1>0, <3>1 DEF KeptRuns, ForeignKeys
    <3>3. n \in DOMAIN outbox'
      BY <1>1, <3>1, <3>2
    <3>4. QED BY <1>1, <3>3 DEF Pending
  <2>2. ASSUME NEW n \in Pending' PROVE n \in Pending
    BY <1>1, <2>2 DEF Pending
  <2>3. QED BY <2>1, <2>2
<1>4. Owed' = Owed
  <2>1. \A n \in Pending : n \in DOMAIN outbox'
    BY <1>3 DEF Pending
  <2>2. \A n \in Pending : IntentOf(n)' = IntentOf(n)
    BY <1>2, <2>1
  <2>3. QED BY <1>3, <2>2 DEF Owed
<1>5. RunIdsAreFresh'
  <2>1. CASE DOMAIN runs = {} /\ promised = {}
    BY <1>1, <2>1 DEF RunIdsAreFresh
  <2>2. CASE ~(DOMAIN runs = {} /\ promised = {})
    <3>1. PICK top \in DOMAIN runs :
             /\ \A r \in DOMAIN runs : r <= top
             /\ \A i \in promised : i.run <= top
      BY <1>0, <2>2 DEF PromiseInv, RunIdsAreFresh
    <3>2. top \in KeptRuns
      BY <3>1 DEF KeptRuns, Newest
    <3>3. QED BY <1>1, <3>1, <3>2 DEF RunIdsAreFresh
  <2>3. QED BY <2>1, <2>2
<1>6. QED BY <1>0, <1>1, <1>4, <1>5 DEF PromiseInv, Intents

(* Every step promises, accepts, settles or does none of them.              *)
LEMMA StepRefines ==
    ASSUME RefinementInv, [Next]_vars
    PROVE  PromiseInv' /\ [Promises!Next]_Promises!vars
<1>0. TypeInv /\ PromiseInv
  BY DEF RefinementInv, ConsistentInv
<1>1. ASSUME NEW t \in Tasks, RecordSuccess(t) PROVE PromiseInv' /\ Promises!Next
  BY <1>1, RecordSuccessPromises DEF Promises!Next, Intents
<1>2. ASSUME NEW t \in Tasks, MarkDelivered(t) PROVE PromiseInv' /\ Promises!Next
  BY <1>2, MarkDeliveredSettles DEF Promises!Next, Intents
<1>3. ASSUME NEW t \in Tasks, NEW c \in Channels, SendAccepted(t, c)
      PROVE  PromiseInv' /\ Promises!Next
  <2>1. PICK p \in Current(t) : accepted' = accepted \cup {p.intent}
    BY <1>3 DEF SendAccepted
  <2>2. p.intent \in promised /\ p.intent \in Intents
    BY <1>0 DEF Current, PromiseInv
  <2>3. UNCHANGED <<store, page, promised>>
    BY <1>3 DEF SendAccepted
  <2>4. Owed' = Owed
    BY <2>3 DEF store, Owed, Pending, IntentOf
  <2>5. Promises!Accept(p.intent)
    BY <2>1, <2>2, <2>3, <2>4 DEF Promises!Accept
  <2>6. PromiseInv'
    BY <1>0, <2>3, <2>4 DEF PromiseInv, RunIdsAreFresh, Intents, store
  <2>7. QED BY <2>2, <2>5, <2>6 DEF Promises!Next, Intents
<1>4. ASSUME Prune PROVE PromiseInv' /\ UNCHANGED Promises!vars
  BY <1>4, PruneStutters DEF Promises!vars
<1>5. ASSUME UNCHANGED <<store, promised, accepted>>,
             \A u \in Tasks : \A p \in page'[u] : p \in page[u] \/ p.intent \in Owed
      PROVE  PromiseInv' /\ UNCHANGED Promises!vars
  <2>1. Owed' = Owed
    BY <1>5 DEF store, Owed, Pending, IntentOf
  <2>2. PromiseInv'
    BY <1>0, <1>5, <2>1 DEF PromiseInv, RunIdsAreFresh, Intents, store
  <2>3. QED BY <1>5, <2>1, <2>2 DEF Promises!vars
<1>6. ASSUME NEW t \in Tasks, ListPending(t) PROVE PromiseInv' /\ UNCHANGED Promises!vars
  <2> DEFINE first == {m \in Pending : Cardinality({k \in Pending : k < m}) < Limit}
             listed == {[id |-> n, intent |-> IntentOf(n)] : n \in first}
  <2>1. page' = [page EXCEPT ![t] = listed] /\ UNCHANGED <<store, promised, accepted>>
    BY <1>6 DEF ListPending, history
  <2>2. \A p \in listed : p.intent \in Owed
    <3>1. first \subseteq Pending
      OBVIOUS
    <3> HIDE DEF first
    <3>2. QED BY <3>1 DEF Owed
  <2> HIDE DEF listed
  <2>3. \A u \in Tasks : page'[u] = IF u = t THEN listed ELSE page[u]
    BY <1>0, <2>1 DEF TypeInv, TypeOK
  <2>4. QED BY <1>5, <2>1, <2>2, <2>3
<1>7. ASSUME NEW t \in Tasks, UpdateFails(t) \/ RecordFailure(t) \/ Abort(t)
      PROVE  PromiseInv' /\ UNCHANGED Promises!vars
  <2>1. UNCHANGED <<store, promised, accepted>>
    BY <1>7 DEF UpdateFails, RecordFailure, Abort, history
  <2>2. \A u \in Tasks : page'[u] \subseteq page[u]
    BY <1>0, <1>7 DEF UpdateFails, RecordFailure, Abort, TypeInv, TypeOK
  <2>3. QED BY <1>5, <2>1, <2>2
<1>8. ASSUME UNCHANGED <<store, page, history>> PROVE PromiseInv' /\ UNCHANGED Promises!vars
  BY <1>5, <1>8 DEF history
<1>9. QED
  BY <1>1, <1>2, <1>3, <1>4, <1>6, <1>7, <1>8
     DEF Next, Step, vars, task, Fetch, RecordUnchanged, SendRefused, Return, Tick

(* The outbox implements at-least-once delivery: what was promised stays    *)
(* owed until the row is marked, and it is marked only after a channel took *)
(* the message, as long as retention does not cascade over a page in work.  *)
THEOREM ImplementsAtLeastOnce == UncascadedSpec => AtLeastOnceDelivery
<1>1. Init => Promises!Init /\ PromiseInv
  BY DEF Init, Promises!Init, PromiseInv, RunIdsAreFresh, Owed, Pending
<1>2. RefinementInv /\ [Next]_vars => PromiseInv' /\ [Promises!Next]_Promises!vars
  BY StepRefines
<1>3. UncascadedSpec => []OutboxInv /\ []ConsistentInv /\ [][Next]_vars
  <2>1. UncascadedSpec => Spec
    BY UncascadedStep, PTL DEF UncascadedSpec, Spec
  <2>2. QED BY <2>1, OutboxInvariant, ConsistentInvariant, PTL DEF Spec
<1>4. OutboxInv /\ ConsistentInv /\ PromiseInv => RefinementInv
  BY DEF RefinementInv
<1>5. QED
  BY <1>1, <1>2, <1>3, <1>4, PTL DEF UncascadedSpec, Promises!Spec, AtLeastOnceDelivery

=============================================================================
