------------------------ MODULE DurableOutbox_proofs ------------------------
(***************************************************************************)
(* Proofs about DurableOutbox, for any jobs, tasks, channels, plans, page  *)
(* size, retention ages and bounds.                                        *)
(***************************************************************************)
EXTENDS DurableOutbox, TLAPS

-----------------------------------------------------------------------------
(* The comparison of snapshots. *)

(* Comparing two snapshots gives well-formed changes.                      *)
LEMMA DetectedChanges ==
    ASSUME NEW s \in Snapshots, NEW u \in Snapshots
    PROVE  /\ DetectTransitions(s, u) \subseteq Changes
           /\ DetectInitialTransitions(u) \subseteq Changes
<1>1. ASSUME NEW old \in Availability \cup {Absent}, NEW new \in Availability \cup {Absent}
      PROVE  TransitionType(old, new) \in TransitionTypes
  BY DEF TransitionType, TransitionTypes, AvailabilityTransition, Availability, Absent
<1>2. \A o \in Opportunities : s[o] \in Availability \cup {Absent}
                            /\ u[o] \in Availability \cup {Absent}
  BY DEF Snapshots
<1>3. ASSUME NEW c \in DetectTransitions(s, u) PROVE c \in Changes
  <2>1. PICK o \in Opportunities :
           c = [opportunity |-> o, type |-> TransitionType(s[o], u[o]),
                previous |-> s[o], current |-> u[o]]
    BY DEF DetectTransitions
  <2>2. TransitionType(s[o], u[o]) \in TransitionTypes
    BY <1>1, <1>2
  <2>3. QED BY <1>2, <2>1, <2>2 DEF Changes
<1>4. DetectInitialTransitions(u) \subseteq Changes
  BY <1>2 DEF DetectInitialTransitions, Changes, TransitionTypes
<1>5. QED BY <1>3, <1>4

(* Replaying well-formed changes on a snapshot gives a snapshot.           *)
LEMMA ReplayedSnapshot ==
    ASSUME NEW s \in Snapshots, NEW C \in SUBSET Changes
    PROVE  Replay(s, C) \in Snapshots
<1>1. \A c \in C : c.current \in Availability \cup {Absent}
  BY DEF Changes
<1>2. \A o \in Opportunities : (\E c \in C : c.opportunity = o) =>
          (CHOOSE c \in C : c.opportunity = o) \in C
  OBVIOUS
<1>3. QED BY <1>1, <1>2 DEF Replay, Snapshots

-----------------------------------------------------------------------------
(* Inserting a batch of rows under fresh ids. *)

(* The largest id of a table is a number no id exceeds.                    *)
LEMMA LargestBounds ==
    ASSUME NEW ids \in SUBSET Nat, NEW top \in Largest(ids)
    PROVE  top \in Nat /\ \A n \in ids : n <= top
BY DEF Largest

(* A batch insert keeps every old row and adds each new row under an id of *)
(* its own, which no row had before.                                       *)
LEMMA InsertedRows ==
    ASSUME NEW table, DOMAIN table \subseteq Nat,
           NEW top \in Largest(DOMAIN table),
           NEW rows, NEW number \in Numbering(rows, top),
           NEW row, DOMAIN row = rows
    PROVE  /\ DOMAIN Inserted(table, number, row) \subseteq Nat
           /\ \A n \in DOMAIN table :
                 n \in DOMAIN Inserted(table, number, row)
                 /\ Inserted(table, number, row)[n] = table[n]
           /\ \A x \in rows :
                 /\ number[x] \in DOMAIN Inserted(table, number, row)
                 /\ number[x] \notin DOMAIN table
                 /\ Inserted(table, number, row)[number[x]] = row[x]
           /\ \A n \in DOMAIN Inserted(table, number, row) :
                 n \in DOMAIN table \/ \E x \in rows : n = number[x]
           /\ \A x, y \in rows : number[x] = number[y] => x = y
<1> DEFINE new == Inserted(table, number, row)
<1>1. top \in Nat /\ \A n \in DOMAIN table : n <= top
  BY LargestBounds
<1>2. \A x, y \in rows : number[x] = number[y] => x = y
  BY DEF Numbering
<1>3. \A x \in rows : number[x] \in (top + 1)..(top + Cardinality(rows))
  BY DEF Numbering
<1>4. \A x \in rows : number[x] \in Nat /\ number[x] > top
  BY <1>1, <1>3
<1>5. \A x \in rows : number[x] \notin DOMAIN table
  BY <1>1, <1>4
<1>6. DOMAIN new = DOMAIN table \cup {number[x] : x \in rows}
  BY DEF Inserted
<1>7. \A n \in DOMAIN table : new[n] = table[n]
  BY DEF Inserted
<1>8. ASSUME NEW x \in rows PROVE new[number[x]] = row[x]
  <2>1. new[number[x]] = row[CHOOSE y \in rows : number[y] = number[x]]
    BY <1>5 DEF Inserted
  <2>2. (CHOOSE y \in rows : number[y] = number[x]) = x
    BY <1>2
  <2>3. QED BY <2>1, <2>2
<1>9. QED BY <1>2, <1>4, <1>5, <1>6, <1>7, <1>8

(* What a transaction of record_success inserts, spelled out: one run under *)
(* a fresh id, one row per change and one per change and channel, each      *)
(* under a fresh id, and every earlier row untouched.                       *)
InsertsRun(job, found, run, changes) ==
    /\ runs' = [r \in DOMAIN runs \cup {run} |->
                  IF r = run THEN [job |-> job, snapshot |-> found.snapshot,
                                   checked_at |-> found.checked_at]
                  ELSE runs[r]]
    /\ DOMAIN transitions' \subseteq Nat /\ DOMAIN outbox' \subseteq Nat
    /\ \A n \in DOMAIN transitions :
          n \in DOMAIN transitions' /\ transitions'[n] = transitions[n]
    /\ \A n \in DOMAIN outbox : n \in DOMAIN outbox' /\ outbox'[n] = outbox[n]
    /\ \A n \in DOMAIN transitions' \ DOMAIN transitions :
          \E c \in changes : transitions'[n] = [run |-> run, change |-> c]
    /\ \A n \in DOMAIN outbox' \ DOMAIN outbox :
          \E a \in Notified(job, changes) :
             /\ outbox'[n].transition \in DOMAIN transitions'
             /\ outbox'[n] = [transition |-> outbox'[n].transition, channel |-> a[2],
                              delivered_at |-> Null]
             /\ transitions'[outbox'[n].transition] = [run |-> run, change |-> a[1]]
    /\ \A a \in Notified(job, changes) :
          \E n \in DOMAIN outbox' \ DOMAIN outbox :
             /\ outbox'[n].transition \in DOMAIN transitions'
             /\ outbox'[n] = [transition |-> outbox'[n].transition, channel |-> a[2],
                              delivered_at |-> Null]
             /\ transitions'[outbox'[n].transition] = [run |-> run, change |-> a[1]]
    /\ outbox' = [n \in DOMAIN outbox' |-> outbox'[n]]
    /\ transitions' = [n \in DOMAIN transitions' |-> transitions'[n]]
    /\ \A m, n \in DOMAIN transitions' \ DOMAIN transitions :
          transitions'[m] = transitions'[n] => m = n
    /\ \A n \in DOMAIN outbox' \ DOMAIN outbox : outbox'[n].transition \notin DOMAIN transitions
    /\ \A m, n \in DOMAIN outbox' \ DOMAIN outbox :
          (/\ outbox'[m].transition = outbox'[n].transition
           /\ outbox'[m].channel = outbox'[n].channel) => m = n

LEMMA InsertRunInserts ==
    ASSUME NEW job, NEW found, NEW run, NEW changes,
           DOMAIN transitions \subseteq Nat, DOMAIN outbox \subseteq Nat,
           InsertRun(job, found, run, changes)
    PROVE  InsertsRun(job, found, run, changes)
<1> DEFINE noted == Notified(job, changes)
<1>1. PICK lastTransition \in Largest(DOMAIN transitions),
           lastNotification \in Largest(DOMAIN outbox) :
      \E transition \in Numbering(changes, lastTransition),
         notification \in Numbering(noted, lastNotification) :
         /\ runs' = [r \in DOMAIN runs \cup {run} |->
                      IF r = run THEN [job |-> job, snapshot |-> found.snapshot,
                                       checked_at |-> found.checked_at]
                      ELSE runs[r]]
         /\ transitions' = Inserted(transitions, transition,
                             [c \in changes |-> [run |-> run, change |-> c]])
         /\ outbox' = Inserted(outbox, notification,
                        [a \in noted |-> [transition |-> transition[a[1]],
                                          channel |-> a[2], delivered_at |-> Null]])
  BY DEF InsertRun
<1>2. PICK transition \in Numbering(changes, lastTransition),
           notification \in Numbering(noted, lastNotification) :
         /\ runs' = [r \in DOMAIN runs \cup {run} |->
                      IF r = run THEN [job |-> job, snapshot |-> found.snapshot,
                                       checked_at |-> found.checked_at]
                      ELSE runs[r]]
         /\ transitions' = Inserted(transitions, transition,
                             [c \in changes |-> [run |-> run, change |-> c]])
         /\ outbox' = Inserted(outbox, notification,
                        [a \in noted |-> [transition |-> transition[a[1]],
                                          channel |-> a[2], delivered_at |-> Null]])
  BY <1>1
<1> DEFINE tr == [c \in changes |-> [run |-> run, change |-> c]]
           no == [a \in noted |-> [transition |-> transition[a[1]],
                                   channel |-> a[2], delivered_at |-> Null]]
<1>3. /\ DOMAIN transitions' \subseteq Nat
      /\ \A n \in DOMAIN transitions :
            n \in DOMAIN transitions' /\ transitions'[n] = transitions[n]
      /\ \A x \in changes : /\ transition[x] \in DOMAIN transitions'
                            /\ transition[x] \notin DOMAIN transitions
                            /\ transitions'[transition[x]] = tr[x]
      /\ \A n \in DOMAIN transitions' :
            n \in DOMAIN transitions \/ \E x \in changes : n = transition[x]
  <2>1. DOMAIN tr = changes OBVIOUS
  <2>2. transitions' = Inserted(transitions, transition, tr) BY <1>2
  <2> HIDE DEF tr
  <2>3. QED BY <2>1, <2>2, InsertedRows
<1>4. /\ DOMAIN outbox' \subseteq Nat
      /\ \A n \in DOMAIN outbox : n \in DOMAIN outbox' /\ outbox'[n] = outbox[n]
      /\ \A x \in noted : /\ notification[x] \in DOMAIN outbox'
                          /\ notification[x] \notin DOMAIN outbox
                          /\ outbox'[notification[x]] = no[x]
      /\ \A n \in DOMAIN outbox' :
            n \in DOMAIN outbox \/ \E x \in noted : n = notification[x]
  <2>1. DOMAIN no = noted OBVIOUS
  <2>2. outbox' = Inserted(outbox, notification, no) BY <1>2
  <2> HIDE DEF no, noted
  <2>3. QED BY <2>1, <2>2, InsertedRows
<1>5. \A a \in noted : a[1] \in changes
  BY DEF Notified
<1>6. ASSUME NEW a \in noted
      PROVE  /\ outbox'[notification[a]] = [transition |-> transition[a[1]],
                                            channel |-> a[2], delivered_at |-> Null]
             /\ transition[a[1]] \in DOMAIN transitions'
             /\ transitions'[transition[a[1]]] = [run |-> run, change |-> a[1]]
             /\ outbox'[notification[a]].transition = transition[a[1]]
             /\ outbox'[notification[a]].channel = a[2]
  <2>1. outbox'[notification[a]] = [transition |-> transition[a[1]],
                                    channel |-> a[2], delivered_at |-> Null]
    BY <1>4
  <2>2. /\ transition[a[1]] \in DOMAIN transitions'
        /\ transitions'[transition[a[1]]] = [run |-> run, change |-> a[1]]
    BY <1>3, <1>5
  <2>3. QED BY <2>1, <2>2
<1>7. ASSUME NEW n \in DOMAIN transitions' \ DOMAIN transitions
      PROVE  \E c \in changes : transitions'[n] = [run |-> run, change |-> c]
  <2>1. PICK c \in changes : n = transition[c]
    BY <1>3
  <2>2. transitions'[n] = [run |-> run, change |-> c]
    BY <1>3, <2>1
  <2>3. QED BY <2>2
<1>8. /\ outbox' = [n \in DOMAIN outbox' |-> outbox'[n]]
      /\ transitions' = [n \in DOMAIN transitions' |-> transitions'[n]]
  BY <1>2 DEF Inserted
<1>9. \A x \in changes : transitions'[transition[x]] = [run |-> run, change |-> x]
  BY <1>3
<1>10. /\ \A n \in DOMAIN transitions' \ DOMAIN transitions : \E x \in changes : n = transition[x]
       /\ \A n \in DOMAIN outbox' \ DOMAIN outbox : \E a \in noted : n = notification[a]
  BY <1>3, <1>4
<1> HIDE DEF tr, no, noted
<1>11. ASSUME NEW m \in DOMAIN transitions' \ DOMAIN transitions,
              NEW n \in DOMAIN transitions' \ DOMAIN transitions,
              transitions'[m] = transitions'[n]
       PROVE  m = n
  <2>1. PICK x \in changes : m = transition[x]
    BY <1>10
  <2>2. PICK y \in changes : n = transition[y]
    BY <1>10
  <2>3. [run |-> run, change |-> x] = [run |-> run, change |-> y]
    BY <1>9, <1>11, <2>1, <2>2
  <2>4. [run |-> run, change |-> x].change = [run |-> run, change |-> y].change
    BY <2>3
  <2>5. QED BY <2>1, <2>2, <2>4
<1>12. ASSUME NEW m \in DOMAIN outbox' \ DOMAIN outbox,
              NEW n \in DOMAIN outbox' \ DOMAIN outbox,
              outbox'[m].transition = outbox'[n].transition,
              outbox'[m].channel = outbox'[n].channel
       PROVE  m = n
  <2>1. PICK a \in noted : m = notification[a]
    BY <1>10
  <2>2. PICK b \in noted : n = notification[b]
    BY <1>10
  <2>3. /\ outbox'[m].transition = transition[a[1]] /\ outbox'[m].channel = a[2]
        /\ outbox'[n].transition = transition[b[1]] /\ outbox'[n].channel = b[2]
    BY <1>6, <2>1, <2>2
  <2>4. a[1] = b[1]
    BY <1>2, <1>5, <1>12, <2>3 DEF Numbering
  <2>5. a = <<a[1], a[2]>> /\ b = <<b[1], b[2]>>
    BY DEF noted, Notified
  <2>6. a = b
    BY <1>12, <2>3, <2>4, <2>5
  <2>7. QED BY <2>1, <2>2, <2>6
<1>13. ASSUME NEW n \in DOMAIN outbox' \ DOMAIN outbox
       PROVE  outbox'[n].transition \notin DOMAIN transitions
  <2>1. PICK a \in noted : n = notification[a]
    BY <1>10
  <2>2. QED BY <1>3, <1>5, <1>6, <2>1
<1>14. ASSUME NEW a \in noted
       PROVE  /\ notification[a] \in DOMAIN outbox' \ DOMAIN outbox
              /\ outbox'[notification[a]].transition \in DOMAIN transitions'
              /\ outbox'[notification[a]] =
                    [transition |-> outbox'[notification[a]].transition,
                     channel |-> a[2], delivered_at |-> Null]
              /\ transitions'[outbox'[notification[a]].transition] =
                    [run |-> run, change |-> a[1]]
  BY <1>4, <1>6
<1>15. ASSUME NEW n \in DOMAIN outbox' \ DOMAIN outbox
       PROVE  \E a \in noted :
                /\ outbox'[n].transition \in DOMAIN transitions'
                /\ outbox'[n] = [transition |-> outbox'[n].transition, channel |-> a[2],
                                 delivered_at |-> Null]
                /\ transitions'[outbox'[n].transition] = [run |-> run, change |-> a[1]]
  <2>1. PICK a \in noted : n = notification[a]
    BY <1>10
  <2>2. QED BY <1>14, <2>1
<1>16. \A a \in noted :
          \E n \in DOMAIN outbox' \ DOMAIN outbox :
             /\ outbox'[n].transition \in DOMAIN transitions'
             /\ outbox'[n] = [transition |-> outbox'[n].transition, channel |-> a[2],
                              delivered_at |-> Null]
             /\ transitions'[outbox'[n].transition] = [run |-> run, change |-> a[1]]
  BY <1>14
<1>17. runs' = [r \in DOMAIN runs \cup {run} |->
                  IF r = run THEN [job |-> job, snapshot |-> found.snapshot,
                                   checked_at |-> found.checked_at]
                  ELSE runs[r]]
  BY <1>2
<1>18. QED
  BY <1>3, <1>4, <1>7, <1>8, <1>11, <1>12, <1>13, <1>15, <1>16, <1>17 DEF InsertsRun, noted

-----------------------------------------------------------------------------
(* Type correctness.  A fetched task holds a result: without this conjunct *)
(* the shape of the run it inserts would not follow.                       *)
ResultReady == \A t \in Tasks : pc[t] = "fetched" => result[t] # Null

TypeInv == TypeOK /\ ResultReady

(* The steps that leave the tables and the history variables alone.        *)
LEMMA LocalStepsTyped ==
    ASSUME TypeInv, NEW t \in Tasks, UNCHANGED <<store, clock, history>>,
           NEW q \in Locations \ {"fetched"}, pc' = [pc EXCEPT ![t] = q],
           result' = result \/ result' = [result EXCEPT ![t] = Null],
           page' \in [Tasks -> SUBSET [id : Nat, intent : Intent]]
    PROVE  TypeInv'
<1>1. TypeOK'
  <2>1. pc' \in [Tasks -> Locations]
    BY DEF TypeInv, TypeOK
  <2>2. result' \in [Tasks -> Run \cup {Null}]
    BY DEF TypeInv, TypeOK
  <2>3. QED BY <2>1, <2>2 DEF TypeInv, TypeOK, store, history
<1>2. ResultReady'
  <2>1. ASSUME NEW u \in Tasks, pc'[u] = "fetched"
        PROVE  u # t /\ pc[u] = "fetched" /\ result'[u] = result[u]
    BY <2>1 DEF TypeInv, TypeOK
  <2>2. QED BY <2>1 DEF TypeInv, ResultReady
<1>3. QED BY <1>1, <1>2 DEF TypeInv

(* The changes a check detects are well formed.                            *)
LEMMA DetectedTyped ==
    ASSUME TypeOK, NEW job \in Jobs, NEW snapshot \in Snapshots
    PROVE  Detected(job, snapshot) \subseteq Changes
<1>1. DetectInitialTransitions(snapshot) \subseteq Changes
  BY DetectedChanges
<1>2. \A r \in Newest(job) : runs[r].snapshot \in Snapshots
  BY DEF TypeOK, Newest, Run
<1>3. \A r \in Newest(job) : DetectTransitions(runs[r].snapshot, snapshot) \subseteq Changes
  BY <1>2, DetectedChanges
<1>4. UNION {DetectTransitions(runs[r].snapshot, snapshot) : r \in Newest(job)}
         \subseteq Changes
  BY <1>3
<1>5. QED BY <1>1, <1>4 DEF Detected

(* Recording a successful check keeps the tables well typed.               *)
LEMMA RecordSuccessTyped ==
    ASSUME TypeInv, NEW t \in Tasks, RecordSuccess(t)
    PROVE  TypeInv'
<1> DEFINE job == result[t].job
           changes == Detected(job, result[t].snapshot)
<1>1. pc[t] = "fetched" /\ result[t] # Null
  BY DEF RecordSuccess, TypeInv, ResultReady
<1>2. result[t] \in Run /\ job \in Jobs /\ result[t].snapshot \in Snapshots
  BY <1>1 DEF TypeInv, TypeOK, Run
<1>3. changes \subseteq Changes
  BY <1>1, <1>2, DetectedTyped DEF TypeInv
<1>4. Notified(job, changes) \subseteq Changes \X Channels
  <2>1. PlanChannels[job] \subseteq Channels
    BY <1>2, ConstantsAssumption
  <2>2. QED BY <1>3, <2>1 DEF Notified
<1>5. DOMAIN runs \subseteq Nat /\ DOMAIN transitions \subseteq Nat /\ DOMAIN outbox \subseteq Nat
  BY DEF TypeInv, TypeOK
<1> HIDE DEF changes, job
<1>6. PICK lastRun \in Largest(DOMAIN runs) :
         /\ InsertRun(job, result[t], lastRun + 1, changes)
         /\ promised' = promised \cup
              {[run |-> lastRun + 1, opportunity |-> a[1].opportunity, channel |-> a[2]] :
                  a \in Notified(job, changes)}
  BY DEF RecordSuccess, job, changes
<1>7. lastRun \in Nat
  BY <1>5, LargestBounds
<1>8. InsertsRun(job, result[t], lastRun + 1, changes)
  BY <1>5, <1>6, InsertRunInserts
<1>9. DOMAIN runs' \subseteq Nat /\ runs' \in [DOMAIN runs' -> Run]
  <2>1. \A r \in DOMAIN runs : runs[r] \in Run
    BY DEF TypeInv, TypeOK
  <2>2. [job |-> job, snapshot |-> result[t].snapshot, checked_at |-> result[t].checked_at] \in Run
    BY <1>1, <1>2 DEF Run
  <2>3. QED BY <1>5, <1>7, <1>8, <2>1, <2>2 DEF InsertsRun
<1>10. DOMAIN transitions' \subseteq Nat /\ transitions' \in [DOMAIN transitions' -> Transition]
  <2>1. ASSUME NEW n \in DOMAIN transitions' PROVE transitions'[n] \in Transition
    <3>1. CASE n \in DOMAIN transitions
      BY <1>8, <3>1 DEF InsertsRun, TypeInv, TypeOK
    <3>2. CASE n \notin DOMAIN transitions
      <4>1. PICK c \in changes : transitions'[n] = [run |-> lastRun + 1, change |-> c]
        BY <1>8, <3>2 DEF InsertsRun
      <4>2. QED BY <1>3, <1>7, <4>1 DEF Transition
    <3>3. QED BY <3>1, <3>2
  <2>2. QED BY <1>8, <2>1 DEF InsertsRun
<1>11. DOMAIN outbox' \subseteq Nat /\ outbox' \in [DOMAIN outbox' -> OutboxRow]
  <2>1. ASSUME NEW n \in DOMAIN outbox' PROVE outbox'[n] \in OutboxRow
    <3>1. CASE n \in DOMAIN outbox
      BY <1>8, <3>1 DEF InsertsRun, TypeInv, TypeOK
    <3>2. CASE n \notin DOMAIN outbox
      <4>1. PICK a \in Notified(job, changes) :
               /\ outbox'[n].transition \in DOMAIN transitions'
               /\ outbox'[n] = [transition |-> outbox'[n].transition, channel |-> a[2],
                                delivered_at |-> Null]
               /\ transitions'[outbox'[n].transition] =
                     [run |-> lastRun + 1, change |-> a[1]]
        BY <1>8, <3>2 DEF InsertsRun
      <4>2. a[2] \in Channels /\ outbox'[n].transition \in Nat
        BY <1>4, <1>10, <4>1
      <4>3. QED BY <4>1, <4>2 DEF OutboxRow
    <3>3. QED BY <3>1, <3>2
  <2>2. QED BY <1>8, <2>1 DEF InsertsRun
<1>12. promised' \subseteq Intent
  <2>1. \A a \in Notified(job, changes) :
           [run |-> lastRun + 1, opportunity |-> a[1].opportunity, channel |-> a[2]] \in Intent
    BY <1>4, <1>7 DEF Intent, Changes
  <2>2. QED BY <1>6, <2>1 DEF TypeInv, TypeOK
<1>13. belief' \in [Jobs -> Snapshots \cup {Null}]
  <2>1. ASSUME NEW b \in Snapshots \cup {Null}
        PROVE  (IF b = Null THEN result[t].snapshot ELSE Replay(b, changes))
                   \in Snapshots \cup {Null}
    BY <1>2, <1>3, ReplayedSnapshot
  <2>2. belief' = [belief EXCEPT ![job] =
                     IF @ = Null THEN result[t].snapshot ELSE Replay(@, changes)]
    BY DEF RecordSuccess, job, changes
  <2>3. QED BY <1>1, <2>1, <2>2 DEF TypeInv, TypeOK
<1>14. /\ pc' = [pc EXCEPT ![t] = "recorded"]
       /\ result' = [result EXCEPT ![t] = Null]
       /\ UNCHANGED <<page, clock, accepted, resent>>
  BY DEF RecordSuccess
<1>15. /\ pc' \in [Tasks -> Locations]
       /\ result' \in [Tasks -> Run \cup {Null}]
  BY <1>14 DEF TypeInv, TypeOK, Locations
<1>16. TypeOK'
  BY <1>9, <1>10, <1>11, <1>12, <1>13, <1>14, <1>15 DEF TypeInv, TypeOK
<1>17. ResultReady'
  BY <1>14 DEF TypeInv, TypeOK, ResultReady
<1>18. QED BY <1>16, <1>17 DEF TypeInv

(* A listed page holds ids and intents of existing rows.                   *)
LEMMA IntentOfTyped ==
    ASSUME TypeOK, NEW n \in DOMAIN outbox, outbox[n].transition \in DOMAIN transitions
    PROVE  IntentOf(n) \in Intent
BY DEF TypeOK, OutboxRow, Transition, Changes, IntentOf, Intent

(* The foreign keys of the schema, without the UNIQUE constraint.          *)
ForeignKeys ==
    /\ \A n \in DOMAIN transitions : transitions[n].run \in DOMAIN runs
    /\ \A n \in DOMAIN outbox : outbox[n].transition \in DOMAIN transitions

LEMMA TypeStep == TypeInv /\ ForeignKeys /\ [Next]_vars => TypeInv'
<1> SUFFICES ASSUME TypeInv, ForeignKeys, [Next]_vars PROVE TypeInv'
  OBVIOUS
<1>0. TypeOK /\ ResultReady
  BY DEF TypeInv
<1> DEFINE Pages == [Tasks -> SUBSET [id : Nat, intent : Intent]]
<1>1. ASSUME NEW t \in Tasks, Fetch(t) PROVE TypeInv'
  <2>1. PICK job \in JobsOf[t], snapshot \in Observable :
           result' = [result EXCEPT ![t] =
                         [job |-> job, snapshot |-> snapshot, checked_at |-> clock]]
    BY <1>1 DEF Fetch
  <2>2. [job |-> job, snapshot |-> snapshot, checked_at |-> clock] \in Run
    BY <1>0, ConstantsAssumption DEF TypeOK, Run
  <2>3. [job |-> job, snapshot |-> snapshot, checked_at |-> clock] # Null
    BY <2>2, ConstantsAssumption DEF Run
  <2>4. result' \in [Tasks -> Run \cup {Null}]
    BY <1>0, <2>1, <2>2 DEF TypeOK
  <2>5. pc' \in [Tasks -> Locations]
    BY <1>0, <1>1 DEF Fetch, TypeOK, Locations
  <2>6. TypeOK'
    BY <1>0, <1>1, <2>4, <2>5 DEF Fetch, TypeOK, store, history
  <2>7. ASSUME NEW u \in Tasks, pc'[u] = "fetched" PROVE result'[u] # Null
    <3>1. CASE u = t
      BY <1>0, <2>1, <2>3, <3>1 DEF TypeOK
    <3>2. CASE u # t
      BY <1>0, <1>1, <2>1, <2>7, <3>2 DEF Fetch, TypeOK, ResultReady
    <3>3. QED BY <3>1, <3>2
  <2>8. QED BY <2>6, <2>7 DEF TypeInv, ResultReady
<1>2. ASSUME NEW t \in Tasks, RecordSuccess(t) PROVE TypeInv'
  BY <1>2, RecordSuccessTyped
<1>3. ASSUME NEW t \in Tasks, RecordUnchanged(t) PROVE TypeInv'
  <2>1. page' \in Pages
    BY <1>0, <1>3 DEF RecordUnchanged, TypeOK
  <2>2. QED BY <1>3, <2>1, LocalStepsTyped DEF RecordUnchanged, Locations
<1>4. ASSUME NEW t \in Tasks, ListPending(t) PROVE TypeInv'
  <2>1. \A n \in Pending : [id |-> n, intent |-> IntentOf(n)] \in [id : Nat, intent : Intent]
    BY <1>0, IntentOfTyped DEF Pending, ForeignKeys, TypeOK
  <2> DEFINE first == {m \in Pending : Cardinality({k \in Pending : k < m}) < Limit}
             listed == {[id |-> n, intent |-> IntentOf(n)] : n \in first}
  <2>2. listed \subseteq [id : Nat, intent : Intent]
    <3>1. first \subseteq Pending
      OBVIOUS
    <3> HIDE DEF first
    <3>2. QED BY <2>1, <3>1
  <2>3. page' = [page EXCEPT ![t] = listed]
    BY <1>4 DEF ListPending
  <2>4. page' \in Pages
    <3> HIDE DEF listed
    <3>1. QED BY <1>0, <2>2, <2>3 DEF TypeOK
  <2>5. QED BY <1>4, <2>4, LocalStepsTyped DEF ListPending, Locations
<1>5. ASSUME NEW t \in Tasks, NEW c \in Channels, SendAccepted(t, c) PROVE TypeInv'
  <2>1. accepted' \subseteq Intent /\ resent' \subseteq Intent
    BY <1>0, <1>5 DEF SendAccepted, Current, TypeOK
  <2>2. pc' \in [Tasks -> Locations]
    BY <1>0, <1>5 DEF SendAccepted, TypeOK, Locations
  <2>3. ResultReady'
    BY <1>0, <1>5 DEF SendAccepted, TypeOK, ResultReady
  <2>4. QED
    BY <1>0, <1>5, <2>1, <2>2, <2>3 DEF SendAccepted, TypeInv, TypeOK, store
<1>6. ASSUME NEW t \in Tasks, NEW c \in Channels, SendRefused(t, c) PROVE TypeInv'
  <2>1. page' \in Pages
    BY <1>0, <1>6 DEF SendRefused, TypeOK
  <2>2. QED BY <1>6, <2>1, LocalStepsTyped DEF SendRefused, Locations
<1>7. ASSUME NEW t \in Tasks, UpdateFails(t) PROVE TypeInv'
  <2>1. page' \in Pages
    BY <1>0, <1>7 DEF UpdateFails, TypeOK
  <2>2. QED BY <1>7, <2>1, LocalStepsTyped DEF UpdateFails, Locations
<1>8. ASSUME NEW t \in Tasks, MarkDelivered(t) PROVE TypeInv'
  <2>1. PICK p \in Current(t) :
           /\ p.id \in Pending
           /\ outbox' = [outbox EXCEPT ![p.id].delivered_at = clock]
           /\ page' = [page EXCEPT ![t] = @ \ {p}]
    BY <1>8 DEF MarkDelivered
  <2>2. outbox[p.id] \in OutboxRow /\ p.id \in DOMAIN outbox
    BY <1>0, <2>1 DEF Pending, TypeOK
  <2>3. [outbox[p.id] EXCEPT !.delivered_at = clock] \in OutboxRow
    BY <1>0, <2>2 DEF OutboxRow, TypeOK
  <2>4. DOMAIN outbox' \subseteq Nat /\ outbox' \in [DOMAIN outbox' -> OutboxRow]
    BY <1>0, <2>1, <2>2, <2>3 DEF TypeOK
  <2>5. page' \in Pages
    BY <1>0, <2>1 DEF TypeOK
  <2>6. pc' \in [Tasks -> Locations] /\ ResultReady'
    BY <1>0, <1>8 DEF MarkDelivered, TypeOK, Locations, ResultReady
  <2>7. QED
    BY <1>0, <1>8, <2>4, <2>5, <2>6 DEF MarkDelivered, TypeInv, TypeOK, history
<1>9. ASSUME NEW t \in Tasks, RecordFailure(t) PROVE TypeInv'
  <2>1. page' \in Pages
    BY <1>0, <1>9 DEF RecordFailure, TypeOK
  <2>2. QED BY <1>9, <2>1, LocalStepsTyped DEF RecordFailure, Locations
<1>10. ASSUME NEW t \in Tasks, Return(t) PROVE TypeInv'
  <2>1. page' \in Pages
    BY <1>0, <1>10 DEF Return, TypeOK
  <2>2. QED BY <1>10, <2>1, LocalStepsTyped DEF Return, Locations
<1>11. ASSUME NEW t \in Tasks, Abort(t) PROVE TypeInv'
  <2>1. page' \in Pages
    BY <1>0, <1>11 DEF Abort, TypeOK
  <2>2. QED BY <1>11, <2>1, LocalStepsTyped DEF Abort, Locations
<1>12. ASSUME Prune PROVE TypeInv'
  <2>1. KeptRuns \subseteq DOMAIN runs /\ Unexpired \subseteq DOMAIN outbox
    BY DEF KeptRuns, Unexpired
  <2>2. QED
    BY <1>0, <1>12, <2>1 DEF Prune, Restricted, TypeInv, TypeOK, ResultReady, task, history
<1>13. ASSUME Tick PROVE TypeInv'
  BY <1>0, <1>13 DEF Tick, TypeInv, TypeOK, ResultReady, store, task, history
<1>14. ASSUME UNCHANGED vars PROVE TypeInv'
  BY <1>0, <1>14 DEF vars, TypeInv, TypeOK, ResultReady, store, task, history
<1>15. QED
  BY <1>1, <1>2, <1>3, <1>4, <1>5, <1>6, <1>7, <1>8, <1>9, <1>10, <1>11, <1>12,
     <1>13, <1>14 DEF Next, Step

LEMMA TypeInit == Init => TypeInv /\ ForeignKeys
BY DEF Init, TypeInv, TypeOK, ResultReady, ForeignKeys, Locations

-----------------------------------------------------------------------------
(* Foreign keys. *)

LEMMA ForeignKeysStep == TypeInv /\ ForeignKeys /\ [Next]_vars => ForeignKeys'
<1> SUFFICES ASSUME TypeInv, ForeignKeys, [Next]_vars PROVE ForeignKeys'
  OBVIOUS
<1>1. ASSUME NEW t \in Tasks, RecordSuccess(t) PROVE ForeignKeys'
  <2>1. PICK lastRun \in Largest(DOMAIN runs) :
           InsertRun(result[t].job, result[t], lastRun + 1, Detected(result[t].job, result[t].snapshot))
    BY <1>1 DEF RecordSuccess
  <2> DEFINE changes == Detected(result[t].job, result[t].snapshot)
  <2>2. InsertsRun(result[t].job, result[t], lastRun + 1, changes)
    BY <2>1, InsertRunInserts DEF TypeInv, TypeOK
  <2> HIDE DEF changes
  <2>3. DOMAIN runs' = DOMAIN runs \cup {lastRun + 1}
    BY <2>2 DEF InsertsRun
  <2>4. ASSUME NEW n \in DOMAIN transitions' PROVE transitions'[n].run \in DOMAIN runs'
    <3>1. CASE n \in DOMAIN transitions
      BY <2>2, <2>3, <3>1 DEF InsertsRun, ForeignKeys
    <3>2. CASE n \notin DOMAIN transitions
      <4>1. PICK c \in changes : transitions'[n] = [run |-> lastRun + 1, change |-> c]
        BY <2>2, <3>2 DEF InsertsRun
      <4>2. QED BY <2>3, <4>1
    <3>3. QED BY <3>1, <3>2
  <2>5. ASSUME NEW n \in DOMAIN outbox'
        PROVE  outbox'[n].transition \in DOMAIN transitions'
    <3>1. CASE n \in DOMAIN outbox
      BY <2>2, <3>1 DEF InsertsRun, ForeignKeys
    <3>2. CASE n \notin DOMAIN outbox
      BY <2>2, <3>2 DEF InsertsRun
    <3>3. QED BY <3>1, <3>2
  <2>6. QED BY <2>4, <2>5 DEF ForeignKeys
<1>2. ASSUME NEW t \in Tasks, MarkDelivered(t) PROVE ForeignKeys'
  <2>1. PICK p \in Current(t) :
           p.id \in Pending /\ outbox' = [outbox EXCEPT ![p.id].delivered_at = clock]
    BY <1>2 DEF MarkDelivered
  <2>2. DOMAIN outbox' = DOMAIN outbox
    BY <2>1
  <2>3. ASSUME NEW n \in DOMAIN outbox PROVE outbox'[n].transition = outbox[n].transition
    <3>1. outbox[n] \in OutboxRow
      BY DEF TypeInv, TypeOK
    <3>2. QED BY <2>1, <3>1 DEF OutboxRow
  <2>4. QED BY <1>2, <2>2, <2>3 DEF MarkDelivered, ForeignKeys
<1>3. ASSUME Prune PROVE ForeignKeys'
  <2>1. /\ DOMAIN runs' = KeptRuns
        /\ \A n \in DOMAIN transitions' :
              n \in DOMAIN transitions /\ transitions'[n] = transitions[n]
              /\ transitions[n].run \in KeptRuns
        /\ \A n \in DOMAIN outbox' :
              n \in DOMAIN outbox /\ outbox'[n] = outbox[n]
              /\ outbox[n].transition \in DOMAIN transitions'
    BY <1>3 DEF Prune, Restricted, Unexpired
  <2>2. QED BY <2>1 DEF ForeignKeys
<1>4. ASSUME UNCHANGED store PROVE ForeignKeys'
  BY <1>4 DEF store, ForeignKeys
<1>5. QED
  BY <1>1, <1>2, <1>3, <1>4
     DEF Next, Step, vars, Fetch, RecordUnchanged, ListPending, SendAccepted, SendRefused,
         UpdateFails, RecordFailure, Return, Abort, Tick

(* Type correctness: every behaviour of the outbox is well typed.          *)
THEOREM TypeCorrect == Spec => []TypeOK
<1>1. Init => TypeInv /\ ForeignKeys
  BY TypeInit
<1>2. TypeInv /\ ForeignKeys /\ [Next]_vars => (TypeInv /\ ForeignKeys)'
  BY TypeStep, ForeignKeysStep
<1>3. TypeInv => TypeOK
  BY DEF TypeInv
<1>4. QED BY <1>1, <1>2, <1>3, PTL DEF Spec

-----------------------------------------------------------------------------
(* No notification is lost.  NoIntentLost says nothing of the pages, yet it *)
(* is the page that decides which row an update by id hits: the inductive   *)
(* invariant ties every page entry to its row, and the row to the current   *)
(* time, so that neither retention nor a reused id comes in between.        *)

(* A task that is not dispatching has no page left. *)
PagesEmptied ==
    \A t \in Tasks : pc[t] \in {"idle", "fetched", "recorded"} => page[t] = {}

(* An id on a page names the row that was listed. *)
PagesValid ==
    \A t \in Tasks : \A p \in page[t] :
        p.id \in DOMAIN outbox /\ IntentOf(p.id) = p.intent

(* A row on a page is undelivered or was delivered within this clock unit. *)
PagesFresh ==
    \A t \in Tasks : \A p \in page[t] : outbox[p.id].delivered_at \in {Null, clock}

(* A task about to record a delivery has sent that very notification. *)
SentFirst ==
    \A t \in Tasks : pc[t] = "accepted" => \A p \in Current(t) : p.intent \in accepted

DispatchInv ==
    /\ PagesEmptied
    /\ PagesValid
    /\ PagesFresh
    /\ SentFirst
    /\ RecordedWasAccepted
    /\ NoIntentLost

OutboxInv == TypeInv /\ ForeignKeys /\ DispatchInv

(* The loop of dispatch_pending is at one notification at a time.          *)
LEMMA CurrentIsOne ==
    ASSUME TypeOK, PagesValid, NEW t \in Tasks, NEW p \in Current(t), NEW q \in Current(t)
    PROVE  p = q
<1>1. /\ p \in [id : Nat, intent : Intent] /\ q \in [id : Nat, intent : Intent]
      /\ p \in page[t] /\ q \in page[t]
  BY DEF TypeOK, Current
<1>2. p.id = q.id
  BY <1>1 DEF Current
<1>3. p.intent = q.intent
  BY <1>1, <1>2 DEF PagesValid
<1>4. p = [id |-> p.id, intent |-> p.intent] /\ q = [id |-> q.id, intent |-> q.intent]
  BY <1>1
<1>5. QED BY <1>2, <1>3, <1>4

(* Steps that leave the tables, the clock and the promises alone preserve   *)
(* the invariant if pages only shrink and acceptances only grow.            *)
LEMMA LocalStepsDispatch ==
    ASSUME TypeOK, DispatchInv, UNCHANGED <<store, clock, promised>>,
           accepted \subseteq accepted',
           \A t \in Tasks : page'[t] \subseteq page[t],
           \A t \in Tasks : pc'[t] \in {"idle", "fetched", "recorded"} => page'[t] = {},
           \A t \in Tasks : pc'[t] = "accepted" => \A p \in Current(t)' : p.intent \in accepted'
    PROVE  DispatchInv'
<1>1. \A n : IntentOf(n)' = IntentOf(n)
  BY DEF store, IntentOf
<1>2. Pending' = Pending /\ Owed' = Owed
  BY DEF store, Pending, Owed, IntentOf
<1>3. PagesValid' /\ PagesFresh'
  BY <1>1 DEF DispatchInv, PagesValid, PagesFresh, store
<1>4. RecordedWasAccepted'
  BY <1>1 DEF DispatchInv, RecordedWasAccepted, store
<1>5. NoIntentLost'
  BY <1>2 DEF DispatchInv, NoIntentLost
<1>6. PagesEmptied' /\ SentFirst'
  BY DEF PagesEmptied, SentFirst
<1>7. QED BY <1>3, <1>4, <1>5, <1>6 DEF DispatchInv

LEMMA RecordSuccessDispatch ==
    ASSUME OutboxInv, NEW t \in Tasks, RecordSuccess(t)
    PROVE  DispatchInv'
<1> DEFINE job == result[t].job
           changes == Detected(job, result[t].snapshot)
<1>1. PICK lastRun \in Largest(DOMAIN runs) :
         /\ InsertRun(job, result[t], lastRun + 1, changes)
         /\ promised' = promised \cup
              {[run |-> lastRun + 1, opportunity |-> a[1].opportunity, channel |-> a[2]] :
                  a \in Notified(job, changes)}
  BY DEF RecordSuccess
<1> HIDE DEF changes, job
<1>2. InsertsRun(job, result[t], lastRun + 1, changes)
  BY <1>1, InsertRunInserts DEF OutboxInv, TypeInv, TypeOK
<1>3. UNCHANGED <<page, clock, accepted>> /\ pc' = [pc EXCEPT ![t] = "recorded"]
      /\ pc[t] = "fetched"
  BY DEF RecordSuccess
<1>4. ASSUME NEW n \in DOMAIN outbox
      PROVE  n \in DOMAIN outbox' /\ outbox'[n] = outbox[n] /\ IntentOf(n)' = IntentOf(n)
  BY <1>2 DEF InsertsRun, IntentOf, OutboxInv, ForeignKeys
<1>5. PagesValid' /\ PagesFresh'
  BY <1>3, <1>4 DEF OutboxInv, DispatchInv, PagesValid, PagesFresh
<1>6. PagesEmptied' /\ SentFirst'
  <2>1. \A u \in Tasks : u # t => pc'[u] = pc[u]
    BY <1>3 DEF OutboxInv, TypeInv, TypeOK
  <2>2. pc'[t] = "recorded" /\ page'[t] = {}
    BY <1>3 DEF OutboxInv, TypeInv, TypeOK, DispatchInv, PagesEmptied
  <2>3. \A u \in Tasks : Current(u)' = Current(u)
    BY <1>3 DEF Current
  <2>4. QED
    BY <1>3, <2>1, <2>2, <2>3 DEF OutboxInv, DispatchInv, PagesEmptied, SentFirst
<1>7. RecordedWasAccepted'
  <2>1. ASSUME NEW n \in DOMAIN outbox', outbox'[n].delivered_at # Null
        PROVE  IntentOf(n)' \in accepted'
    <3>1. n \in DOMAIN outbox
      <4>1. SUFFICES ASSUME n \notin DOMAIN outbox PROVE FALSE
        OBVIOUS
      <4>2. PICK a \in Notified(job, changes) :
               /\ outbox'[n].transition \in DOMAIN transitions'
               /\ outbox'[n] = [transition |-> outbox'[n].transition, channel |-> a[2],
                                delivered_at |-> Null]
               /\ transitions'[outbox'[n].transition] =
                     [run |-> lastRun + 1, change |-> a[1]]
        BY <1>2, <4>1 DEF InsertsRun
      <4>3. outbox'[n].delivered_at = Null
        BY <4>2
      <4>4. QED BY <2>1, <4>3
    <3>2. QED
      BY <1>3, <1>4, <2>1, <3>1 DEF OutboxInv, DispatchInv, RecordedWasAccepted
  <2>2. QED BY <2>1 DEF RecordedWasAccepted
<1>8. NoIntentLost'
  <2>1. ASSUME NEW i \in Owed PROVE i \in Owed'
    <3>1. PICK n \in Pending : i = IntentOf(n)
      BY <2>1 DEF Owed
    <3>2. n \in Pending' /\ IntentOf(n)' = i
      BY <1>4, <3>1 DEF Pending
    <3>3. QED BY <3>2 DEF Owed
  <2>2. ASSUME NEW a \in Notified(job, changes)
        PROVE  [run |-> lastRun + 1, opportunity |-> a[1].opportunity, channel |-> a[2]]
                   \in Owed'
    <3>1. PICK n \in DOMAIN outbox' \ DOMAIN outbox :
             /\ outbox'[n].transition \in DOMAIN transitions'
             /\ outbox'[n] = [transition |-> outbox'[n].transition, channel |-> a[2],
                              delivered_at |-> Null]
             /\ transitions'[outbox'[n].transition] = [run |-> lastRun + 1, change |-> a[1]]
      BY <1>2 DEF InsertsRun
    <3>2. n \in Pending'
      BY <3>1 DEF Pending
    <3>3. IntentOf(n)' = [run |-> lastRun + 1, opportunity |-> a[1].opportunity,
                          channel |-> a[2]]
      BY <3>1 DEF IntentOf
    <3>4. QED BY <3>2, <3>3 DEF Owed
  <2>3. QED
    BY <1>1, <1>3, <2>1, <2>2 DEF OutboxInv, DispatchInv, NoIntentLost
<1>9. QED BY <1>5, <1>6, <1>7, <1>8 DEF DispatchInv

LEMMA MarkDeliveredDispatch ==
    ASSUME OutboxInv, NEW t \in Tasks, MarkDelivered(t)
    PROVE  DispatchInv'
<1>1. PICK p \in Current(t) :
         /\ p.id \in Pending
         /\ outbox' = [outbox EXCEPT ![p.id].delivered_at = clock]
         /\ page' = [page EXCEPT ![t] = @ \ {p}]
  BY DEF MarkDelivered
<1>2. UNCHANGED <<runs, transitions, clock, promised, accepted>> /\ pc[t] = "accepted"
      /\ pc' = [pc EXCEPT ![t] = "dispatching"]
  BY DEF MarkDelivered, history
<1>3. p.intent \in accepted /\ IntentOf(p.id) = p.intent /\ p.id \in DOMAIN outbox
  BY <1>1, <1>2 DEF OutboxInv, DispatchInv, SentFirst, PagesValid, Current
<1>4. DOMAIN outbox' = DOMAIN outbox
  BY <1>1
<1>5. \A n \in DOMAIN outbox : outbox[n] \in OutboxRow
  BY DEF OutboxInv, TypeInv, TypeOK
<1>6. ASSUME NEW n \in DOMAIN outbox
      PROVE  /\ IntentOf(n)' = IntentOf(n)
             /\ n # p.id => outbox'[n] = outbox[n]
             /\ n = p.id => outbox'[n].delivered_at = clock
  BY <1>1, <1>2, <1>5 DEF OutboxRow, IntentOf
<1>7. \A u \in Tasks : page'[u] \subseteq page[u] /\ (u # t => page'[u] = page[u])
  BY <1>1 DEF OutboxInv, TypeInv, TypeOK
<1>8. \A u \in Tasks : u # t => pc'[u] = pc[u]
  BY <1>2 DEF OutboxInv, TypeInv, TypeOK
<1>9. pc'[t] = "dispatching"
  BY <1>2 DEF OutboxInv, TypeInv, TypeOK
<1>10. PagesValid' /\ PagesFresh'
  BY <1>2, <1>4, <1>6, <1>7 DEF OutboxInv, DispatchInv, PagesValid, PagesFresh
<1>11. PagesEmptied'
  BY <1>7, <1>8, <1>9 DEF OutboxInv, DispatchInv, PagesEmptied
<1>12. SentFirst'
  <2>1. \A u \in Tasks : u # t => Current(u)' = Current(u)
    BY <1>7 DEF Current
  <2>2. QED
    BY <1>2, <1>8, <1>9, <2>1 DEF OutboxInv, DispatchInv, SentFirst
<1>13. RecordedWasAccepted'
  BY <1>2, <1>3, <1>4, <1>6 DEF OutboxInv, DispatchInv, RecordedWasAccepted
<1>14. NoIntentLost'
  <2>1. ASSUME NEW i \in Owed, i # p.intent PROVE i \in Owed'
    <3>1. PICK n \in Pending : i = IntentOf(n)
      BY <2>1 DEF Owed
    <3>2. n # p.id /\ n \in DOMAIN outbox
      BY <1>3, <2>1, <3>1 DEF Pending
    <3>3. n \in Pending' /\ IntentOf(n)' = i
      BY <1>4, <1>6, <3>1, <3>2 DEF Pending
    <3>4. QED BY <3>3 DEF Owed
  <2>2. QED BY <1>2, <1>3, <2>1 DEF OutboxInv, DispatchInv, NoIntentLost
<1>15. QED BY <1>10, <1>11, <1>12, <1>13, <1>14 DEF DispatchInv

(* Retention keeps every undelivered row, and every row of a page in work. *)
LEMMA PruneDispatch ==
    ASSUME OutboxInv, Prune, ListedRowsKept
    PROVE  DispatchInv'
<1> DEFINE keptTransitions == {n \in DOMAIN transitions : transitions[n].run \in KeptRuns}
           keptRows == {n \in Unexpired : outbox[n].transition \in keptTransitions}
<1>1. /\ transitions' = [n \in keptTransitions |-> transitions[n]]
      /\ outbox' = [n \in keptRows |-> outbox[n]]
      /\ UNCHANGED <<pc, page, clock, promised, accepted>>
  BY DEF Prune, Restricted, task, history
<1>2. \A t \in Tasks : \A p \in page[t] : p.id \in Unexpired => p.id \in keptRows
  BY <1>1 DEF ListedRowsKept
<1>3. ASSUME NEW n \in keptRows
      PROVE  /\ n \in DOMAIN outbox /\ n \in DOMAIN outbox'
             /\ outbox'[n] = outbox[n] /\ IntentOf(n)' = IntentOf(n)
  BY <1>1 DEF IntentOf, Unexpired
<1>4. Pending \subseteq keptRows
  <2>1. ASSUME NEW n \in Pending PROVE n \in keptRows
    <3>1. n \in Unexpired /\ outbox[n].transition \in DOMAIN transitions
      BY DEF Pending, Unexpired, OutboxInv, ForeignKeys
    <3>2. transitions[outbox[n].transition].run \in DOMAIN runs
      BY <3>1 DEF OutboxInv, ForeignKeys
    <3>3. transitions[outbox[n].transition].run \in KeptRuns
      BY <3>2 DEF KeptRuns
    <3>4. QED BY <3>1, <3>3
  <2>2. QED BY <2>1
<1>5. ASSUME NEW t \in Tasks, NEW p \in page[t] PROVE p.id \in keptRows
  <2>1. p.id \in DOMAIN outbox /\ outbox[p.id].delivered_at \in {Null, clock}
    BY DEF OutboxInv, DispatchInv, PagesValid, PagesFresh
  <2>2. clock \in Nat /\ NotificationAge \in Nat
    BY ConstantsAssumption DEF OutboxInv, TypeInv, TypeOK
  <2>3. p.id \in Unexpired
    BY <2>1, <2>2 DEF Unexpired
  <2>4. QED BY <1>2, <2>3
<1> HIDE DEF keptRows
<1>6. PagesValid' /\ PagesFresh'
  BY <1>1, <1>3, <1>5 DEF OutboxInv, DispatchInv, PagesValid, PagesFresh
<1>7. PagesEmptied' /\ SentFirst'
  BY <1>1 DEF OutboxInv, DispatchInv, PagesEmptied, SentFirst, Current
<1>8. RecordedWasAccepted'
  <2>1. DOMAIN outbox' = keptRows
    BY <1>1
  <2>2. QED BY <1>1, <1>3, <2>1 DEF OutboxInv, DispatchInv, RecordedWasAccepted
<1>9. NoIntentLost'
  <2>1. ASSUME NEW i \in Owed PROVE i \in Owed'
    <3>1. PICK n \in Pending : i = IntentOf(n)
      BY <2>1 DEF Owed
    <3>2. n \in Pending' /\ IntentOf(n)' = i
      BY <1>3, <1>4, <3>1 DEF Pending
    <3>3. QED BY <3>2 DEF Owed
  <2>2. QED BY <1>1, <2>1 DEF OutboxInv, DispatchInv, NoIntentLost
<1>10. QED BY <1>6, <1>7, <1>8, <1>9 DEF DispatchInv

LEMMA DispatchStep ==
    ASSUME OutboxInv, [NextUncascaded]_vars
    PROVE  DispatchInv'
<1>0. TypeOK /\ DispatchInv
  BY DEF OutboxInv, TypeInv
<1>1. ASSUME NEW t \in Tasks, Fetch(t) PROVE DispatchInv'
  <2>1. \A u \in Tasks : Current(u)' = Current(u)
    BY <1>1 DEF Fetch, Current
  <2>2. \A u \in Tasks : pc'[u] = IF u = t THEN "fetched" ELSE pc[u]
    BY <1>0, <1>1 DEF Fetch, TypeOK
  <2>3. pc[t] = "idle" /\ UNCHANGED <<store, page, clock, accepted, promised>>
    BY <1>1 DEF Fetch, history
  <2>4. QED
    BY <1>0, <2>1, <2>2, <2>3, LocalStepsDispatch DEF DispatchInv, PagesEmptied, SentFirst
<1>2. ASSUME NEW t \in Tasks, RecordSuccess(t) PROVE DispatchInv'
  BY <1>2, RecordSuccessDispatch
<1>3. ASSUME NEW t \in Tasks, RecordUnchanged(t) PROVE DispatchInv'
  <2>1. \A u \in Tasks : Current(u)' = Current(u)
    BY <1>3 DEF RecordUnchanged, Current
  <2>2. \A u \in Tasks : pc'[u] = IF u = t THEN "recorded" ELSE pc[u]
    BY <1>0, <1>3 DEF RecordUnchanged, TypeOK
  <2>3. pc[t] = "fetched" /\ UNCHANGED <<store, page, clock, accepted, promised>>
    BY <1>3 DEF RecordUnchanged, history
  <2>4. QED
    BY <1>0, <2>1, <2>2, <2>3, LocalStepsDispatch DEF DispatchInv, PagesEmptied, SentFirst
<1>4. ASSUME NEW t \in Tasks, ListPending(t) PROVE DispatchInv'
  <2> DEFINE first == {m \in Pending : Cardinality({k \in Pending : k < m}) < Limit}
             listed == {[id |-> n, intent |-> IntentOf(n)] : n \in first}
  <2>1. page' = [page EXCEPT ![t] = listed] /\ pc' = [pc EXCEPT ![t] = "dispatching"]
        /\ UNCHANGED <<store, clock, accepted, promised>>
    BY <1>4 DEF ListPending, history
  <2>2. ASSUME NEW p \in listed
        PROVE  p.id \in Pending /\ p.intent = IntentOf(p.id)
    <3>1. PICK n \in first : p = [id |-> n, intent |-> IntentOf(n)]
      OBVIOUS
    <3>2. n \in Pending
      OBVIOUS
    <3>3. QED BY <3>1, <3>2
  <2> HIDE DEF listed
  <2>3. \A u \in Tasks : /\ page'[u] = IF u = t THEN listed ELSE page[u]
                         /\ pc'[u] = IF u = t THEN "dispatching" ELSE pc[u]
    BY <1>0, <2>1 DEF TypeOK
  <2>4. \A n : IntentOf(n)' = IntentOf(n)
    BY <2>1 DEF store, IntentOf
  <2>5. PagesValid' /\ PagesFresh'
    BY <1>0, <2>1, <2>2, <2>3, <2>4
       DEF DispatchInv, PagesValid, PagesFresh, Pending, store
  <2>6. \A u \in Tasks : u # t => Current(u)' = Current(u)
    BY <2>3 DEF Current
  <2>7. PagesEmptied' /\ SentFirst'
    BY <1>0, <2>1, <2>3, <2>6 DEF DispatchInv, PagesEmptied, SentFirst
  <2>8. RecordedWasAccepted' /\ NoIntentLost'
    BY <1>0, <2>1, <2>4
       DEF DispatchInv, RecordedWasAccepted, NoIntentLost, Owed, Pending, IntentOf, store
  <2>9. QED BY <2>5, <2>7, <2>8 DEF DispatchInv
<1>5. ASSUME NEW t \in Tasks, NEW c \in Channels, SendAccepted(t, c) PROVE DispatchInv'
  <2>1. PICK p \in Current(t) : accepted' = accepted \cup {p.intent}
    BY <1>5 DEF SendAccepted
  <2>2. UNCHANGED <<store, page, clock, promised>>
    BY <1>5 DEF SendAccepted
  <2>3. \A u \in Tasks : Current(u)' = Current(u)
    BY <2>2 DEF Current
  <2>4. \A u \in Tasks : u # t => pc'[u] = pc[u]
    BY <1>0, <1>5 DEF SendAccepted, TypeOK
  <2>5. pc'[t] \in {"accepted", "raised"}
    BY <1>0, <1>5 DEF SendAccepted, TypeOK
  <2>6. \A q \in Current(t) : q.intent \in accepted'
    BY <1>0, <2>1, CurrentIsOne DEF DispatchInv
  <2>7. QED
    BY <1>0, <2>1, <2>2, <2>3, <2>4, <2>5, <2>6, LocalStepsDispatch
       DEF DispatchInv, PagesEmptied, SentFirst
<1>6. ASSUME NEW t \in Tasks, NEW c \in Channels, SendRefused(t, c) PROVE DispatchInv'
  <2>1. \A u \in Tasks : Current(u)' = Current(u)
    BY <1>6 DEF SendRefused, Current
  <2>2. \A u \in Tasks : pc'[u] = IF u = t THEN "raised" ELSE pc[u]
    BY <1>0, <1>6 DEF SendRefused, TypeOK
  <2>3. UNCHANGED <<store, page, clock, accepted, promised>>
    BY <1>6 DEF SendRefused, history
  <2>4. QED
    BY <1>0, <2>1, <2>2, <2>3, LocalStepsDispatch DEF DispatchInv, PagesEmptied, SentFirst
<1>7. ASSUME NEW t \in Tasks, UpdateFails(t) \/ Abort(t) PROVE DispatchInv'
  <2>1. \A u \in Tasks : /\ pc'[u] = IF u = t THEN "idle" ELSE pc[u]
                         /\ page'[u] = IF u = t THEN {} ELSE page[u]
    BY <1>0, <1>7 DEF UpdateFails, Abort, TypeOK
  <2>2. UNCHANGED <<store, clock, accepted, promised>>
    BY <1>7 DEF UpdateFails, Abort, history
  <2>3. \A u \in Tasks : u # t => Current(u)' = Current(u)
    BY <2>1 DEF Current
  <2>4. QED
    BY <1>0, <2>1, <2>2, <2>3, LocalStepsDispatch DEF DispatchInv, PagesEmptied, SentFirst
<1>8. ASSUME NEW t \in Tasks, MarkDelivered(t) PROVE DispatchInv'
  BY <1>8, MarkDeliveredDispatch
<1>9. ASSUME NEW t \in Tasks, RecordFailure(t) PROVE DispatchInv'
  <2>1. PICK p \in Current(t) : page' = [page EXCEPT ![t] = @ \ {p}]
    BY <1>9 DEF RecordFailure
  <2>2. \A u \in Tasks : /\ pc'[u] = IF u = t THEN "dispatching" ELSE pc[u]
                         /\ page'[u] = IF u = t THEN page[u] \ {p} ELSE page[u]
    BY <1>0, <1>9, <2>1 DEF RecordFailure, TypeOK
  <2>3. UNCHANGED <<store, clock, accepted, promised>>
    BY <1>9 DEF RecordFailure, history
  <2>4. \A u \in Tasks : u # t => Current(u)' = Current(u)
    BY <2>2 DEF Current
  <2>5. QED
    BY <1>0, <2>2, <2>3, <2>4, LocalStepsDispatch DEF DispatchInv, PagesEmptied, SentFirst
<1>10. ASSUME NEW t \in Tasks, Return(t) PROVE DispatchInv'
  <2>1. \A u \in Tasks : Current(u)' = Current(u)
    BY <1>10 DEF Return, Current
  <2>2. \A u \in Tasks : pc'[u] = IF u = t THEN "idle" ELSE pc[u]
    BY <1>0, <1>10 DEF Return, TypeOK
  <2>3. page[t] = {} /\ UNCHANGED <<store, page, clock, accepted, promised>>
    BY <1>10 DEF Return, history
  <2>4. QED
    BY <1>0, <2>1, <2>2, <2>3, LocalStepsDispatch DEF DispatchInv, PagesEmptied, SentFirst
<1>11. ASSUME Prune, ListedRowsKept PROVE DispatchInv'
  BY <1>11, PruneDispatch
<1>12. ASSUME Tick PROVE DispatchInv'
  <2>1. \A t \in Tasks : page[t] = {}
    BY <1>0, <1>12 DEF Tick, DispatchInv, PagesEmptied
  <2>2. UNCHANGED <<store, pc, page, accepted, promised>>
    BY <1>12 DEF Tick, task, history
  <2>3. QED
    BY <1>0, <2>1, <2>2
       DEF DispatchInv, PagesEmptied, PagesValid, PagesFresh, SentFirst, Current,
           RecordedWasAccepted, NoIntentLost, Owed, Pending, IntentOf, store
<1>13. ASSUME UNCHANGED vars PROVE DispatchInv'
  <2>1. UNCHANGED <<store, pc, page, clock, accepted, promised>>
    BY <1>13 DEF vars, task, history
  <2>2. \A u \in Tasks : Current(u)' = Current(u)
    BY <2>1 DEF Current
  <2>3. QED
    BY <1>0, <2>1, <2>2, LocalStepsDispatch DEF DispatchInv, PagesEmptied, SentFirst
<1>14. QED
  BY <1>1, <1>2, <1>3, <1>4, <1>5, <1>6, <1>7, <1>8, <1>9, <1>10, <1>11, <1>12, <1>13
     DEF NextUncascaded, Step

LEMMA UncascadedStep == [NextUncascaded]_vars => [Next]_vars
BY DEF NextUncascaded, Next

LEMMA OutboxInvariant == UncascadedSpec => []OutboxInv
<1>1. Init => OutboxInv
  <2>1. Init => DispatchInv
    BY DEF Init, DispatchInv, PagesEmptied, PagesValid, PagesFresh, SentFirst,
           RecordedWasAccepted, NoIntentLost
  <2>2. QED BY <2>1, TypeInit DEF OutboxInv
<1>2. OutboxInv /\ [NextUncascaded]_vars => OutboxInv'
  <2>1. OutboxInv /\ [NextUncascaded]_vars => (TypeInv /\ ForeignKeys)'
    BY TypeStep, ForeignKeysStep, UncascadedStep DEF OutboxInv
  <2>2. OutboxInv /\ [NextUncascaded]_vars => DispatchInv'
    BY DispatchStep
  <2>3. QED BY <2>1, <2>2 DEF OutboxInv
<1>3. QED BY <1>1, <1>2, PTL DEF UncascadedSpec

(* No notification is ever lost, whatever the interleaving, the crashes and *)
(* the failed sends, as long as retention does not cascade over a page in   *)
(* work.                                                                    *)
THEOREM NothingLost == UncascadedSpec => []NoIntentLost
<1>1. OutboxInv => NoIntentLost
  BY DEF OutboxInv, DispatchInv
<1>2. QED BY <1>1, OutboxInvariant, PTL

(* Nothing is recorded as delivered that no channel accepted, under the     *)
(* same assumption.                                                         *)
THEOREM RecordedDeliveriesHappened == UncascadedSpec => []RecordedWasAccepted
<1>1. OutboxInv => RecordedWasAccepted
  BY DEF OutboxInv, DispatchInv
<1>2. QED BY <1>1, OutboxInvariant, PTL

-----------------------------------------------------------------------------
(* Without the assumption.  Whatever retention cascades over, the ids on a  *)
(* page can only go wrong with the runs they belong to.                     *)

(* Like PagesFresh, while the run of the notification is retained. *)
RetainedFresh ==
    \A t \in Tasks : \A p \in page[t] :
        p.intent.run \in DOMAIN runs => outbox[p.id].delivered_at \in {Null, clock}

(* No listed notification is of a run still to come: retention leaves the  *)
(* newest run of all, so that a deleted run does not come back.            *)
ListedRunsArePast ==
    \/ DOMAIN runs = {} /\ \A t \in Tasks : page[t] = {}
    \/ \E top \in DOMAIN runs :
          /\ \A r \in DOMAIN runs : r <= top
          /\ \A t \in Tasks : \A p \in page[t] : p.intent.run <= top

ListedInv == PagesEmptied /\ PagesStayValid /\ RetainedFresh /\ ListedRunsArePast

(* Steps that only take entries off the pages.                             *)
LEMMA ShrinkingPages ==
    ASSUME ListedInv, UNCHANGED <<store, clock>>,
           \A t \in Tasks : page'[t] \subseteq page[t],
           \A t \in Tasks : pc'[t] \in {"idle", "fetched", "recorded"} => page'[t] = {}
    PROVE  ListedInv'
<1>1. \A n : IntentOf(n)' = IntentOf(n)
  BY DEF store, IntentOf
<1>2. PagesStayValid' /\ RetainedFresh'
  BY <1>1 DEF ListedInv, PagesStayValid, RetainedFresh, store
<1>3. ListedRunsArePast'
  <2>1. CASE DOMAIN runs = {} /\ \A t \in Tasks : page[t] = {}
    BY <2>1 DEF ListedRunsArePast, store
  <2>2. CASE \E top \in DOMAIN runs :
               /\ \A r \in DOMAIN runs : r <= top
               /\ \A t \in Tasks : \A p \in page[t] : p.intent.run <= top
    BY <2>2 DEF ListedRunsArePast, store
  <2>3. QED BY <2>1, <2>2 DEF ListedInv, ListedRunsArePast
<1>4. PagesEmptied'
  BY DEF PagesEmptied
<1>5. QED BY <1>2, <1>3, <1>4 DEF ListedInv

LEMMA RecordSuccessListed ==
    ASSUME TypeInv, ForeignKeys, ListedInv, NEW t \in Tasks, RecordSuccess(t)
    PROVE  ListedInv'
<1> DEFINE job == result[t].job
           changes == Detected(job, result[t].snapshot)
<1>1. PICK lastRun \in Largest(DOMAIN runs) :
         InsertRun(job, result[t], lastRun + 1, changes)
  BY DEF RecordSuccess
<1> HIDE DEF changes, job
<1>2. InsertsRun(job, result[t], lastRun + 1, changes)
  BY <1>1, InsertRunInserts DEF TypeInv, TypeOK
<1>3. lastRun \in Nat /\ \A r \in DOMAIN runs : r <= lastRun
  BY LargestBounds DEF TypeInv, TypeOK
<1>4. /\ UNCHANGED <<page, clock>> /\ pc[t] = "fetched"
      /\ pc' = [pc EXCEPT ![t] = "recorded"]
  BY DEF RecordSuccess
<1>5. DOMAIN runs' = DOMAIN runs \cup {lastRun + 1}
  BY <1>2 DEF InsertsRun
<1>6. ASSUME NEW n \in DOMAIN outbox
      PROVE  n \in DOMAIN outbox' /\ outbox'[n] = outbox[n] /\ IntentOf(n)' = IntentOf(n)
  BY <1>2 DEF InsertsRun, IntentOf, ForeignKeys
<1>7. ASSUME NEW u \in Tasks, NEW p \in page[u]
      PROVE  p.intent.run \in Nat /\ p.intent.run <= lastRun
  <2>1. p.intent.run \in Nat
    BY DEF TypeInv, TypeOK, Intent
  <2>2. PICK top \in DOMAIN runs : p.intent.run <= top
    BY DEF ListedInv, ListedRunsArePast
  <2>3. top \in Nat /\ top <= lastRun
    BY <1>3 DEF TypeInv, TypeOK
  <2>4. QED BY <1>3, <2>1, <2>2, <2>3
<1>8. ASSUME NEW u \in Tasks, NEW p \in page[u], p.intent.run \in DOMAIN runs'
      PROVE  p.intent.run \in DOMAIN runs
  BY <1>3, <1>5, <1>7, <1>8
<1>9. PagesStayValid' /\ RetainedFresh'
  BY <1>4, <1>6, <1>8 DEF ListedInv, PagesStayValid, RetainedFresh
<1>10. PagesEmptied'
  BY <1>4 DEF TypeInv, TypeOK, ListedInv, PagesEmptied
<1>11. ListedRunsArePast'
  <2>1. \A r \in DOMAIN runs' : r <= lastRun + 1
    BY <1>3, <1>5 DEF TypeInv, TypeOK
  <2>2. \A u \in Tasks : \A p \in page'[u] : p.intent.run <= lastRun + 1
    BY <1>3, <1>4, <1>7
  <2>3. QED BY <1>5, <2>1, <2>2 DEF ListedRunsArePast
<1>12. QED BY <1>9, <1>10, <1>11 DEF ListedInv

LEMMA ListPendingListed ==
    ASSUME TypeInv, ForeignKeys, ListedInv, NEW t \in Tasks, ListPending(t)
    PROVE  ListedInv'
<1> DEFINE first == {m \in Pending : Cardinality({k \in Pending : k < m}) < Limit}
           listed == {[id |-> n, intent |-> IntentOf(n)] : n \in first}
<1>1. page' = [page EXCEPT ![t] = listed] /\ pc' = [pc EXCEPT ![t] = "dispatching"]
      /\ UNCHANGED <<store, clock>>
  BY DEF ListPending
<1>2. ASSUME NEW p \in listed
      PROVE  p.id \in Pending /\ p.intent = IntentOf(p.id) /\ p.intent.run \in DOMAIN runs
  <2>1. PICK n \in first : p = [id |-> n, intent |-> IntentOf(n)]
    OBVIOUS
  <2>2. n \in Pending
    OBVIOUS
  <2> HIDE DEF listed, first
  <2>3. IntentOf(n).run \in DOMAIN runs
    BY <2>2 DEF Pending, IntentOf, ForeignKeys
  <2>4. QED BY <2>1, <2>2, <2>3
<1> HIDE DEF listed
<1>3. \A u \in Tasks : /\ page'[u] = IF u = t THEN listed ELSE page[u]
                       /\ pc'[u] = IF u = t THEN "dispatching" ELSE pc[u]
  BY <1>1 DEF TypeInv, TypeOK
<1>4. \A n : IntentOf(n)' = IntentOf(n)
  BY <1>1 DEF store, IntentOf
<1>5. PagesStayValid' /\ RetainedFresh'
  BY <1>1, <1>2, <1>3, <1>4 DEF ListedInv, PagesStayValid, RetainedFresh, Pending, store
<1>6. PagesEmptied'
  BY <1>3 DEF ListedInv, PagesEmptied
<1>7. ListedRunsArePast'
  <2>1. CASE DOMAIN runs = {}
    <3>1. \A u \in Tasks : page[u] = {}
      BY <2>1 DEF ListedInv, ListedRunsArePast
    <3>2. listed = {}
      BY <1>2, <2>1
    <3>3. QED BY <1>1, <1>3, <2>1, <3>1, <3>2 DEF ListedRunsArePast, store
  <2>2. CASE DOMAIN runs # {}
    <3>1. PICK top \in DOMAIN runs :
             /\ \A r \in DOMAIN runs : r <= top
             /\ \A u \in Tasks : \A p \in page[u] : p.intent.run <= top
      BY <2>2 DEF ListedInv, ListedRunsArePast
    <3>2. \A p \in listed : p.intent.run <= top
      BY <1>2, <3>1
    <3>3. \A u \in Tasks : \A p \in page'[u] : p.intent.run <= top
      BY <1>3, <3>1, <3>2
    <3>4. top \in DOMAIN runs' /\ \A r \in DOMAIN runs' : r <= top
      BY <1>1, <3>1 DEF store
    <3>5. QED BY <3>3, <3>4 DEF ListedRunsArePast
  <2>3. QED BY <2>1, <2>2
<1>8. QED BY <1>5, <1>6, <1>7 DEF ListedInv

LEMMA PruneListed ==
    ASSUME TypeInv, ForeignKeys, ListedInv, Prune
    PROVE  ListedInv'
<1> DEFINE keptTransitions == {n \in DOMAIN transitions : transitions[n].run \in KeptRuns}
           keptRows == {n \in Unexpired : outbox[n].transition \in keptTransitions}
<1>1. /\ runs' = [r \in KeptRuns |-> runs[r]]
      /\ transitions' = [n \in keptTransitions |-> transitions[n]]
      /\ outbox' = [n \in keptRows |-> outbox[n]]
      /\ UNCHANGED <<pc, page, clock>>
  BY DEF Prune, Restricted, task
<1>2. DOMAIN runs' = KeptRuns /\ KeptRuns \subseteq DOMAIN runs
  BY <1>1 DEF KeptRuns
<1>3. ASSUME NEW t \in Tasks, NEW p \in page[t], p.intent.run \in KeptRuns
      PROVE  /\ p.id \in DOMAIN outbox' /\ outbox'[p.id] = outbox[p.id]
             /\ outbox[p.id].delivered_at \in {Null, clock}
             /\ IntentOf(p.id)' = p.intent
  <2>1. /\ p.id \in DOMAIN outbox /\ IntentOf(p.id) = p.intent
        /\ outbox[p.id].delivered_at \in {Null, clock}
    BY <1>2, <1>3 DEF ListedInv, PagesStayValid, RetainedFresh
  <2>2. clock \in Nat /\ NotificationAge \in Nat
    BY ConstantsAssumption DEF TypeInv, TypeOK
  <2>3. p.id \in Unexpired
    BY <2>1, <2>2 DEF Unexpired
  <2>4. outbox[p.id].transition \in keptTransitions
    BY <1>3, <2>1 DEF IntentOf, ForeignKeys
  <2>5. p.id \in keptRows
    BY <2>3, <2>4
  <2> HIDE DEF keptRows, keptTransitions
  <2>6. QED BY <1>1, <2>1, <2>4, <2>5 DEF IntentOf
<1>4. PagesStayValid' /\ RetainedFresh'
  BY <1>1, <1>2, <1>3 DEF PagesStayValid, RetainedFresh
<1>5. PagesEmptied'
  BY <1>1 DEF ListedInv, PagesEmptied
<1>6. ListedRunsArePast'
  <2>1. CASE DOMAIN runs = {} /\ \A t \in Tasks : page[t] = {}
    BY <1>1, <1>2, <2>1 DEF ListedRunsArePast
  <2>2. CASE ~(DOMAIN runs = {} /\ \A t \in Tasks : page[t] = {})
    <3>1. PICK top \in DOMAIN runs :
             /\ \A r \in DOMAIN runs : r <= top
             /\ \A t \in Tasks : \A p \in page[t] : p.intent.run <= top
      BY <2>2 DEF ListedInv, ListedRunsArePast
    <3>2. top \in KeptRuns
      BY <3>1 DEF KeptRuns, Newest
    <3>3. QED BY <1>1, <1>2, <3>1, <3>2 DEF ListedRunsArePast
  <2>3. QED BY <2>1, <2>2
<1>7. QED BY <1>4, <1>5, <1>6 DEF ListedInv

LEMMA MarkDeliveredListed ==
    ASSUME TypeInv, ListedInv, NEW t \in Tasks, MarkDelivered(t)
    PROVE  ListedInv'
<1>1. PICK p \in Current(t) :
         /\ p.id \in Pending
         /\ outbox' = [outbox EXCEPT ![p.id].delivered_at = clock]
         /\ page' = [page EXCEPT ![t] = @ \ {p}]
  BY DEF MarkDelivered
<1>2. /\ UNCHANGED <<runs, transitions, clock>> /\ DOMAIN outbox' = DOMAIN outbox
      /\ pc' = [pc EXCEPT ![t] = "dispatching"]
  BY <1>1 DEF MarkDelivered
<1>3. ASSUME NEW n \in DOMAIN outbox
      PROVE  /\ IntentOf(n)' = IntentOf(n)
             /\ outbox'[n].delivered_at \in {outbox[n].delivered_at, clock}
  <2>1. outbox[n] \in OutboxRow
    BY DEF TypeInv, TypeOK
  <2>2. QED BY <1>1, <1>2, <2>1 DEF OutboxRow, IntentOf
<1>4. \A u \in Tasks : page'[u] \subseteq page[u]
  BY <1>1 DEF TypeInv, TypeOK
<1>5. PagesStayValid'
  BY <1>2, <1>3, <1>4 DEF ListedInv, PagesStayValid
<1>6. RetainedFresh'
  BY <1>2, <1>3, <1>4 DEF ListedInv, PagesStayValid, RetainedFresh
<1>7. PagesEmptied'
  BY <1>2, <1>4 DEF TypeInv, TypeOK, ListedInv, PagesEmptied
<1>8. ListedRunsArePast'
  BY <1>2, <1>4 DEF ListedInv, ListedRunsArePast
<1>9. QED BY <1>5, <1>6, <1>7, <1>8 DEF ListedInv

LEMMA ListedStep == TypeInv /\ ForeignKeys /\ ListedInv /\ [Next]_vars => ListedInv'
<1> SUFFICES ASSUME TypeInv, ForeignKeys, ListedInv, [Next]_vars PROVE ListedInv'
  OBVIOUS
<1>1. ASSUME UNCHANGED <<store, page, clock>>,
             NEW t \in Tasks, NEW at \in Locations, pc' = [pc EXCEPT ![t] = at],
             at \in {"idle", "fetched", "recorded"} => page[t] = {}
      PROVE  ListedInv'
  BY <1>1, ShrinkingPages DEF TypeInv, TypeOK, ListedInv, PagesEmptied
<1>2. ASSUME NEW t \in Tasks,
             Fetch(t) \/ RecordUnchanged(t) \/ Return(t)
               \/ \E c \in Channels : SendAccepted(t, c) \/ SendRefused(t, c)
      PROVE  ListedInv'
  BY <1>1, <1>2
     DEF Fetch, RecordUnchanged, Return, SendAccepted, SendRefused, Locations,
         ListedInv, PagesEmptied
<1>3. ASSUME NEW t \in Tasks, UpdateFails(t) \/ RecordFailure(t) \/ Abort(t)
      PROVE  ListedInv'
  <2>1. UNCHANGED <<store, clock>>
    BY <1>3 DEF UpdateFails, RecordFailure, Abort
  <2>2. \A u \in Tasks : page'[u] \subseteq page[u]
    BY <1>3 DEF UpdateFails, RecordFailure, Abort, TypeInv, TypeOK
  <2>3. \A u \in Tasks : pc'[u] \in {"idle", "fetched", "recorded"} => page'[u] = {}
    BY <1>3 DEF UpdateFails, RecordFailure, Abort, TypeInv, TypeOK, ListedInv, PagesEmptied
  <2>4. QED BY <2>1, <2>2, <2>3, ShrinkingPages
<1>4. ASSUME Tick PROVE ListedInv'
  <2>1. UNCHANGED <<store, pc, page>> /\ \A t \in Tasks : page[t] = {}
    BY <1>4 DEF Tick, task, ListedInv, PagesEmptied
  <2>2. QED
    BY <2>1 DEF ListedInv, PagesEmptied, PagesStayValid, RetainedFresh, ListedRunsArePast, store
<1>5. ASSUME UNCHANGED vars PROVE ListedInv'
  BY <1>5, ShrinkingPages DEF vars, task, ListedInv, PagesEmptied
<1>6. QED
  BY <1>2, <1>3, <1>4, <1>5, RecordSuccessListed, ListPendingListed, MarkDeliveredListed,
     PruneListed
     DEF Next, Step

(* An update by id can only hit another notification than the one listed    *)
(* after the run of the listed one has been deleted under the dispatcher.   *)
THEOREM PagesAlwaysValid == Spec => []PagesStayValid
<1>1. Init => TypeInv /\ ForeignKeys /\ ListedInv
  BY TypeInit
     DEF Init, ListedInv, PagesEmptied, PagesStayValid, RetainedFresh, ListedRunsArePast
<1>2. TypeInv /\ ForeignKeys /\ ListedInv /\ [Next]_vars => (TypeInv /\ ForeignKeys /\ ListedInv)'
  BY TypeStep, ForeignKeysStep, ListedStep
<1>3. ListedInv => PagesStayValid
  BY DEF ListedInv
<1>4. QED BY <1>1, <1>2, <1>3, PTL DEF Spec

=============================================================================
