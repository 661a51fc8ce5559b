---------------------- MODULE OperationalAlerts_proofs ----------------------
(***************************************************************************)
(* Proofs about OperationalAlerts, for any jobs, channels, threshold and   *)
(* faults.  The columns that count a job's failures do not depend on the   *)
(* alerts: their invariant stands on its own.                              *)
(***************************************************************************)
EXTENDS OperationalAlerts, WellFoundedInduction, TLAPS

Counted ==
    /\ failures \in [Jobs -> 0..MaxCount]
    /\ failureActive \in [Jobs -> BOOLEAN]

IInv == Counted /\ StreakIsReported

LEMMA CappedCount ==
  ASSUME NEW n \in 0..MaxCount
  PROVE  Capped(n + 1) \in 0..MaxCount /\ (n >= AlertAfter => Capped(n + 1) >= AlertAfter)
BY AlertAssumption DEF Capped

(* A success, in the worker or in the process of a one-shot check.         *)
LEMMA SuccessCounts ==
  ASSUME IInv, NEW j \in Jobs, ResetHealth(j) PROVE IInv'
BY AlertAssumption DEF IInv, Counted, StreakIsReported, ResetHealth

(* A failure: the flag is set with the count that reaches the threshold.   *)
LEMMA FailureCounts ==
  ASSUME IInv, NEW j \in Jobs, CountFailure(j) PROVE IInv'
<1> DEFINE count == Capped(failures[j] + 1)
           raised == count >= AlertAfter /\ ~failureActive[j]
<1>1. /\ failures' = [failures EXCEPT ![j] = count]
      /\ failureActive' = [failureActive EXCEPT ![j] = @ \/ raised]
  BY DEF CountFailure
<1>2. failures[j] \in 0..MaxCount /\ failureActive[j] \in BOOLEAN
      /\ (failureActive[j] <=> failures[j] >= AlertAfter)
  BY DEF IInv, Counted, StreakIsReported
<1>3. count \in 0..MaxCount /\ (failures[j] >= AlertAfter => count >= AlertAfter)
  BY <1>2, CappedCount
<1>4. (failureActive[j] \/ raised) \in BOOLEAN
      /\ ((failureActive[j] \/ raised) <=> count >= AlertAfter)
  BY <1>2, <1>3
<1> HIDE DEF count, raised
<1>5. Counted'
  BY <1>1, <1>3, <1>4 DEF IInv, Counted
<1>6. StreakIsReported'
  <2> SUFFICES ASSUME NEW k \in Jobs
               PROVE  failureActive'[k] <=> failures'[k] >= AlertAfter
    BY DEF StreakIsReported
  <2>1. CASE k = j
    BY <1>1, <1>4, <2>1 DEF IInv, Counted
  <2>2. CASE k # j
    BY <1>1, <2>2 DEF IInv, Counted, StreakIsReported
  <2> QED
    BY <2>1, <2>2
<1> QED
  BY <1>5, <1>6 DEF IInv

LEMMA StreakStep == IInv /\ [Next]_vars => IInv'
<1> SUFFICES ASSUME IInv, [Next]_vars PROVE IInv'
  OBVIOUS
<1>1. ASSUME NEW j \in Jobs, RecordSuccess(j) \/ OneShotSuccess(j) PROVE IInv'
  BY <1>1, SuccessCounts DEF RecordSuccess, OneShotSuccess
<1>2. ASSUME NEW j \in Jobs, CheckFailed(j) PROVE IInv'
  BY <1>2, FailureCounts DEF CheckFailed
<1>3. ASSUME UNCHANGED <<failures, failureActive>> PROVE IInv'
  BY <1>3 DEF IInv, Counted, StreakIsReported
<1>4. ASSUME NEW j \in Jobs,
             \/ DeliveryBacklog(j) \/ SendAccepted(j) \/ SendRefused(j) \/ UpdateFails(j)
             \/ MarkDelivered(j) \/ RecordFailure(j) \/ Return(j)
             \/ NotificationsTried(j) \/ Abort(j)
      PROVE  IInv'
  BY <1>3, <1>4 DEF DeliveryBacklog, SendAccepted, SendRefused, UpdateFails, MarkDelivered,
                    RecordFailure, Return, NotificationsTried, Abort, status
<1>5. CASE UNCHANGED vars
  BY <1>3, <1>5 DEF vars, status
<1> QED
  BY <1>1, <1>2, <1>4, <1>5 DEF Next, Step

(* A job is reported exactly while its failed checks in a row have reached  *)
(* the threshold, for any threshold, jobs and channels, whichever process   *)
(* records the success between them (record_check_failure, record_success).*)
THEOREM StreaksAreReported == Spec => []StreakIsReported
<1>1. Init => IInv
  BY AlertAssumption DEF Init, IInv, Counted, StreakIsReported
<1>2. IInv => StreakIsReported
  BY DEF IInv
<1> QED
  BY <1>1, <1>2, StreakStep, PTL DEF Spec


-----------------------------------------------------------------------------
(* The table of alerts.  Ids are given out one above the largest, so a new  *)
(* row never takes the place of one that is there.                         *)

TableOK(table) ==
    /\ table \in [DOMAIN table -> Alert]
    /\ \E b \in Nat : DOMAIN table \subseteq 1..b

Has(table, key, c) == \E n \in DOMAIN table : table[n].key = key /\ table[n].channel = c

LEMMA LargestIsBound ==
  ASSUME NEW b \in Nat, NEW ids \in SUBSET (1..b)
  PROVE  Largest(ids) \in Nat /\ \A m \in ids : m <= Largest(ids)
<1>1. PICK S \in SUBSET (0..b) : S = ids \cup {0}
  <2>1. ids \cup {0} \subseteq 0..b
    OBVIOUS
  <2> QED
    BY <2>1
<1>2. PICK D \in SUBSET Nat : D = {k \in Nat : b - k \in S}
  OBVIOUS
<1>3. D # {}
  <2>1. b \in D
    BY <1>1, <1>2
  <2> QED
    BY <2>1
<1>4. PICK m \in D : \A k \in D : ~(<<k, m>> \in OpToRel(<, Nat))
  BY <1>3, WFMin, NatLessThanWellFounded, Zenon
<1>5. \A k \in D : ~(k < m)
  BY <1>4 DEF OpToRel
<1>6. PICK last \in S : last = b - m
  BY <1>2
<1>7. \A k \in S : k <= last
  <2> SUFFICES ASSUME NEW k \in S PROVE k <= last
    OBVIOUS
  <2>1. b - k \in Nat /\ b - (b - k) = k
    OBVIOUS
  <2>2. b - k \in D
    BY <1>2, <2>1
  <2>3. ~(b - k < m)
    BY <1>5, <2>2
  <2> QED
    BY <1>6, <2>1, <2>3
<1>8. PICK l : l = Largest(ids)
  OBVIOUS
<1>9. l \in ids \cup {0} /\ \A n \in ids : n <= l
  BY <1>1, <1>7, <1>8 DEF Largest
<1> QED
  BY <1>8, <1>9

LEMMA OrdersIndexed ==
  /\ Len(OpChannels) \in Nat /\ DOMAIN OpChannels = 1..Len(OpChannels)
  /\ \A i \in 1..Len(OpChannels) : OpChannels[i] \in Channels
  /\ \A c \in Channels : \E i \in 1..Len(OpChannels) : OpChannels[i] = c
  /\ Len(JobOrder) \in Nat /\ DOMAIN JobOrder = 1..Len(JobOrder)
  /\ \A i \in 1..Len(JobOrder) : JobOrder[i] \in Jobs
  /\ \A j \in Jobs : \E i \in 1..Len(JobOrder) : JobOrder[i] = j
BY AlertAssumption DEF Channels, Jobs, Range

(* What an INSERT for every channel, and a DELETE, do to the table. *)
LEMMA Enqueued ==
  ASSUME NEW table, TableOK(table), NEW key \in Keys
  PROVE  /\ TableOK(Enqueue(table, key))
         /\ \A k, c : Has(Enqueue(table, key), k, c) <=>
                         (k = key /\ c \in Channels) \/ Has(table, k, c)
         /\ \A k : Raised(table, k) => Raised(Enqueue(table, key), k)
<1>1. PICK b \in Nat : DOMAIN table \subseteq 1..b
  BY DEF TableOK
<1>2. PICK ids \in SUBSET (1..b) : ids = DOMAIN table
  BY <1>1
<1>3. PICK top \in Nat : top = Largest(ids) /\ \A n \in ids : n <= top
  BY LargestIsBound
<1>4. PICK count \in Nat : /\ count = Len(OpChannels)
                           /\ \A i \in 1..count : OpChannels[i] \in Channels
                           /\ \A c \in Channels : \E i \in 1..count : OpChannels[i] = c
  BY OrdersIndexed
<1>5. PICK new : new = Enqueue(table, key)
  OBVIOUS
<1>6. new = [n \in ids \cup (top + 1)..(top + count) |->
                IF n \in ids THEN table[n]
                ELSE [key |-> key, channel |-> OpChannels[n - top], delivered |-> FALSE]]
  BY <1>2, <1>3, <1>4, <1>5, Zenon DEF Enqueue
<1>7. /\ DOMAIN new = ids \cup (top + 1)..(top + count)
      /\ \A n \in ids : new[n] = table[n] /\ n \notin (top + 1)..(top + count)
  BY <1>3, <1>6
<1>8. \A i \in 1..count : /\ top + i \in (top + 1)..(top + count) /\ (top + i) - top = i
                          /\ top + i \notin ids
  BY <1>3, <1>7
<1>9. \A n \in (top + 1)..(top + count) :
         n - top \in 1..count /\ n \notin ids
         /\ new[n].key = key /\ new[n].channel = OpChannels[n - top] /\ new[n] \in Alert
  <2> SUFFICES ASSUME NEW n \in (top + 1)..(top + count)
               PROVE  n - top \in 1..count /\ n \notin ids
                      /\ new[n].key = key /\ new[n].channel = OpChannels[n - top]
                      /\ new[n] \in Alert
    OBVIOUS
  <2>1. n - top \in 1..count /\ n \notin ids
    BY <1>7
  <2>2. new[n] = [key |-> key, channel |-> OpChannels[n - top], delivered |-> FALSE]
    BY <1>6, <2>1
  <2> QED
    BY <1>4, <2>1, <2>2 DEF Alert
<1>10. TableOK(new)
  <2>1. \A n \in DOMAIN new : new[n] \in Alert
    BY <1>2, <1>7, <1>9 DEF TableOK
  <2>2. new \in [DOMAIN new -> Alert]
    BY <1>6, <2>1
  <2>3. top + count + b \in Nat /\ DOMAIN new \subseteq 1..(top + count + b)
    BY <1>7
  <2> QED
    BY <2>2, <2>3 DEF TableOK
<1>11. ASSUME NEW k, NEW c
       PROVE  Has(new, k, c) <=> (k = key /\ c \in Channels) \/ Has(table, k, c)
  <2>1. ASSUME Has(new, k, c) PROVE (k = key /\ c \in Channels) \/ Has(table, k, c)
    BY <1>2, <1>4, <1>7, <1>9, <2>1 DEF Has
  <2>2. ASSUME k = key, c \in Channels PROVE Has(new, k, c)
    <3>1. PICK i \in 1..count : OpChannels[i] = c
      BY <1>4, <2>2
    <3>2. top + i \in DOMAIN new /\ new[top + i].key = k /\ new[top + i].channel = c
      BY <1>7, <1>8, <1>9, <2>2, <3>1
    <3> QED
      BY <3>2 DEF Has
  <2>3. ASSUME Has(table, k, c) PROVE Has(new, k, c)
    BY <1>2, <1>7, <2>3 DEF Has
  <2> QED
    BY <2>1, <2>2, <2>3
<1>12. \A k : Raised(table, k) => Raised(new, k)
  BY <1>2, <1>7 DEF Raised
<1> QED
  BY <1>5, <1>10, <1>11, <1>12

LEMMA Withdrawn ==
  ASSUME NEW table, TableOK(table), NEW key
  PROVE  /\ TableOK(Without(table, key))
         /\ DOMAIN Without(table, key) \subseteq DOMAIN table
         /\ \A k, c : Has(Without(table, key), k, c) <=> k # key /\ Has(table, k, c)
         /\ \A k : k # key /\ Raised(table, k) => Raised(Without(table, key), k)
<1>1. PICK new : new = Without(table, key)
  OBVIOUS
<1>2. new = [n \in {m \in DOMAIN table : table[m].key # key} |-> table[n]]
  BY <1>1 DEF Without
<1>3. TableOK(new) /\ DOMAIN new \subseteq DOMAIN table
  BY <1>2 DEF TableOK
<1>4. \A k, c : Has(new, k, c) <=> k # key /\ Has(table, k, c)
  BY <1>2 DEF Has
<1>5. \A k : k # key /\ Raised(table, k) => Raised(new, k)
  BY <1>2 DEF Raised
<1> QED
  BY <1>1, <1>3, <1>4, <1>5

-----------------------------------------------------------------------------
(* The loop over the jobs: its tables exist, for any jobs. *)

(* f are the tables of the first n turns. *)
Turns(f, n, table) ==
    f = [i \in 0..n |-> IF i = 0 THEN table ELSE EvaluateBacklog(f[i - 1], JobOrder[i])]

LEMMA TurnAdded ==
  ASSUME NEW table, NEW n \in Nat, n > 0, NEW f, Turns(f, n - 1, table)
  PROVE  \E g : Turns(g, n, table)
<1>1. PICK g : g = [i \in 0..n |-> IF i = n THEN EvaluateBacklog(f[n - 1], JobOrder[n]) ELSE f[i]]
  OBVIOUS
<1>2. \A i \in 0..(n - 1) : g[i] = f[i]
  BY <1>1
<1>3. \A i \in 0..(n - 1) :
         f[i] = IF i = 0 THEN table ELSE EvaluateBacklog(f[i - 1], JobOrder[i])
  BY DEF Turns
<1>4. \A i \in 0..n :
         g[i] = IF i = 0 THEN table ELSE EvaluateBacklog(g[i - 1], JobOrder[i])
  <2> TAKE i \in 0..n
  <2>1. CASE i = n
    BY <1>1, <1>2, <2>1
  <2>2. CASE i # n
    <3>1. i \in 0..(n - 1) /\ (i = 0 \/ i - 1 \in 0..(n - 1))
      BY <2>2
    <3>2. i # 0 => g[i - 1] = f[i - 1]
      BY <1>2, <3>1
    <3> QED
      BY <1>2, <1>3, <3>1, <3>2
  <2> QED
    BY <2>1, <2>2
<1>5. g = [i \in 0..n |-> g[i]]
  BY <1>1
<1>6. Turns(g, n, table)
  BY <1>4, <1>5 DEF Turns
<1> QED
  BY <1>6

LEMMA TurnsExist == ASSUME NEW table, NEW n \in Nat PROVE \E f : Turns(f, n, table)
<1> SUFFICES ASSUME ~ \E f : Turns(f, n, table) PROVE FALSE
  OBVIOUS
<1>1. PICK D \in SUBSET Nat : D = {k \in Nat : ~ \E f : Turns(f, k, table)}
  OBVIOUS
<1>2. D # {}
  BY <1>1
<1>3. PICK m \in D : \A k \in D : ~(<<k, m>> \in OpToRel(<, Nat))
  BY <1>2, WFMin, NatLessThanWellFounded, Zenon
<1>4. \A k \in Nat : k < m => \E f : Turns(f, k, table)
  BY <1>1, <1>3 DEF OpToRel
<1>5. CASE m = 0
  <2>1. PICK f : f = [i \in 0..0 |-> table]
    OBVIOUS
  <2>2. Turns(f, 0, table)
    BY <2>1 DEF Turns
  <2> QED
    BY <1>1, <1>5, <2>2
<1>6. CASE m > 0
  <2>1. m - 1 \in Nat /\ m - 1 < m
    BY <1>6
  <2>2. PICK f : Turns(f, m - 1, table)
    BY <1>4, <2>1
  <2> QED
    BY <1>1, <1>6, <2>2, TurnAdded
<1> QED
  BY <1>5, <1>6

LEMMA TablesTurn ==
  ASSUME NEW table
  PROVE  /\ BacklogTables(table)[0] = table
         /\ \A i \in 1..Len(JobOrder) :
               BacklogTables(table)[i] = EvaluateBacklog(BacklogTables(table)[i - 1], JobOrder[i])
<1>1. Len(JobOrder) \in Nat
  BY OrdersIndexed
<1>2. \E f : Turns(f, Len(JobOrder), table)
  BY <1>1, TurnsExist
<1>3. PICK t : t = BacklogTables(table)
  OBVIOUS
<1>4. t = CHOOSE f : f = [i \in 0..Len(JobOrder) |->
                            IF i = 0 THEN table ELSE EvaluateBacklog(f[i - 1], JobOrder[i])]
  BY <1>3 DEF BacklogTables
<1>5. Turns(t, Len(JobOrder), table)
  BY <1>2, <1>4, Zenon DEF Turns
<1>6. /\ t[0] = table
      /\ \A i \in 1..Len(JobOrder) : t[i] = EvaluateBacklog(t[i - 1], JobOrder[i])
  BY <1>1, <1>5 DEF Turns
<1> QED
  BY <1>3, <1>6

-----------------------------------------------------------------------------
(* What the loop has done to the table after i turns: the jobs before that  *)
(* have the rows their backlog asks for, the others those they had.         *)

Failing(j) == Key("check-failure", j)
Behind(j) == Key("delivery-backlog", j)

LEMMA KeysDiffer ==
  /\ \A j, k : Failing(j) # Behind(k)
  /\ \A j, k : Failing(j) = Failing(k) => j = k
  /\ \A j, k : Behind(j) = Behind(k) => j = k
  /\ \A j \in Jobs : Failing(j) \in Keys /\ Behind(j) \in Keys
<1>1. \A j, k : Failing(j).kind # Behind(k).kind
  BY DEF Failing, Behind, Key
<1>2. \A j : Failing(j).job = j /\ Behind(j).job = j
  BY DEF Failing, Behind, Key
<1>3. \A j \in Jobs : Failing(j) \in Keys /\ Behind(j) \in Keys
  BY DEF Failing, Behind, Key, Keys, Kinds
<1> QED
  BY <1>1, <1>2, <1>3

Done(i) == {JobOrder[m] : m \in 1..i}

Evaluated(t, i) ==
    /\ TableOK(t)
    /\ \A k \in Jobs :
          /\ \A c \in Channels : Has(t, Failing(k), c) <=> Has(alerts, Failing(k), c)
          /\ \A c \in Channels : Has(t, Behind(k), c) <=>
                IF k \in known /\ k \in Done(i) THEN Backlogged(k) ELSE Has(alerts, Behind(k), c)
          /\ Raised(alerts, Failing(k)) => Raised(t, Failing(k))
          /\ Raised(alerts, Behind(k)) /\ Backlogged(k) => Raised(t, Behind(k))

LEMMA TurnEvaluates ==
  ASSUME FlagsMatchRows, NEW i \in 1..Len(JobOrder), NEW t, Evaluated(t, i - 1)
  PROVE  Evaluated(EvaluateBacklog(t, JobOrder[i]), i)
<1>1. PICK j \in Jobs : j = JobOrder[i]
  BY OrdersIndexed
<1>2. Done(i) = Done(i - 1) \cup {j} /\ Len(JobOrder) \in Nat
  <2>1. Len(JobOrder) \in Nat
    BY OrdersIndexed
  <2>2. \A m \in Int : m \in 1..i <=> m \in 1..(i - 1) \/ m = i
    BY <2>1
  <2>3. 1..i = 1..(i - 1) \cup {i}
    BY <2>1, <2>2
  <2> QED
    BY <1>1, <2>1, <2>3, Zenon DEF Done
<1>3. \A c \in Channels : deliveryActive[j] <=> Has(alerts, Behind(j), c)
  BY DEF FlagsMatchRows, Has, Behind
<1>4. TableOK(t) /\ Behind(j) \in Keys
  BY KeysDiffer DEF Evaluated
<1>5. PICK u : u = EvaluateBacklog(t, j)
  OBVIOUS
<1>6. CASE j \in known /\ Backlogged(j) /\ ~deliveryActive[j]
  <2>1. u = Enqueue(t, Behind(j))
    BY <1>5, <1>6 DEF EvaluateBacklog, Behind
  <2>2. /\ TableOK(u)
        /\ \A k, c : Has(u, k, c) <=> (k = Behind(j) /\ c \in Channels) \/ Has(t, k, c)
        /\ \A k : Raised(t, k) => Raised(u, k)
    BY <1>4, <2>1, Enqueued
  <2> QED
    BY <1>1, <1>2, <1>5, <1>6, <2>2, KeysDiffer DEF Evaluated
<1>7. CASE j \in known /\ ~Backlogged(j) /\ deliveryActive[j]
  <2>1. u = Without(t, Behind(j))
    BY <1>5, <1>7 DEF EvaluateBacklog, Behind
  <2>2. /\ TableOK(u)
        /\ \A k, c : Has(u, k, c) <=> k # Behind(j) /\ Has(t, k, c)
        /\ \A k : k # Behind(j) /\ Raised(t, k) => Raised(u, k)
    BY <1>4, <2>1, Withdrawn
  <2> QED
    BY <1>1, <1>2, <1>5, <1>7, <2>2, KeysDiffer DEF Evaluated
<1>8. CASE ~(j \in known /\ Backlogged(j) /\ ~deliveryActive[j])
           /\ ~(j \in known /\ ~Backlogged(j) /\ deliveryActive[j])
  <2>1. u = t
    BY <1>5, <1>8 DEF EvaluateBacklog
  <2> QED
    BY <1>1, <1>2, <1>3, <1>5, <1>8, <2>1 DEF Evaluated
<1> QED
  BY <1>6, <1>7, <1>8

LEMMA LoopEvaluates ==
  ASSUME FlagsMatchRows, TableOK(alerts), NEW i \in 0..Len(JobOrder)
  PROVE  Evaluated(BacklogTables(alerts)[i], i)
<1>1. PICK t : t = BacklogTables(alerts)
  OBVIOUS
<1>2. /\ t[0] = alerts
      /\ \A k \in 1..Len(JobOrder) : t[k] = EvaluateBacklog(t[k - 1], JobOrder[k])
      /\ Len(JobOrder) \in Nat
  BY <1>1, TablesTurn, OrdersIndexed
<1>3. Evaluated(t[0], 0)
  <2>1. Done(0) = {}
    BY DEF Done
  <2> QED
    BY <1>2, <2>1 DEF Evaluated
<1> SUFFICES ASSUME ~Evaluated(t[i], i) PROVE FALSE
  BY <1>1
<1>4. PICK D \in SUBSET Nat : D = {k \in Nat : k <= Len(JobOrder) /\ ~Evaluated(t[k], k)}
  OBVIOUS
<1>5. D # {}
  BY <1>4
<1>6. PICK m \in D : \A k \in D : ~(<<k, m>> \in OpToRel(<, Nat))
  BY <1>5, WFMin, NatLessThanWellFounded, Zenon
<1>7. m \in 1..Len(JobOrder) /\ m - 1 \in Nat /\ m - 1 <= Len(JobOrder) /\ m - 1 \notin D
  <2>1. m # 0
    BY <1>3, <1>4
  <2>2. m \in Nat /\ m - 1 \in Nat /\ m - 1 < m
    BY <1>4, <2>1
  <2>3. m - 1 \notin D
    BY <1>6, <2>2 DEF OpToRel
  <2> QED
    BY <1>2, <1>4, <2>1, <2>2, <2>3
<1>8. Evaluated(t[m - 1], m - 1)
  BY <1>4, <1>7
<1>9. Evaluated(t[m], m)
  BY <1>2, <1>7, <1>8, TurnEvaluates
<1> QED
  BY <1>4, <1>9

LEMMA AllEvaluated ==
  ASSUME FlagsMatchRows, TableOK(alerts), NEW t, t = BacklogTables(alerts)[Len(JobOrder)]
  PROVE  /\ TableOK(t)
         /\ \A k \in Jobs :
               /\ \A c \in Channels : Has(t, Failing(k), c) <=> Has(alerts, Failing(k), c)
               /\ \A c \in Channels : Has(t, Behind(k), c) <=>
                     IF k \in known THEN Backlogged(k) ELSE Has(alerts, Behind(k), c)
               /\ Raised(alerts, Failing(k)) => Raised(t, Failing(k))
               /\ Raised(alerts, Behind(k)) /\ Backlogged(k) => Raised(t, Behind(k))
<1>1. Len(JobOrder) \in 0..Len(JobOrder) /\ \A k \in Jobs : k \in Done(Len(JobOrder))
  BY OrdersIndexed DEF Done
<1>2. Evaluated(t, Len(JobOrder))
  BY <1>1, LoopEvaluates
<1> QED
  BY <1>1, <1>2 DEF Evaluated

-----------------------------------------------------------------------------
(* The flags and the rows, action by action. *)

RowsInv == TypeOK /\ DOMAIN alerts \subseteq 1..MaxAlertId /\ FlagsMatchRows

(* The flags match a table. *)
Matches(failing, behind, table) ==
    \A j \in Jobs, c \in Channels : /\ failing[j] <=> Has(table, Failing(j), c)
                                    /\ behind[j] <=> Has(table, Behind(j), c)

LEMMA FlagsMatch == FlagsMatchRows <=> Matches(failureActive, deliveryActive, alerts)
BY DEF FlagsMatchRows, Matches, Has, Failing, Behind

LEMMA FlagsMatchNext ==
  FlagsMatchRows' <=> Matches(failureActive', deliveryActive', alerts')
BY DEF FlagsMatchRows, Matches, Has, Failing, Behind

LEMMA AlertsTable == RowsInv => TableOK(alerts)
BY AlertAssumption DEF RowsInv, TypeOK, TableOK

Statuses == {"idle", "notifying", "dispatching", "accepted", "raised"}
Pages == SUBSET [id : Nat, key : Keys, channel : Channels]

(* What the health columns and the table are after a success or a failure. *)
HealthOK ==
    /\ known' \subseteq Jobs /\ failures' \in [Jobs -> 0..MaxCount]
    /\ failureActive' \in [Jobs -> BOOLEAN] /\ deliveryActive' \in [Jobs -> BOOLEAN]
    /\ TableOK(alerts') /\ DOMAIN alerts' \subseteq 1..MaxAlertId /\ FlagsMatchRows'

LEMMA ResetOK ==
  ASSUME RowsInv, NEW j \in Jobs, ResetHealth(j)
  PROVE  /\ HealthOK
         /\ \A k : k # Failing(j) /\ Raised(alerts, k) => Raised(alerts', k)
<1>1. PICK new : new = Without(alerts, Failing(j))
  OBVIOUS
<1>2. /\ known' = known \cup {j} /\ failures' = [failures EXCEPT ![j] = 0]
      /\ failureActive' = [failureActive EXCEPT ![j] = FALSE]
      /\ deliveryActive' = deliveryActive /\ alerts' = new
  BY <1>1 DEF ResetHealth, Failing
<1>3. /\ TableOK(new) /\ DOMAIN new \subseteq DOMAIN alerts
      /\ \A k, c : Has(new, k, c) <=> k # Failing(j) /\ Has(alerts, k, c)
      /\ \A k : k # Failing(j) /\ Raised(alerts, k) => Raised(new, k)
  BY <1>1, AlertsTable, Withdrawn
<1>4. /\ known' \subseteq Jobs /\ failures' \in [Jobs -> 0..MaxCount]
      /\ failureActive' \in [Jobs -> BOOLEAN] /\ deliveryActive' \in [Jobs -> BOOLEAN]
  BY <1>2, AlertAssumption DEF RowsInv, TypeOK
<1>5. Matches(failureActive, deliveryActive, alerts) /\ failureActive \in [Jobs -> BOOLEAN]
  BY FlagsMatch DEF RowsInv, TypeOK
<1>6. PICK failing : failing = failureActive'
  OBVIOUS
<1>7. failing[j] = FALSE /\ \A k \in Jobs : k # j => failing[k] = failureActive[k]
  BY <1>2, <1>5, <1>6
<1>8. Matches(failing, deliveryActive, new)
  BY <1>3, <1>5, <1>7, KeysDiffer DEF Matches
<1>9. FlagsMatchRows'
  BY <1>2, <1>6, <1>8, FlagsMatchNext
<1> QED
  BY <1>2, <1>3, <1>4, <1>9 DEF HealthOK, RowsInv

LEMMA CountOK ==
  ASSUME RowsInv, NEW j \in Jobs, CheckFailed(j)
  PROVE  HealthOK /\ \A k : Raised(alerts, k) => Raised(alerts', k)
<1>1. PICK count : count = Capped(failures[j] + 1)
  OBVIOUS
<1>2. PICK raised \in BOOLEAN : raised = (count >= AlertAfter /\ ~failureActive[j])
  OBVIOUS
<1>3. PICK new : new = IF raised THEN Enqueue(alerts, Failing(j)) ELSE alerts
  OBVIOUS
<1>4. /\ known' = known \cup {j} /\ failures' = [failures EXCEPT ![j] = count]
      /\ failureActive' = [failureActive EXCEPT ![j] = @ \/ raised]
      /\ alerts' = new /\ Committed(new)
      /\ deliveryActive' = deliveryActive
  BY <1>1, <1>2, <1>3, Zenon DEF CheckFailed, CountFailure, Failing
<1>5. /\ known \subseteq Jobs /\ failures \in [Jobs -> 0..MaxCount]
      /\ failureActive \in [Jobs -> BOOLEAN] /\ deliveryActive \in [Jobs -> BOOLEAN]
      /\ TableOK(alerts) /\ Matches(failureActive, deliveryActive, alerts)
      /\ DOMAIN alerts \subseteq 1..MaxAlertId
  BY AlertsTable, FlagsMatch DEF RowsInv, TypeOK
<1>6. count \in 0..MaxCount
  BY <1>1, <1>5, CappedCount
<1>7. /\ TableOK(new)
      /\ \A k, c : Has(new, k, c) <=> (raised /\ k = Failing(j) /\ c \in Channels) \/ Has(alerts, k, c)
      /\ \A k : Raised(alerts, k) => Raised(new, k)
  <2>1. CASE raised
    BY <1>3, <1>5, <2>1, Enqueued, KeysDiffer
  <2>2. CASE ~raised
    BY <1>3, <1>5, <2>2
  <2> QED
    BY <2>1, <2>2
<1>8. PICK failing : failing = failureActive'
  OBVIOUS
<1>9. failing[j] = (failureActive[j] \/ raised) /\ \A k \in Jobs : k # j => failing[k] = failureActive[k]
  BY <1>4, <1>5, <1>8
<1>10. Matches(failing, deliveryActive, new)
  BY <1>5, <1>7, <1>9, KeysDiffer DEF Matches
<1>11. FlagsMatchRows'
  BY <1>4, <1>8, <1>10, FlagsMatchNext
<1>12. /\ known' \subseteq Jobs /\ failures' \in [Jobs -> 0..MaxCount]
       /\ failureActive' \in [Jobs -> BOOLEAN] /\ deliveryActive' \in [Jobs -> BOOLEAN]
  BY <1>2, <1>4, <1>5, <1>6
<1>13. TableOK(alerts') /\ DOMAIN alerts' \subseteq 1..MaxAlertId
  BY <1>4, <1>7 DEF Committed
<1> QED
  BY <1>4, <1>7, <1>11, <1>12, <1>13 DEF HealthOK

LEMMA BacklogOK ==
  ASSUME RowsInv, NEW j \in Jobs, DeliveryBacklog(j)
  PROVE  /\ HealthOK
         /\ \A k \in Jobs : /\ Raised(alerts, Failing(k)) => Raised(alerts', Failing(k))
                            /\ Raised(alerts, Behind(k)) /\ Backlogged(k) => Raised(alerts', Behind(k))
<1>1. PICK new : new = BacklogTables(alerts)[Len(JobOrder)]
  OBVIOUS
<1>2. /\ alerts' = new /\ Committed(new) /\ UNCHANGED <<known, failures, failureActive>>
      /\ deliveryActive' = [k \in Jobs |-> IF k \in known THEN Backlogged(k) ELSE deliveryActive[k]]
  BY <1>1, Zenon DEF DeliveryBacklog
<1>3. /\ known \subseteq Jobs /\ failures \in [Jobs -> 0..MaxCount]
      /\ failureActive \in [Jobs -> BOOLEAN] /\ deliveryActive \in [Jobs -> BOOLEAN]
      /\ TableOK(alerts) /\ FlagsMatchRows /\ Matches(failureActive, deliveryActive, alerts)
  BY AlertsTable, FlagsMatch DEF RowsInv, TypeOK
<1>4. /\ TableOK(new)
      /\ \A k \in Jobs :
            /\ \A c \in Channels : Has(new, Failing(k), c) <=> Has(alerts, Failing(k), c)
            /\ \A c \in Channels : Has(new, Behind(k), c) <=>
                  IF k \in known THEN Backlogged(k) ELSE Has(alerts, Behind(k), c)
            /\ Raised(alerts, Failing(k)) => Raised(new, Failing(k))
            /\ Raised(alerts, Behind(k)) /\ Backlogged(k) => Raised(new, Behind(k))
  BY <1>1, <1>3, AllEvaluated
<1>5. \A k : Backlogged(k) \in BOOLEAN
  BY DEF Backlogged
<1>6. PICK behind : behind = deliveryActive'
  OBVIOUS
<1>7. \A k \in Jobs : behind[k] = IF k \in known THEN Backlogged(k) ELSE deliveryActive[k]
  BY <1>2, <1>6
<1>8. Matches(failureActive, behind, new)
  BY <1>3, <1>4, <1>7 DEF Matches
<1>9. FlagsMatchRows'
  BY <1>2, <1>6, <1>8, FlagsMatchNext
<1>10. deliveryActive' \in [Jobs -> BOOLEAN]
  BY <1>2, <1>3, <1>5
<1>11. TableOK(alerts') /\ DOMAIN alerts' \subseteq 1..MaxAlertId
  BY <1>2, <1>4 DEF Committed
<1> QED
  BY <1>2, <1>3, <1>4, <1>9, <1>10, <1>11 DEF HealthOK

LEMMA ListedTyped ==
  ASSUME NEW table, TableOK(table) PROVE Listed(table) \in Pages
<1>1. \A n \in DOMAIN table : n \in Nat /\ table[n] \in Alert
  BY DEF TableOK
<1> QED
  BY <1>1 DEF Listed, Pages, Alert

(* A row that is marked delivered keeps its key and its channel. *)
LEMMA MarkOK ==
  ASSUME RowsInv, NEW id \in Pending, alerts' = [alerts EXCEPT ![id].delivered = TRUE]
  PROVE  /\ TableOK(alerts') /\ DOMAIN alerts' = DOMAIN alerts
         /\ \A n \in DOMAIN alerts : /\ alerts'[n].key = alerts[n].key
                                     /\ alerts'[n].channel = alerts[n].channel
<1>1. PICK old : old = alerts
  OBVIOUS
<1>2. TableOK(old) /\ id \in DOMAIN old
  BY <1>1, AlertsTable DEF Pending
<1>3. PICK new : new = [old EXCEPT ![id] = [old[id] EXCEPT !.delivered = TRUE]]
  OBVIOUS
<1>4. alerts' = new
  BY <1>1, <1>3
<1>5. old[id] \in Alert
  BY <1>2 DEF TableOK
<1>6. /\ [old[id] EXCEPT !.delivered = TRUE] \in Alert
      /\ [old[id] EXCEPT !.delivered = TRUE].key = old[id].key
      /\ [old[id] EXCEPT !.delivered = TRUE].channel = old[id].channel
  BY <1>5 DEF Alert
<1>7. /\ DOMAIN new = DOMAIN old
      /\ \A n \in DOMAIN old : new[n] = IF n = id THEN [old[id] EXCEPT !.delivered = TRUE] ELSE old[n]
  BY <1>3
<1>8. new \in [DOMAIN new -> Alert]
  BY <1>2, <1>3, <1>6 DEF TableOK
<1>9. TableOK(new)
  BY <1>2, <1>7, <1>8 DEF TableOK
<1> QED
  BY <1>1, <1>4, <1>6, <1>7, <1>9

LEMMA MarkedOK ==
  ASSUME RowsInv, NEW id \in Pending, alerts' = [alerts EXCEPT ![id].delivered = TRUE],
         UNCHANGED status
  PROVE  /\ HealthOK
         /\ \A k : Raised(alerts, k) => Raised(alerts', k)
<1>1. /\ TableOK(alerts') /\ DOMAIN alerts' = DOMAIN alerts
      /\ \A n \in DOMAIN alerts : /\ alerts'[n].key = alerts[n].key
                                  /\ alerts'[n].channel = alerts[n].channel
  BY MarkOK
<1>2. \A k, c : Has(alerts', k, c) <=> Has(alerts, k, c)
  BY <1>1 DEF Has
<1>3. FlagsMatchRows'
  BY <1>2, FlagsMatch, FlagsMatchNext DEF RowsInv, Matches, status
<1>4. \A k : Raised(alerts, k) => Raised(alerts', k)
  BY <1>1 DEF Raised
<1> QED
  BY <1>1, <1>3, <1>4 DEF HealthOK, RowsInv, TypeOK, status

LEMMA StatusKept ==
  ASSUME RowsInv, UNCHANGED <<status, alerts>> PROVE HealthOK
<1>1. FlagsMatchRows'
  BY FlagsMatch, FlagsMatchNext DEF RowsInv, Matches, status
<1>2. TableOK(alerts')
  BY AlertsTable
<1> QED
  BY <1>1, <1>2 DEF HealthOK, RowsInv, TypeOK, status

LEMMA RowsKeep ==
  ASSUME HealthOK, backlog' \in [Jobs -> 0..MaxCount \cup {Null}], pc' \in [Jobs -> Statuses],
         page' \in [Jobs -> Pages]
  PROVE  RowsInv'
<1>1. DOMAIN alerts' \subseteq Nat /\ alerts' \in [DOMAIN alerts' -> Alert]
  BY DEF HealthOK, TableOK
<1>2. TypeOK'
  BY <1>1 DEF HealthOK, TypeOK, Statuses, Pages, Alert, Keys, Kinds
<1> QED
  BY <1>2 DEF RowsInv, HealthOK

LEMMA RowsStep == RowsInv /\ [Next]_vars => RowsInv'
<1> SUFFICES ASSUME RowsInv, [Next]_vars PROVE RowsInv'
  OBVIOUS
<1>1. /\ backlog \in [Jobs -> 0..MaxCount \cup {Null}] /\ pc \in [Jobs -> Statuses]
      /\ page \in [Jobs -> Pages] /\ 0 \in 0..MaxCount
  BY AlertAssumption DEF RowsInv, TypeOK, Statuses, Pages
<1>2. ASSUME NEW j \in Jobs, RecordSuccess(j) \/ OneShotSuccess(j) PROVE RowsInv'
  <2>1. HealthOK
    BY <1>2, ResetOK DEF RecordSuccess, OneShotSuccess
  <2>2. backlog' \in [Jobs -> 0..MaxCount \cup {Null}]
    BY <1>1, <1>2 DEF RecordSuccess, OneShotSuccess
  <2>3. pc' \in [Jobs -> Statuses] /\ page' \in [Jobs -> Pages]
    BY <1>1, <1>2 DEF RecordSuccess, OneShotSuccess, Statuses
  <2> QED
    BY <2>1, <2>2, <2>3, RowsKeep
<1>3. ASSUME NEW j \in Jobs, CheckFailed(j) PROVE RowsInv'
  <2>1. HealthOK
    BY <1>3, CountOK
  <2>2. PICK listed \in Pages : listed = Listed(alerts')
    BY <2>1, ListedTyped DEF HealthOK
  <2>3. page' = [page EXCEPT ![j] = listed] /\ pc' = [pc EXCEPT ![j] = "dispatching"]
        /\ backlog' = backlog
    BY <1>3, <2>2 DEF CheckFailed
  <2>4. pc' \in [Jobs -> Statuses] /\ page' \in [Jobs -> Pages]
    BY <1>1, <2>3 DEF Statuses
  <2> QED
    BY <1>1, <2>1, <2>3, <2>4, RowsKeep
<1>4. ASSUME NEW j \in Jobs, DeliveryBacklog(j) PROVE RowsInv'
  <2>1. HealthOK
    BY <1>4, BacklogOK
  <2>2. PICK listed \in Pages : listed = Listed(alerts')
    BY <2>1, ListedTyped DEF HealthOK
  <2>3. page' = [page EXCEPT ![j] = listed] /\ pc' = [pc EXCEPT ![j] = "dispatching"]
        /\ backlog' = backlog
    BY <1>4, <2>2, Zenon DEF DeliveryBacklog
  <2>4. pc' \in [Jobs -> Statuses] /\ page' \in [Jobs -> Pages]
    BY <1>1, <2>3 DEF Statuses
  <2> QED
    BY <1>1, <2>1, <2>3, <2>4, RowsKeep
<1>5. ASSUME NEW j \in Jobs, MarkDelivered(j) PROVE RowsInv'
  <2>1. PICK p \in Current(j) : /\ p.id \in Pending
                                /\ alerts' = [alerts EXCEPT ![p.id].delivered = TRUE]
                                /\ page' = [page EXCEPT ![j] = @ \ {p}]
    BY <1>5 DEF MarkDelivered
  <2>2. HealthOK
    BY <1>5, <2>1, MarkedOK DEF MarkDelivered
  <2>3. pc' \in [Jobs -> Statuses] /\ page' \in [Jobs -> Pages] /\ backlog' = backlog
    BY <1>1, <1>5, <2>1 DEF MarkDelivered, Statuses, Pages
  <2> QED
    BY <1>1, <2>2, <2>3, RowsKeep
<1>6. ASSUME NEW j \in Jobs, NotificationsTried(j) PROVE RowsInv'
  <2>1. PICK tried \in {Null} \cup 0..Capped(backlog[j] + 1) : backlog' = [backlog EXCEPT ![j] = tried]
    BY <1>6 DEF NotificationsTried
  <2>2. backlog[j] \in 0..MaxCount
    BY <1>1, <1>6 DEF NotificationsTried
  <2>3. tried \in 0..MaxCount \cup {Null}
    BY <2>2, CappedCount, AlertAssumption
  <2>4. backlog' \in [Jobs -> 0..MaxCount \cup {Null}]
    BY <1>1, <2>1, <2>3
  <2> QED
    BY <1>1, <1>6, <2>4, StatusKept, RowsKeep DEF NotificationsTried
<1>7. ASSUME NEW j \in Jobs,
             \/ SendAccepted(j) \/ SendRefused(j) \/ UpdateFails(j) \/ RecordFailure(j)
             \/ Return(j) \/ Abort(j)
      PROVE  RowsInv'
  <2>1. UNCHANGED <<status, alerts, backlog>>
    BY <1>7 DEF SendAccepted, SendRefused, UpdateFails, RecordFailure, Return, Abort
  <2>2. pc' \in [Jobs -> Statuses]
    BY <1>1, <1>7 DEF SendAccepted, SendRefused, UpdateFails, RecordFailure, Return, Abort, Statuses
  <2>3. page' \in [Jobs -> Pages]
    BY <1>1, <1>7 DEF SendAccepted, SendRefused, UpdateFails, RecordFailure, Return, Abort, Pages
  <2> QED
    BY <1>1, <2>1, <2>2, <2>3, StatusKept, RowsKeep
<1>8. CASE UNCHANGED vars
  BY <1>1, <1>8, StatusKept, RowsKeep DEF vars
<1> QED
  BY <1>2, <1>3, <1>4, <1>5, <1>6, <1>7, <1>8 DEF Next, Step

LEMMA RowsInit == Init => RowsInv
<1> SUFFICES ASSUME Init PROVE RowsInv
  OBVIOUS
<1>1. DOMAIN alerts = {}
  BY DEF Init
<1>2. TypeOK
  BY <1>1, AlertAssumption DEF Init, TypeOK
<1>3. FlagsMatchRows
  BY <1>1 DEF Init, FlagsMatchRows
<1> QED
  BY <1>1, <1>2, <1>3 DEF RowsInv

LEMMA RowsInvariant == Spec => []RowsInv
  BY RowsInit, RowsStep, PTL DEF Spec

(* Every table, count and page has its declared type. *)
THEOREM AlertsTyped == Spec => []TypeOK
<1>1. RowsInv => TypeOK
  BY DEF RowsInv
<1> QED
  BY <1>1, RowsInvariant, PTL

(* The two flags of a job in job_status are set exactly while the rows of   *)
(* their alerts exist, for any jobs, channels, threshold and faults, and    *)
(* however many tasks and processes write the tables (record_success,      *)
(* record_check_failure, raise_delivery_backlog_alerts).                    *)
THEOREM FlagsAreRows == Spec => []FlagsMatchRows
<1>1. RowsInv => FlagsMatchRows
  BY DEF RowsInv
<1> QED
  BY <1>1, RowsInvariant, PTL

(* No alert is withdrawn before what it reports is over. *)
THEOREM WithdrawnIsOver == Spec => WithdrawnWhenOver
<1> DEFINE Over ==
      \A j \in Jobs :
          /\ Raised(alerts, Key("check-failure", j)) /\ ~Raised(alerts', Key("check-failure", j))
                => failures'[j] = 0
          /\ Raised(alerts, Key("delivery-backlog", j))
                /\ ~Raised(alerts', Key("delivery-backlog", j))
                => ~Backlogged(j)
<1>1. RowsInv /\ [Next]_vars => Over
  <2> SUFFICES ASSUME RowsInv, [Next]_vars PROVE Over
    OBVIOUS
  <2>1. ASSUME NEW j \in Jobs, RecordSuccess(j) \/ OneShotSuccess(j) PROVE Over
    <3>1. ResetHealth(j)
      BY <2>1 DEF RecordSuccess, OneShotSuccess
    <3>2. /\ \A k : k # Failing(j) /\ Raised(alerts, k) => Raised(alerts', k)
          /\ failures' = [failures EXCEPT ![j] = 0] /\ failures \in [Jobs -> 0..MaxCount]
      BY <3>1, ResetOK DEF ResetHealth, RowsInv, TypeOK
    <3> QED
      BY <3>2, KeysDiffer DEF Failing, Behind
  <2>2. ASSUME NEW j \in Jobs, CheckFailed(j) PROVE Over
    BY <2>2, CountOK
  <2>3. ASSUME NEW j \in Jobs, DeliveryBacklog(j) PROVE Over
    BY <2>3, BacklogOK DEF Failing, Behind
  <2>4. ASSUME NEW j \in Jobs, MarkDelivered(j) PROVE Over
    BY <2>4, MarkedOK DEF MarkDelivered
  <2>5. CASE UNCHANGED alerts
    BY <2>5
  <2> QED
    BY <2>1, <2>2, <2>3, <2>4, <2>5
       DEF Next, Step, SendAccepted, SendRefused, UpdateFails, RecordFailure, Return, Abort,
           NotificationsTried, vars
<1> QED
  BY <1>1, RowsInvariant, PTL DEF Spec, WithdrawnWhenOver
=============================================================================
