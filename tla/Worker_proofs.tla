---------------------------- MODULE Worker_proofs ----------------------------
(***************************************************************************)
(* The worker keeps the accounts of OperationalAlerts, for any jobs,       *)
(* channels, attempts and bounds.  Where an execution is agrees with where *)
(* the accounting is, and a dispatch of notifications changes the backlog  *)
(* of one job only, by one attempt at most.                                *)
(***************************************************************************)
EXTENDS Worker, TLAPS

W == INSTANCE WellFoundedInduction
S == INSTANCE SequenceTheorems
Accounts == INSTANCE OperationalAlerts_proofs WITH backlog <- Backlog, Faults <- {"abort", "refuse"}

Row == [id : Ids, job : Jobs, attempts : 0..MaxCount]

(* The stage of an execution and that of its health accounting. *)
Stages ==
    /\ at \in [Jobs -> {"checking", "failed", "dispatching", "alerting"}]
    /\ \A j \in Jobs :
          /\ at[j] \in {"checking", "failed"} => pc[j] = "idle"
          /\ at[j] = "dispatching" => pc[j] = "notifying"
          /\ at[j] = "alerting" => pc[j] \in {"dispatching", "accepted", "raised"}

Shapes ==
    /\ outbox \in Seq(Row)
    /\ pc \in [Jobs -> {"idle", "notifying", "dispatching", "accepted", "raised"}]
    /\ DOMAIN page = Jobs /\ page = [j \in Jobs |-> page[j]]
    /\ \A j \in Jobs : pc[j] \in {"idle", "notifying"} => page[j] = {}

IInv == Stages /\ Shapes

(* What else an execution keeps: its attempt, and the ids it has listed. *)
Lists ==
    /\ attempt \in [Jobs -> 1..MaxAttempts]
    /\ listed \in [Jobs -> Seq(Ids)]

-----------------------------------------------------------------------------
(* The largest number of attempts. *)

LEMMA Counts == MaxCount \in Nat /\ Null \notin Nat /\ Null \notin 0..MaxCount
BY WorkerAssumption

(* A set of counts that is not empty has a maximum, and Max is it.         *)
LEMMA MaxIsLargest ==
  ASSUME NEW C \in SUBSET (0..MaxCount), C # {}
  PROVE  Max(C) \in C /\ \A n \in C : n <= Max(C)
<1> DEFINE D == {m \in Nat : \E n \in C : m = MaxCount - n}
<1>0. MaxCount \in Nat
  BY Counts
<1>1. D \subseteq Nat /\ D # {}
  <2>1. PICK n \in C : TRUE
    OBVIOUS
  <2>2. MaxCount - n \in D
    BY <1>0, <2>1
  <2> QED
    BY <2>2
<1>2. PICK m \in D : \A k \in D : ~(<<k, m>> \in W!OpToRel(<, Nat))
  BY <1>1, W!WFMin, W!NatLessThanWellFounded, Zenon
<1>3. \A k \in D : ~(k < m)
  BY <1>1, <1>2 DEF W!OpToRel
<1>4. PICK top \in C : m = MaxCount - top
  BY <1>2
<1>5. \A n \in C : n <= top
  <2> SUFFICES ASSUME NEW n \in C PROVE n <= top
    OBVIOUS
  <2>1. MaxCount - n \in D /\ n \in Nat /\ top \in Nat /\ n <= MaxCount
    BY <1>0
  <2>2. ~(MaxCount - n < m)
    BY <1>3, <2>1
  <2> QED
    BY <1>0, <1>4, <2>1, <2>2
<1>6. \E x \in C : \A y \in C : x >= y
  BY <1>4, <1>5
<1>7. Max(C) \in C /\ \A y \in C : Max(C) >= y
  BY <1>6, Zenon DEF Max
<1> QED
  BY <1>0, <1>7

LEMMA MaxUnique ==
  ASSUME NEW C \in SUBSET (0..MaxCount), NEW m \in C, \A n \in C : n <= m
  PROVE  Max(C) = m
<1>1. Max(C) \in C /\ m <= Max(C) /\ Max(C) <= m
  BY MaxIsLargest
<1>2. \A n \in C : n \in Int
  BY Counts
<1>3. \A x, y \in Int : x <= y /\ y <= x => x = y
  OBVIOUS
<1> QED
  BY <1>1, <1>2, <1>3, Zenon

(* The attempts of the rows of a job. *)
Attempts(j) == {r.attempts : r \in RowsOf(j)}

LEMMA AttemptsTyped ==
  ASSUME outbox \in Seq(Row), NEW j \in Jobs
  PROVE  /\ Attempts(j) \in SUBSET (0..MaxCount)
         /\ RowsOf(j) = {} <=> Attempts(j) = {}
         /\ Backlog[j] = IF Attempts(j) = {} THEN Null ELSE Max(Attempts(j))
<1>1. \A i \in DOMAIN outbox : outbox[i] \in Row
  OBVIOUS
<1>2. RowsOf(j) \subseteq Row
  BY <1>1 DEF RowsOf
<1>3. Attempts(j) \in SUBSET (0..MaxCount)
  BY <1>2 DEF Attempts, Row
<1>4. RowsOf(j) = {} <=> Attempts(j) = {}
  BY DEF Attempts
<1> QED
  BY <1>3, <1>4 DEF Backlog, Attempts

(* What is left of a job's rows decides its backlog. *)
LEMMA BacklogFollows ==
  ASSUME NEW j \in Jobs, RowsOf(j)' = RowsOf(j)
  PROVE  Backlog'[j] = Backlog[j]
BY DEF Backlog

LEMMA OneBacklog ==
  ASSUME NEW k \in Jobs, \A l \in Jobs : l # k => RowsOf(l)' = RowsOf(l)
  PROVE  Backlog' = [Backlog EXCEPT ![k] = Backlog'[k]]
<1>1. \A l \in Jobs : l # k => Backlog'[l] = Backlog[l]
  BY BacklogFollows
<1>2. Backlog = [l \in Jobs |-> Backlog[l]] /\ Backlog' = [l \in Jobs |-> Backlog'[l]]
  BY DEF Backlog
<1> HIDE DEF Backlog
<1> QED
  BY <1>1, <1>2, Zenon

(* A new notification, tried never.                                        *)
LEMMA NewNotification ==
  ASSUME outbox \in Seq(Row), NEW j \in Jobs, NEW id \in Ids,
         outbox' = Append(outbox, [id |-> id, job |-> j, attempts |-> 0])
  PROVE  /\ outbox' \in Seq(Row)
         /\ \/ Backlog' = Backlog
            \/ Backlog[j] = Null /\ Backlog' = [Backlog EXCEPT ![j] = 0]
<1> DEFINE new == [id |-> id, job |-> j, attempts |-> 0]
<1>0. MaxCount \in Nat /\ 0 \in 0..MaxCount
  BY Counts
<1>1. new \in Row
  BY <1>0 DEF Row
<1>2. /\ outbox' \in Seq(Row)
      /\ DOMAIN outbox' = DOMAIN outbox \cup {Len(outbox) + 1}
      /\ Len(outbox) + 1 \notin DOMAIN outbox
      /\ \A i \in DOMAIN outbox : outbox'[i] = outbox[i]
      /\ outbox'[Len(outbox) + 1] = new
  BY <1>1
<1>3. \A l \in Jobs : RowsOf(l)' = RowsOf(l) \cup (IF l = j THEN {new} ELSE {})
  <2> SUFFICES ASSUME NEW l \in Jobs
               PROVE  RowsOf(l)' = RowsOf(l) \cup (IF l = j THEN {new} ELSE {})
    OBVIOUS
  <2>1. \A r : r \in RowsOf(l)' <=> \E i \in DOMAIN outbox' : outbox'[i] = r /\ r.job = l
    BY DEF RowsOf
  <2>2. \A r : r \in RowsOf(l) <=> \E i \in DOMAIN outbox : outbox[i] = r /\ r.job = l
    BY DEF RowsOf
  <2>3. new.job = j
    OBVIOUS
  <2> HIDE DEF new
  <2>4. \A r : r \in RowsOf(l)' <=> r \in RowsOf(l) \/ (r = new /\ l = j)
    BY <1>2, <2>1, <2>2, <2>3
  <2> QED
    BY <2>4
<1>4. Backlog' = [Backlog EXCEPT ![j] = Backlog'[j]]
  <2>1. \A l \in Jobs : l # j => RowsOf(l)' = RowsOf(l)
    BY <1>3
  <2> QED
    BY <2>1, OneBacklog
<1>5. Attempts(j)' = Attempts(j) \cup {0}
  <2>1. RowsOf(j)' = RowsOf(j) \cup {new}
    BY <1>3
  <2>2. \A a : a \in Attempts(j)' <=> \E r \in RowsOf(j)' : a = r.attempts
    BY DEF Attempts
  <2>3. \A a : a \in Attempts(j) <=> \E r \in RowsOf(j) : a = r.attempts
    BY DEF Attempts
  <2>4. new.attempts = 0
    OBVIOUS
  <2> HIDE DEF new
  <2> QED
    BY <2>1, <2>2, <2>3, <2>4, Zenon
<1>6. /\ Attempts(j) \in SUBSET (0..MaxCount) /\ Attempts(j)' \in SUBSET (0..MaxCount)
      /\ Backlog[j] = IF Attempts(j) = {} THEN Null ELSE Max(Attempts(j))
      /\ Backlog'[j] = Max(Attempts(j)')
  <2>1. outbox' \in Seq(Row)
    BY <1>2
  <2>2. /\ Attempts(j) \in SUBSET (0..MaxCount)
        /\ Backlog[j] = IF Attempts(j) = {} THEN Null ELSE Max(Attempts(j))
    BY AttemptsTyped
  <2>3. /\ Attempts(j)' \in SUBSET (0..MaxCount)
        /\ RowsOf(j)' # {}
    BY <1>0, <1>3, <1>5, <2>2
  <2>4. Backlog'[j] = Max(Attempts(j)')
    BY <2>3 DEF Backlog, Attempts
  <2> QED
    BY <2>2, <2>3, <2>4
<1>7. CASE Attempts(j) = {}
  <2>1. Max(Attempts(j)') = 0
    <3>1. 0 \in Attempts(j)' /\ \A n \in Attempts(j)' : n <= 0
      BY <1>5, <1>7
    <3> QED
      BY <1>6, <3>1, MaxUnique
  <2> QED
    BY <1>2, <1>4, <1>6, <1>7, <2>1
<1>8. CASE Attempts(j) # {}
  <2>1. Max(Attempts(j)) \in Attempts(j) /\ \A n \in Attempts(j) : n <= Max(Attempts(j))
    BY <1>6, <1>8, MaxIsLargest
  <2>2. Max(Attempts(j)) \in Attempts(j)' /\ \A n \in Attempts(j)' : n <= Max(Attempts(j))
    BY <1>5, <1>6, <2>1
  <2>3. Max(Attempts(j)') = Max(Attempts(j))
    BY <1>6, <2>2, MaxUnique
  <2>4. Backlog'[j] = Backlog[j]
    BY <1>6, <1>8, <2>3
  <2>5. Backlog = [l \in Jobs |-> Backlog[l]]
    BY DEF Backlog
  <2> HIDE DEF Backlog
  <2>6. Backlog' = Backlog
    BY <1>4, <2>4, <2>5, Zenon
  <2> QED
    BY <1>2, <2>6
<1> QED
  BY <1>7, <1>8

(* One row of a job is tried: OperationalAlerts has a step for it.         *)
LEMMA RowTried ==
  ASSUME outbox \in Seq(Row), outbox' \in Seq(Row), NEW k \in Jobs, RowsOf(k) # {},
         \A l \in Jobs : l # k => RowsOf(l)' = RowsOf(l),
         \A a \in Attempts(k)' : a <= Health!Capped(Max(Attempts(k)) + 1),
         NEW j \in Jobs, pc[j] = "notifying", UNCHANGED health
  PROVE  Health!NotificationsTried(k)
<1>1. /\ Attempts(k) \in SUBSET (0..MaxCount) /\ Attempts(k) # {}
      /\ Backlog[k] = Max(Attempts(k))
  BY AttemptsTyped
<1>2. /\ Attempts(k)' \in SUBSET (0..MaxCount)
      /\ Backlog'[k] = IF Attempts(k)' = {} THEN Null ELSE Max(Attempts(k)')
  <2>1. \A i \in DOMAIN outbox' : outbox'[i] \in Row
    OBVIOUS
  <2>2. RowsOf(k)' \subseteq Row
    BY <2>1 DEF RowsOf
  <2>3. Attempts(k)' \in SUBSET (0..MaxCount)
    BY <2>2 DEF Attempts, Row
  <2>4. RowsOf(k)' = {} <=> Attempts(k)' = {}
    BY DEF Attempts
  <2> QED
    BY <2>3, <2>4 DEF Backlog, Attempts
<1>3. Backlog[k] \in 0..MaxCount /\ Backlog[k] # Null
  BY <1>1, MaxIsLargest, Counts
<1>4. Backlog'[k] \in {Null} \cup 0..Health!Capped(Backlog[k] + 1)
  <2>1. CASE Attempts(k)' = {}
    BY <1>2, <2>1
  <2>2. CASE Attempts(k)' # {}
    <3>1. Max(Attempts(k)') \in Attempts(k)'
      BY <1>2, <2>2, MaxIsLargest
    <3>2. Max(Attempts(k)') \in Nat /\ Max(Attempts(k)') <= Health!Capped(Backlog[k] + 1)
      BY <1>1, <1>2, <3>1, Counts
    <3>3. Health!Capped(Backlog[k] + 1) \in Nat
      BY <1>3, Counts DEF Health!Capped
    <3> QED
      BY <1>2, <2>2, <3>2, <3>3
  <2> QED
    BY <2>1, <2>2
<1>5. Backlog' = [Backlog EXCEPT ![k] = Backlog'[k]]
  BY OneBacklog
<1>6. UNCHANGED <<Health!status, alerts, pc, page>>
  BY DEF health, Health!status
<1>7. Backlog[k] # Null /\ \E l \in Health!Jobs : pc[l] = "notifying"
  <2>1. Health!Jobs = Jobs
    BY DEF Health!Jobs, Jobs, Range, Health!Range
  <2> QED
    BY <1>3, <2>1, Zenon
<1> HIDE DEF Backlog
<1> QED
  BY <1>4, <1>5, <1>6, <1>7, Zenon DEF Health!NotificationsTried

(* Removing a row leaves the others. *)
LEMMA RowRemoved ==
  ASSUME NEW s \in Seq(Row), NEW i \in DOMAIN s
  PROVE  /\ RemoveAt(s, i) \in Seq(Row)
         /\ \A n \in DOMAIN RemoveAt(s, i) : \E m \in DOMAIN s : RemoveAt(s, i)[n] = s[m]
         /\ \A m \in DOMAIN s : m # i =>
               \E n \in DOMAIN RemoveAt(s, i) : RemoveAt(s, i)[n] = s[m]
<1> DEFINE front == SubSeq(s, 1, i - 1)
           back == SubSeq(s, i + 1, Len(s))
           t == front \o back
<1>1. Len(s) \in Nat /\ DOMAIN s = 1..Len(s) /\ i \in 1..Len(s)
  OBVIOUS
<1>2. /\ front \in Seq(Row) /\ Len(front) = i - 1
      /\ \A n \in 1..(i - 1) : front[n] = s[n]
  BY <1>1
<1>3. /\ back \in Seq(Row) /\ Len(back) = Len(s) - i
      /\ \A n \in 1..(Len(s) - i) : back[n] = s[i + n]
  BY <1>1
<1> HIDE DEF front, back
<1>4. /\ t \in Seq(Row) /\ DOMAIN t = 1..(Len(s) - 1)
      /\ \A n \in 1..(i - 1) : t[n] = s[n]
      /\ \A n \in i..(Len(s) - 1) : t[n] = s[n + 1]
  <2>1. t \in Seq(Row) /\ Len(t) = Len(front) + Len(back)
    BY <1>2, <1>3, S!ConcatProperties, Zenon
  <2>2. \A n \in 1..Len(t) :
           t[n] = IF n <= Len(front) THEN front[n] ELSE back[n - Len(front)]
    BY <1>2, <1>3, <2>1, S!ConcatProperties, ZenonT(30)
  <2> HIDE DEF t
  <2>3. Len(t) = Len(s) - 1 /\ Len(front) = i - 1
    BY <1>1, <1>2, <1>3, <2>1
  <2>4. ASSUME NEW n \in 1..(i - 1) PROVE t[n] = s[n]
    <3>1. n \in 1..Len(t) /\ n <= Len(front)
      BY <1>1, <2>3
    <3> QED
      BY <1>2, <2>2, <3>1
  <2>5. ASSUME NEW n \in i..(Len(s) - 1) PROVE t[n] = s[n + 1]
    <3>1. /\ n \in 1..Len(t) /\ ~(n <= Len(front))
          /\ n - Len(front) \in 1..(Len(s) - i) /\ i + (n - Len(front)) = n + 1
      BY <1>1, <2>3
    <3>2. t[n] = back[n - Len(front)]
      BY <2>2, <3>1
    <3> QED
      BY <1>3, <3>1, <3>2
  <2>6. DOMAIN t = 1..(Len(s) - 1)
    BY <2>1, <2>3
  <2> QED
    BY <2>1, <2>4, <2>5, <2>6
<1>5. RemoveAt(s, i) = t
  BY DEF RemoveAt, front, back
<1> HIDE DEF t
<1>6. ASSUME NEW n \in DOMAIN t PROVE \E m \in DOMAIN s : t[n] = s[m]
  <2>1. CASE n \in 1..(i - 1)
    BY <1>1, <1>4, <2>1
  <2>2. CASE n \notin 1..(i - 1)
    <3>1. n \in i..(Len(s) - 1) /\ n + 1 \in DOMAIN s
      BY <1>1, <1>4, <2>2
    <3> QED
      BY <1>4, <3>1
  <2> QED
    BY <2>1, <2>2
<1>7. ASSUME NEW m \in DOMAIN s, m # i PROVE \E n \in DOMAIN t : t[n] = s[m]
  <2>1. CASE m < i
    BY <1>1, <1>4, <2>1
  <2>2. CASE m > i
    <3>1. m - 1 \in i..(Len(s) - 1) /\ (m - 1) + 1 = m
      BY <1>1, <2>2
    <3> QED
      BY <1>1, <1>4, <3>1
  <2> QED
    BY <1>1, <1>7, <2>1, <2>2
<1> QED
  BY <1>4, <1>5, <1>6, <1>7

-----------------------------------------------------------------------------
(* The steps of a dispatch. *)

LEMMA CappedAttempts ==
  ASSUME NEW a \in 0..MaxCount, NEW b \in 0..MaxCount, a <= b
  PROVE  /\ Health!Capped(a + 1) \in 0..MaxCount
         /\ Health!Capped(a + 1) <= Health!Capped(b + 1)
         /\ a <= Health!Capped(b + 1)
BY Counts DEF Health!Capped

(* The row a dispatch is at belongs to a job, and the task is notifying.    *)
LEMMA CurrentRow ==
  ASSUME IInv, NEW j \in Jobs, NEW i \in Current(j)
  PROVE  /\ outbox \in Seq(Row) /\ i \in DOMAIN outbox /\ outbox[i] \in Row
         /\ outbox[i].job \in Jobs /\ outbox[i].attempts \in 0..MaxCount
         /\ outbox[i] \in RowsOf(outbox[i].job)
         /\ pc[j] = "notifying"
<1>1. outbox \in Seq(Row) /\ i \in DOMAIN outbox
  BY DEF IInv, Shapes, Current
<1>2. outbox[i] \in Row
  BY <1>1
<1>3. pc[j] = "notifying"
  BY DEF IInv, Stages, Current, Dispatching
<1> QED
  BY <1>1, <1>2, <1>3 DEF Row, RowsOf

LEMMA DeliverTries ==
  ASSUME IInv, NEW j \in Jobs, Deliver(j)
  PROVE  outbox' \in Seq(Row) /\ \E k \in Jobs : Health!NotificationsTried(k)
<1>1. PICK i \in Current(j) : outbox' = RemoveAt(outbox, i)
  BY DEF Deliver
<1>2. UNCHANGED health
  BY DEF Deliver
<1>0. PICK k \in Jobs : k = outbox[i].job
  BY CurrentRow
<1>3. /\ outbox \in Seq(Row) /\ i \in DOMAIN outbox /\ RowsOf(k) # {}
      /\ pc[j] = "notifying"
  BY <1>0, CurrentRow
<1>4. /\ outbox' \in Seq(Row)
      /\ \A n \in DOMAIN outbox' : \E m \in DOMAIN outbox : outbox'[n] = outbox[m]
      /\ \A m \in DOMAIN outbox : m # i => \E n \in DOMAIN outbox' : outbox'[n] = outbox[m]
  BY <1>1, <1>3, RowRemoved
<1>5. \A l \in Jobs : RowsOf(l)' \subseteq RowsOf(l)
  BY <1>4 DEF RowsOf
<1>6. \A l \in Jobs : l # k => RowsOf(l) \subseteq RowsOf(l)'
  BY <1>0, <1>4 DEF RowsOf
<1>7. \A a \in Attempts(k)' : a <= Health!Capped(Max(Attempts(k)) + 1)
  <2> SUFFICES ASSUME NEW a \in Attempts(k)'
               PROVE  a <= Health!Capped(Max(Attempts(k)) + 1)
    OBVIOUS
  <2>1. RowsOf(k)' \subseteq RowsOf(k)
    BY <1>5
  <2>2. a \in Attempts(k)
    BY <2>1 DEF Attempts
  <2>3. Attempts(k) \in SUBSET (0..MaxCount)
    BY <1>3, AttemptsTyped
  <2>4. Max(Attempts(k)) \in 0..MaxCount /\ a \in 0..MaxCount /\ a <= Max(Attempts(k))
    BY <2>2, <2>3, MaxIsLargest
  <2> QED
    BY <2>4, CappedAttempts
<1>8. \A l \in Jobs : l # k => RowsOf(l)' = RowsOf(l)
  BY <1>5, <1>6
<1>9. Health!NotificationsTried(k)
  BY <1>2, <1>3, <1>4, <1>7, <1>8, RowTried
<1> QED
  BY <1>3, <1>4, <1>9

LEMMA RefuseTries ==
  ASSUME IInv, NEW j \in Jobs, Refuse(j)
  PROVE  outbox' \in Seq(Row) /\ \E k \in Jobs : Health!NotificationsTried(k)
<1>1. PICK i \in Current(j) : outbox' = [outbox EXCEPT ![i].attempts = Health!Capped(@ + 1)]
  BY DEF Refuse
<1>2. UNCHANGED health
  BY DEF Refuse
<1>0. PICK k \in Jobs : k = outbox[i].job
  BY CurrentRow
<1> DEFINE count == Health!Capped(outbox[i].attempts + 1)
           row == [outbox[i] EXCEPT !.attempts = count]
<1>3. /\ outbox \in Seq(Row) /\ i \in DOMAIN outbox /\ RowsOf(k) # {}
      /\ outbox[i] \in Row /\ outbox[i] \in RowsOf(k)
      /\ outbox[i].attempts \in 0..MaxCount
      /\ pc[j] = "notifying"
  BY <1>0, CurrentRow
<1>4. count \in 0..MaxCount
  <2>1. outbox[i].attempts <= outbox[i].attempts
    BY <1>3, Counts
  <2> QED
    BY <1>3, <2>1, CappedAttempts
<1> HIDE DEF count
<1>5. row \in Row /\ row.job = k /\ row.attempts = count
  BY <1>0, <1>3, <1>4 DEF Row
<1>6. outbox' = [outbox EXCEPT ![i] = row]
  BY <1>1 DEF count
<1> HIDE DEF row
<1>7. /\ outbox' \in Seq(Row) /\ DOMAIN outbox' = DOMAIN outbox
      /\ outbox'[i] = row
      /\ \A m \in DOMAIN outbox : m # i => outbox'[m] = outbox[m]
  BY <1>3, <1>5, <1>6
<1>8. \A l \in Jobs : l # k => RowsOf(l)' = RowsOf(l)
  <2> SUFFICES ASSUME NEW l \in Jobs, l # k PROVE RowsOf(l)' = RowsOf(l)
    OBVIOUS
  <2>1. \A m \in DOMAIN outbox : m # i => outbox'[m] = outbox[m]
    BY <1>7
  <2>2. outbox[i].job # l /\ outbox'[i].job # l
    BY <1>0, <1>5, <1>7
  <2> QED
    BY <1>7, <2>1, <2>2 DEF RowsOf
<1>9. \A r \in RowsOf(k)' : r = row \/ r \in RowsOf(k)
  BY <1>7 DEF RowsOf
<1>10. \A a \in Attempts(k)' : a <= Health!Capped(Max(Attempts(k)) + 1)
  <2> SUFFICES ASSUME NEW a \in Attempts(k)'
               PROVE  a <= Health!Capped(Max(Attempts(k)) + 1)
    OBVIOUS
  <2>1. a = count \/ a \in Attempts(k)
    <3>1. PICK r \in RowsOf(k)' : a = r.attempts
      BY DEF Attempts
    <3> QED
      BY <1>5, <1>9, <3>1 DEF Attempts
  <2>2. Attempts(k) \in SUBSET (0..MaxCount) /\ outbox[i].attempts \in Attempts(k)
    BY <1>3, AttemptsTyped DEF Attempts
  <2>3. /\ Max(Attempts(k)) \in 0..MaxCount
        /\ \A n \in Attempts(k) : n \in 0..MaxCount /\ n <= Max(Attempts(k))
    BY <2>2, MaxIsLargest
  <2>4. \A n \in Attempts(k) : /\ Health!Capped(n + 1) <= Health!Capped(Max(Attempts(k)) + 1)
                              /\ n <= Health!Capped(Max(Attempts(k)) + 1)
    BY <2>3, CappedAttempts
  <2> QED
    BY <2>1, <2>2, <2>4 DEF count
<1>11. Health!NotificationsTried(k)
  BY <1>2, <1>3, <1>7, <1>8, <1>10, RowTried
<1> QED
  BY <1>3, <1>7, <1>11

-----------------------------------------------------------------------------
(* Every step of an execution is a step of the accounting, or none. *)

LEMMA BacklogSame == UNCHANGED outbox => Backlog' = Backlog
BY DEF Backlog, RowsOf

LEMMA SuccessImplements ==
  ASSUME IInv, NEW j \in Jobs, RecordSuccess(j)
  PROVE  outbox' \in Seq(Row) /\ Health!RecordSuccess(j)
<1>1. pc[j] = "idle" /\ outbox \in Seq(Row)
  BY DEF IInv, Stages, Shapes, RecordSuccess
<1>2. /\ outbox' \in Seq(Row)
      /\ \/ Backlog' = Backlog
         \/ Backlog[j] = Null /\ Backlog' = [Backlog EXCEPT ![j] = 0]
  <2>1. CASE UNCHANGED outbox
    BY <1>1, <2>1, BacklogSame
  <2>2. ASSUME NEW id \in Ids, outbox' = Append(outbox, [id |-> id, job |-> j, attempts |-> 0])
        PROVE  /\ outbox' \in Seq(Row)
               /\ \/ Backlog' = Backlog
                  \/ Backlog[j] = Null /\ Backlog' = [Backlog EXCEPT ![j] = 0]
    BY <1>1, <2>2, NewNotification
  <2>3. Inserted(j)
    BY DEF RecordSuccess
  <2> QED
    BY <2>1, <2>2, <2>3 DEF Inserted
<1> HIDE DEF Backlog
<1> QED
  BY <1>1, <1>2 DEF RecordSuccess, Health!RecordSuccess

LEMMA StepImplements ==
  ASSUME IInv, NEW j \in Jobs, Step(j)
  PROVE  outbox' \in Seq(Row) /\ [Health!Next]_(Health!vars)
<1>0. outbox \in Seq(Row) /\ j \in Health!Jobs
  BY DEF IInv, Shapes, Health!Jobs, Jobs, Range, Health!Range
<1>1. CASE DriverFails(j)
  <2>1. UNCHANGED <<health, outbox>>
    BY <1>1 DEF DriverFails
  <2>2. UNCHANGED Health!vars
    BY <2>1, BacklogSame DEF health, Health!vars, Health!status
  <2> QED
    BY <1>0, <2>1, <2>2
<1>2. CASE RecordSuccess(j)
  BY <1>0, <1>2, SuccessImplements DEF Health!Next, Health!Step
<1>3. CASE Deliver(j) \/ Refuse(j)
  <2>1. outbox' \in Seq(Row) /\ \E k \in Jobs : Health!NotificationsTried(k)
    BY <1>3, DeliverTries, RefuseTries
  <2>2. Health!Jobs = Jobs
    BY DEF Health!Jobs, Jobs, Range, Health!Range
  <2> QED
    BY <2>1, <2>2 DEF Health!Next
<1>4. CASE DispatchRaises(j)
  <2>1. /\ pc[j] = "notifying" /\ page[j] = {}
        /\ pc' = [pc EXCEPT ![j] = "idle"]
        /\ UNCHANGED <<known, failures, failureActive, deliveryActive, alerts, page, outbox>>
    BY <1>4 DEF DispatchRaises, Dispatching, IInv, Stages, Shapes
  <2>2. page' = [page EXCEPT ![j] = {}]
    BY <2>1 DEF IInv, Shapes
  <2>3. Backlog' = Backlog
    BY <2>1, BacklogSame
  <2> HIDE DEF Backlog
  <2>4. Health!Abort(j)
    BY <2>1, <2>2, <2>3 DEF Health!Abort, Health!status
  <2> QED
    BY <1>0, <2>1, <2>4 DEF Health!Next
<1>5. CASE DeliveryBacklog(j) \/ CheckFailed(j)
  <2>1. UNCHANGED outbox /\ (Health!DeliveryBacklog(j) \/ Health!CheckFailed(j))
    BY <1>5 DEF DeliveryBacklog, CheckFailed
  <2> QED
    BY <1>0, <2>1 DEF Health!Next, Health!Step
<1>6. CASE DispatchAlert(j) \/ Finish(j)
  <2>1. /\ UNCHANGED outbox
        /\ \/ Health!SendAccepted(j) \/ Health!SendRefused(j)
           \/ Health!MarkDelivered(j) \/ Health!RecordFailure(j)
           \/ Health!Return(j) \/ Health!UpdateFails(j)
    BY <1>6 DEF DispatchAlert, Finish
  <2> QED
    BY <1>0, <2>1 DEF Health!Next, Health!Step
<1> QED
  BY <1>1, <1>2, <1>3, <1>4, <1>5, <1>6 DEF Step

(* The stages of the execution and of the accounting move together.        *)
LEMMA StagesStep ==
  ASSUME IInv, NEW j \in Jobs, Step(j)
  PROVE  IInv'
<1> USE DEF IInv, Stages, Shapes
<1>0. outbox' \in Seq(Row)
  BY StepImplements
<1>1. ASSUME NEW place \in {"checking", "failed", "dispatching", "alerting"},
             NEW stage \in {"idle", "notifying", "dispatching", "accepted", "raised"},
             Goto(j, place), pc' = [pc EXCEPT ![j] = stage],
             \/ page' = page
             \/ \E listing : page' = [page EXCEPT ![j] = listing],
             stage \in {"idle", "notifying"} => page'[j] = {},
             \/ place \in {"checking", "failed"} /\ stage = "idle"
             \/ place = "dispatching" /\ stage = "notifying"
             \/ place = "alerting" /\ stage \in {"dispatching", "accepted", "raised"}
      PROVE  IInv'
  <2>1. at' = [at EXCEPT ![j] = place]
    BY <1>1 DEF Goto
  <2>2. Stages'
    BY <1>1, <2>1
  <2>3. DOMAIN page' = Jobs /\ page' = [k \in Jobs |-> page'[k]]
        /\ \A k \in Jobs : k # j => page'[k] = page[k]
    BY <1>1
  <2>4. Shapes'
    BY <1>0, <1>1, <2>3
  <2> QED
    BY <2>2, <2>4
<1>2. ASSUME UNCHANGED <<at, pc, page>> PROVE IInv'
  BY <1>0, <1>2
<1>3. CASE DriverFails(j)
  <2>1. /\ at[j] = "checking" /\ UNCHANGED <<pc, page>>
        /\ Goto(j, "checking") \/ Goto(j, "failed")
    BY <1>3 DEF DriverFails, Raised, health
  <2>2. \E place \in {"checking", "failed"} : at' = [at EXCEPT ![j] = place]
    BY <2>1 DEF Goto
  <2>3. pc[j] = "idle"
    BY <2>1
  <2>4. Stages'
    BY <2>1, <2>2, <2>3
  <2>5. Shapes'
    BY <1>0, <2>1
  <2> QED
    BY <2>4, <2>5
<1>4. CASE RecordSuccess(j)
  <2>1. /\ Goto(j, "dispatching") /\ pc' = [pc EXCEPT ![j] = "notifying"] /\ page' = page
        /\ page[j] = {}
    BY <1>4 DEF RecordSuccess
  <2> QED
    BY <1>1, <2>1
<1>5. CASE Deliver(j) \/ Refuse(j)
  BY <1>2, <1>5 DEF Deliver, Refuse, health
<1>6. CASE DispatchRaises(j)
  <2>1. /\ Goto(j, "checking") \/ Goto(j, "failed")
        /\ pc' = [pc EXCEPT ![j] = "idle"] /\ page' = page /\ page[j] = {}
    BY <1>6 DEF DispatchRaises, Raised, Dispatching
  <2> QED
    BY <1>1, <2>1
<1>7. CASE DeliveryBacklog(j) \/ CheckFailed(j)
  <2>1. /\ Goto(j, "alerting") /\ pc' = [pc EXCEPT ![j] = "dispatching"]
        /\ \E listing : page' = [page EXCEPT ![j] = listing]
    BY <1>7 DEF DeliveryBacklog, CheckFailed, Health!DeliveryBacklog, Health!CheckFailed
  <2> QED
    BY <1>1, <2>1
<1>8. CASE DispatchAlert(j)
  <2>1. /\ at[j] = "alerting" /\ at' = at
        /\ \E stage \in {"dispatching", "accepted", "raised"} : pc' = [pc EXCEPT ![j] = stage]
        /\ page' = page \/ \E listing : page' = [page EXCEPT ![j] = listing]
    BY <1>8 DEF DispatchAlert, execution, Health!SendAccepted, Health!SendRefused,
                Health!MarkDelivered, Health!RecordFailure
  <2> QED
    BY <1>0, <2>1
<1>9. CASE Finish(j)
  <2>1. /\ Goto(j, "checking") /\ pc' = [pc EXCEPT ![j] = "idle"]
        /\ (page' = page /\ page[j] = {}) \/ page' = [page EXCEPT ![j] = {}]
    BY <1>9 DEF Finish, Health!Return, Health!UpdateFails
  <2> QED
    BY <1>1, <2>1
<1> QED
  BY <1>3, <1>4, <1>5, <1>6, <1>7, <1>8, <1>9 DEF Step

LEMMA OutageChangesNothing ==
  ASSUME IInv, OutageEnds \/ UNCHANGED vars
  PROVE  IInv' /\ UNCHANGED Health!vars
<1>1. UNCHANGED <<health, outbox, execution>>
  BY DEF OutageEnds, vars
<1>2. IInv'
  BY <1>1 DEF IInv, Stages, Shapes, health, execution
<1>3. UNCHANGED Health!vars
  BY <1>1, BacklogSame DEF health, Health!vars, Health!status
<1> QED
  BY <1>2, <1>3

LEMMA WorkerInvariant == Spec => []IInv
<1>1. Init => IInv
  <2>1. Health!Jobs = Jobs
    BY DEF Health!Jobs, Jobs, Range, Health!Range
  <2> QED
    BY <2>1 DEF Init, Health!Init, IInv, Stages, Shapes
<1>2. IInv /\ [Next]_vars => IInv'
  BY StagesStep, OutageChangesNothing DEF Next
<1> QED
  BY <1>1, <1>2, PTL DEF Spec

(* Retries, dispatches and the errors of either do nothing to a job's       *)
(* health but what the accounting does (check_failed, delivery_backlog and  *)
(* record_success), for any number of jobs, attempts and notifications.     *)
THEOREM AccountsAreKept == Spec => KeepsAccounts
<1>1. Init => Health!Init
  BY DEF Init
<1>2. IInv /\ [Next]_vars => [Health!Next]_(Health!vars)
  BY StepImplements, OutageChangesNothing DEF Next
<1> QED
  BY <1>1, <1>2, WorkerInvariant, PTL DEF Spec, KeepsAccounts, Health!Spec

-----------------------------------------------------------------------------
(* What OperationalAlerts_proofs shows of the accounting holds in the       *)
(* worker, which keeps the accounts.                                       *)

LEMMA AccountsAssumed ==
  /\ JobOrder \in Seq(Accounts!Range(JobOrder))
  /\ OpChannels \in Seq(Accounts!Range(OpChannels)) /\ Accounts!IsInjective(OpChannels)
  /\ AlertAfter \in Nat \ {0} /\ MaxCount \in Nat /\ MaxCount >= AlertAfter
  /\ MaxAlertId \in Nat /\ Null \notin Nat
BY WorkerAssumption DEF Accounts!Range, Range, Accounts!IsInjective, IsInjective

(* Accounts and Health are the same instance under two names. *)
LEMMA SameAccounts ==
  /\ Accounts!Init = Health!Init
  /\ Accounts!Next = Health!Next
  /\ Accounts!vars = Health!vars
BY Zenon DEF Accounts!Init, Health!Init, Accounts!vars, Health!vars, Accounts!status,
              Health!status, Accounts!Jobs, Health!Jobs, Accounts!Range, Health!Range,
              Accounts!Next, Health!Next, Accounts!Step, Health!Step,
              Accounts!RecordSuccess, Health!RecordSuccess, Accounts!ResetHealth,
              Health!ResetHealth, Accounts!OneShotSuccess, Health!OneShotSuccess,
              Accounts!NotificationsTried, Health!NotificationsTried, Accounts!CheckFailed,
              Health!CheckFailed, Accounts!DeliveryBacklog, Health!DeliveryBacklog,
              Accounts!SendAccepted, Health!SendAccepted, Accounts!SendRefused,
              Health!SendRefused, Accounts!UpdateFails, Health!UpdateFails,
              Accounts!MarkDelivered, Health!MarkDelivered, Accounts!RecordFailure,
              Health!RecordFailure, Accounts!Return, Health!Return, Accounts!Abort,
              Health!Abort, Accounts!Without, Health!Without, Accounts!Key, Health!Key,
              Accounts!CountFailure, Health!CountFailure, Accounts!Listed, Health!Listed,
              Accounts!Enqueue, Health!Enqueue, Accounts!Largest, Health!Largest,
              Accounts!Committed, Health!Committed, Accounts!Unique, Health!Unique,
              Accounts!BacklogTables, Health!BacklogTables, Accounts!EvaluateBacklog,
              Health!EvaluateBacklog, Accounts!Raised, Health!Raised, Accounts!Backlogged,
              Health!Backlogged, Accounts!Capped, Health!Capped, Accounts!Current,
              Health!Current, Accounts!Pending, Health!Pending

LEMMA SameStates ==
  /\ Accounts!TypeOK = Health!TypeOK
  /\ Accounts!FlagsMatchRows = Health!FlagsMatchRows
  /\ Accounts!StreakIsReported = Health!StreakIsReported
BY Zenon DEF Accounts!TypeOK, Health!TypeOK, Accounts!FlagsMatchRows,
              Health!FlagsMatchRows, Accounts!StreakIsReported, Health!StreakIsReported,
              Accounts!Alert, Health!Alert, Accounts!Keys, Health!Keys, Accounts!Kinds,
              Health!Kinds, Accounts!Channels, Health!Channels, Accounts!Jobs, Health!Jobs,
              Accounts!Range, Health!Range, Accounts!Key, Health!Key, Accounts!Raised,
              Health!Raised, Accounts!Unique, Health!Unique

LEMMA WorkerAccounts == Spec => Accounts!Spec
<1>1. Init => Accounts!Init
  BY SameAccounts DEF Init
<1>2. IInv /\ [Next]_vars => [Accounts!Next]_(Accounts!vars)
  <2>1. UNCHANGED Health!vars <=> UNCHANGED Accounts!vars
    BY DEF Health!vars, Health!status, Accounts!vars, Accounts!status
  <2>2. IInv /\ [Next]_vars => [Health!Next]_(Health!vars)
    BY StepImplements, OutageChangesNothing DEF Next
  <2> QED
    BY <2>1, <2>2, SameAccounts, Zenon
<1> QED
  BY <1>1, <1>2, WorkerInvariant, PTL DEF Spec, Accounts!Spec

(* Nothing the tasks of a worker do to each other and to the notifications  *)
(* takes an alert flag of a job away from its rows (record_success,         *)
(* record_check_failure, raise_delivery_backlog_alerts).                    *)
THEOREM WorkerFlagsAreRows == Spec => []Health!FlagsMatchRows
<1>1. Accounts!Spec => []Accounts!FlagsMatchRows
  BY AccountsAssumed, Accounts!FlagsAreRows
<1>2. Accounts!FlagsMatchRows => Health!FlagsMatchRows
  BY SameStates
<1> QED
  BY <1>1, <1>2, WorkerAccounts, PTL

(* A streak of failures as long as the threshold is reported, whatever the  *)
(* retries, the dispatches and their errors are (check_failed).             *)
THEOREM WorkerReportsStreaks == Spec => []Health!StreakIsReported
<1>1. Accounts!Spec => []Accounts!StreakIsReported
  BY AccountsAssumed, Accounts!StreaksAreReported
<1>2. Accounts!StreakIsReported => Health!StreakIsReported
  BY SameStates
<1> QED
  BY <1>1, <1>2, WorkerAccounts, PTL

-----------------------------------------------------------------------------
(* The attempts and the lists of the executions. *)

LEMMA RaisedKeeps ==
  ASSUME Lists, NEW j \in Jobs, Raised(j)
  PROVE  attempt' \in [Jobs -> 1..MaxAttempts]
<1>1. MaxAttempts \in Nat /\ attempt[j] \in 1..MaxAttempts
  BY WorkerAssumption DEF Lists
<1>2. CASE attempt[j] < MaxAttempts
  <2>1. attempt[j] + 1 \in 1..MaxAttempts
    BY <1>1, <1>2
  <2> QED
    BY <1>2, <2>1 DEF Raised, Lists
<1>3. CASE ~(attempt[j] < MaxAttempts)
  BY <1>3 DEF Raised, Lists
<1> QED
  BY <1>2, <1>3

LEMMA ListsStep ==
  ASSUME IInv, Lists, NEW j \in Jobs, Step(j)
  PROVE  Lists'
<1>0. attempt \in [Jobs -> 1..MaxAttempts] /\ listed \in [Jobs -> Seq(Ids)]
  BY DEF Lists
<1>1. CASE DriverFails(j)
  BY <1>0, <1>1, RaisedKeeps DEF DriverFails, Lists
<1>2. CASE RecordSuccess(j)
  <2> DEFINE new == [i \in DOMAIN outbox' |-> outbox'[i].id]
  <2>1. outbox' \in Seq(Row)
    BY StepImplements
  <2>0. \A i \in DOMAIN outbox' : outbox'[i] \in Row
    BY <2>1
  <2>2. \A i \in DOMAIN outbox' : outbox'[i].id \in Ids
    BY <2>0 DEF Row
  <2>3. DOMAIN outbox' = 1..Len(outbox') /\ Len(outbox') \in Nat
    BY <2>1
  <2>4. new \in Seq(Ids)
    BY <2>2, <2>3
  <2>5. listed' = [listed EXCEPT ![j] = new] /\ attempt' = attempt
    BY <1>2 DEF RecordSuccess
  <2> HIDE DEF new
  <2> QED
    BY <1>0, <2>4, <2>5 DEF Lists
<1>3. CASE Deliver(j) \/ Refuse(j)
  <2>1. listed[j] # << >> /\ listed[j] \in Seq(Ids)
    BY <1>0, <1>3 DEF Deliver, Refuse, Current, Dispatching
  <2>2. Tail(listed[j]) \in Seq(Ids)
    BY <2>1
  <2>3. listed' = [listed EXCEPT ![j] = Tail(listed[j])] /\ attempt' = attempt
    BY <1>3 DEF Deliver, Refuse
  <2> QED
    BY <1>0, <2>2, <2>3 DEF Lists
<1>4. CASE DispatchRaises(j)
  BY <1>0, <1>4, RaisedKeeps DEF DispatchRaises, Lists
<1>5. CASE DeliveryBacklog(j) \/ CheckFailed(j) \/ DispatchAlert(j)
  BY <1>0, <1>5 DEF DeliveryBacklog, CheckFailed, DispatchAlert, execution, Lists
<1>6. CASE Finish(j)
  <2>1. 1 \in 1..MaxAttempts
    BY WorkerAssumption
  <2> QED
    BY <1>0, <1>6, <2>1 DEF Finish, Lists
<1> QED
  BY <1>1, <1>2, <1>3, <1>4, <1>5, <1>6 DEF Step

(* Rows, executions, lists and accounts have their declared types. *)
THEOREM WorkerTyped == Spec => []TypeOK
<1>1. Init => Lists
  <2>1. 1 \in 1..MaxAttempts
    BY WorkerAssumption
  <2> QED
    BY <2>1 DEF Init, Lists
<1>2. IInv /\ Lists /\ [Next]_vars => Lists'
  <2>1. CASE OutageEnds \/ UNCHANGED vars
    BY <2>1 DEF OutageEnds, vars, execution, Lists
  <2> QED
    BY <2>1, ListsStep DEF Next
<1>3. Accounts!Spec => []Accounts!TypeOK
  BY AccountsAssumed, Accounts!AlertsTyped
<1>4. IInv /\ Lists /\ Accounts!TypeOK => TypeOK
  <2> SUFFICES ASSUME IInv, Lists, Accounts!TypeOK PROVE TypeOK
    OBVIOUS
  <2>1. \A i \in DOMAIN outbox : outbox[i] \in Row
    BY DEF IInv, Shapes
  <2>2. Health!TypeOK
    BY SameStates
  <2> QED
    BY <2>1, <2>2, Zenon DEF IInv, Stages, Lists, TypeOK, Row
<1> QED
  BY <1>1, <1>2, <1>3, <1>4, WorkerInvariant, WorkerAccounts, PTL DEF Spec

=============================================================================
