------------------------- MODULE MCOperation_proofs -------------------------
(***************************************************************************)
(* Proofs about the database file over its life and about the email        *)
(* channel, and from them and those of Deployment_proofs about the whole   *)
(* operation: for any processes, versions found, retention and faults, the *)
(* torn script included.                                                   *)
(***************************************************************************)
EXTENDS MCOperation, Deployment_proofs, SequenceTheorems, FiniteSetTheorems,
        WellFoundedInduction

-----------------------------------------------------------------------------
(* The scripts, by what is left of them: Create<n> and Upgrade<n> have n    *)
(* statements to go.  The upgrade from version 2 is the end of that from 1. *)

Make(table) == Store!Creates(table)

Create1 == <<Store!Sets(3)>>
Create2 == <<Make("alerts"), Store!Sets(3)>>
Create3 == <<Make("job_status"), Make("alerts"), Store!Sets(3)>>
Create4 == <<Make("outbox"), Make("job_status"), Make("alerts"), Store!Sets(3)>>
Create5 == <<Make("transitions"), Make("outbox"), Make("job_status"), Make("alerts"),
             Store!Sets(3)>>
Create6 == <<Make("observations"), Make("transitions"), Make("outbox"), Make("job_status"),
             Make("alerts"), Store!Sets(3)>>
Create7 == Store!Script(0)

Upgrade1 == <<Store!Backfill>>
Upgrade2 == <<Store!Sets(3), Store!Backfill>>
Upgrade3 == <<Make("alerts"), Store!Sets(3), Store!Backfill>>
Upgrade4 == Store!Script(2)
Upgrade5 == <<Store!Sets(2), Make("job_status"), Make("alerts"), Store!Sets(3), Store!Backfill>>
Upgrade6 == Store!Script(1)

Creation == {Create1, Create2, Create3, Create4, Create5, Create6}
Rests == Creation \cup {Create7, << >>, Upgrade1, Upgrade2, Upgrade3, Upgrade4, Upgrade5, Upgrade6}

LEMMA ScriptsInFull ==
  /\ Create7 = <<Make("check_runs"), Make("observations"), Make("transitions"),
                 Make("outbox"), Make("job_status"), Make("alerts"), Store!Sets(3)>>
  /\ Upgrade4 = <<Make("job_status"), Make("alerts"), Store!Sets(3), Store!Backfill>>
  /\ Upgrade6 = <<Make("outbox"), Store!Sets(2), Make("job_status"), Make("alerts"),
                  Store!Sets(3), Store!Backfill>>
  /\ Store!Script(3) = << >>
<1>1. /\ Create7 = <<Make("check_runs"), Make("observations"), Make("transitions"),
                     Make("outbox"), Make("job_status"), Make("alerts"), Store!Sets(3)>>
      /\ Upgrade4 = Store!UpgradeFrom2 /\ Upgrade6 = Store!UpgradeFrom1
      /\ Store!Script(3) = << >>
  BY DEF Create7, Upgrade4, Upgrade6, Store!Script, Make
<1>2. Store!UpgradeFrom2 = <<Make("job_status"), Make("alerts"), Store!Sets(3), Store!Backfill>>
  BY DEF Store!UpgradeFrom2, Make
<1>3. \A a, b, c, d, e, f : <<a, b>> \o <<c, d, e, f>> = <<a, b, c, d, e, f>>
  <2> SUFFICES ASSUME NEW a, NEW b, NEW c, NEW d, NEW e, NEW f
               PROVE  <<a, b>> \o <<c, d, e, f>> = <<a, b, c, d, e, f>>
    OBVIOUS
  <2> DEFINE S == {a, b, c, d, e, f}
             s == <<a, b>>
             t == <<c, d, e, f>>
  <2>1. s \in Seq(S) /\ t \in Seq(S) /\ Len(s) = 2 /\ Len(t) = 4
    OBVIOUS
  <2>2. <<a, b, c, d, e, f>> \in Seq(S) /\ Len(<<a, b, c, d, e, f>>) = 6
    OBVIOUS
  <2>3. /\ s \o t \in Seq(S) /\ Len(s \o t) = 6
        /\ \A i \in 1..6 : (s \o t)[i] = IF i <= 2 THEN s[i] ELSE t[i - 2]
    BY <2>1, ConcatProperties
  <2>4. \A i \in 1..6 : (s \o t)[i] = <<a, b, c, d, e, f>>[i]
    BY <2>3
  <2> QED
    BY <2>2, <2>3, <2>4, SeqEqual
<1> QED
  BY <1>1, <1>2, <1>3 DEF Store!UpgradeFrom1, Make

(* What the next statement is, and what is left after it.                  *)
LEMMA NextStatement ==
  /\ Head(Create7) = Make("check_runs") /\ Tail(Create7) = Create6
  /\ Head(Create6) = Make("observations") /\ Tail(Create6) = Create5
  /\ Head(Create5) = Make("transitions") /\ Tail(Create5) = Create4
  /\ Head(Create4) = Make("outbox") /\ Tail(Create4) = Create3
  /\ Head(Create3) = Make("job_status") /\ Tail(Create3) = Create2
  /\ Head(Create2) = Make("alerts") /\ Tail(Create2) = Create1
  /\ Head(Create1) = Store!Sets(3) /\ Tail(Create1) = << >>
  /\ Head(Upgrade6) = Make("outbox") /\ Tail(Upgrade6) = Upgrade5
  /\ Head(Upgrade5) = Store!Sets(2) /\ Tail(Upgrade5) = Upgrade4
  /\ Head(Upgrade4) = Make("job_status") /\ Tail(Upgrade4) = Upgrade3
  /\ Head(Upgrade3) = Make("alerts") /\ Tail(Upgrade3) = Upgrade2
  /\ Head(Upgrade2) = Store!Sets(3) /\ Tail(Upgrade2) = Upgrade1
  /\ Head(Upgrade1) = Store!Backfill /\ Tail(Upgrade1) = << >>
BY ScriptsInFull DEF Create1, Create2, Create3, Create4, Create5, Create6,
   Upgrade1, Upgrade2, Upgrade3, Upgrade5

(* A statement makes a table, or sets the version, or neither.             *)
LEMMA Statements ==
  /\ \A table \in Store!Tables :
        Make(table).table = table /\ Make(table).version = Null /\ Make(table) # Store!Backfill
  /\ \A v \in Nat : Store!Sets(v).table = Null /\ Store!Sets(v).version = v
                     /\ Store!Sets(v) # Store!Backfill
  /\ Store!Backfill.table = Null /\ Store!Backfill.version = Null
  /\ Null \notin Store!Tables /\ Null \notin Nat
<1>1. Null \notin Store!Tables /\ Null \notin Nat
  BY StoreAssumption DEF Store!StoreLifecycleAssumption
<1>2. \A table : Make(table).table = table /\ Make(table).version = Null
  BY DEF Make, Store!Creates
<1>3. \A v : Store!Sets(v).table = Null /\ Store!Sets(v).version = v
  BY DEF Store!Sets
<1>4. Store!Backfill.table = Null /\ Store!Backfill.version = Null
  BY DEF Store!Backfill
<1> QED
  BY <1>1, <1>2, <1>3, <1>4

LEMMA LengthsDiffer ==
  /\ Len(<< >>) = 0 /\ Len(Create1) = 1 /\ Len(Create2) = 2 /\ Len(Create3) = 3
  /\ Len(Create4) = 4 /\ Len(Create5) = 5 /\ Len(Create6) = 6 /\ Len(Create7) = 7
  /\ Len(Upgrade1) = 1 /\ Len(Upgrade2) = 2 /\ Len(Upgrade3) = 3 /\ Len(Upgrade4) = 4
  /\ Len(Upgrade5) = 5 /\ Len(Upgrade6) = 6
  /\ Create1 # Upgrade1 /\ Create2 # Upgrade2 /\ Create3 # Upgrade3
  /\ Create4 # Upgrade4 /\ Create5 # Upgrade5 /\ Create6 # Upgrade6
<1>1. /\ Len(<< >>) = 0 /\ Len(Create1) = 1 /\ Len(Create2) = 2 /\ Len(Create3) = 3
      /\ Len(Create4) = 4 /\ Len(Create5) = 5 /\ Len(Create6) = 6 /\ Len(Create7) = 7
  BY ScriptsInFull DEF Create1, Create2, Create3, Create4, Create5, Create6
<1>2. /\ Len(Upgrade1) = 1 /\ Len(Upgrade2) = 2 /\ Len(Upgrade3) = 3 /\ Len(Upgrade4) = 4
      /\ Len(Upgrade5) = 5 /\ Len(Upgrade6) = 6
  BY ScriptsInFull DEF Upgrade1, Upgrade2, Upgrade3, Upgrade5
<1>3. Store!Tables = {"check_runs", "observations", "transitions", "outbox", "job_status", "alerts"}
  BY DEF Store!Tables
<1>4. /\ Head(Create1).version # Head(Upgrade1).version
      /\ Head(Create2).version # Head(Upgrade2).version
      /\ Head(Create5).version # Head(Upgrade5).version
  <2>1. Head(Create1).version = 3 /\ Head(Upgrade1).version = Null
    BY NextStatement, Statements
  <2>2. Head(Create2).version = Null /\ Head(Upgrade2).version = 3
    BY NextStatement, Statements, <1>3
  <2>3. Head(Create5).version = Null /\ Head(Upgrade5).version = 2
    BY NextStatement, Statements, <1>3
  <2> QED
    BY <2>1, <2>2, <2>3, Statements
<1>5. /\ Head(Create3).table # Head(Upgrade3).table
      /\ Head(Create4).table # Head(Upgrade4).table
      /\ Head(Create6).table # Head(Upgrade6).table
  BY NextStatement, Statements, <1>3
<1> QED
  BY <1>1, <1>2, <1>4, <1>5

(* No two of them are equal. *)
LEMMA RestsDiffer ==
  /\ << >> \notin {Create1, Create2, Create3, Create4, Create5, Create6, Create7,
     Upgrade1, Upgrade2, Upgrade3, Upgrade4, Upgrade5, Upgrade6}
  /\ Create1 \notin {Create2, Create3, Create4, Create5, Create6, Create7,
     Upgrade1, Upgrade2, Upgrade3, Upgrade4, Upgrade5, Upgrade6}
  /\ Create2 \notin {Create3, Create4, Create5, Create6, Create7,
     Upgrade1, Upgrade2, Upgrade3, Upgrade4, Upgrade5, Upgrade6}
  /\ Create3 \notin {Create4, Create5, Create6, Create7,
     Upgrade1, Upgrade2, Upgrade3, Upgrade4, Upgrade5, Upgrade6}
  /\ Create4 \notin {Create5, Create6, Create7,
     Upgrade1, Upgrade2, Upgrade3, Upgrade4, Upgrade5, Upgrade6}
  /\ Create5 \notin {Create6, Create7,
     Upgrade1, Upgrade2, Upgrade3, Upgrade4, Upgrade5, Upgrade6}
  /\ Create6 \notin {Create7, Upgrade1, Upgrade2, Upgrade3, Upgrade4, Upgrade5, Upgrade6}
  /\ Create7 \notin {Upgrade1, Upgrade2, Upgrade3, Upgrade4, Upgrade5, Upgrade6}
  /\ Upgrade1 \notin {Upgrade2, Upgrade3, Upgrade4, Upgrade5, Upgrade6}
  /\ Upgrade2 \notin {Upgrade3, Upgrade4, Upgrade5, Upgrade6}
  /\ Upgrade3 \notin {Upgrade4, Upgrade5, Upgrade6}
  /\ Upgrade4 \notin {Upgrade5, Upgrade6}
  /\ Upgrade5 \notin {Upgrade6}
<1>1. << >> \notin {Create1, Create2, Create3, Create4, Create5, Create6, Create7,
     Upgrade1, Upgrade2, Upgrade3, Upgrade4, Upgrade5, Upgrade6}
  <2>1. \A s : Len(s) # 0 => s # << >>
    OBVIOUS
  <2>2. /\ Len(Create1) # 0 /\ Len(Create2) # 0 /\ Len(Create3) # 0 /\ Len(Create4) # 0
        /\ Len(Create5) # 0 /\ Len(Create6) # 0 /\ Len(Create7) # 0
        /\ Len(Upgrade1) # 0 /\ Len(Upgrade2) # 0 /\ Len(Upgrade3) # 0
        /\ Len(Upgrade4) # 0 /\ Len(Upgrade5) # 0 /\ Len(Upgrade6) # 0
    BY LengthsDiffer
  <2> QED
    BY <2>1, <2>2, Zenon
<1>2. Create1 \notin {Create2, Create3, Create4, Create5, Create6, Create7,
     Upgrade1, Upgrade2, Upgrade3, Upgrade4, Upgrade5, Upgrade6}
  BY LengthsDiffer
<1>3. Create2 \notin {Create3, Create4, Create5, Create6, Create7,
     Upgrade1, Upgrade2, Upgrade3, Upgrade4, Upgrade5, Upgrade6}
  BY LengthsDiffer
<1>4. Create3 \notin {Create4, Create5, Create6, Create7,
     Upgrade1, Upgrade2, Upgrade3, Upgrade4, Upgrade5, Upgrade6}
  BY LengthsDiffer
<1>5. Create4 \notin {Create5, Create6, Create7,
     Upgrade1, Upgrade2, Upgrade3, Upgrade4, Upgrade5, Upgrade6}
  BY LengthsDiffer
<1>6. Create5 \notin {Create6, Create7,
     Upgrade1, Upgrade2, Upgrade3, Upgrade4, Upgrade5, Upgrade6}
  BY LengthsDiffer
<1>7. Create6 \notin {Create7,
     Upgrade1, Upgrade2, Upgrade3, Upgrade4, Upgrade5, Upgrade6}
  BY LengthsDiffer
<1>8. Create7 \notin {Upgrade1, Upgrade2, Upgrade3, Upgrade4, Upgrade5, Upgrade6}
  BY LengthsDiffer
<1>9. Upgrade1 \notin {Upgrade2, Upgrade3, Upgrade4, Upgrade5, Upgrade6}
  BY LengthsDiffer
<1>10. Upgrade2 \notin {Upgrade3, Upgrade4, Upgrade5, Upgrade6}
  BY LengthsDiffer
<1>11. Upgrade3 \notin {Upgrade4, Upgrade5, Upgrade6}
  BY LengthsDiffer
<1>12. Upgrade4 \notin {Upgrade5, Upgrade6}
  BY LengthsDiffer
<1>13. Upgrade5 \notin {Upgrade6}
  BY LengthsDiffer
<1> QED
  BY <1>1, <1>2, <1>3, <1>4, <1>5, <1>6, <1>7, <1>8, <1>9, <1>10, <1>11, <1>12, <1>13

-----------------------------------------------------------------------------
(* The invariant of the store. *)

(* The tables a file of each version has at least. *)
Has(v) ==
    CASE v = 0 -> {}
      [] v = 1 -> {"check_runs", "observations", "transitions"}
      [] v = 2 -> {"check_runs", "observations", "transitions", "outbox"}
      [] v = 3 -> Store!Tables

(* A process that creates the schema has version 0 to itself once it has   *)
(* made a table, and one that upgrades has version 1, then 2: a table is   *)
(* made once.                                                              *)
Exclusive == {Creation, {Upgrade5}, {Upgrade3, Upgrade2}}

Alone ==
    \A p, q \in Processes : \A rests \in Exclusive :
       (at[p] = "script" /\ at[q] = "script" /\ script[p] \in rests /\ script[q] \in rests)
          => p = q

(* The version and the tables, given what is left of a script that runs.   *)
Fits(rest, v, made) ==
    /\ rest = Create7 => v \in {0, 3}
    /\ rest \in Creation => v = 0 /\ "check_runs" \in made
    /\ rest \in Creation \ {Create6} => "observations" \in made
    /\ rest \in Creation \ {Create6, Create5} => "transitions" \in made
    /\ rest \in {Create3, Create2, Create1} => "outbox" \in made
    /\ rest \in {Create2, Create1} => "job_status" \in made
    /\ rest = Create1 => "alerts" \in made
    /\ rest = Upgrade6 => v >= 1
    /\ rest = Upgrade5 => v = 1 /\ "outbox" \in made
    /\ rest = Upgrade4 => v >= 2
    /\ rest \in {Upgrade3, Upgrade2} => v = 2 /\ "job_status" \in made
    /\ rest = Upgrade2 => "alerts" \in made
    /\ rest \in {Upgrade1, << >>} => v = 3

Progress == \A p \in Processes : at[p] = "script" => Fits(script[p], version, tables)

Schema ==
    /\ version \in 0..3 /\ tables \subseteq Store!Tables
    /\ Has(version) \subseteq tables
    /\ at \in [Processes -> {"start", "script", "ready"} \cup Store!Cycle]
    /\ \A p \in Processes : at[p] \in {"ready"} \cup Store!Cycle => version = 3
    /\ script \in [Processes -> Rests]

SchemaInv == Schema /\ Progress /\ Alone

(* A file named after second u, temporary or not, has the whole schema and *)
(* every run older than u that the database still has.                     *)
Keeps(content, u) ==
    /\ content.version = 3 /\ content.tables = Store!Tables
    /\ \A t \in runs : t < u => t \in content.runs

CopiesKeep ==
    /\ \A u \in DOMAIN temps : Keeps(temps[u], u)
    /\ \A u \in DOMAIN backups : Keeps(backups[u], u)

Newer(t) == {u \in DOMAIN backups : u > t}

(* Whatever a cycle still means to unlink has Retain newer backups.        *)
SurplusListed ==
    \A p \in Processes : \A t \in expired[p] : Cardinality(Newer(t)) >= Retain

(* A cycle is younger than Age, and when it prunes there is a backup as    *)
(* recent as its own, if not its own.                                      *)
CyclesAreShort ==
    \A p \in Processes : Store!InCycle(p) =>
       /\ name[p] \in 0..clock /\ clock < name[p] + Age
       /\ at[p] = "pruning" => \E u \in DOMAIN backups : u >= name[p]

Files ==
    /\ runs \subseteq OldRuns \cup 0..MaxClock
    /\ name \in [Processes -> 0..MaxClock \cup {Null}]
    /\ expired \in [Processes -> SUBSET (0..MaxClock)]
    /\ DOMAIN temps \subseteq 0..clock /\ temps \in [DOMAIN temps -> Store!Content]
    /\ DOMAIN backups \subseteq 0..clock /\ backups \in [DOMAIN backups -> Store!Content]
    /\ manifest \in 0..clock \cup {Null}
    /\ clock \in 0..MaxClock

StoreInv == SchemaInv /\ Files /\ CopiesKeep /\ SurplusListed /\ CyclesAreShort

-----------------------------------------------------------------------------
(* The schema. *)

LEMMA TablesByName ==
  /\ Store!Tables = {"check_runs", "observations", "transitions", "outbox", "job_status", "alerts"}
  /\ Has(0) = {} /\ Has(1) = {"check_runs", "observations", "transitions"}
  /\ Has(2) = {"check_runs", "observations", "transitions", "outbox"}
  /\ Has(3) = Store!Tables
BY DEF Has, Store!Tables

LEMMA SchemaInit == Store!Init => SchemaInv
<1> SUFFICES ASSUME Store!Init PROVE SchemaInv
  OBVIOUS
<1>1. version \in {0, 1, 2} /\ tables = Store!TablesOf(version)
  BY StoreAssumption DEF Store!Init, Store!StoreLifecycleAssumption
<1>2. /\ at = [p \in Processes |-> "start"] /\ script = [p \in Processes |-> << >>]
  BY DEF Store!Init
<1>3. Has(version) = tables /\ tables \subseteq Store!Tables
  BY <1>1, TablesByName DEF Store!TablesOf
<1>4. Schema
  BY <1>1, <1>2, <1>3 DEF Schema, Rests, Store!Cycle
<1>5. Progress /\ Alone
  BY <1>2 DEF Progress, Alone
<1> QED
  BY <1>4, <1>5 DEF SchemaInv

(* One statement. *)
LEMMA StatementTaken ==
  ASSUME NEW p \in Processes, Store!Statement(p)
  PROVE  /\ \A table \in Store!Tables : Head(script[p]) = Make(table) =>
               table \notin tables /\ tables' = tables \cup {table} /\ version' = version
         /\ \A v \in Nat : Head(script[p]) = Store!Sets(v) => tables' = tables /\ version' = v
         /\ Head(script[p]) = Store!Backfill => tables' = tables /\ version' = version
<1>1. /\ Head(script[p]).table \notin tables
      /\ tables' = tables \cup ({Head(script[p]).table} \ {Null})
      /\ version' = IF Head(script[p]).version = Null THEN version
                    ELSE Head(script[p]).version
  BY DEF Store!Statement
<1> QED
  BY <1>1, Statements

(* What that is for each rest of a script.                                  *)
LEMMA FitsByName ==
  ASSUME NEW v, NEW made
  PROVE  /\ Fits(Create7, v, made) <=> v \in {0, 3}
         /\ Fits(Create6, v, made) <=> v = 0 /\ {"check_runs"} \subseteq made
         /\ Fits(Create5, v, made) <=> v = 0 /\ {"check_runs", "observations"} \subseteq made
         /\ Fits(Create4, v, made) <=> v = 0 /\ {"check_runs", "observations", "transitions"} \subseteq made
         /\ Fits(Create3, v, made) <=> v = 0 /\ {"check_runs", "observations", "transitions", "outbox"} \subseteq made
         /\ Fits(Create2, v, made) <=> v = 0 /\ Store!Tables \ {"alerts"} \subseteq made
         /\ Fits(Create1, v, made) <=> v = 0 /\ Store!Tables \subseteq made
         /\ Fits(Upgrade6, v, made) <=> v >= 1
         /\ Fits(Upgrade5, v, made) <=> v = 1 /\ "outbox" \in made
         /\ Fits(Upgrade4, v, made) <=> v >= 2
         /\ Fits(Upgrade3, v, made) <=> v = 2 /\ "job_status" \in made
         /\ Fits(Upgrade2, v, made) <=> v = 2 /\ {"job_status", "alerts"} \subseteq made
         /\ Fits(Upgrade1, v, made) <=> v = 3
         /\ Fits(<< >>, v, made) <=> v = 3
<1>1. Fits(Create7, v, made) <=> v \in {0, 3}
  BY RestsDiffer DEF Fits, Creation, Store!Tables
<1>2. Fits(Create6, v, made) <=> v = 0 /\ {"check_runs"} \subseteq made
  BY RestsDiffer DEF Fits, Creation, Store!Tables
<1>3. Fits(Create5, v, made) <=> v = 0 /\ {"check_runs", "observations"} \subseteq made
  BY RestsDiffer DEF Fits, Creation, Store!Tables
<1>4. Fits(Create4, v, made) <=> v = 0 /\ {"check_runs", "observations", "transitions"} \subseteq made
  BY RestsDiffer DEF Fits, Creation, Store!Tables
<1>5. Fits(Create3, v, made) <=> v = 0 /\ {"check_runs", "observations", "transitions", "outbox"} \subseteq made
  BY RestsDiffer DEF Fits, Creation, Store!Tables
<1>6. Fits(Create2, v, made) <=> v = 0 /\ Store!Tables \ {"alerts"} \subseteq made
  BY RestsDiffer DEF Fits, Creation, Store!Tables
<1>7. Fits(Create1, v, made) <=> v = 0 /\ Store!Tables \subseteq made
  BY RestsDiffer DEF Fits, Creation, Store!Tables
<1>8. Fits(Upgrade6, v, made) <=> v >= 1
  BY RestsDiffer DEF Fits, Creation, Store!Tables
<1>9. Fits(Upgrade5, v, made) <=> v = 1 /\ "outbox" \in made
  BY RestsDiffer DEF Fits, Creation, Store!Tables
<1>10. Fits(Upgrade4, v, made) <=> v >= 2
  BY RestsDiffer DEF Fits, Creation, Store!Tables
<1>11. Fits(Upgrade3, v, made) <=> v = 2 /\ "job_status" \in made
  BY RestsDiffer DEF Fits, Creation, Store!Tables
<1>12. Fits(Upgrade2, v, made) <=> v = 2 /\ {"job_status", "alerts"} \subseteq made
  BY RestsDiffer DEF Fits, Creation, Store!Tables
<1>13. Fits(Upgrade1, v, made) <=> v = 3
  BY RestsDiffer DEF Fits, Creation, Store!Tables
<1>14. Fits(<< >>, v, made) <=> v = 3
  BY RestsDiffer DEF Fits, Creation, Store!Tables
<1> QED
  BY <1>1, <1>2, <1>3, <1>4, <1>5, <1>6, <1>7, <1>8, <1>9, <1>10, <1>11, <1>12, <1>13, <1>14

(* What keeps the invariant when a process goes on with its script. *)
LEMMA GoesOn ==
  ASSUME SchemaInv, NEW p \in Processes, at[p] = "script", at' = at,
         NEW rest \in Rests, script' = [script EXCEPT ![p] = rest],
         version' \in 0..3, tables' \subseteq Store!Tables, Has(version') \subseteq tables',
         version = 3 => version' = 3,
         Fits(rest, version', tables'),
         \A q \in Processes \ {p} : at[q] = "script" =>
            /\ Fits(script[q], version', tables')
            /\ \A rests \in Exclusive : ~(script[q] \in rests /\ rest \in rests)
  PROVE  SchemaInv'
<1>1. /\ \A q \in Processes \ {p} : script'[q] = script[q]
      /\ script'[p] = rest /\ script' \in [Processes -> Rests]
  BY DEF SchemaInv, Schema
<1>2. Schema'
  BY <1>1 DEF SchemaInv, Schema
<1>3. Progress'
  <2> SUFFICES ASSUME NEW q \in Processes, at'[q] = "script" PROVE Fits(script'[q], version', tables')
    BY DEF Progress
  <2> HIDE DEF Fits
  <2>1. CASE q = p
    BY <1>1, <2>1
  <2>2. CASE q # p
    BY <1>1, <2>2 DEF Fits
  <2> QED
    BY <2>1, <2>2
<1>4. Alone'
  <2> SUFFICES ASSUME NEW q \in Processes, NEW r \in Processes, NEW rests \in Exclusive,
                      at[q] = "script", at[r] = "script",
                      script'[q] \in rests, script'[r] \in rests, q # r
               PROVE  FALSE
    BY DEF Alone, Exclusive, Creation
  <2>1. CASE q # p /\ r # p
    BY <1>1, <2>1 DEF SchemaInv, Alone
  <2>2. CASE q = p \/ r = p
    BY <1>1, <2>2
  <2> QED
    BY <2>1, <2>2
<1> QED
  BY <1>2, <1>3, <1>4 DEF SchemaInv

(* Each statement, by what is left before it.                               *)
LEMMA StatementKeeps ==
  ASSUME SchemaInv, NEW p \in Processes, Store!Statement(p) PROVE SchemaInv'
<1>1. /\ at[p] = "script" /\ at' = at /\ script[p] \in Rests /\ Fits(script[p], version, tables)
      /\ script[p] # << >> /\ script' = [script EXCEPT ![p] = Tail(script[p])]
      /\ version \in 0..3 /\ tables \subseteq Store!Tables /\ Has(version) \subseteq tables
  BY DEF SchemaInv, Schema, Progress, Store!Statement
<1>2. \A q \in Processes \ {p} : at[q] = "script" => script[q] \in Rests /\ Fits(script[q], version, tables)
  BY DEF SchemaInv, Schema, Progress
<1>3. \A q \in Processes \ {p} : at[q] = "script" =>
         \A rests \in Exclusive : ~(script[q] \in rests /\ script[p] \in rests)
  BY <1>1 DEF SchemaInv, Alone
(* A table is made, and the rest is of the same kind or the first of it.    *)
<1>4. ASSUME NEW table \in Store!Tables, NEW rest \in Rests,
             Head(script[p]) = Make(table), Tail(script[p]) = rest, Fits(rest, version', tables'),
             \A rests \in Exclusive : rest \in rests =>
                \/ script[p] \in rests
                \/ table \notin tables =>
                      \A other \in rests : ~Fits(other, version, tables)
      PROVE  SchemaInv'
  <2>1. table \notin tables /\ tables' = tables \cup {table} /\ version' = version
    BY <1>4, StatementTaken
  <2>2. Has(version') \subseteq tables'
    BY <1>1, <2>1 DEF Has
  <2>3. \A q \in Processes \ {p} : at[q] = "script" => Fits(script[q], version', tables')
    BY <1>2, <2>1 DEF Fits
  <2>4. \A q \in Processes \ {p} : at[q] = "script" =>
           \A rests \in Exclusive : ~(script[q] \in rests /\ rest \in rests)
    BY <1>2, <1>3, <1>4, <2>1
  <2> HIDE DEF Fits
  <2>5. tables' \subseteq Store!Tables /\ version' \in 0..3 /\ (version = 3 => version' = 3)
    BY <1>1, <1>4, <2>1
  <2> QED
    BY <1>1, <1>4, <2>2, <2>3, <2>4, <2>5, GoesOn
<1>5. CASE script[p] = Create7
  <2>1. Head(script[p]) = Make("check_runs") /\ Tail(script[p]) = Create6 /\ "check_runs" \in Store!Tables
    BY <1>5, NextStatement, TablesByName
  <2>2. tables' = tables \cup {"check_runs"} /\ version' = version /\ "check_runs" \notin tables
    BY <2>1, StatementTaken
  <2>3. Fits(Create6, version', tables')
    BY <1>1, <1>5, <2>2, FitsByName, TablesByName
  <2>4. \A rests \in Exclusive : Create6 \in rests =>
           \/ script[p] \in rests
           \/ "check_runs" \notin tables => \A other \in rests : ~Fits(other, version, tables)
    BY <1>1, <1>5, RestsDiffer DEF Exclusive, Creation, Fits
  <2> QED
    BY <1>4, <2>1, <2>3, <2>4 DEF Rests, Creation
<1>6. CASE script[p] = Create6
  <2>1. Head(script[p]) = Make("observations") /\ Tail(script[p]) = Create5 /\ "observations" \in Store!Tables
    BY <1>6, NextStatement, TablesByName
  <2>2. tables' = tables \cup {"observations"} /\ version' = version /\ "observations" \notin tables
    BY <2>1, StatementTaken
  <2>3. Fits(Create5, version', tables')
    BY <1>1, <1>6, <2>2, FitsByName, TablesByName
  <2>4. \A rests \in Exclusive : Create5 \in rests =>
           \/ script[p] \in rests
           \/ "observations" \notin tables => \A other \in rests : ~Fits(other, version, tables)
    BY <1>1, <1>6, RestsDiffer DEF Exclusive, Creation, Fits
  <2> QED
    BY <1>4, <2>1, <2>3, <2>4 DEF Rests, Creation
<1>7. CASE script[p] = Create5
  <2>1. Head(script[p]) = Make("transitions") /\ Tail(script[p]) = Create4 /\ "transitions" \in Store!Tables
    BY <1>7, NextStatement, TablesByName
  <2>2. tables' = tables \cup {"transitions"} /\ version' = version /\ "transitions" \notin tables
    BY <2>1, StatementTaken
  <2>3. Fits(Create4, version', tables')
    BY <1>1, <1>7, <2>2, FitsByName, TablesByName
  <2>4. \A rests \in Exclusive : Create4 \in rests =>
           \/ script[p] \in rests
           \/ "transitions" \notin tables => \A other \in rests : ~Fits(other, version, tables)
    BY <1>1, <1>7, RestsDiffer DEF Exclusive, Creation, Fits
  <2> QED
    BY <1>4, <2>1, <2>3, <2>4 DEF Rests, Creation
<1>8. CASE script[p] = Create4
  <2>1. Head(script[p]) = Make("outbox") /\ Tail(script[p]) = Create3 /\ "outbox" \in Store!Tables
    BY <1>8, NextStatement, TablesByName
  <2>2. tables' = tables \cup {"outbox"} /\ version' = version /\ "outbox" \notin tables
    BY <2>1, StatementTaken
  <2>3. Fits(Create3, version', tables')
    BY <1>1, <1>8, <2>2, FitsByName, TablesByName
  <2>4. \A rests \in Exclusive : Create3 \in rests =>
           \/ script[p] \in rests
           \/ "outbox" \notin tables => \A other \in rests : ~Fits(other, version, tables)
    BY <1>1, <1>8, RestsDiffer DEF Exclusive, Creation, Fits
  <2> QED
    BY <1>4, <2>1, <2>3, <2>4 DEF Rests, Creation
<1>9. CASE script[p] = Create3
  <2>1. Head(script[p]) = Make("job_status") /\ Tail(script[p]) = Create2 /\ "job_status" \in Store!Tables
    BY <1>9, NextStatement, TablesByName
  <2>2. tables' = tables \cup {"job_status"} /\ version' = version /\ "job_status" \notin tables
    BY <2>1, StatementTaken
  <2>3. Fits(Create2, version', tables')
    BY <1>1, <1>9, <2>2, FitsByName, TablesByName
  <2>4. \A rests \in Exclusive : Create2 \in rests =>
           \/ script[p] \in rests
           \/ "job_status" \notin tables => \A other \in rests : ~Fits(other, version, tables)
    BY <1>1, <1>9, RestsDiffer DEF Exclusive, Creation, Fits
  <2> QED
    BY <1>4, <2>1, <2>3, <2>4 DEF Rests, Creation
<1>10. CASE script[p] = Create2
  <2>1. Head(script[p]) = Make("alerts") /\ Tail(script[p]) = Create1 /\ "alerts" \in Store!Tables
    BY <1>10, NextStatement, TablesByName
  <2>2. tables' = tables \cup {"alerts"} /\ version' = version /\ "alerts" \notin tables
    BY <2>1, StatementTaken
  <2>3. Fits(Create1, version', tables')
    BY <1>1, <1>10, <2>2, FitsByName, TablesByName
  <2>4. \A rests \in Exclusive : Create1 \in rests =>
           \/ script[p] \in rests
           \/ "alerts" \notin tables => \A other \in rests : ~Fits(other, version, tables)
    BY <1>1, <1>10, RestsDiffer DEF Exclusive, Creation, Fits
  <2> QED
    BY <1>4, <2>1, <2>3, <2>4 DEF Rests, Creation
<1>11. CASE script[p] = Upgrade6
  <2>1. Head(script[p]) = Make("outbox") /\ Tail(script[p]) = Upgrade5 /\ "outbox" \in Store!Tables
    BY <1>11, NextStatement, TablesByName
  <2>2. tables' = tables \cup {"outbox"} /\ version' = version /\ "outbox" \notin tables
    BY <2>1, StatementTaken
  <2>3. Fits(Upgrade5, version', tables')
    BY <1>1, <1>11, <2>2, FitsByName, TablesByName
  <2>4. \A rests \in Exclusive : Upgrade5 \in rests =>
           \/ script[p] \in rests
           \/ "outbox" \notin tables => \A other \in rests : ~Fits(other, version, tables)
    BY <1>1, <1>11, RestsDiffer DEF Exclusive, Creation, Fits
  <2> QED
    BY <1>4, <2>1, <2>3, <2>4 DEF Rests, Creation
<1>12. CASE script[p] = Upgrade4
  <2>1. Head(script[p]) = Make("job_status") /\ Tail(script[p]) = Upgrade3 /\ "job_status" \in Store!Tables
    BY <1>12, NextStatement, TablesByName
  <2>2. tables' = tables \cup {"job_status"} /\ version' = version /\ "job_status" \notin tables
    BY <2>1, StatementTaken
  <2>3. Fits(Upgrade3, version', tables')
    BY <1>1, <1>12, <2>2, FitsByName, TablesByName
  <2>4. \A rests \in Exclusive : Upgrade3 \in rests =>
           \/ script[p] \in rests
           \/ "job_status" \notin tables => \A other \in rests : ~Fits(other, version, tables)
    BY <1>1, <1>12, RestsDiffer DEF Exclusive, Creation, Fits
  <2> QED
    BY <1>4, <2>1, <2>3, <2>4 DEF Rests, Creation
<1>13. CASE script[p] = Upgrade3
  <2>1. Head(script[p]) = Make("alerts") /\ Tail(script[p]) = Upgrade2 /\ "alerts" \in Store!Tables
    BY <1>13, NextStatement, TablesByName
  <2>2. tables' = tables \cup {"alerts"} /\ version' = version /\ "alerts" \notin tables
    BY <2>1, StatementTaken
  <2>3. Fits(Upgrade2, version', tables')
    BY <1>1, <1>13, <2>2, FitsByName, TablesByName
  <2>4. \A rests \in Exclusive : Upgrade2 \in rests =>
           \/ script[p] \in rests
           \/ "alerts" \notin tables => \A other \in rests : ~Fits(other, version, tables)
    BY <1>1, <1>13, RestsDiffer DEF Exclusive, Creation, Fits
  <2> QED
    BY <1>4, <2>1, <2>3, <2>4 DEF Rests, Creation
<1>14. CASE script[p] = Create1
  <2>1. Head(script[p]) = Store!Sets(3) /\ Tail(script[p]) = << >>
    BY <1>14, NextStatement
  <2>2. tables' = tables /\ version' = 3
    BY <2>1, StatementTaken
  <2>3. Fits(<< >>, version', tables') /\ Has(version') \subseteq tables'
    BY <1>1, <1>14, <2>2, FitsByName, TablesByName
  <2>4. \A q \in Processes \ {p} : at[q] = "script" => Fits(script[q], version', tables')
    BY <1>1, <1>2, <1>3, <1>14, <2>2, RestsDiffer DEF Fits, Creation, Exclusive
  <2>5. \A rests \in Exclusive : << >> \notin rests
    BY RestsDiffer DEF Exclusive, Creation
  <2>6. << >> \in Rests /\ version # 3
    BY <1>1, <1>14, RestsDiffer DEF Rests, Fits, Creation
  <2>7. script' = [script EXCEPT ![p] = << >>]
    BY <1>1, <2>1
  <2>8. version' \in 0..3 /\ tables' \subseteq Store!Tables /\ (version = 3 => version' = 3)
    BY <1>1, <2>2, <2>6
  <2> HIDE DEF Fits
  <2> QED
    BY <1>1, <2>3, <2>4, <2>5, <2>6, <2>7, <2>8, GoesOn
<1>15. CASE script[p] = Upgrade2
  <2>1. Head(script[p]) = Store!Sets(3) /\ Tail(script[p]) = Upgrade1
    BY <1>15, NextStatement
  <2>2. tables' = tables /\ version' = 3
    BY <2>1, StatementTaken
  <2>3. Fits(Upgrade1, version', tables') /\ Has(version') \subseteq tables'
    BY <1>1, <1>15, <2>2, FitsByName, TablesByName
  <2>4. \A q \in Processes \ {p} : at[q] = "script" => Fits(script[q], version', tables')
    BY <1>1, <1>2, <1>3, <1>15, <2>2, RestsDiffer DEF Fits, Creation, Exclusive
  <2>5. \A rests \in Exclusive : Upgrade1 \notin rests
    BY RestsDiffer DEF Exclusive, Creation
  <2>6. Upgrade1 \in Rests /\ version # 3
    BY <1>1, <1>15, RestsDiffer DEF Rests, Fits, Creation
  <2>7. script' = [script EXCEPT ![p] = Upgrade1]
    BY <1>1, <2>1
  <2>8. version' \in 0..3 /\ tables' \subseteq Store!Tables /\ (version = 3 => version' = 3)
    BY <1>1, <2>2, <2>6
  <2> HIDE DEF Fits
  <2> QED
    BY <1>1, <2>3, <2>4, <2>5, <2>6, <2>7, <2>8, GoesOn
<1>16. CASE script[p] = Upgrade5
  <2>1. Head(script[p]) = Store!Sets(2) /\ Tail(script[p]) = Upgrade4
    BY <1>16, NextStatement
  <2>2. tables' = tables /\ version' = 2
    BY <2>1, StatementTaken
  <2>3. Fits(Upgrade4, version', tables') /\ Has(version') \subseteq tables'
    BY <1>1, <1>16, <2>2, FitsByName, TablesByName
  <2>4. \A q \in Processes \ {p} : at[q] = "script" => Fits(script[q], version', tables')
    BY <1>1, <1>2, <1>3, <1>16, <2>2, RestsDiffer DEF Fits, Creation, Exclusive
  <2>5. \A rests \in Exclusive : Upgrade4 \notin rests
    BY RestsDiffer DEF Exclusive, Creation
  <2>6. Upgrade4 \in Rests /\ version # 3
    BY <1>1, <1>16, RestsDiffer DEF Rests, Fits, Creation
  <2>7. script' = [script EXCEPT ![p] = Upgrade4]
    BY <1>1, <2>1
  <2>8. version' \in 0..3 /\ tables' \subseteq Store!Tables /\ (version = 3 => version' = 3)
    BY <1>1, <2>2, <2>6
  <2> HIDE DEF Fits
  <2> QED
    BY <1>1, <2>3, <2>4, <2>5, <2>6, <2>7, <2>8, GoesOn
<1>17. CASE script[p] = Upgrade1
  <2>1. Head(script[p]) = Store!Backfill /\ Tail(script[p]) = << >>
    BY <1>17, NextStatement
  <2>2. tables' = tables /\ version' = version
    BY <2>1, StatementTaken
  <2>3. Fits(<< >>, version', tables') /\ \A q \in Processes \ {p} : at[q] = "script" => Fits(script[q], version', tables')
    BY <1>1, <1>2, <1>17, <2>2, RestsDiffer DEF Fits, Creation
  <2>4. \A rests \in Exclusive : << >> \notin rests
    BY RestsDiffer DEF Exclusive, Creation
  <2> QED
    BY <1>1, <2>1, <2>2, <2>3, <2>4, GoesOn DEF Rests, Has
<1> QED
  BY <1>1, <1>5, <1>6, <1>7, <1>8, <1>9, <1>10, <1>11, <1>12, <1>13, <1>14, <1>15, <1>16, <1>17 DEF Rests, Creation

(* What keeps the invariant when only the place of a process changes.       *)
LEMMA Moves ==
  ASSUME SchemaInv, NEW p \in Processes, NEW place \in {"start", "script", "ready"} \cup Store!Cycle,
         NEW rest \in Rests,
         at' = [at EXCEPT ![p] = place], script' = [script EXCEPT ![p] = rest],
         version' = version, tables' = tables,
         place \in {"ready"} \cup Store!Cycle => version = 3,
         place = "script" => /\ Fits(rest, version, tables)
                             /\ \A rests \in Exclusive : rest \notin rests
  PROVE  SchemaInv'
<1>1. /\ at'[p] = place /\ script'[p] = rest
      /\ \A q \in Processes \ {p} : at'[q] = at[q] /\ script'[q] = script[q]
      /\ at' \in [Processes -> {"start", "script", "ready"} \cup Store!Cycle]
      /\ script' \in [Processes -> Rests]
  BY DEF SchemaInv, Schema
<1>2. Schema'
  BY <1>1 DEF SchemaInv, Schema, Has, Store!Cycle, Store!Tables
<1> HIDE DEF Fits
<1>3. Progress'
  BY <1>1 DEF SchemaInv, Progress
<1>4. Alone'
  <2> SUFFICES ASSUME NEW q \in Processes, NEW r \in Processes, NEW rests \in Exclusive,
                      at'[q] = "script", at'[r] = "script",
                      script'[q] \in rests, script'[r] \in rests
               PROVE  q = r
    BY DEF Alone, Exclusive, Creation
  <2>1. q # p /\ r # p
    BY <1>1
  <2> QED
    BY <1>1, <2>1 DEF SchemaInv, Alone
<1> QED
  BY <1>2, <1>3, <1>4 DEF SchemaInv

(* A process starts the script for the version it reads. *)
LEMMA OpenKeeps ==
  ASSUME SchemaInv, NEW p \in Processes, Store!Open(p) PROVE SchemaInv'
<1>1. /\ version \in 0..3 /\ version' = version /\ tables' = tables
      /\ script' = [script EXCEPT ![p] = Store!Script(version)]
      /\ at' = [at EXCEPT ![p] = IF version = 3 THEN "ready" ELSE "script"]
  BY DEF SchemaInv, Schema, Store!Open, Store!database, Store!SchemaVersion
<1> HIDE DEF Fits
<1>2. CASE version = 3
  <2>1. /\ at' = [at EXCEPT ![p] = "ready"] /\ script' = [script EXCEPT ![p] = << >>]
        /\ << >> \in Rests
    BY <1>1, <1>2, ScriptsInFull DEF Rests
  <2> QED
    BY <1>1, <1>2, <2>1, Moves
<1>3. ASSUME NEW rest \in {Create7, Upgrade6, Upgrade4}, version # 3,
             Store!Script(version) = rest, Fits(rest, version, tables)
      PROVE  SchemaInv'
  <2>1. \A rests \in Exclusive : rest \notin rests
    BY <1>3, RestsDiffer DEF Exclusive, Creation
  <2>2. /\ at' = [at EXCEPT ![p] = "script"] /\ script' = [script EXCEPT ![p] = rest]
        /\ rest \in Rests /\ "script" \notin {"ready"} \cup Store!Cycle
    BY <1>1, <1>3 DEF Rests, Store!Cycle
  <2> QED
    BY <1>1, <1>3, <2>1, <2>2, Moves
<1>4. CASE version = 0
  <2>1. Fits(Create7, version, tables)
    BY <1>4, RestsDiffer DEF Fits, Creation
  <2> QED
    BY <1>3, <1>4, <2>1 DEF Create7
<1>5. CASE version = 1
  <2>1. Fits(Upgrade6, version, tables)
    BY <1>5, RestsDiffer DEF Fits, Creation
  <2> QED
    BY <1>3, <1>5, <2>1 DEF Upgrade6
<1>6. CASE version = 2
  <2>1. Fits(Upgrade4, version, tables)
    BY <1>6, RestsDiffer DEF Fits, Creation
  <2> QED
    BY <1>3, <1>6, <2>1 DEF Upgrade4
<1> QED
  BY <1>1, <1>2, <1>4, <1>5, <1>6

LEMMA SchemaStep == SchemaInv /\ [Store!Next]_(Store!vars) => SchemaInv'
<1> SUFFICES ASSUME SchemaInv, [Store!Next]_(Store!vars) PROVE SchemaInv'
  OBVIOUS
<1> USE DEF Store!database, Store!locals
<1>1. ASSUME NEW p \in Processes, NEW place, version' = version, tables' = tables,
             at' = [at EXCEPT ![p] = place], place \in {"start", "ready"} \cup Store!Cycle,
             place # "start" => at[p] \in {"ready"} \cup Store!Cycle,
             \/ script' = script \/ script' = [script EXCEPT ![p] = << >>]
      PROVE  SchemaInv'
  <2>1. \/ script' = [script EXCEPT ![p] = script[p]] \/ script' = [script EXCEPT ![p] = << >>]
    BY <1>1 DEF SchemaInv, Schema
  <2>2. script[p] \in Rests /\ << >> \in Rests /\ (place # "start" => version = 3)
    BY <1>1 DEF SchemaInv, Schema, Rests
  <2>3. /\ place # "script" /\ place \in {"start", "script", "ready"} \cup Store!Cycle
        /\ place \in {"ready"} \cup Store!Cycle => version = 3
    BY <1>1, <2>2 DEF Store!Cycle
  <2>4. CASE script' = [script EXCEPT ![p] = script[p]]
    BY <1>1, <2>2, <2>3, <2>4, Moves
  <2>5. CASE script' = [script EXCEPT ![p] = << >>]
    BY <1>1, <2>2, <2>3, <2>5, Moves
  <2> QED
    BY <2>1, <2>4, <2>5
<1>2. ASSUME NEW p \in Processes, Store!Starting(p) PROVE SchemaInv'
  <2>1. CASE Store!StatementFails(p)
    BY <1>1, <2>1 DEF Store!StatementFails
  <2>2. CASE Store!Opened(p)
    <3>1. at[p] = "script" /\ script[p] = << >> /\ Fits(<< >>, version, tables)
      BY <2>2 DEF Store!Opened, SchemaInv, Progress
    <3>2. version = 3 /\ script' = [script EXCEPT ![p] = << >>] /\ << >> \in Rests
      BY <2>2, <3>1 DEF Store!Opened, Fits, SchemaInv, Schema, Rests
    <3> QED
      BY <2>2, <3>2, Moves DEF Store!Opened
  <2> QED
    BY <1>2, <2>1, <2>2, OpenKeeps, StatementKeeps DEF Store!Starting
<1>3. CASE Store!Tick \/ UNCHANGED Store!vars \/ \E p \in Processes : Store!RecordRun(p)
  <2>1. UNCHANGED <<version, tables, at, script>>
    BY <1>3 DEF Store!Tick, Store!vars, Store!RecordRun
  <2> QED
    BY <2>1 DEF SchemaInv, Schema, Progress, Alone
<1>4. ASSUME NEW p \in Processes, Store!Maintaining(p) PROVE SchemaInv'
  <2>1. CASE Store!Unlink(p)
    <3>1. UNCHANGED <<version, tables, at, script>>
      BY <2>1 DEF Store!Unlink
    <3> QED
      BY <3>1 DEF SchemaInv, Schema, Progress, Alone
  <2>2. CASE ~Store!Unlink(p)
    <3>1. \E place \in {"start"} \cup Store!Cycle :
             /\ at' = [at EXCEPT ![p] = place]
             /\ place # "start" => at[p] \in {"ready"} \cup Store!Cycle
             /\ UNCHANGED <<version, tables, script>>
      BY <1>4, <2>2 DEF Store!Maintaining, Store!Copy, Store!CheckIntegrity,
         Store!CheckFails, Store!Publish, Store!PublishFails,
         Store!ListBackups, Store!UnlinkFails, Store!WriteManifest, Store!Prune, Store!Fails,
         Store!Cycle
    <3> QED
      BY <1>1, <3>1
  <2> QED
    BY <2>1, <2>2
<1>5. ASSUME NEW p \in Processes, Store!Crash(p) PROVE SchemaInv'
  BY <1>1, <1>5 DEF Store!Crash
<1> QED
  BY <1>2, <1>3, <1>4, <1>5 DEF Store!Next

-----------------------------------------------------------------------------
(* Names of backups: finite sets of seconds. *)

LEMMA SecondsCounted ==
  ASSUME NEW S, S \subseteq 0..MaxClock
  PROVE  /\ IsFiniteSet(S) /\ Cardinality(S) \in Nat /\ Store!Cardinality(S) = Cardinality(S)
         /\ \A T \in SUBSET S : Cardinality(T) <= Cardinality(S)
<1>1. MaxClock \in Nat
  BY StoreAssumption DEF Store!StoreLifecycleAssumption
<1>2. IsFiniteSet(0..MaxClock)
  BY <1>1, FS_Interval
<1>3. IsFiniteSet(S)
  BY <1>2, FS_Subset
<1>4. \A T \in SUBSET S : Cardinality(T) <= Cardinality(S)
  BY <1>3, FS_Subset
<1>5. Store!Cardinality(S) = Cardinality(S)
  BY DEF Store!Cardinality, Cardinality
<1> QED
  BY <1>3, <1>4, <1>5, FS_CardinalityType

(* A set of seconds that is not empty has a maximum, and Max is it.        *)
LEMMA LastIsLargest ==
  ASSUME NEW S, S \subseteq 0..MaxClock, S # {}
  PROVE  Store!Max(S) \in S /\ \A t \in S : t <= Store!Max(S)
<1> DEFINE D == {m \in Nat : \E t \in S : m = MaxClock - t}
<1>0. MaxClock \in Nat
  BY StoreAssumption DEF Store!StoreLifecycleAssumption
<1>1. D \subseteq Nat /\ D # {}
  <2>1. PICK t \in S : TRUE
    OBVIOUS
  <2>2. MaxClock - t \in D
    BY <1>0, <2>1
  <2> QED
    BY <2>2
<1>2. PICK m \in D : \A k \in D : ~(<<k, m>> \in OpToRel(<, Nat))
  BY <1>1, WFMin, NatLessThanWellFounded, Zenon
<1>3. \A k \in D : ~(k < m)
  BY <1>1, <1>2 DEF OpToRel
<1>4. PICK last \in S : m = MaxClock - last
  BY <1>2
<1>5. \A t \in S : last >= t
  <2> SUFFICES ASSUME NEW t \in S PROVE last >= t
    OBVIOUS
  <2>1. MaxClock - t \in D /\ t \in Nat /\ last \in Nat /\ t <= MaxClock
    BY <1>0
  <2>2. ~(MaxClock - t < m)
    BY <1>3, <2>1
  <2> QED
    BY <1>0, <1>4, <2>1, <2>2
<1>6. Store!Max(S) \in S /\ \A t \in S : Store!Max(S) >= t
  BY <1>5, Zenon DEF Store!Max
<1> QED
  BY <1>0, <1>6

(* The database and the directory of backups. *)

LEMMA BackupsAreSeconds ==
  StoreInv => DOMAIN backups \subseteq 0..MaxClock /\ DOMAIN backups \subseteq Nat
BY StoreAssumption DEF StoreInv, Files, Store!StoreLifecycleAssumption

LEMMA FilesTyped == StoreInv => Store!TypeOK
<1> SUFFICES ASSUME StoreInv PROVE Store!TypeOK
  OBVIOUS
<1>1. \A p \in Processes : Len(script[p]) <= Len(Store!Script(0))
  <2>1. \A rest \in Rests : Len(rest) <= 7
    <3>1. /\ Len(<< >>) <= 7 /\ Len(Create1) <= 7 /\ Len(Create2) <= 7 /\ Len(Create3) <= 7
          /\ Len(Create4) <= 7 /\ Len(Create5) <= 7 /\ Len(Create6) <= 7 /\ Len(Create7) <= 7
          /\ Len(Upgrade1) <= 7 /\ Len(Upgrade2) <= 7 /\ Len(Upgrade3) <= 7
          /\ Len(Upgrade4) <= 7 /\ Len(Upgrade5) <= 7 /\ Len(Upgrade6) <= 7
      BY LengthsDiffer
    <3> QED
      BY <3>1, Zenon DEF Rests, Creation
  <2> QED
    BY <2>1, LengthsDiffer DEF StoreInv, SchemaInv, Schema, Create7
<1>2. [version |-> version, tables |-> tables, runs |-> runs] \in Store!Content
  BY DEF StoreInv, SchemaInv, Schema, Files, Store!Content, Store!SchemaVersion
<1> QED
  BY <1>1, <1>2 DEF StoreInv, SchemaInv, Schema, Files, Store!TypeOK

LEMMA StoreInit == Store!Init => StoreInv
<1> SUFFICES ASSUME Store!Init PROVE StoreInv
  OBVIOUS
<1>1. /\ runs \subseteq OldRuns /\ name = [p \in Processes |-> Null]
      /\ expired = [p \in Processes |-> {}] /\ at = [p \in Processes |-> "start"]
      /\ temps = [t \in {} |-> Null] /\ backups = [t \in {} |-> Null] /\ manifest = Null
      /\ clock = 0 /\ MaxClock \in Nat
  BY StoreAssumption DEF Store!Init, Store!StoreLifecycleAssumption
<1>2. Files /\ CopiesKeep /\ SurplusListed
  BY <1>1 DEF Files, CopiesKeep, SurplusListed
<1>3. CyclesAreShort
  BY <1>1 DEF CyclesAreShort, Store!InCycle, Store!Cycle
<1> QED
  BY <1>2, <1>3, SchemaInit DEF StoreInv

(* What stays when no backup goes and no cycle lists more.                 *)
LEMMA SurplusStays ==
  ASSUME StoreInv, Files', DOMAIN backups \subseteq DOMAIN backups',
         \A p \in Processes : expired'[p] \subseteq expired[p]
  PROVE  SurplusListed'
<1> SUFFICES ASSUME NEW p \in Processes, NEW t \in expired[p]
             PROVE  Cardinality(Newer(t)') >= Retain
  BY DEF SurplusListed
<1>1. Newer(t) \subseteq Newer(t)' /\ Newer(t)' \subseteq 0..MaxClock
  <2>1. DOMAIN backups' \subseteq 0..MaxClock
    BY StoreAssumption DEF Files, Store!StoreLifecycleAssumption
  <2> QED
    BY <2>1 DEF Newer
<1>2. Cardinality(Newer(t)) \in Nat /\ Cardinality(Newer(t)') \in Nat
      /\ Cardinality(Newer(t)) <= Cardinality(Newer(t)')
  BY <1>1, SecondsCounted
<1>3. Cardinality(Newer(t)) >= Retain /\ Retain \in Nat
  BY StoreAssumption DEF StoreInv, SurplusListed, Store!StoreLifecycleAssumption
<1> QED
  BY <1>2, <1>3

(* What stays when no run is added and nothing is copied. *)
LEMMA CopiesStay ==
  ASSUME StoreInv, runs' \subseteq runs,
         \A u \in DOMAIN temps' : u \in DOMAIN temps /\ temps'[u] = temps[u],
         \A u \in DOMAIN backups' : \/ u \in DOMAIN backups /\ backups'[u] = backups[u]
                                    \/ u \in DOMAIN temps /\ backups'[u] = temps[u]
  PROVE  CopiesKeep'
BY DEF StoreInv, CopiesKeep, Keeps

(* What stays when the clock does and every backup has one as recent.      *)
LEMMA CyclesStay ==
  ASSUME StoreInv, NEW p \in Processes, NEW place, at' = [at EXCEPT ![p] = place],
         clock' = clock, \A q \in Processes \ {p} : name'[q] = name[q],
         \A u \in DOMAIN backups : \E v \in DOMAIN backups' : v >= u /\ v \in Nat,
         place \in Store!Cycle =>
            \/ name'[p] = clock /\ place # "pruning"
            \/ /\ name'[p] = name[p] /\ Store!InCycle(p)
               /\ place = "pruning" => name[p] \in DOMAIN backups'
  PROVE  CyclesAreShort'
<1> SUFFICES ASSUME NEW q \in Processes, Store!InCycle(q)'
             PROVE  /\ name'[q] \in 0..clock' /\ clock' < name'[q] + Age
                    /\ at'[q] = "pruning" => \E u \in DOMAIN backups' : u >= name'[q]
  BY DEF CyclesAreShort
<1>1. /\ clock \in Nat /\ Age \in Nat \ {0} /\ DOMAIN backups \subseteq 0..clock
      /\ at'[p] = place /\ (q # p => at'[q] = at[q])
  BY StoreAssumption DEF StoreInv, SchemaInv, Schema, Files, Store!StoreLifecycleAssumption
<1>2. Store!InCycle(q) =>
         /\ name[q] \in 0..clock /\ clock < name[q] + Age
         /\ at[q] = "pruning" => \E u \in DOMAIN backups : u >= name[q]
  BY DEF StoreInv, CyclesAreShort
<1>3. CASE q # p
  <2>1. Store!InCycle(q) /\ name'[q] = name[q]
    BY <1>1, <1>3 DEF Store!InCycle
  <2>2. ASSUME at[q] = "pruning" PROVE \E v \in DOMAIN backups' : v >= name[q]
    <3>1. PICK u \in DOMAIN backups : u >= name[q]
      BY <1>2, <2>1, <2>2
    <3>2. PICK v \in DOMAIN backups' : v >= u /\ v \in Nat
      BY <3>1
    <3>3. u \in Nat /\ name[q] \in Nat
      BY <1>1, <1>2, <2>1, <3>1
    <3> QED
      BY <3>1, <3>2, <3>3
  <2> QED
    BY <1>1, <1>2, <1>3, <2>1, <2>2
<1>4. CASE q = p
  <2>1. place \in Store!Cycle
    BY <1>1, <1>4 DEF Store!InCycle
  <2>2. CASE name'[p] = clock /\ place # "pruning"
    BY <1>1, <1>4, <2>2
  <2>3. CASE /\ name'[p] = name[p] /\ Store!InCycle(p)
             /\ place = "pruning" => name[p] \in DOMAIN backups'
    <3>1. name[p] \in Nat
      BY <1>1, <1>2, <1>4, <2>3
    <3> QED
      BY <1>1, <1>2, <1>4, <2>3, <3>1
  <2> QED
    BY <2>1, <2>2, <2>3
<1> QED
  BY <1>3, <1>4

(* Everything but the schema, for one step. *)
FilesInv == Files /\ CopiesKeep /\ SurplusListed /\ CyclesAreShort

LEMMA StartingFiles ==
  ASSUME StoreInv, NEW p \in Processes, Store!Starting(p) PROVE FilesInv'
<1>1. /\ UNCHANGED <<runs, temps, backups, manifest, name, expired, clock>>
      /\ \E place \in {"start", "script", "ready"} : at' = [at EXCEPT ![p] = place]
  <2>1. CASE Store!Statement(p)
    <3>1. at[p] = "script" /\ at' = [at EXCEPT ![p] = "script"]
      BY <2>1 DEF Store!Statement, StoreInv, SchemaInv, Schema
    <3> QED
      BY <2>1, <3>1 DEF Store!Statement, Store!directory
  <2> QED
    BY <2>1 DEF Store!Starting, Store!Open, Store!StatementFails, Store!Opened,
       Store!database, Store!directory, Store!locals
<1>2. Files'
  BY <1>1 DEF StoreInv, Files
<1>3. CyclesAreShort'
  <2>1. \A u \in DOMAIN backups : u >= u /\ u \in Nat
    BY DEF StoreInv, Files
  <2> QED
    BY <1>1, <2>1, CyclesStay DEF Store!Cycle
<1> QED
  BY <1>1, <1>2, <1>3, SurplusStays, CopiesStay DEF FilesInv

LEMMA RecordRunFiles ==
  ASSUME StoreInv, NEW p \in Processes, Store!RecordRun(p) PROVE FilesInv'
<1>1. /\ UNCHANGED <<temps, backups, manifest, name, expired, clock, at>>
      /\ runs' = runs \cup {clock} /\ at' = [at EXCEPT ![p] = "ready"]
  BY DEF Store!RecordRun, Store!directory, Store!locals, StoreInv, SchemaInv, Schema
<1>2. Files'
  BY <1>1 DEF StoreInv, Files
<1>3. CyclesAreShort'
  BY <1>1 DEF StoreInv, CyclesAreShort, Store!InCycle
<1>4. CopiesKeep'
  <2>1. clock \in Nat /\ DOMAIN temps \subseteq 0..clock /\ DOMAIN backups \subseteq 0..clock
    BY DEF StoreInv, Files
  <2> QED
    BY <1>1, <2>1 DEF StoreInv, CopiesKeep, Keeps
<1> QED
  BY <1>1, <1>2, <1>3, <1>4, SurplusStays DEF FilesInv

LEMMA CrashFiles ==
  ASSUME StoreInv, NEW p \in Processes, Store!Crash(p) PROVE FilesInv'
<1>1. /\ UNCHANGED <<runs, temps, backups, manifest, clock>>
      /\ at' = [at EXCEPT ![p] = "start"] /\ name' = [name EXCEPT ![p] = Null]
      /\ expired' = [expired EXCEPT ![p] = {}]
  BY DEF Store!Crash, Store!database, Store!directory
<1>2. Files'
  BY <1>1 DEF StoreInv, Files
<1>3. CyclesAreShort'
  <2>1. \A u \in DOMAIN backups : u >= u /\ u \in Nat
    BY DEF StoreInv, Files
  <2>2. \A q \in Processes \ {p} : name'[q] = name[q]
    BY <1>1 DEF StoreInv, Files
  <2> QED
    BY <1>1, <2>1, <2>2, CyclesStay DEF Store!Cycle
<1>4. \A q \in Processes : expired'[q] \subseteq expired[q]
  BY <1>1 DEF StoreInv, Files
<1> QED
  BY <1>1, <1>2, <1>3, <1>4, SurplusStays, CopiesStay DEF FilesInv

LEMMA TickFiles == ASSUME StoreInv, Store!Tick PROVE FilesInv'
<1>1. /\ UNCHANGED <<runs, temps, backups, manifest, name, expired, at>>
      /\ clock < MaxClock /\ clock' = clock + 1
      /\ \A p \in Processes : Store!InCycle(p) => clock + 1 < name[p] + Age
  BY DEF Store!Tick, Store!database, Store!directory, Store!locals
<1>2. clock' \in 0..MaxClock /\ clock \in Nat /\ 0..clock \subseteq 0..clock'
  BY <1>1, StoreAssumption DEF StoreInv, Files, Store!StoreLifecycleAssumption
<1>3. Files'
  BY <1>1, <1>2 DEF StoreInv, Files
<1>4. CyclesAreShort'
  BY <1>1, <1>2 DEF StoreInv, CyclesAreShort, Store!InCycle
<1> QED
  BY <1>1, <1>3, <1>4, SurplusStays, CopiesStay DEF FilesInv

LEMMA CopyFiles ==
  ASSUME StoreInv, NEW p \in Processes, Store!Copy(p) PROVE FilesInv'
<1> DEFINE content == [version |-> version, tables |-> tables, runs |-> runs]
<1>1. /\ UNCHANGED <<runs, backups, manifest, expired, clock>>
      /\ at' = [at EXCEPT ![p] = "copied"] /\ name' = [name EXCEPT ![p] = clock]
      /\ temps' = Store!With(temps, clock, content) /\ at[p] = "ready"
  BY DEF Store!Copy, Store!database
<1>2. version = 3 /\ tables = Store!Tables
  BY <1>1, TablesByName DEF StoreInv, SchemaInv, Schema
<1>3. content \in Store!Content /\ Keeps(content, clock)
  BY <1>2 DEF StoreInv, Files, Store!Content, Store!SchemaVersion, Keeps
<1> HIDE DEF content
<1>4. /\ DOMAIN temps' = DOMAIN temps \cup {clock} /\ temps'[clock] = content
      /\ \A u \in DOMAIN temps \ {clock} : temps'[u] = temps[u]
      /\ temps' = [u \in DOMAIN temps \cup {clock} |-> temps'[u]]
  BY <1>1 DEF Store!With, Store!Without
<1>5. Files'
  <2>1. clock \in Nat /\ clock \in 0..clock
    BY DEF StoreInv, Files
  <2>2. \A u \in DOMAIN temps \cup {clock} : temps'[u] \in Store!Content
    BY <1>3, <1>4 DEF StoreInv, Files
  <2>3. DOMAIN temps' \subseteq 0..clock' /\ temps' \in [DOMAIN temps' -> Store!Content]
    BY <1>1, <1>4, <2>1, <2>2 DEF StoreInv, Files
  <2> QED
    BY <1>1, <2>3 DEF StoreInv, Files
<1>6. CopiesKeep'
  BY <1>1, <1>3, <1>4 DEF StoreInv, CopiesKeep, Keeps
<1>7. CyclesAreShort'
  <2>1. \A u \in DOMAIN backups : u >= u /\ u \in Nat
    BY DEF StoreInv, Files
  <2>2. name'[p] = clock /\ \A q \in Processes \ {p} : name'[q] = name[q]
    BY <1>1 DEF StoreInv, Files
  <2> QED
    BY <1>1, <2>1, <2>2, CyclesStay
<1> QED
  BY <1>1, <1>5, <1>6, <1>7, SurplusStays DEF FilesInv

LEMMA CheckFiles ==
  ASSUME StoreInv, NEW p \in Processes, Store!CheckIntegrity(p) PROVE FilesInv'
<1>1. /\ UNCHANGED <<runs, temps, backups, manifest, name, expired, clock>>
      /\ at' = [at EXCEPT ![p] = "checked"] /\ at[p] = "copied"
  BY DEF Store!CheckIntegrity, Store!database, Store!directory, Store!locals
<1>2. Files'
  BY <1>1 DEF StoreInv, Files
<1>3. CyclesAreShort'
  <2>1. \A u \in DOMAIN backups : u >= u /\ u \in Nat
    BY DEF StoreInv, Files
  <2> QED
    BY <1>1, <2>1, CyclesStay DEF Store!InCycle, Store!Cycle
<1> QED
  BY <1>1, <1>2, <1>3, SurplusStays, CopiesStay DEF FilesInv

LEMMA PublishFiles ==
  ASSUME StoreInv, NEW p \in Processes, Store!Publish(p) PROVE FilesInv'
<1>1. /\ UNCHANGED <<runs, manifest, name, expired, clock>>
      /\ at' = [at EXCEPT ![p] = "published"] /\ at[p] = "checked"
      /\ backups' = Store!With(backups, name[p], temps[name[p]])
      /\ temps' = Store!Without(temps, name[p]) /\ name[p] \in DOMAIN temps
  BY DEF Store!Publish, Store!database, Store!locals
<1>2. /\ DOMAIN backups' = DOMAIN backups \cup {name[p]} /\ backups'[name[p]] = temps[name[p]]
      /\ \A u \in DOMAIN backups \ {name[p]} : backups'[u] = backups[u]
      /\ backups' = [u \in DOMAIN backups \cup {name[p]} |-> backups'[u]]
      /\ DOMAIN temps' = DOMAIN temps \ {name[p]}
      /\ \A u \in DOMAIN temps \ {name[p]} : temps'[u] = temps[u]
      /\ temps' = [u \in DOMAIN temps \ {name[p]} |-> temps'[u]]
  BY <1>1 DEF Store!With, Store!Without
<1>3. Files'
  <2>1. DOMAIN temps' \subseteq 0..clock' /\ temps' \in [DOMAIN temps' -> Store!Content]
    BY <1>1, <1>2 DEF StoreInv, Files
  <2>2. \A u \in DOMAIN backups \cup {name[p]} : backups'[u] \in Store!Content
    BY <1>1, <1>2 DEF StoreInv, Files
  <2>3. DOMAIN backups' \subseteq 0..clock' /\ backups' \in [DOMAIN backups' -> Store!Content]
    BY <1>1, <1>2, <2>2 DEF StoreInv, Files
  <2> QED
    BY <1>1, <2>1, <2>3 DEF StoreInv, Files
<1>4. CopiesKeep'
  BY <1>1, <1>2, CopiesStay
<1>5. CyclesAreShort'
  <2>1. \A u \in DOMAIN backups : u \in DOMAIN backups' /\ u >= u /\ u \in Nat
    BY <1>2 DEF StoreInv, Files
  <2> QED
    BY <1>1, <2>1, CyclesStay DEF Store!InCycle, Store!Cycle
<1> QED
  BY <1>1, <1>2, <1>3, <1>4, <1>5, SurplusStays DEF FilesInv

LEMMA FailsFiles ==
  ASSUME StoreInv, NEW p \in Processes, Store!Fails(p) PROVE FilesInv'
<1>1. /\ UNCHANGED <<runs, backups, manifest, clock>>
      /\ at' = [at EXCEPT ![p] = "start"] /\ name' = [name EXCEPT ![p] = Null]
      /\ expired' = [expired EXCEPT ![p] = {}] /\ temps' = Store!Without(temps, name[p])
  BY DEF Store!Fails, Store!database
<1>2. /\ DOMAIN temps' = DOMAIN temps \ {name[p]}
      /\ \A u \in DOMAIN temps \ {name[p]} : temps'[u] = temps[u]
      /\ temps' = [u \in DOMAIN temps \ {name[p]} |-> temps'[u]]
  BY <1>1 DEF Store!With, Store!Without
<1>3. Files'
  <2>1. DOMAIN temps' \subseteq 0..clock' /\ temps' \in [DOMAIN temps' -> Store!Content]
    BY <1>1, <1>2 DEF StoreInv, Files
  <2> QED
    BY <1>1, <2>1 DEF StoreInv, Files
<1>4. CopiesKeep'
  BY <1>1, <1>2, CopiesStay
<1>5. CyclesAreShort'
  <2>1. \A u \in DOMAIN backups : u >= u /\ u \in Nat
    BY DEF StoreInv, Files
  <2>2. \A q \in Processes \ {p} : name'[q] = name[q]
    BY <1>1 DEF StoreInv, Files
  <2> QED
    BY <1>1, <2>1, <2>2, CyclesStay DEF Store!Cycle
<1>6. \A q \in Processes : expired'[q] \subseteq expired[q]
  BY <1>1 DEF StoreInv, Files
<1> QED
  BY <1>1, <1>3, <1>4, <1>5, <1>6, SurplusStays DEF FilesInv

LEMMA WriteManifestFiles ==
  ASSUME StoreInv, NEW p \in Processes, Store!WriteManifest(p) PROVE FilesInv'
<1>1. /\ UNCHANGED <<runs, backups, name, expired, clock>>
      /\ at[p] = "expiring" /\ at' = [at EXCEPT ![p] = "pruning"]
      /\ name[p] \in DOMAIN backups /\ manifest' = name[p]
      /\ temps' = Store!Without(temps, name[p])
  BY DEF Store!WriteManifest, Store!database, Store!locals
<1>2. /\ DOMAIN temps' = DOMAIN temps \ {name[p]}
      /\ \A u \in DOMAIN temps \ {name[p]} : temps'[u] = temps[u]
      /\ temps' = [u \in DOMAIN temps \ {name[p]} |-> temps'[u]]
  BY <1>1 DEF Store!With, Store!Without
<1>3. Files'
  <2>1. DOMAIN temps' \subseteq 0..clock' /\ temps' \in [DOMAIN temps' -> Store!Content]
    BY <1>1, <1>2 DEF StoreInv, Files
  <2> QED
    BY <1>1, <2>1 DEF StoreInv, Files
<1>4. CopiesKeep'
  BY <1>1, <1>2, CopiesStay
<1>5. CyclesAreShort'
  <2>1. \A u \in DOMAIN backups : u >= u /\ u \in Nat
    BY DEF StoreInv, Files
  <2> QED
    BY <1>1, <2>1, CyclesStay DEF Store!InCycle, Store!Cycle
<1> QED
  BY <1>1, <1>3, <1>4, <1>5, SurplusStays DEF FilesInv

LEMMA PruneFiles ==
  ASSUME StoreInv, NEW p \in Processes, Store!Prune(p) PROVE FilesInv'
<1>1. /\ UNCHANGED <<temps, backups, manifest, expired, clock>> /\ runs' \subseteq runs
      /\ at' = [at EXCEPT ![p] = "start"] /\ name' = [name EXCEPT ![p] = Null]
  BY DEF Store!Prune, Store!Prunable, Store!directory
<1>2. Files'
  BY <1>1 DEF StoreInv, Files
<1>3. CyclesAreShort'
  <2>1. \A u \in DOMAIN backups : u >= u /\ u \in Nat
    BY DEF StoreInv, Files
  <2>2. \A q \in Processes \ {p} : name'[q] = name[q]
    BY <1>1 DEF StoreInv, Files
  <2> QED
    BY <1>1, <2>1, <2>2, CyclesStay DEF Store!Cycle
<1> QED
  BY <1>1, <1>2, <1>3, SurplusStays, CopiesStay DEF FilesInv

LEMMA ListBackupsFiles ==
  ASSUME StoreInv, NEW p \in Processes, Store!ListBackups(p) PROVE FilesInv'
<1>1. /\ UNCHANGED <<runs, temps, backups, manifest, name, clock>>
      /\ at[p] = "published" /\ at' = [at EXCEPT ![p] = "expiring"]
      /\ expired' = [expired EXCEPT ![p] = Store!Expired(DOMAIN backups)]
  BY DEF Store!ListBackups, Store!database, Store!directory
<1>2. /\ DOMAIN backups \subseteq 0..MaxClock
      /\ \A q \in Processes \ {p} : expired'[q] = expired[q]
      /\ expired'[p] = Store!Expired(DOMAIN backups)
  BY <1>1, BackupsAreSeconds DEF StoreInv, Files
<1>3. \A t \in Store!Expired(DOMAIN backups) :
         t \in 0..MaxClock /\ Cardinality(Newer(t)) >= Retain
  <2> SUFFICES ASSUME NEW t \in Store!Expired(DOMAIN backups)
               PROVE  t \in 0..MaxClock /\ Cardinality(Newer(t)) >= Retain
    OBVIOUS
  <2>1. t \in DOMAIN backups /\ Store!Cardinality(Newer(t)) >= Retain
    BY DEF Store!Expired, Newer
  <2>2. Store!Cardinality(Newer(t)) = Cardinality(Newer(t))
    BY <1>2, SecondsCounted DEF Newer
  <2> QED
    BY <1>2, <2>1, <2>2
<1>4. Files'
  BY <1>1, <1>3 DEF StoreInv, Files
<1>5. SurplusListed'
  BY <1>1, <1>2, <1>3 DEF StoreInv, SurplusListed, Newer
<1>6. CopiesKeep'
  BY <1>1, CopiesStay
<1>7. CyclesAreShort'
  <2>1. \A u \in DOMAIN backups : u >= u /\ u \in Nat
    BY DEF StoreInv, Files
  <2> QED
    BY <1>1, <2>1, CyclesStay DEF Store!InCycle, Store!Cycle
<1> QED
  BY <1>4, <1>5, <1>6, <1>7 DEF FilesInv

(* The backup a cycle unlinks has Retain newer ones, and they remain.      *)
LEMMA Unlinked ==
  ASSUME StoreInv, NEW p \in Processes, Store!Unlink(p)
  PROVE  \E t \in expired[p] \cap DOMAIN backups :
            /\ backups' = Store!Without(backups, t) /\ DOMAIN backups' = DOMAIN backups \ {t}
            /\ expired' = [expired EXCEPT ![p] = expired[p] \ {t}]
            /\ Newer(t)' = Newer(t) /\ Cardinality(Newer(t)) >= Retain
<1>0. PICK t : t = Store!Max(expired[p])
  OBVIOUS
<1>1. t \in expired[p]
  BY <1>0, LastIsLargest DEF Store!Unlink, StoreInv, Files
<1>2. /\ t \in DOMAIN backups /\ backups' = Store!Without(backups, t)
      /\ expired' = [expired EXCEPT ![p] = expired[p] \ {t}]
  BY <1>0 DEF Store!Unlink
<1>3. Cardinality(Newer(t)) >= Retain /\ t \in Int
  BY <1>1 DEF StoreInv, SurplusListed, Files
<1>4. DOMAIN backups' = DOMAIN backups \ {t}
  BY <1>2 DEF Store!Without
<1>5. Newer(t)' = Newer(t)
  <2>1. \A u \in DOMAIN backups : u > t => u # t
    BY <1>3, BackupsAreSeconds
  <2> QED
    BY <1>4, <2>1 DEF Newer
<1>6. t \in expired[p] \cap DOMAIN backups
  BY <1>1, <1>2
<1> QED
  BY <1>2, <1>3, <1>4, <1>5, <1>6, Zenon

LEMMA UnlinkFiles ==
  ASSUME StoreInv, NEW p \in Processes, Store!Unlink(p) PROVE FilesInv'
<1>1. /\ UNCHANGED <<runs, temps, manifest, name, clock>>
      /\ at[p] = "expiring" /\ at' = [at EXCEPT ![p] = "expiring"]
  BY DEF Store!Unlink, Store!database, StoreInv, SchemaInv, Schema
<1>2. PICK t \in expired[p] \cap DOMAIN backups :
         /\ backups' = Store!Without(backups, t) /\ DOMAIN backups' = DOMAIN backups \ {t}
         /\ expired' = [expired EXCEPT ![p] = expired[p] \ {t}]
         /\ Newer(t)' = Newer(t) /\ Cardinality(Newer(t)) >= Retain
  BY Unlinked
<1>3. /\ \A u \in DOMAIN backups \ {t} : backups'[u] = backups[u]
      /\ backups' = [u \in DOMAIN backups \ {t} |-> backups'[u]]
  BY <1>2 DEF Store!Without
<1>4. DOMAIN backups \subseteq 0..MaxClock /\ DOMAIN backups \subseteq Nat
  BY BackupsAreSeconds
<1>5. Files'
  <2>1. DOMAIN backups' \subseteq 0..clock' /\ backups' \in [DOMAIN backups' -> Store!Content]
    BY <1>1, <1>2, <1>3 DEF StoreInv, Files
  <2> QED
    BY <1>1, <1>2, <2>1 DEF StoreInv, Files
<1>6. SurplusListed'
  <2> SUFFICES ASSUME NEW q \in Processes, NEW u \in expired'[q]
               PROVE  Cardinality(Newer(u)') >= Retain
    BY DEF SurplusListed
  <2>1. /\ u \in expired[q] /\ u \in Nat /\ t \in Nat
    BY <1>2 DEF StoreInv, Files
  <2>2. CASE u >= t
    <3>1. Newer(u)' = Newer(u)
      BY <1>2, <1>4, <2>1, <2>2 DEF Newer
    <3> QED
      BY <2>1, <3>1 DEF StoreInv, SurplusListed
  <2>3. CASE u < t
    <3>1. Newer(t)' \subseteq Newer(u)' /\ Newer(u)' \subseteq 0..MaxClock
      BY <1>2, <1>4, <2>1, <2>3 DEF Newer
    <3>2. /\ Cardinality(Newer(t)') <= Cardinality(Newer(u)')
          /\ Cardinality(Newer(t)') \in Nat /\ Cardinality(Newer(u)') \in Nat
      BY <3>1, SecondsCounted
    <3>3. Cardinality(Newer(t)') >= Retain /\ Retain \in Nat
      BY <1>2, StoreAssumption DEF Store!StoreLifecycleAssumption
    <3> QED
      BY <3>2, <3>3
  <2> QED
    BY <2>1, <2>2, <2>3
<1>7. CopiesKeep'
  BY <1>1, <1>2, <1>3, CopiesStay
<1>8. CyclesAreShort'
  <2>1. PICK v \in Newer(t) : TRUE
    <3>1. Cardinality(Newer(t)) # 0
      BY <1>2, <1>4, SecondsCounted, StoreAssumption DEF Newer, Store!StoreLifecycleAssumption
    <3> QED
      BY <3>1, FS_EmptySet
  <2>2. v \in DOMAIN backups' /\ v >= t /\ v \in Nat
    BY <1>2, <1>4, <2>1 DEF Newer
  <2>3. \A u \in DOMAIN backups : \E w \in DOMAIN backups' : w >= u /\ w \in Nat
    <3> SUFFICES ASSUME NEW u \in DOMAIN backups
                 PROVE  \E w \in DOMAIN backups' : w >= u /\ w \in Nat
      OBVIOUS
    <3>1. CASE u = t
      BY <2>2, <3>1
    <3>2. CASE u # t
      BY <1>2, <1>4, <3>2
    <3> QED
      BY <3>1, <3>2
  <2> QED
    BY <1>1, <2>3, CyclesStay DEF Store!InCycle, Store!Cycle
<1> QED
  BY <1>5, <1>6, <1>7, <1>8 DEF FilesInv

LEMMA StoreStep == StoreInv /\ [Store!Next]_(Store!vars) => StoreInv'
<1> SUFFICES ASSUME StoreInv, [Store!Next]_(Store!vars) PROVE StoreInv'
  OBVIOUS
<1>1. SchemaInv'
  BY SchemaStep DEF StoreInv
<1>2. CASE UNCHANGED Store!vars
  BY <1>2 DEF StoreInv, SchemaInv, Schema, Progress, Alone, Files, CopiesKeep, Keeps,
     SurplusListed, Newer, CyclesAreShort, Store!InCycle, Store!vars, Store!database,
     Store!directory, Store!locals
<1>3. CASE Store!Next
  <2>1. ASSUME NEW p \in Processes, Store!Maintaining(p) PROVE FilesInv'
    BY <2>1, CopyFiles, CheckFiles, PublishFiles, FailsFiles, ListBackupsFiles,
       UnlinkFiles, WriteManifestFiles, PruneFiles
       DEF Store!Maintaining, Store!CheckFails, Store!PublishFails, Store!UnlinkFails
  <2>2. FilesInv'
    BY <1>3, <2>1, StartingFiles, RecordRunFiles, CrashFiles, TickFiles DEF Store!Next
  <2> QED
    BY <1>1, <2>2 DEF StoreInv, FilesInv
<1> QED
  BY <1>2, <1>3

(* An action property of a step follows from the invariant of its state.    *)
LEMMA PruneSafe ==
  ASSUME StoreInv, [Store!Next]_(Store!vars), NEW t \in runs \ runs'
  PROVE  \E u \in DOMAIN backups : t \in backups[u].runs
<1>1. PICK p \in Processes : Store!Prune(p)
  BY DEF Store!Next, Store!Starting, Store!Open, Store!Statement, Store!StatementFails,
     Store!Opened, Store!RecordRun, Store!Maintaining, Store!Copy,
     Store!CheckIntegrity, Store!CheckFails, Store!Publish, Store!PublishFails,
     Store!ListBackups, Store!Unlink, Store!UnlinkFails, Store!Fails,
     Store!WriteManifest, Store!Crash, Store!Tick, Store!vars, Store!database
<1>2. at[p] = "pruning" /\ t \in runs /\ t < clock - Age
  BY <1>1 DEF Store!Prune, Store!Prunable
<1>3. /\ name[p] \in 0..clock /\ clock < name[p] + Age
      /\ \E u \in DOMAIN backups : u >= name[p]
  BY <1>2 DEF StoreInv, CyclesAreShort, Store!InCycle, Store!Cycle
<1>4. PICK u \in DOMAIN backups : u >= name[p]
  BY <1>3
<1>5. t < u
  <2>1. t \in Int /\ u \in Int /\ clock \in Int /\ Age \in Int /\ name[p] \in Int
    BY <1>2, <1>3, <1>4, StoreAssumption DEF StoreInv, Files, Store!StoreLifecycleAssumption
  <2> QED
    BY <1>2, <1>3, <1>4, <2>1
<1>6. t \in backups[u].runs
  BY <1>2, <1>4, <1>5 DEF StoreInv, CopiesKeep, Keeps
<1> QED
  BY <1>4, <1>6

LEMMA ExpirySafe ==
  ASSUME StoreInv, [Store!Next]_(Store!vars), NEW t \in DOMAIN backups \ DOMAIN backups'
  PROVE  Store!Cardinality({u \in DOMAIN backups' : u > t}) >= Retain
<1>1. ASSUME NEW p \in Processes, Store!Publish(p) PROVE FALSE
  <2>1. DOMAIN backups' = DOMAIN backups \cup {name[p]}
    BY <1>1 DEF Store!Publish, Store!With
  <2> QED
    BY <2>1
<1>2. PICK p \in Processes : Store!Unlink(p)
  BY <1>1 DEF Store!Next, Store!Starting, Store!Open, Store!Statement, Store!StatementFails,
     Store!Opened, Store!RecordRun, Store!Maintaining, Store!Copy,
     Store!CheckIntegrity, Store!CheckFails, Store!PublishFails, Store!ListBackups,
     Store!UnlinkFails, Store!Fails,
     Store!WriteManifest, Store!Prune, Store!Crash, Store!Tick, Store!vars, Store!directory
<1>3. Newer(t)' = Newer(t) /\ Cardinality(Newer(t)) >= Retain
  BY <1>2, Unlinked
<1>4. Newer(t) \subseteq 0..MaxClock
  BY BackupsAreSeconds DEF Newer
<1>5. Store!Cardinality(Newer(t)') >= Retain
  BY <1>3, <1>4, SecondsCounted
<1> QED
  BY <1>5 DEF Newer

-----------------------------------------------------------------------------
(* The behaviours of the service are those of each of its parts.           *)
LEMMA EachPart == ServiceSpec => Spec /\ Store!Spec /\ Email!Spec
<1>1. ServiceInit => Init /\ Store!Init /\ Email!Init
  BY DEF ServiceInit
<1>2. [ServiceNext]_service => [Next]_vars /\ [Store!Next]_(Store!vars) /\ [Email!Next]_(Email!vars)
  BY DEF ServiceNext, ProductionNext, StoreNext, EmailNext, service, store, email,
     Store!vars, Store!database, Store!directory, Store!locals,
     Email!vars, Email!conversation
<1> QED
  BY <1>1, <1>2, PTL DEF ServiceSpec, Spec, Store!Spec, Email!Spec

LEMMA StoreInvariant == ServiceSpec => []StoreInv /\ [][Store!Next]_(Store!vars)
<1>1. Store!Spec => []StoreInv /\ [][Store!Next]_(Store!vars)
  BY StoreInit, StoreStep, PTL DEF Store!Spec
<1> QED
  BY <1>1, EachPart, PTL

(* No process gets a store whose schema is not complete, and every backup   *)
(* that was published can be restored: for any number of processes that    *)
(* start at the same time on a file of any version, killed or not.         *)
THEOREM StoreIsComplete == ServiceSpec => []StoresAreComplete
<1>1. StoreInv => StoresAreComplete
  BY TablesByName DEF StoreInv, SchemaInv, Schema, CopiesKeep, Keeps, StoresAreComplete,
     Store!StoresAreComplete, Store!OpenedIsComplete, Store!BackupsRestorable,
     Store!SchemaVersion
<1> QED
  BY <1>1, StoreInvariant, PTL

(* A run that retention deletes is in a backup that exists at that moment,  *)
(* for any retention and any number of cycles that overlap.                *)
THEOREM PruneAfterBackup == ServiceSpec => PrunedIsBackedUp
<1>1. StoreInv /\ [Store!Next]_(Store!vars) =>
         [\A t \in runs \ runs' : \E u \in DOMAIN backups : t \in backups[u].runs]_(Store!vars)
  BY PruneSafe
<1> QED
  BY <1>1, StoreInvariant, PTL DEF PrunedIsBackedUp, Store!PrunedIsBackedUp

(* When a backup is deleted, as many newer ones as are to be retained are   *)
(* still there, whatever the other cycles have listed or deleted.          *)
THEOREM ExpiryKeepsNewest == ServiceSpec => OnlySurplusExpires
<1>1. StoreInv /\ [Store!Next]_(Store!vars) =>
         [\A t \in DOMAIN backups \ DOMAIN backups' :
             Store!Cardinality({u \in DOMAIN backups' : u > t}) >= Retain]_(Store!vars)
  BY ExpirySafe
<1> QED
  BY <1>1, StoreInvariant, PTL DEF OnlySurplusExpires, Store!OnlySurplusExpires

-----------------------------------------------------------------------------
(* The email channel. *)

(* The server has taken the message exactly in the last two stages; a      *)
(* thread that is over, or returned without raising, has been through them.*)
Conversations ==
    \A t \in Tasks :
       /\ thread[t] = "none" => verdict[t] = "none"
       /\ reached[t] # {} <=> thread[t] \in {"quit", "lost"}
       /\ verdict[t] = "sent" => reached[t] # {}

EmailInv == Email!TypeOK /\ Conversations

States == {"none", "open", "accepted", "left", "left accepted"}

(* Steps that concern a single task. *)
LEMMA TaskStep ==
  ASSUME EmailInv, NEW t \in Tasks,
         Email!Send(t) \/ Email!Conversation(t) \/ Email!Resume(t) \/ Email!Collect(t)
  PROVE  EmailInv'
<1> USE DEF EmailInv, Email!TypeOK, Conversations, Email!Stages
<1>1. CASE Email!Send(t)
  BY <1>1 DEF Email!Send
<1>2. ASSUME NEW from \in {"connect", "starttls", "login"},
             NEW to \in {"starttls", "login", "message"},
             Email!At(t, from), Email!Proceeds(t, to), UNCHANGED reached
      PROVE  EmailInv'
  <2>1. /\ thread' \in [Tasks -> Email!Stages \cup {"none"}] /\ thread'[t] = to
        /\ \A s \in Tasks : s # t => thread'[s] = thread[s]
        /\ UNCHANGED <<settings, worker, awaiting, reached, verdict, result>>
    BY <1>2 DEF Email!Proceeds
  <2>2. thread[t] = from /\ verdict[t] = "none"
    BY <1>2 DEF Email!At
  <2>3. Email!TypeOK'
    BY <2>1
  <2>4. Conversations'
    BY <2>1, <2>2
  <2> QED
    BY <2>3, <2>4
<1>3. CASE Email!Connect(t) \/ Email!StartTls(t) \/ Email!Login(t)
  <2>1. Email!LoginOrMessage \in {"login", "message"}
    BY DEF Email!LoginOrMessage
  <2>2. CASE Email!Connect(t)
    <3>1. (IF settings.security = "starttls" THEN "starttls" ELSE Email!LoginOrMessage)
             \in {"starttls", "login", "message"}
      BY <2>1
    <3> QED
      BY <1>2, <2>2, <3>1, Zenon DEF Email!Connect
  <2>3. CASE Email!StartTls(t)
    BY <1>2, <2>1, <2>3, Zenon DEF Email!StartTls
  <2>4. CASE Email!Login(t)
    BY <1>2, <2>4, Zenon DEF Email!Login
  <2> QED
    BY <1>3, <2>2, <2>3, <2>4
<1>4. CASE Email!SendMessage(t)
  <2>1. PICK taken \in (SUBSET Recipients) \ {{}}, stage \in {"quit", "lost"} :
           /\ reached' = [reached EXCEPT ![t] = taken]
           /\ thread' = [thread EXCEPT ![t] = stage]
           /\ UNCHANGED <<settings, worker, awaiting, verdict, result>>
    BY <1>4 DEF Email!SendMessage, Email!Takes, Email!Proceeds
  <2>2. verdict[t] = "none"
    BY <1>4 DEF Email!SendMessage, Email!At
  <2>3. Email!TypeOK'
    BY <2>1
  <2>4. Conversations'
    BY <2>1, <2>2
  <2> QED
    BY <2>3, <2>4
<1>5. CASE Email!Quit(t) \/ Email!Raises(t)
  BY <1>5 DEF Email!Quit, Email!Raises, Email!At, Email!Finishes
<1>6. CASE Email!Resume(t)
  BY <1>6 DEF Email!Resume, Email!Ended
<1>7. CASE Email!Collect(t)
  BY <1>7 DEF Email!Collect, Email!Ended
<1> QED
  BY <1>1, <1>2, <1>3, <1>4, <1>5, <1>6, <1>7 DEF Email!Conversation

LEMMA EmailStep == EmailInv /\ [Email!Next]_(Email!vars) => EmailInv'
<1> SUFFICES ASSUME EmailInv, [Email!Next]_(Email!vars) PROVE EmailInv'
  OBVIOUS
<1>1. CASE Email!Stop \/ Email!Exit \/ Email!Restart
  BY <1>1 DEF EmailInv, Email!TypeOK, Conversations, Email!Stop, Email!Exit, Email!Restart, Email!conversation
<1>2. CASE Email!Kill
  BY <1>2 DEF EmailInv, Email!TypeOK, Conversations, Email!Kill, Email!conversation
<1>3. CASE UNCHANGED Email!vars
  BY <1>3 DEF EmailInv, Email!TypeOK, Conversations, Email!vars, Email!conversation
<1> QED
  BY <1>1, <1>2, <1>3, TaskStep DEF Email!Next

LEMMA EmailInvariant == Email!Spec => []EmailInv
<1>1. Email!Init => EmailInv
  BY DEF Email!Init, EmailInv, Email!TypeOK, Conversations, Email!Stages
<1> QED
  BY <1>1, EmailStep, PTL DEF Email!Spec

-----------------------------------------------------------------------------
(* The refinement.  A task is at the place the abstract call has.           *)

Call == [t \in Tasks |-> Email!Place(t)]

LEMMA PlaceOthers ==
  ASSUME NEW t \in Tasks, Call' = [Call EXCEPT ![t] = Email!Place(t)']
  PROVE  \A from, to \in States : (Email!Place(t) = from /\ Email!Place(t)' = to)
            => Email!Abstract!Moves(t, from, to)
BY DEF Call, Email!Abstract!Moves

(* A step of one task leaves the calls of the others alone.                *)
LEMMA CallMoves ==
  ASSUME EmailInv, NEW t \in Tasks,
         \A s \in Tasks : s # t => /\ thread'[s] = thread[s] /\ reached'[s] = reached[s]
                                   /\ (s \in awaiting' <=> s \in awaiting)
  PROVE  Call' = [Call EXCEPT ![t] = Email!Place(t)']
<1>1. \A s \in Tasks : s # t => Email!Place(s)' = Email!Place(s)
  BY DEF Email!Place
<1> QED
  BY <1>1 DEF Call

LEMMA OnlyItsOwn ==
  ASSUME EmailInv, NEW t \in Tasks,
         Email!Send(t) \/ Email!Conversation(t) \/ Email!Resume(t) \/ Email!Collect(t)
  PROVE  Call' = [Call EXCEPT ![t] = Email!Place(t)']
<1> DEFINE Others == \A s \in Tasks : s # t => /\ thread'[s] = thread[s] /\ reached'[s] = reached[s]
                                             /\ (s \in awaiting' <=> s \in awaiting)
<1> USE DEF EmailInv, Email!TypeOK
<1>1. CASE Email!Send(t)
  BY <1>1, CallMoves DEF Email!Send
<1>2. CASE Email!Conversation(t)
  <2>1. Others
    BY <1>2 DEF Email!Conversation, Email!Connect, Email!StartTls, Email!Login, Email!SendMessage, Email!Quit, Email!Raises, Email!Proceeds,
                Email!Finishes, Email!Takes
  <2> QED
    BY <2>1, CallMoves
<1>3. CASE Email!Resume(t)
  BY <1>3, CallMoves DEF Email!Resume, Email!Ended
<1>4. CASE Email!Collect(t)
  BY <1>4, CallMoves DEF Email!Collect, Email!Ended
<1> QED
  BY <1>1, <1>2, <1>3, <1>4

(* A send begins, is accepted at most once, and ends by returning when it  *)
(* was accepted, or by raising.                                            *)
LEMMA TaskImplements ==
  ASSUME EmailInv, NEW t \in Tasks,
         Email!Send(t) \/ Email!Conversation(t) \/ Email!Resume(t) \/ Email!Collect(t)
  PROVE  [Email!Abstract!Next]_(Email!Abstract!vars)
<1> USE DEF EmailInv, Email!TypeOK, Conversations
<1>0. Call' = [Call EXCEPT ![t] = Email!Place(t)']
  BY OnlyItsOwn
<1>1. CASE Email!Send(t)
  <2>1. Email!Place(t) = "none" /\ Email!Place(t)' = "open"
    BY <1>1 DEF Email!Send, Email!Place
  <2>2. Email!Abstract!Moves(t, "none", "open")
    BY <1>0, <2>1, PlaceOthers DEF States
  <2> QED
    BY <1>1, <2>2 DEF Email!Send, Email!Abstract!Next, Email!Abstract!Call
<1>2. CASE Email!SendMessage(t)
  <2>1. \/ Email!Place(t) = "open" /\ Email!Place(t)' = "accepted"
        \/ Email!Place(t) = "left" /\ Email!Place(t)' = "left accepted"
    BY <1>2 DEF Email!SendMessage, Email!Takes, Email!At, Email!Proceeds, Email!Place, Email!Stages
  <2>2. Email!Abstract!Moves(t, "open", "accepted") \/ Email!Abstract!Moves(t, "left", "left accepted")
    BY <1>0, <2>1, PlaceOthers DEF States
  <2> QED
    BY <1>2, <2>2 DEF Email!SendMessage, Email!Proceeds, Email!Abstract!Next, Email!Abstract!Accept
<1>3. CASE Email!Connect(t) \/ Email!StartTls(t) \/ Email!Login(t) \/ Email!Quit(t) \/ Email!Raises(t)
  <2>1. Email!Place(t)' = Email!Place(t)
    BY <1>3 DEF Email!Connect, Email!StartTls, Email!Login, Email!Quit, Email!Raises, Email!At, Email!Proceeds, Email!Finishes,
                Email!LoginOrMessage, Email!Place, Email!Stages
  <2>2. Call' = Call
    BY <1>0, <2>1 DEF Call
  <2>3. result' = result
    BY <1>3 DEF Email!Connect, Email!StartTls, Email!Login, Email!Quit, Email!Raises, Email!Proceeds, Email!Finishes
  <2> QED
    BY <2>2, <2>3 DEF Email!Abstract!vars, Call
<1>4. CASE Email!Resume(t)
  <2>1. /\ Email!Place(t) \in {"open", "accepted"} /\ Email!Place(t)' = "none"
        /\ verdict[t] = "sent" => Email!Place(t) = "accepted"
    BY <1>4 DEF Email!Resume, Email!Ended, Email!Place
  <2>2. /\ \E from \in {"open", "accepted"} : Email!Abstract!Moves(t, from, "none")
        /\ verdict[t] = "sent" => Email!Abstract!Moves(t, "accepted", "none")
    BY <1>0, <2>1, PlaceOthers DEF States
  <2>3. verdict[t] \in {"sent", "raised"} /\ result' = [result EXCEPT ![t] = verdict[t]]
    BY <1>4 DEF Email!Resume
  <2> QED
    BY <2>2, <2>3 DEF Email!Abstract!Next, Email!Abstract!End, Email!Abstract!Return, Email!Abstract!Raise
<1>5. CASE Email!Collect(t)
  <2>1. Email!Place(t) \in {"left", "left accepted"} /\ Email!Place(t)' = "none"
    BY <1>5 DEF Email!Collect, Email!Ended, Email!Place
  <2>2. Email!Abstract!Moves(t, "left", "none") \/ Email!Abstract!Moves(t, "left accepted", "none")
    BY <1>0, <2>1, PlaceOthers DEF States
  <2> QED
    BY <1>5, <2>2 DEF Email!Collect, Email!Abstract!Next, Email!Abstract!Forget
<1> QED
  BY <1>1, <1>2, <1>3, <1>4, <1>5 DEF Email!Conversation

(* The process: cancelling its tasks leaves their calls, the end of it     *)
(* forgets them.                                                           *)
LEMMA ProcessImplements ==
  ASSUME EmailInv, Email!Stop \/ Email!Exit \/ Email!Kill \/ Email!Restart \/ UNCHANGED Email!vars
  PROVE  [Email!Abstract!Next]_(Email!Abstract!vars)
<1> USE DEF EmailInv, Email!TypeOK, Conversations
<1>1. CASE Email!Exit \/ Email!Restart \/ UNCHANGED Email!vars
  <2>1. UNCHANGED <<awaiting, thread, reached, result>>
    BY <1>1 DEF Email!Exit, Email!Restart, Email!vars, Email!conversation
  <2>2. \A t \in Tasks : Email!Place(t)' = Email!Place(t)
    BY <2>1 DEF Email!Place
  <2> QED
    BY <2>1, <2>2 DEF Email!Abstract!vars
<1>2. CASE Email!Stop
  <2>1. \A t \in Tasks : Email!Place(t)' = Email!Abstract!Left(Email!Place(t))
    BY <1>2 DEF Email!Stop, Email!conversation, Email!Place, Email!Abstract!Left
  <2>2. Email!Abstract!LeaveAll
    BY <1>2, <2>1 DEF Email!Stop, Email!Abstract!LeaveAll
  <2> QED
    BY <2>2 DEF Email!Abstract!Next
<1>3. CASE Email!Kill
  <2>1. \A t \in Tasks : Email!Place(t)' = "none"
    BY <1>3 DEF Email!Kill, Email!Place
  <2>2. Email!Abstract!ForgetAll
    BY <1>3, <2>1 DEF Email!Kill, Email!Abstract!ForgetAll
  <2> QED
    BY <2>2 DEF Email!Abstract!Next
<1> QED
  BY <1>1, <1>2, <1>3

(* The email channel does what the dispatcher relies on: whatever the      *)
(* server answers and whenever the worker is stopped or killed, a send     *)
(* that returns was accepted once, one that raises at most once.           *)
THEOREM EmailIsAChannel == ServiceSpec => Email!Abstract!Spec
<1>1. Email!Init => Email!Abstract!Init
  BY DEF Email!Init, Email!Abstract!Init, Email!Place
<1>2. EmailInv /\ [Email!Next]_(Email!vars) => [Email!Abstract!Next]_(Email!Abstract!vars)
  BY TaskImplements, ProcessImplements DEF Email!Next
<1>3. Email!Spec => Email!Abstract!Spec
  BY <1>1, <1>2, EmailInvariant, PTL DEF Email!Spec, Email!Abstract!Spec
<1> QED
  BY <1>3, EachPart, PTL

-----------------------------------------------------------------------------
(* Every variable of the three parts has its type. *)
THEOREM OperationTyped == ServiceSpec => []TypesOK
<1>1. StoreInv => Store!TypeOK
  BY FilesTyped
<1>2. EmailInv => Email!TypeOK
  BY DEF EmailInv
<1>3. TypeOK /\ Store!TypeOK /\ Email!TypeOK => TypesOK
  BY DEF TypesOK
<1> QED
  BY <1>1, <1>2, <1>3, TypeCorrect, StoreInvariant, EmailInvariant, EachPart, PTL

=============================================================================
