--------------------------- MODULE MCBoundary_proofs ---------------------------
(***************************************************************************)
(* Proofs about the parts of the boundary, for any value of their          *)
(* constants.  BCParks: a recorded snapshot is the one of a single moment, *)
(* for the day the facility reported is still the day of the reservations, *)
(* because their dates would not cover its window otherwise.  Settings:    *)
(* what a process has loaded was valid when it started, and keeps being    *)
(* so whatever is edited.  Mock: what a check has been shown was online    *)
(* during it.  Draws: the one pass of the parser, row by row, against the  *)
(* layout of the table.                                                    *)
(***************************************************************************)
EXTENDS MCBoundary, FiniteSetTheorems, SequenceTheorems, WellFoundedInduction, TLAPS

(* The latest snapshot is that of the moment t. *)
ComputedAt(t) ==
    \A d \in Dates :
       /\ latest[d] # Core!Absent => d \in Window(Day(t))
       /\ latest[d] \in {"available", "unavailable"} => d \in Required /\ BookingOpened(d, t)

(* That moment is past, and a check under way read the facility after it. *)
Computed ==
    latest # Null =>
       \E t \in 0..now : ComputedAt(t) /\ (pc = "facility" => t <= facilityTime)

IInv == TypeOK /\ Computed

-----------------------------------------------------------------------------
(* Days. *)

LEMMA DayLengthPositive == DayLength \in Nat \ {0} /\ SlotEnd \in 1..DayLength /\ DaysAhead \in Nat
  BY BCParksAssumption DEF BookingAssumption

(* A day begins with its midnight and has DayLength units.                 *)
LEMMA DayBounds ==
  ASSUME NEW t \in Nat
  PROVE  /\ Day(t) \in Nat
         /\ Day(t) * DayLength <= t
         /\ t < (Day(t) + 1) * DayLength
<1> DEFINE q == t \div DayLength
<1>1. DayLength \in Nat \ {0}
  BY DayLengthPositive
<1>2. q \in Int /\ t % DayLength \in 0..(DayLength - 1) /\ t = DayLength * q + (t % DayLength)
  BY <1>1
<1>3. \A i, r \in Int : (r \in 0..(DayLength - 1) /\ t = DayLength * i + r) =>
          /\ i >= 0 /\ i * DayLength <= t
          /\ t < (i + 1) * DayLength
  <2> SUFFICES ASSUME NEW i \in Int, NEW r \in 0..(DayLength - 1), t = DayLength * i + r
               PROVE  i >= 0 /\ i * DayLength <= t /\ t < (i + 1) * DayLength
    OBVIOUS
  <2>1. i * DayLength = DayLength * i /\ (i + 1) * DayLength = DayLength * i + DayLength
    BY <1>1
  <2>2. i * DayLength <= t /\ t < (i + 1) * DayLength
    BY <1>1, <2>1
  <2>3. i >= 0
    BY <1>1, <2>2
  <2> QED
    BY <2>2, <2>3
<1> QED
  BY <1>1, <1>2, <1>3 DEF Day

(* Days follow one another.                                                *)
LEMMA DaysMonotone ==
  ASSUME NEW t \in Nat, NEW u \in Nat, t <= u
  PROVE  Day(t) <= Day(u)
<1>1. Day(t) \in Nat /\ Day(u) \in Nat /\ Day(t) * DayLength <= t
      /\ u < (Day(u) + 1) * DayLength /\ DayLength \in Nat \ {0}
  BY DayBounds, DayLengthPositive
<1>2. \A a, b \in Nat, n \in Nat \ {0} : a * n < b * n => a < b
  OBVIOUS
<1>3. Day(t) * DayLength < (Day(u) + 1) * DayLength
  BY <1>1
<1> QED
  BY <1>1, <1>2, <1>3

(* The slot of a day that is past is over.                                 *)
LEMMA PastIsOver ==
  ASSUME NEW t \in Nat, NEW d \in Nat, d < Day(t)
  PROVE  t >= d * DayLength + SlotEnd
<1>1. Day(t) \in Nat /\ Day(t) * DayLength <= t /\ DayLength \in Nat \ {0}
      /\ SlotEnd \in 1..DayLength
  BY DayBounds, DayLengthPositive
<1>2. \A a, b, n \in Nat : a < b => a * n + n <= b * n
  <2> SUFFICES ASSUME NEW a \in Nat, NEW b \in Nat, NEW n \in Nat, a < b
               PROVE  a * n + n <= b * n
    OBVIOUS
  <2>1. PICK k \in Nat : b = a + 1 + k
    <3>1. b - a - 1 \in Nat /\ b = a + 1 + (b - a - 1)
      OBVIOUS
    <3> QED
      BY <3>1
  <2>2. b * n = a * n + n + k * n /\ k * n \in Nat /\ a * n \in Nat
    BY <2>1
  <2> QED
    BY <2>2
<1>3. d * DayLength + DayLength <= Day(t) * DayLength
  BY <1>1, <1>2
<1> QED
  BY <1>1, <1>3

-----------------------------------------------------------------------------
(* The snapshot a check computes. *)

LEMMA AvailabilityTyped ==
  ASSUME NEW d, NEW capacity, NEW t
  PROVE  AvailabilityOf(d, capacity, t) \in Core!Availability
         /\ AvailabilityOf(d, capacity, t) # Core!Absent
BY DEF AvailabilityOf, Core!Availability, Core!Absent

(* What the availability of a date says of its bookings.                   *)
LEMMA AvailabilityMeans ==
  ASSUME NEW d, NEW capacity, NEW t
  PROVE  /\ AvailabilityOf(d, capacity, t) = "unknown" =>
               d \notin Required \/ ~BookingOpened(d, t)
         /\ AvailabilityOf(d, capacity, t) \in {"available", "unavailable"} =>
               d \in Required /\ BookingOpened(d, t)
BY DEF AvailabilityOf

LEMMA SnapshotTyped ==
  ASSUME NEW response, NEW t
  PROVE  Snapshot(response, t) \in Core!Snapshots
BY AvailabilityTyped DEF Snapshot, Core!Snapshots

LEMMA DetectedTyped ==
  ASSUME NEW s \in Core!Snapshots, NEW u \in Core!Snapshots
  PROVE  /\ Core!DetectTransitions(s, u) \subseteq Core!Changes
         /\ Core!DetectInitialTransitions(u) \subseteq Core!Changes
<1>1. ASSUME NEW old, NEW new PROVE Core!TransitionType(old, new) \in Core!TransitionTypes
  BY DEF Core!TransitionType, Core!TransitionTypes, Core!AvailabilityTransition
<1>2. \A o \in Dates : s[o] \in Core!Availability \cup {Core!Absent}
                    /\ u[o] \in Core!Availability \cup {Core!Absent}
  BY DEF Core!Snapshots
<1>3. ASSUME NEW c \in Core!DetectTransitions(s, u) PROVE c \in Core!Changes
  <2>1. PICK o \in Dates :
           c = [opportunity |-> o, type |-> Core!TransitionType(s[o], u[o]),
                previous |-> s[o], current |-> u[o]]
    BY DEF Core!DetectTransitions
  <2>2. Core!TransitionType(s[o], u[o]) \in Core!TransitionTypes
    BY <1>1
  <2> QED
    BY <1>2, <2>1, <2>2 DEF Core!Changes
<1>4. Core!DetectInitialTransitions(u) \subseteq Core!Changes
  BY <1>2 DEF Core!DetectInitialTransitions, Core!Changes, Core!TransitionTypes
<1> QED
  BY <1>3, <1>4

(* What a check that succeeds records: a snapshot of the moment it read    *)
(* the facility, which is of today.                                        *)
LEMMA ReadingIsOfToday ==
  ASSUME TypeOK, ReadReservations
  PROVE  /\ facilityTime \in 0..now /\ now \in Nat
         /\ Day(facilityTime) = Day(now)
         /\ latest' \in Core!Snapshots
         /\ \A d \in Dates :
               /\ latest'[d] # Core!Absent => d \in Window(Day(now))
               /\ (d \in Window(Day(now)) /\ latest'[d] = Core!Absent) => Over(d, facilityTime)
               /\ latest'[d] = "unknown" =>
                     d \notin Required \/ ~BookingOpened(d, facilityTime)
               /\ latest'[d] \in {"available", "unavailable"} =>
                     d \in Required /\ BookingOpened(d, facilityTime)
<1>1. facilityTime \in 0..now /\ now \in Nat
  BY BCParksAssumption DEF BookingAssumption, TypeOK
<1>2. PICK response \in Responses :
         /\ DOMAIN response = Window(Day(facilityTime))
         /\ latest' = Snapshot(response, facilityTime)
  BY DEF ReadReservations, Usable
<1>3. DOMAIN response \subseteq Window(Day(now))
  BY <1>2 DEF Responses
<1>4. Day(facilityTime) \in Nat /\ Day(now) \in Nat /\ DaysAhead \in Nat
  BY <1>1, DayBounds, DayLengthPositive
<1>5. Day(facilityTime) = Day(now)
  <2>1. Day(facilityTime) \in Window(Day(facilityTime))
        /\ Day(facilityTime) + DaysAhead \in Window(Day(facilityTime))
    BY <1>4 DEF Window
  <2>2. Day(facilityTime) \in Window(Day(now)) /\ Day(facilityTime) + DaysAhead \in Window(Day(now))
    BY <1>2, <1>3, <2>1
  <2> QED
    BY <1>4, <2>2 DEF Window
<1>6. ASSUME NEW d \in Dates
      PROVE  /\ latest'[d] # Core!Absent => d \in Window(Day(now))
             /\ (d \in Window(Day(now)) /\ latest'[d] = Core!Absent) => Over(d, facilityTime)
             /\ latest'[d] # Core!Absent =>
                   latest'[d] = AvailabilityOf(d, response[d], facilityTime)
  <2>1. latest'[d] = IF d \in Window(Day(now)) /\ ~Over(d, facilityTime)
                     THEN AvailabilityOf(d, response[d], facilityTime) ELSE Core!Absent
    BY <1>2, <1>5 DEF Snapshot
  <2> QED
    BY <2>1, AvailabilityTyped
<1>7. ASSUME NEW d \in Dates
      PROVE  /\ latest'[d] = "unknown" =>
                   d \notin Required \/ ~BookingOpened(d, facilityTime)
             /\ latest'[d] \in {"available", "unavailable"} =>
                   d \in Required /\ BookingOpened(d, facilityTime)
  <2>1. latest'[d] = AvailabilityOf(d, response[d], facilityTime) \/ latest'[d] = "absent"
    BY <1>6 DEF Core!Absent
  <2>3. CASE latest'[d] = AvailabilityOf(d, response[d], facilityTime)
    BY <2>3, AvailabilityMeans
  <2>4. CASE latest'[d] = "absent"
    BY <2>4
  <2> QED
    BY <2>1, <2>3, <2>4
<1> QED
  BY <1>1, <1>2, <1>5, <1>6, <1>7, SnapshotTyped

-----------------------------------------------------------------------------
LEMMA TypeStep == TypeOK /\ [Next]_vars => TypeOK'
<1> SUFFICES ASSUME TypeOK, [Next]_vars PROVE TypeOK'
  OBVIOUS
<1> USE DEF TypeOK
<1>0. now \in Nat
  BY BCParksAssumption DEF BookingAssumption
<1>1. CASE Pass
  BY <1>0, <1>1, BCParksAssumption DEF BookingAssumption, Pass, check, recorded
<1>2. ASSUME NEW d \in Dates, CapacityChanges(d) PROVE TypeOK'
  <2>1. full' \subseteq Dates
    BY <1>2, Zenon DEF CapacityChanges
  <2>2. UNCHANGED <<now, open, pc, facilityTime, latest, changes>>
    BY <1>2 DEF CapacityChanges, check, recorded
  <2> QED
    BY <2>1, <2>2
<1>3. CASE SeasonChanges
  BY <1>3 DEF SeasonChanges, check, recorded
<1>4. CASE ReadConfig \/ ReadPark \/ CheckFails
  BY <1>0, <1>4 DEF ReadConfig, ReadPark, CheckFails, provider, recorded
<1>5. CASE ReadFacility
  BY <1>0, <1>5 DEF ReadFacility, provider, recorded
<1>6. CASE ReadReservations
  <2>1. latest' \in Core!Snapshots
    BY <1>6, ReadingIsOfToday
  <2>2. changes' \subseteq Core!Changes
    BY <1>6, <2>1, DetectedTyped DEF ReadReservations
  <2> QED
    BY <1>0, <1>6, <2>1, <2>2 DEF ReadReservations, provider
<1>7. CASE UNCHANGED vars
  BY <1>7 DEF vars, provider, check, recorded
<1> QED
  BY <1>1, <1>2, <1>3, <1>4, <1>5, <1>6, <1>7 DEF Next

LEMMA ComputedStep == IInv /\ [Next]_vars => Computed'
<1> SUFFICES ASSUME IInv, [Next]_vars PROVE Computed'
  OBVIOUS
<1>0. now \in Nat /\ now' \in Nat /\ facilityTime \in 0..now
  BY TypeStep, BCParksAssumption DEF BookingAssumption, IInv, TypeOK
<1>1. ASSUME UNCHANGED latest, now' >= now,
             pc' = "facility" => (facilityTime' = now \/ (pc = "facility" /\ facilityTime' = facilityTime))
      PROVE  Computed'
  <2> SUFFICES ASSUME latest # Null
               PROVE  \E t \in 0..now' : ComputedAt(t)' /\ (pc' = "facility" => t <= facilityTime')
    BY <1>1 DEF Computed
  <2>1. PICK t \in 0..now : ComputedAt(t) /\ (pc = "facility" => t <= facilityTime)
    BY DEF IInv, Computed
  <2>2. t \in 0..now' /\ (pc' = "facility" => t <= facilityTime')
    BY <1>0, <1>1, <2>1
  <2>3. ComputedAt(t)'
    BY <1>1, <2>1 DEF ComputedAt
  <2> QED
    BY <2>2, <2>3
<1>2. CASE Pass
  BY <1>0, <1>1, <1>2 DEF Pass, check, recorded
<1>3. ASSUME NEW d \in Dates, CapacityChanges(d) PROVE Computed'
  BY <1>0, <1>1, <1>3 DEF CapacityChanges, check, recorded
<1>4. CASE SeasonChanges \/ UNCHANGED vars
  BY <1>0, <1>1, <1>4 DEF SeasonChanges, check, recorded, vars, provider
<1>5. CASE ReadConfig \/ ReadPark \/ CheckFails \/ ReadFacility
  BY <1>0, <1>1, <1>5 DEF ReadConfig, ReadPark, CheckFails, ReadFacility, provider, recorded
<1>6. CASE ReadReservations
  <2>1. /\ now' = now /\ pc' = "idle"
        /\ Day(facilityTime) = Day(now)
        /\ \A d \in Dates :
              /\ latest'[d] # Core!Absent => d \in Window(Day(now))
              /\ latest'[d] \in {"available", "unavailable"} =>
                    d \in Required /\ BookingOpened(d, facilityTime)
    BY <1>6, ReadingIsOfToday DEF IInv, ReadReservations, provider
  <2>2. PICK t \in 0..now : t = facilityTime
    BY <1>0
  <2>3. ComputedAt(t)'
    BY <2>1, <2>2 DEF ComputedAt
  <2> QED
    BY <2>1, <2>3 DEF Computed
<1> QED
  BY <1>2, <1>3, <1>4, <1>5, <1>6 DEF Next

LEMMA ReadingInvariant == Spec => []IInv
<1>1. Init => IInv
  BY BCParksAssumption DEF BookingAssumption, Init, IInv, TypeOK, Computed
<1>2. IInv /\ [Next]_vars => IInv'
  BY TypeStep, ComputedStep DEF IInv
<1> QED
  BY <1>1, <1>2, PTL DEF Spec

(* Every reachable state has its declared shape: in particular the time of *)
(* a facility response is never ahead of the clock.                        *)
THEOREM TypeCorrect == Spec => []TypeOK
<1>1. IInv => TypeOK
  BY DEF IInv
<1> QED
  BY <1>1, ReadingInvariant, PTL

(* Only the reservations change what is recorded. *)
LEMMA OnlyReadingRecords ==
  ASSUME [Next]_vars, ~ReadReservations PROVE UNCHANGED <<latest, changes>>
BY DEF Next, Pass, CapacityChanges, SeasonChanges, ReadConfig, ReadPark, ReadFacility,
       CheckFails, vars, recorded

(* No snapshot is torn by midnight, for any window and slot (the comparison *)
(* of the response's dates with those of the facility's clock).            *)
THEOREM SnapshotOfOneDay == Spec => WindowIsCurrent
<1> DEFINE Listed ==
       latest' # latest =>
          \A d \in Dates :
             /\ latest'[d] # Core!Absent => d \in Window(Day(now))
             /\ (d \in Window(Day(now)) /\ latest'[d] = Core!Absent)
                   => now >= d * DayLength + SlotEnd
<1>1. IInv /\ [Next]_vars => Listed
  <2> SUFFICES ASSUME IInv, ReadReservations PROVE Listed
    BY OnlyReadingRecords
  <2> SUFFICES ASSUME NEW d \in Dates
               PROVE  /\ latest'[d] # Core!Absent => d \in Window(Day(now))
                      /\ (d \in Window(Day(now)) /\ latest'[d] = Core!Absent)
                            => now >= d * DayLength + SlotEnd
    OBVIOUS
  <2>1. d * DayLength + SlotEnd \in Int
    BY BCParksAssumption DEF BookingAssumption, Dates
  <2> QED
    BY <2>1, ReadingIsOfToday DEF IInv, Over
<1>2. IInv /\ [Next]_vars => [Listed]_vars
  BY <1>1
<1> QED
  BY <1>2, ReadingInvariant, PTL DEF Spec, WindowIsCurrent

(* A date is reported as disappeared only when its slot is over, for any    *)
(* responses, refusals and midnights in between.                           *)
THEOREM NothingDisappearsEarly == Spec => DisappearsOnlyWhenOver
<1> DEFINE Ends ==
       \A c \in changes' \ changes :
          c.type = "disappeared" => now >= c.opportunity * DayLength + SlotEnd
<1>1. IInv /\ [Next]_vars => Ends
  <2> SUFFICES ASSUME IInv, ReadReservations, NEW c \in changes', c.type = "disappeared"
               PROVE  now >= c.opportunity * DayLength + SlotEnd
    BY OnlyReadingRecords
  <2>1. /\ facilityTime \in 0..now /\ now \in Nat
        /\ \A d \in Dates : (d \in Window(Day(now)) /\ latest'[d] = Core!Absent)
                               => Over(d, facilityTime)
    BY ReadingIsOfToday DEF IInv
  <2>2. latest # Null /\ c \in Core!DetectTransitions(latest, latest')
    BY DEF ReadReservations, Core!DetectInitialTransitions
  <2>3. PICK d \in Dates : /\ c.opportunity = d /\ latest[d] # latest'[d]
                           /\ c.type = Core!TransitionType(latest[d], latest'[d])
    BY <2>2 DEF Core!DetectTransitions
  <2>4. latest[d] # Core!Absent /\ latest'[d] = Core!Absent
    BY <2>3 DEF Core!TransitionType, Core!AvailabilityTransition
  <2>5. d \in Nat /\ DayLength \in Nat \ {0} /\ SlotEnd \in 1..DayLength /\ DaysAhead \in Nat
    BY BCParksAssumption DEF BookingAssumption, Dates
  <2>6. PICK t \in 0..now : d \in Window(Day(t))
    BY <2>2, <2>4 DEF IInv, Computed, ComputedAt
  <2>7. Day(t) \in Nat /\ Day(now) \in Nat /\ Day(t) <= Day(now)
    BY <2>1, DayBounds, DaysMonotone
  <2>8. CASE d \in Window(Day(now))
    BY <2>1, <2>3, <2>4, <2>5, <2>8 DEF Over
  <2>9. CASE d \notin Window(Day(now))
    <3>1. d < Day(now)
      BY <2>5, <2>6, <2>7, <2>9 DEF Window
    <3> QED
      BY <2>1, <2>3, <2>5, <3>1, PastIsOver
  <2> QED
    BY <2>8, <2>9
<1>2. IInv /\ [Next]_vars => [Ends]_vars
  BY <1>1
<1> QED
  BY <1>2, ReadingInvariant, PTL DEF Spec, DisappearsOnlyWhenOver

(* Bookings of a date that are known to be open stay so, for any opening    *)
(* hour: a later check computes with a later time of the provider.         *)
THEOREM OpeningIsFinal == Spec => OpensOnce
<1> DEFINE Stays ==
       (latest # Null /\ latest' # latest) =>
          \A d \in Dates :
             latest[d] \in {"available", "unavailable"} => latest'[d] # "unknown"
<1>1. IInv /\ [Next]_vars => Stays
  <2> SUFFICES ASSUME IInv, ReadReservations, latest # Null, NEW d \in Dates,
                      latest[d] \in {"available", "unavailable"}
               PROVE  latest'[d] # "unknown"
    BY OnlyReadingRecords
  <2>1. PICK t \in 0..now : ComputedAt(t) /\ t <= facilityTime
    BY DEF IInv, Computed, ReadReservations
  <2>2. d \in Required /\ BookingOpened(d, t)
    BY <2>1 DEF ComputedAt
  <2>3. facilityTime \in 0..now /\ now \in Nat
    BY ReadingIsOfToday DEF IInv
  <2>4. (d - DaysAhead) * DayLength + OpeningTime \in Int
    BY BCParksAssumption DEF BookingAssumption, Dates
  <2>5. BookingOpened(d, facilityTime)
    BY <2>1, <2>2, <2>3, <2>4 DEF BookingOpened
  <2> QED
    BY <2>2, <2>5, ReadingIsOfToday DEF IInv
<1>2. IInv /\ [Next]_vars => [Stays]_vars
  BY <1>1
<1> QED
  BY <1>2, ReadingInvariant, PTL DEF Spec, OpensOnce

-----------------------------------------------------------------------------
(* Configuration.  The pending rows the running worker put in the outbox    *)
(* name its channels, and it has no schedule that load_config refuses.      *)

Loaded ==
    /\ worker.run = runs /\ worker.run >= 1
    /\ worker.operational \subseteq worker.registered /\ worker.registered \subseteq Settings!Channels
    /\ DOMAIN worker.jobs \subseteq Jobs
    /\ \A j \in DOMAIN worker.jobs :
          /\ worker.jobs[j].channels \subseteq worker.registered
          /\ worker.jobs[j].schedule \in Schedules
          /\ Settings!ParsesSchedule(worker.jobs[j].schedule) /\ worker.jobs[j].schedule # Unset
    /\ \A r \in rows : r.by = worker.run => r.channel \in worker.registered

Row == [job : Jobs, channel : Settings!Channels, by : 0..runs]

SettingsInv ==
    /\ file \in [Jobs -> Settings!Entries \cup {Unset}]
    /\ environment \in [smtp : [Settings!Fields -> Settings!Values],
                        operational : {Unset} \cup SUBSET Settings!Channels, alertAfter : 0..1]
    /\ runs \in Nat /\ edits \in 0..MaxEdits
    /\ rows \subseteq Row
    /\ worker # Null => Loaded
    /\ oneShot # Null => oneShot.job \in Jobs /\ oneShot.channels \subseteq Settings!Channels

LEMMA RegisteredChannels == Settings!Registered \subseteq Settings!Channels
BY DEF Settings!Registered, Settings!Channels

LEMMA SettingsInit == Settings!Init => SettingsInv
<1> SUFFICES ASSUME Settings!Init PROVE SettingsInv
  OBVIOUS
<1>1. file \in [Jobs -> Settings!Entries \cup {Unset}]
  BY DEF Settings!Init, Settings!Sound, Settings!Entries, Settings!Channels
<1>2. environment \in [smtp : [Settings!Fields -> Settings!Values],
                       operational : {Unset} \cup SUBSET Settings!Channels, alertAfter : 0..1]
  <2>1. \A value \in Settings!Values :
           Settings!Everywhere(value) \in [Settings!Fields -> Settings!Values]
    BY DEF Settings!Everywhere
  <2>2. environment.smtp \in [Settings!Fields -> Settings!Values]
    BY <2>1 DEF Settings!Init, Settings!Values
  <2> QED
    BY <2>2 DEF Settings!Init
<1>3. runs = 0 /\ edits = 0 /\ rows = {} /\ worker = Null /\ oneShot = Null /\ MaxEdits \in Nat
  BY SettingsAssumption DEF Settings!Init, Settings!ConfigurationAssumption
<1> QED
  BY <1>1, <1>2, <1>3 DEF SettingsInv

(* An edit changes what the next process reads, and nothing that runs.      *)
LEMMA EditKeeps ==
  ASSUME SettingsInv, Settings!Edits,
         file' \in [Jobs -> Settings!Entries \cup {Unset}],
         environment' \in [smtp : [Settings!Fields -> Settings!Values],
                           operational : {Unset} \cup SUBSET Settings!Channels, alertAfter : 0..1]
  PROVE  SettingsInv'
<1>1. UNCHANGED <<worker, oneShot, rows, runs>> /\ edits' = edits + 1 /\ edits < MaxEdits
  BY DEF Settings!Edits
<1>2. edits' \in 0..MaxEdits
  BY <1>1, SettingsAssumption DEF SettingsInv, Settings!ConfigurationAssumption
<1> QED
  BY <1>1, <1>2 DEF SettingsInv, Loaded, Row

LEMMA EditFileKeeps ==
  ASSUME SettingsInv, NEW j \in Jobs, Settings!EditFile(j) PROVE SettingsInv'
<1> DEFINE entry == file'[j]
<1>1. /\ Settings!Edits /\ environment' = environment
      /\ \E e \in Settings!Entries \cup {Unset} : file' = [file EXCEPT ![j] = e]
  <2>1. CASE file' = [file EXCEPT ![j] = Unset]
    BY <2>1 DEF Settings!EditFile
  <2>2. ASSUME file[j] = Unset, NEW s \in Schedules,
               file' = [file EXCEPT ![j] = Settings!Sound(Settings!Channels, s)]
        PROVE  \E e \in Settings!Entries : file' = [file EXCEPT ![j] = e]
    BY <2>2 DEF Settings!Sound, Settings!Entries
  <2>3. ASSUME file[j] # Unset,
               \/ file' = [file EXCEPT ![j].wellFormed = ~@]
               \/ file' = [file EXCEPT ![j].suits = ~@]
               \/ file' = [file EXCEPT ![j].enabled = ~@]
               \/ \E c \in SUBSET Settings!Channels : file' = [file EXCEPT ![j].channels = c]
               \/ \E s \in Schedules \cup {Unset} : file' = [file EXCEPT ![j].schedule = s]
        PROVE  \E e \in Settings!Entries : file' = [file EXCEPT ![j] = e]
    <3>1. file[j] \in Settings!Entries
      BY <2>3 DEF SettingsInv
    <3>2. CASE file' = [file EXCEPT ![j].wellFormed = ~@]
      BY <3>1, <3>2 DEF Settings!Entries
    <3>3. CASE file' = [file EXCEPT ![j].suits = ~@]
      BY <3>1, <3>3 DEF Settings!Entries
    <3>4. CASE file' = [file EXCEPT ![j].enabled = ~@]
      BY <3>1, <3>4 DEF Settings!Entries
    <3>5. CASE \E c \in SUBSET Settings!Channels : file' = [file EXCEPT ![j].channels = c]
      BY <3>1, <3>5 DEF Settings!Entries
    <3>6. CASE \E s \in Schedules \cup {Unset} : file' = [file EXCEPT ![j].schedule = s]
      BY <3>1, <3>6 DEF Settings!Entries
    <3> QED
      BY <2>3, <3>2, <3>3, <3>4, <3>5, <3>6
  <2> QED
    BY <2>1, <2>2, <2>3 DEF Settings!EditFile
<1>2. file' \in [Jobs -> Settings!Entries \cup {Unset}]
  BY <1>1 DEF SettingsInv
<1> QED
  BY <1>1, <1>2, EditKeeps DEF SettingsInv

LEMMA EditEnvironmentKeeps ==
  ASSUME SettingsInv, Settings!EditEnvironment PROVE SettingsInv'
<1> DEFINE E == [smtp : [Settings!Fields -> Settings!Values],
                 operational : {Unset} \cup SUBSET Settings!Channels, alertAfter : 0..1]
<1>1. Settings!Edits /\ file' = file /\ environment \in E
  BY DEF Settings!EditEnvironment, SettingsInv
<1>2. ASSUME NEW value \in {"absent", "right"},
             environment' = [environment EXCEPT !.smtp = Settings!Everywhere(value)]
      PROVE  environment' \in E
  <2>1. Settings!Everywhere(value) \in [Settings!Fields -> Settings!Values]
    BY DEF Settings!Everywhere, Settings!Values
  <2> QED
    BY <1>1, <1>2, <2>1
<1>3. ASSUME NEW f \in Settings!Fields, NEW value \in Settings!Values,
             environment' = [environment EXCEPT !.smtp[f] = value]
      PROVE  environment' \in E
  <2>1. [environment.smtp EXCEPT ![f] = value] \in [Settings!Fields -> Settings!Values]
    BY <1>1
  <2> QED
    BY <1>1, <1>3, <2>1
<1>4. ASSUME NEW o \in {Unset} \cup SUBSET Settings!Channels,
             environment' = [environment EXCEPT !.operational = o]
      PROVE  environment' \in E
  BY <1>1, <1>4
<1>5. ASSUME NEW n \in 0..1, environment' = [environment EXCEPT !.alertAfter = n]
      PROVE  environment' \in E
  BY <1>1, <1>5
<1>6. environment' \in E
  BY <1>2, <1>3, <1>4, <1>5 DEF Settings!EditEnvironment
<1> QED
  BY <1>1, <1>6, EditKeeps DEF SettingsInv

(* The worker takes on what it validated, under a number no row has yet.    *)
LEMMA StartWorkerKeeps ==
  ASSUME SettingsInv, Settings!StartWorker PROVE SettingsInv'
<1>1. /\ UNCHANGED <<file, environment, oneShot, rows, edits>> /\ runs' = runs + 1
      /\ worker' = [run |-> runs', registered |-> Settings!Registered,
                    operational |-> Settings!OperationalChannels,
                    jobs |-> [j \in Settings!Enabled |-> file[j]]]
      /\ Settings!ValidateConfig /\ Settings!ValidateWorkerSchedules /\ Settings!RunWorker
  BY DEF Settings!StartWorker
<1>2. runs \in Nat /\ rows \subseteq Row /\ Settings!Enabled \subseteq Settings!Listed
      /\ Settings!Listed \subseteq Jobs
  BY DEF SettingsInv, Settings!Enabled, Settings!Listed
<1>3. \A j \in Settings!Enabled :
         /\ file[j].channels \subseteq Settings!Registered
         /\ Settings!ParsesSchedule(file[j].schedule)
         /\ file[j].schedule # Unset /\ file[j].schedule \in Schedules
  <2> SUFFICES ASSUME NEW j \in Settings!Enabled
               PROVE  /\ file[j].channels \subseteq Settings!Registered
                      /\ Settings!ParsesSchedule(file[j].schedule)
                      /\ file[j].schedule # Unset /\ file[j].schedule \in Schedules
    OBVIOUS
  <2>1. file[j] \in Settings!Entries
    BY <1>2 DEF SettingsInv, Settings!Listed
  <2>2. file[j].schedule # Unset /\ file[j].schedule \in Schedules
    BY <1>1, <2>1 DEF Settings!ValidateWorkerSchedules, Settings!Entries
  <2>3. Settings!ParsesSchedule(file[j].schedule)
    BY <1>1, <1>2 DEF Settings!ValidateConfig, Settings!Prepares, Settings!LoadConfig
  <2>4. file[j].channels \subseteq Settings!Registered
    BY <1>1 DEF Settings!ValidateConfig, Settings!ValidateIntegrations
  <2> QED
    BY <2>2, <2>3, <2>4
<1>4. Settings!OperationalChannels \subseteq Settings!Registered
  BY <1>1 DEF Settings!RunWorker
<1>5. /\ worker'.run = runs' /\ worker'.registered = Settings!Registered
      /\ worker'.operational = Settings!OperationalChannels
      /\ DOMAIN worker'.jobs = Settings!Enabled
      /\ \A j \in Settings!Enabled : worker'.jobs[j] = file[j]
  BY <1>1
<1>6. \A r \in rows : r.by # runs'
  BY <1>1, <1>2 DEF Row
<1>7. Loaded'
  BY <1>1, <1>2, <1>3, <1>4, <1>5, <1>6, RegisteredChannels DEF Loaded, Settings!Channels,
     Settings!ParsesSchedule, Settings!ValidRetryPolicy
<1>8. rows' \subseteq Row' /\ runs' \in Nat
  BY <1>1, <1>2 DEF Row
<1> QED
  BY <1>1, <1>7, <1>8 DEF SettingsInv

(* A row names a channel its process has; those of others are not its own.  *)
LEMMA PutsKeep ==
  ASSUME SettingsInv, NEW j \in Jobs, NEW channels \in SUBSET Settings!Channels, NEW by \in 0..runs,
         worker # Null /\ by = worker.run => channels \subseteq worker.registered,
         Settings!Puts(j, channels, by)
  PROVE  SettingsInv'
<1>1. /\ rows' = rows \cup [job : {j}, channel : channels, by : {by}]
      /\ UNCHANGED <<file, environment, worker, oneShot, edits, runs>>
  BY DEF Settings!Puts
<1>2. rows' \subseteq Row /\ Row' = Row
  BY <1>1 DEF SettingsInv, Row
<1>3. worker # Null => Loaded'
  BY <1>1 DEF SettingsInv, Loaded
<1> QED
  BY <1>1, <1>2, <1>3 DEF SettingsInv

LEMMA SettingsStep == SettingsInv /\ [Settings!Next]_(Settings!vars) => SettingsInv'
<1> SUFFICES ASSUME SettingsInv, [Settings!Next]_(Settings!vars) PROVE SettingsInv'
  OBVIOUS
<1>1. CASE UNCHANGED Settings!vars
  BY <1>1 DEF Settings!vars, SettingsInv, Loaded, Row
<1>2. CASE Settings!StopWorker
  BY <1>2 DEF Settings!StopWorker, SettingsInv, Row
<1>3. ASSUME NEW j \in Jobs, Settings!StartCheck(j) PROVE SettingsInv'
  <2>1. /\ UNCHANGED <<file, environment, worker, rows, edits, runs>>
        /\ oneShot'.job = j /\ oneShot'.channels = file[j].channels
        /\ file[j] # Unset
    BY <1>3 DEF Settings!StartCheck, Settings!Enabled, Settings!Listed
  <2>2. file[j].channels \subseteq Settings!Channels
    BY <2>1 DEF SettingsInv, Settings!Entries
  <2> QED
    BY <2>1, <2>2 DEF SettingsInv, Loaded, Row
<1>4. CASE Settings!EndCheck
  BY <1>4 DEF Settings!EndCheck, SettingsInv, Loaded, Row
<1>5. ASSUME NEW j \in Jobs, Settings!WorkerChecks(j) \/ Settings!WorkerAlerts(j)
      PROVE  SettingsInv'
  <2>1. /\ worker # Null /\ Loaded /\ j \in DOMAIN worker.jobs
        /\ \/ Settings!Puts(j, worker.jobs[j].channels, worker.run)
           \/ Settings!Puts(j, worker.operational, worker.run)
    BY <1>5 DEF Settings!WorkerChecks, Settings!WorkerAlerts, SettingsInv
  <2>2. /\ worker.run \in 0..runs /\ worker.jobs[j].channels \in SUBSET Settings!Channels
        /\ worker.operational \in SUBSET Settings!Channels
        /\ worker.jobs[j].channels \subseteq worker.registered
        /\ worker.operational \subseteq worker.registered
    BY <2>1 DEF Loaded, SettingsInv
  <2> QED
    BY <2>1, <2>2, PutsKeep
<1>6. CASE Settings!OneShotChecks
  <2>1. /\ oneShot.job \in Jobs /\ oneShot.channels \in SUBSET Settings!Channels
        /\ Settings!Puts(oneShot.job, oneShot.channels, 0)
    BY <1>6 DEF Settings!OneShotChecks, SettingsInv
  <2>2. 0 \in 0..runs /\ (worker # Null => worker.run # 0)
    BY DEF SettingsInv, Loaded
  <2> QED
    BY <2>1, <2>2, PutsKeep
<1>7. CASE Settings!WorkerDelivers \/ Settings!OneShotDelivers
  <2>1. /\ rows' \subseteq rows
        /\ UNCHANGED <<file, environment, worker, oneShot, edits, runs>>
    BY <1>7 DEF Settings!WorkerDelivers, Settings!OneShotDelivers, Settings!Delivers
  <2> QED
    BY <2>1 DEF SettingsInv, Loaded, Row
<1> QED
  BY <1>1, <1>2, <1>3, <1>4, <1>5, <1>6, <1>7, EditFileKeeps, EditEnvironmentKeeps, StartWorkerKeeps
     DEF Settings!Next

(* The delay before a retry is positive when the policy is valid: at most    *)
(* nine failures double it at most eight times.                            *)
LEMMA ValidRetriesPause ==
  ASSUME NEW s \in Schedules, s # Unset, Settings!ParsesSchedule(s)
  PROVE  Settings!RetriesPause(s)
<1>1. /\ s.attempts \in 1..10 /\ s.initial \in Int /\ s.maximum \in Int
      /\ 0 <= s.initial /\ s.initial <= s.maximum /\ (s.attempts > 1 => s.initial > 0)
  BY SettingsAssumption DEF Settings!ConfigurationAssumption, Settings!ParsesSchedule,
     Settings!ValidRetryPolicy
<1> SUFFICES ASSUME NEW failures \in 1..(s.attempts - 1) PROVE Settings!BaseDelay(s, failures) > 0
  BY DEF Settings!RetriesPause
<1>2. failures - 1 \in 0..8 /\ s.initial > 0 /\ s.maximum > 0
  BY <1>1
<1>3. 2 ^ (failures - 1) \in Nat \ {0}
  <2>1. PICK k : k = failures - 1
    OBVIOUS
  <2>2. \/ k = 0 \/ k = 1 \/ k = 2 \/ k = 3 \/ k = 4 \/ k = 5 \/ k = 6 \/ k = 7 \/ k = 8
    BY <1>2, <2>1
  <2>3. 2 ^ k \in {2 ^ 0, 2 ^ 1, 2 ^ 2, 2 ^ 3, 2 ^ 4, 2 ^ 5, 2 ^ 6, 2 ^ 7, 2 ^ 8}
    BY <2>2, Zenon
  <2>4. {2 ^ 0, 2 ^ 1, 2 ^ 2, 2 ^ 3, 2 ^ 4, 2 ^ 5, 2 ^ 6, 2 ^ 7, 2 ^ 8} \subseteq Nat \ {0}
    OBVIOUS
  <2> QED
    BY <2>1, <2>3, <2>4
<1>4. PICK delay \in Int : delay = s.initial * 2 ^ (failures - 1) /\ delay > 0
  <2>1. \A a, b \in Int : a > 0 /\ b > 0 => a * b > 0 /\ a * b \in Int
    OBVIOUS
  <2> QED
    BY <1>1, <1>2, <1>3, <2>1
<1>5. \E x \in {delay, s.maximum} : \A y \in {delay, s.maximum} : x <= y
  BY <1>1, <1>4
<1>6. Settings!Min({delay, s.maximum}) \in {delay, s.maximum}
  BY <1>5, Zenon DEF Settings!Min
<1> QED
  BY <1>2, <1>4, <1>6 DEF Settings!BaseDelay

LEMMA SettingsInvariant == Settings!Spec => []SettingsInv
  BY SettingsInit, SettingsStep, PTL DEF Settings!Spec

LEMMA SettingsTyped == SettingsInv => Settings!TypeOK
BY DEF SettingsInv, Loaded, Row, Settings!TypeOK

LEMMA SettingsServable == SettingsInv => AcceptedIsServable
BY ValidRetriesPause DEF SettingsInv, Loaded, AcceptedIsServable, Settings!AcceptedIsServable

-----------------------------------------------------------------------------
(* The mock site.  What a check has been shown was online during it, and    *)
(* what it has been shown that its driver refuses is an excuse.            *)

Shown(items) ==
    [k \in Keys |-> IF ~items[k].enabled THEN Mock!Html!Core!Absent
                    ELSE Mock!Mapping[items[k].availability]]

Presentable(items) ==
    /\ \E k \in Keys : items[k].enabled
    /\ \A k \in Keys : items[k].enabled =>
          items[k].title = "text" /\ items[k].starts_at = "text"

Pages == {<<"old">>, <<"new", "old">>}

MockTypes ==
    /\ mocked \in Mock!Providers /\ behavior \in Mock!Behaviors
    /\ opportunities \in [Keys -> Mock!Opportunity] /\ draws \in Pages
    /\ currentTime \in Mock!Times
    /\ reservations \in [Mock!Driver!Window(Mock!Today) -> Mock!Capacities]
    /\ mockOpen \subseteq {"park", "facility"}
    /\ calls \in 0..MaxCalls

Probe ==
    /\ probe = [at |-> probe.at, held |-> probe.held, behavior |-> probe.behavior,
                seen |-> probe.seen, time |-> probe.time]
    /\ probe.at \in IF mocked = "bcparks"
                    THEN {"idle", "config", "park", "facility", "reservation"}
                    ELSE {"idle", "page"}
    /\ probe.held \in BOOLEAN /\ probe.time \in Mock!Times
    /\ probe.at = "idle" => ~probe.held

Witnessed == probe.at # "idle" => Mock!Online \in online /\ (Mock!Fine \/ excused)

HeldPage ==
    probe.held =>
       /\ probe.behavior \in Mock!Behaviors /\ (probe.behavior = "normal" \/ excused)
       /\ mocked = "reservations" =>
             /\ probe.seen \in [Keys -> Mock!Opportunity]
             /\ Shown(probe.seen) \in online /\ (Presentable(probe.seen) \/ excused)
       /\ mocked = "welcomebc" =>
             probe.seen \in Pages /\ Mock!Range(probe.seen) \in online

(* Some slot of the window is not over at t. *)
Offers(t) == \E d \in Mock!Driver!Window(Mock!Driver!Day(t)) : ~Mock!Driver!Over(d, t)

(* The time a check was told was that of a moment of it, and it still is    *)
(* that day unless there is an excuse.                                      *)
Told ==
    probe.at = "reservation" =>
       /\ \E told \in online : told.time = probe.time
       /\ excused \/ (Mock!Driver!Day(probe.time) = Mock!Today /\ Offers(probe.time))

MockInv == MockTypes /\ Probe /\ Witnessed /\ HeldPage /\ Told

-----------------------------------------------------------------------------
(* The one page of reservations a thread renders: every enabled opportunity *)
(* once.                                                                    *)

LEMMA EnabledListed ==
  ASSUME NEW S \in SUBSET Keys
  PROVE  \E n \in Nat : /\ Mock!SetToSeq(S) \in [1..n -> S]
                        /\ \A i, k \in 1..n : Mock!SetToSeq(S)[i] = Mock!SetToSeq(S)[k] => i = k
                        /\ \A o \in S : \E i \in 1..n : Mock!SetToSeq(S)[i] = o
<1>1. IsFiniteSet(S)
  <2>1. IsFiniteSet(Keys)
    <3>1. Mock!IsFiniteSet(Keys)
      BY MockAssumption DEF Mock!MockSiteAssumption
    <3> QED
      BY <3>1 DEF Mock!IsFiniteSet, IsFiniteSet
  <2> QED
    BY <2>1, FS_Subset
<1> DEFINE n == Cardinality(S)
<1>2. n \in Nat /\ ExistsBijection(1..n, S)
  BY <1>1, FS_CardinalityType
<1>3. Mock!Cardinality(S) = n
  BY DEF Mock!Cardinality, Cardinality
<1>4. \E f \in [1..n -> S] : Mock!IsInjective(f)
  BY <1>2 DEF ExistsBijection, Bijection, Injection, IsInjective, Mock!IsInjective
<1>5. Mock!SetToSeq(S) \in [1..n -> S] /\ Mock!IsInjective(Mock!SetToSeq(S))
  BY <1>3, <1>4 DEF Mock!SetToSeq
<1>6. IsFiniteSet(1..n) /\ Cardinality(1..n) = n
  BY <1>2, FS_Interval
<1> HIDE DEF n
<1>7. PICK f : f = Mock!SetToSeq(S)
  OBVIOUS
<1>8. f \in Injection(1..n, S)
  BY <1>5, <1>7 DEF Injection, IsInjective, Mock!IsInjective
<1>9. f \in Surjection(1..n, S)
  BY <1>1, <1>6, <1>8, FS_Injection DEF n
<1> QED
  BY <1>2, <1>5, <1>7, <1>9 DEF Surjection, Mock!IsInjective

(* made is the list of articles for the enabled of items.                   *)
Renders(made, items, n, listed) ==
    /\ listed \in [1..n -> Keys]
    /\ \A i, k \in 1..n : listed[i] = listed[k] => i = k
    /\ \A i \in 1..n : items[listed[i]].enabled
    /\ \A o \in Keys : items[o].enabled => \E i \in 1..n : listed[i] = o
    /\ DOMAIN made = 1..n
    /\ \A i \in 1..n : /\ made[i].id = listed[i]
                       /\ made[i].title = items[listed[i]].title
                       /\ made[i].availability = items[listed[i]].availability
                       /\ made[i].starts_at = items[listed[i]].starts_at

LEMMA RenderedMeansShown ==
  ASSUME NEW items \in [Keys -> Mock!Opportunity], NEW n \in Nat, NEW listed, NEW made,
         Renders(made, items, n, listed)
  PROVE  /\ Mock!Html!ParseFails(made) => ~Presentable(items)
         /\ Mock!Html!Snapshot(made) = Shown(items)
<1> USE DEF Renders
<1>1. \A i \in 1..n : made[i].availability \in {"available", "sold-out", "unknown"}
  BY DEF Mock!Opportunity
<1>2. ASSUME Presentable(items) PROVE ~Mock!Html!ParseFails(made)
  <2>1. made # << >>
    <3>1. PICK o \in Keys : items[o].enabled
      BY <1>2 DEF Presentable
    <3>2. 1..n # {}
      BY <3>1
    <3> QED
      BY <3>2
  <2>2. \A i \in 1..n : Mock!Html!Legible(made[i])
    <3> SUFFICES ASSUME NEW i \in 1..n PROVE Mock!Html!Legible(made[i])
      OBVIOUS
    <3>1. made[i].title = "text" /\ made[i].starts_at = "text"
      BY <1>2 DEF Presentable
    <3>2. made[i].id # "missing"
      BY MockAssumption DEF Mock!MockSiteAssumption
    <3>3. made[i].availability # "missing"
      BY <1>1
    <3>4. \A s \in {"id", "title", "availability", "starts_at"} \cup {"id", "title"} :
             made[i][s] # "missing"
      BY <3>1, <3>2, <3>3
    <3> QED
      BY <1>1, <3>1, <3>4 DEF Mock!Html!Legible, Mock!Mapping
  <2>3. \A i, k \in 1..n : i # k => made[i].id # made[k].id
    OBVIOUS
  <2> QED
    BY <2>1, <2>2, <2>3 DEF Mock!Html!ParseFails
<1>3. Mock!Html!Snapshot(made) = Shown(items)
  <2> SUFFICES ASSUME NEW o \in Keys PROVE Mock!Html!Snapshot(made)[o] = Shown(items)[o]
    BY DEF Mock!Html!Snapshot, Shown
  <2>1. CASE items[o].enabled
    <3>1. PICK i \in 1..n : made[i].id = o
      BY <2>1
    <3>2. PICK first : first = CHOOSE j \in DOMAIN made : made[j].id = o
      OBVIOUS
    <3>3. first \in 1..n /\ made[first].id = o
      BY <3>1, <3>2
    <3>4. made[first].availability = items[o].availability
      BY <3>3
    <3> QED
      BY <2>1, <3>1, <3>2, <3>4 DEF Mock!Html!Snapshot, Shown
  <2>2. CASE ~items[o].enabled
    <3>1. \A i \in DOMAIN made : made[i].id # o
      BY <2>2
    <3> QED
      BY <2>2, <3>1 DEF Mock!Html!Snapshot, Shown
  <2> QED
    BY <2>1, <2>2
<1> QED
  BY <1>2, <1>3

LEMMA EnabledRendered ==
  ASSUME NEW items \in [Keys -> Mock!Opportunity], NEW listed, NEW made
  PROVE  /\ probe.seen = items
         /\ listed = Mock!SetToSeq({k \in Keys : items[k].enabled})
         /\ made = [i \in DOMAIN listed |-> Mock!Rendered(listed[i])]
         => /\ Mock!Html!ParseFails(made) => ~Presentable(items)
            /\ Mock!Html!Snapshot(made) = Shown(items)
<1>1. ASSUME probe.seen = items,
             listed = Mock!SetToSeq({k \in Keys : items[k].enabled}),
             made = [i \in DOMAIN listed |-> Mock!Rendered(listed[i])]
      PROVE  /\ Mock!Html!ParseFails(made) => ~Presentable(items)
             /\ Mock!Html!Snapshot(made) = Shown(items)
  <2>1. PICK S \in SUBSET Keys : S = {k \in Keys : items[k].enabled}
    OBVIOUS
  <2>2. PICK n \in Nat : /\ listed \in [1..n -> S]
                         /\ \A i, k \in 1..n : listed[i] = listed[k] => i = k
                         /\ \A o \in S : \E i \in 1..n : listed[i] = o
    <3>1. listed = Mock!SetToSeq(S)
      BY <1>1, <2>1, Zenon
    <3> QED
      BY <3>1, EnabledListed
  <2>3. /\ listed \in [1..n -> Keys] /\ \A i \in 1..n : items[listed[i]].enabled
        /\ \A o \in Keys : items[o].enabled => \E i \in 1..n : listed[i] = o
    BY <2>1, <2>2
  <2>4. DOMAIN made = 1..n /\ \A i \in 1..n : made[i] = Mock!Rendered(listed[i])
    BY <1>1, <2>2
  <2>5. \A k : /\ Mock!Rendered(k).id = k /\ Mock!Rendered(k).title = items[k].title
               /\ Mock!Rendered(k).availability = items[k].availability
               /\ Mock!Rendered(k).starts_at = items[k].starts_at
    BY <1>1 DEF Mock!Rendered
  <2>6. \A i \in 1..n : /\ made[i].id = listed[i] /\ made[i].title = items[listed[i]].title
                        /\ made[i].availability = items[listed[i]].availability
                        /\ made[i].starts_at = items[listed[i]].starts_at
    BY <2>4, <2>5
  <2>7. Renders(made, items, n, listed)
    BY <2>2, <2>3, <2>4, <2>6 DEF Renders
  <2> QED
    BY <2>7, RenderedMeansShown
<1> QED
  BY <1>1

(* How a check ends: it records what was online, or it has an excuse.       *)
Recorded(snapshot) ==
    /\ Mock!Records(snapshot)
    /\ \E told, served \in online : Mock!Explains(told, served, snapshot)

EndsWell == (Mock!Fails /\ excused) \/ \E snapshot : Recorded(snapshot)

(* A page that was online explains itself. *)
LEMMA PageExplained ==
  ASSUME NEW shown \in online, mocked # "bcparks", Mock!Records(shown) PROVE EndsWell
<1>1. Mock!Explains(shown, shown, shown)
  BY DEF Mock!Explains, Mock!Made
<1> QED
  BY <1>1 DEF EndsWell, Recorded

LEMMA ReservationsServed == MockInv /\ Mock!ServeReservations => EndsWell
<1> SUFFICES ASSUME MockInv, Mock!ServeReservations PROVE EndsWell
  OBVIOUS
<1>1. /\ mocked = "reservations" /\ mocked # "bcparks"
      /\ probe.held /\ probe.seen \in [Keys -> Mock!Opportunity]
      /\ Shown(probe.seen) \in online /\ (Presentable(probe.seen) \/ excused)
  BY DEF MockInv, HeldPage, Mock!ServeReservations, Mock!Served
<1>2. PICK listed : listed = Mock!SetToSeq({k \in Keys : probe.seen[k].enabled})
  OBVIOUS
<1>3. PICK made : made = [i \in DOMAIN listed |-> Mock!Rendered(listed[i])]
  OBVIOUS
<1>4. IF Mock!Html!ParseFails(made) THEN Mock!Fails ELSE Mock!Records(Mock!Html!Snapshot(made))
  BY <1>2, <1>3, Zenon DEF Mock!ServeReservations
<1>5. /\ Mock!Html!ParseFails(made) => ~Presentable(probe.seen)
      /\ Mock!Html!Snapshot(made) = Shown(probe.seen)
  BY <1>1, <1>2, <1>3, EnabledRendered
<1> QED
  <2>1. CASE Mock!Html!ParseFails(made)
    BY <1>1, <1>4, <1>5, <2>1, Zenon DEF EndsWell
  <2>2. CASE ~Mock!Html!ParseFails(made)
    <3>1. Mock!Records(Shown(probe.seen))
      BY <1>4, <1>5, <2>2, Zenon
    <3> QED
      BY <1>1, <3>1, PageExplained
  <2> QED
    BY <2>1, <2>2

LEMMA DrawsServed == MockInv /\ Mock!ServeWelcomeBC => EndsWell
<1> SUFFICES ASSUME MockInv, Mock!ServeWelcomeBC PROVE EndsWell
  OBVIOUS
<1>1. probe.seen \in Pages /\ Mock!Range(probe.seen) \in online /\ mocked # "bcparks"
  BY DEF MockInv, HeldPage, Mock!ServeWelcomeBC, Mock!Served
<1>2. Mock!IsInjective(probe.seen)
  BY <1>1 DEF Pages, Mock!IsInjective
<1>3. Mock!Records(Mock!Range(probe.seen))
  BY <1>2 DEF Mock!ServeWelcomeBC
<1> QED
  BY <1>1, <1>3, PageExplained

LEMMA MockConstants ==
  /\ DaysAhead \in Nat /\ MockLastDay \in Nat /\ DayLength \in Nat \ {0}
  /\ SlotEnd \in 1..DayLength /\ MaxCalls \in Nat
  /\ 0 \in Mock!Times /\ Mock!Times \subseteq Nat
<1>1. /\ DaysAhead \in Nat /\ MockLastDay \in Nat /\ DayLength \in Nat \ {0}
      /\ SlotEnd \in 1..DayLength /\ MaxCalls \in Nat
  BY MockAssumption DEF Mock!MockSiteAssumption, Mock!Driver!BookingAssumption
<1>2. PICK last : last = (MockLastDay + 1) * DayLength - 1
  OBVIOUS
<1>3. last \in Nat
  BY <1>1, <1>2
<1> QED
  BY <1>1, <1>2, <1>3 DEF Mock!Times

LEMMA MockDays == ASSUME NEW t \in Mock!Times PROVE Mock!Driver!Day(t) \in Nat
<1>1. Mock!Driver!Day(t) = Day(t)
  BY DEF Mock!Driver!Day, Day
<1> QED
  BY <1>1, MockConstants, DayBounds

LEMMA WindowsDiffer ==
  ASSUME NEW c \in Int, NEW d \in Int, Mock!Driver!Window(c) = Mock!Driver!Window(d)
  PROVE  c = d
<1>1. c \in Mock!Driver!Window(d) /\ d \in Mock!Driver!Window(c)
  BY MockConstants DEF Mock!Driver!Window
<1> QED
  BY <1>1, MockConstants DEF Mock!Driver!Window

(* The last response of BC Parks: its dates tell whether the day it was     *)
(* asked for is still the day.                                             *)
LEMMA ReservationServed == MockInv /\ Mock!ServeReservation => EndsWell
<1> SUFFICES ASSUME MockInv, Mock!ServeReservation PROVE EndsWell
  OBVIOUS
<1>1. /\ probe.at = "reservation" /\ mocked = "bcparks"
      /\ reservations \in [Mock!Driver!Window(Mock!Today) -> Mock!Capacities]
      /\ excused \/ (Mock!Driver!Day(probe.time) = Mock!Today /\ Offers(probe.time))
      /\ Mock!Online \in online /\ (Mock!Fine \/ excused)
  BY DEF MockInv, MockTypes, Probe, Witnessed, Told, Mock!ServeReservation
<1>2. PICK told \in online : told.time = probe.time
  BY <1>1 DEF MockInv, Told
<1>3. Mock!Online = [time |-> currentTime, dates |-> reservations]
  BY <1>1 DEF Mock!Online
<1> DEFINE Complete == /\ Mock!Driver!Usable(reservations, probe.time)
                       /\ "over limit" \notin Mock!Range(reservations)
                       /\ \E d \in DOMAIN reservations : ~Mock!Driver!Over(d, probe.time)
<1>4. CASE Complete
  <2>1. DOMAIN reservations = Mock!Driver!Window(Mock!Driver!Day(probe.time))
    BY <1>4 DEF Mock!Driver!Usable
  <2>2. Mock!Driver!Window(Mock!Driver!Day(probe.time)) = Mock!Driver!Window(Mock!Today)
    BY <1>1, <2>1
  <2>3. Mock!Driver!Day(probe.time) = Mock!Today
    <3>1. Mock!Driver!Day(probe.time) \in Int /\ Mock!Today \in Int
      BY MockDays DEF MockInv, MockTypes, Probe, Mock!Today
    <3> QED
      BY <2>2, <3>1, WindowsDiffer
  <2>4. Mock!Records(Mock!Driver!Snapshot(reservations, probe.time))
    BY <1>4 DEF Mock!ServeReservation
  <2>5. Mock!Explains(told, Mock!Online, Mock!Driver!Snapshot(reservations, probe.time))
    BY <1>1, <1>2, <1>3, <2>3 DEF Mock!Explains, Mock!Made, Mock!Today
  <2> QED
    BY <1>1, <2>4, <2>5 DEF EndsWell, Recorded
<1>5. CASE ~Complete
  <2>1. Mock!Fails
    BY <1>5 DEF Mock!ServeReservation
  <2>2. ASSUME ~excused PROVE Complete
    <3>1. /\ Mock!Driver!Day(probe.time) = Mock!Today /\ Offers(probe.time) /\ Mock!Fine
      BY <1>1, <2>2
    <3>2. \A d \in DOMAIN reservations : reservations[d] # "no slot"
      BY <1>1 DEF Mock!Capacities
    <3>3. DOMAIN reservations = Mock!Driver!Window(Mock!Driver!Day(probe.time))
      BY <1>1, <3>1
    <3>4. "over limit" \notin Mock!Range(reservations)
      BY <1>1, <3>1 DEF Mock!Fine
    <3> QED
      BY <3>1, <3>2, <3>3, <3>4 DEF Mock!Driver!Usable, Offers
  <2> QED
    BY <1>5, <2>1, <2>2 DEF EndsWell
<1> QED
  BY <1>4, <1>5

(* Every other step that can end a check fails it, for a cause it has seen. *)
LEMMA RefusalsExcused ==
  ASSUME MockInv, Mock!Refused \/ Mock!TimesOut PROVE EndsWell
BY DEF MockInv, HeldPage, Mock!Refused, Mock!TimesOut, EndsWell

LEMMA OpeningServed ==
  ASSUME MockInv, \/ Mock!ServePark /\ "park" \notin mockOpen
                  \/ Mock!ServeFacility /\ "facility" \notin mockOpen
  PROVE  EndsWell
<1>1. mocked = "bcparks" /\ (Mock!Fine \/ excused)
  BY DEF MockInv, Probe, Witnessed, Mock!ServePark, Mock!ServeFacility
<1>2. excused
  BY <1>1 DEF Mock!Fine
<1> QED
  BY <1>2 DEF Mock!ServePark, Mock!ServeFacility, EndsWell

-----------------------------------------------------------------------------
(* The invariant of the mock site, action by action.                        *)

LEMMA MidnightOfTheFirstDay == Mock!Driver!Day(0) = 0
  BY MockConstants DEF Mock!Driver!Day

LEMMA MockInit == Mock!Init => MockInv
<1> SUFFICES ASSUME Mock!Init PROVE MockInv
  OBVIOUS
<1>1. 0 \in Mock!Times /\ MaxCalls \in Nat
  BY MockConstants
<1>2. Mock!DefaultOpportunities \in [Keys -> Mock!Opportunity]
  BY DEF Mock!DefaultOpportunities, Mock!Opportunity
<1>3. Mock!DefaultReservations \in [Mock!Driver!Window(0) -> Mock!Capacities]
  BY DEF Mock!DefaultReservations, Mock!Capacities
<1>4. MockTypes
  <2>1. currentTime = 0 /\ reservations \in [Mock!Driver!Window(Mock!Today) -> Mock!Capacities]
    BY <1>3, MidnightOfTheFirstDay DEF Mock!Init, Mock!Today
  <2>2. /\ mocked \in Mock!Providers /\ behavior \in Mock!Behaviors /\ draws \in Pages
        /\ mockOpen \subseteq {"park", "facility"} /\ calls \in 0..MaxCalls
        /\ currentTime \in Mock!Times
    BY <1>1 DEF Mock!Init, Mock!Behaviors, Pages
  <2>3. opportunities \in [Keys -> Mock!Opportunity]
    BY <1>2 DEF Mock!Init
  <2> QED
    BY <2>1, <2>2, <2>3 DEF MockTypes
<1>5. probe = Mock!Idle
  BY DEF Mock!Init
<1> QED
  BY <1>1, <1>4, <1>5 DEF MockInv, Probe, Witnessed, HeldPage, Told, Mock!Idle

(* Every step of the check or of the site leaves a witness of what is now   *)
(* online, and of the cause there is to fail, as long as the check goes on. *)
LEMMA ObservedKeeps ==
  ASSUME Mock!Observed, probe'.at # "idle"
  PROVE  /\ Mock!Online' \in online' /\ online \subseteq online'
         /\ excused => excused'
         /\ Mock!Fine' \/ excused'
         /\ Mock!Today' = Mock!Today \/ excused'
BY Zenon DEF Mock!Observed

LEMMA CallKeeps ==
  ASSUME MockInv, Mock!Called, MockTypes'
  PROVE  MockInv'
<1>1. UNCHANGED <<mocked, probe>> /\ Mock!Observed
  BY DEF Mock!Called
<1>2. CASE probe.at = "idle"
  BY <1>1, <1>2 DEF MockInv, Probe, Witnessed, HeldPage, Told
<1>3. CASE probe.at # "idle"
  <2>1. /\ Mock!Online' \in online' /\ online \subseteq online'
        /\ excused => excused'
        /\ Mock!Fine' \/ excused'
        /\ Mock!Today' = Mock!Today \/ excused'
    BY <1>1, <1>3, ObservedKeeps
  <2>2. Witnessed'
    BY <2>1 DEF Witnessed
  <2>3. Probe'
    BY <1>1 DEF MockInv, Probe
  <2>4. HeldPage'
    BY <1>1, <2>1 DEF MockInv, HeldPage
  <2>5. Told'
    BY <1>1, <2>1 DEF MockInv, Told
  <2> QED
    BY <2>2, <2>3, <2>4, <2>5 DEF MockInv
<1> QED
  BY <1>2, <1>3

(* Moving the dates with the clock leaves them a window of the new day.     *)
LEMMA WindowMoves ==
  ASSUME MockInv, NEW time \in Mock!Times, Mock!SetCurrentTime(time)
  PROVE  reservations' \in [Mock!Driver!Window(Mock!Driver!Day(time)) -> Mock!Capacities]
<1>1. PICK today \in Int : today = Mock!Today
  BY MockDays DEF MockInv, MockTypes, Mock!Today
<1>2. PICK day \in Int : day = Mock!Driver!Day(time)
  BY MockDays
<1>3. PICK delta \in Int : delta = day - today
  OBVIOUS
<1>4. PICK old : old = reservations
  OBVIOUS
<1>5. DOMAIN old = today..(today + DaysAhead)
      /\ \A d \in today..(today + DaysAhead) : old[d] \in Mock!Capacities
  BY <1>1, <1>4 DEF MockInv, MockTypes, Mock!Driver!Window
<1>6. reservations' = [d \in {c + delta : c \in DOMAIN old} |-> old[d - delta]]
  BY <1>1, <1>2, <1>3, <1>4 DEF Mock!SetCurrentTime
<1>7. {c + delta : c \in DOMAIN old} = day..(day + DaysAhead)
  <2>1. ASSUME NEW d \in day..(day + DaysAhead)
        PROVE  \E c \in today..(today + DaysAhead) : d = c + delta
    <3>1. d - delta \in today..(today + DaysAhead) /\ d = (d - delta) + delta
      BY <1>3, MockConstants
    <3> QED
      BY <3>1
  <2>2. \A c \in today..(today + DaysAhead) : c + delta \in day..(day + DaysAhead)
    BY <1>3, MockConstants
  <2> QED
    BY <1>5, <2>1, <2>2
<1>8. \A d \in day..(day + DaysAhead) : d - delta \in today..(today + DaysAhead)
  BY <1>3, MockConstants
<1> QED
  BY <1>2, <1>5, <1>6, <1>7, <1>8 DEF Mock!Driver!Window

LEMMA PairConcatenated == \A x, y : <<x>> \o <<y>> = <<x, y>>
<1> TAKE x, y
<1>1. PICK a : a = <<x>>
  OBVIOUS
<1>2. PICK b : b = <<y>>
  OBVIOUS
<1>3. PICK S : S = {x, y}
  OBVIOUS
<1>4. a \in Seq(S) /\ Len(a) = 1 /\ a[1] = x
  BY <1>1, <1>3
<1>5. b \in Seq(S) /\ Len(b) = 1 /\ b[1] = y
  BY <1>2, <1>3
<1>6. /\ a \o b \in Seq(S) /\ Len(a \o b) = Len(a) + Len(b)
      /\ \A i \in 1..(Len(a) + Len(b)) : (a \o b)[i] = IF i <= Len(a) THEN a[i] ELSE b[i - Len(a)]
  BY <1>4, <1>5, ConcatProperties
<1>7. PICK c : c = a \o b
  OBVIOUS
<1>8. c \in Seq(S) /\ Len(c) = 2
  BY <1>4, <1>5, <1>6, <1>7
<1>9. 1 \in 1..(Len(a) + Len(b)) /\ 2 \in 1..(Len(a) + Len(b))
  BY <1>4, <1>5
<1>10. c[1] = x /\ c[2] = y
  BY <1>4, <1>5, <1>6, <1>7, <1>9
<1>11. c = <<x, y>>
  BY <1>8, <1>10
<1> QED
  BY <1>1, <1>2, <1>7, <1>11

LEMMA ControlKeeps ==
  ASSUME MockInv,
         \/ \E b \in Mock!Behaviors : Mock!UpdateBehavior(b)
         \/ \E k \in Keys : Mock!UpdateOpportunity(k)
         \/ Mock!PublishDraw
         \/ \E time \in Mock!Times : Mock!SetCurrentTime(time)
         \/ \E what \in {"park", "facility"} : Mock!UpdateOpening(what)
         \/ \E date \in Mock!Driver!Dates, c \in Mock!Capacities :
               Mock!UpdateReservation(date, c)
         \/ Mock!Reset
  PROVE  MockInv'
<1>1. Mock!Called
  BY DEF Mock!UpdateBehavior, Mock!UpdateOpportunity, Mock!PublishDraw, Mock!SetCurrentTime,
     Mock!UpdateOpening, Mock!UpdateReservation, Mock!Reset
<1>2. mocked' = mocked /\ mocked' \in Mock!Providers /\ calls' \in 0..MaxCalls
  BY <1>1, MockConstants DEF Mock!Called, MockInv, MockTypes
<1>3. 0 \in Mock!Times
  BY MockConstants
<1>4. ASSUME NEW b \in Mock!Behaviors, Mock!UpdateBehavior(b) PROVE MockTypes'
  BY <1>2, <1>4 DEF Mock!UpdateBehavior, Mock!content, MockInv, MockTypes, Pages, Mock!Today, Mock!Driver!Window
<1>5. ASSUME NEW k \in Keys, Mock!UpdateOpportunity(k) PROVE MockTypes'
  <2>1. opportunities' \in [Keys -> Mock!Opportunity]
    BY <1>5 DEF Mock!UpdateOpportunity, MockInv, MockTypes
  <2> QED
    BY <1>2, <1>5, <2>1 DEF Mock!UpdateOpportunity, MockInv, MockTypes, Pages, Mock!Today, Mock!Driver!Window
<1>6. ASSUME Mock!PublishDraw PROVE MockTypes'
  <2>1. draws' \in Pages
    <3>1. CASE draws = <<"old">>
      <4>1. <<"new">> \o <<"old">> = <<"new", "old">>
        BY PairConcatenated
      <4> QED
        BY <1>6, <3>1, <4>1 DEF Mock!PublishDraw, Pages
    <3>2. CASE draws = <<"new", "old">>
      <4>1. draws[1] = "new" /\ 1 \in DOMAIN draws
        BY <3>2
      <4>2. "new" \in Mock!Range(draws)
        BY <4>1 DEF Mock!Range
      <4> QED
        BY <1>6, <3>2, <4>2 DEF Mock!PublishDraw, Pages
    <3> QED
      BY <3>1, <3>2 DEF MockInv, MockTypes, Pages
  <2>2. UNCHANGED <<behavior, opportunities, currentTime, reservations, mockOpen>>
    BY <1>6 DEF Mock!PublishDraw
  <2> QED
    BY <1>2, <2>1, <2>2 DEF MockInv, MockTypes, Mock!Today, Mock!Driver!Window
<1>7. ASSUME NEW time \in Mock!Times, Mock!SetCurrentTime(time) PROVE MockTypes'
  <2>1. /\ UNCHANGED <<behavior, opportunities, draws, mockOpen>> /\ currentTime' = time
    BY <1>7 DEF Mock!SetCurrentTime
  <2>2. reservations' \in [Mock!Driver!Window(Mock!Driver!Day(time)) -> Mock!Capacities]
    BY <1>7, WindowMoves
  <2>3. reservations' \in [Mock!Driver!Window(Mock!Today') -> Mock!Capacities]
    BY <2>1, <2>2 DEF Mock!Today
  <2> QED
    BY <1>2, <2>1, <2>3 DEF MockInv, MockTypes, Pages, Mock!Today, Mock!Driver!Window
<1>8. ASSUME NEW what \in {"park", "facility"}, Mock!UpdateOpening(what) PROVE MockTypes'
  <2>1. mockOpen' \subseteq {"park", "facility"}
    BY <1>8 DEF Mock!UpdateOpening, MockInv, MockTypes
  <2>2. UNCHANGED <<behavior, opportunities, draws, currentTime, reservations>>
    BY <1>8 DEF Mock!UpdateOpening
  <2> QED
    BY <1>2, <2>1, <2>2 DEF MockInv, MockTypes, Pages, Mock!Today, Mock!Driver!Window
<1>9. ASSUME NEW date, NEW c \in Mock!Capacities, Mock!UpdateReservation(date, c)
      PROVE  MockTypes'
  <2>1. reservations' \in [Mock!Driver!Window(Mock!Today) -> Mock!Capacities]
    BY <1>9 DEF Mock!UpdateReservation, MockInv, MockTypes
  <2>2. UNCHANGED <<behavior, opportunities, draws, currentTime, mockOpen>>
    BY <1>9 DEF Mock!UpdateReservation
  <2> QED
    BY <1>2, <2>1, <2>2 DEF MockInv, MockTypes, Pages, Mock!Today, Mock!Driver!Window
<1>10. ASSUME Mock!Reset PROVE MockTypes'
  <2>1. Mock!DefaultOpportunities \in [Keys -> Mock!Opportunity]
    BY DEF Mock!DefaultOpportunities, Mock!Opportunity
  <2>2. Mock!DefaultReservations \in [Mock!Driver!Window(0) -> Mock!Capacities]
    BY DEF Mock!DefaultReservations, Mock!Capacities
  <2>3. opportunities' \in [Keys -> Mock!Opportunity]
    BY <1>10, <2>1 DEF Mock!Reset
  <2>4. currentTime' = 0
        /\ reservations' \in [Mock!Driver!Window(Mock!Today') -> Mock!Capacities]
    BY <1>10, <2>2, MidnightOfTheFirstDay DEF Mock!Reset, Mock!Today
  <2>5. /\ behavior' \in Mock!Behaviors /\ draws' \in Pages
        /\ mockOpen' \subseteq {"park", "facility"} /\ currentTime' \in Mock!Times
    BY <1>3, <1>10 DEF Mock!Reset, Mock!Behaviors, Pages
  <2> QED
    BY <1>2, <2>3, <2>4, <2>5 DEF MockTypes, Mock!Today, Mock!Driver!Window
<1> QED
  BY <1>1, <1>4, <1>5, <1>6, <1>7, <1>8, <1>9, <1>10, CallKeeps

(* A check that goes on, with the site as it is. *)
LEMMA ProgressKeeps ==
  ASSUME MockInv, UNCHANGED <<mocked, behavior, opportunities, draws, currentTime, reservations,
                              mockOpen, calls>>,
         Mock!Observed, Probe', HeldPage', probe'.at # "idle",
         probe'.at = "reservation" /\ probe.at # "reservation" =>
            mocked = "bcparks" /\ probe'.time = currentTime,
         probe'.at = "reservation" /\ probe.at = "reservation" => probe'.time = probe.time
  PROVE  MockInv'
<1>1. /\ Mock!Online' \in online' /\ (Mock!Fine' \/ excused') /\ (excused => excused')
  BY ObservedKeeps
<1>2. MockTypes'
  BY DEF MockInv, MockTypes, Pages, Mock!Today, Mock!Driver!Window
<1>3. Mock!Today' = Mock!Today /\ currentTime' = currentTime /\ reservations' = reservations
  BY DEF Mock!Today
<1>4. ASSUME probe'.at = "reservation", probe.at # "reservation" PROVE Told'
  <2>1. mocked' = "bcparks" /\ probe'.time = currentTime
    BY <1>4
  <2>2. Mock!Online' = [time |-> currentTime, dates |-> reservations]
    BY <1>3, <2>1 DEF Mock!Online
  <2>3. \E told \in online' : told.time = probe'.time
    BY <1>1, <2>1, <2>2
  <2>4. Mock!Driver!Day(probe'.time) = Mock!Today
    BY <2>1 DEF Mock!Today
  <2>5. Mock!Fine' => Offers(probe'.time)
    <3>1. Mock!Fine' => \E d \in DOMAIN reservations : ~Mock!Driver!Over(d, currentTime)
      BY <1>3, <2>1 DEF Mock!Fine
    <3>2. DOMAIN reservations = Mock!Driver!Window(Mock!Today)
      BY DEF MockInv, MockTypes
    <3> QED
      BY <2>1, <2>4, <3>1, <3>2 DEF Offers
  <2> QED
    BY <1>1, <1>3, <2>3, <2>4, <2>5
       DEF Told, Offers, Mock!Driver!Day, Mock!Driver!Window, Mock!Driver!Over
<1>5. ASSUME probe'.at = "reservation", probe.at = "reservation" PROVE Told'
  BY <1>1, <1>3, <1>5, ObservedKeeps
     DEF MockInv, Told, Offers, Mock!Driver!Day, Mock!Driver!Window, Mock!Driver!Over
<1>6. ASSUME probe'.at # "reservation" PROVE Told'
  BY <1>6 DEF Told
<1> QED
  BY <1>1, <1>2, <1>4, <1>5, <1>6 DEF MockInv, Witnessed

LEMMA EndKeeps == ASSUME MockInv, EndsWell PROVE MockInv'
<1>1. /\ UNCHANGED <<mocked, behavior, opportunities, draws, currentTime, reservations, mockOpen, calls>>
      /\ probe' = Mock!Idle
  BY DEF EndsWell, Recorded, Mock!Fails, Mock!Records, Mock!Ends, Mock!site, Mock!content
<1>2. MockTypes'
  BY <1>1 DEF MockInv, MockTypes, Pages, Mock!Today, Mock!Driver!Window
<1>3. 0 \in Mock!Times
  BY MockConstants
<1> QED
  BY <1>1, <1>2, <1>3 DEF MockInv, Probe, Witnessed, HeldPage, Told, Mock!Idle

LEMMA StartKeeps == ASSUME MockInv, Mock!Start PROVE MockInv'
<1>1. /\ UNCHANGED <<mocked, behavior, opportunities, draws, currentTime, reservations, mockOpen, calls>>
      /\ Mock!Observed
  BY DEF Mock!Start, Mock!site, Mock!content
<1>2. /\ probe' = [probe EXCEPT !.at = IF mocked = "bcparks" THEN "config" ELSE "page",
                                !.held = FALSE]
      /\ probe.at = "idle"
  BY DEF Mock!Start, Mock!Goto
<1>3. Probe' /\ ~probe'.held /\ probe'.at \in {"config", "page"}
  BY <1>1, <1>2 DEF MockInv, Probe
<1>4. HeldPage'
  BY <1>3 DEF HeldPage
<1> QED
  BY <1>1, <1>2, <1>3, <1>4, ProgressKeeps

LEMMA ArriveKeeps == ASSUME MockInv, Mock!Arrive PROVE MockInv'
<1>1. /\ UNCHANGED <<mocked, behavior, opportunities, draws, currentTime, reservations, mockOpen, calls>>
      /\ Mock!Observed /\ probe.at # "idle" /\ ~probe.held
  BY DEF Mock!Arrive, Mock!site, Mock!content
<1>2. PICK seen : /\ probe' = [probe EXCEPT !.held = TRUE, !.behavior = behavior, !.seen = seen]
                  /\ mocked = "reservations" => seen = opportunities
                  /\ mocked = "welcomebc" => seen = draws
  BY DEF Mock!Arrive
<1>3. /\ Probe' /\ probe'.held /\ probe'.at = probe.at /\ probe'.time = probe.time
      /\ probe'.behavior = behavior /\ probe'.seen = seen
  BY <1>1, <1>2 DEF MockInv, Probe
<1>4. Mock!Online' \in online' /\ (Mock!Fine' \/ excused') /\ probe'.at # "idle"
  BY <1>1, <1>3, ObservedKeeps
<1>5. Mock!Online' = Mock!Online /\ (Mock!Fine' = Mock!Fine)
  BY <1>1 DEF Mock!Online, Mock!Fine
<1>6. behavior = "normal" \/ excused'
  BY <1>4, <1>5 DEF Mock!Fine
<1>7. ASSUME mocked = "reservations"
      PROVE  Shown(opportunities) \in online' /\ (Presentable(opportunities) \/ excused')
  <2>1. Mock!Online = Shown(opportunities)
    BY <1>7 DEF Mock!Online, Shown
  <2>2. Mock!Fine => Presentable(opportunities)
    BY <1>7 DEF Mock!Fine, Presentable
  <2> QED
    BY <1>4, <1>5, <2>1, <2>2
<1>8. ASSUME mocked = "welcomebc" PROVE Mock!Range(draws) \in online'
  <2>1. Mock!Online = Mock!Range(draws)
    BY <1>8 DEF Mock!Online
  <2> QED
    BY <1>4, <1>5, <2>1
<1>9. HeldPage'
  BY <1>1, <1>2, <1>3, <1>6, <1>7, <1>8 DEF HeldPage, MockInv, MockTypes
<1> QED
  BY <1>1, <1>3, <1>4, <1>9, ProgressKeeps

LEMMA ParksRequestsKeep ==
  ASSUME MockInv, Mock!ServeConfig \/ Mock!ServePark \/ Mock!ServeFacility
  PROVE  MockInv'
<1>1. ASSUME NEW at \in {"park", "facility"}, Mock!Goto(at), Mock!Observed,
             UNCHANGED <<mocked, behavior, opportunities, draws, currentTime, reservations, mockOpen,
                         calls>>, mocked = "bcparks"
      PROVE  MockInv'
  <2>1. Probe' /\ ~probe'.held /\ probe'.at = at
    BY <1>1 DEF MockInv, Probe, Mock!Goto
  <2>2. HeldPage'
    BY <2>1 DEF HeldPage
  <2> QED
    BY <1>1, <2>1, <2>2, ProgressKeeps
<1>2. mocked = "bcparks"
  BY DEF MockInv, Probe, Mock!ServeConfig, Mock!ServePark, Mock!ServeFacility
<1>3. CASE Mock!ServeConfig
  BY <1>1, <1>2, <1>3 DEF Mock!ServeConfig, Mock!site, Mock!content
<1>4. CASE Mock!ServePark /\ "park" \in mockOpen
  BY <1>1, <1>2, <1>4 DEF Mock!ServePark, Mock!site, Mock!content
<1>5. CASE Mock!ServeFacility /\ "facility" \in mockOpen
  <2>1. /\ UNCHANGED <<mocked, behavior, opportunities, draws, currentTime, reservations, mockOpen,
                       calls>>
        /\ probe' = [probe EXCEPT !.at = "reservation", !.held = FALSE, !.time = currentTime]
        /\ Mock!Observed /\ probe.at = "facility"
    BY <1>5 DEF Mock!ServeFacility, Mock!site, Mock!content
  <2>2. Probe' /\ ~probe'.held /\ probe'.at = "reservation" /\ probe'.time = currentTime
    BY <1>2, <2>1 DEF MockInv, MockTypes, Probe
  <2>3. HeldPage'
    BY <2>2 DEF HeldPage
  <2> QED
    BY <1>2, <2>1, <2>2, <2>3, ProgressKeeps
<1> QED
  BY <1>3, <1>4, <1>5, OpeningServed, EndKeeps

LEMMA MockStep == MockInv /\ [Mock!Next]_(Mock!vars) => MockInv'
<1> SUFFICES ASSUME MockInv, [Mock!Next]_(Mock!vars) PROVE MockInv'
  OBVIOUS
<1>1. CASE UNCHANGED Mock!vars
  <2>1. UNCHANGED <<mocked, behavior, opportunities, draws, currentTime, reservations, mockOpen,
                    probe, online, excused, calls>>
    BY <1>1 DEF Mock!vars, Mock!site, Mock!content, Mock!history
  <2>2. MockTypes' /\ Probe' /\ HeldPage' /\ Told'
    BY <2>1 DEF MockInv, MockTypes, Probe, HeldPage, Told, Pages, Mock!Today, Mock!Driver!Window
  <2>3. Mock!Online' = Mock!Online /\ (Mock!Fine' = Mock!Fine)
    BY <2>1 DEF Mock!Online, Mock!Fine
  <2>4. Witnessed'
    BY <2>1, <2>3 DEF MockInv, Witnessed
  <2> QED
    BY <2>2, <2>4 DEF MockInv
<1>2. CASE Mock!Refused \/ Mock!TimesOut \/ Mock!ServeReservations \/ Mock!ServeWelcomeBC
           \/ Mock!ServeReservation
  BY <1>2, RefusalsExcused, ReservationsServed, DrawsServed, ReservationServed, EndKeeps
<1> QED
  BY <1>1, <1>2, ControlKeeps, StartKeeps, ArriveKeeps, ParksRequestsKeep DEF Mock!Next

LEMMA MockInvariant == Mock!Spec => []MockInv
  BY MockInit, MockStep, PTL DEF Mock!Spec

LEMMA MockTyped == MockInv => Mock!TypeOK
<1> SUFFICES ASSUME MockInv PROVE Mock!TypeOK
  OBVIOUS
<1>1. Mock!Range(draws) \subseteq {"old", "new"}
  BY DEF MockInv, MockTypes, Pages, Mock!Range
<1>2. probe.at \in {"idle", "page", "config", "park", "facility", "reservation"}
  BY DEF MockInv, Probe
<1> QED
  BY <1>1, <1>2 DEF MockInv, MockTypes, Mock!TypeOK

LEMMA MockOutcome == Mock!Spec => OutcomeIsExplained
<1> DEFINE Explained ==
      (probe.at # "idle" /\ probe'.at = "idle") =>
         \/ outcome'.kind = "failed" /\ excused
         \/ /\ outcome'.kind = "recorded"
            /\ \E told, served \in online : Mock!Explains(told, served, outcome'.snapshot)
<1>1. ASSUME EndsWell PROVE Explained
  <2>1. CASE Mock!Fails /\ excused
    BY <2>1 DEF Mock!Fails, Mock!Ends
  <2>2. ASSUME NEW snapshot, Recorded(snapshot) PROVE Explained
    BY <2>2 DEF Recorded, Mock!Records, Mock!Ends
  <2> QED
    BY <1>1, <2>1, <2>2 DEF EndsWell
<1>2. MockInv /\ [Mock!Next]_(Mock!vars) => [Explained]_(Mock!vars)
  <2> SUFFICES ASSUME MockInv, Mock!Next PROVE Explained
    OBVIOUS
  <2>1. CASE Mock!Refused \/ Mock!TimesOut \/ Mock!ServeReservations \/ Mock!ServeWelcomeBC
             \/ Mock!ServeReservation
    BY <2>1, <1>1, RefusalsExcused, ReservationsServed, DrawsServed, ReservationServed
  <2>2. CASE Mock!ServePark \/ Mock!ServeFacility
    <3>1. CASE \/ Mock!ServePark /\ "park" \notin mockOpen
               \/ Mock!ServeFacility /\ "facility" \notin mockOpen
      BY <3>1, <1>1, OpeningServed
    <3>2. CASE Mock!ServePark /\ "park" \in mockOpen
      BY <3>2 DEF Mock!ServePark, Mock!Goto, MockInv, Probe
    <3>3. CASE Mock!ServeFacility /\ "facility" \in mockOpen
      BY <3>3 DEF Mock!ServeFacility, MockInv, Probe
    <3> QED
      BY <2>2, <3>1, <3>2, <3>3
  <2>3. CASE Mock!Start
    BY <2>3 DEF Mock!Start
  <2>4. CASE Mock!Arrive
    BY <2>4 DEF Mock!Arrive, MockInv, Probe
  <2>5. CASE Mock!ServeConfig
    BY <2>5 DEF Mock!ServeConfig, Mock!Goto, MockInv, Probe
  <2>6. CASE Mock!Called
    BY <2>6 DEF Mock!Called
  <2> QED
    BY <2>1, <2>2, <2>3, <2>4, <2>5, <2>6
       DEF Mock!Next, Mock!UpdateBehavior, Mock!UpdateOpportunity, Mock!PublishDraw,
           Mock!SetCurrentTime, Mock!UpdateOpening, Mock!UpdateReservation, Mock!Reset
<1> QED
  BY <1>2, MockInvariant, PTL DEF Mock!Spec, OutcomeIsExplained, Mock!OutcomeIsExplained

-----------------------------------------------------------------------------
(* The WelcomeBC parser.  Its one pass keeps a count of the rows that the   *)
(* last date still covers; the layout is about the last row of five cells   *)
(* above.  The states of the pass are a recursive function, so first they   *)
(* are shown to exist, for any table.                                       *)

(* f is the pass over the first n rows. *)
Passes(f, n, lines) ==
    f = [i \in 0..n |-> IF i = 0 THEN Draws!Start ELSE Draws!ParseRow(f[i - 1], lines[i])]

LEMMA PassExtended ==
  ASSUME NEW lines, NEW n \in Nat, n > 0, NEW f, Passes(f, n - 1, lines)
  PROVE  \E g : Passes(g, n, lines)
<1>1. PICK g : g = [i \in 0..n |-> IF i = n THEN Draws!ParseRow(f[n - 1], lines[n]) ELSE f[i]]
  OBVIOUS
<1>2. \A i \in 0..(n - 1) : g[i] = f[i]
  BY <1>1
<1>3. \A i \in 0..(n - 1) :
         f[i] = IF i = 0 THEN Draws!Start ELSE Draws!ParseRow(f[i - 1], lines[i])
  BY DEF Passes
<1>4. \A i \in 0..n :
         g[i] = IF i = 0 THEN Draws!Start ELSE Draws!ParseRow(g[i - 1], lines[i])
  <2> TAKE i \in 0..n
  <2>1. CASE i = n
    BY <1>1, <1>2, <2>1
  <2>2. CASE i # n
    <3>1. i \in 0..(n - 1) /\ (i = 0 \/ i - 1 \in 0..(n - 1))
      BY <2>2
    <3>2. i # 0 => g[i - 1] = f[i - 1]
      BY <1>2, <3>1
    <3> QED
      BY <1>2, <1>3, <3>1, <3>2
  <2> QED
    BY <2>1, <2>2
<1>5. g = [i \in 0..n |-> g[i]]
  BY <1>1
<1>6. Passes(g, n, lines)
  BY <1>4, <1>5 DEF Passes
<1> QED
  BY <1>6

LEMMA PassExists == ASSUME NEW lines, NEW n \in Nat PROVE \E f : Passes(f, n, lines)
<1> SUFFICES ASSUME ~ \E f : Passes(f, n, lines) PROVE FALSE
  OBVIOUS
<1>1. PICK D \in SUBSET Nat : D = {k \in Nat : ~ \E f : Passes(f, k, lines)}
  OBVIOUS
<1>2. D # {}
  BY <1>1
<1>3. PICK m \in D : \A k \in D : ~(<<k, m>> \in OpToRel(<, Nat))
  BY <1>2, WFMin, NatLessThanWellFounded, Zenon
<1>4. \A k \in Nat : k < m => \E f : Passes(f, k, lines)
  BY <1>1, <1>3 DEF OpToRel
<1>5. CASE m = 0
  <2>1. PICK f : f = [i \in 0..0 |-> Draws!Start]
    OBVIOUS
  <2>2. Passes(f, 0, lines)
    BY <2>1 DEF Passes
  <2> QED
    BY <1>1, <1>5, <2>2
<1>6. CASE m > 0
  <2>1. m - 1 \in Nat /\ m - 1 < m
    BY <1>6
  <2>2. PICK f : Passes(f, m - 1, lines)
    BY <1>4, <2>1
  <2> QED
    BY <1>1, <1>6, <2>2, PassExtended
<1> QED
  BY <1>5, <1>6

LEMMA ParsePasses ==
  ASSUME NEW lines, Len(lines) \in Nat
  PROVE  /\ Draws!ParseStates(lines)[0] = Draws!Start
         /\ \A i \in 1..Len(lines) :
               Draws!ParseStates(lines)[i] = Draws!ParseRow(Draws!ParseStates(lines)[i - 1], lines[i])
<1>1. \E f : Passes(f, Len(lines), lines)
  BY PassExists
<1>2. PICK s : s = Draws!ParseStates(lines)
  OBVIOUS
<1>3. s = CHOOSE f : f = [i \in 0..Len(lines) |->
                            IF i = 0 THEN Draws!Start ELSE Draws!ParseRow(f[i - 1], lines[i])]
  BY <1>2 DEF Draws!ParseStates
<1>4. Passes(s, Len(lines), lines)
  BY <1>1, <1>3, Zenon DEF Passes
<1>5. /\ s[0] = Draws!Start
      /\ \A i \in 1..Len(lines) : s[i] = Draws!ParseRow(s[i - 1], lines[i])
  BY <1>4 DEF Passes
<1> QED
  BY <1>2, <1>5

(* The state of the pass after i rows, in terms of the layout.              *)
Tables == Seq(Draws!FullRow \cup Draws!CoveredRow \cup Draws!OddRow)

ParseState == [date : DrawDates \cup {Null}, left : Int,
               draws : SUBSET (DrawDates \X Routes), failed : BOOLEAN]

LastHead(lines, i, h) == h \in Draws!Heads(lines, i) /\ \A m \in Draws!Heads(lines, i) : m <= h

LegibleAt(lines, i) ==
    /\ lines[i].cells # 3
    /\ Draws!DateOf(lines, i) # Bad
    /\ lines[i].route # Bad
    /\ \A k \in Draws!Targets(lines) :
          (k < i /\ lines[k].cells # 3 /\ Draws!DateOf(lines, k) = Draws!DateOf(lines, i))
              => lines[k].route # lines[i].route

Given(lines, i) ==
    {<<Draws!DateOf(lines, k), lines[k].route>> : k \in {m \in Draws!Targets(lines) : m <= i}}

(* What is left of the rowspan of the last date, and the date itself.       *)
Covers(s, lines, i) ==
    /\ \A h : LastHead(lines, i, h) =>
          IF lines[h].date # Bad /\ i < h + lines[h].span
          THEN s.left = h + lines[h].span - 1 - i /\ (s.left > 0 => s.date = lines[h].date)
          ELSE s.left = 0
    /\ (\A h : ~LastHead(lines, i, h)) => s.left = 0

ParseInv(s, lines, i) ==
    /\ s \in ParseState
    /\ s.failed => \E k \in Draws!Targets(lines) : k <= i /\ ~LegibleAt(lines, k)
    /\ ~s.failed => /\ \A k \in Draws!Targets(lines) : k <= i => LegibleAt(lines, k)
                    /\ s.draws = Given(lines, i)
                    /\ Covers(s, lines, i)

LEMMA RowTypes ==
  ASSUME NEW lines \in Tables, NEW i \in 1..Len(lines)
  PROVE  \/ lines[i] \in Draws!FullRow \/ lines[i] \in Draws!CoveredRow \/ lines[i] \in Draws!OddRow
BY DEF Tables

LEMMA RowFields ==
  ASSUME NEW lines \in Tables, NEW i \in 1..Len(lines)
  PROVE  /\ lines[i].cells \in {3, 4, 5} /\ lines[i].target \in BOOLEAN
         /\ lines[i].cells # 3 => lines[i].route \in Routes \cup {Bad}
         /\ lines[i].cells = 5 => lines[i].date \in DrawDates \cup {Bad} /\ lines[i].span \in Nat
<1>1. MaxEntries \in Nat
  BY DrawsAssumption DEF Draws!WelcomeBCAssumption
<1>2. CASE lines[i] \in Draws!FullRow
  BY <1>1, <1>2 DEF Draws!FullRow, Draws!Spans
<1>3. CASE lines[i] \in Draws!CoveredRow
  BY <1>3 DEF Draws!CoveredRow
<1>4. CASE lines[i] \in Draws!OddRow
  BY <1>4 DEF Draws!OddRow
<1> QED
  BY <1>2, <1>3, <1>4, RowTypes

LEMMA TablesSized == ASSUME NEW lines \in Tables PROVE Len(lines) \in Nat
BY DEF Tables

(* Heads, and the date a row stands under.                                  *)
LEMMA HeadsAt ==
  ASSUME NEW lines, NEW i \in Nat, i > 0
  PROVE  /\ lines[i].cells = 5 => \A h : LastHead(lines, i, h) <=> h = i
         /\ lines[i].cells # 5 => \A h : LastHead(lines, i, h) <=> LastHead(lines, i - 1, h)
<1>1. i \in 1..i /\ \A m \in 1..i : m <= i /\ m \in Int
  OBVIOUS
<1>2. ASSUME lines[i].cells = 5 PROVE \A h : LastHead(lines, i, h) <=> h = i
  BY <1>1, <1>2 DEF LastHead, Draws!Heads
<1>3. ASSUME lines[i].cells # 5 PROVE Draws!Heads(lines, i) = Draws!Heads(lines, i - 1)
  BY <1>3 DEF Draws!Heads
<1> QED
  BY <1>2, <1>3 DEF LastHead

LEMMA DateUnder ==
  ASSUME NEW lines, NEW i \in Nat
  PROVE  /\ \A h : LastHead(lines, i, h) =>
               Draws!DateOf(lines, i) = IF i < h + lines[h].span THEN lines[h].date ELSE Bad
         /\ (\A h : ~LastHead(lines, i, h)) => Draws!DateOf(lines, i) = Bad
<1>1. ASSUME NEW h, LastHead(lines, i, h)
      PROVE  Draws!DateOf(lines, i) = IF i < h + lines[h].span THEN lines[h].date ELSE Bad
  <2> DEFINE H == Draws!Heads(lines, i)
  <2> DEFINE c == CHOOSE k \in H : \A m \in H : m <= k
  <2>1. Draws!DateOf(lines, i) = IF \E k \in H : (\A m \in H : m <= k) /\ i < k + lines[k].span
                                THEN lines[c].date ELSE Bad
    BY DEF Draws!DateOf
  <2>2. h \in H /\ (\A m \in H : m <= h) /\ H \subseteq Int
    BY <1>1 DEF LastHead, Draws!Heads
  <2> HIDE DEF H
  <2>3. c \in H /\ \A m \in H : m <= c
    BY <2>2
  <2> HIDE DEF c
  <2>4. c = h /\ \A k \in H : (\A m \in H : m <= k) => k = h
    BY <2>2, <2>3
  <2>5. (\E k \in H : (\A m \in H : m <= k) /\ i < k + lines[k].span) <=> i < h + lines[h].span
    BY <2>2, <2>4, Zenon
  <2> QED
    BY <2>1, <2>4, <2>5
<1>2. ASSUME \A h : ~LastHead(lines, i, h) PROVE Draws!DateOf(lines, i) = Bad
  BY <1>2 DEF LastHead, Draws!DateOf
<1> QED
  BY <1>1, <1>2

LEMMA GivenStep ==
  ASSUME NEW lines \in Tables, NEW i \in 1..Len(lines)
  PROVE  /\ lines[i].target => Given(lines, i) = Given(lines, i - 1)
                                  \cup {<<Draws!DateOf(lines, i), lines[i].route>>}
         /\ ~lines[i].target => Given(lines, i) = Given(lines, i - 1)
<1>1. Draws!Targets(lines) \subseteq 1..Len(lines) /\ Len(lines) \in Nat
  BY DEF Draws!Targets, Tables
<1>2. DOMAIN lines = 1..Len(lines)
  BY DEF Tables
<1>3. ASSUME lines[i].target
      PROVE  {m \in Draws!Targets(lines) : m <= i} =
                {m \in Draws!Targets(lines) : m <= i - 1} \cup {i}
  BY <1>1, <1>2, <1>3 DEF Draws!Targets
<1>4. ASSUME ~lines[i].target
      PROVE  {m \in Draws!Targets(lines) : m <= i} = {m \in Draws!Targets(lines) : m <= i - 1}
  BY <1>1, <1>2, <1>4 DEF Draws!Targets
<1>5. ASSUME lines[i].target
      PROVE  Given(lines, i) = Given(lines, i - 1) \cup {<<Draws!DateOf(lines, i), lines[i].route>>}
  <2>1. PICK S : S = {m \in Draws!Targets(lines) : m <= i - 1}
    OBVIOUS
  <2>2. Given(lines, i) = {<<Draws!DateOf(lines, k), lines[k].route>> : k \in S \cup {i}}
    BY <1>3, <1>5, <2>1 DEF Given
  <2>3. Given(lines, i - 1) = {<<Draws!DateOf(lines, k), lines[k].route>> : k \in S}
    BY <2>1 DEF Given
  <2> QED
    BY <2>2, <2>3
<1> QED
  BY <1>4, <1>5 DEF Given

LEMMA LegibleBefore ==
  ASSUME NEW lines \in Tables, NEW i \in 1..Len(lines),
         \A k \in Draws!Targets(lines) : k <= i - 1 => LegibleAt(lines, k),
         lines[i].target => LegibleAt(lines, i)
  PROVE  \A k \in Draws!Targets(lines) : k <= i => LegibleAt(lines, k)
<1>1. Draws!Targets(lines) \subseteq Int /\ Len(lines) \in Nat
  BY DEF Draws!Targets, Tables
<1> SUFFICES ASSUME NEW k \in Draws!Targets(lines), k <= i PROVE LegibleAt(lines, k)
  OBVIOUS
<1>2. CASE k = i
  BY <1>2 DEF Draws!Targets
<1>3. CASE k # i
  <2>1. k <= i - 1
    BY <1>1, <1>3
  <2> QED
    BY <2>1
<1> QED
  BY <1>2, <1>3

(* A row that is read under the date in force. *)
LEMMA RouteAdded ==
  ASSUME NEW lines \in Tables, NEW i \in 1..Len(lines), NEW s \in ParseState, ~s.failed,
         lines[i].cells # 3,
         \A k \in Draws!Targets(lines) : k <= i - 1 => LegibleAt(lines, k),
         s.draws = Given(lines, i - 1), Covers(s, lines, i),
         Draws!DateOf(lines, i) = IF s.date = Null THEN Bad ELSE s.date
  PROVE  ParseInv(Draws!AddRoute(s, lines[i]), lines, i)
<1>1. /\ lines[i].target \in BOOLEAN /\ lines[i].route \in Routes \cup {Bad}
      /\ Draws!Targets(lines) \subseteq 1..Len(lines) /\ Len(lines) \in Nat
      /\ lines[i].target => i \in Draws!Targets(lines)
  BY RowFields DEF Draws!Targets, Tables
<1>2. PICK t : t = Draws!AddRoute(s, lines[i])
  OBVIOUS
<1>3. CASE ~lines[i].target
  <2>1. t = s
    BY <1>2, <1>3 DEF Draws!AddRoute
  <2>2. Given(lines, i) = Given(lines, i - 1)
    BY <1>3, GivenStep
  <2>3. \A k \in Draws!Targets(lines) : k <= i => LegibleAt(lines, k)
    BY <1>3, LegibleBefore
  <2> QED
    BY <1>2, <2>1, <2>2, <2>3 DEF ParseInv
<1>4. CASE /\ lines[i].target
           /\ s.date = Null \/ lines[i].route = Bad \/ <<s.date, lines[i].route>> \in s.draws
  <2>1. t = [s EXCEPT !.failed = TRUE]
    BY <1>2, <1>4 DEF Draws!AddRoute
  <2>2. t \in ParseState /\ t.failed
    BY <2>1 DEF ParseState
  <2>3. ~LegibleAt(lines, i)
    <3>1. CASE s.date = Null \/ lines[i].route = Bad
      BY <3>1 DEF LegibleAt
    <3>2. CASE s.date # Null /\ <<s.date, lines[i].route>> \in s.draws
      <4>1. PICK k \in Draws!Targets(lines) :
               k <= i - 1 /\ Draws!DateOf(lines, k) = s.date /\ lines[k].route = lines[i].route
        BY <3>2 DEF Given
      <4>2. k < i /\ lines[k].cells # 3
        BY <1>1, <4>1 DEF LegibleAt
      <4> QED
        BY <3>2, <4>1, <4>2 DEF LegibleAt
    <3> QED
      BY <1>4, <3>1, <3>2
  <2>4. \E k \in Draws!Targets(lines) : k <= i /\ ~LegibleAt(lines, k)
    BY <1>1, <1>4, <2>3
  <2> QED
    BY <1>2, <2>2, <2>4 DEF ParseInv
<1>5. CASE /\ lines[i].target
           /\ s.date # Null /\ lines[i].route # Bad /\ <<s.date, lines[i].route>> \notin s.draws
  <2>1. t = [s EXCEPT !.draws = @ \cup {<<s.date, lines[i].route>>}]
    BY <1>2, <1>5 DEF Draws!AddRoute
  <2>2. t \in ParseState /\ ~t.failed /\ t.date = s.date /\ t.left = s.left
        /\ t.draws = s.draws \cup {<<s.date, lines[i].route>>}
    BY <1>1, <1>5, <2>1 DEF ParseState
  <2>3. Draws!DateOf(lines, i) = s.date /\ s.date # Bad
    BY <1>5, DrawsAssumption DEF ParseState, Draws!WelcomeBCAssumption
  <2>4. LegibleAt(lines, i)
    <3> SUFFICES ASSUME NEW k \in Draws!Targets(lines), k < i,
                        Draws!DateOf(lines, k) = Draws!DateOf(lines, i)
                 PROVE  lines[k].route # lines[i].route
      BY <1>5, <2>3 DEF LegibleAt
    <3>1. k <= i - 1
      BY <1>1
    <3>2. <<Draws!DateOf(lines, k), lines[k].route>> \in s.draws
      BY <3>1 DEF Given
    <3> QED
      BY <1>5, <2>3, <3>2
  <2>5. t.draws = Given(lines, i)
    BY <1>5, <2>2, <2>3, GivenStep
  <2>6. \A k \in Draws!Targets(lines) : k <= i => LegibleAt(lines, k)
    BY <2>4, LegibleBefore
  <2>7. Covers(t, lines, i)
    BY <2>2 DEF Covers
  <2> QED
    BY <1>2, <2>2, <2>5, <2>6, <2>7 DEF ParseInv
<1> QED
  BY <1>1, <1>3, <1>4, <1>5

(* A date that is refused covers nothing. *)
LEMMA DateDropped ==
  ASSUME NEW s \in ParseState, NEW failed \in BOOLEAN, NEW t,
         t = [s EXCEPT !.date = Null, !.left = 0, !.failed = failed]
  PROVE  t \in ParseState /\ t.left = 0 /\ t.draws = s.draws /\ t.failed = failed
<1>1. /\ s = [date |-> s.date, left |-> s.left, draws |-> s.draws, failed |-> s.failed]
      /\ s.draws \in SUBSET (DrawDates \X Routes)
  BY DEF ParseState
<1>2. t = [date |-> Null, left |-> 0, draws |-> s.draws, failed |-> failed]
  BY <1>1
<1> QED
  BY <1>1, <1>2 DEF ParseState

LEMMA SpanOpened ==
  ASSUME NEW lines \in Tables, NEW i \in 1..Len(lines), NEW s \in ParseState, ~s.failed,
         ParseInv(s, lines, i - 1), lines[i].cells = 5
  PROVE  ParseInv(Draws!OpenSpan(s, lines[i]), lines, i)
<1>1. /\ lines[i].target \in BOOLEAN /\ lines[i].date \in DrawDates \cup {Bad}
      /\ lines[i].span \in Nat /\ i \in Nat /\ i > 0
  BY RowFields, TablesSized
<1>2. \A h : LastHead(lines, i, h) <=> h = i
  BY <1>1, HeadsAt
<1>3. Draws!DateOf(lines, i) = IF i < i + lines[i].span THEN lines[i].date ELSE Bad
  BY <1>1, <1>2, DateUnder
<1>4. Bad \notin DrawDates /\ Null \notin DrawDates
  BY DrawsAssumption DEF Draws!WelcomeBCAssumption
<1>5. PICK t : t = Draws!OpenSpan(s, lines[i])
  OBVIOUS
<1>6. CASE lines[i].date # Bad /\ lines[i].span > 0
  <2>1. PICK u : u = [s EXCEPT !.date = lines[i].date, !.left = lines[i].span - 1]
    OBVIOUS
  <2>2. t = Draws!AddRoute(u, lines[i])
    BY <1>5, <1>6, <2>1 DEF Draws!OpenSpan
  <2>3. /\ u \in ParseState /\ ~u.failed /\ u.draws = s.draws
        /\ u.date = lines[i].date /\ u.left = lines[i].span - 1
    <3>0. lines[i].date \in DrawDates /\ lines[i].span - 1 \in Int
      BY <1>1, <1>6
    <3>1. PICK date \in DrawDates, left \in Int :
             date = lines[i].date /\ left = lines[i].span - 1
      BY <3>0, Zenon
    <3>2. u = [s EXCEPT !.date = date, !.left = left]
      BY <2>1, <3>1
    <3> QED
      <4>1. /\ s = [date |-> s.date, left |-> s.left, draws |-> s.draws, failed |-> s.failed]
            /\ s.draws \in SUBSET (DrawDates \X Routes) /\ s.failed \in BOOLEAN
        BY DEF ParseState
      <4>2. u = [date |-> date, left |-> left, draws |-> s.draws, failed |-> s.failed]
        BY <3>2, <4>1
      <4>3. u \in ParseState
        BY <3>1, <4>1, <4>2 DEF ParseState
      <4> QED
        BY <3>1, <4>2, <4>3
  <2>4. Covers(u, lines, i)
    <3>1. /\ i < i + lines[i].span
          /\ lines[i].span - 1 = i + lines[i].span - 1 - i
      BY <1>1, <1>6
    <3>2. \A h : LastHead(lines, i, h) => h = i
      BY <1>2
    <3>3. u.left = i + lines[i].span - 1 - i /\ u.date = lines[i].date
      BY <2>3, <3>1
    <3>4. ~ \A h : ~LastHead(lines, i, h)
      BY <1>2
    <3>5. ASSUME NEW h, LastHead(lines, i, h)
          PROVE  IF lines[h].date # Bad /\ i < h + lines[h].span
                 THEN u.left = h + lines[h].span - 1 - i
                      /\ (u.left > 0 => u.date = lines[h].date)
                 ELSE u.left = 0
      <4>1. h = i
        BY <3>2, <3>5
      <4> QED
        BY <1>6, <3>1, <3>3, <4>1
    <3> QED
      BY <3>4, <3>5, Zenon DEF Covers
  <2>5. Draws!DateOf(lines, i) = IF u.date = Null THEN Bad ELSE u.date
    BY <1>1, <1>3, <1>4, <1>6, <2>3
  <2>6. ParseInv(Draws!AddRoute(u, lines[i]), lines, i)
    BY <2>3, <2>4, <2>5, RouteAdded DEF ParseInv
  <2> QED
    BY <1>5, <2>2, <2>6
<1>7. CASE ~(lines[i].date # Bad /\ lines[i].span > 0)
  <2>1. t = [s EXCEPT !.date = Null, !.left = 0, !.failed = lines[i].target]
    BY <1>5, <1>7, Zenon DEF Draws!OpenSpan
  <2>2. /\ t \in ParseState /\ t.left = 0 /\ t.draws = s.draws
        /\ t.failed = lines[i].target
    <3>1. PICK failed \in BOOLEAN : failed = lines[i].target
      BY <1>1
    <3>2. t = [s EXCEPT !.date = Null, !.left = 0, !.failed = failed]
      BY <2>1, <3>1
    <3> QED
      <4>1. t \in ParseState /\ t.left = 0 /\ t.draws = s.draws /\ t.failed = failed
        BY <3>2, DateDropped, Zenon
      <4> QED
        BY <3>1, <4>1
  <2>3. Draws!DateOf(lines, i) = Bad
    BY <1>1, <1>3, <1>7
  <2>4. CASE lines[i].target
    <3>1. i \in Draws!Targets(lines) /\ i <= i /\ ~LegibleAt(lines, i)
      BY <1>1, <2>3, <2>4 DEF LegibleAt, Draws!Targets, Tables
    <3> QED
      BY <1>5, <2>2, <2>4, <3>1 DEF ParseInv
  <2>5. CASE ~lines[i].target
    <3>1. Covers(t, lines, i)
      BY <1>1, <1>2, <1>7, <2>2 DEF Covers
    <3>2. Given(lines, i) = Given(lines, i - 1)
      BY <2>5, GivenStep
    <3>3. \A k \in Draws!Targets(lines) : k <= i => LegibleAt(lines, k)
      BY <2>5, LegibleBefore DEF ParseInv
    <3> QED
      BY <1>5, <2>2, <2>5, <3>1, <3>2, <3>3 DEF ParseInv
  <2> QED
    BY <2>4, <2>5
<1> QED
  BY <1>6, <1>7

(* What is left, one row further down, of a rowspan that ends before end.   *)
LEMMA SpanShrinks ==
  ASSUME NEW i \in Int, NEW end \in Int, NEW left \in Int, NEW date, NEW held,
         IF date # Bad /\ i - 1 < end
         THEN left = end - i /\ (left > 0 => held = date)
         ELSE left = 0
  PROVE  IF date # Bad /\ i < end
         THEN left > 0 /\ left - 1 = end - 1 - i /\ held = date
         ELSE left = 0
<1>1. CASE date # Bad /\ i < end
  <2>1. i - 1 < end /\ end - i > 0
    BY <1>1
  <2> QED
    BY <1>1, <2>1
<1>2. CASE date # Bad /\ ~(i < end)
  <2>1. CASE i - 1 < end
    <3>1. end = i /\ left = end - i
      BY <1>2, <2>1
    <3> QED
      BY <1>2, <3>1
  <2> QED
    BY <1>2, <2>1
<1>3. CASE date = Bad
  BY <1>3
<1> QED
  BY <1>1, <1>2, <1>3

LEMMA SpanUsed ==
  ASSUME NEW lines \in Tables, NEW i \in 1..Len(lines), NEW s \in ParseState, ~s.failed,
         ParseInv(s, lines, i - 1), lines[i].cells = 4
  PROVE  ParseInv(Draws!UseSpan(s, lines[i]), lines, i)
<1>1. i \in Nat /\ i > 0 /\ i - 1 \in Nat
  BY TablesSized
<1>2. \A h : LastHead(lines, i, h) <=> LastHead(lines, i - 1, h)
  BY <1>1, HeadsAt
<1>3. Bad \notin DrawDates /\ Null \notin DrawDates
  BY DrawsAssumption DEF Draws!WelcomeBCAssumption
<1>4. PICK u : u = IF s.left = 0 THEN [s EXCEPT !.date = Null] ELSE [s EXCEPT !.left = @ - 1]
  OBVIOUS
<1>5. Draws!UseSpan(s, lines[i]) = Draws!AddRoute(u, lines[i])
  BY <1>4, Zenon DEF Draws!UseSpan
<1>6. /\ u \in ParseState /\ ~u.failed /\ u.draws = s.draws
      /\ s.left = 0 => u.left = 0 /\ u.date = Null
      /\ s.left # 0 => u.left = s.left - 1 /\ u.date = s.date
  BY <1>4 DEF ParseState
<1>7. Covers(s, lines, i - 1) /\ s.left \in Int /\ s.date \in DrawDates \cup {Null}
  BY DEF ParseInv, ParseState
<1>8. ASSUME NEW h, LastHead(lines, i, h)
      PROVE  /\ h \in 1..(i - 1) /\ lines[h].span \in Nat
             /\ lines[h].date \in DrawDates \cup {Bad}
  <2>1. h \in 1..(i - 1) /\ lines[h].cells = 5
    BY <1>2, <1>8 DEF LastHead, Draws!Heads
  <2>2. h \in 1..Len(lines)
    BY <1>1, <2>1, TablesSized
  <2> QED
    BY <2>1, <2>2, RowFields
<1>9. Covers(u, lines, i) /\ Draws!DateOf(lines, i) = IF u.date = Null THEN Bad ELSE u.date
  <2>1. CASE \A h : ~LastHead(lines, i, h)
    <3>1. s.left = 0 /\ Draws!DateOf(lines, i) = Bad
      BY <1>1, <1>2, <1>7, <2>1, DateUnder DEF Covers
    <3> QED
      BY <1>6, <2>1, <3>1 DEF Covers
  <2>2. ASSUME NEW h, LastHead(lines, i, h)
        PROVE  Covers(u, lines, i) /\ Draws!DateOf(lines, i) = IF u.date = Null THEN Bad ELSE u.date
    <3>1. \A k : LastHead(lines, i, k) => k = h
      BY <1>8, <2>2 DEF LastHead
    <3>2. Draws!DateOf(lines, i) = IF i < h + lines[h].span THEN lines[h].date ELSE Bad
      BY <1>1, <2>2, DateUnder
    <3>3. IF lines[h].date # Bad /\ i - 1 < h + lines[h].span
          THEN s.left = h + lines[h].span - i /\ (s.left > 0 => s.date = lines[h].date)
          ELSE s.left = 0
      <4>1. LastHead(lines, i - 1, h) /\ h + lines[h].span - 1 - (i - 1) = h + lines[h].span - i
        BY <1>1, <1>2, <1>8, <2>2
      <4> QED
        BY <1>7, <4>1 DEF Covers
    <3>4. IF lines[h].date # Bad /\ i < h + lines[h].span
          THEN u.left = h + lines[h].span - 1 - i /\ u.date = lines[h].date
          ELSE u.left = 0 /\ u.date = Null
      <4>0. i \in Nat /\ h \in Int /\ lines[h].span \in Nat
        BY <1>1, <1>8, <2>2
      <4>1. PICK end \in Int : end = h + lines[h].span
        BY <4>0
      <4>2. PICK date : date = lines[h].date
        OBVIOUS
      <4>3. IF date # Bad /\ i - 1 < end
            THEN s.left = end - i /\ (s.left > 0 => s.date = date)
            ELSE s.left = 0
        BY <3>3, <4>0, <4>1, <4>2
      <4>4. IF date # Bad /\ i < end
            THEN s.left > 0 /\ s.left - 1 = end - 1 - i /\ s.date = date
            ELSE s.left = 0
        BY <1>1, <1>7, <4>3, SpanShrinks
      <4>5. IF date # Bad /\ i < end
            THEN u.left = end - 1 - i /\ u.date = date
            ELSE u.left = 0 /\ u.date = Null
        BY <1>6, <1>7, <4>4
      <4>6. /\ i < end <=> i < h + lines[h].span
            /\ end - 1 - i = h + lines[h].span - 1 - i
        BY <4>0, <4>1
      <4> QED
        BY <4>2, <4>5, <4>6, Zenon
    <3>5. Covers(u, lines, i)
      BY <2>2, <3>1, <3>4 DEF Covers
    <3>6. Draws!DateOf(lines, i) = IF u.date = Null THEN Bad ELSE u.date
      BY <1>3, <1>8, <2>2, <3>2, <3>4
    <3> QED
      BY <3>5, <3>6
  <2> QED
    BY <2>1, <2>2
<1> QED
  BY <1>5, <1>6, <1>9, RouteAdded DEF ParseInv

LEMMA OddSkipped ==
  ASSUME NEW lines \in Tables, NEW i \in 1..Len(lines), NEW s \in ParseState, ~s.failed,
         ParseInv(s, lines, i - 1), lines[i].cells = 3
  PROVE  ParseInv(Draws!SkipOdd(s, lines[i]), lines, i)
<1>1. i \in Nat /\ i > 0 /\ i - 1 \in Nat /\ lines[i].target \in BOOLEAN
  BY TablesSized, RowFields
<1>2. \A h : LastHead(lines, i, h) <=> LastHead(lines, i - 1, h)
  BY <1>1, HeadsAt
<1>3. PICK t : t = Draws!SkipOdd(s, lines[i])
  OBVIOUS
<1>4. /\ t \in ParseState /\ t.failed = lines[i].target /\ t.date = s.date /\ t.draws = s.draws
      /\ t.left = IF s.left > 0 THEN s.left - 1 ELSE s.left
  <2>1. PICK left : left = IF s.left > 0 THEN s.left - 1 ELSE s.left
    OBVIOUS
  <2>2. left \in Int
    BY <2>1 DEF ParseState
  <2>3. PICK failed \in BOOLEAN : failed = lines[i].target
    BY <1>1
  <2>4. t = [s EXCEPT !.left = left, !.failed = failed]
    BY <1>3, <2>1, <2>3 DEF Draws!SkipOdd
  <2>5. /\ t \in ParseState /\ t.date = s.date /\ t.left = left
        /\ t.draws = s.draws /\ t.failed = failed
    <3>1. /\ s = [date |-> s.date, left |-> s.left, draws |-> s.draws, failed |-> s.failed]
          /\ s.draws \in SUBSET (DrawDates \X Routes) /\ s.date \in DrawDates \cup {Null}
      BY DEF ParseState
    <3>2. t = [date |-> s.date, left |-> left, draws |-> s.draws, failed |-> failed]
      BY <2>4, <3>1
    <3>3. t \in ParseState
      BY <2>2, <2>3, <3>1, <3>2 DEF ParseState
    <3> QED
      BY <3>2, <3>3
  <2> QED
    BY <2>1, <2>3, <2>5
<1>5. CASE lines[i].target
  <2>1. i \in Draws!Targets(lines) /\ i <= i /\ ~LegibleAt(lines, i)
    BY <1>1, <1>5 DEF LegibleAt, Draws!Targets, Tables
  <2> QED
    BY <1>3, <1>4, <1>5, <2>1 DEF ParseInv
<1>6. CASE ~lines[i].target
  <2>1. Covers(s, lines, i - 1) /\ s.left \in Int
    BY DEF ParseInv, ParseState
  <2>2. ASSUME NEW h, LastHead(lines, i, h)
        PROVE  IF lines[h].date # Bad /\ i < h + lines[h].span
               THEN t.left = h + lines[h].span - 1 - i /\ (t.left > 0 => t.date = lines[h].date)
               ELSE t.left = 0
    <3>0. LastHead(lines, i - 1, h)
      BY <1>2, <2>2
    <3>1. h \in 1..(i - 1) /\ lines[h].cells = 5
      BY <3>0 DEF LastHead, Draws!Heads
    <3>2. h \in 1..Len(lines)
      BY <1>1, <3>1, TablesSized
    <3>3. h \in Int /\ lines[h].span \in Nat
      BY <3>1, <3>2, RowFields
    <3>4. IF lines[h].date # Bad /\ i - 1 < h + lines[h].span
          THEN s.left = h + lines[h].span - i /\ (s.left > 0 => s.date = lines[h].date)
          ELSE s.left = 0
      <4>1. h + lines[h].span - 1 - (i - 1) = h + lines[h].span - i
        BY <1>1, <3>3
      <4>2. \A k : LastHead(lines, i - 1, k) =>
               IF lines[k].date # Bad /\ i - 1 < k + lines[k].span
               THEN s.left = k + lines[k].span - 1 - (i - 1)
                    /\ (s.left > 0 => s.date = lines[k].date)
               ELSE s.left = 0
        BY <2>1, Zenon DEF Covers
      <4>3. IF lines[h].date # Bad /\ i - 1 < h + lines[h].span
            THEN s.left = h + lines[h].span - 1 - (i - 1)
                 /\ (s.left > 0 => s.date = lines[h].date)
            ELSE s.left = 0
        BY <3>0, <4>2, Zenon
      <4> QED
        BY <4>1, <4>3
    <3>5. t.left = (IF s.left > 0 THEN s.left - 1 ELSE s.left) /\ t.date = s.date
      BY <1>4
    <3>6. PICK end \in Int : end = h + lines[h].span
      BY <3>3
    <3>7. PICK date : date = lines[h].date
      OBVIOUS
    <3>8. IF date # Bad /\ i - 1 < end
          THEN s.left = end - i /\ (s.left > 0 => s.date = date)
          ELSE s.left = 0
      BY <1>1, <3>3, <3>4, <3>6, <3>7
    <3>9. IF date # Bad /\ i < end
          THEN s.left > 0 /\ s.left - 1 = end - 1 - i /\ s.date = date
          ELSE s.left = 0
      BY <1>1, <2>1, <3>8, SpanShrinks
    <3>10. IF date # Bad /\ i < end
           THEN t.left = end - 1 - i /\ (t.left > 0 => t.date = date)
           ELSE t.left = 0
      BY <2>1, <3>5, <3>9
    <3>11. /\ i < end <=> i < h + lines[h].span
           /\ end - 1 - i = h + lines[h].span - 1 - i
      BY <1>1, <3>3, <3>6
    <3> QED
      BY <3>7, <3>10, <3>11, Zenon
  <2>3. (\A h : ~LastHead(lines, i, h)) => t.left = 0
    BY <1>2, <1>4, <2>1 DEF Covers
  <2>4. Covers(t, lines, i)
    BY <2>2, <2>3 DEF Covers
  <2>5. Given(lines, i) = Given(lines, i - 1)
    BY <1>6, GivenStep
  <2>6. \A k \in Draws!Targets(lines) : k <= i => LegibleAt(lines, k)
    BY <1>6, LegibleBefore DEF ParseInv
  <2> QED
    BY <1>3, <1>4, <1>6, <2>4, <2>5, <2>6 DEF ParseInv
<1> QED
  BY <1>1, <1>5, <1>6

LEMMA RowParsed ==
  ASSUME NEW lines \in Tables, NEW i \in 1..Len(lines), NEW s, ParseInv(s, lines, i - 1)
  PROVE  ParseInv(Draws!ParseRow(s, lines[i]), lines, i)
<1>1. s \in ParseState /\ s.failed \in BOOLEAN /\ lines[i].cells \in {3, 4, 5}
  BY RowFields DEF ParseInv, ParseState
<1>2. CASE s.failed
  <2>1. Draws!ParseRow(s, lines[i]) = s
    BY <1>2 DEF Draws!ParseRow
  <2>2. Draws!Targets(lines) \subseteq Int /\ i \in Int
    BY DEF Draws!Targets, Tables
  <2>3. \E k \in Draws!Targets(lines) : k <= i /\ ~LegibleAt(lines, k)
    <3>1. PICK k \in Draws!Targets(lines) : k <= i - 1 /\ ~LegibleAt(lines, k)
      BY <1>2 DEF ParseInv
    <3> QED
      BY <2>2, <3>1
  <2> QED
    BY <1>1, <1>2, <2>1, <2>3 DEF ParseInv
<1>3. CASE ~s.failed /\ lines[i].cells = 5
  <2>1. Draws!ParseRow(s, lines[i]) = Draws!OpenSpan(s, lines[i])
    BY <1>3 DEF Draws!ParseRow
  <2> QED
    BY <1>1, <1>3, <2>1, SpanOpened
<1>4. CASE ~s.failed /\ lines[i].cells = 4
  <2>1. Draws!ParseRow(s, lines[i]) = Draws!UseSpan(s, lines[i])
    BY <1>4 DEF Draws!ParseRow
  <2> QED
    BY <1>1, <1>4, <2>1, SpanUsed
<1>5. CASE ~s.failed /\ lines[i].cells = 3
  <2>1. Draws!ParseRow(s, lines[i]) = Draws!SkipOdd(s, lines[i])
    BY <1>5 DEF Draws!ParseRow
  <2> QED
    BY <1>1, <1>5, <2>1, OddSkipped
<1> QED
  BY <1>1, <1>2, <1>3, <1>4, <1>5

(* The state of the pass after any number of rows.  By a least row after    *)
(* which it would not be as described.                                      *)
LEMMA PassCovers ==
  ASSUME NEW lines \in Tables, NEW i \in 0..Len(lines)
  PROVE  ParseInv(Draws!ParseStates(lines)[i], lines, i)
<1>1. Len(lines) \in Nat
  BY TablesSized
<1>2. PICK s : s = Draws!ParseStates(lines)
  OBVIOUS
<1>3. /\ s[0] = Draws!Start
      /\ \A k \in 1..Len(lines) : s[k] = Draws!ParseRow(s[k - 1], lines[k])
  BY <1>1, <1>2, ParsePasses
<1>4. ParseInv(s[0], lines, 0)
  <2>1. \A h : ~LastHead(lines, 0, h)
    BY DEF LastHead, Draws!Heads
  <2>2. \A k \in Draws!Targets(lines) : ~(k <= 0)
    BY <1>1 DEF Draws!Targets, Tables
  <2>3. Given(lines, 0) = {}
    BY <2>2 DEF Given
  <2>4. Covers(Draws!Start, lines, 0)
    BY <2>1 DEF Covers, Draws!Start
  <2>5. Draws!Start \in ParseState /\ ~Draws!Start.failed /\ Draws!Start.draws = {}
    BY DEF Draws!Start, ParseState
  <2> QED
    BY <1>3, <2>2, <2>3, <2>4, <2>5 DEF ParseInv
<1> SUFFICES ASSUME ~ParseInv(s[i], lines, i) PROVE FALSE
  BY <1>2
<1>5. PICK D \in SUBSET Nat : D = {k \in Nat : k <= Len(lines) /\ ~ParseInv(s[k], lines, k)}
  OBVIOUS
<1>6. D # {}
  BY <1>5
<1>7. PICK m \in D : \A k \in D : ~(<<k, m>> \in OpToRel(<, Nat))
  BY <1>6, WFMin, NatLessThanWellFounded, Zenon
<1>8. m \in 1..Len(lines) /\ m - 1 \in 0..Len(lines) /\ m - 1 \notin D
  <2>1. m # 0
    BY <1>4, <1>5
  <2>2. m \in Nat /\ m - 1 \in Nat /\ m - 1 < m
    BY <1>5, <2>1
  <2>3. m - 1 \notin D
    BY <1>7, <2>2 DEF OpToRel
  <2> QED
    BY <1>1, <1>5, <2>1, <2>2, <2>3
<1>9. ParseInv(s[m - 1], lines, m - 1)
  BY <1>5, <1>8
<1>10. ParseInv(s[m], lines, m)
  BY <1>3, <1>8, <1>9, RowParsed
<1> QED
  BY <1>5, <1>10

LEMMA TableParsed ==
  ASSUME NEW lines \in Tables
  PROVE  /\ Draws!ParseTable(lines).failed <=> ~Draws!Legible(lines)
         /\ Draws!Legible(lines) =>
               Draws!ParseTable(lines).draws =
                  {<<Draws!DateOf(lines, i), lines[i].route>> : i \in Draws!Targets(lines)}
         /\ Draws!ParseTable(lines).draws \subseteq DrawDates \X Routes
<1>1. Len(lines) \in Nat /\ Draws!Targets(lines) \subseteq 1..Len(lines)
  BY TablesSized DEF Draws!Targets, Tables
<1>2. ParseInv(Draws!ParseTable(lines), lines, Len(lines))
  BY <1>1, PassCovers DEF Draws!ParseTable
<1>3. Draws!Legible(lines) <=> \A k \in Draws!Targets(lines) : LegibleAt(lines, k)
  BY DEF Draws!Legible, LegibleAt
<1>4. {k \in Draws!Targets(lines) : k <= Len(lines)} = Draws!Targets(lines)
  BY <1>1
<1>5. Given(lines, Len(lines)) =
         {<<Draws!DateOf(lines, i), lines[i].route>> : i \in Draws!Targets(lines)}
  BY <1>4 DEF Given
<1>6. Draws!ParseTable(lines) \in ParseState
  BY <1>2 DEF ParseInv
<1> QED
  BY <1>1, <1>2, <1>3, <1>5, <1>6 DEF ParseInv, ParseState

-----------------------------------------------------------------------------
(* The page and what is recorded of it. *)

DrawsInv ==
    /\ table \in Tables
    /\ prose \subseteq Draws!Section /\ IsFiniteSet(prose)
    /\ Len(table) + Cardinality(prose) <= MaxEntries
    /\ latestDraws # Null =>
          /\ latestDraws \in [DrawDates -> {"available", Draws!Core!Absent}]
          /\ \E d \in DrawDates : latestDraws[d] = "available"
    /\ drawChanges \subseteq Draws!Core!Changes

(* What a check that succeeds finds are dates of the page, all of them.     *)
LEMMA DrawnComplete ==
  ASSUME DrawsInv, ~Draws!ParseFails(table, prose)
  PROVE  /\ Draws!Drawn(table, prose) \subseteq DrawDates
         /\ Draws!Drawn(table, prose) # {}
         /\ \A d \in DrawDates :
               d \in Draws!Drawn(table, prose) <=>
                  \/ \E i \in Draws!Targets(table) : Draws!DateOf(table, i) = d
                  \/ \E s \in prose : s.target /\ s.date = d
<1>1. table \in Tables /\ prose \subseteq Draws!Section
  BY DEF DrawsInv
<1>2. Draws!Legible(table)
  BY <1>1, TableParsed DEF Draws!ParseFails
<1>3. PICK found : found = Draws!ParseTable(table).draws
  OBVIOUS
<1>4. /\ found = {<<Draws!DateOf(table, i), table[i].route>> : i \in Draws!Targets(table)}
      /\ found \subseteq DrawDates \X Routes
  BY <1>1, <1>2, <1>3, TableParsed
<1>5. Draws!Drawn(table, prose) = {pair[1] : pair \in found} \cup {s.date : s \in Draws!Told(prose)}
  BY <1>3, Zenon DEF Draws!Drawn
<1>6. \A d : d \in {pair[1] : pair \in found} <=>
                \E i \in Draws!Targets(table) : Draws!DateOf(table, i) = d
  <2>1. ASSUME NEW pair \in found
        PROVE  \E i \in Draws!Targets(table) : Draws!DateOf(table, i) = pair[1]
    BY <1>4
  <2>2. ASSUME NEW i \in Draws!Targets(table)
        PROVE  \E pair \in found : pair[1] = Draws!DateOf(table, i)
    <3>1. <<Draws!DateOf(table, i), table[i].route>> \in found
      BY <1>4
    <3> QED
      BY <3>1
  <2> QED
    BY <2>1, <2>2
<1>7. \A s \in prose : s.date \in DrawDates \cup {Bad}
  BY <1>1 DEF Draws!Section
<1>8. Bad \notin DrawDates
  BY DrawsAssumption DEF Draws!WelcomeBCAssumption
<1>9. {pair[1] : pair \in found} \subseteq DrawDates
  BY <1>4
<1>10. {s.date : s \in Draws!Told(prose)} \subseteq DrawDates
  BY <1>7 DEF Draws!Told
<1>11. \A d \in DrawDates : d \in {s.date : s \in Draws!Told(prose)} <=>
                               \E s \in prose : s.target /\ s.date = d
  BY <1>8 DEF Draws!Told
<1>12. Draws!Drawn(table, prose) # {}
  BY DEF Draws!ParseFails
<1> QED
  BY <1>5, <1>6, <1>9, <1>10, <1>11, <1>12

LEMMA DrawsDetectedTyped ==
  ASSUME NEW s \in Draws!Core!Snapshots, NEW u \in Draws!Core!Snapshots
  PROVE  /\ Draws!Core!DetectTransitions(s, u) \subseteq Draws!Core!Changes
         /\ Draws!Core!DetectInitialTransitions(u) \subseteq Draws!Core!Changes
<1>1. ASSUME NEW old, NEW new
      PROVE  Draws!Core!TransitionType(old, new) \in Draws!Core!TransitionTypes
  BY DEF Draws!Core!TransitionType, Draws!Core!TransitionTypes, Draws!Core!AvailabilityTransition
<1>2. \A o \in DrawDates : /\ s[o] \in Draws!Core!Availability \cup {Draws!Core!Absent}
                           /\ u[o] \in Draws!Core!Availability \cup {Draws!Core!Absent}
  BY DEF Draws!Core!Snapshots
<1>3. ASSUME NEW c \in Draws!Core!DetectTransitions(s, u) PROVE c \in Draws!Core!Changes
  <2>1. PICK o \in DrawDates :
           c = [opportunity |-> o, type |-> Draws!Core!TransitionType(s[o], u[o]),
                previous |-> s[o], current |-> u[o]]
    BY DEF Draws!Core!DetectTransitions
  <2>2. Draws!Core!TransitionType(s[o], u[o]) \in Draws!Core!TransitionTypes
    BY <1>1
  <2> QED
    BY <1>2, <2>1, <2>2 DEF Draws!Core!Changes
<1>4. Draws!Core!DetectInitialTransitions(u) \subseteq Draws!Core!Changes
  BY <1>2 DEF Draws!Core!DetectInitialTransitions, Draws!Core!Changes, Draws!Core!TransitionTypes
<1> QED
  BY <1>3, <1>4

LEMMA RowInserted ==
  ASSUME NEW T, NEW s \in Seq(T), NEW i \in 1..(Len(s) + 1), NEW row \in T
  PROVE  Draws!InsertAt(s, i, row) \in Seq(T) /\ Len(Draws!InsertAt(s, i, row)) = Len(s) + 1
<1>1. PICK before : before = SubSeq(s, 1, i - 1)
  OBVIOUS
<1>2. PICK after : after = SubSeq(s, i, Len(s))
  OBVIOUS
<1>3. Len(s) \in Nat /\ \A k \in 1..Len(s) : s[k] \in T
  OBVIOUS
<1>4. before \in Seq(T) /\ Len(before) = i - 1
  BY <1>1, <1>3, SubSeqProperties
<1>5. after \in Seq(T) /\ Len(after) = Len(s) - i + 1
  BY <1>2, <1>3, SubSeqProperties
<1>6. <<row>> \in Seq(T) /\ Len(<<row>>) = 1
  OBVIOUS
<1>7. before \o <<row>> \in Seq(T) /\ Len(before \o <<row>>) = i
  BY <1>4, <1>6, ConcatProperties
<1>8. PICK upto : upto = before \o <<row>>
  OBVIOUS
<1>9. upto \o after \in Seq(T) /\ Len(upto \o after) = Len(s) + 1
  BY <1>5, <1>7, <1>8, ConcatProperties
<1>10. Draws!InsertAt(s, i, row) = upto \o after
  BY <1>1, <1>2, <1>8, Zenon DEF Draws!InsertAt
<1> QED
  BY <1>9, <1>10

LEMMA RowRemoved ==
  ASSUME NEW T, NEW s \in Seq(T), NEW i \in 1..Len(s)
  PROVE  Draws!RemoveAt(s, i) \in Seq(T) /\ Len(Draws!RemoveAt(s, i)) = Len(s) - 1
<1>1. PICK before : before = SubSeq(s, 1, i - 1)
  OBVIOUS
<1>2. PICK after : after = SubSeq(s, i + 1, Len(s))
  OBVIOUS
<1>3. Len(s) \in Nat /\ \A k \in 1..Len(s) : s[k] \in T
  OBVIOUS
<1>4. before \in Seq(T) /\ Len(before) = i - 1
  BY <1>1, <1>3, SubSeqProperties
<1>5. after \in Seq(T) /\ Len(after) = Len(s) - i
  BY <1>2, <1>3, SubSeqProperties
<1>6. before \o after \in Seq(T) /\ Len(before \o after) = Len(s) - 1
  <2>1. /\ before \o after \in Seq(T)
        /\ Len(before \o after) = Len(before) + Len(after)
    BY <1>4, <1>5, ConcatProperties
  <2> QED
    BY <1>3, <1>4, <1>5, <2>1
<1>7. Draws!RemoveAt(s, i) = before \o after
  BY <1>1, <1>2, Zenon DEF Draws!RemoveAt
<1> QED
  BY <1>6, <1>7

LEMMA DrawsInit == Draws!Init => DrawsInv
<1> SUFFICES ASSUME Draws!Init PROVE DrawsInv
  OBVIOUS
<1>1. table = << >> /\ prose = {} /\ latestDraws = Null /\ drawChanges = {}
  BY DEF Draws!Init
<1>2. IsFiniteSet({}) /\ Cardinality({}) = 0
  BY FS_EmptySet
<1>3. MaxEntries \in Nat
  BY DrawsAssumption DEF Draws!WelcomeBCAssumption
<1>4. << >> \in Tables /\ Len(<< >>) = 0
  BY DEF Tables
<1> QED
  BY <1>1, <1>2, <1>3, <1>4 DEF DrawsInv

LEMMA EditPageKeeps ==
  ASSUME DrawsInv, UNCHANGED <<latestDraws, drawChanges>>, table' \in Tables,
         prose' \subseteq Draws!Section, IsFiniteSet(prose'),
         Len(table') + Cardinality(prose') <= MaxEntries
  PROVE  DrawsInv'
BY DEF DrawsInv, Tables, Draws!FullRow, Draws!CoveredRow, Draws!OddRow, Draws!Section, Draws!Spans,
       Draws!Core!Changes, Draws!Core!TransitionTypes, Draws!Core!Availability, Draws!Core!Absent

LEMMA CheckPageKeeps == ASSUME DrawsInv, Draws!Check PROVE DrawsInv'
<1>1. PICK dates : dates = Draws!Drawn(table, prose)
  OBVIOUS
<1>2. dates \subseteq DrawDates /\ dates # {}
  BY <1>1, DrawnComplete DEF Draws!Check
<1>3. PICK new : new = Draws!Snapshot(dates)
  OBVIOUS
<1>4. /\ new \in [DrawDates -> {"available", Draws!Core!Absent}]
      /\ \E d \in DrawDates : new[d] = "available"
  BY <1>2, <1>3 DEF Draws!Snapshot
<1>5. [DrawDates -> {"available", Draws!Core!Absent}] \subseteq Draws!Core!Snapshots
  BY DEF Draws!Core!Snapshots, Draws!Core!Availability
<1>6. /\ latestDraws' = new /\ UNCHANGED <<table, prose>>
      /\ drawChanges' = IF latestDraws = Null THEN Draws!Core!DetectInitialTransitions(new)
                        ELSE Draws!Core!DetectTransitions(latestDraws, new)
  BY <1>1, <1>3, Zenon DEF Draws!Check, Draws!page
<1>7. drawChanges' \subseteq Draws!Core!Changes
  BY <1>4, <1>5, <1>6, DrawsDetectedTyped DEF DrawsInv
<1> QED
  BY <1>4, <1>6, <1>7
     DEF DrawsInv, Tables, Draws!FullRow, Draws!CoveredRow, Draws!OddRow, Draws!Section, Draws!Spans,
         Draws!Core!Changes, Draws!Core!TransitionTypes, Draws!Core!Availability, Draws!Core!Absent

LEMMA DrawsStep == DrawsInv /\ [Draws!Next]_(Draws!vars) => DrawsInv'
<1> SUFFICES ASSUME DrawsInv, [Draws!Next]_(Draws!vars) PROVE DrawsInv'
  OBVIOUS
<1>1. /\ table \in Tables /\ Len(table) \in Nat /\ MaxEntries \in Nat
      /\ prose \subseteq Draws!Section /\ IsFiniteSet(prose) /\ Cardinality(prose) \in Nat
      /\ Len(table) + Cardinality(prose) <= MaxEntries
  BY TablesSized, FS_CardinalityType, DrawsAssumption DEF DrawsInv, Draws!WelcomeBCAssumption
<1>2. Draws!Cardinality(prose) = Cardinality(prose)
  BY DEF Draws!Cardinality, Cardinality
<1>3. CASE UNCHANGED Draws!vars
  BY <1>1, <1>3, EditPageKeeps DEF Draws!vars, Draws!page, Draws!recorded
<1>4. ASSUME NEW row \in Draws!Rows, Draws!InsertRow(row) PROVE DrawsInv'
  <2>1. row \in Draws!FullRow \cup Draws!CoveredRow \cup Draws!OddRow
    BY DEF Draws!Rows
  <2>2. PICK i \in 1..(Len(table) + 1) : table' = Draws!InsertAt(table, i, row)
    BY <1>4 DEF Draws!InsertRow
  <2>3. table' \in Tables /\ Len(table') = Len(table) + 1
    BY <1>1, <2>1, <2>2, RowInserted DEF Tables
  <2>4. UNCHANGED <<prose, latestDraws, drawChanges>> /\ Len(table) + Cardinality(prose) < MaxEntries
    BY <1>2, <1>4 DEF Draws!InsertRow, Draws!recorded
  <2> QED
    BY <1>1, <2>3, <2>4, EditPageKeeps
<1>5. CASE Draws!DeleteRow
  <2>1. PICK i \in 1..Len(table) : table' = Draws!RemoveAt(table, i)
    BY <1>1, <1>5 DEF Draws!DeleteRow, Tables
  <2>2. table' \in Tables /\ Len(table') = Len(table) - 1
    BY <1>1, <2>1, RowRemoved DEF Tables
  <2>3. UNCHANGED <<prose, latestDraws, drawChanges>>
    BY <1>5 DEF Draws!DeleteRow, Draws!recorded
  <2> QED
    BY <1>1, <2>2, <2>3, EditPageKeeps
<1>6. ASSUME NEW section \in Draws!Sections, Draws!InsertSection(section) PROVE DrawsInv'
  <2>1. /\ prose' = prose \cup {section} /\ UNCHANGED <<table, latestDraws, drawChanges>>
        /\ Len(table) + Cardinality(prose) < MaxEntries
    BY <1>2, <1>6 DEF Draws!InsertSection, Draws!recorded
  <2>2. IsFiniteSet(prose') /\ Cardinality(prose') <= Cardinality(prose) + 1
        /\ Cardinality(prose') \in Nat
    <3>1. PICK old : old = prose
      OBVIOUS
    <3>2. /\ IsFiniteSet(old \cup {section}) /\ Cardinality(old) \in Nat
          /\ Cardinality(old \cup {section}) =
                IF section \in old THEN Cardinality(old) ELSE Cardinality(old) + 1
      BY <1>1, <3>1, FS_AddElement
    <3> QED
      BY <2>1, <3>1, <3>2
  <2>3. prose' \subseteq Draws!Section
    BY <1>1, <2>1 DEF Draws!Sections
  <2>4. Len(table') + Cardinality(prose') <= MaxEntries
    BY <1>1, <2>1, <2>2
  <2> QED
    BY <1>1, <2>1, <2>2, <2>3, <2>4, EditPageKeeps
<1>7. ASSUME NEW section \in Draws!Sections, Draws!DeleteSection(section) PROVE DrawsInv'
  <2>1. /\ prose' = prose \ {section} /\ UNCHANGED <<table, latestDraws, drawChanges>>
    BY <1>7 DEF Draws!DeleteSection, Draws!recorded
  <2>2. IsFiniteSet(prose') /\ Cardinality(prose') <= Cardinality(prose)
        /\ Cardinality(prose') \in Nat
    <3>1. PICK old : old = prose
      OBVIOUS
    <3>2. /\ IsFiniteSet(old \ {section}) /\ Cardinality(old) \in Nat
          /\ Cardinality(old \ {section}) =
                IF section \in old THEN Cardinality(old) - 1 ELSE Cardinality(old)
      BY <1>1, <3>1, FS_RemoveElement
    <3>3. Cardinality(old \ {section}) \in Nat
      BY <3>2, FS_CardinalityType
    <3> QED
      BY <2>1, <3>1, <3>2, <3>3
  <2>3. prose' \subseteq Draws!Section
    BY <1>1, <2>1
  <2>4. Len(table') + Cardinality(prose') <= MaxEntries
    BY <1>1, <2>1, <2>2
  <2> QED
    BY <1>1, <2>1, <2>2, <2>3, <2>4, EditPageKeeps
<1> QED
  BY <1>3, <1>4, <1>5, <1>6, <1>7, CheckPageKeeps DEF Draws!Next

LEMMA DrawsInvariant == Draws!Spec => []DrawsInv
  BY DrawsInit, DrawsStep, PTL DEF Draws!Spec

LEMMA DrawsTyped == DrawsInv => Draws!TypeOK
<1>1. Draws!Cardinality(prose) = Cardinality(prose)
  BY DEF Draws!Cardinality, Cardinality
<1> QED
  BY <1>1 DEF DrawsInv, Draws!TypeOK, Tables

LEMMA DrawsLayout == DrawsInv => TableMatchesLayout
BY TableParsed DEF DrawsInv, TableMatchesLayout, Draws!TableMatchesLayout

LEMMA DrawsComplete == Draws!Spec => RecordedIsComplete
<1> DEFINE Complete ==
      latestDraws' # latestDraws =>
         \A d \in DrawDates :
            latestDraws'[d] = "available" <=>
                \/ \E i \in Draws!Targets(table) : Draws!DateOf(table, i) = d
                \/ \E s \in prose : s.target /\ s.date = d
<1>1. DrawsInv /\ [Draws!Next]_(Draws!vars) => [Complete]_(Draws!vars)
  <2> SUFFICES ASSUME DrawsInv, Draws!Next PROVE Complete
    OBVIOUS
  <2>1. CASE Draws!Check
    <3>1. PICK dates : dates = Draws!Drawn(table, prose)
      OBVIOUS
    <3>2. latestDraws' = Draws!Snapshot(dates)
      BY <2>1, <3>1, Zenon DEF Draws!Check
    <3>3. \A d \in DrawDates : latestDraws'[d] = "available" <=> d \in dates
      BY <3>2 DEF Draws!Snapshot, Draws!Core!Absent
    <3>4. \A d \in DrawDates :
             d \in dates <=>
                \/ \E i \in Draws!Targets(table) : Draws!DateOf(table, i) = d
                \/ \E s \in prose : s.target /\ s.date = d
      BY <2>1, <3>1, DrawnComplete DEF Draws!Check
    <3> QED
      BY <3>3, <3>4
  <2>2. CASE UNCHANGED latestDraws
    BY <2>2
  <2> QED
    BY <2>1, <2>2 DEF Draws!Next, Draws!InsertRow, Draws!DeleteRow, Draws!InsertSection,
                      Draws!DeleteSection, Draws!recorded
<1> QED
  BY <1>1, DrawsInvariant, PTL
     DEF Draws!Spec, RecordedIsComplete, Draws!RecordedIsComplete

-----------------------------------------------------------------------------
(* All the parts: a behaviour of the boundary is one of each of them.       *)

LEMMA EachPart == BoundarySpec => Spec /\ Draws!Spec /\ Mock!Spec /\ Settings!Spec
<1>1. BoundaryInit => Init /\ Draws!Init /\ Mock!Init /\ Settings!Init
  BY DEF BoundaryInit
<1>2. [BoundaryNext]_boundary => /\ [Next]_vars
                                 /\ [Draws!Next]_(Draws!vars)
                                 /\ [Mock!Next]_(Mock!vars)
                                 /\ [Settings!Next]_(Settings!vars)
  <2>1. UNCHANGED page => UNCHANGED Draws!vars
    BY DEF page, Draws!vars, Draws!page, Draws!recorded
  <2>2. UNCHANGED mock => UNCHANGED Mock!vars
    BY DEF mock, Mock!vars, Mock!site, Mock!content, Mock!history
  <2>3. UNCHANGED settings => UNCHANGED Settings!vars
    BY DEF settings, Settings!vars
  <2> QED
    BY <2>1, <2>2, <2>3
       DEF BoundaryNext, ParksNext, DrawsNext, MockNext, SettingsNext, boundary
<1> QED
  BY <1>1, <1>2, PTL DEF BoundarySpec, Spec, Draws!Spec, Mock!Spec, Settings!Spec

(* The counter of the WelcomeBC parser agrees with the layout of the table, *)
(* for a table of any length, with any dates, routes and rowspans.          *)
THEOREM ParserCountsTheLayout == BoundarySpec => []TableMatchesLayout
  BY EachPart, DrawsInvariant, DrawsLayout, PTL

(* No draw the page tells of is missing from a snapshot, so none is reported *)
(* as disappeared while it is moved from the table to the prose.           *)
THEOREM SnapshotIsComplete == BoundarySpec => RecordedIsComplete
  BY EachPart, DrawsComplete, PTL

(* Whatever the environment, the file and their edits, a job the worker has *)
(* taken on can be carried out: its channels are registered, its interval   *)
(* is positive and so is the base delay of each of its retries.            *)
THEOREM AcceptedCanBeServed == BoundarySpec => []AcceptedIsServable
  BY EachPart, SettingsInvariant, SettingsServable, PTL

(* What a check makes of the mock site is explained by its controls, for    *)
(* any opportunities and any number of control calls between its requests:  *)
(* it records what was online at one moment, or, if the time of the day is  *)
(* set meanwhile, that with the availability of another time of the day.    *)
THEOREM MockIsAccountable == BoundarySpec => OutcomeIsExplained
  BY EachPart, MockOutcome, PTL

(* Every part of the boundary keeps its types. *)
THEOREM BoundaryTyped == BoundarySpec => []TypesOK
<1>1. TypeOK /\ DrawsInv /\ MockInv /\ SettingsInv => TypesOK
  BY DrawsTyped, MockTyped, SettingsTyped DEF TypesOK
<1> QED
  BY <1>1, EachPart, TypeCorrect, DrawsInvariant, MockInvariant, SettingsInvariant, PTL
=============================================================================
