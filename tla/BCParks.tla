------------------------------ MODULE BCParks ------------------------------
(***************************************************************************)
(* The BC Parks day-use driver, web_checker/drivers/bcparks_dayuse, checked *)
(* again and again for one facility and one slot of the day while the      *)
(* provider's clock runs.  A check awaits four responses one after the     *)
(* other, and the provider goes on between them.  BookingWindow says what  *)
(* the driver makes of them.                                               *)
(***************************************************************************)
EXTENDS BookingWindow

CONSTANT Null   \* no snapshot recorded yet

ASSUME BCParksAssumption == BookingAssumption

VARIABLES
    now, full, open,    \* the provider: its clock, full dates, park and facility open
    pc, facilityTime,   \* the check: where it is, currentTime of the facility it read
    latest, changes     \* the last recorded snapshot and what the core reported for it

provider == <<now, full, open>>
check == <<pc, facilityTime>>
recorded == <<latest, changes>>
vars == <<provider, check, recorded>>

-----------------------------------------------------------------------------
Init ==
    /\ now = 0 /\ full = {} /\ open = TRUE
    /\ pc = "idle" /\ facilityTime = 0
    /\ latest = Null /\ changes = {}

(* The provider: time passes, capacity changes, the park opens and closes. *)
Pass ==
    /\ now < LastDay * DayLength
    /\ now' = now + 1
    /\ UNCHANGED <<full, open, check, recorded>>

CapacityChanges(date) ==
    /\ date \in Window(Day(now))
    /\ full' = IF date \in full THEN full \ {date} ELSE full \cup {date}
    /\ UNCHANGED <<now, open, check, recorded>>

SeasonChanges ==
    /\ open' = ~open
    /\ UNCHANGED <<now, full, check, recorded>>

(* The configuration is requested and parsed. *)
ReadConfig ==
    /\ pc = "idle"
    /\ pc' = "config"
    /\ UNCHANGED <<provider, facilityTime, recorded>>

ReadPark ==
    /\ pc = "config"
    /\ pc' = IF open THEN "park" ELSE "idle"
    /\ UNCHANGED <<provider, facilityTime, recorded>>

ReadFacility ==
    /\ pc = "park"
    /\ IF open THEN pc' = "facility" /\ facilityTime' = now
       ELSE pc' = "idle" /\ facilityTime' = 0
    /\ UNCHANGED <<provider, recorded>>

(* A request times out or is refused, or a response breaks its contract.   *)
CheckFails ==
    /\ pc # "idle"
    /\ pc' = "idle" /\ facilityTime' = 0
    /\ UNCHANGED <<provider, recorded>>

(* What the provider may answer: the dates of its window, with some of     *)
(* them or some of their slots missing.                                    *)
Responses ==
    UNION {[dates -> {"Full", "Low", "no slot"}] : dates \in SUBSET Window(Day(now))}

Truthful(response) ==
    \A d \in DOMAIN response :
        response[d] # "no slot" => (response[d] = "Full" <=> d \in full)

(* The reservations are read last; a snapshot without opportunities is a   *)
(* failure, and only a complete one reaches the core.                      *)
ReadReservations ==
    /\ pc = "facility"
    /\ \E response \in Responses :
          /\ Truthful(response)
          /\ Usable(response, facilityTime)
          /\ \E d \in DOMAIN response : ~Over(d, facilityTime)
          /\ latest' = Snapshot(response, facilityTime)
    /\ changes' = IF latest = Null THEN Core!DetectInitialTransitions(latest')
                  ELSE Core!DetectTransitions(latest, latest')
    /\ pc' = "idle" /\ facilityTime' = 0
    /\ UNCHANGED provider

Next ==
    \/ Pass \/ SeasonChanges
    \/ \E d \in Dates : CapacityChanges(d)
    \/ ReadConfig \/ ReadPark \/ ReadFacility \/ ReadReservations \/ CheckFails

Spec == Init /\ [][Next]_vars

-----------------------------------------------------------------------------
TypeOK ==
    /\ now \in 0..(LastDay * DayLength)
    /\ full \subseteq Dates /\ open \in BOOLEAN
    /\ pc \in {"idle", "config", "park", "facility"}
    /\ facilityTime \in 0..now
    /\ latest \in Core!Snapshots \cup {Null}
    /\ changes \subseteq Core!Changes

(* A snapshot is never torn by midnight: whatever happens between the four  *)
(* responses, at the time it is recorded it lists dates of that day's       *)
(* booking window only, and all of them but a slot that is over.            *)
WindowIsCurrent ==
    [][latest' # latest =>
          \A d \in Dates :
             /\ latest'[d] # Core!Absent => d \in Window(Day(now))
             /\ (d \in Window(Day(now)) /\ latest'[d] = Core!Absent)
                   => now >= d * DayLength + SlotEnd]_vars

(* A date is only reported as disappeared when its slot is over: an         *)
(* incomplete response, a closed park or a check that spans midnight never  *)
(* takes a date away that could still be booked.                            *)
DisappearsOnlyWhenOver ==
    [][\A c \in changes' \ changes :
          c.type = "disappeared" => now >= c.opportunity * DayLength + SlotEnd]_vars

(* Once bookings for a date are known to be open, it is never reported as   *)
(* not yet open again; so nobody is told twice that it became available     *)
(* unless it was full in between.                                           *)
OpensOnce ==
    [][(latest # Null /\ latest' # latest) =>
          \A d \in Dates :
             latest[d] \in {"available", "unavailable"} => latest'[d] # "unknown"]_vars

=============================================================================
