---------------------------- MODULE BookingWindow ----------------------------
(***************************************************************************)
(* What the BC Parks day-use driver makes of its responses                 *)
(* (_build_opportunities of web_checker/drivers/bcparks_dayuse): the       *)
(* facility's time says which dates can be booked, which slots are over    *)
(* and whether the capacity of a date counts yet.  An opportunity is a     *)
(* date; time is counted in units of which DayLength make a day.           *)
(***************************************************************************)
EXTENDS Integers

CONSTANTS
    DaysAhead,     \* bookingDaysAhead of the facility
    DayLength,
    OpeningTime,   \* bookingOpeningHour, in units after midnight
    SlotEnd,       \* where the selected slot ends in its day
    Required,      \* the dates on which a pass must be booked
    LastDay        \* bound: the last day of the provider's clock

BookingAssumption ==
    /\ DaysAhead \in Nat /\ LastDay \in Nat
    /\ DayLength \in Nat \ {0}
    /\ OpeningTime \in 0..(DayLength - 1)
    /\ SlotEnd \in 1..DayLength

Dates == 0..(LastDay + DaysAhead)

Core == INSTANCE Transitions WITH Opportunities <- Dates

Day(t) == t \div DayLength
Window(day) == day..(day + DaysAhead)

(* Mutant: the slot is dropped when it starts. *)
OverFromStart(date, t) == t >= date * DayLength

Over(date, t) == t >= date * DayLength + SlotEnd

(* Mutant: only the time of the day is compared with the opening hour. *)
OpensEveryDay(date, t) == t % DayLength >= OpeningTime

BookingOpened(date, t) == t >= (date - DaysAhead) * DayLength + OpeningTime

(* Mutant: the booking state is taken for the availability. *)
BookingState(date, capacity, t) ==
    IF date \notin Required THEN "not_required"
    ELSE IF BookingOpened(date, t) THEN "bookable" ELSE "pre_open"

AvailabilityOf(date, capacity, t) ==
    IF date \in Required /\ BookingOpened(date, t)
    THEN IF capacity = "Full" THEN "unavailable" ELSE "available"
    ELSE "unknown"

(* Mutant: the dates of the response are not compared with the window. *)
UsableAnyDates(response, t) == "no slot" \notin {response[d] : d \in DOMAIN response}

(* The response covers the window of the facility's day and no other date, *)
(* each with the selected slot.                                            *)
Usable(response, t) ==
    /\ DOMAIN response = Window(Day(t))
    /\ \A d \in DOMAIN response : response[d] # "no slot"

Snapshot(response, t) ==
    [d \in Dates |->
        IF d \in DOMAIN response /\ ~Over(d, t) THEN AvailabilityOf(d, response[d], t)
        ELSE Core!Absent]

=============================================================================
