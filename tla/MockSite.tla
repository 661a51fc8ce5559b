------------------------------ MODULE MockSite ------------------------------
(***************************************************************************)
(* The development providers, mock_site/app.py and mock_site/bcparks.py,   *)
(* under check by the drivers they stand in for, while their control API   *)
(* is used.  Each provider has a state of its own under a lock of its own, *)
(* so a behaviour is about one of them, chosen at the start, and the job   *)
(* that checks it.  Requests are served by threads: the delay of a         *)
(* response, and any control call, fall between two of its steps.          *)
(***************************************************************************)
EXTENDS Integers, Sequences, FiniteSets, SequencesExt, Functions

CONSTANTS
    Keys,           \* the opportunities of the reservation page
    DaysAhead, DayLength, OpeningTime, SlotEnd, Required,   \* BookingWindow
    LastDay,        \* bound: the days the mock clock is set to
    MaxCalls        \* bound on the control calls

Providers == {"reservations", "welcomebc", "bcparks"}
Behaviors == {"normal", "slow", "error", "malformed", "empty"}

Mapping ==
    [text \in {"available", "sold-out", "unknown"} |->
        IF text = "sold-out" THEN "unavailable" ELSE text]

(* The job of jobs.example.yaml: all its sources but the link are required. *)
Html == INSTANCE GenericHtml WITH
    Ids <- Keys,
    Mapping <- Mapping,
    Required <- {"id", "title", "availability", "starts_at"},
    Missing <- "missing", Illegible <- "illegible"

Driver == INSTANCE BookingWindow

MockSiteAssumption ==
    /\ IsFiniteSet(Keys) /\ "missing" \notin Keys
    /\ MaxCalls \in Nat
    /\ Driver!BookingAssumption

VARIABLES
    provider,       \* the one of this behaviour
    behavior,       \* its delay, status code, malformed and empty settings
    opportunities,  \* of the reservation page, by key
    draws,          \* the dates of the WelcomeBC page, from the top
    currentTime, reservations, open,   \* of the BC Parks mock
    check,          \* the job: where it is and what its responses told so far
    outcome,        \* how its last check ended, until the next begins
    online, excused, calls       \* history of the check: the contents that were
                                 \* online, whether it had a cause to fail

content == <<opportunities, draws, currentTime, reservations, open>>
site == <<provider, behavior, content>>
history == <<online, excused, calls>>
vars == <<site, check, outcome, history>>

Opportunity == [availability : {"available", "sold-out", "unknown"}, enabled : BOOLEAN,
                title : {"text", "missing"}, starts_at : {"text", "illegible"}]
Capacities == {"Full", "High", "over limit"}

DefaultOpportunities ==
    [k \in Keys |-> [availability |-> "available", enabled |-> TRUE,
                     title |-> "text", starts_at |-> "text"]]
Today == Driver!Day(currentTime)

(* The mock starts before the opening hour of its first day.               *)
DefaultReservations ==
    [d \in Driver!Window(0) |-> IF d = DaysAhead THEN "High" ELSE "Full"]
Idle == [at |-> "idle", held |-> FALSE, behavior |-> "normal", seen |-> << >>, time |-> 0]

-----------------------------------------------------------------------------
(* What the driver reads at this moment, apart from the behavior.          *)
Online ==
    CASE provider = "reservations" ->
            [k \in Keys |-> IF ~opportunities[k].enabled THEN Html!Core!Absent
                            ELSE Mapping[opportunities[k].availability]]
      [] provider = "welcomebc" -> Range(draws)
      [] provider = "bcparks"   -> [time |-> currentTime, dates |-> reservations]

(* What should be recorded of the time told at one moment and the rest at  *)
(* another; only BC Parks tells them apart.                                *)
Made(told, served) ==
    IF provider = "bcparks" THEN Driver!Snapshot(served.dates, told.time) ELSE served

(* Nothing has been set that the drivers are meant to refuse. *)
Fine ==
    /\ behavior = "normal"
    /\ provider = "reservations" =>
          /\ \E k \in Keys : opportunities[k].enabled
          /\ \A k \in Keys : opportunities[k].enabled =>
                opportunities[k].title = "text" /\ opportunities[k].starts_at = "text"
    /\ provider = "bcparks" =>
          /\ open = {"park", "facility"} /\ "over limit" \notin Range(reservations)
          /\ \E d \in DOMAIN reservations : ~Driver!Over(d, currentTime)

Observed ==
    /\ online' = IF check'.at = "idle" THEN {} ELSE online \cup {Online'}
    /\ excused' = (check'.at # "idle" /\ (excused \/ ~Fine' \/ Today' # Today))

Init ==
    /\ provider \in Providers
    /\ behavior = "normal"
    /\ opportunities = DefaultOpportunities
    /\ draws = <<"old">>
    /\ currentTime = 0 /\ reservations = DefaultReservations /\ open = {"park", "facility"}
    /\ check = Idle /\ outcome = [kind |-> "none"]
    /\ online = {} /\ excused = FALSE /\ calls = 0

-----------------------------------------------------------------------------
(* The control API. *)

Called ==
    /\ calls < MaxCalls
    /\ calls' = calls + 1
    /\ UNCHANGED <<provider, check, outcome>>
    /\ Observed

UpdateBehavior(b) ==
    /\ b = "empty" => provider = "bcparks"
    /\ behavior' = b
    /\ UNCHANGED content
    /\ Called

(* A blank title and a time without leading zeros are accepted. *)
UpdateOpportunity(key) ==
    /\ provider = "reservations"
    /\ \E new \in Opportunity : opportunities' = [opportunities EXCEPT ![key] = new]
    /\ UNCHANGED <<behavior, draws, currentTime, reservations, open>>
    /\ Called

PublishDraw ==
    /\ provider = "welcomebc"
    /\ draws' = IF "new" \in Range(draws) THEN draws ELSE <<"new">> \o draws
    /\ UNCHANGED <<behavior, opportunities, currentTime, reservations, open>>
    /\ Called

(* Mutant: the clock is set before the dates are moved. *)
SetCurrentTimeFirst(time) ==
    /\ provider = "bcparks"
    /\ currentTime' = time
    /\ UNCHANGED <<reservations, behavior, opportunities, draws, open>>
    /\ Called

(* The dates of the reservations move with the date of the clock; within a *)
(* day only the time moves.                                                *)
SetCurrentTime(time) ==
    LET delta == Driver!Day(time) - Today IN
    /\ provider = "bcparks"
    /\ currentTime' = time
    /\ reservations' = [d \in {c + delta : c \in DOMAIN reservations} |->
                            reservations[d - delta]]
    /\ UNCHANGED <<behavior, opportunities, draws, open>>
    /\ Called

(* update_park, update_facility: closed or hidden, or shown again. *)
UpdateOpening(what) ==
    /\ provider = "bcparks"
    /\ open' = IF what \in open THEN open \ {what} ELSE open \cup {what}
    /\ UNCHANGED <<behavior, opportunities, draws, currentTime, reservations>>
    /\ Called

UpdateReservation(date, capacity) ==
    /\ provider = "bcparks"
    /\ date \in DOMAIN reservations
    /\ reservations' = [reservations EXCEPT ![date] = capacity]
    /\ UNCHANGED <<behavior, opportunities, draws, currentTime, open>>
    /\ Called

Reset ==
    /\ behavior' = "normal"
    /\ opportunities' = DefaultOpportunities /\ draws' = <<"old">>
    /\ currentTime' = 0 /\ reservations' = DefaultReservations /\ open' = {"park", "facility"}
    /\ Called

-----------------------------------------------------------------------------
(* A check and the requests it makes.  The local mock answers at once      *)
(* unless a delay is set.                                                  *)

Goto(at) == check' = [check EXCEPT !.at = at, !.held = FALSE]

Ends(result) ==
    /\ check' = Idle /\ outcome' = result
    /\ UNCHANGED <<site, calls>>
    /\ Observed

Fails == Ends([kind |-> "failed"])
Records(snapshot) == Ends([kind |-> "recorded", snapshot |-> snapshot])

Start ==
    /\ check.at = "idle"
    /\ Goto(IF provider = "bcparks" THEN "config" ELSE "page")
    /\ outcome' = [kind |-> "none"]
    /\ UNCHANGED <<site, calls>>
    /\ Observed

(* A thread takes the request: the page routes copy content and behaviour  *)
(* together, the BC Parks routes only the behaviour, before they wait.     *)
Arrive ==
    /\ check.at # "idle" /\ ~check.held
    /\ check' = [check EXCEPT !.held = TRUE, !.behavior = behavior,
                              !.seen = CASE provider = "reservations" -> opportunities
                                         [] provider = "welcomebc"    -> draws
                                         [] OTHER                     -> << >>]
    /\ UNCHANGED <<site, outcome, calls>>
    /\ Observed

Refused ==
    /\ check.held /\ check.behavior \in {"error", "malformed", "empty"}
    /\ Fails

TimesOut ==
    /\ check.held /\ check.behavior = "slow"
    /\ Fails

Served == check.held /\ check.behavior \in {"normal", "slow"}

(* reservations.html: one article for each enabled opportunity; the link   *)
(* is there when it is available.                                          *)
Rendered(key) ==
    [id |-> key, title |-> check.seen[key].title,
     availability |-> check.seen[key].availability,
     starts_at |-> check.seen[key].starts_at,
     booking_url |-> IF check.seen[key].availability = "available" THEN "text" ELSE "missing"]

ServeReservations ==
    LET enabled == SetToSeq({k \in Keys : check.seen[k].enabled})
        page == [i \in DOMAIN enabled |-> Rendered(enabled[i])]
    IN
    /\ check.at = "page" /\ provider = "reservations"
    /\ Served
    /\ IF Html!ParseFails(page) THEN Fails ELSE Records(Html!Snapshot(page))

(* Two draws of one date would repeat its routes, which the parser refuses.*)
ServeWelcomeBC ==
    /\ check.at = "page" /\ provider = "welcomebc"
    /\ Served
    /\ IF IsInjective(check.seen) THEN Records(Range(check.seen)) ELSE Fails

ServeConfig ==
    /\ check.at = "config"
    /\ Served
    /\ Goto("park")
    /\ UNCHANGED <<site, outcome, calls>>
    /\ Observed

ServePark ==
    /\ check.at = "park"
    /\ Served
    /\ IF "park" \in open
       THEN Goto("facility") /\ UNCHANGED <<site, outcome, calls>> /\ Observed
       ELSE Fails

(* The facility tells the time of the provider with its own state. *)
ServeFacility ==
    /\ check.at = "facility"
    /\ Served
    /\ IF "facility" \in open
       THEN /\ check' = [check EXCEPT !.at = "reservation", !.held = FALSE,
                                     !.time = currentTime]
            /\ UNCHANGED <<site, outcome, calls>> /\ Observed
       ELSE Fails

(* What is over, and what can be booked, goes by the facility's time.      *)
ServeReservation ==
    /\ check.at = "reservation"
    /\ Served
    /\ IF /\ Driver!Usable(reservations, check.time)
          /\ "over limit" \notin Range(reservations)
          /\ \E d \in DOMAIN reservations : ~Driver!Over(d, check.time)
       THEN Records(Driver!Snapshot(reservations, check.time))
       ELSE Fails

Times == 0..((LastDay + 1) * DayLength - 1)

Next ==
    \/ \E b \in Behaviors : UpdateBehavior(b)
    \/ \E k \in Keys : UpdateOpportunity(k)
    \/ PublishDraw
    \/ \E time \in Times : SetCurrentTime(time)
    \/ \E what \in {"park", "facility"} : UpdateOpening(what)
    \/ \E date \in Driver!Dates, c \in Capacities : UpdateReservation(date, c)
    \/ Reset
    \/ Start \/ Arrive \/ Refused \/ TimesOut
    \/ ServeReservations \/ ServeWelcomeBC
    \/ ServeConfig \/ ServePark \/ ServeFacility \/ ServeReservation

Spec == Init /\ [][Next]_vars

-----------------------------------------------------------------------------
TypeOK ==
    /\ behavior \in Behaviors
    /\ opportunities \in [Keys -> Opportunity]
    /\ Range(draws) \subseteq {"old", "new"}
    /\ currentTime \in Times
    /\ reservations \in [Driver!Window(Today) -> Capacities]
    /\ open \subseteq {"park", "facility"}
    /\ check.at \in {"idle", "page", "config", "park", "facility", "reservation"}
    /\ calls \in 0..MaxCalls

(* However control calls fall between the steps of a check, its outcome is  *)
(* explained by them: it records what was online at one moment of it, or,   *)
(* if the time of the day was set meanwhile, what was online at one moment  *)
(* with the availability of another time of the same day; and it fails only *)
(* if something was set that the driver is meant to refuse, or the date     *)
(* moved.  A scripted scenario is so neither flaky nor blamed on the driver.*)
Explains(told, served, snapshot) ==
    /\ snapshot = Made(told, served)
    /\ provider = "bcparks" => Driver!Day(told.time) = Driver!Day(served.time)

OutcomeIsExplained ==
    [][(check.at # "idle" /\ check'.at = "idle") =>
          \/ outcome'.kind = "failed" /\ excused
          \/ /\ outcome'.kind = "recorded"
             /\ \E told, served \in online : Explains(told, served, outcome'.snapshot)]_vars

=============================================================================
