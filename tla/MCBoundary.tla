----------------------------- MODULE MCBoundary -----------------------------
(***************************************************************************)
(* What comes in from outside: the BC Parks and the WelcomeBC provider with *)
(* their drivers, the mock site with the drivers that check it, and the    *)
(* jobs file with the environment.  They share no state, so a behaviour is *)
(* one of a single part, chosen at the start.  BCParks is extended, for    *)
(* its properties are also proved; the others are instances.               *)
(***************************************************************************)
EXTENDS BCParks, TLC

CONSTANTS
    DrawDates, Routes, Bad, MaxEntries,
    Keys, MockLastDay, MaxCalls,
    Jobs, Unset, Schedules, MaxEdits, MaxRuns, MaxRows

VARIABLES
    part,
    table, prose, latestDraws, drawChanges,
    mocked, behavior, opportunities, draws, currentTime, reservations, mockOpen,
    probe, outcome, online, excused, calls,
    file, environment, worker, oneShot, rows, edits, runs

Draws == INSTANCE WelcomeBC WITH latest <- latestDraws, changes <- drawChanges
Mock == INSTANCE MockSite WITH
    LastDay <- MockLastDay,
    provider <- mocked, open <- mockOpen, check <- probe
Settings == INSTANCE Configuration WITH
    Absent <- Unset, check <- oneShot

ASSUME DrawsAssumption == Draws!WelcomeBCAssumption
ASSUME MockAssumption == Mock!MockSiteAssumption
ASSUME SettingsAssumption == Settings!ConfigurationAssumption

(* The value of Schedules for TLC. *)
Schedule(interval, attempts, initial, maximum) ==
    [interval |-> interval, attempts |-> attempts, initial |-> initial, maximum |-> maximum]

(* A valid one, an interval of zero, and retries without a base delay. *)
SomeSchedules ==
    {Schedule(1, 2, 1, 1), Schedule(0, 1, 0, 0), Schedule(1, 2, 0, 1)}

page == <<table, prose, latestDraws, drawChanges>>
mock == <<mocked, behavior, opportunities, draws, currentTime, reservations, mockOpen,
          probe, outcome, online, excused, calls>>
settings == <<file, environment, worker, oneShot, rows, edits, runs>>
boundary == <<part, vars, page, mock, settings>>

BoundaryInit ==
    /\ part \in {"parks", "draws", "mock", "settings"}
    /\ Init /\ Draws!Init /\ Mock!Init /\ Settings!Init
    /\ part # "mock" => mocked = "bcparks"
    /\ part # "settings" =>
          /\ environment.smtp["address"] = "absent"
          /\ \A j \in Jobs : file[j].channels = {}

ParksNext == part = "parks" /\ Next /\ UNCHANGED <<part, page, mock, settings>>
DrawsNext == part = "draws" /\ Draws!Next /\ UNCHANGED <<part, vars, mock, settings>>
MockNext == part = "mock" /\ Mock!Next /\ UNCHANGED <<part, vars, page, settings>>
SettingsNext == part = "settings" /\ Settings!Next /\ UNCHANGED <<part, vars, page, mock>>

BoundaryNext == ParksNext \/ DrawsNext \/ MockNext \/ SettingsNext

BoundarySpec == BoundaryInit /\ [][BoundaryNext]_boundary

(* The jobs of Configuration, and the dates and routes of WelcomeBC, are    *)
(* only compared with each other for equality, and occur nowhere else.     *)
Alike == Permutations(Jobs) \cup Permutations(DrawDates) \cup Permutations(Routes)

-----------------------------------------------------------------------------
(* The types of the four parts. *)
TypesOK == TypeOK /\ Draws!TypeOK /\ Mock!TypeOK /\ Settings!TypeOK

(* WelcomeBC: the parser's count of covered rows agrees with the layout. *)
TableMatchesLayout == Draws!TableMatchesLayout

(* WelcomeBC: no draw that the page tells of is missing from a snapshot. *)
RecordedIsComplete == Draws!RecordedIsComplete

(* MockSite: what a check makes of the mock is explained by its controls. *)
OutcomeIsExplained == Mock!OutcomeIsExplained

(* Configuration: what the worker takes on, it can carry out. *)
AcceptedIsServable == Settings!AcceptedIsServable

=============================================================================
