---------------------------- MODULE Transitions ----------------------------
(***************************************************************************)
(* The pure comparison of two complete successful snapshots                *)
(* (web_checker/core/transitions.py).  A snapshot says of every            *)
(* opportunity a job could list how the provider listed it; an opportunity *)
(* the provider did not list is Absent.  CheckResult refuses duplicate     *)
(* identifiers, so a snapshot is a function.                               *)
(***************************************************************************)
CONSTANT Opportunities       \* the identifiers a provider may ever list

Availability == {"available", "unavailable", "unknown"}
Absent == "absent"
Snapshots == [Opportunities -> Availability \cup {Absent}]

TransitionTypes == {"appeared", "disappeared", "became_available",
                    "became_unavailable", "availability_unknown",
                    "initially_available"}

(* A detected change carries both sides of the comparison. *)
Changes == [opportunity : Opportunities, type : TransitionTypes,
            previous : Availability \cup {Absent},
            current  : Availability \cup {Absent}]

AvailabilityTransition(availability) ==
    CASE availability = "available"   -> "became_available"
      [] availability = "unavailable" -> "became_unavailable"
      [] OTHER                        -> "availability_unknown"

(* Mutant: the new availability itself is stored as the type. *)
TransitionTypeIsAvailability(old, new) ==
    IF old = Absent THEN "appeared" ELSE new

TransitionType(old, new) ==
    CASE old = Absent -> "appeared"
      [] new = Absent -> "disappeared"
      [] OTHER        -> AvailabilityTransition(new)

DetectTransitions(previous, current) ==
    {[opportunity |-> o, type |-> TransitionType(previous[o], current[o]),
      previous |-> previous[o], current |-> current[o]] :
        o \in {p \in Opportunities : previous[p] # current[p]}}

(* The first snapshot of a job is a baseline: only what is available in it *)
(* is reported.                                                            *)
DetectInitialTransitions(current) ==
    {[opportunity |-> o, type |-> "initially_available",
      previous |-> Absent, current |-> current[o]] :
        o \in {p \in Opportunities : current[p] = "available"}}

(* What a reader of the change log believes after one more batch of        *)
(* changes.  Not in the code: the reference the comparison is held against.*)
Replay(belief, changes) ==
    [o \in Opportunities |->
        IF \E c \in changes : c.opportunity = o
        THEN (CHOOSE c \in changes : c.opportunity = o).current
        ELSE belief[o]]

=============================================================================
