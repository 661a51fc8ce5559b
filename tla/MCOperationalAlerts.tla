------------------------ MODULE MCOperationalAlerts ------------------------
(* Two jobs whose tasks share the alerts, and one channel for them. *)
EXTENDS OperationalAlerts

CONSTANTS j1, j2, email

TwoJobs == <<j1, j2>>
OneChannel == <<email>>
=============================================================================
