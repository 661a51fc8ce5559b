------------------------------ MODULE MCWorker ------------------------------
(* Two jobs that share the two outboxes, one channel for the alerts. *)
EXTENDS Worker

CONSTANTS j1, j2, email

TwoJobs == <<j1, j2>>
OneChannel == <<email>>
=============================================================================
