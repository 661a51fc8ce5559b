---------------------------- MODULE MCWelcomeBC ----------------------------
(* Two dates, two routes, and pages of up to MaxEntries entries. *)
EXTENDS WelcomeBC

CONSTANTS a, b
=============================================================================
