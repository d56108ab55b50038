------------------------------ MODULE JanitorMC ------------------------------
(* Two runs, one expired artifact or log at a time, and a budget of two     *)
(* deletions.                                                               *)
EXTENDS Janitor

CONSTANTS r1, r2
=============================================================================
