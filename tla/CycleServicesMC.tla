-------------------------- MODULE CycleServicesMC --------------------------
(* Two tasks with changes, one of them merged by two calls, and a plan that *)
(* is asked for once.                                                       *)
EXTENDS CycleServices, TLC

CONSTANTS t1, t2, c1, c2, c3, g1, check, fmt

MCTaskOf == c1 :> t1 @@ c2 :> t1 @@ c3 :> t2
=============================================================================
