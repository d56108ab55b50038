--------------------------- MODULE ProjectionsMC ---------------------------
(* One cycle with one task and one run, and two budget events, of which the *)
(* second releases money.                                                   *)
EXTENDS Projections

CONSTANTS c1, t1, r1, b1, b2

MCCycleOf == [t \in {t1} |-> c1]
MCTaskOf  == [r \in {r1} |-> t1]
MCAmount  == [e \in {b1, b2} |-> IF e = b1 THEN 5 ELSE 0 - 3]
MCOrder   == [e \in {b1, b2} |-> IF e = b1 THEN 1 ELSE 2]
=============================================================================
