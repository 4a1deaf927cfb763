------------------------------ MODULE MCJobSlots ------------------------------
(* JobSlots for TLC: estate e1 has two jobs and asks for two host slots,      *)
(* estate e2 has one job and asks for one; m1 materializes in e1.             *)
EXTENDS JobSlots

CONSTANTS e1, e2, e1m, j1, j2, j3, m1

Pools    == [j \in Job |-> IF j = m1 THEN e1m ELSE IF j = j3 THEN e2 ELSE e1]
OnePerPool == [l \in Local |-> 1]
Asks     == [j \in Job |-> IF j = j3 THEN 1 ELSE 2]
=============================================================================
