-------------------------- MODULE MCFindingsIndex --------------------------
EXTENDS FindingsIndex, TLC

CONSTANTS r1, r2, w1, w2, t1, t2

OneEach == [r \in {r1, r2} |-> IF r = r1 THEN w1 ELSE w2]

Connections == Permutations({t1, t2})

=============================================================================
