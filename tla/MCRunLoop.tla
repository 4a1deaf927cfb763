------------------------------ MODULE MCRunLoop ------------------------------
(* RunLoop for TLC: a Route of two leaves, the first of them driven.          *)
EXTENDS RunLoop

CONSTANTS a, b

Order == <<a, b>>
Flat == [w \in {a, b} |-> <<>>]
None == [c \in {} |-> a]
=============================================================================
