---------------------------- MODULE MCWorkEngine ----------------------------
(***************************************************************************)
(* Routes for checking WorkEngine with TLC.                                *)
(*                                                                         *)
(*   flat     a ; b ; d                                                    *)
(*   both     P { C { a } ; d }, C waits for a child Work, and P needs an  *)
(*            output no leaf has to make                                   *)
(*   late     a ; C { b ; d }, where C needs an output no leaf has to make *)
(*   pair     C { a ; b } ; d, where C waits for a child Work               *)
(***************************************************************************)
EXTENDS WorkEngine

CONSTANTS a, b, d, C, P, o, role1

FlatOrder == <<a, b, d>>
FlatChain == [w \in {a, b, d} |-> <<>>]
Empty == [c \in {} |-> {}]
NoOutputs == [l \in {a, b, d} |-> {}]

BothNeeds == [c \in {C, P} |-> IF c = P THEN {o} ELSE {}]

BothOrder == <<a, d>>
BothOutputs == [l \in {a, d} |-> {}]

BothChain == [w \in {a, d, C, P} |->
  IF w = a THEN <<C, P>> ELSE IF w = P THEN <<>> ELSE <<P>>]
BothLast == [c \in {C, P} |-> IF c = C THEN a ELSE d]
BothFirst == [c \in {C, P} |-> a]
BothRoles == [c \in {C, P} |-> IF c = C THEN {role1} ELSE {}]

LateChain == [w \in {a, b, d, C} |-> IF w \in {b, d} THEN <<C>> ELSE <<>>]
LateLast == [c \in {C} |-> d]
LateFirst == [c \in {C} |-> b]
LateNeeds == [c \in {C} |-> {o}]
LateRoles == [c \in {C} |-> {}]

PairChain == [w \in {a, b, d, C} |-> IF w \in {a, b} THEN <<C>> ELSE <<>>]
PairLast == [c \in {C} |-> b]
PairFirst == [c \in {C} |-> a]
PairNeeds == [c \in {C} |-> {}]
PairRoles == [c \in {C} |-> {role1}]

=============================================================================
