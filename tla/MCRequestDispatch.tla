------------------------- MODULE MCRequestDispatch --------------------------
(***************************************************************************)
(* Instances of RequestDispatch for TLC, in the shape of the service       *)
(* manager: GetConsolidatedAPI may be subscribed to, RegisterAPI may not   *)
(* and answers later, and any other name is no method at all.              *)
(***************************************************************************)
EXTENDS RequestDispatch

CONSTANTS GetConsolidatedAPI, RegisterAPI, noMethod, c1, c2, i1, i2

(* Two processes with ids of their own, *)
OwnIDs == [c \in Client |-> IF c = c1 THEN {i1} ELSE {i2}]

(* or processes that started within milliseconds of each other. *)
OverlappingIDs == [c \in Client |-> IF c = c1 THEN {i1} ELSE {i1, i2}]

MinEvents == [m \in Method |-> IF m = GetConsolidatedAPI THEN 1 ELSE 0]

MinPeriods == [m \in Method |-> 0]

OneMethod == {{m} : m \in Method}

OneOrTwoMethods == OneMethod \cup {{GetConsolidatedAPI, RegisterAPI}, {GetConsolidatedAPI, noMethod}}
=============================================================================
