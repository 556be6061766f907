------------------------ MODULE MCMobileOwnership ------------------------
(* Small instances of MobileOwnership for TLC.                           *)
EXTENDS MobileOwnership

CONSTANTS a, b, k1, k2

OneKey == <<k1>>
TwoFromB == [c \in Clients |-> IF c = a THEN 1 ELSE 2]
TwoEach == [c \in Clients |-> 2]

(* Two tokens let a client be taken over while it has a request in flight. *)
TwoOfA == [c \in Clients |-> IF c = a THEN {1, 2} ELSE {3}]
TwoOfEach == [c \in Clients |-> IF c = a THEN {1, 2} ELSE {3, 4}]

TwoKeys == <<k1, k2>>
===========================================================================
