------------------------------ MODULE MCOrders ------------------------------
(***************************************************************************)
(* Instances of Orders for TLC.  Two requests that differ in their cap, so *)
(* that one of them refuses the raised price, and an offer at both prices. *)
(***************************************************************************)
EXTENDS Orders, TLC

CONSTANTS c1, c2, c3, fake, other, alice

thrifty  == [customer |-> alice, quantity |-> 1, currency |-> "VND", cap |-> 1]
generous == [customer |-> alice, quantity |-> 1, currency |-> "VND", cap |-> 2]

cheap   == [currency |-> "VND", price |-> 1, available |-> 1, approved |-> TRUE, supplier |-> fake]
raised  == [currency |-> "VND", price |-> 2, available |-> 1, approved |-> TRUE, supplier |-> fake]

TwoRequests == {thrifty, generous}
OneRequest  == {generous}
TwoOffers   == {cheap, raised}
OneOffer    == {cheap}

OnePort  == [c \in Calls |-> fake]
TwoPorts == [c \in Calls |-> IF c = c1 THEN other ELSE fake]

Interchangeable == Permutations(Calls)
=============================================================================
