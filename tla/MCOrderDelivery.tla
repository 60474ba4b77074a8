-------------------------- MODULE MCOrderDelivery ---------------------------
(* One order, placed and recovered by two calls and delivered by racing couriers. *)
EXTENDS OrderDelivery

CONSTANTS c1, c2, fake, alice

Wish  == [customer |-> alice, quantity |-> 1, currency |-> "VND", cap |-> 1]
Ware  == [currency |-> "VND", price |-> 1, available |-> 1, approved |-> TRUE, supplier |-> fake]

OneRequest == {Wish}
OneOffer   == {Ware}
OnePort    == [c \in Calls |-> fake]
=============================================================================
