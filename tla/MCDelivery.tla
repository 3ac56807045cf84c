----------------------------- MODULE MCDelivery -----------------------------
(* TLC instances of Delivery: the names of the messages and slots.         *)
EXTENDS Delivery
CONSTANTS q1, i1, x1, w1, w2
=============================================================================
