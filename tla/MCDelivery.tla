------------------------------ MODULE MCDelivery ------------------------------
(* A small instance of the ingestor and the durable workers together.        *)
EXTENDS Delivery

CONSTANTS p1, w1
=============================================================================
