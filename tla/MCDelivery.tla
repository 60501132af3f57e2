------------------------------ MODULE MCDelivery ------------------------------
(* A small instance of Delivery: one receiver that comes and goes. *)
EXTENDS Delivery

CONSTANTS s1, s2

MCSenders == {s1, s2}
MCMaxCalls == [s \in MCSenders |-> IF s = s1 THEN 2 ELSE 1]
MCSendTids == [s \in MCSenders |-> IF s = s1 THEN {} ELSE {1}]
MCSubscribed == [a \in Receivers |-> {1, 2}]
================================================================================
