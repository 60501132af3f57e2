---------------------------- MODULE MCSubscriptions ----------------------------
(* A small instance of Subscriptions. *)
EXTENDS Subscriptions

CONSTANTS a1, a2, cA, cP

MCThreads == {a1, a2}
MCClients == MCThreads \cup Apps
MCAppOf == [t \in MCThreads |-> 2]
MCChannelOf == [a \in Apps |-> IF a = 1 THEN cP ELSE cA]
MCEventLists == [t \in MCThreads |-> IF t = a1 THEN {{11, 12}, {12, 19}} ELSE {{11}}]
================================================================================
