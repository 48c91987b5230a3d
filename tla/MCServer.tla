------------------------------- MODULE MCServer -------------------------------
(* A small instance of Server for TLC: lanes of different pace, as in LANES. *)
EXTENDS Server

TwoLanes == {"normal", "attacker"}
Intervals == [normal |-> 1, attacker |-> 2]
===============================================================================
