-------------------------------- MODULE MCFleet --------------------------------
(* Small instances of Fleet for TLC. *)
EXTENDS Fleet, TLC

\* One request in two milliseconds, by bucket and window.
OnePerTwo ==
  [strategy |-> "hybrid", limit |-> 1, windowMs |-> 2, burst |-> 1, cost |-> 1]

FleetSymmetry == Permutations(Node) \cup Permutations(Request)
================================================================================
