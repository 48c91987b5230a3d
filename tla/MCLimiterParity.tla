-------------------------- MODULE MCLimiterParity --------------------------
(* Small instances of LimiterParity for TLC: the rules of each run. *)
EXTENDS LimiterParity

ARule(strategy, limit, windowMs, burst, cost) ==
  [strategy |-> strategy, limit |-> limit, windowMs |-> windowMs,
   burst |-> burst, cost |-> cost]

\* One key under every strategy, at two prices, two limits and two refill rates.
MixedRules ==
  {ARule("token_bucket", 2, 3, 2, 1), ARule("hybrid", 2, 3, 2, 1),
   ARule("hybrid", 2, 3, 2, 2), ARule("hybrid", 1, 3, 2, 1),
   ARule("sliding_window", 3, 3, 0, 1)}

\* Two routes share the key with windows of different lengths.
TwoLengthsRules ==
  {ARule("sliding_window", 2, 4, 0, 1), ARule("sliding_window", 2, 1, 0, 1)}
=============================================================================
