--------------------------- MODULE MCRedisLimiter ---------------------------
(* Small instances of RedisLimiter for TLC: the rules of each run. *)
EXTENDS RedisLimiter, TLC

ARule(strategy, limit, windowMs, burst, cost) ==
  [strategy |-> strategy, limit |-> limit, windowMs |-> windowMs,
   burst |-> burst, cost |-> cost]

\* One sliding-window rule.
WindowRules == {ARule("sliding_window", 2, 3, 0, 1)}

\* The limit of the key changes under way, as an adaptive override does.
WindowTwoLimitsRules ==
  {ARule("sliding_window", 2, 3, 0, 1), ARule("sliding_window", 1, 3, 0, 1)}

\* Two routes whose rules share the key but not the window length.
WindowTwoLengthsRules ==
  {ARule("sliding_window", 2, 4, 0, 1), ARule("sliding_window", 2, 1, 0, 1)}

\* A hybrid key whose limit, and with it the refill rate, changes under way.
OverrideRules ==
  {ARule("hybrid", 2, 2, 2, 1), ARule("hybrid", 1, 2, 2, 1)}

\* A bucket of two that gains two tokens every three milliseconds, and a window of two.
HybridRules == {ARule("hybrid", 2, 3, 2, 1)}

CallSymmetry == Permutations(Call)
=============================================================================
