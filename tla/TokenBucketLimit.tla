-------------------------- MODULE TokenBucketLimit --------------------------
(***************************************************************************)
(* What a token bucket promises, without saying how: a bucket that starts  *)
(* full, gains Refill units in every millisecond until it is full again,   *)
(* and pays Cost units for an admission.  RedisLimiter, which only refills *)
(* when asked and lets idle buckets expire, implements it.                 *)
(***************************************************************************)
EXTENDS Integers

CONSTANTS
  Call,                   \* the calls that ask for a decision
  Full, Refill, Cost,     \* units: ceiling, gain per millisecond, price
  Gated                   \* TRUE when another limit may deny as well

VARIABLES level, verdict

vars == <<level, verdict>>

Init ==
  /\ level = Full
  /\ verdict = [c \in Call |-> "none"]

Allow(c) ==
  /\ verdict[c] = "none"
  /\ level >= Cost
  /\ level' = level - Cost
  /\ verdict' = [verdict EXCEPT ![c] = "allowed"]

\* Deny c, for lack of tokens and, unless another limit is at work, only for that.
Deny(c) ==
  /\ verdict[c] = "none"
  /\ Gated \/ level < Cost
  /\ verdict' = [verdict EXCEPT ![c] = "denied"]
  /\ UNCHANGED level

\* The verdict is delivered or lost.
Release(c) ==
  /\ verdict' = [verdict EXCEPT ![c] = "none"]
  /\ UNCHANGED level

Tick ==
  /\ level' = IF level + Refill <= Full THEN level + Refill ELSE Full
  /\ UNCHANGED verdict

Next == Tick \/ \E c \in Call : Allow(c) \/ Deny(c) \/ Release(c)

Spec == Init /\ [][Next]_vars
=============================================================================
