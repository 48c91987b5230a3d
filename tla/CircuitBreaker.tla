--------------------------- MODULE CircuitBreaker ---------------------------
(***************************************************************************)
(* The circuit breaker (src/src/core/circuitBreaker.js) as functions of    *)
(* its record [state, failures, waited].                                   *)
(*                                                                         *)
(* The code compares its failure count only with failureThreshold and the  *)
(* time since openedAt only with cooldownMs, so `failures` stops counting  *)
(* at FailureThreshold and `waited` (now - openedAt) at CooldownMs.        *)
(***************************************************************************)
EXTENDS Integers

CONSTANTS FailureThreshold, CooldownMs

ASSUME BreakerAssumption ==
  FailureThreshold \in Nat \ {0} /\ CooldownMs \in Nat \ {0}

BreakerState == {"closed", "open", "half_open"}

Breaker ==
  [state : BreakerState, failures : 0 .. FailureThreshold, waited : 0 .. CooldownMs]

UpTo(bound, n) == IF n <= bound THEN n ELSE bound

\* A new breaker: closed, and openedAt is the epoch.
NewBreaker == [state |-> "closed", failures |-> 0, waited |-> CooldownMs]

\* Mutant of AllowsAttempt: stays away a millisecond longer than cooldownMs.
AllowsLate(b) == b.state = "open" => b.waited > CooldownMs

\* What allowsAttempt answers.
AllowsAttempt(b) == b.state = "open" => b.waited >= CooldownMs

\* Mutant of AfterAllowsAttempt: leaves a state that no method looks for.
HalfOpenMisspelt(b) ==
  IF b.state = "open" /\ b.waited >= CooldownMs
  THEN [b EXCEPT !.state = "half-open"] ELSE b

\* What it leaves behind: an open breaker that has cooled down is half-open.
AfterAllowsAttempt(b) ==
  IF b.state = "open" /\ b.waited >= CooldownMs
  THEN [b EXCEPT !.state = "half_open"] ELSE b

\* Mutant of OnSuccess: the count is reset but the breaker is not closed.
StaysHalfOpen(b) == [b EXCEPT !.failures = 0]

\* Mutant of OnSuccess: the failures before it still count.
KeepsCount(b) == [b EXCEPT !.state = "closed"]

OnSuccess(b) == [state |-> "closed", failures |-> 0, waited |-> b.waited]

\* Mutant of OnFailure: a breaker that is already open keeps its openedAt.
OpensOnce(b) ==
  LET failures == UpTo(FailureThreshold, b.failures + 1)
  IN IF b.state # "open" /\ failures >= FailureThreshold
     THEN [state |-> "open", failures |-> failures, waited |-> 0]
     ELSE [b EXCEPT !.failures = failures]

OnFailure(b) ==
  LET failures == UpTo(FailureThreshold, b.failures + 1)
  IN IF b.state = "half_open" \/ failures >= FailureThreshold
     THEN [state |-> "open", failures |-> failures, waited |-> 0]
     ELSE [b EXCEPT !.failures = failures]

\* A millisecond passes.
Waits(b) == [b EXCEPT !.waited = UpTo(CooldownMs, @ + 1)]
=============================================================================
