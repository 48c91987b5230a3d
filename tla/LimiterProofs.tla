--------------------------- MODULE LimiterProofs ---------------------------
(***************************************************************************)
(* Limiter keeps its types, stays away from Redis when the failures say    *)
(* so, opens at its threshold and is half-open only for a trial, for every *)
(* FailureThreshold, CooldownMs and MaxAwaiting, with and without bad      *)
(* rules.                                                                  *)
(*                                                                         *)
(* StaysAway is not inductive: it says nothing of the failure count behind *)
(* a closed or half-open breaker.  BreakerTracks adds it.                  *)
(***************************************************************************)
EXTENDS Limiter, TLAPS

\* The breaker's fields against what happened: its count is the run of failures,
\* it left "closed" only at the threshold, and it has been waiting since the
\* last failure (circuitBreaker.js:21-43).
BreakerTracks ==
  /\ breaker.failures = run
  /\ breaker.state = "closed" <=> run < FailureThreshold
  /\ breaker.state = "open" => breaker.waited = quiet
  /\ breaker.state = "half_open" => quiet = CooldownMs

IInv == TypeOK /\ BreakerTracks

USE DEF Breaker, BreakerState

\* A breaker that answers an attempt, a success, a failure or the passing of
\* time is still a breaker (circuitBreaker.js:21-43).
LEMMA BreakerClosed ==
  ASSUME NEW b \in Breaker
  PROVE  /\ AfterAllowsAttempt(b) \in Breaker
         /\ OnSuccess(b) \in Breaker
         /\ OnFailure(b) \in Breaker
         /\ Waits(b) \in Breaker
<1> USE BreakerAssumption
<1>1. PICK s \in BreakerState, f \in 0 .. FailureThreshold, w \in 0 .. CooldownMs :
        b = [state |-> s, failures |-> f, waited |-> w]
  BY Zenon
<1>2. AfterAllowsAttempt(b) \in Breaker
  <2>1. CASE b.state = "open" /\ b.waited >= CooldownMs
    BY <1>1, <2>1 DEF AfterAllowsAttempt
  <2>2. CASE ~(b.state = "open" /\ b.waited >= CooldownMs)
    BY <2>2, Zenon DEF AfterAllowsAttempt
  <2> QED
    BY <2>1, <2>2
<1>3. OnSuccess(b) \in Breaker
  BY <1>1 DEF OnSuccess
<1>4. OnFailure(b) \in Breaker
  <2>1. UpTo(FailureThreshold, f + 1) \in 0 .. FailureThreshold
    BY DEF UpTo
  <2> QED
    BY <1>1, <2>1 DEF OnFailure
<1>5. Waits(b) \in Breaker
  <2>1. UpTo(CooldownMs, w + 1) \in 0 .. CooldownMs
    BY DEF UpTo
  <2> QED
    BY <1>1, <2>1 DEF Waits
<1> QED
  BY <1>2, <1>3, <1>4, <1>5

LEMMA InitIInv == Init => IInv
<1> SUFFICES ASSUME Init PROVE IInv
  OBVIOUS
<1> USE BreakerAssumption, LimiterAssumption DEF Init
<1>1. NewBreaker \in Breaker
  BY DEF NewBreaker
<1>2. awaiting \in Seq(BreakerState)
  OBVIOUS
<1>3. TypeOK
  <2>1. redisUp \in BOOLEAN /\ redisErrors \in BOOLEAN
    BY Zenon
  <2>2. rejected \in 0 .. MaxAwaiting /\ run \in 0 .. FailureThreshold
    OBVIOUS
  <2>3. quiet \in 0 .. CooldownMs
    OBVIOUS
  <2>4. breaker \in Breaker
    BY <1>1, Zenon
  <2> QED
    BY <1>2, <2>1, <2>2, <2>3, <2>4, Zenon DEF TypeOK
<1>4. BreakerTracks
  BY DEF BreakerTracks, NewBreaker
<1> QED
  BY <1>3, <1>4 DEF IInv

LEMMA NextTypeOK == TypeOK /\ [Next]_vars => TypeOK'
<1> SUFFICES ASSUME TypeOK, [Next]_vars PROVE TypeOK'
  OBVIOUS
<1> USE BreakerAssumption, LimiterAssumption, BreakerClosed DEF TypeOK, UpTo, history
<1>1. CASE Attempt
  <2>1. breaker' \in Breaker
    BY <1>1 DEF Attempt
  <2>2. awaiting' \in Seq(BreakerState)
    BY <1>1, <2>1 DEF Attempt
  <2> QED
    BY <1>1, <2>1, <2>2 DEF Attempt
<1>2. CASE AttemptBadRule
  BY <1>2 DEF AttemptBadRule
<1>3. CASE Succeed
  BY <1>3 DEF Succeed
<1>4. CASE RedisError
  BY <1>4 DEF RedisError, HandleFailure
<1>5. CASE RejectBadRule
  BY <1>5 DEF RejectBadRule, HandleFailure
<1>6. CASE Tick
  BY <1>6 DEF Tick
<1>7. CASE RedisChanges
  BY <1>7 DEF RedisChanges
<1>8. CASE UNCHANGED vars
  BY <1>8 DEF vars
<1> QED
  BY <1>1, <1>2, <1>3, <1>4, <1>5, <1>6, <1>7, <1>8 DEF Next

LEMMA NextTracks == IInv /\ [Next]_vars => BreakerTracks'
<1> SUFFICES ASSUME TypeOK, BreakerTracks, [Next]_vars PROVE BreakerTracks'
  BY DEF IInv
<1> USE BreakerAssumption DEF TypeOK, BreakerTracks, UpTo, history
<1>1. CASE Attempt
  BY <1>1 DEF Attempt, AllowsAttempt, AfterAllowsAttempt
<1>2. CASE AttemptBadRule
  BY <1>2 DEF AttemptBadRule, AllowsAttempt, AfterAllowsAttempt
<1>3. CASE Succeed
  BY <1>3 DEF Succeed, OnSuccess
<1>4. CASE RedisError
  BY <1>4 DEF RedisError, HandleFailure, OnFailure
<1>5. CASE RejectBadRule
  BY <1>5 DEF RejectBadRule, HandleFailure, OnFailure
<1>6. CASE Tick
  BY <1>6 DEF Tick, Waits
<1>7. CASE RedisChanges
  BY <1>7 DEF RedisChanges
<1>8. CASE UNCHANGED vars
  BY <1>8 DEF vars
<1> QED
  BY <1>1, <1>2, <1>3, <1>4, <1>5, <1>6, <1>7, <1>8 DEF Next

LEMMA SpecIInv == Spec => []IInv
<1>1. IInv /\ [Next]_vars => IInv'
  BY NextTypeOK, NextTracks DEF IInv
<1> QED
  BY InitIInv, <1>1, PTL DEF Spec

\* The breaker and what the node has outstanding keep their types
\* (circuitBreaker.js:11-18, limiter.js:38-50).
THEOREM LimiterTypes == Spec => []TypeOK
<1>1. IInv => TypeOK
  BY DEF IInv
<1> QED
  BY SpecIInv, <1>1, PTL

\* While failureThreshold failures in a row are less than cooldownMs ago no request
\* is sent, however requests overlap; and requests are kept back only within cooldownMs
\* of a failure or while a trial is out (circuitBreaker.js:4-8, 21-43).
THEOREM StaysAwayWhenTripped == Spec => []StaysAway
<1>1. IInv => StaysAway
  BY BreakerAssumption
     DEF IInv, TypeOK, BreakerTracks, StaysAway, AllowsAttempt, Tripped
<1> QED
  BY SpecIInv, <1>1, PTL

\* The breaker leaves "closed" only at failureThreshold failures without a success among
\* them, whatever replies and rejections are handled in between (circuitBreaker.js:32-43).
THEOREM OpensOnlyAtThreshold == Spec => OpensAtThreshold
<1> DEFINE A == breaker.state = "closed" /\ breaker'.state # "closed" => run' >= FailureThreshold
<1>1. IInv /\ IInv' => A
  BY BreakerAssumption DEF IInv, TypeOK, BreakerTracks
<1>2. IInv /\ IInv' => [A]_vars
  BY <1>1
<1> QED
  BY SpecIInv, <1>2, PTL DEF OpensAtThreshold

\* Only the handling of a reply or a rejection takes a trial back, and that leaves the
\* breaker closed or open.
LEMMA TrialStep == IInv /\ TrialIsOut /\ [Next]_vars => TrialIsOut'
<1> SUFFICES ASSUME TypeOK, BreakerTracks, TrialIsOut, [Next]_vars, breaker'.state = "half_open"
             PROVE  TrialOut'
  BY DEF IInv, TrialIsOut
<1> USE BreakerAssumption, LimiterAssumption DEF TypeOK
<1>1. CASE Attempt
  <2>1. Len(awaiting) + 1 \in DOMAIN awaiting' /\ awaiting'[Len(awaiting) + 1] = "half_open"
    BY <1>1 DEF Attempt
  <2> QED
    BY <2>1 DEF TrialOut
<1>2. CASE AttemptBadRule
  BY <1>2 DEF AttemptBadRule, TrialOut
<1>3. CASE Succeed
  BY <1>3 DEF Succeed, OnSuccess
<1>4. ASSUME HandleFailure PROVE FALSE
  <2>1. breaker.state # "half_open" /\ breaker' = [breaker EXCEPT !.failures = breaker'.failures]
    BY <1>4, BreakerClosed DEF HandleFailure, OnFailure
  <2> QED
    BY <2>1
<1>5. CASE RedisError \/ RejectBadRule
  BY <1>4, <1>5 DEF RedisError, RejectBadRule
\* What stays half-open had its trial out, and nothing was handled.
<1>6. CASE breaker.state = "half_open" /\ UNCHANGED <<awaiting, rejected>>
  BY <1>6 DEF TrialIsOut, TrialOut
<1>7. CASE Tick
  BY <1>6, <1>7 DEF Tick, Waits
<1>8. CASE RedisChanges \/ UNCHANGED vars
  BY <1>6, <1>8 DEF RedisChanges, vars
<1> QED
  BY <1>1, <1>2, <1>3, <1>5, <1>7, <1>8 DEF Next

\* The breaker is half-open only until a trial is handled: none that failed, succeeded
\* or was rejected leaves it there (circuitBreaker.js:7-8, 32-43).
THEOREM HalfOpenForATrial == Spec => []TrialIsOut
<1>1. Init => TrialIsOut
  BY DEF Init, NewBreaker, TrialIsOut
<1> QED
  BY <1>1, SpecIInv, TrialStep, PTL DEF Spec
=============================================================================
