------------------------------ MODULE Limiter ------------------------------
(***************************************************************************)
(* The Limiter facade (src/src/core/limiter.js) of one node, with its      *)
(* circuit breaker, while requests overlap.                                *)
(*                                                                         *)
(* check runs up to its await in one step of the event loop: it asks the   *)
(* breaker and either sends the command or decides locally.  The code      *)
(* after the await runs in a later step: onSuccess, or onFailure followed  *)
(* by the fallback.  The node has one connection, so replies and errors    *)
(* come back in the order in which the commands were sent.  A rule that    *)
(* normalizeRule refuses never reaches the connection: its check rejects   *)
(* as soon as the event loop gets to it, and lands in the same catch.      *)
(*                                                                         *)
(* Redis is external: up, it answers; down, the client gives up on what is *)
(* outstanding (maxRetriesPerRequest).                                     *)
(***************************************************************************)
EXTENDS CircuitBreaker, Sequences

CONSTANTS
  MaxAwaiting,     \* bound: commands outstanding at once
  BadRules         \* TRUE: some route's rule is one RuleSchema refuses

ASSUME LimiterAssumption == MaxAwaiting \in Nat \ {0} /\ BadRules \in BOOLEAN

VARIABLES
  breaker,
  awaiting,        \* the outstanding commands, oldest first: the breaker's
                   \* state when each was sent
  rejected,        \* checks of bad rules whose rejection is yet to be handled
  redisUp,
  \* History variables: nothing in the program reads them.
  run,             \* failures handled since the last success (FailureThreshold
                   \* stands for any larger number)
  quiet,           \* milliseconds since the last of them, up to CooldownMs
  redisErrors      \* whether Redis ever failed a command

vars == <<breaker, awaiting, rejected, redisUp, run, quiet, redisErrors>>

history == <<run, quiet, redisErrors>>

-----------------------------------------------------------------------------

Init ==
  /\ breaker = NewBreaker
  /\ awaiting = <<>>
  /\ rejected = 0
  /\ redisUp \in BOOLEAN
  /\ run = 0 /\ quiet = CooldownMs
  /\ redisErrors = FALSE

\* check, up to its await, when the breaker allows the attempt.
Attempt ==
  /\ AllowsAttempt(breaker)
  /\ Len(awaiting) < MaxAwaiting
  /\ breaker' = AfterAllowsAttempt(breaker)
  /\ awaiting' = Append(awaiting, breaker'.state)
  /\ UNCHANGED <<rejected, redisUp, history>>

\* The same with a rule that normalizeRule refuses.
AttemptBadRule ==
  /\ BadRules
  /\ AllowsAttempt(breaker)
  /\ rejected < MaxAwaiting
  /\ breaker' = AfterAllowsAttempt(breaker)
  /\ rejected' = rejected + 1
  /\ UNCHANGED <<awaiting, redisUp, history>>

\* The reply to the oldest command is handled: onSuccess.
Succeed ==
  /\ awaiting # <<>> /\ redisUp
  /\ breaker' = OnSuccess(breaker)
  /\ awaiting' = Tail(awaiting)
  /\ run' = 0
  /\ UNCHANGED <<rejected, redisUp, quiet, redisErrors>>

\* A failure is handled: onFailure, and the node's fallback decides.
HandleFailure ==
  /\ breaker' = OnFailure(breaker)
  /\ run' = UpTo(FailureThreshold, run + 1)
  /\ quiet' = 0

\* The client has given up on the oldest command.
RedisError ==
  /\ awaiting # <<>> /\ ~redisUp
  /\ HandleFailure
  /\ awaiting' = Tail(awaiting)
  /\ redisErrors' = TRUE
  /\ UNCHANGED <<rejected, redisUp>>

\* Mutant of RejectBadRule: one rejection is handled twice.
RejectsTwice ==
  /\ HandleFailure
  /\ rejected' = rejected - 1
  /\ UNCHANGED <<awaiting, redisUp, redisErrors>>

\* The rejection of a bad rule is handled.
RejectBadRule ==
  /\ rejected > 0
  /\ HandleFailure
  /\ rejected' = rejected - 1
  /\ UNCHANGED <<awaiting, redisUp, redisErrors>>

\* A millisecond passes on the node's clock.
Tick ==
  /\ breaker' = Waits(breaker)
  /\ quiet' = UpTo(CooldownMs, quiet + 1)
  /\ UNCHANGED <<awaiting, rejected, redisUp, run, redisErrors>>

\* Redis goes down or comes back.
RedisChanges ==
  /\ redisUp' = ~redisUp
  /\ UNCHANGED <<breaker, awaiting, rejected, history>>

Next ==
  \/ Attempt \/ AttemptBadRule
  \/ Succeed \/ RedisError \/ RejectBadRule
  \/ Tick \/ RedisChanges

Spec == Init /\ [][Next]_vars

\* Requests keep arriving, time passes and the event loop handles what the
\* client reports.  Redis promises nothing.
FairSpec ==
  /\ Spec
  /\ WF_vars(Attempt) /\ WF_vars(Tick)
  /\ WF_vars(Succeed) /\ WF_vars(RedisError) /\ WF_vars(RejectBadRule)

-----------------------------------------------------------------------------
(* Properties *)

\* Types of the breaker and of what the node has outstanding (circuitBreaker.js:11-18).
TypeOK ==
  /\ breaker \in Breaker
  /\ awaiting \in Seq(BreakerState)
  /\ rejected \in 0 .. MaxAwaiting
  /\ redisUp \in BOOLEAN
  /\ run \in 0 .. FailureThreshold /\ quiet \in 0 .. CooldownMs
  /\ redisErrors \in BOOLEAN

\* The failures speak against Redis: at least failureThreshold in a row, the last of
\* them less than cooldownMs ago.
Tripped == run >= FailureThreshold /\ quiet < CooldownMs

\* A request that went out as a trial has not been handled yet.
TrialOut == rejected > 0 \/ \E i \in DOMAIN awaiting : awaiting[i] = "half_open"

\* "After failureThreshold consecutive failures it opens and stops attempting for
\* cooldownMs" (circuitBreaker.js:4-6), however requests overlap: while the failures
\* speak against Redis no request is sent; and requests are only kept back within
\* cooldownMs of a failure, or while a trial is out.
StaysAway ==
  /\ Tripped => ~AllowsAttempt(breaker)
  /\ ~AllowsAttempt(breaker) => quiet < CooldownMs \/ TrialOut

\* "Success closes it, failure re-opens it" (circuitBreaker.js:7-8): half-open lasts
\* only until the trial is handled, whatever was answered or rejected before it.
TrialIsOut == breaker.state = "half_open" => TrialOut

\* "After failureThreshold consecutive failures it opens" (circuitBreaker.js:4-5), not
\* after fewer and not after as many with a success among them.
OpensAtThreshold ==
  [][breaker.state = "closed" /\ breaker'.state # "closed" => run' >= FailureThreshold]_vars

\* Half-open "allows a single trial" (circuitBreaker.js:7).
SingleTrial ==
  breaker.state = "half_open" =>
    \A i, j \in DOMAIN awaiting :
      awaiting[i] = "half_open" /\ awaiting[j] = "half_open" => i = j

\* An open breaker "stops attempting for cooldownMs" (circuitBreaker.js:5): it is
\* not closed again before the cooldown is over.
OpenLastsCooldown ==
  [][breaker.state = "open" /\ breaker.waited < CooldownMs => breaker'.state = "open"]_vars

\* The node degrades "on Redis failure" (limiter.js:8-14): with Redis up, and no
\* command that it ever failed, the breaker is closed.
DegradesOnlyForRedis == redisUp /\ ~redisErrors => breaker.state = "closed"

\* Once Redis stays up and no bad rule is presented any more, the node returns to
\* Redis for good, whatever was outstanding (circuitBreaker.js:7-8, 23-32).
Recovers == <>[](redisUp /\ rejected = 0) => <>[](breaker.state = "closed")

=============================================================================
