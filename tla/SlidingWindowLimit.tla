------------------------- MODULE SlidingWindowLimit -------------------------
(***************************************************************************)
(* What a sliding-window limit promises, without saying how: a log of      *)
(* every admission that nothing is ever removed from, and a decision that  *)
(* looks at the part of the log inside the window.  RedisLimiter, which    *)
(* trims and expires its log, implements it.                               *)
(***************************************************************************)
EXTENDS Integers, FiniteSets

CONSTANTS
  Call,          \* the calls that ask for a decision
  Rules,         \* the rules they may present
  Gated          \* TRUE when another limit may deny as well

VARIABLES now, log, verdict

vars == <<now, log, verdict>>

Init ==
  /\ now = 0
  /\ log = {}
  /\ verdict = [c \in Call |-> "none"]

Fits(r) == Cardinality({m \in log : m.score > now - r.windowMs}) + r.cost <= r.limit

\* Admit c: its cost is logged now.  A call decided once more moves its entries.
Allow(c, r) ==
  /\ verdict[c] = "none"
  /\ Fits(r)
  /\ log' = {m \in log : m.id # c} \cup [id : {c}, n : 1 .. r.cost, score : {now}]
  /\ verdict' = [verdict EXCEPT ![c] = "allowed"]
  /\ UNCHANGED now

\* Deny c, for lack of room and, unless another limit is at work, only for that.
Deny(c, r) ==
  /\ verdict[c] = "none"
  /\ Gated \/ ~Fits(r)
  /\ verdict' = [verdict EXCEPT ![c] = "denied"]
  /\ UNCHANGED <<now, log>>

\* The verdict is delivered or lost.
Release(c) ==
  /\ verdict' = [verdict EXCEPT ![c] = "none"]
  /\ UNCHANGED <<now, log>>

Tick == now' = now + 1 /\ UNCHANGED <<log, verdict>>

Next ==
  \/ Tick
  \/ \E c \in Call : Release(c) \/ \E r \in Rules : Allow(c, r) \/ Deny(c, r)

Spec == Init /\ [][Next]_vars
=============================================================================
