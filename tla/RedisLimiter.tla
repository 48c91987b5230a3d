---------------------------- MODULE RedisLimiter ----------------------------
(***************************************************************************)
(* RedisLimiter.check (src/src/core/redisLimiter.js) run by any number of  *)
(* nodes against one Redis, for one key.                                   *)
(*                                                                         *)
(* A call builds its script and arguments, its own unique id among them,   *)
(* and awaits the reply.  Redis executes the command as one atomic step,   *)
(* at Redis's own time.  The connection may drop while the command is out: *)
(* ioredis sends it again, with the same arguments, once it has            *)
(* reconnected, or gives up with an error (maxRetriesPerRequest, set in    *)
(* store.js).  Nothing tells a client whether a command that was lost ran. *)
(*                                                                         *)
(* Calls of different nodes travel on different connections, so commands   *)
(* reach Redis in any order.                                               *)
(***************************************************************************)
EXTENDS RedisScripts

CONSTANTS
  Call,          \* calls of check(key, rule), by any node
  Rules,         \* the rules presented for this key
  MaxTime,       \* bound: the clock stops here
  MaxResends     \* bound: how often one command is sent again

ASSUME RulesAssumption ==
  /\ Rules \subseteq RuleSchema
  /\ Rules # {}
  /\ TokenUnit \in Nat \ {0}
  /\ \A r \in Rules : TokenUnit % r.windowMs = 0

ASSUME BoundsAssumption == MaxTime \in Nat /\ MaxResends \in Nat

VARIABLES
  now,           \* Redis's TIME in milliseconds
  tb, sw,        \* what Redis holds for the key
  call,          \* the state of every call
  \* History variables: nothing in the program reads them.
  admitted,      \* the entries of every execution that allowed its call
  spent          \* spent[s]: token units charged at or after instant s

vars == <<now, tb, sw, call, admitted, spent>>

UsesBucket(r) == r.strategy \in {"token_bucket", "hybrid"}
UsesWindow(r) == r.strategy \in {"sliding_window", "hybrid"}

AnyRule == CHOOSE r \in Rules : TRUE

\* A call at rest; whatever it held is gone.
AtRest(pc) == [pc |-> pc, rule |-> AnyRule, resends |-> 0]

-----------------------------------------------------------------------------

Init ==
  /\ now = 0
  /\ tb = NoBucket /\ sw = NoWindow
  /\ call = [c \in Call |-> AtRest("idle")]
  /\ admitted = {}
  /\ spent = [s \in 0 .. MaxTime |-> 0]

\* A node calls check: the command leaves with the rule resolved for it.
Send(c, r) ==
  /\ call[c].pc = "idle"
  /\ call' = [call EXCEPT ![c] = [pc |-> "sent", rule |-> r, resends |-> 0]]
  /\ UNCHANGED <<now, tb, sw, admitted, spent>>

\* Redis executes the command; pc holds its verdict until the reply is read.
Exec(c) ==
  LET r   == call[c].rule
      run == RunScript(tb, sw, r, c, now)
      ok  == run.reply.allowed
  IN /\ call[c].pc = "sent"
     /\ tb' = run.tb
     /\ sw' = run.sw
     /\ call' = [call EXCEPT ![c].pc = IF ok THEN "allowed" ELSE "denied"]
     /\ admitted' = IF ok /\ UsesWindow(r) THEN ZAdd(admitted, c, r, now)
                    ELSE admitted
     /\ spent' = [s \in 0 .. MaxTime |->
                    spent[s] + (IF ok /\ UsesBucket(r) /\ s <= now
                                THEN CostUnits(r) ELSE 0)]
     /\ UNCHANGED now

\* The reply arrives and check returns its decision.
Answer(c) ==
  /\ call[c].pc \in {"allowed", "denied"}
  /\ call' = [call EXCEPT ![c] = AtRest("answered")]
  /\ UNCHANGED <<now, tb, sw, admitted, spent>>

\* Mutant of Resend: maxRetriesPerRequest is not honoured.
ResendForever(c) ==
  /\ call[c].pc \in {"allowed", "denied"}
  /\ call' = [call EXCEPT ![c] = [pc |-> "sent", rule |-> @.rule,
                                 resends |-> @.resends + 1]]
  /\ UNCHANGED <<now, tb, sw, admitted, spent>>

\* The connection drops after the execution, before the reply: sent again.
Resend(c) ==
  /\ call[c].pc \in {"allowed", "denied"}
  /\ call[c].resends < MaxResends
  /\ call' = [call EXCEPT ![c] = [pc |-> "sent", rule |-> @.rule,
                                 resends |-> @.resends + 1]]
  /\ UNCHANGED <<now, tb, sw, admitted, spent>>

\* The client gives up on the command, executed or not, and check throws.
Fail(c) ==
  /\ call[c].pc \in {"sent", "allowed", "denied"}
  /\ call' = [call EXCEPT ![c] = AtRest("failed")]
  /\ UNCHANGED <<now, tb, sw, admitted, spent>>

Tick ==
  /\ now < MaxTime
  /\ now' = now + 1
  /\ UNCHANGED <<tb, sw, call, admitted, spent>>

Next ==
  \/ Tick
  \/ \E c \in Call :
       \/ \E r \in Rules : Send(c, r)
       \/ Exec(c)
       \/ Answer(c)
       \/ Resend(c)
       \/ Fail(c)

Spec == Init /\ [][Next]_vars

-----------------------------------------------------------------------------
(* Properties *)

CallState ==
  [pc : {"idle", "sent", "allowed", "denied", "answered", "failed"},
   rule : Rules, resends : 0 .. MaxResends]

Entry == [id : Call, n : Nat, score : 0 .. MaxTime]

\* Types of what Redis, the calls and the histories hold: the bucket never goes
\* below zero and a command is sent again at most maxRetriesPerRequest times
\* (tokenBucket.lua:31-42, store.js:22).
TypeOK ==
  /\ now \in 0 .. MaxTime
  /\ tb \in [tokens : Nat, ts : 0 .. MaxTime, expireAt : Int]
  /\ sw \in [entries : SUBSET Entry, expireAt : Int]
  /\ call \in [Call -> CallState]
  /\ admitted \in SUBSET Entry
  /\ spent \in [0 .. MaxTime -> Nat]

\* Entries whose score lies in the windowMs that end at t.
InWindow(entries, r, t) ==
  {m \in entries : t - r.windowMs < m.score /\ m.score <= t}

\* Zero over-admit (docs/architecture.md "Concurrency / over-admit race"):
\* whatever the nodes, the order of their calls and the lost replies, no window
\* of windowMs, past or present, ever holds more admitted cost than the largest
\* limit a rule gives.
NoOverAdmit ==
  \A t \in 0 .. MaxTime : \A r \in Rules : UsesWindow(r) =>
    \E q \in Rules : Cardinality(InWindow(admitted, r, t)) <= q.limit

\* "It is exact rather than approximate" (slidingWindow.lua:4-5): what Redis would
\* count for a rule is precisely what was admitted in the window now ending, so
\* nothing that counts was evicted, overwritten or expired.
LogIsExact ==
  \A r \in Rules : UsesWindow(r) =>
    Kept(sw, r, now) = {m \in admitted : m.score > now - r.windowMs}

\* The bucket's promise (tokenBucket.lua:1-3): from any instant s to now no more
\* is charged than one full bucket and what the refill rate adds meanwhile, even
\* when the key expired in between and came back full.
SpendBound ==
  \E r \in Rules : \A s \in 0 .. now :
    spent[s] <= CapacityUnits(r) + (now - s) * RefillPerMs(r)

\* retryAfterMs is "when denied, ms until a retry could succeed"
\* (redisLimiter.js:10): whatever Redis holds, a call that is denied now and
\* tried again after retryAfterMs, with no other call meanwhile, is admitted, and
\* it is not admitted any sooner.
RetryAfterExact ==
  \A r \in Rules :
    LET first     == RunScript(tb, sw, r, "first", now)
        Retry(ms) == RunScript(first.tb, first.sw, r, "retry", now + ms).reply
    IN ~first.reply.allowed =>
         /\ Retry(first.reply.retryAfterMs).allowed
         /\ \A ms \in 0 .. (first.reply.retryAfterMs - 1) : ~Retry(ms).allowed

\* `remaining` is never too optimistic (redisLimiter.js:8): when the reply to a
\* call leaves enough for one more, that one, made at once, is admitted.
RemainingIsHonest ==
  \A r \in Rules :
    LET first == RunScript(tb, sw, r, "first", now)
    IN first.reply.remaining >= r.cost =>
         RunScript(first.tb, first.sw, r, "next", now).reply.allowed

\* resetMs is "ms until the window/bucket fully resets" (redisLimiter.js:11): a
\* call made once it has passed, with no other call meanwhile, finds the whole
\* budget.
ResetIsFull ==
  \A r \in Rules :
    LET first == RunScript(tb, sw, r, "first", now)
        later == RunScript(first.tb, first.sw, r, "later", now + first.reply.resetMs)
    IN later.reply.remaining =
         RunScript(NoBucket, NoWindow, r, "later", now).reply.remaining

\* Hybrid's claim that its "two halves can never drift out of sync"
\* (hybrid.lua:2-4): what the bucket was charged is what the window logged.
HalvesInSync ==
  (\A r \in Rules : r.strategy = "hybrid") =>
    spent[0] = Cardinality(admitted) * TokenUnit

-----------------------------------------------------------------------------
(* The abstract limits this implements *)

Verdict == [c \in Call |->
              IF call[c].pc \in {"allowed", "denied"} THEN call[c].pc ELSE "none"]

\* The trimmed and expiring sorted set decides as the full log would: nothing
\* that still counts is ever evicted, and a denial always has a reason.
Window == INSTANCE SlidingWindowLimit
  WITH log <- admitted, verdict <- Verdict,
       Gated <- \E r \in Rules : r.strategy = "hybrid"

ImplementsWindow == Window!Spec

\* The hash refilled on demand and expiring when idle decides as a bucket that
\* fills every millisecond would (for one rule).
Bucket == INSTANCE TokenBucketLimit
  WITH level <- Refilled(tb, AnyRule, now), verdict <- Verdict,
       Full <- CapacityUnits(AnyRule), Refill <- RefillPerMs(AnyRule),
       Cost <- CostUnits(AnyRule),
       Gated <- \E r \in Rules : r.strategy = "hybrid"

ImplementsBucket == Bucket!Spec

=============================================================================
