---------------------------- MODULE RedisScripts ----------------------------
(***************************************************************************)
(* The three Lua scripts (src/src/core/scripts/*.lua) as functions of what *)
(* Redis holds for one key, the rule and Redis's own clock.  Redis runs a  *)
(* script as one atomic step; RedisLimiter makes the step an action.       *)
(*                                                                         *)
(*   tb  the hash behind "<key>:tb":  [tokens, ts, expireAt]               *)
(*   sw  the sorted set behind "<key>:sw":  [entries, expireAt], where an  *)
(*       entry [id, n, score] is the member "<id>:<n>" with that score     *)
(*                                                                         *)
(* expireAt is the instant PEXPIRE sets.  A key is there as long as the    *)
(* clock has not passed it; -1 is a key that was never written.            *)
(***************************************************************************)
EXTENDS Rule, FiniteSets

Present(obj, now) == now <= obj.expireAt

NoBucket == [tokens |-> 0, ts |-> 0, expireAt |-> -1]
NoWindow == [entries |-> {}, expireAt |-> -1]

Reply(allowed, remaining, retryAfterMs, resetMs) ==
  [allowed |-> allowed, remaining |-> remaining,
   retryAfterMs |-> retryAfterMs, resetMs |-> resetMs]

-----------------------------------------------------------------------------
(* Token bucket half *)

\* Mutant of Refilled: the refill is not clipped at the burst ceiling.
RefilledUnclipped(tb, r, now) ==
  IF Present(tb, now)
  THEN tb.tokens + Larger(0, now - tb.ts) * RefillPerMs(r)
  ELSE CapacityUnits(r)

\* Units in the bucket at `now`, refilled since ts; a missing bucket is full.
Refilled(tb, r, now) ==
  IF Present(tb, now)
  THEN Smaller(CapacityUnits(r),
               tb.tokens + Larger(0, now - tb.ts) * RefillPerMs(r))
  ELSE CapacityUnits(r)

\* HSET tokens and ts, PEXPIRE ttlMs.
SavedBucket(units, r, now) ==
  [tokens |-> units, ts |-> now, expireAt |-> now + TtlMs(r)]

TokensSuffice(tb, r, now) == Refilled(tb, r, now) >= CostUnits(r)

\* Milliseconds until a bucket holding `units` holds `wanted`, rounded up.
RefillWait(units, wanted, r) == CeilDiv(wanted - units, RefillPerMs(r))

-----------------------------------------------------------------------------
(* Sliding window half *)

\* Mutant of Kept: the entry exactly windowMs old still counts.
KeptInclusive(sw, r, now) ==
  {m \in sw.entries : Present(sw, now) /\ m.score >= now - r.windowMs}

\* What ZREMRANGEBYSCORE 0 (now - windowMs) leaves.
Kept(sw, r, now) ==
  {m \in sw.entries : Present(sw, now) /\ m.score > now - r.windowMs}

\* The members one call adds: its unique id, once per unit of cost.
Logged(id, r, now) == [id : {id}, n : 1 .. r.cost, score : {now}]

\* ZADD of these members to a set: a member already there only moves.
ZAdd(entries, id, r, now) ==
  {m \in entries : m.id # id} \cup Logged(id, r, now)

\* Mutant of WindowFits: asks whether there was room before the call's cost.
WindowFitsOffByOne(sw, r, now) == Cardinality(Kept(sw, r, now)) <= r.limit

WindowFits(sw, r, now) == Cardinality(Kept(sw, r, now)) + r.cost <= r.limit

\* Mutant of WindowLeft: the call's own cost is not subtracted.
WindowLeftBefore(kept, allowed, r) == Larger(0, r.limit - Cardinality(kept))

\* What is left of the limit once the call is decided.
WindowLeft(kept, allowed, r) ==
  Larger(0, r.limit - Cardinality(kept) - (IF allowed THEN r.cost ELSE 0))

\* Mutant of Oldest: the newest entry (ZREVRANGE).
Newest(entries) ==
  CHOOSE s \in {m.score : m \in entries} : \A m \in entries : s >= m.score

\* Score of the oldest entry (ZRANGE 0 0 WITHSCORES).
Oldest(entries) ==
  CHOOSE s \in {m.score : m \in entries} : \A m \in entries : s <= m.score

\* Milliseconds until the oldest entry leaves the window.
OldestLeavesIn(entries, r, now) == Oldest(entries) + r.windowMs - now

-----------------------------------------------------------------------------
(* The scripts.  Each yields the new tb and sw, and the reply. *)

rlTokenBucket(tb, sw, r, id, now) ==
  LET allowed == TokensSuffice(tb, r, now)
      left    == Refilled(tb, r, now) - (IF allowed THEN CostUnits(r) ELSE 0)
  IN [tb |-> SavedBucket(left, r, now), sw |-> sw,
      reply |-> Reply(allowed, left \div TokenUnit,
                      IF allowed THEN 0 ELSE RefillWait(left, CostUnits(r), r),
                      RefillWait(left, CapacityUnits(r), r))]

rlSlidingWindow(tb, sw, r, id, now) ==
  LET kept    == Kept(sw, r, now)
      allowed == WindowFits(sw, r, now)
      entries == IF allowed THEN ZAdd(kept, id, r, now) ELSE kept
      reset   == IF entries = {} THEN r.windowMs
                 ELSE Larger(0, OldestLeavesIn(entries, r, now))
  IN [tb |-> tb, sw |-> [entries |-> entries, expireAt |-> now + r.windowMs],
      reply |-> Reply(allowed, WindowLeft(kept, allowed, r),
                      IF allowed \/ entries = {} THEN 0 ELSE reset, reset)]

rlHybrid(tb, sw, r, id, now) ==
  LET kept      == Kept(sw, r, now)
      tbAllowed == TokensSuffice(tb, r, now)
      swAllowed == WindowFits(sw, r, now)
      allowed   == tbAllowed /\ swAllowed
      left      == Refilled(tb, r, now) - (IF allowed THEN CostUnits(r) ELSE 0)
      entries   == IF allowed THEN ZAdd(kept, id, r, now) ELSE kept
      tbRetry   == IF tbAllowed THEN 0 ELSE RefillWait(left, CostUnits(r), r)
      swRetry   == IF swAllowed \/ entries = {} THEN 0
                   ELSE OldestLeavesIn(entries, r, now)
  IN [tb |-> SavedBucket(left, r, now),
      sw |-> [entries |-> entries, expireAt |-> now + r.windowMs],
      reply |-> Reply(allowed,
                      Smaller(left \div TokenUnit, WindowLeft(kept, allowed, r)),
                      IF allowed THEN 0 ELSE Larger(tbRetry, swRetry),
                      r.windowMs)]

\* RedisLimiter.check's choice of the script for the rule's strategy.
RunScript(tb, sw, r, id, now) ==
  CASE r.strategy = "token_bucket"   -> rlTokenBucket(tb, sw, r, id, now)
    [] r.strategy = "sliding_window" -> rlSlidingWindow(tb, sw, r, id, now)
    [] r.strategy = "hybrid"         -> rlHybrid(tb, sw, r, id, now)

=============================================================================
