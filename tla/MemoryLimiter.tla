--------------------------- MODULE MemoryLimiter ---------------------------
(***************************************************************************)
(* The in-process limiter (src/src/core/memoryLimiter.js) as functions of  *)
(* what its two Maps hold for one key, the rule and the process's clock.   *)
(*                                                                         *)
(*   b     the bucket: [tokens, ts] in units, or NoEntry                   *)
(*   hits  the window: the times of admissions, oldest first               *)
(*                                                                         *)
(* Nothing here expires: a Map entry stays until the process ends.         *)
(***************************************************************************)
EXTENDS Rule, Sequences

NoEntry == [tokens |-> -1, ts |-> 0]

Decision(allowed, remaining, retryAfterMs, resetMs) ==
  [allowed |-> allowed, remaining |-> remaining,
   retryAfterMs |-> retryAfterMs, resetMs |-> resetMs]

\* Units in the bucket now.
TopUp(b, r, now) ==
  IF b = NoEntry THEN CapacityUnits(r)
  ELSE Smaller(CapacityUnits(r), b.tokens + Larger(0, now - b.ts) * RefillPerMs(r))

\* Milliseconds until `units` become `wanted`: Math.ceil of the quotient.
MsUntil(units, wanted, r) == CeilDiv(wanted - units, RefillPerMs(r))

\* Mutant of LiveHits: keeps the hit that is exactly windowMs old.
LiveHitsInclusive(hits, r, now) ==
  LET dead == CHOOSE d \in 0 .. Len(hits) :
                \A i \in DOMAIN hits : hits[i] >= now - r.windowMs <=> i > d
  IN SubSeq(hits, dead + 1, Len(hits))

\* The hits still inside the window.  Hits are pushed as time passes, so what the
\* filter drops is the first ones; out of order, the choice would not exist.
LiveHits(hits, r, now) ==
  LET dead == CHOOSE d \in 0 .. Len(hits) :
                \A i \in DOMAIN hits : hits[i] > now - r.windowMs <=> i > d
  IN SubSeq(hits, dead + 1, Len(hits))

\* The hits after `cost` more at this instant.
Pushed(hits, r, now) == hits \o [i \in 1 .. r.cost |-> now]

Left(hits, r) == Larger(0, r.limit - Len(hits))

-----------------------------------------------------------------------------

_tokenBucket(b, hits, r, now) ==
  LET full    == TopUp(b, r, now)
      allowed == full >= CostUnits(r)
      tokens  == IF allowed THEN full - CostUnits(r) ELSE full
  IN [b |-> [tokens |-> tokens, ts |-> now], hits |-> hits,
      reply |-> Decision(allowed, tokens \div TokenUnit,
                         IF allowed THEN 0 ELSE MsUntil(tokens, CostUnits(r), r),
                         MsUntil(tokens, CapacityUnits(r), r))]

_slidingWindow(b, hits, r, now) ==
  LET live    == LiveHits(hits, r, now)
      allowed == Len(live) + r.cost <= r.limit
      after   == IF allowed THEN Pushed(live, r, now) ELSE live
      reset   == IF after = <<>> THEN r.windowMs
                 ELSE Larger(0, Head(after) + r.windowMs - now)
  IN [b |-> b, hits |-> after,
      reply |-> Decision(allowed, Left(after, r),
                         IF allowed \/ after = <<>> THEN 0 ELSE reset, reset)]

hybrid(b, hits, r, now) ==
  LET full      == TopUp(b, r, now)
      tbAllowed == full >= CostUnits(r)
      live      == LiveHits(hits, r, now)
      swAllowed == Len(live) + r.cost <= r.limit
      allowed   == tbAllowed /\ swAllowed
      tokens    == IF allowed THEN full - CostUnits(r) ELSE full
      after     == IF allowed THEN Pushed(live, r, now) ELSE live
      tbRetry   == IF tbAllowed THEN 0 ELSE MsUntil(tokens, CostUnits(r), r)
      swRetry   == IF swAllowed \/ after = <<>> THEN 0
                   ELSE Head(after) + r.windowMs - now
  IN [b |-> [tokens |-> tokens, ts |-> now], hits |-> after,
      reply |-> Decision(allowed, Smaller(tokens \div TokenUnit, Left(after, r)),
                         IF allowed THEN 0 ELSE Larger(0, Larger(tbRetry, swRetry)),
                         r.windowMs)]

\* MemoryLimiter.check.
check(b, hits, r, now) ==
  CASE r.strategy = "token_bucket"   -> _tokenBucket(b, hits, r, now)
    [] r.strategy = "sliding_window" -> _slidingWindow(b, hits, r, now)
    [] r.strategy = "hybrid"         -> hybrid(b, hits, r, now)
=============================================================================
