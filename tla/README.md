# Adaptive rate limiter: a TLA+ verification project

This directory models the rate limiter of this repository in TLA+, checks the
models with TLC and proves the properties that matter most with TLAPS. It is
about the program's own logic: who is admitted when many nodes decide at once,
what happens when Redis is slow, lost or back, how decisions become rates, and
how rates become limits.

## The system and its parts

| Part | Code | State | Operations |
| --- | --- | --- | --- |
| Rules | `core/rule.js` | none | `RuleSchema`, `normalizeRule` |
| Redis limiter | `core/redisLimiter.js`, `core/scripts/*.lua`, `core/store.js` | per key a hash `:tb` (tokens, ts) and a sorted set `:sw`, both expiring | `check`: one Lua script per strategy |
| Circuit breaker | `core/circuitBreaker.js` | state, failures, openedAt (per process) | `allowsAttempt`, `onSuccess`, `onFailure` |
| Limiter facade | `core/limiter.js` | the breaker | `check`: attempt, else fallback or fail-closed |
| In-process limiter | `core/memoryLimiter.js` | two Maps | the three algorithms again, in JS |
| Event stream | `adaptive/producer.js`, a Redis Stream with one consumer group | entries, last delivered, pending list | `emit`, XREADGROUP, XACK |
| Aggregation | `adaptive/aggregator.js` in `adaptive/worker.js` | counts per key and bucket | `add`, `flushClosed` |
| Detector | `adaptive/detector.js` | EWMA mean and variance per key | `observe` |
| Policy | `adaptive/policy.js` | none | `suggestLimit` |
| Suggestions | `adaptive/suggestionStore.js`, `admin/routes.js` | hash of suggestions, one capped audit list for all keys, in Redis | `set`, `clear`, `get`, `all`; PUT and DELETE by the admin |
| Overrides | `adaptive/overrides.js` | a cache per node | `refresh` on a timer, `effectiveRule` |
| Dashboard hub | `dashboard/hub.js`, `dashboard/routes.js` | feed, pending batch, sockets, timer, rollups | `onEvent`, `addClient`, `removeClient`, `flush`, `closeAll` |
| Demo driver | `demo/driver.js` | an interval per lane, one auto-stop timer | `setLane`, `start`, `stop` |
| Server | `server.js` | whether it is shutting down, the backstop timer | `shutdown`, the `onClose` hook |
| Middleware, admin reads, config, observability, page, scripts | `middleware/`, `admin/routes.js`, `config/`, ... | wiring | none of their own |

How they interact. A request reaches `Limiter.check` through the middleware,
with a key and a rule whose limit `Overrides` may have replaced. The breaker
says whether to try Redis; the script decides atomically; on failure the node
decides by itself. The decision goes to the hub and, unawaited, to the stream.
The worker, another process, turns the stream into rates per bucket, asks the
detector and the policy, and writes a suggestion and an audit entry; each
node's cache picks the suggestion up some seconds later. The admin writes the
same suggestions by hand. An application process also holds the hub, the demo
driver and the refresh timer of its cache, and stops them when it is told to go.

What is hard here: commands of many nodes interleave at Redis and may be
executed though their reply is lost (and are then sent again); replies reach
the breaker long after the state they were sent in; keys expire; the same
algorithm is written twice; nodes lose Redis one by one
and count for themselves meanwhile; Redis may lose its data under everybody; the
worker may stop, or any of its awaits fail, at every step; worker and admin write
over each other; caches are stale; shutdown waits for others that may never
answer. What makes each part correct:

* Redis limiter: no window ever holds more than the limit; a bucket never pays
  out more than its ceiling and its refill; what a reply promises
  (`remaining`, `retryAfterMs`) comes true.
* Breaker: it opens at the threshold and not before, Redis is left alone while the
  recent failures speak against it, half-open ends with its trial, and a node comes
  back to Redis for good.
* Fleet: whoever decides keeps the limit; failing closed keeps it for all
  together; nobody decides alone but in an outage.
* In-process limiter: gives the replies that Redis would.
* Stream and aggregation: nothing is counted twice; nothing is lost but by a fault.
* Policy, suggestions, overrides: limits in force are bounded, moves go the way
  they say, the entries of the audit trail join up, limits recover, caches catch up.
* Detector: the baseline is what was accepted and nothing else; a worse rate is
  not judged better; steady traffic is organic.
* Hub: who watches sees every decision of the feed, and its sums; timers run for
  somebody.
* Demo driver: stops by itself, on time.
* Server: everything that uses Redis or a socket is quiet before the connection
  is closed; the process ends by its backstop, whoever hangs.

`PROJECT.json` lists the hazards of the code line by line, with the property
that covers each.

## The modules

```
Rule ─ RedisScripts ─ RedisLimiter ── RedisLimiterProofs
     │              │      │ refines
     │              │      └─ SlidingWindowLimit, TokenBucketLimit
     │              └ Fleet ─ FleetProofs      (also on CircuitBreaker, MemoryLimiter)
     └ MemoryLimiter ─ LimiterParity ─ ParityProofs      (also on RedisScripts)
CircuitBreaker ─ Limiter ─ LimiterProofs
EventPipeline ─ PipelineProofs
Detector ─ DetectorProofs
Policy ─ AdaptiveControl ─ ControlProofs
DashboardHub ┬ Server ─ ProcessProofs
DemoDriver   ┘
```

**Rule** is `normalizeRule`. The program counts tokens in doubles; here one
token is `TokenUnit` units, a multiple of every `windowMs`, so that the refill
per millisecond is a whole number of units and the arithmetic is exact.

**RedisScripts** is the three Lua scripts as functions of what Redis holds for
one key, the rule, the call's unique id and Redis's clock. Each yields the new
hash, the new set and the reply. `expireAt` is the instant PEXPIRE sets. An
entry of the set is a pair of id and number, as the scripts build members, so
that a command that runs twice moves its entries and does not add any.

**RedisLimiter** runs `check` for any number of calls of any nodes against one
key: `Send`, `Exec` (the script, one atomic step), `Answer`, `Resend` (the
reply is lost and ioredis sends the same arguments again), `Fail`, `Tick`. Calls
of different nodes reach Redis in any order. `admitted` and `spent` record what
was let through; nothing in the program reads them.

**SlidingWindowLimit** and **TokenBucketLimit** are what the two limits promise:
a log nothing is ever removed from, a bucket that fills every millisecond.
`RedisLimiter` implements both: the window with `admitted` as the log, the
bucket with the level a refill would find now. A denial of the
abstract limit needs a reason, so the refinement also says that nobody is
denied for nothing (with the hybrid strategy either limit may deny, `Gated`).

**CircuitBreaker** is the class as functions of its record; **Limiter** is
`check` of one node, split where the code awaits: requests overlap, one
connection answers in order, Redis goes up and down, and a rule that
`normalizeRule` refuses rejects on its own and lands in the same `catch`.
`run` and `quiet` record the failures in a row and the time since the last,
which is what the breaker ought to go by. Where the comment on the class and the code
differ, on how many trials there are and whether a late success ends the cooldown,
`StaysAway` allows both; `SingleTrial` and `OpenLastsCooldown` state the comment
and are found violated (see below).

**Fleet** puts the pieces together: on every node `check` with its breaker, at
one Redis with the scripts, and the fallback in the node's own memory. A request
is `Attempt`ed (or not: `Skip`), executed (`Exec`), and answered (`Succeed`) or
given up by the client (`RedisError`). Each node finds Redis up, down or silent
for itself; nodes restart and lose their breaker and their memory; Redis loses
its data and goes on, since the scripts are loaded again. `log` records every
admission: by whom, when, and in which life of that one's memory. What is sent
again is left to `RedisLimiter`, and refused rules to `Limiter`.

**MemoryLimiter** is the in-process limiter as functions of its Maps for one
key, written from the JS and not from the Lua; **LimiterParity** asks both the
same questions at the same instants.

**EventPipeline** follows the events of one key: `Emit`, `Land` and `Drop` of
unawaited writes, trimming by MAXLEN, and the worker's tick as the steps between
its awaits (`Read`, `ReadNothing`, `Ack`, `Decide`), any of which may fail
(`StepFails`, `ReadLost`), with `Crash` and `Start`. `RedisLosesData` takes the
stream and the group away; since only `run` calls `ensureGroup`, every read of
the running worker then fails (`ReadNoGroup`) until it is started again. An entry is named by its
position in the stream and a count is a set of entries, so "counted twice" and
"lost" can be said.

**Policy** is `suggestLimit` with the default factors as integer arithmetic
(`10 * rate >= 9 * cur` for `rate >= 0.9 * cur`, and so on). **AdaptiveControl** is
`processBucket` with its awaits, the store's MULTI, the admin's writes and the
caches of the nodes. The audit trail is the list that all keys share: `OthersWrite`
puts an entry of some other key first at any time, which may push this key's oldest
off; nothing else of the other keys is modelled, since their fields of the hash do not
meet this key's. `ResendSet` is a write whose reply is lost and which ioredis sends
again. Of the detector it keeps how many samples there are and
that a key is cold before there are enough; between organic and anomalous the
choice is open, except for calm traffic, which is organic: it does not exceed the
key's own baseline, and `AtMostMeanIsOrganic` proves of **Detector** that such a
rate is never anomalous.

**Detector** is `observe` for one key, in exact arithmetic: alpha is a fraction, mean
and variance are kept over powers of its denominator, and the z-score is compared
by squares. `folded` records the rates that entered the baseline, `refused`
those that were found anomalous. `Restart` is the worker's: the baseline is in its
memory.

**DashboardHub** is the feed, the batch, sockets that stop being writable before
their close handler runs, the timer and `closeAll`; every handler is one
action. The rollups are a function of the decisions so far, so the number of the
last decision stands for them, and `told` records what a browser last heard of
them. **DemoDriver** is the lanes and the auto-stop. Both are parts of **Server**, one
process with its clock, its refresh timer and its shutdown: the first signal
starts `app.close` and the backstop, the `onClose` hook stops the parts and awaits
the connection, and the process exits, or the backstop goes off first. How long
Fastify takes to close the HTTP side and whether Redis answers the QUIT is open.

The MC modules only define the rules, lanes and symmetries of the runs. An
operator whose comment begins with "Mutant of" is a plausible bug in the named
definition; `PROJECT.json` says which property it breaks.

## The runs

| Run | Bounds | Shows |
| --- | --- | --- |
| `hybrid` | 3 calls, 1 resend each, limit 2 in 3 ms, burst 2, 7 ms | types; both refinements; `RetryAfterExact`: who waits as told is admitted, and nobody would be any sooner |
| `override` | 3 calls, 1 resend each, limits 2 and 1 in 2 ms, 5 ms | `NoOverAdmit`, `LogIsExact`, `SpendBound` and `RemainingIsHonest` while the limit and the refill rate change |
| `limiter` | 3 outstanding, threshold 2, cooldown 2 ms, bad rules | types; `StaysAway`, `TrialIsOut`, `OpensAtThreshold`, `Recovers` |
| `parity` | 5 calls, 9 ms, all strategies, prices 1 and 2, two limits | `RepliesAgree` |
| `fleet` | 2 nodes, 3 requests, limit 1 in 2 ms by bucket and window, cooldown 2 ms, one restart or loss, both fail modes, 3 ms | `LimitPerAuthority`, `ClosedIsGlobal`, `DegradedOnlyInOutage` |
| `pipeline` | 2 events, 2 faults, batches of 2, stream cut to 2 | `CountedOnce`, `NothingSlips`, `LostByFaultsOnly` |
| `detector` | rates 1 to 13, four of them in a baseline, alpha 3/10, threshold 3, one restart | `BaselineIsWeighted`, `HigherIsWorse`, `SteadyIsOrganic` |
| `adaptive` | base 4 (range 1 to 16), one node, manual limit 20, faults, clears, other keys | `InForceBounded`, `CalmLifts`, `TakesEffect` |
| `trail` | base 5 (range 2 to 20), manual limits 1 and 25, a trail of 4 entries shared with other keys, faults | types; `MovesAsSaid`, `TrailJoins` |
| `server` | 2 browsers, feed of 2, 3 decisions, 2 lanes, auto-stop and backstop after 2 ms | `CaughtUp`, `TimerIffClients`, `Delivered`; `AutoStopsOnTime`; `BackstopHolds`, `QuietBeforeQuit`, `ShutdownEnds` |

Why these bounds. A window of limit 2 needs three calls to be over-admitted, and a
resend of an earlier one to be hit while full. The clock of `hybrid` passes the idle
expiry of the bucket (6 ms) and of the window (3 ms); windows and limits are chosen so
that refill amounts are not whole tokens, where rounding matters. Threshold 2 and
cooldown 2 separate "first", "last" and "one before" of both counters, and three
outstanding commands let two replies from before the opening arrive after it. The two
events of `pipeline` become up to four entries when both writes are sent again, more
than one batch and more than the stream keeps; two faults let a resend meet a crash.
In `trail` the admin puts limits on either side of the range and the rates press
against every limit up to the larger, so the limit goes from below the floor to above
the ceiling and back through the roundings of halves, thirds and quarters, and what
`MovesAsSaid` says of limits from outside happens at both ends. Its four entries hold
two of the worker's with one of an admin's and one of another key's between, in any
order. The admin clears nothing there: a clear leaves no entry, so with clears
`TrailJoins` must let any entry start from the base limit and would say less (it holds
then too; the theorem covers both). In `adaptive` relaxing rounded down would stop
below the base; its trail plays no part, so one entry of it is kept. In `fleet` a
limit of one needs two requests to be exceeded and a third to be hit while full; the
clock passes a window and the cooldown; one loss is enough to double what fails
closed, and one restart what a node admits. The rates of `detector` grow by about the
factor at which a verdict changes, and after a cold start of two there are two more to
fold under a verdict. With a feed of two, three decisions overflow feed and batch of
`server`; its times are as short as lets the lanes, the auto-stop and the backstop go
off in every order.

Deadlock is checked except where calls, time, decisions or samples are bounded and
the model may run out of them, or the process ends (`RedisLimiter`,
`LimiterParity`, `Fleet`, `Detector`, `Server`).

### Fairness

* `Limiter`: requests keep arriving, the clock runs, the event loop handles what
  the client reports. Redis promises nothing; `Recovers` is about the runs in
  which it stays up.
* `EventPipeline`: time passes, writes in flight land, the worker's loop runs and
    a worker that stopped is started again (a process manager's job); a read without
  a group fails at once. Faults are never forced; `LostByFaultsOnly` speaks of what follows the last one.
* `AdaptiveControl`: the key keeps sending (only events make buckets), Redis
  answers, the refresh timer goes off. The liveness properties suppose traffic
  that stays calm with no admin and no failure from some time on.
* `Server`: the clock runs and the timers that are due go off (flush, lanes,
  auto-stop, backstop). Fastify and Redis promise nothing: `ShutdownEnds` holds by
  the backstop alone.
* `Fleet` and `Detector` are checked for safety only; `silent_redis` below uses
  `FairSpec` of `Fleet`: Redis executes, the event loop handles what is reported.

## Where the code and what is said of it part

Two standing runs expect a violation and are recorded as findings:

| Run, module | What is said | What the code does |
| --- | --- | --- |
| `bad_rule`, `Limiter` | limiter.js:9, degradation "on Redis failure" | a rule that `RuleSchema` refuses throws inside the same `try`: requests to one misconfigured route open the breaker of the node with Redis up |
| `stale_from`, `AdaptiveControl` | suggestionStore.js:3-4, why a limit moved | an admin's write between the worker's read and its write is overwritten, and the entry names a limit that the key no longer had |

Promises, in comments, in the README and in a decision record, that the code does not
keep as they stand, and behaviour that is worth knowing though nothing plainly denies
it, are shown by further configurations. They are not part of the standing runs:
`tlc -config <name>.cfg <module>` finds each violated.

| Configuration, module | What is said, or what one might expect | What the code does |
| --- | --- | --- |
| `pipeline_crash`, `EventPipeline` | ADR 0001:19-20, "at-least-once delivery and acks" | entries are acknowledged before their bucket is processed, and pending ones are never claimed: a fault after the read loses them |
| `single_trial`, `Limiter` | circuitBreaker.js:7, "a single trial" | all requests until the first reply are let through |
| `open_lasts`, `Limiter` | circuitBreaker.js:5, "for `cooldownMs`" | a reply to an earlier command closes it during the cooldown |
| `silent_redis`, `MCFleet` | circuitBreaker.js:5-6, "a dead/slow Redis doesn't add latency to every request" | no command times out: when Redis accepts commands and stays silent, requests wait and the breaker hears of no failure |
| `two_windows`, `MCRedisLimiter` | slidingWindow.lua:4-5, "exact" | routes with different `windowMs` share a key by default, and the shorter evicts for both |
| `retry_after_override`, `MCRedisLimiter` | redisLimiter.js:10, a retry "could succeed" | under a lowered limit more than the oldest entry has to leave |
| `reset`, `MCRedisLimiter` | redisLimiter.js:11, "fully resets" | `resetMs` of a window is when its oldest entry leaves |
| `unaudited_clear`, `AdaptiveControl` | suggestionStore.js:2-3, "every change" | `clear` writes no entry |
| `audit_crowded`, `AdaptiveControl` | suggestionStore.js:3-4, "always answer" | one capped list for all keys: other keys push out the entry of a suggestion still in force |
| `route_bounds`, `AdaptiveControl` | README.md:183-185, within a factor four of the base | the base is the default rule's, and the override replaces the limit of whatever route uses the key |
| `tighten_raises`, `AdaptiveControl` | README.md:181, spikes tighten | a manual limit below the floor is raised to the floor |
| `calm_returns`, `AdaptiveControl` | README.md:182, relaxes "toward the configured base" | only from below; a loosened limit stays |
| `trained_restart`, `Detector` | detector.js:11-12, an attack cannot "train" the limiter | after a restart of the worker the first rates, whatever they are, are the baseline |
| `hybrid_resend`, `MCRedisLimiter` | hybrid.lua:3-4, the halves "can never drift out of sync" | a resent command charges the bucket again and logs nothing new |
| `parity_lengths`, `MCLimiterParity` | ADR 0003, kept in sync | with two window lengths Redis expires what the process keeps |
| `pipeline_flushed`, `EventPipeline` | worker.js:111-118, a failed tick is tried again | after Redis lost the group every retry fails until the worker is restarted, and what it held of closed buckets goes with it |
| `trained`, `Detector` | detector.js:11-12, as above | a ramp in small steps is learnt, up to rates that were refused before |

Three more consequences can be read off the models. A bucket with a backlog is flushed
in parts, each given to the detector as a rate of its own. A browser that joins the
dashboard between a decision and its flush gets it twice, in the snapshot and in the
batch (`got` is a set and does not tell). And by design: while a rate stays anomalous
the baseline does not move, so by `HigherIsWorse` a rise for good, legitimate or not,
stays anomalous at its height and above, and its limit is tightened down to the floor.
What is accepted is accepted when it comes again (`SteadyIsOrganic`).

## What is proved

For every value of the constants and bounds, within the assumptions named.

The limiter (every set of calls, every set of rules `RuleSchema` accepts):

* `RedisLimiterTypes`: `TypeOK`, for rules of any mixture. Tokens never go
  negative because a script subtracts only when the refilled amount suffices
  (`BucketEffect`).
* `LogStaysExact`: `LogIsExact`, and `NeverOverAdmits`: `NoOverAdmit`, for rules
  that share one window length (`OneWindow`; `two_windows` shows that they must).
  Exactness is not inductive: it does not say that the key outlives its entries.
  `WindowInv` does: what was admitted and still counts is in the set, the set holds
  nothing that was not admitted, and it expires no sooner than any entry leaves the
  window. For over-admission the window that ends now is bounded
  by the limit of whichever rule admitted last, past windows do not grow, and a
  moved entry only leaves them.
* `WindowImplemented` and `BucketImplemented`: `RedisLimiter` implements the two
  abstract limits, step by step. The first is for rules that share a window
  length and all use the window; the second for one rule with a bucket
  (`OneBucket`). Its invariant `BucketInv` says that a written bucket expires
  `ttlMs` after it was written, and a lemma that `ttlMs` is long enough to fill it,
  so that a bucket that expires would be full anyway.
* `SpendStaysBounded`: `SpendBound`, for rules that differ as an override makes them
  differ, in the limit (`LimitsOnly`; cost and strategy may differ too). The bound is
  that of the highest limit. `SpendInv` is the account behind it: what was spent since
  an instant and what the highest limit would find in the bucket now come to at most
  one full bucket and the refill since. A lower limit finds no more in the same hash.
* `RemainingStaysHonest`: `RemainingIsHonest`, for rules of any mixture, from the
  types and a set that is finite: a script run again at the same instant finds what it
  has just saved.
* `RetryAfterStaysExact`: `RetryAfterExact`, for rules that agree on window, limit and
  cost (`OnePrice`; `retry_after_override` shows that the limits must agree) and whose
  cost fits the budget (`Payable`: a call that costs more is never admitted and no wait
  could be right; the server's rules leave the cost at 1). The reply
  reads the score of one old entry, so the proof must know that entries leave as they
  came: `WholeCalls` says that the members of a call all share its score.
* `LimitersAgree`: `RepliesAgree`, that the algorithm written twice is the same, for
  rules with a window of one length (`OneWindow`; `parity_lengths`) and buckets that
  are full by any of the rules when they expire (`FullOnExpiry`). Rules that agree on
  limit and burst meet this, and so do those of `parity`; a limit lowered far enough
  under a burst does not: the key in Redis expires, and comes back full, before the
  Map's bucket has filled. What carries agreement from one reply to the next is
  `PairInv`: array and sorted set pair off entry by entry, Map and hash hold the same
  tokens.
* `LimiterTypes`: `TypeOK`; `StaysAwayWhenTripped`: `StaysAway`; and
  `OpensOnlyAtThreshold`: `OpensAtThreshold`, for every threshold, cooldown and number
  of outstanding commands. The invariant `BreakerTracks` relates the breaker's state
  and counters to the recorded failures: its count is the run of failures, it leaves
  `closed` at the threshold, an open one has waited since the last failure, and
  half-open means that the cooldown is over. `HalfOpenForATrial`: `TrialIsOut`, step by
  step on top of it.

The fleet (every finite set of nodes, `FiniteFleet`, and every rule with a window):

* `DegradesOnlyInOutage`: `DegradedOnlyInOutage`. `OutageInv` says that an open
  breaker has waited at least as long as Redis has been back.
* `ClosedKeepsTheLimit`: `ClosedIsGlobal`. `WindowInv` is about Redis's present
  life: what was admitted in it and still counts is in the set, which outlives it.
  `PastInv` counts the admissions of that life and of all former ones apart, so that a
  loss of data moves at most one limit from the first count to the second. `LogInv`
  says that a request that was admitted is not executed again, so its entries are
  not moved, and that nobody but Redis admits when nodes fail closed.
* `NobodyOverAdmits`: `LimitPerAuthority`, of Redis and of every node that decides by
  itself. The node's half needs `HitsInv`: each admission of a node's present life that is
  still in its window has a time of its own in the node's memory, so the length of that
  array bounds their number; and `DoneInv`: what a node admitted is with nobody any
  more, hence not executed in Redis too. `BookInv` keeps the limit in all past windows.
* `FleetTypes`: `TypeOK`.

The pipeline (every batch size, stream length and number of faults):

* `CountsOnce`: `CountedOnce`. It is not inductive, since a read might bring back
  what is counted; `BehindTheCursor` says that whatever the worker ever counted
  was delivered, and what is read next was not. `PipelineTypes`: `TypeOK`.
* `LostInFaultsOnly`: `NothingSlips`, the safety half of `LostByFaultsOnly`. A flush
  overwrites the list of buckets left to process, which would lose them;
  `ClosedWhileDeciding` says that there are none whenever a flush begins. A lemma says
  that one read leaves nothing behind its cursor.

The adaptive loop (every base limit, rates, nodes, traffic and interleaving):

* `ControlTypesHold`: `TypeOK`. A suggestion is one of `Limits`, the admin's or in the
  policy's range around the base, and so are this key's audit entries, the caches and
  the replies on their way.
* `TrailAlwaysJoins`: `TrailJoins`, for any length of the shared trail. Two things make
  it inductive: `SuggestionTold`, that where the trail has an entry of this key one no
  older tells the suggestion in force, unless that was cleared; and, from the worker's
  read until its write, that what it is about to write joins the trail as it is by
  then (`TrailInv`). Lemmas follow what joins down the trail as others write
  (`JoinsShift`, `JoinsFromTop`).
* `InForceStaysBounded`: `InForceBounded`, where routes have the worker's base
  limit; `route_bounds` shows that they must.
* `MovesAlwaysAsSaid`: `MovesAsSaid`, for any positive limits the admin puts. A lemma
  on the policy says that the clamp turns a move around only by bringing a limit from
  outside the range to its nearer end (`SuggestionMoves`).

The detector (every history; `SmoothingAssumption` is `1 - alpha < z^2 * alpha`,
true of the defaults):

* `SteadyTrafficIsOrganic`: `SteadyIsOrganic`. Folding a rate in lets the variance
  grow with the square of its distance, enough for the same rate to pass.
* `WorseIsNotBetter`: `HigherIsWorse`, and `AtMostMeanIsOrganic`, on which
  `AdaptiveControl` relies: the verdict is monotone above the mean and never
  anomalous below.

* `BaselineStaysWeighted`: `BaselineIsWeighted`, for every factor and every number of
  rates. The baseline is kept rate by rate and the definition sums over all of them;
  lemmas on the sum say what one more rate does to it (`TotalScaled`, `LaterMean`,
  `LaterVariance`).

The process (every number of browsers and lanes, every length and time):

* `WatchersCatchUp`: `CaughtUp`. The invariants `FeedIsLast` and `BatchIsLast` say
  which decisions feed and batch hold: the feed consecutive ones up to the last; the
  batch, which may have gaps, none newer than its place from the end allows.
  `TimerForSomebody`: `TimerIffClients`.
* `StopsOnTime`: `AutoStopsOnTime`.
* `QuietWhenClosing`: `QuietBeforeQuit`, from `HubIsClosed`: once `onClose` has run
  the hub takes nobody in. `BackstopIsKept`: `BackstopHolds`. `ProcessTypes`: `TypeOK`.

Recursive functions (the sum over the rates) and the arrays of the in-process limiter
are reasoned about by the least number at which a claim would fail, which exists
because `<` on the naturals is well-founded (`LeastNat`, `Induction`); the induction
theorems of the library take an operator that the provers cannot instantiate.

Only model-checked: the liveness properties (`Recovers`, `LostByFaultsOnly`,
`CalmLifts`, `TakesEffect`, `Delivered`, `ShutdownEnds`), since fairness is out of the
prover's reach. Every other property of a passing run is a theorem.

## What is left out, and what was simplified

* Rounding: tokens are doubles in the code and HSET keeps 14 digits of them;
  here they are exact.
* Redis's clock never goes back (the scripts guard against it); keys are
  not evicted for memory. Redis loses its data in `Fleet` and `EventPipeline`; in
  `RedisLimiter` it does not.
* One clock for all of `Fleet`: the code compares no two clocks.
* One key per model, one worker, one consumer group. Time in `EventPipeline` is
  counted in buckets. The breaker's counters stop at the values the code compares
  them with.
* Of keys other than the one followed, `AdaptiveControl` keeps only that their entries
  come first on the shared audit trail; what those entries say is left out. The trail
  is read by nothing but the admin's GET.
* A node has at most one refresh outstanding in `adaptive` (`MaxReplies`).
* Doubles in the detector: mean and variance are exact fractions. Its `reset` is
  called by nothing; it would do what `Restart` does.
* The requests that the demo driver fires are those of `Limiter` and `Fleet`.
* Growth: the Maps of `MemoryLimiter` and the rollups of the hub gain an entry
  for every key ever seen. The models follow one key; the growth is plain in the code.

### Not modelled

HTTP middleware (`middleware/`), admin reads and authentication, configuration,
logging, metrics, the dashboard page, benchmarks and traffic scripts. They keep no
state of their own: the middleware hands a key and a rule to `Limiter.check` and
turns the reply into headers, which the models take as inputs and replies;
configuration is read once and appears as constants; the rest is output. The
admin's writes are in `AdaptiveControl`.

## The order of the work

1. `RedisLimiter` with its refinements and proofs, `Limiter`, parity, the
   pipeline, the adaptive loop, hub and driver.
2. `Fleet`: nodes that lose Redis one by one, Redis that loses its data, both fail
   modes. `Detector` in exact arithmetic. `Server` over hub and driver, with the
   shutdown. The worker after Redis lost its group.
3. Proofs about all of these: every safety property of the standing runs.

What remains is the safety half of the other liveness properties, as `NothingSlips` is
of `LostByFaultsOnly`: the invariants that show that each step towards the end they
promise stays possible.
