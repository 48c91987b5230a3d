-------------------------------- MODULE Policy --------------------------------
(***************************************************************************)
(* suggestLimit (src/src/adaptive/policy.js), with the factors it defaults *)
(* to, which are the ones the worker uses: floor 1/4 and ceiling 4 times   *)
(* the base, tighten 1/2, loosen 3/2, a quarter of the way back on relax.  *)
(***************************************************************************)
EXTENDS Integers

Classification == {"cold_start", "organic", "anomalous"}
Action == {"tighten", "loosen", "relax", "hold"}

Up(a, b) == (a + b - 1) \div b

LimitFloor(base) == IF base = 0 THEN 1 ELSE Up(base, 4)
LimitCeil(base)  == 4 * base

\* Mutant of Clamp: the floor is forgotten.
ClampHigh(v, lo, hi) == IF v > hi THEN hi ELSE v

\* Mutant of Clamp: the ceiling is forgotten.
ClampLow(v, lo, hi) == IF v < lo THEN lo ELSE v

Clamp(v, lo, hi) == IF v < lo THEN lo ELSE IF v > hi THEN hi ELSE v

\* Traffic presses against the limit, or keeps well below a lowered one.
Pressing(cur, rate) == 10 * rate >= 9 * cur
Calm(base, cur, rate) == cur < base /\ 2 * rate < cur

\* Mutant of Relaxed: rounds the step down.
RelaxedDown(base, cur) == cur + (base - cur) \div 4

Relaxed(base, cur) == cur + Up(base - cur, 4)

\* What the classification calls for, before the clamp.
Wanted(base, cur, class, rate) ==
  CASE class = "anomalous" -> [limit |-> cur \div 2, action |-> "tighten"]
    [] class = "organic" /\ Pressing(cur, rate) ->
         [limit |-> Up(3 * cur, 2), action |-> "loosen"]
    [] class = "organic" /\ ~Pressing(cur, rate) /\ Calm(base, cur, rate) ->
         [limit |-> Relaxed(base, cur), action |-> "relax"]
    [] OTHER -> [limit |-> cur, action |-> "hold"]

\* Mutant of suggestLimit: a change that the clamp undoes is still reported.
NeverHolds(base, cur, class, rate) ==
  LET w == Wanted(base, cur, class, rate)
  IN [limit |-> Clamp(w.limit, LimitFloor(base), LimitCeil(base)), action |-> w.action]

suggestLimit(base, cur, class, rate) ==
  LET w     == Wanted(base, cur, class, rate)
      limit == Clamp(w.limit, LimitFloor(base), LimitCeil(base))
  IN [limit |-> limit, action |-> IF limit = cur THEN "hold" ELSE w.action]
===============================================================================
