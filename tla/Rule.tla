-------------------------------- MODULE Rule --------------------------------
(***************************************************************************)
(* Rate-limit rules and the fields normalizeRule derives from them         *)
(* (src/src/core/rule.js).                                                 *)
(*                                                                         *)
(* The program counts tokens in fractions: refillPerMs is limit/windowMs.  *)
(* Here a token is TokenUnit indivisible units and TokenUnit is a multiple *)
(* of every windowMs in use, so every token amount is a whole number of    *)
(* units and the arithmetic below is exact.                                *)
(***************************************************************************)
EXTENDS Integers

CONSTANT TokenUnit          \* units in one token

Strategy == {"token_bucket", "sliding_window", "hybrid"}

\* The rules RuleSchema.parse lets through.
RuleSchema ==
  [strategy : Strategy, limit : Nat \ {0}, windowMs : Nat \ {0},
   burst : Nat, cost : Nat \ {0}]

Smaller(a, b) == IF a <= b THEN a ELSE b
Larger(a, b)  == IF a >= b THEN a ELSE b
CeilDiv(a, b) == (a + b - 1) \div b

-----------------------------------------------------------------------------

\* The burst ceiling, in tokens: burst when the rule gives one, else limit.
Capacity(r) == IF r.burst > 0 THEN r.burst ELSE r.limit

\* Capacity and cost in units.
CapacityUnits(r) == Capacity(r) * TokenUnit
CostUnits(r) == r.cost * TokenUnit

\* Units the bucket gains per millisecond: limit tokens per windowMs.
RefillPerMs(r) == r.limit * (TokenUnit \div r.windowMs)

\* Mutant of TtlMs: the idle expiry covers half of a full refill, rounded down.
TtlTooShort(r) == CapacityUnits(r) \div (2 * RefillPerMs(r))

\* Idle expiry of the bucket: twice the longer of the window and a full refill.
TtlMs(r) == 2 * Larger(r.windowMs, CeilDiv(CapacityUnits(r), RefillPerMs(r)))

=============================================================================
