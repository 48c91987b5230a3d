------------------------------- MODULE Detector -------------------------------
(***************************************************************************)
(* EwmaZScoreDetector (adaptive/detector.js) for one key: the baseline it  *)
(* keeps in the memory of the worker, what it answers to a rate, and which *)
(* rates enter the baseline.                                               *)
(*                                                                         *)
(* Exact arithmetic: alpha is AlphaNum / AlphaDen, and a baseline of       *)
(* `count` rates has its mean over scale and its variance over scale       *)
(* squared, where scale is AlphaDen ^ (count - 1).  So no division is      *)
(* needed, and z >= zThreshold is the comparison of squares.               *)
(***************************************************************************)
EXTENDS Integers, Sequences

CONSTANTS
  AlphaNum, AlphaDen,   \* the smoothing factor
  ZThreshold,
  MinSamples,
  Rates,                \* the rates observed
  MaxCount,             \* bound: rates in a baseline
  MaxRestarts           \* bound: restarts of the worker

ASSUME DetectorAssumption ==
  /\ AlphaNum \in Nat \ {0} /\ AlphaDen \in Nat /\ AlphaNum < AlphaDen
  /\ ZThreshold \in Nat \ {0}
  /\ MinSamples \in Nat
  /\ Rates \subseteq Nat \ {0}
  /\ MaxCount \in Nat /\ MaxRestarts \in Nat

\* The smoothing and the threshold go together: see SteadyIsOrganic.
ASSUME SmoothingAssumption == AlphaDen - AlphaNum < ZThreshold * ZThreshold * AlphaNum

VARIABLES
  base,            \* the key's entry in `state`
  restarts,
  folded,          \* history: the rates in the baseline, oldest first
  refused          \* history: rates that were found anomalous

vars == <<base, restarts, folded, refused>>

NewKey == [count |-> 0, scale |-> 1, mean |-> 0, variance |-> 0]

\* How far v lies above the mean, over scale.
Above(b, v) == v * b.scale - b.mean

\* Mutant of ZScoreHigh: a rate far below the mean counts as well.
ZScoreFar(b, v) == Above(b, v) * Above(b, v) >= ZThreshold * ZThreshold * b.variance

\* z >= zThreshold
ZScoreHigh(b, v) ==
  /\ Above(b, v) >= 0
  /\ Above(b, v) * Above(b, v) >= ZThreshold * ZThreshold * b.variance

\* Against a flat baseline: a doubling or more.
Doubles(b, v) == b.mean > 0 /\ Above(b, v) >= b.mean

Classify(b, v) ==
  IF b.count < MinSamples THEN "cold_start"
  ELSE IF IF b.variance > 0 THEN ZScoreHigh(b, v) ELSE Doubles(b, v)
       THEN "anomalous" ELSE "organic"

First(v) == [count |-> 1, scale |-> 1, mean |-> v, variance |-> 0]

\* Mutant of Later: the rate leaves no spread behind.
LaterFlat(b, v) ==
  LET diff == Above(b, v)
  IN [count    |-> b.count + 1,
      scale    |-> AlphaDen * b.scale,
      mean     |-> AlphaDen * b.mean + AlphaNum * diff,
      variance |-> (AlphaDen - AlphaNum) * AlphaDen * b.variance]

\* mean += alpha diff;  variance = (1 - alpha) (variance + alpha diff^2)
Later(b, v) ==
  LET diff == Above(b, v)
  IN [count    |-> b.count + 1,
      scale    |-> AlphaDen * b.scale,
      mean     |-> AlphaDen * b.mean + AlphaNum * diff,
      variance |-> (AlphaDen - AlphaNum) * (AlphaDen * b.variance + AlphaNum * diff * diff)]

Fold(b, v) == IF b.count = 0 THEN First(v) ELSE Later(b, v)

-----------------------------------------------------------------------------

Init ==
  /\ base = NewKey /\ restarts = 0
  /\ folded = <<>> /\ refused = {}

\* observe, of a rate that looks like an attack: it stays out of the baseline.
Refuse(v) ==
  /\ Classify(base, v) = "anomalous"
  /\ refused' = refused \cup {v}
  /\ UNCHANGED <<base, restarts, folded>>

\* observe, of any other.
Accept(v) ==
  /\ Classify(base, v) # "anomalous"
  /\ base.count < MaxCount
  /\ base' = Fold(base, v)
  /\ folded' = Append(folded, v)
  /\ UNCHANGED <<restarts, refused>>

\* The worker's process starts anew; the baseline was in its memory.
Restart ==
  /\ restarts < MaxRestarts
  /\ restarts' = restarts + 1
  /\ base' = NewKey /\ folded' = <<>>
  /\ UNCHANGED refused

Next == Restart \/ \E v \in Rates : Refuse(v) \/ Accept(v)

Spec == Init /\ [][Next]_vars

-----------------------------------------------------------------------------
(* Properties *)

\* x to the n.
Power(x, n) ==
  LET pow[i \in Nat] == IF i = 0 THEN 1 ELSE x * pow[i - 1]
  IN pow[n]

\* The share of the i-th of k rates in the baseline, over AlphaDen ^ (k - 1): the
\* newer, the larger by a factor 1 - alpha, and the first takes what is left.
Weight(i, k) ==
  Power(AlphaDen - AlphaNum, k - i)
    * (IF i = 1 THEN 1 ELSE AlphaNum * Power(AlphaDen, i - 2))

\* The sum of f[1] .. f[k].
Total(f, k) ==
  LET upTo[i \in 0 .. k] == IF i = 0 THEN 0 ELSE upTo[i - 1] + f[i]
  IN upTo[k]

\* "EWMA mean + EWMA variance" (detector.js:2): what the updates leave behind are the
\* mean and the variance of the accepted rates under exponential weights, and of
\* nothing else (detector.js:59-71).
BaselineIsWeighted ==
  LET k       == Len(folded)
      Mean    == Total([i \in 1 .. k |-> Weight(i, k) * folded[i]], k)
      Squares == Total([i \in 1 .. k |-> Weight(i, k) * folded[i] * folded[i]], k)
  IN /\ base.count = k
     /\ base.mean = Mean
     /\ base.variance = base.scale * Squares - Mean * Mean

\* Worse traffic is never judged better: a rate above one that is anomalous is
\* anomalous, so while an attack lasts at its rate or grows the baseline does not
\* move (detector.js:11-12).
HigherIsWorse ==
  \A v, w \in Rates :
    v <= w /\ Classify(base, v) = "anomalous" => Classify(base, w) = "anomalous"

\* A rate that was accepted is accepted when it comes again at once: whatever the
\* history, steady traffic is organic from its second bucket on (detector.js:35-71).
SteadyIsOrganic ==
  folded # <<>> => Classify(base, folded[Len(folded)]) # "anomalous"

\* A sustained attack cannot "train" the limiter "into accepting it as normal"
\* (detector.js:11-12): what was found anomalous is never called organic later.
NeverTrained == \A v \in refused : Classify(base, v) # "organic"

===============================================================================
