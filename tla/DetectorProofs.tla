----------------------------- MODULE DetectorProofs -----------------------------
(***************************************************************************)
(* What the detector answers, for every smoothing factor, threshold and    *)
(* sequence of rates, and what its baseline is after any number of them:   *)
(* proofs about Detector.                                                  *)
(***************************************************************************)
EXTENDS Detector, WellFoundedInduction, TLAPS

\* Types of a baseline: a variance is never negative.
Baseline == [count : Nat, scale : Nat \ {0}, mean : Int, variance : Nat]

DetectorTypes ==
  /\ base \in Baseline
  /\ restarts \in Nat
  /\ folded \in Seq(Rates)

DetectorInv == DetectorTypes /\ SteadyIsOrganic

-----------------------------------------------------------------------------
(* Arithmetic *)

\* Squares grow with what is squared.
LEMMA SquaresGrow ==
  ASSUME NEW a \in Int, NEW b \in Int, 0 <= a, a <= b
  PROVE  a * a <= b * b
<1>1. a * a <= a * b
  BY SMT
<1>2. a * b <= b * b
  BY SMT
<1> QED
  BY <1>1, <1>2, SMT

\* A product of natural numbers is one.
LEMMA ProductIsNat ==
  ASSUME NEW a \in Nat, NEW b \in Nat
  PROVE  a * b \in Nat
BY SMT

LEMMA SquareIsNat ==
  ASSUME NEW a \in Int
  PROVE  a * a \in Nat
BY SMT

\* A larger rate lies further above the mean.
LEMMA AboveGrows ==
  ASSUME NEW b \in Baseline, NEW v \in Int, NEW w \in Int, v <= w
  PROVE  Above(b, v) \in Int /\ Above(b, w) \in Int /\ Above(b, v) <= Above(b, w)
<1>1. b.scale \in Nat /\ b.mean \in Int
  BY DEF Baseline
<1>2. v * b.scale <= w * b.scale
  BY <1>1, SMT
<1> QED
  BY <1>1, <1>2, SMT DEF Above

-----------------------------------------------------------------------------
(* The verdict *)

\* The z-score and the relative change both grow with the rate.
LEMMA VerdictGrows ==
  ASSUME NEW b \in Baseline, NEW v \in Int, NEW w \in Int, v <= w,
         Classify(b, v) = "anomalous"
  PROVE  Classify(b, w) = "anomalous"
<1> DEFINE z2 == ZThreshold * ZThreshold * b.variance
<1>1. /\ Above(b, v) \in Int /\ Above(b, w) \in Int
      /\ Above(b, v) <= Above(b, w)
  BY AboveGrows
<1>2. ~(b.count < MinSamples)
  BY DEF Classify
<1>3. CASE b.variance > 0
  <2>1. Above(b, v) >= 0 /\ Above(b, v) * Above(b, v) >= z2
    BY <1>2, <1>3 DEF Classify, ZScoreHigh
  <2>2. Above(b, v) * Above(b, v) <= Above(b, w) * Above(b, w)
    BY <1>1, <2>1, SquaresGrow
  <2>3. z2 \in Int
    <3>1. b.variance \in Nat /\ ZThreshold \in Nat
      BY DetectorAssumption DEF Baseline
    <3> QED
      BY <3>1, ProductIsNat
  <2>4. Above(b, w) >= 0
    BY <1>1, <2>1, SMT
  <2>5. Above(b, w) * Above(b, w) >= z2
    <3>1. Above(b, v) * Above(b, v) \in Int /\ Above(b, w) * Above(b, w) \in Int
      BY <1>1, SquareIsNat
    <3> HIDE DEF z2
    <3> QED
      BY <2>1, <2>2, <2>3, <3>1, SMT
  <2> QED
    BY <1>2, <1>3, <2>4, <2>5 DEF Classify, ZScoreHigh
<1>4. CASE ~(b.variance > 0)
  <2>1. b.mean > 0 /\ Above(b, v) >= b.mean
    BY <1>2, <1>4 DEF Classify, Doubles
  <2>2. b.mean \in Int
    BY DEF Baseline
  <2>3. Above(b, w) >= b.mean
    BY <1>1, <2>1, <2>2, SMT
  <2> QED
    BY <1>2, <1>4, <2>1, <2>3 DEF Classify, Doubles
<1> QED
  BY <1>3, <1>4

\* A rate that lies at the mean, or below, is not anomalous.
LEMMA NotAboveIsOrganic ==
  ASSUME NEW b \in Baseline, NEW v \in Int, Above(b, v) <= 0
  PROVE  Classify(b, v) # "anomalous"
<1>1. Above(b, v) \in Int /\ b.mean \in Int /\ b.variance \in Nat
  BY AboveGrows DEF Baseline
<1>2. b.variance > 0 => ~ZScoreHigh(b, v)
  <2> SUFFICES ASSUME b.variance > 0, Above(b, v) = 0 PROVE ~ZScoreHigh(b, v)
    BY <1>1, SMT DEF ZScoreHigh
  <2>1. ZThreshold * ZThreshold > 0 /\ ZThreshold * ZThreshold \in Int
    BY DetectorAssumption, SMT
  <2>2. ~(0 >= ZThreshold * ZThreshold * b.variance)
    BY <1>1, <2>1, SMT
  <2>3. Above(b, v) * Above(b, v) = 0
    BY SMT
  <2> QED
    BY <2>2, <2>3 DEF ZScoreHigh
<1>3. ~Doubles(b, v)
  BY <1>1, SMT DEF Doubles
<1> QED
  BY <1>2, <1>3 DEF Classify

\* What one rate adds to the variance outweighs how far it still lies above the mean.
LEMMA SpreadCovers ==
  ASSUME NEW e \in Nat \ {0}, NEW q \in Nat \ {0}, NEW z2 \in Nat, NEW n \in Nat,
         NEW w \in Nat, e < z2 * n
  PROVE  e * (e * q) < z2 * (e * (w + n * q))
<1>1. e * q < (z2 * n) * q
  BY SMT
<1>2. (z2 * n) * q <= z2 * (w + n * q)
  BY SMT
<1>3. e * q < z2 * (w + n * q)
  BY <1>1, <1>2, SMT
<1>4. e * (e * q) < e * (z2 * (w + n * q))
  BY <1>3, SMT
<1> QED
  BY <1>4, SMT

\* Accepting a rate leaves a baseline, against which the same rate is no anomaly.
LEMMA LaterSettles ==
  ASSUME NEW b \in Baseline, NEW v \in Int
  PROVE  Later(b, v) \in Baseline /\ Classify(Later(b, v), v) # "anomalous"
<1> DEFINE c == Later(b, v)
           d == Above(b, v)
           e == AlphaDen - AlphaNum
           w == AlphaDen * b.variance
<1>1. /\ d \in Int /\ e \in Nat \ {0} /\ AlphaNum \in Nat \ {0} /\ AlphaDen \in Nat \ {0}
      /\ b.scale \in Nat \ {0} /\ b.mean \in Int /\ b.count \in Nat /\ b.variance \in Nat
  BY AboveGrows, DetectorAssumption, SMT DEF Baseline
<1>2. w \in Nat
  BY <1>1, ProductIsNat
<1>3. AlphaNum * d * d \in Nat
  <2>1. AlphaNum * d * d = AlphaNum * (d * d)
    <3> HIDE DEF d
    <3> QED
      BY <1>1, SMT
  <2>2. AlphaNum * (d * d) \in Nat
    BY <1>1, SquareIsNat, ProductIsNat
  <2> QED
    BY <2>1, <2>2
<1>4. /\ c.variance = e * (w + AlphaNum * d * d) /\ c.mean = AlphaDen * b.mean + AlphaNum * d
      /\ c.scale = AlphaDen * b.scale /\ c.count = b.count + 1
  BY DEF Later
<1>5. c \in Baseline
  <2>1. AlphaDen * b.scale \in Nat \ {0}
    BY <1>1, SMT
  <2>2. AlphaDen * b.mean + AlphaNum * d \in Int
    <3> HIDE DEF d
    <3> QED
      BY <1>1, SMT
  <2>3. e * (w + AlphaNum * d * d) \in Nat
    <3>1. w + AlphaNum * d * d \in Nat
      BY <1>2, <1>3, SMT
    <3> QED
      BY <1>1, <3>1, ProductIsNat
  <2> QED
    BY <1>1, <2>1, <2>2, <2>3 DEF Later, Baseline
<1>6. Above(c, v) = e * d
  <2>1. Above(c, v) = v * (AlphaDen * b.scale) - (AlphaDen * b.mean + AlphaNum * d)
    BY <1>4 DEF Above
  <2>2. d = v * b.scale - b.mean
    BY DEF Above
  <2> HIDE DEF c, d
  <2>3. v * (AlphaDen * b.scale) = AlphaDen * (v * b.scale)
    BY <1>1, SMT
  <2>4. AlphaDen * d = AlphaDen * (v * b.scale) - AlphaDen * b.mean
    BY <1>1, <2>2, SMT
  <2>5. e * d = AlphaDen * d - AlphaNum * d
    BY <1>1, SMT
  <2> QED
    BY <1>1, <2>1, <2>3, <2>4, <2>5, SMT
<1>7. CASE d <= 0
  <2>1. e * d <= 0
    <3> HIDE DEF d, e
    <3> QED
      BY <1>1, <1>7, SMT
  <2> QED
    BY <1>5, <1>6, <2>1, NotAboveIsOrganic
<1>8. CASE d > 0
  <2> DEFINE z2 == ZThreshold * ZThreshold
             q  == d * d
  <2>1. q \in Nat \ {0} /\ z2 \in Nat /\ e < z2 * AlphaNum
    <3>1. q > 0
      <4> HIDE DEF d
      <4> QED
        BY <1>1, <1>8, SMT
    <3>2. z2 \in Nat
      BY DetectorAssumption, SMT
    <3> QED
      BY <1>1, <3>1, <3>2, SquareIsNat, SmoothingAssumption, SMT
  <2>2. e * (e * q) < z2 * (e * (w + AlphaNum * q))
    <3> HIDE DEF q, z2, e, w
    <3> QED
      BY <1>1, <1>2, <2>1, SpreadCovers
  <2>3. (e * d) * (e * d) = e * (e * q)
    <3> HIDE DEF d, e
    <3> QED
      BY <1>1, SMT
  <2>4. AlphaNum * d * d = AlphaNum * q
    <3> HIDE DEF d
    <3> QED
      BY <1>1, SMT
  <2>5. Above(c, v) * Above(c, v) < ZThreshold * ZThreshold * c.variance
    <3>1. c.variance = e * (w + AlphaNum * q)
      BY <1>4, <2>4
    <3> QED
      BY <1>6, <2>2, <2>3, <3>1
  <2>6. c.variance > 0
    <3>1. w + AlphaNum * q \in Nat \ {0}
      <4> HIDE DEF q, w
      <4> QED
        BY <1>1, <1>2, <2>1, SMT
    <3>2. e * (w + AlphaNum * q) > 0
      <4> HIDE DEF q, w, e
      <4> QED
        BY <1>1, <3>1, SMT
    <3> QED
      BY <1>4, <2>4, <3>2
  <2>7. /\ Above(c, v) * Above(c, v) \in Int
        /\ ZThreshold * ZThreshold * c.variance \in Int
    <3>1. Above(c, v) \in Int /\ c.variance \in Nat
      BY <1>5, AboveGrows DEF Baseline
    <3> QED
      BY <2>1, <3>1, SquareIsNat, ProductIsNat
  <2>8. ~ZScoreHigh(c, v)
    <3> HIDE DEF c
    <3> QED
      BY <2>5, <2>7, SMT DEF ZScoreHigh
  <2> QED
    BY <1>5, <2>6, <2>8, Zenon DEF Classify
<1> QED
  BY <1>1, <1>5, <1>7, <1>8, SMT

\* The first rate becomes the mean.
LEMMA FirstSettles ==
  ASSUME NEW v \in Int
  PROVE  First(v) \in Baseline /\ Classify(First(v), v) # "anomalous"
<1>1. First(v) \in Baseline
  BY DEF First, Baseline
<1>2. Above(First(v), v) = 0
  BY SMT DEF Above, First
<1> QED
  BY <1>1, <1>2, NotAboveIsOrganic

LEMMA FoldSettles ==
  ASSUME NEW b \in Baseline, NEW v \in Int
  PROVE  Fold(b, v) \in Baseline /\ Classify(Fold(b, v), v) # "anomalous"
BY FirstSettles, LaterSettles DEF Fold

-----------------------------------------------------------------------------
(* The invariant *)

LEMMA DetectorInit == Init => DetectorInv
<1> SUFFICES ASSUME Init PROVE DetectorInv
  OBVIOUS
<1>1. NewKey \in Baseline
  BY DEF NewKey, Baseline
<1> QED
  BY <1>1 DEF Init, DetectorInv, DetectorTypes, SteadyIsOrganic

LEMMA DetectorStep == DetectorInv /\ [Next]_vars => DetectorInv'
<1> SUFFICES ASSUME DetectorInv, [Next]_vars PROVE DetectorInv'
  OBVIOUS
<1> USE DEF DetectorInv, DetectorTypes
<1>1. CASE Restart
  <2>1. NewKey \in Baseline /\ restarts + 1 \in Nat
    BY DEF NewKey, Baseline
  <2> QED
    BY <1>1, <2>1 DEF Restart, SteadyIsOrganic
<1>2. ASSUME NEW v \in Rates, Refuse(v) PROVE DetectorInv'
  BY <1>2 DEF Refuse, SteadyIsOrganic
<1>3. ASSUME NEW v \in Rates, Accept(v) PROVE DetectorInv'
  <2>1. v \in Int
    BY DetectorAssumption
  <2>2. base' \in Baseline /\ Classify(base', v) # "anomalous"
    BY <1>3, <2>1, FoldSettles DEF Accept
  <2>3. /\ folded' \in Seq(Rates) /\ folded' # <<>>
        /\ folded'[Len(folded')] = v
    BY <1>3, SMT DEF Accept
  <2> QED
    BY <1>3, <2>2, <2>3 DEF Accept, SteadyIsOrganic
<1>4. CASE UNCHANGED vars
  BY <1>4 DEF vars, SteadyIsOrganic
<1> QED
  BY <1>1, <1>2, <1>3, <1>4 DEF Next

LEMMA DetectorInvariant == Spec => []DetectorInv
BY DetectorInit, DetectorStep, PTL DEF Spec

-----------------------------------------------------------------------------
(* Theorems *)

\* For any smoothing and threshold that fit, and any history of rates and restarts, a
\* rate that was accepted is accepted when it comes again (detector.js:35-71).
THEOREM SteadyTrafficIsOrganic == Spec => []SteadyIsOrganic
BY DetectorInvariant, PTL DEF DetectorInv

\* For any factors and any history, a rate above an anomalous one is anomalous
\* (detector.js:43-56).
THEOREM WorseIsNotBetter == Spec => []HigherIsWorse
<1>1. DetectorInv => HigherIsWorse
  <2> SUFFICES ASSUME DetectorInv, NEW v \in Rates, NEW w \in Rates, v <= w,
                      Classify(base, v) = "anomalous"
               PROVE  Classify(base, w) = "anomalous"
    BY DEF HigherIsWorse
  <2> QED
    BY VerdictGrows, DetectorAssumption DEF DetectorInv, DetectorTypes
<1> QED
  BY <1>1, DetectorInvariant, PTL

\* A rate that does not exceed the key's own baseline is never called anomalous, which
\* is what AdaptiveControl takes of calm traffic (detector.js:41-56).
THEOREM AtMostMeanIsOrganic ==
  Spec => [](\A v \in Rates : v * base.scale <= base.mean => Classify(base, v) # "anomalous")
<1>1. DetectorInv =>
        \A v \in Rates : v * base.scale <= base.mean => Classify(base, v) # "anomalous"
  <2> SUFFICES ASSUME DetectorInv, NEW v \in Rates, v * base.scale <= base.mean
               PROVE  Classify(base, v) # "anomalous"
    OBVIOUS
  <2>1. base \in Baseline /\ v \in Int
    BY DetectorAssumption DEF DetectorInv, DetectorTypes
  <2>2. Above(base, v) <= 0
    <3>1. base.scale \in Nat /\ base.mean \in Int
      BY <2>1 DEF Baseline
    <3>2. v * base.scale \in Int
      BY <2>1, <3>1, SMT
    <3> QED
      BY <3>1, <3>2, SMT DEF Above
  <2> QED
    BY <2>1, <2>2, NotAboveIsOrganic
<1> QED
  BY <1>1, DetectorInvariant, PTL

-----------------------------------------------------------------------------
(* Induction and recursion, from the order of the naturals *)

Below == {p \in Nat \X Nat : p[1] < p[2]}

LEMMA LeastNat ==
  ASSUME NEW T \in SUBSET Nat, T # {}
  PROVE  \E x \in T : \A y \in T : x <= y
<1>1. Below = OpToRel(<, Nat)
  BY Zenon DEF Below, OpToRel
<1>2. IsWellFoundedOn(Below, Nat)
  BY <1>1, NatLessThanWellFounded, Zenon
<1>3. PICK x \in T : \A y \in T : ~ (<<y, x>> \in Below)
  BY <1>2, WFMin, Zenon
<1>4. ASSUME NEW y \in T PROVE x <= y
  <2>1. x \in Nat /\ y \in Nat /\ <<y, x>> \notin Below
    BY <1>3
  <2>2. <<y, x>> \in Nat \X Nat /\ <<y, x>>[1] = y /\ <<y, x>>[2] = x
    BY <2>1
  <2>3. ~(y < x)
    BY <2>1, <2>2, Zenon DEF Below
  <2> QED
    BY <2>1, <2>3
<1> QED
  BY <1>4

\* A set of naturals that has 0 and, with any, the next has them all.
LEMMA Induction ==
  ASSUME NEW S, 0 \in S, \A n \in Nat : n \in S => n + 1 \in S
  PROVE  \A n \in Nat : n \in S
<1> SUFFICES ASSUME Nat \ S # {} PROVE FALSE
  OBVIOUS
<1>1. PICK x \in Nat \ S : \A y \in Nat \ S : x <= y
  BY LeastNat
<1>2. x # 0 /\ x - 1 \in Nat /\ x - 1 \in S
  BY <1>1
<1> QED
  BY <1>1, <1>2

\* What starts at c and steps as `step` says.
Runs(n, f, c, step) == f[0] = c /\ \A k \in 0 .. n - 1 : f[k + 1] = step[<<k, f[k]>>]

LEMMA RunExists ==
  ASSUME NEW D, NEW c \in D, NEW step \in [Nat \X D -> D], NEW n \in Nat
  PROVE  \E f \in [0 .. n -> D] : Runs(n, f, c, step)
<1> DEFINE S == {m \in Nat : \E f \in [0 .. m -> D] : Runs(m, f, c, step)}
<1>1. 0 \in S
  <2> DEFINE f == [k \in 0 .. 0 |-> c]
  <2>1. f \in [0 .. 0 -> D] /\ Runs(0, f, c, step)
    BY DEF Runs
  <2> QED
    BY <2>1
<1>2. ASSUME NEW m \in Nat, m \in S PROVE m + 1 \in S
  <2>1. PICK f \in [0 .. m -> D] : Runs(m, f, c, step)
    BY <1>2
  <2> DEFINE last == step[<<m, f[m]>>]
             g == [k \in 0 .. m + 1 |-> IF k = m + 1 THEN last ELSE f[k]]
  <2>2. last \in D
    BY <2>1
  <2>3. \A k \in 0 .. m : f[k] \in D
    BY <2>1
  <2> HIDE DEF last
  <2>4. g \in [0 .. m + 1 -> D]
    BY <2>2, <2>3
  <2>5. g[m + 1] = last /\ \A k \in 0 .. m : g[k] = f[k]
    BY <1>2
  <2> HIDE DEF g
  <2>6. g[0] = c
    BY <1>2, <2>1, <2>5 DEF Runs
  <2>7. ASSUME NEW k \in 0 .. m PROVE g[k + 1] = step[<<k, g[k]>>]
    <3>1. CASE k = m
      BY <2>5, <2>7, <3>1 DEF last
    <3>2. CASE k # m
      <4>1. k \in 0 .. m - 1 /\ k + 1 \in 0 .. m
        BY <2>7, <3>2
      <4> QED
        BY <2>1, <2>5, <4>1 DEF Runs
    <3> QED
      BY <3>1, <3>2
  <2>8. Runs(m + 1, g, c, step)
    BY <2>6, <2>7 DEF Runs
  <2> QED
    BY <2>4, <2>8
<1> HIDE DEF S
<1>3. n \in S
  BY <1>1, <1>2, Induction
<1> QED
  BY <1>3 DEF S

\* Two runs agree as far as both go.
LEMMA RunsAgree ==
  ASSUME NEW c, NEW step, NEW n \in Nat, NEW m \in Nat, n <= m, NEW f, NEW g,
         Runs(n, f, c, step), Runs(m, g, c, step)
  PROVE  f[n] = g[n]
<1> DEFINE A == {k \in Nat : k <= n => f[k] = g[k]}
<1>1. 0 \in A
  BY DEF Runs
<1>2. ASSUME NEW k \in Nat, k \in A PROVE k + 1 \in A
  <2> SUFFICES ASSUME k + 1 <= n PROVE f[k + 1] = g[k + 1]
    OBVIOUS
  <2>1. k \in 0 .. n - 1 /\ k \in 0 .. m - 1 /\ k <= n
    OBVIOUS
  <2>2. f[k] = g[k]
    BY <1>2, <2>1
  <2> QED
    BY <2>1, <2>2 DEF Runs
<1> HIDE DEF A
<1>3. n \in A
  BY <1>1, <1>2, Induction
<1> QED
  BY <1>3 DEF A

Steps(f, D, c, step) ==
  f \in [Nat -> D] /\ f[0] = c /\ \A n \in Nat : f[n + 1] = step[<<n, f[n]>>]

\* A recursive function exists.
LEMMA Recursion ==
  ASSUME NEW D, NEW c \in D, NEW step \in [Nat \X D -> D]
  PROVE  \E f : Steps(f, D, c, step)
<1> DEFINE Run(n) == CHOOSE f \in [0 .. n -> D] : Runs(n, f, c, step)
           h == [n \in Nat |-> Run(n)[n]]
<1>1. ASSUME NEW n \in Nat PROVE Run(n) \in [0 .. n -> D] /\ Runs(n, Run(n), c, step)
  <2>1. \E f \in [0 .. n -> D] : Runs(n, f, c, step)
    BY RunExists
  <2> QED
    BY <2>1, Zenon
<1> HIDE DEF Run
<1>2. \A n \in Nat : Run(n)[n] \in D
  <2>1. \A n \in Nat : n \in 0 .. n
    OBVIOUS
  <2> QED
    BY <1>1, <2>1
<1>3. h \in [Nat -> D] /\ \A n \in Nat : h[n] = Run(n)[n]
  BY <1>2
<1> HIDE DEF h
<1>4. h[0] = c
  BY <1>1, <1>3 DEF Runs
<1>5. ASSUME NEW n \in Nat PROVE h[n + 1] = step[<<n, h[n]>>]
  <2>1. n + 1 \in Nat /\ n <= n + 1 /\ n \in 0 .. (n + 1) - 1
    OBVIOUS
  <2>2. Runs(n, Run(n), c, step) /\ Runs(n + 1, Run(n + 1), c, step)
    BY <1>1, <2>1
  <2>3. Run(n)[n] = Run(n + 1)[n]
    BY <2>1, <2>2, RunsAgree
  <2>4. Run(n + 1)[n + 1] = step[<<n, Run(n + 1)[n]>>]
    BY <2>1, <2>2, Zenon DEF Runs
  <2> QED
    BY <1>3, <2>1, <2>3, <2>4
<1> QED
  BY <1>3, <1>4, <1>5 DEF Steps

-----------------------------------------------------------------------------
(* Powers and sums *)

LEMMA PowerIs ==
  ASSUME NEW x \in Nat
  PROVE  /\ Power(x, 0) = 1
         /\ \A n \in Nat : Power(x, n + 1) = x * Power(x, n) /\ Power(x, n) \in Nat
<1> DEFINE step == [p \in Nat \X Nat |-> x * p[2]]
           pow[i \in Nat] == IF i = 0 THEN 1 ELSE x * pow[i - 1]
           Is(f) == f = [i \in Nat |-> IF i = 0 THEN 1 ELSE x * f[i - 1]]
<1>1. step \in [Nat \X Nat -> Nat]
  <2>1. \A p \in Nat \X Nat : x * p[2] \in Nat
    OBVIOUS
  <2> QED
    BY <2>1
<1>2. PICK f \in [Nat -> Nat] : f[0] = 1 /\ \A n \in Nat : f[n + 1] = step[<<n, f[n]>>]
  <2> HIDE DEF step
  <2> HIDE DEF step
  <2>1. \E f : Steps(f, Nat, 1, step)
    BY <1>1, Recursion
  <2> QED
    BY <2>1 DEF Steps
<1>3. Is(f)
  <2>1. \A i \in Nat : f[i] = IF i = 0 THEN 1 ELSE x * f[i - 1]
    <3> SUFFICES ASSUME NEW i \in Nat PROVE f[i] = IF i = 0 THEN 1 ELSE x * f[i - 1]
      OBVIOUS
    <3>1. CASE i = 0
      BY <1>2, <3>1
    <3>2. CASE i # 0
      <4>1. i - 1 \in Nat /\ (i - 1) + 1 = i
        BY <3>2
      <4>2. f[(i - 1) + 1] = step[<<i - 1, f[i - 1]>>] /\ f[i - 1] \in Nat
        BY <1>2, <4>1
      <4> QED
        BY <3>2, <4>1, <4>2
    <3> QED
      BY <3>1, <3>2
  <2> QED
    BY <1>2, <2>1
<1>4. Is(pow)
  BY <1>3
<1> HIDE DEF pow
<1>5. pow[0] = 1 /\ \A n \in Nat : pow[n + 1] = x * pow[n]
  BY <1>4
<1> DEFINE S == {n \in Nat : pow[n] \in Nat}
<1>6. 0 \in S /\ \A n \in Nat : n \in S => n + 1 \in S
  BY <1>5
<1> HIDE DEF S
<1>7. \A n \in Nat : n \in S
  BY <1>6, Induction
<1>8. \A n : Power(x, n) = pow[n]
  BY DEF Power, pow
<1> QED
  BY <1>5, <1>7, <1>8 DEF S

LEMMA Distributes == \A a, x, y \in Int : a * (x + y) = a * x + a * y
BY SMT

\* The sum of f[1] .. f[k] is reached from 0 by adding one after the other.
Sums(g, f, k) ==
  g \in [0 .. k -> Int] /\ g[0] = 0 /\ \A i \in 1 .. k : g[i] = g[i - 1] + f[i]

LEMMA TotalIs ==
  ASSUME NEW k \in Nat, NEW f \in [1 .. k -> Int]
  PROVE  \E g : Sums(g, f, k) /\ Total(f, k) = g[k]
<1> DEFINE step == [p \in Nat \X Int |-> IF p[1] < k THEN p[2] + f[p[1] + 1] ELSE p[2]]
           upTo[i \in 0 .. k] == IF i = 0 THEN 0 ELSE upTo[i - 1] + f[i]
           Is(g) == g = [i \in 0 .. k |-> IF i = 0 THEN 0 ELSE g[i - 1] + f[i]]
<1>1. step \in [Nat \X Int -> Int]
  <2>1. ASSUME NEW p \in Nat \X Int
        PROVE  (IF p[1] < k THEN p[2] + f[p[1] + 1] ELSE p[2]) \in Int
    <3>1. p[1] \in Nat /\ p[2] \in Int
      OBVIOUS
    <3>2. p[1] < k => p[1] + 1 \in 1 .. k
      BY <3>1
    <3> QED
      BY <3>1, <3>2
  <2> QED
    BY <2>1
<1>2. PICK h \in [Nat -> Int] : h[0] = 0 /\ \A n \in Nat : h[n + 1] = step[<<n, h[n]>>]
  <2> HIDE DEF step
  <2> DEFINE D == Int
             zero == 0
  <2>0. zero \in D /\ step \in [Nat \X D -> D]
    BY <1>1
  <2> HIDE DEF D, zero
  <2>1. \E h : Steps(h, D, zero, step)
    BY <2>0, Recursion
  <2> QED
    BY <2>1 DEF Steps, D, zero
<1> DEFINE g == [i \in 0 .. k |-> h[i]]
<1>3. Is(g)
  <2>1. ASSUME NEW i \in 0 .. k PROVE h[i] = IF i = 0 THEN 0 ELSE g[i - 1] + f[i]
    <3>1. CASE i = 0
      BY <1>2, <3>1
    <3>2. CASE i # 0
      <4>1. i - 1 \in Nat /\ i - 1 \in 0 .. k /\ (i - 1) + 1 = i /\ i - 1 < k
        BY <3>2
      <4>2. h[(i - 1) + 1] = step[<<i - 1, h[i - 1]>>] /\ h[i - 1] \in Int
        BY <1>2, <4>1
      <4>3. step[<<i - 1, h[i - 1]>>] = h[i - 1] + f[i]
        BY <4>1, <4>2
      <4> QED
        BY <3>2, <4>1, <4>2, <4>3
    <3> QED
      BY <3>1, <3>2
  <2> QED
    BY <2>1
<1>4. Is(upTo)
  BY <1>3
<1> HIDE DEF upTo
<1>5. /\ upTo[0] = 0
      /\ \A i \in 1 .. k : upTo[i] = upTo[i - 1] + f[i]
  BY <1>4
<1> DEFINE S == {n \in Nat : n <= k => upTo[n] \in Int}
<1>6. 0 \in S
  BY <1>5
<1>7. ASSUME NEW n \in Nat, n \in S PROVE n + 1 \in S
  <2> SUFFICES ASSUME n + 1 <= k PROVE upTo[n + 1] \in Int
    OBVIOUS
  <2>1. n + 1 \in 1 .. k /\ (n + 1) - 1 = n /\ upTo[n] \in Int
    BY <1>7
  <2>2. upTo[n + 1] = upTo[n] + f[n + 1] /\ f[n + 1] \in Int
    BY <1>5, <2>1
  <2> QED
    BY <2>1, <2>2
<1> HIDE DEF S
<1>8. \A n \in Nat : n \in S
  BY <1>6, <1>7, Induction
<1>9. upTo \in [0 .. k -> Int]
  <2>1. \A i \in 0 .. k : upTo[i] \in Int
    BY <1>8 DEF S
  <2> QED
    BY <1>4, <2>1
<1>10. Total(f, k) = upTo[k]
  BY DEF Total, upTo
<1> QED
  BY <1>5, <1>9, <1>10 DEF Sums

LEMMA TotalInt ==
  ASSUME NEW k \in Nat, NEW f \in [1 .. k -> Int]
  PROVE  Total(f, k) \in Int
<1>1. PICK g : Sums(g, f, k) /\ Total(f, k) = g[k]
  BY TotalIs
<1> QED
  BY <1>1 DEF Sums

\* Scaling the terms and adding one more scales the sum and adds it.
LEMMA TotalScaled ==
  ASSUME NEW k \in Nat, NEW f \in [1 .. k -> Int], NEW h \in [1 .. k + 1 -> Int],
         NEW c \in Int, \A i \in 1 .. k : h[i] = c * f[i]
  PROVE  Total(h, k + 1) = c * Total(f, k) + h[k + 1]
<1>1. PICK g : Sums(g, f, k) /\ Total(f, k) = g[k]
  BY TotalIs
<1>2. PICK u : Sums(u, h, k + 1) /\ Total(h, k + 1) = u[k + 1]
  <2> DEFINE n == k + 1
  <2>1. n \in Nat /\ h \in [1 .. n -> Int]
    OBVIOUS
  <2> HIDE DEF n
  <2>2. \E u : Sums(u, h, n) /\ Total(h, n) = u[n]
    BY <2>1, TotalIs
  <2> QED
    BY <2>2 DEF n
<1> DEFINE S == {n \in Nat : n <= k => u[n] = c * g[n]}
<1>3. 0 \in S
  BY <1>1, <1>2 DEF Sums
<1>4. ASSUME NEW n \in Nat, n \in S PROVE n + 1 \in S
  <2> SUFFICES ASSUME n + 1 <= k PROVE u[n + 1] = c * g[n + 1]
    OBVIOUS
  <2>1. n + 1 \in 1 .. k /\ n + 1 \in 1 .. k + 1 /\ (n + 1) - 1 = n /\ n \in 0 .. k
    OBVIOUS
  <2>2. u[n] = c * g[n]
    BY <1>4, <2>1
  <2>3. u[n + 1] = u[n] + h[n + 1]
    BY <1>2, <2>1 DEF Sums
  <2>4. g[n + 1] = g[n] + f[n + 1]
    BY <1>1, <2>1 DEF Sums
  <2>5. h[n + 1] = c * f[n + 1]
    BY <2>1
  <2>6. g[n] \in Int /\ f[n + 1] \in Int
    BY <1>1, <2>1 DEF Sums
  <2>7. c * (g[n] + f[n + 1]) = c * g[n] + c * f[n + 1]
    BY <2>6, Distributes
  <2> QED
    BY <2>2, <2>3, <2>4, <2>5, <2>7
<1> HIDE DEF S
<1>5. k \in S
  BY <1>3, <1>4, Induction
<1>6. k + 1 \in 1 .. k + 1 /\ (k + 1) - 1 = k
  OBVIOUS
<1>7. u[k + 1] = u[k] + h[k + 1]
  BY <1>2, <1>6 DEF Sums
<1> QED
  BY <1>1, <1>2, <1>5, <1>7 DEF S

-----------------------------------------------------------------------------
(* The baseline is the weighted mean and variance of what was accepted *)

Kept == AlphaDen - AlphaNum

\* The sum of f[1] .. f[k] under the weights, over AlphaDen ^ (k - 1).
Weighted(f, k) == Total([i \in 1 .. k |-> Weight(i, k) * f[i]], k)

Values(s) == [i \in 1 .. Len(s) |-> s[i]]
Squared(s) == [i \in 1 .. Len(s) |-> s[i] * s[i]]

LEMMA Factors ==
  AlphaNum \in Nat \ {0} /\ AlphaDen \in Nat \ {0} /\ Kept \in Nat \ {0}
BY DetectorAssumption DEF Kept

LEMMA IntProduct == \A a, b \in Int : a * b \in Int
BY SMT

LEMMA Associates == \A a, b, c \in Int : (a * b) * c = a * (b * c)
BY SMT

\* One more rate makes the weight of every other smaller by the same factor.
LEMMA WeightStep ==
  ASSUME NEW k \in Nat \ {0}
  PROVE  /\ \A i \in 1 .. k : /\ Weight(i, k) \in Int
                              /\ Weight(i, k + 1) = Kept * Weight(i, k)
         /\ Weight(k + 1, k + 1) = AlphaNum * Power(AlphaDen, k - 1)
         /\ Weight(k + 1, k + 1) \in Int
         /\ Power(AlphaDen, k - 1) \in Nat /\ Power(AlphaDen, k) = AlphaDen * Power(AlphaDen, k - 1)
<1> DEFINE own(i) == IF i = 1 THEN 1 ELSE AlphaNum * Power(AlphaDen, i - 2)
<1>0. /\ AlphaNum \in Nat /\ AlphaDen \in Nat /\ Kept \in Nat
      /\ \A i, n : Weight(i, n) = Power(Kept, n - i) * own(i)
  BY Factors DEF Weight, Kept
<1>1. /\ \A n \in Nat : Power(AlphaDen, n) \in Nat /\ Power(AlphaDen, n + 1) = AlphaDen * Power(AlphaDen, n)
      /\ \A n \in Nat : Power(Kept, n) \in Nat /\ Power(Kept, n + 1) = Kept * Power(Kept, n)
      /\ Power(Kept, 0) = 1
  BY <1>0, PowerIs
<1>2. \A i \in 1 .. k + 1 : own(i) \in Int
  <2> SUFFICES ASSUME NEW i \in 1 .. k + 1 PROVE own(i) \in Int
    OBVIOUS
  <2>1. CASE i = 1
    BY <2>1
  <2>2. CASE i # 1
    <3>1. i - 2 \in Nat
      BY <2>2
    <3>2. Power(AlphaDen, i - 2) \in Nat
      BY <1>1, <3>1
    <3> QED
      BY <1>0, <2>2, <3>2, IntProduct
  <2> QED
    BY <2>1, <2>2
<1>3. k - 1 \in Nat /\ (k - 1) + 1 = k /\ (k + 1) - (k + 1) = 0 /\ (k + 1) - 2 = k - 1 /\ k + 1 # 1
  OBVIOUS
<1>4. own(k + 1) = AlphaNum * Power(AlphaDen, k - 1)
  BY <1>3
<1> HIDE DEF own
<1>5. ASSUME NEW i \in 1 .. k
      PROVE  Weight(i, k) \in Int /\ Weight(i, k + 1) = Kept * Weight(i, k)
  <2>1. k - i \in Nat /\ (k + 1) - i = (k - i) + 1 /\ i \in 1 .. k + 1
    OBVIOUS
  <2>2. Power(Kept, k - i) \in Nat /\ Power(Kept, (k + 1) - i) = Kept * Power(Kept, k - i)
    BY <1>1, <2>1
  <2>3. own(i) \in Int /\ Power(Kept, k - i) \in Int /\ Kept \in Int
    BY <1>0, <1>2, <2>1, <2>2
  <2>4. (Kept * Power(Kept, k - i)) * own(i) = Kept * (Power(Kept, k - i) * own(i))
    BY <2>3, Associates
  <2> QED
    BY <1>0, <2>2, <2>3, <2>4, IntProduct
<1>6. Weight(k + 1, k + 1) = own(k + 1) /\ own(k + 1) \in Int
  <2>1. k + 1 \in 1 .. k + 1
    OBVIOUS
  <2>2. own(k + 1) \in Int
    BY <1>2, <2>1
  <2>3. Weight(k + 1, k + 1) = 1 * own(k + 1)
    BY <1>0, <1>1, <1>3
  <2> QED
    BY <2>2, <2>3
<1>7. Power(AlphaDen, k - 1) \in Nat /\ Power(AlphaDen, k) = AlphaDen * Power(AlphaDen, k - 1)
  <2>1. Power(AlphaDen, (k - 1) + 1) = AlphaDen * Power(AlphaDen, k - 1)
    BY <1>1, <1>3
  <2> QED
    BY <1>1, <1>3, <2>1
<1> QED
  BY <1>4, <1>5, <1>6, <1>7

\* So the weighted sum shrinks by that factor, and the newest rate comes on top.
LEMMA WeightedGrows ==
  ASSUME NEW k \in Nat \ {0}, NEW f \in [1 .. k -> Int], NEW h \in [1 .. k + 1 -> Int],
         \A i \in 1 .. k : h[i] = f[i]
  PROVE  /\ Weighted(f, k) \in Int
         /\ Weighted(h, k + 1)
              = Kept * Weighted(f, k) + AlphaNum * Power(AlphaDen, k - 1) * h[k + 1]
<1> DEFINE F == [i \in 1 .. k |-> Weight(i, k) * f[i]]
           H == [i \in 1 .. k + 1 |-> Weight(i, k + 1) * h[i]]
<1>1. /\ \A i \in 1 .. k : Weight(i, k) \in Int /\ Weight(i, k + 1) = Kept * Weight(i, k)
      /\ Weight(k + 1, k + 1) = AlphaNum * Power(AlphaDen, k - 1)
      /\ Weight(k + 1, k + 1) \in Int
      /\ Kept \in Int
  <2>1. Kept \in Int
    BY Factors
  <2> HIDE DEF F, H
  <2> QED
    BY <2>1, WeightStep, Zenon
<1>2. F \in [1 .. k -> Int]
  <2>1. \A i \in 1 .. k : Weight(i, k) * f[i] \in Int
    BY <1>1, IntProduct
  <2> QED
    BY <2>1
<1>3. \A i \in 1 .. k : H[i] = Kept * F[i] /\ H[i] \in Int
  <2> SUFFICES ASSUME NEW i \in 1 .. k PROVE H[i] = Kept * F[i] /\ H[i] \in Int
    OBVIOUS
  <2>1. i \in 1 .. k + 1 /\ h[i] = f[i] /\ f[i] \in Int /\ F[i] = Weight(i, k) * f[i]
    OBVIOUS
  <2>2. H[i] = (Kept * Weight(i, k)) * f[i]
    BY <1>1, <2>1
  <2>3. (Kept * Weight(i, k)) * f[i] = Kept * (Weight(i, k) * f[i])
    BY <1>1, <2>1, Associates
  <2> HIDE DEF H
  <2> QED
    BY <1>1, <1>2, <2>1, <2>2, <2>3, IntProduct
<1>4. H[k + 1] = AlphaNum * Power(AlphaDen, k - 1) * h[k + 1] /\ H[k + 1] \in Int
  <2>1. k + 1 \in 1 .. k + 1 /\ h[k + 1] \in Int
    OBVIOUS
  <2>2. H[k + 1] = Weight(k + 1, k + 1) * h[k + 1]
    BY <2>1
  <2> HIDE DEF H
  <2> QED
    BY <1>1, <2>1, <2>2, IntProduct
<1>5. H \in [1 .. k + 1 -> Int]
  <2>1. \A i \in 1 .. k + 1 : i \in 1 .. k \/ i = k + 1
    OBVIOUS
  <2>2. \A i \in 1 .. k + 1 : H[i] \in Int
    <3> HIDE DEF H
    <3> QED
      BY <1>3, <1>4, <2>1
  <2> QED
    BY <2>2
<1>6. Weighted(f, k) = Total(F, k) /\ Weighted(h, k + 1) = Total(H, k + 1)
  BY DEF Weighted
<1> HIDE DEF F, H
<1>7. Total(H, k + 1) = Kept * Total(F, k) + H[k + 1] /\ Total(F, k) \in Int
  BY <1>1, <1>2, <1>3, <1>5, TotalScaled, TotalInt
<1> QED
  BY <1>4, <1>6, <1>7

LEMMA WeightedFew ==
  /\ \A f : Weighted(f, 0) = 0
  /\ \A f \in [1 .. 1 -> Int] : Weighted(f, 1) = f[1]
<1>1. ASSUME NEW f PROVE Weighted(f, 0) = 0
  <2> DEFINE F == [i \in 1 .. 0 |-> Weight(i, 0) * f[i]]
             zero == 0
  <2>1. F \in [1 .. zero -> Int] /\ zero \in Nat
    OBVIOUS
  <2>2. Weighted(f, 0) = Total(F, zero)
    BY DEF Weighted
  <2> HIDE DEF F, zero
  <2>3. PICK g : Sums(g, F, zero) /\ Total(F, zero) = g[zero]
    BY <2>1, TotalIs
  <2> QED
    BY <2>2, <2>3 DEF Sums, zero
<1>2. ASSUME NEW f \in [1 .. 1 -> Int] PROVE Weighted(f, 1) = f[1]
  <2> DEFINE F == [i \in 1 .. 1 |-> Weight(i, 1) * f[i]]
             one == 1
  <2>1. Weight(1, 1) = 1
    <3>1. Power(Kept, 0) = 1
      BY Factors, PowerIs
    <3> QED
      BY <3>1 DEF Weight, Kept
  <2>2. F \in [1 .. one -> Int] /\ one \in Nat /\ F[1] = f[1] /\ f[1] \in Int
    BY <2>1
  <2>3. Weighted(f, 1) = Total(F, one)
    BY DEF Weighted
  <2> HIDE DEF F, one
  <2>4. PICK g : Sums(g, F, one) /\ Total(F, one) = g[one]
    BY <2>2, TotalIs
  <2>5. g[1] = g[0] + F[1] /\ g[0] = 0
    BY <2>4 DEF Sums, one
  <2> QED
    BY <2>2, <2>3, <2>4, <2>5 DEF one
<1> QED
  BY <1>1, <1>2

\* What Later does to a weighted mean and variance: m and q are the weighted sums of
\* the rates and of their squares, and a rate v comes on top.
LEMMA LaterMean ==
  ASSUME NEW e \in Int, NEW n \in Int, NEW s \in Int, NEW m \in Int, NEW v \in Int
  PROVE  (e + n) * m + n * (v * s - m) = e * m + n * s * v
<1>1. n * (v * s - m) = n * (v * s) - n * m
  BY SMT
<1>2. (e + n) * m = e * m + n * m
  BY SMT
<1>3. n * s * v = n * (v * s)
  BY SMT
<1> QED
  BY <1>1, <1>2, <1>3, SMT

LEMMA LaterVariance ==
  ASSUME NEW e \in Int, NEW n \in Int, NEW s \in Int, NEW m \in Int, NEW q \in Int, NEW v \in Int
  PROVE  e * ((e + n) * (s * q - m * m) + n * (v * s - m) * (v * s - m))
           = ((e + n) * s) * (e * q + n * s * (v * v))
               - (e * m + n * s * v) * (e * m + n * s * v)
BY SMT

\* A baseline b that the rates s have left, and nothing else.
BaselineOf(b, s) ==
  LET k == Len(s)
  IN /\ b \in Baseline /\ s \in Seq(Rates)
     /\ b.count = k
     /\ b.scale = IF k = 0 THEN 1 ELSE Power(AlphaDen, k - 1)
     /\ b.mean = Weighted(Values(s), k)
     /\ b.variance = b.scale * Weighted(Squared(s), k) - b.mean * b.mean

WeightedInv == BaselineOf(base, folded)

LEMMA RatesAreInts ==
  ASSUME NEW s \in Seq(Rates)
  PROVE  Len(s) \in Nat /\ \A i \in 1 .. Len(s) : s[i] \in Int
<1>1. \A i \in 1 .. Len(s) : s[i] \in Rates
  OBVIOUS
<1>2. \A v \in Rates : v \in Int
  BY DetectorAssumption
<1> QED
  BY <1>1, <1>2

LEMMA NewWeighted == BaselineOf(NewKey, <<>>)
<1>1. Len(<<>>) = 0 /\ NewKey \in Baseline /\ <<>> \in Seq(Rates)
  BY DEF NewKey, Baseline
<1>2. \A f : Weighted(f, 0) = 0
  BY WeightedFew
<1> QED
  BY <1>1, <1>2 DEF BaselineOf, NewKey

LEMMA AcceptWeighted ==
  ASSUME WeightedInv, NEW v \in Rates, Accept(v)
  PROVE  WeightedInv'
<1> DEFINE k == Len(folded)
           s == base.scale
           m == base.mean
           q == Weighted(Squared(folded), k)
           f == Values(folded)
           F == Squared(folded)
           h == Values(folded')
           H == Squared(folded')
<1>1. /\ v \in Int /\ k \in Nat /\ base \in Baseline /\ base.count = k
      /\ s \in Nat \ {0} /\ m \in Int
      /\ \A i \in 1 .. k : folded[i] \in Int
  <2>1. folded \in Seq(Rates) /\ base \in Baseline /\ base.count = k
    BY DEF WeightedInv, BaselineOf
  <2>2. v \in Int
    BY DetectorAssumption
  <2> QED
    BY <2>1, <2>2, RatesAreInts DEF Baseline
<1>2. /\ folded' = Append(folded, v) /\ folded' \in Seq(Rates) /\ Len(folded') = k + 1
      /\ folded'[k + 1] = v /\ \A i \in 1 .. k : folded'[i] = folded[i]
  BY DEF Accept, WeightedInv, BaselineOf
<1>3. /\ \A i \in 1 .. k + 1 : folded'[i] \in Int
      /\ base' = Fold(base, v) /\ base' \in Baseline
  <2>1. \A i \in 1 .. k + 1 : folded'[i] \in Rates
    BY <1>2
  <2> QED
    BY <1>1, <2>1, DetectorAssumption, FoldSettles DEF Accept
<1> HIDE DEF k
<1>4. f \in [1 .. k -> Int] /\ h \in [1 .. k + 1 -> Int]
      /\ (\A i \in 1 .. k : h[i] = f[i]) /\ h[k + 1] = v
  BY <1>1, <1>2, <1>3 DEF Values, k
<1>5. F \in [1 .. k -> Int] /\ H \in [1 .. k + 1 -> Int]
      /\ (\A i \in 1 .. k : H[i] = F[i]) /\ H[k + 1] = v * v
  BY <1>1, <1>2, <1>3, IntProduct DEF Squared, k
<1>6. CASE k = 0
  <2>1. base' = First(v) /\ k + 1 = 1
    BY <1>1, <1>3, <1>6 DEF Fold
  <2>2. Weighted(h, 1) = v /\ Weighted(H, 1) = v * v
    BY <1>4, <1>5, <1>6, WeightedFew
  <2>3. Power(AlphaDen, 0) = 1
    BY Factors, PowerIs
  <2>4. v * v \in Int /\ 1 * (v * v) - v * v = 0
    BY <1>1, IntProduct
  <2> QED
    BY <1>2, <1>3, <2>1, <2>2, <2>3, <2>4 DEF WeightedInv, BaselineOf, First
<1>7. CASE k # 0
  <2>1. k \in Nat \ {0} /\ k + 1 # 0 /\ (k + 1) - 1 = k
    BY <1>1, <1>7
  <2>2. s = Power(AlphaDen, k - 1) /\ Power(AlphaDen, k) = AlphaDen * s
    BY <2>1, WeightStep DEF WeightedInv, BaselineOf, k
  <2>3. /\ Weighted(f, k) = m
        /\ base.variance = s * q - m * m
    BY DEF WeightedInv, BaselineOf, k
  <2>4. /\ Weighted(h, k + 1) = Kept * m + AlphaNum * s * v
        /\ Weighted(H, k + 1) = Kept * q + AlphaNum * s * (v * v)
        /\ q \in Int
    <3>1. Weighted(h, k + 1) = Kept * Weighted(f, k) + AlphaNum * Power(AlphaDen, k - 1) * h[k + 1]
      BY <1>4, <2>1, WeightedGrows
    <3>2. /\ Weighted(H, k + 1) = Kept * Weighted(F, k) + AlphaNum * Power(AlphaDen, k - 1) * H[k + 1]
          /\ Weighted(F, k) \in Int
      BY <1>5, <2>1, WeightedGrows
    <3> QED
      BY <1>4, <1>5, <2>2, <2>3, <3>1, <3>2
  <2> HIDE DEF q, s, m
  <2>5. base' = Later(base, v)
    BY <1>1, <1>3, <1>7 DEF Fold
  <2>6. /\ base'.count = k + 1 /\ base'.scale = AlphaDen * s
        /\ base'.mean = AlphaDen * m + AlphaNum * (v * s - m)
        /\ base'.variance = Kept * (AlphaDen * (s * q - m * m)
                                      + AlphaNum * (v * s - m) * (v * s - m))
    BY <1>1, <2>3, <2>5, Zenon DEF Later, Above, Kept, s, m
  <2>7. Kept \in Int /\ AlphaNum \in Int /\ AlphaDen = Kept + AlphaNum /\ s \in Int
    BY <1>1, DetectorAssumption DEF Kept
  <2>8. base'.mean = Weighted(h, k + 1)
    BY <1>1, <2>4, <2>6, <2>7, LaterMean
  <2>9. base'.variance = base'.scale * Weighted(H, k + 1) - base'.mean * base'.mean
    <3>1. Kept * ((Kept + AlphaNum) * (s * q - m * m) + AlphaNum * (v * s - m) * (v * s - m))
            = ((Kept + AlphaNum) * s) * (Kept * q + AlphaNum * s * (v * v))
                - (Kept * m + AlphaNum * s * v) * (Kept * m + AlphaNum * s * v)
      BY <1>1, <2>4, <2>7, LaterVariance
    <3> QED
      BY <2>4, <2>6, <2>7, <2>8, <3>1
  <2> QED
    BY <1>2, <1>3, <2>1, <2>2, <2>6, <2>8, <2>9 DEF WeightedInv, BaselineOf
<1> QED
  BY <1>6, <1>7

LEMMA NextWeighted == WeightedInv /\ [Next]_vars => WeightedInv'
<1> SUFFICES ASSUME WeightedInv, [Next]_vars PROVE WeightedInv'
  OBVIOUS
<1>1. CASE Restart
  BY <1>1, NewWeighted DEF Restart, WeightedInv
<1>2. ASSUME NEW v \in Rates, Refuse(v) PROVE WeightedInv'
  BY <1>2 DEF Refuse, WeightedInv
<1>3. ASSUME NEW v \in Rates, Accept(v) PROVE WeightedInv'
  BY <1>3, AcceptWeighted
<1>4. CASE UNCHANGED vars
  BY <1>4 DEF vars, WeightedInv
<1> QED
  BY <1>1, <1>2, <1>3, <1>4 DEF Next

\* For any smoothing and any history, the baseline is the exponentially weighted mean
\* and variance of exactly the rates that were accepted since the worker's start
\* (detector.js:2, 59-71).
THEOREM BaselineStaysWeighted == Spec => []BaselineIsWeighted
<1>1. WeightedInv => BaselineIsWeighted
  <2> SUFFICES ASSUME WeightedInv PROVE BaselineIsWeighted
    OBVIOUS
  <2> DEFINE k == Len(folded)
  <2>1. k \in Nat /\ \A i \in 1 .. k : folded[i] \in Int
    BY RatesAreInts DEF WeightedInv, BaselineOf
  <2>2. Weighted(Values(folded), k) = Total([i \in 1 .. k |-> Weight(i, k) * folded[i]], k)
    BY DEF Weighted, Values
  <2>3. [i \in 1 .. k |-> Weight(i, k) * Squared(folded)[i]]
          = [i \in 1 .. k |-> Weight(i, k) * folded[i] * folded[i]]
    <3> SUFFICES ASSUME NEW i \in 1 .. k
                 PROVE  Weight(i, k) * Squared(folded)[i] = Weight(i, k) * folded[i] * folded[i]
      OBVIOUS
    <3>1. Squared(folded)[i] = folded[i] * folded[i] /\ k \in Nat \ {0} /\ folded[i] \in Int
      BY <2>1 DEF Squared
    <3>2. Weight(i, k) \in Int
      BY <3>1, WeightStep
    <3> QED
      BY <3>1, <3>2, Associates
  <2>4. Weighted(Squared(folded), k)
          = Total([i \in 1 .. k |-> Weight(i, k) * folded[i] * folded[i]], k)
    BY <2>3 DEF Weighted
  <2> QED
    BY <2>2, <2>4 DEF WeightedInv, BaselineOf, BaselineIsWeighted
<1>2. Init => WeightedInv
  BY NewWeighted DEF Init, WeightedInv
<1> QED
  BY <1>1, <1>2, NextWeighted, PTL DEF Spec
===============================================================================
