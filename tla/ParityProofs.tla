----------------------------- MODULE ParityProofs -----------------------------
(***************************************************************************)
(* The Lua scripts and the in-process limiter give the same replies, for   *)
(* any number of calls by rules that agree on the window length and whose  *)
(* buckets are full when they expire.                                      *)
(*                                                                         *)
(* RepliesAgree is about the next reply only.  What carries it from call   *)
(* to call is that the array and the sorted set pair off, entry by entry,  *)
(* and that the Map and the hash hold the same tokens (WindowPair and      *)
(* BucketPair).                                                            *)
(***************************************************************************)
EXTENDS LimiterParity, SequenceTheorems, FiniteSetTheorems, WellFoundedInduction, TLAPS

UsesBucket(r) == r.strategy \in {"token_bucket", "hybrid"}
UsesWindow(r) == r.strategy \in {"sliding_window", "hybrid"}

\* All windows for the key are of one length ...
OneWindow ==
  \A r, q \in Rules : UsesWindow(r) /\ UsesWindow(q) => r.windowMs = q.windowMs

\* ... and a bucket saved by one rule would be full by any other when it expires,
\* as it always is when they agree on limit and burst.
FullOnExpiry ==
  \A r, q \in Rules : UsesBucket(r) /\ UsesBucket(q) =>
    TtlMs(r) * RefillPerMs(q) >= CapacityUnits(q)

W == (CHOOSE r \in Rules : UsesWindow(r)).windowMs

-----------------------------------------------------------------------------
(* Arithmetic *)

LEMMA NatProduct == \A a, c \in Nat : a * c \in Nat
OBVIOUS

LEMMA PosProduct == \A a, c \in Nat \ {0} : a * c \in Nat \ {0}
OBVIOUS

LEMMA ProductMonotonic == \A a, c, r \in Nat : a <= c => a * r <= c * r
OBVIOUS

LEMMA CeilDivNat == \A a \in Nat, c \in Nat \ {0} : CeilDiv(a, c) \in Nat
BY DEF CeilDiv

LEMMA RuleNumbers ==
  ASSUME NEW r \in Rules
  PROVE  /\ r.limit \in Nat \ {0} /\ r.windowMs \in Nat \ {0} /\ r.cost \in Nat \ {0}
         /\ r.strategy \in Strategy
         /\ RefillPerMs(r) \in Nat \ {0}
         /\ CapacityUnits(r) \in Nat /\ CostUnits(r) \in Nat
         /\ TtlMs(r) \in Nat
         /\ TokenUnit \in Nat \ {0}
<1>1. /\ r.limit \in Nat \ {0} /\ r.windowMs \in Nat \ {0} /\ r.cost \in Nat \ {0}
      /\ r.burst \in Nat /\ r.strategy \in Strategy
  BY ParityAssumption DEF RuleSchema
<1>2. TokenUnit \in Nat \ {0} /\ TokenUnit % r.windowMs = 0
  BY ParityAssumption
<1>3. TokenUnit \div r.windowMs \in Nat \ {0}
  BY <1>1, <1>2
<1>4. RefillPerMs(r) \in Nat \ {0}
  BY <1>1, <1>3, PosProduct DEF RefillPerMs
<1>5. CapacityUnits(r) \in Nat
  BY <1>1, <1>2, NatProduct DEF CapacityUnits, Capacity
<1>6. CostUnits(r) \in Nat
  BY <1>1, <1>2, NatProduct DEF CostUnits
<1>7. TtlMs(r) \in Nat
  <2>1. CeilDiv(CapacityUnits(r), RefillPerMs(r)) \in Nat
    BY <1>4, <1>5, CeilDivNat
  <2> QED
    BY <2>1, <1>1 DEF TtlMs, Larger
<1> QED
  BY <1>1, <1>2, <1>4, <1>5, <1>6, <1>7

LEMMA WindowLength ==
  ASSUME OneWindow, NEW r \in Rules, UsesWindow(r)
  PROVE  r.windowMs = W /\ W \in Nat \ {0}
BY RuleNumbers DEF OneWindow, W

\* A non-empty set of naturals has a least member.
Below == {p \in Nat \X Nat : p[1] < p[2]}

LEMMA LeastNat ==
  ASSUME NEW T \in SUBSET Nat, T # {}
  PROVE  \E x \in T : \A y \in T : x <= y
<1>1. Below = OpToRel(<, Nat)
  BY Zenon DEF Below, OpToRel
<1>2. IsWellFoundedOn(Below, Nat)
  BY <1>1, NatLessThanWellFounded, Zenon
<1>3. PICK x \in T : \A y \in T : ~ (<<y, x>> \in Below)
  BY <1>2, WFMin, Zenon
<1>4. ASSUME NEW y \in T PROVE x <= y
  <2>1. x \in Nat /\ y \in Nat /\ <<y, x>> \notin Below
    BY <1>3
  <2>2. <<y, x>> \in Nat \X Nat /\ <<y, x>>[1] = y /\ <<y, x>>[2] = x
    BY <2>1
  <2>3. ~(y < x)
    BY <2>1, <2>2, Zenon DEF Below
  <2> QED
    BY <2>1, <2>3
<1> QED
  BY <1>4

-----------------------------------------------------------------------------
(* The windows *)

InOrder(h) == \A i, j \in 1 .. Len(h) : i <= j => h[i] <= h[j]

\* What the filter keeps of hits that are in order are the last ones.
LEMMA LiveIs ==
  ASSUME NEW h \in Seq(Nat), InOrder(h), NEW r \in Rules, NEW at \in Nat
  PROVE  \E d \in 0 .. Len(h) :
           /\ \A i \in 1 .. Len(h) : h[i] > at - r.windowMs <=> i > d
           /\ Memory!LiveHits(h, r, at) \in Seq(Nat)
           /\ Len(Memory!LiveHits(h, r, at)) = Len(h) - d
           /\ \A k \in 1 .. Len(h) - d : Memory!LiveHits(h, r, at)[k] = h[d + k]
<1> DEFINE cut == at - r.windowMs
           Dead(d) == \A i \in 1 .. Len(h) : h[i] > cut <=> i > d
           live == {i \in 1 .. Len(h) + 1 : i <= Len(h) => h[i] > cut}
           dead == CHOOSE d \in 0 .. Len(h) : Dead(d)
<1>1. /\ Len(h) \in Nat /\ DOMAIN h = 1 .. Len(h)
      /\ \A i \in 1 .. Len(h) : h[i] \in Nat
      /\ cut \in Int
  BY RuleNumbers
<1> HIDE DEF cut
<1>2. \E d \in 0 .. Len(h) : Dead(d)
  <2>1. live \in SUBSET Nat /\ Len(h) + 1 \in live
    BY <1>1
  <2>2. PICK x \in live : \A y \in live : x <= y
    BY <2>1, LeastNat
  <2>3. x \in 1 .. Len(h) + 1
    OBVIOUS
  <2>4. ASSUME NEW i \in 1 .. Len(h), i < x PROVE ~(h[i] > cut)
    BY <1>1, <2>2, <2>3, <2>4
  <2>5. ASSUME NEW i \in 1 .. Len(h), i >= x PROVE h[i] > cut
    <3>1. x \in 1 .. Len(h) /\ h[x] > cut
      BY <1>1, <2>2, <2>3, <2>5
    <3>2. h[x] <= h[i]
      BY <2>5, <3>1 DEF InOrder
    <3> QED
      BY <1>1, <3>1, <3>2
  <2>6. x - 1 \in 0 .. Len(h) /\ Dead(x - 1)
    BY <1>1, <2>3, <2>4, <2>5
  <2> QED
    BY <2>6
<1>3. dead \in 0 .. Len(h) /\ Dead(dead)
  BY <1>2
<1>4. Memory!LiveHits(h, r, at) = SubSeq(h, dead + 1, Len(h))
  BY <1>1 DEF Memory!LiveHits, cut
<1> HIDE DEF dead, Dead, live
<1>5. \A i \in dead + 1 .. Len(h) : h[i] \in Nat
  BY <1>1, <1>3
<1>6. /\ SubSeq(h, dead + 1, Len(h)) \in Seq(Nat)
      /\ Len(SubSeq(h, dead + 1, Len(h))) = Len(h) - dead
      /\ \A k \in 1 .. Len(h) - dead : SubSeq(h, dead + 1, Len(h))[k] = h[dead + k]
  <2>1. dead + 1 \in Int /\ Len(h) \in Int
    BY <1>1, <1>3
  <2> DEFINE kept == SubSeq(h, dead + 1, Len(h))
  <2>2. /\ kept \in Seq(Nat)
        /\ Len(kept) = IF dead + 1 <= Len(h) THEN Len(h) - (dead + 1) + 1 ELSE 0
        /\ \A i \in 1 .. Len(h) - (dead + 1) + 1 : kept[i] = h[(dead + 1) + i - 1]
    BY <1>5, <2>1, SubSeqProperties
  <2> HIDE DEF kept
  <2>3. dead \in Nat /\ Len(h) \in Nat /\ dead <= Len(h)
    BY <1>1, <1>3
  <2>4. Len(kept) = Len(h) - dead
    BY <2>2, <2>3
  <2>5. ASSUME NEW k \in 1 .. Len(h) - dead PROVE kept[k] = h[dead + k]
    <3>1. k \in 1 .. Len(h) - (dead + 1) + 1 /\ (dead + 1) + k - 1 = dead + k
      BY <2>3
    <3> QED
      BY <2>2, <3>1
  <2> QED
    BY <2>2, <2>4, <2>5 DEF kept
<1>7. \A i \in 1 .. Len(h) : h[i] > at - r.windowMs <=> i > dead
  BY <1>3 DEF Dead, cut
<1> QED
  BY <1>3, <1>4, <1>6, <1>7

\* The array of admission times and the sorted set pair off, one to one and at the
\* same times; both lie in the past, and the set does not expire before its entries.
Pairs(w, h) ==
  \E f \in Bijection(1 .. Len(h), w.entries) : \A i \in 1 .. Len(h) : f[i].score = h[i]

WindowPair(w, h, at, ids) ==
  /\ h \in Seq(Nat) /\ InOrder(h)
  /\ w.expireAt \in Int
  /\ \A i \in 1 .. Len(h) : h[i] <= at /\ h[i] + W <= w.expireAt
  /\ \A m \in w.entries : m.id \in 0 .. ids - 1
  /\ Pairs(w, h)

\* Pairs are equally many, and the first of the array is the oldest of the set.
LEMMA PairCounts ==
  ASSUME NEW w, NEW h, NEW at, NEW ids, WindowPair(w, h, at, ids)
  PROVE  /\ IsFiniteSet(w.entries) /\ Cardinality(w.entries) = Len(h)
         /\ w.entries = {} <=> h = <<>>
         /\ h # <<>> => Head(h) = Oldest(w.entries)
<1>1. /\ Len(h) \in Nat /\ h \in [1 .. Len(h) -> Nat]
      /\ h = <<>> <=> Len(h) = 0
  BY DEF WindowPair
<1>2. PICK f \in Bijection(1 .. Len(h), w.entries) : \A i \in 1 .. Len(h) : f[i].score = h[i]
  BY DEF WindowPair, Pairs
<1>3. /\ \A i \in 1 .. Len(h) : f[i] \in w.entries
      /\ \A m \in w.entries : \E i \in 1 .. Len(h) : m = f[i]
  BY <1>2 DEF Bijection, Injection, Surjection
<1>4. IsFiniteSet(w.entries) /\ Cardinality(w.entries) = Len(h)
  <2>1. IsFiniteSet(1 .. Len(h)) /\ Cardinality(1 .. Len(h)) = Len(h)
    BY <1>1, FS_Interval
  <2>2. ExistsBijection(1 .. Len(h), w.entries)
    BY Zenon DEF ExistsBijection
  <2> QED
    BY <2>1, <2>2, FS_Bijection, Zenon
<1>5. w.entries = {} <=> h = <<>>
  BY <1>1, <1>4, FS_EmptySet
<1>6. ASSUME h # <<>> PROVE Head(h) = Oldest(w.entries)
  <2> DEFINE T == {m.score : m \in w.entries}
  <2>1. 1 \in 1 .. Len(h) /\ Head(h) = h[1] /\ h[1] \in Nat
    BY <1>1, <1>6
  <2>2. h[1] \in T /\ \A m \in w.entries : h[1] <= m.score /\ m.score \in Nat
    <3>1. h[1] = f[1].score /\ f[1] \in w.entries
      BY <1>2, <1>3, <2>1
    <3>2. ASSUME NEW m \in w.entries PROVE h[1] <= m.score /\ m.score \in Nat
      <4>1. PICK i \in 1 .. Len(h) : m = f[i]
        BY <1>3
      <4>2. m.score = h[i] /\ 1 <= i
        BY <1>2, <4>1
      <4> QED
        BY <1>1, <2>1, <4>2 DEF WindowPair, InOrder
    <3> QED
      BY <3>1, <3>2
  <2>3. \A s \in T : (\A m \in w.entries : s <= m.score) => s = h[1]
    <3> SUFFICES ASSUME NEW s \in T, \A m \in w.entries : s <= m.score PROVE s = h[1]
      OBVIOUS
    <3>1. s \in Nat /\ s <= h[1] /\ h[1] <= s
      BY <2>2
    <3> QED
      BY <2>1, <3>1
  <2>4. Oldest(w.entries) = CHOOSE s \in T : \A m \in w.entries : s <= m.score
    BY DEF Oldest
  <2>5. Oldest(w.entries) = h[1]
    BY <2>2, <2>3, <2>4
  <2> QED
    BY <2>1, <2>5
<1> QED
  BY <1>4, <1>5, <1>6

\* The filter and the trim drop the same ones, and an expired set was empty anyway.
LEMMA TrimPairs ==
  ASSUME NEW w, NEW h, NEW at \in Nat, NEW ids, WindowPair(w, h, at, ids),
         NEW r \in Rules, r.windowMs = W
  PROVE  LET live  == Memory!LiveHits(h, r, at)
             kept  == [entries |-> Kept(w, r, at), expireAt |-> at + W]
         IN /\ WindowPair(kept, live, at, ids)
            /\ \A i \in 1 .. Len(live) : live[i] > at - W
<1> DEFINE live == Memory!LiveHits(h, r, at)
           K    == Kept(w, r, at)
           kept == [entries |-> K, expireAt |-> at + W]
<1>1. PICK d \in 0 .. Len(h) :
        /\ \A i \in 1 .. Len(h) : h[i] > at - r.windowMs <=> i > d
        /\ live \in Seq(Nat)
        /\ Len(live) = Len(h) - d
        /\ \A k \in 1 .. Len(h) - d : live[k] = h[d + k]
  BY LiveIs DEF WindowPair
<1> HIDE DEF live
<1>2. /\ Len(h) \in Nat /\ W \in Nat \ {0} /\ w.expireAt \in Int
      /\ \A i \in 1 .. Len(h) : h[i] \in Nat /\ h[i] <= at /\ h[i] + W <= w.expireAt
      /\ Len(live) \in Nat
      /\ \A k \in 1 .. Len(live) : d + k \in 1 .. Len(h) /\ live[k] = h[d + k]
  BY <1>1, RuleNumbers DEF WindowPair
<1>3. PICK f \in Bijection(1 .. Len(h), w.entries) : \A i \in 1 .. Len(h) : f[i].score = h[i]
  BY DEF WindowPair, Pairs
<1>4. /\ \A i \in 1 .. Len(h) : f[i] \in w.entries
      /\ \A m \in w.entries : \E i \in 1 .. Len(h) : m = f[i]
      /\ \A i, j \in 1 .. Len(h) : f[i] = f[j] => i = j
  BY <1>3 DEF Bijection, Injection, Surjection, IsInjective
<1>5. \A i \in 1 .. Len(h) : f[i] \in K <=> i > d
  <2> SUFFICES ASSUME NEW i \in 1 .. Len(h) PROVE f[i] \in K <=> i > d
    OBVIOUS
  <2>1. f[i] \in w.entries /\ f[i].score = h[i] /\ (h[i] > at - W <=> i > d)
    BY <1>1, <1>3, <1>4
  <2>2. f[i] \in K <=> at <= w.expireAt /\ h[i] > at - W
    BY <2>1 DEF Kept, Present
  <2>3. h[i] > at - W => at <= w.expireAt
    BY <1>2
  <2> QED
    BY <2>1, <2>2, <2>3
<1>6. K \in SUBSET w.entries
  BY DEF Kept
<1> HIDE DEF K
<1>7. Pairs(kept, live)
  <2> DEFINE g == [k \in 1 .. Len(live) |-> f[d + k]]
  <2>1. \A k \in 1 .. Len(live) : g[k] \in K /\ g[k].score = live[k]
    BY <1>1, <1>2, <1>3, <1>5
  <2>2. \A k, l \in 1 .. Len(live) : g[k] = g[l] => k = l
    <3> SUFFICES ASSUME NEW k \in 1 .. Len(live), NEW l \in 1 .. Len(live), g[k] = g[l]
                 PROVE  k = l
      OBVIOUS
    <3>1. f[d + k] = f[d + l] /\ d + k \in 1 .. Len(h) /\ d + l \in 1 .. Len(h)
      BY <1>2
    <3>2. d + k = d + l
      BY <1>4, <3>1
    <3> QED
      BY <1>1, <3>2
  <2>3. \A m \in K : \E k \in 1 .. Len(live) : g[k] = m
    <3> SUFFICES ASSUME NEW m \in K PROVE \E k \in 1 .. Len(live) : g[k] = m
      OBVIOUS
    <3>1. PICK i \in 1 .. Len(h) : m = f[i]
      BY <1>4, <1>6
    <3>2. i > d
      BY <1>5, <3>1
    <3>3. i - d \in 1 .. Len(live) /\ d + (i - d) = i
      BY <1>1, <1>2, <3>2
    <3> QED
      BY <3>1, <3>3
  <2>4. g \in [1 .. Len(live) -> K]
    BY <2>1
  <2> HIDE DEF g
  <2>5. g \in Bijection(1 .. Len(live), K)
    BY <2>2, <2>3, <2>4 DEF Bijection, Injection, Surjection, IsInjective
  <2> QED
    BY <2>1, <2>5 DEF Pairs
<1>8. InOrder(live)
  <2> SUFFICES ASSUME NEW i \in 1 .. Len(live), NEW j \in 1 .. Len(live), i <= j
               PROVE  live[i] <= live[j]
    BY DEF InOrder
  <2>1. /\ d + i \in 1 .. Len(h) /\ d + j \in 1 .. Len(h) /\ d + i <= d + j
        /\ live[i] = h[d + i] /\ live[j] = h[d + j]
    BY <1>1, <1>2
  <2> QED
    BY <2>1 DEF InOrder, WindowPair
<1>9. \A i \in 1 .. Len(live) : live[i] <= at /\ live[i] + W <= at + W /\ live[i] > at - W
  BY <1>1, <1>2
<1>10. \A m \in K : m.id \in 0 .. ids - 1
  BY <1>6 DEF WindowPair
<1> QED
  BY <1>1, <1>2, <1>7, <1>8, <1>9, <1>10 DEF WindowPair, live, K

\* Pushing the time and adding the members of a new call keeps them paired.
LEMMA PushPairs ==
  ASSUME NEW e, NEW h, NEW at \in Nat, NEW ids \in Nat, NEW r \in Rules, r.windowMs = W,
         WindowPair([entries |-> e, expireAt |-> at + W], h, at, ids)
  PROVE  LET pushed == Memory!Pushed(h, r, at)
         IN /\ WindowPair([entries |-> ZAdd(e, ids, r, at), expireAt |-> at + W],
                          pushed, at, ids + 1)
            /\ Len(pushed) = Len(h) + r.cost
<1> DEFINE pushed == Memory!Pushed(h, r, at)
           new    == [i \in 1 .. r.cost |-> at]
           added  == ZAdd(e, ids, r, at)
           n      == Len(h)
<1>1. /\ r.cost \in Nat \ {0} /\ n \in Nat /\ W \in Nat
      /\ h \in Seq(Nat) /\ \A i \in 1 .. n : h[i] \in Nat /\ h[i] <= at
  BY RuleNumbers DEF WindowPair
<1>2. new \in Seq(Nat) /\ Len(new) = r.cost /\ \A i \in 1 .. r.cost : new[i] = at
  BY <1>1
<1>3. /\ pushed \in Seq(Nat) /\ Len(pushed) = n + r.cost
      /\ \A i \in 1 .. n + r.cost : pushed[i] = IF i <= n THEN h[i] ELSE at
  <2>1. pushed = h \o new
    BY DEF Memory!Pushed
  <2> HIDE DEF new, pushed
  <2>2. /\ pushed \in Seq(Nat) /\ Len(pushed) = n + r.cost
        /\ \A i \in 1 .. n + r.cost : pushed[i] = IF i <= n THEN h[i] ELSE new[i - n]
    BY <1>1, <1>2, <2>1, ConcatProperties
  <2>3. \A i \in 1 .. n + r.cost : i > n => i - n \in 1 .. r.cost
    BY <1>1
  <2> QED
    <3>1. ASSUME NEW i \in 1 .. n + r.cost
          PROVE  pushed[i] = IF i <= n THEN h[i] ELSE at
      <4>1. CASE i <= n
        BY <2>2, <4>1
      <4>2. CASE ~(i <= n)
        <5>1. i - n \in 1 .. r.cost
          BY <1>1, <2>3, <4>2
        <5> QED
          BY <1>2, <2>2, <4>2, <5>1
      <4> QED
        BY <4>1, <4>2
    <3> QED
      BY <2>2, <3>1
<1> HIDE DEF new, pushed
<1>4. PICK f \in Bijection(1 .. n, e) : \A i \in 1 .. n : f[i].score = h[i]
  BY DEF WindowPair, Pairs
<1>5. /\ \A i \in 1 .. n : f[i] \in e
      /\ \A m \in e : \E i \in 1 .. n : m = f[i]
      /\ \A i, j \in 1 .. n : f[i] = f[j] => i = j
      /\ \A m \in e : m.id \in 0 .. ids - 1 /\ m.id # ids
  <2>1. \A m \in e : m.id \in 0 .. ids - 1
    BY DEF WindowPair
  <2>2. \A m \in e : m.id # ids
    BY <2>1
  <2> QED
    BY <1>4, <2>1, <2>2 DEF Bijection, Injection, Surjection, IsInjective
<1>6. added = e \cup {[id |-> ids, n |-> k, score |-> at] : k \in 1 .. r.cost}
  BY <1>5 DEF ZAdd, Logged
<1> HIDE DEF added
<1>7. Pairs([entries |-> added, expireAt |-> at + W], pushed)
  <2> DEFINE E(i) == IF i <= n THEN f[i] ELSE [id |-> ids, n |-> i - n, score |-> at]
             g == [i \in 1 .. n + r.cost |-> E(i)]
  <2>1. \A i \in 1 .. n + r.cost : i > n => i - n \in 1 .. r.cost
    BY <1>1
  <2>2. \A i \in 1 .. n + r.cost : i <= n => i \in 1 .. n
    BY <1>1
  <2>3. \A i \in 1 .. n + r.cost : E(i) \in added /\ E(i).score = pushed[i]
    <3> SUFFICES ASSUME NEW i \in 1 .. n + r.cost
                 PROVE  E(i) \in added /\ E(i).score = pushed[i]
      OBVIOUS
    <3>1. CASE i <= n
      <4>1. i \in 1 .. n /\ E(i) = f[i] /\ pushed[i] = h[i]
        BY <1>3, <2>2, <3>1
      <4> QED
        BY <1>4, <1>5, <1>6, <4>1
    <3>2. CASE ~(i <= n)
      <4>1. i - n \in 1 .. r.cost /\ pushed[i] = at
        BY <1>1, <1>3, <2>1, <3>2
      <4>2. E(i) = [id |-> ids, n |-> i - n, score |-> at]
        BY <3>2
      <4> QED
        BY <1>6, <4>1, <4>2
    <3> QED
      BY <3>1, <3>2
  <2>4. \A i, j \in 1 .. n + r.cost : E(i) = E(j) => i = j
    <3> SUFFICES ASSUME NEW i \in 1 .. n + r.cost, NEW j \in 1 .. n + r.cost, E(i) = E(j)
                 PROVE  i = j
      OBVIOUS
    <3>1. CASE i <= n /\ j <= n
      BY <1>5, <2>2, <3>1
    <3>2. CASE i > n /\ j > n
      <4>1. i - n = j - n
        BY <1>1, <3>2
      <4> QED
        BY <1>1, <4>1
    <3>3. CASE i <= n /\ j > n
      <4>1. E(i).id # ids /\ E(j).id = ids
        BY <1>1, <1>5, <2>2, <3>3
      <4> QED
        BY <4>1
    <3>4. CASE i > n /\ j <= n
      <4>1. E(j).id # ids /\ E(i).id = ids
        BY <1>1, <1>5, <2>2, <3>4
      <4> QED
        BY <4>1
    <3> QED
      BY <1>1, <3>1, <3>2, <3>3, <3>4
  <2>5. \A m \in added : \E i \in 1 .. n + r.cost : E(i) = m
    <3> SUFFICES ASSUME NEW m \in added PROVE \E i \in 1 .. n + r.cost : E(i) = m
      OBVIOUS
    <3>1. CASE m \in e
      <4>1. PICK i \in 1 .. n : m = f[i]
        BY <1>5, <3>1
      <4>2. i \in 1 .. n + r.cost /\ E(i) = m
        BY <1>1, <4>1
      <4> QED
        BY <4>2
    <3>2. ASSUME NEW k \in 1 .. r.cost, m = [id |-> ids, n |-> k, score |-> at]
          PROVE  \E i \in 1 .. n + r.cost : E(i) = m
      <4>1. n + k \in 1 .. n + r.cost /\ ~(n + k <= n) /\ (n + k) - n = k
        BY <1>1
      <4>2. E(n + k) = m
        BY <3>2, <4>1
      <4> QED
        BY <4>1, <4>2
    <3> QED
      BY <1>6, <3>1, <3>2
  <2> HIDE DEF E
  <2>6. g \in [1 .. n + r.cost -> added] /\ \A i \in 1 .. n + r.cost : g[i] = E(i)
    BY <2>3
  <2> HIDE DEF g
  <2>7. g \in Bijection(1 .. n + r.cost, added)
    BY <2>4, <2>5, <2>6 DEF Bijection, Injection, Surjection, IsInjective
  <2> QED
    BY <1>3, <2>3, <2>6, <2>7 DEF Pairs
<1>8. ASSUME NEW i \in 1 .. n + r.cost
      PROVE  pushed[i] \in Nat /\ pushed[i] <= at /\ pushed[i] + W <= at + W
  <2>1. pushed[i] = IF i <= n THEN h[i] ELSE at
    BY <1>3
  <2>2. CASE i <= n
    <3>1. i \in 1 .. n
      BY <1>1, <2>2
    <3> QED
      BY <1>1, <2>1, <2>2, <3>1
  <2>3. CASE ~(i <= n)
    BY <1>1, <2>1, <2>3
  <2> QED
    BY <2>2, <2>3
<1>9. InOrder(pushed)
  <2> SUFFICES ASSUME NEW i \in 1 .. n + r.cost, NEW j \in 1 .. n + r.cost, i <= j
               PROVE  pushed[i] <= pushed[j]
    BY <1>3 DEF InOrder
  <2>1. CASE j <= n
    <3>1. i \in 1 .. n /\ j \in 1 .. n /\ i <= n
      BY <1>1, <2>1
    <3>2. pushed[i] = h[i] /\ pushed[j] = h[j]
      BY <1>3, <2>1, <3>1
    <3>3. InOrder(h)
      BY DEF WindowPair
    <3> QED
      BY <3>1, <3>2, <3>3 DEF InOrder
  <2>2. CASE ~(j <= n)
    BY <1>3, <1>8, <2>2
  <2> QED
    BY <2>1, <2>2
<1>10. \A m \in added : m.id \in 0 .. (ids + 1) - 1
  BY <1>5, <1>6
<1> QED
  BY <1>1, <1>3, <1>7, <1>8, <1>9, <1>10 DEF WindowPair, pushed, added

-----------------------------------------------------------------------------
(* The buckets *)

\* Both sides read the same rule.
LEMMA SameRule ==
  /\ \A r : /\ Memory!CapacityUnits(r) = CapacityUnits(r)
            /\ Memory!CostUnits(r) = CostUnits(r)
            /\ Memory!RefillPerMs(r) = RefillPerMs(r)
  /\ \A x, y : /\ Memory!Larger(x, y) = Larger(x, y)
               /\ Memory!Smaller(x, y) = Smaller(x, y)
               /\ Memory!CeilDiv(x, y) = CeilDiv(x, y)
BY DEF Memory!CapacityUnits, Memory!Capacity, CapacityUnits, Capacity,
       Memory!CostUnits, CostUnits, Memory!RefillPerMs, RefillPerMs,
       Memory!Larger, Larger, Memory!Smaller, Smaller, Memory!CeilDiv, CeilDiv

\* The hash and the Map's entry hold the same tokens since the same instant, and
\* the hash expires as some rule that saved it says.
BucketPair(t, m, at) ==
  \/ m = Memory!NoEntry /\ t.expireAt = -1
  \/ /\ m # Memory!NoEntry /\ m.tokens \in Nat /\ m.ts \in 0 .. at
     /\ t.tokens = m.tokens /\ t.ts = m.ts
     /\ \E q \in Rules : UsesBucket(q) /\ t.expireAt = m.ts + TtlMs(q)

\* They refill to the same level, whether the hash is still there or expired.
LEMMA SameLevel ==
  ASSUME FullOnExpiry, NEW t, NEW m, NEW at \in Nat, BucketPair(t, m, at),
         NEW r \in Rules, UsesBucket(r)
  PROVE  /\ Refilled(t, r, at) = Memory!TopUp(m, r, at)
         /\ Refilled(t, r, at) \in 0 .. CapacityUnits(r)
<1> DEFINE full == CapacityUnits(r)
           rate == RefillPerMs(r)
           grown == m.tokens + Larger(0, at - m.ts) * rate
<1>1. full \in Nat /\ rate \in Nat
  BY RuleNumbers
<1>2. Memory!TopUp(m, r, at) = IF m = Memory!NoEntry THEN full ELSE Smaller(full, grown)
  BY SameRule DEF Memory!TopUp
<1>3. CASE m = Memory!NoEntry /\ t.expireAt = -1
  <2>1. Refilled(t, r, at) = full
    BY <1>3 DEF Refilled, Present
  <2> HIDE DEF full
  <2> QED
    BY <1>1, <1>2, <1>3, <2>1 DEF full
<1>4. ASSUME NEW q \in Rules, UsesBucket(q), m # Memory!NoEntry, m.tokens \in Nat,
             m.ts \in 0 .. at, t.tokens = m.tokens, t.ts = m.ts, t.expireAt = m.ts + TtlMs(q)
      PROVE  Refilled(t, r, at) = Smaller(full, grown) /\ Smaller(full, grown) \in 0 .. full
  <2> DEFINE n == at - m.ts
  <2>1. n \in Nat /\ Larger(0, at - m.ts) = n /\ TtlMs(q) \in Nat
    BY <1>4, RuleNumbers DEF Larger
  <2>2. Refilled(t, r, at) = IF n <= TtlMs(q) THEN Smaller(full, grown) ELSE full
    <3>1. at <= t.expireAt <=> n <= TtlMs(q)
      BY <1>4, <2>1
    <3> QED
      BY <1>4, <3>1 DEF Refilled, Present
  <2>3. TtlMs(q) * rate >= full
    BY <1>4 DEF FullOnExpiry
  <2>4. grown = m.tokens + n * rate
    BY <2>1
  <2> HIDE DEF full, rate, n, grown
  <2>5. n * rate \in Nat /\ TtlMs(q) * rate \in Nat
    BY <1>1, <2>1, NatProduct
  <2>6. n > TtlMs(q) => n * rate >= TtlMs(q) * rate
    BY <1>1, <2>1, ProductMonotonic
  <2>7. n > TtlMs(q) => Smaller(full, grown) = full
    BY <1>1, <1>4, <2>3, <2>4, <2>5, <2>6 DEF Smaller
  <2>8. Smaller(full, grown) \in 0 .. full
    BY <1>1, <1>4, <2>4, <2>5 DEF Smaller
  <2> QED
    BY <2>1, <2>2, <2>7, <2>8
<1> QED
  BY <1>2, <1>3, <1>4 DEF BucketPair

\* Both save the same tokens at the same instant.
LEMMA SavedPair ==
  ASSUME NEW r \in Rules, UsesBucket(r), NEW u \in Nat, NEW at \in Nat
  PROVE  BucketPair(SavedBucket(u, r, at), [tokens |-> u, ts |-> at], at)
<1>1. [tokens |-> u, ts |-> at] # Memory!NoEntry
  BY DEF Memory!NoEntry
<1> QED
  BY <1>1 DEF BucketPair, SavedBucket

-----------------------------------------------------------------------------
(* One call *)

\* The window half of a call that is, in the end, allowed or not.
WindowHalf(w, h, at, ids, r, ok) ==
  LET live  == Memory!LiveHits(h, r, at)
      K     == Kept(w, r, at)
      after == IF ok THEN Memory!Pushed(live, r, at) ELSE live
      e     == IF ok THEN ZAdd(K, ids, r, at) ELSE K
      out   == Head(after) + r.windowMs - at
  IN /\ WindowPair([entries |-> e, expireAt |-> at + r.windowMs], after, at, ids + 1)
     /\ WindowFits(w, r, at) <=> Len(live) + r.cost <= r.limit
     /\ e = {} <=> after = <<>>
     /\ after # <<>> => OldestLeavesIn(e, r, at) = out
     /\ ~ok /\ after # <<>> => out \in Nat
     /\ WindowLeft(K, ok, r) = Memory!Left(after, r)

LEMMA SameWindow ==
  ASSUME OneWindow, NEW w, NEW h, NEW at \in Nat, NEW ids \in Nat, WindowPair(w, h, at, ids),
         NEW r \in Rules, UsesWindow(r), NEW ok \in BOOLEAN
  PROVE  WindowHalf(w, h, at, ids, r, ok)
<1> DEFINE live  == Memory!LiveHits(h, r, at)
           K     == Kept(w, r, at)
           after == IF ok THEN Memory!Pushed(live, r, at) ELSE live
           e     == IF ok THEN ZAdd(K, ids, r, at) ELSE K
<1>1. r.windowMs = W /\ W \in Nat \ {0} /\ r.cost \in Nat \ {0} /\ r.limit \in Nat
  BY WindowLength, RuleNumbers
<1>2. /\ WindowPair([entries |-> K, expireAt |-> at + W], live, at, ids)
      /\ \A i \in 1 .. Len(live) : live[i] > at - W
  BY <1>1, TrimPairs
<1> HIDE DEF live, K
<1>3. Cardinality(K) = Len(live) /\ Len(live) \in Nat /\ live \in Seq(Nat)
  <2>1. Cardinality(K) = Len(live)
    BY <1>2, PairCounts
  <2>2. live \in Seq(Nat)
    BY <1>2 DEF WindowPair
  <2> QED
    BY <2>1, <2>2
<1>4. /\ WindowPair([entries |-> e, expireAt |-> at + W], after, at, ids + 1)
      /\ Len(after) = Len(live) + (IF ok THEN r.cost ELSE 0)
  <2>1. CASE ok
    BY <1>1, <1>2, <2>1, PushPairs
  <2>2. CASE ~ok
    <3>1. \A m \in K : m.id \in 0 .. (ids + 1) - 1
      BY <1>2 DEF WindowPair
    <3> QED
      BY <1>2, <1>3, <2>2, <3>1 DEF WindowPair
  <2> QED
    BY <2>1, <2>2
<1> HIDE DEF e, after
<1>5. /\ e = {} <=> after = <<>>
      /\ after # <<>> => Head(after) = Oldest(e)
  BY <1>4, PairCounts
<1>6. after # <<>> => OldestLeavesIn(e, r, at) = Head(after) + r.windowMs - at
  BY <1>5 DEF OldestLeavesIn
<1>7. WindowFits(w, r, at) <=> Len(live) + r.cost <= r.limit
  BY <1>3 DEF WindowFits, K
<1>8. ASSUME ~ok, after # <<>> PROVE Head(after) + r.windowMs - at \in Nat
  <2>1. after = live
    BY <1>8 DEF after
  <2>2. 1 \in 1 .. Len(live) /\ Head(live) = live[1] /\ live[1] \in Nat
    BY <1>3, <1>8, <2>1
  <2> QED
    BY <1>1, <1>2, <2>1, <2>2
<1>9. WindowLeft(K, ok, r) = Memory!Left(after, r)
  <2>1. Memory!Left(after, r) = Larger(0, r.limit - Len(after))
    BY SameRule DEF Memory!Left
  <2>2. r.limit - Len(after) = r.limit - Len(live) - (IF ok THEN r.cost ELSE 0)
    BY <1>1, <1>3, <1>4
  <2> QED
    BY <1>3, <2>1, <2>2 DEF WindowLeft
<1> QED
  BY <1>1, <1>4, <1>5, <1>6, <1>7, <1>8, <1>9 DEF WindowHalf, live, K, after, e

\* What a bucket waits for is no negative time.
LEMMA RefillWaitNat ==
  ASSUME NEW r \in Rules, NEW u \in Nat, NEW wanted \in Nat, u <= wanted
  PROVE  /\ RefillWait(u, wanted, r) \in Nat
         /\ Memory!MsUntil(u, wanted, r) = RefillWait(u, wanted, r)
<1>1. RefillWait(u, wanted, r) = CeilDiv(wanted - u, RefillPerMs(r))
  BY DEF RefillWait
<1>2. Memory!MsUntil(u, wanted, r) = CeilDiv(wanted - u, RefillPerMs(r))
  BY SameRule DEF Memory!MsUntil
<1>3. wanted - u \in Nat /\ RefillPerMs(r) \in Nat \ {0}
  BY RuleNumbers
<1>4. CeilDiv(wanted - u, RefillPerMs(r)) \in Nat
  BY <1>3, CeilDivNat
<1> QED
  BY <1>1, <1>2, <1>4

\* The state and the reply of both sides, paired before, are paired after.
SameRun(t, w, m, h, at, ids, r) ==
  LET lua == RunScript(t, w, r, ids, at)
      js  == Memory!check(m, h, r, at)
  IN /\ lua.reply = js.reply
     /\ WindowPair(lua.sw, js.hits, at, ids + 1)
     /\ BucketPair(lua.tb, js.b, at)

LEMMA MoreIds ==
  ASSUME NEW w, NEW h, NEW at, NEW ids \in Nat, WindowPair(w, h, at, ids)
  PROVE  WindowPair(w, h, at, ids + 1)
BY DEF WindowPair

LEMMA TokenBucketSame ==
  ASSUME FullOnExpiry, NEW t, NEW w, NEW m, NEW h, NEW at \in Nat, NEW ids \in Nat,
         WindowPair(w, h, at, ids), BucketPair(t, m, at),
         NEW r \in Rules, r.strategy = "token_bucket"
  PROVE  SameRun(t, w, m, h, at, ids, r)
<1> DEFINE full   == Refilled(t, r, at)
           cost   == CostUnits(r)
           cap    == CapacityUnits(r)
           ok     == full >= cost
           left   == full - (IF ok THEN cost ELSE 0)
           tokens == IF ok THEN full - cost ELSE full
           retry  == IF ok THEN 0 ELSE RefillWait(left, cost, r)
           reset  == RefillWait(left, cap, r)
           lua    == RunScript(t, w, r, ids, at)
           js     == Memory!check(m, h, r, at)
<1>1. UsesBucket(r)
  BY DEF UsesBucket
<1>2. Memory!TopUp(m, r, at) = full /\ full \in 0 .. cap /\ cap \in Nat /\ cost \in Nat
  BY <1>1, SameLevel, RuleNumbers
<1> HIDE DEF full, cost, cap
<1>3. left = tokens /\ left \in 0 .. cap /\ left \in Nat /\ (~ok => left <= cost)
  BY <1>2
<1> HIDE DEF left, tokens
<1>4. lua = [tb |-> SavedBucket(left, r, at), sw |-> w,
             reply |-> Reply(ok, left \div TokenUnit, retry, reset)]
  <2>1. lua = rlTokenBucket(t, w, r, ids, at)
    BY Zenon DEF RunScript
  <2>2. rlTokenBucket(t, w, r, ids, at)
          = [tb |-> SavedBucket(left, r, at), sw |-> w,
             reply |-> Reply(ok, left \div TokenUnit, retry, reset)]
    BY Zenon DEF rlTokenBucket, TokensSuffice, left, full, cost, cap
  <2> QED
    BY <2>1, <2>2, Zenon
<1>5. js = [b |-> [tokens |-> tokens, ts |-> at], hits |-> h,
            reply |-> Memory!Decision(ok, tokens \div TokenUnit,
                        IF ok THEN 0 ELSE Memory!MsUntil(tokens, cost, r),
                        Memory!MsUntil(tokens, cap, r))]
  <2>1. js = Memory!_tokenBucket(m, h, r, at)
    BY Zenon DEF Memory!check
  <2>2. Memory!CostUnits(r) = cost /\ Memory!CapacityUnits(r) = cap
    BY SameRule DEF cost, cap
  <2>3. Memory!_tokenBucket(m, h, r, at)
          = [b |-> [tokens |-> tokens, ts |-> at], hits |-> h,
             reply |-> Memory!Decision(ok, tokens \div TokenUnit,
                         IF ok THEN 0 ELSE Memory!MsUntil(tokens, cost, r),
                         Memory!MsUntil(tokens, cap, r))]
    BY <1>2, <2>2, Zenon DEF Memory!_tokenBucket, tokens
  <2> QED
    BY <2>1, <2>3, Zenon
<1>6. /\ Memory!MsUntil(tokens, cap, r) = reset
      /\ ~ok => Memory!MsUntil(tokens, cost, r) = RefillWait(left, cost, r)
  BY <1>2, <1>3, RefillWaitNat
<1>7. lua.reply = js.reply
  BY <1>3, <1>4, <1>5, <1>6 DEF Reply, Memory!Decision
<1>8. BucketPair(lua.tb, js.b, at)
  BY <1>1, <1>3, <1>4, <1>5, SavedPair
<1>9. WindowPair(lua.sw, js.hits, at, ids + 1)
  BY <1>4, <1>5, MoreIds
<1> QED
  BY <1>7, <1>8, <1>9 DEF SameRun

LEMMA SlidingWindowSame ==
  ASSUME OneWindow, NEW t, NEW w, NEW m, NEW h, NEW at \in Nat, NEW ids \in Nat,
         WindowPair(w, h, at, ids), BucketPair(t, m, at),
         NEW r \in Rules, r.strategy = "sliding_window"
  PROVE  SameRun(t, w, m, h, at, ids, r)
<1> DEFINE live  == Memory!LiveHits(h, r, at)
           K     == Kept(w, r, at)
           ok    == Len(live) + r.cost <= r.limit
           after == IF ok THEN Memory!Pushed(live, r, at) ELSE live
           e     == IF ok THEN ZAdd(K, ids, r, at) ELSE K
           out   == Head(after) + r.windowMs - at
           luaReset == IF e = {} THEN r.windowMs ELSE Larger(0, OldestLeavesIn(e, r, at))
           jsReset  == IF after = <<>> THEN r.windowMs ELSE Memory!Larger(0, out)
           lua   == RunScript(t, w, r, ids, at)
           js    == Memory!check(m, h, r, at)
<1>1. UsesWindow(r) /\ ok \in BOOLEAN
  BY DEF UsesWindow
<1> HIDE DEF ok
<1>2. /\ WindowPair([entries |-> e, expireAt |-> at + r.windowMs], after, at, ids + 1)
      /\ WindowFits(w, r, at) <=> Len(live) + r.cost <= r.limit
      /\ e = {} <=> after = <<>>
      /\ after # <<>> => OldestLeavesIn(e, r, at) = out
      /\ WindowLeft(K, ok, r) = Memory!Left(after, r)
  <2>1. WindowHalf(w, h, at, ids, r, ok)
    <3> HIDE DEF live, K, after, e, out, luaReset, jsReset, lua, js
    <3> QED
      BY <1>1, SameWindow
  <2> QED
    BY <2>1, Zenon DEF WindowHalf, live, K, after, e, out
<1>3. WindowFits(w, r, at) = ok
  BY <1>1, <1>2 DEF ok, WindowFits
<1> HIDE DEF live, K, after, e, out
<1>4. lua = [tb |-> t, sw |-> [entries |-> e, expireAt |-> at + r.windowMs],
             reply |-> Reply(ok, WindowLeft(K, ok, r),
                             IF ok \/ e = {} THEN 0 ELSE luaReset, luaReset)]
  <2>1. lua = rlSlidingWindow(t, w, r, ids, at)
    BY Zenon DEF RunScript
  <2>2. rlSlidingWindow(t, w, r, ids, at)
          = [tb |-> t, sw |-> [entries |-> e, expireAt |-> at + r.windowMs],
             reply |-> Reply(ok, WindowLeft(K, ok, r),
                             IF ok \/ e = {} THEN 0 ELSE luaReset, luaReset)]
    BY <1>3, Zenon DEF rlSlidingWindow, e, K
  <2> QED
    BY <2>1, <2>2, Zenon
<1>5. js = [b |-> m, hits |-> after,
            reply |-> Memory!Decision(ok, Memory!Left(after, r),
                        IF ok \/ after = <<>> THEN 0 ELSE jsReset, jsReset)]
  <2>1. js = Memory!_slidingWindow(m, h, r, at)
    BY Zenon DEF Memory!check
  <2>2. Memory!_slidingWindow(m, h, r, at)
          = [b |-> m, hits |-> after,
             reply |-> Memory!Decision(ok, Memory!Left(after, r),
                         IF ok \/ after = <<>> THEN 0 ELSE jsReset, jsReset)]
    BY Zenon DEF Memory!_slidingWindow, ok, after, live, out
  <2> QED
    BY <2>1, <2>2, Zenon
<1>6. luaReset = jsReset
  BY <1>2, SameRule, Zenon
<1>7. lua.reply = js.reply
  <2> HIDE DEF luaReset, jsReset
  <2> QED
    BY <1>2, <1>4, <1>5, <1>6 DEF Reply, Memory!Decision
<1>8. lua.tb = t /\ js.b = m /\ js.hits = after
      /\ lua.sw = [entries |-> e, expireAt |-> at + r.windowMs]
  BY <1>4, <1>5
<1> QED
  BY <1>2, <1>7, <1>8 DEF SameRun

LEMMA HybridSame ==
  ASSUME OneWindow, FullOnExpiry, NEW t, NEW w, NEW m, NEW h, NEW at \in Nat, NEW ids \in Nat,
         WindowPair(w, h, at, ids), BucketPair(t, m, at),
         NEW r \in Rules, r.strategy = "hybrid"
  PROVE  SameRun(t, w, m, h, at, ids, r)
<1> DEFINE full   == Refilled(t, r, at)
           cost   == CostUnits(r)
           cap    == CapacityUnits(r)
           live   == Memory!LiveHits(h, r, at)
           K      == Kept(w, r, at)
           tbOk   == full >= cost
           swOk   == Len(live) + r.cost <= r.limit
           ok     == tbOk /\ swOk
           left   == full - (IF ok THEN cost ELSE 0)
           tokens == IF ok THEN full - cost ELSE full
           after  == IF ok THEN Memory!Pushed(live, r, at) ELSE live
           e      == IF ok THEN ZAdd(K, ids, r, at) ELSE K
           out    == Head(after) + r.windowMs - at
           luaTb  == IF tbOk THEN 0 ELSE RefillWait(left, cost, r)
           luaSw  == IF swOk \/ e = {} THEN 0 ELSE OldestLeavesIn(e, r, at)
           jsTb   == IF tbOk THEN 0 ELSE Memory!MsUntil(tokens, cost, r)
           jsSw   == IF swOk \/ after = <<>> THEN 0 ELSE out
           lua    == RunScript(t, w, r, ids, at)
           js     == Memory!check(m, h, r, at)
<1>1. UsesBucket(r) /\ UsesWindow(r) /\ ok \in BOOLEAN
  BY DEF UsesBucket, UsesWindow
<1>2. Memory!TopUp(m, r, at) = full /\ full \in 0 .. cap /\ cap \in Nat /\ cost \in Nat
  BY <1>1, SameLevel, RuleNumbers
<1> HIDE DEF full, cost, cap
<1>3. left = tokens /\ left \in Nat /\ (~tbOk => left <= cost)
  BY <1>2
<1>4. TokensSuffice(t, r, at) = tbOk
  BY Zenon DEF TokensSuffice, full, cost
<1> HIDE DEF left, tokens, tbOk, swOk
<1>5. /\ WindowPair([entries |-> e, expireAt |-> at + r.windowMs], after, at, ids + 1)
      /\ WindowFits(w, r, at) <=> Len(live) + r.cost <= r.limit
      /\ e = {} <=> after = <<>>
      /\ after # <<>> => OldestLeavesIn(e, r, at) = out
      /\ ~ok /\ after # <<>> => out \in Nat
      /\ WindowLeft(K, ok, r) = Memory!Left(after, r)
  <2> HIDE DEF ok
  <2>1. WindowHalf(w, h, at, ids, r, ok)
    <3> HIDE DEF live, K, after, e, out, luaTb, luaSw, jsTb, jsSw, lua, js
    <3> QED
      BY <1>1, SameWindow
  <2> QED
    BY <2>1, Zenon DEF WindowHalf, live, K, after, e, out
<1>6. WindowFits(w, r, at) = swOk
  BY <1>5 DEF swOk, WindowFits
<1> HIDE DEF live, K, after, e, out
<1>7. lua = [tb |-> SavedBucket(left, r, at),
             sw |-> [entries |-> e, expireAt |-> at + r.windowMs],
             reply |-> Reply(ok, Smaller(left \div TokenUnit, WindowLeft(K, ok, r)),
                             IF ok THEN 0 ELSE Larger(luaTb, luaSw), r.windowMs)]
  <2>1. lua = rlHybrid(t, w, r, ids, at)
    BY Zenon DEF RunScript
  <2>2. rlHybrid(t, w, r, ids, at)
          = [tb |-> SavedBucket(left, r, at),
             sw |-> [entries |-> e, expireAt |-> at + r.windowMs],
             reply |-> Reply(ok, Smaller(left \div TokenUnit, WindowLeft(K, ok, r)),
                             IF ok THEN 0 ELSE Larger(luaTb, luaSw), r.windowMs)]
    BY <1>4, <1>6, Zenon DEF rlHybrid, left, full, cost, e, K
  <2> QED
    BY <2>1, <2>2, Zenon
<1>8. js = [b |-> [tokens |-> tokens, ts |-> at], hits |-> after,
            reply |-> Memory!Decision(ok,
                        Memory!Smaller(tokens \div TokenUnit, Memory!Left(after, r)),
                        IF ok THEN 0 ELSE Memory!Larger(0, Memory!Larger(jsTb, jsSw)),
                        r.windowMs)]
  <2>1. js = Memory!hybrid(m, h, r, at)
    BY Zenon DEF Memory!check
  <2>2. Memory!CostUnits(r) = cost
    BY SameRule DEF cost
  <2>3. Memory!hybrid(m, h, r, at)
          = [b |-> [tokens |-> tokens, ts |-> at], hits |-> after,
             reply |-> Memory!Decision(ok,
                         Memory!Smaller(tokens \div TokenUnit, Memory!Left(after, r)),
                         IF ok THEN 0 ELSE Memory!Larger(0, Memory!Larger(jsTb, jsSw)),
                         r.windowMs)]
    BY <1>2, <2>2, Zenon DEF Memory!hybrid, tokens, tbOk, swOk, live, after, out
  <2> QED
    BY <2>1, <2>3, Zenon
<1>9. /\ jsTb = luaTb /\ luaTb \in Nat
  <2>1. CASE tbOk
    BY <2>1
  <2>2. CASE ~tbOk
    BY <1>2, <1>3, <2>2, RefillWaitNat
  <2> QED
    BY <2>1, <2>2
<1>10. jsSw = luaSw /\ (~ok => luaSw \in Nat)
  <2>1. CASE swOk \/ after = <<>>
    BY <1>5, <2>1
  <2>2. CASE ~(swOk \/ after = <<>>)
    BY <1>5, <2>2
  <2> QED
    BY <2>1, <2>2
<1> HIDE DEF luaTb, luaSw, jsTb, jsSw
<1>11. ~ok => Memory!Larger(0, Memory!Larger(jsTb, jsSw)) = Larger(luaTb, luaSw)
  BY <1>9, <1>10, SameRule DEF Larger
<1>12. Memory!Smaller(tokens \div TokenUnit, Memory!Left(after, r))
         = Smaller(left \div TokenUnit, WindowLeft(K, ok, r))
  BY <1>3, <1>5, SameRule
<1> HIDE DEF ok
<1>13. lua.reply = js.reply
  BY <1>7, <1>8, <1>11, <1>12 DEF Reply, Memory!Decision
<1>14. /\ lua.tb = SavedBucket(left, r, at) /\ js.b = [tokens |-> left, ts |-> at]
       /\ lua.sw = [entries |-> e, expireAt |-> at + r.windowMs] /\ js.hits = after
  BY <1>3, <1>7, <1>8
<1>15. BucketPair(lua.tb, js.b, at)
  BY <1>1, <1>3, <1>14, SavedPair
<1> QED
  BY <1>5, <1>13, <1>14, <1>15 DEF SameRun

LEMMA CallSame ==
  ASSUME OneWindow, FullOnExpiry, NEW t, NEW w, NEW m, NEW h, NEW at \in Nat, NEW ids \in Nat,
         WindowPair(w, h, at, ids), BucketPair(t, m, at), NEW r \in Rules
  PROVE  SameRun(t, w, m, h, at, ids, r)
BY TokenBucketSame, SlidingWindowSame, HybridSame, RuleNumbers DEF Strategy

-----------------------------------------------------------------------------
(* All calls *)

PairInv ==
  /\ now \in Nat /\ calls \in Nat
  /\ WindowPair(sw, hits, now, calls)
  /\ BucketPair(tb, b, now)

LEMMA InitPairInv == Init => PairInv
<1> SUFFICES ASSUME Init PROVE PairInv
  OBVIOUS
<1>1. hits = <<>> /\ hits \in Seq(Nat) /\ Len(hits) = 0 /\ 1 .. Len(hits) = {}
      /\ sw.entries = {} /\ sw.expireAt = -1 /\ tb.expireAt = -1 /\ b = Memory!NoEntry
      /\ now = 0 /\ calls = 0
  BY DEF Init, NoWindow, NoBucket
<1>2. Pairs(sw, hits)
  <2> DEFINE f == [i \in {} |-> i]
  <2>1. f \in Bijection({}, {})
    BY DEF Bijection, Injection, Surjection, IsInjective
  <2> QED
    BY <1>1, <2>1 DEF Pairs
<1> QED
  BY <1>1, <1>2 DEF PairInv, WindowPair, InOrder, BucketPair

LEMMA NextPairInv ==
  ASSUME OneWindow, FullOnExpiry, PairInv, [Next]_vars
  PROVE  PairInv'
<1>1. CASE Tick
  <2>1. /\ now \in Nat /\ now' = now + 1 /\ calls' = calls /\ tb' = tb /\ sw' = sw
        /\ b' = b /\ hits' = hits
    BY <1>1 DEF Tick, PairInv
  <2>2. WindowPair(sw, hits, now + 1, calls)
    <3>1. \A i \in 1 .. Len(hits) : hits[i] \in Nat
      BY DEF PairInv, WindowPair
    <3> QED
      BY <2>1, <3>1 DEF PairInv, WindowPair
  <2>3. BucketPair(tb, b, now + 1)
    BY <2>1 DEF PairInv, BucketPair
  <2> QED
    BY <2>1, <2>2, <2>3 DEF PairInv
<1>2. ASSUME NEW r \in Rules, Check(r) PROVE PairInv'
  <2>1. SameRun(tb, sw, b, hits, now, calls, r)
    BY CallSame DEF PairInv
  <2>2. /\ now' = now /\ calls' = calls + 1 /\ now \in Nat /\ calls \in Nat
        /\ tb' = RunScript(tb, sw, r, calls, now).tb
        /\ sw' = RunScript(tb, sw, r, calls, now).sw
        /\ b' = Memory!check(b, hits, r, now).b
        /\ hits' = Memory!check(b, hits, r, now).hits
    BY <1>2 DEF Check, PairInv
  <2>3. WindowPair(sw', hits', now, calls + 1) /\ BucketPair(tb', b', now)
    BY <2>1, <2>2, Zenon DEF SameRun
  <2> QED
    BY <2>2, <2>3 DEF PairInv
<1>3. CASE UNCHANGED vars
  BY <1>3 DEF vars, PairInv
<1> QED
  BY <1>1, <1>2, <1>3 DEF Next

\* However many calls were made, at whatever instants, the scripts and the in-process
\* limiter never disagree on the next one, be the keys in Redis expired or not
\* (docs/adr/0003-atomic-lua.md:31-32, memoryLimiter.js:4-9).
THEOREM LimitersAgree == OneWindow /\ FullOnExpiry /\ Spec => []RepliesAgree
<1> SUFFICES ASSUME OneWindow, FullOnExpiry PROVE Spec => []RepliesAgree
  OBVIOUS
<1>1. PairInv /\ [Next]_vars => PairInv'
  BY NextPairInv
<1>2. PairInv => RepliesAgree
  BY CallSame DEF PairInv, SameRun, RepliesAgree
<1> QED
  BY InitPairInv, <1>1, <1>2, PTL DEF Spec
===============================================================================
