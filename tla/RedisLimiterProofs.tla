------------------------- MODULE RedisLimiterProofs -------------------------
(***************************************************************************)
(* RedisLimiter keeps its types, its log is exact, no window is ever       *)
(* over-admitted and no bucket overspent, it implements the two abstract   *)
(* limits and its replies come true, for any set of calls and any bounds:  *)
(* whatever is resent, lost or reordered.  Each theorem names what the     *)
(* rules that share the key must agree on.                                 *)
(*                                                                         *)
(* The argument about the sorted set: LogIsExact is not inductive since it *)
(* does not say that the key outlives its entries.  WindowInv does.  About *)
(* the bucket: a hash that expires would be full anyway (FullByExpiry), so *)
(* what is spent and what is left add up (SpendInv).                       *)
(***************************************************************************)
EXTENDS RedisLimiter, FiniteSetTheorems, WellFoundedInduction, TLAPS

\* All rules for the key have one window length.
OneWindow == \A r, q \in Rules : r.windowMs = q.windowMs

-----------------------------------------------------------------------------
(* Arithmetic of the rules *)

LEMMA NatProduct == \A a, b \in Nat : a * b \in Nat
OBVIOUS

LEMMA PosProduct == \A a, b \in Nat \ {0} : a * b \in Nat \ {0}
OBVIOUS

LEMMA CeilDivType == \A a \in Int, b \in Nat \ {0} : CeilDiv(a, b) \in Int
BY DEF CeilDiv

\* Every amount derived from a rule is a number, and the rate is positive.
LEMMA RuleNumbers ==
  ASSUME NEW r \in Rules
  PROVE  /\ r \in RuleSchema
         /\ r.limit \in Nat \ {0} /\ r.windowMs \in Nat \ {0} /\ r.cost \in Nat \ {0}
         /\ r.strategy \in Strategy
         /\ RefillPerMs(r) \in Nat \ {0}
         /\ CapacityUnits(r) \in Nat \ {0}
         /\ CostUnits(r) \in Nat \ {0}
         /\ TtlMs(r) \in Int
<1>1. /\ r \in RuleSchema
      /\ r.limit \in Nat \ {0} /\ r.windowMs \in Nat \ {0} /\ r.cost \in Nat \ {0}
      /\ r.burst \in Nat /\ r.strategy \in Strategy
  BY RulesAssumption DEF RuleSchema
<1>2. TokenUnit \in Nat \ {0} /\ TokenUnit % r.windowMs = 0
  BY RulesAssumption
<1>3. TokenUnit \div r.windowMs \in Nat \ {0}
  BY <1>1, <1>2
<1>4. RefillPerMs(r) \in Nat \ {0}
  BY <1>1, <1>3, PosProduct DEF RefillPerMs
<1>5. CapacityUnits(r) \in Nat \ {0}
  <2>1. Capacity(r) \in Nat \ {0}
    BY <1>1 DEF Capacity
  <2> QED
    BY <2>1, <1>2, PosProduct DEF CapacityUnits
<1>6. CostUnits(r) \in Nat \ {0}
  BY <1>1, <1>2, PosProduct DEF CostUnits
<1>7. TtlMs(r) \in Int
  <2>1. CeilDiv(CapacityUnits(r), RefillPerMs(r)) \in Int
    BY <1>4, <1>5, CeilDivType
  <2> QED
    BY <2>1, <1>1 DEF TtlMs, Larger
<1> QED
  BY <1>1, <1>4, <1>5, <1>6, <1>7

-----------------------------------------------------------------------------
(* What an execution does, whatever the strategy *)

\* The bucket is refilled, charged if the call is allowed, and only then if it
\* can pay; a strategy without a bucket leaves it alone.
LEMMA BucketEffect ==
  ASSUME NEW t, NEW w, NEW r \in Rules, NEW id, NEW at,
         NEW run, run = RunScript(t, w, r, id, at)
  PROVE  /\ run.reply.allowed \in BOOLEAN
         /\ r.strategy = "token_bucket" => run.reply.allowed = TokensSuffice(t, r, at)
         /\ UsesBucket(r) =>
              /\ run.reply.allowed => Refilled(t, r, at) >= CostUnits(r)
              /\ run.tb = SavedBucket(
                   Refilled(t, r, at) - (IF run.reply.allowed THEN CostUnits(r) ELSE 0),
                   r, at)
         /\ ~UsesBucket(r) => run.tb = t
<1>0. TokensSuffice(t, r, at) \in BOOLEAN /\ WindowFits(w, r, at) \in BOOLEAN
  BY DEF TokensSuffice, WindowFits
<1>1. CASE r.strategy = "token_bucket"
  BY <1>0, <1>1, Zenon
     DEF RunScript, rlTokenBucket, UsesBucket, Reply, TokensSuffice
<1>2. CASE r.strategy = "sliding_window"
  BY <1>0, <1>2, Zenon DEF RunScript, rlSlidingWindow, UsesBucket, Reply
<1>3. CASE r.strategy = "hybrid"
  <2>1. /\ RunScript(t, w, r, id, at) = rlHybrid(t, w, r, id, at)
        /\ UsesBucket(r)
    BY <1>3, Zenon DEF RunScript, UsesBucket
  <2>2. rlHybrid(t, w, r, id, at).reply.allowed
          = (TokensSuffice(t, r, at) /\ WindowFits(w, r, at))
    BY Zenon DEF rlHybrid, Reply
  <2>3. rlHybrid(t, w, r, id, at).tb = SavedBucket(
           Refilled(t, r, at) - (IF rlHybrid(t, w, r, id, at).reply.allowed
                                 THEN CostUnits(r) ELSE 0), r, at)
    BY <2>2, Zenon DEF rlHybrid, Reply
  <2>4. r.strategy # "token_bucket"
    BY <1>3
  <2> QED
    BY <1>0, <2>1, <2>2, <2>3, <2>4, Zenon DEF TokensSuffice
<1> QED
  BY <1>1, <1>2, <1>3, RuleNumbers DEF Strategy

\* The window is trimmed, logs the call if it is allowed, and only then if it
\* fits; a strategy without a window leaves it alone.
LEMMA WindowEffect ==
  ASSUME NEW t, NEW w, NEW r \in Rules, NEW id, NEW at,
         NEW run, run = RunScript(t, w, r, id, at)
  PROVE  /\ r.strategy = "sliding_window" => run.reply.allowed = WindowFits(w, r, at)
         /\ UsesWindow(r) =>
              /\ run.reply.allowed => WindowFits(w, r, at)
              /\ run.sw = [entries |-> IF run.reply.allowed
                                       THEN ZAdd(Kept(w, r, at), id, r, at)
                                       ELSE Kept(w, r, at),
                           expireAt |-> at + r.windowMs]
         /\ ~UsesWindow(r) => run.sw = w
<1>1. CASE r.strategy = "token_bucket"
  BY <1>1, Zenon DEF RunScript, rlTokenBucket, UsesWindow, Reply
<1>2. CASE r.strategy = "sliding_window"
  BY <1>2, Zenon DEF RunScript, rlSlidingWindow, UsesWindow, Reply
<1>3. CASE r.strategy = "hybrid"
  BY <1>3, Zenon DEF RunScript, rlHybrid, UsesWindow, Reply
<1> QED
  BY <1>1, <1>2, <1>3, RuleNumbers DEF Strategy

-----------------------------------------------------------------------------
(* Types *)

BucketType == [tokens : Nat, ts : 0 .. MaxTime, expireAt : Int]
WindowType == [entries : SUBSET Entry, expireAt : Int]

\* A refill never leaves less than nothing nor more than a full bucket.
LEMMA RefilledRange ==
  ASSUME NEW t \in BucketType, NEW r \in Rules, NEW at \in Int
  PROVE  Refilled(t, r, at) \in 0 .. CapacityUnits(r)
<1>1. RefillPerMs(r) \in Nat /\ CapacityUnits(r) \in Nat
  BY RuleNumbers
<1>2. Larger(0, at - t.ts) \in Nat
  BY DEF Larger, BucketType
<1>3. Larger(0, at - t.ts) * RefillPerMs(r) \in Nat
  BY <1>1, <1>2, NatProduct
<1> QED
  BY <1>1, <1>3 DEF Refilled, Smaller, BucketType

LEMMA SavedType ==
  ASSUME NEW u \in Nat, NEW r \in Rules, NEW at \in 0 .. MaxTime
  PROVE  SavedBucket(u, r, at) \in BucketType
BY RuleNumbers, BoundsAssumption DEF SavedBucket, BucketType

LEMMA LoggedType ==
  ASSUME NEW id \in Call, NEW r \in Rules, NEW at \in 0 .. MaxTime
  PROVE  Logged(id, r, at) \in SUBSET Entry
BY RuleNumbers, BoundsAssumption DEF Logged, Entry

LEMMA AnyRuleIsRule == AnyRule \in Rules
BY RulesAssumption DEF AnyRule

LEMMA InitTypeOK == Init => TypeOK
<1> SUFFICES ASSUME Init PROVE TypeOK
  OBVIOUS
<1> USE BoundsAssumption, AnyRuleIsRule DEF Init
<1>1. tb \in [tokens : Nat, ts : 0 .. MaxTime, expireAt : Int]
  BY DEF NoBucket
<1>2. sw \in [entries : SUBSET Entry, expireAt : Int]
  BY DEF NoWindow
<1>3. call \in [Call -> CallState]
  BY DEF AtRest, CallState
<1>4. admitted \in SUBSET Entry /\ spent \in [0 .. MaxTime -> Nat] /\ now \in 0 .. MaxTime
  OBVIOUS
<1> QED
  BY <1>1, <1>2, <1>3, <1>4 DEF TypeOK

\* An execution of c's command with rule r and verdict ok.
ExecDoes(c, r, ok) ==
  /\ UsesBucket(r) =>
       /\ ok => Refilled(tb, r, now) >= CostUnits(r)
       /\ tb' = SavedBucket(
            Refilled(tb, r, now) - (IF ok THEN CostUnits(r) ELSE 0), r, now)
  /\ ~UsesBucket(r) => tb' = tb
  /\ UsesWindow(r) =>
       /\ ok => WindowFits(sw, r, now)
       /\ sw' = [entries |-> IF ok THEN ZAdd(Kept(sw, r, now), c, r, now)
                             ELSE Kept(sw, r, now),
                 expireAt |-> now + r.windowMs]
  /\ ~UsesWindow(r) => sw' = sw
  /\ r.strategy = "sliding_window" => (ok <=> WindowFits(sw, r, now))
  /\ r.strategy = "token_bucket" => (ok <=> TokensSuffice(tb, r, now))
  /\ call' = [call EXCEPT ![c].pc = IF ok THEN "allowed" ELSE "denied"]
  /\ admitted' = IF ok /\ UsesWindow(r) THEN ZAdd(admitted, c, r, now) ELSE admitted
  /\ spent' = [s \in 0 .. MaxTime |->
                 spent[s] + (IF ok /\ UsesBucket(r) /\ s <= now
                             THEN CostUnits(r) ELSE 0)]
  /\ now' = now

LEMMA ExecEffect ==
  ASSUME TypeOK, NEW c \in Call, Exec(c)
  PROVE  \E r \in Rules, ok \in BOOLEAN : ExecDoes(c, r, ok)
<1> DEFINE r   == call[c].rule
           run == RunScript(tb, sw, r, c, now)
           ok  == run.reply.allowed
<1>1. r \in Rules
  BY DEF TypeOK, CallState
<1>2. run = RunScript(tb, sw, r, c, now)
  OBVIOUS
<1>3. /\ tb' = run.tb /\ sw' = run.sw /\ now' = now
      /\ call' = [call EXCEPT ![c].pc = IF ok THEN "allowed" ELSE "denied"]
      /\ admitted' = IF ok /\ UsesWindow(r) THEN ZAdd(admitted, c, r, now) ELSE admitted
      /\ spent' = [s \in 0 .. MaxTime |->
                     spent[s] + (IF ok /\ UsesBucket(r) /\ s <= now
                                 THEN CostUnits(r) ELSE 0)]
  BY DEF Exec
<1> HIDE DEF r, run
<1>4. /\ ok \in BOOLEAN
      /\ r.strategy = "token_bucket" => ok = TokensSuffice(tb, r, now)
      /\ UsesBucket(r) =>
           /\ ok => Refilled(tb, r, now) >= CostUnits(r)
           /\ run.tb = SavedBucket(
                Refilled(tb, r, now) - (IF ok THEN CostUnits(r) ELSE 0), r, now)
      /\ ~UsesBucket(r) => run.tb = tb
  BY <1>1, <1>2, BucketEffect
<1>5. /\ r.strategy = "sliding_window" => ok = WindowFits(sw, r, now)
      /\ UsesWindow(r) =>
           /\ ok => WindowFits(sw, r, now)
           /\ run.sw = [entries |-> IF ok THEN ZAdd(Kept(sw, r, now), c, r, now)
                                    ELSE Kept(sw, r, now),
                        expireAt |-> now + r.windowMs]
      /\ ~UsesWindow(r) => run.sw = sw
  BY <1>1, <1>2, WindowEffect
<1> HIDE DEF ok
<1>6. ExecDoes(c, r, ok)
  BY <1>3, <1>4, <1>5, Zenon DEF ExecDoes
<1> QED
  BY <1>1, <1>4, <1>6, Zenon

LEMMA ExecTypeOK ==
  ASSUME TypeOK, NEW c \in Call, NEW r \in Rules, NEW ok \in BOOLEAN, ExecDoes(c, r, ok)
  PROVE  TypeOK'
<1>1. /\ now \in 0 .. MaxTime /\ tb \in BucketType /\ sw \in WindowType
      /\ admitted \in SUBSET Entry /\ call \in [Call -> CallState]
      /\ spent \in [0 .. MaxTime -> Nat]
  BY DEF TypeOK, BucketType, WindowType
<1>2. /\ now' = now
      /\ call' = [call EXCEPT ![c].pc = IF ok THEN "allowed" ELSE "denied"]
      /\ admitted' = IF ok /\ UsesWindow(r) THEN ZAdd(admitted, c, r, now) ELSE admitted
      /\ spent' = [s \in 0 .. MaxTime |->
                     spent[s] + (IF ok /\ UsesBucket(r) /\ s <= now
                                 THEN CostUnits(r) ELSE 0)]
  BY DEF ExecDoes
<1>3. tb' \in BucketType
  <2>1. CASE UsesBucket(r)
    <3>1. Refilled(tb, r, now) \in Nat /\ CostUnits(r) \in Nat
      <4>1. now \in Int
        BY <1>1, BoundsAssumption
      <4>2. Refilled(tb, r, now) \in 0 .. CapacityUnits(r)
        BY <1>1, <4>1, RefilledRange, Zenon
      <4> QED
        BY <1>1, <4>2, RuleNumbers
    <3>2. Refilled(tb, r, now) - (IF ok THEN CostUnits(r) ELSE 0) \in Nat
      BY <2>1, <3>1 DEF ExecDoes
    <3> QED
      BY <1>1, <2>1, <3>2, SavedType DEF ExecDoes
  <2>2. CASE ~UsesBucket(r)
    BY <1>1, <2>2 DEF ExecDoes
  <2> QED
    BY <2>1, <2>2
<1>4. Logged(c, r, now) \in SUBSET Entry
  BY <1>1, LoggedType
<1>5. sw' \in WindowType
  <2>1. CASE UsesWindow(r)
    <3>1. Kept(sw, r, now) \in SUBSET Entry
      BY <1>1 DEF Kept, WindowType
    <3>2. ZAdd(Kept(sw, r, now), c, r, now) \in SUBSET Entry
      BY <1>4, <3>1 DEF ZAdd
    <3>3. now + r.windowMs \in Int
      BY <1>1, RuleNumbers, BoundsAssumption
    <3> QED
      BY <2>1, <3>1, <3>2, <3>3 DEF WindowType, ExecDoes
  <2>2. CASE ~UsesWindow(r)
    BY <1>1, <2>2 DEF ExecDoes
  <2> QED
    BY <2>1, <2>2
<1>6. admitted' \in SUBSET Entry
  BY <1>1, <1>2, <1>4 DEF ZAdd
<1>7. call' \in [Call -> CallState]
  <2>1. call[c] \in CallState
    BY <1>1
  <2>2. [call[c] EXCEPT !.pc = IF ok THEN "allowed" ELSE "denied"] \in CallState
    BY <2>1 DEF CallState
  <2> QED
    BY <1>1, <1>2, <2>2
<1>8. spent' \in [0 .. MaxTime -> Nat]
  BY <1>1, <1>2, RuleNumbers
<1> QED
  BY <1>1, <1>2, <1>3, <1>5, <1>6, <1>7, <1>8 DEF TypeOK, BucketType, WindowType

LEMMA NextTypeOK == TypeOK /\ [Next]_vars => TypeOK'
<1> SUFFICES ASSUME TypeOK, [Next]_vars PROVE TypeOK'
  OBVIOUS
<1> USE BoundsAssumption
<1>1. CASE Tick
  BY <1>1 DEF Tick, TypeOK
<1>2. ASSUME NEW c \in Call, NEW r \in Rules, Send(c, r) PROVE TypeOK'
  <2>1. [pc |-> "sent", rule |-> r, resends |-> 0] \in CallState
    BY DEF CallState
  <2> QED
    BY <1>2, <2>1 DEF Send, TypeOK
<1>3. ASSUME NEW c \in Call, Exec(c) PROVE TypeOK'
  BY <1>3, ExecEffect, ExecTypeOK
<1>4. ASSUME NEW c \in Call, Answer(c) PROVE TypeOK'
  <2>1. AtRest("answered") \in CallState
    BY AnyRuleIsRule DEF AtRest, CallState
  <2> QED
    BY <1>4, <2>1 DEF Answer, TypeOK
<1>5. ASSUME NEW c \in Call, Resend(c) PROVE TypeOK'
  <2>1. call[c] \in CallState
    BY DEF TypeOK
  <2>2. [pc |-> "sent", rule |-> call[c].rule, resends |-> call[c].resends + 1] \in CallState
    BY <1>5, <2>1 DEF Resend, CallState
  <2> QED
    BY <1>5, <2>2 DEF Resend, TypeOK
<1>6. ASSUME NEW c \in Call, Fail(c) PROVE TypeOK'
  <2>1. AtRest("failed") \in CallState
    BY AnyRuleIsRule DEF AtRest, CallState
  <2> QED
    BY <1>6, <2>1 DEF Fail, TypeOK
<1>7. CASE UNCHANGED vars
  BY <1>7 DEF vars, TypeOK
<1> QED
  BY <1>1, <1>2, <1>3, <1>4, <1>5, <1>6, <1>7 DEF Next

\* What Redis, the calls and the histories hold keeps its type: no bucket goes
\* below zero, no command is sent again too often (tokenBucket.lua:31-42).
THEOREM RedisLimiterTypes == Spec => []TypeOK
BY InitTypeOK, NextTypeOK, PTL DEF Spec

-----------------------------------------------------------------------------
(* The log is exact *)

WindowMs == AnyRule.windowMs

\* The history is finite and lies in the past; what of it still counts is in the
\* sorted set; and the sorted set holds nothing else, nor expires before it.
WindowInv ==
  /\ IsFiniteSet(admitted)
  /\ \A m \in admitted :
       /\ m.score <= now
       /\ m.score > now - WindowMs => m \in sw.entries
  /\ \A m \in sw.entries : m \in admitted /\ m.score + WindowMs <= sw.expireAt

LEMMA WindowMsType ==
  ASSUME OneWindow
  PROVE  WindowMs \in Nat \ {0} /\ \A r \in Rules : r.windowMs = WindowMs
BY AnyRuleIsRule, RuleNumbers DEF OneWindow, WindowMs

LEMMA KeptIsInWindow ==
  ASSUME OneWindow, TypeOK, WindowInv, NEW r \in Rules
  PROVE  Kept(sw, r, now) = {m \in admitted : m.score > now - WindowMs}
<1>1. /\ now \in Int /\ sw.expireAt \in Int /\ WindowMs \in Nat /\ r.windowMs = WindowMs
      /\ \A m \in admitted : m.score \in Int
  BY BoundsAssumption, WindowMsType DEF TypeOK, Entry
<1>2. ASSUME NEW m \in Kept(sw, r, now)
      PROVE  m \in admitted /\ m.score > now - WindowMs
  BY <1>1, <1>2 DEF WindowInv, Kept
<1>3. ASSUME NEW m \in admitted, m.score > now - WindowMs
      PROVE  m \in Kept(sw, r, now)
  <2>1. m \in sw.entries /\ m.score + WindowMs <= sw.expireAt
    BY <1>3 DEF WindowInv
  <2>2. m.score \in Int
    BY <1>1
  <2> QED
    BY <1>1, <1>3, <2>1, <2>2 DEF Kept, Present
<1> QED
  BY <1>2, <1>3

\* A call's members are finitely many, one per unit of cost.
LEMMA LoggedFinite ==
  ASSUME NEW id, NEW r \in Rules, NEW at
  PROVE  IsFiniteSet(Logged(id, r, at)) /\ Cardinality(Logged(id, r, at)) = r.cost
<1> DEFINE f == [n \in 1 .. r.cost |-> [id |-> id, n |-> n, score |-> at]]
<1>1. r.cost \in Nat \ {0}
  BY RuleNumbers
<1>2. f \in Bijection(1 .. r.cost, Logged(id, r, at))
  BY DEF Bijection, Injection, Surjection, IsInjective, Logged
<1>3. ExistsBijection(1 .. r.cost, Logged(id, r, at))
  BY <1>2, Zenon DEF ExistsBijection
<1>4. IsFiniteSet(1 .. r.cost) /\ Cardinality(1 .. r.cost) = r.cost
  BY <1>1, FS_Interval
<1> QED
  BY <1>3, <1>4, FS_Bijection, Zenon

LEMMA ZAddFinite ==
  ASSUME NEW entries, IsFiniteSet(entries), NEW id, NEW r \in Rules, NEW at
  PROVE  /\ IsFiniteSet(ZAdd(entries, id, r, at))
         /\ Cardinality(ZAdd(entries, id, r, at)) <= Cardinality(entries) + r.cost
<1> DEFINE old == {m \in entries : m.id # id}
<1>1. IsFiniteSet(old) /\ Cardinality(old) <= Cardinality(entries)
  BY FS_Subset
<1>2. /\ IsFiniteSet(Logged(id, r, at)) /\ Cardinality(Logged(id, r, at)) = r.cost
      /\ r.cost \in Nat
  BY LoggedFinite, RuleNumbers
<1>3. IsFiniteSet(old \cap Logged(id, r, at))
  BY <1>1, FS_Intersection
<1>4. /\ Cardinality(old) \in Nat /\ Cardinality(entries) \in Nat
      /\ Cardinality(old \cap Logged(id, r, at)) \in Nat
  BY <1>1, <1>3, FS_CardinalityType
<1>5. /\ IsFiniteSet(old \cup Logged(id, r, at))
      /\ Cardinality(old \cup Logged(id, r, at))
           = Cardinality(old) + Cardinality(Logged(id, r, at))
               - Cardinality(old \cap Logged(id, r, at))
  BY <1>1, <1>2, FS_Union, Zenon
<1> QED
  BY <1>1, <1>2, <1>4, <1>5 DEF ZAdd

LEMMA InitWindowInv == Init => WindowInv
BY FS_EmptySet DEF Init, NoWindow, WindowInv

LEMMA ExecWindowInv ==
  ASSUME OneWindow, TypeOK, WindowInv,
         NEW c \in Call, NEW r \in Rules, NEW ok \in BOOLEAN, ExecDoes(c, r, ok)
  PROVE  WindowInv'
<1> DEFINE kept == Kept(sw, r, now)
<1>1. /\ now \in Int /\ WindowMs \in Nat \ {0} /\ r.windowMs = WindowMs
      /\ admitted \in SUBSET Entry /\ \A m \in admitted : m.score \in Int
      /\ now' = now
  BY BoundsAssumption, WindowMsType DEF TypeOK, Entry, ExecDoes
<1>2. CASE ~UsesWindow(r)
  BY <1>2 DEF ExecDoes, WindowInv, WindowMs
<1>3. CASE UsesWindow(r) /\ ~ok
  <2>1. /\ admitted' = admitted
        /\ sw' = [entries |-> kept, expireAt |-> now + WindowMs]
    BY <1>1, <1>3 DEF ExecDoes
  <2>2. kept = {m \in admitted : m.score > now - WindowMs}
    BY KeptIsInWindow
  <2> QED
    BY <1>1, <2>1, <2>2 DEF WindowInv, WindowMs
<1>4. CASE UsesWindow(r) /\ ok
  <2>1. /\ admitted' = ZAdd(admitted, c, r, now)
        /\ sw' = [entries |-> ZAdd(kept, c, r, now), expireAt |-> now + WindowMs]
    BY <1>1, <1>4 DEF ExecDoes
  <2>2. kept = {m \in admitted : m.score > now - WindowMs}
    BY KeptIsInWindow
  <2>3. IsFiniteSet(admitted')
    BY <2>1, ZAddFinite DEF WindowInv
  <2>4. \A m \in Logged(c, r, now) : m.score = now
    BY DEF Logged
  <2>5. \A m \in admitted' : m.score <= now /\ (m.score > now - WindowMs => m \in sw'.entries)
    BY <1>1, <2>1, <2>2, <2>4 DEF WindowInv, ZAdd
  <2>6. \A m \in sw'.entries : m \in admitted' /\ m.score + WindowMs <= sw'.expireAt
    BY <1>1, <2>1, <2>2, <2>4 DEF WindowInv, ZAdd
  <2> QED
    BY <1>1, <2>3, <2>5, <2>6 DEF WindowInv, WindowMs
<1> QED
  BY <1>2, <1>3, <1>4

LEMMA NextWindowInv ==
  ASSUME OneWindow, TypeOK, WindowInv, [Next]_vars
  PROVE  WindowInv'
<1>1. CASE Tick
  <2>1. /\ now \in Int /\ now' = now + 1 /\ admitted' = admitted /\ sw' = sw
        /\ WindowMs \in Nat /\ \A m \in admitted : m.score \in Int
    BY <1>1, BoundsAssumption, WindowMsType DEF Tick, TypeOK, Entry
  <2> QED
    BY <2>1 DEF WindowInv, WindowMs
<1>2. ASSUME NEW c \in Call, Exec(c) PROVE WindowInv'
  BY <1>2, ExecEffect, ExecWindowInv
<1>3. ASSUME UNCHANGED <<now, sw, admitted>> PROVE WindowInv'
  BY <1>3 DEF WindowInv, WindowMs
<1> QED
  BY <1>1, <1>2, <1>3 DEF Next, Send, Answer, Resend, Fail, vars

\* With one window length, what Redis counts is what was admitted: trimming,
\* expiry, resends and reorderings lose nothing (slidingWindow.lua:26-39,
\* hybrid.lua:44-64).
THEOREM LogStaysExact == OneWindow /\ Spec => []LogIsExact
<1> SUFFICES ASSUME OneWindow PROVE Spec => []LogIsExact
  OBVIOUS
<1>1. Init => TypeOK /\ WindowInv
  BY InitTypeOK, InitWindowInv
<1>2. TypeOK /\ WindowInv /\ [Next]_vars => TypeOK' /\ WindowInv'
  BY NextTypeOK, NextWindowInv
<1>3. TypeOK /\ WindowInv => LogIsExact
  BY KeptIsInWindow, WindowMsType DEF LogIsExact
<1> QED
  BY <1>1, <1>2, <1>3, PTL DEF Spec

-----------------------------------------------------------------------------
(* No window is over-admitted *)

\* A decision that fits leaves at most the limit in the window now ending.
LEMMA FitsWithinLimit ==
  ASSUME OneWindow, TypeOK, WindowInv, NEW c \in Call, NEW r \in Rules,
         WindowFits(sw, r, now)
  PROVE  LET kept == Kept(sw, r, now)
         IN /\ IsFiniteSet(ZAdd(kept, c, r, now))
            /\ Cardinality(ZAdd(kept, c, r, now)) <= r.limit
<1> DEFINE kept == Kept(sw, r, now)
<1>1. IsFiniteSet(kept) /\ Cardinality(kept) \in Nat
  BY KeptIsInWindow, FS_Subset, FS_CardinalityType DEF WindowInv
<1>2. /\ IsFiniteSet(ZAdd(kept, c, r, now))
      /\ Cardinality(ZAdd(kept, c, r, now)) <= Cardinality(kept) + r.cost
      /\ Cardinality(ZAdd(kept, c, r, now)) \in Nat
  BY <1>1, ZAddFinite, FS_CardinalityType
<1> QED
  BY <1>1, <1>2, RuleNumbers DEF WindowFits

LEMMA ExecNoOverAdmit ==
  ASSUME OneWindow, TypeOK, WindowInv, NoOverAdmit,
         NEW c \in Call, NEW r \in Rules, NEW ok \in BOOLEAN, ExecDoes(c, r, ok)
  PROVE  NoOverAdmit'
<1>1. CASE ~(UsesWindow(r) /\ ok)
  BY <1>1 DEF ExecDoes, NoOverAdmit, InWindow
<1>2. CASE UsesWindow(r) /\ ok
  <2> SUFFICES ASSUME NEW t \in 0 .. MaxTime, NEW p \in Rules, UsesWindow(p)
               PROVE  \E q \in Rules : Cardinality(InWindow(admitted', p, t)) <= q.limit
    BY DEF NoOverAdmit, InWindow
  <2> DEFINE kept  == Kept(sw, r, now)
             after == InWindow(admitted', p, t)
  <2>1. /\ now \in Int /\ t \in Int /\ WindowMs \in Nat \ {0} /\ p.windowMs = WindowMs
        /\ \A m \in admitted : m.score \in Int /\ m.score <= now
        /\ admitted' = ZAdd(admitted, c, r, now)
        /\ \A m \in Logged(c, r, now) : m.score = now
    BY <1>2, BoundsAssumption, WindowMsType
       DEF TypeOK, Entry, WindowInv, ExecDoes, Logged
  <2>2. CASE t < now
    <3>1. after \in SUBSET InWindow(admitted, p, t)
      BY <2>1, <2>2 DEF InWindow, ZAdd
    <3>2. IsFiniteSet(InWindow(admitted, p, t))
      BY FS_Subset DEF InWindow, WindowInv
    <3>3. Cardinality(after) <= Cardinality(InWindow(admitted, p, t))
      BY <3>1, <3>2, FS_Subset, Zenon
    <3>4. Cardinality(after) \in Nat /\ Cardinality(InWindow(admitted, p, t)) \in Nat
      BY <3>1, <3>2, FS_Subset, FS_CardinalityType
    <3>5. PICK q \in Rules : Cardinality(InWindow(admitted, p, t)) <= q.limit
      BY DEF NoOverAdmit
    <3> QED
      BY <3>3, <3>4, <3>5, RuleNumbers
  <2>3. CASE t >= now
    <3>1. kept = {m \in admitted : m.score > now - WindowMs}
      BY KeptIsInWindow
    <3>2. after \in SUBSET ZAdd(kept, c, r, now)
      BY <2>1, <2>3, <3>1 DEF InWindow, ZAdd
    <3>3. /\ IsFiniteSet(ZAdd(kept, c, r, now))
          /\ Cardinality(ZAdd(kept, c, r, now)) <= r.limit
      BY <1>2, FitsWithinLimit DEF ExecDoes
    <3>4. Cardinality(after) <= Cardinality(ZAdd(kept, c, r, now))
      BY <3>2, <3>3, FS_Subset, Zenon
    <3>5. Cardinality(after) \in Nat /\ Cardinality(ZAdd(kept, c, r, now)) \in Nat
      BY <3>2, <3>3, FS_Subset, FS_CardinalityType
    <3> QED
      BY <3>3, <3>4, <3>5, RuleNumbers
  <2> QED
    BY <2>1, <2>2, <2>3
<1> QED
  BY <1>1, <1>2

LEMMA InitNoOverAdmit == Init => NoOverAdmit
<1> SUFFICES ASSUME Init PROVE NoOverAdmit
  OBVIOUS
<1>1. \A p \in Rules, t \in 0 .. MaxTime : InWindow(admitted, p, t) = {}
  BY DEF Init, InWindow
<1>2. Cardinality({}) = 0
  BY FS_EmptySet
<1>3. \A p \in Rules, t \in 0 .. MaxTime : Cardinality(InWindow(admitted, p, t)) <= p.limit
  BY <1>1, <1>2, RuleNumbers
<1> QED
  BY <1>3 DEF NoOverAdmit

LEMMA NextNoOverAdmit ==
  ASSUME OneWindow, TypeOK, WindowInv, NoOverAdmit, [Next]_vars
  PROVE  NoOverAdmit'
<1>1. ASSUME NEW c \in Call, Exec(c) PROVE NoOverAdmit'
  BY <1>1, ExecEffect, ExecNoOverAdmit
<1>2. ASSUME UNCHANGED admitted PROVE NoOverAdmit'
  BY <1>2 DEF NoOverAdmit, InWindow
<1> QED
  BY <1>1, <1>2 DEF Next, Tick, Send, Answer, Resend, Fail, vars

\* With one window length no window, past or present, is over-admitted, whatever
\* the number of nodes and calls, their order, and the replies that are lost
\* (docs/architecture.md:34-38, redisLimiter.js:15-18).
THEOREM NeverOverAdmits == OneWindow /\ Spec => []NoOverAdmit
<1> SUFFICES ASSUME OneWindow PROVE Spec => []NoOverAdmit
  OBVIOUS
<1> DEFINE Inv == TypeOK /\ WindowInv /\ NoOverAdmit
<1>1. Init => Inv
  BY InitTypeOK, InitWindowInv, InitNoOverAdmit
<1>2. Inv /\ [Next]_vars => Inv'
  BY NextTypeOK, NextWindowInv, NextNoOverAdmit
<1>3. Inv => NoOverAdmit
  OBVIOUS
<1> QED
  BY <1>1, <1>2, <1>3, PTL DEF Spec

-----------------------------------------------------------------------------
(* The abstract limits: what a step does to the verdicts *)

\* A call executes only after it was sent, and its verdict then shows.
LEMMA ExecVerdict ==
  ASSUME TypeOK, NEW c \in Call, Exec(c), NEW r \in Rules, NEW ok \in BOOLEAN,
         ExecDoes(c, r, ok)
  PROVE  /\ Verdict[c] = "none"
         /\ Verdict' = [Verdict EXCEPT ![c] = IF ok THEN "allowed" ELSE "denied"]
<1>1. /\ call \in [Call -> CallState] /\ call[c].pc = "sent"
      /\ call' = [call EXCEPT ![c].pc = IF ok THEN "allowed" ELSE "denied"]
  BY DEF TypeOK, Exec, ExecDoes
<1>2. /\ call' \in [Call -> CallState]
      /\ call'[c].pc = IF ok THEN "allowed" ELSE "denied"
      /\ \A d \in Call : d # c => call'[d] = call[d]
  <2>1. [call[c] EXCEPT !.pc = IF ok THEN "allowed" ELSE "denied"] \in CallState
    BY <1>1 DEF CallState
  <2>2. [call[c] EXCEPT !.pc = IF ok THEN "allowed" ELSE "denied"].pc
          = IF ok THEN "allowed" ELSE "denied"
    BY <1>1 DEF CallState
  <2> QED
    BY <1>1, <2>1, <2>2
<1> QED
  BY <1>1, <1>2 DEF Verdict

\* An answer, a lost reply or a failure takes the verdict away.
LEMMA ReleaseVerdict ==
  ASSUME TypeOK, NEW c \in Call, Answer(c) \/ Resend(c) \/ Fail(c)
  PROVE  Verdict' = [Verdict EXCEPT ![c] = "none"]
<1>1. call \in [Call -> CallState]
  BY DEF TypeOK
<1>2. PICK s : /\ call' = [call EXCEPT ![c] = s]
               /\ s.pc \notin {"allowed", "denied"}
  <2>1. CASE Answer(c)
    <3>1. AtRest("answered").pc \notin {"allowed", "denied"}
      BY DEF AtRest
    <3> QED
      BY <2>1, <3>1 DEF Answer
  <2>2. CASE Resend(c)
    <3> DEFINE s == [pc |-> "sent", rule |-> call[c].rule, resends |-> call[c].resends + 1]
    <3>1. call' = [call EXCEPT ![c] = s] /\ s.pc \notin {"allowed", "denied"}
      BY <2>2 DEF Resend
    <3> QED
      BY <3>1
  <2>3. CASE Fail(c)
    <3>1. AtRest("failed").pc \notin {"allowed", "denied"}
      BY DEF AtRest
    <3> QED
      BY <2>3, <3>1 DEF Fail
  <2> QED
    BY <2>1, <2>2, <2>3
<1> QED
  BY <1>1, <1>2 DEF Verdict

LEMMA SendVerdict ==
  ASSUME TypeOK, NEW c \in Call, NEW r \in Rules, Send(c, r)
  PROVE  Verdict' = Verdict
BY DEF Send, Verdict, TypeOK

-----------------------------------------------------------------------------
(* The sliding window *)

\* Every rule for the key has a window, and all windows have one length.
WindowsOnly == OneWindow /\ \A r \in Rules : UsesWindow(r)

LEMMA WindowInit == Init => Window!Init
BY DEF Init, Window!Init, Verdict, AtRest

LEMMA WindowExec ==
  ASSUME WindowsOnly, TypeOK, WindowInv, NEW c \in Call, Exec(c)
  PROVE  Window!Next
<1>1. PICK r \in Rules, ok \in BOOLEAN : ExecDoes(c, r, ok)
  BY ExecEffect
<1>2. /\ Verdict[c] = "none"
      /\ Verdict' = [Verdict EXCEPT ![c] = IF ok THEN "allowed" ELSE "denied"]
  BY <1>1, ExecVerdict
<1>3. UsesWindow(r) /\ OneWindow
  BY DEF WindowsOnly
<1>4. WindowFits(sw, r, now) <=> Window!Fits(r)
  <2> DEFINE live == {m \in admitted : m.score > now - r.windowMs}
  <2>1. Kept(sw, r, now) = live
    BY <1>3, KeptIsInWindow, WindowMsType
  <2>2. Window!Fits(r) <=> Cardinality(live) + r.cost <= r.limit
    BY DEF Window!Fits, Window!Cardinality, Cardinality
  <2>3. WindowFits(sw, r, now) <=> Cardinality(Kept(sw, r, now)) + r.cost <= r.limit
    BY DEF WindowFits
  <2> HIDE DEF live
  <2> QED
    BY <2>1, <2>2, <2>3
<1>5. CASE ok
  <2>1. WindowFits(sw, r, now) /\ admitted' = ZAdd(admitted, c, r, now) /\ now' = now
    BY <1>1, <1>3, <1>5 DEF ExecDoes
  <2>2. Window!Allow(c, r)
    BY <1>2, <1>4, <1>5, <2>1 DEF Window!Allow, ZAdd, Logged
  <2> QED
    BY <2>2 DEF Window!Next
<1>6. CASE ~ok
  <2>1. admitted' = admitted /\ now' = now
    BY <1>1, <1>6 DEF ExecDoes
  <2>2. (\E q \in Rules : q.strategy = "hybrid") \/ ~Window!Fits(r)
    BY <1>1, <1>3, <1>4, <1>6 DEF ExecDoes, UsesWindow
  <2>3. Window!Deny(c, r)
    BY <1>2, <1>6, <2>1, <2>2 DEF Window!Deny
  <2> QED
    BY <2>3 DEF Window!Next
<1> QED
  BY <1>5, <1>6

LEMMA WindowStep ==
  ASSUME WindowsOnly, TypeOK, WindowInv, [Next]_vars
  PROVE  [Window!Next]_Window!vars
<1>1. CASE Tick
  BY <1>1 DEF Tick, Window!Next, Window!Tick, Verdict
<1>2. ASSUME NEW c \in Call, NEW r \in Rules, Send(c, r) PROVE UNCHANGED Window!vars
  BY <1>2, SendVerdict DEF Send, Window!vars
<1>3. ASSUME NEW c \in Call, Exec(c) PROVE Window!Next
  BY <1>3, WindowExec
<1>4. ASSUME NEW c \in Call, Answer(c) \/ Resend(c) \/ Fail(c) PROVE Window!Next
  <2>1. Window!Release(c)
    BY <1>4, ReleaseVerdict DEF Answer, Resend, Fail, Window!Release
  <2> QED
    BY <2>1 DEF Window!Next
<1>5. CASE UNCHANGED vars
  BY <1>5 DEF vars, Window!vars, Verdict
<1> QED
  BY <1>1, <1>2, <1>3, <1>4, <1>5 DEF Next

\* A sorted set that is trimmed at every call and expires with its newest entry
\* decides exactly as a log that is never touched (slidingWindow.lua:26-39,
\* hybrid.lua:44-64).
THEOREM WindowImplemented == WindowsOnly /\ Spec => ImplementsWindow
<1> SUFFICES ASSUME WindowsOnly PROVE Spec => ImplementsWindow
  OBVIOUS
<1>0. OneWindow
  BY DEF WindowsOnly
<1>1. Init => TypeOK /\ WindowInv /\ Window!Init
  BY InitTypeOK, InitWindowInv, WindowInit
<1>2. TypeOK /\ WindowInv /\ [Next]_vars => TypeOK' /\ WindowInv'
  BY <1>0, NextTypeOK, NextWindowInv
<1>3. TypeOK /\ WindowInv /\ [Next]_vars => [Window!Next]_Window!vars
  BY WindowStep
<1> QED
  BY <1>1, <1>2, <1>3, PTL DEF Spec, Window!Spec, ImplementsWindow

-----------------------------------------------------------------------------
(* The token bucket *)

\* The key has one rule, and the rule has a bucket.
OneBucket == Rules = {AnyRule} /\ UsesBucket(AnyRule)

Rate == RefillPerMs(AnyRule)
Full == CapacityUnits(AnyRule)
Ttl  == TtlMs(AnyRule)

\* A bucket that was written expires TtlMs after it.
BucketInv ==
  \/ tb.expireAt = -1
  \/ tb.ts <= now /\ tb.expireAt = tb.ts + Ttl

LEMMA Distribute == \A n, r \in Int : (n + 1) * r = n * r + r
OBVIOUS

LEMMA ProductMonotonic == \A a, b, r \in Nat : a <= b => a * r <= b * r
OBVIOUS

LEMMA CeilDivCovers == \A a \in Nat, b \in Nat \ {0} :
                         CeilDiv(a, b) \in Nat /\ CeilDiv(a, b) * b >= a
<1> SUFFICES ASSUME NEW a \in Nat, NEW b \in Nat \ {0}
             PROVE  CeilDiv(a, b) \in Nat /\ CeilDiv(a, b) * b >= a
  OBVIOUS
<1> DEFINE x == a + b - 1
<1>1. x \in Nat
  OBVIOUS
<1> HIDE DEF x
<1>2. x \div b \in Nat /\ x % b \in 0 .. b - 1
  BY <1>1
<1>3. x = (x \div b) * b + (x % b)
  BY <1>1
<1>4. (x \div b) * b \in Nat
  BY <1>2, NatProduct
<1>5. x - b + 1 = a
  BY DEF x
<1>6. (x \div b) * b >= a
  BY <1>1, <1>2, <1>3, <1>4, <1>5
<1>7. CeilDiv(a, b) = x \div b
  BY DEF CeilDiv, x
<1> QED
  BY <1>2, <1>6, <1>7

\* While a bucket lives it fills up: TtlMs is long enough for a full refill.
LEMMA TtlCoversRefill ==
  ASSUME NEW r \in Rules
  PROVE  /\ TtlMs(r) \in Nat /\ TtlMs(r) >= r.windowMs
         /\ TtlMs(r) * RefillPerMs(r) >= CapacityUnits(r)
<1> DEFINE rate == RefillPerMs(r)
           full == CapacityUnits(r)
           fill == CeilDiv(full, rate)
<1>1. rate \in Nat \ {0} /\ full \in Nat /\ r.windowMs \in Nat
  BY RuleNumbers
<1>2. TtlMs(r) = 2 * Larger(r.windowMs, fill)
  BY DEF TtlMs
<1> HIDE DEF rate, full
<1>3. fill \in Nat /\ fill * rate >= full
  BY <1>1, CeilDivCovers
<1> HIDE DEF fill
<1>4. TtlMs(r) \in Nat /\ fill <= TtlMs(r) /\ TtlMs(r) >= r.windowMs
  BY <1>1, <1>2, <1>3 DEF Larger
<1>5. fill * rate <= TtlMs(r) * rate
  BY <1>1, <1>3, <1>4, ProductMonotonic
<1>6. fill * rate \in Nat /\ TtlMs(r) * rate \in Nat
  BY <1>1, <1>3, <1>4, NatProduct
<1>7. TtlMs(r) * rate >= full
  BY <1>1, <1>3, <1>5, <1>6
<1> QED
  BY <1>4, <1>7 DEF rate, full

\* A bucket that was never written, or is full by rule r when it expires.
FullByExpiry(t, r) ==
  \/ t.expireAt = -1
  \/ t.expireAt >= t.ts /\ (t.expireAt - t.ts) * RefillPerMs(r) >= CapacityUnits(r)

\* A millisecond adds the rate, up to a full bucket, whether the key is still
\* there, expires just now, or was never written.
LEMMA TickRefills ==
  ASSUME NEW t \in BucketType, NEW r \in Rules, NEW at \in Nat,
         FullByExpiry(t, r), t.expireAt = -1 \/ t.ts <= at
  PROVE  LET rate == RefillPerMs(r)  full == CapacityUnits(r)  level == Refilled(t, r, at)
         IN Refilled(t, r, at + 1) = IF level + rate <= full THEN level + rate ELSE full
<1> DEFINE rate  == RefillPerMs(r)
           full  == CapacityUnits(r)
           level == Refilled(t, r, at)
           next  == Refilled(t, r, at + 1)
<1>1. rate \in Nat \ {0} /\ full \in Nat \ {0} /\ level \in 0 .. full
  BY RuleNumbers, RefilledRange
<1>2. t.tokens \in Nat /\ t.ts \in Nat /\ t.expireAt \in Int
  BY BoundsAssumption DEF BucketType
<1>3. /\ level = IF at <= t.expireAt
                 THEN Smaller(full, t.tokens + Larger(0, at - t.ts) * rate) ELSE full
      /\ next = IF at + 1 <= t.expireAt
                THEN Smaller(full, t.tokens + Larger(0, (at + 1) - t.ts) * rate) ELSE full
  BY DEF Refilled, Present
<1>4. FullByExpiry(t, r) <=> \/ t.expireAt = -1
                             \/ t.expireAt >= t.ts /\ (t.expireAt - t.ts) * rate >= full
  BY DEF FullByExpiry
<1> HIDE DEF rate, full, level, next
<1>5. CASE t.expireAt = -1
  BY <1>1, <1>3, <1>5 DEF rate, full, level, next
<1>6. CASE t.expireAt # -1
  <2> DEFINE n == at - t.ts
  <2>1. n \in Nat /\ Larger(0, at - t.ts) = n /\ Larger(0, (at + 1) - t.ts) = n + 1
    BY <1>2, <1>6 DEF Larger
  <2>2. n * rate \in Nat /\ (n + 1) * rate = n * rate + rate
    BY <1>1, <2>1, NatProduct, Distribute
  <2>3. CASE at + 1 <= t.expireAt
    <3> HIDE DEF n
    <3>1. level = Smaller(full, t.tokens + n * rate)
      BY <1>1, <1>2, <1>3, <2>1, <2>3
    <3>2. next = Smaller(full, t.tokens + (n * rate + rate))
      BY <1>3, <2>1, <2>2, <2>3
    <3>3. next = IF level + rate <= full THEN level + rate ELSE full
      BY <1>1, <1>2, <2>2, <3>1, <3>2 DEF Smaller
    <3> QED
      BY <3>3 DEF rate, full, level, next
  <2>4. CASE at = t.expireAt
    <3>1. n * rate >= full
      BY <1>4, <1>6, <2>4
    <3> HIDE DEF n
    <3>2. level = Smaller(full, t.tokens + n * rate)
      BY <1>1, <1>2, <1>3, <2>1, <2>4
    <3>3. level = full
      BY <1>1, <1>2, <2>2, <3>1, <3>2 DEF Smaller
    <3>4. next = full
      BY <1>1, <1>2, <1>3, <2>4
    <3>5. next = IF level + rate <= full THEN level + rate ELSE full
      BY <1>1, <3>3, <3>4
    <3> QED
      BY <3>5 DEF rate, full, level, next
  <2>5. CASE at > t.expireAt
    <3>1. next = IF level + rate <= full THEN level + rate ELSE full
      BY <1>1, <1>2, <1>3, <2>5
    <3> QED
      BY <3>1 DEF rate, full, level, next
  <2> QED
    BY <1>2, <2>3, <2>4, <2>5
<1> QED
  BY <1>5, <1>6

\* A bucket just saved holds what was saved, by any rule it fits.
LEMMA SavedLevel ==
  ASSUME NEW r \in Rules, NEW q \in Rules, NEW u \in 0 .. CapacityUnits(q), NEW at \in Nat
  PROVE  Refilled(SavedBucket(u, r, at), q, at) = u
<1>1. RefillPerMs(q) \in Nat /\ CapacityUnits(q) \in Nat /\ TtlMs(r) \in Nat
  BY RuleNumbers, TtlCoversRefill
<1>2. Larger(0, at - at) * RefillPerMs(q) = 0
  BY <1>1 DEF Larger
<1> QED
  BY <1>1, <1>2 DEF Refilled, SavedBucket, Present, Smaller

Level == Refilled(tb, AnyRule, now)

LEMMA LevelRange ==
  ASSUME TypeOK
  PROVE  /\ Level \in 0 .. Full /\ Rate \in Nat \ {0} /\ Full \in Nat \ {0}
         /\ now \in Nat /\ tb \in BucketType
<1>1. tb \in BucketType /\ now \in Nat
  BY BoundsAssumption DEF TypeOK, BucketType
<1>2. Rate \in Nat \ {0} /\ Full \in Nat \ {0}
  BY AnyRuleIsRule, RuleNumbers DEF Rate, Full
<1>3. Level \in 0 .. Full
  BY <1>1, AnyRuleIsRule, RefilledRange DEF Level, Full
<1> QED
  BY <1>1, <1>2, <1>3

LEMMA TickLevel ==
  ASSUME TypeOK, BucketInv, Tick
  PROVE  Level' = IF Level + Rate <= Full THEN Level + Rate ELSE Full
<1>1. /\ tb \in BucketType /\ now \in Nat /\ now' = now + 1 /\ tb' = tb
      /\ Level' = Refilled(tb, AnyRule, now + 1)
  BY LevelRange DEF Tick, Level, AnyRule
<1>2. tb.ts \in Nat /\ tb.expireAt \in Int /\ Ttl \in Nat /\ Ttl * Rate >= Full
  BY <1>1, BoundsAssumption, AnyRuleIsRule, TtlCoversRefill DEF BucketType, Ttl, Rate, Full
<1>3. FullByExpiry(tb, AnyRule) /\ (tb.expireAt = -1 \/ tb.ts <= now)
  <2>1. CASE tb.expireAt = -1
    BY <2>1 DEF FullByExpiry
  <2>2. CASE tb.ts <= now /\ tb.expireAt = tb.ts + Ttl
    <3>1. tb.expireAt >= tb.ts /\ tb.expireAt - tb.ts = Ttl
      BY <1>2, <2>2
    <3> QED
      BY <1>2, <2>2, <3>1, Zenon DEF FullByExpiry, Rate, Full
  <2> QED
    BY <2>1, <2>2 DEF BucketInv
<1> QED
  BY <1>1, <1>3, AnyRuleIsRule, TickRefills DEF Level, Rate, Full

\* An execution charges the level for what it allows, and denies for cause.
LEMMA BucketExec ==
  ASSUME OneBucket, TypeOK, NEW c \in Call, Exec(c)
  PROVE  BucketInv' /\ Bucket!Next
<1> DEFINE r == AnyRule
<1>1. PICK ok \in BOOLEAN : ExecDoes(c, r, ok)
  BY ExecEffect DEF OneBucket
<1>2. /\ Level \in 0 .. Full /\ now \in Nat /\ Ttl \in Nat /\ now' = now
      /\ CostUnits(r) \in Nat /\ Full \in Nat
  BY <1>1, LevelRange, TtlCoversRefill, AnyRuleIsRule, RuleNumbers DEF ExecDoes, Ttl
<1>3. /\ Verdict[c] = "none"
      /\ Verdict' = [Verdict EXCEPT ![c] = IF ok THEN "allowed" ELSE "denied"]
  BY <1>1, AnyRuleIsRule, ExecVerdict
<1>4. /\ ok => Level >= CostUnits(r)
      /\ tb' = SavedBucket(Level - (IF ok THEN CostUnits(r) ELSE 0), r, now)
  BY <1>1 DEF OneBucket, ExecDoes, Level
<1>5. /\ r.strategy = "token_bucket" => (ok <=> Level >= CostUnits(r))
      /\ r.strategy \in {"token_bucket", "hybrid"}
  BY <1>1 DEF OneBucket, UsesBucket, ExecDoes, TokensSuffice, Level
<1> HIDE DEF r
<1>6. BucketInv'
  <2>1. tb'.ts = now /\ tb'.expireAt = now + Ttl
    BY <1>4 DEF SavedBucket, Ttl, r
  <2> QED
    BY <1>2, <2>1 DEF BucketInv, Ttl, AnyRule
<1>7. Level' = Level - (IF ok THEN CostUnits(r) ELSE 0)
  <2> DEFINE u == Level - (IF ok THEN CostUnits(r) ELSE 0)
  <2>1. u \in 0 .. Full
    <3>1. CASE ok
      <4>1. u = Level - CostUnits(r)
        BY <3>1
      <4> HIDE DEF u
      <4> QED
        BY <1>2, <1>4, <3>1, <4>1
    <3>2. CASE ~ok
      BY <1>2, <3>2
    <3> QED
      BY <3>1, <3>2
  <2>2. Level' = Refilled(tb', AnyRule, now)
    BY <1>2 DEF Level, AnyRule
  <2>3. tb' = SavedBucket(u, AnyRule, now)
    BY <1>4 DEF r
  <2> HIDE DEF u
  <2>4. Level' = u
    BY <1>2, <2>1, <2>2, <2>3, AnyRuleIsRule, SavedLevel DEF Full
  <2> QED
    BY <2>4 DEF u
<1>8. CASE ok
  <2>1. Bucket!Allow(c)
    BY <1>2, <1>3, <1>4, <1>7, <1>8 DEF Bucket!Allow, Level, r, AnyRule
  <2> QED
    BY <1>6, <2>1 DEF Bucket!Next
<1>9. CASE ~ok
  <2>1. Level' = Level
    BY <1>2, <1>7, <1>9
  <2>2. (\E q \in Rules : q.strategy = "hybrid") \/ Level < CostUnits(r)
    BY <1>2, <1>5, <1>9, AnyRuleIsRule DEF r
  <2>3. Bucket!Deny(c)
    BY <1>3, <1>9, <2>1, <2>2 DEF Bucket!Deny, Level, r, AnyRule
  <2> QED
    BY <1>6, <2>3 DEF Bucket!Next
<1> QED
  BY <1>8, <1>9

LEMMA BucketStep ==
  ASSUME OneBucket, TypeOK, BucketInv, [Next]_vars
  PROVE  BucketInv' /\ [Bucket!Next]_Bucket!vars
<1>1. CASE Tick
  <2>1. Level' = IF Level + Rate <= Full THEN Level + Rate ELSE Full
    BY <1>1, TickLevel
  <2>2. Verdict' = Verdict
    BY <1>1 DEF Tick, Verdict
  <2>3. Bucket!Tick
    BY <2>1, <2>2 DEF Bucket!Tick, Level, Rate, Full
  <2>4. BucketInv'
    BY <1>1, LevelRange, BoundsAssumption DEF Tick, BucketInv, BucketType, Ttl, AnyRule
  <2> QED
    BY <2>3, <2>4 DEF Bucket!Next
<1>2. ASSUME NEW c \in Call, Exec(c) PROVE BucketInv' /\ [Bucket!Next]_Bucket!vars
  BY <1>2, BucketExec
<1>3. ASSUME UNCHANGED <<now, tb>> PROVE BucketInv' /\ Level' = Level
  BY <1>3 DEF BucketInv, Level, Ttl, AnyRule
<1>4. ASSUME NEW c \in Call, NEW q \in Rules, Send(c, q)
      PROVE  BucketInv' /\ UNCHANGED Bucket!vars
  BY <1>3, <1>4, SendVerdict DEF Send, Bucket!vars, Level
<1>5. ASSUME NEW c \in Call, Answer(c) \/ Resend(c) \/ Fail(c)
      PROVE  BucketInv' /\ Bucket!Next
  <2>1. UNCHANGED <<now, tb>>
    BY <1>5 DEF Answer, Resend, Fail
  <2>2. Bucket!Release(c)
    BY <1>3, <1>5, <2>1, ReleaseVerdict DEF Bucket!Release, Level
  <2> QED
    BY <1>3, <2>1, <2>2 DEF Bucket!Next
<1>6. CASE UNCHANGED vars
  BY <1>3, <1>6 DEF vars, Bucket!vars, Level, Verdict
<1> QED
  BY <1>1, <1>2, <1>4, <1>5, <1>6 DEF Next

\* A hash that is refilled only when a call comes by, and vanishes TtlMs after
\* the last one, decides exactly as a bucket that fills every millisecond and
\* never goes away (tokenBucket.lua:31-42, hybrid.lua:31-63, rule.js:38-41).
THEOREM BucketImplemented == OneBucket /\ Spec => ImplementsBucket
<1> SUFFICES ASSUME OneBucket PROVE Spec => ImplementsBucket
  OBVIOUS
<1>1. Init => TypeOK /\ BucketInv /\ Bucket!Init
  <2>1. Init => BucketInv /\ Bucket!Init
    BY DEF Init, NoBucket, BucketInv, Bucket!Init, Verdict, AtRest, Refilled, Present
  <2> QED
    BY <2>1, InitTypeOK
<1>2. TypeOK /\ BucketInv /\ [Next]_vars => TypeOK' /\ BucketInv'
  BY NextTypeOK, BucketStep
<1>3. TypeOK /\ BucketInv /\ [Next]_vars => [Bucket!Next]_Bucket!vars
  BY BucketStep
<1> QED
  BY <1>1, <1>2, <1>3, PTL DEF Spec, Bucket!Spec, ImplementsBucket

-----------------------------------------------------------------------------
(* The bucket's account while the limit changes *)

\* The rules for the key differ as an override makes them differ (overrides.js,
\* effectiveRule): in the limit, of which one is the highest.  Strategy and cost
\* may differ too.
LimitsOnly ==
  \E top \in Rules : \A r \in Rules :
    r.windowMs = top.windowMs /\ r.burst = top.burst /\ r.limit <= top.limit

\* The rule with the highest limit.
Top ==
  CHOOSE top \in Rules : \A r \in Rules :
    r.windowMs = top.windowMs /\ r.burst = top.burst /\ r.limit <= top.limit

TopFull == CapacityUnits(Top)
TopRate == RefillPerMs(Top)
TopLevel == Refilled(tb, Top, now)

\* The highest limit has the largest bucket and the fastest refill, and a bucket
\* that any rule lets expire would be full even so.
LEMMA TopRule ==
  ASSUME LimitsOnly
  PROVE  /\ Top \in Rules
         /\ TopFull \in Nat \ {0} /\ TopRate \in Nat \ {0}
         /\ \A r \in Rules : /\ CapacityUnits(r) <= TopFull
                             /\ RefillPerMs(r) <= TopRate
                             /\ TtlMs(r) * TopRate >= TopFull
<1>1. /\ Top \in Rules
      /\ \A r \in Rules :
           r.windowMs = Top.windowMs /\ r.burst = Top.burst /\ r.limit <= Top.limit
  BY DEF LimitsOnly, Top
<1>2. TopFull \in Nat \ {0} /\ TopRate \in Nat \ {0}
  BY <1>1, RuleNumbers DEF TopFull, TopRate
<1> SUFFICES ASSUME NEW r \in Rules
             PROVE  /\ CapacityUnits(r) <= TopFull
                    /\ RefillPerMs(r) <= TopRate
                    /\ TtlMs(r) * TopRate >= TopFull
  BY <1>1, <1>2
<1> DEFINE W == Top.windowMs
           L == Top.limit
           q == TokenUnit \div W
<1>3. /\ r.windowMs = W /\ r.burst = Top.burst /\ r.limit <= L
      /\ r.limit \in Nat \ {0} /\ L \in Nat \ {0} /\ W \in Nat \ {0}
      /\ Top.burst \in Nat /\ TokenUnit \in Nat \ {0} /\ TokenUnit % W = 0
  BY <1>1, RuleNumbers, RulesAssumption DEF RuleSchema
<1>4. q \in Nat /\ TokenUnit = W * q
  BY <1>3
<1>5. RefillPerMs(r) = r.limit * q /\ TopRate = L * q
  BY <1>3 DEF RefillPerMs, TopRate
<1> HIDE DEF q
<1>6. RefillPerMs(r) <= TopRate
  BY <1>3, <1>4, <1>5, ProductMonotonic
<1>7. CapacityUnits(r) <= TopFull
  <2>1. Capacity(r) \in Nat /\ Capacity(Top) \in Nat /\ Capacity(r) <= Capacity(Top)
    BY <1>3 DEF Capacity
  <2> QED
    BY <1>3, <2>1, ProductMonotonic DEF CapacityUnits, TopFull
<1>8. /\ TtlMs(r) \in Nat /\ TtlMs(r) >= W /\ RefillPerMs(r) \in Nat /\ CapacityUnits(r) \in Nat
      /\ TtlMs(r) * RefillPerMs(r) >= CapacityUnits(r)
  BY <1>3, RuleNumbers, TtlCoversRefill
<1>9. TtlMs(r) * TopRate >= TopFull
  <2>1. CASE Top.burst > 0
    <3>1. CapacityUnits(r) = TopFull
      BY <1>3, <2>1 DEF CapacityUnits, Capacity, TopFull
    <3>2. RefillPerMs(r) * TtlMs(r) <= TopRate * TtlMs(r)
      BY <1>2, <1>6, <1>8, ProductMonotonic
    <3> HIDE DEF W, L
    <3> QED
      BY <1>2, <1>8, <3>1, <3>2
  <2>2. CASE ~(Top.burst > 0)
    <3>1. TopFull = L * TokenUnit
      BY <2>2 DEF CapacityUnits, Capacity, TopFull
    <3> HIDE DEF W, L
    <3>2. L * (W * q) = W * (L * q)
      BY <1>3, <1>4
    <3>3. TopFull = W * TopRate
      BY <1>4, <1>5, <3>1, <3>2
    <3>4. W * TopRate <= TtlMs(r) * TopRate
      BY <1>2, <1>3, <1>8, ProductMonotonic
    <3> QED
      BY <3>3, <3>4
  <2> QED
    BY <2>1, <2>2
<1> QED
  BY <1>6, <1>7, <1>9

\* A rule never finds more in the bucket than the one with the highest limit does.
LEMMA TopRefillsMost ==
  ASSUME LimitsOnly, NEW t \in BucketType, NEW r \in Rules, NEW at \in Nat
  PROVE  Refilled(t, r, at) <= Refilled(t, Top, at)
<1> DEFINE n == Larger(0, at - t.ts)
<1>1. /\ RefillPerMs(r) \in Nat /\ TopRate \in Nat /\ RefillPerMs(r) <= TopRate
      /\ CapacityUnits(r) \in Nat /\ TopFull \in Nat /\ CapacityUnits(r) <= TopFull
  BY RuleNumbers, TopRule
<1>2. t.tokens \in Nat /\ n \in Nat
  BY BoundsAssumption DEF BucketType, Larger
<1>3. /\ Refilled(t, r, at) = IF Present(t, at)
                              THEN Smaller(CapacityUnits(r), t.tokens + n * RefillPerMs(r))
                              ELSE CapacityUnits(r)
      /\ Refilled(t, Top, at) = IF Present(t, at)
                                THEN Smaller(TopFull, t.tokens + n * TopRate) ELSE TopFull
  BY DEF Refilled, TopFull, TopRate
<1> HIDE DEF n
<1>4. /\ n * RefillPerMs(r) \in Nat /\ n * TopRate \in Nat
      /\ n * RefillPerMs(r) <= n * TopRate
  <2>1. RefillPerMs(r) * n <= TopRate * n
    BY <1>1, <1>2, ProductMonotonic
  <2> QED
    BY <1>1, <1>2, <2>1, NatProduct
<1> QED
  BY <1>1, <1>2, <1>3, <1>4 DEF Smaller

\* What was charged since s and what the highest limit would find in the bucket now
\* come to no more than one full bucket and the refill since s; nothing is charged
\* in advance; a bucket that expires would be full anyway.
SpendInv ==
  /\ FullByExpiry(tb, Top)
  /\ tb.expireAt = -1 \/ tb.ts <= now
  /\ \A s \in 0 .. MaxTime :
       IF s <= now THEN spent[s] + TopLevel <= TopFull + (now - s) * TopRate
       ELSE spent[s] = 0

LEMMA SpendNumbers ==
  ASSUME LimitsOnly, TypeOK
  PROVE  /\ TopLevel \in 0 .. TopFull /\ TopFull \in Nat \ {0} /\ TopRate \in Nat \ {0}
         /\ now \in Nat /\ tb \in BucketType /\ spent \in [0 .. MaxTime -> Nat]
<1>1. now \in Nat /\ tb \in BucketType /\ spent \in [0 .. MaxTime -> Nat]
  BY BoundsAssumption DEF TypeOK, BucketType
<1> QED
  BY <1>1, TopRule, RefilledRange DEF TopLevel, TopFull

LEMMA NoTime == \A x \in Nat : 0 * x = 0 /\ 0 + x = x
OBVIOUS

LEMMA InitSpendInv == LimitsOnly /\ Init => SpendInv
<1> SUFFICES ASSUME LimitsOnly, Init PROVE SpendInv
  OBVIOUS
<1>1. TopLevel = TopFull /\ tb.expireAt = -1
  BY DEF Init, NoBucket, TopLevel, TopFull, Refilled, Present
<1>2. TopFull \in Nat /\ TopRate \in Nat /\ now = 0 /\ \A s \in 0 .. MaxTime : spent[s] = 0
  BY TopRule DEF Init
<1>3. (now - 0) * TopRate = 0
  BY <1>2
<1> QED
  BY <1>1, <1>2, <1>3, BoundsAssumption DEF SpendInv, FullByExpiry

LEMMA TickSpendInv ==
  ASSUME LimitsOnly, TypeOK, SpendInv, Tick
  PROVE  SpendInv'
<1>1. /\ TopLevel \in 0 .. TopFull /\ TopFull \in Nat \ {0} /\ TopRate \in Nat \ {0}
      /\ now \in Nat /\ tb \in BucketType /\ spent \in [0 .. MaxTime -> Nat]
  BY SpendNumbers
<1>2. now' = now + 1 /\ tb' = tb /\ spent' = spent /\ Top' = Top
      /\ TopFull' = TopFull /\ TopRate' = TopRate
  BY DEF Tick, Top, TopFull, TopRate
<1>3. TopLevel' <= TopLevel + TopRate /\ TopLevel' <= TopFull /\ TopLevel' \in Nat
  <2>1. TopLevel' = Refilled(tb, Top, now + 1)
    BY <1>2 DEF TopLevel
  <2>2. TopLevel' = IF TopLevel + TopRate <= TopFull THEN TopLevel + TopRate ELSE TopFull
    BY <1>1, <2>1, TopRule, TickRefills DEF SpendInv, TopLevel, TopRate, TopFull
  <2> QED
    BY <1>1, <2>2
<1>4. ASSUME NEW s \in 0 .. MaxTime
      PROVE  IF s <= now' THEN spent'[s] + TopLevel' <= TopFull + (now' - s) * TopRate
             ELSE spent'[s] = 0
  <2>1. s \in Nat /\ spent[s] \in Nat /\ spent'[s] = spent[s]
    BY <1>1, <1>2, BoundsAssumption
  <2>2. CASE s <= now
    <3> DEFINE n == now - s
    <3>1. n \in Nat /\ now' - s = n + 1
      BY <1>1, <1>2, <2>1, <2>2
    <3>2. spent[s] + TopLevel <= TopFull + n * TopRate
      BY <2>2 DEF SpendInv
    <3> HIDE DEF n
    <3>3. n * TopRate \in Nat /\ (n + 1) * TopRate = n * TopRate + TopRate
      BY <1>1, <3>1, NatProduct, Distribute
    <3> QED
      BY <1>1, <1>2, <1>3, <2>1, <2>2, <3>1, <3>2, <3>3
  <2>3. CASE s = now + 1
    <3>1. spent[s] = 0 /\ now' - s = 0
      BY <1>1, <1>2, <2>1, <2>3 DEF SpendInv
    <3>2. (now' - s) * TopRate = 0
      BY <1>1, <3>1, NoTime
    <3>3. spent'[s] + TopLevel' = TopLevel'
      BY <1>3, <2>1, <3>1, NoTime
    <3>4. TopFull + 0 = TopFull
      BY <1>1
    <3>5. s <= now' /\ TopLevel' <= TopFull
      BY <1>1, <1>2, <1>3, <2>3
    <3> QED
      BY <3>2, <3>3, <3>4, <3>5, Zenon
  <2>4. CASE s > now + 1
    BY <1>1, <1>2, <2>1, <2>4 DEF SpendInv
  <2> QED
    BY <1>1, <2>1, <2>2, <2>3, <2>4
<1>5. FullByExpiry(tb, Top)' /\ (tb'.expireAt = -1 \/ tb'.ts <= now')
  <2>1. tb.ts \in Nat
    BY <1>1, BoundsAssumption DEF BucketType
  <2> QED
    BY <1>1, <1>2, <2>1 DEF SpendInv, FullByExpiry
<1> QED
  BY <1>2, <1>4, <1>5 DEF SpendInv

LEMMA ExecSpendInv ==
  ASSUME LimitsOnly, TypeOK, SpendInv,
         NEW c \in Call, NEW r \in Rules, NEW ok \in BOOLEAN, ExecDoes(c, r, ok)
  PROVE  SpendInv'
<1> DEFINE pays == IF ok /\ UsesBucket(r) THEN CostUnits(r) ELSE 0
<1>1. /\ TopLevel \in 0 .. TopFull /\ TopFull \in Nat \ {0} /\ TopRate \in Nat \ {0}
      /\ now \in Nat /\ tb \in BucketType /\ spent \in [0 .. MaxTime -> Nat]
  BY SpendNumbers
<1>2. /\ now' = now /\ Top' = Top /\ TopFull' = TopFull /\ TopRate' = TopRate
      /\ TopLevel' = Refilled(tb', Top, now)
      /\ \A s \in 0 .. MaxTime : spent'[s] = spent[s] + (IF s <= now THEN pays ELSE 0)
  BY DEF ExecDoes, Top, TopFull, TopRate, TopLevel
<1>3. pays \in Nat
  BY RuleNumbers
<1>4. /\ TopLevel' + pays <= TopLevel /\ TopLevel' \in Nat
      /\ FullByExpiry(tb', Top) /\ (tb'.expireAt = -1 \/ tb'.ts <= now)
  <2>1. CASE UsesBucket(r)
    <3> DEFINE u == Refilled(tb, r, now) - pays
    <3>1. /\ Refilled(tb, r, now) \in 0 .. CapacityUnits(r) /\ CapacityUnits(r) \in Nat
          /\ ok => Refilled(tb, r, now) >= CostUnits(r)
          /\ CapacityUnits(r) <= TopFull /\ CostUnits(r) \in Nat
      BY <1>1, <2>1, RefilledRange, RuleNumbers, TopRule DEF ExecDoes
    <3>2. Refilled(tb, r, now) <= TopLevel
      BY <1>1, TopRefillsMost DEF TopLevel
    <3>3. tb' = SavedBucket(u, r, now)
      BY <2>1 DEF ExecDoes
    <3>4. u \in 0 .. TopFull /\ u + pays <= TopLevel
      BY <1>1, <2>1, <3>1, <3>2
    <3> HIDE DEF u, pays
    <3>5. TopLevel' = u
      BY <1>1, <1>2, <3>3, <3>4, TopRule, SavedLevel DEF TopFull
    <3>6. /\ tb'.ts = now /\ tb'.expireAt = now + TtlMs(r) /\ TtlMs(r) \in Nat
          /\ TtlMs(r) * TopRate >= TopFull
      BY <3>3, TtlCoversRefill, TopRule DEF SavedBucket
    <3>7. tb'.expireAt - tb'.ts = TtlMs(r) /\ tb'.expireAt >= tb'.ts
      BY <1>1, <3>6
    <3>8. FullByExpiry(tb', Top)
      BY <3>6, <3>7, Zenon DEF FullByExpiry, TopRate, TopFull
    <3> QED
      BY <1>1, <3>4, <3>5, <3>6, <3>8
  <2>2. CASE ~UsesBucket(r)
    <3>1. tb' = tb /\ pays = 0
      BY <2>2 DEF ExecDoes
    <3> QED
      BY <1>1, <1>2, <3>1 DEF SpendInv, TopLevel
  <2> QED
    BY <2>1, <2>2
<1> HIDE DEF pays
<1>5. ASSUME NEW s \in 0 .. MaxTime
      PROVE  IF s <= now THEN spent'[s] + TopLevel' <= TopFull + (now - s) * TopRate
             ELSE spent'[s] = 0
  <2>1. s \in Nat /\ spent[s] \in Nat
    BY <1>1, BoundsAssumption
  <2>2. CASE s <= now
    <3> DEFINE gain == (now - s) * TopRate
    <3>1. gain \in Nat
      BY <1>1, <2>1, <2>2, NatProduct
    <3>2. spent[s] + TopLevel <= TopFull + gain
      BY <2>2 DEF SpendInv
    <3> HIDE DEF gain
    <3>3. spent'[s] + TopLevel' <= TopFull + gain
      BY <1>1, <1>2, <1>3, <1>4, <2>1, <2>2, <3>1, <3>2
    <3> QED
      BY <2>2, <3>3 DEF gain
  <2>3. CASE ~(s <= now)
    BY <1>2, <2>1, <2>3 DEF SpendInv
  <2> QED
    BY <2>2, <2>3
<1> QED
  BY <1>2, <1>4, <1>5 DEF SpendInv, FullByExpiry, TopFull, TopRate

LEMMA NextSpendInv ==
  ASSUME LimitsOnly, TypeOK, SpendInv, [Next]_vars
  PROVE  SpendInv'
<1>1. CASE Tick
  BY <1>1, TickSpendInv
<1>2. ASSUME NEW c \in Call, Exec(c) PROVE SpendInv'
  BY <1>2, ExecEffect, ExecSpendInv
<1>3. ASSUME UNCHANGED <<now, tb, spent>> PROVE SpendInv'
  BY <1>3 DEF SpendInv, FullByExpiry, TopLevel, TopFull, TopRate, Top
<1> QED
  BY <1>1, <1>2, <1>3 DEF Next, Send, Answer, Resend, Fail, vars

\* While overrides move the limit of a key, and commands are lost, resent and
\* reordered, the bucket never pays out more than one full bucket of the highest
\* limit and what that limit refills (tokenBucket.lua:1-3, overrides.js:44-49).
THEOREM SpendStaysBounded == LimitsOnly /\ Spec => []SpendBound
<1> SUFFICES ASSUME LimitsOnly PROVE Spec => []SpendBound
  OBVIOUS
<1>1. Init => TypeOK /\ SpendInv
  BY InitTypeOK, InitSpendInv
<1>2. TypeOK /\ SpendInv /\ [Next]_vars => TypeOK' /\ SpendInv'
  BY NextTypeOK, NextSpendInv
<1>3. TypeOK /\ SpendInv => SpendBound
  <2> SUFFICES ASSUME TypeOK, SpendInv, NEW s \in 0 .. now
               PROVE  spent[s] <= TopFull + (now - s) * TopRate
    BY TopRule DEF SpendBound, TopFull, TopRate
  <2>1. s \in 0 .. MaxTime /\ s <= now /\ s \in Nat
    BY BoundsAssumption DEF TypeOK
  <2>2. spent[s] + TopLevel <= TopFull + (now - s) * TopRate
    BY <2>1 DEF SpendInv
  <2>3. TopLevel \in Nat /\ TopFull \in Nat /\ spent[s] \in Nat /\ (now - s) * TopRate \in Nat
    BY <2>1, SpendNumbers, NatProduct
  <2> QED
    BY <2>2, <2>3
<1> QED
  BY <1>1, <1>2, <1>3, PTL DEF Spec

-----------------------------------------------------------------------------
(* What a reply promises *)

\* Every limit that the strategy has must agree.
LEMMA AllowedIff ==
  ASSUME NEW t, NEW w, NEW r \in Rules, NEW id, NEW at
  PROVE  RunScript(t, w, r, id, at).reply.allowed
           = ((UsesBucket(r) => TokensSuffice(t, r, at)) /\ (UsesWindow(r) => WindowFits(w, r, at)))
<1>0. TokensSuffice(t, r, at) \in BOOLEAN /\ WindowFits(w, r, at) \in BOOLEAN
  BY DEF TokensSuffice, WindowFits
<1>1. CASE r.strategy = "token_bucket"
  BY <1>0, <1>1, Zenon DEF RunScript, rlTokenBucket, UsesBucket, UsesWindow, Reply
<1>2. CASE r.strategy = "sliding_window"
  BY <1>0, <1>2, Zenon DEF RunScript, rlSlidingWindow, UsesBucket, UsesWindow, Reply
<1>3. CASE r.strategy = "hybrid"
  BY <1>0, <1>3, Zenon DEF RunScript, rlHybrid, UsesBucket, UsesWindow, Reply
<1> QED
  BY <1>1, <1>2, <1>3, RuleNumbers DEF Strategy

\* `remaining` is at most what either half has left.
LEMMA RemainingIs ==
  ASSUME NEW t, NEW w, NEW r \in Rules, NEW id, NEW at,
         NEW run, run = RunScript(t, w, r, id, at)
  PROVE  LET left   == Refilled(t, r, at) - (IF run.reply.allowed THEN CostUnits(r) ELSE 0)
             inLog  == WindowLeft(Kept(w, r, at), run.reply.allowed, r)
         IN /\ r.strategy = "token_bucket" => run.reply.remaining = left \div TokenUnit
            /\ r.strategy = "sliding_window" => run.reply.remaining = inLog
            /\ r.strategy = "hybrid" =>
                 run.reply.remaining = Smaller(left \div TokenUnit, inLog)
<1>1. CASE r.strategy = "token_bucket"
  <2> DEFINE reply == rlTokenBucket(t, w, r, id, at).reply
  <2>1. run.reply = reply
    BY <1>1, Zenon DEF RunScript
  <2>2. reply.allowed = TokensSuffice(t, r, at)
    BY Zenon DEF rlTokenBucket, Reply
  <2>3. reply.remaining
          = (Refilled(t, r, at) - (IF TokensSuffice(t, r, at) THEN CostUnits(r) ELSE 0))
              \div TokenUnit
    BY Zenon DEF rlTokenBucket, Reply
  <2> HIDE DEF reply
  <2> QED
    BY <1>1, <2>1, <2>2, <2>3
<1>2. CASE r.strategy = "sliding_window"
  <2> DEFINE reply == rlSlidingWindow(t, w, r, id, at).reply
  <2>1. run.reply = reply
    BY <1>2, Zenon DEF RunScript
  <2>2. reply.allowed = WindowFits(w, r, at)
    BY Zenon DEF rlSlidingWindow, Reply
  <2>3. reply.remaining = WindowLeft(Kept(w, r, at), WindowFits(w, r, at), r)
    BY Zenon DEF rlSlidingWindow, Reply
  <2> HIDE DEF reply
  <2> QED
    BY <1>2, <2>1, <2>2, <2>3
<1>3. CASE r.strategy = "hybrid"
  <2> DEFINE reply == rlHybrid(t, w, r, id, at).reply
             both  == TokensSuffice(t, r, at) /\ WindowFits(w, r, at)
  <2>1. run.reply = reply
    BY <1>3, Zenon DEF RunScript
  <2>2. reply.allowed = both
    BY Zenon DEF rlHybrid, Reply
  <2>3. reply.remaining
          = Smaller((Refilled(t, r, at) - (IF both THEN CostUnits(r) ELSE 0)) \div TokenUnit,
                    WindowLeft(Kept(w, r, at), both, r))
    BY Zenon DEF rlHybrid, Reply
  <2> HIDE DEF reply, both
  <2> QED
    BY <1>3, <2>1, <2>2, <2>3
<1> QED
  BY <1>1, <1>2, <1>3, RuleNumbers DEF Strategy

\* What is saved is there at once.
LEMMA KeptAtOnce ==
  ASSUME NEW e \in SUBSET Entry, NEW r \in Rules, NEW at \in Nat,
         \A m \in e : m.score > at - r.windowMs
  PROVE  Kept([entries |-> e, expireAt |-> at + r.windowMs], r, at) = e
BY RuleNumbers DEF Kept, Present

\* Tokens left for the cost pay it.
LEMMA TokensCover ==
  ASSUME NEW u \in Nat, NEW r \in Rules, u \div TokenUnit >= r.cost
  PROVE  u >= CostUnits(r)
<1> DEFINE k == u \div TokenUnit
<1>1. TokenUnit \in Nat \ {0} /\ r.cost \in Nat
  BY RulesAssumption, RuleNumbers
<1>2. k \in Nat /\ u % TokenUnit \in Nat /\ u = k * TokenUnit + (u % TokenUnit)
  BY <1>1
<1>3. r.cost <= k
  BY <1>1, <1>2
<1> HIDE DEF k
<1>4. r.cost * TokenUnit <= k * TokenUnit
  BY <1>1, <1>2, <1>3, ProductMonotonic
<1>5. r.cost * TokenUnit \in Nat /\ k * TokenUnit \in Nat
  BY <1>1, <1>2, NatProduct
<1> QED
  BY <1>2, <1>4, <1>5 DEF CostUnits

\* The bucket half of RemainingIsHonest.
LEMMA BucketRemaining ==
  ASSUME NEW t \in BucketType, NEW r \in Rules, NEW at \in Nat, NEW ok \in BOOLEAN,
         ok => Refilled(t, r, at) >= CostUnits(r),
         NEW left, left = Refilled(t, r, at) - (IF ok THEN CostUnits(r) ELSE 0),
         left \div TokenUnit >= r.cost
  PROVE  TokensSuffice(SavedBucket(left, r, at), r, at)
<1>1. /\ Refilled(t, r, at) \in 0 .. CapacityUnits(r) /\ CostUnits(r) \in Nat
      /\ CapacityUnits(r) \in Nat
  BY RefilledRange, RuleNumbers
<1>2. left \in 0 .. CapacityUnits(r)
  BY <1>1
<1>3. Refilled(SavedBucket(left, r, at), r, at) = left
  BY <1>2, SavedLevel
<1>4. left >= CostUnits(r)
  BY <1>1, <1>2, TokensCover
<1> QED
  BY <1>3, <1>4 DEF TokensSuffice

\* The window half.
LEMMA WindowRemaining ==
  ASSUME NEW w \in WindowType, IsFiniteSet(w.entries), NEW r \in Rules,
         NEW at \in 0 .. MaxTime, NEW id, NEW ok \in BOOLEAN, NEW e,
         e = IF ok THEN ZAdd(Kept(w, r, at), id, r, at) ELSE Kept(w, r, at),
         WindowLeft(Kept(w, r, at), ok, r) >= r.cost
  PROVE  WindowFits([entries |-> e, expireAt |-> at + r.windowMs], r, at)
<1> DEFINE kept == Kept(w, r, at)
           after == Kept([entries |-> e, expireAt |-> at + r.windowMs], r, at)
<1>1. /\ r.cost \in Nat \ {0} /\ r.limit \in Nat /\ r.windowMs \in Nat \ {0}
      /\ at \in Nat
  BY RuleNumbers, BoundsAssumption
<1>2. IsFiniteSet(kept) /\ Cardinality(kept) \in Nat
  <2>1. kept \in SUBSET w.entries
    BY DEF Kept
  <2> QED
    BY <2>1, FS_Subset, FS_CardinalityType
<1>3. after \in SUBSET e
  BY DEF Kept
<1>4. /\ IsFiniteSet(e) /\ Cardinality(e) \in Nat
      /\ Cardinality(e) <= Cardinality(kept) + (IF ok THEN r.cost ELSE 0)
  <2>1. CASE ok
    BY <1>2, <2>1, ZAddFinite, FS_CardinalityType
  <2>2. CASE ~ok
    BY <1>1, <1>2, <2>2
  <2> QED
    BY <2>1, <2>2
<1>5. Cardinality(after) <= Cardinality(e) /\ Cardinality(after) \in Nat
  BY <1>3, <1>4, FS_Subset, FS_CardinalityType
<1>6. r.limit - Cardinality(kept) - (IF ok THEN r.cost ELSE 0) >= r.cost
  BY <1>1, <1>2 DEF WindowLeft, Larger
<1> HIDE DEF kept, after
<1>7. Cardinality(after) + r.cost <= r.limit
  BY <1>1, <1>2, <1>4, <1>5, <1>6
<1> QED
  BY <1>7 DEF WindowFits, after

\* Whatever Redis holds for the key, and whatever the rule.
LEMMA RemainingHolds ==
  ASSUME NEW t \in BucketType, NEW w \in WindowType, IsFiniteSet(w.entries),
         NEW r \in Rules, NEW at \in 0 .. MaxTime, NEW id, NEW next,
         RunScript(t, w, r, id, at).reply.remaining >= r.cost
  PROVE  LET first == RunScript(t, w, r, id, at)
         IN RunScript(first.tb, first.sw, r, next, at).reply.allowed
<1> DEFINE first == RunScript(t, w, r, id, at)
           ok    == first.reply.allowed
           left  == Refilled(t, r, at) - (IF ok THEN CostUnits(r) ELSE 0)
           kept  == Kept(w, r, at)
<1>1. at \in Nat /\ r.cost \in Nat /\ r.limit \in Nat /\ TokenUnit \in Nat \ {0}
  BY BoundsAssumption, RuleNumbers, RulesAssumption
<1>2. first = RunScript(t, w, r, id, at) /\ first.reply.remaining >= r.cost
  OBVIOUS
<1> HIDE DEF first
<1>3. /\ ok \in BOOLEAN
      /\ UsesBucket(r) => /\ ok => Refilled(t, r, at) >= CostUnits(r)
                          /\ first.tb = SavedBucket(left, r, at)
      /\ ~UsesBucket(r) => first.tb = t
  BY <1>2, BucketEffect
<1>4. UsesWindow(r) =>
        first.sw = [entries |-> IF ok THEN ZAdd(kept, id, r, at) ELSE kept,
                    expireAt |-> at + r.windowMs]
  BY <1>2, WindowEffect
<1>5. /\ r.strategy = "token_bucket" => first.reply.remaining = left \div TokenUnit
      /\ r.strategy = "sliding_window" => first.reply.remaining = WindowLeft(kept, ok, r)
      /\ r.strategy = "hybrid" =>
           first.reply.remaining = Smaller(left \div TokenUnit, WindowLeft(kept, ok, r))
  BY <1>2, RemainingIs
<1>6. left \div TokenUnit \in Int /\ WindowLeft(kept, ok, r) \in Int
  <2>1. left \in Int
    BY <1>1, <1>3, RefilledRange, RuleNumbers
  <2>2. IsFiniteSet(kept)
    <3>1. kept \in SUBSET w.entries
      BY DEF Kept
    <3> QED
      BY <3>1, FS_Subset
  <2>3. Cardinality(kept) \in Nat
    BY <2>2, FS_CardinalityType
  <2> HIDE DEF left, kept, ok
  <2> QED
    BY <1>1, <2>1, <2>3 DEF WindowLeft, Larger
<1> HIDE DEF left, kept, ok
<1>7. /\ UsesBucket(r) => left \div TokenUnit >= r.cost
      /\ UsesWindow(r) => WindowLeft(kept, ok, r) >= r.cost
  <2> DEFINE a == left \div TokenUnit
             b == WindowLeft(kept, ok, r)
             n == first.reply.remaining
  <2>1. a \in Int /\ b \in Int /\ n >= r.cost
    BY <1>2, <1>6
  <2>2. /\ r.strategy = "token_bucket" => n = a
        /\ r.strategy = "sliding_window" => n = b
        /\ r.strategy = "hybrid" => n = Smaller(a, b)
    BY <1>5
  <2> HIDE DEF a, b, n
  <2>3. /\ UsesBucket(r) => a >= r.cost
        /\ UsesWindow(r) => b >= r.cost
    BY <1>1, <2>1, <2>2 DEF UsesBucket, UsesWindow, Smaller
  <2> QED
    BY <2>3 DEF a, b
<1>8. UsesBucket(r) => TokensSuffice(first.tb, r, at)
  BY <1>1, <1>3, <1>7, BucketRemaining DEF left
<1>9. UsesWindow(r) => WindowFits(first.sw, r, at)
  BY <1>3, <1>4, <1>7, WindowRemaining DEF kept
<1> QED
  BY <1>8, <1>9, AllowedIff DEF first

LEMMA NextEntriesFinite ==
  ASSUME TypeOK, IsFiniteSet(sw.entries), [Next]_vars
  PROVE  IsFiniteSet(sw.entries)'
<1>1. ASSUME NEW c \in Call, Exec(c) PROVE IsFiniteSet(sw.entries)'
  <2>1. PICK r \in Rules, ok \in BOOLEAN : ExecDoes(c, r, ok)
    BY <1>1, ExecEffect
  <2>2. Kept(sw, r, now) \in SUBSET sw.entries
    BY DEF Kept
  <2>3. IsFiniteSet(Kept(sw, r, now))
    BY <2>2, FS_Subset
  <2>4. IsFiniteSet(ZAdd(Kept(sw, r, now), c, r, now))
    BY <2>3, ZAddFinite
  <2> QED
    BY <2>1, <2>3, <2>4 DEF ExecDoes
<1>2. ASSUME UNCHANGED sw PROVE IsFiniteSet(sw.entries)'
  BY <1>2
<1> QED
  BY <1>1, <1>2 DEF Next, Tick, Send, Answer, Resend, Fail, vars

\* Whatever rules share the key and whatever was lost, resent or reordered, a reply
\* that leaves enough for one more call does not promise too much
\* (redisLimiter.js:8, hybrid.lua:66-90).
THEOREM RemainingStaysHonest == Spec => []RemainingIsHonest
<1>1. Init => TypeOK /\ IsFiniteSet(sw.entries)
  BY InitTypeOK, FS_EmptySet DEF Init, NoWindow
<1>2. TypeOK /\ IsFiniteSet(sw.entries) /\ [Next]_vars => TypeOK' /\ IsFiniteSet(sw.entries)'
  BY NextTypeOK, NextEntriesFinite
<1>3. TypeOK /\ IsFiniteSet(sw.entries) => RemainingIsHonest
  <2> SUFFICES ASSUME TypeOK, IsFiniteSet(sw.entries) PROVE RemainingIsHonest
    OBVIOUS
  <2>1. tb \in BucketType /\ sw \in WindowType /\ now \in 0 .. MaxTime
    BY DEF TypeOK, BucketType, WindowType
  <2> QED
    BY <2>1, RemainingHolds DEF RemainingIsHonest
<1> QED
  BY <1>1, <1>2, <1>3, PTL DEF Spec

-----------------------------------------------------------------------------
(* When a denied call may come back *)

\* A non-empty set of naturals has a least member.
Below == {p \in Nat \X Nat : p[1] < p[2]}

LEMMA LeastNat ==
  ASSUME NEW T \in SUBSET Nat, T # {}
  PROVE  \E x \in T : \A y \in T : x <= y
<1>1. Below = OpToRel(<, Nat)
  BY Zenon DEF Below, OpToRel
<1>2. IsWellFoundedOn(Below, Nat)
  BY <1>1, NatLessThanWellFounded, Zenon
<1>3. PICK x \in T : \A y \in T : ~ (<<y, x>> \in Below)
  BY <1>2, WFMin, Zenon
<1>4. ASSUME NEW y \in T PROVE x <= y
  <2>1. x \in Nat /\ y \in Nat /\ <<y, x>> \notin Below
    BY <1>3
  <2>2. <<y, x>> \in Nat \X Nat /\ <<y, x>>[1] = y /\ <<y, x>>[2] = x
    BY <2>1
  <2>3. ~(y < x)
    BY <2>1, <2>2, Zenon DEF Below
  <2> QED
    BY <2>1, <2>3
<1> QED
  BY <1>4

\* The rules that share the key ask one price for one limit: their windows, limits
\* and costs agree (strategies and bursts may differ) ...
OnePrice ==
  \A r, q \in Rules : r.windowMs = q.windowMs /\ r.limit = q.limit /\ r.cost = q.cost

\* ... and some budget pays it: a call that costs more than there ever is can be
\* told no time to come back.
Payable ==
  \A r \in Rules : /\ UsesBucket(r) => r.cost <= Capacity(r)
                   /\ UsesWindow(r) => r.cost <= r.limit

\* A call's members enter and leave the set together.
WholeCalls(entries) ==
  \A m \in entries : \A k \in 1 .. AnyRule.cost :
    [id |-> m.id, n |-> k, score |-> m.score] \in entries

LEMMA OldestIs ==
  ASSUME NEW e \in SUBSET Entry, e # {}
  PROVE  /\ Oldest(e) \in 0 .. MaxTime
         /\ \E m \in e : m.score = Oldest(e)
         /\ \A m \in e : Oldest(e) <= m.score
<1> DEFINE T == {m.score : m \in e}
<1>1. T \in SUBSET (0 .. MaxTime) /\ T \in SUBSET Nat /\ T # {}
  BY BoundsAssumption DEF Entry
<1>2. PICK x \in T : \A y \in T : x <= y
  BY <1>1, LeastNat
<1>3. Oldest(e) = CHOOSE s \in T : \A m \in e : s <= m.score
  BY DEF Oldest
<1>4. \A m \in e : x <= m.score
  BY <1>2
<1>5. Oldest(e) \in T /\ \A m \in e : Oldest(e) <= m.score
  BY <1>2, <1>3, <1>4, Zenon
<1> QED
  BY <1>1, <1>5

\* A wait is long enough exactly when it adds up to what is missing.
LEMMA CeilDivExact ==
  ASSUME NEW a \in Nat, NEW b \in Nat \ {0}, NEW n \in Nat
  PROVE  n * b >= a <=> n >= CeilDiv(a, b)
<1> DEFINE q == CeilDiv(a, b)
<1>1. q \in Nat /\ q * b >= a
  BY CeilDivCovers
<1>2. q * b < a + b
  <2> DEFINE x == a + b - 1
  <2>1. x \in Nat
    OBVIOUS
  <2>2. q = x \div b
    BY DEF CeilDiv
  <2> HIDE DEF x, q
  <2>3. x = (x \div b) * b + (x % b) /\ x % b \in 0 .. b - 1 /\ x \div b \in Nat
    BY <2>1
  <2>4. (x \div b) * b \in Nat
    BY <2>3, NatProduct
  <2>5. q * b <= x
    BY <2>1, <2>2, <2>3, <2>4
  <2> QED
    BY <1>1, <2>4, <2>2, <2>5 DEF x
<1> HIDE DEF q
<1>3. ASSUME n >= q PROVE n * b >= a
  <2>1. q * b <= n * b /\ q * b \in Nat /\ n * b \in Nat
    BY <1>1, <1>3, ProductMonotonic, NatProduct
  <2> QED
    BY <1>1, <2>1
<1>4. ASSUME n < q PROVE n * b < a
  <2>1. q - 1 \in Nat /\ n <= q - 1
    BY <1>1, <1>4
  <2>2. n * b <= (q - 1) * b /\ (q - 1) * b \in Nat /\ n * b \in Nat /\ q * b \in Nat
    BY <1>1, <2>1, ProductMonotonic, NatProduct
  <2>3. ((q - 1) + 1) * b = (q - 1) * b + b
    BY <1>1, Distribute
  <2>4. (q - 1) + 1 = q
    BY <1>1
  <2>5. q * b = (q - 1) * b + b
    BY <2>3, <2>4
  <2> QED
    BY <1>2, <2>2, <2>5
<1>5. n * b \in Nat
  BY NatProduct
<1> QED
  BY <1>1, <1>3, <1>4, <1>5 DEF q

\* The bucket half: saved with u units, it can pay the cost again exactly once the
\* refill has brought what is missing, be it by then expired.
LEMMA BucketRetry ==
  ASSUME NEW r \in Rules, r.cost <= Capacity(r), NEW u \in 0 .. CapacityUnits(r),
         NEW at \in Nat, NEW ms \in Nat
  PROVE  LET wait == IF u >= CostUnits(r) THEN 0 ELSE RefillWait(u, CostUnits(r), r)
         IN /\ wait \in Nat
            /\ TokensSuffice(SavedBucket(u, r, at), r, at + ms) <=> ms >= wait
<1> DEFINE cost == CostUnits(r)
           full == CapacityUnits(r)
           rate == RefillPerMs(r)
           ttl  == TtlMs(r)
           level == Refilled(SavedBucket(u, r, at), r, at + ms)
<1>1. /\ cost \in Nat /\ full \in Nat /\ rate \in Nat \ {0} /\ ttl \in Nat
      /\ ttl * rate >= full
  BY RuleNumbers, TtlCoversRefill
<1>2. cost <= full
  <2>1. r.cost \in Nat /\ Capacity(r) \in Nat /\ TokenUnit \in Nat
    BY RuleNumbers, RulesAssumption DEF Capacity, RuleSchema
  <2> QED
    BY <2>1, ProductMonotonic DEF CostUnits, CapacityUnits
<1>3. /\ Larger(0, (at + ms) - at) = ms
      /\ at + ms <= at + ttl <=> ms <= ttl
  BY <1>1 DEF Larger
<1>4. level = IF ms <= ttl THEN Smaller(full, u + ms * rate) ELSE full
  BY <1>3 DEF Refilled, SavedBucket, Present
<1>5. TokensSuffice(SavedBucket(u, r, at), r, at + ms) <=> level >= cost
  BY DEF TokensSuffice
<1>6. RefillWait(u, cost, r) = CeilDiv(cost - u, rate)
  BY DEF RefillWait
<1>7. u \in Nat /\ u <= full
  BY <1>1
<1> HIDE DEF cost, full, rate, ttl, level
<1>8. ms * rate \in Nat /\ ttl * rate \in Nat
  BY <1>1, NatProduct
<1>9. level >= cost <=> u + ms * rate >= cost
  <2>1. CASE ms <= ttl
    BY <1>1, <1>2, <1>4, <1>7, <1>8, <2>1 DEF Smaller
  <2>2. CASE ms > ttl
    <3>1. ttl * rate <= ms * rate
      BY <1>1, <2>2, ProductMonotonic
    <3>2. level = full
      BY <1>1, <1>4, <2>2
    <3> QED
      BY <1>1, <1>2, <1>7, <1>8, <3>1, <3>2
  <2> QED
    BY <1>1, <2>1, <2>2
<1>10. CASE u >= cost
  BY <1>1, <1>5, <1>7, <1>8, <1>9, <1>10 DEF cost
<1>11. CASE ~(u >= cost)
  <2>1. cost - u \in Nat
    BY <1>1, <1>7, <1>11
  <2>2. CeilDiv(cost - u, rate) \in Nat
    BY <1>1, <2>1, CeilDivCovers
  <2>3. ms * rate >= cost - u <=> ms >= CeilDiv(cost - u, rate)
    BY <1>1, <2>1, CeilDivExact
  <2>4. u + ms * rate >= cost <=> ms * rate >= cost - u
    BY <1>1, <1>7, <1>8
  <2>5. level >= cost <=> ms >= CeilDiv(cost - u, rate)
    BY <1>9, <2>3, <2>4
  <2> QED
    BY <1>5, <1>6, <1>11, <2>2, <2>5 DEF cost
<1> QED
  BY <1>10, <1>11

\* The members of one call of a set of whole calls are as many as its cost.
LEMMA CallSize ==
  ASSUME NEW e \in SUBSET Entry, IsFiniteSet(e), WholeCalls(e), NEW m \in e
  PROVE  LET group == {x \in e : x.score = m.score}
         IN /\ IsFiniteSet(group)
            /\ Cardinality(group) \in Nat
            /\ Cardinality(group) >= AnyRule.cost
<1> DEFINE group == {x \in e : x.score = m.score}
           own   == Logged(m.id, AnyRule, m.score)
<1>1. IsFiniteSet(group) /\ Cardinality(group) \in Nat
  BY FS_Subset, FS_CardinalityType
<1>2. own \in SUBSET group
  BY DEF WholeCalls, Logged
<1>3. IsFiniteSet(own) /\ Cardinality(own) = AnyRule.cost
  BY AnyRuleIsRule, LoggedFinite
<1>4. Cardinality(own) <= Cardinality(group)
  BY <1>1, <1>2, FS_Subset
<1> QED
  BY <1>1, <1>3, <1>4

\* The window half: trimmed to what counts, it fits the cost again exactly once
\* the oldest entries have left, be it by then expired.
LEMMA WindowRetry ==
  ASSUME NEW r \in Rules, r.cost <= r.limit, r.cost = AnyRule.cost,
         NEW at \in Nat, NEW ms \in Nat,
         NEW e \in SUBSET Entry, IsFiniteSet(e), WholeCalls(e), Cardinality(e) <= r.limit,
         \A m \in e : m.score <= at /\ m.score > at - r.windowMs
  PROVE  LET fits  == Cardinality(e) + r.cost <= r.limit
             later == [entries |-> e, expireAt |-> at + r.windowMs]
             wait  == IF fits THEN 0 ELSE OldestLeavesIn(e, r, at)
         IN /\ ~fits => e # {}
            /\ wait \in Nat
            /\ WindowFits(later, r, at + ms) <=> ms >= wait
<1> DEFINE fits  == Cardinality(e) + r.cost <= r.limit
           later == [entries |-> e, expireAt |-> at + r.windowMs]
           kept  == Kept(later, r, at + ms)
           out   == OldestLeavesIn(e, r, at)
<1>1. /\ r.cost \in Nat \ {0} /\ r.limit \in Nat /\ r.windowMs \in Nat
      /\ Cardinality(e) \in Nat /\ \A m \in e : m.score \in Nat
  BY RuleNumbers, FS_CardinalityType, BoundsAssumption DEF Entry
<1>2. kept = {m \in e : ms <= r.windowMs /\ m.score > (at + ms) - r.windowMs}
  BY <1>1 DEF Kept, Present
<1>3. WindowFits(later, r, at + ms) <=> Cardinality(kept) + r.cost <= r.limit
  BY DEF WindowFits
<1> HIDE DEF kept
<1>4. kept \in SUBSET e
  BY <1>2
<1>5. IsFiniteSet(kept) /\ Cardinality(kept) \in Nat /\ Cardinality(kept) <= Cardinality(e)
  BY <1>4, FS_Subset, FS_CardinalityType
<1>6. CASE fits
  BY <1>1, <1>3, <1>5, <1>6
<1>7. CASE ~fits
  <2>1. e # {}
    BY <1>1, <1>7, FS_EmptySet
  <2>2. PICK m \in e : m.score = Oldest(e)
    BY <2>1, OldestIs
  <2>3. /\ Oldest(e) \in Nat /\ \A x \in e : Oldest(e) <= x.score
        /\ out = m.score + r.windowMs - at
        /\ out \in Nat \ {0} /\ out <= r.windowMs
    BY <1>1, <2>1, <2>2, OldestIs DEF OldestLeavesIn
  <2>4. ASSUME ms < out PROVE ~(Cardinality(kept) + r.cost <= r.limit)
    <3>1. \A x \in e : x.score > (at + ms) - r.windowMs
      BY <1>1, <2>2, <2>3, <2>4
    <3>2. kept = e
      BY <1>1, <1>2, <2>3, <2>4, <3>1
    <3> QED
      BY <1>7, <3>2
  <2>5. ASSUME ms >= out PROVE Cardinality(kept) + r.cost <= r.limit
    <3> DEFINE group == {x \in e : x.score = m.score}
               rest  == e \ group
    <3>1. /\ IsFiniteSet(group) /\ Cardinality(group) \in Nat
          /\ Cardinality(group) >= r.cost
      BY CallSize
    <3>2. ~(m.score > (at + ms) - r.windowMs)
      BY <1>1, <2>3, <2>5
    <3>3. kept \in SUBSET rest
      BY <1>2, <3>2
    <3>4. IsFiniteSet(rest) /\ Cardinality(rest) = Cardinality(e) - Cardinality(e \cap group)
      BY FS_Difference
    <3>5. e \cap group = group
      OBVIOUS
    <3>6. Cardinality(kept) <= Cardinality(rest)
      BY <3>3, <3>4, FS_Subset
    <3> HIDE DEF group, rest
    <3> QED
      BY <1>1, <1>5, <3>1, <3>4, <3>5, <3>6
  <2>6. ms >= out \/ ms < out
    BY <2>3
  <2> HIDE DEF out
  <2> QED
    BY <1>3, <1>7, <2>1, <2>3, <2>4, <2>5, <2>6 DEF out
<1> QED
  BY <1>6, <1>7

\* What a denied call is told: the longer of the waits of the halves that denied it.
LEMMA RetryAfterIs ==
  ASSUME NEW t, NEW w, NEW r \in Rules, NEW id, NEW at,
         NEW run, run = RunScript(t, w, r, id, at), ~run.reply.allowed
  PROVE  LET kept   == Kept(w, r, at)
             tbWait == IF TokensSuffice(t, r, at) THEN 0
                       ELSE RefillWait(Refilled(t, r, at) - 0, CostUnits(r), r)
             out    == OldestLeavesIn(kept, r, at)
         IN /\ r.strategy = "token_bucket" => run.reply.retryAfterMs = tbWait
            /\ r.strategy = "sliding_window" =>
                 run.reply.retryAfterMs = IF kept = {} THEN 0 ELSE Larger(0, out)
            /\ r.strategy = "hybrid" =>
                 run.reply.retryAfterMs
                   = Larger(tbWait, IF WindowFits(w, r, at) \/ kept = {} THEN 0 ELSE out)
<1>1. CASE r.strategy = "token_bucket"
  <2> DEFINE reply == rlTokenBucket(t, w, r, id, at).reply
  <2>1. run.reply = reply
    BY <1>1, Zenon DEF RunScript
  <2>2. reply.allowed = TokensSuffice(t, r, at)
    BY Zenon DEF rlTokenBucket, Reply
  <2>3. ~TokensSuffice(t, r, at)
    BY <2>1, <2>2
  <2>4. reply.retryAfterMs = RefillWait(Refilled(t, r, at) - 0, CostUnits(r), r)
    BY <2>3, Zenon DEF rlTokenBucket, Reply
  <2> HIDE DEF reply
  <2> QED
    BY <1>1, <2>1, <2>3, <2>4
<1>2. CASE r.strategy = "sliding_window"
  <2> DEFINE reply == rlSlidingWindow(t, w, r, id, at).reply
             kept  == Kept(w, r, at)
  <2>1. run.reply = reply
    BY <1>2, Zenon DEF RunScript
  <2>2. reply.allowed = WindowFits(w, r, at)
    BY Zenon DEF rlSlidingWindow, Reply
  <2>3. ~WindowFits(w, r, at)
    BY <2>1, <2>2
  <2>4. reply.retryAfterMs
          = IF kept = {} THEN 0 ELSE Larger(0, OldestLeavesIn(kept, r, at))
    BY <2>3, Zenon DEF rlSlidingWindow, Reply
  <2> HIDE DEF reply, kept
  <2>5. run.reply.retryAfterMs
          = IF kept = {} THEN 0 ELSE Larger(0, OldestLeavesIn(kept, r, at))
    BY <2>1, <2>4
  <2> QED
    BY <1>2, <2>5 DEF kept
<1>3. CASE r.strategy = "hybrid"
  <2> DEFINE reply == rlHybrid(t, w, r, id, at).reply
             both  == TokensSuffice(t, r, at) /\ WindowFits(w, r, at)
             kept  == Kept(w, r, at)
             tbWait == IF TokensSuffice(t, r, at) THEN 0
                       ELSE RefillWait(Refilled(t, r, at) - 0, CostUnits(r), r)
             swWait == IF WindowFits(w, r, at) \/ kept = {} THEN 0
                       ELSE OldestLeavesIn(kept, r, at)
  <2>1. run.reply = reply
    BY <1>3, Zenon DEF RunScript
  <2>2. reply.allowed = both
    BY Zenon DEF rlHybrid, Reply
  <2>3. ~both
    BY <2>1, <2>2
  <2>4. reply.retryAfterMs = Larger(tbWait, swWait)
    BY <2>3, Zenon DEF rlHybrid, Reply
  <2> HIDE DEF reply, both, kept, tbWait, swWait
  <2>5. run.reply.retryAfterMs = Larger(tbWait, swWait)
    BY <2>1, <2>4
  <2> QED
    BY <1>3, <2>5 DEF tbWait, swWait, kept
<1> QED
  BY <1>1, <1>2, <1>3, RuleNumbers DEF Strategy

\* The sorted set holds whole calls, for all rules log the same number of members.
LEMMA KeptWhole ==
  ASSUME NEW w, WholeCalls(w.entries), NEW r, NEW at
  PROVE  WholeCalls(Kept(w, r, at))
BY DEF WholeCalls, Kept

LEMMA ZAddWhole ==
  ASSUME NEW e, WholeCalls(e), NEW id, NEW r \in Rules, r.cost = AnyRule.cost, NEW at
  PROVE  WholeCalls(ZAdd(e, id, r, at))
<1> SUFFICES ASSUME NEW m \in ZAdd(e, id, r, at), NEW k \in 1 .. AnyRule.cost
             PROVE  [id |-> m.id, n |-> k, score |-> m.score] \in ZAdd(e, id, r, at)
  BY DEF WholeCalls
<1> DEFINE x == [id |-> m.id, n |-> k, score |-> m.score]
<1>1. CASE m \in Logged(id, r, at)
  <2>1. m.id = id /\ m.score = at
    BY <1>1 DEF Logged
  <2>2. x \in Logged(id, r, at)
    BY <2>1 DEF Logged
  <2> QED
    BY <2>2 DEF ZAdd
<1>2. CASE m \in e /\ m.id # id
  <2>1. x \in e /\ x.id # id
    BY <1>2 DEF WholeCalls
  <2> QED
    BY <2>1 DEF ZAdd
<1> QED
  BY <1>1, <1>2 DEF ZAdd

LEMMA NextWholeCalls ==
  ASSUME OnePrice, TypeOK, WholeCalls(sw.entries), [Next]_vars
  PROVE  WholeCalls(sw.entries)'
<1>1. ASSUME NEW c \in Call, Exec(c) PROVE WholeCalls(sw'.entries)
  <2>1. PICK r \in Rules, ok \in BOOLEAN : ExecDoes(c, r, ok)
    BY <1>1, ExecEffect
  <2>2. r.cost = AnyRule.cost
    BY AnyRuleIsRule DEF OnePrice
  <2>3. WholeCalls(Kept(sw, r, now))
    BY KeptWhole
  <2>4. WholeCalls(ZAdd(Kept(sw, r, now), c, r, now))
    BY <2>2, <2>3, ZAddWhole
  <2>5. \/ sw' = sw
        \/ sw'.entries = Kept(sw, r, now)
        \/ sw'.entries = ZAdd(Kept(sw, r, now), c, r, now)
    BY <2>1 DEF ExecDoes
  <2> QED
    BY <2>3, <2>4, <2>5
<1>2. ASSUME sw' = sw PROVE WholeCalls(sw'.entries)
  BY <1>2
<1>3. WholeCalls(sw.entries)' <=> WholeCalls(sw'.entries)
  BY DEF WholeCalls, AnyRule
<1> QED
  BY <1>1, <1>2, <1>3 DEF Next, Tick, Send, Answer, Resend, Fail, vars

\* Such a key, wherever it got to, keeps the promise.
LEMMA RetryHolds ==
  ASSUME OnePrice, Payable, TypeOK, WindowInv, NoOverAdmit, WholeCalls(sw.entries)
  PROVE  RetryAfterExact
<1> SUFFICES ASSUME NEW r \in Rules, NEW first,
                    first = RunScript(tb, sw, r, "first", now), ~first.reply.allowed
             PROVE  LET Retry(ms) == RunScript(first.tb, first.sw, r, "retry", now + ms).reply
                    IN /\ Retry(first.reply.retryAfterMs).allowed
                       /\ \A ms \in 0 .. (first.reply.retryAfterMs - 1) : ~Retry(ms).allowed
  BY DEF RetryAfterExact
<1> DEFINE e      == Kept(sw, r, now)
           u      == Refilled(tb, r, now)
           fits   == Cardinality(e) + r.cost <= r.limit
           out    == OldestLeavesIn(e, r, now)
           tbWait == IF u >= CostUnits(r) THEN 0 ELSE RefillWait(u, CostUnits(r), r)
           swWait == IF fits THEN 0 ELSE out
           wait   == first.reply.retryAfterMs
<1>1. OneWindow /\ now \in Nat /\ tb \in BucketType /\ r.cost = AnyRule.cost
  BY BoundsAssumption, AnyRuleIsRule DEF OnePrice, OneWindow, TypeOK, BucketType
<1>2. u \in 0 .. CapacityUnits(r) /\ u \in Nat /\ u - 0 = u /\ CapacityUnits(r) \in Nat
  BY <1>1, RefilledRange, RuleNumbers
<1>3. /\ UsesBucket(r) => first.tb = SavedBucket(u, r, now)
      /\ UsesWindow(r) => first.sw = [entries |-> e, expireAt |-> now + r.windowMs]
  <2>1. UsesBucket(r) => first.tb = SavedBucket(u - 0, r, now)
    BY BucketEffect
  <2>2. UsesWindow(r) => first.sw = [entries |-> e, expireAt |-> now + r.windowMs]
    BY WindowEffect
  <2> QED
    BY <1>2, <2>1, <2>2
<1>4. ASSUME UsesBucket(r), NEW ms \in Nat
      PROVE  tbWait \in Nat /\ (TokensSuffice(first.tb, r, now + ms) <=> ms >= tbWait)
  <2>1. r.cost <= Capacity(r)
    BY <1>4 DEF Payable
  <2> HIDE DEF u
  <2>2. /\ tbWait \in Nat
        /\ TokensSuffice(SavedBucket(u, r, now), r, now + ms) <=> ms >= tbWait
    BY <1>1, <1>2, <2>1, BucketRetry
  <2> QED
    BY <1>3, <1>4, <2>2
<1>5. ASSUME UsesWindow(r)
      PROVE  /\ e \in SUBSET Entry /\ IsFiniteSet(e) /\ WholeCalls(e)
             /\ Cardinality(e) <= r.limit
             /\ \A m \in e : m.score <= now /\ m.score > now - r.windowMs
  <2>1. e = {m \in admitted : m.score > now - WindowMs} /\ r.windowMs = WindowMs
    BY <1>1, KeptIsInWindow, WindowMsType
  <2>2. e \in SUBSET Entry /\ \A m \in e : m.score <= now /\ m.score > now - r.windowMs
    BY <2>1 DEF TypeOK, WindowInv
  <2>3. WholeCalls(e)
    BY KeptWhole
  <2>4. e = InWindow(admitted, r, now)
    BY <2>1, <2>2 DEF InWindow
  <2>5. PICK q \in Rules : Cardinality(InWindow(admitted, r, now)) <= q.limit
    BY <1>5 DEF NoOverAdmit, TypeOK
  <2>6. q.limit = r.limit
    BY DEF OnePrice
  <2>7. IsFiniteSet(e)
    BY <2>1, FS_Subset DEF WindowInv
  <2> QED
    BY <2>2, <2>3, <2>4, <2>5, <2>6, <2>7
<1>6. ASSUME UsesWindow(r), NEW ms \in Nat
      PROVE  /\ ~fits => e # {}
             /\ swWait \in Nat
             /\ WindowFits(first.sw, r, now + ms) <=> ms >= swWait
  <2>1. r.cost <= r.limit
    BY <1>6 DEF Payable
  <2> HIDE DEF e
  <2> QED
    BY <1>1, <1>3, <1>5, <1>6, <2>1, WindowRetry
<1>7. /\ TokensSuffice(tb, r, now) <=> u >= CostUnits(r)
      /\ WindowFits(sw, r, now) <=> fits
  BY DEF TokensSuffice, WindowFits
<1>8. /\ r.strategy = "token_bucket" => wait = tbWait
      /\ r.strategy = "sliding_window" => wait = IF e = {} THEN 0 ELSE Larger(0, out)
      /\ r.strategy = "hybrid" => wait = Larger(tbWait, IF fits \/ e = {} THEN 0 ELSE out)
  BY <1>2, <1>7, RetryAfterIs
<1>9. ASSUME r.strategy = "sliding_window" PROVE ~fits
  <2>1. ~UsesBucket(r)
    BY <1>9 DEF UsesBucket
  <2>2. first.reply.allowed <=> /\ UsesBucket(r) => TokensSuffice(tb, r, now)
                                /\ UsesWindow(r) => WindowFits(sw, r, now)
    BY AllowedIff
  <2> QED
    BY <1>7, <2>1, <2>2
<1> HIDE DEF e, u, fits, out, tbWait, wait
<1>10. r.strategy = "sliding_window" => wait = swWait
  <2> SUFFICES ASSUME r.strategy = "sliding_window" PROVE wait = swWait
    OBVIOUS
  <2>1. UsesWindow(r) /\ 0 \in Nat
    BY DEF UsesWindow
  <2>2. out \in Nat /\ e # {}
    BY <1>6, <1>9, <2>1
  <2> QED
    BY <1>8, <1>9, <2>2 DEF Larger
<1>11. r.strategy = "hybrid" => wait = Larger(tbWait, swWait)
  <2> SUFFICES ASSUME r.strategy = "hybrid" PROVE wait = Larger(tbWait, swWait)
    OBVIOUS
  <2>1. UsesWindow(r) /\ 0 \in Nat
    BY DEF UsesWindow
  <2>2. ~fits => e # {}
    BY <1>6, <2>1
  <2> QED
    BY <1>8, <2>2
<1> HIDE DEF swWait
<1>12. ASSUME NEW ms \in Nat
       PROVE  /\ wait \in Nat
              /\ RunScript(first.tb, first.sw, r, "retry", now + ms).reply.allowed <=> ms >= wait
  <2> DEFINE t     == first.tb
             w     == first.sw
             later == now + ms
             again == RunScript(first.tb, first.sw, r, "retry", now + ms).reply.allowed
  <2> HIDE DEF t, w, later
  <2>0. RunScript(t, w, r, "retry", later).reply.allowed
          = ((UsesBucket(r) => TokensSuffice(t, r, later))
               /\ (UsesWindow(r) => WindowFits(w, r, later)))
    BY AllowedIff
  <2>1. again <=> /\ UsesBucket(r) => TokensSuffice(first.tb, r, now + ms)
                  /\ UsesWindow(r) => WindowFits(first.sw, r, now + ms)
    BY <2>0 DEF t, w, later
  <2> HIDE DEF again
  <2>2. /\ UsesBucket(r) => tbWait \in Nat
        /\ UsesWindow(r) => swWait \in Nat
    BY <1>4, <1>6
  <2>3. again <=> /\ UsesBucket(r) => ms >= tbWait
                  /\ UsesWindow(r) => ms >= swWait
    BY <1>4, <1>6, <2>1
  <2>4. CASE r.strategy = "token_bucket"
    BY <1>8, <2>2, <2>3, <2>4 DEF again, UsesBucket, UsesWindow
  <2>5. CASE r.strategy = "sliding_window"
    BY <1>10, <2>2, <2>3, <2>5 DEF again, UsesBucket, UsesWindow
  <2>6. CASE r.strategy = "hybrid"
    BY <1>11, <2>2, <2>3, <2>6 DEF again, UsesBucket, UsesWindow, Larger
  <2> QED
    BY <2>4, <2>5, <2>6, RuleNumbers DEF Strategy
<1>13. wait \in Nat
  BY <1>12
<1>14. RunScript(first.tb, first.sw, r, "retry", now + wait).reply.allowed
  BY <1>12, <1>13
<1>15. \A ms \in 0 .. (wait - 1) :
         ~RunScript(first.tb, first.sw, r, "retry", now + ms).reply.allowed
  BY <1>12, <1>13
<1> QED
  BY <1>14, <1>15 DEF wait

\* Who is denied and waits as told is admitted, and nobody would be any sooner: not
\* with a half-full window, an expired key or both halves against the call, as long
\* as one price and one limit are asked for the key (redisLimiter.js:10,
\* tokenBucket.lua:45, slidingWindow.lua:41-50, hybrid.lua:76-90).
THEOREM RetryAfterStaysExact ==
  OnePrice /\ Payable /\ Spec => []RetryAfterExact
<1> SUFFICES ASSUME OnePrice, Payable PROVE Spec => []RetryAfterExact
  OBVIOUS
<1> DEFINE Inv == TypeOK /\ WindowInv /\ NoOverAdmit /\ WholeCalls(sw.entries)
<1>1. OneWindow
  BY DEF OnePrice, OneWindow
<1>2. Init => Inv
  BY InitTypeOK, InitWindowInv, InitNoOverAdmit DEF Init, NoWindow, WholeCalls
<1>3. Inv /\ [Next]_vars => Inv'
  BY <1>1, NextTypeOK, NextWindowInv, NextNoOverAdmit, NextWholeCalls
<1>4. Inv => RetryAfterExact
  BY RetryHolds
<1> QED
  BY <1>2, <1>3, <1>4, PTL DEF Spec
=============================================================================
