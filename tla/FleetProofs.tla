----------------------------- MODULE FleetProofs -----------------------------
(***************************************************************************)
(* Fleet keeps its types, a node decides by itself only in an outage,      *)
(* failing closed keeps the one limit, and whoever decides keeps it too,   *)
(* for every set of requests, every finite set of nodes, every rule with a *)
(* window and all bounds.                                                  *)
(*                                                                         *)
(* None of the four is inductive.  OutageInv ties the breakers to the      *)
(* time since the outage, WindowInv what Redis holds to what it admitted   *)
(* since it last lost its data, PastInv counts what it admitted before, and*)
(* HitsInv ties a node's memory to what the node admitted.                 *)
(***************************************************************************)
EXTENDS Fleet, FiniteSetTheorems, SequenceTheorems, WellFoundedInduction, TLAPS

FiniteFleet == IsFiniteSet(Node)

LEMMA RuleNumbers ==
  /\ FleetRule.limit \in Nat \ {0} /\ FleetRule.windowMs \in Nat \ {0}
  /\ FleetRule.cost \in Nat \ {0}
  /\ FleetRule.strategy \in {"sliding_window", "hybrid"}
BY FleetAssumption DEF RuleSchema, Strategy

LEMMA CostInterval ==
  IsFiniteSet(1 .. FleetRule.cost) /\ Cardinality(1 .. FleetRule.cost) = FleetRule.cost
<1>1. FleetRule.cost \in Nat \ {0}
  BY RuleNumbers
<1> QED
  BY <1>1, FS_Interval

-----------------------------------------------------------------------------
(* Types *)

\* A breaker that answers an attempt, a success, a failure or the passing of
\* time is still a breaker (circuitBreaker.js:21-43).
LEMMA BreakerClosed ==
  /\ NewBreaker \in Breaker
  /\ \A b \in Breaker : /\ AfterAllowsAttempt(b) \in Breaker
                        /\ OnSuccess(b) \in Breaker
                        /\ OnFailure(b) \in Breaker
                        /\ Waits(b) \in Breaker
<1> USE BreakerAssumption DEF Breaker, BreakerState
<1>1. NewBreaker \in Breaker
  BY DEF NewBreaker
<1>2. ASSUME NEW b \in Breaker PROVE AfterAllowsAttempt(b) \in Breaker
  BY <1>2 DEF AfterAllowsAttempt
<1>3. ASSUME NEW b \in Breaker PROVE OnSuccess(b) \in Breaker
  BY <1>3 DEF OnSuccess
<1>4. ASSUME NEW b \in Breaker PROVE OnFailure(b) \in Breaker
  BY <1>4 DEF OnFailure, UpTo
<1>5. ASSUME NEW b \in Breaker PROVE Waits(b) \in Breaker
  BY <1>5 DEF Waits, UpTo
<1> QED
  BY <1>1, <1>2, <1>3, <1>4, <1>5

\* As long as another fault may happen, nobody has used up all of them.
LEMMA LifeLeft ==
  ASSUME FiniteFleet, TypeOK, NEW a \in Authority, Faults < MaxFaults
  PROVE  life[a] < MaxFaults
<1> DEFINE all  == Authority \X (1 .. MaxFaults)
           used == {p \in all : p[2] <= life[p[1]]}
           mine == {p \in all : p[1] = a}
<1>1. MaxFaults \in Nat /\ life[a] \in 0 .. MaxFaults
  BY FleetAssumption DEF TypeOK
<1>2. IsFiniteSet(all)
  <2>1. IsFiniteSet(Authority)
    BY FS_Singleton, FS_Union DEF Authority, FiniteFleet
  <2>2. IsFiniteSet(1 .. MaxFaults)
    BY <1>1, FS_Interval
  <2> QED
    BY <2>1, <2>2, FS_Product, Zenon
<1>3. Faults = Cardinality(used)
  BY DEF Faults
<1>4. Cardinality(mine) = MaxFaults
  <2> DEFINE f == [k \in 1 .. MaxFaults |-> <<a, k>>]
  <2>1. f \in Bijection(1 .. MaxFaults, mine)
    BY DEF Bijection, Injection, Surjection, IsInjective
  <2>2. ExistsBijection(1 .. MaxFaults, mine)
    BY <2>1, Zenon DEF ExistsBijection
  <2>3. IsFiniteSet(1 .. MaxFaults) /\ Cardinality(1 .. MaxFaults) = MaxFaults
    BY <1>1, FS_Interval
  <2> QED
    BY <2>2, <2>3, FS_Bijection, Zenon
<1>5. CASE life[a] = MaxFaults
  <2>1. mine \in SUBSET used
    BY <1>1, <1>5
  <2>2. used \in SUBSET all /\ IsFiniteSet(used)
    BY <1>2, FS_Subset
  <2>3. Cardinality(mine) <= Cardinality(used)
    BY <2>1, <2>2, FS_Subset, Zenon
  <2>4. Cardinality(used) \in Nat
    BY <2>2, FS_CardinalityType
  <2> QED
    BY <1>1, <1>3, <1>4, <2>3, <2>4
<1> QED
  BY <1>1, <1>5

LEMMA FailsType ==
  ASSUME FiniteFleet, TypeOK, NEW a \in Authority, Fails(a)
  PROVE  life' \in [Authority -> 0 .. MaxFaults]
<1>1. life[a] < MaxFaults /\ life[a] \in 0 .. MaxFaults
  BY LifeLeft DEF Fails, TypeOK
<1> QED
  BY <1>1, FleetAssumption DEF Fails, TypeOK

LEMMA InitTypeOK == Init => TypeOK
<1> SUFFICES ASSUME Init PROVE TypeOK
  OBVIOUS
<1>1. req \in [Request -> RequestState]
  BY DEF Init, AtRest, RequestState
<1>2. breaker \in [Node -> Breaker]
  BY BreakerClosed DEF Init
<1> QED
  BY <1>1, <1>2, FleetAssumption, BreakerAssumption DEF Init, TypeOK

\* An answered request is at rest.
LEMMA AnswerType ==
  ASSUME TypeOK, NEW q \in Request, NEW ok \in BOOLEAN, Answer(q, ok)
  PROVE  req' \in [Request -> RequestState]
BY DEF TypeOK, Answer, AtRest, RequestState

LEMMA FallbackType ==
  ASSUME TypeOK, NEW q \in Request, NEW n \in Node, _fallback(q, n)
  PROVE  req' \in [Request -> RequestState]
BY DEF TypeOK, _fallback, Answer, AtRest, RequestState

LEMMA NextTypeOK == FiniteFleet /\ TypeOK /\ [Next]_vars => TypeOK'
<1> SUFFICES ASSUME FiniteFleet, TypeOK, [Next]_vars PROVE TypeOK'
  OBVIOUS
<1> USE BreakerClosed
<1>1. ASSUME NEW q \in Request, Exec(q) PROVE TypeOK'
  <2>1. req' \in [Request -> RequestState]
    <3>1. req[q] \in RequestState
      BY DEF TypeOK
    <3>2. \A pc \in {"allowed", "denied"} : [req[q] EXCEPT !.pc = pc] \in RequestState
      BY <1>1, <3>1 DEF Exec, RequestState
    <3>3. PICK pc \in {"allowed", "denied"} : req' = [req EXCEPT ![q].pc = pc]
      BY <1>1, Zenon DEF Exec
    <3> QED
      BY <3>2, <3>3 DEF TypeOK
  <2> QED
    BY <1>1, <2>1 DEF Exec, TypeOK, nodeVars
<1>2. ASSUME NEW q \in Request, Succeed(q) PROVE TypeOK'
  <2>1. req' \in [Request -> RequestState]
    BY <1>2, AnswerType DEF Succeed
  <2> QED
    BY <1>2, <2>1 DEF Succeed, TypeOK
<1>3. ASSUME NEW q \in Request, RedisError(q) PROVE TypeOK'
  <2>1. req[q].node \in Node
    BY <1>3 DEF RedisError, Outstanding, TypeOK, RequestState
  <2>2. req' \in [Request -> RequestState]
    BY <1>3, <2>1, FallbackType DEF RedisError
  <2> QED
    BY <1>3, <2>2 DEF RedisError, TypeOK
<1>4. ASSUME NEW q \in Request, NEW n \in Node, Attempt(q, n) PROVE TypeOK'
  <2>1. Awaiting("sent", n) \in RequestState
    BY DEF Awaiting, RequestState
  <2> QED
    BY <1>4, <2>1 DEF Attempt, TypeOK
<1>5. ASSUME NEW q \in Request, NEW n \in Node, Skip(q, n) PROVE TypeOK'
  <2>1. req' \in [Request -> RequestState]
    BY <1>5, FallbackType DEF Skip
  <2> QED
    BY <1>5, <2>1 DEF Skip, TypeOK
<1>6. ASSUME NEW n \in Node, NodeRestarts(n) PROVE TypeOK'
  <2>1. life' \in [Authority -> 0 .. MaxFaults]
    BY <1>6, FailsType DEF NodeRestarts, Authority
  <2>2. AtRest("lost") \in RequestState
    BY DEF AtRest, RequestState
  <2> QED
    BY <1>6, <2>1, <2>2 DEF NodeRestarts, TypeOK
<1>7. ASSUME NEW n \in Node, NEW s \in Links, LinkChanges(n, s) PROVE TypeOK'
  BY <1>7, BreakerAssumption DEF LinkChanges, TypeOK, nodeVars
<1>8. CASE RedisLosesData
  <2>1. life' \in [Authority -> 0 .. MaxFaults]
    BY <1>8, FailsType DEF RedisLosesData, Authority
  <2> QED
    BY <1>8, <2>1 DEF RedisLosesData, TypeOK, nodeVars
<1>9. CASE Tick
  <2>1. sinceDown' \in [Node -> 0 .. CooldownMs]
    BY <1>9, BreakerAssumption DEF Tick, TypeOK, UpTo
  <2>2. breaker' \in [Node -> Breaker]
    BY <1>9 DEF Tick, TypeOK
  <2> QED
    BY <1>9, <2>1, <2>2, FleetAssumption DEF Tick, TypeOK
<1>10. CASE UNCHANGED vars
  BY <1>10 DEF vars, TypeOK, nodeVars
<1> QED
  BY <1>1, <1>2, <1>3, <1>4, <1>5, <1>6, <1>7, <1>8, <1>9, <1>10 DEF Next

\* The nodes, the requests and the history keep their types; no more faults are
\* counted than happened (limiter.js:25-31, 52-68).
THEOREM FleetTypes == FiniteFleet /\ Spec => []TypeOK
<1> SUFFICES ASSUME FiniteFleet PROVE Spec => []TypeOK
  OBVIOUS
<1> QED
  BY InitTypeOK, NextTypeOK, PTL DEF Spec

-----------------------------------------------------------------------------
(* A node decides by itself only in an outage *)

\* A node whose Redis is down knows no time since, and one whose breaker is open
\* has waited at least as long as Redis has been back.
OutageInv ==
  \A n \in Node :
    /\ link[n] = "down" => sinceDown[n] = 0
    /\ breaker[n].state = "open" => sinceDown[n] <= breaker[n].waited

LEMMA InitOutageInv == Init => OutageInv
BY DEF Init, OutageInv, NewBreaker

LEMMA NextOutageInv == TypeOK /\ OutageInv /\ [Next]_vars => OutageInv'
<1> SUFFICES ASSUME TypeOK, OutageInv, [Next]_vars PROVE OutageInv'
  OBVIOUS
<1> USE BreakerAssumption
<1>0. /\ breaker \in [Node -> Breaker] /\ sinceDown \in [Node -> 0 .. CooldownMs]
      /\ DOMAIN link = Node
  BY DEF TypeOK
<1>1. ASSUME NEW q \in Request, Exec(q) PROVE OutageInv'
  BY <1>1 DEF Exec, OutageInv, nodeVars
<1>2. ASSUME NEW q \in Request, Succeed(q) PROVE OutageInv'
  BY <1>0, <1>2 DEF Succeed, OutageInv, OnSuccess
<1>3. ASSUME NEW q \in Request, RedisError(q) PROVE OutageInv'
  <2> DEFINE n == req[q].node
  <2>1. /\ link[n] = "down" /\ link' = link /\ sinceDown' = sinceDown
        /\ breaker' = [breaker EXCEPT ![n] = OnFailure(@)]
    BY <1>3 DEF RedisError
  <2>2. n \in Node
    BY <1>3 DEF RedisError, Outstanding, TypeOK, RequestState
  <2>3. sinceDown[n] = 0
    BY <2>1, <2>2 DEF OutageInv
  <2>4. OnFailure(breaker[n]).waited \in Nat
    BY <1>0, <2>2, BreakerClosed DEF Breaker
  <2> HIDE DEF n
  <2> QED
    BY <1>0, <2>1, <2>2, <2>3, <2>4 DEF OutageInv
<1>4. ASSUME NEW q \in Request, NEW n \in Node, Attempt(q, n) PROVE OutageInv'
  BY <1>0, <1>4 DEF Attempt, OutageInv, AfterAllowsAttempt
<1>5. ASSUME NEW q \in Request, NEW n \in Node, Skip(q, n) PROVE OutageInv'
  BY <1>5 DEF Skip, OutageInv
<1>6. ASSUME NEW n \in Node, NodeRestarts(n) PROVE OutageInv'
  BY <1>0, <1>6 DEF NodeRestarts, OutageInv, NewBreaker
<1>7. ASSUME NEW n \in Node, NEW s \in Links, LinkChanges(n, s) PROVE OutageInv'
  <2>1. \A m \in Node : breaker[m].waited \in 0 .. CooldownMs
    BY <1>0 DEF Breaker
  <2> QED
    BY <1>0, <1>7, <2>1 DEF LinkChanges, OutageInv, nodeVars
<1>8. CASE RedisLosesData
  BY <1>8 DEF RedisLosesData, OutageInv, nodeVars
<1>9. CASE Tick
  <2> SUFFICES ASSUME NEW n \in Node
               PROVE  /\ link'[n] = "down" => sinceDown'[n] = 0
                      /\ breaker'[n].state = "open" => sinceDown'[n] <= breaker'[n].waited
    BY DEF OutageInv
  <2>1. /\ link' = link /\ breaker'[n] = Waits(breaker[n])
        /\ sinceDown'[n] = IF link[n] = "down" THEN 0
                           ELSE UpTo(CooldownMs, sinceDown[n] + 1)
    BY <1>9 DEF Tick
  <2>2. /\ breaker[n].waited \in 0 .. CooldownMs /\ sinceDown[n] \in 0 .. CooldownMs
        /\ Waits(breaker[n]).state = breaker[n].state
        /\ Waits(breaker[n]).waited = UpTo(CooldownMs, breaker[n].waited + 1)
    BY <1>0 DEF Waits, Breaker
  <2> QED
    BY <2>1, <2>2 DEF OutageInv, UpTo
<1>10. CASE UNCHANGED vars
  BY <1>10 DEF vars, OutageInv, nodeVars
<1> QED
  BY <1>1, <1>2, <1>3, <1>4, <1>5, <1>6, <1>7, <1>8, <1>9, <1>10 DEF Next

LEMMA OutageStep ==
  ASSUME TypeOK, OutageInv, NEW q \in Request, NEW n \in Node,
         Skip(q, n) \/ (RedisError(q) /\ req[q].node = n)
  PROVE  sinceDown[n] < CooldownMs
<1>1. sinceDown[n] \in Int /\ breaker[n].waited \in Int
  BY BreakerAssumption DEF TypeOK, Breaker
<1>2. CASE Skip(q, n)
  BY <1>1, <1>2, BreakerAssumption DEF Skip, AllowsAttempt, OutageInv
<1>3. CASE RedisError(q) /\ req[q].node = n
  BY <1>3, BreakerAssumption DEF RedisError, OutageInv
<1> QED
  BY <1>2, <1>3

\* A node decides by itself only while Redis is down for it or within cooldownMs
\* of that (limiter.js:38-50, circuitBreaker.js:21-43).
THEOREM DegradesOnlyInOutage == FiniteFleet /\ Spec => DegradedOnlyInOutage
<1> SUFFICES ASSUME FiniteFleet PROVE Spec => DegradedOnlyInOutage
  OBVIOUS
<1> DEFINE A == \A q \in Request, n \in Node :
                  Skip(q, n) \/ (RedisError(q) /\ req[q].node = n)
                    => sinceDown[n] < CooldownMs
<1>1. TypeOK /\ OutageInv => A
  BY OutageStep
<1>2. TypeOK /\ OutageInv /\ [Next]_vars => [A]_vars
  BY <1>1
<1> QED
  BY InitTypeOK, NextTypeOK, InitOutageInv, NextOutageInv, <1>2, PTL
     DEF Spec, DegradedOnlyInOutage

-----------------------------------------------------------------------------
(* What is admitted, and what Redis holds of it *)

W == FleetRule.windowMs

LogEntry ==
  [by : Authority, life : 0 .. MaxFaults, id : Request, n : Nat, at : 0 .. MaxTime]

\* The history is finite and lies in the past, an admission ends the wait for the
\* request, and nobody but Redis admits when nodes fail closed.
LogInv ==
  /\ IsFiniteSet(log) /\ log \in SUBSET LogEntry
  /\ \A m \in log : /\ m.at <= now /\ m.life <= life[m.by]
                    /\ req[m.id].pc \notin {"new", "sent"}
  /\ failMode = "closed" => \A m \in log : m.by = Redis

\* What Redis admitted since it last lost its data, and before.
Current == {m \in log : m.by = Redis /\ m.life = life[Redis]}
Former == {m \in log : m.by = Redis /\ m.life < life[Redis]}

\* The member of the sorted set that stands for an admission.
Member(m) == [id |-> m.id, n |-> m.n, score |-> m.at]

\* The sorted set holds whatever Redis admitted and still counts, and does not
\* expire before it.
WindowInv ==
  /\ IsFiniteSet(sw.entries) /\ sw.expireAt \in Int
  /\ \A m \in Current :
       m.at > now - W => Member(m) \in sw.entries /\ m.at + W <= sw.expireAt

\* No window holds more than the limit for each time Redis starts anew.
PastInv ==
  \A t \in 0 .. MaxTime :
    /\ Cardinality(InWindow(Current, t)) <= FleetRule.limit
    /\ Cardinality(InWindow(Former, t)) <= FleetRule.limit * life[Redis]

FInv == TypeOK /\ LogInv /\ WindowInv /\ PastInv

LEMMA Numbers ==
  ASSUME TypeOK
  PROVE  /\ W \in Nat \ {0} /\ FleetRule.limit \in Nat \ {0}
         /\ FleetRule.cost \in Nat \ {0} /\ now \in Nat /\ MaxTime \in Nat
         /\ life[Redis] \in Nat /\ Redis \in Authority
BY RuleNumbers, FleetAssumption DEF TypeOK, Authority, W

\* The admissions of one call are finitely many.
LEMMA AdmissionFinite ==
  ASSUME NEW a, NEW q
  PROVE  IsFiniteSet(Admission(a, q))
<1> DEFINE f == [n \in 1 .. FleetRule.cost |->
                   [by |-> a, life |-> life[a], id |-> q, n |-> n, at |-> now]]
<1>1. f \in Surjection(1 .. FleetRule.cost, Admission(a, q))
  BY DEF Surjection, Admission
<1>2. IsFiniteSet(1 .. FleetRule.cost)
  BY CostInterval
<1> QED
  BY <1>1, <1>2, FS_Surjection, Zenon

LEMMA AdmissionType ==
  ASSUME TypeOK, NEW a \in Authority, NEW q \in Request
  PROVE  Admission(a, q) \in SUBSET LogEntry
BY RuleNumbers, FleetAssumption DEF Admission, LogEntry, TypeOK

\* An execution admits only what fits, and the window it leaves holds that.
LEMMA ExecEffect ==
  ASSUME NEW q \in Request, Exec(q)
  PROVE  \E ok \in BOOLEAN :
           /\ ok => WindowFits(sw, FleetRule, now)
           /\ sw' = [entries |-> IF ok THEN ZAdd(Kept(sw, FleetRule, now), q, FleetRule, now)
                                 ELSE Kept(sw, FleetRule, now),
                     expireAt |-> now + W]
           /\ log' = IF ok THEN log \cup Admission(Redis, q) ELSE log
           /\ req' = [req EXCEPT ![q].pc = IF ok THEN "allowed" ELSE "denied"]
<1> DEFINE run == RunScript(tb, sw, FleetRule, q, now)
           ok  == run.reply.allowed
<1>1. /\ sw' = run.sw
      /\ log' = IF ok THEN log \cup Admission(Redis, q) ELSE log
      /\ req' = [req EXCEPT ![q].pc = IF ok THEN "allowed" ELSE "denied"]
  BY DEF Exec
<1>2. WindowFits(sw, FleetRule, now) \in BOOLEAN /\ TokensSuffice(tb, FleetRule, now) \in BOOLEAN
  BY DEF WindowFits, TokensSuffice
<1>3. /\ ok \in BOOLEAN
      /\ ok => WindowFits(sw, FleetRule, now)
      /\ run.sw = [entries |-> IF ok THEN ZAdd(Kept(sw, FleetRule, now), q, FleetRule, now)
                               ELSE Kept(sw, FleetRule, now),
                   expireAt |-> now + W]
  <2>1. CASE FleetRule.strategy = "sliding_window"
    BY <1>2, <2>1, Zenon DEF RunScript, rlSlidingWindow, Reply, W
  <2>2. CASE FleetRule.strategy = "hybrid"
    BY <1>2, <2>2, Zenon DEF RunScript, rlHybrid, Reply, W
  <2> QED
    BY <2>1, <2>2, RuleNumbers
<1> HIDE DEF run
<1> QED
  BY <1>1, <1>3, Zenon

\* A node that decides by itself admits in its own name, and only failing open.
LEMMA FallbackEffect ==
  ASSUME NEW q \in Request, NEW n \in Node, _fallback(q, n)
  PROVE  /\ log' = log \/ (failMode # "closed" /\ log' = log \cup Admission(n, q))
         /\ \E pc \in {"admitted", "refused"} : req' = [req EXCEPT ![q] = AtRest(pc)]
<1>1. CASE failMode = "closed"
  BY <1>1 DEF _fallback, Answer
<1>2. CASE failMode # "closed"
  BY <1>2, Zenon DEF _fallback, Answer
<1> QED
  BY <1>1, <1>2

LEMMA InitFInv == FiniteFleet /\ Init => FInv
<1> SUFFICES ASSUME FiniteFleet, Init PROVE FInv
  OBVIOUS
<1>1. TypeOK
  BY InitTypeOK
<1>2. log = {} /\ sw = NoWindow
  BY DEF Init
<1>3. Current = {} /\ Former = {} /\ \A t : InWindow({}, t) = {}
  BY <1>2 DEF Current, Former, InWindow
<1>4. LogInv
  BY <1>2, FS_EmptySet DEF LogInv
<1>5. WindowInv
  BY <1>2, <1>3, FS_EmptySet DEF WindowInv, NoWindow
<1>6. PastInv
  <2>1. Cardinality({}) = 0 /\ 0 <= FleetRule.limit
    BY FS_EmptySet, RuleNumbers
  <2>2. 0 <= FleetRule.limit * life[Redis]
    BY <1>1, Numbers
  <2> QED
    BY <1>3, <2>1, <2>2 DEF PastInv
<1> QED
  BY <1>1, <1>4, <1>5, <1>6 DEF FInv

\* Multiplying by one more.
LEMMA OneMoreTimes ==
  ASSUME NEW L \in Nat, NEW n \in Nat
  PROVE  /\ L * n \in Nat
         /\ L * (n + 1) = L * n + L
         /\ L * (1 + n) = L * n + L
OBVIOUS

LEMMA UnionCount ==
  ASSUME NEW L, IsFiniteSet(L), NEW A, A \in SUBSET L, NEW B, B \in SUBSET L
  PROVE  Cardinality(A \cup B) <= Cardinality(A) + Cardinality(B)
<1>1. IsFiniteSet(A) /\ IsFiniteSet(B)
  BY FS_Subset
<1>2. IsFiniteSet(A \cap B)
  BY <1>1, FS_Intersection
<1>3. Cardinality(A) \in Nat /\ Cardinality(B) \in Nat /\ Cardinality(A \cap B) \in Nat
  BY <1>1, <1>2, FS_CardinalityType
<1>4. Cardinality(A \cup B) = Cardinality(A) + Cardinality(B) - Cardinality(A \cap B)
  BY <1>1, FS_Union, Zenon
<1> QED
  BY <1>3, <1>4

\* A set of what Redis admitted in one life, all of it still counted, is no larger
\* than what Redis holds of it.
LEMMA MembersCount ==
  ASSUME NEW S, S \in SUBSET LogEntry, NEW k, \A m \in S : m.by = Redis /\ m.life = k,
         NEW T, IsFiniteSet(T), \A m \in S : Member(m) \in T
  PROVE  Cardinality(S) <= Cardinality(T)
<1> DEFINE f == [m \in S |-> Member(m)]
<1>1. \A m, p \in S : Member(m) = Member(p) => m = p
  BY DEF Member, LogEntry
<1>2. f \in Injection(S, T)
  <2>1. f \in [S -> T]
    OBVIOUS
  <2>2. \A m, p \in S : f[m] = f[p] => m = p
    BY <1>1
  <2> HIDE DEF f
  <2> QED
    BY <2>1, <2>2 DEF Injection, IsInjective
<1> HIDE DEF f
<1> QED
  BY <1>2, FS_Injection, Zenon

\* Steps in which nobody admits and Redis keeps its data.
LEMMA QuietStep ==
  ASSUME FInv, TypeOK', log' = log, sw' = sw, failMode' = failMode,
         life'[Redis] = life[Redis], now' >= now,
         \A a \in Authority : life'[a] >= life[a],
         \A m \in log : req'[m.id].pc \notin {"new", "sent"}
  PROVE  LogInv' /\ WindowInv' /\ PastInv'
<1>0. /\ now \in Int /\ now' \in Int /\ W \in Nat
      /\ \A m \in log : m.at \in Int /\ m.by \in Authority /\ m.life \in Int
      /\ \A a \in Authority : life[a] \in Int /\ life'[a] \in Int
  BY FleetAssumption, Numbers DEF FInv, TypeOK, LogInv, LogEntry
<1>1. Current' = Current /\ Former' = Former
  BY DEF Current, Former
<1>2. LogInv'
  BY <1>0 DEF FInv, LogInv
<1>3. WindowInv'
  BY <1>0, <1>1 DEF FInv, WindowInv, Current
<1>4. PastInv'
  BY <1>1 DEF FInv, PastInv, InWindow
<1> QED
  BY <1>2, <1>3, <1>4

LEMMA FallbackStep ==
  ASSUME FInv, NEW q \in Request, NEW n \in Node, _fallback(q, n),
         UNCHANGED <<now, failMode, redisVars, life>>
  PROVE  LogInv' /\ WindowInv' /\ PastInv'
<1> USE DEF redisVars
<1>1. PICK pc \in {"admitted", "refused"} : req' = [req EXCEPT ![q] = AtRest(pc)]
  BY FallbackEffect
<1>2. log' = log \/ (failMode # "closed" /\ log' = log \cup Admission(n, q))
  BY FallbackEffect
<1>3. \A m \in Admission(n, q) : /\ m.by = n /\ m.life = life[n] /\ m.id = q /\ m.at = now
                                 /\ m.by # Redis
  BY FleetAssumption DEF Admission
<1>4. Admission(n, q) \in SUBSET LogEntry
  BY AdmissionType DEF FInv, Authority
<1>5. req \in [Request -> RequestState] /\ \A m \in log : m.id \in Request
  BY DEF FInv, TypeOK, LogInv, LogEntry
<1>6. LogInv'
  <2>1. IsFiniteSet(log') /\ log' \in SUBSET LogEntry
    BY <1>2, <1>4, AdmissionFinite, FS_Union DEF FInv, LogInv
  <2>2. req'[q].pc \notin {"new", "sent"} /\ \A p \in Request \ {q} : req'[p] = req[p]
    BY <1>1, <1>5 DEF AtRest
  <2>3. now <= now /\ life[n] <= life[n]
    BY FleetAssumption DEF FInv, TypeOK, Authority
  <2> QED
    BY <1>2, <1>3, <1>5, <2>1, <2>2, <2>3 DEF FInv, LogInv
<1>7. Current' = Current /\ Former' = Former
  BY <1>2, <1>3 DEF Current, Former
<1> QED
  BY <1>6, <1>7 DEF FInv, WindowInv, PastInv, InWindow

LEMMA ExecStep ==
  ASSUME FInv, NEW q \in Request, Exec(q)
  PROVE  LogInv' /\ WindowInv' /\ PastInv'
<1> DEFINE kept  == Kept(sw, FleetRule, now)
           added == ZAdd(kept, q, FleetRule, now)
<1>0. /\ UNCHANGED <<now, failMode, life>> /\ req[q].pc = "sent"
      /\ req \in [Request -> RequestState]
  BY DEF Exec, FInv, TypeOK
<1>1. PICK ok \in BOOLEAN :
        /\ ok => WindowFits(sw, FleetRule, now)
        /\ sw' = [entries |-> IF ok THEN added ELSE kept, expireAt |-> now + W]
        /\ log' = IF ok THEN log \cup Admission(Redis, q) ELSE log
        /\ req' = [req EXCEPT ![q].pc = IF ok THEN "allowed" ELSE "denied"]
  BY ExecEffect
<1>2. /\ now \in Int /\ W \in Nat \ {0} /\ FleetRule.limit \in Nat
      /\ FleetRule.cost \in Nat \ {0} /\ W = FleetRule.windowMs
      /\ life[Redis] \in Nat /\ sw.expireAt \in Int /\ Redis \in Authority
  BY Numbers DEF FInv, WindowInv, W
<1>3. \A m \in log : /\ m \in LogEntry /\ m.at \in Int /\ m.at <= now /\ m.life \in Int
                     /\ m.id # q /\ m.id \in Request
  BY <1>0, FleetAssumption DEF FInv, LogInv, LogEntry
<1>4. \A m \in Admission(Redis, q) :
        /\ m.by = Redis /\ m.life = life[Redis] /\ m.id = q /\ m.at = now
        /\ m.n \in 1 .. FleetRule.cost
  BY DEF Admission
<1>5. Admission(Redis, q) \in SUBSET LogEntry
  BY <1>2, AdmissionType DEF FInv
<1>6. LogInv'
  <2>1. IsFiniteSet(log') /\ log' \in SUBSET LogEntry
    BY <1>1, <1>5, AdmissionFinite, FS_Union DEF FInv, LogInv
  <2>2. req'[q].pc \notin {"new", "sent"} /\ \A p \in Request \ {q} : req'[p] = req[p]
    <3>1. req[q] = [pc |-> "sent", node |-> req[q].node]
      BY <1>0 DEF RequestState
    <3> QED
      BY <1>0, <1>1, <3>1
  <2> QED
    BY <1>0, <1>1, <1>2, <1>3, <1>4, <2>1, <2>2 DEF FInv, LogInv
<1>7. \A m \in Current : m.at > now - W => Member(m) \in kept
  BY <1>2, <1>3 DEF FInv, WindowInv, Current, Kept, Present, Member
<1>8. /\ Former' = Former
      /\ Current' = IF ok THEN Current \cup Admission(Redis, q) ELSE Current
  BY <1>0, <1>1, <1>2, <1>4 DEF Current, Former
<1>9. \A m \in Current' : m.at > now - W => Member(m) \in sw'.entries
  <2>1. CASE ~ok
    BY <1>1, <1>7, <1>8, <2>1
  <2>2. ASSUME ok, NEW m \in Current, m.at > now - W PROVE Member(m) \in added
    BY <1>3, <1>7, <2>2 DEF ZAdd, Member, Current
  <2>3. ASSUME NEW m \in Admission(Redis, q) PROVE Member(m) \in added
    BY <1>4 DEF ZAdd, Logged, Member
  <2> QED
    BY <1>1, <1>8, <2>1, <2>2, <2>3
<1>10. \A m \in Current' : m \in LogEntry /\ m.by = Redis /\ m.life = life[Redis] /\ m.at <= now /\ m.at \in Int
  BY <1>2, <1>3, <1>4, <1>5, <1>8 DEF Current
<1>11. IsFiniteSet(kept)
  BY FS_Subset DEF Kept, FInv, WindowInv
<1>12. IsFiniteSet(added) /\ Cardinality(added) <= Cardinality(kept) + FleetRule.cost
  <2> DEFINE new == Logged(q, FleetRule, now)
             old == {m \in kept : m.id # q}
             f   == [i \in 1 .. FleetRule.cost |-> [id |-> q, n |-> i, score |-> now]]
  <2>1. f \in Surjection(1 .. FleetRule.cost, new)
    BY DEF Surjection, Logged
  <2>2. IsFiniteSet(1 .. FleetRule.cost) /\ Cardinality(1 .. FleetRule.cost) = FleetRule.cost
    BY CostInterval
  <2>3. IsFiniteSet(new) /\ Cardinality(new) <= FleetRule.cost
    <3> HIDE DEF f, new
    <3>1. IsFiniteSet(new) /\ Cardinality(new) <= Cardinality(1 .. FleetRule.cost)
      BY <2>1, <2>2, FS_Surjection, Zenon
    <3> QED
      BY <2>2, <3>1
  <2>4. IsFiniteSet(old) /\ Cardinality(old) <= Cardinality(kept)
    BY <1>11, FS_Subset
  <2>5. IsFiniteSet(old \cap new)
    BY <2>4, FS_Intersection
  <2>6. /\ IsFiniteSet(old \cup new)
        /\ Cardinality(old \cup new) = Cardinality(old) + Cardinality(new) - Cardinality(old \cap new)
    BY <2>3, <2>4, FS_Union, Zenon
  <2>7. /\ Cardinality(old) \in Nat /\ Cardinality(new) \in Nat
        /\ Cardinality(old \cap new) \in Nat /\ Cardinality(kept) \in Nat
    BY <1>11, <2>3, <2>4, <2>5, FS_CardinalityType
  <2> QED
    BY <1>2, <2>3, <2>4, <2>6, <2>7 DEF ZAdd
<1>13. WindowInv'
  <2>1. IsFiniteSet(sw'.entries)
    BY <1>1, <1>11, <1>12
  <2>2. sw'.expireAt = now + W
    BY <1>1
  <2> QED
    BY <1>0, <1>2, <1>9, <1>10, <2>1, <2>2 DEF WindowInv, W
<1>14. PastInv'
  <2> SUFFICES ASSUME NEW t \in 0 .. MaxTime, ok
               PROVE  Cardinality(InWindow(Current', t)) <= FleetRule.limit
    BY <1>0, <1>8 DEF FInv, PastInv, InWindow
  <2>0. t \in Int
    OBVIOUS
  <2>1. CASE t < now
    <3>1. InWindow(Current', t) = InWindow(Current, t)
      BY <1>2, <1>4, <1>8, <2>0, <2>1 DEF InWindow
    <3> QED
      BY <3>1 DEF FInv, PastInv
  <2>2. CASE t >= now
    <3> DEFINE S == InWindow(Current', t)
    <3>1. \A m \in S : Member(m) \in added
      BY <1>1, <1>2, <1>9, <1>10, <2>0, <2>2 DEF InWindow
    <3>2. S \in SUBSET LogEntry /\ \A m \in S : m.by = Redis /\ m.life = life[Redis]
      BY <1>10 DEF InWindow
    <3> HIDE DEF S
    <3>3. Cardinality(S) <= Cardinality(added) /\ IsFiniteSet(S)
      <4>1. IsFiniteSet(log')
        BY <1>6 DEF LogInv
      <4>2. S \in SUBSET log'
        BY DEF S, InWindow, Current
      <4> QED
        BY <1>12, <3>1, <3>2, <4>1, <4>2, MembersCount, FS_Subset
    <3>4. Cardinality(S) \in Nat /\ Cardinality(added) \in Nat /\ Cardinality(kept) \in Nat
      BY <1>11, <1>12, <3>3, FS_CardinalityType
    <3>5. Cardinality(kept) + FleetRule.cost <= FleetRule.limit
      BY <1>1 DEF WindowFits
    <3>6. Cardinality(S) <= FleetRule.limit
      BY <1>2, <1>12, <3>3, <3>4, <3>5
    <3> QED
      BY <3>6 DEF S
  <2> QED
    BY <1>2, <2>0, <2>1, <2>2
<1> QED
  BY <1>6, <1>13, <1>14

\* What Redis counted until it lost its data joins what it had counted before.
LEMMA LossStep ==
  ASSUME FInv, TypeOK', RedisLosesData
  PROVE  LogInv' /\ WindowInv' /\ PastInv'
<1>0. /\ log' = log /\ req' = req /\ failMode' = failMode /\ now' = now
      /\ sw' = NoWindow /\ life \in [Authority -> 0 .. MaxFaults]
      /\ life' = [life EXCEPT ![Redis] = @ + 1]
  BY DEF RedisLosesData, Fails, FInv, TypeOK, nodeVars
<1>1. /\ life'[Redis] = life[Redis] + 1 /\ life[Redis] \in Nat /\ MaxFaults \in Nat
      /\ \A a \in Authority : life'[a] >= life[a] /\ life[a] \in Int /\ life'[a] \in Int
      /\ FleetRule.limit \in Nat
  BY <1>0, Numbers, FleetAssumption DEF FInv
<1>2. \A m \in log : /\ m.by \in Authority /\ m.life \in Int /\ m.life <= life[m.by]
  BY <1>1 DEF FInv, LogInv, LogEntry
<1>3. LogInv'
  BY <1>0, <1>1, <1>2 DEF FInv, LogInv
<1>4. Current' = {} /\ Former' = Former \cup Current
  BY <1>0, <1>1, <1>2 DEF Current, Former
<1>5. WindowInv'
  BY <1>0, <1>4, FS_EmptySet DEF WindowInv, NoWindow
<1>6. PastInv'
  <2> SUFFICES ASSUME NEW t \in 0 .. MaxTime
               PROVE  /\ Cardinality(InWindow(Current', t)) <= FleetRule.limit
                      /\ Cardinality(InWindow(Former', t)) <= FleetRule.limit * life'[Redis]
    BY DEF PastInv, InWindow
  <2> DEFINE C == InWindow(Current, t)
             F == InWindow(Former, t)
  <2>1. InWindow(Current', t) = {} /\ InWindow(Former', t) = F \cup C
    BY <1>4 DEF InWindow
  <2>2. C \in SUBSET log /\ F \in SUBSET log /\ IsFiniteSet(log)
    BY DEF InWindow, Current, Former, FInv, LogInv
  <2>3. Cardinality(C) <= FleetRule.limit /\ Cardinality(F) <= FleetRule.limit * life[Redis]
    BY DEF FInv, PastInv
  <2> HIDE DEF C, F
  <2>4. Cardinality(F \cup C) <= Cardinality(F) + Cardinality(C)
    BY <2>2, UnionCount
  <2>5. /\ Cardinality(F) \in Nat /\ Cardinality(C) \in Nat /\ Cardinality(F \cup C) \in Nat
        /\ Cardinality({}) = 0
    BY <2>2, FS_Subset, FS_Union, FS_CardinalityType, FS_EmptySet
  <2>6. FleetRule.limit * (life[Redis] + 1) = FleetRule.limit * life[Redis] + FleetRule.limit
    BY <1>1, OneMoreTimes
  <2>7. FleetRule.limit * life[Redis] \in Nat
    BY <1>1, OneMoreTimes
  <2> QED
    BY <1>1, <2>1, <2>3, <2>4, <2>5, <2>6, <2>7
<1> QED
  BY <1>3, <1>5, <1>6

LEMMA NextFInv == FiniteFleet /\ FInv /\ [Next]_vars => FInv'
<1> SUFFICES ASSUME FiniteFleet, FInv, [Next]_vars PROVE LogInv' /\ WindowInv' /\ PastInv'
  BY NextTypeOK DEF FInv
<1> DEFINE Decided(q) == req'[q].pc \notin {"new", "sent"}
<1>0. /\ TypeOK /\ TypeOK'
  BY NextTypeOK DEF FInv
<1>1. /\ req \in [Request -> RequestState] /\ Redis \in Authority /\ now \in Nat
      /\ \A a \in Authority : life[a] \in Nat
      /\ \A m \in log : m.id \in Request /\ req[m.id].pc \notin {"new", "sent"}
  BY <1>0, Numbers DEF FInv, TypeOK, LogInv, LogEntry
<1>2. ASSUME NEW q \in Request, Exec(q) PROVE LogInv' /\ WindowInv' /\ PastInv'
  BY <1>2, ExecStep
<1>3. ASSUME NEW q \in Request, Succeed(q) PROVE LogInv' /\ WindowInv' /\ PastInv'
  <2>1. \A m \in log : Decided(m.id)
    BY <1>1, <1>3 DEF Succeed, Answer, AtRest
  <2> QED
    BY <1>0, <1>1, <1>3, <2>1, QuietStep DEF Succeed, redisVars
<1>4. ASSUME NEW q \in Request, RedisError(q) PROVE LogInv' /\ WindowInv' /\ PastInv'
  <2>1. req[q].node \in Node
    BY <1>1, <1>4 DEF RedisError, Outstanding, RequestState
  <2> QED
    BY <1>4, <2>1, FallbackStep DEF RedisError
<1>5. ASSUME NEW q \in Request, NEW n \in Node, Attempt(q, n)
      PROVE  LogInv' /\ WindowInv' /\ PastInv'
  <2>1. \A m \in log : Decided(m.id)
    BY <1>1, <1>5 DEF Attempt
  <2> QED
    BY <1>0, <1>1, <1>5, <2>1, QuietStep DEF Attempt, redisVars
<1>6. ASSUME NEW q \in Request, NEW n \in Node, Skip(q, n)
      PROVE  LogInv' /\ WindowInv' /\ PastInv'
  BY <1>6, FallbackStep DEF Skip
<1>7. ASSUME NEW n \in Node, NodeRestarts(n) PROVE LogInv' /\ WindowInv' /\ PastInv'
  <2>1. \A m \in log : Decided(m.id)
    BY <1>1, <1>7 DEF NodeRestarts, AtRest
  <2>2. life'[Redis] = life[Redis] /\ \A a \in Authority : life'[a] >= life[a]
    BY <1>0, <1>1, <1>7, FleetAssumption DEF NodeRestarts, Fails, TypeOK, Authority
  <2> QED
    BY <1>0, <1>1, <1>7, <2>1, <2>2, QuietStep DEF NodeRestarts, redisVars
<1>8. ASSUME NEW n \in Node, NEW s \in Links, LinkChanges(n, s)
      PROVE  LogInv' /\ WindowInv' /\ PastInv'
  BY <1>0, <1>1, <1>8, QuietStep DEF LinkChanges, redisVars
<1>9. CASE RedisLosesData
  BY <1>0, <1>9, LossStep
<1>10. CASE Tick
  BY <1>0, <1>1, <1>10, QuietStep DEF Tick, redisVars
<1>11. CASE UNCHANGED vars
  BY <1>0, <1>1, <1>11, QuietStep DEF vars, redisVars
<1> QED
  BY <1>2, <1>3, <1>4, <1>5, <1>6, <1>7, <1>8, <1>9, <1>10, <1>11 DEF Next

\* Nodes that fail closed let no more through, together and whatever fails, than
\* the one limit for each time Redis starts anew (limiter.js:52-58, ADR 0004).
THEOREM ClosedKeepsTheLimit == FiniteFleet /\ Spec => []ClosedIsGlobal
<1> SUFFICES ASSUME FiniteFleet PROVE Spec => []ClosedIsGlobal
  OBVIOUS
<1>1. FInv => ClosedIsGlobal
  <2> SUFFICES ASSUME FInv, failMode = "closed", NEW t \in 0 .. MaxTime
               PROVE  Cardinality(InWindow({m \in log : m.id \in Admitted}, t))
                        <= FleetRule.limit * (1 + life[Redis])
    BY DEF ClosedIsGlobal
  <2> DEFINE C == InWindow(Current, t)
             F == InWindow(Former, t)
             S == InWindow({m \in log : m.id \in Admitted}, t)
  <2>1. /\ life[Redis] \in Nat /\ FleetRule.limit \in Nat
        /\ \A m \in log : m.by = Redis /\ m.life \in Int /\ m.life <= life[Redis]
    BY Numbers, FleetAssumption DEF FInv, LogInv, LogEntry
  <2>2. S \in SUBSET (F \cup C)
    BY <2>1 DEF InWindow, Current, Former
  <2>3. C \in SUBSET log /\ F \in SUBSET log /\ IsFiniteSet(log)
    BY DEF InWindow, Current, Former, FInv, LogInv
  <2>4. Cardinality(C) <= FleetRule.limit /\ Cardinality(F) <= FleetRule.limit * life[Redis]
    BY DEF FInv, PastInv
  <2> HIDE DEF C, F, S
  <2>5. Cardinality(F \cup C) <= Cardinality(F) + Cardinality(C)
    BY <2>3, UnionCount
  <2>6. Cardinality(S) <= Cardinality(F \cup C)
    BY <2>2, <2>3, FS_Subset, FS_Union, Zenon
  <2>7. /\ Cardinality(F) \in Nat /\ Cardinality(C) \in Nat /\ Cardinality(F \cup C) \in Nat
        /\ Cardinality(S) \in Nat
    BY <2>2, <2>3, FS_Subset, FS_Union, FS_CardinalityType
  <2>8. /\ FleetRule.limit * (1 + life[Redis]) = FleetRule.limit * life[Redis] + FleetRule.limit
        /\ FleetRule.limit * life[Redis] \in Nat
    BY <2>1, OneMoreTimes
  <2>9. Cardinality(S) <= FleetRule.limit * (1 + life[Redis])
    BY <2>1, <2>4, <2>5, <2>6, <2>7, <2>8
  <2> QED
    BY <2>9 DEF S
<1> QED
  BY InitFInv, NextFInv, <1>1, PTL DEF Spec

-----------------------------------------------------------------------------
(* What a node holds of what it admitted *)

\* A non-empty set of naturals has a least member.
Below == {p \in Nat \X Nat : p[1] < p[2]}

LEMMA LeastNat ==
  ASSUME NEW T \in SUBSET Nat, T # {}
  PROVE  \E x \in T : \A y \in T : x <= y
<1>1. Below = OpToRel(<, Nat)
  BY Zenon DEF Below, OpToRel
<1>2. IsWellFoundedOn(Below, Nat)
  BY <1>1, NatLessThanWellFounded, Zenon
<1>3. PICK x \in T : \A y \in T : ~ (<<y, x>> \in Below)
  BY <1>2, WFMin, Zenon
<1>4. ASSUME NEW y \in T PROVE x <= y
  <2>1. x \in Nat /\ y \in Nat /\ <<y, x>> \notin Below
    BY <1>3
  <2>2. <<y, x>> \in Nat \X Nat /\ <<y, x>>[1] = y /\ <<y, x>>[2] = x
    BY <2>1
  <2>3. ~(y < x)
    BY <2>1, <2>2, Zenon DEF Below
  <2> QED
    BY <2>1, <2>3
<1> QED
  BY <1>4

\* The times a process may hold: in order, and none to come.
Hits(h, t) ==
  /\ h \in Seq(Nat)
  /\ \A i, j \in 1 .. Len(h) : i <= j => h[i] <= h[j]
  /\ \A i \in 1 .. Len(h) : h[i] <= t

\* Every admission in S has a time of its own among the hits.
Noted(S, h) ==
  \E g \in [S -> 1 .. Len(h)] :
    /\ \A m \in S : h[g[m]] = m.at
    /\ \A m, p \in S : g[m] = g[p] => m = p

Live(h) == Memory!LiveHits(h, FleetRule, now)

LEMMA NotedCount ==
  ASSUME NEW S, NEW h \in Seq(Nat), Noted(S, h)
  PROVE  IsFiniteSet(S) /\ Cardinality(S) \in Nat /\ Cardinality(S) <= Len(h)
<1>1. PICK g \in [S -> 1 .. Len(h)] : \A m, p \in S : g[m] = g[p] => m = p
  BY DEF Noted
<1>2. g \in Injection(S, 1 .. Len(h))
  BY <1>1 DEF Injection, IsInjective
<1>3. Len(h) \in Nat /\ IsFiniteSet(1 .. Len(h)) /\ Cardinality(1 .. Len(h)) = Len(h)
  <2> DEFINE n == Len(h)
  <2>1. n \in Nat
    OBVIOUS
  <2> HIDE DEF n
  <2>2. IsFiniteSet(1 .. n) /\ Cardinality(1 .. n) = n
    BY <2>1, FS_Interval
  <2> QED
    BY <2>1, <2>2 DEF n
<1>4. IsFiniteSet(S) /\ Cardinality(S) <= Cardinality(1 .. Len(h))
  BY <1>2, <1>3, FS_Injection, Zenon
<1> QED
  BY <1>3, <1>4, FS_CardinalityType

LEMMA NotedFewer ==
  ASSUME NEW S, NEW T \in SUBSET S, NEW h, Noted(S, h)
  PROVE  Noted(T, h)
<1>1. PICK g \in [S -> 1 .. Len(h)] :
        /\ \A m \in S : h[g[m]] = m.at
        /\ \A m, p \in S : g[m] = g[p] => m = p
  BY DEF Noted
<1> DEFINE f == [m \in T |-> g[m]]
<1>2. f \in [T -> 1 .. Len(h)]
  BY <1>1
<1>3. \A m \in T : f[m] = g[m]
  OBVIOUS
<1> HIDE DEF f
<1> QED
  BY <1>1, <1>2, <1>3 DEF Noted

\* What the filter keeps of hits that are in order are the last ones.
LEMMA LiveIs ==
  ASSUME NEW h, now \in Nat, Hits(h, now)
  PROVE  \E d \in 0 .. Len(h) :
           /\ \A i \in 1 .. Len(h) : h[i] > now - W <=> i > d
           /\ Live(h) \in Seq(Nat)
           /\ Len(Live(h)) = Len(h) - d
           /\ \A k \in 1 .. Len(h) - d : Live(h)[k] = h[d + k]
<1> DEFINE cut == now - W
           Dead(d) == \A i \in 1 .. Len(h) : h[i] > cut <=> i > d
           live == {i \in 1 .. Len(h) + 1 : i <= Len(h) => h[i] > cut}
           dead == CHOOSE d \in 0 .. Len(h) : Dead(d)
<1>1. /\ Len(h) \in Nat /\ DOMAIN h = 1 .. Len(h)
      /\ \A i \in 1 .. Len(h) : h[i] \in Nat
      /\ cut \in Int
  BY RuleNumbers DEF Hits, W
<1> HIDE DEF cut
<1>2. \E d \in 0 .. Len(h) : Dead(d)
  <2>1. live \in SUBSET Nat /\ Len(h) + 1 \in live
    BY <1>1
  <2>2. PICK x \in live : \A y \in live : x <= y
    BY <2>1, LeastNat
  <2>3. x \in 1 .. Len(h) + 1
    OBVIOUS
  <2>4. ASSUME NEW i \in 1 .. Len(h), i < x PROVE ~(h[i] > cut)
    BY <1>1, <2>2, <2>3, <2>4
  <2>5. ASSUME NEW i \in 1 .. Len(h), i >= x PROVE h[i] > cut
    <3>1. x \in 1 .. Len(h) /\ h[x] > cut
      BY <1>1, <2>2, <2>3, <2>5
    <3>2. h[x] <= h[i]
      BY <2>5, <3>1 DEF Hits
    <3> QED
      BY <1>1, <3>1, <3>2
  <2>6. x - 1 \in 0 .. Len(h) /\ Dead(x - 1)
    BY <1>1, <2>3, <2>4, <2>5
  <2> QED
    BY <2>6
<1>3. dead \in 0 .. Len(h) /\ Dead(dead)
  BY <1>2
<1>4. Live(h) = SubSeq(h, dead + 1, Len(h))
  BY <1>1 DEF Live, Memory!LiveHits, cut, W
<1> HIDE DEF dead, Dead, live
<1> DEFINE last == SubSeq(h, dead + 1, Len(h))
<1>5. dead \in Nat /\ Len(h) \in Nat /\ dead <= Len(h)
  BY <1>1, <1>3
<1>6. /\ last \in Seq(Nat)
      /\ Len(last) = IF dead + 1 <= Len(h) THEN Len(h) - (dead + 1) + 1 ELSE 0
      /\ \A i \in 1 .. Len(h) - (dead + 1) + 1 : last[i] = h[(dead + 1) + i - 1]
  <2>1. \A i \in dead + 1 .. Len(h) : h[i] \in Nat
    BY <1>1, <1>5
  <2> QED
    BY <1>5, <2>1, SubSeqProperties DEF Hits
<1> HIDE DEF last
<1>7. Len(last) = Len(h) - dead
  BY <1>5, <1>6
<1>8. ASSUME NEW k \in 1 .. Len(h) - dead PROVE last[k] = h[dead + k]
  <2>1. k \in 1 .. Len(h) - (dead + 1) + 1 /\ (dead + 1) + k - 1 = dead + k
    BY <1>5
  <2> QED
    BY <1>6, <2>1
<1>9. \A i \in 1 .. Len(h) : h[i] > now - W <=> i > dead
  BY <1>3 DEF Dead, cut
<1> QED
  BY <1>3, <1>4, <1>6, <1>7, <1>8, <1>9 DEF last

\* The filter drops nothing that still counts.
LEMMA LiveNoted ==
  ASSUME NEW h, now \in Nat, Hits(h, now), NEW S, Noted(S, h), \A m \in S : m.at > now - W
  PROVE  Hits(Live(h), now) /\ Noted(S, Live(h))
<1>1. PICK d \in 0 .. Len(h) :
        /\ \A i \in 1 .. Len(h) : h[i] > now - W <=> i > d
        /\ Live(h) \in Seq(Nat)
        /\ Len(Live(h)) = Len(h) - d
        /\ \A k \in 1 .. Len(h) - d : Live(h)[k] = h[d + k]
  BY LiveIs
<1> DEFINE live == Live(h)
<1>2. PICK g \in [S -> 1 .. Len(h)] :
        /\ \A m \in S : h[g[m]] = m.at
        /\ \A m, p \in S : g[m] = g[p] => m = p
  BY DEF Noted
<1>3. Len(h) \in Nat /\ d \in Nat /\ Len(live) = Len(h) - d
  BY <1>1 DEF Hits
<1>4. \A k \in 1 .. Len(live) : d + k \in 1 .. Len(h) /\ live[k] = h[d + k]
  BY <1>1, <1>3
<1>5. live \in Seq(Nat)
  BY <1>1
<1>6. \A m \in S : g[m] - d \in 1 .. Len(live) /\ d + (g[m] - d) = g[m] /\ g[m] \in Int
  <2> SUFFICES ASSUME NEW m \in S
               PROVE  g[m] - d \in 1 .. Len(live) /\ d + (g[m] - d) = g[m] /\ g[m] \in Int
    OBVIOUS
  <2>1. g[m] \in 1 .. Len(h) /\ h[g[m]] > now - W
    BY <1>2
  <2>2. g[m] > d
    BY <1>1, <2>1
  <2> HIDE DEF live
  <2> QED
    BY <1>3, <2>1, <2>2
<1> HIDE DEF live
<1>7. Hits(live, now)
  <2>1. ASSUME NEW i \in 1 .. Len(live), NEW j \in 1 .. Len(live), i <= j
        PROVE  live[i] <= live[j]
    <3>1. /\ d + i \in 1 .. Len(h) /\ d + j \in 1 .. Len(h) /\ d + i <= d + j
          /\ live[i] = h[d + i] /\ live[j] = h[d + j]
      BY <1>3, <1>4, <2>1
    <3> QED
      BY <3>1 DEF Hits
  <2>2. \A i \in 1 .. Len(live) : live[i] <= now
    BY <1>4 DEF Hits
  <2> QED
    BY <1>5, <2>1, <2>2 DEF Hits
<1>8. Noted(S, live)
  <2> DEFINE f == [m \in S |-> g[m] - d]
  <2>1. f \in [S -> 1 .. Len(live)]
    BY <1>6
  <2>2. \A m \in S : live[f[m]] = m.at
    BY <1>2, <1>4, <1>6
  <2>3. ASSUME NEW m \in S, NEW p \in S, f[m] = f[p] PROVE m = p
    <3>1. g[m] - d = g[p] - d /\ g[m] \in Int /\ g[p] \in Int
      BY <1>6, <2>3
    <3>2. g[m] = g[p]
      BY <1>3, <3>1
    <3> QED
      BY <1>2, <3>2
  <2> HIDE DEF f
  <2> QED
    BY <2>1, <2>2, <2>3 DEF Noted
<1> QED
  BY <1>7, <1>8 DEF live

\* Pushing the time notes the admissions of a new request.
LEMMA PushNoted ==
  ASSUME NEW h, now \in Nat, Hits(h, now), NEW a, NEW q, NEW S, Noted(S, h),
         \A m \in S : m.id # q
  PROVE  LET pushed == Memory!Pushed(h, FleetRule, now)
         IN /\ Hits(pushed, now) /\ Noted(S \cup Admission(a, q), pushed)
            /\ Len(pushed) = Len(h) + FleetRule.cost
<1> DEFINE n      == Len(h)
           c      == FleetRule.cost
           new    == [i \in 1 .. c |-> now]
           pushed == Memory!Pushed(h, FleetRule, now)
           A      == Admission(a, q)
<1>1. /\ c \in Nat \ {0} /\ n \in Nat /\ h \in Seq(Nat)
      /\ \A i \in 1 .. n : h[i] \in Nat /\ h[i] <= now
  BY RuleNumbers DEF Hits
<1>2. pushed = h \o new
  BY DEF Memory!Pushed
<1> HIDE DEF c
<1>3. new \in Seq(Nat) /\ Len(new) = c /\ \A i \in 1 .. c : new[i] = now
  BY <1>1
<1> HIDE DEF new, pushed
<1>4. /\ pushed \in Seq(Nat) /\ Len(pushed) = n + c
      /\ \A i \in 1 .. n + c : pushed[i] = IF i <= n THEN h[i] ELSE new[i - n]
  BY <1>1, <1>2, <1>3, ConcatProperties
<1>5. ASSUME NEW i \in 1 .. n + c
      PROVE  \/ i \in 1 .. n /\ pushed[i] = h[i]
             \/ i > n /\ pushed[i] = now
  <2>1. CASE i <= n
    BY <1>1, <1>4, <2>1
  <2>2. CASE ~(i <= n)
    <3>1. i - n \in 1 .. c
      BY <1>1, <2>2
    <3> QED
      BY <1>1, <1>3, <1>4, <2>2, <3>1
  <2> QED
    BY <2>1, <2>2
<1>6. Hits(pushed, now)
  <2>1. \A i \in 1 .. n + c : pushed[i] <= now
    BY <1>1, <1>5
  <2>2. ASSUME NEW i \in 1 .. n + c, NEW j \in 1 .. n + c, i <= j PROVE pushed[i] <= pushed[j]
    <3>1. CASE j > n
      <4>1. pushed[j] = now
        BY <1>1, <1>5, <3>1
      <4> QED
        BY <2>1, <4>1
    <3>2. CASE ~(j > n)
      <4>1. i \in 1 .. n /\ j \in 1 .. n /\ pushed[i] = h[i] /\ pushed[j] = h[j]
        BY <1>1, <1>5, <2>2, <3>2
      <4> QED
        BY <2>2, <4>1 DEF Hits
    <3> QED
      BY <3>1, <3>2
  <2> QED
    BY <1>4, <2>1, <2>2 DEF Hits
<1>7. PICK g \in [S -> 1 .. n] :
        /\ \A m \in S : h[g[m]] = m.at
        /\ \A m, p \in S : g[m] = g[p] => m = p
  BY DEF Noted
<1>8. \A m \in A : m.id = q /\ m.n \in 1 .. c /\ m.at = now
  BY DEF Admission, c
<1>9. \A m, p \in A : m.n = p.n => m = p
  BY DEF Admission
<1>10. Noted(S \cup A, pushed)
  <2> DEFINE f == [m \in S \cup A |-> IF m.id = q THEN n + m.n ELSE g[m]]
  <2> HIDE DEF A
  <2>1. \A m \in S : f[m] = g[m] /\ f[m] \in 1 .. n
    BY <1>7
  <2>2. \A m \in A : f[m] = n + m.n /\ n + m.n \in 1 .. n + c /\ n + m.n > n
    BY <1>1, <1>8
  <2>3. f \in [S \cup A -> 1 .. n + c]
    <3>1. \A m \in S \cup A : f[m] \in 1 .. n + c
      BY <1>1, <2>1, <2>2
    <3> QED
      BY <3>1
  <2> HIDE DEF f
  <2>4. ASSUME NEW m \in S \cup A PROVE pushed[f[m]] = m.at
    <3>1. CASE m \in S
      <4>1. f[m] \in 1 .. n /\ f[m] \in 1 .. n + c /\ h[f[m]] = m.at
        BY <1>1, <1>7, <2>1, <3>1
      <4> QED
        BY <1>1, <1>5, <4>1
    <3>2. CASE m \in A
      <4>1. f[m] \in 1 .. n + c /\ f[m] > n
        BY <2>2, <3>2
      <4> QED
        BY <1>1, <1>5, <1>8, <3>2, <4>1
    <3> QED
      BY <3>1, <3>2
  <2>5. ASSUME NEW m \in S \cup A, NEW p \in S \cup A, f[m] = f[p] PROVE m = p
    <3>1. CASE m \in S /\ p \in S
      BY <1>7, <2>1, <2>5, <3>1
    <3>2. CASE m \in A /\ p \in A
      <4>1. n + m.n = n + p.n /\ m.n \in Int /\ p.n \in Int
        BY <1>8, <2>2, <2>5, <3>2
      <4>2. m.n = p.n
        BY <1>1, <4>1
      <4> QED
        BY <1>9, <3>2, <4>2
    <3>3. CASE m \in S /\ p \in A
      BY <1>1, <2>1, <2>2, <2>5, <3>3
    <3>4. CASE m \in A /\ p \in S
      BY <1>1, <2>1, <2>2, <2>5, <3>4
    <3> QED
      BY <3>1, <3>2, <3>3, <3>4
  <2> QED
    BY <1>4, <2>3, <2>4, <2>5 DEF Noted
<1> QED
  BY <1>4, <1>6, <1>10 DEF c, A, pushed

-----------------------------------------------------------------------------
(* The limit of everybody who admits *)

\* What one authority admitted in one of its lives.
Book(a, k) == {m \in log : m.by = a /\ m.life = k}

\* What a node admitted in this life that is still in its window.
Recent(n) == {m \in Book(n, life[n]) : m.at > now - W}

\* A node's memory notes whatever it admitted since its start and still counts.
HitsInv ==
  /\ DOMAIN local = Node
  /\ \A n \in Node : Hits(local[n].hits, now) /\ Noted(Recent(n), local[n].hits)

\* No window of any book, past or present, holds more than the limit.
BookInv ==
  \A a \in Authority : \A k \in 0 .. MaxFaults, t \in 0 .. MaxTime :
    Cardinality(InWindow(Book(a, k), t)) <= FleetRule.limit

\* A request that a node admitted is with nobody any more.
DoneInv == \A m \in log : m.by # Redis => req[m.id].pc \in {"admitted", "refused", "lost"}

AInv == FInv /\ HitsInv /\ DoneInv /\ BookInv

\* A node that decides by itself forgets what left the window, admits only what
\* fits beside the rest, and notes what it admits.
LEMMA FallbackNotes ==
  ASSUME DOMAIN local = Node, NEW q \in Request, NEW n \in Node, _fallback(q, n)
  PROVE  LET live == Live(local[n].hits)
         IN \/ log' = log /\ local' = local
            \/ /\ log' = log
               /\ local'[n].hits = live
               /\ DOMAIN local' = Node /\ \A p \in Node \ {n} : local'[p] = local[p]
            \/ /\ log' = log \cup Admission(n, q)
               /\ Len(live) + FleetRule.cost <= FleetRule.limit
               /\ local'[n].hits = Memory!Pushed(live, FleetRule, now)
               /\ DOMAIN local' = Node /\ \A p \in Node \ {n} : local'[p] = local[p]
<1> DEFINE run  == Memory!check(local[n].b, local[n].hits, FleetRule, now)
           live == Live(local[n].hits)
           ok   == run.reply.allowed
<1>1. CASE log' = log /\ local' = local
  BY <1>1
<1>2. CASE ~(log' = log /\ local' = local)
  <2>1. /\ local' = [local EXCEPT ![n] = [b |-> run.b, hits |-> run.hits]]
        /\ log' = IF ok THEN log \cup Admission(n, q) ELSE log
    BY <1>2, Zenon DEF _fallback
  <2>2. /\ ok => Len(live) + FleetRule.cost <= FleetRule.limit
        /\ run.hits = IF ok THEN Memory!Pushed(live, FleetRule, now) ELSE live
    <3>1. CASE FleetRule.strategy = "sliding_window"
      BY <3>1, Zenon DEF Memory!check, Memory!_slidingWindow, Memory!Decision, Live
    <3>2. CASE FleetRule.strategy = "hybrid"
      BY <3>2, Zenon DEF Memory!check, Memory!hybrid, Memory!Decision, Live
    <3> QED
      BY <3>1, <3>2, RuleNumbers
  <2> HIDE DEF run, live
  <2>3. /\ local'[n].hits = run.hits
        /\ DOMAIN local' = Node /\ \A p \in Node \ {n} : local'[p] = local[p]
    BY <2>1
  <2>4. CASE ok
    BY <2>1, <2>2, <2>3, <2>4, Zenon DEF live
  <2>5. CASE ~ok
    BY <2>1, <2>2, <2>3, <2>5, Zenon DEF live
  <2> QED
    BY <2>4, <2>5
<1> QED
  BY <1>1, <1>2

\* A node that is restarted admitted nothing yet, and for the others time only passes.
LEMMA QuietHits ==
  ASSUME AInv, TypeOK', now' >= now, NEW q,
         log' \in {log, log \cup Admission(Redis, q)}, DOMAIN local' = Node,
         \A n \in Node :
           \/ life'[n] = life[n] /\ local'[n] = local[n]
           \/ life'[n] = life[n] + 1 /\ local'[n] = NewMemory /\ log' = log
  PROVE  HitsInv'
<1>1. /\ now \in Int /\ now' \in Int /\ W \in Nat
      /\ \A m \in log : m.at \in Int /\ m.by \in Authority /\ m.life \in Int /\ m.life <= life[m.by]
      /\ \A n \in Node : n # Redis /\ life[n] \in Int
  BY FleetAssumption, Numbers DEF AInv, FInv, TypeOK, LogInv, LogEntry, Authority
<1> SUFFICES ASSUME NEW n \in Node
             PROVE  Hits(local'[n].hits, now') /\ Noted(Recent(n)', local'[n].hits)
  BY DEF HitsInv
<1>2. Hits(local[n].hits, now) /\ Noted(Recent(n), local[n].hits)
  BY DEF AInv, HitsInv
<1>3. CASE life'[n] = life[n] /\ local'[n] = local[n]
  <2>1. Hits(local[n].hits, now')
    <3>1. \A i \in 1 .. Len(local[n].hits) : local[n].hits[i] \in Int
      BY <1>2 DEF Hits
    <3> QED
      BY <1>1, <1>2, <3>1 DEF Hits
  <2>2. Recent(n)' \in SUBSET Recent(n)
    BY <1>1, <1>3 DEF Recent, Book, Admission
  <2>3. Noted(Recent(n)', local[n].hits)
    BY <1>2, <2>2, NotedFewer
  <2> QED
    BY <1>3, <2>1, <2>3
<1>4. CASE life'[n] = life[n] + 1 /\ local'[n] = NewMemory /\ log' = log
  <2>1. local'[n].hits = <<>>
    BY <1>4 DEF NewMemory
  <2>2. Hits(<<>>, now')
    BY DEF Hits
  <2>3. Recent(n)' = {}
    BY <1>1, <1>4 DEF Recent, Book
  <2>4. Noted({}, <<>>)
    <3> DEFINE g == [m \in {} |-> 1]
    <3>1. g \in [{} -> 1 .. Len(<<>>)]
      OBVIOUS
    <3> QED
      BY <3>1 DEF Noted
  <2> QED
    BY <2>1, <2>2, <2>3, <2>4
<1> QED
  BY <1>3, <1>4

\* Who admits nothing leaves every book as it is.
LEMMA QuietBooks ==
  ASSUME BookInv, log' = log
  PROVE  BookInv'
BY DEF BookInv, Book, InWindow

\* Redis adds to its current book alone.
LEMMA ExecBooks ==
  ASSUME AInv, TypeOK', NEW q \in Request, Exec(q)
  PROVE  HitsInv' /\ DoneInv' /\ BookInv'
<1>1. /\ UNCHANGED <<now, life, local>> /\ req[q].pc = "sent"
      /\ req \in [Request -> RequestState] /\ DOMAIN local = Node /\ now \in Nat
  BY Numbers DEF Exec, AInv, FInv, HitsInv, TypeOK, nodeVars
<1>2. /\ log' \in {log, log \cup Admission(Redis, q)}
      /\ \A p \in Request \ {q} : req'[p] = req[p]
  <2>1. log' \in {log, log \cup Admission(Redis, q)}
    BY ExecEffect
  <2>2. \E pc : req' = [req EXCEPT ![q].pc = pc]
    BY Zenon DEF Exec
  <2> QED
    BY <1>1, <2>1, <2>2
<1>3. \A m \in Admission(Redis, q) : m.by = Redis /\ m.life = life[Redis]
  BY DEF Admission
<1>4. HitsInv'
  BY <1>1, <1>2, QuietHits
<1>5. DoneInv'
  <2>1. \A m \in log : m.id \in Request /\ (m.by # Redis => m.id # q)
    BY <1>1 DEF AInv, FInv, LogInv, LogEntry, DoneInv
  <2> QED
    BY <1>2, <1>3, <2>1 DEF AInv, DoneInv
<1>6. BookInv'
  <2> SUFFICES ASSUME NEW a \in Authority, NEW k \in 0 .. MaxFaults, NEW t \in 0 .. MaxTime
               PROVE  Cardinality(InWindow(Book(a, k)', t)) <= FleetRule.limit
    BY DEF BookInv, InWindow
  <2>1. CASE a = Redis /\ k = life[Redis]
    <3>1. Book(a, k)' = Current'
      BY <1>1, <2>1 DEF Book, Current
    <3>2. PastInv'
      BY ExecStep DEF AInv
    <3> QED
      BY <3>1, <3>2 DEF PastInv, InWindow
  <2>2. CASE ~(a = Redis /\ k = life[Redis])
    <3>1. Book(a, k)' = Book(a, k)
      BY <1>2, <1>3, <2>2 DEF Book
    <3> QED
      BY <3>1 DEF AInv, BookInv
  <2> QED
    BY <2>1, <2>2
<1> QED
  BY <1>4, <1>5, <1>6

\* A node adds to its own current book alone, and no more than its memory allows.
LEMMA FallbackBooks ==
  ASSUME AInv, TypeOK', NEW q \in Request, NEW n \in Node, _fallback(q, n),
         req[q].pc = "new" \/ Outstanding(q), UNCHANGED <<now, life>>
  PROVE  HitsInv' /\ DoneInv' /\ BookInv'
<1> DEFINE live   == Live(local[n].hits)
           pushed == Memory!Pushed(live, FleetRule, now)
           S      == Recent(n)
           A      == Admission(n, q)
<1>1. /\ now \in Nat /\ now \in Int /\ W \in Nat \ {0} /\ W = FleetRule.windowMs
      /\ FleetRule.limit \in Nat /\ FleetRule.cost \in Nat
      /\ life[n] \in 0 .. MaxFaults /\ n \in Authority /\ n # Redis
      /\ DOMAIN local = Node /\ req \in [Request -> RequestState]
      /\ \A m \in log : m.id \in Request /\ m.at \in Int /\ m.at <= now
  BY FleetAssumption, Numbers
     DEF AInv, FInv, HitsInv, TypeOK, LogInv, LogEntry, Authority, W
<1>2. \A m \in log : m.by # Redis => m.id # q
  BY DEF AInv, DoneInv, Outstanding
<1>3. \A m \in A : m.by = n /\ m.life = life[n] /\ m.at = now /\ m.id = q
  BY DEF Admission
<1>4. Hits(live, now) /\ Noted(S, live)
  <2>1. Hits(local[n].hits, now) /\ Noted(S, local[n].hits) /\ \A m \in S : m.at > now - W
    BY DEF AInv, HitsInv, Recent
  <2> QED
    BY <1>1, <2>1, LiveNoted
<1>5. Hits(pushed, now) /\ Noted(S \cup A, pushed) /\ Len(pushed) = Len(live) + FleetRule.cost
  <2>1. \A m \in S : m.id # q
    BY <1>1, <1>2 DEF Recent, Book
  <2> HIDE DEF live, S
  <2> QED
    BY <1>1, <1>4, <2>1, PushNoted
<1>6. \/ log' = log /\ local' = local
      \/ /\ log' = log
         /\ local'[n].hits = live
         /\ DOMAIN local' = Node /\ \A p \in Node \ {n} : local'[p] = local[p]
      \/ /\ log' = log \cup A
         /\ Len(live) + FleetRule.cost <= FleetRule.limit
         /\ local'[n].hits = pushed
         /\ DOMAIN local' = Node /\ \A p \in Node \ {n} : local'[p] = local[p]
  BY <1>1, FallbackNotes
<1> HIDE DEF live, pushed, A
<1>7. ASSUME NEW p \in Node, p # n
      PROVE  Recent(p)' = Recent(p) /\ local'[p] = local[p]
  BY <1>1, <1>3, <1>6, <1>7 DEF Recent, Book
<1>8. Recent(n)' = IF log' = log THEN S ELSE S \cup A
  BY <1>1, <1>3, <1>6 DEF Recent, Book
<1>9. HitsInv'
  <2>1. DOMAIN local' = Node
    BY <1>1, <1>6
  <2>2. Hits(local'[n].hits, now') /\ Noted(Recent(n)', local'[n].hits)
    <3>1. CASE log' = log
      <4>1. \/ local' = local
            \/ local'[n].hits = live
            \/ log' = log \cup A /\ local'[n].hits = pushed
        BY <1>6
      <4>2. CASE local' = local
        BY <1>1, <1>8, <3>1, <4>2 DEF AInv, HitsInv
      <4>3. CASE local'[n].hits = live
        BY <1>1, <1>4, <1>8, <3>1, <4>3
      <4>4. CASE log' = log \cup A /\ local'[n].hits = pushed
        <5>1. Recent(n)' \in SUBSET (S \cup A)
          BY <1>8
        <5> QED
          BY <1>1, <1>5, <4>4, <5>1, NotedFewer
      <4> QED
        BY <4>1, <4>2, <4>3, <4>4
    <3>2. CASE log' # log
      BY <1>1, <1>5, <1>6, <1>8, <3>2
    <3> QED
      BY <3>1, <3>2
  <2>3. ASSUME NEW p \in Node, p # n
        PROVE  Hits(local'[p].hits, now') /\ Noted(Recent(p)', local'[p].hits)
    BY <1>1, <1>7, <2>3 DEF AInv, HitsInv
  <2> QED
    BY <2>1, <2>2, <2>3 DEF HitsInv
<1>10. DoneInv'
  <2>1. PICK pc \in {"admitted", "refused"} : req' = [req EXCEPT ![q] = AtRest(pc)]
    BY FallbackEffect
  <2>2. req'[q].pc = pc /\ \A p \in Request \ {q} : req'[p] = req[p]
    BY <1>1, <2>1 DEF AtRest
  <2>3. \A m \in log' : m \in log \/ m.id = q
    BY <1>3, <1>6
  <2> QED
    BY <1>1, <1>2, <2>2, <2>3 DEF AInv, DoneInv
<1>11. BookInv'
  <2>1. CASE log' = log
    BY <2>1, QuietBooks DEF AInv
  <2>2. CASE log' # log
    <3>1. log' = log \cup A /\ Len(live) + FleetRule.cost <= FleetRule.limit
      BY <1>6, <2>2
    <3> SUFFICES ASSUME NEW a \in Authority, NEW k \in 0 .. MaxFaults, NEW t \in 0 .. MaxTime
                 PROVE  Cardinality(InWindow(Book(a, k)', t)) <= FleetRule.limit
      BY DEF BookInv, InWindow
    <3>2. t \in Int
      OBVIOUS
    <3>3. CASE ~(a = n /\ k = life[n])
      <4>1. Book(a, k)' = Book(a, k)
        BY <1>3, <3>1, <3>3 DEF Book
      <4> QED
        BY <4>1 DEF AInv, BookInv
    <3>4. CASE a = n /\ k = life[n] /\ t < now
      <4>1. InWindow(Book(a, k)', t) = InWindow(Book(a, k), t)
        BY <1>1, <1>3, <3>1, <3>2, <3>4 DEF InWindow, Book
      <4> QED
        BY <4>1 DEF AInv, BookInv
    <3>5. CASE a = n /\ k = life[n] /\ t >= now
      <4>1. InWindow(Book(a, k)', t) \in SUBSET (S \cup A)
        BY <1>1, <1>3, <3>1, <3>2, <3>5 DEF InWindow, Book, Recent
      <4>2. Noted(InWindow(Book(a, k)', t), pushed)
        BY <1>5, <4>1, NotedFewer
      <4>3. /\ pushed \in Seq(Nat)
            /\ Cardinality(InWindow(Book(a, k)', t)) \in Nat
            /\ Cardinality(InWindow(Book(a, k)', t)) <= Len(pushed)
        BY <1>5, <4>2, NotedCount DEF Hits
      <4>4. Len(live) \in Nat
        BY <1>4 DEF Hits
      <4> QED
        BY <1>1, <1>5, <3>1, <4>3, <4>4
    <3> QED
      BY <1>1, <3>2, <3>3, <3>4, <3>5
  <2> QED
    BY <2>1, <2>2
<1> QED
  BY <1>9, <1>10, <1>11

LEMMA InitAInv == FiniteFleet /\ Init => AInv
<1> SUFFICES ASSUME FiniteFleet, Init PROVE AInv
  OBVIOUS
<1>1. FInv
  BY InitFInv
<1>2. log = {} /\ local = [n \in Node |-> NewMemory] /\ now = 0
  BY DEF Init
<1>3. HitsInv
  <2>1. \A n \in Node : local[n].hits = <<>> /\ Recent(n) = {}
    BY <1>2 DEF NewMemory, Recent, Book
  <2>2. Hits(<<>>, now) /\ Noted({}, <<>>)
    <3> DEFINE g == [m \in {} |-> 1]
    <3>1. g \in [{} -> 1 .. Len(<<>>)]
      OBVIOUS
    <3>2. Noted({}, <<>>)
      BY <3>1 DEF Noted
    <3> QED
      BY <1>2, <3>2 DEF Hits
  <2> QED
    BY <1>2, <2>1, <2>2 DEF HitsInv
<1>4. DoneInv
  BY <1>2 DEF DoneInv
<1>5. BookInv
  <2>1. \A a, k, t : InWindow(Book(a, k), t) = {}
    BY <1>2 DEF Book, InWindow
  <2>2. Cardinality({}) = 0 /\ 0 <= FleetRule.limit
    BY FS_EmptySet, RuleNumbers
  <2> QED
    BY <2>1, <2>2 DEF BookInv
<1> QED
  BY <1>1, <1>3, <1>4, <1>5 DEF AInv

LEMMA NextAInv == FiniteFleet /\ AInv /\ [Next]_vars => AInv'
<1> SUFFICES ASSUME FiniteFleet, AInv, [Next]_vars PROVE HitsInv' /\ DoneInv' /\ BookInv'
  BY NextFInv DEF AInv
<1> DEFINE Done(q) == req'[q].pc \in {"admitted", "refused", "lost"}
<1>0. /\ TypeOK' /\ req \in [Request -> RequestState] /\ now \in Nat
      /\ DOMAIN local = Node
      /\ \A m \in log : m.id \in Request
      /\ \A m \in log : m.by # Redis => req[m.id].pc \in {"admitted", "refused", "lost"}
      /\ \A n \in Node : n # Redis /\ n \in Authority
  BY NextFInv, Numbers, FleetAssumption
     DEF AInv, FInv, TypeOK, LogInv, LogEntry, HitsInv, DoneInv, Authority
<1>1. ASSUME log' = log, now' = now, life' = life, local' = local,
             \A m \in log : m.by # Redis => Done(m.id)
      PROVE  HitsInv' /\ DoneInv' /\ BookInv'
  <2>1. HitsInv' /\ BookInv'
    BY <1>0, <1>1, QuietHits, QuietBooks DEF AInv
  <2> QED
    BY <1>1, <2>1 DEF DoneInv
<1>2. ASSUME NEW q \in Request, Exec(q) PROVE HitsInv' /\ DoneInv' /\ BookInv'
  BY <1>0, <1>2, ExecBooks
<1>3. ASSUME NEW q \in Request, Succeed(q) PROVE HitsInv' /\ DoneInv' /\ BookInv'
  <2>1. \A m \in log : m.by # Redis => Done(m.id)
    BY <1>0, <1>3 DEF Succeed, Answer, AtRest
  <2> QED
    BY <1>1, <1>3, <2>1 DEF Succeed
<1>4. ASSUME NEW q \in Request, RedisError(q) PROVE HitsInv' /\ DoneInv' /\ BookInv'
  <2>1. req[q].node \in Node
    BY <1>0, <1>4 DEF RedisError, Outstanding, RequestState
  <2> QED
    BY <1>0, <1>4, <2>1, FallbackBooks DEF RedisError
<1>5. ASSUME NEW q \in Request, NEW n \in Node, Attempt(q, n)
      PROVE  HitsInv' /\ DoneInv' /\ BookInv'
  <2>1. \A m \in log : m.by # Redis => Done(m.id)
    BY <1>0, <1>5 DEF Attempt
  <2> QED
    BY <1>1, <1>5, <2>1 DEF Attempt
<1>6. ASSUME NEW q \in Request, NEW n \in Node, Skip(q, n)
      PROVE  HitsInv' /\ DoneInv' /\ BookInv'
  BY <1>0, <1>6, FallbackBooks DEF Skip
<1>7. ASSUME NEW n \in Node, NodeRestarts(n) PROVE HitsInv' /\ DoneInv' /\ BookInv'
  <2>1. \A m \in log : m.by # Redis => Done(m.id)
    BY <1>0, <1>7 DEF NodeRestarts, AtRest
  <2>2. \A p \in Node : \/ life'[p] = life[p] /\ local'[p] = local[p]
                        \/ life'[p] = life[p] + 1 /\ local'[p] = NewMemory
    BY <1>0, <1>7 DEF NodeRestarts, Fails, AInv, FInv, TypeOK
  <2>3. log' = log /\ now' = now /\ DOMAIN local' = Node
    BY <1>0, <1>7 DEF NodeRestarts
  <2>4. HitsInv' /\ BookInv'
    BY <1>0, <2>2, <2>3, QuietHits, QuietBooks DEF AInv
  <2> QED
    BY <2>1, <2>3, <2>4 DEF DoneInv
<1>8. ASSUME NEW n \in Node, NEW s \in Links, LinkChanges(n, s)
      PROVE  HitsInv' /\ DoneInv' /\ BookInv'
  BY <1>0, <1>1, <1>8 DEF LinkChanges, nodeVars
<1>9. CASE RedisLosesData
  <2>1. /\ log' = log /\ now' = now /\ local' = local /\ req' = req
        /\ \A n \in Node : life'[n] = life[n]
    BY <1>0, <1>9 DEF RedisLosesData, Fails, AInv, FInv, TypeOK, nodeVars
  <2>2. HitsInv' /\ BookInv'
    BY <1>0, <2>1, QuietHits, QuietBooks DEF AInv
  <2> QED
    BY <1>0, <2>1, <2>2 DEF DoneInv
<1>10. CASE Tick
  <2>1. log' = log /\ now' = now + 1 /\ local' = local /\ req' = req /\ life' = life
    BY <1>10 DEF Tick
  <2>2. HitsInv' /\ BookInv'
    BY <1>0, <2>1, QuietHits, QuietBooks DEF AInv
  <2> QED
    BY <1>0, <2>1, <2>2 DEF DoneInv
<1>11. CASE UNCHANGED vars
  BY <1>0, <1>1, <1>11 DEF vars, nodeVars
<1> QED
  BY <1>2, <1>3, <1>4, <1>5, <1>6, <1>7, <1>8, <1>9, <1>10, <1>11 DEF Next

\* Whatever fails, and however requests move between Redis and the nodes' own
\* memories, nobody who decides admits more than the limit in any window before it
\* loses its count (limiter.js:38-66, memoryLimiter.js:59-86, ADR 0004).
THEOREM NobodyOverAdmits == FiniteFleet /\ Spec => []LimitPerAuthority
<1> SUFFICES ASSUME FiniteFleet PROVE Spec => []LimitPerAuthority
  OBVIOUS
<1>1. AInv => LimitPerAuthority
  <2> SUFFICES ASSUME AInv, NEW e \in log, NEW t \in 0 .. MaxTime
               PROVE  Cardinality(InWindow(Book(e.by, e.life), t)) <= FleetRule.limit
    BY DEF LimitPerAuthority, Book
  <2>1. e.by \in Authority /\ e.life \in 0 .. MaxFaults
    BY DEF AInv, FInv, LogInv, LogEntry
  <2> QED
    BY <2>1 DEF AInv, BookInv
<1> QED
  BY InitAInv, NextAInv, <1>1, PTL DEF Spec
==============================================================================
