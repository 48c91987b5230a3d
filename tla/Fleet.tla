--------------------------------- MODULE Fleet ---------------------------------
(***************************************************************************)
(* Limiter.check (core/limiter.js) on every node of a fleet, for one key:  *)
(* the breaker, the scripts at one Redis, and the fallback of the fail     *)
(* mode, which on each node counts in that node's own memory.              *)
(*                                                                         *)
(* Redis is external.  A node may lose it (its client gives up on what is  *)
(* outstanding), or find it silent (nothing comes back); Redis may lose    *)
(* its data and run on, the scripts being loaded again (scripts.js).  A    *)
(* node may be restarted.  Which command of a node reaches Redis first,    *)
(* and whose reply is handled first, is left open; RedisLimiter adds the   *)
(* commands that are sent again.                                           *)
(***************************************************************************)
EXTENDS RedisScripts, CircuitBreaker

CONSTANTS
  Node, Redis,     \* who may admit a request
  Request,         \* the requests that carry the key
  FleetRule,       \* the rule of their route
  FailModes,       \* the values config.failMode may have
  Links,           \* what a node may find of Redis: "up", "down" or "silent"
  MaxTime,         \* bound: the clock stops here
  MaxFaults        \* bound: restarts of nodes and losses of Redis's data

ASSUME FleetAssumption ==
  /\ Redis \notin Node
  /\ FleetRule \in RuleSchema /\ FleetRule.strategy # "token_bucket"
  /\ TokenUnit \in Nat \ {0} /\ TokenUnit % FleetRule.windowMs = 0
  /\ FailModes \subseteq {"open", "closed"}
  /\ Links \subseteq {"up", "down", "silent"}
  /\ MaxTime \in Nat /\ MaxFaults \in Nat

Memory == INSTANCE MemoryLimiter

VARIABLES
  now,             \* every clock
  failMode,
  link,            \* link[n]: what node n finds of Redis
  tb, sw,          \* what Redis holds for the key
  breaker, local,  \* per node: its breaker, and what its MemoryLimiter holds
  req,             \* the state of every request
  \* History variables: nothing in the program reads them.
  life,            \* life[a]: how often a lost what it had counted
  sinceDown,       \* sinceDown[n]: ms since Redis was down for n, up to CooldownMs
  log              \* every admission: by whom, in which life, for which request, when

redisVars == <<tb, sw>>
nodeVars == <<breaker, local>>
vars == <<now, failMode, link, redisVars, nodeVars, req, life, sinceDown, log>>

Authority == Node \cup {Redis}

NewMemory == [b |-> Memory!NoEntry, hits |-> <<>>]

\* A request whose command is out, and the ones that are with no node.
Awaiting(pc, n) == [pc |-> pc, node |-> n]
AtRest(pc) == [pc |-> pc]

Outstanding(q) == req[q].pc \in {"sent", "allowed", "denied"}

-----------------------------------------------------------------------------

Init ==
  /\ now = 0 /\ failMode \in FailModes
  /\ link = [n \in Node |-> "up"]
  /\ tb = NoBucket /\ sw = NoWindow
  /\ breaker = [n \in Node |-> NewBreaker]
  /\ local = [n \in Node |-> NewMemory]
  /\ req = [q \in Request |-> AtRest("new")]
  /\ life = [a \in Authority |-> 0]
  /\ sinceDown = [n \in Node |-> CooldownMs]
  /\ log = {}

Admission(a, q) ==
  [by : {a}, life : {life[a]}, id : {q}, n : 1 .. FleetRule.cost, at : {now}]

Answer(q, allowed) ==
  req' = [req EXCEPT ![q] = AtRest(IF allowed THEN "admitted" ELSE "refused")]

\* Mutant of _fallback: what was admitted is not noted.
ForgetsHits(q, n) ==
  LET run == Memory!check(local[n].b, local[n].hits, FleetRule, now)
  IN /\ Answer(q, failMode = "open" /\ run.reply.allowed)
     /\ log' = IF failMode = "open" /\ run.reply.allowed
               THEN log \cup Admission(n, q) ELSE log
     /\ UNCHANGED local

\* Mutant of _fallback: the fail mode is not looked at.
FailsOpen(q, n) ==
  LET run == Memory!check(local[n].b, local[n].hits, FleetRule, now)
  IN /\ local' = [local EXCEPT ![n] = [b |-> run.b, hits |-> run.hits]]
     /\ Answer(q, run.reply.allowed)
     /\ log' = IF run.reply.allowed THEN log \cup Admission(n, q) ELSE log

\* Node n decides by itself, as the fail mode says.
_fallback(q, n) ==
  \/ /\ failMode = "closed"
     /\ Answer(q, FALSE)
     /\ UNCHANGED <<local, log>>
  \/ LET run == Memory!check(local[n].b, local[n].hits, FleetRule, now)
     IN /\ failMode = "open"
        /\ local' = [local EXCEPT ![n] = [b |-> run.b, hits |-> run.hits]]
        /\ Answer(q, run.reply.allowed)
        /\ log' = IF run.reply.allowed THEN log \cup Admission(n, q) ELSE log

\* A request reaches node n and the breaker lets it try Redis.
Attempt(q, n) ==
  /\ req[q].pc = "new"
  /\ AllowsAttempt(breaker[n])
  /\ breaker' = [breaker EXCEPT ![n] = AfterAllowsAttempt(@)]
  /\ req' = [req EXCEPT ![q] = Awaiting("sent", n)]
  /\ UNCHANGED <<now, failMode, link, redisVars, local, life, sinceDown, log>>

\* Or it does not, and the node decides at once.
Skip(q, n) ==
  /\ req[q].pc = "new"
  /\ ~AllowsAttempt(breaker[n])
  /\ _fallback(q, n)
  /\ UNCHANGED <<now, failMode, link, redisVars, breaker, life, sinceDown>>

\* Redis executes the command.
Exec(q) ==
  LET run == RunScript(tb, sw, FleetRule, q, now)
  IN /\ req[q].pc = "sent" /\ link[req[q].node] = "up"
     /\ tb' = run.tb /\ sw' = run.sw
     /\ req' = [req EXCEPT ![q].pc = IF run.reply.allowed THEN "allowed" ELSE "denied"]
     /\ log' = IF run.reply.allowed THEN log \cup Admission(Redis, q) ELSE log
     /\ UNCHANGED <<now, failMode, link, nodeVars, life, sinceDown>>

\* The reply is handled: onSuccess.
Succeed(q) ==
  LET n == req[q].node
  IN /\ req[q].pc \in {"allowed", "denied"} /\ link[n] = "up"
     /\ breaker' = [breaker EXCEPT ![n] = OnSuccess(@)]
     /\ Answer(q, req[q].pc = "allowed")
     /\ UNCHANGED <<now, failMode, link, redisVars, local, life, sinceDown, log>>

\* The client gave up on the command, executed or not: onFailure, and the node decides.
RedisError(q) ==
  LET n == req[q].node
  IN /\ Outstanding(q) /\ link[n] = "down"
     /\ breaker' = [breaker EXCEPT ![n] = OnFailure(@)]
     /\ _fallback(q, n)
     /\ UNCHANGED <<now, failMode, link, redisVars, life, sinceDown>>

-----------------------------------------------------------------------------
(* What goes wrong *)

LinkChanges(n, state) ==
  /\ link[n] # state
  /\ link' = [link EXCEPT ![n] = state]
  /\ sinceDown' = [sinceDown EXCEPT ![n] = IF state = "down" THEN 0 ELSE @]
  /\ UNCHANGED <<now, failMode, redisVars, nodeVars, req, life, log>>

\* Sum of life: the faults so far.
Faults == Cardinality({p \in Authority \X (1 .. MaxFaults) : p[2] <= life[p[1]]})

Fails(a) ==
  /\ Faults < MaxFaults
  /\ life' = [life EXCEPT ![a] = @ + 1]

\* Redis is flushed, or restarted without its data.
RedisLosesData ==
  /\ Fails(Redis)
  /\ tb' = NoBucket /\ sw' = NoWindow
  /\ UNCHANGED <<now, failMode, link, nodeVars, req, sinceDown, log>>

\* Node n's process is restarted; what it was asked is never answered.
NodeRestarts(n) ==
  /\ Fails(n)
  /\ breaker' = [breaker EXCEPT ![n] = NewBreaker]
  /\ local' = [local EXCEPT ![n] = NewMemory]
  /\ req' = [q \in Request |-> IF Outstanding(q) /\ req[q].node = n
                               THEN AtRest("lost") ELSE req[q]]
  /\ UNCHANGED <<now, failMode, link, redisVars, sinceDown, log>>

\* A millisecond passes.
Tick ==
  /\ now < MaxTime
  /\ now' = now + 1
  /\ breaker' = [n \in Node |-> Waits(breaker[n])]
  /\ sinceDown' = [n \in Node |-> IF link[n] = "down" THEN 0
                                  ELSE UpTo(CooldownMs, sinceDown[n] + 1)]
  /\ UNCHANGED <<failMode, link, redisVars, local, req, life, log>>

Next ==
  \/ \E q \in Request : Exec(q) \/ Succeed(q) \/ RedisError(q)
  \/ \E q \in Request, n \in Node : Attempt(q, n) \/ Skip(q, n)
  \/ \E n \in Node : NodeRestarts(n) \/ \E s \in Links : LinkChanges(n, s)
  \/ RedisLosesData \/ Tick

Spec == Init /\ [][Next]_vars

\* Redis executes what reaches it, and the event loop handles what the client reports.
FairSpec ==
  /\ Spec
  /\ \A q \in Request : WF_vars(Exec(q)) /\ WF_vars(Succeed(q)) /\ WF_vars(RedisError(q))

-----------------------------------------------------------------------------
(* Properties *)

RequestState ==
  [pc : {"new", "admitted", "refused", "lost"}]
    \cup [pc : {"sent", "allowed", "denied"}, node : Node]

\* Types of the nodes, the requests and the history (limiter.js:25-31, 52-68).
TypeOK ==
  /\ now \in 0 .. MaxTime /\ failMode \in FailModes
  /\ link \in [Node -> {"up"} \cup Links]
  /\ breaker \in [Node -> Breaker]
  /\ req \in [Request -> RequestState]
  /\ life \in [Authority -> 0 .. MaxFaults]
  /\ sinceDown \in [Node -> 0 .. CooldownMs]

InWindow(entries, t) ==
  {m \in entries : t - FleetRule.windowMs < m.at /\ m.at <= t}

\* "Limits are enforced per node, not globally" while Redis is down (ADR 0004:37),
\* and by Redis for all otherwise: whatever fails and in whatever order requests move
\* between the two, nobody who decides admits more than the limit in any window, past
\* or present, before it loses its count.
LimitPerAuthority ==
  \A e \in log : \A t \in 0 .. MaxTime :
    Cardinality(InWindow({m \in log : m.by = e.by /\ m.life = e.life}, t)) <= FleetRule.limit

\* Requests that got through to the application.
Admitted == {q \in Request : req[q].pc = "admitted"}

\* Failing closed protects the backend (ADR 0004:23-24): no outage lets more through
\* than the one limit for all nodes; only data that Redis loses starts it anew.
ClosedIsGlobal ==
  failMode = "closed" => \A t \in 0 .. MaxTime :
    Cardinality(InWindow({m \in log : m.id \in Admitted}, t))
      <= FleetRule.limit * (1 + life[Redis])

\* The fallback is "only active during a Redis outage" (docs/architecture.md:41-43):
\* a node decides by itself only while Redis is down for it, or less than cooldownMs
\* after it was.
DegradedOnlyInOutage ==
  [][\A q \in Request, n \in Node :
       Skip(q, n) \/ (RedisError(q) /\ req[q].node = n) => sinceDown[n] < CooldownMs]_vars

\* The breaker is there so that "a dead/slow Redis doesn't add latency to every
\* request" (circuitBreaker.js:5-6): a request is decided even if Redis goes silent.
EveryRequestDecided ==
  \A q \in Request : req[q].pc = "sent" ~> req[q].pc \in {"admitted", "refused", "lost"}

===============================================================================
