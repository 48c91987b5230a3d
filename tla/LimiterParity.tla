--------------------------- MODULE LimiterParity ---------------------------
(***************************************************************************)
(* The Lua scripts and the in-process limiter, asked the same questions at *)
(* the same instants.  docs/adr/0003-atomic-lua.md: the scripts "must be   *)
(* kept in sync with the in-memory reference implementation".              *)
(***************************************************************************)
EXTENDS RedisScripts

CONSTANTS
  Rules,         \* the rules presented for the key
  MaxCalls,      \* bound: calls made
  MaxTime        \* bound: the clock stops here

ASSUME ParityAssumption ==
  /\ Rules \subseteq RuleSchema
  /\ TokenUnit \in Nat \ {0}
  /\ \A r \in Rules : TokenUnit % r.windowMs = 0
  /\ MaxCalls \in Nat /\ MaxTime \in Nat

Memory == INSTANCE MemoryLimiter

VARIABLES
  now,           \* both clocks
  calls,         \* calls made so far: the id of the next one
  tb, sw,        \* what Redis holds
  b, hits        \* what the process holds

vars == <<now, calls, tb, sw, b, hits>>

Init ==
  /\ now = 0 /\ calls = 0
  /\ tb = NoBucket /\ sw = NoWindow
  /\ b = Memory!NoEntry /\ hits = <<>>

\* The same call to both.
Check(r) ==
  LET lua == RunScript(tb, sw, r, calls, now)
      js  == Memory!check(b, hits, r, now)
  IN /\ calls < MaxCalls
     /\ calls' = calls + 1
     /\ tb' = lua.tb /\ sw' = lua.sw
     /\ b' = js.b /\ hits' = js.hits
     /\ UNCHANGED now

Tick ==
  /\ now < MaxTime
  /\ now' = now + 1
  /\ UNCHANGED <<calls, tb, sw, b, hits>>

Next == Tick \/ \E r \in Rules : Check(r)

Spec == Init /\ [][Next]_vars

-----------------------------------------------------------------------------

\* Whatever came before, the two would give any next call the same reply, down
\* to retryAfterMs and resetMs, although Redis trims by score, expires whole keys
\* and counts set members while the process filters an array it keeps for ever
\* (docs/adr/0003-atomic-lua.md:31-32, memoryLimiter.js:4-9).
RepliesAgree ==
  \A r \in Rules :
    RunScript(tb, sw, r, calls, now).reply = Memory!check(b, hits, r, now).reply

=============================================================================
