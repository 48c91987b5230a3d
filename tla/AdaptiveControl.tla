--------------------------- MODULE AdaptiveControl ---------------------------
(***************************************************************************)
(* From a rate to a limit in force, for one key: processBucket of the      *)
(* worker (worker.js) with the detector's classification, the suggestions  *)
(* and the audit trail in Redis (suggestionStore.js), the admin's writes   *)
(* (admin/routes.js) and the cache each node serves them from              *)
(* (overrides.js).                                                         *)
(*                                                                         *)
(* The worker reads the suggestion, decides, and writes, awaiting Redis in *)
(* between; an admin may write meanwhile.  A write is one MULTI.           *)
(*                                                                         *)
(* The audit trail is one capped list for all keys.  Of the other keys     *)
(* there is only what they do to it: at any time an entry of theirs comes  *)
(* first and may push an entry of this key out.  Their fields of the hash  *)
(* do not meet this key's, and what their entries say of their limits is   *)
(* left out.                                                               *)
(*                                                                         *)
(* Of the detector only the control is here: how many samples it has, and  *)
(* that a key is cold until there are enough.  Which of organic and        *)
(* anomalous it answers depends on numbers and is left open.  Calm traffic *)
(* does not exceed the key's own baseline, and a rate that does not is     *)
(* organic (DetectorProofs, AtMostMeanIsOrganic).                          *)
(***************************************************************************)
EXTENDS Policy, Sequences

CONSTANTS
  BaseLimit,       \* config.defaultRule.limit, the worker's anchor
  RouteLimits,     \* the limits of the rules of the routes that use this key
  Node,            \* the application's nodes
  MinSamples,      \* observations before the detector trusts its baseline
  AuditMax,        \* entries the audit trail keeps, of all keys together
  ManualLimits,    \* the limits an admin may put
  Clears,          \* TRUE: an admin may delete the override
  Faults,          \* TRUE: awaits fail and the worker's process stops
  CalmRate,        \* the rate of calm traffic
  Rates,           \* bound: the rates observed otherwise
  MaxReplies       \* bound: refreshes a node has outstanding

ASSUME ControlAssumption ==
  /\ BaseLimit \in Nat \ {0}
  /\ RouteLimits \subseteq Nat \ {0}
  /\ ManualLimits \subseteq Nat \ {0}
  /\ MinSamples \in Nat /\ AuditMax \in Nat \ {0} /\ MaxReplies \in Nat
  /\ Clears \in BOOLEAN /\ Faults \in BOOLEAN
  /\ CalmRate \in Nat \ {0} /\ Rates \subseteq Nat \ {0}

VARIABLES
  suggested,       \* the key's field in the hash, or None
  audit,           \* the audit trail of all keys, newest first
  pc,              \* where the worker's processBucket is
  samples,         \* observations behind the detector's baseline, up to MinSamples
  work,            \* what processBucket holds between its awaits
  view,            \* view[n]: the override node n serves, or None
  replies,         \* replies[n]: what n's outstanding refreshes will bring, in order
  calm             \* whether the key's traffic is calm, and nobody and nothing
                   \* interferes: no admin, no failure

workerVars == <<pc, samples, work>>
nodeVars == <<view, replies>>
vars == <<suggested, audit, workerVars, nodeVars, calm>>

None == 0
NoWork == <<>>

-----------------------------------------------------------------------------
(* Suggestions in Redis *)

Init ==
  /\ suggested = None /\ audit = <<>>
  /\ pc = "idle" /\ samples = 0 /\ work = NoWork
  /\ view = [n \in Node |-> None] /\ replies = [n \in Node |-> <<>>]
  /\ calm = FALSE

\* Whose entry it is, what it says was done, the new limit and, for the worker's,
\* the limit it was moved from.
ThisKey == "this"
OtherEntry == [key |-> "others", action |-> "manual", limit |-> BaseLimit, from |-> None]

\* LTRIM of the list that all keys share.
Trimmed(entries) == SubSeq(entries, 1, IF Len(entries) <= AuditMax THEN Len(entries)
                                       ELSE AuditMax)

\* SuggestionStore.set: HSET, LPUSH and LTRIM in one MULTI.
StoreSet(entry) ==
  /\ suggested' = entry.limit
  /\ audit' = Trimmed(<<entry>> \o audit)

\* The same for another key, by the worker or an admin.
OthersWrite ==
  /\ audit' = Trimmed(<<OtherEntry>> \o audit)
  /\ UNCHANGED <<suggested, workerVars, nodeVars, calm>>

\* PUT /limits/:key
AdminPut(limit) ==
  /\ ~calm
  /\ StoreSet([key |-> ThisKey, action |-> "manual", limit |-> limit, from |-> None])
  /\ UNCHANGED <<workerVars, nodeVars, calm>>

\* DELETE /limits/:key
AdminClear ==
  /\ Clears /\ ~calm
  /\ suggested' = None
  /\ UNCHANGED <<audit, workerVars, nodeVars, calm>>

-----------------------------------------------------------------------------
(* The worker *)

\* What the detector may answer to a rate.
Classes ==
  IF samples < MinSamples THEN {"cold_start"}
  ELSE IF calm THEN {"organic"} ELSE {"organic", "anomalous"}

\* processBucket observes a rate and asks for the current suggestion.  An
\* anomalous rate does not count as a sample.
Observe(class, rate) ==
  /\ pc = "idle"
  /\ pc' = "getting"
  /\ work' = [class |-> class, rate |-> rate]
  /\ samples' = IF class = "anomalous" \/ samples = MinSamples THEN samples
                ELSE samples + 1
  /\ UNCHANGED <<suggested, audit, nodeVars, calm>>

ObserveSome ==
  \E rate \in IF calm THEN {CalmRate} ELSE Rates :
    \E class \in Classes : Observe(class, rate)

\* The limit the worker takes to be in effect.
CurrentLimit == IF suggested = None THEN BaseLimit ELSE suggested

\* Mutant of Get: takes the base limit for the one in effect.
FromBase ==
  /\ pc = "getting"
  /\ LET s == suggestLimit(BaseLimit, BaseLimit, work.class, work.rate)
     IN IF s.action = "hold"
        THEN pc' = "idle" /\ work' = NoWork
        ELSE /\ pc' = "setting"
             /\ work' = [key |-> ThisKey, action |-> s.action, limit |-> s.limit,
                          from |-> BaseLimit]
  /\ UNCHANGED <<suggested, audit, samples, nodeVars, calm>>

\* The suggestion has been read: hold, or write what the policy says.
Get ==
  /\ pc = "getting"
  /\ LET s == suggestLimit(BaseLimit, CurrentLimit, work.class, work.rate)
     IN IF s.action = "hold"
        THEN pc' = "idle" /\ work' = NoWork
        ELSE /\ pc' = "setting"
             /\ work' = [key |-> ThisKey, action |-> s.action, limit |-> s.limit,
                          from |-> CurrentLimit]
  /\ UNCHANGED <<suggested, audit, samples, nodeVars, calm>>

Set ==
  /\ pc = "setting"
  /\ StoreSet(work)
  /\ pc' = "idle" /\ work' = NoWork
  /\ UNCHANGED <<samples, nodeVars, calm>>

\* The write has run but its reply is lost: ioredis sends the whole MULTI again.
ResendSet ==
  /\ Faults /\ ~calm /\ pc = "setting"
  /\ StoreSet(work)
  /\ UNCHANGED <<workerVars, nodeVars, calm>>

\* An await throws and the tick is abandoned; a write may have run all the same.
StepFails ==
  /\ Faults /\ ~calm /\ pc # "idle"
  /\ pc' = "idle" /\ work' = NoWork
  /\ \/ UNCHANGED <<suggested, audit>>
     \/ pc = "setting" /\ StoreSet(work)
  /\ UNCHANGED <<samples, nodeVars, calm>>

\* The process stops and is started again: the detector's state is gone.
Restart ==
  /\ Faults /\ ~calm
  /\ pc' = "idle" /\ work' = NoWork /\ samples' = 0
  /\ UNCHANGED <<suggested, audit, nodeVars, calm>>

-----------------------------------------------------------------------------
(* The nodes' caches *)

\* Mutant of Refresh: loads the suggestions once and never again.
RefreshOnce(n) ==
  /\ Len(replies[n]) < MaxReplies
  /\ view[n] = None
  /\ replies' = [replies EXCEPT ![n] = Append(@, suggested)]
  /\ UNCHANGED <<suggested, audit, workerVars, view, calm>>

\* Redis executes the HGETALL of a refresh.  The timer does not wait for the
\* previous one.
Refresh(n) ==
  /\ Len(replies[n]) < MaxReplies
  /\ replies' = [replies EXCEPT ![n] = Append(@, suggested)]
  /\ UNCHANGED <<suggested, audit, workerVars, view, calm>>

\* Its reply replaces the cache.
Refreshed(n) ==
  /\ replies[n] # <<>>
  /\ view' = [view EXCEPT ![n] = Head(replies[n])]
  /\ replies' = [replies EXCEPT ![n] = Tail(@)]
  /\ UNCHANGED <<suggested, audit, workerVars, calm>>

\* Or it fails and the cache stays as it is.
RefreshFails(n) ==
  /\ Faults /\ ~calm /\ replies[n] # <<>>
  /\ replies' = [replies EXCEPT ![n] = Tail(@)]
  /\ UNCHANGED <<suggested, audit, workerVars, view, calm>>

\* effectiveRule: the limit node n applies to a rule with limit `limit`.
EffectiveLimit(n, limit) == IF view[n] = None THEN limit ELSE view[n]

-----------------------------------------------------------------------------

TrafficChanges ==
  /\ calm' = ~calm
  /\ UNCHANGED <<suggested, audit, workerVars, nodeVars>>

Next ==
  \/ \E limit \in ManualLimits : AdminPut(limit)
  \/ AdminClear \/ OthersWrite
  \/ ObserveSome \/ Get \/ Set \/ ResendSet \/ StepFails \/ Restart
  \/ \E n \in Node : Refresh(n) \/ Refreshed(n) \/ RefreshFails(n)
  \/ TrafficChanges

Spec == Init /\ [][Next]_vars

\* The key keeps sending, Redis answers, and the timers go off.
FairSpec ==
  /\ Spec
  /\ WF_vars(ObserveSome) /\ WF_vars(Get) /\ WF_vars(Set)
  /\ \A n \in Node : WF_vars(Refresh(n)) /\ WF_vars(Refreshed(n))

-----------------------------------------------------------------------------
(* Properties *)

\* Types: a suggestion, wherever it has got to, is a limit RuleSchema accepts; one
\* it refused would make every check of the key throw (rule.js:11-17).
TypeOK ==
  /\ suggested \in Nat
  /\ \A i \in DOMAIN audit : audit[i].limit \in Nat \ {0}
  /\ Len(audit) <= AuditMax
  /\ pc \in {"idle", "getting", "setting"} /\ samples \in 0 .. MinSamples
  /\ pc = "setting" => work.limit \in Nat \ {0}
  /\ view \in [Node -> Nat]

\* "Clamped to [base x 0.25, base x 4]" (README.md:183-185): the limit a node
\* enforces on a route, however stale its cache, is within a factor four of the
\* route's own, unless an admin put it.
InForceBounded ==
  \A n \in Node, limit \in RouteLimits :
    \/ EffectiveLimit(n, limit) \in ManualLimits
    \/ EffectiveLimit(n, limit) \in LimitFloor(limit) .. LimitCeil(limit)

\* The worker's entries for this key.
ByWorker(e) == e.key = ThisKey /\ e.action # "manual"

\* Place j of a trail has the worker's newest entry that is older than place i.
LastByWorker(trail, i, j) ==
  j > i /\ ByWorker(trail[j]) /\ \A k \in (i + 1) .. (j - 1) : ~ByWorker(trail[k])

\* What an entry at place i, or a coming one at place 0, has to do with the worker's
\* entry before it, as long as the trail has that one: the entry is the same, sent
\* again; or the limit it moved away from was written since, by that entry or an
\* admin's; or it was the base, to which a clear had led.
Joins(trail, e, i) ==
  \A j \in DOMAIN trail : LastByWorker(trail, i, j) =>
    \/ trail[j] = e
    \/ \E k \in (i + 1) .. j : trail[k].key = ThisKey /\ trail[k].limit = e.from
    \/ Clears /\ e.from = BaseLimit

\* "Why did this key's limit move?" (suggestionStore.js:2-4): the worker's entries make
\* one unbroken story, whatever other keys and admins write in between, whatever is
\* cut off, sent again or lost with the worker: each moved the limit from where the
\* trail says it was put since the worker's entry before.
TrailJoins == \A i \in DOMAIN audit : ByWorker(audit[i]) => Joins(audit, audit[i], i)

\* "So you can always answer 'why did this key's limit move?'"
\* (suggestionStore.js:3-4): a suggestion in force has its entry in the trail.
AlwaysAnswered ==
  suggested # None =>
    \E i \in DOMAIN audit : audit[i].key = ThisKey /\ audit[i].limit = suggested

\* "An audit trail of every change" (suggestionStore.js:2-3): a step that changes this
\* key's suggestion puts an entry of this key on the trail.
EveryChangeAudited ==
  [][suggested' # suggested => audit' # <<>> /\ audit'[1].key = ThisKey
                               /\ audit'[1].limit = suggested']_vars

\* What an entry of the worker says the limit moved from is what it moved from.
AuditedFromIsTrue ==
  [][Set => audit'[1].from = CurrentLimit]_vars

\* Spikes "tighten" the limit, pressure "loosens" it, calm traffic "relaxes it back
\* toward the configured base" (README.md:181-182), for any limit an admin may have put
\* (routes.js:44): every entry of the worker moves the limit the way it says, except
\* that a limit from outside the policy's range is brought to the nearer end of it;
\* and calm traffic never lifts it above the base.
MovesAsSaid ==
  \A i \in DOMAIN audit :
    LET e == audit[i]
    IN /\ e.action = "tighten" =>
            \/ e.limit < e.from
            \/ e.from < LimitFloor(BaseLimit) /\ e.limit = LimitFloor(BaseLimit)
       /\ e.action = "loosen" =>
            \/ e.limit > e.from
            \/ e.from > LimitCeil(BaseLimit) /\ e.limit = LimitCeil(BaseLimit)
       /\ e.action = "relax" => e.from < e.limit /\ e.limit <= BaseLimit

\* Spikes "tighten" the limit (README.md:181), wherever it was.
SpikesTighten ==
  \A i \in DOMAIN audit : audit[i].action = "tighten" => audit[i].limit < audit[i].from

\* The gap the policy leaves below the base: calm traffic uses half of the limit, so it
\* is not relaxed, and does not press against it, so it is not loosened.
InTheGap == 2 * CalmRate >= CurrentLimit /\ 10 * CalmRate < 9 * CurrentLimit

\* Calm traffic lifts a lowered limit back to the base, whatever the admin, the
\* failures and the traffic did before, and rests below it in that gap at most
\* (policy.js:44-52).
CalmLifts == <>[]calm => <>[](CurrentLimit >= BaseLimit \/ InTheGap)

\* Calm traffic relaxes the limit "back toward the configured base" (README.md:182),
\* from above as well.
CalmReturnsToBase == <>[]calm => <>[](CurrentLimit = BaseLimit)

\* A suggestion takes effect at every node (overrides.js:7-8): once calm traffic
\* lets the suggestion settle, each node comes to serve it and stays with it.
TakesEffect == <>[]calm => \A n \in Node : <>[](view[n] = suggested)

=============================================================================
