------------------------------ MODULE ControlProofs ------------------------------
(***************************************************************************)
(* What the worker and the admin may make of a limit, for any base limit,  *)
(* rates, nodes and interleavings: proofs about AdaptiveControl.           *)
(*                                                                         *)
(* ControlInv has the types, and what the trail tells of the suggestion.   *)
(* MovesInv and TrailInv add what the worker holds between its read and    *)
(* its write: that it moves as it says, and that it joins the trail.       *)
(***************************************************************************)
EXTENDS AdaptiveControl, TLAPS

\* The range the policy clamps to, and what may be suggested.
PolicyRange == LimitFloor(BaseLimit) .. LimitCeil(BaseLimit)
Limits == ManualLimits \cup PolicyRange

\* An entry of this key, and one of any key.
Entry == [key : {ThisKey}, action : Action \cup {"manual"}, limit : Limits, from : Nat]
AnyEntry == Entry \cup {OtherEntry}

ControlTypes ==
  /\ suggested \in {None} \cup Limits
  /\ audit \in Seq(AnyEntry) /\ Len(audit) <= AuditMax
  /\ pc \in {"idle", "getting", "setting"} /\ samples \in 0 .. MinSamples
  /\ pc = "getting" => work \in [class : Classification, rate : Nat]
  /\ pc = "setting" => work \in Entry
  /\ view \in [Node -> {None} \cup Limits]
  /\ replies \in [Node -> Seq({None} \cup Limits)]
  /\ calm \in BOOLEAN

\* Where the trail has an entry of this key, one no older tells the suggestion in
\* force, unless that was cleared.
SuggestionTold ==
  \A i \in DOMAIN audit : audit[i].key = ThisKey =>
    \/ \E k \in 1 .. i : audit[k].key = ThisKey /\ audit[k].limit = suggested
    \/ Clears /\ suggested = None

ControlInv == ControlTypes /\ SuggestionTold

-----------------------------------------------------------------------------
(* The policy *)

\* The range is that of positive limits around the base.
LEMMA RangeFacts ==
  /\ LimitFloor(BaseLimit) \in Nat \ {0} /\ LimitCeil(BaseLimit) \in Nat
  /\ LimitFloor(BaseLimit) <= BaseLimit /\ BaseLimit <= LimitCeil(BaseLimit)
  /\ PolicyRange \subseteq Nat \ {0}
  /\ Limits \subseteq Nat \ {0}
<1>1. BaseLimit \in Nat \ {0} /\ ManualLimits \subseteq Nat \ {0}
  BY ControlAssumption
<1>2. LimitFloor(BaseLimit) = (BaseLimit + 3) \div 4 /\ LimitCeil(BaseLimit) = 4 * BaseLimit
  BY <1>1, SMT DEF LimitFloor, LimitCeil, Up
<1>3. /\ LimitFloor(BaseLimit) \in Nat \ {0} /\ LimitCeil(BaseLimit) \in Nat
      /\ LimitFloor(BaseLimit) <= BaseLimit /\ BaseLimit <= LimitCeil(BaseLimit)
  BY <1>1, <1>2, SMT
<1>4. PolicyRange \subseteq Nat \ {0}
  BY <1>3, SMT DEF PolicyRange
<1> QED
  BY <1>1, <1>3, <1>4 DEF Limits

\* Clamping to a range that is not empty ends up in it.
LEMMA ClampFacts ==
  ASSUME NEW v \in Int, NEW lo \in Int, NEW hi \in Int, lo <= hi
  PROVE  /\ Clamp(v, lo, hi) \in lo .. hi
         /\ v <= hi => Clamp(v, lo, hi) >= v
         /\ v >= lo => Clamp(v, lo, hi) <= v
BY SMT DEF Clamp

\* What the classification calls for.
LEMMA WantedFacts ==
  ASSUME NEW cur \in Nat \ {0}, NEW class \in Classification, NEW rate \in Nat
  PROVE  LET w == Wanted(BaseLimit, cur, class, rate)
         IN /\ w.limit \in Nat /\ w.action \in Action
            /\ w.action = "tighten" => w.limit < cur
            /\ w.action = "loosen" => w.limit > cur
            /\ w.action = "relax" => w.limit > cur /\ w.limit <= BaseLimit
<1> DEFINE w == Wanted(BaseLimit, cur, class, rate)
<1>0. BaseLimit \in Nat
  BY ControlAssumption
<1>1. CASE class = "anomalous"
  <2>1. w = [limit |-> cur \div 2, action |-> "tighten"]
    BY <1>1 DEF Wanted
  <2>2. cur \div 2 \in Nat /\ cur \div 2 < cur
    BY SMT
  <2> QED
    BY <2>1, <2>2 DEF Action
<1>2. CASE class = "organic" /\ Pressing(cur, rate)
  <2>1. w = [limit |-> Up(3 * cur, 2), action |-> "loosen"]
    BY <1>2 DEF Wanted
  <2>2. Up(3 * cur, 2) \in Nat /\ Up(3 * cur, 2) > cur
    BY SMT DEF Up
  <2> QED
    BY <2>1, <2>2 DEF Action
<1>3. CASE class = "organic" /\ ~Pressing(cur, rate) /\ Calm(BaseLimit, cur, rate)
  <2>1. w = [limit |-> Relaxed(BaseLimit, cur), action |-> "relax"]
    BY <1>3 DEF Wanted
  <2>2. cur < BaseLimit
    BY <1>3 DEF Calm
  <2>3. /\ Relaxed(BaseLimit, cur) \in Nat /\ Relaxed(BaseLimit, cur) > cur
        /\ Relaxed(BaseLimit, cur) <= BaseLimit
    BY <1>0, <2>2, SMT DEF Relaxed, Up
  <2> QED
    BY <2>1, <2>3 DEF Action
<1>4. CASE /\ class # "anomalous"
           /\ ~(class = "organic" /\ Pressing(cur, rate))
           /\ ~(class = "organic" /\ ~Pressing(cur, rate) /\ Calm(BaseLimit, cur, rate))
  <2>1. w = [limit |-> cur, action |-> "hold"]
    BY <1>4 DEF Wanted
  <2> QED
    BY <2>1 DEF Action
<1> QED
  BY <1>1, <1>2, <1>3, <1>4

\* A suggestion is in the range, whatever the limit was before.
LEMMA SuggestionInRange ==
  ASSUME NEW cur \in Nat \ {0}, NEW class \in Classification, NEW rate \in Nat
  PROVE  LET s == suggestLimit(BaseLimit, cur, class, rate)
         IN s.limit \in PolicyRange /\ s.action \in Action
<1> DEFINE w == Wanted(BaseLimit, cur, class, rate)
           limit == Clamp(w.limit, LimitFloor(BaseLimit), LimitCeil(BaseLimit))
<1>1. w.limit \in Int /\ w.action \in Action
  BY WantedFacts, SMT
<1>2. limit \in PolicyRange
  <2>1. /\ LimitFloor(BaseLimit) \in Int /\ LimitCeil(BaseLimit) \in Int
        /\ LimitFloor(BaseLimit) <= LimitCeil(BaseLimit)
    BY RangeFacts, ControlAssumption, SMT
  <2> QED
    BY <1>1, <2>1, ClampFacts DEF PolicyRange
<1>3. suggestLimit(BaseLimit, cur, class, rate) =
        [limit |-> limit, action |-> IF limit = cur THEN "hold" ELSE w.action]
  BY DEF suggestLimit
<1> QED
  BY <1>1, <1>2, <1>3 DEF Action

-----------------------------------------------------------------------------
(* The trail *)

LEMMA EntryKeys ==
  /\ \A e \in Entry : e.key = ThisKey
  /\ OtherEntry.key # ThisKey /\ OtherEntry.action = "manual"
BY DEF Entry, OtherEntry, ThisKey

\* A new entry of any key comes first and what fits of the others is kept, each one
\* place further down.
LEMMA TrimmedFacts ==
  ASSUME ControlTypes, NEW entry \in AnyEntry, audit' = Trimmed(<<entry>> \o audit)
  PROVE  /\ audit' \in Seq(AnyEntry) /\ Len(audit') <= AuditMax
         /\ 1 \in DOMAIN audit' /\ audit' # <<>> /\ audit'[1] = entry
         /\ \A i \in DOMAIN audit' :
              i \in Nat \ {0} /\ (i # 1 => i - 1 \in DOMAIN audit /\ audit'[i] = audit[i - 1])
<1> DEFINE longer == <<entry>> \o audit
           kept == IF Len(longer) <= AuditMax THEN Len(longer) ELSE AuditMax
<1>1. audit' = SubSeq(longer, 1, kept)
  BY DEF Trimmed
<1>2. audit \in Seq(AnyEntry) /\ Len(audit) \in Nat /\ AuditMax \in Nat \ {0}
  BY ControlAssumption, SMT DEF ControlTypes
<1> HIDE DEF longer
<1>3. /\ longer \in Seq(AnyEntry) /\ Len(longer) = Len(audit) + 1 /\ longer[1] = entry
      /\ \A i \in 2 .. Len(longer) : i - 1 \in DOMAIN audit /\ longer[i] = audit[i - 1]
  BY <1>2, SMT DEF longer
<1>4. kept \in 1 .. Len(longer) /\ kept <= AuditMax
  BY <1>2, <1>3, SMT
<1> HIDE DEF kept
<1>5. /\ audit' \in Seq(AnyEntry) /\ Len(audit') = kept /\ DOMAIN audit' = 1 .. kept
      /\ \A i \in 1 .. kept : audit'[i] = longer[i]
  BY <1>1, <1>3, <1>4, SMT
<1>6. 1 \in DOMAIN audit' /\ audit' # <<>> /\ audit'[1] = entry /\ Len(audit') <= AuditMax
  BY <1>3, <1>4, <1>5, SMT
<1>7. ASSUME NEW i \in DOMAIN audit'
      PROVE  i \in Nat \ {0} /\ (i # 1 => i - 1 \in DOMAIN audit /\ audit'[i] = audit[i - 1])
  <2>1. i \in 1 .. kept /\ audit'[i] = longer[i] /\ i \in Nat \ {0}
    BY <1>4, <1>5, <1>7, SMT
  <2>2. i # 1 => i \in 2 .. Len(longer)
    BY <1>3, <1>4, <2>1, SMT
  <2> QED
    BY <1>3, <2>1, <2>2
<1> QED
  BY <1>5, <1>6, <1>7

\* SuggestionStore.set for this key.
LEMMA StoreSetFacts ==
  ASSUME ControlInv, NEW entry \in Entry, StoreSet(entry)
  PROVE  /\ suggested' = entry.limit /\ suggested' \in {None} \cup Limits
         /\ audit' \in Seq(AnyEntry) /\ Len(audit') <= AuditMax
         /\ SuggestionTold'
         /\ \A i \in DOMAIN audit' : audit'[i] = entry \/ \E j \in DOMAIN audit : audit'[i] = audit[j]
<1>1. /\ suggested' = entry.limit /\ audit' = Trimmed(<<entry>> \o audit)
      /\ entry \in AnyEntry /\ ControlTypes /\ entry.key = ThisKey
  BY EntryKeys DEF StoreSet, AnyEntry, ControlInv
<1>2. /\ audit' \in Seq(AnyEntry) /\ Len(audit') <= AuditMax
      /\ 1 \in DOMAIN audit' /\ audit'[1] = entry
      /\ \A i \in DOMAIN audit' :
           i \in Nat \ {0} /\ (i # 1 => i - 1 \in DOMAIN audit /\ audit'[i] = audit[i - 1])
  BY <1>1, TrimmedFacts
<1>3. suggested' \in {None} \cup Limits
  BY <1>1 DEF Entry
<1>4. ASSUME NEW i \in DOMAIN audit'
      PROVE  \E k \in 1 .. i : audit'[k].key = ThisKey /\ audit'[k].limit = suggested'
  <2>1. 1 \in 1 .. i
    BY <1>2, SMT
  <2> QED
    BY <1>1, <1>2, <2>1
<1>5. SuggestionTold'
  BY <1>4 DEF SuggestionTold
<1> QED
  BY <1>1, <1>2, <1>3, <1>5

LEMMA StoreSetKeeps ==
  ASSUME ControlInv, NEW entry \in Entry, StoreSet(entry),
         pc' \in {"idle", pc}, work' = work \/ pc' = "idle", samples' \in 0 .. MinSamples,
         UNCHANGED <<view, replies, calm>>
  PROVE  ControlInv'
<1>1. /\ suggested' \in {None} \cup Limits
      /\ audit' \in Seq(AnyEntry) /\ Len(audit') <= AuditMax /\ SuggestionTold'
  BY StoreSetFacts
<1>2. ControlTypes'
  BY <1>1 DEF ControlInv, ControlTypes
<1> QED
  BY <1>1, <1>2 DEF ControlInv

\* Another key's entry moves this key's down, or off the trail.
LEMMA OthersKeep == ControlInv /\ OthersWrite => ControlInv'
<1> SUFFICES ASSUME ControlInv, OthersWrite PROVE ControlInv'
  OBVIOUS
<1>1. OtherEntry \in AnyEntry /\ audit' = Trimmed(<<OtherEntry>> \o audit) /\ ControlTypes
  BY DEF AnyEntry, OthersWrite, ControlInv
<1>2. /\ audit' \in Seq(AnyEntry) /\ Len(audit') <= AuditMax
      /\ 1 \in DOMAIN audit' /\ audit'[1] = OtherEntry
      /\ \A i \in DOMAIN audit' :
           i \in Nat \ {0} /\ (i # 1 => i - 1 \in DOMAIN audit /\ audit'[i] = audit[i - 1])
  BY <1>1, TrimmedFacts
<1>3. ControlTypes'
  BY <1>1, <1>2 DEF OthersWrite, workerVars, nodeVars, ControlTypes
<1>4. ASSUME NEW i \in DOMAIN audit', audit'[i].key = ThisKey, ~(Clears /\ suggested = None)
      PROVE  \E k \in 1 .. i : audit'[k].key = ThisKey /\ audit'[k].limit = suggested
  <2>1. i # 1
    BY <1>2, <1>4, EntryKeys
  <2>2. i - 1 \in DOMAIN audit /\ audit'[i] = audit[i - 1] /\ i \in Nat \ {0}
    BY <1>2, <2>1
  <2>3. PICK k \in 1 .. (i - 1) : audit[k].key = ThisKey /\ audit[k].limit = suggested
    BY <1>4, <2>2 DEF ControlInv, SuggestionTold
  <2>4. k + 1 \in 1 .. i /\ k + 1 # 1 /\ (k + 1) - 1 = k
    BY <2>2, SMT
  <2>5. k + 1 \in DOMAIN audit'
    <3>1. DOMAIN audit' = 1 .. Len(audit') /\ Len(audit') \in Nat
      BY <1>2, SMT
    <3> QED
      BY <2>2, <2>4, <3>1, SMT
  <2>6. audit'[k + 1] = audit[(k + 1) - 1]
    BY <1>2, <2>4, <2>5
  <2> QED
    BY <2>3, <2>4, <2>6
<1>5. SuggestionTold'
  BY <1>4 DEF SuggestionTold, OthersWrite
<1> QED
  BY <1>3, <1>5 DEF ControlInv

-----------------------------------------------------------------------------
(* The steps *)

LEMMA ControlInitially == Init => ControlInv
<1> SUFFICES ASSUME Init PROVE ControlInv
  OBVIOUS
<1>1. /\ audit \in Seq(AnyEntry) /\ Len(audit) <= AuditMax /\ 0 \in 0 .. MinSamples
      /\ DOMAIN audit = {}
  BY ControlAssumption, SMT DEF Init
<1>2. replies \in [Node -> Seq({None} \cup Limits)]
  <2>1. <<>> \in Seq({None} \cup Limits)
    OBVIOUS
  <2> QED
    BY <2>1 DEF Init
<1> QED
  BY <1>1, <1>2 DEF Init, ControlInv, ControlTypes, SuggestionTold

\* The limit the worker starts from is one.
LEMMA CurrentLimitIsLimit == ControlInv => CurrentLimit \in Limits
<1>1. BaseLimit \in PolicyRange
  BY RangeFacts, ControlAssumption, SMT DEF PolicyRange
<1> QED
  BY <1>1 DEF CurrentLimit, ControlInv, ControlTypes, Limits

LEMMA ObserveKeeps == ControlInv /\ ObserveSome => ControlInv'
<1> SUFFICES ASSUME ControlInv, NEW rate \in (IF calm THEN {CalmRate} ELSE Rates),
                    NEW class \in Classes, Observe(class, rate)
             PROVE  ControlInv'
  BY DEF ObserveSome
<1> USE DEF ControlInv
<1>1. rate \in Nat /\ class \in Classification
  BY ControlAssumption DEF Classes, Classification
<1>2. samples' \in 0 .. MinSamples
  BY ControlAssumption, SMT DEF Observe, ControlTypes
<1>3. ControlTypes'
  BY <1>1, <1>2 DEF Observe, ControlTypes, nodeVars
<1> QED
  BY <1>3 DEF Observe, SuggestionTold

\* What Get decides is an entry the store may be given.
LEMMA GetFacts ==
  ASSUME ControlInv, Get
  PROVE  /\ UNCHANGED <<suggested, audit, samples, view, replies, calm>>
         /\ LET s == suggestLimit(BaseLimit, CurrentLimit, work.class, work.rate)
            IN \/ pc' = "idle"
               \/ /\ pc' = "setting" /\ s.action # "hold"
                  /\ work' = [key |-> ThisKey, action |-> s.action, limit |-> s.limit,
                              from |-> CurrentLimit]
                  /\ work' \in Entry
<1> DEFINE s == suggestLimit(BaseLimit, CurrentLimit, work.class, work.rate)
<1>1. CurrentLimit \in Nat \ {0}
  BY CurrentLimitIsLimit, RangeFacts
<1>2. work.class \in Classification /\ work.rate \in Nat
  BY DEF Get, ControlInv, ControlTypes
<1>3. s.limit \in PolicyRange /\ s.action \in Action
  BY <1>1, <1>2, SuggestionInRange
<1> HIDE DEF s
<1>4. CASE s.action = "hold"
  BY <1>4 DEF Get, nodeVars, s
<1>5. CASE s.action # "hold"
  <2>1. /\ pc' = "setting"
        /\ work' = [key |-> ThisKey, action |-> s.action, limit |-> s.limit,
                              from |-> CurrentLimit]
    BY <1>5 DEF Get, s
  <2>2. work' \in Entry
    BY <1>1, <1>3, <2>1 DEF Entry, Limits
  <2> QED
    BY <1>5, <2>1, <2>2 DEF Get, nodeVars, s
<1> QED
  BY <1>4, <1>5

LEMMA GetKeeps == ControlInv /\ Get => ControlInv'
<1> SUFFICES ASSUME ControlInv, Get PROVE ControlInv'
  OBVIOUS
<1>1. ControlTypes'
  BY GetFacts DEF ControlInv, ControlTypes
<1> QED
  BY <1>1, GetFacts DEF ControlInv, SuggestionTold

\* The writes: by the worker, once more or less, and by the admin.
LEMMA WritesKeep ==
  ASSUME ControlInv, Set \/ ResendSet \/ StepFails \/ \E limit \in ManualLimits : AdminPut(limit)
  PROVE  ControlInv'
<1>1. samples \in 0 .. MinSamples /\ (pc = "setting" => work \in Entry)
  BY DEF ControlInv, ControlTypes
<1>2. CASE Set
  BY <1>1, <1>2, StoreSetKeeps DEF Set, nodeVars
<1>5. CASE ResendSet
  BY <1>1, <1>5, StoreSetKeeps DEF ResendSet, workerVars, nodeVars
<1>3. CASE StepFails
  <2>1. CASE UNCHANGED <<suggested, audit>>
    BY <1>3, <2>1 DEF StepFails, nodeVars, ControlInv, ControlTypes, SuggestionTold
  <2>2. CASE pc = "setting" /\ StoreSet(work)
    BY <1>1, <1>3, <2>2, StoreSetKeeps DEF StepFails, nodeVars
  <2> QED
    BY <1>3, <2>1, <2>2 DEF StepFails
<1>4. ASSUME NEW limit \in ManualLimits, AdminPut(limit) PROVE ControlInv'
  <2> DEFINE entry == [key |-> ThisKey, action |-> "manual", limit |-> limit, from |-> None]
  <2>1. entry \in Entry
    BY DEF Entry, Limits, None
  <2> QED
    BY <1>1, <1>4, <2>1, StoreSetKeeps DEF AdminPut, workerVars, nodeVars
<1> QED
  BY <1>2, <1>3, <1>4, <1>5

\* The caches only ever hold what was suggested.
LEMMA CachesKeep ==
  ASSUME ControlInv, NEW n \in Node, Refresh(n) \/ Refreshed(n) \/ RefreshFails(n)
  PROVE  ControlInv'
<1> DEFINE S == {None} \cup Limits
<1>1. replies[n] \in Seq(S) /\ suggested \in S
  BY DEF ControlInv, ControlTypes
<1> HIDE DEF S
<1>2. /\ Append(replies[n], suggested) \in Seq(S)
      /\ replies[n] # <<>> => Head(replies[n]) \in S /\ Tail(replies[n]) \in Seq(S)
  BY <1>1, SMT
<1>3. view' \in [Node -> S] /\ replies' \in [Node -> Seq(S)]
  <2>1. view \in [Node -> S] /\ replies \in [Node -> Seq(S)]
    BY DEF ControlInv, ControlTypes, S
  <2>2. CASE Refresh(n)
    BY <1>2, <2>1, <2>2 DEF Refresh
  <2>3. CASE Refreshed(n)
    BY <1>2, <2>1, <2>3 DEF Refreshed
  <2>4. CASE RefreshFails(n)
    BY <1>2, <2>1, <2>4 DEF RefreshFails
  <2> QED
    BY <2>2, <2>3, <2>4
<1>4. UNCHANGED <<suggested, audit, pc, samples, work, calm>>
  BY DEF Refresh, Refreshed, RefreshFails, workerVars
<1> QED
  BY <1>3, <1>4 DEF ControlInv, ControlTypes, SuggestionTold, S

LEMMA ControlStep == ControlInv /\ [Next]_vars => ControlInv'
<1> SUFFICES ASSUME ControlInv, [Next]_vars PROVE ControlInv'
  OBVIOUS
<1>1. CASE AdminClear
  BY <1>1 DEF AdminClear, workerVars, nodeVars, ControlInv, ControlTypes, SuggestionTold
<1>2. CASE Restart
  <2>1. 0 \in 0 .. MinSamples
    BY ControlAssumption, SMT
  <2> QED
    BY <1>2, <2>1 DEF Restart, nodeVars, ControlInv, ControlTypes, SuggestionTold
<1>3. CASE TrafficChanges
  BY <1>3 DEF TrafficChanges, workerVars, nodeVars, ControlInv, ControlTypes, SuggestionTold
<1>4. CASE UNCHANGED vars
  BY <1>4 DEF vars, workerVars, nodeVars, ControlInv, ControlTypes, SuggestionTold
<1> QED
  BY <1>1, <1>2, <1>3, <1>4, ObserveKeeps, GetKeeps, WritesKeep, OthersKeep, CachesKeep DEF Next

LEMMA ControlInvariant == Spec => []ControlInv
BY ControlInitially, ControlStep, PTL DEF Spec

-----------------------------------------------------------------------------
(* Every move goes the way its entry says *)

MoveTold(e) ==
  /\ e.action = "tighten" =>
       \/ e.limit < e.from
       \/ e.from < LimitFloor(BaseLimit) /\ e.limit = LimitFloor(BaseLimit)
  /\ e.action = "loosen" =>
       \/ e.limit > e.from
       \/ e.from > LimitCeil(BaseLimit) /\ e.limit = LimitCeil(BaseLimit)
  /\ e.action = "relax" => e.from < e.limit /\ e.limit <= BaseLimit

MovesInv == ControlInv /\ MovesAsSaid /\ (pc = "setting" => MoveTold(work))

\* The clamp turns a move around only by bringing a limit from outside the range to
\* its nearer end.
LEMMA SuggestionMoves ==
  ASSUME NEW cur \in Nat \ {0}, NEW class \in Classification, NEW rate \in Nat,
         suggestLimit(BaseLimit, cur, class, rate).action # "hold"
  PROVE  LET s == suggestLimit(BaseLimit, cur, class, rate)
         IN MoveTold([key |-> ThisKey, action |-> s.action, limit |-> s.limit, from |-> cur])
<1> DEFINE w == Wanted(BaseLimit, cur, class, rate)
           lo == LimitFloor(BaseLimit)
           hi == LimitCeil(BaseLimit)
           limit == Clamp(w.limit, lo, hi)
<1>1. lo \in Nat /\ hi \in Nat /\ BaseLimit \in lo .. hi
  BY RangeFacts, ControlAssumption, SMT
<1>2. /\ w.limit \in Nat
      /\ w.action = "tighten" => w.limit < cur
      /\ w.action = "loosen" => w.limit > cur
      /\ w.action = "relax" => w.limit > cur /\ w.limit <= BaseLimit
  BY WantedFacts
<1>3. suggestLimit(BaseLimit, cur, class, rate) =
        [limit |-> limit, action |-> IF limit = cur THEN "hold" ELSE w.action]
  BY DEF suggestLimit
<1>4. limit # cur
  BY <1>3
<1> HIDE DEF w, lo, hi
<1>5. /\ w.limit < cur => limit < cur \/ (cur < lo /\ limit = lo)
      /\ w.limit > cur => limit > cur \/ (cur > hi /\ limit = hi)
      /\ w.limit > cur /\ w.limit <= BaseLimit => limit > cur /\ limit <= BaseLimit
  BY <1>1, <1>2, <1>4, SMT DEF Clamp
<1> HIDE DEF limit
<1>6. /\ w.action = "tighten" => limit < cur \/ (cur < lo /\ limit = lo)
      /\ w.action = "loosen" => limit > cur \/ (cur > hi /\ limit = hi)
      /\ w.action = "relax" => cur < limit /\ limit <= BaseLimit
  <2>1. w.action = "relax" => limit > cur /\ limit <= BaseLimit
    BY <1>2, <1>5
  <2>2. limit \in Int
    BY <1>1, <1>2, SMT DEF Clamp, limit
  <2> QED
    BY <1>2, <1>5, <2>1, <2>2, SMT
<1> QED
  BY <1>3, <1>4, <1>6 DEF MoveTold, lo, hi

LEMMA MovesStep ==
  ASSUME MovesInv, [Next]_vars
  PROVE  MovesInv'
<1>1. ControlInv'
  BY ControlStep DEF MovesInv
<1>2. MovesAsSaid <=> \A i \in DOMAIN audit : MoveTold(audit[i])
  BY DEF MovesAsSaid, MoveTold
<1>3. MovesAsSaid' <=> \A i \in DOMAIN audit' : MoveTold(audit'[i])
  BY DEF MovesAsSaid, MoveTold
<1>4. ASSUME NEW entry \in Entry, StoreSet(entry), MoveTold(entry) PROVE MovesAsSaid'
  BY <1>2, <1>3, <1>4, StoreSetFacts DEF MovesInv
<1>5. UNCHANGED audit => MovesAsSaid'
  BY <1>2, <1>3 DEF MovesInv
<1>6. pc = "setting" => work \in Entry
  BY DEF MovesInv, ControlInv, ControlTypes
<1>7. CASE Get
  <2> DEFINE s == suggestLimit(BaseLimit, CurrentLimit, work.class, work.rate)
  <2>1. CASE pc' = "idle"
    BY <1>1, <1>5, <1>7, <2>1, GetFacts DEF MovesInv
  <2>2. CASE /\ s.action # "hold"
             /\ work' = [key |-> ThisKey, action |-> s.action, limit |-> s.limit,
                              from |-> CurrentLimit]
    <3>1. CurrentLimit \in Nat \ {0}
      BY CurrentLimitIsLimit, RangeFacts DEF MovesInv
    <3>2. work.class \in Classification /\ work.rate \in Nat
      BY <1>7 DEF Get, MovesInv, ControlInv, ControlTypes
    <3>3. MoveTold(work')
      BY <2>2, <3>1, <3>2, SuggestionMoves
    <3>4. MoveTold(work)'
      BY <3>3 DEF MoveTold
    <3> QED
      BY <1>1, <1>5, <1>7, <3>4, GetFacts DEF MovesInv
  <2> QED
    BY <1>7, <2>1, <2>2, GetFacts DEF MovesInv
<1>15. CASE ResendSet
  BY <1>1, <1>4, <1>6, <1>15 DEF ResendSet, workerVars, MovesInv, MoveTold
<1>16. CASE OthersWrite
  <2>1. OtherEntry \in AnyEntry /\ audit' = Trimmed(<<OtherEntry>> \o audit) /\ ControlTypes
    BY <1>16 DEF AnyEntry, OthersWrite, MovesInv, ControlInv
  <2>2. /\ audit'[1] = OtherEntry
        /\ \A i \in DOMAIN audit' : i # 1 => i - 1 \in DOMAIN audit /\ audit'[i] = audit[i - 1]
    BY <2>1, TrimmedFacts
  <2>3. MoveTold(OtherEntry)
    BY EntryKeys DEF MoveTold
  <2>4. MovesAsSaid'
    BY <1>2, <1>3, <2>2, <2>3 DEF MovesInv
  <2> QED
    BY <1>1, <1>16, <2>4 DEF OthersWrite, workerVars, MovesInv, MoveTold
<1>8. CASE Set
  <2>1. MovesAsSaid'
    BY <1>4, <1>6, <1>8 DEF Set, MovesInv
  <2> QED
    BY <1>1, <1>8, <2>1 DEF Set, MovesInv
<1>9. CASE StepFails
  <2>1. CASE UNCHANGED <<suggested, audit>>
    BY <1>1, <1>5, <1>9, <2>1 DEF StepFails, MovesInv
  <2>2. CASE pc = "setting" /\ StoreSet(work)
    BY <1>1, <1>4, <1>6, <1>9, <2>2 DEF StepFails, MovesInv
  <2> QED
    BY <1>9, <2>1, <2>2 DEF StepFails
<1>10. ASSUME NEW limit \in ManualLimits, AdminPut(limit) PROVE MovesInv'
  <2> DEFINE entry == [key |-> ThisKey, action |-> "manual", limit |-> limit, from |-> None]
  <2>1. entry \in Entry /\ MoveTold(entry)
    BY DEF Entry, Limits, None, MoveTold
  <2>2. MovesAsSaid' /\ pc' = pc /\ work' = work
    BY <1>4, <1>10, <2>1 DEF AdminPut, workerVars
  <2> QED
    BY <1>1, <2>2 DEF MovesInv, MoveTold
\* Nothing else writes the trail, or gives the worker something to write.
<1>11. CASE UNCHANGED audit /\ (pc' = "setting" => pc = "setting" /\ work' = work)
  BY <1>1, <1>5, <1>11 DEF MovesInv, MoveTold
<1>12. CASE AdminClear \/ Restart \/ TrafficChanges \/ UNCHANGED vars
  BY <1>11, <1>12 DEF AdminClear, Restart, TrafficChanges, vars, workerVars
<1>13. ASSUME ObserveSome PROVE MovesInv'
  BY <1>11, <1>13 DEF ObserveSome, Observe
<1>14. ASSUME NEW n \in Node, Refresh(n) \/ Refreshed(n) \/ RefreshFails(n) PROVE MovesInv'
  BY <1>11, <1>14 DEF Refresh, Refreshed, RefreshFails, workerVars
<1> QED
  BY <1>7, <1>8, <1>9, <1>10, <1>12, <1>13, <1>14, <1>15, <1>16 DEF Next

-----------------------------------------------------------------------------
(* The story the trail tells *)

\* Trail t is trail u with an entry put before it and perhaps some cut off.
Puts(u, t, n) ==
  /\ n \in Nat /\ DOMAIN t = 1 .. n
  /\ \A i \in 2 .. n : i - 1 \in DOMAIN u /\ t[i] = u[i - 1]

\* What joined still does, one place further down.
LEMMA JoinsShift ==
  ASSUME NEW u, NEW t, NEW n, Puts(u, t, n), NEW x, NEW i \in Nat, Joins(u, x, i)
  PROVE  Joins(t, x, i + 1)
<1> SUFFICES ASSUME NEW j \in DOMAIN t, LastByWorker(t, i + 1, j)
             PROVE  \/ t[j] = x
                    \/ \E k \in ((i + 1) + 1) .. j : t[k].key = ThisKey /\ t[k].limit = x.from
                    \/ Clears /\ x.from = BaseLimit
  BY DEF Joins
<1>1. n \in Nat /\ j \in 1 .. n /\ j > i + 1
  BY DEF Puts, LastByWorker
<1>2. j - 1 \in DOMAIN u /\ t[j] = u[j - 1] /\ j - 1 > i
  <2>1. j \in 2 .. n /\ j - 1 > i
    BY <1>1, SMT
  <2> QED
    BY <2>1 DEF Puts
<1>3. ASSUME NEW k \in (i + 1) .. (j - 1)
      PROVE  k + 1 \in 2 .. n => t[k + 1] = u[k]
  <2>1. (k + 1) - 1 = k
    BY <1>1, SMT
  <2> QED
    BY <2>1 DEF Puts
<1>4. LastByWorker(u, i, j - 1)
  <2>1. ASSUME NEW k \in (i + 1) .. ((j - 1) - 1) PROVE ~ByWorker(u[k])
    <3>1. k + 1 \in ((i + 1) + 1) .. (j - 1) /\ k + 1 \in 2 .. n /\ k \in (i + 1) .. (j - 1)
      BY <1>1, SMT
    <3>2. ~ByWorker(t[k + 1])
      BY <3>1 DEF LastByWorker
    <3> QED
      BY <1>3, <3>1, <3>2
  <2>2. ByWorker(u[j - 1])
    BY <1>2 DEF LastByWorker
  <2> QED
    BY <1>2, <2>1, <2>2 DEF LastByWorker
<1>5. \/ u[j - 1] = x
      \/ \E k \in (i + 1) .. (j - 1) : u[k].key = ThisKey /\ u[k].limit = x.from
      \/ Clears /\ x.from = BaseLimit
  BY <1>2, <1>4 DEF Joins
<1>6. ASSUME NEW k \in (i + 1) .. (j - 1), u[k].key = ThisKey, u[k].limit = x.from
      PROVE  \E l \in ((i + 1) + 1) .. j : t[l].key = ThisKey /\ t[l].limit = x.from
  <2>1. k + 1 \in ((i + 1) + 1) .. j /\ k + 1 \in 2 .. n
    BY <1>1, SMT
  <2>2. t[k + 1] = u[k]
    BY <1>3, <2>1
  <2> QED
    BY <1>6, <2>1, <2>2
<1> QED
  BY <1>2, <1>5, <1>6

\* An entry that is not the worker's does not come between, and the worker's own next
\* one is the same entry, sent again.
LEMMA JoinsFromTop ==
  ASSUME NEW t, NEW n \in Nat, DOMAIN t = 1 .. n, NEW x,
         \/ ~ByWorker(t[1]) /\ Joins(t, x, 1)
         \/ ByWorker(t[1]) /\ t[1] = x
  PROVE  Joins(t, x, 0)
<1> SUFFICES ASSUME NEW j \in DOMAIN t, LastByWorker(t, 0, j)
             PROVE  \/ t[j] = x
                    \/ \E k \in (0 + 1) .. j : t[k].key = ThisKey /\ t[k].limit = x.from
                    \/ Clears /\ x.from = BaseLimit
  BY DEF Joins
<1>1. j \in 1 .. n /\ ByWorker(t[j]) /\ \A k \in 1 .. (j - 1) : ~ByWorker(t[k])
  BY DEF LastByWorker
<1>2. CASE ByWorker(t[1]) /\ t[1] = x
  <2>1. j = 1
    <3>1. j # 1 => 1 \in 1 .. (j - 1)
      BY <1>1, SMT
    <3> QED
      BY <1>1, <1>2, <3>1
  <2> QED
    BY <1>2, <2>1
<1>3. CASE ~ByWorker(t[1]) /\ Joins(t, x, 1)
  <2>1. j > 1 /\ (1 + 1) .. (j - 1) \subseteq 1 .. (j - 1) /\ (1 + 1) .. j \subseteq (0 + 1) .. j
    <3>1. j # 1
      BY <1>1, <1>3
    <3> QED
      BY <1>1, <3>1, SMT
  <2>2. LastByWorker(t, 1, j)
    BY <1>1, <2>1 DEF LastByWorker
  <2>3. \/ t[j] = x
        \/ \E k \in (1 + 1) .. j : t[k].key = ThisKey /\ t[k].limit = x.from
        \/ Clears /\ x.from = BaseLimit
    BY <1>3, <2>2 DEF Joins
  <2> QED
    BY <2>1, <2>3
<1> QED
  BY <1>2, <1>3

TrailInv ==
  /\ ControlInv /\ TrailJoins
  /\ pc = "setting" => ByWorker(work) /\ Joins(audit, work, 0)

\* Whatever is put first, the story goes on, if the new entry belongs to it.
LEMMA TrailPuts ==
  ASSUME TrailInv, NEW entry \in AnyEntry, audit' = Trimmed(<<entry>> \o audit),
         ByWorker(entry) => Joins(audit, entry, 0)
  PROVE  /\ TrailJoins'
         /\ audit'[1] = entry /\ Len(audit') \in Nat /\ Puts(audit, audit', Len(audit'))
<1>1. ControlTypes /\ TrailJoins
  BY DEF TrailInv, ControlInv
<1>2. /\ audit' \in Seq(AnyEntry) /\ audit'[1] = entry
      /\ \A i \in DOMAIN audit' :
           i \in Nat \ {0} /\ (i # 1 => i - 1 \in DOMAIN audit /\ audit'[i] = audit[i - 1])
  BY <1>1, TrimmedFacts
<1>3. Len(audit') \in Nat /\ DOMAIN audit' = 1 .. Len(audit')
  BY <1>2, SMT
<1>4. Puts(audit, audit', Len(audit'))
  <2>1. \A i \in 2 .. Len(audit') : i \in 1 .. Len(audit') /\ i # 1
    BY <1>3, SMT
  <2> QED
    BY <1>2, <1>3, <2>1 DEF Puts
<1>5. ASSUME NEW i \in DOMAIN audit', ByWorker(audit'[i]) PROVE Joins(audit', audit'[i], i)
  <2>1. CASE i = 1
    <3>1. Joins(audit', entry, 0 + 1)
      BY <1>2, <1>4, <1>5, <2>1, JoinsShift
    <3> QED
      BY <1>2, <2>1, <3>1
  <2>2. CASE i # 1
    <3>1. /\ i - 1 \in DOMAIN audit /\ audit'[i] = audit[i - 1]
          /\ i - 1 \in Nat /\ (i - 1) + 1 = i
      BY <1>2, <2>2, SMT
    <3>2. Joins(audit, audit[i - 1], i - 1)
      BY <1>1, <1>5, <3>1 DEF TrailJoins
    <3>3. Joins(audit', audit[i - 1], (i - 1) + 1)
      BY <1>4, <3>1, <3>2, JoinsShift
    <3> QED
      BY <3>1, <3>3
  <2> QED
    BY <2>1, <2>2
<1>6. TrailJoins'
  BY <1>5 DEF TrailJoins
<1> QED
  BY <1>2, <1>3, <1>4, <1>6

\* What the worker decides joins what the trail tells.
LEMMA DecisionJoins ==
  ASSUME ControlInv, NEW x, x.from = CurrentLimit
  PROVE  Joins(audit, x, 0)
<1> SUFFICES ASSUME NEW j \in DOMAIN audit, LastByWorker(audit, 0, j)
             PROVE  \/ \E k \in (0 + 1) .. j : audit[k].key = ThisKey /\ audit[k].limit = x.from
                    \/ Clears /\ x.from = BaseLimit
  BY DEF Joins
<1>1. audit[j].key = ThisKey
  BY DEF LastByWorker, ByWorker
<1>2. CASE Clears /\ suggested = None
  BY <1>2 DEF CurrentLimit
<1>3. CASE ~(Clears /\ suggested = None)
  <2>1. PICK k \in 1 .. j : audit[k].key = ThisKey /\ audit[k].limit = suggested
    BY <1>1, <1>3 DEF ControlInv, SuggestionTold
  <2>2. k \in DOMAIN audit /\ audit[k] \in AnyEntry
    <3>1. audit \in Seq(AnyEntry)
      BY DEF ControlInv, ControlTypes
    <3> QED
      BY <3>1, SMT
  <2>3. suggested # None
    BY <2>1, <2>2, EntryKeys, RangeFacts DEF AnyEntry, Entry, None
  <2> QED
    BY <2>1, <2>3 DEF CurrentLimit
<1> QED
  BY <1>2, <1>3

LEMMA TrailStep == TrailInv /\ [Next]_vars => TrailInv'
<1> SUFFICES ASSUME TrailInv, [Next]_vars PROVE TrailInv'
  OBVIOUS
<1>1. ControlInv' /\ ControlInv /\ TrailJoins
  BY ControlStep DEF TrailInv
<1>2. pc = "setting" => work \in Entry /\ work \in AnyEntry /\ ByWorker(work) /\ Joins(audit, work, 0)
  BY DEF TrailInv, ControlInv, ControlTypes, AnyEntry
\* A write by somebody else leaves what the worker is about to write joined.
<1>3. ASSUME NEW entry \in AnyEntry, audit' = Trimmed(<<entry>> \o audit), ~ByWorker(entry),
             UNCHANGED <<pc, work>>
      PROVE  TrailInv'
  <2>1. /\ TrailJoins' /\ audit'[1] = entry /\ Len(audit') \in Nat
        /\ Puts(audit, audit', Len(audit'))
    BY <1>3, TrailPuts
  <2>2. ASSUME pc' = "setting" PROVE ByWorker(work') /\ Joins(audit', work', 0)
    <3>1. Joins(audit', work, 0 + 1)
      BY <1>2, <1>3, <2>1, <2>2, JoinsShift
    <3>2. Joins(audit', work, 0)
      BY <1>3, <2>1, <3>1, JoinsFromTop DEF Puts
    <3> QED
      BY <1>2, <1>3, <2>2, <3>2
  <2> QED
    BY <1>1, <2>1, <2>2 DEF TrailInv
\* The worker's write.
<1>4. ASSUME pc = "setting", StoreSet(work)
      PROVE  TrailJoins' /\ Joins(audit', work, 0)
  <2>1. /\ TrailJoins' /\ audit'[1] = work /\ Len(audit') \in Nat
        /\ Puts(audit, audit', Len(audit'))
    BY <1>2, <1>4, TrailPuts DEF StoreSet
  <2> QED
    BY <1>2, <1>4, <2>1, JoinsFromTop DEF Puts
<1>5. CASE Set
  BY <1>1, <1>4, <1>5 DEF Set, TrailInv
<1>6. CASE ResendSet
  BY <1>1, <1>2, <1>4, <1>6 DEF ResendSet, workerVars, TrailInv
<1>7. CASE UNCHANGED audit /\ (pc' = "setting" => pc = "setting" /\ work' = work)
  BY <1>1, <1>7 DEF TrailInv, TrailJoins
<1>8. CASE StepFails
  <2>1. CASE UNCHANGED <<suggested, audit>>
    BY <1>7, <1>8, <2>1 DEF StepFails
  <2>2. CASE pc = "setting" /\ StoreSet(work)
    BY <1>1, <1>4, <1>8, <2>2 DEF StepFails, TrailInv
  <2> QED
    BY <1>8, <2>1, <2>2 DEF StepFails
<1>9. ASSUME NEW limit \in ManualLimits, AdminPut(limit) PROVE TrailInv'
  <2> DEFINE entry == [key |-> ThisKey, action |-> "manual", limit |-> limit, from |-> None]
  <2>1. entry \in AnyEntry /\ ~ByWorker(entry)
    BY DEF AnyEntry, Entry, Limits, None, ByWorker
  <2>2. audit' = Trimmed(<<entry>> \o audit) /\ UNCHANGED <<pc, work>>
    BY <1>9 DEF AdminPut, StoreSet, workerVars
  <2> HIDE DEF entry
  <2> QED
    BY <1>3, <2>1, <2>2
<1>10. CASE OthersWrite
  <2>1. OtherEntry \in AnyEntry /\ ~ByWorker(OtherEntry)
    BY EntryKeys DEF AnyEntry, ByWorker
  <2>2. audit' = Trimmed(<<OtherEntry>> \o audit) /\ UNCHANGED <<pc, work>>
    BY <1>10 DEF OthersWrite, workerVars
  <2> QED
    BY <1>3, <2>1, <2>2
<1>11. CASE Get
  <2> DEFINE s == suggestLimit(BaseLimit, CurrentLimit, work.class, work.rate)
  <2>1. CASE pc' = "idle"
    BY <1>7, <1>11, <2>1, GetFacts DEF TrailInv
  <2>2. CASE /\ s.action # "hold"
             /\ work' = [key |-> ThisKey, action |-> s.action, limit |-> s.limit,
                         from |-> CurrentLimit]
    <3>1. /\ CurrentLimit \in Nat \ {0}
          /\ work.class \in Classification /\ work.rate \in Nat
      BY <1>1, <1>11, CurrentLimitIsLimit, RangeFacts DEF Get, ControlInv, ControlTypes
    <3>2. s.action \in Action
      BY <3>1, SuggestionInRange
    <3> HIDE DEF s
    <3>3. ByWorker(work') /\ work'.from = CurrentLimit
      BY <2>2, <3>2 DEF ByWorker, Action
    <3>4. Joins(audit, work', 0)
      BY <1>1, <3>3, DecisionJoins
    <3>5. UNCHANGED audit
      BY <1>1, <1>11, GetFacts
    <3> QED
      BY <1>1, <3>3, <3>4, <3>5 DEF TrailInv, TrailJoins
  <2> QED
    BY <1>1, <1>11, <2>1, <2>2, GetFacts
<1>12. CASE AdminClear \/ Restart \/ TrafficChanges \/ UNCHANGED vars
  BY <1>7, <1>12 DEF AdminClear, Restart, TrafficChanges, vars, workerVars
<1>13. ASSUME ObserveSome PROVE TrailInv'
  BY <1>7, <1>13 DEF ObserveSome, Observe
<1>14. ASSUME NEW m \in Node, Refresh(m) \/ Refreshed(m) \/ RefreshFails(m) PROVE TrailInv'
  BY <1>7, <1>14 DEF Refresh, Refreshed, RefreshFails, workerVars
<1> QED
  BY <1>5, <1>6, <1>8, <1>9, <1>10, <1>11, <1>12, <1>13, <1>14 DEF Next

-----------------------------------------------------------------------------
(* Theorems *)

\* Whatever is written by whom, a suggestion is a limit RuleSchema accepts
\* (rule.js:11-17, policy.js:24-59).
THEOREM ControlTypesHold == Spec => []TypeOK
<1>1. ControlInv => TypeOK
  <2> SUFFICES ASSUME ControlInv PROVE TypeOK
    OBVIOUS
  <2>1. \A i \in DOMAIN audit : audit[i].limit \in Nat \ {0}
    <3>1. \A i \in DOMAIN audit : audit[i] \in AnyEntry
      BY DEF ControlInv, ControlTypes
    <3> QED
      <4>1. \A e \in Entry : e.limit \in Nat \ {0}
        BY RangeFacts DEF Entry
      <4>2. OtherEntry.limit \in Nat \ {0}
        BY ControlAssumption DEF OtherEntry
      <4> QED
        BY <3>1, <4>1, <4>2 DEF AnyEntry
  <2>2. pc = "setting" => work.limit \in Nat \ {0}
    BY RangeFacts DEF ControlInv, ControlTypes, Entry
  <2>3. {None} \cup Limits \subseteq Nat
    BY RangeFacts DEF None
  <2>4. suggested \in Nat /\ view \in [Node -> Nat]
    BY <2>3 DEF ControlInv, ControlTypes
  <2> QED
    BY <2>1, <2>2, <2>4 DEF ControlInv, ControlTypes, TypeOK
<1> QED
  BY <1>1, ControlInvariant, PTL

\* As far as the shared trail reaches back, the worker's entries for a key make one
\* unbroken story: each moved the limit from where the trail says it was put since the
\* one before, whatever other keys and admins write, and whatever is cut off, sent
\* again, lost or restarted in between (suggestionStore.js:2-4, 15-23, worker.js:84-105).
THEOREM TrailAlwaysJoins == Spec => []TrailJoins
<1>1. Init => TrailInv
  <2>1. Init => TrailJoins /\ pc = "idle"
    BY DEF Init, TrailJoins
  <2> QED
    BY <2>1, ControlInitially DEF TrailInv
<1>2. TrailInv => TrailJoins
  BY DEF TrailInv
<1> QED
  BY <1>1, <1>2, TrailStep, PTL DEF Spec

\* Where every route has the worker's base limit, a limit in force is an admin's or
\* within a factor four of the route's own, however stale the cache (README.md:183-185).
THEOREM InForceStaysBounded ==
  ASSUME RouteLimits \subseteq {BaseLimit}
  PROVE  Spec => []InForceBounded
<1>1. ControlInv => InForceBounded
  <2> SUFFICES ASSUME ControlInv, NEW n \in Node
               PROVE  EffectiveLimit(n, BaseLimit) \in ManualLimits \cup PolicyRange
    BY DEF InForceBounded, PolicyRange
  <2>1. BaseLimit \in PolicyRange
    BY RangeFacts, ControlAssumption, SMT DEF PolicyRange
  <2>2. view[n] \in {None} \cup Limits
    BY DEF ControlInv, ControlTypes
  <2> QED
    BY <2>1, <2>2 DEF EffectiveLimit, Limits
<1> QED
  BY <1>1, ControlInvariant, PTL

\* Every entry of the worker moves the limit the way it says, whatever limits the
\* admin puts and whatever comes between the worker's read and its write; only a limit
\* from outside the policy's range goes to the nearer end of it (policy.js:38-59).
THEOREM MovesAlwaysAsSaid == Spec => []MovesAsSaid
<1>1. Init => MovesInv
  <2>1. Init => MovesAsSaid /\ pc = "idle"
    BY DEF Init, MovesAsSaid
  <2> QED
    BY <2>1, ControlInitially DEF MovesInv
<1>2. MovesInv /\ [Next]_vars => MovesInv'
  BY MovesStep
<1>3. MovesInv => MovesAsSaid
  BY DEF MovesInv
<1> QED
  BY <1>1, <1>2, <1>3, PTL DEF Spec

===============================================================================
