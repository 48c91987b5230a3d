---------------------------- MODULE PipelineProofs ----------------------------
(***************************************************************************)
(* EventPipeline keeps its types, no entry of the stream adds to two rates *)
(* and none is lost but by trimming or a fault, for every batch size,      *)
(* stream length and number of faults.                                     *)
(*                                                                         *)
(* CountedOnce is not inductive: a read could bring back what is already   *)
(* counted.  BehindTheCursor says that it does not: whatever the worker    *)
(* ever counted was delivered, and what it reads next was not.  That       *)
(* nothing slips through needs ClosedWhileDeciding: a tick that flushes    *)
(* overwrites what was left to process, so nothing may be left.            *)
(***************************************************************************)
EXTENDS EventPipeline, FiniteSetTheorems, WellFoundedInduction, TLAPS

USE DEF redisVars, tickVars, aggVars

-----------------------------------------------------------------------------
(* The cursor of the group *)

\* A set of numbers up to n that is not empty has a largest.
LEMMA LargestExists ==
  ASSUME NEW n \in Nat, NEW S \in SUBSET (1 .. n), S # {}
  PROVE  \E i \in S : \A j \in S : j <= i
<1> DEFINE T == {k \in Nat : n - k \in S}
<1>1. T \subseteq Nat /\ T # {}
  <2>1. PICK i \in S : TRUE
    OBVIOUS
  <2>2. n - i \in Nat /\ n - (n - i) = i
    OBVIOUS
  <2> QED
    BY <2>1, <2>2
<1> HIDE DEF T
<1>2. PICK k \in T : \A l \in T : ~(<<l, k>> \in OpToRel(<, Nat))
  BY <1>1, NatLessThanWellFounded, WFMin, Zenon
<1>3. \A l \in T : ~(l < k)
  <2> SUFFICES ASSUME NEW l \in T, l < k PROVE FALSE
    OBVIOUS
  <2>1. <<l, k>> \in OpToRel(<, Nat)
    BY <1>1 DEF OpToRel
  <2> QED
    BY <1>2, <2>1
<1>4. n - k \in S /\ k \in Nat
  BY <1>1 DEF T
<1>5. \A j \in S : j <= n - k
  <2> SUFFICES ASSUME NEW j \in S PROVE j <= n - k
    OBVIOUS
  <2>1. j \in 1 .. n /\ n - j \in Nat /\ n - (n - j) = j
    OBVIOUS
  <2>2. n - j \in T
    BY <2>1 DEF T
  <2>3. ~(n - j < k)
    BY <1>3, <2>2
  <2> QED
    BY <1>4, <2>1, <2>3
<1> QED
  BY <1>4, <1>5

\* What is read next was not delivered before, and the cursor moves past it.
LEMMA ReadsAhead ==
  ASSUME TypeOK, NextEntries # {}, MarkDelivered(NextEntries)
  PROVE  /\ NextEntries \in SUBSET (1 .. delivered')
         /\ \A i \in NextEntries : i > delivered
         /\ delivered' \in 0 .. Len(stream) /\ delivered' >= delivered
         /\ pel' = pel \cup NextEntries
<1>1. /\ delivered \in 0 .. Len(stream) /\ Len(stream) \in Nat
      /\ DOMAIN stream = 1 .. Len(stream)
  BY DEF TypeOK
<1>2. NextEntries \in SUBSET (1 .. Len(stream)) /\ \A i \in NextEntries : i > delivered
  BY <1>1 DEF NextEntries
<1>3. delivered' \in NextEntries /\ \A j \in NextEntries : j <= delivered'
  <2>1. \E i \in NextEntries : \A j \in NextEntries : j <= i
    BY <1>1, <1>2, LargestExists
  <2> QED
    BY <2>1 DEF MarkDelivered
<1>4. pel' = pel \cup NextEntries
  BY DEF MarkDelivered
<1>5. delivered' \in 1 .. Len(stream) /\ delivered' > delivered
  BY <1>2, <1>3
<1>6. \A i \in NextEntries : i \in 1 .. delivered'
  BY <1>1, <1>2, <1>3, <1>5
<1> QED
  BY <1>1, <1>2, <1>4, <1>5, <1>6

-----------------------------------------------------------------------------
(* Types *)

\* No more is in flight than was emitted.
InFlightInv == emitted \in 0 .. MaxEvents /\ \A b \in Buckets : inFlight[b] <= emitted

LEMMA InitTypeOK == Init => TypeOK /\ InFlightInv
<1> SUFFICES ASSUME Init PROVE TypeOK /\ InFlightInv
  OBVIOUS
<1> QED
  BY PipelineAssumption DEF Init, TypeOK, InFlightInv, Buckets, NoGroup, HasGroup

\* What the end of a tick leaves.
LEMMA ObserveType ==
  ASSUME TypeOK, NEW entries, ObserveNext(entries)
  PROVE  /\ pc' \in {"reading", "deciding"} /\ batch' = {}
         /\ startedAt' \in {startedAt, clock}
BY DEF ObserveNext, BeginTick

LEMMA AppendType ==
  ASSUME TypeOK, NEW b \in Buckets, Append1(b)
  PROVE  /\ stream' \in Seq(Buckets) /\ Len(stream') = Len(stream) + 1
         /\ trimmed' \in 0 .. Len(stream')
<1>1. /\ stream \in Seq(Buckets) /\ Len(stream) \in Nat /\ trimmed \in 0 .. Len(stream)
      /\ stream' = Append(stream, b)
  BY DEF TypeOK, Append1
<1>2. stream' \in Seq(Buckets) /\ Len(stream') = Len(stream) + 1
  BY <1>1
<1>3. trimmed' \in trimmed .. Len(stream')
  BY DEF Append1
<1> QED
  BY <1>1, <1>2, <1>3

\* The types that a step of the producers leaves alone or widens.
LEMMA AppendTypeOK ==
  ASSUME TypeOK, NEW b \in Buckets, Append1(b), inFlight' \in [Buckets -> 0 .. MaxEvents]
  PROVE  TypeOK'
<1>1. /\ stream' \in Seq(Buckets) /\ Len(stream') = Len(stream) + 1
      /\ trimmed' \in 0 .. Len(stream')
  BY AppendType
<1>2. /\ Len(stream) \in Nat /\ delivered \in 0 .. Len(stream)
      /\ UNCHANGED <<clock, group, delivered, pel, tickVars, aggVars>>
  BY DEF TypeOK, Append1
<1>3. delivered' \in 0 .. Len(stream')
  BY <1>1, <1>2
<1> QED
  BY <1>1, <1>2, <1>3 DEF TypeOK, HasGroup

LEMMA NextTypeOK == TypeOK /\ InFlightInv /\ [Next]_vars => TypeOK' /\ InFlightInv'
<1> SUFFICES ASSUME TypeOK, InFlightInv, [Next]_vars PROVE TypeOK' /\ InFlightInv'
  OBVIOUS
<1> USE PipelineAssumption
<1>0. /\ inFlight \in [Buckets -> 0 .. MaxEvents] /\ clock \in Buckets
      /\ emitted \in 0 .. MaxEvents /\ \A b \in Buckets : inFlight[b] <= emitted
  BY DEF TypeOK, InFlightInv
<1>1. CASE Emit
  <2>1. inFlight' \in [Buckets -> 0 .. MaxEvents] /\ InFlightInv'
    BY <1>0, <1>1 DEF Emit, InFlightInv
  <2> QED
    BY <1>1, <2>1 DEF Emit, TypeOK, HasGroup
<1>2. CASE Tick
  <2>1. clock' \in Buckets /\ startedAt \in 0 .. clock'
    BY <1>2 DEF Tick, TypeOK, Buckets
  <2> QED
    BY <1>2, <2>1 DEF Tick, TypeOK, InFlightInv, HasGroup
<1>3. ASSUME NEW b \in Buckets, Land(b) PROVE TypeOK' /\ InFlightInv'
  <2>1. inFlight' \in [Buckets -> 0 .. MaxEvents] /\ InFlightInv'
    BY <1>0, <1>3 DEF Land, Append1, InFlightInv
  <2> QED
    BY <1>3, <2>1, AppendTypeOK DEF Land
<1>4. ASSUME NEW b \in Buckets, LandAndResend(b) PROVE TypeOK' /\ InFlightInv'
  <2>1. inFlight' \in [Buckets -> 0 .. MaxEvents] /\ InFlightInv'
    BY <1>0, <1>4 DEF LandAndResend, Append1, InFlightInv
  <2> QED
    BY <1>4, <2>1, AppendTypeOK DEF LandAndResend
<1>5. ASSUME NEW b \in Buckets, Drop(b) PROVE TypeOK' /\ InFlightInv'
  <2>1. inFlight' \in [Buckets -> 0 .. MaxEvents] /\ InFlightInv'
    BY <1>0, <1>5 DEF Drop, InFlightInv
  <2> QED
    BY <1>5, <2>1 DEF Drop, TypeOK, HasGroup
<1>6. CASE Start
  <2>1. Len(stream) \in Nat /\ delivered' \in 0 .. Len(stream) /\ delivered' >= delivered
    BY <1>6 DEF Start, TypeOK
  <2>2. group' \in {NoGroup} \cup (0 .. delivered') /\ pel \subseteq 1 .. delivered'
    BY <1>6, <2>1 DEF Start, TypeOK, HasGroup, NoGroup
  <2>3. clock \in 0 .. clock
    BY <1>0 DEF Buckets
  <2> QED
    BY <1>6, <2>1, <2>2, <2>3 DEF Start, BeginTick, TypeOK, InFlightInv
<1>7. CASE Read
  <2>1. /\ delivered' \in 0 .. Len(stream) /\ delivered' >= delivered
        /\ NextEntries \in SUBSET (1 .. delivered') /\ pel' = pel \cup NextEntries
    BY <1>7, ReadsAhead DEF Read
  <2>2. /\ group \in {NoGroup} \cup (0 .. delivered') /\ pel' \subseteq 1 .. delivered'
    BY <2>1 DEF TypeOK
  <2> QED
    BY <1>7, <2>1, <2>2 DEF Read, TypeOK, InFlightInv
<1>8. CASE ReadNothing
  <2>1. pc' \in {"reading", "deciding"} /\ batch' = {} /\ startedAt' \in {startedAt, clock}
    BY <1>8, ObserveType DEF ReadNothing, FlushClosed
  <2>2. startedAt' \in 0 .. clock'
    BY <1>0, <1>8, <2>1 DEF ReadNothing, TypeOK, Buckets
  <2>3. pel' \subseteq 1 .. delivered
    BY <1>8 DEF ReadNothing, TypeOK
  <2> QED
    BY <1>8, <2>1, <2>2, <2>3 DEF ReadNothing, TypeOK, InFlightInv, HasGroup
<1>9. CASE Ack
  <2>1. pc' \in {"reading", "deciding"} /\ batch' = {} /\ startedAt' \in {startedAt, clock}
    BY <1>9, ObserveType DEF Ack, FlushClosed
  <2>2. startedAt' \in 0 .. clock'
    BY <1>0, <1>9, <2>1 DEF Ack, TypeOK, Buckets
  <2>3. pel' \subseteq 1 .. delivered
    BY <1>9 DEF Ack, TypeOK
  <2> QED
    BY <1>9, <2>1, <2>2, <2>3 DEF Ack, TypeOK, InFlightInv, HasGroup
<1>10. CASE Decide
  <2>1. pc' \in {"reading", "deciding"} /\ batch' = {} /\ startedAt' \in {startedAt, clock}
    BY <1>10, ObserveType DEF Decide
  <2>2. startedAt' \in 0 .. clock'
    BY <1>0, <1>10, <2>1 DEF Decide, TypeOK, Buckets
  <2>3. pel' \subseteq 1 .. delivered
    BY <1>10 DEF Decide, TypeOK
  <2> QED
    BY <1>10, <2>1, <2>2, <2>3 DEF Decide, TypeOK, InFlightInv, HasGroup
<1>11. CASE ReadLost
  <2>1. /\ delivered' \in 0 .. Len(stream) /\ delivered' >= delivered
        /\ NextEntries \in SUBSET (1 .. delivered') /\ pel' = pel \cup NextEntries
    BY <1>11, ReadsAhead DEF ReadLost
  <2>2. /\ group \in {NoGroup} \cup (0 .. delivered') /\ pel' \subseteq 1 .. delivered'
    BY <2>1 DEF TypeOK
  <2>3. /\ pc' \in {"reading", "paused"} /\ batch' \in {batch, {}} /\ startedAt' = startedAt
    BY <1>11 DEF ReadLost, Abandon
  <2> QED
    BY <1>11, <2>1, <2>2, <2>3 DEF ReadLost, TypeOK, InFlightInv, HasGroup
<1>12. CASE ReadNoGroup
  BY <1>12 DEF ReadNoGroup, Abandon, TypeOK, InFlightInv, HasGroup
<1>13. CASE StepFails
  BY <1>13 DEF StepFails, Abandon, TypeOK, InFlightInv, HasGroup
<1>14. CASE Resume
  BY <1>0, <1>14 DEF Resume, BeginTick, TypeOK, InFlightInv, HasGroup, Buckets
<1>15. CASE Crash
  BY <1>15 DEF Crash, TypeOK, InFlightInv, HasGroup
<1>16. CASE RedisLosesData
  <2>1. trimmed' \in 0 .. Len(stream)
    BY <1>16 DEF RedisLosesData, TypeOK
  <2> QED
    BY <1>16, <2>1 DEF RedisLosesData, TypeOK, InFlightInv, HasGroup
<1>17. CASE UNCHANGED vars
  BY <1>17 DEF vars, TypeOK, InFlightInv, HasGroup
<1> QED
  BY <1>1, <1>2, <1>3, <1>4, <1>5, <1>6, <1>7, <1>8, <1>9, <1>10, <1>11, <1>12, <1>13,
     <1>14, <1>15, <1>16, <1>17 DEF Next

\* Redis, the worker and what is in flight keep their types; in particular only
\* what was delivered is pending (worker.js:51-119, producer.js).
THEOREM PipelineTypes == Spec => []TypeOK
<1>1. TypeOK /\ InFlightInv => TypeOK
  OBVIOUS
<1> QED
  BY InitTypeOK, NextTypeOK, PTL DEF Spec

-----------------------------------------------------------------------------
(* No entry adds to two rates *)

\* What the worker has counted, is about to process or has processed was delivered.
BehindTheCursor ==
  /\ counted \in SUBSET (1 .. delivered) /\ closed \in SUBSET (1 .. delivered)
  /\ observed \in Seq(SUBSET (1 .. delivered))

CInv == TypeOK /\ InFlightInv /\ BehindTheCursor /\ CountedOnce

\* The rates as one: a longer sequence of observations has seen its last one too.
LEMMA SeenLater ==
  ASSUME NEW D, observed \in Seq(D), NEW same \in D, observed' = Append(observed, same)
  PROVE  /\ Seen' = Seen \cup same
         /\ DOMAIN observed' = 1 .. (Len(observed) + 1) /\ DOMAIN observed = 1 .. Len(observed)
         /\ Len(observed) \in Nat
         /\ \A k \in DOMAIN observed : observed'[k] = observed[k]
         /\ observed'[Len(observed) + 1] = same
<1>1. /\ DOMAIN observed' = 1 .. (Len(observed) + 1) /\ DOMAIN observed = 1 .. Len(observed)
      /\ Len(observed) \in Nat
      /\ \A k \in DOMAIN observed : observed'[k] = observed[k]
      /\ observed'[Len(observed) + 1] = same
  OBVIOUS
<1>2. \A k \in 1 .. (Len(observed) + 1) : k \in DOMAIN observed \/ k = Len(observed) + 1
  BY <1>1
<1>3. Len(observed) + 1 \in DOMAIN observed' /\ \A k \in DOMAIN observed : k \in DOMAIN observed'
  BY <1>1
<1>4. ASSUME NEW i PROVE i \in Seen' <=> i \in Seen \cup same
  BY <1>1, <1>2, <1>3 DEF Seen
<1> QED
  BY <1>1, <1>4

\* Taking `entries` out of what is counted or closed, and giving the first bucket
\* of them to the detector, repeats nothing.
LEMMA ObserveStep ==
  ASSUME CInv, NEW entries, entries \in SUBSET (1 .. delivered),
         entries \cap Seen = {}, ObserveNext(entries), delivered' = delivered,
         counted' \in SUBSET counted, counted' \cap entries = {}
  PROVE  BehindTheCursor' /\ CountedOnce'
<1>1. CASE entries = {}
  <2>1. closed' = {} /\ observed' = observed
    BY <1>1 DEF ObserveNext
  <2>2. Seen' = Seen
    BY <2>1 DEF Seen
  <2> QED
    BY <2>1, <2>2 DEF CInv, BehindTheCursor, CountedOnce
<1>2. CASE entries # {}
  <2>1. PICK same \in SUBSET entries :
          observed' = Append(observed, same) /\ closed' = entries \ same
    BY <1>2 DEF ObserveNext
  <2>2. observed \in Seq(SUBSET (1 .. delivered)) /\ same \in SUBSET (1 .. delivered)
    BY DEF CInv, BehindTheCursor
  <2>3. /\ Seen' = Seen \cup same
        /\ DOMAIN observed' = 1 .. (Len(observed) + 1) /\ DOMAIN observed = 1 .. Len(observed)
        /\ Len(observed) \in Nat
        /\ \A k \in DOMAIN observed : observed'[k] = observed[k]
        /\ observed'[Len(observed) + 1] = same
    BY <2>1, <2>2, SeenLater
  <2>4. BehindTheCursor'
    BY <2>1, <2>2 DEF CInv, BehindTheCursor
  <2>5. \A k \in DOMAIN observed : observed[k] \cap same = {}
    BY DEF Seen
  <2>6. \A j, k \in DOMAIN observed' : j # k => observed'[j] \cap observed'[k] = {}
    <3> SUFFICES ASSUME NEW j \in DOMAIN observed', NEW k \in DOMAIN observed', j # k
                 PROVE  observed'[j] \cap observed'[k] = {}
      OBVIOUS
    <3>1. /\ j \in DOMAIN observed \/ j = Len(observed) + 1
          /\ k \in DOMAIN observed \/ k = Len(observed) + 1
      BY <2>3
    <3>2. CASE j \in DOMAIN observed /\ k \in DOMAIN observed
      BY <2>3, <3>2 DEF CInv, CountedOnce
    <3>3. CASE j = Len(observed) + 1 \/ k = Len(observed) + 1
      BY <2>3, <2>5, <3>1, <3>3
    <3> QED
      BY <3>1, <3>2, <3>3
  <2>7. (counted' \cup closed') \cap Seen' = {} /\ counted' \cap closed' = {}
    BY <2>1, <2>3 DEF CInv, CountedOnce
  <2> QED
    BY <2>4, <2>6, <2>7 DEF CountedOnce
<1> QED
  BY <1>1, <1>2

\* A step that processes nothing and at most drops what the worker holds.
LEMMA HoldStep ==
  ASSUME CInv, TypeOK', observed' = observed, delivered' >= delivered,
         counted' \in SUBSET counted, closed' \in SUBSET closed
  PROVE  BehindTheCursor' /\ CountedOnce'
<1>1. delivered \in Nat /\ delivered' \in Nat /\ 1 .. delivered \subseteq 1 .. delivered'
  BY DEF CInv, TypeOK
<1>2. observed \in Seq(SUBSET (1 .. delivered'))
  BY <1>1 DEF CInv, BehindTheCursor
<1> QED
  BY <1>1, <1>2 DEF CInv, BehindTheCursor, CountedOnce, Seen

LEMMA NextCInv == CInv /\ [Next]_vars => CInv'
<1> SUFFICES ASSUME CInv, [Next]_vars PROVE BehindTheCursor' /\ CountedOnce'
  BY NextTypeOK DEF CInv
<1>0. TypeOK /\ TypeOK' /\ delivered \in Nat /\ delivered >= delivered
  <2>1. TypeOK /\ TypeOK'
    BY NextTypeOK DEF CInv
  <2>2. delivered \in Nat
    BY <2>1 DEF TypeOK
  <2> QED
    BY <2>1, <2>2
<1>1. CASE Read
  <2>1. /\ NextEntries \in SUBSET (1 .. delivered') /\ \A i \in NextEntries : i > delivered
        /\ delivered' >= delivered /\ delivered' \in Nat
    BY <1>0, <1>1, ReadsAhead DEF Read, TypeOK
  <2>2. \A k \in DOMAIN observed : observed[k] \in SUBSET (1 .. delivered)
    BY DEF CInv, BehindTheCursor
  <2>3. Seen \in SUBSET (1 .. delivered)
    BY <2>2 DEF Seen
  <2>4. NextEntries \cap (Seen \cup closed) = {}
    BY <1>0, <2>1, <2>3 DEF CInv, BehindTheCursor
  <2>5. counted' = counted \cup NextEntries /\ closed' = closed /\ observed' = observed
    BY <1>1 DEF Read
  <2>6. 1 .. delivered \subseteq 1 .. delivered'
    BY <1>0, <2>1
  <2>7. BehindTheCursor'
    <3>1. observed \in Seq(SUBSET (1 .. delivered'))
      BY <2>6 DEF CInv, BehindTheCursor
    <3> QED
      BY <2>1, <2>5, <2>6, <3>1 DEF CInv, BehindTheCursor
  <2>8. Seen' = Seen
    BY <2>5 DEF Seen
  <2> QED
    BY <2>4, <2>5, <2>7, <2>8 DEF CInv, CountedOnce
<1>2. ASSUME FlushClosed, delivered' = delivered PROVE BehindTheCursor' /\ CountedOnce'
  <2>1. Closed \in SUBSET counted /\ counted' = counted \ Closed /\ ObserveNext(Closed)
    BY <1>2 DEF FlushClosed, Closed
  <2> QED
    BY <1>2, <2>1, ObserveStep DEF CInv, BehindTheCursor, CountedOnce
<1>3. CASE ReadNothing
  BY <1>2, <1>3 DEF ReadNothing
<1>4. CASE Ack
  BY <1>2, <1>4 DEF Ack
<1>5. CASE Decide
  BY <1>5, ObserveStep DEF Decide, CInv, BehindTheCursor, CountedOnce
<1>6. CASE Start
  <2>1. delivered' >= delivered
    BY <1>0, <1>6 DEF Start, TypeOK
  <2> QED
    BY <1>0, <1>6, <2>1, HoldStep DEF Start
<1>7. CASE ReadLost
  <2>1. delivered' >= delivered
    BY <1>0, <1>7, ReadsAhead DEF ReadLost
  <2> QED
    BY <1>0, <1>7, <2>1, HoldStep DEF ReadLost, Abandon
<1>8. CASE Emit
  BY <1>0, <1>8, HoldStep DEF Emit
<1>9. CASE Tick
  BY <1>0, <1>9, HoldStep DEF Tick
<1>10. ASSUME NEW b \in Buckets, Land(b) \/ LandAndResend(b) \/ Drop(b)
       PROVE  BehindTheCursor' /\ CountedOnce'
  BY <1>0, <1>10, HoldStep DEF Land, LandAndResend, Drop, Append1
<1>11. CASE ReadNoGroup
  BY <1>0, <1>11, HoldStep DEF ReadNoGroup, Abandon
<1>12. CASE StepFails
  BY <1>0, <1>12, HoldStep DEF StepFails, Abandon
<1>13. CASE Resume
  BY <1>0, <1>13, HoldStep DEF Resume, BeginTick
<1>14. CASE Crash
  BY <1>0, <1>14, HoldStep DEF Crash
<1>15. CASE RedisLosesData
  BY <1>0, <1>15, HoldStep DEF RedisLosesData
<1>16. CASE UNCHANGED vars
  BY <1>0, <1>16, HoldStep DEF vars
<1> QED
  BY <1>1, <1>3, <1>4, <1>5, <1>6, <1>7, <1>8, <1>9, <1>10, <1>11, <1>12, <1>13, <1>14,
     <1>15, <1>16 DEF Next

\* Whatever is sent again, fails, crashes or is lost, no entry adds to two rates
\* (worker.js:50-82, aggregator.js:16-38).
THEOREM CountsOnce == Spec => []CountedOnce
<1>1. Init => CInv
  BY InitTypeOK DEF Init, CInv, BehindTheCursor, CountedOnce, Seen
<1>2. CInv => CountedOnce
  BY DEF CInv
<1> QED
  BY <1>1, <1>2, NextCInv, PTL DEF Spec
-----------------------------------------------------------------------------
(* Nothing slips through without a fault *)

\* Closed buckets are held between two rates of one tick only: the tick that flushes
\* next finds none left.
ClosedWhileDeciding == pc # "deciding" => closed = {}

SlipInv == CInv /\ ClosedWhileDeciding /\ faults \in Nat

LEMMA InitSlipInv == Init => SlipInv
<1> SUFFICES ASSUME Init PROVE SlipInv
  OBVIOUS
<1>1. CInv
  BY InitTypeOK DEF Init, CInv, BehindTheCursor, CountedOnce, Seen
<1> QED
  BY <1>1 DEF Init, SlipInv, ClosedWhileDeciding

LEMMA NextSlipInv == SlipInv /\ [Next]_vars => SlipInv'
<1> SUFFICES ASSUME SlipInv, [Next]_vars PROVE ClosedWhileDeciding' /\ faults' \in Nat
  BY NextCInv DEF SlipInv
<1> USE DEF SlipInv, ClosedWhileDeciding
<1>1. ASSUME NEW entries, ObserveNext(entries) PROVE ClosedWhileDeciding'
  BY <1>1 DEF ObserveNext, BeginTick
<1>2. CASE Read \/ ReadLost \/ ReadNoGroup \/ StepFails \/ Resume \/ Crash \/ RedisLosesData
  BY <1>2 DEF Read, ReadLost, ReadNoGroup, StepFails, Resume, Crash, RedisLosesData, Abandon,
              BeginTick
<1>3. CASE ReadNothing \/ Ack \/ Decide
  BY <1>1, <1>3 DEF ReadNothing, Ack, Decide, FlushClosed
<1>4. CASE Start
  BY <1>4 DEF Start, BeginTick, CInv, TypeOK
<1>5. CASE Emit \/ Tick \/ \E b \in Buckets : Land(b) \/ LandAndResend(b) \/ Drop(b)
  BY <1>5 DEF Emit, Tick, Land, LandAndResend, Drop, Append1
<1>6. CASE UNCHANGED vars
  BY <1>6 DEF vars
<1> QED
  BY <1>2, <1>3, <1>4, <1>5, <1>6 DEF Next

\* XREADGROUP leaves nothing out: of what the cursor passes, all is read or trimmed.
LEMMA ReadsEverything ==
  ASSUME TypeOK, NextEntries # {}, MarkDelivered(NextEntries),
         NEW i \in DOMAIN stream, i > delivered, i <= delivered'
  PROVE  i \in NextEntries \/ i <= trimmed
<1> DEFINE undelivered == {j \in DOMAIN stream : j > delivered /\ j > trimmed}
           Before(j) == {k \in undelivered : k < j}
<1>1. /\ DOMAIN stream = 1 .. Len(stream) /\ Len(stream) \in Nat
      /\ delivered \in Nat /\ trimmed \in Nat
  BY DEF TypeOK
<1>2. NextEntries \in SUBSET (1 .. Len(stream))
  BY <1>1 DEF NextEntries
<1>3. delivered' \in NextEntries
  <2>1. \E j \in NextEntries : \A k \in NextEntries : k <= j
    BY <1>1, <1>2, LargestExists
  <2> QED
    BY <2>1 DEF MarkDelivered
<1>4. delivered' \in undelivered /\ Cardinality(Before(delivered')) < Batch
  BY <1>3 DEF NextEntries
<1> SUFFICES ASSUME ~(i <= trimmed) PROVE i \in NextEntries
  OBVIOUS
<1>5. i \in undelivered
  BY <1>1
<1>6. Before(i) \subseteq Before(delivered')
  BY <1>1, <1>4
<1>7. IsFiniteSet(Before(delivered'))
  <2>1. Before(delivered') \in SUBSET (1 .. Len(stream))
    BY <1>1
  <2>2. 1 \in Int /\ Len(stream) \in Int
    BY <1>1
  <2>3. IsFiniteSet(1 .. Len(stream))
    BY <2>2, FS_Interval
  <2> HIDE DEF Before
  <2> QED
    BY <2>1, <2>3, FS_Subset
<1>8. /\ Cardinality(Before(i)) <= Cardinality(Before(delivered'))
      /\ Cardinality(Before(i)) \in Nat /\ Cardinality(Before(delivered')) \in Nat
  BY <1>6, <1>7, FS_Subset, FS_CardinalityType
<1>9. Cardinality(Before(i)) < Batch
  BY <1>4, <1>8, PipelineAssumption
<1> QED
  BY <1>5, <1>9 DEF NextEntries

\* What is taken out of the aggregator, or was left of it, is processed or still held.
LEMMA ObserveKeeps ==
  ASSUME SlipInv, NEW entries \in SUBSET (1 .. delivered), ObserveNext(entries),
         NEW i \in entries
  PROVE  i \in closed' \/ i \in Seen'
<1>1. PICK same \in SUBSET entries :
        observed' = Append(observed, same) /\ closed' = entries \ same
  BY DEF ObserveNext
<1>2. observed \in Seq(SUBSET (1 .. delivered)) /\ same \in SUBSET (1 .. delivered)
  BY DEF SlipInv, CInv, BehindTheCursor
<1>3. Seen' = Seen \cup same
  BY <1>1, <1>2, SeenLater
<1> QED
  BY <1>1, <1>3

LEMMA StepKeeps == SlipInv /\ [Next]_vars => KeepsAtHand
<1> SUFFICES ASSUME SlipInv, [Next]_vars, NEW i \in DOMAIN stream, AtHand(i),
                    ~(i <= trimmed'), ~(faults' > faults)
             PROVE  AtHand(i)' \/ i \in Seen'
  BY DEF KeepsAtHand
<1>1. /\ i \in DOMAIN stream /\ HasGroup /\ i > group
      /\ i > delivered \/ i \in counted \/ i \in closed
  BY DEF AtHand, Ours
<1>2. TypeOK /\ faults \in Nat /\ ClosedWhileDeciding
  BY DEF SlipInv, CInv
<1>3. CASE Read
  <2>1. UNCHANGED <<stream, trimmed, group, closed>> /\ counted' = counted \cup NextEntries
    BY <1>3 DEF Read
  <2>2. i > delivered' \/ i \in counted' \/ i \in closed'
    <3>1. CASE i > delivered /\ i <= delivered'
      BY <1>1, <1>2, <1>3, <2>1, <3>1, ReadsEverything DEF Read
    <3>2. CASE i > delivered /\ ~(i <= delivered')
      <4>1. delivered' \in Nat /\ i \in Nat
        BY <1>2, <1>3, ReadsAhead DEF Read, TypeOK
      <4> QED
        BY <3>2, <4>1
    <3>3. CASE i \in counted \/ i \in closed
      BY <2>1, <3>3
    <3> QED
      BY <1>1, <3>1, <3>2, <3>3
  <2> QED
    BY <1>1, <2>1, <2>2 DEF AtHand, Ours, HasGroup
<1>4. ASSUME FlushClosed, UNCHANGED <<stream, group, delivered>>, closed = {}
      PROVE  AtHand(i)' \/ i \in Seen'
  <2>1. i \in Closed \/ i \in counted' \/ i > delivered
    BY <1>1, <1>4 DEF FlushClosed
  <2>2. Closed \in SUBSET (1 .. delivered) /\ ObserveNext(Closed)
    BY <1>4 DEF SlipInv, CInv, BehindTheCursor, FlushClosed, Closed
  <2>3. i \in Closed => i \in closed' \/ i \in Seen'
    BY <2>2, ObserveKeeps
  <2> QED
    BY <1>1, <1>4, <2>1, <2>3 DEF AtHand, Ours, HasGroup
<1>5. CASE ReadNothing \/ Ack
  <2>1. FlushClosed /\ UNCHANGED <<stream, group, delivered>> /\ pc # "deciding"
    BY <1>5 DEF ReadNothing, Ack
  <2> QED
    BY <1>2, <1>4, <2>1 DEF ClosedWhileDeciding
<1>6. CASE Decide
  <2>1. ObserveNext(closed) /\ UNCHANGED <<stream, group, delivered, counted>>
    BY <1>6 DEF Decide
  <2>2. i \in closed => i \in closed' \/ i \in Seen'
    BY <2>1, ObserveKeeps DEF SlipInv, CInv, BehindTheCursor
  <2> QED
    BY <1>1, <2>1, <2>2 DEF AtHand, Ours, HasGroup
<1>7. CASE Start
  BY <1>1, <1>7 DEF Start, AtHand, Ours, HasGroup
<1>8. ASSUME NEW b \in Buckets, Land(b) PROVE AtHand(i)'
  <2>1. stream' = Append(stream, b) /\ UNCHANGED <<group, delivered, counted, closed>>
    BY <1>8 DEF Land, Append1
  <2>2. i \in DOMAIN stream'
    BY <1>1, <1>2, <2>1 DEF TypeOK
  <2> QED
    BY <1>1, <2>1, <2>2 DEF AtHand, Ours, HasGroup
<1>9. CASE \/ \E b \in Buckets : LandAndResend(b) \/ Drop(b)
           \/ ReadLost \/ StepFails \/ Crash \/ RedisLosesData
  BY <1>2, <1>9 DEF LandAndResend, Drop, ReadLost, StepFails, Crash, RedisLosesData
<1>10. CASE ReadNoGroup
  BY <1>1, <1>10 DEF ReadNoGroup
<1>11. CASE Emit \/ Tick \/ Resume \/ UNCHANGED vars
  <2>1. UNCHANGED <<stream, group, delivered, counted, closed>>
    BY <1>11 DEF Emit, Tick, Resume, vars
  <2> QED
    BY <1>1, <2>1 DEF AtHand, Ours, HasGroup
<1> QED
  BY <1>3, <1>5, <1>6, <1>7, <1>8, <1>9, <1>10, <1>11 DEF Next

\* Without a fault nothing that is at hand is lost, in whatever order events land, are
\* read and are flushed: what is left of LostByFaultsOnly is that the worker goes on.
THEOREM LostInFaultsOnly == Spec => NothingSlips
<1>1. SlipInv /\ [Next]_vars => [KeepsAtHand]_vars
  BY StepKeeps
<1> QED
  BY <1>1, InitSlipInv, NextSlipInv, PTL DEF Spec, NothingSlips
===============================================================================
