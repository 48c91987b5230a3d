---------------------------- MODULE EventPipeline ----------------------------
(***************************************************************************)
(* From a decision to a rate: StreamProducer.emit (producer.js), the Redis *)
(* Stream with its consumer group, and the worker's tick (worker.js) with  *)
(* its Aggregator (aggregator.js), for one key.                            *)
(*                                                                         *)
(* Time is counted in buckets of bucketMs.  An event is written without    *)
(* being awaited, so it lands some time after the instant it is stamped    *)
(* with, or never, or twice when the client sends it again.  The worker    *)
(* awaits Redis at every step of a tick: a step may fail, which abandons   *)
(* the tick, and the process may stop anywhere, losing what it had in      *)
(* memory.  Redis may lose its data, and the group with it; the worker     *)
(* makes the group only when it starts.                                    *)
(*                                                                         *)
(* An entry of the stream is named by its position; the aggregator's count *)
(* for a bucket is the set of entries counted there.                       *)
(***************************************************************************)
EXTENDS Integers, Sequences, FiniteSets

CONSTANTS
  Batch,           \* entries one XREADGROUP returns at most
  MaxLen,          \* XADD MAXLEN ~: the stream may be cut down to this length
  Prompt,          \* TRUE: an event lands in the bucket it is stamped with
  MaxEvents,       \* bound: events emitted
  MaxBucket,       \* bound: the clock stops here
  MaxFaults        \* bound: resends, failed awaits, crashes and losses of data

ASSUME PipelineAssumption ==
  /\ Batch \in Nat \ {0} /\ MaxLen \in Nat \ {0} /\ Prompt \in BOOLEAN
  /\ MaxEvents \in Nat /\ MaxBucket \in Nat /\ MaxFaults \in Nat

VARIABLES
  clock,           \* the current bucket
  emitted,         \* events emitted so far
  inFlight,        \* inFlight[b]: events stamped b whose XADD is out
  stream,          \* stream[i]: the bucket entry i is stamped with
  trimmed,         \* entries 1 .. trimmed are gone
  group,           \* the entry the consumer group starts after, or NoGroup
  delivered,       \* entries up to this one were delivered to the group
  pel,             \* delivered entries that were not acknowledged
  pc,              \* where the worker's tick is
  startedAt,       \* `now` of the tick, taken when it began
  batch,           \* the entries it has read
  counted,         \* entries in the aggregator
  closed,          \* entries of the closed buckets that are yet to be processed
  observed,        \* history: the entries behind each rate given to the detector
  faults           \* the faults so far

redisVars == <<stream, trimmed, group, delivered, pel>>
tickVars == <<pc, startedAt, batch>>
aggVars == <<counted, closed, observed>>
vars == <<clock, emitted, inFlight, redisVars, tickVars, aggVars, faults>>

NoGroup == -1
Buckets == 0 .. MaxBucket
HasGroup == group # NoGroup

-----------------------------------------------------------------------------
(* The producers *)

Init ==
  /\ clock = 0 /\ emitted = 0
  /\ inFlight = [b \in Buckets |-> 0]
  /\ stream = <<>> /\ trimmed = 0
  /\ group = NoGroup /\ delivered = 0 /\ pel = {}
  /\ pc = "down" /\ startedAt = 0 /\ batch = {}
  /\ counted = {} /\ closed = {} /\ observed = <<>>
  /\ faults = 0

\* A node emits an event stamped now and does not wait for the write.
Emit ==
  /\ emitted < MaxEvents /\ clock < MaxBucket
  /\ emitted' = emitted + 1
  /\ inFlight' = [inFlight EXCEPT ![clock] = @ + 1]
  /\ UNCHANGED <<clock, redisVars, tickVars, aggVars, faults>>

\* XADD appends an event stamped b and may cut the stream.
Append1(b) ==
  /\ inFlight[b] > 0
  /\ stream' = Append(stream, b)
  /\ \E cut \in trimmed .. Len(stream') :
       /\ cut > trimmed => Len(stream') - cut >= MaxLen
       /\ trimmed' = cut
  /\ UNCHANGED <<clock, emitted, group, delivered, pel, tickVars, aggVars>>

Land(b) ==
  /\ Append1(b)
  /\ inFlight' = [inFlight EXCEPT ![b] = @ - 1]
  /\ UNCHANGED faults

\* The reply is lost and the client sends the XADD again.
LandAndResend(b) ==
  /\ faults < MaxFaults
  /\ faults' = faults + 1
  /\ Append1(b)
  /\ UNCHANGED inFlight

\* The write fails; emit swallows the error.
Drop(b) ==
  /\ faults < MaxFaults
  /\ faults' = faults + 1
  /\ inFlight[b] > 0
  /\ inFlight' = [inFlight EXCEPT ![b] = @ - 1]
  /\ UNCHANGED <<clock, emitted, redisVars, tickVars, aggVars>>

Tick ==
  /\ clock < MaxBucket
  /\ Prompt => \A b \in Buckets : inFlight[b] = 0
  /\ clock' = clock + 1
  /\ UNCHANGED <<emitted, inFlight, redisVars, tickVars, aggVars, faults>>

-----------------------------------------------------------------------------
(* The worker *)

\* A tick begins.
BeginTick ==
  /\ pc' = "reading" /\ startedAt' = clock /\ batch' = {}

\* The worker's process starts: ensureGroup, then the first tick.
Start ==
  /\ pc = "down"
  /\ BeginTick
  /\ group' = IF HasGroup THEN group ELSE Len(stream)
  /\ delivered' = IF HasGroup THEN delivered ELSE Len(stream)
  /\ UNCHANGED <<clock, emitted, inFlight, stream, trimmed, pel, aggVars, faults>>

\* The entries one XREADGROUP '>' returns now.
NextEntries ==
  LET undelivered == {i \in DOMAIN stream : i > delivered /\ i > trimmed}
  IN {i \in undelivered : Cardinality({j \in undelivered : j < i}) < Batch}

\* Mutant of MarkDelivered: reads from '0', so what is pending comes again.
LeaveUndelivered(entries) ==
  /\ delivered' = delivered
  /\ pel' = pel \cup entries

\* Redis hands the entries to this consumer.
MarkDelivered(entries) ==
  /\ delivered' = CHOOSE i \in entries : \A j \in entries : j <= i
  /\ pel' = pel \cup entries

\* The reply is read: every entry goes to the aggregator.
Read ==
  /\ pc = "reading" /\ HasGroup /\ NextEntries # {}
  /\ MarkDelivered(NextEntries)
  /\ batch' = NextEntries
  /\ counted' = counted \cup NextEntries
  /\ pc' = "acking"
  /\ UNCHANGED <<clock, emitted, inFlight, stream, trimmed, group, startedAt,
                 closed, observed, faults>>

\* Give the detector the next closed bucket of `entries`, in the order in which
\* the buckets were first counted, and ask the store; with none left, tick again.
ObserveNext(entries) ==
  IF entries = {}
  THEN BeginTick /\ closed' = {} /\ UNCHANGED observed
  ELSE LET first == CHOOSE i \in entries : \A j \in entries : i <= j
           same  == {i \in entries : stream[i] = stream[first]}
       IN /\ observed' = Append(observed, same)
          /\ closed' = entries \ same
          /\ pc' = "deciding" /\ batch' = {} /\ UNCHANGED startedAt

\* What flushClosed takes out of the aggregator.
Closed == {i \in counted : stream[i] < startedAt}

\* Mutant of FlushClosed: forgets the open buckets with the closed ones.
ForgetOpen ==
  /\ counted' = {}
  /\ ObserveNext(Closed)

FlushClosed ==
  /\ counted' = counted \ Closed
  /\ ObserveNext(Closed)

\* Mutant of ReadNothing: without entries there is nothing to flush.
SkipFlush ==
  /\ pc = "reading" /\ HasGroup /\ NextEntries = {}
  /\ BeginTick
  /\ UNCHANGED <<clock, emitted, inFlight, redisVars, aggVars, faults>>

\* BLOCK times out.
ReadNothing ==
  /\ pc = "reading" /\ HasGroup /\ NextEntries = {}
  /\ FlushClosed
  /\ UNCHANGED <<clock, emitted, inFlight, redisVars, faults>>

\* The XACK is answered.
Ack ==
  /\ pc = "acking"
  /\ pel' = pel \ batch
  /\ FlushClosed
  /\ UNCHANGED <<clock, emitted, inFlight, stream, trimmed, group, delivered, faults>>

\* The store has been read, and written if the limit changes (AdaptiveControl).
Decide ==
  /\ pc = "deciding"
  /\ ObserveNext(closed)
  /\ UNCHANGED <<clock, emitted, inFlight, redisVars, counted, faults>>

-----------------------------------------------------------------------------
(* What goes wrong *)

\* An await of the tick throws: run logs it and pauses.  The rest of the closed
\* buckets goes with the tick.
Abandon == pc' = "paused" /\ batch' = {} /\ closed' = {} /\ UNCHANGED startedAt

\* Redis is flushed, or restarted without its data.
RedisLosesData ==
  /\ faults < MaxFaults
  /\ faults' = faults + 1
  /\ trimmed' = Len(stream) /\ group' = NoGroup /\ pel' = {}
  /\ UNCHANGED <<clock, emitted, inFlight, stream, delivered, tickVars, aggVars>>

\* NOGROUP: the tick fails before it gets to flush anything.
ReadNoGroup ==
  /\ pc = "reading" /\ ~HasGroup
  /\ Abandon
  /\ UNCHANGED <<clock, emitted, inFlight, redisVars, counted, observed, faults>>

\* XREADGROUP ran but its reply is lost: the client sends it again, for the
\* entries after these, or gives up.
ReadLost ==
  /\ pc = "reading" /\ HasGroup /\ NextEntries # {} /\ faults < MaxFaults
  /\ faults' = faults + 1
  /\ MarkDelivered(NextEntries)
  /\ \/ Abandon
     \/ UNCHANGED <<tickVars, closed>>
  /\ UNCHANGED <<clock, emitted, inFlight, stream, trimmed, group, counted, observed>>

\* Any await throws; an XACK may have run all the same.
StepFails ==
  /\ pc \in {"reading", "acking", "deciding"} /\ faults < MaxFaults
  /\ faults' = faults + 1
  /\ Abandon
  /\ pel' = pel \/ (pc = "acking" /\ pel' = pel \ batch)
  /\ UNCHANGED <<clock, emitted, inFlight, stream, trimmed, group, delivered,
                 counted, observed>>

\* The pause is over.
Resume ==
  /\ pc = "paused"
  /\ BeginTick
  /\ UNCHANGED <<clock, emitted, inFlight, redisVars, aggVars, faults>>

\* The process stops.
Crash ==
  /\ pc # "down" /\ faults < MaxFaults
  /\ faults' = faults + 1
  /\ pc' = "down" /\ batch' = {} /\ counted' = {} /\ closed' = {}
  /\ UNCHANGED <<clock, emitted, inFlight, redisVars, startedAt, observed>>

Next ==
  \/ Emit \/ Tick
  \/ \E b \in Buckets : Land(b) \/ LandAndResend(b) \/ Drop(b)
  \/ Start \/ Read \/ ReadNothing \/ Ack \/ Decide
  \/ ReadLost \/ ReadNoGroup \/ StepFails \/ Resume \/ Crash \/ RedisLosesData

Spec == Init /\ [][Next]_vars

\* Time passes, what is in flight arrives, and the worker runs and is restarted.
FairSpec ==
  /\ Spec
  /\ WF_vars(Tick) /\ \A b \in Buckets : WF_vars(Land(b))
  /\ WF_vars(Start) /\ WF_vars(Resume) /\ WF_vars(ReadNoGroup)
  /\ WF_vars(Read) /\ WF_vars(ReadNothing) /\ WF_vars(Ack) /\ WF_vars(Decide)

-----------------------------------------------------------------------------
(* Properties *)

\* Entries whose bucket the detector has been given.
Seen == UNION {observed[k] : k \in DOMAIN observed}

\* Entries the consumer group is responsible for.
Ours == {i \in DOMAIN stream : HasGroup /\ i > group}

\* Types of what Redis holds and of where the worker is: whatever is pending was
\* delivered, and only a running worker holds anything (worker.js:51-119).
TypeOK ==
  /\ clock \in Buckets /\ startedAt \in 0 .. clock
  /\ inFlight \in [Buckets -> 0 .. MaxEvents]
  /\ stream \in Seq(Buckets)
  /\ trimmed \in 0 .. Len(stream)
  /\ group \in {NoGroup} \cup (0 .. delivered) /\ delivered \in 0 .. Len(stream)
  /\ pel \subseteq 1 .. delivered
  /\ pc \in {"down", "paused", "reading", "acking", "deciding"}
  /\ HasGroup => batch \subseteq pel
  /\ pc = "down" => counted = {} /\ closed = {}

\* Whatever is resent, fails or crashes, no entry adds to two rates: what the
\* detector is told never exceeds what the stream held (worker.js:50-82).
CountedOnce ==
  /\ \A j, k \in DOMAIN observed : j # k => observed[j] \cap observed[k] = {}
  /\ (counted \cup closed) \cap Seen = {}
  /\ counted \cap closed = {}

\* Entries the worker has yet to read, or holds.
AtHand(i) == i \in Ours /\ (i > delivered \/ i \in counted \cup closed)

\* However late events land and however the batches and flushes fall, an entry that
\* is still to be read, or that the worker holds, reaches the detector unless it is
\* trimmed or something fails first; so after the last fault, while the group is there,
\* nothing more is lost (worker.js:50-82, aggregator.js:28-38).
LostByFaultsOnly ==
  \A i \in 1 .. MaxEvents + MaxFaults, f \in 0 .. MaxFaults :
    (AtHand(i) /\ faults = f) ~> (i \in Seen \/ i <= trimmed \/ faults > f)

\* The safety half of it: in any one step such an entry stays at hand, reaches the
\* detector or is trimmed, or the step is a fault.
KeepsAtHand ==
  \A i \in DOMAIN stream :
    AtHand(i) => AtHand(i)' \/ i \in Seen' \/ i <= trimmed' \/ faults' > faults

NothingSlips == [][KeepsAtHand]_vars

\* A tick that fails is tried again (worker.js:111-118): what the worker holds of
\* closed buckets reaches the detector unless something fails once more.
HeldIsProcessed ==
  \A i \in 1 .. MaxEvents, f \in 0 .. MaxFaults :
    (i \in counted /\ faults = f) ~> (i \in Seen \/ faults > f)

\* "Consumer groups with at-least-once delivery and acks"
\* (docs/adr/0001-redis-streams-not-kafka.md): what lands in the stream and is
\* not trimmed is taken into account eventually.
AtLeastOnce ==
  \A i \in 1 .. MaxEvents : (i \in Ours) ~> (i \in Seen \/ i <= trimmed)

=============================================================================
