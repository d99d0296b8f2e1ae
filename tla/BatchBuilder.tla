---------------------------- MODULE BatchBuilder ----------------------------
(***************************************************************************)
(* The batch builder (features/builder.py): for every entity, grid point   *)
(* and feature a value is computed from the raw lake through a fresh       *)
(* AsOfContext, and the rows go to the feature lake through ParquetWriter. *)
(*                                                                         *)
(* The context is taken at its abstract level, PointInTime, which          *)
(* AsOfContext implements; the writer keeps the promise of DurableRows,    *)
(* which ParquetWriter implements, and its per-partition loops and failures *)
(* are those of append_many and flush_all.  The builder is the only caller *)
(* of its writer; raw rows are published by others at any time.            *)
(*                                                                         *)
(* A feature value is abstracted to the set of raw rows it was computed    *)
(* from.                                                                   *)
(***************************************************************************)
EXTENDS Integers, Sequences, FiniteSets, Functions

CONSTANTS
    Entities,     \* (entity_type, entity_id)
    EntityType,
    Features,     \* FeatureSpecs
    FeatureType,  \* their entity_type
    Lookback,     \* how far before as_of_ts a feature reads
    Streams,
    Source,       \* sources.SOURCES: entity -> stream, for the routed ones
    Raw,          \* raw rows
    StreamOf,
    EventOf,
    Times,
    Jobs,         \* arguments of the builds: features, entities, start, end, step
    BatchSize,    \* _BATCH_SIZE
    HourLength,
    MaxRuns       \* bound: builds in a behaviour

ASSUME BuilderConstants ==
    /\ EntityType \in [Entities -> STRING] /\ FeatureType \in [Features -> STRING]
    /\ Lookback \in [Features -> Nat \ {0}]
    /\ DOMAIN Source \subseteq Entities /\ Range(Source) \subseteq Streams
    /\ StreamOf \in [Raw -> Streams] /\ EventOf \in [Raw -> Int]
    /\ Times \subseteq Int
    /\ BatchSize \in Nat \ {0} /\ HourLength \in Nat \ {0} /\ MaxRuns \in Nat
    /\ Jobs # {}
    /\ \A j \in Jobs :
          /\ j.features \in Seq(Features) /\ IsInjective(j.features)
          /\ j.entities \in Seq(Entities) /\ IsInjective(j.entities)
          /\ j.start \in Times /\ j.end \in Times /\ j.step \in Nat
          /\ j.start .. j.end \subseteq Times

VARIABLES
    raw,          \* the raw lake
    cutoff,       \* as_of_ts of the current AsOfContext
    base,         \* the raw lake when that context was made
    seen,         \* what the context has returned
    pc,           \* "idle", "grid", "build" or "drain"
    job,
    cur,          \* loop variable of time_grid
    grid,         \* the points of time_grid
    e,            \* position in job.entities
    left,         \* grid points of that entity still to come
    f,            \* position in job.features of the next one to look at; past
                  \* its end between two grid points
    buf,          \* rows_buf
    n,            \* n_for_entity
    total,
    perEntity,
    run,          \* number of the build: its ingest_ts
    pending,      \* feature rows in the writer's buffers
    published,    \* feature rows in part files
    lost          \* feature rows of a flush that raised, or in memory at a crash

\* History, used by the properties only.
VARIABLES
    rawAt,        \* rawAt[r]: the raw lake when build r began
    skipped       \* cells whose feature raised or returned None

input   == <<raw, cutoff, base, seen>>
loop    == <<job, cur, grid, e, left, f>>
counts  == <<n, total, perEntity>>
output  == <<pending, published, lost>>
history == <<rawAt, skipped>>
vars    == <<input, pc, loop, buf, counts, run, output, history>>

-----------------------------------------------------------------------------
PIT == INSTANCE PointInTime WITH
    lake <- raw, Rows <- Raw, blind <- {}, shown <- {}
Writer == INSTANCE DurableRows

Row == [run : 1 .. MaxRuns, entity : Entities, ts : Times, feature : Features,
        value : SUBSET Raw]
Cell(r) == [run |-> r.run, entity |-> r.entity, ts |-> r.ts, feature |-> r.feature]

Hour(ts) == ts \div HourLength
Hours(rows) == {Hour(r.ts) : r \in rows}
InHours(rows, en, hs) == {r \in rows : r.entity = en /\ Hour(r.ts) \in hs}

SetMin(S) == CHOOSE x \in S : \A y \in S : x <= y

\* MUTANT of PositiveStep: an interval of zero is let through.
NonNegativeStep(step) == step >= 0

\* Both the constructor and time_grid require it.
PositiveStep(step) == step > 0

Accepted(j) ==
    /\ j.features # <<>> /\ j.entities # <<>>
    /\ j.start <= j.end
    /\ PositiveStep(j.step)

Entity == job.entities[e]

\* specs: where the features for the entity are in self.features.
Specs ==
    {i \in 1 .. Len(job.features) : FeatureType[job.features[i]] = EntityType[Entity]}

\* Those still to be computed at the current grid point, and the next of them.
Todo == {i \in Specs : i >= f}
Feature == job.features[SetMin(Todo)]

\* A full batch, or what is left of it after the last grid point.
MustAppend ==
    /\ buf # {}
    /\ Cardinality(buf) >= BatchSize \/ (left = {} /\ Todo = {})

Init ==
    /\ raw \in SUBSET Raw
    /\ cutoff \in Times /\ base = {} /\ seen = {}
    /\ pc = "idle"
    /\ job = (CHOOSE j \in Jobs : TRUE)
    /\ cur = job.start /\ grid = {} /\ left = {}
    /\ e = 1 /\ f = 1
    /\ buf = {} /\ n = 0 /\ total = 0
    /\ perEntity = [en \in {} |-> 0]
    /\ run = 0
    /\ pending = {} /\ published = {} /\ lost = {}
    /\ rawAt = <<>> /\ skipped = {}

-----------------------------------------------------------------------------
\* BatchBuilder(...).run(); a constructor that raises changes nothing.
Start(j) ==
    /\ pc = "idle" /\ run < MaxRuns
    /\ Accepted(j)
    /\ job' = j
    /\ run' = run + 1
    /\ cur' = j.start /\ grid' = {} /\ e' = 1 /\ f' = 1 /\ left' = {}
    /\ buf' = {} /\ n' = 0 /\ total' = 0 /\ perEntity' = [en \in {} |-> 0]
    /\ pc' = "grid"
    /\ rawAt' = Append(rawAt, raw)
    /\ UNCHANGED <<input, output, skipped>>

\* MUTANT of InGrid: a last point after the end.
InGridOrNext == cur < job.end + job.step

InGrid == cur <= job.end

\* An iteration of the loop of time_grid.
GridPoint ==
    /\ pc = "grid"
    /\ InGrid
    /\ grid' = grid \cup {cur}
    /\ cur' = cur + job.step
    /\ UNCHANGED <<input, pc, job, e, left, f, buf, counts, run, output, history>>

\* MUTANT of EnterEntity: n_for_entity is not reset.
EnterEntityCounting(k) ==
    /\ e' = k /\ buf' = {} /\ n' = n
    /\ f' = Len(job.features) + 1
    /\ \/ k <= Len(job.entities) /\ left' = grid /\ pc' = "build"
       \/ k > Len(job.entities) /\ left' = {} /\ pc' = "drain"

\* The next entity of the list starts on the whole grid; after the last one
\* comes flush_all.
EnterEntity(k) ==
    /\ e' = k /\ buf' = {} /\ n' = 0
    /\ f' = Len(job.features) + 1
    /\ \/ k <= Len(job.entities) /\ left' = grid /\ pc' = "build"
       \/ k > Len(job.entities) /\ left' = {} /\ pc' = "drain"

GridDone ==
    /\ pc = "grid"
    /\ ~InGrid
    /\ EnterEntity(1)
    /\ UNCHANGED <<input, job, cur, grid, total, perEntity, run, output, history>>

SkipEntity ==
    /\ pc = "build"
    /\ Specs = {}
    /\ EnterEntity(e + 1)
    /\ UNCHANGED <<input, job, cur, grid, total, perEntity, run, output, history>>

\* MUTANT of AsOf: the context is pinned at the end of the build.
AsOfEnd(ts) == job.end

\* Batch mode: as_of_ts = event_ts.
AsOf(ts) == ts

\* MUTANT of OpenContext: the context of the first grid point is kept.
OpenContextOnce(ts) ==
    IF left = grid THEN PIT!Open(ts) ELSE UNCHANGED input

OpenContext(ts) == PIT!Open(AsOf(ts))

\* The next grid point, with a context of its own.
NextPoint ==
    /\ pc = "build"
    /\ Specs # {} /\ Todo = {} /\ ~MustAppend
    /\ left # {}
    /\ OpenContext(SetMin(left))
    /\ left' = left \ {SetMin(left)}
    /\ f' = 1
    /\ UNCHANGED <<pc, job, cur, grid, e, buf, counts, run, output, history>>

\* The grid point the features are being computed at.
Point == SetMin({p \in grid : p \notin left /\ \A q \in grid \ left : q <= p})

\* What the feature's read may return; {} without a route to a stream.
Reads(feature) ==
    IF Entity \in DOMAIN Source
    THEN PIT!Views(Source[Entity], Point - Lookback[feature], cutoff)
    ELSE {{}}

\* compute_fn returns a value: a row for the feature.
Compute ==
    /\ pc = "build" /\ Todo # {} /\ ~MustAppend
    /\ \E V \in Reads(Feature) :
          /\ seen' = seen \cup V
          /\ buf' = buf \cup {[run |-> run, entity |-> Entity, ts |-> Point,
                               feature |-> Feature, value |-> V]}
    /\ f' = SetMin(Todo) + 1
    /\ UNCHANGED <<raw, cutoff, base, pc, job, cur, grid, e, left, counts, run,
                   output, history>>

\* compute_fn returns None, or raises before or after its read.
ComputeNothing ==
    /\ pc = "build" /\ Todo # {} /\ ~MustAppend
    /\ \E V \in {{}} \cup Reads(Feature) : seen' = seen \cup V
    /\ skipped' = skipped \cup {[run |-> run, entity |-> Entity, ts |-> Point,
                                 feature |-> Feature]}
    /\ f' = SetMin(Todo) + 1
    /\ UNCHANGED <<raw, cutoff, base, pc, job, cur, grid, e, left, buf, counts,
                   run, output, rawAt>>

\* A value float() refuses is outside the try: run raises, with neither the
\* batch appended nor the writer flushed.
ComputeRaises ==
    /\ pc = "build" /\ Todo # {} /\ ~MustAppend
    /\ \E V \in Reads(Feature) : seen' = seen \cup V
    /\ buf' = {}
    /\ pc' = "idle"
    /\ UNCHANGED <<raw, cutoff, base, loop, counts, run, output, history>>

-----------------------------------------------------------------------------
\* MUTANT of ResetBatch: rows_buf is not emptied.
KeepBatch == buf' = buf

ResetBatch == buf' = {}

\* append_many returns; it flushed the partitions that reached a threshold.
AppendBatch ==
    /\ pc = "build" /\ MustAppend
    /\ \E hs \in SUBSET Hours(buf) :
          LET flushed == InHours(pending \cup buf, Entity, hs)
          IN  /\ pending' = (pending \cup buf) \ flushed
              /\ published' = published \cup flushed
    /\ total' = total + Cardinality(buf)
    /\ n' = n + Cardinality(buf)
    /\ ResetBatch
    /\ UNCHANGED <<input, pc, loop, perEntity, run, lost, history>>

\* The flush of one of the batch's hours raises and run with it: earlier hours
\* are in the writer, the rows of this one are lost, later ones are dropped,
\* and flush_all is not called.
AppendRaises ==
    /\ pc = "build" /\ MustAppend
    /\ \E h \in Hours(buf) : \E hs \in SUBSET {g \in Hours(buf) : g < h} :
          LET taken == {r \in buf : Hour(r.ts) <= h}
              flushed == InHours(pending \cup taken, Entity, hs)
              failed == InHours(pending \cup taken, Entity, {h})
          IN  /\ pending' = (pending \cup taken) \ (flushed \cup failed)
              /\ published' = published \cup flushed
              /\ lost' = lost \cup failed
    /\ buf' = {}
    /\ pc' = "idle"
    /\ UNCHANGED <<input, loop, counts, run, history>>

EntityDone ==
    /\ pc = "build"
    /\ Specs # {} /\ Todo = {} /\ ~MustAppend
    /\ left = {}
    /\ perEntity' = [en \in DOMAIN perEntity \cup {Entity} |->
                        IF en = Entity THEN n ELSE perEntity[en]]
    /\ EnterEntity(e + 1)
    /\ UNCHANGED <<input, job, cur, grid, total, run, output, history>>

-----------------------------------------------------------------------------
(* flush_all, partition by partition *)

Partitions == {<<r.entity, Hour(r.ts)>> : r \in pending}

Drain(k) ==
    /\ pc = "drain"
    /\ LET rows == InHours(pending, k[1], {k[2]})
       IN  pending' = pending \ rows /\ published' = published \cup rows
    /\ UNCHANGED <<input, pc, loop, buf, counts, run, lost, history>>

DrainRaises(k) ==
    /\ pc = "drain"
    /\ LET rows == InHours(pending, k[1], {k[2]})
       IN  pending' = pending \ rows /\ lost' = lost \cup rows
    /\ pc' = "idle"
    /\ UNCHANGED <<input, loop, buf, counts, run, published, history>>

\* MUTANT of Drained: run returns without flush_all.
NotDrained == TRUE

Drained == pending = {}

Return ==
    /\ pc = "drain"
    /\ Drained
    /\ pc' = "idle"
    /\ UNCHANGED <<input, loop, buf, counts, run, output, history>>

-----------------------------------------------------------------------------
\* Others publish raw rows, also older than the grid points already built.
PublishRaw(r) ==
    /\ r \notin raw
    /\ PIT!Publish({r})
    /\ UNCHANGED <<pc, loop, buf, counts, run, output, history>>

\* The process dies; the next build has a writer with empty buffers.
Crash ==
    /\ pc # "idle"
    /\ lost' = lost \cup pending
    /\ pending' = {}
    /\ buf' = {}
    /\ pc' = "idle"
    /\ UNCHANGED <<input, loop, counts, run, published, history>>

Step ==
    \/ GridPoint \/ GridDone \/ SkipEntity \/ NextPoint
    \/ Compute \/ ComputeNothing \/ ComputeRaises
    \/ AppendBatch \/ AppendRaises \/ EntityDone
    \/ \E k \in Partitions : Drain(k) \/ DrainRaises(k)
    \/ Return

Next ==
    \/ \E j \in Jobs : Start(j)
    \/ Step
    \/ \E r \in Raw : PublishRaw(r)
    \/ Crash

Spec == Init /\ [][Next]_vars

\* The builder's thread is scheduled.
FairSpec == Spec /\ WF_vars(Step)

-----------------------------------------------------------------------------
(* Properties *)

Stored == pending \cup published \cup lost

TypeOK ==
    /\ raw \subseteq Raw /\ base \subseteq Raw /\ seen \subseteq Raw
    /\ cutoff \in Times
    /\ pc \in {"idle", "grid", "build", "drain"}
    /\ job \in Jobs /\ grid \subseteq Times /\ left \subseteq grid
    /\ e \in 1 .. Len(job.entities) + 1 /\ f \in 1 .. Len(job.features) + 1
    /\ buf \subseteq Row /\ Stored \subseteq Row
    /\ n \in Nat /\ total \in Nat
    /\ DOMAIN perEntity \subseteq Entities
    /\ run \in 0 .. MaxRuns /\ Len(rawAt) = run

\* "The feature may observe any input row with input.event_ts < event_ts"
\* (builder.py:11-12) and no other: each stored value comes from rows of its
\* entity's stream before the row's event_ts, whichever grid point, feature or
\* build came before.
FeaturesArePointInTime ==
    \A r \in Stored \cup buf : \A x \in r.value :
        /\ r.entity \in DOMAIN Source
        /\ StreamOf[x] = Source[r.entity]
        /\ r.ts - Lookback[r.feature] <= EventOf[x] /\ EventOf[x] < r.ts

\* ... and it observes every such row of the raw lake the build started from,
\* so a rebuild over an unchanged raw lake computes the same values.
FeaturesSeeTheLake ==
    \A r \in Stored \cup buf : r.entity \in DOMAIN Source =>
        PIT!Window(Source[r.entity], r.ts - Lookback[r.feature], r.ts,
                   rawAt[r.run]) \subseteq r.value

\* The (entity, grid point, feature) cells of a build.
Cells ==
    {[run |-> run, entity |-> en, ts |-> p, feature |-> s] :
        en \in Range(job.entities), p \in grid, s \in Range(job.features)}

Wanted == {c \in Cells : FeatureType[c.feature] = EntityType[c.entity]}

OfRun(rows) == {r \in rows : r.run = run}

\* run() that returns has published exactly one row for each cell whose feature
\* returned a value, a batch boundary and the end of an entity included.
ReturnedBuildIsPublished ==
    [][Return =>
          LET rows == OfRun(published)
          IN  /\ {Cell(r) : r \in rows} = Wanted \ skipped
              /\ Cardinality(rows) = Cardinality(Wanted \ skipped)]_vars

\* The counts run() returns are the rows the build published, in all and for
\* each entity that has features.
CountsAreTrue ==
    [][Return =>
          /\ total = Cardinality(OfRun(published))
          /\ DOMAIN perEntity = {c.entity : c \in Wanted}
          /\ \A en \in DOMAIN perEntity : perEntity[en] =
                Cardinality({r \in OfRun(published) : r.entity = en})]_vars

\* The feature lake keeps the writer's promise: a row enters it once and a
\* published one stays, across builds that fail, crash and run again.
FeatureRowsAreDurable == Writer!Spec

\* A build ends: it returns, raises or crashes.
BuildEnds == pc # "idle" ~> pc = "idle"
=============================================================================
