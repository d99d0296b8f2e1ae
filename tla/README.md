# pit-feature-store: TLA+ models and proofs

The modules in this directory model `pit-feature-store`: what each part of the
store does, in the order in which the code does it, at the grain at which other
threads, processes and files can see it. TLC checks them on small instances;
TLAPS proves the central results for every value of the constants.
`PROJECT.json` ties every definition to the source lines it stands for.

Paths below are relative to `src/src/pit_feature_store/`.

## The system

| part | state | operations | hard parts |
|---|---|---|---|
| Buffered writer, `storage/writer.py` | per-partition buffers and their ages, one lock per instance; part files and hidden temporary files | `append_many`, `flush_all`, `flush_idle`, `_flush_locked` | threads under one lock; instances with no common lock; the buffer is popped before anything can fail; crashes |
| Layout and reads, `storage/layout.py`, `storage/query.py` | the directory tree | `hour_keys`, `dts_between`, `read_data_type` | scans that overlap with publishing; pruning by date; exceptions taken for "no files" |
| Point-in-time context, `features/context.py` | `as_of_ts`, a cache per stream | `read` | the clamp; windows answered from a wider cached one; repeated widening |
| Batch builder, `features/builder.py`, `features/_time.py` | the position in three nested loops, `rows_buf`, the counts | `run` | contexts per grid point; batch boundaries; failing features, appends and flushes; rebuilds |
| Feature registry and routing, `features/registry.py`, `features/sources.py` | a dict filled at import | `register`, `@feature`, import of a pack, `list`, `clear`, `resolve` | an import that a taken name ends half way |
| Rolling pack, `features/packs/rolling.py` | none: eleven functions of a context | the features | each reads its window for itself through one cached context; NULL and tied ticks; sums and quotients of floats |
| Training-set export, `features/training.py` | `dataset.parquet` and `manifest.json` per directory | `export_training_set` | three stores and no transaction; entity-by-entity reads; grid end points |
| Manifest ledger, `manifests/db.py` | a SQLite table keyed by `manifest_id` | `init_db`, `upsert_manifest`, `get_manifest` | overwriting on key conflicts |
| Liveness auditor, `quality/liveness.py` | none: two queries and a join | `compute_stream_liveness`, `report` | edges of windows, of streams, of lookbacks, of days; data published between the queries |

They interact through files only. Collectors hand rows to a writer, which
publishes parts of the raw lake. The builder reads the raw lake through
contexts and hands rows to a writer over the feature lake. The export reads the
feature lake and writes datasets and the ledger. The auditor reads the raw lake.

What makes each part correct: the writer publishes each acknowledged row once,
in full, or loses it to a reported failure; a context never shows a row at or
after its `as_of_ts`, and shows every earlier one; a build stores one row per
cell, computed from the right window; a dataset is on its grid, holds what the
lake holds, and is described by its manifest and ledger row; the auditor calls
nothing usable that was not observed, and misses no labeled gap.

## Modules

| module | models | abstract specification |
|---|---|---|
| `ParquetWriter` | the writer | `DurableRows` |
| `AsOfContext` | `AsOfContext.read`, `read_data_type`, layout | `PointInTime` |
| `FeatureRegistry` | the registry and the import of packs | - |
| `RollingPack` | the pack's features; the inner loop of a build, composed of `FeatureRegistry` and the detailed `AsOfContext` | - |
| `BatchBuilder` | `BatchBuilder.run`, `time_grid`; composed with `PointInTime` for its contexts and with the states of `DurableRows` for its writer | `DurableRows` |
| `TrainingExport` | the export and the ledger | - |
| `StreamLiveness` | the auditor | - |
| `MC...` | values for the constants of the module they extend | |
| `..._proofs` | lemmas and theorems about the module they extend; `ParquetWriter` has a second one for its rows, and `NumberFacts_proofs` holds what is needed of numbers: least and greatest elements, induction over an interval, sequences defined step by step, powers, ranks in a finite set | |

An operator whose comment starts with MUTANT is a plausible bug of the
definition that follows it. It is used in no specification: put in the place of
that definition it breaks the property `PROJECT.json` names, which shows that the
property depends on the code.

### ParquetWriter

A row is an occurrence of a row dict, known by its partition, byte estimate and
whether validation or the Arrow conversion refuses it. `buffers`, `locked` and
`aged` are an instance's `_buffers`, `_lock` and the partitions whose
`opened_at` is `max_age_seconds` ago. A thread is `idle`, in `append`, in `sweep`
(`flush_all`, `flush_idle`) or in one of the steps of `_flush_locked`: `scan`
(conversion, `mkdir`, `_next_part_index`), `open` and `write` (the two sides of
`pq.write_table` other instances can get between), `replace`. `FlushRaises` is
an exception in any of them, which takes the temporary file with it if
`pq.write_table` raises, `Crash` the death of an instance's process. `by`
and `fd` say who truncated a file last and what became of the name of the file a
thread holds open, so that two instances on one temporary file behave as the file
system makes them.

### AsOfContext

Instants are integers, a datetime an instant with a UTC offset. A read is
`ReadEmpty`, `ReadCached`, or `ReadBegin`, a `ListDir` per hour directory and
`ReadEnd`; `Publish` renames a part into a directory at any point. `ReadFails` is
the IOException handler, whose empty table is cached: `failed` is history, the
streams it has blanked in this context. `ReadRaises` is the
empty `dt IN ()` two zones can give. The builder's `NewContext` starts over.
The decision to prune uses the local dates of the datetimes, as `dts_between`
does. Rows are selected by `event_ts`; `ingest_ts` is never looked at, so a row
that arrived late is visible to a batch build. That is the documented meaning of
point in time here and no property is stated about it. `HealthySpec` is `Spec`
without `ReadFails`. `UTCSpec`, which `context_utc` checks, is `Spec` without
`ReadRaises`, and for datetimes in UTC the two are the same (theorem
`NoReadRaisesInUTC`); reads that raise are in the `pack` run.
`PointInTime` is the promise with its exception: a read shows
what the lake had in the window, and may be blank only in a stream a query of which
has failed in the context. `Shown` maps the last answer of the code to the one of
the abstract specification.

### FeatureRegistry and RollingPack

A spec is a record, a pack the sequence of its decorators, the registry the
sequence of what is registered. `Registered` adds the specs of a pack up to the
first whose name is taken, where `register` raises and the import ends; what came
before stays, as it does in the dict, and `PackStaysTogether` says no more than that
a pack is cut short before a taken name and nowhere else. `Import` is a first
import, one more after an
import that raised, and a reload. (A plain `import` of a module that is
already in `sys.modules` does nothing: after `clear()` the pack comes back only
with a reload.)

`RollingPack` runs the registered features at a grid point: `Ask` begins a
feature's read of its own window, `Scan`, `Fetch` and `FetchFails` are the
steps of `AsOfContext`, with its cache and with parts published in between, and
`Compute` applies the feature to the table. `ORDER BY event_ts` leaves rows of one
instant in any order: `order` is chosen anew for each table DuckDB returns and kept
for slices of the cached one. Floats are whole numbers of `Bits` digits, rounded to
nearest and ties to even after every sum, difference, product and quotient (`Fl`);
square roots and logarithms are kept as what they are taken of, which is monotone.
Sums run from left to right and are rounded at each step (`FlSum`), which is the
`sum()` of Python 3.11, the oldest the package takes. From 3.12 on `sum()` of floats
is compensated. The two agree where sums are exact, and in the instance of finding 5:
three ticks of 0.1 have the sum 0.30000000000000004 either way, and those of
`pack_flat` have one sum too. A list comprehension with a condition is the
`Sublist` at the positions that meet it. Features with other windows, and one that
reads from a start in another zone, share the context.

The constants are assumed to be what the code has: finitely many ticks, sizes that
are not negative, a short window that is no longer than the long one (60s and
300s), starts of windows that are datetimes (`WindowConstants`), and a `None` that is
no value of a feature (`NoneIsNoValue`).

### BatchBuilder

`Start` is the constructor and the head of `run`, `GridPoint` an iteration of
`time_grid`, `NextPoint` the head of the loop over the grid with its fresh context,
`Compute` and `ComputeNothing` a feature that returns a value, or returns None or
raises; `ComputeRaises` is the conversion to `float`, which is outside the `try`
and ends the build. A value is the set of raw rows it was computed from, which is what
leakage and completeness are about. `AppendBatch` and `AppendRaises` are
`append_many` at the grain of its hour groups; `Drain` and `DrainRaises` are
`flush_all`. The context is the abstract one: what a read may return is
`PIT!Views`, those of a context no query of which has failed (`blind` is empty).
`AsOfContext` implements it for UTC datetimes (`ContextImplementsPointInTime`), and to
that extent the builder's properties hold: a stream blanked by an IOException gives
features of an empty table.
The builder is taken to be the only caller of its writer. Entities and features
are given once each: an entity given twice is built twice, and `per_entity` keeps
the count of the second pass only (builder.py:114).

### TrainingExport

An exporter goes through `read` (a query per entity), `grid`, `build`, and the
three stores: `open` and `write` of `dataset.parquet`, `manifest_open` and
`manifest_write`, `ledger`. `Fail` is an exception or a crash between any two of
them, `WriteRaises` an exception in `pq.write_table`, which removes the dataset, an
older one too if it is raised by the opening. Of several rows for one cell any one
may win (`Winners`), as ORDER BY
`event_ts` leaves ties open. Dates are in UTC: a query of one
entity is a step, and `AsOfContext` has what other zones do to it. Names are
sequences of tokens, so that
`ManifestId`, a concatenation, can collide as it does in the code. The hash is the
definition itself: SHA-256 is taken as injective. `alone` and `settled` are history:
which exports shared their directory with no other from the opening of the dataset
on, and which directories such an export went through last.

### StreamLiveness

`Classify` and the metrics it uses are functions of the rows of a window.
`QueryStream` and `QueryLabels` are the two queries of `report`, with events and
labels published and the clock moving in between. Rows of the same instant are
kept apart by an id. Each query is one step; `AsOfContext` has the grain of a
scan. An event is not before the window it is tagged with.

## Runs

| run | bounds | shows |
|---|---|---|
| `writer_one` | 1 instance, 2 threads, 2 partitions, 4 rows, thresholds of 2 rows and 4 bytes, a directory with a gap in its part numbers; failures, crashes, fairness | acknowledged rows are accounted for, one place per row, thresholds, rejected batches, complete and immutable parts, `flush_all`, refinement of `DurableRows`; the lock is released and no row waits for ever |
| `writer_shared` | 2 instances, one partition | finding: a half-written part becomes visible |
| `context_utc` | 2 streams, 3 rows, 4 instants over two days; failing queries | no leakage, exact windows, complete and agreeing reads of every stream that no query has blanked, refinement of `PointInTime` |
| `context_zones` | 2 rows of one stream, an offset of -2, `HealthySpec`: no query fails, so that only the pruning of directories can lose a row | finding: incomplete reads |
| `pack` | the whole pack, 2 other features, 2 entities, 4 ticks (two of one instant, one NULL, one without size), 2 grid points, offsets -1, 0 and 2, failing reads | the pack stays together; its values describe one window; means lie between extremes; None only for want of data |
| `pack_flat` | 3 equal ticks, floats of 4 digits | finding: a flat window has a z-score |
| `builder` | 2 builds out of 7 jobs, 3 entities of 2 types, 2 raw rows, batches of 2; failures, crashes, fairness | values come from the right rows; rows enter the feature lake once; cells and counts of a build that returns; builds end |
| `export_table` | 3 definitions, one with an interval of zero, 6 feature rows, two of them for one cell; failing labels, fairness | tables match grid and lake; exports end unless their interval is zero |
| `export_stores` | 2 exporters, 2 directories, 3 definitions, 3 exports, failures, unreadable files | records never precede data; an export that runs alone restores agreement |
| `export_flags` | 1 definition, 2 exports | finding: regeneration is not exact |
| `audit` | 3 windows of 4 units, 2 entities, 8 events, two of them past the close of their window, 2 labels, a lookback of 4 units over days of 6, failing queries | usable windows were observed throughout; blackouts, gaps and lookback; what is called missing is silent |
| `audit_edges` | 3 windows | finding: missing windows at the ends of a stream |

Why these bounds: the interesting cases of the writer need two threads on one
lock, two instances on one directory, a batch that fills one partition and not
the other, and a failure with rows of an earlier call in the buffer; four rows
give them all. A context needs a row on each side of midnight, one of another
stream in the same hour, and three reads of one stream to widen the cache twice. The
pack needs two
valued ticks for a deviation, two at one instant for `last`, and a window that
another feature's cached table does not cover. A build needs two grid points, a batch
that is full and one that is not, and a second build with what a failed one left in
the writer. An export needs an older one of the same directory, and one that
fails in between. A window of the auditor needs two events to be usable, and two far
apart to be dead; an event that spills into a lookback whose start cuts off the next
window makes that one look missing. Named bounds of the models are `MaxRuns`,
`MaxExports` and
`MaxTime`. The runs are small because what they check, liveness apart, is also
proved for every size (below).

`CHECK_DEADLOCK FALSE` is set for `BatchBuilder` and `TrainingExport`, whose
bounded behaviours end when the last build or export is done. The other
models never stop: contexts are made, flushes called and audits made again.

## Fairness

`ParquetWriter`: threads inside a call are scheduled (weak fairness of `Step`);
time passes (weak fairness of `Age`); and `flush_idle`, whose docstring says "Call
periodically", is called again and again by a caller that gets the lock if it is
free infinitely often (strong fairness of `FlushIdle`). That last one is an
assumption about the lock: a thread that waits for a `threading.Lock` is woken
when it is released, but nothing forbids others to overtake it. Nothing is
assumed of appends, `flush_all`, failures or crashes. `BatchBuilder`: the thread
of a build is scheduled, and it ends: it returns, raises or crashes.
`TrainingExport`: so is the thread of each exporter, and an export ends, or stays in
`_grid` with an interval of zero. Neither promises that a build or an export
succeeds. The other modules state no liveness.

## Findings

Five are runs that TLC finds violated; `PROJECT.json` quotes the lines.

1. Two writer instances on one partition publish a half-written part
   (`writer_shared`).
2. `dts_between` compares local dates with UTC partitions and loses rows
   (`context_zones`): an hour behind UTC, the first hour of a day has the local date
   of the day before, its directory is pruned, and a row in it is in no answer.
3. `require_all_features` decides which rows a dataset has and is not in the
   manifest, so one hash stands for two datasets (`export_flags`).
4. Labeled windows without events at the ends of a stream, or of an entity
   without any, are not reported (`audit_edges`).
5. A deviation from a rounded mean is compared with zero, so a window of equal
   values may have a z-score (`pack_flat`). Three ticks of 0.1 do it in Python: the
   score is -0.82 where None is meant. Rounding is the only cause: where sums are
   exact it is a theorem that there is no score (`FlatHasNoScoreIfExact`).

The modules hold the code behind these too, where a property makes an exception for
it, or under constants no run has or assumptions the theorems name:

6. `ReadFails` of `AsOfContext`: every IOException is an empty table, and the empty
   table is cached, so that later reads of that stream in that context may be blank.
   `ReadsAreComplete`, `ReadsAgree` and `PointInTime` confine it to that: no other
   stream and no later context is touched. An export that meets one blanks cells
   without a word (`"io"` in `Faults`; `TableMatchesLake` fails).
7. `TrainingExport` with the experiments `a_v1`, version `2`, and `a`, version
   `1_v2`: one `manifest_id`, one ledger row, and `ProvenanceRestored` fails
   (assumption `IdsAreUnique`).
8. `TrainingExport` with two rows for a cell, as a rebuild leaves them:
   `RegenerationIsExact` fails, for either may win.
9. `TrainingExport` with a step of zero: `_grid`, a copy of `time_grid` without its
   check, does not end. `ExportEnds` excepts just that.
10. `TrainingExport` after an export that failed between its stores: dataset,
    manifest and ledger disagree until the next one goes through.
11. `StreamLiveness` with a lookback and an event spilled past the close of its
    window: the late event keeps its own window in the report while a later window
    whose events are all older falls out of the lookback, and that one is called
    missing though it had events. `MissingIsSilent` excepts just those events.

## Proofs

Every theorem is about the specification the runs check (of `AsOfContext`: `Spec`,
which for UTC datetimes is the `UTCSpec` of the run), for every value of the
constants that satisfies the module's ASSUME and the assumptions the theorem names.
Each rests on an inductive invariant: it is shown of the initial states, then for
each action in a lemma of its own, and implies the property.

### `ParquetWriter_proofs`, `ParquetWriterRows_proofs`

- `TypeCorrect`: `[]TypeOK`. `TypeInv` adds that a directory has a largest part
  number, so that `_next_part_index` has a value, and what `fd` says of files held
  open.
- `PartsAreComplete`, `PartsAreImmutable`: if no two instances are given rows of
  one partition (`OwnsDisjoint`), every file under a part name is complete and no step
  changes one. `WriterInv` adds mutual exclusion of the threads of an instance
  (`Mutex`), that a thread flushes a partition its instance owns (`Ownership`),
  and that the slot it holds is free and its file its own (`Slots`).
- `ThresholdsHold`: whenever the lock is free no buffer has reached a threshold.
- `AckedRowsAreAccounted`, `RowsHaveOnePlace`, `RejectedBatchesLeaveNoTrace`,
  `WriterImplementsDurableRows`, `FlushAllPublishesHolds`: the fate of rows, again
  under `OwnsDisjoint`. `RowsInv` says that buffers, flushes under way, parts and what
  was lost are disjoint pools of rows (`Apart`, `PartsApart`), that a flush holds rows
  of its partition, and that the rows of a call are in a pool from the moment
  they are taken (`CallsKept`). Disjointness does not follow from the property alone:
  that a flush which is about to rename does not hold rows of an older part needs
  the free slot of `WriterInv`.

`writer_shared` shows that `OwnsDisjoint` is needed.

### `AsOfContext_proofs`

- `ContextTypeCorrect`: `[]TypeOK`.
- `NoLeakageHolds`, `ReadsStayInWindowHolds`: for any zones and failures, from
  `SoundInv` (what is cached or listed is of the stream, in the lake, before
  `as_of_ts`).
- `NoReadRaisesInUTC`: for UTC datetimes (`UTCOnly`) `Spec` implies `UTCSpec`, because
  the list of dates of a read holds the date of its start (`PruningIsSound`).
- `ReadsAreCompleteHolds`, `ReadsAgreeHolds`, `ContextImplementsPointInTime`: for
  UTC datetimes and any I/O failures, from `CompleteInv` (a cached table,
  and a scan for the directories it has listed, holds every row of its window that
  was there when the context was made or was returned since; the cached table of a
  stream a query of which has failed may be short of some). `context_zones` shows
  that the assumption is needed.

### `RollingPack_proofs`

- `PackStaysTogetherHolds`: the registered features of a pack are its first ones,
  side by side, and end only before a taken name, when no spec is in two packs or in a
  pack and outside. The invariant
  makes the place and the length of each pack's block explicit: an import adds
  either nothing, because the first name is taken, or a block at the end.
- `PackTypeCorrect`, `PackIsAContext`, `PackDoesNotLeak`: from `PackSound`, which
  holds the types, the blocks of registry and plan, and `SoundInv` of the context. Every
  step of the pack is a step of `AsOfContext` or a stutter, so what is proved of a
  context for any sequence of reads holds while features are computed.
- `NoneIsInsufficientHolds`: from `AskInv` (a scan is for the window of the feature
  that asked; when it is over, the answer is the part of the cached table in that
  window) and `CleanInv` (as long as nothing failed and the point is in UTC, the
  context's `CompleteInv`). A clean read then returns every tick of the window that was
  there, and the rest is about the features: enough ticks make a value.
- `FeaturesAgreeHolds`: from `AgreeInv`, which names the rows and the order of the one
  table that the features of the long window computed so far describe, and says that
  the cache still holds it for the next feature of the pack. It is an invariant only
  because a pack stays together: a feature of a wider window between two of them
  would replace the cached table. It needs no assumption on rounding.
- `MeansAreBetweenHolds`, `FlatHasNoScoreIfExact`: where sums are exact
  (`SumsAreExact`: as many terms as there are ticks stay below `2 ^ Bits`), from the
  same invariant. That the short window's mean lies between the long one's extremes
  needs what the first feature read to be in the table of the second, which is
  `CompleteInv` again. The constants of `pack` satisfy the assumption (48 bounds values
  and products, and 4 * 48 is below `2 ^ 10`); those of `pack_flat` do not, and there a
  mean of equal values is below them.

The lemmas under these are about lists in order (`AscendingFacts`,
`SublistFacts`, `InOrderFacts`), floats (`FlForm`: a float is a whole number of a unit,
which is 1 within the digits; `FlBetween`, `FlExact`), sums (`ExactSteps`,
`SumsBetween`, `PositiveSum`, `SquaresFacts`) and the values of a table
(`ValueBasics`, `ExtremesFacts`, `FeatureFacts`, `VwapFacts`). A sum is a recursive
function; that it exists is `StepByStep`, and what it computes is shown by induction in
the form of a set: a set of numbers of `0 .. n` that holds 0 and with each number the
next one is all of it.

### `BatchBuilder_proofs`

- `BuilderIsTyped`: `[]TypeOK`, with `LoopInv`, which says where the loops are: the
  grid points done precede those left, and between them is `as_of_ts`, the
  greatest of those done.
- `FeaturesArePointInTimeHolds`, `FeaturesSeeTheLakeHolds`: from `ValueInv` and
  the fact that the grid point computed at is the context's `as_of_ts`
  (`PointIsCutoff`) and that the context is no older than the build.
- `FeatureRowsAreDurableHolds`, `ReturnedBuildIsPublishedHolds`: from `RowsInv`. It
  relates rows to loop positions: the cells of the build that have a row or were
  skipped are exactly those the three loops have passed, and no two rows have one
  cell. Without "exactly" it is not inductive: that a new row's cell is new needs
  that a marked cell is a passed one.
- `CountsAreTrueHolds`: from `CountInv`, which says what `total`, `n_for_entity` and
  each finished entry of `per_entity` count.

These make every safety property of the builder a theorem, for any jobs, batch size
and number of builds.

### `TrainingExport_proofs`

- `ExportTypes`: `[]TypeOK`; `GridInv` says that the grid stays between start and end.
- `RecordsFollowDataHolds`: `RecordsInv`, by the position of each exporter.
- `ProvenanceRestoredHolds`: under `IdsAreUnique` (two specs with one `manifest_id`
  have one directory), from `ProvenanceInv`: an exporter that had its directory to
  itself so far has left its own definition in every store it is past, and no other
  exporter is between opening and ledger there.
- `TableMatchesLakeHolds`: when no query meets an IOException (`"io"` is not in
  `Faults`), from `TableInv`: what a query returned covers the rows that were in the
  lake when the export began, entity by entity.

### `StreamLiveness_proofs`

The module's state is small and the work is in its operators, which are about
finite sets of events. The lemmas take least and greatest elements from
`NumberFacts_proofs`.

- `AuditTypes`: `[]TypeOK`; `ReportInv` says that the report is the function of the two
  snapshots that the code computes, `ClockInv` orders the times of the queries, and
  `LabelInv` says which labels must be there.
- `UsableIsCoveredHolds`: an event-free stretch inside a window lies between two
  consecutive instants or at an edge, and each metric bounds one of those.
- `BlackoutsAreDeadHolds`, `LookbackIsExactHolds`: the dates a lookback adds are a
  superset of those its windows touch, for any day length.
- `MissingIsSilentHolds`: a slot called missing has no row in the query, and the query
  has every event that is not older than the lookback.
- `InteriorGapsAreReportedHolds`: if windows start a whole number of windows apart
  (`Aligned`), for the search steps from the first observed one by `window`.

### Only model-checked

Liveness (`LockIsReleased`, `BufferedRowsSettle`, `BuildEnds`, `ExportEnds`), which is
out of the prover's reach, and the five findings, each a behaviour that exists. Every
other property of a run is a theorem.

## Not modelled

`paths.py` and the package files (names); `storage/schema.py` (tables of fields: that
a row is refused by validation or by Arrow is modelled, which field made it is
not); `render` and logging (text); `load_training_set`, `get_manifest`,
`buffered_partitions`, `get` and `__contains__` (they change nothing); `_migrate`,
which is empty; the estimate of a row's bytes, which is a constant of the row.

## Plan

Done, in this order: writer, context, builder, export, auditor; registry and
rolling pack; proofs of every safety property of the writer, the context, the
builder, the export, the auditor, the registry and the pack. What could follow:

1. A composition of builder, export and auditor over the two lakes: an export
   concurrent with a build, behind the gate of usable windows. `TableMatchesLake`
   already lets the feature lake grow during an export, and `FeatureRowsAreDurable`
   says what a build may do to it.
2. A refinement from the feature lake of `BatchBuilder` to the rows
   `TrainingExport` reads, with the duplicates a rebuild leaves.
