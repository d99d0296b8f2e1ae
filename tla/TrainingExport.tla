--------------------------- MODULE TrainingExport ---------------------------
(***************************************************************************)
(* export_training_set (features/training.py) and the manifest ledger      *)
(* (manifests/db.py): the feature lake is read entity by entity, the rows  *)
(* of the time grid are assembled and labelled, and three stores are       *)
(* written one after the other: dataset.parquet, manifest.json and the row *)
(* of the SQLite ledger.  Several exporters run at once, the lake grows    *)
(* meanwhile, and an export may fail or die between any two steps.         *)
(*                                                                         *)
(* The query of one entity is atomic here; AsOfContext has the details of  *)
(* such a read.                                                            *)
(***************************************************************************)
EXTENDS Integers, Sequences, FiniteSets, Functions

CONSTANTS
    Exporters,    \* processes that export
    Specs,        \* TrainingSetSpecs
    SpecsOf,      \* the ones an exporter exports
    FeatureRows,  \* rows a build may publish in the feature lake
    LabelOf,      \* what label_fn returns for <<entity, ts>>; Null for None
    RequireAll,   \* values of require_all_features callers use
    Faults,       \* kinds of failure that happen
    MaxExports,   \* bound: exports in a behaviour
    Null

ASSUME ExportConstants ==
    /\ Specs # {}
    /\ SpecsOf \in [Exporters -> SUBSET Specs]
    /\ RequireAll \subseteq BOOLEAN
    /\ Faults \subseteq {"fail", "io", "label"}
    /\ MaxExports \in Nat
    /\ \A s \in Specs :
          /\ s.entities \in Seq(Range(s.entities)) /\ IsInjective(s.entities)
          /\ s.start \in Int /\ s.end \in Int /\ s.step \in Nat

VARIABLES
    lake,         \* the feature lake
    pc,           \* where an exporter is
    spec,         \* what it exports
    reqAll,       \* its require_all_features
    pos,          \* position in spec.entities of the next query
    cells,        \* feature_rows: the row that won each (entity, ts, feature)
    cur,          \* loop variable of _grid
    grid,
    table,        \* the rows of the dataset
    linked,       \* the dataset file an exporter has open has its name still
    data,         \* data[dir]: dataset.parquet
    json,         \* json[dir]: manifest.json
    ledger,       \* ledger[id]: row of training_set_manifests
    exports       \* exports begun

\* History, used by the properties only.
VARIABLES
    lakeAt,       \* the lake when an exporter began
    written,      \* <<dir, spec>> of the datasets written to the end
    made,         \* [spec, lake, table] of the tables built from a still lake
    alone,        \* exporters that have shared their directory with no other
                  \* since they opened the dataset
    settled       \* directories an export that ran alone went through last

request == <<spec, reqAll>>
rows    == <<pos, cells, cur, grid, table>>
disk    == <<linked, data, json, ledger>>
contest == <<alone, settled>>
history == <<lakeAt, written, made, contest>>
vars    == <<lake, pc, request, rows, disk, exports, history>>

-----------------------------------------------------------------------------
(* Names and hashes *)

\* f"{experiment}_v{version}", on names split into tokens.
ManifestId(s) == s.experiment \o <<"_v">> \o s.version

\* training_root / exp=<experiment> / v=<version>
ExportDir(s) == <<s.experiment, s.version>>

Ids == {ManifestId(s) : s \in Specs}
Dirs == {ExportDir(s) : s \in Specs}

\* SHA-256 of the canonical JSON of all fields: injective in them.
ManifestHash(s) == s

Absent == [state |-> "absent"]
NoRow == [state |-> "none"]

AnySpec == CHOOSE s \in Specs : TRUE

Init ==
    /\ lake \in SUBSET FeatureRows
    /\ pc = [x \in Exporters |-> "idle"]
    /\ spec = [x \in Exporters |-> AnySpec]
    /\ reqAll = [x \in Exporters |-> FALSE]
    /\ pos = [x \in Exporters |-> 1]
    /\ cells = [x \in Exporters |-> {}]
    /\ cur = [x \in Exporters |-> 0]
    /\ grid = [x \in Exporters |-> {}]
    /\ table = [x \in Exporters |-> {}]
    /\ linked = [x \in Exporters |-> FALSE]
    /\ data = [d \in Dirs |-> Absent]
    /\ json = [d \in Dirs |-> Absent]
    /\ ledger = [i \in Ids |-> NoRow]
    /\ exports = 0
    /\ lakeAt = [x \in Exporters |-> {}]
    /\ written = {} /\ made = {}
    /\ alone = {} /\ settled = {}

\* MUTANT of After: the records are written before the data.
AfterRecordsFirst(phase) ==
    CASE phase = "read" -> "grid"
      [] phase = "grid" -> "build"
      [] phase = "build" -> "manifest_open"
      [] phase = "manifest_write" -> "ledger"
      [] phase = "ledger" -> "open"
      [] phase = "write" -> "idle"

\* The order of export_training_set.
After(phase) ==
    CASE phase = "read" -> "grid"
      [] phase = "grid" -> "build"
      [] phase = "build" -> "open"
      [] phase = "write" -> "manifest_open"
      [] phase = "manifest_write" -> "ledger"
      [] phase = "ledger" -> "idle"

Goto(x, phase) == pc' = [pc EXCEPT ![x] = phase]

-----------------------------------------------------------------------------
(* Reading and assembling *)

Begin(x, s, all) ==
    /\ pc[x] = "idle" /\ exports < MaxExports
    /\ exports' = exports + 1
    /\ spec' = [spec EXCEPT ![x] = s]
    /\ reqAll' = [reqAll EXCEPT ![x] = all]
    /\ pos' = [pos EXCEPT ![x] = 1]
    /\ cells' = [cells EXCEPT ![x] = {}]
    /\ cur' = [cur EXCEPT ![x] = s.start]
    /\ grid' = [grid EXCEPT ![x] = {}]
    /\ table' = [table EXCEPT ![x] = {}]
    /\ Goto(x, "read")
    /\ lakeAt' = [lakeAt EXCEPT ![x] = lake]
    /\ UNCHANGED <<lake, disk, written, made, contest>>

\* MUTANT of QueryEnd: the exclusive end is not padded.
UnpaddedEnd(s) == s.end

\* One microsecond, the unit of time here, past the right endpoint.
QueryEnd(s) == s.end + 1

\* Rows of the query of one entity that reach the loop's last line.
Queried(s, entity) ==
    {r \in lake : /\ r.entity = entity
                  /\ s.start <= r.ts /\ r.ts < QueryEnd(s)
                  /\ r.feature \in Range(s.features)
                  /\ r.value # Null}

SameCell(q, r) == q.ts = r.ts /\ q.feature = r.feature

\* The last row of a cell wins; ORDER BY event_ts leaves their order open.
Winners(found) ==
    {S \in SUBSET found : /\ \A r \in found : \E q \in S : SameCell(q, r)
                          /\ \A q, r \in S : SameCell(q, r) => q = r}

\* A query that raises IOException returns the empty table.
ReadEntity(x) ==
    /\ pc[x] = "read"
    /\ pos[x] <= Len(spec[x].entities)
    /\ \E found \in {Queried(spec[x], spec[x].entities[pos[x]])}
                       \cup (IF "io" \in Faults THEN {{}} ELSE {}) :
          \E S \in Winners(found) : cells' = [cells EXCEPT ![x] = @ \cup S]
    /\ pos' = [pos EXCEPT ![x] = @ + 1]
    /\ UNCHANGED <<lake, pc, request, cur, grid, table, disk, exports, history>>

ReadDone(x) ==
    /\ pc[x] = "read"
    /\ pos[x] > Len(spec[x].entities)
    /\ Goto(x, After("read"))
    /\ UNCHANGED <<lake, request, rows, disk, exports, history>>

\* MUTANT of InGrid: a last point after the end.
InGridOrNext(x) == cur[x] < spec[x].end + spec[x].step

InGrid(x) == cur[x] <= spec[x].end

\* MUTANT of GridPoint: cur is not advanced.
GridPointStuck(x) ==
    /\ pc[x] = "grid"
    /\ InGrid(x)
    /\ grid' = [grid EXCEPT ![x] = @ \cup {cur[x]}]
    /\ UNCHANGED <<lake, pc, request, pos, cells, cur, table, disk, exports, history>>

\* An iteration of _grid, which does not look at the sign of its step.
GridPoint(x) ==
    /\ pc[x] = "grid"
    /\ InGrid(x)
    /\ grid' = [grid EXCEPT ![x] = @ \cup {cur[x]}]
    /\ cur' = [cur EXCEPT ![x] = @ + spec[x].step]
    /\ UNCHANGED <<lake, pc, request, pos, cells, table, disk, exports, history>>

GridDone(x) ==
    /\ pc[x] = "grid"
    /\ ~InGrid(x)
    /\ Goto(x, After("grid"))
    /\ UNCHANGED <<lake, request, rows, disk, exports, history>>

Points(x) == Range(spec[x].entities) \X grid[x]

ValueAt(x, p, feature) ==
    LET hits == {r \in cells[x] : r.entity = p[1] /\ r.ts = p[2] /\ r.feature = feature}
    IN  IF hits = {} THEN Null ELSE (CHOOSE r \in hits : TRUE).value

Kept(x) ==
    {p \in Points(x) :
        reqAll[x] => \A n \in Range(spec[x].features) : ValueAt(x, p, n) # Null}

\* A label_fn that raises leaves the label NULL.
BuildTable(x) ==
    /\ pc[x] = "build"
    /\ \E failed \in IF "label" \in Faults THEN SUBSET Kept(x) ELSE {{}} :
          table' = [table EXCEPT ![x] =
              {[point |-> p,
                features |-> [n \in Range(spec[x].features) |-> ValueAt(x, p, n)],
                label |-> IF p \in failed THEN Null ELSE LabelOf[p]] : p \in Kept(x)}]
    /\ made' = IF lake # lakeAt[x] THEN made
               ELSE made \cup {[spec |-> spec[x], lake |-> lake, table |-> table'[x]]}
    /\ Goto(x, After("build"))
    /\ UNCHANGED <<lake, request, pos, cells, cur, grid, disk, exports, lakeAt, written,
                   contest>>

-----------------------------------------------------------------------------
(* The three stores *)

\* The exporters with stores of a directory open or still to be written.
Writing(d) ==
    {x \in Exporters : /\ ExportDir(spec[x]) = d
                       /\ pc[x] \in {"write", "manifest_open", "manifest_write", "ledger"}}

\* pq.write_table truncates the dataset in place, or creates it.
OpenDataset(x) ==
    LET d == ExportDir(spec[x])
    IN  /\ pc[x] = "open"
        /\ data' = [data EXCEPT ![d] = [state |-> "partial", by |-> x]]
        /\ linked' = [linked EXCEPT ![x] = TRUE]
        /\ alone' = IF Writing(d) = {} THEN alone \cup {x} ELSE alone \ Writing(d)
        /\ settled' = settled \ {d}
        /\ Goto(x, "write")
        /\ UNCHANGED <<lake, request, rows, json, ledger, exports, lakeAt, written, made>>

\* x's bytes end up in the file it opened, if that still has a name; two
\* writers of one file leave no valid one.
WriteDataset(x) ==
    LET d == ExportDir(spec[x])
    IN  /\ pc[x] = "write"
        /\ data' =
              IF ~linked[x] THEN data
              ELSE IF data[d] = [state |-> "partial", by |-> x]
              THEN [data EXCEPT ![d] = [state |-> "complete", spec |-> spec[x],
                                        table |-> table[x]]]
              ELSE [data EXCEPT ![d] = [state |-> "garbled"]]
        /\ linked' = [linked EXCEPT ![x] = FALSE]
        /\ written' = written \cup {<<d, spec[x]>>}
        /\ Goto(x, After("write"))
        /\ UNCHANGED <<lake, request, rows, json, ledger, exports, lakeAt, made,
                       contest>>

OpenManifest(x) ==
    /\ pc[x] = "manifest_open"
    /\ json' = [json EXCEPT ![ExportDir(spec[x])] = [state |-> "partial"]]
    /\ Goto(x, "manifest_write")
    /\ UNCHANGED <<lake, request, rows, linked, data, ledger, exports, history>>

\* Two manifests of one directory have almost the same bytes: the last writer
\* is taken to win.
WriteManifest(x) ==
    /\ pc[x] = "manifest_write"
    /\ json' = [json EXCEPT ![ExportDir(spec[x])] =
                   [state |-> "complete", hash |-> ManifestHash(spec[x])]]
    /\ Goto(x, After("manifest_write"))
    /\ UNCHANGED <<lake, request, rows, linked, data, ledger, exports, history>>

\* MUTANT of Upsert: ON CONFLICT DO NOTHING.
InsertOnly(s) ==
    ledger' = [ledger EXCEPT ![ManifestId(s)] =
        IF @ # NoRow THEN @
        ELSE [state |-> "row", hash |-> ManifestHash(s), path |-> ExportDir(s)]]

\* init_db, then one transaction: insert, or update of every column.
Upsert(s) ==
    ledger' = [ledger EXCEPT ![ManifestId(s)] =
        [state |-> "row", hash |-> ManifestHash(s), path |-> ExportDir(s)]]

WriteLedger(x) ==
    /\ pc[x] = "ledger"
    /\ Upsert(spec[x])
    /\ settled' = IF x \in alone THEN settled \cup {ExportDir(spec[x])} ELSE settled
    /\ alone' = alone \ {x}
    /\ Goto(x, After("ledger"))
    /\ UNCHANGED <<lake, request, rows, linked, data, json, exports, lakeAt, written, made>>

-----------------------------------------------------------------------------
\* The export raises (disk, SQLite, memory) or its process dies.
Fail(x) ==
    /\ "fail" \in Faults
    /\ pc[x] # "idle"
    /\ Goto(x, "idle")
    /\ linked' = [linked EXCEPT ![x] = FALSE]
    /\ alone' = alone \ {x}
    /\ UNCHANGED <<lake, request, rows, data, json, ledger, exports, lakeAt, written, made,
                   settled>>

\* A write_table that raises, at its opening too, removes the file of its name,
\* whoever wrote it.
WriteRaises(x) ==
    LET d == ExportDir(spec[x])
    IN  /\ "fail" \in Faults
        /\ pc[x] \in {"open", "write"}
        /\ Goto(x, "idle")
        /\ data' = [data EXCEPT ![d] = Absent]
        /\ linked' = [y \in Exporters |->
                         IF ExportDir(spec[y]) = d THEN FALSE ELSE linked[y]]
        /\ alone' = alone \ Writing(d)
        /\ settled' = settled \ {d}
        /\ UNCHANGED <<lake, request, rows, json, ledger, exports, lakeAt, written, made>>

\* A build publishes feature rows; one of them per step.
PublishFeature(r) ==
    /\ r \notin lake
    /\ lake' = lake \cup {r}
    /\ UNCHANGED <<pc, request, rows, disk, exports, history>>

Step(x) ==
    \/ ReadEntity(x) \/ ReadDone(x) \/ GridPoint(x) \/ GridDone(x) \/ BuildTable(x)
    \/ OpenDataset(x) \/ WriteDataset(x) \/ OpenManifest(x) \/ WriteManifest(x)
    \/ WriteLedger(x)

Next ==
    \/ \E x \in Exporters :
          \/ \E s \in SpecsOf[x], all \in RequireAll : Begin(x, s, all)
          \/ Step(x)
          \/ Fail(x) \/ WriteRaises(x)
    \/ \E r \in FeatureRows : PublishFeature(r)

Spec == Init /\ [][Next]_vars

\* Exporters are scheduled.
FairSpec == Spec /\ \A x \in Exporters : WF_vars(Step(x))

-----------------------------------------------------------------------------
(* Properties *)

Phases == {"idle", "read", "grid", "build", "open", "write", "manifest_open",
           "manifest_write", "ledger"}

TypeOK ==
    /\ lake \subseteq FeatureRows
    /\ pc \in [Exporters -> Phases]
    /\ spec \in [Exporters -> Specs] /\ reqAll \in [Exporters -> BOOLEAN]
    /\ \A x \in Exporters :
          /\ pos[x] \in 1 .. Len(spec[x].entities) + 1
          /\ cells[x] \subseteq FeatureRows
          /\ grid[x] \subseteq spec[x].start .. spec[x].end
    /\ linked \in [Exporters -> BOOLEAN]
    /\ DOMAIN data = Dirs /\ DOMAIN json = Dirs /\ DOMAIN ledger = Ids
    /\ \A d \in Dirs :
          /\ data[d].state \in {"absent", "partial", "complete", "garbled"}
          /\ json[d].state \in {"absent", "partial", "complete"}
    /\ \A i \in Ids : ledger[i].state \in {"none", "row"}

Built(x) == pc[x] \notin {"idle", "read", "grid", "build"}

Features(x) == Range(spec[x].features)

\* The feature rows of a cell in a version of the lake.
In(version, p, feature) ==
    {r \in version : r.entity = p[1] /\ r.ts = p[2] /\ r.feature = feature
                     /\ r.value # Null}

\* The points start, start + step, ..., last <= end.
GridOf(s) == {g \in s.start .. s.end : (g - s.start) % s.step = 0}

\* A dataset has one row per entity and grid point, the right endpoint
\* included; a cell holds a value of the lake, and is NULL only if the lake had
\* none when the export began, so no grid point is blank that the lake covers.
TableMatchesLake ==
    \A x \in Exporters : Built(x) =>
        LET wanted == Range(spec[x].entities) \X GridOf(spec[x])
            got == {t.point : t \in table[x]}
        IN  /\ got \subseteq wanted
            /\ Cardinality(got) = Cardinality(table[x])
            /\ \A p \in wanted : (~reqAll[x]
                     \/ \A n \in Features(x) : In(lakeAt[x], p, n) # {}) => p \in got
            /\ \A t \in table[x] : \A n \in Features(x) :
                  IF t.features[n] = Null
                  THEN ~reqAll[x] /\ In(lakeAt[x], t.point, n) = {}
                  ELSE \E r \in In(lake, t.point, n) : r.value = t.features[n]

\* Ledger and manifest.json never describe data that was not written before:
\* whatever fails, crashes or runs concurrently, a record follows its dataset.
RecordsFollowData ==
    /\ \A i \in Ids : ledger[i] # NoRow =>
          <<ledger[i].path, ledger[i].hash>> \in written
    /\ \A d \in Dirs : json[d].state = "complete" =>
          <<d, json[d].hash>> \in written

\* "The provenance of any dataset is one query away" (README.md), for what an
\* export that had its directory to itself left behind: until the next export
\* opens the dataset or fails to, dataset, manifest.json and ledger row hold one
\* definition, whatever failed, crashed or collided in that directory before.
ProvenanceRestored ==
    \A d \in settled : \E s \in Specs :
        /\ ExportDir(s) = d
        /\ data[d].state = "complete" /\ data[d].spec = s
        /\ json[d] = [state |-> "complete", hash |-> ManifestHash(s)]
        /\ ledger[ManifestId(s)] = [state |-> "row", path |-> d, hash |-> ManifestHash(s)]

\* "Given a row here, the exact dataset can be regenerated" (db.py:5-6): two
\* exports of one definition from the same lake give the same table.
RegenerationIsExact ==
    \A m, o \in made :
        ManifestHash(m.spec) = ManifestHash(o.spec) /\ m.lake = o.lake
            => m.table = o.table

\* _grid never gets past the end of such a spec: training.py accepts an interval
\* of zero.
Endless(s) == s.step = 0 /\ s.start <= s.end

\* An export ends, with its dataset or an exception, however long its grid: no
\* store, label or published row keeps it from the next step.  The only exports
\* that do not are those of a zero interval over a range that is not empty, and
\* these are in _grid, not at a store, a label or a query.
ExportEnds ==
    \A x \in Exporters :
        pc[x] # "idle" ~> pc[x] = "idle" \/ (pc[x] = "grid" /\ Endless(spec[x]))
=============================================================================
