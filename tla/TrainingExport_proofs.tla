----------------------- MODULE TrainingExport_proofs -----------------------
(***************************************************************************)
(* Theorems about TrainingExport, for any exporters, specs, feature rows   *)
(* and failures.                                                           *)
(***************************************************************************)
EXTENDS TrainingExport, FiniteSetTheorems, TLAPS

-----------------------------------------------------------------------------
(* Shapes *)

\* The variables are functions of exporters, directories and ids.
Shape ==
    /\ lake \subseteq FeatureRows
    /\ pc \in [Exporters -> Phases]
    /\ spec \in [Exporters -> Specs] /\ reqAll \in [Exporters -> BOOLEAN]
    /\ DOMAIN pos = Exporters /\ DOMAIN cells = Exporters /\ DOMAIN cur = Exporters
    /\ DOMAIN grid = Exporters /\ DOMAIN table = Exporters /\ DOMAIN lakeAt = Exporters
    /\ linked \in [Exporters -> BOOLEAN]
    /\ DOMAIN data = Dirs /\ DOMAIN json = Dirs /\ DOMAIN ledger = Ids
    /\ \A d \in Dirs :
          /\ data[d].state \in {"absent", "partial", "complete", "garbled"}
          /\ json[d].state \in {"absent", "partial", "complete"}
    /\ \A i \in Ids : ledger[i].state \in {"none", "row"}

LEMMA InitShape == Init => Shape
<1> SUFFICES ASSUME Init PROVE Shape
  OBVIOUS
<1>1. AnySpec \in Specs
  BY ExportConstants DEF AnySpec
<1> QED BY <1>1 DEF Init, Shape, Phases, Absent, NoRow

LEMMA DirsAndIds ==
    ASSUME Shape, NEW x \in Exporters
    PROVE  ExportDir(spec[x]) \in Dirs /\ ManifestId(spec[x]) \in Ids /\ spec[x] \in Specs
BY DEF Shape, Dirs, Ids

LEMMA NextPhases ==
    /\ After("read") = "grid" /\ After("grid") = "build" /\ After("build") = "open"
    /\ After("write") = "manifest_open" /\ After("manifest_write") = "ledger"
    /\ After("ledger") = "idle"
BY DEF After

LEMMA ReadingShape ==
    ASSUME Shape, NEW x \in Exporters,
           ReadEntity(x) \/ ReadDone(x) \/ GridPoint(x) \/ GridDone(x) \/ BuildTable(x)
    PROVE  Shape'
<1>1. /\ UNCHANGED <<lake, spec, reqAll, linked, data, json, ledger, lakeAt>>
      /\ pc' \in [Exporters -> Phases]
      /\ DOMAIN pos' = Exporters /\ DOMAIN cells' = Exporters /\ DOMAIN cur' = Exporters
      /\ DOMAIN grid' = Exporters /\ DOMAIN table' = Exporters
  <2>1. CASE ReadEntity(x)
    BY <2>1 DEF ReadEntity, Shape, request, disk, history
  <2>2. CASE ReadDone(x)
    BY <2>2, NextPhases DEF ReadDone, Shape, request, rows, disk, history, Goto, Phases
  <2>3. CASE GridPoint(x)
    BY <2>3 DEF GridPoint, Shape, request, disk, history
  <2>4. CASE GridDone(x)
    BY <2>4, NextPhases DEF GridDone, Shape, request, rows, disk, history, Goto, Phases
  <2>5. CASE BuildTable(x)
    <3>1. pc' = [pc EXCEPT ![x] = "open"]
      BY <2>5, NextPhases DEF BuildTable, Goto
    <3>2. DOMAIN table' = Exporters
      BY <2>5 DEF BuildTable, Shape
    <3>3. UNCHANGED <<lake, spec, reqAll, linked, data, json, ledger, lakeAt, pos, cells,
                      cur, grid>>
      BY <2>5 DEF BuildTable, request, disk
    <3> QED BY <3>1, <3>2, <3>3 DEF Shape, Phases
  <2> QED BY <2>1, <2>2, <2>3, <2>4, <2>5
<1> QED BY <1>1 DEF Shape

LEMMA StoringShape ==
    ASSUME Shape, NEW x \in Exporters,
           OpenDataset(x) \/ WriteDataset(x) \/ OpenManifest(x) \/ WriteManifest(x)
             \/ WriteLedger(x) \/ Fail(x) \/ WriteRaises(x)
    PROVE  Shape'
<1> DEFINE d == ExportDir(spec[x])
           i == ManifestId(spec[x])
<1>1. /\ UNCHANGED <<lake, spec, reqAll, pos, cells, cur, grid, table, lakeAt>>
      /\ \E phase \in Phases : pc' = [pc EXCEPT ![x] = phase]
  <2> USE NextPhases DEF request, rows, Goto, Phases
  <2>1. CASE OpenDataset(x)
    BY <2>1 DEF OpenDataset
  <2>2. CASE WriteDataset(x)
    BY <2>2 DEF WriteDataset
  <2>3. CASE OpenManifest(x)
    BY <2>3 DEF OpenManifest, history
  <2>4. CASE WriteManifest(x)
    BY <2>4 DEF WriteManifest, history
  <2>5. CASE WriteLedger(x)
    BY <2>5 DEF WriteLedger
  <2>6. CASE Fail(x) \/ WriteRaises(x)
    BY <2>6 DEF Fail, WriteRaises
  <2> QED BY <2>1, <2>2, <2>3, <2>4, <2>5, <2>6
<1>2. linked' \in [Exporters -> BOOLEAN]
  BY DEF OpenDataset, WriteDataset, OpenManifest, WriteManifest, WriteLedger, Fail,
         WriteRaises, Shape
<1>3. /\ DOMAIN data' = DOMAIN data
      /\ \A e \in DOMAIN data :
            \/ data'[e] = data[e]
            \/ data'[e].state \in {"absent", "partial", "complete", "garbled"}
  <2>1. CASE OpenDataset(x)
    BY <2>1 DEF OpenDataset
  <2>2. CASE WriteDataset(x)
    BY <2>2 DEF WriteDataset
  <2>3. CASE OpenManifest(x) \/ WriteManifest(x) \/ WriteLedger(x) \/ Fail(x)
    BY <2>3 DEF OpenManifest, WriteManifest, WriteLedger, Fail
  <2>4. CASE WriteRaises(x)
    BY <2>4 DEF WriteRaises, Absent
  <2> QED BY <2>1, <2>2, <2>3, <2>4
<1>4. /\ DOMAIN json' = DOMAIN json
      /\ \A e \in DOMAIN json :
            json'[e] = json[e] \/ json'[e].state \in {"absent", "partial", "complete"}
  <2>1. \/ json' = json \/ json' = [json EXCEPT ![d] = [state |-> "partial"]]
        \/ json' = [json EXCEPT ![d] = [state |-> "complete",
                                        hash |-> ManifestHash(spec[x])]]
    BY DEF OpenDataset, WriteDataset, OpenManifest, WriteManifest, WriteLedger, Fail,
           WriteRaises
  <2> QED BY <2>1
<1>5. ledger' = ledger
      \/ ledger' = [ledger EXCEPT ![i] = [state |-> "row", hash |-> ManifestHash(spec[x]),
                                          path |-> d]]
  BY DEF OpenDataset, WriteDataset, OpenManifest, WriteManifest, WriteLedger, Fail,
         WriteRaises, Upsert
<1> HIDE DEF d, i
<1>6. pc' \in [Exporters -> Phases]
  BY <1>1 DEF Shape
<1>7. /\ DOMAIN data' = Dirs
      /\ \A e \in Dirs : data'[e].state \in {"absent", "partial", "complete", "garbled"}
  BY <1>3 DEF Shape
<1>8. /\ DOMAIN json' = Dirs
      /\ \A e \in Dirs : json'[e].state \in {"absent", "partial", "complete"}
  BY <1>4 DEF Shape
<1>9. DOMAIN ledger' = Ids /\ \A j \in Ids : ledger'[j].state \in {"none", "row"}
  BY <1>5 DEF Shape
<1> QED BY <1>1, <1>2, <1>6, <1>7, <1>8, <1>9 DEF Shape

LEMMA OtherShape ==
    ASSUME Shape,
           \/ \E x \in Exporters : \E s \in SpecsOf[x], all \in RequireAll : Begin(x, s, all)
           \/ \E r \in FeatureRows : PublishFeature(r)
           \/ UNCHANGED vars
    PROVE  Shape'
<1>1. CASE \E x \in Exporters : \E s \in SpecsOf[x], all \in RequireAll : Begin(x, s, all)
  <2>1. PICK x \in Exporters : \E s \in SpecsOf[x], all \in RequireAll : Begin(x, s, all)
    BY <1>1
  <2>2. PICK s \in SpecsOf[x] : \E all \in RequireAll : Begin(x, s, all)
    BY <2>1
  <2>3. PICK all \in RequireAll : Begin(x, s, all)
    BY <2>2
  <2>4. s \in Specs /\ all \in BOOLEAN
    BY ExportConstants
  <2>5. /\ spec' = [spec EXCEPT ![x] = s] /\ reqAll' = [reqAll EXCEPT ![x] = all]
        /\ pc' = [pc EXCEPT ![x] = "read"]
        /\ DOMAIN pos' = DOMAIN pos /\ DOMAIN cells' = DOMAIN cells
        /\ DOMAIN cur' = DOMAIN cur /\ DOMAIN grid' = DOMAIN grid
        /\ DOMAIN table' = DOMAIN table /\ DOMAIN lakeAt' = DOMAIN lakeAt
        /\ UNCHANGED <<lake, linked, data, json, ledger>>
    BY <2>3 DEF Begin, Goto, disk
  <2> QED BY <2>4, <2>5 DEF Shape, Phases
<1>2. CASE \E r \in FeatureRows : PublishFeature(r)
  BY <1>2 DEF PublishFeature, Shape, request, rows, disk, history
<1>3. CASE UNCHANGED vars
  BY <1>3 DEF vars, Shape, request, rows, disk, history
<1> QED BY <1>1, <1>2, <1>3

LEMMA NextShape == Shape /\ [Next]_vars => Shape'
BY ReadingShape, StoringShape, OtherShape DEF Next, Step

LEMMA ShapeHolds == Spec => []Shape
BY InitShape, NextShape, PTL DEF Spec

-----------------------------------------------------------------------------
(* Stores *)

Storing == {"write", "manifest_open", "manifest_write", "ledger"}

\* Steps that leave the stores alone.
Quiet ==
    /\ UNCHANGED <<linked, data, json, ledger, written, alone, settled>>
    /\ \A y \in Exporters : \/ pc'[y] = pc[y] /\ spec'[y] = spec[y]
                            \/ pc[y] \notin Storing /\ pc'[y] \notin Storing

Reads(x) == ReadEntity(x) \/ ReadDone(x) \/ GridPoint(x) \/ GridDone(x) \/ BuildTable(x)

Begins(x) == \E s \in SpecsOf[x], all \in RequireAll : Begin(x, s, all)

LEMMA QuietSteps ==
    ASSUME Shape,
           \/ \E x \in Exporters : Begins(x) \/ Reads(x)
           \/ \E r \in FeatureRows : PublishFeature(r)
           \/ UNCHANGED vars
    PROVE  Quiet
<1>1. ASSUME NEW x \in Exporters, Begins(x) PROVE Quiet
  <2>1. PICK s \in SpecsOf[x] : \E all \in RequireAll : Begin(x, s, all)
    BY <1>1 DEF Begins
  <2>2. PICK all \in RequireAll : Begin(x, s, all)
    BY <2>1
  <2>3. /\ pc[x] = "idle" /\ pc' = [pc EXCEPT ![x] = "read"]
        /\ spec' = [spec EXCEPT ![x] = s]
        /\ UNCHANGED <<linked, data, json, ledger, written, alone, settled>>
    BY <2>2 DEF Begin, Goto, disk, contest
  <2> QED BY <2>3 DEF Quiet, Storing, Shape
<1>2. ASSUME NEW x \in Exporters, Reads(x) PROVE Quiet
  <2>1. UNCHANGED <<linked, data, json, ledger, written, alone, settled, spec>>
    BY <1>2 DEF Reads, ReadEntity, ReadDone, GridPoint, GridDone, BuildTable, disk,
                request, history, contest
  <2>2. \/ pc' = pc
        \/ /\ pc[x] \notin Storing
           /\ \E phase \in {"grid", "build", "open"} : pc' = [pc EXCEPT ![x] = phase]
    BY <1>2, NextPhases DEF Reads, ReadEntity, ReadDone, GridPoint, GridDone, BuildTable,
                            Goto, Storing
  <2> QED BY <2>1, <2>2 DEF Quiet, Storing, Shape
<1>3. ASSUME NEW r \in FeatureRows, PublishFeature(r) PROVE Quiet
  BY <1>3 DEF PublishFeature, Quiet, request, disk, history, contest
<1>4. CASE UNCHANGED vars
  BY <1>4 DEF vars, Quiet, request, disk, history, contest
<1> QED BY <1>1, <1>2, <1>3, <1>4

LEMMA NextCases ==
    ASSUME Shape, [Next]_vars
    PROVE  \/ Quiet
           \/ \E x \in Exporters : \/ OpenDataset(x) \/ WriteDataset(x) \/ OpenManifest(x)
                                   \/ WriteManifest(x) \/ WriteLedger(x) \/ Fail(x)
                                   \/ WriteRaises(x)
BY QuietSteps DEF Next, Step, Begins, Reads

LEMMA StoreSteps ==
    ASSUME Shape, NEW x \in Exporters, NEW d, d = ExportDir(spec[x])
    PROVE  /\ OpenDataset(x) =>
                 /\ pc[x] = "open" /\ pc' = [pc EXCEPT ![x] = "write"] /\ UNCHANGED spec
                 /\ data' = [data EXCEPT ![d] = [state |-> "partial", by |-> x]]
                 /\ linked' = [linked EXCEPT ![x] = TRUE]
                 /\ settled' = settled \ {d} /\ UNCHANGED <<json, ledger, written>>
           /\ WriteDataset(x) =>
                 /\ pc[x] = "write" /\ pc' = [pc EXCEPT ![x] = "manifest_open"]
                 /\ written' = written \cup {<<d, spec[x]>>}
                 /\ linked' = [linked EXCEPT ![x] = FALSE]
                 /\ UNCHANGED <<spec, json, ledger, alone, settled>>
           /\ OpenManifest(x) =>
                 /\ pc[x] = "manifest_open" /\ pc' = [pc EXCEPT ![x] = "manifest_write"]
                 /\ json' = [json EXCEPT ![d] = [state |-> "partial"]]
                 /\ UNCHANGED <<spec, linked, data, ledger, written, alone, settled>>
           /\ WriteManifest(x) =>
                 /\ pc[x] = "manifest_write" /\ pc' = [pc EXCEPT ![x] = "ledger"]
                 /\ json' = [json EXCEPT ![d] = [state |-> "complete",
                                                 hash |-> ManifestHash(spec[x])]]
                 /\ UNCHANGED <<spec, linked, data, ledger, written, alone, settled>>
           /\ WriteLedger(x) =>
                 /\ pc[x] = "ledger" /\ pc' = [pc EXCEPT ![x] = "idle"]
                 /\ ledger' = [ledger EXCEPT ![ManifestId(spec[x])] =
                        [state |-> "row", hash |-> ManifestHash(spec[x]), path |-> d]]
                 /\ settled' = IF x \in alone THEN settled \cup {d} ELSE settled
                 /\ alone' = alone \ {x}
                 /\ UNCHANGED <<spec, linked, data, json, written>>
           /\ Fail(x) =>
                 /\ pc' = [pc EXCEPT ![x] = "idle"]
                 /\ alone' = alone \ {x}
                 /\ linked' = [linked EXCEPT ![x] = FALSE]
                 /\ UNCHANGED <<spec, data, json, ledger, written, settled>>
           /\ WriteRaises(x) =>
                 /\ pc[x] \in {"open", "write"} /\ pc' = [pc EXCEPT ![x] = "idle"]
                 /\ data' = [data EXCEPT ![d] = Absent]
                 /\ alone' = alone \ Writing(d) /\ settled' = settled \ {d}
                 /\ UNCHANGED <<spec, json, ledger, written>>
<1> USE NextPhases DEF Goto, request, history, contest
<1>1. OpenDataset(x) =>
          /\ pc[x] = "open" /\ pc' = [pc EXCEPT ![x] = "write"] /\ UNCHANGED spec
          /\ data' = [data EXCEPT ![d] = [state |-> "partial", by |-> x]]
          /\ linked' = [linked EXCEPT ![x] = TRUE]
          /\ settled' = settled \ {d} /\ UNCHANGED <<json, ledger, written>>
  BY DEF OpenDataset
<1>2. WriteDataset(x) =>
          /\ pc[x] = "write" /\ pc' = [pc EXCEPT ![x] = "manifest_open"]
          /\ written' = written \cup {<<d, spec[x]>>}
          /\ linked' = [linked EXCEPT ![x] = FALSE]
          /\ UNCHANGED <<spec, json, ledger, alone, settled>>
  BY DEF WriteDataset
<1>3. OpenManifest(x) =>
          /\ pc[x] = "manifest_open" /\ pc' = [pc EXCEPT ![x] = "manifest_write"]
          /\ json' = [json EXCEPT ![d] = [state |-> "partial"]]
          /\ UNCHANGED <<spec, linked, data, ledger, written, alone, settled>>
  BY DEF OpenManifest
<1>4. WriteManifest(x) =>
          /\ pc[x] = "manifest_write" /\ pc' = [pc EXCEPT ![x] = "ledger"]
          /\ json' = [json EXCEPT ![d] = [state |-> "complete",
                                          hash |-> ManifestHash(spec[x])]]
          /\ UNCHANGED <<spec, linked, data, ledger, written, alone, settled>>
  BY DEF WriteManifest
<1>5. WriteLedger(x) =>
          /\ pc[x] = "ledger" /\ pc' = [pc EXCEPT ![x] = "idle"]
          /\ ledger' = [ledger EXCEPT ![ManifestId(spec[x])] =
                 [state |-> "row", hash |-> ManifestHash(spec[x]), path |-> d]]
          /\ settled' = IF x \in alone THEN settled \cup {d} ELSE settled
          /\ alone' = alone \ {x}
          /\ UNCHANGED <<spec, linked, data, json, written>>
  BY DEF WriteLedger, Upsert
<1>6. Fail(x) =>
          /\ pc' = [pc EXCEPT ![x] = "idle"]
          /\ alone' = alone \ {x}
          /\ linked' = [linked EXCEPT ![x] = FALSE]
          /\ UNCHANGED <<spec, data, json, ledger, written, settled>>
  BY DEF Fail
<1>7. WriteRaises(x) =>
          /\ pc[x] \in {"open", "write"} /\ pc' = [pc EXCEPT ![x] = "idle"]
          /\ data' = [data EXCEPT ![d] = Absent]
          /\ alone' = alone \ Writing(d) /\ settled' = settled \ {d}
          /\ UNCHANGED <<spec, json, ledger, written>>
  BY DEF WriteRaises
<1> QED BY <1>1, <1>2, <1>3, <1>4, <1>5, <1>6, <1>7

-----------------------------------------------------------------------------
(* Records and data *)

RecordsInv ==
    /\ RecordsFollowData
    /\ \A x \in Exporters : pc[x] \in {"manifest_open", "manifest_write", "ledger"} =>
          <<ExportDir(spec[x]), spec[x]>> \in written

LEMMA InitRecords == Init => RecordsInv
BY DEF Init, RecordsInv, RecordsFollowData, Absent

LEMMA NextRecords == Shape /\ RecordsInv /\ [Next]_vars => RecordsInv'
<1> SUFFICES ASSUME Shape, RecordsInv, [Next]_vars PROVE RecordsInv'
  OBVIOUS
<1>1. CASE Quiet
  BY <1>1 DEF Quiet, RecordsInv, RecordsFollowData, Storing
<1>2. ASSUME NEW x \in Exporters,
             \/ OpenDataset(x) \/ WriteDataset(x) \/ OpenManifest(x)
             \/ WriteManifest(x) \/ WriteLedger(x) \/ Fail(x) \/ WriteRaises(x)
      PROVE  RecordsInv'
  <2> DEFINE d == ExportDir(spec[x])
             i == ManifestId(spec[x])
  <2>1. spec' = spec /\ written \subseteq written'
        /\ \A y \in Exporters : y # x => pc'[y] = pc[y]
    <3>1. spec' = spec /\ written \subseteq written'
      BY <1>2, StoreSteps
    <3>2. \E phase \in Phases : pc' = [pc EXCEPT ![x] = phase]
      BY <1>2, StoreSteps DEF Phases
    <3> QED BY <3>1, <3>2 DEF Shape
  <2>2. pc'[x] \in {"manifest_open", "manifest_write", "ledger"} =>
            <<d, spec[x]>> \in written'
    <3>1. pc'[x] \in {"manifest_open", "manifest_write", "ledger"} =>
              \/ pc[x] \in {"manifest_open", "manifest_write", "ledger"}
              \/ <<d, spec[x]>> \in written'
      <4>1. DOMAIN pc = Exporters
        BY DEF Shape
      <4>2. CASE OpenDataset(x) \/ Fail(x) \/ WriteRaises(x)
        BY <4>1, <4>2, StoreSteps
      <4>3. CASE WriteDataset(x)
        BY <4>1, <4>3, StoreSteps
      <4>4. CASE OpenManifest(x) \/ WriteManifest(x) \/ WriteLedger(x)
        BY <4>1, <4>4, StoreSteps
      <4> QED BY <1>2, <4>2, <4>3, <4>4
    <3> QED BY <2>1, <3>1 DEF RecordsInv
  <2>3. ASSUME NEW y \in Exporters,
               pc'[y] \in {"manifest_open", "manifest_write", "ledger"}
        PROVE  <<ExportDir(spec'[y]), spec'[y]>> \in written'
    BY <2>1, <2>2, <2>3 DEF RecordsInv
  <2>4. ASSUME NEW j \in Ids, ledger'[j] # NoRow
        PROVE  <<ledger'[j].path, ledger'[j].hash>> \in written'
    <3>1. CASE ledger' = ledger
      BY <2>1, <2>4, <3>1 DEF RecordsInv, RecordsFollowData
    <3>2. CASE WriteLedger(x)
      <4>1. /\ ledger' = [ledger EXCEPT ![i] =
                            [state |-> "row", hash |-> ManifestHash(spec[x]), path |-> d]]
            /\ pc[x] = "ledger" /\ i \in Ids /\ DOMAIN ledger = Ids
        BY <3>2, StoreSteps, DirsAndIds DEF Shape
      <4>2. <<d, spec[x]>> \in written
        BY <4>1 DEF RecordsInv
      <4>3. CASE j = i
        BY <2>1, <4>1, <4>2, <4>3 DEF ManifestHash
      <4>4. CASE j # i
        BY <2>1, <2>4, <4>1, <4>4 DEF RecordsInv, RecordsFollowData
      <4> QED BY <4>3, <4>4
    <3> QED BY <1>2, <3>1, <3>2, StoreSteps
  <2>5. ASSUME NEW e \in Dirs, json'[e].state = "complete"
        PROVE  <<e, json'[e].hash>> \in written'
    <3>1. CASE json' = json
      BY <2>1, <2>5, <3>1 DEF RecordsInv, RecordsFollowData
    <3>2. CASE OpenManifest(x)
      <4>1. json' = [json EXCEPT ![d] = [state |-> "partial"]] /\ DOMAIN json = Dirs
        BY <3>2, StoreSteps DEF Shape
      <4>2. e # d
        BY <2>5, <4>1
      <4> QED BY <2>1, <2>5, <4>1, <4>2 DEF RecordsInv, RecordsFollowData
    <3>3. CASE WriteManifest(x)
      <4>1. /\ json' = [json EXCEPT ![d] = [state |-> "complete",
                                            hash |-> ManifestHash(spec[x])]]
            /\ DOMAIN json = Dirs /\ pc[x] = "manifest_write"
        BY <3>3, StoreSteps DEF Shape
      <4>2. <<d, spec[x]>> \in written
        BY <4>1 DEF RecordsInv
      <4>3. CASE e = d
        BY <2>1, <4>1, <4>2, <4>3 DEF ManifestHash
      <4>4. CASE e # d
        BY <2>1, <2>5, <4>1, <4>4 DEF RecordsInv, RecordsFollowData
      <4> QED BY <4>3, <4>4
    <3> QED BY <1>2, <3>1, <3>2, <3>3, StoreSteps
  <2> QED BY <2>3, <2>4, <2>5 DEF RecordsInv, RecordsFollowData
<1> QED BY <1>1, <1>2, NextCases

\* Ledger and manifest.json describe only datasets that were written, whatever
\* fails or runs concurrently (training.py: export_training_set).
THEOREM RecordsFollowDataHolds == Spec => []RecordsFollowData
<1>1. RecordsInv => RecordsFollowData
  BY DEF RecordsInv
<1> QED BY <1>1, InitRecords, NextRecords, ShapeHolds, PTL DEF Spec

-----------------------------------------------------------------------------
(* Provenance *)

\* f"{experiment}_v{version}" names one directory.
IdsAreUnique ==
    \A s, t \in Specs : ManifestId(s) = ManifestId(t) => ExportDir(s) = ExportDir(t)

\* An exporter that has its directory to itself, and what is there so far.
Owns(x) ==
    LET d == ExportDir(spec[x])
    IN  /\ x \in Exporters /\ pc[x] \in Storing
        /\ \A y \in Exporters : pc[y] \in Storing /\ ExportDir(spec[y]) = d => y = x
        /\ pc[x] = "write" => linked[x] /\ data[d] = [state |-> "partial", by |-> x]
        /\ pc[x] # "write" => data[d].state = "complete" /\ data[d].spec = spec[x]
        /\ pc[x] = "ledger" => json[d] = [state |-> "complete", hash |-> ManifestHash(spec[x])]

\* The three stores of a directory hold one definition.
OneDefinition(d) ==
    \E s \in Specs :
        /\ ExportDir(s) = d
        /\ data[d].state = "complete" /\ data[d].spec = s
        /\ json[d] = [state |-> "complete", hash |-> ManifestHash(s)]
        /\ ledger[ManifestId(s)] = [state |-> "row", path |-> d, hash |-> ManifestHash(s)]

ProvenanceInv ==
    /\ \A x \in alone : Owns(x)
    /\ \A d \in settled : /\ d \in Dirs /\ OneDefinition(d)
                          /\ \A y \in Exporters : pc[y] \in Storing => ExportDir(spec[y]) # d

LEMMA InitProvenance == Init => ProvenanceInv
BY DEF Init, ProvenanceInv

LEMMA NextProvenance ==
    ASSUME Shape, ProvenanceInv, IdsAreUnique, [Next]_vars
    PROVE  ProvenanceInv'
<1>1. CASE Quiet
  <2>1. ASSUME NEW x \in alone PROVE Owns(x)'
    <3>1. Owns(x) /\ pc'[x] = pc[x] /\ spec'[x] = spec[x]
          /\ UNCHANGED <<linked, data, json>>
      BY <1>1 DEF ProvenanceInv, Owns, Quiet
    <3>2. \A y \in Exporters : pc'[y] \in Storing => pc[y] \in Storing /\ spec'[y] = spec[y]
      BY <1>1 DEF Quiet
    <3> QED BY <3>1, <3>2 DEF Owns
  <2>2. \A d \in settled : OneDefinition(d)'
    BY <1>1 DEF Quiet, ProvenanceInv, OneDefinition
  <2>3. \A y \in Exporters : pc'[y] \in Storing => pc[y] \in Storing /\ spec'[y] = spec[y]
    BY <1>1 DEF Quiet
  <2> QED BY <1>1, <2>1, <2>2, <2>3 DEF ProvenanceInv, Quiet
<1>2. ASSUME NEW x \in Exporters,
             \/ OpenDataset(x) \/ WriteDataset(x) \/ OpenManifest(x)
             \/ WriteManifest(x) \/ WriteLedger(x) \/ Fail(x) \/ WriteRaises(x)
      PROVE  ProvenanceInv'
  <2> DEFINE d == ExportDir(spec[x])
             i == ManifestId(spec[x])
  <2>1. /\ spec' = spec /\ d \in Dirs /\ spec[x] \in Specs /\ i \in Ids
        /\ DOMAIN data = Dirs /\ DOMAIN json = Dirs /\ DOMAIN ledger = Ids
        /\ DOMAIN pc = Exporters /\ DOMAIN linked = Exporters
    BY <1>2, StoreSteps, DirsAndIds DEF Shape
  <2>2. \A y \in Exporters : y # x => pc'[y] = pc[y]
    <3>1. \E phase \in Phases : pc' = [pc EXCEPT ![x] = phase]
      BY <1>2, StoreSteps DEF Phases
    <3> QED BY <2>1, <3>1
  <2>3. \A e \in Dirs : e # d => data'[e] = data[e] /\ json'[e] = json[e]
    <3>1. \A e \in Dirs : e # d => data'[e] = data[e]
      <4>1. CASE OpenDataset(x)
        BY <2>1, <4>1 DEF OpenDataset
      <4>2. CASE WriteDataset(x)
        BY <2>1, <4>2 DEF WriteDataset
      <4>3. CASE OpenManifest(x) \/ WriteManifest(x) \/ WriteLedger(x) \/ Fail(x)
        BY <4>3 DEF OpenManifest, WriteManifest, WriteLedger, Fail
      <4>4. CASE WriteRaises(x)
        BY <2>1, <4>4 DEF WriteRaises
      <4> QED BY <1>2, <4>1, <4>2, <4>3, <4>4
    <3>2. \A e \in Dirs : e # d => json'[e] = json[e]
      <4>1. CASE OpenManifest(x)
        BY <2>1, <4>1 DEF OpenManifest
      <4>2. CASE WriteManifest(x)
        BY <2>1, <4>2 DEF WriteManifest
      <4>3. CASE json' = json
        BY <4>3
      <4> QED BY <1>2, <4>1, <4>2, <4>3, StoreSteps
    <3> QED BY <3>1, <3>2
  <2>4. \A y \in Exporters : y # x /\ ExportDir(spec[y]) # d => linked'[y] = linked[y]
    <3>1. \/ linked' = linked \/ \E b \in BOOLEAN : linked' = [linked EXCEPT ![x] = b]
          \/ linked' = [y \in Exporters |->
                            IF ExportDir(spec[y]) = d THEN FALSE ELSE linked[y]]
      BY <1>2 DEF OpenDataset, WriteDataset, OpenManifest, WriteManifest, WriteLedger, Fail,
                  WriteRaises
    <3> QED BY <2>1, <3>1
  <2>5. \A j \in Ids : j # i => ledger'[j] = ledger[j]
    <3>1. CASE WriteLedger(x)
      BY <2>1, <3>1 DEF WriteLedger, Upsert
    <3>2. CASE ledger' = ledger
      BY <3>2
    <3> QED BY <1>2, <3>1, <3>2, StoreSteps
  \* The others keep what is theirs.
  <2>6. ASSUME NEW y \in alone, y # x, ExportDir(spec[y]) # d PROVE Owns(y)'
    <3>1. Owns(y) /\ y \in Exporters /\ ExportDir(spec[y]) \in Dirs
      BY DirsAndIds DEF ProvenanceInv, Owns
    <3> DEFINE e == ExportDir(spec[y])
    <3>2. pc'[y] = pc[y] /\ linked'[y] = linked[y] /\ data'[e] = data[e] /\ json'[e] = json[e]
      BY <2>2, <2>3, <2>4, <2>6, <3>1
    <3>3. \A z \in Exporters : pc'[z] \in Storing /\ ExportDir(spec[z]) = e => z = y
      BY <2>2, <2>6, <3>1 DEF Owns
    <3> QED BY <2>1, <3>1, <3>2, <3>3 DEF Owns
  <2>7. ASSUME NEW e \in settled, e # d PROVE OneDefinition(e)'
    <3>1. PICK s \in Specs :
              /\ ExportDir(s) = e
              /\ data[e].state = "complete" /\ data[e].spec = s
              /\ json[e] = [state |-> "complete", hash |-> ManifestHash(s)]
              /\ ledger[ManifestId(s)] = [state |-> "row", path |-> e, hash |-> ManifestHash(s)]
      BY DEF ProvenanceInv, OneDefinition
    <3>2. ManifestId(s) # i /\ ManifestId(s) \in Ids /\ e \in Dirs
      BY <2>1, <2>7, <3>1 DEF IdsAreUnique, Ids, Dirs
    <3> QED BY <2>3, <2>5, <2>7, <3>1, <3>2 DEF OneDefinition
  <2>8. ASSUME NEW e \in settled, e # d, NEW y \in Exporters, pc'[y] \in Storing
        PROVE  ExportDir(spec'[y]) # e
    BY <2>1, <2>2, <2>8 DEF ProvenanceInv
  \* A directory being written is not settled, and has at most one owner.
  <2>9. pc[x] \in Storing => d \notin settled
    BY DEF ProvenanceInv
  <2>10. ASSUME pc[x] \in Storing, NEW y \in alone, ExportDir(spec[y]) = d PROVE y = x
    BY <2>10 DEF ProvenanceInv, Owns
  <2> USE DEF Storing
  <2>11. CASE OpenDataset(x)
    <3>1. /\ pc[x] = "open" /\ pc' = [pc EXCEPT ![x] = "write"]
          /\ data' = [data EXCEPT ![d] = [state |-> "partial", by |-> x]]
          /\ linked' = [linked EXCEPT ![x] = TRUE] /\ settled' = settled \ {d}
      BY <2>11, StoreSteps
    <3>2. alone' = IF Writing(d) = {} THEN alone \cup {x} ELSE alone \ Writing(d)
      BY <2>11 DEF OpenDataset
    <3>3. ASSUME NEW y \in alone', y # x PROVE Owns(y)'
      <4>1. y \in alone /\ Owns(y)
        BY <3>2, <3>3 DEF ProvenanceInv
      <4>2. ExportDir(spec[y]) # d
        BY <3>2, <3>3, <4>1 DEF Owns, Writing
      <4> QED BY <2>6, <3>3, <4>1, <4>2
    <3>4. ASSUME x \in alone' PROVE Owns(x)'
      <4>1. x \notin alone
        BY <3>1 DEF ProvenanceInv, Owns
      <4>2. Writing(d) = {}
        BY <3>2, <3>4, <4>1
      <4>3. \A y \in Exporters : pc[y] \in Storing => ExportDir(spec[y]) # d
        BY <4>2 DEF Writing
      <4>4. \A y \in Exporters : pc'[y] \in Storing /\ ExportDir(spec[y]) = d => y = x
        BY <2>2, <4>3
      <4>5. pc'[x] = "write" /\ linked'[x] /\ data'[d] = [state |-> "partial", by |-> x]
        BY <2>1, <3>1
      <4> QED BY <2>1, <4>4, <4>5 DEF Owns
    <3>5. \A e \in settled' : e \in settled /\ e # d
      BY <3>1
    <3> QED BY <2>7, <2>8, <3>3, <3>4, <3>5 DEF ProvenanceInv
  <2>12. CASE WriteDataset(x)
    <3>1. /\ pc[x] = "write" /\ pc' = [pc EXCEPT ![x] = "manifest_open"]
          /\ UNCHANGED <<alone, settled>>
      BY <2>12, StoreSteps
    <3>2. \A y \in alone : y # x => Owns(y)'
      BY <2>6, <2>10, <3>1
    <3>3. ASSUME x \in alone PROVE Owns(x)'
      <4>1. Owns(x) /\ linked[x] /\ data[d] = [state |-> "partial", by |-> x]
        BY <3>1, <3>3 DEF ProvenanceInv, Owns
      <4>2. data' = [data EXCEPT ![d] = [state |-> "complete", spec |-> spec[x],
                                         table |-> table[x]]]
        BY <2>12, <4>1 DEF WriteDataset
      <4>3. data'[d].state = "complete" /\ data'[d].spec = spec[x]
        BY <2>1, <4>2
      <4>4. \A y \in Exporters : pc'[y] \in Storing /\ ExportDir(spec[y]) = d => y = x
        BY <2>2, <4>1 DEF Owns
      <4>5. pc'[x] = "manifest_open"
        BY <2>1, <3>1
      <4> QED BY <2>1, <4>3, <4>4, <4>5 DEF Owns
    <3>4. \A e \in settled' : e \in settled /\ e # d
      BY <2>9, <3>1
    <3> QED BY <2>7, <2>8, <3>1, <3>2, <3>3, <3>4 DEF ProvenanceInv
  <2>13. CASE OpenManifest(x) \/ WriteManifest(x)
    <3>1. /\ pc[x] \in {"manifest_open", "manifest_write"}
          /\ UNCHANGED <<alone, settled, data, linked>>
      BY <2>13, StoreSteps
    <3>2. \/ pc'[x] = "manifest_write"
          \/ /\ pc'[x] = "ledger"
             /\ json'[d] = [state |-> "complete", hash |-> ManifestHash(spec[x])]
      <4>1. CASE OpenManifest(x)
        BY <2>1, <4>1, StoreSteps
      <4>2. CASE WriteManifest(x)
        BY <2>1, <4>2, NextPhases DEF WriteManifest, Goto
      <4> QED BY <2>13, <4>1, <4>2
    <3>3. \A y \in alone : y # x => Owns(y)'
      BY <2>6, <2>10, <3>1
    <3>4. ASSUME x \in alone PROVE Owns(x)'
      <4>1. Owns(x)
        BY <3>4 DEF ProvenanceInv
      <4>2. \A y \in Exporters : pc'[y] \in Storing /\ ExportDir(spec[y]) = d => y = x
        BY <2>2, <3>1, <4>1 DEF Owns
      <4>3. data'[d].state = "complete" /\ data'[d].spec = spec[x]
        BY <3>1, <4>1 DEF Owns
      <4> QED BY <2>1, <3>2, <4>2, <4>3 DEF Owns
    <3>5. \A e \in settled' : e \in settled /\ e # d
      BY <2>9, <3>1
    <3> QED BY <2>7, <2>8, <3>1, <3>3, <3>4, <3>5 DEF ProvenanceInv
  <2>14. CASE WriteLedger(x)
    <3>1. /\ pc[x] = "ledger" /\ pc' = [pc EXCEPT ![x] = "idle"]
          /\ ledger' = [ledger EXCEPT ![i] =
                 [state |-> "row", hash |-> ManifestHash(spec[x]), path |-> d]]
          /\ settled' = IF x \in alone THEN settled \cup {d} ELSE settled
          /\ alone' = alone \ {x}
          /\ UNCHANGED <<data, json>>
      BY <2>14, StoreSteps
    <3>2. \A y \in alone' : y \in alone /\ Owns(y)'
      BY <2>6, <2>10, <3>1
    <3>3. ASSUME x \in alone
          PROVE  /\ OneDefinition(d)'
                 /\ \A y \in Exporters : pc'[y] \in Storing => ExportDir(spec[y]) # d
      <4>1. Owns(x)
        BY <3>3 DEF ProvenanceInv
      <4>2. /\ data'[d].state = "complete" /\ data'[d].spec = spec[x]
            /\ json'[d] = [state |-> "complete", hash |-> ManifestHash(spec[x])]
        BY <3>1, <4>1 DEF Owns
      <4>3. ledger'[i] = [state |-> "row", path |-> d, hash |-> ManifestHash(spec[x])]
        BY <2>1, <3>1
      <4>4. OneDefinition(d)'
        BY <2>1, <4>2, <4>3 DEF OneDefinition
      <4>5. pc'[x] = "idle"
        BY <2>1, <3>1
      <4>6. \A y \in Exporters : pc'[y] \in Storing => ExportDir(spec[y]) # d
        BY <2>2, <4>1, <4>5 DEF Owns
      <4> QED BY <4>4, <4>6
    <3>4. \A e \in settled' : \/ e \in settled /\ e # d
                              \/ x \in alone /\ e = d
      BY <2>9, <3>1
    <3> QED BY <2>1, <2>7, <2>8, <3>2, <3>3, <3>4 DEF ProvenanceInv
  <2>15. CASE Fail(x)
    <3>1. /\ pc' = [pc EXCEPT ![x] = "idle"] /\ alone' = alone \ {x}
          /\ linked' = [linked EXCEPT ![x] = FALSE]
          /\ UNCHANGED <<settled, data, json, ledger>>
      BY <2>15, StoreSteps
    <3>2. ASSUME NEW y \in alone' PROVE Owns(y)'
      <4>1. y \in alone /\ y # x /\ Owns(y) /\ y \in Exporters
        BY <3>1 DEF ProvenanceInv, Owns
      <4>2. CASE ExportDir(spec[y]) # d
        BY <2>6, <4>1, <4>2
      <4>3. CASE ExportDir(spec[y]) = d
        <5>1. pc[x] \notin Storing
          BY <2>10, <4>1, <4>3
        <5>2. UNCHANGED <<data, json>> /\ linked'[y] = linked[y] /\ pc'[y] = pc[y]
          BY <2>1, <2>2, <3>1, <4>1, <5>1
        <5>3. pc'[x] = "idle"
          BY <2>1, <3>1
        <5>4. \A z \in Exporters : pc'[z] \in Storing => pc[z] \in Storing
          BY <2>2, <5>3
        <5> QED BY <2>1, <4>1, <5>2, <5>4 DEF Owns
      <4> QED BY <4>2, <4>3
    <3>3. ASSUME NEW e \in settled' PROVE OneDefinition(e)'
      <4>1. CASE e # d
        BY <2>7, <3>1, <4>1
      <4>2. CASE e = d
        <5>1. UNCHANGED <<data, json, ledger>>
          BY <2>9, <3>1, <4>2
        <5> QED BY <3>1, <5>1 DEF ProvenanceInv, OneDefinition
      <4> QED BY <4>1, <4>2
    <3>4. ASSUME NEW e \in settled', NEW y \in Exporters, pc'[y] \in Storing
          PROVE  ExportDir(spec'[y]) # e
      <4>1. pc[y] \in Storing
        BY <2>1, <2>2, <3>1, <3>4
      <4> QED BY <2>1, <3>1, <4>1 DEF ProvenanceInv
    <3> QED BY <3>1, <3>2, <3>3, <3>4 DEF ProvenanceInv
  <2>16. CASE WriteRaises(x)
    <3>1. /\ pc' = [pc EXCEPT ![x] = "idle"]
          /\ alone' = alone \ Writing(d) /\ settled' = settled \ {d}
      BY <2>16, StoreSteps
    <3>2. ASSUME NEW y \in alone' PROVE Owns(y)'
      <4>1. y \in alone /\ Owns(y)
        BY <3>1 DEF ProvenanceInv
      <4>2. ExportDir(spec[y]) # d
        BY <3>1, <4>1 DEF Owns, Writing
      <4>3. CASE y = x
        BY <4>2, <4>3
      <4> QED BY <2>6, <4>1, <4>2, <4>3
    <3>3. \A e \in settled' : e \in settled /\ e # d
      BY <3>1
    <3> QED BY <2>7, <2>8, <3>2, <3>3 DEF ProvenanceInv
  <2> QED BY <1>2, <2>11, <2>12, <2>13, <2>14, <2>15, <2>16
<1> QED BY <1>1, <1>2, NextCases

\* Where no two directories share a ledger row, what an export that had its
\* directory to itself leaves behind holds one definition, until the next export
\* opens the dataset or fails to (training.py: export_training_set, db.py:
\* upsert_manifest).
THEOREM ProvenanceRestoredHolds ==
    ASSUME IdsAreUnique
    PROVE  Spec => []ProvenanceRestored
<1>1. ProvenanceInv => ProvenanceRestored
  BY DEF ProvenanceInv, ProvenanceRestored, OneDefinition
<1>2. Shape /\ ProvenanceInv /\ [Next]_vars => ProvenanceInv'
  BY NextProvenance
<1> QED BY <1>1, <1>2, InitProvenance, ShapeHolds, PTL DEF Spec

-----------------------------------------------------------------------------
(* Reading and the grid *)

Mine(x) == <<pc[x], spec[x], reqAll[x], pos[x], cells[x], cur[x], grid[x], table[x], lakeAt[x]>>

Stores(x) ==
    OpenDataset(x) \/ WriteDataset(x) \/ OpenManifest(x) \/ WriteManifest(x) \/ WriteLedger(x)
      \/ Fail(x) \/ WriteRaises(x)

LEMMA StoresLeaveTable ==
    ASSUME Shape, NEW x \in Exporters, Stores(x)
    PROVE  /\ UNCHANGED <<lake, spec, reqAll, pos, cells, cur, grid, table, lakeAt>>
           /\ \E phase \in Phases \ {"read", "grid", "build"} :
                 pc' = [pc EXCEPT ![x] = phase]
           /\ Built(x)' => Built(x)
<1>1. ASSUME NEW phase, phase \in {"write", "manifest_open", "manifest_write", "ledger"},
             pc' = [pc EXCEPT ![x] = phase], Built(x)
      PROVE  /\ \E ph \in Phases \ {"read", "grid", "build"} : pc' = [pc EXCEPT ![x] = ph]
             /\ Built(x)' => Built(x)
  BY <1>1 DEF Phases
<1>2. ASSUME pc' = [pc EXCEPT ![x] = "idle"]
      PROVE  /\ \E ph \in Phases \ {"read", "grid", "build"} : pc' = [pc EXCEPT ![x] = ph]
             /\ Built(x)' => Built(x)
  BY <1>2 DEF Phases, Shape, Built
<1>3. UNCHANGED <<lake, spec, reqAll, pos, cells, cur, grid, table, lakeAt>>
  <2> USE DEF request, rows
  <2>1. CASE OpenDataset(x)
    BY <2>1 DEF OpenDataset
  <2>2. CASE WriteDataset(x)
    BY <2>2 DEF WriteDataset
  <2>3. CASE OpenManifest(x)
    BY <2>3 DEF OpenManifest, history
  <2>4. CASE WriteManifest(x)
    BY <2>4 DEF WriteManifest, history
  <2>5. CASE WriteLedger(x)
    BY <2>5 DEF WriteLedger
  <2>6. CASE Fail(x) \/ WriteRaises(x)
    BY <2>6 DEF Fail, WriteRaises
  <2> QED BY <2>1, <2>2, <2>3, <2>4, <2>5, <2>6 DEF Stores
<1>4. CASE OpenDataset(x)
  BY <1>1, <1>3, <1>4 DEF OpenDataset, Goto, Built
<1>5. CASE WriteDataset(x)
  BY <1>1, <1>3, <1>5, NextPhases DEF WriteDataset, Goto, Built
<1>6. CASE OpenManifest(x)
  BY <1>1, <1>3, <1>6 DEF OpenManifest, Goto, Built
<1>7. CASE WriteManifest(x)
  BY <1>1, <1>3, <1>7, NextPhases DEF WriteManifest, Goto, Built
<1>8. CASE WriteLedger(x) \/ Fail(x) \/ WriteRaises(x)
  BY <1>2, <1>3, <1>8, NextPhases DEF WriteLedger, Fail, WriteRaises, Goto
<1> QED BY <1>4, <1>5, <1>6, <1>7, <1>8 DEF Stores

LEMMA Untouched ==
    ASSUME Shape, NEW y \in Exporters, Begins(y) \/ Reads(y) \/ Stores(y),
           NEW x \in Exporters, x # y
    PROVE  Mine(x)' = Mine(x) /\ lake' = lake
<1>1. CASE Begins(y)
  <2>1. PICK s \in SpecsOf[y] : \E all \in RequireAll : Begin(y, s, all)
    BY <1>1 DEF Begins
  <2>2. PICK all \in RequireAll : Begin(y, s, all)
    BY <2>1
  <2> QED BY <2>2 DEF Begin, Goto, Mine, Shape
<1>2. CASE Stores(y)
  BY <1>2, StoresLeaveTable DEF Mine, Shape
<1>3. CASE ReadEntity(y)
  BY <1>3 DEF ReadEntity, Mine, Shape, request, history
<1>4. CASE ReadDone(y)
  BY <1>4 DEF ReadDone, Goto, Mine, Shape, request, rows, history
<1>5. CASE GridPoint(y)
  BY <1>5 DEF GridPoint, Mine, Shape, request, history
<1>6. CASE GridDone(y)
  BY <1>6 DEF GridDone, Goto, Mine, Shape, request, rows, history
<1>7. CASE BuildTable(y)
  <2>1. /\ UNCHANGED <<lake, spec, reqAll, pos, cells, cur, grid, lakeAt>>
        /\ \E new : table' = [table EXCEPT ![y] = new]
        /\ \E phase : pc' = [pc EXCEPT ![y] = phase]
    BY <1>7 DEF BuildTable, Goto, request
  <2> QED BY <2>1 DEF Mine, Shape
<1> QED BY <1>1, <1>2, <1>3, <1>4, <1>5, <1>6, <1>7 DEF Reads

LEMMA NextOf ==
    ASSUME Shape, [Next]_vars, NEW x \in Exporters
    PROVE  \/ Begins(x) \/ Reads(x) \/ Stores(x)
           \/ Mine(x)' = Mine(x) /\ lake \subseteq lake'
<1>1. CASE \E y \in Exporters : Begins(y) \/ Reads(y) \/ Stores(y)
  BY <1>1, Untouched
<1>2. CASE \E r \in FeatureRows : PublishFeature(r)
  BY <1>2 DEF PublishFeature, Mine, request, rows, history
<1>3. CASE UNCHANGED vars
  BY <1>3 DEF vars, Mine, request, rows, history
<1> QED BY <1>1, <1>2, <1>3 DEF Next, Step, Begins, Reads, Stores

On(s, g) == \E n \in Nat : g = s.start + n * s.step

GridInv(x) ==
    LET s == spec[x]
    IN  /\ cur[x] \in Int /\ grid[x] \subseteq s.start .. s.end
        /\ pc[x] = "read" => cur[x] = s.start /\ grid[x] = {}
        /\ pc[x] = "grid" =>
              /\ On(s, cur[x]) /\ \A g \in grid[x] : On(s, g)
              /\ \A m \in Nat : s.start + m * s.step < cur[x] => s.start + m * s.step \in grid[x]
        /\ pc[x] = "build" => grid[x] = GridOf(s)

ReadInv(x) ==
    /\ pos[x] \in 1 .. Len(spec[x].entities) + 1
    /\ cells[x] \subseteq lake /\ \A r \in cells[x] : r.value # Null
    /\ pc[x] # "idle" => lakeAt[x] \subseteq lake

LocalInv == \A x \in Exporters : GridInv(x) /\ ReadInv(x)

LEMMA SpecTypes ==
    ASSUME NEW s \in Specs
    PROVE  s.start \in Int /\ s.end \in Int /\ s.step \in Nat /\ Len(s.entities) \in Nat
BY ExportConstants

LEMMA InitLocal == Init => LocalInv
<1> SUFFICES ASSUME Init, NEW x \in Exporters PROVE GridInv(x) /\ ReadInv(x)
  BY DEF LocalInv
<1>1. spec[x] \in Specs
  BY ExportConstants DEF Init, AnySpec
<1>2. pc[x] = "idle" /\ pos[x] = 1 /\ cells[x] = {} /\ cur[x] = 0 /\ grid[x] = {}
  BY DEF Init
<1> QED BY <1>1, <1>2, SpecTypes DEF GridInv, ReadInv

LEMMA GridSteps ==
    ASSUME NEW s \in Specs, NEW m \in Nat, NEW n \in Nat,
           ~(s.start + m * s.step < s.start + n * s.step),
           s.start + m * s.step < s.start + n * s.step + s.step
    PROVE  m = n
<1> DEFINE d == s.step
<1>1. d \in Nat /\ m * d \in Nat /\ n * d \in Nat /\ m * d >= n * d /\ m * d < n * d + d
  BY SpecTypes
<1> HIDE DEF d
<1>2. ASSUME m > n PROVE FALSE
  <2>1. m - n - 1 \in Nat
    BY <1>2
  <2>2. (m - n - 1) * d >= 0
    BY <1>1, <2>1
  <2>3. (m - n - 1) * d = m * d - n * d - d
    BY <1>1
  <2> QED BY <1>1, <2>2, <2>3
<1>3. ASSUME m < n PROVE FALSE
  <2>1. n - m - 1 \in Nat
    BY <1>3
  <2>2. (n - m - 1) * d >= 0
    BY <1>1, <2>1
  <2>3. (n - m - 1) * d = n * d - m * d - d
    BY <1>1
  <2> QED BY <1>1, <2>2, <2>3
<1> QED BY <1>2, <1>3

LEMMA PointsOfGrid ==
    ASSUME NEW s \in Specs, NEW g \in s.start .. s.end, s.step # 0
    PROVE  (g - s.start) % s.step = 0 <=> On(s, g)
<1> DEFINE d == s.step
           k == g - s.start
<1>1. d \in Nat \ {0} /\ k \in Nat /\ g = s.start + k /\ s.start \in Int
  BY SpecTypes
<1> HIDE DEF d, k
<1>2. k \div d \in Int /\ k \div d >= 0
  BY <1>1
<1>3. ASSUME NEW n \in Nat, k = n * d PROVE k % d = 0
  <2>1. (n * d) % d = 0
    BY <1>1
  <2> QED BY <1>3, <2>1
<1>4. ASSUME k % d = 0 PROVE k = (k \div d) * d
  BY <1>1, <1>4
<1>5. On(s, g) <=> \E n \in Nat : k = n * d
  <2>1. \A n \in Nat : n * d \in Int
    BY <1>1
  <2> QED BY <1>1, <2>1 DEF On, d
<1> QED BY <1>2, <1>3, <1>4, <1>5 DEF d, k

LEMMA BeginFacts ==
    ASSUME Shape, NEW x \in Exporters, Begins(x)
    PROVE  /\ pc'[x] = "read" /\ spec'[x] \in Specs /\ pos'[x] = 1 /\ cells'[x] = {}
           /\ cur'[x] = spec'[x].start /\ grid'[x] = {} /\ lakeAt'[x] = lake /\ lake' = lake
<1>1. PICK s \in SpecsOf[x] : \E all \in RequireAll : Begin(x, s, all)
  BY DEF Begins
<1>2. PICK all \in RequireAll : Begin(x, s, all)
  BY <1>1
<1>3. s \in Specs
  BY ExportConstants
<1> QED BY <1>2, <1>3 DEF Begin, Goto, Shape

LEMMA NextLocal == Shape /\ LocalInv /\ [Next]_vars => LocalInv'
<1> SUFFICES ASSUME Shape, LocalInv, [Next]_vars, NEW x \in Exporters
             PROVE  GridInv(x)' /\ ReadInv(x)'
  BY DEF LocalInv
<1>1. /\ spec[x] \in Specs /\ GridInv(x) /\ ReadInv(x)
      /\ spec[x].start \in Int /\ spec[x].end \in Int /\ spec[x].step \in Nat
      /\ Len(spec[x].entities) \in Nat
  BY SpecTypes DEF Shape, LocalInv
<1>2. CASE Begins(x)
  <2>1. Len(spec'[x].entities) \in Nat /\ spec'[x].start \in Int
    BY <1>2, BeginFacts, SpecTypes
  <2> QED BY <1>2, <2>1, BeginFacts DEF GridInv, ReadInv
<1>3. CASE Stores(x)
  <2>1. UNCHANGED <<lake, spec, pos, cells, cur, grid, lakeAt>>
    BY <1>3, StoresLeaveTable
  <2>2. pc'[x] \notin {"read", "grid", "build"}
    BY <1>3, StoresLeaveTable DEF Shape
  <2>3. pc[x] # "idle" \/ pc'[x] = "idle"
    BY <1>3, NextPhases DEF Stores, OpenDataset, WriteDataset, OpenManifest, WriteManifest,
                            WriteLedger, Fail, WriteRaises, Goto, Shape
  <2> QED BY <1>1, <2>1, <2>2, <2>3 DEF GridInv, ReadInv
<1>4. CASE ReadEntity(x)
  <2>1. /\ UNCHANGED <<lake, pc, spec, cur, grid, lakeAt>> /\ pc[x] = "read"
        /\ pos[x] <= Len(spec[x].entities) /\ pos'[x] = pos[x] + 1
    BY <1>4 DEF ReadEntity, request, history, Shape
  <2>2. PICK found : /\ found \in {Queried(spec[x], spec[x].entities[pos[x]]), {}}
                     /\ \E S \in Winners(found) : cells' = [cells EXCEPT ![x] = @ \cup S]
    BY <1>4 DEF ReadEntity
  <2>3. PICK S \in Winners(found) : cells' = [cells EXCEPT ![x] = @ \cup S]
    BY <2>2
  <2>4. cells'[x] = cells[x] \cup S
    BY <2>3 DEF Shape
  <2>5. S \subseteq lake /\ \A r \in S : r.value # Null
    BY <2>2 DEF Winners, Queried
  <2>6. ReadInv(x)'
    BY <1>1, <2>1, <2>4, <2>5 DEF ReadInv
  <2>7. GridInv(x)'
    BY <1>1, <2>1 DEF GridInv
  <2> QED BY <2>6, <2>7
<1>5. CASE ReadDone(x)
  <2>1. /\ UNCHANGED <<lake, spec, pos, cells, cur, grid, lakeAt>>
        /\ pc[x] = "read" /\ pc'[x] = "grid"
    BY <1>5, NextPhases DEF ReadDone, request, rows, history, Goto, Shape
  <2>2. \A m \in Nat : ~(spec[x].start + m * spec[x].step < spec[x].start)
    <3> TAKE m \in Nat
    <3>1. m * spec[x].step >= 0 /\ m * spec[x].step \in Int
      BY <1>1
    <3> QED BY <1>1, <3>1
  <2>3. On(spec[x], spec[x].start)
    <3>1. 0 * spec[x].step = 0
      BY <1>1
    <3>2. spec[x].start = spec[x].start + 0 * spec[x].step
      BY <1>1, <3>1
    <3> QED BY <3>2 DEF On
  <2> QED BY <1>1, <2>1, <2>2, <2>3 DEF GridInv, ReadInv
<1>6. CASE GridPoint(x)
  <2>1. /\ UNCHANGED <<lake, pc, spec, pos, cells, lakeAt>>
        /\ pc[x] = "grid" /\ cur[x] <= spec[x].end
        /\ grid'[x] = grid[x] \cup {cur[x]} /\ cur'[x] = cur[x] + spec[x].step
    BY <1>6 DEF GridPoint, InGrid, request, history, Shape
  <2>2. PICK n \in Nat : cur[x] = spec[x].start + n * spec[x].step
    BY <1>1, <2>1 DEF GridInv, On
  <2>3. n * spec[x].step \in Nat
    BY <1>1
  <2>4. cur[x] \in Int /\ cur[x] >= spec[x].start
    BY <1>1, <2>2, <2>3
  <2>5. On(spec[x], cur[x] + spec[x].step)
    <3>1. (n + 1) * spec[x].step = n * spec[x].step + spec[x].step
      BY <1>1
    <3>2. cur[x] + spec[x].step = spec[x].start + (n + 1) * spec[x].step
      BY <1>1, <2>2, <2>3, <3>1
    <3> QED BY <3>2 DEF On
  <2>6. ASSUME NEW m \in Nat, spec[x].start + m * spec[x].step < cur[x] + spec[x].step
        PROVE  spec[x].start + m * spec[x].step \in grid[x] \cup {cur[x]}
    <3>1. CASE spec[x].start + m * spec[x].step < cur[x]
      BY <1>1, <2>1, <3>1 DEF GridInv
    <3>2. CASE ~(spec[x].start + m * spec[x].step < cur[x])
      <4>1. m = n
        BY <1>1, <2>2, <2>6, <3>2, GridSteps
      <4> QED BY <2>2, <4>1
    <3> QED BY <3>1, <3>2
  <2>7. ReadInv(x)'
    BY <1>1, <2>1 DEF ReadInv
  <2>8. On(spec[x], cur[x]) /\ grid[x] \subseteq spec[x].start .. spec[x].end
        /\ \A g \in grid[x] : On(spec[x], g)
    BY <1>1, <2>1 DEF GridInv
  <2>9. GridInv(x)'
    BY <1>1, <2>1, <2>4, <2>5, <2>6, <2>8 DEF GridInv
  <2> QED BY <2>7, <2>9
<1>7. CASE GridDone(x)
  <2>1. /\ UNCHANGED <<lake, spec, pos, cells, cur, grid, lakeAt>>
        /\ pc[x] = "grid" /\ pc'[x] = "build" /\ ~(cur[x] <= spec[x].end)
    BY <1>7, NextPhases DEF GridDone, InGrid, request, rows, history, Goto, Shape
  <2>2. ASSUME NEW g \in spec[x].start .. spec[x].end, On(spec[x], g) PROVE g \in grid[x]
    <3>1. PICK m \in Nat : g = spec[x].start + m * spec[x].step
      BY <2>2 DEF On
    <3>2. cur[x] \in Int /\ g < cur[x]
      BY <1>1, <2>1 DEF GridInv
    <3> QED BY <1>1, <2>1, <3>1, <3>2 DEF GridInv
  <2>3. \A g \in grid[x] : g \in spec[x].start .. spec[x].end /\ On(spec[x], g)
    BY <1>1, <2>1 DEF GridInv
  <2>4. CASE spec[x].step # 0
    <3>1. grid[x] = GridOf(spec[x])
      BY <1>1, <2>2, <2>3, <2>4, PointsOfGrid DEF GridOf
    <3> QED BY <1>1, <2>1, <3>1 DEF GridInv, ReadInv
  <2>5. CASE spec[x].step = 0
    <3>1. PICK n \in Nat : cur[x] = spec[x].start + n * spec[x].step
      BY <1>1, <2>1 DEF GridInv, On
    <3>2. spec[x].start .. spec[x].end = {}
      BY <1>1, <2>1, <2>5, <3>1
    <3>3. grid[x] = GridOf(spec[x])
      BY <2>3, <3>2 DEF GridOf
    <3> QED BY <1>1, <2>1, <3>3 DEF GridInv, ReadInv
  <2> QED BY <2>4, <2>5
<1>8. CASE BuildTable(x)
  <2>1. /\ UNCHANGED <<lake, spec, pos, cells, cur, grid, lakeAt>>
        /\ pc[x] = "build" /\ pc' = [pc EXCEPT ![x] = "open"]
    BY <1>8, NextPhases DEF BuildTable, request, Goto
  <2>2. pc'[x] = "open"
    BY <2>1 DEF Shape
  <2> QED BY <1>1, <2>1, <2>2 DEF GridInv, ReadInv
<1>9. CASE Mine(x)' = Mine(x) /\ lake \subseteq lake'
  <2>1. /\ pc'[x] = pc[x] /\ spec'[x] = spec[x] /\ pos'[x] = pos[x] /\ cells'[x] = cells[x]
        /\ cur'[x] = cur[x] /\ grid'[x] = grid[x] /\ lakeAt'[x] = lakeAt[x]
    BY <1>9 DEF Mine
  <2> QED BY <1>1, <1>9, <2>1 DEF GridInv, ReadInv
<1> QED BY <1>2, <1>3, <1>4, <1>5, <1>6, <1>7, <1>8, <1>9, NextOf DEF Reads

LEMMA LocalHolds == Spec => []LocalInv
BY InitLocal, NextLocal, InitShape, NextShape, PTL DEF Spec

\* Exporters, stores and ledger are well formed, and the grid of an exporter
\* stays in the date range of its spec (training.py: export_training_set, _grid).
THEOREM ExportTypes == Spec => []TypeOK
<1>1. Shape /\ LocalInv => TypeOK
  BY DEF Shape, LocalInv, GridInv, ReadInv, TypeOK
<1> QED BY <1>1, ShapeHolds, LocalHolds, PTL

-----------------------------------------------------------------------------
(* The table and the lake *)

\* The lake of the beginning has no value of an entity that cells lacks.
Covered(x, en) ==
    \A r \in lakeAt[x] :
        /\ r.entity = en /\ r.ts \in spec[x].start .. spec[x].end
        /\ r.feature \in Range(spec[x].features) /\ r.value # Null
        => \E q \in cells[x] : q.entity = en /\ SameCell(q, r)

CoverInv(x) ==
    /\ pc[x] = "read" =>
          \A i \in 1 .. Len(spec[x].entities) : i < pos[x] => Covered(x, spec[x].entities[i])
    /\ pc[x] \in {"grid", "build"} =>
          \A en \in Range(spec[x].entities) : Covered(x, en)

\* What TableMatchesLake says of one exporter.
Match(x) ==
    LET wanted == Range(spec[x].entities) \X GridOf(spec[x])
        got == {t.point : t \in table[x]}
    IN  /\ got \subseteq wanted
        /\ Cardinality(got) = Cardinality(table[x])
        /\ \A p \in wanted : (~reqAll[x]
                 \/ \A n \in Features(x) : In(lakeAt[x], p, n) # {}) => p \in got
        /\ \A t \in table[x] : \A n \in Features(x) :
              IF t.features[n] = Null
              THEN ~reqAll[x] /\ In(lakeAt[x], t.point, n) = {}
              ELSE \E r \in In(lake, t.point, n) : r.value = t.features[n]

TableInv == \A x \in Exporters : CoverInv(x) /\ (Built(x) => Match(x))

LEMMA EntityRange ==
    ASSUME NEW s \in Specs
    PROVE  /\ \A i \in 1 .. Len(s.entities) : s.entities[i] \in Range(s.entities)
           /\ \A en \in Range(s.entities) : \E i \in 1 .. Len(s.entities) : en = s.entities[i]
           /\ IsFiniteSet(Range(s.entities))
<1> DEFINE es == s.entities
<1>1. es \in Seq(Range(es))
  BY ExportConstants
<1>2. DOMAIN es = 1 .. Len(es) /\ Len(es) \in Nat
  <2> HIDE DEF es
  <2> QED BY <1>1
<1>3. Range(es) = {es[i] : i \in 1 .. Len(es)}
  BY <1>2 DEF Range
<1>4. IsFiniteSet(1 .. Len(es))
  BY <1>2, FS_Interval
<1>5. es \in Surjection(1 .. Len(es), Range(es))
  <2>1. es \in [1 .. Len(es) -> Range(es)]
    <3> HIDE DEF es
    <3> QED BY <1>1, <1>2
  <2> QED BY <1>3, <2>1 DEF Surjection
<1> HIDE DEF es
<1>6. IsFiniteSet(Range(es))
  BY <1>4, <1>5, FS_Surjection
<1> QED BY <1>3, <1>6 DEF es

LEMMA ValueOfCell ==
    ASSUME NEW x, NEW p, NEW n, \A r \in cells[x] : r.value # Null
    PROVE  /\ ValueAt(x, p, n) # Null =>
                 \E r \in cells[x] : /\ r.entity = p[1] /\ r.ts = p[2] /\ r.feature = n
                                     /\ r.value = ValueAt(x, p, n)
           /\ ValueAt(x, p, n) = Null =>
                 ~\E r \in cells[x] : r.entity = p[1] /\ r.ts = p[2] /\ r.feature = n
<1> DEFINE hits == {r \in cells[x] : r.entity = p[1] /\ r.ts = p[2] /\ r.feature = n}
<1>1. ValueAt(x, p, n) = IF hits = {} THEN Null ELSE (CHOOSE r \in hits : TRUE).value
  BY DEF ValueAt
<1>2. hits # {} => (CHOOSE r \in hits : TRUE) \in hits
  OBVIOUS
<1> QED BY <1>1, <1>2

LEMMA MatchKept ==
    ASSUME NEW x, Match(x), lake \subseteq lake',
           spec'[x] = spec[x], reqAll'[x] = reqAll[x], table'[x] = table[x],
           lakeAt'[x] = lakeAt[x]
    PROVE  Match(x)'
<1>1. \A p, n : In(lake, p, n) \subseteq In(lake', p, n)
  BY DEF In
<1>2. Features(x)' = Features(x)
  BY DEF Features
<1>3. \A p, n : In(lakeAt'[x], p, n) = In(lakeAt[x], p, n)
  OBVIOUS
<1>4. ASSUME NEW t \in table'[x], NEW n \in Features(x)'
      PROVE  IF t.features[n] = Null
             THEN ~reqAll'[x] /\ In(lakeAt'[x], t.point, n) = {}
             ELSE \E r \in In(lake', t.point, n) : r.value = t.features[n]
  BY <1>1, <1>2, <1>3 DEF Match
<1> QED BY <1>2, <1>3, <1>4 DEF Match

LEMMA BuildMatches ==
    ASSUME Shape, LocalInv, TableInv, NEW x \in Exporters, BuildTable(x)
    PROVE  Match(x)'
<1> DEFINE s == spec[x]
           wanted == Range(s.entities) \X GridOf(s)
           kept == Kept(x)
<1>1. /\ UNCHANGED <<lake, spec, reqAll, cells, lakeAt>> /\ pc[x] = "build"
  BY DEF BuildTable, request
<1>2. PICK failed \in IF "label" \in Faults THEN SUBSET kept ELSE {{}} :
          table' = [table EXCEPT ![x] =
              {[point |-> p,
                features |-> [n \in Range(s.features) |-> ValueAt(x, p, n)],
                label |-> IF p \in failed THEN Null ELSE LabelOf[p]] : p \in kept}]
  BY Zenon DEF BuildTable
<1> DEFINE row(p) == [point |-> p,
                      features |-> [n \in Range(s.features) |-> ValueAt(x, p, n)],
                      label |-> IF p \in failed THEN Null ELSE LabelOf[p]]
<1>3. s \in Specs /\ grid[x] = GridOf(s) /\ (\A r \in cells[x] : r.value # Null)
      /\ cells[x] \subseteq lake
  BY <1>1 DEF LocalInv, GridInv, ReadInv, Shape
<1>4. /\ Points(x) = wanted
      /\ \A p : p \in kept <=> /\ p \in wanted
                               /\ reqAll[x] => \A n \in Range(s.features) : ValueAt(x, p, n) # Null
  BY <1>3 DEF Points, Kept
<1>5. table'[x] = {row(p) : p \in kept}
  <2>1. table' = [table EXCEPT ![x] = {row(p) : p \in kept}] /\ x \in DOMAIN table
    BY <1>2 DEF Shape
  <2> HIDE DEF row, kept
  <2> QED BY <2>1
<1>6. {t.point : t \in table'[x]} = kept
  <2>1. \A p \in kept : row(p).point = p
    OBVIOUS
  <2> HIDE DEF row, kept
  <2> QED BY <1>5, <2>1
<1>7. Cardinality(kept) = Cardinality(table'[x])
  <2>1. IsFiniteSet(kept)
    <3>1. IsFiniteSet(Range(s.entities))
      BY <1>3, EntityRange
    <3>2. IsFiniteSet(GridOf(s))
      <4>1. GridOf(s) \in SUBSET (s.start .. s.end)
        BY DEF GridOf
      <4>2. IsFiniteSet(s.start .. s.end)
        <5>1. s.start \in Int /\ s.end \in Int
          BY <1>3, SpecTypes
        <5> HIDE DEF s
        <5> QED BY <5>1, FS_Interval
      <4> HIDE DEF s
      <4> QED BY <4>1, <4>2, FS_Subset
    <3>3. IsFiniteSet(wanted)
      BY <3>1, <3>2, FS_Product
    <3>4. kept \in SUBSET wanted
      BY <1>4
    <3> HIDE DEF wanted, kept
    <3> QED BY <3>3, <3>4, FS_Subset
  <2> DEFINE f == [p \in kept |-> row(p)]
  <2>2. f \in Bijection(kept, table'[x])
    <3>1. \A p, q \in kept : row(p) = row(q) => p = q
      <4>1. \A p \in kept : row(p).point = p
        OBVIOUS
      <4> HIDE DEF row, kept
      <4> QED BY <4>1
    <3> HIDE DEF row, kept
    <3>2. f \in [kept -> table'[x]] /\ (\A t \in table'[x] : \E p \in kept : f[p] = t)
          /\ \A p, q \in kept : f[p] = f[q] => p = q
      BY <1>5, <3>1
    <3> HIDE DEF f
    <3> QED BY <3>2 DEF Bijection, Injection, Surjection, IsInjective
  <2>3. ExistsBijection(kept, table'[x])
    <3> HIDE DEF f, kept
    <3> QED BY <2>2 DEF ExistsBijection
  <2> HIDE DEF kept
  <2> QED BY <2>1, <2>3, FS_Bijection
\* An empty cell: the lake of the beginning had no value for it.
<1>8. ASSUME NEW p \in wanted, NEW n \in Range(s.features), ValueAt(x, p, n) = Null
      PROVE  In(lakeAt[x], p, n) = {}
  <2>1. SUFFICES ASSUME NEW r \in lakeAt[x], r.entity = p[1], r.ts = p[2], r.feature = n,
                        r.value # Null
                 PROVE  FALSE
    BY DEF In
  <2>2. p[1] \in Range(s.entities) /\ p[2] \in s.start .. s.end
    BY DEF GridOf
  <2>3. Covered(x, p[1])
    BY <1>1, <2>2 DEF TableInv, CoverInv
  <2>4. PICK q \in cells[x] : q.entity = p[1] /\ SameCell(q, r)
    BY <2>1, <2>2, <2>3 DEF Covered
  <2> QED BY <1>3, <1>8, <2>1, <2>4, ValueOfCell DEF SameCell
<1>9. ASSUME NEW p \in wanted, NEW n \in Range(s.features), ValueAt(x, p, n) # Null
      PROVE  \E r \in In(lake, p, n) : r.value = ValueAt(x, p, n)
  <2>1. PICK r \in cells[x] : /\ r.entity = p[1] /\ r.ts = p[2] /\ r.feature = n
                              /\ r.value = ValueAt(x, p, n)
    BY <1>3, <1>9, ValueOfCell
  <2> QED BY <1>3, <1>9, <2>1 DEF In
<1>10. ASSUME NEW t \in table'[x], NEW n \in Range(s.features)
       PROVE  IF t.features[n] = Null
              THEN ~reqAll[x] /\ In(lakeAt[x], t.point, n) = {}
              ELSE \E r \in In(lake, t.point, n) : r.value = t.features[n]
  <2>1. PICK p \in kept : t = row(p)
    BY <1>5
  <2>2. t.point = p /\ t.features[n] = ValueAt(x, p, n)
    BY <2>1
  <2>3. p \in wanted /\ (reqAll[x] => ValueAt(x, p, n) # Null)
    BY <1>4
  <2> HIDE DEF wanted
  <2> QED BY <1>8, <1>9, <2>2, <2>3
<1>11. ASSUME NEW p \in wanted,
              ~reqAll[x] \/ \A n \in Range(s.features) : In(lakeAt[x], p, n) # {}
       PROVE  p \in kept
  BY <1>4, <1>8, <1>11
<1>12. /\ spec'[x] = s /\ reqAll'[x] = reqAll[x] /\ lakeAt'[x] = lakeAt[x] /\ lake' = lake
       /\ Features(x)' = Range(s.features)
  BY <1>1 DEF Features
<1> DEFINE got == {t.point : t \in table'[x]}
<1>13. /\ got \subseteq wanted
       /\ Cardinality(got) = Cardinality(table'[x])
       /\ \A p \in wanted : (~reqAll'[x]
              \/ \A n \in Features(x)' : In(lakeAt'[x], p, n) # {}) => p \in got
       /\ \A t \in table'[x] : \A n \in Features(x)' :
              IF t.features[n] = Null
              THEN ~reqAll'[x] /\ In(lakeAt'[x], t.point, n) = {}
              ELSE \E r \in In(lake', t.point, n) : r.value = t.features[n]
  <2> HIDE DEF kept
  <2>1. got = kept /\ got \subseteq wanted
    BY <1>4, <1>6
  <2> HIDE DEF got, s
  <2> QED BY <1>7, <1>10, <1>11, <1>12, <2>1
<1> QED BY <1>12, <1>13 DEF Match

LEMMA InitTable == Init => TableInv
BY DEF Init, TableInv, CoverInv, Built

LEMMA CoveredKept ==
    ASSUME NEW x, NEW en, Covered(x, en), spec'[x] = spec[x], lakeAt'[x] = lakeAt[x],
           cells[x] \subseteq cells'[x]
    PROVE  Covered(x, en)'
BY DEF Covered, SameCell

LEMMA ReadCovers ==
    ASSUME Shape, LocalInv, "io" \notin Faults, NEW x \in Exporters, ReadEntity(x)
    PROVE  /\ pc[x] = "read" /\ pos'[x] = pos[x] + 1
           /\ cells[x] \subseteq cells'[x]
           /\ UNCHANGED <<pc, spec, lakeAt>>
           /\ \A en : en = spec[x].entities[pos[x]] => Covered(x, en)'
<1> SUFFICES ASSUME NEW en, en = spec[x].entities[pos[x]]
             PROVE  /\ pc[x] = "read" /\ pos'[x] = pos[x] + 1
                    /\ cells[x] \subseteq cells'[x]
                    /\ UNCHANGED <<pc, spec, lakeAt>>
                    /\ Covered(x, en)'
  OBVIOUS
<1> DEFINE s == spec[x]
<1>1. /\ UNCHANGED <<lake, pc, spec, lakeAt>> /\ pc[x] = "read" /\ pos'[x] = pos[x] + 1
  BY DEF ReadEntity, request, history, Shape
<1>2. PICK S \in Winners(Queried(s, en)) : cells' = [cells EXCEPT ![x] = @ \cup S]
  BY DEF ReadEntity
<1>3. cells'[x] = cells[x] \cup S
  BY <1>2 DEF Shape
<1>4. ASSUME NEW r \in lakeAt[x], r.entity = en, r.ts \in s.start .. s.end,
             r.feature \in Range(s.features), r.value # Null
      PROVE  \E q \in cells'[x] : q.entity = en /\ SameCell(q, r)
  <2>1. r \in lake
    BY <1>1 DEF LocalInv, ReadInv
  <2>2. s.start <= r.ts /\ r.ts < QueryEnd(s)
    <3>1. s.start \in Int /\ s.end \in Int
      BY SpecTypes DEF Shape
    <3> HIDE DEF s
    <3> QED BY <1>4, <3>1 DEF QueryEnd
  <2>3. r \in Queried(s, en)
    BY <1>4, <2>1, <2>2 DEF Queried
  <2>4. PICK q \in S : SameCell(q, r)
    BY <2>3 DEF Winners
  <2>5. q.entity = en
    BY DEF Winners, Queried
  <2> QED BY <1>3, <2>4, <2>5
<1> QED BY <1>1, <1>3, <1>4 DEF Covered, SameCell

LEMMA NextTable ==
    ASSUME Shape, LocalInv, TableInv, "io" \notin Faults, [Next]_vars
    PROVE  TableInv'
<1> SUFFICES ASSUME NEW x \in Exporters PROVE CoverInv(x)' /\ (Built(x)' => Match(x)')
  BY DEF TableInv
<1>1. /\ spec[x] \in Specs /\ Len(spec[x].entities) \in Nat
      /\ pos[x] \in 1 .. Len(spec[x].entities) + 1
      /\ CoverInv(x) /\ (Built(x) => Match(x))
  BY SpecTypes DEF Shape, LocalInv, ReadInv, TableInv
<1>2. CASE Begins(x)
  <2>1. pc'[x] = "read" /\ pos'[x] = 1 /\ Len(spec'[x].entities) \in Nat
    BY <1>2, BeginFacts, SpecTypes
  <2> QED BY <2>1 DEF CoverInv, Built
<1>3. CASE Stores(x)
  <2>1. UNCHANGED <<lake, spec, reqAll, table, lakeAt>> /\ (Built(x)' => Built(x))
    BY <1>3, StoresLeaveTable
  <2>2. pc'[x] \notin {"read", "grid", "build"}
    BY <1>3, StoresLeaveTable DEF Shape
  <2>3. CoverInv(x)'
    BY <2>2 DEF CoverInv
  <2>4. ASSUME Built(x)' PROVE Match(x)'
    BY <1>1, <2>1, <2>4, MatchKept
  <2> QED BY <2>3, <2>4
<1>4. CASE ReadEntity(x)
  <2>1. /\ pc[x] = "read" /\ pos'[x] = pos[x] + 1 /\ cells[x] \subseteq cells'[x]
        /\ UNCHANGED <<pc, spec, lakeAt>>
        /\ \A en : en = spec[x].entities[pos[x]] => Covered(x, en)'
    BY <1>4, ReadCovers
  <2>2. ASSUME NEW i \in 1 .. Len(spec[x].entities), i < pos[x] + 1,
               NEW en, en = spec[x].entities[i]
        PROVE  Covered(x, en)'
    <3>1. CASE i < pos[x]
      <4>1. Covered(x, en)
        BY <1>1, <2>1, <2>2, <3>1 DEF CoverInv
      <4>2. spec'[x] = spec[x] /\ lakeAt'[x] = lakeAt[x]
        BY <2>1
      <4> QED BY <2>1, <4>1, <4>2, CoveredKept
    <3>2. CASE i = pos[x]
      BY <2>1, <2>2, <3>2
    <3> QED BY <1>1, <2>2, <3>1, <3>2
  <2>3. pc'[x] = "read" /\ ~Built(x)'
    BY <2>1 DEF Built
  <2> QED BY <2>1, <2>2, <2>3 DEF CoverInv
<1>5. CASE ReadDone(x)
  <2>1. /\ UNCHANGED <<spec, cells, lakeAt>> /\ pc[x] = "read" /\ pc'[x] = "grid"
        /\ pos[x] > Len(spec[x].entities)
    BY <1>5, NextPhases DEF ReadDone, request, rows, history, Goto, Shape
  <2>2. \A en \in Range(spec[x].entities) : Covered(x, en)
    <3> TAKE en \in Range(spec[x].entities)
    <3>1. PICK i \in 1 .. Len(spec[x].entities) : en = spec[x].entities[i]
      BY <1>1, EntityRange
    <3>2. i < pos[x]
      BY <1>1, <2>1
    <3> QED BY <1>1, <2>1, <3>1, <3>2 DEF CoverInv
  <2>3. \A en \in Range(spec'[x].entities) : Covered(x, en)'
    BY <2>1, <2>2 DEF Covered
  <2> QED BY <2>1, <2>3 DEF CoverInv, Built
<1>6. CASE GridPoint(x)
  <2>1. UNCHANGED <<pc, spec, cells, lakeAt>> /\ pc[x] = "grid"
    BY <1>6 DEF GridPoint, request, history
  <2> QED BY <1>1, <2>1 DEF CoverInv, Built, Covered
<1>7. CASE GridDone(x)
  <2>1. UNCHANGED <<spec, cells, lakeAt>> /\ pc[x] = "grid" /\ pc'[x] = "build"
    BY <1>7, NextPhases DEF GridDone, request, rows, history, Goto, Shape
  <2> QED BY <1>1, <2>1 DEF CoverInv, Built, Covered
<1>8. CASE BuildTable(x)
  <2>1. pc' = [pc EXCEPT ![x] = "open"]
    BY <1>8, NextPhases DEF BuildTable, Goto
  <2>2. pc'[x] = "open"
    BY <2>1 DEF Shape
  <2>3. Match(x)'
    BY <1>8, BuildMatches
  <2> QED BY <2>2, <2>3 DEF CoverInv
<1>9. CASE Mine(x)' = Mine(x) /\ lake \subseteq lake'
  <2>1. /\ pc'[x] = pc[x] /\ spec'[x] = spec[x] /\ reqAll'[x] = reqAll[x]
        /\ pos'[x] = pos[x] /\ cells'[x] = cells[x] /\ table'[x] = table[x]
        /\ lakeAt'[x] = lakeAt[x]
    BY <1>9 DEF Mine
  <2>2. CoverInv(x)'
    BY <1>1, <2>1 DEF CoverInv, Covered
  <2>3. ASSUME Built(x)' PROVE Match(x)'
    <3>1. Built(x)
      BY <2>1, <2>3 DEF Built
    <3> QED BY <1>1, <1>9, <2>1, <3>1, MatchKept
  <2> QED BY <2>2, <2>3
<1> QED BY <1>2, <1>3, <1>4, <1>5, <1>6, <1>7, <1>8, <1>9, NextOf DEF Reads

\* A dataset has one row per entity and grid point and the values of the lake,
\* as long as no query hides rows behind an IOException (training.py:
\* export_training_set, _read_feature_rows).
THEOREM TableMatchesLakeHolds ==
    ASSUME "io" \notin Faults
    PROVE  Spec => []TableMatchesLake
<1>1. TableInv => TableMatchesLake
  BY DEF TableInv, TableMatchesLake, Match
<1>2. Shape /\ LocalInv /\ TableInv /\ [Next]_vars => TableInv'
  BY NextTable
<1> QED BY <1>1, <1>2, InitTable, ShapeHolds, LocalHolds, PTL DEF Spec
=============================================================================
