------------------------ MODULE BatchBuilder_proofs ------------------------
(***************************************************************************)
(* Theorems about BatchBuilder, for any jobs, raw rows, batch sizes and    *)
(* routes: the loops, the values of the rows, the cells that have one, and *)
(* the counts.                                                             *)
(***************************************************************************)
EXTENDS BatchBuilder, NumberFacts_proofs

-----------------------------------------------------------------------------
(* Helpers *)

LEMMA SetMinIsLeast ==
    ASSUME NEW S \in SUBSET Int, IsFiniteSet(S), S # {}
    PROVE  SetMin(S) \in S /\ \A y \in S : SetMin(S) <= y
<1>1. \E least \in S : \A y \in S : least <= y
  BY LeastElement
<1> QED BY <1>1 DEF SetMin

LEMMA JobTypes ==
    ASSUME NEW j \in Jobs
    PROVE  /\ j.features \in Seq(Features) /\ Len(j.features) \in Nat
           /\ \A i \in 1 .. Len(j.features) : j.features[i] \in Features
           /\ j.entities \in Seq(Entities) /\ Len(j.entities) \in Nat
           /\ \A i \in 1 .. Len(j.entities) : j.entities[i] \in Entities
           /\ \A i, k \in 1 .. Len(j.features) : j.features[i] = j.features[k] => i = k
           /\ \A i, k \in 1 .. Len(j.entities) : j.entities[i] = j.entities[k] => i = k
           /\ j.start \in Int /\ j.end \in Int /\ j.step \in Nat
           /\ j.start .. j.end \subseteq Times
<1>1. j.features \in Seq(Features) /\ j.entities \in Seq(Entities)
  BY BuilderConstants
<1>2. DOMAIN j.features = 1 .. Len(j.features) /\ DOMAIN j.entities = 1 .. Len(j.entities)
  BY <1>1
<1>3. IsInjective(j.features) /\ IsInjective(j.entities)
  BY BuilderConstants
<1>4. \A i, k \in 1 .. Len(j.features) : j.features[i] = j.features[k] => i = k
  BY <1>2, <1>3 DEF IsInjective
<1>5. \A i, k \in 1 .. Len(j.entities) : j.entities[i] = j.entities[k] => i = k
  BY <1>2, <1>3 DEF IsInjective
<1>6. /\ Len(j.features) \in Nat /\ \A i \in 1 .. Len(j.features) : j.features[i] \in Features
      /\ Len(j.entities) \in Nat /\ \A i \in 1 .. Len(j.entities) : j.entities[i] \in Entities
  <2> DEFINE fs == j.features
             es == j.entities
  <2>1. fs \in Seq(Features) /\ es \in Seq(Entities)
    BY <1>1
  <2> HIDE DEF fs, es
  <2>2. /\ Len(fs) \in Nat /\ \A i \in 1 .. Len(fs) : fs[i] \in Features
        /\ Len(es) \in Nat /\ \A i \in 1 .. Len(es) : es[i] \in Entities
    BY <2>1
  <2> QED BY <2>2 DEF fs, es
<1>7. /\ j.start \in Int /\ j.end \in Int /\ j.step \in Nat
      /\ j.start .. j.end \subseteq Times
  BY BuilderConstants
<1> QED BY <1>1, <1>4, <1>5, <1>6, <1>7

LEMMA TodoTypes ==
    ASSUME job \in Jobs, Todo # {}
    PROVE  /\ SetMin(Todo) \in 1 .. Len(job.features) /\ SetMin(Todo) >= f
           /\ \A i \in Todo : SetMin(Todo) <= i
           /\ Feature \in Features
           /\ FeatureType[Feature] = EntityType[Entity]
<1>1. Len(job.features) \in Nat
  BY JobTypes
<1>2. Todo \in SUBSET (1 .. Len(job.features))
  BY DEF Todo, Specs
<1>3. IsFiniteSet(Todo) /\ Todo \in SUBSET Int
  <2>1. IsFiniteSet(1 .. Len(job.features))
    BY <1>1, FS_Interval
  <2>2. IsFiniteSet(Todo)
    BY <1>2, <2>1, FS_Subset
  <2> QED BY <1>1, <1>2, <2>2
<1>4. SetMin(Todo) \in Todo /\ \A i \in Todo : SetMin(Todo) <= i
  BY <1>3, SetMinIsLeast
<1> QED BY <1>4, JobTypes DEF Todo, Specs, Feature

-----------------------------------------------------------------------------
(* The loops *)

\* Where the loops are.
LoopInv ==
    /\ IsFiniteSet(grid) /\ IsFiniteSet(buf) /\ cur \in Int
    /\ rawAt \in Seq(SUBSET Raw)
    /\ pc # "idle" => run >= 1 /\ rawAt[run] \subseteq raw /\ Accepted(job)
    /\ pc = "grid" => cur >= job.start
    /\ pc # "build" => buf = {}
    /\ pc = "drain" => e = Len(job.entities) + 1
    /\ pc = "build" =>
          /\ e <= Len(job.entities)
          /\ \A q \in grid \ left, p \in left : q < p
    /\ pc = "build" /\ Todo # {} =>
          /\ cutoff \in grid \ left /\ \A q \in grid \ left : q <= cutoff
          /\ rawAt[run] \subseteq base

BuilderTypes == TypeOK /\ LoopInv

LEMMA PointIsCutoff ==
    ASSUME BuilderTypes, pc = "build", Todo # {}
    PROVE  Point = cutoff /\ cutoff \in grid /\ cutoff \in Int /\ Entity \in Entities
<1>1. cutoff \in grid \ left /\ \A q \in grid \ left : q <= cutoff
  BY DEF BuilderTypes, LoopInv
<1>2. grid \in SUBSET Int
  BY BuilderConstants DEF BuilderTypes, TypeOK
<1>3. \A p \in grid : p \notin left /\ (\A q \in grid \ left : q <= p) <=> p = cutoff
  BY <1>1, <1>2
<1>4. Point = cutoff
  <2>1. {p \in grid : p \notin left /\ \A q \in grid \ left : q <= p} = {cutoff}
    BY <1>1, <1>3
  <2>2. SetMin({cutoff}) = cutoff
    BY <1>1, <1>2 DEF SetMin
  <2> QED BY <2>1, <2>2 DEF Point
<1>5. Entity \in Entities
  BY JobTypes DEF Entity, BuilderTypes, TypeOK, LoopInv
<1> QED BY <1>1, <1>2, <1>4, <1>5

LEMMA LeftMin ==
    ASSUME BuilderTypes, left # {}
    PROVE  SetMin(left) \in left /\ \A p \in left : SetMin(left) <= p
<1>1. left \in SUBSET Int /\ IsFiniteSet(left)
  <2>1. left \in SUBSET grid /\ grid \in SUBSET Int
    BY BuilderConstants DEF BuilderTypes, TypeOK
  <2> QED BY <2>1, FS_Subset DEF BuilderTypes, LoopInv
<1> QED BY <1>1, SetMinIsLeast

LEMMA InitBuilder == Init => BuilderTypes
<1> SUFFICES ASSUME Init PROVE BuilderTypes
  OBVIOUS
<1>1. job \in Jobs
  BY BuilderConstants DEF Init
<1>2. Len(job.entities) \in Nat /\ Len(job.features) \in Nat /\ job.start \in Int
  BY <1>1, JobTypes
<1>3. TypeOK
  BY <1>1, <1>2, BuilderConstants DEF Init, TypeOK, Stored
<1>4. LoopInv
  BY <1>2, FS_EmptySet DEF Init, LoopInv
<1> QED BY <1>3, <1>4 DEF BuilderTypes

\* A value comes from raw rows, whichever way the feature read.
LEMMA ReadsAreRaw ==
    ASSUME BuilderTypes, pc = "build", Todo # {}, NEW V \in Reads(Feature)
    PROVE  /\ V \subseteq Raw
           /\ [run |-> run, entity |-> Entity, ts |-> Point, feature |-> Feature,
               value |-> V] \in Row
<1>1. V \subseteq raw
  BY DEF Reads, PIT!Views, PIT!Window
<1>2. raw \subseteq Raw /\ grid \subseteq Times /\ run \in 1 .. MaxRuns /\ job \in Jobs
  BY DEF BuilderTypes, TypeOK, LoopInv
<1>3. V \in SUBSET Raw
  BY <1>1, <1>2
<1> QED BY <1>2, <1>3, PointIsCutoff, TodoTypes DEF Row

LEMMA StartTypes ==
    ASSUME BuilderTypes, NEW j \in Jobs, Start(j)
    PROVE  BuilderTypes'
<1> USE DEF BuilderTypes
<1>1. /\ pc = "idle" /\ run < MaxRuns /\ Accepted(j) /\ job' = j /\ run' = run + 1
      /\ cur' = j.start /\ grid' = {} /\ e' = 1 /\ f' = 1 /\ left' = {}
      /\ buf' = {} /\ n' = 0 /\ total' = 0 /\ perEntity' = [en \in {} |-> 0]
      /\ pc' = "grid" /\ rawAt' = Append(rawAt, raw)
      /\ UNCHANGED <<raw, cutoff, base, seen, pending, published, lost, skipped>>
  BY DEF Start, input, output
<1>2. Len(j.entities) \in Nat /\ Len(j.features) \in Nat /\ j.start \in Int
  BY JobTypes
<1>3. rawAt \in Seq(SUBSET Raw) /\ raw \in SUBSET Raw /\ Len(rawAt) = run /\ run \in Nat
      /\ MaxRuns \in Nat
  BY BuilderConstants DEF TypeOK, LoopInv
<1>4. rawAt' \in Seq(SUBSET Raw) /\ Len(rawAt') = run + 1 /\ rawAt'[run + 1] = raw
  BY <1>1, <1>3
<1>5. TypeOK'
  BY <1>1, <1>2, <1>3, <1>4 DEF TypeOK, Stored
<1>6. Accepted(job)'
  BY <1>1 DEF Accepted
<1>7. LoopInv'
  BY <1>1, <1>2, <1>3, <1>4, <1>6, FS_EmptySet DEF LoopInv
<1> QED BY <1>5, <1>7

LEMMA GridTypes ==
    ASSUME BuilderTypes, GridPoint
    PROVE  BuilderTypes'
<1> USE DEF BuilderTypes
<1>1. /\ pc = "grid" /\ cur <= job.end /\ grid' = grid \cup {cur} /\ cur' = cur + job.step
      /\ UNCHANGED <<raw, cutoff, base, seen, pc, job, e, left, f, buf, n, total, perEntity,
                     run, pending, published, lost, rawAt, skipped>>
  BY DEF GridPoint, InGrid, input, counts, output, history
<1>2. /\ job \in Jobs /\ job.start \in Int /\ job.end \in Int /\ job.step \in Nat
      /\ job.start .. job.end \subseteq Times
  BY JobTypes DEF TypeOK
<1>3. cur \in Int /\ cur >= job.start /\ IsFiniteSet(grid)
  BY <1>1 DEF LoopInv
<1>4. TypeOK'
  BY <1>1, <1>2, <1>3 DEF TypeOK, Stored
<1>5. IsFiniteSet(grid')
  BY <1>1, <1>3, FS_AddElement
<1>6. Accepted(job)' <=> Accepted(job)
  BY <1>1
<1>7. LoopInv'
  BY <1>1, <1>2, <1>3, <1>5, <1>6 DEF LoopInv
<1> QED BY <1>4, <1>7

LEMMA EnterFacts ==
    ASSUME NEW k, EnterEntity(k)
    PROVE  /\ e' = k /\ buf' = {} /\ n' = 0 /\ f' = Len(job.features) + 1
           /\ \/ k <= Len(job.entities) /\ left' = grid /\ pc' = "build"
              \/ k > Len(job.entities) /\ left' = {} /\ pc' = "drain"
BY DEF EnterEntity

LEMMA EnterTypes ==
    ASSUME BuilderTypes, GridDone \/ SkipEntity \/ EntityDone
    PROVE  BuilderTypes'
<1> USE DEF BuilderTypes
<1>1. /\ pc = "grid" \/ pc = "build"
      /\ UNCHANGED <<raw, cutoff, base, seen, job, cur, grid, total, run, pending, published,
                     lost, rawAt, skipped>>
      /\ \E k \in 1 .. Len(job.entities) + 1 : EnterEntity(k)
      /\ DOMAIN perEntity' \subseteq Entities
  <2>1. job \in Jobs /\ Len(job.entities) \in Nat
    BY JobTypes DEF TypeOK
  <2>2. CASE GridDone
    BY <2>1, <2>2 DEF GridDone, TypeOK, input, output, history
  <2>3. e \in Nat /\ (pc = "build" => e <= Len(job.entities) /\ Entity \in Entities)
    BY <2>1, JobTypes DEF TypeOK, LoopInv, Entity
  <2>4. CASE SkipEntity
    <3>1. pc = "build" /\ EnterEntity(e + 1) /\ perEntity' = perEntity
          /\ UNCHANGED <<raw, cutoff, base, seen, job, cur, grid, total, run, pending,
                         published, lost, rawAt, skipped>>
      BY <2>4 DEF SkipEntity, input, output, history
    <3>2. e + 1 \in 1 .. Len(job.entities) + 1
      BY <2>1, <2>3, <3>1 DEF TypeOK
    <3> QED BY <3>1, <3>2 DEF TypeOK
  <2>5. CASE EntityDone
    <3>1. pc = "build" /\ EnterEntity(e + 1)
          /\ DOMAIN perEntity' = DOMAIN perEntity \cup {Entity}
          /\ UNCHANGED <<raw, cutoff, base, seen, job, cur, grid, total, run, pending,
                         published, lost, rawAt, skipped>>
      BY <2>5 DEF EntityDone, input, output, history
    <3>2. e + 1 \in 1 .. Len(job.entities) + 1
      BY <2>1, <2>3, <3>1 DEF TypeOK
    <3> QED BY <2>3, <3>1, <3>2 DEF TypeOK
  <2> QED BY <2>2, <2>4, <2>5
<1>2. PICK k \in 1 .. Len(job.entities) + 1 : EnterEntity(k)
  BY <1>1
<1>3. /\ e' = k /\ buf' = {} /\ n' = 0 /\ f' = Len(job.features) + 1
      /\ \/ k <= Len(job.entities) /\ left' = grid /\ pc' = "build"
         \/ k > Len(job.entities) /\ left' = {} /\ pc' = "drain"
  BY <1>2, EnterFacts
<1>4. job \in Jobs /\ Len(job.entities) \in Nat /\ Len(job.features) \in Nat
  BY JobTypes DEF TypeOK
<1>5. TypeOK'
  BY <1>1, <1>3, <1>4 DEF TypeOK, Stored
<1>6. Todo' = {}
  BY <1>1, <1>3, <1>4 DEF Todo, Specs
<1>7. Accepted(job)' <=> Accepted(job)
  BY <1>1
<1>8. LoopInv'
  BY <1>1, <1>3, <1>4, <1>6, <1>7, FS_EmptySet DEF LoopInv
<1> QED BY <1>5, <1>8

LEMMA PointTypes ==
    ASSUME BuilderTypes, NextPoint
    PROVE  BuilderTypes'
<1> USE DEF BuilderTypes
<1>1. /\ pc = "build" /\ left # {}
      /\ cutoff' = SetMin(left) /\ base' = raw /\ seen' = {}
      /\ left' = left \ {SetMin(left)} /\ f' = 1
      /\ UNCHANGED <<raw, pc, job, cur, grid, e, buf, n, total, perEntity, run, pending,
                     published, lost, rawAt, skipped>>
  BY DEF NextPoint, OpenContext, AsOf, PIT!Open, counts, output, history
<1>2. SetMin(left) \in left /\ \A p \in left : SetMin(left) <= p
  BY <1>1, LeftMin
<1>3. job \in Jobs /\ Len(job.features) \in Nat
  BY JobTypes DEF TypeOK
<1>4. left \subseteq grid /\ grid \subseteq Times /\ \A p \in grid : p \in Int
  BY BuilderConstants DEF TypeOK
<1> DEFINE least == SetMin(left)
<1>5. /\ least \in left /\ least \in grid /\ least \in Times /\ least \in Int
      /\ \A p \in left : least <= p
      /\ cutoff' = least /\ left' = left \ {least}
  BY <1>1, <1>2, <1>4
<1> HIDE DEF least
<1>6. TypeOK'
  <2>1. cutoff' \in Times /\ left' \subseteq grid' /\ f' \in 1 .. Len(job'.features) + 1
    BY <1>1, <1>3, <1>4, <1>5
  <2>2. raw' \subseteq Raw /\ base' \subseteq Raw /\ seen' \subseteq Raw
    BY <1>1 DEF TypeOK
  <2>3. Stored' = Stored
    BY <1>1 DEF Stored
  <2> QED BY <1>1, <2>1, <2>2, <2>3 DEF TypeOK
<1>7. \A q \in grid \ left, p \in left : q < p
  BY <1>1 DEF LoopInv
<1>8. /\ \A q \in grid' \ left', p \in left' : q < p
      /\ cutoff' \in grid' \ left' /\ \A q \in grid' \ left' : q <= cutoff'
  <2>1. \A q \in grid' \ left' : q \in grid \ left \/ q = least
    BY <1>1, <1>5
  <2>2. \A p \in left' : p \in left /\ least < p
    <3> SUFFICES ASSUME NEW p \in left' PROVE p \in left /\ least < p
      OBVIOUS
    <3>1. p \in left /\ p # least /\ p \in Int /\ least <= p
      BY <1>4, <1>5
    <3> QED BY <1>5, <3>1
  <2>3. \A q \in grid \ left : q <= least
    BY <1>4, <1>5, <1>7
  <2>4. \A q \in grid' \ left', p \in left' : q < p
    BY <1>7, <2>1, <2>2
  <2>5. \A q \in grid' \ left' : q <= least
    BY <1>5, <2>1, <2>3
  <2> QED BY <1>1, <1>5, <2>4, <2>5
<1>9. Accepted(job)' <=> Accepted(job)
  BY <1>1
<1>10. rawAt'[run'] \subseteq base'
  BY <1>1 DEF LoopInv
<1>11. LoopInv'
  BY <1>1, <1>8, <1>9, <1>10 DEF LoopInv
<1> QED BY <1>6, <1>11

LEMMA ComputeFacts ==
    ASSUME BuilderTypes, Compute \/ ComputeNothing \/ ComputeRaises
    PROVE  /\ pc = "build" /\ Todo # {}
           /\ \E V \in {{}} \cup Reads(Feature) : seen' = seen \cup V
           /\ UNCHANGED <<raw, cutoff, base, job, cur, grid, e, left, n, total, perEntity,
                          run, pending, published, lost, rawAt>>
           /\ \/ /\ Compute /\ pc' = "build" /\ f' = SetMin(Todo) + 1 /\ skipped' = skipped
                 /\ \E V \in Reads(Feature) :
                       buf' = buf \cup {[run |-> run, entity |-> Entity, ts |-> Point,
                                         feature |-> Feature, value |-> V]}
              \/ /\ ComputeNothing /\ pc' = "build" /\ f' = SetMin(Todo) + 1 /\ buf' = buf
                 /\ skipped' = skipped \cup {[run |-> run, entity |-> Entity, ts |-> Point,
                                              feature |-> Feature]}
              \/ /\ ComputeRaises /\ pc' = "idle" /\ buf' = {} /\ f' = f /\ skipped' = skipped
<1>1. CASE Compute
  <2>1. PICK V \in Reads(Feature) :
            /\ seen' = seen \cup V
            /\ buf' = buf \cup {[run |-> run, entity |-> Entity, ts |-> Point,
                                 feature |-> Feature, value |-> V]}
    BY <1>1 DEF Compute
  <2> QED BY <1>1, <2>1 DEF Compute, counts, output, history
<1>2. CASE ComputeNothing
  BY <1>2 DEF ComputeNothing, counts, output
<1>3. CASE ComputeRaises
  BY <1>3 DEF ComputeRaises, loop, counts, output, history
<1> QED BY <1>1, <1>2, <1>3

LEMMA ComputeTypes ==
    ASSUME BuilderTypes, Compute \/ ComputeNothing \/ ComputeRaises
    PROVE  BuilderTypes'
<1> USE DEF BuilderTypes
<1>1. /\ pc = "build" /\ Todo # {} /\ pc' \in {"build", "idle"}
      /\ UNCHANGED <<raw, cutoff, base, job, cur, grid, e, left, n, total, perEntity,
                     run, pending, published, lost, rawAt>>
      /\ f' = f \/ f' = SetMin(Todo) + 1
      /\ pc' = "idle" => buf' = {}
  BY ComputeFacts
<1>2. seen' \subseteq Raw
  <2>1. PICK V \in {{}} \cup Reads(Feature) : seen' = seen \cup V
    BY ComputeFacts
  <2>2. V \subseteq Raw
    BY <1>1, <2>1, ReadsAreRaw
  <2> QED BY <2>1, <2>2 DEF TypeOK
<1>3. buf' \subseteq Row /\ IsFiniteSet(buf')
  <2>1. CASE \E V \in Reads(Feature) :
                 buf' = buf \cup {[run |-> run, entity |-> Entity, ts |-> Point,
                                   feature |-> Feature, value |-> V]}
    <3>1. PICK V \in Reads(Feature) :
              buf' = buf \cup {[run |-> run, entity |-> Entity, ts |-> Point,
                                feature |-> Feature, value |-> V]}
      BY <2>1
    <3> DEFINE new == [run |-> run, entity |-> Entity, ts |-> Point,
                       feature |-> Feature, value |-> V]
    <3>2. new \in Row
      BY <1>1, ReadsAreRaw
    <3>3. buf' = buf \cup {new} /\ IsFiniteSet(buf) /\ buf \subseteq Row
      BY <3>1 DEF LoopInv, TypeOK
    <3> HIDE DEF new
    <3> QED BY <3>2, <3>3, FS_AddElement
  <2>2. CASE buf' = buf \/ buf' = {}
    BY <2>2, FS_EmptySet DEF TypeOK, LoopInv
  <2> QED BY <2>1, <2>2, ComputeFacts
<1>4. f' \in 1 .. Len(job.features) + 1
  BY <1>1, TodoTypes, JobTypes DEF TypeOK
<1>5. TypeOK'
  BY <1>1, <1>2, <1>3, <1>4 DEF TypeOK, Stored
<1>6. Accepted(job)' <=> Accepted(job)
  BY <1>1
<1>7. LoopInv'
  BY <1>1, <1>3, <1>6 DEF LoopInv
<1> QED BY <1>5, <1>7

-----------------------------------------------------------------------------
(* The writer *)

WriterStep ==
    \/ AppendBatch \/ AppendRaises \/ Return \/ Crash
    \/ \E k \in Partitions : Drain(k) \/ DrainRaises(k)

OnePlace == Writer!OnePlace

LEMMA WriterFacts ==
    ASSUME BuilderTypes, WriterStep
    PROVE  /\ UNCHANGED <<raw, cutoff, base, seen, job, cur, grid, e, left, f, perEntity,
                          run, rawAt, skipped>>
           /\ pc # "idle" /\ pc' \in {pc, "idle"} /\ buf' = {}
           /\ pc' # "idle" => lost' = lost
           /\ Stored \subseteq Stored' /\ Stored' \subseteq Stored \cup buf
           /\ pending' \subseteq pending \cup buf
           /\ published \subseteq published' /\ lost \subseteq lost'
           /\ OnePlace /\ Stored \cap buf = {} => OnePlace'
           /\ \/ /\ AppendBatch /\ pc = "build" /\ pc' = "build" /\ Stored' = Stored \cup buf
                 /\ pending' \cup published' = pending \cup published \cup buf
                 /\ total' = total + Cardinality(buf) /\ n' = n + Cardinality(buf)
              \/ /\ n' = n /\ total' = total /\ (pc' = pc => pc = "drain")
                 /\ pc' = pc => pending' \cup published' = pending \cup published
<1> USE DEF BuilderTypes, Stored, OnePlace, Writer!OnePlace
<1>1. CASE AppendBatch
  <2>1. PICK hs \in SUBSET Hours(buf) :
            LET flushed == InHours(pending \cup buf, Entity, hs)
            IN  /\ pending' = (pending \cup buf) \ flushed
                /\ published' = published \cup flushed
    BY <1>1 DEF AppendBatch
  <2>2. InHours(pending \cup buf, Entity, hs) \subseteq pending \cup buf
    BY DEF InHours
  <2>3. /\ UNCHANGED <<raw, cutoff, base, seen, job, cur, grid, e, left, f, perEntity,
                       run, rawAt, skipped, pc, lost>>
        /\ pc = "build" /\ buf' = {}
        /\ total' = total + Cardinality(buf) /\ n' = n + Cardinality(buf)
    BY <1>1 DEF AppendBatch, ResetBatch, input, loop, history
  <2>4. /\ pending' \cup published' = pending \cup published \cup buf
        /\ pending' \subseteq pending \cup buf /\ published \subseteq published'
    BY <2>1, <2>2
  <2>5. OnePlace /\ Stored \cap buf = {} => OnePlace'
    BY <2>1, <2>2, <2>3
  <2> QED BY <1>1, <2>3, <2>4, <2>5
<1>2. CASE AppendRaises
  <2>1. PICK h \in Hours(buf) : \E hs \in SUBSET {g \in Hours(buf) : g < h} :
            LET taken == {r \in buf : Hour(r.ts) <= h}
                flushed == InHours(pending \cup taken, Entity, hs)
                failed == InHours(pending \cup taken, Entity, {h})
            IN  /\ pending' = (pending \cup taken) \ (flushed \cup failed)
                /\ published' = published \cup flushed
                /\ lost' = lost \cup failed
    BY <1>2 DEF AppendRaises
  <2>2. PICK hs \in SUBSET {g \in Hours(buf) : g < h} :
            LET taken == {r \in buf : Hour(r.ts) <= h}
                flushed == InHours(pending \cup taken, Entity, hs)
                failed == InHours(pending \cup taken, Entity, {h})
            IN  /\ pending' = (pending \cup taken) \ (flushed \cup failed)
                /\ published' = published \cup flushed
                /\ lost' = lost \cup failed
    BY <2>1
  <2> DEFINE taken == {r \in buf : Hour(r.ts) <= h}
             flushed == InHours(pending \cup taken, Entity, hs)
             failed == InHours(pending \cup taken, Entity, {h})
  <2>3. taken \subseteq buf /\ flushed \subseteq pending \cup taken
        /\ failed \subseteq pending \cup taken
    BY DEF InHours
  <2>4. flushed \cap failed = {}
    <3>1. h \notin hs
      <4>1. \A r \in buf : r.ts \in Int
        BY BuilderConstants DEF TypeOK, Row
      <4>2. h \in Int
        BY <4>1, BuilderConstants DEF Hours, Hour
      <4> QED BY <4>2
    <3> QED BY <3>1 DEF InHours
  <2>5. /\ UNCHANGED <<raw, cutoff, base, seen, job, cur, grid, e, left, f, perEntity,
                       run, rawAt, skipped, n, total>>
        /\ pc = "build" /\ buf' = {} /\ pc' = "idle"
    BY <1>2 DEF AppendRaises, input, loop, counts, history
  <2>6. /\ pending' = (pending \cup taken) \ (flushed \cup failed)
        /\ published' = published \cup flushed
        /\ lost' = lost \cup failed
    BY <2>2
  <2> HIDE DEF taken, flushed, failed
  <2> QED BY <2>3, <2>4, <2>5, <2>6
<1>3. CASE Return
  BY <1>3 DEF Return, input, loop, counts, output, history, LoopInv
<1>4. CASE Crash
  BY <1>4 DEF Crash, input, loop, counts, history
<1>5. ASSUME NEW k \in Partitions, Drain(k) \/ DrainRaises(k)
      PROVE  /\ UNCHANGED <<raw, cutoff, base, seen, job, cur, grid, e, left, f, perEntity,
                            run, rawAt, skipped, n, total>>
             /\ pc = "drain" /\ pc' \in {pc, "idle"} /\ buf' = {}
             /\ pc' # "idle" => lost' = lost /\ pending' \cup published' = pending \cup published
             /\ Stored' = Stored /\ pending' \subseteq pending
             /\ published \subseteq published' /\ lost \subseteq lost'
             /\ OnePlace => OnePlace'
  <2> DEFINE rows == InHours(pending, k[1], {k[2]})
  <2>1. rows \subseteq pending
    BY DEF InHours
  <2>2. /\ UNCHANGED <<raw, cutoff, base, seen, job, cur, grid, e, left, f, perEntity,
                       run, rawAt, skipped, n, total, buf>>
        /\ pc = "drain" /\ pending' = pending \ rows
        /\ \/ pc' = pc /\ published' = published \cup rows /\ lost' = lost
           \/ pc' = "idle" /\ published' = published /\ lost' = lost \cup rows
    BY <1>5 DEF Drain, DrainRaises, input, loop, counts, history
  <2>3. buf = {}
    BY <2>2 DEF LoopInv
  <2> HIDE DEF rows
  <2> QED BY <2>1, <2>2, <2>3
<1>6. CASE \E k \in Partitions : Drain(k) \/ DrainRaises(k)
  BY <1>5, <1>6
<1> QED BY <1>1, <1>2, <1>3, <1>4, <1>6 DEF WriterStep

LEMMA WriterTypes ==
    ASSUME BuilderTypes, WriterStep
    PROVE  BuilderTypes'
<1> USE DEF BuilderTypes
<1>1. /\ UNCHANGED <<raw, cutoff, base, seen, job, cur, grid, e, left, f, perEntity, run,
                     rawAt>>
      /\ pc' \in {pc, "idle"} /\ buf' = {} /\ Stored' \subseteq Stored \cup buf
  BY WriterFacts
<1>2. n' \in Nat /\ total' \in Nat
  <2>1. Cardinality(buf) \in Nat
    BY FS_CardinalityType DEF LoopInv
  <2> QED BY <2>1, WriterFacts DEF TypeOK
<1>3. TypeOK'
  BY <1>1, <1>2 DEF TypeOK
<1>4. Accepted(job)' <=> Accepted(job)
  BY <1>1
<1>5. Todo' = Todo
  BY <1>1 DEF Todo, Specs, Entity
<1>6. LoopInv'
  BY <1>1, <1>4, <1>5, FS_EmptySet DEF LoopInv
<1> QED BY <1>3, <1>6

LEMMA NextTypes == BuilderTypes /\ [Next]_vars => BuilderTypes'
<1> SUFFICES ASSUME BuilderTypes, [Next]_vars PROVE BuilderTypes'
  OBVIOUS
<1>1. CASE \E r \in Raw : PublishRaw(r)
  <2>1. /\ raw \subseteq raw' /\ raw' \subseteq Raw
        /\ UNCHANGED <<cutoff, base, seen, pc, job, cur, grid, e, left, f, buf, n, total,
                       perEntity, run, pending, published, lost, rawAt, skipped>>
    BY <1>1 DEF PublishRaw, PIT!Publish, loop, counts, output, history, BuilderTypes, TypeOK
  <2>2. TypeOK'
    BY <2>1 DEF BuilderTypes, TypeOK, Stored
  <2>3. Todo' = Todo /\ (Accepted(job)' <=> Accepted(job))
    BY <2>1 DEF Todo, Specs, Entity
  <2> QED BY <2>1, <2>2, <2>3 DEF BuilderTypes, LoopInv
<1>2. CASE UNCHANGED vars
  <2>1. UNCHANGED <<raw, cutoff, base, seen, pc, job, cur, grid, e, left, f, buf, n, total,
                    perEntity, run, pending, published, lost, rawAt, skipped>>
    BY <1>2 DEF vars, input, loop, counts, output, history
  <2>2. TypeOK'
    BY <2>1 DEF BuilderTypes, TypeOK, Stored
  <2>3. Todo' = Todo /\ (Accepted(job)' <=> Accepted(job))
    BY <2>1 DEF Todo, Specs, Entity
  <2> QED BY <2>1, <2>2, <2>3 DEF BuilderTypes, LoopInv
<1> QED BY <1>1, <1>2, StartTypes, GridTypes, EnterTypes, PointTypes, ComputeTypes, WriterTypes
        DEF Next, Step, WriterStep

LEMMA BuilderTypesHold == Spec => []BuilderTypes
BY InitBuilder, NextTypes, PTL DEF Spec

\* The builder's loops stay in their bounds and its rows are feature rows
\* (builder.py: BatchBuilder.run).
THEOREM BuilderIsTyped == Spec => []TypeOK
<1>1. BuilderTypes => TypeOK
  BY DEF BuilderTypes
<1> QED BY <1>1, BuilderTypesHold, PTL

-----------------------------------------------------------------------------
(* Rows *)

Kept == Stored \cup buf

\* The rows a step adds: the one Compute makes.
LEMMA NewRows ==
    ASSUME BuilderTypes, [Next]_vars, NEW r \in Kept'
    PROVE  \/ r \in Kept
           \/ /\ Compute /\ run' = run /\ rawAt' = rawAt
              /\ \E V \in Reads(Feature) :
                    r = [run |-> run, entity |-> Entity, ts |-> Point,
                         feature |-> Feature, value |-> V]
<1> USE DEF Kept, Stored
<1>1. CASE \E j \in Jobs : Start(j)
  BY <1>1 DEF Start, output
<1>2. CASE GridPoint
  BY <1>2 DEF GridPoint, output
<1>3. CASE GridDone \/ SkipEntity
  BY <1>3 DEF GridDone, SkipEntity, EnterEntity, output
<1>4. CASE EntityDone
  BY <1>4 DEF EntityDone, EnterEntity, output
<1>5. CASE NextPoint
  BY <1>5 DEF NextPoint, output
<1>6. CASE Compute \/ ComputeNothing \/ ComputeRaises
  BY <1>6, ComputeFacts
<1>7. CASE WriterStep
  BY <1>7, WriterFacts
<1>8. CASE \E x \in Raw : PublishRaw(x)
  BY <1>8 DEF PublishRaw, output
<1>9. CASE UNCHANGED vars
  BY <1>9 DEF vars, output
<1> QED BY <1>1, <1>2, <1>3, <1>4, <1>5, <1>6, <1>7, <1>8, <1>9 DEF Next, Step, WriterStep

\* The raw lake a build began with is not forgotten.
LEMMA RawAtKept ==
    ASSUME BuilderTypes, [Next]_vars
    PROVE  run \in Nat /\ run' \in Nat /\ run <= run' /\ \A i \in 1 .. run : rawAt'[i] = rawAt[i]
<1>1. rawAt \in Seq(SUBSET Raw) /\ raw \in SUBSET Raw /\ Len(rawAt) = run /\ run \in Nat
  BY BuilderConstants DEF BuilderTypes, TypeOK, LoopInv
<1>2. CASE \E j \in Jobs : Start(j)
  BY <1>1, <1>2 DEF Start
<1>3. CASE run' = run /\ rawAt' = rawAt
  BY <1>1, <1>3
<1>4. CASE Compute \/ ComputeNothing \/ ComputeRaises
  BY <1>3, <1>4, ComputeFacts
<1>5. CASE WriterStep
  BY <1>3, <1>5, WriterFacts
<1>6. CASE GridPoint \/ GridDone \/ SkipEntity \/ EntityDone \/ NextPoint
  BY <1>3, <1>6 DEF GridPoint, GridDone, SkipEntity, EntityDone, NextPoint, history, counts
<1>7. CASE \E x \in Raw : PublishRaw(x)
  BY <1>3, <1>7 DEF PublishRaw, history
<1>8. CASE UNCHANGED vars
  BY <1>3, <1>8 DEF vars, history
<1> QED BY <1>2, <1>4, <1>5, <1>6, <1>7, <1>8 DEF Next, Step, WriterStep

-----------------------------------------------------------------------------
(* Values *)

\* The value of r comes from rows its feature may see, and from all of those
\* that were there when the build began.
InTime(r) ==
    \A x \in r.value :
        /\ r.entity \in DOMAIN Source
        /\ StreamOf[x] = Source[r.entity]
        /\ r.ts - Lookback[r.feature] <= EventOf[x] /\ EventOf[x] < r.ts

Sees(r, rows) ==
    r.entity \in DOMAIN Source =>
        \A x \in rows :
            StreamOf[x] = Source[r.entity] /\ r.ts - Lookback[r.feature] <= EventOf[x]
            /\ EventOf[x] < r.ts => x \in r.value

ValueInv ==
    \A r \in Kept : r.run \in 1 .. run /\ InTime(r) /\ Sees(r, rawAt[r.run])

LEMMA ComputedValue ==
    ASSUME BuilderTypes, Compute, NEW V \in Reads(Feature),
           NEW r, r = [run |-> run, entity |-> Entity, ts |-> Point, feature |-> Feature,
                       value |-> V]
    PROVE  r.run \in 1 .. run /\ InTime(r) /\ Sees(r, rawAt[run])
<1>1. pc = "build" /\ Todo # {}
  BY ComputeFacts
<1>2. Point = cutoff /\ rawAt[run] \subseteq base /\ run \in Nat /\ run >= 1
  BY <1>1, PointIsCutoff DEF BuilderTypes, LoopInv, TypeOK
<1>3. r.run = run /\ r.entity = Entity /\ r.ts = cutoff /\ r.feature = Feature /\ r.value = V
  BY <1>2
<1>4. CASE Entity \notin DOMAIN Source
  BY <1>2, <1>3, <1>4 DEF Reads, InTime, Sees
<1>5. CASE Entity \in DOMAIN Source
  <2> DEFINE s == Source[Entity]
             lo == cutoff - Lookback[Feature]
  <2>1. V \in PIT!Views(s, lo, cutoff)
    BY <1>2, <1>5 DEF Reads
  <2>2. /\ \A x \in V : StreamOf[x] = s /\ lo <= EventOf[x] /\ EventOf[x] < cutoff
        /\ \A x \in base : StreamOf[x] = s /\ lo <= EventOf[x] /\ EventOf[x] < cutoff => x \in V
    BY <2>1 DEF PIT!Views, PIT!Window
  <2> QED BY <1>2, <1>3, <1>5, <2>2 DEF InTime, Sees
<1> QED BY <1>4, <1>5

LEMMA NextValue ==
    ASSUME BuilderTypes, ValueInv, [Next]_vars
    PROVE  ValueInv'
<1> SUFFICES ASSUME NEW r \in Kept'
             PROVE  r.run \in 1 .. run' /\ InTime(r) /\ Sees(r, rawAt'[r.run])
  BY DEF ValueInv, InTime, Sees
<1>1. CASE r \in Kept
  <2>1. r.run \in 1 .. run /\ InTime(r) /\ Sees(r, rawAt[r.run])
    BY <1>1 DEF ValueInv
  <2> QED BY <2>1, RawAtKept
<1>2. CASE /\ Compute /\ run' = run /\ rawAt' = rawAt
           /\ \E V \in Reads(Feature) :
                 r = [run |-> run, entity |-> Entity, ts |-> Point,
                      feature |-> Feature, value |-> V]
  <2>1. PICK V \in Reads(Feature) :
            r = [run |-> run, entity |-> Entity, ts |-> Point, feature |-> Feature,
                 value |-> V]
    BY <1>2
  <2>2. r.run = run
    BY <2>1
  <2> QED BY <1>2, <2>1, <2>2, ComputedValue
<1> QED BY <1>1, <1>2, NewRows

LEMMA ValuesHold == Spec => []ValueInv
<1>1. Init => ValueInv
  BY DEF Init, ValueInv, Kept, Stored
<1> QED BY <1>1, BuilderTypesHold, NextValue, PTL DEF Spec

\* A stored value comes from rows of its entity's stream before the row's
\* event_ts and within the feature's lookback, whatever the builds before it did
\* and whatever was published meanwhile (builder.py: a fresh AsOfContext for
\* each grid point).
THEOREM FeaturesArePointInTimeHolds == Spec => []FeaturesArePointInTime
<1>1. ValueInv => FeaturesArePointInTime
  BY DEF ValueInv, InTime, FeaturesArePointInTime, Kept
<1> QED BY <1>1, ValuesHold, PTL

\* ... and from every such row of the raw lake its build started from.
THEOREM FeaturesSeeTheLakeHolds == Spec => []FeaturesSeeTheLake
<1>1. ValueInv => FeaturesSeeTheLake
  BY DEF ValueInv, Sees, FeaturesSeeTheLake, Kept, PIT!Window
<1> QED BY <1>1, ValuesHold, PTL

-----------------------------------------------------------------------------
(* Cells *)

\* Feature k of the job is one of entity i.
Fits(i, k) ==
    /\ i \in 1 .. Len(job.entities) /\ k \in 1 .. Len(job.features)
    /\ FeatureType[job.features[k]] = EntityType[job.entities[i]]

CellAt(i, p, k) ==
    [run |-> run, entity |-> job.entities[i], ts |-> p, feature |-> job.features[k]]

\* The loops are past the cell of entity i, point p and feature k.
Passed(i, p, k) ==
    \/ i < e
    \/ i = e /\ p \notin left /\ (p = cutoff => k < f)

\* The cells that have a row, or were skipped.
Marks == {Cell(r) : r \in Kept} \cup skipped

\* Each cell has one row or is skipped, and in the build under way those are the
\* cells the loops are past.
RowsInv ==
    /\ OnePlace /\ Stored \cap buf = {} /\ IsFiniteSet(Stored)
    /\ \A c \in Marks : c.run \in 1 .. run /\ (pc = "grid" => c.run # run)
    /\ \A r, s \in Kept : Cell(r) = Cell(s) => r = s
    /\ \A r \in Kept : Cell(r) \notin skipped
    /\ \A r \in buf : r.run = run /\ r.entity = Entity
    /\ pc # "idle" => OfRun(lost) = {}
    /\ pc \in {"build", "drain"} =>
          /\ \A c \in Marks : c.run = run =>
                \E i \in 1 .. Len(job.entities), k \in 1 .. Len(job.features), p \in grid :
                    c = CellAt(i, p, k) /\ Fits(i, k) /\ Passed(i, p, k)
          /\ \A i \in 1 .. Len(job.entities), k \in 1 .. Len(job.features), p \in grid :
                Fits(i, k) /\ Passed(i, p, k) => CellAt(i, p, k) \in Marks

\* Positions of cells are unique: no entity or feature is given twice.
LEMMA OneCell ==
    ASSUME BuilderTypes,
           NEW i \in 1 .. Len(job.entities), NEW k \in 1 .. Len(job.features), NEW p,
           NEW i2 \in 1 .. Len(job.entities), NEW k2 \in 1 .. Len(job.features), NEW p2,
           CellAt(i, p, k) = CellAt(i2, p2, k2)
    PROVE  i = i2 /\ p = p2 /\ k = k2
<1>1. job \in Jobs
  BY DEF BuilderTypes, TypeOK
<1>2. job.entities[i] = job.entities[i2] /\ p = p2 /\ job.features[k] = job.features[k2]
  BY DEF CellAt
<1> QED BY <1>1, <1>2, JobTypes

\* A step of the loops that keeps the rows.
LEMMA SameRows ==
    ASSUME BuilderTypes, RowsInv,
           UNCHANGED <<pending, published, lost, buf, skipped, run, job, grid>>,
           pc' # "idle" => pc # "idle", pc' = "grid" => pc = "grid",
           buf = {} \/ e' = e,
           pc' \in {"build", "drain"} =>
              \/ /\ pc \in {"build", "drain"}
                 /\ \A i \in 1 .. Len(job.entities), k \in 1 .. Len(job.features), p \in grid :
                       Fits(i, k) => (Passed(i, p, k)' <=> Passed(i, p, k))
              \/ /\ pc = "grid"
                 /\ \A i \in 1 .. Len(job.entities), k \in 1 .. Len(job.features), p \in grid :
                       ~ Passed(i, p, k)'
    PROVE  RowsInv'
<1>1. Kept' = Kept /\ Stored' = Stored /\ Marks' = Marks
  BY DEF Kept, Stored, Marks, Cell
<1>2. OnePlace' <=> OnePlace
  BY DEF OnePlace, Writer!OnePlace
<1>3. \A i, k, p : CellAt(i, p, k)' = CellAt(i, p, k) /\ (Fits(i, k)' <=> Fits(i, k))
  BY DEF CellAt, Fits
<1>4. OfRun(lost)' = OfRun(lost) /\ (e' = e => Entity' = Entity)
  BY DEF OfRun, Entity
<1>5. pc' \in {"build", "drain"} =>
          /\ \A c \in Marks' : c.run = run' =>
                \E i \in 1 .. Len(job'.entities), k \in 1 .. Len(job'.features), p \in grid' :
                    c = CellAt(i, p, k)' /\ Fits(i, k)' /\ Passed(i, p, k)'
          /\ \A i \in 1 .. Len(job'.entities), k \in 1 .. Len(job'.features), p \in grid' :
                Fits(i, k)' /\ Passed(i, p, k)' => CellAt(i, p, k)' \in Marks'
  <2>1. CASE /\ pc \in {"build", "drain"}
             /\ \A i \in 1 .. Len(job.entities), k \in 1 .. Len(job.features), p \in grid :
                   Fits(i, k) => (Passed(i, p, k)' <=> Passed(i, p, k))
    BY <1>1, <1>3, <2>1 DEF RowsInv
  <2>2. CASE /\ pc = "grid"
             /\ \A i \in 1 .. Len(job.entities), k \in 1 .. Len(job.features), p \in grid :
                   ~ Passed(i, p, k)'
    <3>1. \A c \in Marks : c.run # run
      BY <2>2 DEF RowsInv
    <3> QED BY <1>1, <2>2, <3>1
  <2> QED BY <2>1, <2>2
<1>6. \A r \in buf' : r.run = run' /\ r.entity = Entity'
  BY <1>4 DEF RowsInv
<1> QED BY <1>1, <1>2, <1>4, <1>5, <1>6 DEF RowsInv, Cell

LEMMA StartRows ==
    ASSUME BuilderTypes, RowsInv, NEW j \in Jobs, Start(j)
    PROVE  RowsInv'
<1>1. /\ pc = "idle" /\ pc' = "grid" /\ run' = run + 1 /\ buf' = {} /\ run \in Nat
      /\ UNCHANGED <<pending, published, lost, skipped>>
  BY DEF Start, output, BuilderTypes, TypeOK
<1>2. buf = {}
  BY <1>1 DEF BuilderTypes, LoopInv
<1>3. Kept' = Kept /\ Stored' = Stored /\ Marks' = Marks
  BY <1>1, <1>2 DEF Kept, Stored, Marks, Cell
<1>4. OnePlace' <=> OnePlace
  BY <1>1 DEF OnePlace, Writer!OnePlace
<1>5. \A c \in Marks : c.run \in 1 .. run' /\ c.run # run'
  BY <1>1 DEF RowsInv
<1>6. OfRun(lost)' = {}
  <2>1. \A r \in lost : Cell(r) \in Marks /\ Cell(r).run = r.run
    BY DEF Marks, Kept, Stored, Cell
  <2> QED BY <1>1, <1>5, <2>1 DEF OfRun
<1> QED BY <1>1, <1>3, <1>4, <1>5, <1>6 DEF RowsInv, Cell

LEMMA GridRows ==
    ASSUME BuilderTypes, RowsInv, GridPoint
    PROVE  RowsInv'
<1>1. /\ pc = "grid" /\ pc' = "grid"
      /\ UNCHANGED <<pending, published, lost, buf, skipped, run, job, e>>
  BY DEF GridPoint, output, counts, history
<1>2. Kept' = Kept /\ Stored' = Stored /\ Marks' = Marks
  BY <1>1 DEF Kept, Stored, Marks, Cell
<1>3. OnePlace' <=> OnePlace
  BY <1>1 DEF OnePlace, Writer!OnePlace
<1>4. OfRun(lost)' = OfRun(lost) /\ Entity' = Entity
  BY <1>1 DEF OfRun, Entity
<1> QED BY <1>1, <1>2, <1>3, <1>4 DEF RowsInv, Cell

\* The batch is empty when an entity is left.
LEMMA NoBatchLeft ==
    ASSUME BuilderTypes, RowsInv, GridDone \/ SkipEntity \/ EntityDone
    PROVE  buf = {}
<1>1. CASE GridDone
  BY <1>1 DEF GridDone, BuilderTypes, LoopInv
<1>2. CASE EntityDone
  BY <1>2 DEF EntityDone, MustAppend
<1>3. CASE SkipEntity
  <2>1. pc = "build" /\ Specs = {}
    BY <1>3 DEF SkipEntity
  <2>2. ASSUME NEW r \in buf PROVE FALSE
    <3>1. Cell(r) \in Marks /\ Cell(r).run = run /\ Cell(r).entity = Entity
      BY <2>2 DEF RowsInv, Marks, Kept, Cell
    <3>2. PICK i \in 1 .. Len(job.entities), k \in 1 .. Len(job.features), p \in grid :
              Cell(r) = CellAt(i, p, k) /\ Fits(i, k)
      BY <2>1, <3>1 DEF RowsInv
    <3>3. Entity = job.entities[i]
      BY <3>1, <3>2 DEF CellAt
    <3>4. k \in Specs
      BY <3>2, <3>3 DEF Specs, Fits
    <3> QED BY <2>1, <3>4
  <2> QED BY <2>2
<1> QED BY <1>1, <1>2, <1>3

LEMMA EnterRows ==
    ASSUME BuilderTypes, RowsInv, GridDone \/ SkipEntity \/ EntityDone
    PROVE  RowsInv'
<1>1. /\ UNCHANGED <<pending, published, lost, skipped, run, job, grid>>
      /\ buf' = {} /\ pc \in {"grid", "build"} /\ pc' \in {"build", "drain"}
      /\ \E k \in Int : EnterEntity(k) /\ \/ pc = "grid" /\ k = 1
                                          \/ pc = "build" /\ k = e + 1
  BY DEF GridDone, SkipEntity, EntityDone, EnterEntity, output, history, BuilderTypes, TypeOK
<1>2. buf = {}
  BY NoBatchLeft
<1>3. PICK n1 \in Int : EnterEntity(n1) /\ \/ pc = "grid" /\ n1 = 1
                                           \/ pc = "build" /\ n1 = e + 1
  BY <1>1
<1>4. e' = n1 /\ \/ n1 <= Len(job.entities) /\ left' = grid
                 \/ n1 > Len(job.entities)
  BY <1>3, EnterFacts
<1>5. Len(job.entities) \in Nat /\ Len(job.features) \in Nat /\ e \in Int
  BY JobTypes DEF BuilderTypes, TypeOK
<1>6. \A i \in 1 .. Len(job.entities), k \in 1 .. Len(job.features), p \in grid :
          Passed(i, p, k)' <=> i < n1
  BY <1>4, <1>5 DEF Passed
<1>7. CASE pc = "grid"
  <2>1. \A i \in 1 .. Len(job.entities), k \in 1 .. Len(job.features), p \in grid :
            ~ Passed(i, p, k)'
    BY <1>3, <1>5, <1>6, <1>7
  <2> QED BY <1>1, <1>2, <1>7, <2>1, SameRows
<1>8. CASE pc = "build"
  <2>1. \/ Specs = {}
        \/ left = {} /\ Todo = {}
    BY <1>8 DEF GridDone, SkipEntity, EntityDone
  <2>2. ASSUME NEW k \in 1 .. Len(job.features), Fits(e, k)
        PROVE  k \in Specs /\ (left = {} /\ k < f)
    <3>1. k \in Specs
      BY <2>2 DEF Specs, Fits, Entity
    <3>2. left = {} /\ Todo = {}
      BY <2>1, <3>1
    <3>3. ~(k >= f) /\ f \in Int /\ k \in Int
      BY <1>5, <3>1, <3>2 DEF Todo, BuilderTypes, TypeOK
    <3> QED BY <3>1, <3>2, <3>3
  <2>3. ASSUME NEW i \in 1 .. Len(job.entities), NEW k \in 1 .. Len(job.features),
               NEW p \in grid, Fits(i, k)
        PROVE  Passed(i, p, k)' <=> Passed(i, p, k)
    <3>1. Passed(i, p, k)' <=> i < e \/ i = e
      BY <1>3, <1>5, <1>6, <1>8
    <3>2. i = e => Passed(i, p, k)
      BY <2>2, <2>3 DEF Passed
    <3> QED BY <1>5, <3>1, <3>2 DEF Passed
  <2> QED BY <1>1, <1>2, <1>8, <2>3, SameRows
<1> QED BY <1>1, <1>7, <1>8

LEMMA PointRows ==
    ASSUME BuilderTypes, RowsInv, NextPoint
    PROVE  RowsInv'
<1>1. /\ pc = "build" /\ Todo = {} /\ left # {}
      /\ cutoff' = SetMin(left) /\ left' = left \ {SetMin(left)} /\ f' = 1
      /\ UNCHANGED <<pending, published, lost, buf, skipped, run, job, grid, pc, e>>
  BY DEF NextPoint, OpenContext, AsOf, PIT!Open, counts, output, history
<1>2. SetMin(left) \in left
  BY <1>1, LeftMin
<1> DEFINE least == SetMin(left)
<1>3. least \in left /\ cutoff' = least /\ left' = left \ {least}
  BY <1>1, <1>2
<1> HIDE DEF least
<1>4. f \in Int /\ Len(job.features) \in Nat
  BY JobTypes DEF BuilderTypes, TypeOK
<1>5. ASSUME NEW i \in 1 .. Len(job.entities), NEW k \in 1 .. Len(job.features),
             NEW p \in grid, Fits(i, k)
      PROVE  Passed(i, p, k)' <=> Passed(i, p, k)
  <2>1. i = e => k < f
    <3>1. i = e => k \in Specs
      BY <1>5 DEF Fits, Specs, Entity
    <3> QED BY <1>1, <1>4, <3>1 DEF Todo
  <2>2. Passed(i, p, k)' <=> i < e \/ (i = e /\ p \notin left)
    <3>1. ~(k < 1)
      BY <1>4
    <3>2. p \notin left' /\ p # cutoff' <=> p \notin left
      BY <1>3
    <3> QED BY <1>1, <1>3, <3>1, <3>2 DEF Passed
  <2> QED BY <1>1, <1>3, <2>1, <2>2 DEF Passed
<1> QED BY <1>1, <1>5, SameRows

\* Computing a feature passes one cell, which had no mark.
LEMMA NewCell ==
    ASSUME BuilderTypes, RowsInv, pc = "build", Todo # {}
    PROVE  /\ e \in 1 .. Len(job.entities) /\ SetMin(Todo) \in 1 .. Len(job.features)
           /\ cutoff \in grid /\ Fits(e, SetMin(Todo))
           /\ CellAt(e, cutoff, SetMin(Todo)) \notin Marks
           /\ CellAt(e, cutoff, SetMin(Todo)) =
                 [run |-> run, entity |-> Entity, ts |-> Point, feature |-> Feature]
           /\ \A i \in 1 .. Len(job.entities), k \in 1 .. Len(job.features), p \in grid :
                 Fits(i, k) =>
                    (\/ i < e
                     \/ i = e /\ p \notin left /\ (p = cutoff => k < SetMin(Todo) + 1))
                    <=> (Passed(i, p, k) \/ (i = e /\ p = cutoff /\ k = SetMin(Todo)))
<1> DEFINE next == SetMin(Todo)
<1>1. /\ next \in 1 .. Len(job.features) /\ next >= f /\ \A k \in Todo : next <= k
      /\ FeatureType[Feature] = EntityType[Entity] /\ Feature = job.features[next]
  BY TodoTypes DEF BuilderTypes, TypeOK, Feature
<1>2. e \in 1 .. Len(job.entities) /\ f \in Int /\ Len(job.features) \in Nat
  BY JobTypes DEF BuilderTypes, TypeOK, LoopInv
<1>3. Point = cutoff /\ cutoff \in grid
  BY PointIsCutoff
<1>4. cutoff \in grid \ left
  BY DEF BuilderTypes, LoopInv
<1>5. Fits(e, next)
  BY <1>1, <1>2 DEF Fits, Entity
<1> HIDE DEF next
<1>6. CellAt(e, cutoff, next) \notin Marks
  <2> SUFFICES ASSUME CellAt(e, cutoff, next) \in Marks PROVE FALSE
    OBVIOUS
  <2>1. PICK i \in 1 .. Len(job.entities), k \in 1 .. Len(job.features), p \in grid :
            CellAt(e, cutoff, next) = CellAt(i, p, k) /\ Passed(i, p, k)
    BY DEF RowsInv, CellAt
  <2>2. e = i /\ cutoff = p /\ next = k
    BY <1>1, <1>2, <2>1, OneCell
  <2> QED BY <1>1, <1>2, <2>1, <2>2 DEF Passed
<1>7. CellAt(e, cutoff, next) =
          [run |-> run, entity |-> Entity, ts |-> Point, feature |-> Feature]
  BY <1>1, <1>3 DEF CellAt, Entity
<1>8. ASSUME NEW i \in 1 .. Len(job.entities), NEW k \in 1 .. Len(job.features),
             NEW p \in grid, Fits(i, k)
      PROVE  (\/ i < e
              \/ i = e /\ p \notin left /\ (p = cutoff => k < next + 1))
             <=> (Passed(i, p, k) \/ (i = e /\ p = cutoff /\ k = next))
  <2>1. i = e /\ k >= f => k \in Todo
    BY <1>8 DEF Fits, Specs, Entity, Todo
  <2>2. i = e => (k < next + 1 <=> k < f \/ k = next)
    BY <1>1, <1>2, <2>1
  <2> QED BY <1>4, <2>2 DEF Passed
<1> QED BY <1>1, <1>2, <1>3, <1>5, <1>6, <1>7, <1>8 DEF next

LEMMA ComputeRows ==
    ASSUME BuilderTypes, RowsInv, Compute \/ ComputeNothing
    PROVE  RowsInv'
<1> DEFINE next == SetMin(Todo)
           cell == CellAt(e, cutoff, next)
<1>1. /\ pc = "build" /\ Todo # {} /\ pc' = "build"
      /\ UNCHANGED <<cutoff, job, grid, e, left, run, pending, published, lost>>
      /\ f' = next + 1
  BY ComputeFacts DEF Compute, ComputeNothing, ComputeRaises
<1>2. /\ e \in 1 .. Len(job.entities) /\ next \in 1 .. Len(job.features)
      /\ cutoff \in grid /\ Fits(e, next) /\ cell \notin Marks
      /\ cell = [run |-> run, entity |-> Entity, ts |-> Point, feature |-> Feature]
  BY <1>1, NewCell
<1>3. \A i \in 1 .. Len(job.entities), k \in 1 .. Len(job.features), p \in grid :
          Fits(i, k) => (Passed(i, p, k)' <=>
                            Passed(i, p, k) \/ (i = e /\ p = cutoff /\ k = next))
  <2>1. \A i, k, p : Passed(i, p, k)' <=>
            \/ i < e
            \/ i = e /\ p \notin left /\ (p = cutoff => k < next + 1)
    BY <1>1 DEF Passed
  <2> QED BY <1>1, <2>1, NewCell
<1> HIDE DEF next
<1>4. \A i, k, p : CellAt(i, p, k)' = CellAt(i, p, k) /\ (Fits(i, k)' <=> Fits(i, k))
  BY <1>1 DEF CellAt, Fits
<1>5. run >= 1 /\ run \in Nat
  BY <1>1 DEF BuilderTypes, LoopInv, TypeOK
<1>6. /\ Marks' = Marks \cup {cell}
      /\ \A r \in Kept' : r \in Kept \/ Cell(r) = cell
      /\ \A r, s \in Kept' : Cell(r) = Cell(s) => r = s
      /\ \A r \in Kept' : Cell(r) \notin skipped'
      /\ \A r \in buf' : r.run = run /\ r.entity = Entity
      /\ Stored \cap buf' = {}
  <2>1. CASE Compute
    <3>1. skipped' = skipped
      BY <1>1, <2>1 DEF Compute, history
    <3>2. PICK V \in Reads(Feature) :
              buf' = buf \cup {[run |-> run, entity |-> Entity, ts |-> Point,
                                feature |-> Feature, value |-> V]}
      BY <2>1 DEF Compute
    <3> DEFINE new == [run |-> run, entity |-> Entity, ts |-> Point,
                       feature |-> Feature, value |-> V]
    <3>3. Cell(new) = cell /\ new.run = run /\ new.entity = Entity
      BY <1>2 DEF Cell
    <3>4. buf' = buf \cup {new} /\ Kept' = Kept \cup {new}
      BY <1>1, <3>2 DEF Kept, Stored
    <3> HIDE DEF new, cell
    <3>5. Marks' = Marks \cup {cell}
      BY <3>1, <3>3, <3>4 DEF Marks, Cell
    <3>6. \A r \in Kept : Cell(r) # cell /\ r # new
      BY <1>2, <3>3 DEF Marks
    <3>7. \A r, s \in Kept : Cell(r) = Cell(s) => r = s
      BY DEF RowsInv
    <3>8. \A r, s \in Kept' : Cell(r) = Cell(s) => r = s
      BY <3>3, <3>4, <3>6, <3>7
    <3>9. Stored \cap buf' = {}
      BY <3>4, <3>6 DEF RowsInv, Kept
    <3>10. cell \notin skipped
      BY <1>2 DEF Marks
    <3> QED BY <3>1, <3>3, <3>4, <3>5, <3>8, <3>9, <3>10 DEF RowsInv
  <2>2. CASE ComputeNothing
    <3>1. buf' = buf /\ skipped' = skipped \cup {cell}
      BY <1>2, <2>2 DEF ComputeNothing
    <3>2. Kept' = Kept
      BY <1>1, <3>1 DEF Kept, Stored
    <3> HIDE DEF cell
    <3>3. Marks' = Marks \cup {cell}
      BY <3>1, <3>2 DEF Marks, Cell
    <3>4. \A r \in Kept : Cell(r) # cell
      BY <1>2 DEF Marks
    <3> QED BY <3>1, <3>2, <3>3, <3>4 DEF RowsInv
  <2> QED BY <2>1, <2>2
<1>7. cell.run = run
  BY DEF CellAt
<1>8. /\ \A c \in Marks' : c.run = run' =>
            \E i \in 1 .. Len(job'.entities), k \in 1 .. Len(job'.features), p \in grid' :
                c = CellAt(i, p, k)' /\ Fits(i, k)' /\ Passed(i, p, k)'
      /\ \A i \in 1 .. Len(job'.entities), k \in 1 .. Len(job'.features), p \in grid' :
            Fits(i, k)' /\ Passed(i, p, k)' => CellAt(i, p, k)' \in Marks'
  <2>1. \A c \in Marks : c.run = run =>
            \E i \in 1 .. Len(job.entities), k \in 1 .. Len(job.features), p \in grid :
                c = CellAt(i, p, k) /\ Fits(i, k) /\ Passed(i, p, k)
    BY <1>1 DEF RowsInv
  <2>2. \A i \in 1 .. Len(job.entities), k \in 1 .. Len(job.features), p \in grid :
            Fits(i, k) /\ Passed(i, p, k) => CellAt(i, p, k) \in Marks
    BY <1>1 DEF RowsInv
  <2>3. \A c \in Marks' : c.run = run =>
            \E i \in 1 .. Len(job.entities), k \in 1 .. Len(job.features), p \in grid :
                c = CellAt(i, p, k) /\ Fits(i, k) /\ Passed(i, p, k)'
    BY <1>2, <1>3, <1>6, <2>1
  <2>4. \A i \in 1 .. Len(job.entities), k \in 1 .. Len(job.features), p \in grid :
            Fits(i, k) /\ Passed(i, p, k)' => CellAt(i, p, k) \in Marks'
    BY <1>3, <1>6, <2>2
  <2> QED BY <1>1, <1>4, <2>3, <2>4
<1> HIDE DEF cell
<1>9. /\ Stored' = Stored /\ OfRun(lost)' = OfRun(lost) /\ Entity' = Entity
      /\ (OnePlace' <=> OnePlace)
  BY <1>1 DEF Stored, OfRun, Entity, OnePlace, Writer!OnePlace
<1>10. \A c \in Marks' : c.run \in 1 .. run'
  BY <1>1, <1>5, <1>6, <1>7 DEF RowsInv
<1> QED BY <1>1, <1>6, <1>8, <1>9, <1>10 DEF RowsInv, Cell

\* Steps that lose rows of the batch or of the writer.
LEMMA WriterRows ==
    ASSUME BuilderTypes, RowsInv, ComputeRaises \/ WriterStep
    PROVE  RowsInv'
<1>1. /\ UNCHANGED <<cutoff, job, grid, e, left, f, run, skipped>>
      /\ pc # "idle" /\ pc' \in {pc, "idle"} /\ buf' = {}
      /\ Stored \subseteq Stored' /\ Stored' \subseteq Stored \cup buf
      /\ pc' # "idle" => lost' = lost /\ Stored' = Stored \cup buf
      /\ OnePlace'
  <2>1. CASE ComputeRaises
    <3>1. /\ UNCHANGED <<cutoff, job, grid, e, left, f, run, skipped, pending, published, lost>>
          /\ pc # "idle" /\ pc' = "idle" /\ buf' = {}
      BY <2>1 DEF ComputeRaises, loop, counts, output, history
    <3> QED BY <3>1 DEF Stored, RowsInv, OnePlace, Writer!OnePlace
  <2>2. CASE WriterStep
    <3>1. pc' # "idle" => lost' = lost /\ Stored' = Stored \cup buf
      <4> SUFFICES ASSUME pc' # "idle"
                   PROVE  lost' = lost /\ Stored' = Stored \cup buf
        OBVIOUS
      <4>1. lost' = lost /\ pc' = pc
        BY <2>2, WriterFacts
      <4>2. \/ Stored' = Stored \cup buf
            \/ pc = "drain" /\ pending' \cup published' = pending \cup published
        BY <2>2, <4>1, WriterFacts
      <4>3. pc = "drain" => buf = {}
        BY DEF BuilderTypes, LoopInv
      <4> QED BY <4>1, <4>2, <4>3 DEF Stored
    <3>2. OnePlace /\ Stored \cap buf = {}
      BY DEF RowsInv
    <3> QED BY <2>2, <3>1, <3>2, WriterFacts
  <2> QED BY <2>1, <2>2
<1>2. Kept' \subseteq Kept /\ (pc' # "idle" => Kept' = Kept)
  BY <1>1 DEF Kept
<1>3. Marks' \subseteq Marks /\ (pc' # "idle" => Marks' = Marks)
  BY <1>1, <1>2 DEF Marks, Cell
<1>4. IsFiniteSet(Stored')
  <2>1. IsFiniteSet(Stored) /\ IsFiniteSet(buf)
    BY DEF RowsInv, BuilderTypes, LoopInv
  <2>2. IsFiniteSet(Stored \cup buf)
    BY <2>1, FS_Union
  <2> QED BY <1>1, <2>2, FS_Subset
<1>5. pc' # "idle" => OfRun(lost)' = OfRun(lost)
  BY <1>1 DEF OfRun
<1>6. \A i, k, p : /\ CellAt(i, p, k)' = CellAt(i, p, k) /\ (Fits(i, k)' <=> Fits(i, k))
                   /\ Passed(i, p, k)' <=> Passed(i, p, k)
  BY <1>1 DEF CellAt, Fits, Passed
<1>7. pc' \in {"build", "drain"} =>
          /\ \A c \in Marks' : c.run = run' =>
                \E i \in 1 .. Len(job'.entities), k \in 1 .. Len(job'.features), p \in grid' :
                    c = CellAt(i, p, k)' /\ Fits(i, k)' /\ Passed(i, p, k)'
          /\ \A i \in 1 .. Len(job'.entities), k \in 1 .. Len(job'.features), p \in grid' :
                Fits(i, k)' /\ Passed(i, p, k)' => CellAt(i, p, k)' \in Marks'
  BY <1>1, <1>3, <1>6 DEF RowsInv
<1> QED BY <1>1, <1>2, <1>3, <1>4, <1>5, <1>7 DEF RowsInv, Cell

LEMMA NextRows ==
    ASSUME BuilderTypes, RowsInv, [Next]_vars
    PROVE  RowsInv'
<1>1. CASE UNCHANGED vars \/ \E r \in Raw : PublishRaw(r)
  <2>1. UNCHANGED <<pending, published, lost, buf, skipped, run, job, grid, pc, e, left,
                    cutoff, f>>
    BY <1>1 DEF vars, PublishRaw, PIT!Publish, input, loop, counts, output, history
  <2>2. \A i, k, p : Passed(i, p, k)' <=> Passed(i, p, k)
    BY <2>1 DEF Passed
  <2> QED BY <2>1, <2>2, SameRows
<1> QED BY <1>1, StartRows, GridRows, EnterRows, PointRows, ComputeRows, WriterRows
        DEF Next, Step, WriterStep

LEMMA RowsHold == Spec => []RowsInv
<1>1. Init => RowsInv
  BY FS_EmptySet DEF Init, RowsInv, Marks, Kept, Stored, OnePlace, Writer!OnePlace, OfRun
<1> QED BY <1>1, BuilderTypesHold, NextRows, PTL DEF Spec

\* The feature lake keeps what DurableRows promises of the writer's rows: a row
\* enters it once and a published one stays, across builds that raise, crash and
\* run again (writer.py: append_many, flush_all).
THEOREM FeatureRowsAreDurableHolds == Spec => FeatureRowsAreDurable
<1>1. Init => Writer!Init
  BY DEF Init, Writer!Init
<1>2. ASSUME BuilderTypes, RowsInv, RowsInv', [Next]_vars
      PROVE  [Writer!Move]_(Writer!vars)
  <2>1. CASE WriterStep
    <3>1. /\ published \subseteq published' /\ lost \subseteq lost'
          /\ Stored \subseteq Stored'
      BY <1>2, <2>1, WriterFacts
    <3> QED BY <1>2, <3>1 DEF Writer!Move, Stored, RowsInv, OnePlace, Writer!OnePlace
  <2>2. CASE UNCHANGED output
    BY <2>2 DEF Writer!vars, output
  <2>3. Next => WriterStep \/ UNCHANGED output
    BY DEF Next, Step, WriterStep, Start, GridPoint, GridDone, SkipEntity, NextPoint,
           Compute, ComputeNothing, ComputeRaises, EntityDone, PublishRaw
  <2> QED BY <1>2, <2>1, <2>2, <2>3 DEF vars
<1> QED BY <1>1, <1>2, BuilderTypesHold, RowsHold, PTL
        DEF Spec, FeatureRowsAreDurable, Writer!Spec

-----------------------------------------------------------------------------
(* Counts *)

\* Entity i has a feature.
Has(i) == \E k \in 1 .. Len(job.features) : Fits(i, k)

RowsOf(en) == {r \in OfRun(Stored) : r.entity = en}

\* What the counters count.
CountInv ==
    /\ pc = "grid" => /\ total = 0 /\ DOMAIN perEntity = {}
                      /\ cur = job.start \/ grid # {}
    /\ pc \in {"build", "drain"} =>
          /\ grid # {}
          /\ total = Cardinality(OfRun(Stored))
          /\ DOMAIN perEntity = {job.entities[i] : i \in {i \in 1 .. Len(job.entities) :
                                                              i < e /\ Has(i)}}
          /\ \A en \in DOMAIN perEntity : perEntity[en] = Cardinality(RowsOf(en))
    /\ pc = "build" => n = Cardinality(RowsOf(Entity))

\* The rows of the build under way are at cells of its job.
LEMMA RunRows ==
    ASSUME BuilderTypes, RowsInv, pc \in {"build", "drain"}, NEW r \in OfRun(Kept)
    PROVE  \E i \in 1 .. Len(job.entities), k \in 1 .. Len(job.features), p \in grid :
              /\ Cell(r) = CellAt(i, p, k) /\ Fits(i, k) /\ Passed(i, p, k)
              /\ r.entity = job.entities[i]
<1>1. Cell(r) \in Marks /\ Cell(r).run = run /\ Cell(r).entity = r.entity
  BY DEF OfRun, Marks, Cell
<1>2. PICK i \in 1 .. Len(job.entities), k \in 1 .. Len(job.features), p \in grid :
          Cell(r) = CellAt(i, p, k) /\ Fits(i, k) /\ Passed(i, p, k)
  BY <1>1 DEF RowsInv
<1>3. r.entity = job.entities[i]
  BY <1>1, <1>2 DEF CellAt
<1> QED BY <1>2, <1>3

\* A step that leaves the stored rows, the counters and the entity.
LEMMA SameCounts ==
    ASSUME CountInv,
           Stored' = Stored, pc' # "idle" => pc' = pc,
           UNCHANGED <<job, grid, e, n, total, perEntity, run>>, pc # "grid"
    PROVE  CountInv'
<1>1. OfRun(Stored)' = OfRun(Stored) /\ Entity' = Entity
  BY DEF OfRun, Entity
<1>2. \A en : RowsOf(en)' = RowsOf(en)
  BY <1>1 DEF RowsOf
<1>3. \A i : Has(i)' <=> Has(i)
  BY DEF Has, Fits
<1> QED BY <1>1, <1>2, <1>3 DEF CountInv

LEMMA GridCounts ==
    ASSUME BuilderTypes, RowsInv, CountInv, GridDone
    PROVE  CountInv'
<1>1. /\ pc = "grid" /\ cur > job.end /\ EnterEntity(1)
      /\ UNCHANGED <<job, grid, total, perEntity, run, pending, published, lost>>
  <2>1. cur \in Int /\ job.end \in Int
    BY JobTypes DEF BuilderTypes, TypeOK, LoopInv
  <2> QED BY <2>1 DEF GridDone, InGrid, output
<1>2. e' = 1 /\ n' = 0 /\ pc' \in {"build", "drain"}
  BY <1>1, EnterFacts
<1>3. OfRun(Stored)' = {}
  <2>1. \A r \in Stored : Cell(r) \in Marks /\ Cell(r).run = r.run
    BY DEF Marks, Kept, Cell
  <2>2. \A r \in Stored : r.run # run
    BY <1>1, <2>1 DEF RowsInv
  <2>3. Stored' = Stored
    BY <1>1 DEF Stored
  <2> QED BY <1>1, <2>2, <2>3 DEF OfRun
<1>4. \A en : RowsOf(en)' = {}
  BY <1>3 DEF RowsOf
<1>5. grid # {}
  <2>1. job.start \in Int /\ job.end \in Int /\ job.start <= job.end /\ cur \in Int
    BY <1>1, JobTypes DEF BuilderTypes, TypeOK, LoopInv, Accepted
  <2> QED BY <1>1, <2>1 DEF CountInv
<1>6. {i \in 1 .. Len(job'.entities) : i < 1 /\ Has(i)'} = {}
  <2>1. Len(job.entities) \in Nat
    BY JobTypes DEF BuilderTypes, TypeOK
  <2> QED BY <1>1, <2>1
<1>7. total = 0 /\ DOMAIN perEntity = {}
  BY <1>1 DEF CountInv
<1>8. Cardinality({}) = 0
  BY FS_EmptySet
<1>9. {job'.entities[i] : i \in {i \in 1 .. Len(job'.entities) : i < e' /\ Has(i)'}} = {}
  BY <1>2, <1>6
<1>10. RowsOf(Entity)' = {}
  BY <1>3 DEF RowsOf
<1> QED BY <1>1, <1>2, <1>3, <1>4, <1>5, <1>7, <1>8, <1>9, <1>10 DEF CountInv

LEMMA EntityCounts ==
    ASSUME BuilderTypes, RowsInv, CountInv, SkipEntity \/ EntityDone
    PROVE  CountInv'
<1>1. /\ pc = "build" /\ EnterEntity(e + 1)
      /\ UNCHANGED <<job, grid, total, run, pending, published, lost>>
  BY DEF SkipEntity, EntityDone, output
<1>2. e' = e + 1 /\ n' = 0 /\ pc' \in {"build", "drain"}
      /\ (pc' = "build" => e + 1 <= Len(job.entities))
  BY <1>1, EnterFacts
<1>3. Len(job.entities) \in Nat /\ e \in 1 .. Len(job.entities) /\ job \in Jobs
  BY <1>1, JobTypes DEF BuilderTypes, TypeOK, LoopInv
<1>4. Stored' = Stored /\ OfRun(Stored)' = OfRun(Stored)
  BY <1>1 DEF Stored, OfRun
<1>5. \A en : RowsOf(en)' = RowsOf(en)
  BY <1>4 DEF RowsOf
<1>6. \A i : Has(i)' <=> Has(i)
  BY <1>1 DEF Has, Fits
<1>7. Has(e) <=> Specs # {}
  BY <1>3 DEF Has, Fits, Specs, Entity
<1>8. pc' = "build" => n' = Cardinality(RowsOf(Entity)')
  <2> SUFFICES ASSUME pc' = "build" PROVE RowsOf(Entity)' = {}
    BY <1>2, FS_EmptySet
  <2>1. Entity' = job.entities[e + 1] /\ e + 1 \in 1 .. Len(job.entities)
    BY <1>1, <1>2, <1>3 DEF Entity
  <2>2. ASSUME NEW r \in OfRun(Stored), r.entity = job.entities[e + 1] PROVE FALSE
    <3>1. r \in OfRun(Kept)
      BY <2>2 DEF OfRun, Kept
    <3>2. PICK i \in 1 .. Len(job.entities), k \in 1 .. Len(job.features), p \in grid :
              Passed(i, p, k) /\ r.entity = job.entities[i]
      BY <1>1, <3>1, RunRows
    <3>3. i = e + 1
      BY <1>3, <2>1, <2>2, <3>2, JobTypes
    <3> QED BY <1>3, <3>2, <3>3 DEF Passed
  <2>3. RowsOf(Entity)' = {r \in OfRun(Stored) : r.entity = job.entities[e + 1]}
    BY <1>4, <2>1 DEF RowsOf
  <2> QED BY <2>2, <2>3
<1> DEFINE done(j) == {job.entities[i] : i \in {i \in 1 .. Len(job.entities) : i < j /\ Has(i)}}
<1>9. DOMAIN perEntity = done(e) /\ \A en \in done(e) : perEntity[en] = Cardinality(RowsOf(en))
  BY <1>1 DEF CountInv
<1>10. done(e + 1) = IF Has(e) THEN done(e) \cup {Entity} ELSE done(e)
  <2>1. \A i \in 1 .. Len(job.entities) : i < e + 1 <=> i < e \/ i = e
    BY <1>3
  <2>2. e \in 1 .. Len(job.entities) /\ Entity = job.entities[e]
    BY <1>3 DEF Entity
  <2> QED BY <2>1, <2>2
<1>11. DOMAIN perEntity' = done(e + 1)
       /\ \A en \in done(e + 1) : perEntity'[en] = Cardinality(RowsOf(en))
  <2> HIDE DEF done
  <2>1. CASE SkipEntity
    <3>1. perEntity' = perEntity /\ Specs = {}
      BY <2>1 DEF SkipEntity
    <3> QED BY <1>7, <1>9, <1>10, <3>1
  <2>2. CASE EntityDone
    <3>1. /\ Specs # {}
          /\ perEntity' = [en \in DOMAIN perEntity \cup {Entity} |->
                              IF en = Entity THEN n ELSE perEntity[en]]
      BY <2>2 DEF EntityDone
    <3>2. n = Cardinality(RowsOf(Entity))
      BY <1>1 DEF CountInv
    <3> QED BY <1>7, <1>9, <1>10, <3>1, <3>2
  <2> QED BY <2>1, <2>2
<1>12. {job'.entities[i] : i \in {i \in 1 .. Len(job'.entities) : i < e' /\ Has(i)'}}
          = done(e + 1)
  BY <1>1, <1>2, <1>6
<1> HIDE DEF done
<1>13. grid # {} /\ total = Cardinality(OfRun(Stored))
  BY <1>1 DEF CountInv
<1> QED BY <1>1, <1>2, <1>4, <1>5, <1>8, <1>11, <1>12, <1>13 DEF CountInv

\* Appending adds the batch, whose rows are new and of the entity.
LEMMA AppendCounts ==
    ASSUME BuilderTypes, RowsInv, CountInv, AppendBatch
    PROVE  CountInv'
<1>1. /\ UNCHANGED <<job, grid, e, perEntity, run, pc>>
      /\ pc = "build" /\ Stored' = Stored \cup buf
      /\ total' = total + Cardinality(buf) /\ n' = n + Cardinality(buf)
  <2>1. WriterStep
    BY DEF WriterStep
  <2>2. total' = total + Cardinality(buf) /\ n' = n + Cardinality(buf)
        /\ pc = "build" /\ pc' = pc
    BY DEF AppendBatch
  <2>3. UNCHANGED <<job, grid, e, perEntity, run>>
    BY <2>1, WriterFacts
  <2>4. Stored' = Stored \cup buf
    BY <2>1, <2>2, WriterFacts
  <2> QED BY <2>2, <2>3, <2>4
<1>2. IsFiniteSet(Stored) /\ IsFiniteSet(buf) /\ Stored \cap buf = {}
      /\ \A r \in buf : r.run = run /\ r.entity = Entity
  BY DEF RowsInv, BuilderTypes, LoopInv
<1>3. OfRun(Stored)' = OfRun(Stored) \cup buf /\ Entity' = Entity
  BY <1>1, <1>2 DEF OfRun, Entity
<1>4. RowsOf(Entity)' = RowsOf(Entity) \cup buf
  BY <1>2, <1>3 DEF RowsOf
<1>5. ASSUME NEW S \in SUBSET Stored
      PROVE  Cardinality(S \cup buf) = Cardinality(S) + Cardinality(buf)
  <2>1. IsFiniteSet(S) /\ S \cap buf = {}
    BY <1>2, <1>5, FS_Subset
  <2>2. Cardinality(S \cup buf) = Cardinality(S) + Cardinality(buf) - Cardinality(S \cap buf)
    BY <1>2, <2>1, FS_Union
  <2>3. Cardinality(S) \in Nat /\ Cardinality(buf) \in Nat /\ Cardinality({}) = 0
    BY <1>2, <2>1, FS_CardinalityType, FS_EmptySet
  <2>4. Cardinality(S \cap buf) = 0
    BY <2>1, <2>3
  <2> QED BY <2>2, <2>3, <2>4
<1>6. OfRun(Stored) \in SUBSET Stored /\ RowsOf(Entity) \in SUBSET Stored
  BY DEF OfRun, RowsOf
<1>7. /\ total = Cardinality(OfRun(Stored)) /\ n = Cardinality(RowsOf(Entity)) /\ grid # {}
      /\ DOMAIN perEntity = {job.entities[i] : i \in {i \in 1 .. Len(job.entities) :
                                                          i < e /\ Has(i)}}
      /\ \A en \in DOMAIN perEntity : perEntity[en] = Cardinality(RowsOf(en))
  BY <1>1 DEF CountInv
<1>8. \A en \in DOMAIN perEntity : en # Entity
  <2>1. job \in Jobs /\ e \in 1 .. Len(job.entities) /\ e \in Int
    BY <1>1, JobTypes DEF BuilderTypes, TypeOK, LoopInv
  <2>2. \A i \in 1 .. Len(job.entities) : i < e => job.entities[i] # job.entities[e]
    BY <2>1, JobTypes
  <2> QED BY <1>7, <2>2 DEF Entity
<1>9. \A en \in DOMAIN perEntity : RowsOf(en)' = RowsOf(en)
  <2> SUFFICES ASSUME NEW en \in DOMAIN perEntity
               PROVE  {r \in OfRun(Stored)' : r.entity = en} = RowsOf(en)
    BY DEF RowsOf
  <2> QED BY <1>2, <1>3, <1>8 DEF RowsOf
<1>10. \A i : Has(i)' <=> Has(i)
  BY <1>1 DEF Has, Fits
<1>11. total' = Cardinality(OfRun(Stored)') /\ n' = Cardinality(RowsOf(Entity)')
  BY <1>1, <1>3, <1>4, <1>5, <1>6, <1>7
<1> QED BY <1>1, <1>7, <1>9, <1>10, <1>11 DEF CountInv

LEMMA NextCounts ==
    ASSUME BuilderTypes, RowsInv, CountInv, [Next]_vars
    PROVE  CountInv'
<1>1. CASE \E j \in Jobs : Start(j)
  BY <1>1 DEF Start, CountInv
<1>2. CASE GridPoint
  <2>1. /\ pc = "grid" /\ pc' = "grid" /\ grid' # {}
        /\ UNCHANGED <<total, perEntity>>
    BY <1>2 DEF GridPoint, counts
  <2> QED BY <2>1 DEF CountInv
<1>3. CASE NextPoint
  <2>1. pc = "build" /\ UNCHANGED <<job, grid, e, n, total, perEntity, run, pc, pending,
                                    published, lost>>
    BY <1>3 DEF NextPoint, counts, output
  <2>2. Stored' = Stored
    BY <2>1 DEF Stored
  <2> QED BY <2>1, <2>2, SameCounts
<1>4. CASE Compute \/ ComputeNothing \/ ComputeRaises
  <2>1. pc = "build" /\ (pc' # "idle" => pc' = pc) /\ Stored' = Stored
        /\ UNCHANGED <<job, grid, e, n, total, perEntity, run>>
    BY <1>4, ComputeFacts DEF Stored
  <2> QED BY <2>1, SameCounts
<1>5. CASE WriterStep /\ ~ AppendBatch
  <2>1. /\ (pc' # "idle" => pc' = pc)
        /\ UNCHANGED <<job, grid, e, perEntity, run>>
        /\ (pc' # "idle" => n' = n /\ total' = total /\ lost' = lost /\ pc = "drain"
                            /\ pending' \cup published' = pending \cup published)
    BY <1>5, WriterFacts
  <2>2. CASE pc' # "idle"
    <3>1. Stored' = Stored /\ pc # "grid"
      BY <2>1, <2>2 DEF Stored
    <3> QED BY <2>1, <2>2, <3>1, SameCounts
  <2>3. CASE pc' = "idle"
    BY <2>3 DEF CountInv
  <2> QED BY <2>2, <2>3
<1>6. CASE UNCHANGED vars \/ \E r \in Raw : PublishRaw(r)
  <2>1. UNCHANGED <<pending, published, lost, run, job, cur, grid, pc, e, n, total, perEntity>>
    BY <1>6 DEF vars, PublishRaw, loop, counts, output
  <2>2. Stored' = Stored
    BY <2>1 DEF Stored
  <2>3. CASE pc = "grid"
    BY <2>1, <2>3 DEF CountInv
  <2>4. CASE pc # "grid"
    BY <2>1, <2>2, <2>4, SameCounts
  <2> QED BY <2>3, <2>4
<1> QED BY <1>1, <1>2, <1>3, <1>4, <1>5, <1>6, GridCounts, EntityCounts, AppendCounts
        DEF Next, Step, WriterStep

LEMMA CountsHold == Spec => []CountInv
<1>1. Init => CountInv
  BY DEF Init, CountInv
<1> QED BY <1>1, BuilderTypesHold, RowsHold, NextCounts, PTL DEF Spec

\* What a build that returns has: all its rows published, a row or a mark of
\* having none for each cell wanted.
LEMMA Returned ==
    ASSUME BuilderTypes, RowsInv, CountInv, Return
    PROVE  /\ OfRun(published) = OfRun(Stored) /\ OfRun(published) = OfRun(Kept)
           /\ pc = "drain" /\ e = Len(job.entities) + 1
           /\ \A c : c \in Wanted <=>
                 \E i \in 1 .. Len(job.entities), k \in 1 .. Len(job.features), p \in grid :
                    c = CellAt(i, p, k) /\ Fits(i, k)
<1>1. pc = "drain" /\ pending = {}
  BY DEF Return, Drained
<1>2. buf = {} /\ OfRun(lost) = {} /\ e = Len(job.entities) + 1
  BY <1>1 DEF BuilderTypes, LoopInv, RowsInv
<1>3. OfRun(published) = OfRun(Stored) /\ OfRun(published) = OfRun(Kept)
  BY <1>1, <1>2 DEF OfRun, Kept, Stored
<1>4. job.features \in Seq(Features) /\ job.entities \in Seq(Entities)
  BY JobTypes DEF BuilderTypes, TypeOK
<1>5. ASSUME NEW c
      PROVE  c \in Wanted <=>
                \E i \in 1 .. Len(job.entities), k \in 1 .. Len(job.features), p \in grid :
                   c = CellAt(i, p, k) /\ Fits(i, k)
  <2> DEFINE fs == job.features
             es == job.entities
  <2>1. DOMAIN fs = 1 .. Len(fs) /\ DOMAIN es = 1 .. Len(es)
    <3>1. fs \in Seq(Features) /\ es \in Seq(Entities)
      BY <1>4
    <3> HIDE DEF fs, es
    <3> QED BY <3>1
  <2>2. Range(es) = {es[i] : i \in 1 .. Len(es)} /\ Range(fs) = {fs[k] : k \in 1 .. Len(fs)}
    BY <2>1 DEF Range
  <2>3. c \in Wanted <=>
            \E i \in 1 .. Len(es), k \in 1 .. Len(fs), p \in grid :
                /\ c = [run |-> run, entity |-> es[i], ts |-> p, feature |-> fs[k]]
                /\ FeatureType[c.feature] = EntityType[c.entity]
    BY <2>2 DEF Wanted, Cells
  <2>4. \A i \in 1 .. Len(es), k \in 1 .. Len(fs), p \in grid :
            CellAt(i, p, k) = [run |-> run, entity |-> es[i], ts |-> p, feature |-> fs[k]]
    BY DEF CellAt
  <2>5. \A i \in 1 .. Len(es), k \in 1 .. Len(fs), p \in grid :
            Fits(i, k) <=> FeatureType[CellAt(i, p, k).feature] = EntityType[CellAt(i, p, k).entity]
    BY DEF Fits, CellAt
  <2> QED BY <2>3, <2>4, <2>5
<1> QED BY <1>1, <1>2, <1>3, <1>5

\* run() that returns has published exactly one row for each cell whose feature
\* returned a value (builder.py: run; writer.py: flush_all).
THEOREM ReturnedBuildIsPublishedHolds == Spec => ReturnedBuildIsPublished
<1> DEFINE rows == OfRun(published)
           Complete == /\ {Cell(r) : r \in rows} = Wanted \ skipped
                       /\ Cardinality(rows) = Cardinality(Wanted \ skipped)
<1>1. ASSUME BuilderTypes, RowsInv, CountInv, Return PROVE Complete
  <2>1. {Cell(r) : r \in rows} = Wanted \ skipped
    <3>1. ASSUME NEW r \in rows PROVE Cell(r) \in Wanted \ skipped
      <4>1. r \in OfRun(Kept) /\ r \in Kept
        BY <1>1, <3>1, Returned DEF OfRun
      <4>2. \E i \in 1 .. Len(job.entities), k \in 1 .. Len(job.features), p \in grid :
                Cell(r) = CellAt(i, p, k) /\ Fits(i, k)
        BY <1>1, <4>1, Returned, RunRows
      <4>3. Cell(r) \notin skipped
        BY <1>1, <4>1 DEF RowsInv
      <4> QED BY <1>1, <4>2, <4>3, Returned
    <3>2. ASSUME NEW c \in Wanted, c \notin skipped PROVE \E r \in rows : c = Cell(r)
      <4>1. PICK i \in 1 .. Len(job.entities), k \in 1 .. Len(job.features), p \in grid :
                c = CellAt(i, p, k) /\ Fits(i, k)
        BY <1>1, <3>2, Returned
      <4>2. Passed(i, p, k)
        <5>1. Len(job.entities) \in Nat /\ e = Len(job.entities) + 1
          BY <1>1, Returned, JobTypes DEF BuilderTypes, TypeOK
        <5> QED BY <5>1 DEF Passed
      <4>3. c \in Marks
        BY <1>1, <4>1, <4>2, Returned DEF RowsInv
      <4>4. PICK r \in Kept : c = Cell(r)
        BY <3>2, <4>3 DEF Marks
      <4>5. r.run = run
        BY <4>1, <4>4 DEF Cell, CellAt
      <4> QED BY <1>1, <4>4, <4>5, Returned DEF OfRun
    <3> QED BY <3>1, <3>2
  <2>2. IsFiniteSet(rows)
    <3>1. rows \in SUBSET Stored
      BY DEF OfRun, Stored
    <3> QED BY <1>1, <3>1, FS_Subset DEF RowsInv
  <2>3. \A r, s \in rows : Cell(r) = Cell(s) => r = s
    BY <1>1 DEF RowsInv, OfRun, Kept, Stored
  <2> DEFINE cells == Wanted \ skipped
             g == [r \in rows |-> Cell(r)]
  <2>4. cells = {g[r] : r \in rows} /\ g \in [rows -> cells]
        /\ \A r, s \in rows : g[r] = g[s] => r = s
    BY <2>1, <2>3
  <2> HIDE DEF cells, g, rows
  <2>5. g \in Bijection(rows, cells)
    BY <2>4 DEF Bijection, Injection, Surjection, IsInjective
  <2>6. Cardinality(cells) = Cardinality(rows)
    BY <2>2, <2>5, FS_Bijection DEF ExistsBijection
  <2> QED BY <2>1, <2>6 DEF cells, rows
<1>2. BuilderTypes /\ RowsInv /\ CountInv => (Return => Complete)
  BY <1>1
<1>3. BuilderTypes /\ RowsInv /\ CountInv /\ [Next]_vars => [Return => Complete]_vars
  BY <1>2
<1> QED BY <1>3, BuilderTypesHold, RowsHold, CountsHold, PTL
        DEF Spec, ReturnedBuildIsPublished

\* The counts run() returns are the rows the build published, in all and for each
\* entity that has features (builder.py: total_rows, per_entity).
THEOREM CountsAreTrueHolds == Spec => CountsAreTrue
<1> DEFINE Counted ==
        /\ total = Cardinality(OfRun(published))
        /\ DOMAIN perEntity = {c.entity : c \in Wanted}
        /\ \A en \in DOMAIN perEntity : perEntity[en] =
              Cardinality({r \in OfRun(published) : r.entity = en})
<1>1. ASSUME BuilderTypes, RowsInv, CountInv, Return PROVE Counted
  <2>1. /\ OfRun(published) = OfRun(Stored) /\ pc = "drain"
        /\ e = Len(job.entities) + 1
    BY <1>1, Returned
  <2>2. /\ grid # {} /\ total = Cardinality(OfRun(Stored))
        /\ DOMAIN perEntity = {job.entities[i] : i \in {i \in 1 .. Len(job.entities) :
                                                            i < e /\ Has(i)}}
        /\ \A en \in DOMAIN perEntity : perEntity[en] = Cardinality(RowsOf(en))
    BY <1>1, <2>1 DEF CountInv
  <2>3. \A i \in 1 .. Len(job.entities) : i < e
    BY <1>1, <2>1, JobTypes DEF BuilderTypes, TypeOK
  <2>4. ASSUME NEW en
        PROVE  en \in {c.entity : c \in Wanted} <=>
                  \E i \in 1 .. Len(job.entities) : en = job.entities[i] /\ Has(i)
    <3>1. ASSUME NEW c \in Wanted, en = c.entity
          PROVE  \E i \in 1 .. Len(job.entities) : en = job.entities[i] /\ Has(i)
      <4>1. PICK i \in 1 .. Len(job.entities), k \in 1 .. Len(job.features), p \in grid :
                c = CellAt(i, p, k) /\ Fits(i, k)
        BY <1>1, <3>1, Returned
      <4>2. c.entity = job.entities[i]
        BY <4>1 DEF CellAt
      <4> QED BY <3>1, <4>1, <4>2 DEF Has
    <3>2. ASSUME NEW i \in 1 .. Len(job.entities), en = job.entities[i], Has(i)
          PROVE  \E c \in Wanted : en = c.entity
      <4>1. PICK k \in 1 .. Len(job.features) : Fits(i, k)
        BY <3>2 DEF Has
      <4>2. PICK p \in grid : TRUE
        BY <2>2
      <4>3. CellAt(i, p, k) \in Wanted
        BY <1>1, <4>1, Returned
      <4>4. CellAt(i, p, k).entity = en
        BY <3>2 DEF CellAt
      <4> QED BY <4>3, <4>4
    <3> QED BY <3>1, <3>2
  <2>5. DOMAIN perEntity = {c.entity : c \in Wanted}
    BY <2>2, <2>3, <2>4
  <2> QED BY <2>1, <2>2, <2>5 DEF RowsOf
<1>2. BuilderTypes /\ RowsInv /\ CountInv /\ [Next]_vars => [Return => Counted]_vars
  BY <1>1
<1> QED BY <1>2, BuilderTypesHold, RowsHold, CountsHold, PTL DEF Spec, CountsAreTrue
=============================================================================
