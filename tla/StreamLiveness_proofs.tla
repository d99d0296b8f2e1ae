----------------------- MODULE StreamLiveness_proofs -----------------------
(***************************************************************************)
(* Theorems about StreamLiveness, for any events, labels, windows and      *)
(* cutoffs.                                                                *)
(***************************************************************************)
EXTENDS StreamLiveness, NumberFacts_proofs

-----------------------------------------------------------------------------
(* Extremes *)

LEMMA PairIsFinite ==
    ASSUME NEW a, NEW b
    PROVE  IsFiniteSet({a, b})
<1>1. IsFiniteSet({a} \cup {b})
  BY FS_Singleton, FS_AddElement
<1>2. {a} \cup {b} = {a, b}
  OBVIOUS
<1> QED BY <1>1, <1>2

LEMMA MaxIsGreatest ==
    ASSUME NEW S \in SUBSET Int, IsFiniteSet(S), S # {}
    PROVE  Max(S) \in S /\ \A i \in S : i <= Max(S)
<1>1. \E top \in S : \A i \in S : top >= i
  BY GreatestElement
<1> QED BY <1>1 DEF Max

LEMMA MinIsLeast ==
    ASSUME NEW S \in SUBSET Int, IsFiniteSet(S), S # {}
    PROVE  Min(S) \in S /\ \A i \in S : Min(S) <= i
<1>1. \E least \in S : \A i \in S : least =< i
  BY LeastElement
<1> QED BY <1>1 DEF Min

LEMMA FiniteImage ==
    ASSUME NEW S, IsFiniteSet(S), NEW T, NEW f \in [S -> T]
    PROVE  IsFiniteSet({f[x] : x \in S})
<1> DEFINE U == {f[x] : x \in S}
           g == [x \in S |-> f[x]]
<1>1. g \in Surjection(S, U)
  BY DEF Surjection
<1> HIDE DEF g, U
<1> QED BY <1>1, FS_Surjection DEF U

LEMMA InstantsAreFinite ==
    ASSUME NEW rows \in SUBSET Events
    PROVE  Instants(rows) \in SUBSET Int /\ IsFiniteSet(Instants(rows))
<1> DEFINE ts == [v \in rows |-> v.ts]
<1>1. IsFiniteSet(rows)
  BY FS_Subset, AuditConstants
<1>2. ts \in [rows -> Int] /\ Instants(rows) = {ts[v] : v \in rows}
  BY AuditConstants DEF Instants
<1>3. IsFiniteSet({ts[v] : v \in rows})
  <2> HIDE DEF ts
  <2> QED BY <1>1, <1>2, FiniteImage
<1> QED BY <1>2, <1>3 DEF Instants

LEMMA MaxGapIsGreatest ==
    ASSUME NEW rows \in SUBSET Events
    PROVE  /\ MaxGap(rows) \in Int
           /\ \A p \in Consecutive(Instants(rows)) : p[2] - p[1] <= MaxGap(rows)
<1> DEFINE T == Instants(rows)
           C == Consecutive(T)
           gap == [p \in C |-> p[2] - p[1]]
           gaps == {gap[p] : p \in C}
<1>1. T \in SUBSET Int /\ IsFiniteSet(T)
  BY InstantsAreFinite
<1>2. IsFiniteSet(C) /\ C \subseteq T \X T
  <2>1. C \in SUBSET (T \X T)
    BY DEF Consecutive
  <2> HIDE DEF T, C
  <2> QED BY <1>1, <2>1, FS_Product, FS_Subset
<1>3. gap \in [C -> Int]
  <2>1. \A p \in T \X T : p[1] \in Int /\ p[2] \in Int
    BY <1>1
  <2>2. \A p \in C : p[2] - p[1] \in Int
    BY <1>2, <2>1
  <2> HIDE DEF C
  <2> QED BY <2>2
<1>4. IsFiniteSet(gaps)
  <2> HIDE DEF C, gap
  <2> QED BY <1>2, <1>3, FiniteImage
<1>5. {0} \cup gaps \in SUBSET Int /\ IsFiniteSet({0} \cup gaps)
  <2>1. gaps \in SUBSET Int
    BY <1>3
  <2>2. {0} \cup gaps = gaps \cup {0}
    OBVIOUS
  <2> HIDE DEF gaps
  <2>3. IsFiniteSet(gaps \cup {0})
    BY <1>4, FS_AddElement
  <2> QED BY <2>1, <2>2, <2>3
<1>6. MaxGap(rows) = Max({0} \cup gaps)
  BY DEF MaxGap
<1>7. Max({0} \cup gaps) \in {0} \cup gaps /\ \A i \in {0} \cup gaps : i <= Max({0} \cup gaps)
  <2> HIDE DEF gaps
  <2> QED BY <1>5, MaxIsGreatest
<1>8. \A p \in C : p[2] - p[1] \in gaps
  OBVIOUS
<1> QED BY <1>5, <1>6, <1>7, <1>8

-----------------------------------------------------------------------------
(* Dates *)

LEMMA DatesAreOrdered ==
    ASSUME NEW a \in Int, NEW b \in Int, a <= b
    PROVE  Date(a) \in Int /\ Date(b) \in Int /\ Date(a) <= Date(b)
BY AuditConstants DEF Date

-----------------------------------------------------------------------------
(* One record per window, and the slots between *)

LEMMA ClassifyTypes ==
    ASSUME NEW rows, NEW ws
    PROVE  Classify(rows, ws) \in Verdicts
BY DEF Classify, Verdicts

LEMMA LivenessRecords ==
    ASSUME NEW rows \in SUBSET Events
    PROVE  /\ Liveness(rows) \subseteq
                  [entity : Entities, window : Windows, verdict : Verdicts]
           /\ \A w \in Liveness(rows) :
                  /\ w.verdict = Classify(RowsOf(rows, w.entity, w.window), w.window)
                  /\ RowsOf(rows, w.entity, w.window) # {}
           /\ \A v \in rows :
                  [entity |-> v.entity, window |-> v.window,
                   verdict |-> Classify(RowsOf(rows, v.entity, v.window), v.window)]
                      \in Liveness(rows)
<1> DEFINE rec(k) == [entity |-> k[1], window |-> k[2],
                      verdict |-> Classify(RowsOf(rows, k[1], k[2]), k[2])]
<1>1. Liveness(rows) = {rec(k) : k \in {<<v.entity, v.window>> : v \in rows}}
  BY DEF Liveness
<1>2. \A v \in rows : v.entity \in Entities /\ v.window \in Windows
  BY AuditConstants
<1>3. \A w \in Liveness(rows) : \E v \in rows : w = rec(<<v.entity, v.window>>)
  BY <1>1
<1>4. \A v \in rows : rec(<<v.entity, v.window>>) \in Liveness(rows)
  BY <1>1
<1>5. ASSUME NEW w \in Liveness(rows)
      PROVE  /\ w \in [entity : Entities, window : Windows, verdict : Verdicts]
             /\ w.verdict = Classify(RowsOf(rows, w.entity, w.window), w.window)
             /\ RowsOf(rows, w.entity, w.window) # {}
  <2>1. PICK v \in rows : w = rec(<<v.entity, v.window>>)
    BY <1>3
  <2>2. w = [entity |-> v.entity, window |-> v.window,
             verdict |-> Classify(RowsOf(rows, v.entity, v.window), v.window)]
    BY <2>1
  <2>3. v \in RowsOf(rows, v.entity, v.window)
    BY DEF RowsOf
  <2>4. Classify(RowsOf(rows, v.entity, v.window), v.window) \in Verdicts
    BY ClassifyTypes
  <2> QED BY <1>2, <2>2, <2>3, <2>4
<1> QED BY <1>4, <1>5

LEMMA SpanIsFinite ==
    ASSUME NEW rows \in SUBSET Events, NEW en
    PROVE  /\ Span(Liveness(rows), en) \in SUBSET Int
           /\ IsFiniteSet(Span(Liveness(rows), en))
           /\ \A ws : ws \in Span(Liveness(rows), en) <=> RowsOf(rows, en, ws) # {}
<1> DEFINE mine == {v \in rows : v.entity = en}
           start == [v \in mine |-> v.window]
           starts == {start[v] : v \in mine}
<1>1. \A ws : ws \in Span(Liveness(rows), en) <=> RowsOf(rows, en, ws) # {}
  <2>1. ASSUME NEW ws, ws \in Span(Liveness(rows), en) PROVE RowsOf(rows, en, ws) # {}
    <3>1. PICK w \in Liveness(rows) : w.entity = en /\ w.window = ws
      BY <2>1 DEF Span
    <3> QED BY <3>1, LivenessRecords
  <2>2. ASSUME NEW ws, NEW v \in RowsOf(rows, en, ws)
        PROVE  ws \in Span(Liveness(rows), en)
    <3>1. v \in rows /\ v.entity = en /\ v.window = ws
      BY DEF RowsOf
    <3>2. [entity |-> v.entity, window |-> v.window,
           verdict |-> Classify(RowsOf(rows, v.entity, v.window), v.window)]
              \in Liveness(rows)
      BY <3>1, LivenessRecords
    <3> QED BY <3>1, <3>2 DEF Span
  <2> QED BY <2>1, <2>2
<1>2. Span(Liveness(rows), en) = starts
  BY <1>1 DEF RowsOf
<1>3. starts \in SUBSET Int
  BY AuditConstants
<1>4. IsFiniteSet(mine) /\ start \in [mine -> Int]
  <2>1. mine \in SUBSET Events /\ \A v \in mine : v.window \in Int
    BY AuditConstants
  <2> HIDE DEF mine
  <2> QED BY <2>1, FS_Subset, AuditConstants
<1>5. IsFiniteSet(starts)
  <2> HIDE DEF mine, start
  <2> QED BY <1>4, FiniteImage
<1> QED BY <1>1, <1>2, <1>3, <1>5

\* The first and the last window observed, and the slots between.
LEMMA MissingSlots ==
    ASSUME NEW rows \in SUBSET Events, NEW en, NEW seen,
           seen = Span(Liveness(rows), en), seen # {}
    PROVE  /\ Min(seen) \in seen /\ Max(seen) \in seen
           /\ \A ws \in seen : ws \in Int /\ Min(seen) <= ws /\ ws <= Max(seen)
           /\ MissingOf(Liveness(rows), en) =
                 {Min(seen) + i * WindowLength :
                     i \in 1 .. ((Max(seen) - Min(seen)) \div WindowLength)} \ seen
           /\ MissingOf(Liveness(rows), en) \subseteq Int
<1>1. seen \in SUBSET Int /\ IsFiniteSet(seen)
  BY SpanIsFinite
<1>2. /\ Min(seen) \in seen /\ Max(seen) \in seen
      /\ \A ws \in seen : Min(seen) <= ws /\ ws <= Max(seen)
  BY <1>1, MinIsLeast, MaxIsGreatest
<1>3. MissingOf(Liveness(rows), en) =
          {Min(seen) + i * WindowLength :
              i \in 1 .. ((Max(seen) - Min(seen)) \div WindowLength)} \ seen
  BY <1>2 DEF MissingOf
<1>4. MissingOf(Liveness(rows), en) \subseteq Int
  <2>1. Min(seen) \in Int /\ WindowLength \in Int
    BY <1>1, <1>2, AuditConstants
  <2> QED BY <1>3, <2>1
<1> QED BY <1>1, <1>2, <1>3, <1>4

LEMMA MissingMembers ==
    ASSUME NEW found
    PROVE  \A k : k \in Missing(found) <=>
               \E w \in found : \E ws \in MissingOf(found, w.entity) : k = <<w.entity, ws>>
BY DEF Missing

-----------------------------------------------------------------------------
(* What an audit knows of the lake it queried *)

Queried ==
    {v \in streamAt :
        /\ v.entity \in entities
        /\ lookback # All =>
              /\ v.ts >= asked - lookback
              /\ Date(v.ts) \in Date(asked - lookback) .. Date(asked)}

Found == IF "stream" \in answered THEN Liveness(Queried) ELSE {}

Verdict(w) == [entity |-> w.entity, window |-> w.window, verdict |-> w.verdict]

ClockInv ==
    /\ asked <= now
    /\ streamAt \subseteq stream /\ labelsAt \subseteq labels
    /\ \A v \in stream : v.ts <= now
    /\ \A v \in streamAt : v.ts <= asked

ReportInv ==
    /\ pc = "audit" => windows = Found /\ report = NoReport /\ "labels" \notin answered
    /\ pc = "idle" => windows = {}
    /\ report = NoReport \/ report.made
    /\ report.made =>
          /\ \A w \in report.windows : Verdict(w) \in Found
          /\ \A q \in Found : \E w \in report.windows : Verdict(w) = q
          /\ \A m \in report.missing : <<m.entity, m.window>> \in Missing(Found)
          /\ \A k \in Missing(Found) : \E m \in report.missing :
                 m.entity = k[1] /\ m.window = k[2]

LabelInv ==
    /\ \A w \in report.windows : OldLabel(<<w.entity, w.window>>) => w.labeled
    /\ \A m \in report.missing :
          /\ OldLabel(<<m.entity, m.window>>) => m.labeled
          /\ m.labeled => \E l \in labels :
                 l.entity = m.entity /\ l.window = m.window /\ l.set

AuditInv == TypeOK /\ ClockInv /\ ReportInv /\ LabelInv

LEMMA MissingTypes ==
    ASSUME NEW rows \in SUBSET Events
    PROVE  \A k \in Missing(Liveness(rows)) : /\ k = <<k[1], k[2]>>
                                              /\ k[1] \in Entities /\ k[2] \in Int
<1> SUFFICES ASSUME NEW k \in Missing(Liveness(rows))
             PROVE  k = <<k[1], k[2]>> /\ k[1] \in Entities /\ k[2] \in Int
  OBVIOUS
<1>1. PICK w \in Liveness(rows) :
          \E ws \in MissingOf(Liveness(rows), w.entity) : k = <<w.entity, ws>>
  BY MissingMembers
<1> PICK ws \in MissingOf(Liveness(rows), w.entity) : k = <<w.entity, ws>>
  BY <1>1
<1>2. w.entity \in Entities
  BY LivenessRecords
<1>3. Span(Liveness(rows), w.entity) # {}
  BY DEF Span
<1>4. ws \in Int
  BY <1>3, MissingSlots
<1> QED BY <1>1, <1>2, <1>4

LEMMA NoneFound == Missing({}) = {}
BY DEF Missing

LEMMA FoundTypes ==
    ASSUME TypeOK, streamAt \subseteq Events
    PROVE  /\ Found \subseteq [entity : Entities, window : Windows, verdict : Verdicts]
           /\ \A k \in Missing(Found) : /\ k = <<k[1], k[2]>>
                                        /\ k[1] \in Entities /\ k[2] \in Int
<1>1. Queried \in SUBSET Events
  BY DEF Queried
<1> QED BY <1>1, LivenessRecords, MissingTypes, NoneFound DEF Found

LEMMA InitAudit == Init => AuditInv
<1> SUFFICES ASSUME Init PROVE AuditInv
  OBVIOUS
<1> USE AuditConstants DEF Init
<1>1. TypeOK
  BY DEF TypeOK, NoReport
<1>2. ClockInv
  BY DEF ClockInv
<1>3. ReportInv
  BY DEF ReportInv, NoReport
<1>4. LabelInv
  BY DEF LabelInv, NoReport
<1> QED BY <1>1, <1>2, <1>3, <1>4 DEF AuditInv

LEMMA TickAudit ==
    ASSUME AuditInv, Tick
    PROVE  AuditInv'
<1> USE AuditConstants DEF AuditInv
<1>1. UNCHANGED <<stream, labels, pc, lookback, entities, windows, report, asked,
                  streamAt, labelsAt, answered>>
      /\ now' = now + 1 /\ now < MaxTime
  BY DEF Tick, lakes, args, history
<1>2. TypeOK'
  BY <1>1 DEF TypeOK
<1>3. now \in Int /\ asked \in Int
  BY DEF TypeOK
<1>4. ClockInv'
  <2>1. \A v \in stream : v.ts \in Int
    BY DEF TypeOK
  <2> QED BY <1>1, <1>3, <2>1 DEF ClockInv
<1>5. Found' = Found
  BY <1>1 DEF Found, Queried
<1>6. ReportInv'
  BY <1>1, <1>5 DEF ReportInv
<1>7. ASSUME NEW k, OldLabel(k)', k[2] \in Int PROVE OldLabel(k)
  <2>1. lookback # All => lookback \in Int
    BY DEF TypeOK
  <2> QED BY <1>1, <1>3, <1>7, <2>1 DEF OldLabel
<1>8. LabelInv'
  <2>1. /\ \A w \in report.windows : w.window \in Int
        /\ \A m \in report.missing : m.window \in Int
    BY DEF TypeOK
  <2> QED BY <1>1, <1>7, <2>1 DEF LabelInv
<1> QED BY <1>2, <1>4, <1>6, <1>8

LEMMA PublishAudit ==
    ASSUME AuditInv, \/ \E v \in Events : PublishEvent(v)
                     \/ \E l \in Labels : PublishLabel(l)
    PROVE  AuditInv'
<1> USE AuditConstants DEF AuditInv
<1>1. /\ UNCHANGED <<now, pc, lookback, entities, windows, report, asked, streamAt,
                     labelsAt, answered>>
      /\ stream \subseteq stream' /\ labels \subseteq labels'
      /\ stream' \subseteq Events /\ labels' \subseteq Labels
      /\ \A v \in stream' : v.ts <= now
  BY DEF PublishEvent, PublishLabel, lakes, args, history, TypeOK, ClockInv
<1>2. TypeOK'
  BY <1>1 DEF TypeOK
<1>3. ClockInv'
  BY <1>1 DEF ClockInv
<1>4. Found' = Found
  BY <1>1 DEF Found, Queried
<1>5. ReportInv'
  BY <1>1, <1>4 DEF ReportInv
<1>6. \A k : OldLabel(k)' => OldLabel(k)
  BY <1>1 DEF OldLabel
<1>7. LabelInv'
  BY <1>1, <1>6 DEF LabelInv
<1> QED BY <1>2, <1>3, <1>5, <1>7

LEMMA QueryAudit ==
    ASSUME AuditInv, NEW lb \in Lookbacks, NEW filter \in Filters, QueryStream(lb, filter)
    PROVE  AuditInv'
<1> USE AuditConstants DEF AuditInv
<1> DEFINE rows == {v \in stream : v.entity \in filter /\ InLookback(v, lb)}
<1>1. /\ pc' = "audit" /\ lookback' = lb /\ entities' = filter
      /\ \/ windows' = Liveness(rows) /\ answered' = {"stream"}
         \/ windows' = {} /\ answered' = {}
      /\ report' = NoReport /\ asked' = now /\ streamAt' = stream /\ labelsAt' = labels
      /\ UNCHANGED <<now, stream, labels>>
  BY DEF QueryStream, lakes
<1>2. Queried' = rows
  BY <1>1 DEF Queried, InLookback, LookbackDates
<1>3. windows' = Found'
  BY <1>1, <1>2 DEF Found
<1>4. rows \in SUBSET Events
  BY DEF TypeOK
<1>5. windows' \subseteq [entity : Entities, window : Windows, verdict : Verdicts]
  <2> HIDE DEF rows
  <2> QED BY <1>1, <1>4, LivenessRecords
<1>6. TypeOK'
  BY <1>1, <1>5 DEF TypeOK, NoReport
<1>7. ClockInv'
  BY <1>1 DEF ClockInv, TypeOK
<1>8. ReportInv'
  BY <1>1, <1>3 DEF ReportInv, NoReport
<1>9. LabelInv'
  BY <1>1 DEF LabelInv, NoReport
<1> QED BY <1>6, <1>7, <1>8, <1>9

LEMMA JoinAudit ==
    ASSUME AuditInv, QueryLabels
    PROVE  AuditInv'
<1> USE AuditConstants DEF AuditInv
<1> DEFINE listed(carrying) ==
               {[entity |-> w.entity, window |-> w.window, verdict |-> w.verdict,
                 labeled |-> Join(carrying, w.entity, w.window)] : w \in windows}
           absent(carrying) ==
               {[entity |-> m[1], window |-> m[2],
                 labeled |-> Join(carrying, m[1], m[2])] : m \in Missing(windows)}
<1>1. /\ pc = "audit" /\ pc' = "idle" /\ windows' = {}
      /\ UNCHANGED <<now, stream, labels, lookback, entities, asked, streamAt, labelsAt>>
  BY DEF QueryLabels, lakes, args
<1>2. PICK carrying : /\ \/ carrying = Labeled(lookback) /\ answered' = answered \cup {"labels"}
                         \/ carrying = {} /\ answered' = answered /\ carrying # Labeled(lookback)
                      /\ report' = [windows |-> listed(carrying),
                                    missing |-> absent(carrying), made |-> TRUE]
  BY DEF QueryLabels
<1>3. windows = Found /\ Found' = Found
  <2>1. Queried' = Queried
    BY <1>1 DEF Queried
  <2>2. "stream" \in answered' <=> "stream" \in answered
    BY <1>2
  <2> QED BY <1>1, <2>1, <2>2 DEF ReportInv, Found
<1>4. /\ Found \subseteq [entity : Entities, window : Windows, verdict : Verdicts]
      /\ \A k \in Missing(Found) : /\ k = <<k[1], k[2]>>
                                   /\ k[1] \in Entities /\ k[2] \in Int
  BY FoundTypes DEF ClockInv, TypeOK
<1>5. \A en, ws : Join(carrying, en, ws) \in BOOLEAN
  BY DEF Join
<1>6. report'.windows = listed(carrying) /\ report'.missing = absent(carrying) /\ report'.made
  BY <1>2
<1>7. TypeOK'
  <2>1. report'.windows \subseteq
            [entity : Entities, window : Windows, verdict : Verdicts, labeled : BOOLEAN]
    BY <1>3, <1>4, <1>5, <1>6
  <2>2. report'.missing \subseteq [entity : Entities, window : Int, labeled : BOOLEAN]
    BY <1>3, <1>4, <1>5, <1>6
  <2> QED BY <1>1, <2>1, <2>2 DEF TypeOK
<1>8. ClockInv'
  BY <1>1 DEF ClockInv
<1>9. /\ \A w \in report'.windows :
            Verdict(w) \in Found /\ w.labeled = Join(carrying, w.entity, w.window)
      /\ \A q \in Found : \E w \in report'.windows : Verdict(w) = q
  <2>1. ASSUME NEW w \in report'.windows
        PROVE  Verdict(w) \in Found /\ w.labeled = Join(carrying, w.entity, w.window)
    <3>1. PICK q \in Found : w = [entity |-> q.entity, window |-> q.window,
                                  verdict |-> q.verdict,
                                  labeled |-> Join(carrying, q.entity, q.window)]
      BY <1>3, <1>6
    <3>2. q = [entity |-> q.entity, window |-> q.window, verdict |-> q.verdict]
      BY <1>4
    <3> QED BY <3>1, <3>2 DEF Verdict
  <2>2. ASSUME NEW q \in Found PROVE \E w \in report'.windows : Verdict(w) = q
    <3> DEFINE w == [entity |-> q.entity, window |-> q.window, verdict |-> q.verdict,
                     labeled |-> Join(carrying, q.entity, q.window)]
    <3>1. q = [entity |-> q.entity, window |-> q.window, verdict |-> q.verdict]
      BY <1>4
    <3>2. w \in report'.windows
      BY <1>3, <1>6
    <3> QED BY <3>1, <3>2 DEF Verdict
  <2> QED BY <2>1, <2>2
<1>10. /\ \A m \in report'.missing :
             /\ <<m.entity, m.window>> \in Missing(Found)
             /\ m.labeled = Join(carrying, m.entity, m.window)
       /\ \A k \in Missing(Found) : \E m \in report'.missing :
              m.entity = k[1] /\ m.window = k[2]
  <2>1. ASSUME NEW m \in report'.missing
        PROVE  /\ <<m.entity, m.window>> \in Missing(Found)
               /\ m.labeled = Join(carrying, m.entity, m.window)
    <3>1. PICK k \in Missing(Found) : m = [entity |-> k[1], window |-> k[2],
                                           labeled |-> Join(carrying, k[1], k[2])]
      BY <1>3, <1>6
    <3> QED BY <1>4, <3>1
  <2>2. ASSUME NEW k \in Missing(Found)
        PROVE  \E m \in report'.missing : m.entity = k[1] /\ m.window = k[2]
    <3> DEFINE m == [entity |-> k[1], window |-> k[2],
                     labeled |-> Join(carrying, k[1], k[2])]
    <3>1. m \in report'.missing
      BY <1>3, <1>6
    <3> QED BY <3>1
  <2> QED BY <2>1, <2>2
<1>11. ReportInv'
  BY <1>1, <1>3, <1>6, <1>9, <1>10 DEF ReportInv
<1>12. ASSUME NEW en, NEW ws, OldLabel(<<en, ws>>)' PROVE Join(carrying, en, ws)
  <2>1. "labels" \in answered' /\ lookback' = lookback /\ now' = now
        /\ labelsAt' = labelsAt /\ labelsAt \subseteq labels
    BY <1>1, <1>12 DEF OldLabel, ClockInv
  <2>2. PICK l \in labels : l.entity = en /\ l.window = ws /\ l.set
    BY <1>12, <2>1 DEF OldLabel
  <2>3. lookback # All => ws >= now - lookback
    BY <1>12, <2>1 DEF OldLabel
  <2>4. <<en, ws>> \in Labeled(lookback)
    BY <2>2, <2>3 DEF Labeled
  <2>5. carrying = Labeled(lookback)
    BY <1>1, <1>2, <2>1, <2>4 DEF ReportInv
  <2> QED BY <2>4, <2>5 DEF Join
<1>13. ASSUME NEW en, NEW ws, Join(carrying, en, ws)
       PROVE  \E l \in labels : l.entity = en /\ l.window = ws /\ l.set
  <2>1. <<en, ws>> \in Labeled(lookback)
    BY <1>2, <1>13 DEF Join
  <2> QED BY <2>1 DEF Labeled
<1>14. LabelInv'
  BY <1>1, <1>9, <1>10, <1>12, <1>13 DEF LabelInv
<1> QED BY <1>7, <1>8, <1>11, <1>14

LEMMA NextAudit == AuditInv /\ [Next]_vars => AuditInv'
<1> SUFFICES ASSUME AuditInv, [Next]_vars PROVE AuditInv'
  OBVIOUS
<1>1. CASE UNCHANGED vars
  BY <1>1 DEF vars, lakes, args, history, AuditInv, TypeOK, ClockInv, ReportInv,
              LabelInv, Found, Queried, OldLabel
<1> QED BY <1>1, TickAudit, PublishAudit, QueryAudit, JoinAudit DEF Next
LEMMA AuditInvHolds == Spec => []AuditInv
BY InitAudit, NextAudit, PTL DEF Spec

-----------------------------------------------------------------------------
(* Theorems *)

\* Windows, verdicts, labels and missing slots are what the report's
\* dataclasses say (liveness.py: StreamLiveness, LivenessReport).
THEOREM AuditTypes == Spec => []TypeOK
<1>1. AuditInv => TypeOK
  BY DEF AuditInv
<1> QED BY <1>1, AuditInvHolds, PTL

LEMMA QueriedRows ==
    ASSUME AuditInv
    PROVE  /\ Queried \in SUBSET Events /\ streamAt \in SUBSET Events
           /\ \A k \in Inside :
                 /\ RowsOf(Queried, k[1], k[2]) = Observed(k[1], k[2])
                 /\ k = <<k[1], k[2]>> /\ k[2] \in Int
           /\ \A en, ws : RowsOf(Queried, en, ws) \subseteq Observed(en, ws)
<1> USE AuditConstants DEF AuditInv
<1>1. streamAt \in SUBSET Events /\ Queried \in SUBSET streamAt
  BY DEF TypeOK, ClockInv, Queried
<1>2. \A en, ws : RowsOf(Queried, en, ws) \subseteq Observed(en, ws)
  BY <1>1 DEF RowsOf, Observed
<1>3. ASSUME NEW k \in Inside
      PROVE  k = <<k[1], k[2]>> /\ k[1] \in entities /\ k[2] \in Int
             /\ (lookback # All => lookback \in Nat /\ k[2] >= asked - lookback)
  <2>1. k \in entities \X Windows /\ (lookback # All => k[2] >= asked - lookback)
    BY DEF Inside
  <2>2. lookback # All => lookback \in Nat
    BY DEF TypeOK
  <2>3. k = <<k[1], k[2]>> /\ k[1] \in entities /\ k[2] \in Windows
    BY <2>1
  <2>4. k[2] \in Int
    BY <2>3
  <2> QED BY <2>1, <2>2, <2>3, <2>4
<1>4. ASSUME NEW k \in Inside, NEW v \in streamAt, v.entity = k[1], v.window = k[2]
      PROVE  v \in Queried
  <2>1. v.ts \in Int /\ v.ts >= k[2] /\ v.ts <= asked /\ asked \in Int
    BY <1>1, <1>4 DEF ClockInv, TypeOK
  <2>2. ASSUME lookback # All
        PROVE  /\ v.ts >= asked - lookback
               /\ Date(v.ts) \in Date(asked - lookback) .. Date(asked)
    <3>1. asked - lookback \in Int /\ asked - lookback <= v.ts
      BY <1>3, <2>1, <2>2
    <3> QED BY <2>1, <3>1, DatesAreOrdered
  <2> QED BY <1>3, <1>4, <2>2 DEF Queried
<1>5. ASSUME NEW k \in Inside
      PROVE  RowsOf(Queried, k[1], k[2]) = Observed(k[1], k[2])
  BY <1>1, <1>4 DEF RowsOf, Observed
<1> QED BY <1>1, <1>2, <1>3, <1>5

LEMMA ExactLookback == AuditInv => LookbackIsExact
<1> SUFFICES ASSUME AuditInv, Answered
             PROVE  {<<w.entity, w.window, w.verdict>> :
                        w \in {q \in report.windows : <<q.entity, q.window>> \in Inside}}
                  = {<<w.entity, w.window, w.verdict>> :
                        w \in {q \in Liveness(streamAt) : <<q.entity, q.window>> \in Inside}}
  BY DEF LookbackIsExact
<1> DEFINE key(w) == <<w.entity, w.window>>
           whole(w) == <<w.entity, w.window, w.verdict>>
<1>1. /\ \A w \in report.windows : Verdict(w) \in Liveness(Queried)
      /\ \A q \in Liveness(Queried) : \E w \in report.windows : Verdict(w) = q
  BY DEF AuditInv, ReportInv, Found, Answered
<1>2. Queried \in SUBSET Events /\ streamAt \in SUBSET Events
  BY QueriedRows
<1>3. ASSUME NEW w \in report.windows, key(w) \in Inside
      PROVE  \E q \in Liveness(streamAt) : key(q) = key(w) /\ whole(q) = whole(w)
  <2>1. Verdict(w).entity = w.entity /\ Verdict(w).window = w.window
        /\ Verdict(w).verdict = w.verdict
    BY DEF Verdict
  <2>2. /\ w.verdict = Classify(RowsOf(Queried, w.entity, w.window), w.window)
        /\ RowsOf(Queried, w.entity, w.window) # {}
    BY <1>1, <1>2, <2>1, LivenessRecords
  <2>3. RowsOf(Queried, w.entity, w.window) = RowsOf(streamAt, w.entity, w.window)
    BY <1>3, QueriedRows DEF Observed
  <2>4. PICK v \in RowsOf(streamAt, w.entity, w.window) : TRUE
    BY <2>2, <2>3
  <2>5. v \in streamAt /\ v.entity = w.entity /\ v.window = w.window
    BY DEF RowsOf
  <2>6. [entity |-> w.entity, window |-> w.window, verdict |-> w.verdict]
            \in Liveness(streamAt)
    BY <1>2, <2>2, <2>3, <2>5, LivenessRecords
  <2> QED BY <2>6
<1>4. ASSUME NEW q \in Liveness(streamAt), key(q) \in Inside
      PROVE  \E w \in report.windows : key(q) = key(w) /\ whole(q) = whole(w)
  <2>1. /\ q.verdict = Classify(RowsOf(streamAt, q.entity, q.window), q.window)
        /\ RowsOf(streamAt, q.entity, q.window) # {}
    BY <1>2, LivenessRecords
  <2>2. RowsOf(Queried, q.entity, q.window) = RowsOf(streamAt, q.entity, q.window)
    BY <1>4, QueriedRows DEF Observed
  <2>3. PICK v \in RowsOf(Queried, q.entity, q.window) : TRUE
    BY <2>1, <2>2
  <2>4. v \in Queried /\ v.entity = q.entity /\ v.window = q.window
    BY DEF RowsOf
  <2>5. [entity |-> q.entity, window |-> q.window, verdict |-> q.verdict]
            \in Liveness(Queried)
    BY <1>2, <2>1, <2>2, <2>4, LivenessRecords
  <2>6. PICK w \in report.windows :
            Verdict(w) = [entity |-> q.entity, window |-> q.window, verdict |-> q.verdict]
    BY <1>1, <2>5
  <2> QED BY <2>6 DEF Verdict
<1> DEFINE reported == {q \in report.windows : key(q) \in Inside}
           unbounded == {q \in Liveness(streamAt) : key(q) \in Inside}
<1>5. \A w \in reported : \E q \in unbounded : whole(q) = whole(w)
  BY <1>3
<1>6. \A q \in unbounded : \E w \in reported : whole(q) = whole(w)
  BY <1>4
<1>7. {whole(w) : w \in reported} = {whole(q) : q \in unbounded}
  <2> HIDE DEF reported, unbounded, whole
  <2> QED BY <1>5, <1>6
<1> QED BY <1>7

\* A window that starts inside the lookback has the verdict an unbounded audit
\* would give it, whatever the day boundaries are (liveness.py: _lookback_bounds).
THEOREM LookbackIsExactHolds == Spec => []LookbackIsExact
BY ExactLookback, AuditInvHolds, PTL

LEMMA DeadBlackouts == AuditInv => BlackoutsAreDead
<1> SUFFICES ASSUME AuditInv, Answered, NEW k \in Inside,
                    NEW p \in Consecutive(Instants(Observed(k[1], k[2]))),
                    p[2] - p[1] >= DeadGap
             PROVE  \E w \in report.windows :
                       /\ w.entity = k[1] /\ w.window = k[2] /\ w.verdict = "dead"
                       /\ OldLabel(k) => w \in DeadButLabeled(report)
  BY DEF BlackoutsAreDead
<1> USE AuditConstants
<1> DEFINE rows == RowsOf(Queried, k[1], k[2])
<1>1. /\ Queried \in SUBSET Events /\ rows = Observed(k[1], k[2])
      /\ k = <<k[1], k[2]>> /\ rows \in SUBSET Queried
  BY QueriedRows DEF RowsOf
<1>2. Classify(rows, k[2]) = "dead"
  <2>1. rows \in SUBSET Events /\ p \in Consecutive(Instants(rows))
    BY <1>1
  <2>2. MaxGap(rows) \in Int /\ p[2] - p[1] <= MaxGap(rows)
    <3> HIDE DEF rows
    <3> QED BY <2>1, MaxGapIsGreatest
  <2>3. p[1] \in Int /\ p[2] \in Int
    <3> HIDE DEF rows
    <3>1. Instants(rows) \in SUBSET Int
      BY <2>1, InstantsAreFinite
    <3> QED BY <2>1, <3>1 DEF Consecutive
  <2>4. MaxGap(rows) >= DeadGap
    BY <2>2, <2>3
  <2> QED BY <2>4 DEF Classify
<1>3. PICK v \in rows : TRUE
  BY <1>1 DEF Consecutive, Instants
<1>4. v \in Queried /\ v.entity = k[1] /\ v.window = k[2]
  BY DEF RowsOf
<1>5. [entity |-> k[1], window |-> k[2], verdict |-> "dead"] \in Liveness(Queried)
  BY <1>1, <1>2, <1>4, LivenessRecords
<1>6. PICK w \in report.windows :
          Verdict(w) = [entity |-> k[1], window |-> k[2], verdict |-> "dead"]
  BY <1>5 DEF AuditInv, ReportInv, Found, Answered
<1>7. w.entity = k[1] /\ w.window = k[2] /\ w.verdict = "dead"
  BY <1>6 DEF Verdict
<1>8. OldLabel(k) => w.labeled
  BY <1>1, <1>7 DEF AuditInv, LabelInv
<1> QED BY <1>7, <1>8 DEF DeadButLabeled

\* A blackout inside the lookback makes its window dead, and dead but labeled
\* when the label was there in time (liveness.py: classify, report).
THEOREM BlackoutsAreDeadHolds == Spec => []BlackoutsAreDead
BY DeadBlackouts, AuditInvHolds, PTL

LEMMA CoveredUsable == AuditInv => UsableIsCovered
<1> USE AuditConstants
<1> SUFFICES ASSUME AuditInv, NEW w \in report.windows, Usable(w),
                    NEW a \in w.window .. w.window + WindowLength - LongestSilence
             PROVE  \E v \in Observed(w.entity, w.window) :
                        a <= v.ts /\ v.ts < a + LongestSilence
  BY DEF UsableIsCovered
<1> DEFINE ws == w.window
           rows == RowsOf(Queried, w.entity, ws)
           T == Instants(rows)
           lower == {t \in T : t < a}
           upper == {t \in T : t >= a + LongestSilence}
<1>1. LongestSilence \in Int /\ LongestSilence >= EdgeOffset
      /\ LongestSilence >= DegradedGap
  <2>1. {EdgeOffset, DegradedGap} \in SUBSET Int /\ IsFiniteSet({EdgeOffset, DegradedGap})
    <3>1. IsFiniteSet({EdgeOffset, DegradedGap})
      BY PairIsFinite
    <3>2. EdgeOffset \in Int /\ DegradedGap \in Int
      OBVIOUS
    <3>3. {EdgeOffset, DegradedGap} \in SUBSET Int
      BY <3>2
    <3> QED BY <3>1, <3>3
  <2>2. LongestSilence \in {EdgeOffset, DegradedGap}
        /\ \A i \in {EdgeOffset, DegradedGap} : i <= LongestSilence
    BY <2>1, MaxIsGreatest DEF LongestSilence
  <2> QED BY <2>1, <2>2
<1>2. Verdict(w) \in Liveness(Queried) /\ w.verdict = "ok"
  <2>1. report.made
    BY DEF AuditInv, ReportInv, NoReport
  <2> QED BY <2>1 DEF AuditInv, ReportInv, Found, Usable
<1>3. Queried \in SUBSET Events /\ rows \subseteq Observed(w.entity, ws)
      /\ rows \in SUBSET Events
  BY QueriedRows DEF RowsOf
<1>4. Classify(rows, ws) = "ok" /\ rows # {} /\ ws \in Int /\ a \in Int
      /\ ws <= a /\ a <= ws + WindowLength - LongestSilence
  <2>1. Verdict(w).entity = w.entity /\ Verdict(w).window = w.window
        /\ Verdict(w).verdict = w.verdict
    BY DEF Verdict
  <2>2. Classify(rows, ws) = "ok" /\ rows # {} /\ ws \in Windows
    BY <1>2, <1>3, <2>1, LivenessRecords
  <2> HIDE DEF rows, ws
  <2>3. ws \in Int /\ ws + WindowLength - LongestSilence \in Int
    <3>1. WindowLength \in Int /\ Windows \in SUBSET Int
      OBVIOUS
    <3>2. ws \in Int
      BY <2>2, <3>1
    <3> QED BY <1>1, <3>1, <3>2
  <2>4. a \in ws .. ws + WindowLength - LongestSilence
    BY DEF ws
  <2> QED BY <2>2, <2>3, <2>4
<1>5. T \in SUBSET Int /\ IsFiniteSet(T) /\ T # {}
  <2>1. T \in SUBSET Int /\ IsFiniteSet(T)
    <3> HIDE DEF rows
    <3> QED BY <1>3, InstantsAreFinite
  <2> QED BY <1>4, <2>1 DEF Instants
<1>6. /\ Min(T) \in T /\ \A t \in T : Min(T) <= t
      /\ Max(T) \in T /\ \A t \in T : t <= Max(T)
  <2> HIDE DEF T
  <2> QED BY <1>5, MinIsLeast, MaxIsGreatest
<1>7. MaxGap(rows) \in Int /\ \A p \in Consecutive(T) : p[2] - p[1] <= MaxGap(rows)
  <2> HIDE DEF rows
  <2> QED BY <1>3, MaxGapIsGreatest
<1>8. /\ ~(MaxGap(rows) >= DegradedGap)
      /\ ~(Min(T) - ws >= EdgeOffset)
      /\ ~(ws + WindowLength - Max(T) >= EdgeOffset)
  BY <1>4 DEF Classify, StartOffset, EndOffset
<1> HIDE DEF rows, T
<1>9. SUFFICES ASSUME ~\E t \in T : a <= t /\ t < a + LongestSilence PROVE FALSE
  <2>1. ASSUME NEW t \in T, a <= t, t < a + LongestSilence
        PROVE  \E v \in Observed(w.entity, w.window) :
                   a <= v.ts /\ v.ts < a + LongestSilence
    <3>1. PICK v \in rows : t = v.ts
      BY DEF T, Instants
    <3> QED BY <1>3, <2>1, <3>1
  <2> QED BY <1>9, <2>1
<1>10. Min(T) \in lower /\ Max(T) \in upper
  <2>1. Min(T) \in Int /\ Max(T) \in Int
    BY <1>5, <1>6
  <2>2. Min(T) < a + LongestSilence /\ Max(T) >= a
    BY <1>1, <1>4, <1>8, <2>1
  <2>3. Min(T) < a /\ Max(T) >= a + LongestSilence
    BY <1>1, <1>4, <1>6, <1>9, <2>1, <2>2
  <2> QED BY <1>6, <2>3
<1>11. /\ lower \in SUBSET Int /\ IsFiniteSet(lower) /\ lower # {} /\ lower \in SUBSET T
       /\ upper \in SUBSET Int /\ IsFiniteSet(upper) /\ upper # {} /\ upper \in SUBSET T
  <2>1. lower \in SUBSET T /\ upper \in SUBSET T
    OBVIOUS
  <2> HIDE DEF lower, upper
  <2> QED BY <1>5, <1>10, <2>1, FS_Subset
<1>12. PICK lo \in lower : \A t \in lower : t <= lo
  <2> HIDE DEF lower
  <2> QED BY <1>11, GreatestElement
<1>13. PICK hi \in upper : \A t \in upper : hi <= t
  <2> HIDE DEF upper
  <2> QED BY <1>11, LeastElement
<1>14. lo \in T /\ hi \in T /\ lo \in Int /\ hi \in Int /\ lo < a /\ hi >= a + LongestSilence
  BY <1>5
<1>15. ASSUME NEW t \in T, lo < t, t < hi PROVE FALSE
  <2>1. t \in Int
    BY <1>5
  <2>2. t \notin lower /\ t \notin upper
    BY <1>12, <1>13, <1>14, <1>15, <2>1
  <2>3. a <= t /\ t < a + LongestSilence
    BY <1>1, <1>4, <2>1, <2>2
  <2> QED BY <1>9, <2>3
<1>16. lo < hi
  BY <1>1, <1>4, <1>14
<1>17. <<lo, hi>> \in Consecutive(T)
  BY <1>14, <1>15, <1>16 DEF Consecutive
<1>18. hi - lo <= MaxGap(rows)
  BY <1>7, <1>17
<1> QED BY <1>1, <1>4, <1>7, <1>8, <1>14, <1>18

\* A window a training export may use was observed throughout, its first and
\* last seconds included (liveness.py: classify; LivenessRow.usable).
THEOREM UsableIsCoveredHolds == Spec => []UsableIsCovered
BY CoveredUsable, AuditInvHolds, PTL

-----------------------------------------------------------------------------
(* Missing windows *)



\* Windows start a whole number of windows apart.
Aligned == \A a, b \in Windows : \E n \in Int : a = b + n * WindowLength

LEMMA SilentMissing ==
    ASSUME AuditInv
    PROVE  MissingIsSilent
<1> USE AuditConstants DEF AuditInv
<1> SUFFICES ASSUME NEW m \in report.missing, NEW r \in Observed(m.entity, m.window)
             PROVE  lookback # All /\ r.ts < asked - lookback
  BY DEF MissingIsSilent
<1> DEFINE en == m.entity
           seen == Span(Liveness(Queried), en)
<1>1. Queried \in SUBSET Events /\ streamAt \in SUBSET Events
  BY QueriedRows
<1>2. <<en, m.window>> \in Missing(Found) /\ m.window \in Int
  BY DEF ReportInv, NoReport, TypeOK
<1>3. Found = Liveness(Queried)
  BY <1>2, NoneFound DEF Found
<1>4. seen # {} /\ m.window \in MissingOf(Liveness(Queried), en)
  <2>1. PICK w \in Liveness(Queried) :
            \E ws \in MissingOf(Liveness(Queried), w.entity) : <<en, m.window>> = <<w.entity, ws>>
    BY <1>2, <1>3, MissingMembers
  <2> QED BY <2>1 DEF Span
<1> HIDE DEF seen
<1>5. Min(seen) \in seen /\ m.window \notin seen
  BY <1>1, <1>4, MissingSlots DEF seen
<1>6. r \in streamAt /\ r.entity = en /\ r.window = m.window /\ r.ts \in Int /\ r.ts >= m.window
  BY <1>1 DEF Observed, RowsOf
<1>7. r \notin Queried
  <2>1. RowsOf(Queried, en, m.window) = {}
    BY <1>1, <1>5, SpanIsFinite DEF seen
  <2> QED BY <1>6, <2>1 DEF RowsOf
<1>8. PICK f \in Queried : f.entity = en /\ f.window = Min(seen)
  <2>1. RowsOf(Queried, en, Min(seen)) # {}
    BY <1>1, <1>5, SpanIsFinite DEF seen
  <2> QED BY <2>1 DEF RowsOf
<1>9. en \in entities /\ asked \in Int /\ r.ts <= asked
  BY <1>6, <1>8 DEF Queried, ClockInv, TypeOK
<1>10. lookback # All /\ lookback \in Int
  BY <1>6, <1>7, <1>9 DEF Queried, TypeOK
<1>11. ASSUME r.ts >= asked - lookback PROVE FALSE
  <2>1. Date(r.ts) \in Date(asked - lookback) .. Date(asked)
    BY <1>6, <1>9, <1>10, <1>11, DatesAreOrdered
  <2> QED BY <1>6, <1>7, <1>9, <1>11, <2>1 DEF Queried
<1> QED BY <1>6, <1>9, <1>10, <1>11

\* What is reported missing had no event that the lookback does not hide, for
\* any events and lookbacks (liveness.py: find_missing_windows).
THEOREM MissingIsSilentHolds == Spec => []MissingIsSilent
<1>1. AuditInv => MissingIsSilent
  BY SilentMissing
<1> QED BY <1>1, AuditInvHolds, PTL

LEMMA WholeQuotient ==
    ASSUME NEW n \in Int
    PROVE  (n * WindowLength) \div WindowLength = n
BY AuditConstants

LEMMA ReportedGaps ==
    ASSUME AuditInv, Aligned
    PROVE  InteriorGapsAreReported
<1> USE AuditConstants
<1> SUFFICES ASSUME Answered, NEW k \in Inside, Observed(k[1], k[2]) = {},
                    NEW i \in Windows, NEW j \in Windows,
                    <<k[1], i>> \in Inside, i < k[2], k[2] < j,
                    Observed(k[1], i) # {}, Observed(k[1], j) # {}
             PROVE  \E m \in report.missing :
                       /\ m.entity = k[1] /\ m.window = k[2]
                       /\ OldLabel(k) => m.labeled
                       /\ m.labeled => \E l \in labels :
                              l.entity = k[1] /\ l.window = k[2] /\ l.set
  BY DEF InteriorGapsAreReported
<1> DEFINE seen == Span(Liveness(Queried), k[1])
           first == Min(seen)
           last == Max(seen)
<1>1. /\ Queried \in SUBSET Events /\ k = <<k[1], k[2]>>
      /\ k[1] \in entities /\ k[2] \in Windows /\ k[2] \in Int
  BY QueriedRows DEF Inside
<1>2. <<k[1], j>> \in Inside
  BY <1>1 DEF Inside, AuditInv, TypeOK
<1>3. i \in seen /\ j \in seen /\ k[2] \notin seen
  <2>1. /\ RowsOf(Queried, k[1], i) # {} /\ RowsOf(Queried, k[1], j) # {}
        /\ RowsOf(Queried, k[1], k[2]) = {}
    BY <1>2, QueriedRows
  <2> QED BY <1>1, <2>1, SpanIsFinite
<1>4. /\ first \in seen /\ last \in seen
      /\ first \in Int /\ last \in Int /\ first <= i /\ j <= last
      /\ MissingOf(Liveness(Queried), k[1]) =
            {first + n * WindowLength : n \in 1 .. ((last - first) \div WindowLength)} \ seen
  BY <1>1, <1>3, MissingSlots
<1>5. first \in Windows /\ last \in Windows
  BY <1>1, <1>4, LivenessRecords DEF Span
<1> HIDE DEF seen, first, last
<1>6. PICK n \in Int : k[2] = first + n * WindowLength
  BY <1>1, <1>5 DEF Aligned
<1>7. PICK N \in Int : last = first + N * WindowLength
  BY <1>5 DEF Aligned
<1>8. 1 <= n /\ n <= N
  <2>1. n * WindowLength > 0 /\ n * WindowLength < N * WindowLength
    BY <1>1, <1>4, <1>6, <1>7
  <2>2. n >= 1
    BY <2>1
  <2>3. ASSUME n > N PROVE FALSE
    <3>1. (n - N) * WindowLength > 0
      BY <2>3
    <3>2. (n - N) * WindowLength = n * WindowLength - N * WindowLength
      OBVIOUS
    <3> QED BY <2>1, <3>1, <3>2
  <2> QED BY <2>2, <2>3
<1>9. (last - first) \div WindowLength = N
  <2>1. last - first = N * WindowLength
    BY <1>4, <1>7
  <2> QED BY <2>1, WholeQuotient
<1>10. k[2] \in MissingOf(Liveness(Queried), k[1])
  BY <1>3, <1>4, <1>6, <1>8, <1>9
<1>11. <<k[1], k[2]>> \in Missing(Found)
  <2>1. \E w \in Liveness(Queried) : w.entity = k[1]
    BY <1>3 DEF seen, Span
  <2> QED BY <1>10, <2>1, MissingMembers DEF Found, Answered
<1>12. PICK m \in report.missing : m.entity = k[1] /\ m.window = k[2]
  BY <1>11 DEF AuditInv, ReportInv, Answered
<1>13. OldLabel(k) => m.labeled
  BY <1>1, <1>12 DEF AuditInv, LabelInv
<1>14. m.labeled => \E l \in labels : l.entity = k[1] /\ l.window = k[2] /\ l.set
  <2>1. m.labeled => \E l \in labels : l.entity = m.entity /\ l.window = m.window /\ l.set
    BY DEF AuditInv, LabelInv
  <2> QED BY <1>12, <2>1
<1> QED BY <1>12, <1>13, <1>14

\* A slot without events between two observed windows is reported, with the
\* label it has (liveness.py: find_missing_windows, report), when windows start
\* a whole number of windows apart.
THEOREM InteriorGapsAreReportedHolds ==
    ASSUME Aligned
    PROVE  Spec => []InteriorGapsAreReported
<1>1. AuditInv => InteriorGapsAreReported
  BY ReportedGaps
<1> QED BY <1>1, AuditInvHolds, PTL
=============================================================================
