--------------------------- MODULE StreamLiveness ---------------------------
(***************************************************************************)
(* The auditor of windowed streams (quality/liveness.py): one query over   *)
(* the stream lake gives the metrics and the verdict of every window with  *)
(* events, a second one over the label lake tells which windows carry a    *)
(* label, and the report joins the two.  Events and labels are published   *)
(* before, between and after the queries, and each query reads the clock.  *)
(*                                                                         *)
(* Times are whole numbers of a unit; the fractions of Thresholds are      *)
(* given multiplied by the window length.                                  *)
(***************************************************************************)
EXTENDS Integers, FiniteSets, FiniteSetsExt

CONSTANTS
    Entities,
    Windows,         \* window starts that occur
    Events,          \* [entity, window, ts, id]: rows of the stream data_type
    Labels,          \* [entity, window, set]: rows of the label data_type;
                     \* set is FALSE when label is NULL
    WindowLength,
    QuietGap,
    DeadGap, DeadDark, DegradedGap, DegradedDark, EdgeOffset,
    LastSlice,       \* last_slice_s: where the final slice starts
    ThinRows,
    DayLength,
    Lookbacks,       \* values of lookback callers use; All for None
    Filters,         \* values of entities callers use
    IOFaults,        \* a duckdb.IOException may hit a query
    MaxTime,         \* bound of the clock
    All

\* A lake has finitely many rows.
ASSUME AuditConstants ==
    /\ IsFiniteSet(Events) /\ MaxTime \in Nat
    /\ Windows \subseteq Int /\ WindowLength \in Nat \ {0} /\ DayLength \in Nat \ {0}
    /\ \A v \in Events :
          /\ v.entity \in Entities /\ v.window \in Windows
          /\ v.ts \in Int /\ v.ts >= v.window
    /\ \A l \in Labels : l.entity \in Entities /\ l.window \in Windows
    /\ {QuietGap, DeadGap, DeadDark, DegradedGap, DegradedDark, EdgeOffset,
        LastSlice, ThinRows} \subseteq Nat
    /\ Filters \subseteq (SUBSET Entities) \ {{}}  \* an empty IN () does not parse
    /\ Lookbacks \subseteq Nat \cup {All}
    /\ IOFaults \in BOOLEAN

VARIABLES
    now,
    stream,          \* events in part files
    labels,          \* label rows in part files
    pc,              \* "idle", or "audit" between the two queries
    lookback, entities,    \* arguments of the report
    windows,         \* result of compute_stream_liveness
    report           \* the last report: lists of windows and of missing ones

\* History, used by the properties only.
VARIABLES
    asked,           \* the clock when the stream was queried
    streamAt,        \* the stream then
    labelsAt,        \* the labels then
    answered         \* "stream", "labels": the queries without an IOException

lakes   == <<stream, labels>>
args    == <<lookback, entities>>
history == <<asked, streamAt, labelsAt, answered>>
vars    == <<now, lakes, pc, args, windows, report, history>>

-----------------------------------------------------------------------------
(* Metrics and verdict of one window *)

Instants(rows) == {v.ts : v \in rows}

\* Instants one lag() apart; rows of one instant have a gap of 0.
Consecutive(T) ==
    {p \in T \X T : p[1] < p[2] /\ ~\E t \in T : p[1] < t /\ t < p[2]}

MaxGap(rows) ==
    Max({0} \cup {p[2] - p[1] : p \in Consecutive(Instants(rows))})

\* Seconds in gaps longer than the quiet threshold.
DeadTime(rows) ==
    LET quiet == {p \in Consecutive(Instants(rows)) : p[2] - p[1] > QuietGap}
    IN  MapThenSumSet(LAMBDA p : p[2] - p[1], quiet)

StartOffset(rows, ws) == Min(Instants(rows)) - ws
EndOffset(rows, ws) == ws + WindowLength - Max(Instants(rows))
LastSliceRows(rows, ws) == {v \in rows : v.ts >= ws + LastSlice}

\* MUTANT of Classify: "degraded" is looked at before "dead".
ClassifyDegradedFirst(rows, ws) ==
    IF \/ LastSliceRows(rows, ws) = {}
       \/ MaxGap(rows) >= DegradedGap
       \/ StartOffset(rows, ws) >= EdgeOffset
    THEN "degraded"
    ELSE IF DeadTime(rows) >= DeadDark THEN "dead"
    ELSE IF Cardinality(rows) < ThinRows THEN "thin" ELSE "ok"

\* MUTANT of Classify: the last return is missing.
ClassifyNoDefault(rows, ws) ==
    IF MaxGap(rows) >= DeadGap \/ DeadTime(rows) >= DeadDark THEN "dead"
    ELSE IF LastSliceRows(rows, ws) = {} THEN "degraded"
    ELSE IF Cardinality(rows) < ThinRows THEN "thin" ELSE "None"

\* MUTANT of Classify: no look at how late the capture began.
ClassifyNoStart(rows, ws) ==
    IF MaxGap(rows) >= DeadGap \/ DeadTime(rows) >= DeadDark THEN "dead"
    ELSE IF \/ LastSliceRows(rows, ws) = {}
            \/ MaxGap(rows) >= DegradedGap
            \/ DeadTime(rows) >= DegradedDark
            \/ EndOffset(rows, ws) >= EdgeOffset
         THEN "degraded"
    ELSE IF Cardinality(rows) < ThinRows THEN "thin" ELSE "ok"

\* classify: worst first.
Classify(rows, ws) ==
    IF MaxGap(rows) >= DeadGap \/ DeadTime(rows) >= DeadDark THEN "dead"
    ELSE IF \/ LastSliceRows(rows, ws) = {}
            \/ MaxGap(rows) >= DegradedGap
            \/ DeadTime(rows) >= DegradedDark
            \/ StartOffset(rows, ws) >= EdgeOffset
            \/ EndOffset(rows, ws) >= EdgeOffset
         THEN "degraded"
    ELSE IF Cardinality(rows) < ThinRows THEN "thin" ELSE "ok"

-----------------------------------------------------------------------------
(* The queries *)

Date(x) == x \div DayLength

\* MUTANT of LookbackDates: the day of the call is left out.
DatesBeforeToday(lb) == Date(now - lb) .. Date(now) - 1

\* _lookback_bounds: the dates of now - lookback .. now.
LookbackDates(lb) == Date(now - lb) .. Date(now)

InLookback(v, lb) ==
    lb # All => v.ts >= now - lb /\ Date(v.ts) \in LookbackDates(lb)

RowsOf(rows, en, ws) == {v \in rows : v.entity = en /\ v.window = ws}

\* One record per (entity, window_start) with rows.
Liveness(rows) ==
    {[entity |-> k[1], window |-> k[2],
      verdict |-> Classify(RowsOf(rows, k[1], k[2]), k[2])] :
        k \in {<<v.entity, v.window>> : v \in rows}}

\* MUTANT of Span: first and last window over all entities.
SpanOfAll(found, en) == {w.window : w \in found}

\* The windows in which an entity was observed.
Span(found, en) == {w.window : w \in {q \in found : q.entity = en}}

\* MUTANT of MissingOf: a dead window counts as not observed.
MissingOrDead(found, en) ==
    LET seen == Span(found, en)
        first == Min(seen)
        last == Max(seen)
        alive == Span({w \in found : w.verdict # "dead"}, en)
    IN  {first + i * WindowLength : i \in 1 .. ((last - first) \div WindowLength)}
            \ (alive \cup {last})

\* find_missing_windows: the slots between the first and the last one observed.
MissingOf(found, en) ==
    LET seen == Span(found, en)
        first == Min(seen)
        last == Max(seen)
    IN  {first + i * WindowLength : i \in 1 .. ((last - first) \div WindowLength)}
            \ (seen \cup {last})

Missing(found) ==
    UNION {{<<en, ws>> : ws \in MissingOf(found, en)} :
              en \in {w.entity : w \in found}}

\* Entities and window starts with a label that is not NULL.
Labeled(lb) ==
    {<<l.entity, l.window>> :
        l \in {q \in labels : q.set /\ (lb # All => q.window >= now - lb)}}

NoReport == [windows |-> {}, missing |-> {}, made |-> FALSE]

Init ==
    /\ now \in 0 .. MaxTime
    /\ stream = {} /\ labels = {}
    /\ pc = "idle"
    /\ lookback = All /\ entities = Entities
    /\ windows = {}
    /\ report = NoReport
    /\ asked = 0 /\ streamAt = {} /\ labelsAt = {} /\ answered = {}

-----------------------------------------------------------------------------
Tick ==
    /\ now < MaxTime
    /\ now' = now + 1
    /\ UNCHANGED <<lakes, pc, args, windows, report, history>>

\* A collector publishes an event that happened, in time or late.
PublishEvent(v) ==
    /\ v \notin stream /\ v.ts <= now
    /\ stream' = stream \cup {v}
    /\ UNCHANGED <<now, labels, pc, args, windows, report, history>>

\* A label is published after its window closed.
PublishLabel(l) ==
    /\ l \notin labels /\ l.window + WindowLength <= now
    /\ labels' = labels \cup {l}
    /\ UNCHANGED <<now, stream, pc, args, windows, report, history>>

\* report calls compute_stream_liveness; an IOException gives no windows.
QueryStream(lb, filter) ==
    LET rows == {v \in stream : v.entity \in filter /\ InLookback(v, lb)}
    IN  /\ pc = "idle"
        /\ pc' = "audit"
        /\ lookback' = lb /\ entities' = filter
        /\ \/ windows' = Liveness(rows) /\ answered' = {"stream"}
           \/ IOFaults /\ windows' = {} /\ answered' = {}
        /\ report' = NoReport
        /\ asked' = now /\ streamAt' = stream /\ labelsAt' = labels
        /\ UNCHANGED <<now, lakes>>

Join(carrying, en, ws) == <<en, ws>> \in carrying

\* ... then _labeled_windows, and joins the two.
QueryLabels ==
    /\ pc = "audit"
    /\ \E carrying \in {Labeled(lookback)} \cup (IF IOFaults THEN {{}} ELSE {}) :
        /\ answered' = IF carrying = Labeled(lookback) THEN answered \cup {"labels"}
                       ELSE answered
        /\ report' =
              [windows |-> {[entity |-> w.entity, window |-> w.window,
                             verdict |-> w.verdict,
                             labeled |-> Join(carrying, w.entity, w.window)] :
                               w \in windows},
               missing |-> {[entity |-> m[1], window |-> m[2],
                             labeled |-> Join(carrying, m[1], m[2])] :
                               m \in Missing(windows)},
               made |-> TRUE]
    /\ pc' = "idle"
    /\ windows' = {}
    /\ UNCHANGED <<now, lakes, args, asked, streamAt, labelsAt>>

DeadButLabeled(rep) == {w \in rep.windows : w.labeled /\ w.verdict = "dead"}
MissingButLabeled(rep) == {m \in rep.missing : m.labeled}
Usable(w) == w.verdict = "ok"

Next ==
    \/ Tick
    \/ \E v \in Events : PublishEvent(v)
    \/ \E l \in Labels : PublishLabel(l)
    \/ \E lb \in Lookbacks, filter \in Filters : QueryStream(lb, filter)
    \/ QueryLabels

Spec == Init /\ [][Next]_vars

-----------------------------------------------------------------------------
(* Properties *)

Verdicts == {"dead", "degraded", "thin", "ok"}

TypeOK ==
    /\ now \in 0 .. MaxTime /\ asked \in 0 .. MaxTime
    /\ stream \subseteq Events /\ labels \subseteq Labels
    /\ pc \in {"idle", "audit"}
    /\ lookback \in Lookbacks \cup {All} /\ entities \subseteq Entities
    /\ windows \subseteq [entity : Entities, window : Windows, verdict : Verdicts]
    /\ report.windows \subseteq
          [entity : Entities, window : Windows, verdict : Verdicts, labeled : BOOLEAN]
    /\ report.missing \subseteq [entity : Entities, window : Int, labeled : BOOLEAN]

Answered == report.made /\ "stream" \in answered

Observed(en, ws) == RowsOf(streamAt, en, ws)

\* The windows of the audited entities that lie inside the lookback.
Inside ==
    {k \in entities \X Windows : lookback # All => k[2] >= asked - lookback}

LongestSilence == Max({EdgeOffset, DegradedGap})

\* A label that was there when the audit began and is inside the lookback still.
OldLabel(k) ==
    /\ "labels" \in answered
    /\ \E l \in labelsAt : l.entity = k[1] /\ l.window = k[2] /\ l.set
    /\ lookback # All => k[2] >= now - lookback

\* A usable window, the gate of a training export, was observed throughout: no
\* stretch of it as long as the edge and degraded-gap cutoffs is without an
\* event, its ends and events spilled past its close included.
UsableIsCovered ==
    \A w \in report.windows : Usable(w) =>
        \A a \in w.window .. w.window + WindowLength - LongestSilence :
            \E v \in Observed(w.entity, w.window) :
                a <= v.ts /\ v.ts < a + LongestSilence

\* "A long blackout is dead even if the window otherwise looks busy"
\* (liveness.py:133): a window with two events that far apart and none between
\* is dead, and dead-but-labeled if a label was there when the audit began and
\* the label query did not fail.
BlackoutsAreDead ==
    Answered =>
        \A k \in Inside : \A p \in Consecutive(Instants(Observed(k[1], k[2]))) :
            p[2] - p[1] >= DeadGap =>
                \E w \in report.windows :
                    /\ w.entity = k[1] /\ w.window = k[2] /\ w.verdict = "dead"
                    /\ OldLabel(k) => w \in DeadButLabeled(report)

\* A lookback prunes partitions and rows, not windows: one that starts inside
\* it has the verdict an unbounded audit would give it, midnight between or not.
LookbackIsExact ==
    Answered =>
        {<<w.entity, w.window, w.verdict>> :
            w \in {q \in report.windows : <<q.entity, q.window>> \in Inside}}
      = {<<w.entity, w.window, w.verdict>> :
            w \in {q \in Liveness(streamAt) : <<q.entity, q.window>> \in Inside}}

\* A window without events between two observed ones of its entity is reported
\* missing, and as labeled just when it has a label: one there when the audit
\* began is not overlooked and one that is not there is not made up.
InteriorGapsAreReported ==
    Answered =>
        \A k \in Inside :
            /\ Observed(k[1], k[2]) = {}
            /\ \E i, j \in Windows :
                  /\ <<k[1], i>> \in Inside /\ i < k[2] /\ k[2] < j
                  /\ Observed(k[1], i) # {} /\ Observed(k[1], j) # {}
            => \E m \in report.missing :
                  /\ m.entity = k[1] /\ m.window = k[2]
                  /\ OldLabel(k) => m.labeled
                  /\ m.labeled =>
                        \E l \in labels : l.entity = k[1] /\ l.window = k[2] /\ l.set

\* What is reported missing had no event when the stream was queried, but for
\* those older than the lookback: that of an earlier window spilled past its
\* close makes a later one, whose events are all older, look like a gap.
MissingIsSilent ==
    \A m \in report.missing : \A v \in Observed(m.entity, m.window) :
        lookback # All /\ v.ts < asked - lookback

\* "Labeled windows with NO events at all" (liveness.py:373): each one is in
\* missing_but_labeled.
MissingIsReported ==
    report.made =>
        \A l \in labelsAt : l.set /\ Observed(l.entity, l.window) = {}
            => \E m \in MissingButLabeled(report) :
                  m.entity = l.entity /\ m.window = l.window
=============================================================================
