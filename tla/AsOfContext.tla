---------------------------- MODULE AsOfContext ----------------------------
(***************************************************************************)
(* A feature's reads through AsOfContext (features/context.py) over the    *)
(* lake, with read_data_type (storage/query.py) and the partition layout   *)
(* (storage/layout.py) it relies on, while writers go on publishing parts. *)
(*                                                                         *)
(* A read that is not answered from the cache lists the hour directories   *)
(* of its stream one by one (DuckDB's expansion of the glob), so a part    *)
(* published meanwhile may be seen or not, directory by directory.         *)
(***************************************************************************)
EXTENDS Integers

CONSTANTS
    Streams,      \* (data_type, source, entity)
    Rows,
    StreamOf,
    EventOf,      \* event_ts of a row, an instant
    Times,        \* instants a caller uses as start, end and as_of
    Offsets,      \* UTC offsets of the datetimes a caller passes
    HourLength,
    DayLength

ASSUME ContextConstants ==
    /\ Streams # {}
    /\ StreamOf \in [Rows -> Streams]
    /\ EventOf \in [Rows -> Int]
    /\ Times # {} /\ Times \subseteq Int
    /\ Offsets # {} /\ Offsets \subseteq Int
    /\ HourLength \in Nat \ {0} /\ DayLength \in Nat \ {0}

VARIABLES
    lake,         \* rows in part files
    asof,         \* as_of_ts of the context
    cache,        \* _cache, a function from the streams it has an entry for
    pc,           \* "idle", or "scan" while a query lists directories
    req,          \* the read being answered, or the last one answered
    todo,         \* hours whose directory is not listed yet
    listed,       \* rows of the files listed so far
    answered,     \* req has been answered with rows
    result        \* those rows

\* History, used by the properties only.
VARIABLES
    base,         \* the lake when the context was created
    seen,         \* every row the context has returned
    failed        \* streams a query of which has failed in this context

context == <<asof, cache>>
query   == <<pc, todo, listed>>
answer  == <<req, answered, result>>
history == <<base, seen, failed>>
vars    == <<lake, context, query, answer, history>>

-----------------------------------------------------------------------------
(* Datetimes and partitions *)

Stamp == [ts : Times, off : Offsets]

Hour(x) == x \div HourLength
UTCDate(x) == x \div DayLength
LocalDate(stamp) == (stamp.ts + stamp.off) \div DayLength

\* MUTANT of DtsBetween: the end date is left out.
DtsBefore(start, end) == LocalDate(start) .. LocalDate(end) - 1

\* dts_between: dates in the datetimes' own zones, both ends included.
DtsBetween(start, end) == LocalDate(start) .. LocalDate(end)

\* Hours of the directories <stream>/dt=<dts>/hour=*.
Dirs(s, dts) ==
    {Hour(EventOf[r]) : r \in {q \in Rows : /\ StreamOf[q] = s
                                            /\ UTCDate(EventOf[q]) \in dts}}

\* MUTANT of Between: the end is included.
BetweenClosed(rows, lo, hi) == {r \in rows : lo <= EventOf[r] /\ EventOf[r] <= hi}

\* The WHERE clause on event_ts, and _slice_between.
Between(rows, lo, hi) == {r \in rows : lo <= EventOf[r] /\ EventOf[r] < hi}

\* MUTANT of OfStream: no filter on source and entity.
OfAnyStream(s, rows) == rows

OfStream(s, rows) == {r \in rows : StreamOf[r] = s}

NoEntry == [s \in {} |-> {}]

Init ==
    /\ lake = {}
    /\ asof \in Stamp
    /\ cache = NoEntry
    /\ pc = "idle"
    /\ req \in [stream : Streams, start : {asof}, end : {asof.ts}]
    /\ todo = {} /\ listed = {}
    /\ answered = FALSE /\ result = {}
    /\ base = {} /\ seen = {} /\ failed = {}

-----------------------------------------------------------------------------
\* The builder makes a context per (entity, grid point).
NewContext(a) ==
    /\ pc = "idle"
    /\ asof' = a
    /\ cache' = NoEntry
    /\ answered' = FALSE /\ result' = {}
    /\ base' = lake /\ seen' = {} /\ failed' = {}
    /\ UNCHANGED <<lake, query, req>>

\* A writer renames a part file into one directory.
Publish(S) ==
    /\ S # {} /\ S \subseteq Rows \ lake
    /\ \A q, r \in S : StreamOf[q] = StreamOf[r] /\ Hour(EventOf[q]) = Hour(EventOf[r])
    /\ lake' = lake \cup S
    /\ UNCHANGED <<context, query, answer, history>>

-----------------------------------------------------------------------------
(* read *)

\* MUTANT of EffectiveEnd: the clamped end is padded to include as_of_ts.
PaddedEnd(end) == IF end < asof.ts THEN end ELSE asof.ts + 1

EffectiveEnd(end) == IF end < asof.ts THEN end ELSE asof.ts

Answer(s, start, end, rows) ==
    /\ req' = [stream |-> s, start |-> start, end |-> end]
    /\ answered' = TRUE
    /\ result' = rows
    /\ seen' = seen \cup rows

\* The window is empty once its end is clamped.
ReadEmpty(s, start, end) ==
    /\ pc = "idle"
    /\ EffectiveEnd(end) <= start.ts
    /\ Answer(s, start, EffectiveEnd(end), {})
    /\ UNCHANGED <<lake, context, query, base, failed>>

\* MUTANT of Hit: a window is cut out of the cached one only where both begin.
HitSame(s, start) == s \in DOMAIN cache /\ cache[s].start.ts = start.ts

Hit(s, start) == s \in DOMAIN cache /\ cache[s].start.ts <= start.ts

ReadCached(s, start, end) ==
    /\ pc = "idle"
    /\ EffectiveEnd(end) > start.ts
    /\ Hit(s, start)
    /\ Answer(s, start, EffectiveEnd(end),
              Between(cache[s].rows, start.ts, EffectiveEnd(end)))
    /\ UNCHANGED <<lake, context, query, base, failed>>

\* Not cached, or cached from too late a start: query [start, as_of_ts).
\* On a miss the widest start, min(cached_start, start_ts), is start_ts.
ReadBegin(s, start, end) ==
    LET dts == DtsBetween(start, asof)
    IN  /\ pc = "idle"
        /\ EffectiveEnd(end) > start.ts
        /\ ~Hit(s, start)
        /\ dts # {}
        /\ pc' = "scan"
        /\ req' = [stream |-> s, start |-> start, end |-> EffectiveEnd(end)]
        /\ todo' = Dirs(s, dts)
        /\ listed' = {}
        /\ answered' = FALSE /\ result' = {}
        /\ UNCHANGED <<lake, context, history>>

\* No date between the two local dates: "dt IN ()" does not parse, and read
\* raises.
ReadRaises(s, start, end) ==
    /\ pc = "idle"
    /\ EffectiveEnd(end) > start.ts
    /\ ~Hit(s, start)
    /\ DtsBetween(start, asof) = {}
    /\ answered' = FALSE /\ result' = {}
    /\ UNCHANGED <<lake, context, query, req, history>>

ListDir(h) ==
    /\ pc = "scan"
    /\ h \in todo
    /\ todo' = todo \ {h}
    /\ listed' = listed \cup {r \in OfStream(req.stream, lake) : Hour(EventOf[r]) = h}
    /\ UNCHANGED <<lake, context, pc, answer, history>>

\* MUTANT of Store: the slice that answers the read is cached for the window.
StoreSlice(table) ==
    LET s == req.stream
    IN  cache' = [t \in DOMAIN cache \cup {s} |->
                    IF t # s THEN cache[t]
                    ELSE [start |-> req.start,
                          rows |-> Between(table, req.start.ts, req.end)]]

Store(table) ==
    LET s == req.stream
    IN  cache' = [t \in DOMAIN cache \cup {s} |->
                    IF t # s THEN cache[t]
                    ELSE [start |-> req.start, rows |-> table]]

Finish(table) ==
    /\ Store(table)
    /\ pc' = "idle"
    /\ todo' = {} /\ listed' = {}
    /\ Answer(req.stream, req.start, req.end,
              Between(table, req.start.ts, req.end))
    /\ UNCHANGED <<lake, asof, base>>

\* The files are read; the table holds what the WHERE clause lets through.
ReadEnd ==
    /\ pc = "scan"
    /\ todo = {}
    /\ Finish({r \in Between(listed, req.start.ts, asof.ts) :
                  UTCDate(EventOf[r]) \in DtsBetween(req.start, asof)})
    /\ UNCHANGED failed

\* MUTANT of ReadFails: what was read before the failure is kept for an answer.
ReadFailsPartly ==
    /\ pc = "scan"
    /\ Finish(Between(listed, req.start.ts, asof.ts))
    /\ failed' = failed \cup {req.stream}

\* An IOException of any cause is taken for "no files match": the empty table
\* is returned, and cached like an answer.
ReadFails ==
    /\ pc = "scan"
    /\ Finish({})
    /\ failed' = failed \cup {req.stream}

-----------------------------------------------------------------------------
Read(s, start, end) ==
    \/ ReadEmpty(s, start, end) \/ ReadCached(s, start, end)
    \/ ReadBegin(s, start, end) \/ ReadRaises(s, start, end)

\* Steps in which no query fails and no read raises.
Answering ==
    \/ \E a \in Stamp : NewContext(a)
    \/ \E S \in SUBSET Rows : Publish(S)
    \/ \E s \in Streams, start \in Stamp, end \in Times :
          ReadEmpty(s, start, end) \/ ReadCached(s, start, end) \/ ReadBegin(s, start, end)
    \/ \E h \in todo : ListDir(h)
    \/ ReadEnd

\* Steps other than a failing query.
Healthy ==
    \/ Answering
    \/ \E s \in Streams, start \in Stamp, end \in Times : ReadRaises(s, start, end)

Next == Healthy \/ ReadFails

Spec == Init /\ [][Next]_vars
HealthySpec == Init /\ [][Healthy]_vars

\* Spec for datetimes in UTC: between two of them there is a date, and no read
\* raises.
UTCSpec == Init /\ [][Answering \/ ReadFails]_vars

-----------------------------------------------------------------------------
(* Properties *)

Entry == [start : Stamp, rows : SUBSET Rows]

TypeOK ==
    /\ lake \in SUBSET Rows
    /\ asof \in Stamp
    /\ DOMAIN cache \subseteq Streams /\ cache \in [DOMAIN cache -> Entry]
    /\ pc \in {"idle", "scan"}
    /\ req \in [stream : Streams, start : Stamp, end : Times]
    /\ todo \subseteq {Hour(EventOf[r]) : r \in Rows}
    /\ listed \in SUBSET Rows
    /\ answered \in BOOLEAN /\ result \in SUBSET Rows
    /\ base \in SUBSET Rows /\ seen \in SUBSET Rows /\ failed \subseteq Streams

\* The answer of the last read, once it has one.
Shown ==
    IF ~answered THEN {}
    ELSE {[stream |-> req.stream, lo |-> req.start.ts, hi |-> req.end, rows |-> result]}

PIT == INSTANCE PointInTime WITH
    cutoff <- asof.ts, blind <- failed, shown <- Shown

\* The rows of a set that the last answered read asked for.
Asked(rows) == PIT!Window(req.stream, req.start.ts, req.end, rows)

\* context.py:3, "clips every read's upper bound": no row stamped at or after
\* as_of_ts is returned, nor kept in the cache, where a later read with a
\* later end would find it.
NoLeakage ==
    /\ \A r \in seen : EventOf[r] < asof.ts
    /\ \A s \in DOMAIN cache : \A r \in cache[s].rows : EventOf[r] < asof.ts

\* A read returns only rows of the stream and window it asked for, whichever
\* wider window the cache holds.
ReadsStayInWindow == answered => result \subseteq Asked(lake)

\* An empty answer that a failed query of the stream has left behind.
Blank == req.stream \in failed /\ result = {}

\* A read returns every row of its window that was in the lake when the
\* context was made, whatever was fetched before, however often the cached
\* window was widened and whatever parts appear during the scan; or it returns
\* nothing at all, and only if a query of its stream has failed.
ReadsAreComplete == answered => Blank \/ Asked(base) \subseteq result

\* A row one feature of a context has seen is seen by every later feature
\* whose window covers it, unless a query of the stream has failed.
ReadsAgree == answered => Blank \/ Asked(seen) \subseteq result

\* The cache, the scan and the pruning implement reads that are atomic but for
\* the rows published since the context was made.  A failed query blanks its
\* own stream in its own context, as a whole, and nothing else (query.py:89).
PointInTimeSpec == PIT!Spec
=============================================================================
