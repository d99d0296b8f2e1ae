----------------------------- MODULE RollingPack -----------------------------
(***************************************************************************)
(* The rolling feature pack (features/packs/rolling.py) and the loop of    *)
(* the builder that runs it at a grid point: the features of the registry  *)
(* are computed one after the other, each from a read of its own window,   *)
(* through one AsOfContext and its cache, while parts are published.       *)
(*                                                                         *)
(* Floats are whole numbers with Bits significant digits: sums, products,  *)
(* differences and quotients are rounded to nearest, ties to even.         *)
(* Deviations are kept as sums of squares and logarithms as quotients.     *)
(***************************************************************************)
EXTENDS AsOfContext, FeatureRegistry, SequencesExt

CONSTANTS
    Points,       \* datetimes of the grid
    Entities,     \* entity ids
    Source,       \* SOURCES for "tick", a function from the routed ones
    ValueOf,      \* value of a tick; None for NULL
    SizeOf,       \* size of a tick; None for NULL
    Short, Long,  \* W_SHORT, W_LONG
    Bits,
    None, Raised

ASSUME PackConstants ==
    /\ Points \subseteq Stamp
    /\ DOMAIN Source \subseteq Entities /\ Range(Source) \subseteq Streams
    /\ IsFiniteSet(Rows)
    /\ \A r \in Rows : ValueOf[r] \in Int \cup {None} /\ SizeOf[r] \in Nat \cup {None}
    /\ Short \in Nat \ {0} /\ Long \in Nat \ {0} /\ Short <= Long
    /\ Bits \in Nat \ {0}

\* None is not the value of a feature.
ASSUME NoneIsNoValue ==
    LET Deviations == [sq : Int, n : Int]
    IN  None \notin Int \cup Deviations \cup [dev : Int, std : Deviations]
                    \cup [last : Int, first : Int]

VARIABLES
    entity,
    plan,         \* the specs of the build
    pos,          \* the one being computed
    asked,        \* its read has begun
    order,        \* order of the rows in the table fetched last
    values        \* what the features of the grid point returned

\* History, used by the properties only.
VARIABLE clean    \* no read has failed or used another zone at this point

reading  == <<entity, plan, pos, asked, order, values, clean>>
packVars == <<vars, specs, reading>>

-----------------------------------------------------------------------------
(* Floats *)

Abs(x) == IF x < 0 THEN -x ELSE x

\* The whole number next to n / d, the even one of two.
Nearest(n, d) ==
    LET q == n \div d
        twice == 2 * (n - q * d)
    IN  IF twice < d \/ (twice = d /\ q % 2 = 0) THEN q ELSE q + 1

\* The float next to n / d.
Fl(n, d) ==
    LET e == CHOOSE k \in 0 .. Abs(n) :
                 /\ Abs(n) < d * 2 ^ (Bits + k)
                 /\ k = 0 \/ Abs(n) >= d * 2 ^ (Bits + k - 1)
        ulp == 2 ^ e
    IN  ulp * Nearest(n, d * ulp)

Minus(x, y) == Fl(x - y, 1)
Square(x) == Fl(x * x, 1)

\* sum(): from left to right, each partial sum a float, as Python 3.11 has it.
FlSum(xs) ==
    LET s[i \in 0 .. Len(xs)] == IF i = 0 THEN 0 ELSE Fl(s[i - 1] + xs[i], 1)
    IN  s[Len(xs)]

Squares(xs, m) == FlSum([i \in DOMAIN xs |-> Square(Minus(xs[i], m))])

-----------------------------------------------------------------------------
(* The features, on the rows of a table *)

\* _values, without its None: the empty sequence stands for it.
Values(rows) ==
    LET vs == [i \in DOMAIN rows |-> ValueOf[rows[i]]]
    IN  Sublist(vs, {i \in DOMAIN vs : vs[i] # None})

\* MUTANT of Mean: NULL values are counted.
MeanOfRows(rows) ==
    IF Values(rows) = <<>> THEN None ELSE Fl(FlSum(Values(rows)), Len(rows))

Mean(rows) ==
    IF Values(rows) = <<>> THEN None ELSE Fl(FlSum(Values(rows)), Len(Values(rows)))

\* _stdev.
Std(rows) ==
    LET xs == Values(rows)
    IN  IF Len(xs) < 2 THEN None ELSE [sq |-> Squares(xs, Mean(rows)), n |-> Len(xs)]

Lowest(rows) ==
    LET vs == Range(Values(rows))
    IN  IF vs = {} THEN None ELSE CHOOSE v \in vs : \A w \in vs : v <= w

Highest(rows) ==
    LET vs == Range(Values(rows))
    IN  IF vs = {} THEN None ELSE CHOOSE v \in vs : \A w \in vs : v >= w

Spread(rows) == IF Values(rows) = <<>> THEN None ELSE Minus(Highest(rows), Lowest(rows))
Count(rows) == IF rows = <<>> THEN None ELSE Len(rows)
Latest(rows) == IF Values(rows) = <<>> THEN None ELSE Last(Values(rows))

ZScore(rows) ==
    IF Std(rows) = None \/ Std(rows).sq = 0 THEN None
    ELSE [dev |-> Minus(Latest(rows), Mean(rows)), std |-> Std(rows)]

LogReturn(rows) ==
    LET xs == Values(rows)
    IN  IF Len(xs) < 2 \/ xs[1] <= 0 \/ Last(xs) <= 0 THEN None
        ELSE [last |-> Last(xs), first |-> xs[1]]

\* The rows vwap_300s sums over.
Weighed(rows) ==
    Sublist(rows, {i \in DOMAIN rows : ValueOf[rows[i]] # None /\ SizeOf[rows[i]] # None})

Vwap(rows) ==
    LET w == Weighed(rows)
        num == FlSum([i \in DOMAIN w |-> Fl(ValueOf[w[i]] * SizeOf[w[i]], 1)])
        den == FlSum([i \in DOMAIN w |-> SizeOf[w[i]]])
    IN  IF den = 0 THEN None ELSE Fl(num, den)

Feature(name, window) ==
    [name |-> name, type |-> "series", window |-> window, off |-> None]

\* The pack, in the order of its decorators.
Rolling ==
    <<Feature("mean_60s", Short), Feature("mean_300s", Long), Feature("std_300s", Long),
      Feature("min_300s", Long), Feature("max_300s", Long), Feature("range_300s", Long),
      Feature("count_60s", Short), Feature("last", Long), Feature("zscore_300s", Long),
      Feature("log_return_300s", Long), Feature("vwap_300s", Long)>>

\* A read starts at a datetime, in a zone of the callers' or the feature's own.
ASSUME WindowConstants ==
    /\ Rolling \in Packs
    /\ \A s \in Declared :
          /\ s.window \in Int /\ s.off \in Offsets \cup {None}
          /\ \A a \in Points : a.ts - s.window \in Times

\* What compute_fn returns for the table of its read.
Value(s, rows) ==
    CASE s \notin Range(Rolling) -> Count(rows)
      [] s.name \in {"mean_60s", "mean_300s"} -> Mean(rows)
      [] s.name = "std_300s" -> Std(rows)
      [] s.name = "min_300s" -> Lowest(rows)
      [] s.name = "max_300s" -> Highest(rows)
      [] s.name = "range_300s" -> Spread(rows)
      [] s.name = "count_60s" -> Count(rows)
      [] s.name = "last" -> Latest(rows)
      [] s.name = "zscore_300s" -> ZScore(rows)
      [] s.name = "log_return_300s" -> LogReturn(rows)
      [] s.name = "vwap_300s" -> Vwap(rows)

-----------------------------------------------------------------------------
(* A grid point: the inner loop of BatchBuilder.run *)

Orders ==
    {o \in [Rows -> 1 .. Cardinality(Rows)] :
        /\ IsInjective(o)
        /\ \A q, r \in Rows : EventOf[q] < EventOf[r] => o[q] < o[r]}

\* The rows a read returns; ORDER BY event_ts leaves open the order of rows of
\* one instant, and a slice of the cached table keeps the order it has there.
InOrder(rows, o) ==
    LET at == Ascending({o[r] : r \in rows})
    IN  [k \in DOMAIN at |-> CHOOSE r \in rows : o[r] = at[k]]

Table == InOrder(result, order)

Start(s) ==
    [ts |-> asof.ts - s.window, off |-> IF s.off = None THEN asof.off ELSE s.off]

PackInit ==
    /\ Init /\ asof \in Points
    /\ RegistryInit
    /\ entity \in Entities
    /\ plan = <<>> /\ pos = 1 /\ asked = FALSE
    /\ order \in Orders
    /\ values = [n \in {} |-> None]
    /\ clean = FALSE

\* Features are registered before the first build of a process; a later build
\* starts from no more than the registry and the lake.
Setup ==
    /\ plan = <<>>
    /\ RegistryNext
    /\ UNCHANGED <<vars, reading>>

\* The next entity or grid point, of this build or of another one.
Point(en, a) ==
    /\ pos > Len(plan)
    /\ NewContext(a)
    /\ entity' = en
    /\ plan' = List("series")
    /\ pos' = 1 /\ asked' = FALSE
    /\ values' = [n \in {} |-> None]
    /\ clean' = (a.off = 0)
    /\ UNCHANGED <<specs, order>>

\* MUTANT of Ask: the window of the feature computed before is read.
AskPrevious ==
    /\ pos <= Len(plan) /\ ~asked
    /\ entity \in DOMAIN Source
    /\ LET start == Start(plan[IF pos = 1 THEN 1 ELSE pos - 1])
       IN  /\ Read(Source[entity], start, asof.ts)
           /\ clean' = (clean /\ start.off = 0)
    /\ asked' = TRUE
    /\ UNCHANGED <<specs, entity, plan, pos, order, values>>

\* _read_ticks: a feature reads its window, up to as_of_ts.
Ask ==
    /\ pos <= Len(plan) /\ ~asked
    /\ entity \in DOMAIN Source
    /\ LET start == Start(plan[pos])
       IN  /\ Read(Source[entity], start, asof.ts)
           /\ clean' = (clean /\ start.off = 0)
    /\ asked' = TRUE
    /\ UNCHANGED <<specs, entity, plan, pos, order, values>>

Scan ==
    /\ \E h \in todo : ListDir(h)
    /\ UNCHANGED <<specs, reading>>

Fetch ==
    /\ ReadEnd
    /\ order' \in Orders
    /\ UNCHANGED <<specs, entity, plan, pos, asked, values, clean>>

FetchFails ==
    /\ ReadFails
    /\ clean' = FALSE
    /\ UNCHANGED <<specs, entity, plan, pos, asked, order, values>>

Yield(v) ==
    /\ values' = [n \in DOMAIN values \cup {plan[pos].name} |->
                     IF n = plan[pos].name THEN v ELSE values[n]]
    /\ pos' = pos + 1 /\ asked' = FALSE
    /\ UNCHANGED <<vars, specs, entity, plan, order, clean>>

\* The feature returns, or passes on what its read raised.
Compute ==
    /\ asked /\ pc = "idle"
    /\ Yield(IF answered THEN Value(plan[pos], Table) ELSE Raised)

NoRoute ==
    /\ pos <= Len(plan)
    /\ entity \notin DOMAIN Source
    /\ Yield(None)

PackNext ==
    \/ Setup
    \/ \E en \in Entities, a \in Points : Point(en, a)
    \/ Ask \/ Scan \/ Fetch \/ FetchFails \/ Compute \/ NoRoute
    \/ \E S \in SUBSET Rows : Publish(S) /\ UNCHANGED <<specs, reading>>

PackSpec == PackInit /\ [][PackNext]_packVars

-----------------------------------------------------------------------------
(* Properties *)

PackTypeOK ==
    /\ TypeOK
    /\ Range(specs) \subseteq Declared
    /\ entity \in Entities
    /\ Range(plan) \subseteq Declared
    /\ pos \in 1 .. Len(plan) + 1 /\ asked \in BOOLEAN
    /\ DOMAIN order = Rows
    /\ DOMAIN values = {plan[i].name : i \in 1 .. pos - 1}
    /\ clean \in BOOLEAN

\* The features of the pack that returned a value at this point.
Returned ==
    {plan[i].name : i \in {j \in 1 .. pos - 1 : /\ plan[j] \in Range(Rolling)
                                              /\ values[plan[j].name] # None}}

\* The features of the long window describe one window, though each reads it for
\* itself while parts are published, reads fail and rows tie.
FeaturesAgree ==
    LET v == values
    IN  /\ {"range_300s", "max_300s"} \subseteq Returned =>
               v["range_300s"] = Minus(v["max_300s"], v["min_300s"])
        /\ {"last", "max_300s"} \subseteq Returned =>
               v["last"] \in v["min_300s"] .. v["max_300s"]
        /\ {"zscore_300s", "last"} \subseteq Returned =>
               /\ v["zscore_300s"].std = v["std_300s"]
               /\ v["zscore_300s"].dev = Minus(v["last"], v["mean_300s"])
        /\ {"log_return_300s", "last"} \subseteq Returned =>
               v["log_return_300s"].last = v["last"]

\* A mean lies between the extremes of its window, the weighted one too, and the
\* mean of the short window between those of the long one, if a window's sums
\* are exact and, for the latter, no read failed.
MeansAreBetween ==
    LET v == values
        between(x) == v[x] \in v["min_300s"] .. v["max_300s"]
    IN  /\ {"mean_300s", "max_300s"} \subseteq Returned => v["mean_300s"] <= v["max_300s"]
        /\ {"mean_300s", "min_300s"} \subseteq Returned => v["min_300s"] <= v["mean_300s"]
        /\ {"vwap_300s", "max_300s"} \subseteq Returned => between("vwap_300s")
        /\ clean /\ {"mean_60s", "max_300s"} \subseteq Returned => between("mean_60s")

\* The ticks of a window with a value.
Valued(rows) == {r \in rows : ValueOf[r] # None}

\* The rows that were in the lake when the context was made are enough for s.
Sufficient(s) ==
    LET rows == PIT!Window(Source[entity], asof.ts - s.window, asof.ts, base)
        vals == {ValueOf[r] : r \in Valued(rows)}
    IN  CASE s.name = "count_60s" -> rows # {}
          [] s.name = "std_300s" -> Cardinality(Valued(rows)) >= 2
          [] s.name = "zscore_300s" -> Cardinality(vals) >= 2
          [] s.name = "log_return_300s" ->
                /\ Cardinality(Valued(rows)) >= 2
                /\ \A r \in Valued(lake) : ValueOf[r] > 0
          [] s.name = "vwap_300s" ->
                \E r \in Valued(rows) : SizeOf[r] # None /\ SizeOf[r] > 0
          [] OTHER -> vals # {}

\* "None (skip -- insufficient data)" (registry.py:9): a feature declines only
\* if the lake the context was made over does not have enough ticks for it, in
\* UTC and without failing reads, whichever window the cache was filled with.
NoneIsInsufficient ==
    clean /\ entity \in DOMAIN Source =>
        \A i \in 1 .. pos - 1 :
            plan[i] \in Range(Rolling) /\ Sufficient(plan[i])
                => plan[i].name \in Returned

\* "(last - mean) / stdev of value over the trailing 300s" (rolling.py:134), and
\* none if the deviation is zero: a window of equal values has no z-score.
FlatHasNoScore ==
    {"zscore_300s", "range_300s"} \subseteq Returned => values["range_300s"] # 0
=============================================================================
