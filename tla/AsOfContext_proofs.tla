------------------------- MODULE AsOfContext_proofs -------------------------
(***************************************************************************)
(* Theorems about AsOfContext, for any set of streams, rows and instants.  *)
(***************************************************************************)
EXTENDS AsOfContext, TLAPS

-----------------------------------------------------------------------------
(* Type correctness *)

LEMMA StampType ==
    ASSUME NEW a \in Stamp
    PROVE  a.ts \in Times /\ a.ts \in Int /\ a.off \in Offsets /\ a.off \in Int
BY ContextConstants DEF Stamp

LEMMA EffectiveEndType ==
    ASSUME TypeOK, NEW end \in Times
    PROVE  /\ EffectiveEnd(end) \in Times /\ EffectiveEnd(end) \in Int
           /\ EffectiveEnd(end) <= asof.ts
BY StampType, ContextConstants DEF TypeOK, EffectiveEnd

LEMMA BetweenRows ==
    ASSUME NEW rows \in SUBSET Rows, NEW lo, NEW hi
    PROVE  Between(rows, lo, hi) \in SUBSET Rows
BY DEF Between

LEMMA FinishTypes ==
    ASSUME TypeOK, NEW table \in SUBSET Rows, Finish(table)
    PROVE  failed' \subseteq Streams => TypeOK'
<1> USE DEF TypeOK
<1>1. /\ cache' = [t \in DOMAIN cache \cup {req.stream} |->
                      IF t # req.stream THEN cache[t]
                      ELSE [start |-> req.start, rows |-> table]]
      /\ req.stream \in Streams /\ req.start \in Stamp /\ req.end \in Times
  BY DEF Finish, Store
<1>2. DOMAIN cache' \subseteq Streams /\ cache' \in [DOMAIN cache' -> Entry]
  BY <1>1 DEF Entry
<1>3. Between(table, req.start.ts, req.end) \in SUBSET Rows
  BY BetweenRows
<1> QED BY <1>1, <1>2, <1>3 DEF Finish, Answer

LEMMA NextTypes == TypeOK /\ [Next]_vars => TypeOK'
<1> SUFFICES ASSUME TypeOK, [Next]_vars PROVE TypeOK'
  OBVIOUS
<1> USE ContextConstants DEF TypeOK
<1>1. ASSUME NEW a \in Stamp, NewContext(a) PROVE TypeOK'
  BY <1>1 DEF NewContext, NoEntry, query
<1>2. ASSUME NEW S \in SUBSET Rows, Publish(S) PROVE TypeOK'
  BY <1>2 DEF Publish, context, query, answer, history
<1>3. ASSUME NEW s \in Streams, NEW start \in Stamp, NEW end \in Times,
             Read(s, start, end)
      PROVE  TypeOK'
  <2>1. EffectiveEnd(end) \in Times
    BY EffectiveEndType
  <2>2. CASE ReadEmpty(s, start, end)
    BY <2>1, <2>2 DEF ReadEmpty, Answer, context, query
  <2>3. CASE ReadCached(s, start, end)
    <3>1. cache[s].rows \in SUBSET Rows
      BY <2>3 DEF ReadCached, Hit, Entry
    <3>2. Between(cache[s].rows, start.ts, EffectiveEnd(end)) \in SUBSET Rows
      BY <3>1, BetweenRows
    <3> QED BY <2>1, <2>3, <3>2 DEF ReadCached, Answer, context, query
  <2>4. CASE ReadBegin(s, start, end)
    BY <2>1, <2>4 DEF ReadBegin, Dirs, context, history
  <2>5. CASE ReadRaises(s, start, end)
    BY <2>5 DEF ReadRaises, context, query, history
  <2> QED BY <1>3, <2>2, <2>3, <2>4, <2>5 DEF Read
<1>4. ASSUME NEW h \in todo, ListDir(h) PROVE TypeOK'
  BY <1>4 DEF ListDir, OfStream, context, answer, history
<1>5. CASE ReadEnd
  BY <1>5, FinishTypes DEF ReadEnd, Between
<1>6. CASE ReadFails
  BY <1>6, FinishTypes DEF ReadFails, Finish
<1>7. CASE UNCHANGED vars
  BY <1>7 DEF vars, context, query, answer, history
<1> QED BY <1>1, <1>2, <1>3, <1>4, <1>5, <1>6, <1>7
    DEF Next, Healthy, Answering, Read

LEMMA InitTypes == Init => TypeOK
BY ContextConstants DEF Init, TypeOK, NoEntry, Stamp

\* The context's state is well typed: every clamped end is an instant the
\* caller gave, and the cache holds entries for known streams only.
THEOREM ContextTypeCorrect == Spec => []TypeOK
BY InitTypes, NextTypes, PTL DEF Spec

-----------------------------------------------------------------------------
(* Nothing from the future, and nothing from outside the window *)

\* What a cached table, a scan and an answer may hold.
CacheSound ==
    \A s \in DOMAIN cache : \A r \in cache[s].rows :
        /\ r \in lake /\ StreamOf[r] = s
        /\ cache[s].start.ts <= EventOf[r] /\ EventOf[r] < asof.ts

ScanSound ==
    pc = "scan" => /\ ~answered
                   /\ req.end <= asof.ts
                   /\ listed \subseteq OfStream(req.stream, lake)

SeenSound == seen \subseteq lake /\ \A r \in seen : EventOf[r] < asof.ts

SoundInv == TypeOK /\ CacheSound /\ ScanSound /\ SeenSound /\ ReadsStayInWindow

LEMMA FinishSound ==
    ASSUME SoundInv, pc = "scan", NEW table \in SUBSET listed, Finish(table),
           \A r \in table : req.start.ts <= EventOf[r] /\ EventOf[r] < asof.ts
    PROVE  CacheSound' /\ ScanSound' /\ SeenSound' /\ ReadsStayInWindow'
<1> USE DEF SoundInv, TypeOK
<1> DEFINE s == req.stream
<1>1. /\ cache' = [t \in DOMAIN cache \cup {s} |->
                      IF t # s THEN cache[t]
                      ELSE [start |-> req.start, rows |-> table]]
      /\ lake' = lake /\ asof' = asof /\ pc' = "idle"
      /\ req' = [stream |-> s, start |-> req.start, end |-> req.end]
      /\ result' = Between(table, req.start.ts, req.end)
      /\ seen' = seen \cup result'
  BY DEF Finish, Store, Answer
<1>2. table \subseteq lake /\ \A r \in table : StreamOf[r] = s
  BY DEF ScanSound, OfStream
<1>3. CacheSound'
  BY <1>1, <1>2 DEF CacheSound
<1>4. ScanSound' /\ SeenSound'
  BY <1>1, <1>2 DEF ScanSound, SeenSound, Between
<1>5. ReadsStayInWindow'
  BY <1>1, <1>2 DEF ReadsStayInWindow, Asked, PIT!Window, Between
<1> QED BY <1>3, <1>4, <1>5

LEMMA NextSound == SoundInv /\ [Next]_vars => SoundInv'
<1> SUFFICES ASSUME SoundInv, [Next]_vars
             PROVE  CacheSound' /\ ScanSound' /\ SeenSound' /\ ReadsStayInWindow'
  BY NextTypes DEF SoundInv
<1> USE DEF SoundInv
<1> DEFINE Goal == CacheSound' /\ ScanSound' /\ SeenSound' /\ ReadsStayInWindow'
<1>1. ASSUME NEW a \in Stamp, NewContext(a) PROVE Goal
  BY <1>1 DEF NewContext, NoEntry, query, CacheSound, ScanSound, SeenSound,
              ReadsStayInWindow
<1>2. ASSUME NEW S \in SUBSET Rows, Publish(S) PROVE Goal
  <2>1. lake \subseteq lake' /\ UNCHANGED <<context, query, answer, history>>
    BY <1>2 DEF Publish
  <2>2. CacheSound' /\ ScanSound' /\ SeenSound'
    BY <2>1 DEF context, query, answer, history, CacheSound, ScanSound, OfStream,
                SeenSound
  <2>3. ReadsStayInWindow'
    BY <2>1 DEF answer, ReadsStayInWindow, Asked, PIT!Window
  <2> QED BY <2>2, <2>3
<1>3. ASSUME NEW s \in Streams, NEW start \in Stamp, NEW end \in Times,
             Read(s, start, end)
      PROVE  Goal
  <2> USE StampType, EffectiveEndType DEF TypeOK
  <2>1. CASE ReadEmpty(s, start, end)
    BY <2>1 DEF ReadEmpty, Answer, context, query, CacheSound, ScanSound, SeenSound,
                ReadsStayInWindow
  <2>2. CASE ReadCached(s, start, end)
    <3> DEFINE rows == Between(cache[s].rows, start.ts, EffectiveEnd(end))
    <3>1. /\ result' = rows /\ seen' = seen \cup rows
          /\ req' = [stream |-> s, start |-> start, end |-> EffectiveEnd(end)]
          /\ UNCHANGED <<lake, context, query>> /\ pc = "idle" /\ s \in DOMAIN cache
      BY <2>2 DEF ReadCached, Answer, Hit
    <3>2. \A r \in rows : /\ r \in lake /\ StreamOf[r] = s /\ EventOf[r] < asof.ts
                          /\ start.ts <= EventOf[r] /\ EventOf[r] < EffectiveEnd(end)
      BY <3>1 DEF CacheSound, Between
    <3>3. CacheSound' /\ ScanSound' /\ SeenSound'
      BY <3>1, <3>2 DEF context, query, CacheSound, ScanSound, SeenSound
    <3>4. ReadsStayInWindow'
      BY <3>1, <3>2 DEF ReadsStayInWindow, Asked, PIT!Window
    <3> QED BY <3>3, <3>4
  <2>3. CASE ReadBegin(s, start, end)
    BY <2>3 DEF ReadBegin, context, history, CacheSound, ScanSound, SeenSound,
                ReadsStayInWindow
  <2>4. CASE ReadRaises(s, start, end)
    BY <2>4 DEF ReadRaises, context, query, history, CacheSound, ScanSound,
                SeenSound, ReadsStayInWindow
  <2> QED BY <1>3, <2>1, <2>2, <2>3, <2>4 DEF Read
<1>4. ASSUME NEW h \in todo, ListDir(h) PROVE Goal
  BY <1>4 DEF ListDir, context, answer, history, OfStream, CacheSound, ScanSound,
              SeenSound, ReadsStayInWindow
<1>5. CASE ReadEnd
  BY <1>5, FinishSound DEF ReadEnd, Between
<1>6. CASE ReadFails
  BY <1>6, FinishSound DEF ReadFails
<1>7. CASE UNCHANGED vars
  BY <1>7 DEF vars, context, query, answer, history, CacheSound, ScanSound,
              SeenSound, ReadsStayInWindow, Asked, PIT!Window
<1> QED BY <1>1, <1>2, <1>3, <1>4, <1>5, <1>6, <1>7
    DEF Next, Healthy, Answering, Read

LEMMA InitSound == Init => SoundInv
BY InitTypes DEF Init, NoEntry, SoundInv, CacheSound, ScanSound, SeenSound,
                 ReadsStayInWindow

\* context.py:3: whatever windows are read in whatever order, whatever zones
\* the datetimes are in, and whether or not reads fail, no row stamped at or
\* after as_of_ts is returned or cached.
THEOREM NoLeakageHolds == Spec => []NoLeakage
<1>1. SoundInv => NoLeakage
  BY DEF SoundInv, CacheSound, SeenSound, NoLeakage
<1> QED BY InitSound, NextSound, <1>1, PTL DEF Spec

\* A read answered from a wider cached window is cut to the window asked for.
THEOREM ReadsStayInWindowHolds == Spec => []ReadsStayInWindow
<1>1. SoundInv => ReadsStayInWindow
  BY DEF SoundInv
<1> QED BY InitSound, NextSound, <1>1, PTL DEF Spec

-----------------------------------------------------------------------------
(* Nothing is missing when datetimes are in UTC, but where a query failed *)

UTCOnly == Offsets = {0}

LEMMA DivMonotone ==
    ASSUME NEW d \in Nat \ {0}, NEW x \in Int, NEW y \in Int, x <= y
    PROVE  x \div d <= y \div d /\ x \div d \in Int /\ y \div d \in Int
OBVIOUS

\* In UTC, pruning to dts_between drops no row of the span.
LEMMA PruningIsSound ==
    ASSUME NEW start \in Stamp, NEW end \in Stamp, start.off = 0, end.off = 0,
           NEW x \in Int, start.ts <= x, x <= end.ts
    PROVE  UTCDate(x) \in DtsBetween(start, end)
<1>1. /\ start.ts \in Int /\ end.ts \in Int
      /\ LocalDate(start) = start.ts \div DayLength
      /\ LocalDate(end) = end.ts \div DayLength
  BY StampType DEF LocalDate
<1>2. /\ start.ts \div DayLength <= x \div DayLength
      /\ x \div DayLength <= end.ts \div DayLength
      /\ x \div DayLength \in Int /\ start.ts \div DayLength \in Int
      /\ end.ts \div DayLength \in Int
  BY <1>1, DivMonotone, ContextConstants
<1> QED BY <1>1, <1>2 DEF UTCDate, DtsBetween

\* read raises only where no date lies between the local dates of start_ts and
\* as_of_ts (an empty list for dt IN): never when both are in UTC, so the
\* specification that is checked without ReadRaises is all of Spec.
THEOREM NoReadRaisesInUTC == ASSUME UTCOnly PROVE Spec => UTCSpec
<1>1. ASSUME TypeOK, NEW s \in Streams, NEW start \in Stamp, NEW end \in Times,
             ReadRaises(s, start, end)
      PROVE  FALSE
  <2>1. start.ts < EffectiveEnd(end) /\ DtsBetween(start, asof) = {}
    BY <1>1 DEF ReadRaises
  <2>2. asof \in Stamp /\ asof.off = 0 /\ start.off = 0
    BY <1>1, StampType DEF TypeOK, UTCOnly
  <2>3. start.ts \in Int /\ asof.ts \in Int /\ start.ts <= asof.ts
    BY <1>1, <2>1, <2>2, StampType, EffectiveEndType
  <2>4. UTCDate(start.ts) \in DtsBetween(start, asof)
    BY <2>2, <2>3, PruningIsSound
  <2> QED BY <2>1, <2>4
<1>2. TypeOK /\ [Next]_vars => [Answering \/ ReadFails]_vars
  BY <1>1 DEF Next, Healthy
<1> QED BY InitTypes, NextTypes, <1>2, PTL DEF Spec, UTCSpec

\* Rows a read of this context must not miss.
Known == base \cup seen

\* A cached table is the one a failed query left, or misses no such row.
CacheComplete ==
    \A s \in DOMAIN cache :
        \/ s \in failed /\ cache[s].rows = {}
        \/ \A r \in Known :
              StreamOf[r] = s /\ cache[s].start.ts <= EventOf[r] /\ EventOf[r] < asof.ts
                  => r \in cache[s].rows

ScanComplete ==
    pc = "scan" => \A r \in Known :
        StreamOf[r] = req.stream /\ UTCDate(EventOf[r]) \in DtsBetween(req.start, asof)
            => r \in listed \/ Hour(EventOf[r]) \in todo

AnswerComplete ==
    answered =>
        Blank \/ PIT!Window(req.stream, req.start.ts, req.end, Known) \subseteq result

CompleteInv == /\ SoundInv /\ base \subseteq lake
               /\ CacheComplete /\ ScanComplete /\ AnswerComplete

LEMMA RowTypes ==
    ASSUME TypeOK, NEW r \in Known
    PROVE  r \in Rows /\ EventOf[r] \in Int /\ StreamOf[r] \in Streams
BY ContextConstants DEF TypeOK, Known

LEMMA EndComplete ==
    ASSUME CompleteInv, ReadEnd, req.start.off = 0, asof.off = 0
    PROVE  CacheComplete' /\ ScanComplete' /\ AnswerComplete'
<1> USE DEF CompleteInv, SoundInv, TypeOK
<1> DEFINE s == req.stream
           table == {r \in Between(listed, req.start.ts, asof.ts) :
                        UTCDate(EventOf[r]) \in DtsBetween(req.start, asof)}
<1>1. /\ cache' = [t \in DOMAIN cache \cup {s} |->
                      IF t # s THEN cache[t]
                      ELSE [start |-> req.start, rows |-> table]]
      /\ UNCHANGED <<lake, asof, base, failed>> /\ pc = "scan" /\ pc' = "idle"
      /\ todo = {}
      /\ req' = [stream |-> s, start |-> req.start, end |-> req.end]
      /\ result' = Between(table, req.start.ts, req.end)
      /\ seen' = seen \cup result'
  BY DEF ReadEnd, Finish, Store, Answer
<1>2. req.start \in Stamp /\ asof \in Stamp /\ req.start.ts \in Int
      /\ asof.ts \in Int /\ req.end \in Int /\ req.end <= asof.ts
  BY <1>1, StampType, ContextConstants DEF ScanSound
<1>3. table \subseteq lake /\ \A r \in table : StreamOf[r] = s
  BY <1>1 DEF ScanSound, OfStream, Between
<1>4. ASSUME NEW r \in Known, StreamOf[r] = s, req.start.ts <= EventOf[r],
             EventOf[r] < asof.ts
      PROVE  r \in table
  <2>1. UTCDate(EventOf[r]) \in DtsBetween(req.start, asof)
    BY <1>2, <1>4, RowTypes, PruningIsSound
  <2>2. r \in listed
    BY <1>1, <1>4, <2>1 DEF ScanComplete
  <2> QED BY <1>4, <2>1, <2>2 DEF Between
<1>5. Known' = Known \cup result' /\ result' \subseteq table
  BY <1>1 DEF Known, Between
<1>6. CacheComplete'
  <2> SUFFICES ASSUME NEW t \in DOMAIN cache',
                      ~(t \in failed /\ cache'[t].rows = {}),
                      NEW r \in Known', StreamOf[r] = t,
                      cache'[t].start.ts <= EventOf[r], EventOf[r] < asof.ts
               PROVE  r \in cache'[t].rows
    BY <1>1 DEF CacheComplete
  <2>1. CASE t = s
    <3>1. cache'[t] = [start |-> req.start, rows |-> table]
      BY <1>1, <2>1
    <3> QED BY <1>4, <1>5, <2>1, <3>1
  <2>2. CASE t # s
    <3>1. t \in DOMAIN cache /\ cache'[t] = cache[t]
      BY <1>1, <2>2
    <3>2. r \in Known
      BY <1>3, <1>5, <2>2
    <3> QED BY <3>1, <3>2 DEF CacheComplete
  <2> QED BY <2>1, <2>2
<1>7. AnswerComplete'
  <2> SUFFICES ASSUME NEW r \in Known', StreamOf[r] = s,
                      req.start.ts <= EventOf[r], EventOf[r] < req.end
               PROVE  r \in result'
    BY <1>1 DEF AnswerComplete, PIT!Window
  <2>1. CASE r \in Known
    <3>1. EventOf[r] \in Int
      BY <2>1, RowTypes
    <3>2. r \in table
      BY <1>2, <1>4, <2>1, <3>1
    <3> QED BY <1>1, <3>2 DEF Between
  <2> QED BY <1>5, <2>1
<1> QED BY <1>1, <1>6, <1>7 DEF ScanComplete

LEMMA ReadComplete ==
    ASSUME CompleteInv, NEW s \in Streams, NEW start \in Stamp, NEW end \in Times,
           Read(s, start, end)
    PROVE  CacheComplete' /\ ScanComplete' /\ AnswerComplete'
<1> USE DEF CompleteInv, SoundInv
<1>1. CASE ReadEmpty(s, start, end)
  <2>1. /\ UNCHANGED <<lake, context, query, base, failed>> /\ pc = "idle"
        /\ result' = {} /\ seen' = seen \cup result'
        /\ req' = [stream |-> s, start |-> start, end |-> EffectiveEnd(end)]
        /\ EffectiveEnd(end) <= start.ts
    BY <1>1 DEF ReadEmpty, Answer
  <2>2. Known' = Known
    BY <2>1 DEF Known
  <2>3. CacheComplete' /\ ScanComplete'
    BY <2>1, <2>2 DEF CacheComplete, ScanComplete, context, query
  <2>4. AnswerComplete'
    <3>1. \A r \in Known : ~(start.ts <= EventOf[r] /\ EventOf[r] < EffectiveEnd(end))
      BY <2>1, RowTypes, StampType, EffectiveEndType
    <3> QED BY <2>1, <2>2, <3>1 DEF AnswerComplete, PIT!Window
  <2> QED BY <2>3, <2>4
<1>2. CASE ReadCached(s, start, end)
  <2> DEFINE hi == EffectiveEnd(end)
  <2>1. /\ UNCHANGED <<lake, context, query, base, failed>> /\ pc = "idle"
        /\ result' = Between(cache[s].rows, start.ts, hi) /\ seen' = seen \cup result'
        /\ req' = [stream |-> s, start |-> start, end |-> hi]
        /\ s \in DOMAIN cache /\ cache[s].start.ts <= start.ts
    BY <1>2 DEF ReadCached, Answer, Hit
  <2>2. Known' = Known \cup result' /\ result' \subseteq cache[s].rows
    BY <2>1 DEF Known, Between
  <2>3. CacheComplete'
    <3>1. \A r \in result' : StreamOf[r] = s
      BY <2>1, <2>2 DEF CacheSound
    <3> QED BY <2>1, <2>2, <3>1 DEF CacheComplete, context
  <2>4. ScanComplete'
    BY <2>1 DEF ScanComplete, query
  <2>5. AnswerComplete'
    <3> SUFFICES ASSUME ~Blank', NEW r \in Known', StreamOf[r] = s,
                        start.ts <= EventOf[r], EventOf[r] < hi
                 PROVE  r \in result'
      BY <2>1 DEF AnswerComplete, PIT!Window
    <3>2. ~(s \in failed /\ cache[s].rows = {})
      BY <2>1, <2>2 DEF Blank
    <3>1. CASE r \in Known
      <4>1. cache[s].start \in Stamp
        BY <2>1 DEF TypeOK, Entry
      <4>2. cache[s].start.ts <= EventOf[r] /\ EventOf[r] < asof.ts
        BY <2>1, <3>1, <4>1, RowTypes, StampType, EffectiveEndType DEF TypeOK
      <4>3. r \in cache[s].rows
        BY <2>1, <3>1, <3>2, <4>2 DEF CacheComplete
      <4> QED BY <2>1, <4>3 DEF Between
    <3> QED BY <2>2, <3>1
  <2> QED BY <2>3, <2>4, <2>5
<1>3. CASE ReadBegin(s, start, end)
  <2>1. /\ UNCHANGED <<lake, context, history>> /\ ~answered'
        /\ req'.stream = s /\ req'.start = start
        /\ todo' = Dirs(s, DtsBetween(start, asof))
    BY <1>3 DEF ReadBegin
  <2>2. Known' = Known
    BY <2>1 DEF Known, history
  <2>3. \A r \in Known : StreamOf[r] = s /\ UTCDate(EventOf[r]) \in DtsBetween(start, asof)
            => Hour(EventOf[r]) \in todo'
    BY <2>1, RowTypes DEF Dirs
  <2> QED
    BY <2>1, <2>2, <2>3 DEF CacheComplete, ScanComplete, AnswerComplete, context, history
<1>4. CASE ReadRaises(s, start, end)
  BY <1>4 DEF ReadRaises, context, query, history, Known, CacheComplete,
              ScanComplete, AnswerComplete
<1> QED BY <1>1, <1>2, <1>3, <1>4 DEF Read

LEMMA FailComplete ==
    ASSUME CompleteInv, ReadFails
    PROVE  CacheComplete' /\ ScanComplete' /\ AnswerComplete'
<1> USE DEF CompleteInv, SoundInv, TypeOK
<1>1. /\ cache' = [t \in DOMAIN cache \cup {req.stream} |->
                      IF t # req.stream THEN cache[t]
                      ELSE [start |-> req.start, rows |-> {}]]
      /\ UNCHANGED <<lake, asof, base, seen>> /\ pc' = "idle"
      /\ req'.stream = req.stream /\ result' = {}
      /\ failed' = failed \cup {req.stream}
  BY DEF ReadFails, Finish, Store, Answer, Between
<1>2. CacheComplete'
  BY <1>1 DEF CacheComplete, Known
<1>3. ScanComplete' /\ AnswerComplete'
  BY <1>1 DEF ScanComplete, AnswerComplete, Blank
<1> QED BY <1>2, <1>3

\* Only a query that reads its files has to be in UTC.
LEMMA StepComplete ==
    ASSUME CompleteInv, [Next]_vars, ReadEnd => req.start.off = 0 /\ asof.off = 0
    PROVE  CompleteInv'
<1> SUFFICES base' \subseteq lake' /\ CacheComplete' /\ ScanComplete'
                    /\ AnswerComplete'
  BY NextSound DEF CompleteInv
<1> USE DEF CompleteInv
<1> DEFINE Goal == CacheComplete' /\ ScanComplete' /\ AnswerComplete'
<1>1. base' \subseteq lake'
  BY DEF Next, Healthy, Answering, NewContext, Publish, Read, ReadEmpty, ReadCached,
         ReadBegin, ReadRaises, ListDir, ReadEnd, ReadFails, Finish, context, query,
         answer, history, vars
<1>2. ASSUME NEW a \in Stamp, NewContext(a) PROVE Goal
  BY <1>2 DEF NewContext, NoEntry, query, CacheComplete, ScanComplete, AnswerComplete
<1>3. ASSUME NEW S \in SUBSET Rows, Publish(S) PROVE Goal
  BY <1>3 DEF Publish, context, query, answer, history, Known, CacheComplete,
              ScanComplete, AnswerComplete, Blank, PIT!Window
<1>4. ASSUME NEW s \in Streams, NEW start \in Stamp, NEW end \in Times,
             Read(s, start, end)
      PROVE  Goal
  BY <1>4, ReadComplete
<1>5. ASSUME NEW h \in todo, ListDir(h) PROVE Goal
  <2>1. /\ todo' = todo \ {h} /\ UNCHANGED <<lake, context, pc, answer, history>>
        /\ listed' = listed \cup {r \in OfStream(req.stream, lake) :
                                     Hour(EventOf[r]) = h}
    BY <1>5 DEF ListDir
  <2>2. Known' = Known /\ Known \subseteq lake
    BY <2>1 DEF Known, history, SoundInv, SeenSound
  <2>3. ScanComplete'
    BY <2>1, <2>2 DEF ScanComplete, OfStream, context, answer
  <2>4. CacheComplete'
    BY <2>1, <2>2 DEF CacheComplete, context, history
  <2>5. AnswerComplete'
    BY <1>5, <2>1 DEF ListDir, SoundInv, ScanSound, AnswerComplete, answer
  <2> QED BY <2>3, <2>4, <2>5
<1>6. CASE ReadEnd
  BY <1>1, <1>6, EndComplete
<1>7. CASE ReadFails
  BY <1>1, <1>7, FailComplete
<1>8. CASE UNCHANGED vars
  BY <1>8 DEF vars, context, query, answer, history, Known, CacheComplete,
              ScanComplete, AnswerComplete, Blank, PIT!Window
<1> QED BY <1>1, <1>2, <1>3, <1>4, <1>5, <1>6, <1>7, <1>8
    DEF Next, Healthy, Answering, Read

LEMMA NextComplete ==
    ASSUME UTCOnly
    PROVE  CompleteInv /\ [Next]_vars => CompleteInv'
<1> SUFFICES ASSUME CompleteInv, [Next]_vars PROVE CompleteInv'
  OBVIOUS
<1>1. req.start.off = 0 /\ asof.off = 0
  <2>1. req.start \in Stamp /\ asof \in Stamp
    BY DEF CompleteInv, SoundInv, TypeOK
  <2> QED BY <2>1, StampType DEF UTCOnly
<1> QED BY <1>1, StepComplete

LEMMA InitComplete == Init => CompleteInv
BY InitSound DEF Init, NoEntry, CompleteInv, CacheComplete, ScanComplete,
                 AnswerComplete

\* With datetimes in UTC a read misses no row of its window that was in the lake
\* when the context was made, unless a query of its stream has failed and the
\* whole answer is empty.
THEOREM ReadsAreCompleteHolds ==
    ASSUME UTCOnly
    PROVE  Spec => []ReadsAreComplete
<1>1. CompleteInv => ReadsAreComplete
  BY DEF CompleteInv, AnswerComplete, ReadsAreComplete, Asked, Known, PIT!Window
<1> QED BY InitComplete, NextComplete, <1>1, PTL DEF Spec

\* Under the same condition the features of a context agree on what they see.
THEOREM ReadsAgreeHolds ==
    ASSUME UTCOnly
    PROVE  Spec => []ReadsAgree
<1>1. CompleteInv => ReadsAgree
  BY DEF CompleteInv, AnswerComplete, ReadsAgree, Asked, Known, PIT!Window
<1> QED BY InitComplete, NextComplete, <1>1, PTL DEF Spec

-----------------------------------------------------------------------------
(* Refinement of PointInTime *)

\* An answered read shows what PointInTime may show.
LEMMA AnswerImplementsRead ==
    ASSUME CompleteInv', NEW s \in Streams, NEW lo \in Times, NEW hi \in Times,
           hi <= asof.ts, UNCHANGED <<lake, asof, base, failed>>, answered',
           seen' = seen \cup result', req'.stream = s, req'.start.ts = lo,
           req'.end = hi
    PROVE  PIT!Next
<1> DEFINE a == [stream |-> s, lo |-> lo, hi |-> hi, rows |-> result']
<1>1. Shown' = {a} /\ a \in PIT!Answers /\ PIT!Show(a)
  BY DEF CompleteInv, SoundInv, TypeOK, Shown, PIT!Answers, PIT!Show
<1>2. CASE Blank'
  <2>1. PIT!ReadBlank(a)
    BY <1>1, <1>2 DEF Blank, PIT!ReadBlank
  <2> QED BY <1>1, <2>1 DEF PIT!Next
<1>3. CASE ~Blank'
  <2>1. result' \subseteq PIT!Window(s, lo, hi, lake)
    BY DEF CompleteInv, SoundInv, ReadsStayInWindow, Asked, PIT!Window
  <2>2. PIT!Window(s, lo, hi, base \cup seen) \subseteq result'
    BY <1>3 DEF CompleteInv, AnswerComplete, Known, PIT!Window
  <2>3. PIT!Read(a)
    BY <1>1, <2>1, <2>2 DEF PIT!Read, PIT!Views
  <2> QED BY <1>1, <2>3 DEF PIT!Next
<1> QED BY <1>2, <1>3

LEMMA StepImplementsStep ==
    ASSUME UTCOnly, CompleteInv, CompleteInv', [Next]_vars
    PROVE  [PIT!Next]_(PIT!vars)
<1> USE DEF CompleteInv, SoundInv, TypeOK
<1>1. ASSUME NEW a \in Stamp, NewContext(a) PROVE PIT!Next
  <2>1. PIT!Open(a.ts) /\ a.ts \in Times
    BY <1>1, StampType DEF NewContext, Shown, PIT!Open
  <2> QED BY <2>1 DEF PIT!Next
<1>2. ASSUME NEW S \in SUBSET Rows, Publish(S) PROVE PIT!Next
  <2>1. PIT!Publish(S)
    BY <1>2 DEF Publish, context, answer, history, Shown, PIT!Publish
  <2> QED BY <2>1 DEF PIT!Next
<1>3. ASSUME NEW s \in Streams, NEW start \in Stamp, NEW end \in Times,
             ReadEmpty(s, start, end) \/ ReadCached(s, start, end)
      PROVE  PIT!Next
  <2>1. /\ start.ts \in Times /\ EffectiveEnd(end) \in Times
        /\ EffectiveEnd(end) <= asof.ts
    BY StampType, EffectiveEndType
  <2>2. /\ UNCHANGED <<lake, asof, base, failed>> /\ answered'
        /\ seen' = seen \cup result'
        /\ req'.stream = s /\ req'.start.ts = start.ts
        /\ req'.end = EffectiveEnd(end)
    BY <1>3 DEF ReadEmpty, ReadCached, Answer, context
  <2> QED BY <2>1, <2>2, AnswerImplementsRead
<1>4. ASSUME NEW s \in Streams, NEW start \in Stamp, NEW end \in Times,
             ReadBegin(s, start, end) \/ ReadRaises(s, start, end)
      PROVE  PIT!Next
  <2>1. PIT!Ask
    BY <1>4 DEF ReadBegin, ReadRaises, context, history, Shown, PIT!Ask
  <2> QED BY <2>1 DEF PIT!Next
<1>5. ASSUME NEW h \in todo, ListDir(h) PROVE UNCHANGED PIT!vars
  BY <1>5 DEF ListDir, context, answer, history, Shown, PIT!vars
<1>6. ASSUME ReadEnd \/ ReadFails
      PROVE  /\ req.stream \in Streams /\ req.start.ts \in Times
             /\ req.end \in Times /\ req.end <= asof.ts
             /\ UNCHANGED <<lake, asof, base>> /\ answered'
             /\ seen' = seen \cup result' /\ req'.stream = req.stream
             /\ req'.start.ts = req.start.ts /\ req'.end = req.end
  <2>1. pc = "scan" /\ req.start \in Stamp
    BY <1>6 DEF ReadEnd, ReadFails
  <2> QED BY <1>6, <2>1, StampType DEF ReadEnd, ReadFails, Finish, Answer, ScanSound
<1>7. CASE ReadEnd
  <2>1. UNCHANGED failed
    BY <1>7 DEF ReadEnd
  <2> QED BY <1>6, <1>7, <2>1, AnswerImplementsRead
<1>8. CASE ReadFails
  <2> DEFINE a == [stream |-> req.stream, lo |-> req.start.ts, hi |-> req.end,
                   rows |-> {}]
  <2>1. result' = {} /\ failed' = failed \cup {req.stream}
    BY <1>8 DEF ReadFails, Finish, Answer, Between
  <2>2. Shown' = {a} /\ a \in PIT!Answers
    BY <1>6, <1>8, <2>1 DEF Shown, PIT!Answers
  <2>3. PIT!Fail(a)
    BY <1>6, <1>8, <2>1, <2>2 DEF PIT!Fail, PIT!Show
  <2> QED BY <2>2, <2>3 DEF PIT!Next
<1>9. CASE UNCHANGED vars
  BY <1>9 DEF vars, context, answer, history, Shown, PIT!vars
<1> QED
  BY <1>1, <1>2, <1>3, <1>4, <1>5, <1>7, <1>8, <1>9 DEF Next, Healthy, Answering, Read

\* In UTC the context implements atomic point-in-time reads: cache, widening,
\* clamp, pruning and the directory-by-directory scan cannot be told from one
\* step of PointInTime, and a failed query does no more than PointInTime allows.
THEOREM ContextImplementsPointInTime ==
    ASSUME UTCOnly
    PROVE  Spec => PointInTimeSpec
<1>1. Init => PIT!Init
  BY StampType DEF Init, Shown, PIT!Init
<1> QED
  BY InitComplete, NextComplete, StepImplementsStep, <1>1, PTL
  DEF Spec, PointInTimeSpec, PIT!Spec
=============================================================================
