--------------------------- MODULE ParquetWriter ---------------------------
(***************************************************************************)
(* The buffered Parquet writer (storage/writer.py) at the grain of the     *)
(* steps other parties can see: threads of several ParquetWriter instances *)
(* append to per-partition buffers under the instance's lock, and a flush  *)
(* scans the partition directory, stages a hidden temporary file and       *)
(* renames it to the part file readers glob.                               *)
(*                                                                         *)
(* A row is one occurrence of a row dict handed to append_many; equal      *)
(* dicts handed over twice are two rows.  Its contents are abstracted to   *)
(* the partition it belongs to, its byte estimate, and whether validation  *)
(* or the Arrow conversion refuses it.                                     *)
(***************************************************************************)
EXTENDS Integers, FiniteSets, Functions

CONSTANTS
    Writers,        \* ParquetWriter instances: buffers and lock in memory
    Threads,        \* threads that call them
    WriterOf,       \* the instance a thread calls
    Partitions,     \* (source, data_type, entity, dt, hour)
    Owns,           \* the partitions an instance is given rows for
    Rows,
    PartitionOf,    \* hour_keys and the call's arguments, per row
    EstBytes,       \* _estimate_row_bytes
    Invalid,        \* no datetime event_ts, or a data_type with no schema
    Unconvertible,  \* rows pa.Table.from_pylist refuses
    MaxRows,
    MaxBytes,
    OldIndices      \* part numbers a partition directory holds beforehand

\* What the constructor's caller may choose; a directory listing is finite,
\* so its part numbers have a largest one.
ASSUME WriterConstants ==
    /\ Threads # {} /\ Partitions # {}
    /\ WriterOf \in [Threads -> Writers]
    /\ Owns \in [Writers -> SUBSET Partitions]
    /\ PartitionOf \in [Rows -> Partitions]
    /\ EstBytes \in [Rows -> Nat]
    /\ Invalid \subseteq Rows
    /\ Unconvertible \subseteq Rows
    /\ MaxRows \in Nat \ {0}
    /\ MaxBytes \in Nat \ {0}
    /\ OldIndices \in [Partitions -> SUBSET Nat]
    /\ \A k \in Partitions : OldIndices[k] # {} =>
           \E top \in OldIndices[k] : \A i \in OldIndices[k] : i <= top

VARIABLES
    buffers,    \* buffers[w][k]: rows buffered; {} when _buffers has no k
    aged,       \* aged[w]: partitions whose oldest row reached max_age
    locked,     \* locked[w]: w._lock is held
    pc,         \* where a thread is
    call,       \* rows of the append_many call a thread is in
    todo,       \* rows of that call not yet in a buffer
    keys,       \* partitions a flush_all / flush_idle has still to flush
    flight,     \* rows popped from a buffer, not yet renamed into place
    target,     \* the partition they go to
    idx,        \* the part number chosen for them
    fd,         \* the name under which the file a thread writes is linked
    tmp,        \* tmp[k][i]: hidden file .part-i.parquet.tmp
    part        \* part[k][i]: file part-i.parquet

\* History, used by the properties only.
VARIABLES
    offered,    \* rows handed to append_many so far
    acked,      \* rows of calls that returned normally
    rejected,   \* rows of calls refused by validation
    lost,       \* rows popped by a flush that raised, or in memory at a crash
    swept       \* rows in the buffers when the flush_all of a thread began

memory  == <<buffers, aged, locked>>
local   == <<call, todo, keys>>
flush   == <<flight, target, idx, fd>>
disk    == <<tmp, part>>
history == <<offered, acked, rejected, lost, swept>>
vars    == <<memory, pc, local, flush, disk, history>>

-----------------------------------------------------------------------------
Flushing == {"scan", "open", "write", "replace"}

File == [rows : SUBSET Rows, state : {"partial", "complete", "garbled"},
         by : Threads]

\* The files of a directory, by part number.
IsDirectory(dir) == DOMAIN dir \subseteq Nat /\ dir \in [DOMAIN dir -> File]

Put(dir, i, f) == [j \in DOMAIN dir \cup {i} |-> IF j = i THEN f ELSE dir[j]]
Drop(dir, i) == [j \in DOMAIN dir \ {i} |-> dir[j]]

AnyThread == CHOOSE t \in Threads : TRUE
AnyPartition == CHOOSE k \in Partitions : TRUE

OldFile == [rows |-> {}, state |-> "complete", by |-> AnyThread]

\* MUTANT of Full: both comparisons strict.
FullTooLate(rows) ==
    \/ Cardinality(rows) > MaxRows
    \/ SumFunctionOnSet(EstBytes, rows) > MaxBytes

Full(rows) ==
    \/ Cardinality(rows) >= MaxRows
    \/ SumFunctionOnSet(EstBytes, rows) >= MaxBytes

\* MUTANT of NextPartIndex: the files are counted.
PartCount(k) == Cardinality(DOMAIN part[k])

\* MUTANT of NextPartIndex: the largest number in use, -1 if none is.
LastPartIndex(k) ==
    LET used == DOMAIN part[k]
    IN  CHOOSE n \in {-1} \cup used : \A i \in used : i <= n

\* _next_part_index: one more than the largest number in use, 0 if none is.
NextPartIndex(k) ==
    LET used == DOMAIN part[k]
    IN  CHOOSE n \in {0} \cup {i + 1 : i \in used} : \A i \in used : i < n

BufferedKeys(w) == {k \in Partitions : buffers[w][k] # {}}

\* The rows of thread t's call that append_many grouped under partition k.
Group(t, k) == {r \in todo[t] : PartitionOf[r] = k}

Batches(t) ==
    {b \in SUBSET (Rows \ offered) :
        b # {} /\ \A r \in b : PartitionOf[r] \in Owns[WriterOf[t]]}

Init ==
    /\ buffers = [w \in Writers |-> [k \in Partitions |-> {}]]
    /\ aged = [w \in Writers |-> {}]
    /\ locked = [w \in Writers |-> FALSE]
    /\ pc = [t \in Threads |-> "idle"]
    /\ call = [t \in Threads |-> {}]
    /\ todo = [t \in Threads |-> {}]
    /\ keys = [t \in Threads |-> {}]
    /\ flight = [t \in Threads |-> {}]
    /\ target = [t \in Threads |-> AnyPartition]
    /\ idx = [t \in Threads |-> 0]
    /\ fd = [t \in Threads |-> "closed"]
    /\ tmp = [k \in Partitions |-> [i \in {} |-> OldFile]]
    /\ part = [k \in Partitions |-> [i \in OldIndices[k] |-> OldFile]]
    /\ offered = {} /\ acked = {} /\ rejected = {} /\ lost = {}
    /\ swept = [t \in Threads |-> {}]

\* MUTANT of Release: no try/finally, a flush that raises keeps the lock.
ReleaseOnReturn(t) ==
    locked' = IF pc[t] \in Flushing THEN locked
              ELSE [locked EXCEPT ![WriterOf[t]] = FALSE]

Acquire(t) ==
    /\ ~locked[WriterOf[t]]
    /\ locked' = [locked EXCEPT ![WriterOf[t]] = TRUE]

Release(t) == locked' = [locked EXCEPT ![WriterOf[t]] = FALSE]

-----------------------------------------------------------------------------
(* append_many *)

\* MUTANT of AppendRejected: rows are buffered as they are validated.
AppendRejectedHalfway(t, batch) ==
    LET kept(k) == {r \in batch \ Invalid : PartitionOf[r] = k}
    IN  /\ pc[t] = "idle"
        /\ ~locked[WriterOf[t]]
        /\ batch \cap Invalid # {}
        /\ buffers' = [buffers EXCEPT ![WriterOf[t]] =
                          [k \in Partitions |-> @[k] \cup kept(k)]]
        /\ offered' = offered \cup batch
        /\ rejected' = rejected \cup batch
        /\ UNCHANGED <<aged, locked, pc, local, flush, disk, acked, lost, swept>>

\* Validation fails while the rows are being grouped, before the lock.
AppendRejected(t, batch) ==
    /\ pc[t] = "idle"
    /\ batch \cap Invalid # {}
    /\ offered' = offered \cup batch
    /\ rejected' = rejected \cup batch
    /\ UNCHANGED <<memory, pc, local, flush, disk, acked, lost, swept>>

\* The rows are grouped and the lock acquired.
AppendMany(t, batch) ==
    /\ pc[t] = "idle"
    /\ batch \cap Invalid = {}
    /\ Acquire(t)
    /\ pc' = [pc EXCEPT ![t] = "append"]
    /\ call' = [call EXCEPT ![t] = batch]
    /\ todo' = [todo EXCEPT ![t] = batch]
    /\ offered' = offered \cup batch
    /\ UNCHANGED <<buffers, aged, keys, flush, disk, acked, rejected, lost, swept>>

\* One group goes to its buffer, which stays below every threshold.
AppendBuffered(t, k) ==
    LET w == WriterOf[t]
        rows == buffers[w][k] \cup Group(t, k)
    IN  /\ pc[t] = "append"
        /\ Group(t, k) # {}
        /\ ~Full(rows) /\ k \notin aged[w]
        /\ buffers' = [buffers EXCEPT ![w][k] = rows]
        /\ todo' = [todo EXCEPT ![t] = @ \ Group(t, k)]
        /\ UNCHANGED <<aged, locked, pc, call, keys, flush, disk, history>>

\* MUTANT of PopBuffer: get in place of pop.
GetBuffer(t, k, rows) ==
    /\ buffers' = [buffers EXCEPT ![WriterOf[t]][k] = rows]
    /\ aged' = [aged EXCEPT ![WriterOf[t]] = @ \ {k}]
    /\ flight' = [flight EXCEPT ![t] = rows]
    /\ target' = [target EXCEPT ![t] = k]
    /\ pc' = [pc EXCEPT ![t] = "scan"]

\* _flush_locked pops the buffer before anything can fail.
PopBuffer(t, k, rows) ==
    /\ buffers' = [buffers EXCEPT ![WriterOf[t]][k] = {}]
    /\ aged' = [aged EXCEPT ![WriterOf[t]] = @ \ {k}]
    /\ flight' = [flight EXCEPT ![t] = rows]
    /\ target' = [target EXCEPT ![t] = k]
    /\ pc' = [pc EXCEPT ![t] = "scan"]

\* MUTANT of AppendFlushes: the rows buffered before are not written.
AppendFlushesGroup(t, k) ==
    LET w == WriterOf[t]
    IN  /\ pc[t] = "append"
        /\ Group(t, k) # {}
        /\ Full(buffers[w][k] \cup Group(t, k)) \/ k \in aged[w]
        /\ PopBuffer(t, k, Group(t, k))
        /\ todo' = [todo EXCEPT ![t] = @ \ Group(t, k)]
        /\ UNCHANGED <<locked, call, keys, idx, fd, disk, history>>

\* One group goes to its buffer and a threshold is reached: flush it.
AppendFlushes(t, k) ==
    LET w == WriterOf[t]
        rows == buffers[w][k] \cup Group(t, k)
    IN  /\ pc[t] = "append"
        /\ Group(t, k) # {}
        /\ Full(rows) \/ k \in aged[w]
        /\ PopBuffer(t, k, rows)
        /\ todo' = [todo EXCEPT ![t] = @ \ Group(t, k)]
        /\ UNCHANGED <<locked, call, keys, idx, fd, disk, history>>

AppendReturns(t) ==
    /\ pc[t] = "append"
    /\ todo[t] = {}
    /\ acked' = acked \cup call[t]
    /\ call' = [call EXCEPT ![t] = {}]
    /\ pc' = [pc EXCEPT ![t] = "idle"]
    /\ Release(t)
    /\ UNCHANGED <<buffers, aged, todo, keys, flush, disk, offered, rejected,
                   lost, swept>>

-----------------------------------------------------------------------------
(* flush_all, flush_idle: the keys are listed once, under the lock *)

BeginSweep(t, ks) ==
    /\ pc[t] = "idle"
    /\ Acquire(t)
    /\ pc' = [pc EXCEPT ![t] = "sweep"]
    /\ keys' = [keys EXCEPT ![t] = ks]
    /\ UNCHANGED <<buffers, aged, call, todo, flush, disk,
                   offered, acked, rejected, lost>>

\* MUTANT of FlushAll: only what is old enough is flushed.
FlushAllIdle(t) ==
    /\ BeginSweep(t, aged[WriterOf[t]])
    /\ swept' = [swept EXCEPT ![t] = UNION Range(buffers[WriterOf[t]])]

FlushAll(t) ==
    /\ BeginSweep(t, BufferedKeys(WriterOf[t]))
    /\ swept' = [swept EXCEPT ![t] = UNION Range(buffers[WriterOf[t]])]

\* MUTANT of FlushIdle: a buffer must be old and full.
FlushIdleFull(t) ==
    /\ BeginSweep(t, {k \in aged[WriterOf[t]] : Full(buffers[WriterOf[t]][k])})
    /\ UNCHANGED swept

FlushIdle(t) ==
    /\ BeginSweep(t, aged[WriterOf[t]])
    /\ UNCHANGED swept

SweepNext(t, k) ==
    /\ pc[t] = "sweep"
    /\ k \in keys[t]
    /\ PopBuffer(t, k, buffers[WriterOf[t]][k])
    /\ keys' = [keys EXCEPT ![t] = @ \ {k}]
    /\ UNCHANGED <<locked, call, todo, idx, fd, disk, history>>

SweepReturns(t) ==
    /\ pc[t] = "sweep"
    /\ keys[t] = {}
    /\ pc' = [pc EXCEPT ![t] = "idle"]
    /\ Release(t)
    /\ swept' = [swept EXCEPT ![t] = {}]
    /\ UNCHANGED <<buffers, aged, local, flush, disk,
                   offered, acked, rejected, lost>>

-----------------------------------------------------------------------------
(* _flush_locked, after the pop *)

\* The rows convert to a table, and the directory is scanned for a number.
ScanParts(t) ==
    /\ pc[t] = "scan"
    /\ flight[t] \cap Unconvertible = {}
    /\ idx' = [idx EXCEPT ![t] = NextPartIndex(target[t])]
    /\ pc' = [pc EXCEPT ![t] = "open"]
    /\ UNCHANGED <<memory, local, flight, target, fd, disk, history>>

\* MUTANT of OpenTmp: the part is written under its final name.
OpenPart(t) ==
    /\ pc[t] = "open"
    /\ part' = [part EXCEPT ![target[t]] =
                   Put(@, idx[t], [rows |-> {}, state |-> "partial", by |-> t])]
    /\ fd' = [fd EXCEPT ![t] = "part"]
    /\ pc' = [pc EXCEPT ![t] = "write"]
    /\ UNCHANGED <<memory, local, flight, target, idx, tmp, history>>

\* pq.write_table opens the temporary file: created, or truncated if the
\* name exists (a crash left it, or another instance is writing it).
OpenTmp(t) ==
    /\ pc[t] = "open"
    /\ tmp' = [tmp EXCEPT ![target[t]] =
                  Put(@, idx[t], [rows |-> {}, state |-> "partial", by |-> t])]
    /\ fd' = [fd EXCEPT ![t] = "tmp"]
    /\ pc' = [pc EXCEPT ![t] = "write"]
    /\ UNCHANGED <<memory, local, flight, target, idx, part, history>>

\* t's bytes in a file truncated after t opened it leave no valid file.
Written(f, t) ==
    IF f.by = t /\ f.state = "partial"
    THEN [rows |-> flight[t], state |-> "complete", by |-> t]
    ELSE [f EXCEPT !.state = "garbled"]

\* pq.write_table writes and closes the file it opened, wherever it is now.
WriteTmp(t) ==
    LET k == target[t]
        i == idx[t]
    IN  /\ pc[t] = "write"
        /\ tmp' = IF fd[t] = "tmp"
                  THEN [tmp EXCEPT ![k] = Put(@, i, Written(@[i], t))] ELSE tmp
        /\ part' = IF fd[t] = "part"
                   THEN [part EXCEPT ![k] = Put(@, i, Written(@[i], t))] ELSE part
        /\ fd' = [fd EXCEPT ![t] = "closed"]
        /\ pc' = [pc EXCEPT ![t] = "replace"]
        /\ UNCHANGED <<memory, local, flight, target, idx, history>>

\* The open files of threads on the slot of t follow what happens to its names.
Relink(t, from, to) ==
    [u \in Threads |->
        IF u # t /\ target[u] = target[t] /\ idx[u] = idx[t] /\ fd[u] \in DOMAIN from
        THEN from[fd[u]] ELSE IF u = t THEN to ELSE fd[u]]

\* os.replace, and the loop that called _flush_locked goes on.
ReplaceTmp(t) ==
    LET k == target[t]
        i == idx[t]
    IN  /\ pc[t] = "replace"
        /\ i \in DOMAIN tmp[k]
        /\ part' = [part EXCEPT ![k] = Put(@, i, tmp[k][i])]
        /\ tmp' = [tmp EXCEPT ![k] = Drop(@, i)]
        /\ fd' = Relink(t, [tmp |-> "part", part |-> "unlinked"], "closed")
        /\ flight' = [flight EXCEPT ![t] = {}]
        /\ idx' = [idx EXCEPT ![t] = 0]
        /\ target' = [target EXCEPT ![t] = AnyPartition]
        /\ pc' = [pc EXCEPT ![t] = IF call[t] # {} THEN "append" ELSE "sweep"]
        /\ UNCHANGED <<memory, local, history>>

\* What a thread keeps of a call that ended in an exception: nothing.
Forget(T) ==
    /\ pc' = [t \in Threads |-> IF t \in T THEN "idle" ELSE pc[t]]
    /\ call' = [t \in Threads |-> IF t \in T THEN {} ELSE call[t]]
    /\ todo' = [t \in Threads |-> IF t \in T THEN {} ELSE todo[t]]
    /\ keys' = [t \in Threads |-> IF t \in T THEN {} ELSE keys[t]]
    /\ flight' = [t \in Threads |-> IF t \in T THEN {} ELSE flight[t]]
    /\ target' = [t \in Threads |-> IF t \in T THEN AnyPartition ELSE target[t]]
    /\ idx' = [t \in Threads |-> IF t \in T THEN 0 ELSE idx[t]]
    /\ swept' = [t \in Threads |-> IF t \in T THEN {} ELSE swept[t]]

\* The conversion, mkdir, the scan, the write or the rename raises: the
\* exception leaves append_many or the sweep through "with self._lock".  A
\* write_table that fails in opening or writing its file may remove what is under
\* the name, whoever wrote it, or leave it.
FlushRaises(t) ==
    LET k == target[t]
        i == idx[t]
    IN  /\ pc[t] \in Flushing
        /\ lost' = lost \cup flight[t]
        /\ Release(t)
        /\ Forget({t})
        /\ \/ /\ fd' = [fd EXCEPT ![t] = "closed"]
              /\ UNCHANGED tmp
           \/ /\ pc[t] \in {"open", "write"}
              /\ tmp' = [tmp EXCEPT ![k] = Drop(@, i)]
              /\ fd' = Relink(t, [tmp |-> "unlinked"], "closed")
        /\ UNCHANGED <<buffers, aged, part, offered, acked, rejected>>

-----------------------------------------------------------------------------
(* The clock and the process *)

\* time.monotonic() - opened_at reaches max_age_seconds.
Age(w, k) ==
    /\ buffers[w][k] # {}
    /\ k \notin aged[w]
    /\ aged' = [aged EXCEPT ![w] = @ \cup {k}]
    /\ UNCHANGED <<buffers, locked, pc, local, flush, disk, history>>

InMemory(w) ==
    (UNION {buffers[w][k] : k \in Partitions})
        \cup (UNION {flight[t] : t \in {u \in Threads : WriterOf[u] = w}})

\* The process that holds w dies; a new instance starts with no buffer.
Crash(w) ==
    LET T == {t \in Threads : WriterOf[t] = w}
    IN  /\ lost' = lost \cup InMemory(w)
        /\ buffers' = [buffers EXCEPT ![w] = [k \in Partitions |-> {}]]
        /\ aged' = [aged EXCEPT ![w] = {}]
        /\ locked' = [locked EXCEPT ![w] = FALSE]
        /\ Forget(T)
        /\ fd' = [t \in Threads |-> IF t \in T THEN "closed" ELSE fd[t]]
        /\ UNCHANGED <<disk, offered, acked, rejected>>

-----------------------------------------------------------------------------
\* What a thread inside a call does next.
Step(t) ==
    \/ \E k \in Partitions :
           AppendBuffered(t, k) \/ AppendFlushes(t, k) \/ SweepNext(t, k)
    \/ AppendReturns(t) \/ SweepReturns(t)
    \/ ScanParts(t) \/ OpenTmp(t) \/ WriteTmp(t) \/ ReplaceTmp(t)
    \/ FlushRaises(t)

Call(t) ==
    \/ \E batch \in Batches(t) : AppendMany(t, batch) \/ AppendRejected(t, batch)
    \/ FlushAll(t)
    \/ FlushIdle(t)

Next ==
    \/ \E t \in Threads : Call(t) \/ Step(t)
    \/ \E w \in Writers : Crash(w) \/ \E k \in Partitions : Age(w, k)

Spec == Init /\ [][Next]_vars

\* Threads are scheduled, time passes, and "call periodically" of flush_idle
\* is honoured: the caller gets the lock infinitely often if it is free
\* infinitely often.
Fairness ==
    /\ \A t \in Threads : WF_vars(Step(t))
    /\ \A w \in Writers :
          /\ \A k \in Partitions : WF_vars(Age(w, k))
          /\ SF_vars(\E t \in Threads : WriterOf[t] = w /\ FlushIdle(t))

FairSpec == Spec /\ Fairness
-----------------------------------------------------------------------------
(* Properties *)

Buffered == UNION {UNION Range(buffers[w]) : w \in Writers}
InFlight == UNION Range(flight)
RowsOf(k) == UNION {part[k][i].rows : i \in
                        {j \in DOMAIN part[k] : part[k][j].state = "complete"}}
Visible == UNION {RowsOf(k) : k \in Partitions}

FdStates == {"closed", "tmp", "part", "unlinked"}

MemoryOK ==
    /\ buffers \in [Writers -> [Partitions -> SUBSET Rows]]
    /\ aged \in [Writers -> SUBSET Partitions]
    /\ locked \in [Writers -> BOOLEAN]

ThreadsOK ==
    /\ pc \in [Threads -> {"idle", "append", "sweep"} \cup Flushing]
    /\ call \in [Threads -> SUBSET Rows]
    /\ todo \in [Threads -> SUBSET Rows]
    /\ keys \in [Threads -> SUBSET Partitions]

FlushOK ==
    /\ flight \in [Threads -> SUBSET Rows]
    /\ target \in [Threads -> Partitions]
    /\ idx \in [Threads -> Nat]
    /\ fd \in [Threads -> FdStates]

DiskOK ==
    /\ DOMAIN tmp = Partitions /\ DOMAIN part = Partitions
    /\ \A k \in Partitions : IsDirectory(tmp[k]) /\ IsDirectory(part[k])

HistoryOK ==
    /\ offered \in SUBSET Rows /\ acked \in SUBSET Rows
    /\ rejected \in SUBSET Rows /\ lost \in SUBSET Rows
    /\ swept \in [Threads -> SUBSET Rows]

TypeOK == MemoryOK /\ ThreadsOK /\ FlushOK /\ DiskOK /\ HistoryOK

\* "A reader never sees a half-written file" (writer.py:10): every file under
\* a part name is complete, whatever flush is in progress, failed or crashed.
PublishedIsComplete ==
    \A k \in Partitions : \A i \in DOMAIN part[k] :
        part[k][i].state = "complete"

\* Rows of an append_many that returned are in a buffer, in a flush under way
\* or in a part; else a flush that raised or a crash took them.  None is
\* overwritten by a later part and none is dropped silently.
AckedRowsAccounted == acked \subseteq Buffered \cup InFlight \cup Visible \cup lost

\* Every row has one place: it is never flushed into two parts, and a row a
\* failed flush lost is not also in a buffer or a part.
RowInOnePlace ==
    \A r \in Rows :
        /\ r \in Buffered => r \notin InFlight \cup Visible \cup lost
        /\ r \in InFlight => r \notin Visible \cup lost
        /\ r \in Visible => r \notin lost
        /\ \A k, l \in Partitions :
              \A i \in DOMAIN part[k], j \in DOMAIN part[l] :
                  r \in part[k][i].rows \cap part[l][j].rows => k = l /\ i = j

\* A part is never changed, overwritten or removed: what a query has read it
\* reads again.
PartsImmutable ==
    [][\A k \in Partitions : \A i \in DOMAIN part[k] :
           i \in DOMAIN part'[k] /\ part'[k][i] = part[k][i]]_vars

\* Whenever the lock is free no buffer has reached max_rows or max_bytes, also
\* after a flush that raised in the middle of a call over several partitions.
BuffersBelowThresholds ==
    \A w \in Writers : ~locked[w] =>
        \A k \in Partitions : buffers[w][k] # {} =>
            /\ ~(Cardinality(buffers[w][k]) >= MaxRows)
            /\ ~(SumFunctionOnSet(EstBytes, buffers[w][k]) >= MaxBytes)

\* A call refused by validation leaves no row of its batch behind, the valid
\* ones that precede the offending row included.
RejectedLeaveNoTrace ==
    rejected \cap (Buffered \cup InFlight \cup Visible \cup acked) = {}

\* flush_all that returns has published every row that was buffered when it
\* took the lock ("call on shutdown / at the end of a build").
FlushAllPublishes ==
    [][\A t \in Threads : SweepReturns(t) => swept[t] \subseteq Visible]_vars

\* No flush, successful or not, leaves the lock held for good.
LockIsReleased == \A w \in Writers : locked[w] ~> ~locked[w]

\* With flush_idle called periodically every buffered row is published or
\* lost to a reported failure: no row waits for ever in a quiet partition.
BufferedRowsSettle ==
    \A r \in Rows : r \in Buffered ~> r \in Visible \cup lost

\* The writer implements DurableRows: rows are accepted once, then published
\* for good or lost.
Durable == INSTANCE DurableRows WITH
    pending <- Buffered \cup InFlight, published <- Visible, lost <- lost
DurableSpec == Durable!Spec
=============================================================================
