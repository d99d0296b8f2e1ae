---------------------- MODULE ParquetWriterRows_proofs ----------------------
(***************************************************************************)
(* Theorems about the rows of ParquetWriter: where a row handed to         *)
(* append_many can be, for any number of instances, threads, partitions    *)
(* and rows, when no partition is written by two instances.                *)
(***************************************************************************)
EXTENDS ParquetWriter_proofs

\* Rows of calls under way that no buffer holds yet.
Waiting == UNION Range(todo)

\* Where the row of an append_many that got the lock can be.
Kept == Buffered \cup InFlight \cup Visible \cup lost

\* A row stays with its partition: in the buffer, the flush and the parts of it.
Located ==
    /\ \A w \in Writers : \A k \in Partitions : \A r \in buffers[w][k] :
          PartitionOf[r] = k
    /\ \A t \in Threads : \A r \in flight[t] : PartitionOf[r] = target[t]
    /\ \A k \in Partitions : \A i \in DOMAIN part[k] : \A r \in part[k][i].rows :
          PartitionOf[r] = k

\* Only a thread inside append_many has rows of a call, only a flush has rows
\* in flight.
Busy ==
    \A t \in Threads :
        /\ todo[t] \subseteq call[t]
        /\ call[t] # {} => pc[t] \in {"append"} \cup Flushing
        /\ flight[t] # {} => pc[t] \in Flushing

\* The places a row can be exclude each other, and a row never offered is in
\* none of them.
Apart ==
    /\ Waiting \cap (Kept \cup rejected) = {}
    /\ Buffered \cap (InFlight \cup Visible \cup lost \cup rejected) = {}
    /\ InFlight \cap (Visible \cup lost \cup rejected) = {}
    /\ Visible \cap (lost \cup rejected) = {}
    /\ lost \cap rejected = {}
    /\ Waiting \cup Kept \cup rejected \subseteq offered

\* No row is in two parts.
PartsApart ==
    \A r \in Rows : \A k, l \in Partitions :
        \A i \in DOMAIN part[k], j \in DOMAIN part[l] :
            r \in part[k][i].rows \cap part[l][j].rows => k = l /\ i = j

\* What a call has taken in, and what it has returned for, is kept.
CallsKept ==
    /\ acked \subseteq Kept
    /\ \A t \in Threads : call[t] \subseteq Kept \cup todo[t]

RowsInv == WriterInv /\ Located /\ Busy /\ Apart /\ PartsApart /\ CallsKept
-----------------------------------------------------------------------------
(* Membership in the unions *)

LEMMA InBuffers ==
    ASSUME NEW bs \in [Writers -> [Partitions -> SUBSET Rows]]
    PROVE  \A r : r \in UNION {UNION Range(bs[w]) : w \in Writers} <=>
                  \E w \in Writers : \E k \in Partitions : r \in bs[w][k]
BY DEF Range

LEMMA InThreads ==
    ASSUME NEW f \in [Threads -> SUBSET Rows]
    PROVE  \A r : r \in UNION Range(f) <=> \E t \in Threads : r \in f[t]
BY DEF Range

LEMMA InParts ==
    ASSUME PublishedIsComplete
    PROVE  \A r : r \in Visible <=>
                  \E k \in Partitions : \E i \in DOMAIN part[k] :
                      r \in part[k][i].rows
BY DEF Visible, RowsOf, PublishedIsComplete

LEMMA InPartsNext ==
    ASSUME PublishedIsComplete'
    PROVE  \A r : r \in Visible' <=>
                  \E k \in Partitions : \E i \in DOMAIN part'[k] :
                      r \in part'[k][i].rows
BY DEF Visible, RowsOf, PublishedIsComplete

-----------------------------------------------------------------------------
(* Where rows are: partitions and threads *)

LEMMA NextLocated ==
    ASSUME OwnsDisjoint, WriterInv, Located, [Next]_vars
    PROVE  Located'
<1> USE WriterConstants DEF WriterInv, TypeInv, TypeOK, MemoryOK, ThreadsOK, FlushOK, DiskOK
<1>1. ASSUME UNCHANGED buffers, UNCHANGED part,
             \A t \in Threads : \/ flight'[t] = {}
                                \/ flight'[t] = flight[t] /\ target'[t] = target[t]
      PROVE  Located'
  BY <1>1 DEF Located
<1>2. ASSUME NEW t \in Threads, NEW k \in Partitions,
             AppendBuffered(t, k) \/ AppendFlushes(t, k) \/ SweepNext(t, k)
      PROVE  Located'
  <2> DEFINE w == WriterOf[t]
             rows == buffers[w][k] \cup Group(t, k)
  <2>1. w \in Writers /\ \A r \in rows : PartitionOf[r] = k
    BY DEF Located, Group
  <2>2. CASE AppendBuffered(t, k)
    <3>1. buffers' = [buffers EXCEPT ![w][k] = rows] /\ UNCHANGED <<part, flight, target>>
      BY <2>2 DEF AppendBuffered, disk, flush
    <3> QED BY <2>1, <3>1 DEF Located
  <2>3. CASE AppendFlushes(t, k) \/ SweepNext(t, k)
    <3>1. PICK out \in SUBSET rows :
              /\ buffers' = [buffers EXCEPT ![w][k] = {}]
              /\ flight' = [flight EXCEPT ![t] = out]
              /\ target' = [target EXCEPT ![t] = k] /\ UNCHANGED part
      BY <2>3 DEF AppendFlushes, SweepNext, PopBuffer, disk
    <3> QED BY <2>1, <3>1 DEF Located
  <2> QED BY <1>2, <2>2, <2>3
<1>3. ASSUME NEW t \in Threads, ReplaceTmp(t) PROVE Located'
  <2> DEFINE k == target[t]
             i == idx[t]
             new == Put(part[k], i, tmp[k][i])
  <2>1. k \in Partitions /\ tmp[k][i].rows = flight[t] /\ IsDirectory(part[k])
    <3>1. tmp[k][i] = Complete(t)
      BY <1>3 DEF ReplaceTmp, Slots, Slot
    <3> QED BY <3>1 DEF Complete
  <2>2. /\ part' = [part EXCEPT ![k] = new]
        /\ buffers' = buffers
        /\ \A u \in Threads : \/ flight'[u] = {}
                              \/ flight'[u] = flight[u] /\ target'[u] = target[u]
    BY <1>3 DEF ReplaceTmp, memory
  <2>3. \A j \in DOMAIN new : \A r \in new[j].rows : PartitionOf[r] = k
    BY <2>1 DEF Located, Put
  <2>4. part'[k] = new /\ \A l \in Partitions \ {k} : part'[l] = part[l]
    BY <2>1, <2>2
  <2>5. \A l \in Partitions : \A j \in DOMAIN part'[l] : \A r \in part'[l][j].rows :
            PartitionOf[r] = l
    <3> SUFFICES ASSUME NEW l \in Partitions, NEW j \in DOMAIN part'[l],
                        NEW r \in part'[l][j].rows
                 PROVE  PartitionOf[r] = l
      OBVIOUS
    <3>1. CASE l = k
      BY <2>3, <2>4, <3>1
    <3>2. CASE l # k
      <4>1. part'[l] = part[l]
        BY <2>4, <3>2
      <4> QED BY <4>1 DEF Located
    <3> QED BY <3>1, <3>2
  <2> QED BY <2>2, <2>5 DEF Located
<1>4. ASSUME NEW t \in Threads, WriteTmp(t) PROVE Located'
  <2>1. fd[t] = "tmp"
    BY <1>4 DEF WriteTmp, Slots, Slot
  <2> QED BY <1>1, <1>4, <2>1 DEF WriteTmp, memory
<1>5. ASSUME NEW t \in Threads, Step(t) PROVE Located'
  <2>1. CASE AppendReturns(t) \/ SweepReturns(t) \/ ScanParts(t) \/ OpenTmp(t)
    BY <1>1, <2>1 DEF AppendReturns, SweepReturns, ScanParts, OpenTmp, memory,
                      flush, disk
  <2>2. CASE FlushRaises(t)
    BY <1>1, <2>2 DEF FlushRaises, Forget
  <2> QED BY <1>2, <1>3, <1>4, <1>5, <2>1, <2>2 DEF Step
<1>6. ASSUME NEW t \in Threads, Call(t) PROVE Located'
  BY <1>1, <1>6 DEF Call, AppendMany, AppendRejected, FlushAll, FlushIdle,
                    BeginSweep, memory, flush, disk
<1>7. ASSUME NEW w \in Writers, Crash(w) PROVE Located'
  <2>1. /\ buffers' = [buffers EXCEPT ![w] = [k \in Partitions |-> {}]]
        /\ part' = part
        /\ \A t \in Threads : \/ flight'[t] = {}
                              \/ flight'[t] = flight[t] /\ target'[t] = target[t]
    BY <1>7 DEF Crash, Forget, disk
  <2> QED BY <2>1 DEF Located
<1>8. ASSUME NEW w \in Writers, NEW k \in Partitions, Age(w, k) PROVE Located'
  BY <1>1, <1>8 DEF Age, flush, disk
<1>9. CASE UNCHANGED vars
  BY <1>1, <1>9 DEF vars, memory, flush, disk
<1> QED BY <1>5, <1>6, <1>7, <1>8, <1>9 DEF Next

LEMMA NextBusy ==
    ASSUME TypeInv, Busy, [Next]_vars
    PROVE  Busy'
<1> USE WriterConstants DEF TypeInv, TypeOK, MemoryOK, ThreadsOK, FlushOK, Busy, Flushing
<1>1. ASSUME NEW t \in Threads, Call(t) PROVE Busy'
  <2>1. CASE \E batch \in Batches(t) : AppendRejected(t, batch)
    BY <2>1 DEF AppendRejected, local, flush
  <2>2. CASE \E batch \in Batches(t) : AppendMany(t, batch)
    BY <2>2 DEF AppendMany, flush
  <2>3. CASE FlushAll(t) \/ FlushIdle(t)
    BY <2>3 DEF FlushAll, FlushIdle, BeginSweep, flush
  <2> QED BY <1>1, <2>1, <2>2, <2>3 DEF Call
<1>2. ASSUME NEW t \in Threads, Step(t) PROVE Busy'
  <2>1. ASSUME NEW k \in Partitions, AppendBuffered(t, k) PROVE Busy'
    BY <2>1 DEF AppendBuffered, flush
  <2>2. ASSUME NEW k \in Partitions, AppendFlushes(t, k) PROVE Busy'
    BY <2>2 DEF AppendFlushes, PopBuffer
  <2>3. ASSUME NEW k \in Partitions, SweepNext(t, k) PROVE Busy'
    BY <2>3 DEF SweepNext, PopBuffer
  <2>4. CASE AppendReturns(t) \/ SweepReturns(t)
    BY <2>4 DEF AppendReturns, SweepReturns, local, flush
  <2>5. CASE ScanParts(t) \/ OpenTmp(t) \/ WriteTmp(t)
    BY <2>5 DEF ScanParts, OpenTmp, WriteTmp, local
  <2>6. CASE ReplaceTmp(t)
    BY <2>6 DEF ReplaceTmp, local
  <2>7. CASE FlushRaises(t)
    BY <2>7 DEF FlushRaises, Forget
  <2> QED BY <1>2, <2>1, <2>2, <2>3, <2>4, <2>5, <2>6, <2>7 DEF Step
<1>3. ASSUME NEW w \in Writers, Crash(w) PROVE Busy'
  BY <1>3 DEF Crash, Forget
<1>4. ASSUME NEW w \in Writers, NEW k \in Partitions, Age(w, k) PROVE Busy'
  BY <1>4 DEF Age, local, flush
<1>5. CASE UNCHANGED vars
  BY <1>5 DEF vars, local, flush
<1> QED BY <1>1, <1>2, <1>3, <1>4, <1>5 DEF Next

-----------------------------------------------------------------------------
(* The steps that move rows *)

\* A buffer is the only place of its rows among the buffers.
LEMMA EmptiedBuffer ==
    ASSUME WriterInv, Located, OwnsDisjoint, NEW w \in Writers, NEW k \in Partitions,
           buffers' = [buffers EXCEPT ![w][k] = {}]
    PROVE  buffers[w][k] \subseteq Buffered /\ Buffered' = Buffered \ buffers[w][k]
<1> USE DEF WriterInv, TypeInv, TypeOK, MemoryOK
<1>1. buffers' \in [Writers -> [Partitions -> SUBSET Rows]]
  OBVIOUS
<1>2. \A r : r \in Buffered <=>
             \E v \in Writers : \E l \in Partitions : r \in buffers[v][l]
  BY InBuffers DEF Buffered
<1>3. \A r : r \in Buffered' <=>
             \E v \in Writers : \E l \in Partitions : r \in buffers'[v][l]
  BY <1>1, InBuffers DEF Buffered
<1>4. \A v \in Writers : \A l \in Partitions :
          v # w \/ l # k => /\ buffers'[v][l] = buffers[v][l]
                            /\ buffers[v][l] \cap buffers[w][k] = {}
  BY DEF Located, Ownership, OwnsDisjoint
<1>5. buffers'[w][k] = {}
  OBVIOUS
<1> QED BY <1>2, <1>3, <1>4, <1>5

LEMMA GrownBuffer ==
    ASSUME TypeOK, NEW w \in Writers, NEW k \in Partitions, NEW rows \in SUBSET Rows,
           buffers' = [buffers EXCEPT ![w][k] = @ \cup rows]
    PROVE  Buffered' = Buffered \cup rows
<1> USE DEF TypeOK, MemoryOK
<1>1. buffers' \in [Writers -> [Partitions -> SUBSET Rows]]
  OBVIOUS
<1>2. \A r : r \in Buffered <=>
             \E v \in Writers : \E l \in Partitions : r \in buffers[v][l]
  BY InBuffers DEF Buffered
<1>3. \A r : r \in Buffered' <=>
             \E v \in Writers : \E l \in Partitions : r \in buffers'[v][l]
  BY <1>1, InBuffers DEF Buffered
<1>4. \A v \in Writers : \A l \in Partitions :
          buffers'[v][l] = IF v = w /\ l = k THEN buffers[v][l] \cup rows
                           ELSE buffers[v][l]
  OBVIOUS
<1> QED BY <1>2, <1>3, <1>4

\* The rows of a call are waiting in one thread: no other is in append_many
\* with rows for the same partitions.
LEMMA TakenGroup ==
    ASSUME WriterInv, Busy, OwnsDisjoint, NEW t \in Threads, NEW k \in Partitions,
           todo' = [todo EXCEPT ![t] = @ \ Group(t, k)]
    PROVE  /\ Group(t, k) \subseteq Waiting /\ Waiting' = Waiting \ Group(t, k)
           /\ Group(t, k) \in SUBSET Rows
<1> USE DEF WriterInv, TypeInv, TypeOK, ThreadsOK
<1>1. todo' \in [Threads -> SUBSET Rows] /\ Group(t, k) \in SUBSET Rows
      /\ Group(t, k) \subseteq todo[t]
  BY DEF Group
<1>2. \A r : r \in Waiting <=> \E u \in Threads : r \in todo[u]
  BY InThreads DEF Waiting
<1>3. \A r : r \in Waiting' <=> \E u \in Threads : r \in todo'[u]
  BY <1>1, InThreads DEF Waiting
<1>4. ASSUME NEW u \in Threads, u # t
      PROVE  todo'[u] = todo[u] /\ todo[u] \cap Group(t, k) = {}
  <2>1. ASSUME NEW r \in todo[u], r \in todo[t] PROVE FALSE
    <3>1. WriterOf[t] = WriterOf[u]
      <4>1. WriterOf[t] \in Writers /\ WriterOf[u] \in Writers
        BY WriterConstants
      <4>2. PartitionOf[r] \in Owns[WriterOf[t]] \cap Owns[WriterOf[u]]
        BY <2>1 DEF Ownership
      <4> QED BY <4>1, <4>2 DEF OwnsDisjoint
    <3>2. pc[t] # "idle" /\ pc[u] # "idle"
      BY <2>1 DEF Busy, Flushing
    <3> QED BY <1>4, <3>1, <3>2 DEF Mutex
  <2> QED BY <1>1, <1>4, <2>1
<1>5. todo'[t] = todo[t] \ Group(t, k)
  OBVIOUS
<1> QED BY <1>1, <1>2, <1>3, <1>4, <1>5

\* The rows of a flush that ended are in flight no more.
LEMMA LandedFlight ==
    ASSUME WriterInv, Located, Busy, OwnsDisjoint, NEW t \in Threads,
           flight' = [flight EXCEPT ![t] = {}]
    PROVE  flight[t] \subseteq InFlight /\ InFlight' = InFlight \ flight[t]
<1> USE DEF WriterInv, TypeInv, TypeOK, FlushOK
<1>1. flight' \in [Threads -> SUBSET Rows]
  OBVIOUS
<1>2. \A r : r \in InFlight <=> \E u \in Threads : r \in flight[u]
  BY InThreads DEF InFlight
<1>3. \A r : r \in InFlight' <=> \E u \in Threads : r \in flight'[u]
  BY <1>1, InThreads DEF InFlight
<1>4. ASSUME NEW u \in Threads, u # t
      PROVE  flight'[u] = flight[u] /\ flight[u] \cap flight[t] = {}
  <2>1. ASSUME NEW r \in flight[u], r \in flight[t] PROVE FALSE
    <3>1. pc[t] \in Flushing /\ pc[u] \in Flushing
      BY <2>1 DEF Busy
    <3>2. target[t] # target[u]
      BY <1>4, <3>1, TargetsDiffer
    <3> QED BY <2>1, <3>2 DEF Located
  <2> QED BY <1>4, <2>1
<1>5. flight'[t] = {}
  OBVIOUS
<1> QED BY <1>2, <1>3, <1>4, <1>5

\* A popped buffer is in flight.
LEMMA TakenFlight ==
    ASSUME TypeOK, NEW t \in Threads, NEW rows \in SUBSET Rows, flight[t] = {},
           flight' = [flight EXCEPT ![t] = rows]
    PROVE  InFlight' = InFlight \cup rows
<1> USE DEF TypeOK, FlushOK
<1>1. flight' \in [Threads -> SUBSET Rows]
  OBVIOUS
<1>2. \A r : r \in InFlight <=> \E u \in Threads : r \in flight[u]
  BY InThreads DEF InFlight
<1>3. \A r : r \in InFlight' <=> \E u \in Threads : r \in flight'[u]
  BY <1>1, InThreads DEF InFlight
<1>4. \A u \in Threads : flight'[u] = IF u = t THEN rows ELSE flight[u]
  OBVIOUS
<1> QED BY <1>2, <1>3, <1>4

-----------------------------------------------------------------------------
(* Every step keeps every row in one place, and none back *)

RowSets == <<Waiting, Buffered, InFlight, Visible, lost, rejected, offered>>

\* The rows that no longer wait, are kept or are published stay so.
Onwards ==
    /\ Visible \subseteq Visible'
    /\ lost \subseteq lost'
    /\ Buffered \cup InFlight \subseteq Kept'

\* What a step must show of the row sets.
RowsKept == Apart' /\ PartsApart' /\ CallsKept' /\ Onwards

\* Parts change when a flush ends only.
LEMMA SameParts ==
    ASSUME PartsApart, UNCHANGED part
    PROVE  Visible' = Visible /\ PartsApart'
BY DEF Visible, RowsOf, PartsApart

\* A step that moves no row, and takes new ones only to wait or to be refused.
LEMMA QuietRows ==
    ASSUME Apart, PartsApart, CallsKept, UNCHANGED <<buffers, flight, part, lost>>,
           NEW new, new \cap offered = {},
           Waiting' \subseteq Waiting \cup new,
           \/ rejected' = rejected
           \/ rejected' = rejected \cup new /\ Waiting' = Waiting,
           offered' = offered \cup new,
           \/ acked' = acked
           \/ \E u \in Threads : todo[u] = {} /\ acked' = acked \cup call[u],
           \A t \in Threads : \/ call'[t] \subseteq call[t] /\ todo'[t] = todo[t]
                              \/ call'[t] \subseteq todo'[t]
    PROVE  RowsKept
<1>1. Buffered' = Buffered /\ InFlight' = InFlight /\ lost' = lost
  BY DEF Buffered, InFlight
<1>2. Visible' = Visible /\ PartsApart'
  BY SameParts
<1>3. Kept' = Kept
  BY <1>1, <1>2 DEF Kept
<1>4. Apart'
  BY <1>1, <1>2, <1>3 DEF Apart, Kept
<1>5. CallsKept'
  BY <1>3 DEF CallsKept
<1>6. Onwards
  BY <1>1, <1>2 DEF Onwards, Kept
<1> QED BY <1>2, <1>4, <1>5, <1>6 DEF RowsKept

LEMMA BufferedRows ==
    ASSUME OwnsDisjoint, RowsInv, NEW t \in Threads, NEW k \in Partitions,
           AppendBuffered(t, k)
    PROVE  RowsKept
<1> USE DEF RowsInv, WriterInv, TypeInv
<1> DEFINE G == Group(t, k)
           w == WriterOf[t]
<1>1. w \in Writers
  BY WriterConstants
<1>2. /\ buffers' = [buffers EXCEPT ![w][k] = @ \cup G]
      /\ todo' = [todo EXCEPT ![t] = @ \ G]
      /\ UNCHANGED <<flight, part, lost, rejected, offered, acked, call>>
  BY DEF AppendBuffered, flush, disk, history
<1>3. G \subseteq Waiting /\ Waiting' = Waiting \ G /\ G \in SUBSET Rows
  BY <1>2, TakenGroup
<1>4. Buffered' = Buffered \cup G
  BY <1>1, <1>2, <1>3, GrownBuffer
<1>5. InFlight' = InFlight /\ Visible' = Visible /\ PartsApart'
  BY <1>2, SameParts DEF InFlight
<1>6. Kept' = Kept \cup G
  BY <1>2, <1>4, <1>5 DEF Kept
<1>7. Apart'
  BY <1>2, <1>3, <1>4, <1>5, <1>6 DEF Apart, Kept
<1>8. CallsKept'
  BY <1>2, <1>6 DEF CallsKept, TypeOK, ThreadsOK
<1>9. Onwards
  BY <1>2, <1>4, <1>5 DEF Onwards, Kept
<1> QED BY <1>5, <1>7, <1>8, <1>9 DEF RowsKept

LEMMA PoppedRows ==
    ASSUME OwnsDisjoint, RowsInv, NEW t \in Threads, NEW k \in Partitions,
           AppendFlushes(t, k) \/ SweepNext(t, k)
    PROVE  RowsKept
<1> USE DEF RowsInv, WriterInv, TypeInv
<1> DEFINE w == WriterOf[t]
           B == buffers[w][k]
<1>1. w \in Writers /\ B \in SUBSET Rows
  BY WriterConstants DEF TypeOK, MemoryOK
<1>2. /\ buffers' = [buffers EXCEPT ![w][k] = {}]
      /\ flight[t] = {}
      /\ UNCHANGED <<part, lost, rejected, offered, acked, call>>
  BY DEF AppendFlushes, SweepNext, PopBuffer, disk, history, Busy, Flushing
<1>3. PICK G \in SUBSET Rows :
          /\ flight' = [flight EXCEPT ![t] = B \cup G]
          /\ G \subseteq Waiting /\ Waiting' = Waiting \ G
          /\ \A u \in Threads : todo[u] \subseteq todo'[u] \cup G
  <2>1. CASE AppendFlushes(t, k)
    <3>1. /\ flight' = [flight EXCEPT ![t] = B \cup Group(t, k)]
          /\ todo' = [todo EXCEPT ![t] = @ \ Group(t, k)]
      BY <2>1 DEF AppendFlushes, PopBuffer
    <3>2. \A u \in Threads : todo[u] \subseteq todo'[u] \cup Group(t, k)
      BY <3>1 DEF TypeOK, ThreadsOK
    <3> QED BY <3>1, <3>2, TakenGroup
  <2>2. CASE SweepNext(t, k)
    <3>1. flight' = [flight EXCEPT ![t] = B \cup {}] /\ todo' = todo
      BY <2>2 DEF SweepNext, PopBuffer
    <3>2. {} \in SUBSET Rows /\ {} \subseteq Waiting /\ Waiting' = Waiting \ {}
      BY <3>1 DEF Waiting
    <3>3. \A u \in Threads : todo[u] \subseteq todo'[u] \cup {}
      BY <3>1
    <3> QED BY <3>1, <3>2, <3>3
  <2> QED BY <2>1, <2>2
<1>4. B \subseteq Buffered /\ Buffered' = Buffered \ B
  BY <1>1, <1>2, EmptiedBuffer
<1>5. InFlight' = InFlight \cup B \cup G
  <2>1. InFlight' = InFlight \cup (B \cup G)
    BY <1>1, <1>2, <1>3, TakenFlight
  <2> QED BY <2>1
<1>6. Visible' = Visible /\ PartsApart'
  BY <1>2, SameParts
<1>7. Kept' = Kept \cup G
  BY <1>2, <1>4, <1>5, <1>6 DEF Kept
<1>8. Apart'
  BY <1>2, <1>3, <1>4, <1>5, <1>6, <1>7 DEF Apart, Kept
<1>9. CallsKept'
  BY <1>2, <1>3, <1>7 DEF CallsKept
<1>10. Onwards
  BY <1>2, <1>4, <1>5, <1>6 DEF Onwards, Kept
<1> QED BY <1>6, <1>8, <1>9, <1>10 DEF RowsKept

\* A part takes the rows of the flush, which are in no other part.
LEMMA PublishedFlight ==
    ASSUME RowsInv, PublishedIsComplete', NEW t \in Threads, ReplaceTmp(t)
    PROVE  Visible' = Visible \cup flight[t]
<1> USE DEF RowsInv, WriterInv, TypeInv
<1> DEFINE k == target[t]
           i == idx[t]
           new == Put(part[k], i, Complete(t))
<1>1. /\ k \in Partitions /\ IsDirectory(part[k]) /\ DOMAIN part = Partitions
      /\ i \notin DOMAIN part[k] /\ tmp[k][i] = Complete(t)
  BY DEF ReplaceTmp, Slots, Slot, TypeOK, FlushOK, DiskOK
<1>2. /\ part' = [part EXCEPT ![k] = new]
      /\ flight' = [flight EXCEPT ![t] = {}]
      /\ UNCHANGED <<buffers, todo, call, lost, rejected, offered, acked>>
  BY <1>1 DEF ReplaceTmp, memory, local, history
<1>3. /\ part'[k] = new /\ \A l \in Partitions \ {k} : part'[l] = part[l]
      /\ DOMAIN new = DOMAIN part[k] \cup {i} /\ new[i].rows = flight[t]
      /\ \A j \in DOMAIN part[k] : new[j] = part[k][j]
  BY <1>1, <1>2 DEF Put, Complete
<1>4. \A r : r \in Visible <=> \E l \in Partitions : \E j \in DOMAIN part[l] :
                                   r \in part[l][j].rows
  BY InParts
<1>5. \A r : r \in Visible' <=> \E l \in Partitions : \E j \in DOMAIN part'[l] :
                                   r \in part'[l][j].rows
  BY InPartsNext
<1> QED BY <1>1, <1>3, <1>4, <1>5

LEMMA PublishedRows ==
    ASSUME OwnsDisjoint, RowsInv, PublishedIsComplete', NEW t \in Threads, ReplaceTmp(t)
    PROVE  RowsKept
<1> USE DEF RowsInv, WriterInv, TypeInv
<1> DEFINE k == target[t]
           i == idx[t]
           new == Put(part[k], i, Complete(t))
<1>1. /\ k \in Partitions /\ IsDirectory(part[k]) /\ DOMAIN part = Partitions
      /\ i \notin DOMAIN part[k] /\ tmp[k][i] = Complete(t)
  BY DEF ReplaceTmp, Slots, Slot, TypeOK, FlushOK, DiskOK
<1>2. /\ part' = [part EXCEPT ![k] = new]
      /\ flight' = [flight EXCEPT ![t] = {}]
      /\ UNCHANGED <<buffers, todo, call, lost, rejected, offered, acked>>
  BY <1>1 DEF ReplaceTmp, memory, local, history
<1>3. flight[t] \subseteq InFlight /\ InFlight' = InFlight \ flight[t]
  BY <1>2, LandedFlight
<1>4. /\ part'[k] = new /\ \A l \in Partitions \ {k} : part'[l] = part[l]
      /\ DOMAIN new = DOMAIN part[k] \cup {i} /\ new[i].rows = flight[t]
      /\ \A j \in DOMAIN part[k] : new[j] = part[k][j]
  BY <1>1, <1>2 DEF Put, Complete
<1>5. Visible' = Visible \cup flight[t]
  BY PublishedFlight
<1>6. Buffered' = Buffered /\ Waiting' = Waiting
  BY <1>2 DEF Buffered, Waiting
<1>7. Kept' = Kept
  BY <1>2, <1>3, <1>5, <1>6 DEF Kept
<1>8. Apart'
  BY <1>2, <1>3, <1>5, <1>6, <1>7 DEF Apart, Kept
<1>9. PartsApart'
  <2> SUFFICES ASSUME NEW r \in Rows, NEW l \in Partitions, NEW m \in Partitions,
                      NEW j \in DOMAIN part'[l], NEW n \in DOMAIN part'[m],
                      r \in part'[l][j].rows, r \in part'[m][n].rows
               PROVE  l = m /\ j = n
    BY DEF PartsApart
  <2>1. ASSUME NEW h \in Partitions, NEW p \in DOMAIN part'[h], r \in part'[h][p].rows
        PROVE  \/ h = k /\ p = i /\ r \in flight[t]
               \/ p \in DOMAIN part[h] /\ r \in part[h][p].rows
    BY <1>4, <2>1
  <2>2. ASSUME NEW h \in Partitions, NEW p \in DOMAIN part[h], r \in part[h][p].rows
        PROVE  r \notin flight[t]
    <3>1. r \in Visible
      BY <2>2, InParts
    <3> QED BY <1>3, <3>1 DEF Apart
  <2> QED BY <2>1, <2>2 DEF PartsApart
<1>10. CallsKept'
  BY <1>2, <1>7 DEF CallsKept
<1>11. Onwards
  BY <1>2, <1>3, <1>5, <1>6 DEF Onwards, Kept
<1> QED BY <1>8, <1>9, <1>10, <1>11 DEF RowsKept

\* The exception of a flush, or the death of its process, takes rows with it.
LEMMA LostRows ==
    ASSUME Apart, PartsApart, CallsKept, UNCHANGED <<part, rejected, offered, acked>>,
           Buffered' \subseteq Buffered, InFlight' \subseteq InFlight,
           Waiting' \subseteq Waiting,
           \A t \in Threads : \/ call'[t] = {}
                              \/ call'[t] = call[t] /\ todo'[t] = todo[t],
           lost' = lost \cup (Buffered \ Buffered') \cup (InFlight \ InFlight')
    PROVE  RowsKept
<1>1. Visible' = Visible /\ PartsApart'
  BY SameParts
<1>2. Kept' = Kept
  BY <1>1 DEF Kept
<1>3. Apart'
  BY <1>1, <1>2 DEF Apart, Kept
<1>4. CallsKept'
  BY <1>2 DEF CallsKept
<1>5. Onwards
  BY <1>1 DEF Onwards, Kept
<1> QED BY <1>1, <1>3, <1>4, <1>5 DEF RowsKept

LEMMA RaisedRows ==
    ASSUME OwnsDisjoint, RowsInv, NEW t \in Threads, FlushRaises(t)
    PROVE  RowsKept
<1> USE DEF RowsInv, WriterInv, TypeInv, TypeOK, ThreadsOK, FlushOK
<1>1. /\ flight' = [flight EXCEPT ![t] = {}] /\ todo' = [todo EXCEPT ![t] = {}]
      /\ call' = [call EXCEPT ![t] = {}] /\ lost' = lost \cup flight[t]
      /\ UNCHANGED <<buffers, part, rejected, offered, acked>>
  BY DEF FlushRaises, Forget
<1>2. flight[t] \subseteq InFlight /\ InFlight' = InFlight \ flight[t]
  BY <1>1, LandedFlight
<1>3. Waiting' \subseteq Waiting /\ Buffered' = Buffered
  <2>1. todo' \in [Threads -> SUBSET Rows] /\ \A u \in Threads : todo'[u] \subseteq todo[u]
    BY <1>1
  <2>2. \A r : r \in Waiting <=> \E u \in Threads : r \in todo[u]
    BY InThreads DEF Waiting
  <2>3. \A r : r \in Waiting' <=> \E u \in Threads : r \in todo'[u]
    BY <2>1, InThreads DEF Waiting
  <2> QED BY <1>1, <2>1, <2>2, <2>3 DEF Buffered
<1>4. lost' = lost \cup (Buffered \ Buffered') \cup (InFlight \ InFlight')
  BY <1>1, <1>2, <1>3
<1>5. \A u \in Threads : \/ call'[u] = {}
                         \/ call'[u] = call[u] /\ todo'[u] = todo[u]
  BY <1>1
<1> QED BY <1>1, <1>2, <1>3, <1>4, <1>5, LostRows

LEMMA CrashedRows ==
    ASSUME OwnsDisjoint, RowsInv, NEW w \in Writers, Crash(w)
    PROVE  RowsKept
<1> USE DEF RowsInv, WriterInv, TypeInv, TypeOK, ThreadsOK, FlushOK, MemoryOK
<1> DEFINE T == {t \in Threads : WriterOf[t] = w}
<1>1. /\ buffers' = [buffers EXCEPT ![w] = [k \in Partitions |-> {}]]
      /\ flight' = [t \in Threads |-> IF t \in T THEN {} ELSE flight[t]]
      /\ todo' = [t \in Threads |-> IF t \in T THEN {} ELSE todo[t]]
      /\ call' = [t \in Threads |-> IF t \in T THEN {} ELSE call[t]]
      /\ lost' = lost \cup InMemory(w)
      /\ UNCHANGED <<part, rejected, offered, acked>>
  BY DEF Crash, Forget, disk
<1>2. /\ buffers' \in [Writers -> [Partitions -> SUBSET Rows]]
      /\ flight' \in [Threads -> SUBSET Rows] /\ todo' \in [Threads -> SUBSET Rows]
  BY <1>1
<1>3. /\ \A r : r \in Buffered <=>
                \E v \in Writers : \E l \in Partitions : r \in buffers[v][l]
      /\ \A r : r \in Buffered' <=>
                \E v \in Writers : \E l \in Partitions : r \in buffers'[v][l]
  BY <1>2, InBuffers DEF Buffered
<1>4. /\ \A r : r \in InFlight <=> \E u \in Threads : r \in flight[u]
      /\ \A r : r \in InFlight' <=> \E u \in Threads : r \in flight'[u]
  BY <1>2, InThreads DEF InFlight
<1>5. /\ \A r : r \in Waiting <=> \E u \in Threads : r \in todo[u]
      /\ \A r : r \in Waiting' <=> \E u \in Threads : r \in todo'[u]
  BY <1>2, InThreads DEF Waiting
<1>6. \A r : r \in InMemory(w) <=> \/ \E l \in Partitions : r \in buffers[w][l]
                                   \/ \E u \in T : r \in flight[u]
  BY DEF InMemory
<1>7. Waiting' \subseteq Waiting
  BY <1>1, <1>5
<1>8. Buffered' = {r \in Buffered : \A l \in Partitions : r \notin buffers[w][l]}
  <2>1. ASSUME NEW r, NEW v \in Writers, NEW l \in Partitions, NEW m \in Partitions,
               r \in buffers[v][l], r \in buffers[w][m]
        PROVE  v = w
    BY <2>1 DEF Located, Ownership, OwnsDisjoint
  <2>2. \A v \in Writers : \A l \in Partitions :
            buffers'[v][l] = IF v = w THEN {} ELSE buffers[v][l]
    BY <1>1
  <2>3. \A r : r \in Buffered' <=>
            \E v \in Writers \ {w} : \E l \in Partitions : r \in buffers[v][l]
    <3>1. \A l \in Partitions : buffers'[w][l] = {}
      BY <2>2
    <3>2. \A v \in Writers \ {w} : \A l \in Partitions : buffers'[v][l] = buffers[v][l]
      BY <2>2
    <3>3. ASSUME NEW r \in Buffered'
          PROVE  \E v \in Writers \ {w} : \E l \in Partitions : r \in buffers[v][l]
      <4>1. PICK v \in Writers, l \in Partitions : r \in buffers'[v][l]
        BY <1>3
      <4>2. v # w
        BY <3>1, <4>1
      <4> QED BY <3>2, <4>1, <4>2
    <3>4. ASSUME NEW r, NEW v \in Writers \ {w}, NEW l \in Partitions, r \in buffers[v][l]
          PROVE  r \in Buffered'
      <4>1. r \in buffers'[v][l]
        BY <3>2, <3>4
      <4> QED BY <1>3, <4>1
    <3> QED BY <3>3, <3>4
  <2>4. \A r \in Buffered : (\A l \in Partitions : r \notin buffers[w][l]) <=>
            \E v \in Writers \ {w} : \E l \in Partitions : r \in buffers[v][l]
    BY <1>3, <2>1
  <2>5. Buffered' \subseteq Buffered
    BY <1>3, <2>3
  <2> QED BY <2>3, <2>4, <2>5
<1>9. InFlight' = {r \in InFlight : \A u \in T : r \notin flight[u]}
  <2>1. ASSUME NEW r, NEW u \in Threads, NEW v \in Threads, r \in flight[u], r \in flight[v]
        PROVE  u = v
    <3>1. pc[v] \in Flushing /\ pc[u] \in Flushing
      BY <2>1 DEF Busy
    <3> QED BY <2>1, <3>1, TargetsDiffer DEF Located
  <2> QED BY <1>1, <1>4, <2>1
<1>10. lost' = lost \cup (Buffered \ Buffered') \cup (InFlight \ InFlight')
  BY <1>1, <1>3, <1>4, <1>6, <1>8, <1>9
<1>11. \A u \in Threads : \/ call'[u] = {}
                          \/ call'[u] = call[u] /\ todo'[u] = todo[u]
  BY <1>1
<1> QED BY <1>1, <1>7, <1>8, <1>9, <1>10, <1>11, LostRows

LEMMA QuietSteps ==
    ASSUME OwnsDisjoint, RowsInv, NEW t \in Threads,
           AppendReturns(t) \/ SweepReturns(t) \/ FlushAll(t) \/ FlushIdle(t)
               \/ ScanParts(t) \/ OpenTmp(t) \/ WriteTmp(t)
    PROVE  RowsKept
<1> USE DEF RowsInv, WriterInv, TypeInv, TypeOK, ThreadsOK, FlushOK
<1>1. /\ UNCHANGED <<buffers, flight, lost, todo, rejected, offered>>
      /\ \/ acked' = acked
         \/ todo[t] = {} /\ acked' = acked \cup call[t]
      /\ \A u \in Threads : call'[u] \subseteq call[u]
  BY DEF AppendReturns, SweepReturns, FlushAll, FlushIdle, BeginSweep, ScanParts,
         OpenTmp, WriteTmp, memory, local, flush, history
<1>2. UNCHANGED part
  <2>1. CASE WriteTmp(t)
    <3>1. fd[t] = "tmp"
      BY <2>1 DEF WriteTmp, Slots, Slot
    <3> QED BY <2>1, <3>1 DEF WriteTmp
  <2> QED
    BY <2>1 DEF AppendReturns, SweepReturns, FlushAll, FlushIdle, BeginSweep,
                ScanParts, OpenTmp, disk
<1>3. Waiting' = Waiting
  BY <1>1 DEF Waiting
<1>4. \A u \in Threads : call'[u] \subseteq call[u] /\ todo'[u] = todo[u]
  BY <1>1
<1> QED
  <2>1. {} \cap offered = {} /\ Waiting' \subseteq Waiting \cup {}
        /\ offered' = offered \cup {}
    BY <1>1, <1>3
  <2> QED BY <1>1, <1>2, <1>3, <1>4, <2>1, QuietRows

LEMMA AppendedRows ==
    ASSUME OwnsDisjoint, RowsInv, NEW t \in Threads, NEW batch \in Batches(t),
           AppendMany(t, batch) \/ AppendRejected(t, batch)
    PROVE  RowsKept
<1> USE DEF RowsInv, WriterInv, TypeInv, TypeOK, ThreadsOK, FlushOK
<1>1. batch \in SUBSET Rows /\ batch \cap offered = {}
  BY DEF Batches
<1>2. CASE AppendMany(t, batch)
  <2>1. /\ UNCHANGED <<buffers, flight, part, lost, rejected, acked>>
        /\ offered' = offered \cup batch
        /\ call' = [call EXCEPT ![t] = batch] /\ todo' = [todo EXCEPT ![t] = batch]
    BY <1>2 DEF AppendMany, flush, disk
  <2>2. todo' \in [Threads -> SUBSET Rows]
        /\ \A u \in Threads : todo'[u] \subseteq todo[u] \cup batch
    BY <1>1, <2>1
  <2>3. Waiting' \subseteq Waiting \cup batch
    <3>1. \A r : r \in Waiting <=> \E u \in Threads : r \in todo[u]
      BY InThreads DEF Waiting
    <3>2. \A r : r \in Waiting' <=> \E u \in Threads : r \in todo'[u]
      BY <2>2, InThreads DEF Waiting
    <3> QED BY <2>2, <3>1, <3>2
  <2>4. \A u \in Threads : \/ call'[u] \subseteq call[u] /\ todo'[u] = todo[u]
                           \/ call'[u] \subseteq todo'[u]
    BY <2>1
  <2> QED BY <1>1, <2>1, <2>3, <2>4, QuietRows
<1>3. CASE AppendRejected(t, batch)
  <2>1. /\ UNCHANGED <<buffers, flight, part, lost, todo, call, acked>>
        /\ offered' = offered \cup batch /\ rejected' = rejected \cup batch
    BY <1>3 DEF AppendRejected, memory, local, flush, disk
  <2>2. Waiting' = Waiting
    BY <2>1 DEF Waiting
  <2>3. \A u \in Threads : call'[u] \subseteq call[u] /\ todo'[u] = todo[u]
    BY <2>1
  <2> QED BY <1>1, <2>1, <2>2, <2>3, QuietRows
<1> QED BY <1>2, <1>3

LEMMA IdleRows ==
    ASSUME RowsInv, UNCHANGED <<buffers, flight, part, lost, todo, call, acked,
                                rejected, offered>>
    PROVE  RowsKept
<1> USE DEF RowsInv
<1>1. Waiting' = Waiting
  BY DEF Waiting
<1>2. {} \cap offered = {} /\ Waiting' \subseteq Waiting \cup {}
      /\ offered' = offered \cup {}
  BY <1>1
<1>3. \A u \in Threads : call'[u] \subseteq call[u] /\ todo'[u] = todo[u]
  OBVIOUS
<1> QED BY <1>1, <1>2, <1>3, QuietRows

LEMMA NextRows ==
    ASSUME OwnsDisjoint
    PROVE  RowsInv /\ [Next]_vars => RowsInv' /\ Onwards
<1> SUFFICES ASSUME RowsInv, [Next]_vars PROVE RowsInv' /\ Onwards
  OBVIOUS
<1>1. WriterInv'
  BY NextWriterInv DEF RowsInv
<1>2. Located' /\ Busy'
  BY NextLocated, NextBusy DEF RowsInv, WriterInv
<1>3. RowsKept
  <2>1. ASSUME NEW t \in Threads, Call(t) PROVE RowsKept
    BY <2>1, AppendedRows, QuietSteps DEF Call
  <2>2. ASSUME NEW t \in Threads, Step(t) PROVE RowsKept
    BY <1>1, <2>2, BufferedRows, PoppedRows, QuietSteps, PublishedRows, RaisedRows
       DEF Step, WriterInv
  <2>3. ASSUME NEW w \in Writers, NEW k \in Partitions, Age(w, k) PROVE RowsKept
    BY <2>3, IdleRows DEF Age, local, flush, disk, history
  <2>4. CASE UNCHANGED vars
    BY <2>4, IdleRows DEF vars, memory, local, flush, disk, history
  <2> QED BY <2>1, <2>2, <2>3, <2>4, CrashedRows DEF Next
<1> QED BY <1>1, <1>2, <1>3 DEF RowsInv, RowsKept

LEMMA InitRows == Init => RowsInv /\ Durable!Init
<1> SUFFICES ASSUME Init PROVE RowsInv /\ Durable!Init
  OBVIOUS
<1> USE WriterConstants DEF Init
<1>1. WriterInv
  BY InitWriterInv
<1>2. Waiting = {} /\ Buffered = {} /\ InFlight = {}
  BY DEF Waiting, Buffered, InFlight, Range
<1>3. Visible = {}
  <2>1. \A k \in Partitions : RowsOf(k) = {}
    BY DEF RowsOf, OldFile
  <2> QED BY <2>1 DEF Visible
<1>4. Located /\ Busy
  BY DEF Located, Busy, OldFile
<1>5. PartsApart
  BY DEF PartsApart, OldFile
<1>6. Apart /\ CallsKept
  BY <1>2, <1>3 DEF Apart, CallsKept, Kept
<1>7. Durable!Init
  BY <1>2, <1>3 DEF Durable!Init
<1> QED BY <1>1, <1>4, <1>5, <1>6, <1>7 DEF RowsInv

-----------------------------------------------------------------------------

\* A row whose append_many returned is in a buffer, in a flush under way, in a
\* part, or lost to a flush that raised or a crash: none is overwritten by a
\* later part (_next_part_index, os.replace) and none is dropped silently.
THEOREM AckedRowsAreAccounted ==
    ASSUME OwnsDisjoint
    PROVE  Spec => []AckedRowsAccounted
<1>1. RowsInv => AckedRowsAccounted
  BY DEF RowsInv, CallsKept, Kept, AckedRowsAccounted
<1> QED BY InitRows, NextRows, <1>1, PTL DEF Spec

\* No row is flushed twice, or is in two of the places it can be: the buffer
\* is popped before the flush starts, and nothing puts a row back.
THEOREM RowsHaveOnePlace ==
    ASSUME OwnsDisjoint
    PROVE  Spec => []RowInOnePlace
<1>1. RowsInv => RowInOnePlace
  BY DEF RowsInv, Apart, PartsApart, Kept, RowInOnePlace
<1> QED BY InitRows, NextRows, <1>1, PTL DEF Spec

\* A batch refused by validation leaves none of its rows in a buffer, a flush
\* or a part: append_many validates the whole batch before it takes the lock.
THEOREM RejectedBatchesLeaveNoTrace ==
    ASSUME OwnsDisjoint
    PROVE  Spec => []RejectedLeaveNoTrace
<1>1. RowsInv => RejectedLeaveNoTrace
  BY DEF RowsInv, Apart, CallsKept, Kept, RejectedLeaveNoTrace
<1> QED BY InitRows, NextRows, <1>1, PTL DEF Spec

\* The writer implements DurableRows.
THEOREM WriterImplementsDurableRows ==
    ASSUME OwnsDisjoint
    PROVE  Spec => DurableSpec
<1>1. RowsInv /\ RowsInv' /\ Onwards => [Durable!Move]_Durable!vars
  BY DEF RowsInv, Apart, Kept, Onwards, Durable!Move, Durable!OnePlace
<1> QED BY InitRows, NextRows, <1>1, PTL DEF Spec, DurableSpec, Durable!Spec

-----------------------------------------------------------------------------
(* flush_all *)

\* What a flush_all found buffered is published, in its flush, or in a buffer
\* it has still to flush; nobody else takes it from there while it runs.
SweptInv ==
    \A t \in Threads :
        /\ swept[t] # {} => pc[t] \in {"sweep"} \cup Flushing /\ call[t] = {}
        /\ \A r \in swept[t] :
              \/ r \in Visible \cup flight[t]
              \/ \E k \in keys[t] : r \in buffers[WriterOf[t]][k]

\* A step of one thread leaves the sweeps of the others alone.
LEMMA OtherSweeps ==
    ASSUME RowsInv, SweptInv, Onwards, NEW t \in Threads, pc[t] # "idle",
           \A w \in Writers \ {WriterOf[t]} : buffers'[w] = buffers[w],
           \A u \in Threads \ {t} :
               /\ swept'[u] = swept[u] /\ pc'[u] = pc[u] /\ call'[u] = call[u]
               /\ flight'[u] = flight[u] /\ keys'[u] = keys[u],
           \/ pc'[t] \in {"sweep"} \cup Flushing /\ call'[t] = call[t]
           \/ swept'[t] = {},
           \A r \in swept'[t] : \/ r \in Visible' \cup flight'[t]
                                \/ \E k \in keys'[t] : r \in buffers'[WriterOf[t]][k],
           swept'[t] \in {{}, swept[t]}
    PROVE  SweptInv'
<1> TypeOK /\ Mutex
  BY DEF RowsInv, WriterInv, TypeInv
<1> USE WriterConstants DEF TypeOK, ThreadsOK
<1>1. ASSUME NEW u \in Threads \ {t}, swept[u] # {}
      PROVE  buffers'[WriterOf[u]] = buffers[WriterOf[u]]
  <2>1. pc[u] # "idle"
    BY <1>1 DEF SweptInv, Flushing
  <2>2. WriterOf[u] # WriterOf[t] /\ WriterOf[u] \in Writers
    BY <2>1 DEF Mutex
  <2> QED BY <2>2
<1>2. Visible \subseteq Visible'
  BY DEF Onwards
<1>3. ASSUME NEW u \in Threads \ {t}
      PROVE  /\ swept'[u] # {} => pc'[u] \in {"sweep"} \cup Flushing /\ call'[u] = {}
             /\ \A r \in swept'[u] :
                   \/ r \in Visible' \cup flight'[u]
                   \/ \E k \in keys'[u] : r \in buffers'[WriterOf[u]][k]
  BY <1>1, <1>2 DEF SweptInv
<1>4. swept'[t] # {} => pc'[t] \in {"sweep"} \cup Flushing /\ call'[t] = {}
  BY DEF SweptInv
<1> QED BY <1>3, <1>4 DEF SweptInv

LEMMA NextSwept ==
    ASSUME OwnsDisjoint, RowsInv, RowsInv', Onwards, SweptInv, [Next]_vars
    PROVE  SweptInv' /\ \A t \in Threads : SweepReturns(t) => swept[t] \subseteq Visible
<1> TypeOK /\ Busy /\ PublishedIsComplete'
  BY DEF RowsInv, WriterInv, TypeInv
<1> USE WriterConstants DEF TypeOK, ThreadsOK, FlushOK, HistoryOK, MemoryOK
<1>1. Visible \subseteq Visible'
  BY DEF Onwards
<1>2. ASSUME NEW t \in Threads, SweepReturns(t) PROVE swept[t] \subseteq Visible
  <2>1. keys[t] = {} /\ flight[t] = {}
    BY <1>2 DEF SweepReturns, Busy, Flushing
  <2> QED BY <2>1 DEF SweptInv
<1>3. ASSUME UNCHANGED <<buffers, flight, keys, call, pc, swept>> PROVE SweptInv'
  BY <1>1, <1>3 DEF SweptInv
<1>4. ASSUME NEW t \in Threads, Call(t) PROVE SweptInv'
  <2>1. CASE \E batch \in Batches(t) : AppendRejected(t, batch)
    BY <1>3, <2>1 DEF AppendRejected, memory, local, flush
  <2>2. CASE (\E batch \in Batches(t) : AppendMany(t, batch)) \/ FlushIdle(t)
    <3>1. /\ UNCHANGED <<buffers, flight, swept>> /\ pc[t] = "idle"
          /\ \A u \in Threads \ {t} : /\ pc'[u] = pc[u] /\ call'[u] = call[u]
                                      /\ keys'[u] = keys[u]
      BY <2>2 DEF AppendMany, FlushIdle, BeginSweep, flush
    <3>2. swept[t] = {}
      BY <3>1 DEF SweptInv, Flushing
    <3> QED BY <1>1, <3>1, <3>2 DEF SweptInv
  <2>3. CASE FlushAll(t)
    <3>1. /\ UNCHANGED <<buffers, flight, call>> /\ pc'[t] = "sweep"
          /\ keys'[t] = BufferedKeys(WriterOf[t])
          /\ swept'[t] = UNION Range(buffers[WriterOf[t]])
          /\ call[t] = {}
          /\ \A u \in Threads \ {t} : /\ pc'[u] = pc[u] /\ swept'[u] = swept[u]
                                      /\ keys'[u] = keys[u]
      BY <2>3 DEF FlushAll, BeginSweep, flush, Busy, Flushing
    <3>2. \A r \in swept'[t] : \E k \in keys'[t] : r \in buffers'[WriterOf[t]][k]
      BY <3>1 DEF Range, BufferedKeys
    <3>3. ASSUME NEW u \in Threads \ {t}
          PROVE  /\ swept'[u] # {} => pc'[u] \in {"sweep"} \cup Flushing /\ call'[u] = {}
                 /\ \A r \in swept'[u] :
                       \/ r \in Visible' \cup flight'[u]
                       \/ \E k \in keys'[u] : r \in buffers'[WriterOf[u]][k]
      BY <1>1, <3>1 DEF SweptInv
    <3> QED BY <3>1, <3>2, <3>3 DEF SweptInv
  <2> QED BY <1>4, <2>1, <2>2, <2>3 DEF Call
<1>5. ASSUME NEW t \in Threads, Step(t) PROVE SweptInv'
  <2>1. ASSUME NEW k \in Partitions, AppendBuffered(t, k) \/ AppendFlushes(t, k)
        PROVE  SweptInv'
    <3>1. /\ pc[t] # "idle" /\ swept[t] = {} /\ swept' = swept
          /\ \A w \in Writers \ {WriterOf[t]} : buffers'[w] = buffers[w]
          /\ \A u \in Threads \ {t} :
                /\ pc'[u] = pc[u] /\ call'[u] = call[u]
                /\ flight'[u] = flight[u] /\ keys'[u] = keys[u]
      BY <2>1 DEF AppendBuffered, AppendFlushes, PopBuffer, SweptInv, Flushing,
                  flush, history
    <3> QED BY <3>1, OtherSweeps
  <2>2. ASSUME NEW k \in Partitions, SweepNext(t, k) PROVE SweptInv'
    <3>1. /\ pc[t] = "sweep" /\ swept' = swept /\ pc'[t] = "scan"
          /\ buffers' = [buffers EXCEPT ![WriterOf[t]][k] = {}]
          /\ flight'[t] = buffers[WriterOf[t]][k] /\ flight[t] = {}
          /\ keys'[t] = keys[t] \ {k} /\ call' = call
          /\ \A u \in Threads \ {t} :
                pc'[u] = pc[u] /\ flight'[u] = flight[u] /\ keys'[u] = keys[u]
      BY <2>2 DEF SweepNext, PopBuffer, history, Busy, Flushing
    <3>2. \A w \in Writers \ {WriterOf[t]} : buffers'[w] = buffers[w]
      BY <3>1
    <3>3. \A l \in Partitions \ {k} : buffers'[WriterOf[t]][l] = buffers[WriterOf[t]][l]
      BY <3>1
    <3>4. \A r \in swept'[t] : \/ r \in Visible' \cup flight'[t]
                               \/ \E l \in keys'[t] : r \in buffers'[WriterOf[t]][l]
      <4> SUFFICES ASSUME NEW r \in swept[t]
                   PROVE  \/ r \in Visible' \cup flight'[t]
                          \/ \E l \in keys'[t] : r \in buffers'[WriterOf[t]][l]
        BY <3>1
      <4>1. CASE r \in Visible
        BY <1>1, <4>1
      <4>2. ASSUME NEW l \in keys[t], r \in buffers[WriterOf[t]][l]
            PROVE  r \in flight'[t] \/ (l \in keys'[t] /\ r \in buffers'[WriterOf[t]][l])
        BY <3>1, <3>3, <4>2
      <4> QED BY <3>1, <4>1, <4>2 DEF SweptInv
    <3>5. pc'[t] \in {"sweep"} \cup Flushing
      BY <3>1 DEF Flushing
    <3> QED BY <3>1, <3>2, <3>4, <3>5, OtherSweeps
  <2>3. CASE AppendReturns(t) \/ SweepReturns(t) \/ FlushRaises(t)
    <3>1. /\ swept'[t] = {} /\ pc[t] # "idle" /\ buffers' = buffers
          /\ \A u \in Threads \ {t} :
                /\ pc'[u] = pc[u] /\ call'[u] = call[u] /\ swept'[u] = swept[u]
                /\ flight'[u] = flight[u] /\ keys'[u] = keys[u]
      BY <2>3 DEF AppendReturns, SweepReturns, FlushRaises, Forget, SweptInv,
                  Flushing, flush, local
    <3> QED BY <3>1, OtherSweeps
  <2>4. CASE ScanParts(t) \/ OpenTmp(t) \/ WriteTmp(t)
    <3>1. /\ UNCHANGED <<buffers, call, keys, flight, swept>>
          /\ pc[t] # "idle" /\ pc'[t] \in Flushing
          /\ \A u \in Threads \ {t} : pc'[u] = pc[u]
      BY <2>4 DEF ScanParts, OpenTmp, WriteTmp, memory, local, history, Flushing
    <3>2. \A r \in swept'[t] : \/ r \in Visible' \cup flight'[t]
                               \/ \E l \in keys'[t] : r \in buffers'[WriterOf[t]][l]
      BY <1>1, <3>1 DEF SweptInv
    <3> QED BY <3>1, <3>2, OtherSweeps
  <2>5. CASE ReplaceTmp(t)
    <3>1. /\ UNCHANGED <<buffers, call, keys, swept>>
          /\ pc[t] = "replace"
          /\ pc'[t] = IF call[t] # {} THEN "append" ELSE "sweep"
          /\ \A u \in Threads \ {t} : pc'[u] = pc[u] /\ flight'[u] = flight[u]
      BY <2>5 DEF ReplaceTmp, memory, local, history
    <3>2. swept[t] # {} => pc'[t] = "sweep"
      BY <3>1 DEF SweptInv
    <3>3. flight[t] \subseteq Visible'
      BY <2>5, PublishedFlight
    <3>4. \A r \in swept'[t] : \/ r \in Visible' \cup flight'[t]
                               \/ \E l \in keys'[t] : r \in buffers'[WriterOf[t]][l]
      BY <1>1, <3>1, <3>3 DEF SweptInv
    <3> QED BY <3>1, <3>2, <3>4, OtherSweeps
  <2> QED BY <1>5, <2>1, <2>2, <2>3, <2>4, <2>5 DEF Step
<1>6. ASSUME NEW w \in Writers, Crash(w) PROVE SweptInv'
  <2>1. /\ \A v \in Writers \ {w} : buffers'[v] = buffers[v]
        /\ \A t \in Threads : WriterOf[t] = w => swept'[t] = {}
        /\ \A t \in Threads : WriterOf[t] # w =>
              /\ swept'[t] = swept[t] /\ pc'[t] = pc[t] /\ call'[t] = call[t]
              /\ flight'[t] = flight[t] /\ keys'[t] = keys[t]
    BY <1>6 DEF Crash, Forget
  <2>2. \A t \in Threads : WriterOf[t] \in Writers
    OBVIOUS
  <2>3. ASSUME NEW t \in Threads, WriterOf[t] # w
        PROVE  /\ swept'[t] # {} => pc'[t] \in {"sweep"} \cup Flushing /\ call'[t] = {}
               /\ \A r \in swept'[t] :
                     \/ r \in Visible' \cup flight'[t]
                     \/ \E k \in keys'[t] : r \in buffers'[WriterOf[t]][k]
    <3>1. buffers'[WriterOf[t]] = buffers[WriterOf[t]]
      BY <2>1, <2>2, <2>3
    <3>2. /\ swept'[t] = swept[t] /\ pc'[t] = pc[t] /\ call'[t] = call[t]
          /\ flight'[t] = flight[t] /\ keys'[t] = keys[t]
      BY <2>1, <2>3
    <3> QED BY <1>1, <3>1, <3>2 DEF SweptInv
  <2> QED BY <2>1, <2>3 DEF SweptInv
<1>7. ASSUME NEW w \in Writers, NEW k \in Partitions, Age(w, k) PROVE SweptInv'
  BY <1>3, <1>7 DEF Age, local, flush, history
<1>8. CASE UNCHANGED vars
  BY <1>2, <1>3, <1>8 DEF vars, memory, local, flush, history
<1> QED BY <1>2, <1>4, <1>5, <1>6, <1>7, <1>8 DEF Next

\* flush_all that returns has published every row it found buffered: keys
\* listed at the start and flushed one by one under the lock miss none.
THEOREM FlushAllPublishesHolds ==
    ASSUME OwnsDisjoint
    PROVE  Spec => FlushAllPublishes
<1>1. Init => SweptInv
  BY DEF Init, SweptInv
<1>2. RowsInv /\ RowsInv' /\ Onwards /\ SweptInv /\ [Next]_vars =>
          SweptInv' /\ [\A t \in Threads : SweepReturns(t) => swept[t] \subseteq Visible]_vars
  BY NextSwept
<1> QED BY InitRows, NextRows, <1>1, <1>2, PTL DEF Spec, FlushAllPublishes

=============================================================================
