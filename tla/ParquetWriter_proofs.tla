------------------------ MODULE ParquetWriter_proofs ------------------------
(***************************************************************************)
(* Theorems about ParquetWriter, for any number of instances, threads,     *)
(* partitions and rows.                                                    *)
(***************************************************************************)
EXTENDS ParquetWriter, TLAPS

\* A directory has a largest part number if it has a part at all: the finite
\* listing _next_part_index takes the maximum of.
HasTop(used) == used = {} \/ \E top \in used : \A i \in used : i <= top

DirectoriesHaveTop == \A k \in Partitions : HasTop(DOMAIN part[k])

\* Only a thread that is writing has a file open, and the file is there
\* under the name it is linked as.
LinksOK ==
    \A t \in Threads :
        /\ pc[t] # "write" => fd[t] = "closed"
        /\ fd[t] = "tmp" => idx[t] \in DOMAIN tmp[target[t]]
        /\ fd[t] = "part" => idx[t] \in DOMAIN part[target[t]]

TypeInv == TypeOK /\ DirectoriesHaveTop /\ LinksOK

-----------------------------------------------------------------------------
(* Directories *)

LEMMA PutDirectory ==
    ASSUME NEW dir, IsDirectory(dir), NEW i \in Nat, NEW f \in File
    PROVE  /\ IsDirectory(Put(dir, i, f))
           /\ DOMAIN Put(dir, i, f) = DOMAIN dir \cup {i}
           /\ Put(dir, i, f)[i] = f
           /\ \A j \in DOMAIN dir : j # i => Put(dir, i, f)[j] = dir[j]
BY DEF IsDirectory, Put

LEMMA DropDirectory ==
    ASSUME NEW dir, IsDirectory(dir), NEW i
    PROVE  /\ IsDirectory(Drop(dir, i))
           /\ DOMAIN Drop(dir, i) = DOMAIN dir \ {i}
           /\ \A j \in DOMAIN dir : j # i => Drop(dir, i)[j] = dir[j]
BY DEF IsDirectory, Drop

LEMMA TopOfPut ==
    ASSUME NEW used \in SUBSET Nat, HasTop(used), NEW i \in Nat
    PROVE  HasTop(used \cup {i})
BY DEF HasTop

\* _next_part_index names a part that does not exist yet.
LEMMA NextPartIndexIsFresh ==
    ASSUME NEW k \in Partitions, TypeInv
    PROVE  /\ NextPartIndex(k) \in Nat
           /\ NextPartIndex(k) \notin DOMAIN part[k]
<1> DEFINE used == DOMAIN part[k]
           fresh(n) == \A i \in used : i < n
           next == {0} \cup {i + 1 : i \in used}
<1>1. used \in SUBSET Nat /\ HasTop(used)
  BY DEF TypeInv, TypeOK, DiskOK, IsDirectory, DirectoriesHaveTop
<1>2. \E n \in next : fresh(n)
  <2>1. CASE used = {}
    BY <2>1
  <2>2. ASSUME NEW top \in used, \A i \in used : i <= top
        PROVE  \E n \in next : fresh(n)
    <3>1. top + 1 \in next /\ fresh(top + 1)
      BY <1>1, <2>2
    <3> QED BY <3>1
  <2> QED BY <1>1, <2>1, <2>2 DEF HasTop
<1>3. NextPartIndex(k) \in next /\ fresh(NextPartIndex(k))
  BY <1>2 DEF NextPartIndex
<1> QED BY <1>1, <1>3

-----------------------------------------------------------------------------
(* Type correctness *)

LEMMA FileTypes ==
    /\ OldFile \in File
    /\ \A t \in Threads : [rows |-> {}, state |-> "partial", by |-> t] \in File
BY WriterConstants DEF OldFile, File, AnyThread

LEMMA WrittenIsFile ==
    ASSUME TypeOK, NEW t \in Threads, NEW f \in File
    PROVE  Written(f, t) \in File
BY DEF Written, File, TypeOK, FlushOK

LEMMA InitTypeInv == Init => TypeInv
<1> SUFFICES ASSUME Init PROVE TypeInv
  OBVIOUS
<1> USE WriterConstants DEF Init
<1>1. MemoryOK /\ ThreadsOK /\ HistoryOK
  BY DEF MemoryOK, ThreadsOK, HistoryOK
<1>2. FlushOK
  BY DEF FlushOK, FdStates, AnyPartition
<1>3. DiskOK /\ DirectoriesHaveTop
  BY FileTypes DEF DiskOK, IsDirectory, DirectoriesHaveTop, HasTop
<1>4. LinksOK
  BY DEF LinksOK
<1> QED BY <1>1, <1>2, <1>3, <1>4 DEF TypeInv, TypeOK

\* What a step does not open, write, rename or remove stays linked.
LEMMA QuietLinks ==
    ASSUME TypeInv, UNCHANGED <<fd, disk>>, NEW t \in Threads,
           pc[t] # "write", pc'[t] # "write",
           \A u \in Threads \ {t} : /\ pc'[u] = pc[u]
                                    /\ target'[u] = target[u]
                                    /\ idx'[u] = idx[u]
    PROVE  DiskOK' /\ DirectoriesHaveTop' /\ LinksOK'
<1>1. DiskOK' /\ DirectoriesHaveTop'
  BY DEF TypeInv, TypeOK, DiskOK, DirectoriesHaveTop, disk
<1>2. LinksOK'
  BY DEF TypeInv, LinksOK, disk
<1> QED BY <1>1, <1>2

LEMMA AppendTypeInv ==
    ASSUME TypeInv, NEW t \in Threads, NEW batch \in Batches(t),
           AppendMany(t, batch) \/ AppendRejected(t, batch)
    PROVE  TypeInv'
<1> USE WriterConstants DEF TypeInv, TypeOK
<1> batch \in SUBSET Rows
  BY DEF Batches
<1>1. MemoryOK' /\ ThreadsOK' /\ HistoryOK'
  BY DEF AppendMany, AppendRejected, Acquire, MemoryOK, ThreadsOK,
         HistoryOK, memory, local, flush, disk, vars
<1>2. FlushOK'
  BY DEF AppendMany, AppendRejected, FlushOK, flush
<1>3. DiskOK' /\ DirectoriesHaveTop' /\ LinksOK'
  BY QuietLinks DEF AppendMany, AppendRejected, flush, disk, ThreadsOK
<1> QED BY <1>1, <1>2, <1>3

LEMMA BufferTypeInv ==
    ASSUME TypeInv, NEW t \in Threads, NEW k \in Partitions,
           AppendBuffered(t, k) \/ AppendFlushes(t, k) \/ SweepNext(t, k)
    PROVE  TypeInv'
<1> USE WriterConstants DEF TypeInv, TypeOK
<1> DEFINE w == WriterOf[t]
           rows == buffers[w][k] \cup Group(t, k)
<1>1. w \in Writers /\ rows \in SUBSET Rows /\ buffers[w][k] \in SUBSET Rows
      /\ {} \in SUBSET Rows
  BY DEF Group, ThreadsOK, MemoryOK
<1>2. MemoryOK'
  <2>1. CASE AppendBuffered(t, k)
    BY <1>1, <2>1 DEF AppendBuffered, MemoryOK
  <2>2. CASE AppendFlushes(t, k) \/ SweepNext(t, k)
    <3>1. /\ buffers' = [buffers EXCEPT ![w][k] = {}]
          /\ aged' = [aged EXCEPT ![w] = @ \ {k}]
          /\ locked' = locked
      BY <2>2 DEF AppendFlushes, SweepNext, PopBuffer
    <3> QED BY <1>1, <3>1 DEF MemoryOK
  <2> QED BY <2>1, <2>2
<1>3. ThreadsOK'
  BY DEF AppendBuffered, AppendFlushes, SweepNext, PopBuffer, ThreadsOK, Flushing
<1>4. FlushOK'
  <2>1. CASE AppendBuffered(t, k)
    BY <2>1 DEF AppendBuffered, FlushOK, flush
  <2>2. CASE AppendFlushes(t, k)
    <3>1. flight' = [flight EXCEPT ![t] = rows]
      BY <2>2 DEF AppendFlushes, PopBuffer
    <3> QED BY <1>1, <2>2, <3>1 DEF AppendFlushes, PopBuffer, FlushOK
  <2>3. CASE SweepNext(t, k)
    BY <1>1, <2>3 DEF SweepNext, PopBuffer, FlushOK
  <2> QED BY <2>1, <2>2, <2>3
<1>5. HistoryOK'
  BY DEF AppendBuffered, AppendFlushes, SweepNext, HistoryOK, history
<1>6. DiskOK' /\ DirectoriesHaveTop' /\ LinksOK'
  BY QuietLinks DEF AppendBuffered, AppendFlushes, SweepNext, PopBuffer, flush,
                    disk, ThreadsOK, FlushOK
<1> QED BY <1>2, <1>3, <1>4, <1>5, <1>6

LEMMA CallTypeInv ==
    ASSUME TypeInv, NEW t \in Threads,
           AppendReturns(t) \/ SweepReturns(t) \/ FlushAll(t) \/ FlushIdle(t)
    PROVE  TypeInv'
<1> USE WriterConstants DEF TypeInv, TypeOK
<1> WriterOf[t] \in Writers
  OBVIOUS
<1>1. MemoryOK'
  BY DEF AppendReturns, SweepReturns, FlushAll, FlushIdle, BeginSweep,
         Acquire, Release, MemoryOK
<1>2. ThreadsOK'
  <2>1. BufferedKeys(WriterOf[t]) \in SUBSET Partitions
        /\ aged[WriterOf[t]] \in SUBSET Partitions
    BY DEF BufferedKeys, MemoryOK
  <2> QED
    BY <2>1 DEF AppendReturns, SweepReturns, FlushAll, FlushIdle, BeginSweep,
                ThreadsOK, local
<1>3. FlushOK'
  BY DEF AppendReturns, SweepReturns, FlushAll, FlushIdle, BeginSweep,
         FlushOK, flush
<1>4. HistoryOK'
  <2>1. UNION Range(buffers[WriterOf[t]]) \in SUBSET Rows
    BY DEF Range, MemoryOK
  <2>2. call[t] \in SUBSET Rows
    BY DEF ThreadsOK
  <2> QED
    BY <2>1, <2>2 DEF AppendReturns, SweepReturns, FlushAll, FlushIdle,
                      BeginSweep, HistoryOK
<1>5. DiskOK' /\ DirectoriesHaveTop' /\ LinksOK'
  BY QuietLinks DEF AppendReturns, SweepReturns, FlushAll, FlushIdle, BeginSweep,
                    flush, disk, ThreadsOK
<1> QED BY <1>1, <1>2, <1>3, <1>4, <1>5

LEMMA ScanTypeInv ==
    ASSUME TypeInv, NEW t \in Threads, ScanParts(t)
    PROVE  TypeInv'
<1> USE DEF TypeInv, TypeOK
<1>1. NextPartIndex(target[t]) \in Nat
  BY NextPartIndexIsFresh DEF FlushOK
<1>2. MemoryOK' /\ ThreadsOK' /\ FlushOK' /\ HistoryOK'
  BY <1>1 DEF ScanParts, MemoryOK, ThreadsOK, FlushOK, HistoryOK, Flushing,
              memory, local, history
<1>3. DiskOK' /\ DirectoriesHaveTop' /\ LinksOK'
  BY QuietLinks DEF ScanParts, disk, ThreadsOK, FlushOK
<1> QED BY <1>2, <1>3

LEMMA OpenTypeInv ==
    ASSUME TypeInv, NEW t \in Threads, OpenTmp(t)
    PROVE  TypeInv'
<1> USE DEF TypeInv, TypeOK
<1> DEFINE k == target[t]
           f == [rows |-> {}, state |-> "partial", by |-> t]
           new == Put(tmp[k], idx[t], f)
<1>1. k \in Partitions /\ idx[t] \in Nat
  BY DEF FlushOK
<1>2. MemoryOK' /\ ThreadsOK' /\ FlushOK' /\ HistoryOK'
  BY DEF OpenTmp, MemoryOK, ThreadsOK, FlushOK, HistoryOK, Flushing, FdStates,
         memory, local, history
<1>3. IsDirectory(new) /\ DOMAIN new = DOMAIN tmp[k] \cup {idx[t]}
  BY <1>1, FileTypes, PutDirectory DEF DiskOK
<1>4. tmp' = [tmp EXCEPT ![k] = new] /\ part' = part
  BY DEF OpenTmp
<1>5. DiskOK' /\ DirectoriesHaveTop'
  BY <1>1, <1>3, <1>4 DEF DiskOK, DirectoriesHaveTop
<1>6. LinksOK'
  <2>1. tmp'[k] = new /\ \A l \in Partitions \ {k} : tmp'[l] = tmp[l]
    BY <1>1, <1>4 DEF DiskOK
  <2>2. \A u \in Threads : idx[u] \in DOMAIN tmp[target[u]]
                               => idx[u] \in DOMAIN tmp'[target[u]]
    BY <1>3, <2>1 DEF FlushOK
  <2>3. idx[t] \in DOMAIN tmp'[k]
    BY <1>3, <2>1
  <2> QED
    BY <1>4, <2>2, <2>3 DEF OpenTmp, LinksOK, ThreadsOK, FlushOK
<1> QED BY <1>2, <1>5, <1>6

LEMMA WriteTypeInv ==
    ASSUME TypeInv, NEW t \in Threads, WriteTmp(t)
    PROVE  TypeInv'
<1> USE DEF TypeInv, TypeOK
<1> DEFINE k == target[t]
           i == idx[t]
           put(dir) == Put(dir, i, Written(dir[i], t))
<1>1. k \in Partitions /\ i \in Nat
  BY DEF FlushOK
<1>2. MemoryOK' /\ ThreadsOK' /\ FlushOK' /\ HistoryOK'
  BY DEF WriteTmp, MemoryOK, ThreadsOK, FlushOK, HistoryOK, Flushing, FdStates,
         memory, local, history
<1>3. ASSUME NEW dir, IsDirectory(dir), i \in DOMAIN dir
      PROVE  IsDirectory(put(dir)) /\ DOMAIN put(dir) = DOMAIN dir
  <2>1. dir[i] \in File
    BY <1>3 DEF IsDirectory
  <2>2. Written(dir[i], t) \in File
    BY <2>1, WrittenIsFile
  <2>3. DOMAIN dir \cup {i} = DOMAIN dir
    BY <1>3
  <2> QED BY <1>1, <1>3, <2>2, <2>3, PutDirectory
<1>4. \/ tmp' = tmp /\ part' = part
      \/ i \in DOMAIN tmp[k] /\ tmp' = [tmp EXCEPT ![k] = put(@)] /\ part' = part
      \/ i \in DOMAIN part[k] /\ part' = [part EXCEPT ![k] = put(@)] /\ tmp' = tmp
  BY DEF WriteTmp, LinksOK
<1>5. /\ DOMAIN tmp' = Partitions /\ DOMAIN part' = Partitions
      /\ \A l \in Partitions :
            /\ IsDirectory(tmp'[l]) /\ DOMAIN tmp'[l] = DOMAIN tmp[l]
            /\ IsDirectory(part'[l]) /\ DOMAIN part'[l] = DOMAIN part[l]
  BY <1>1, <1>3, <1>4 DEF DiskOK
<1>6. DiskOK' /\ DirectoriesHaveTop'
  BY <1>5 DEF DiskOK, DirectoriesHaveTop
<1>7. LinksOK'
  BY <1>5 DEF LinksOK, WriteTmp, ThreadsOK, FlushOK
<1> QED BY <1>2, <1>6, <1>7

LEMMA ReplaceTypeInv ==
    ASSUME TypeInv, NEW t \in Threads, ReplaceTmp(t)
    PROVE  TypeInv'
<1> USE DEF TypeInv, TypeOK
<1> DEFINE k == target[t]
           i == idx[t]
           f == tmp[k][i]
<1>1. k \in Partitions /\ i \in Nat /\ i \in DOMAIN tmp[k] /\ f \in File
  BY DEF FlushOK, ReplaceTmp, DiskOK, IsDirectory
<1>2. MemoryOK' /\ ThreadsOK' /\ HistoryOK'
  BY DEF ReplaceTmp, MemoryOK, ThreadsOK, HistoryOK, memory, local, history
<1>3. FlushOK'
  BY WriterConstants DEF ReplaceTmp, Relink, FlushOK, FdStates, AnyPartition
<1>4. /\ part' = [part EXCEPT ![k] = Put(@, i, f)]
      /\ tmp' = [tmp EXCEPT ![k] = Drop(@, i)]
  BY DEF ReplaceTmp
<1>5. /\ IsDirectory(Put(part[k], i, f))
      /\ DOMAIN Put(part[k], i, f) = DOMAIN part[k] \cup {i}
  BY <1>1, PutDirectory DEF DiskOK
<1>6. /\ IsDirectory(Drop(tmp[k], i))
      /\ DOMAIN Drop(tmp[k], i) = DOMAIN tmp[k] \ {i}
  BY DropDirectory, <1>1 DEF DiskOK
<1>7. HasTop(DOMAIN part[k] \cup {i})
  BY <1>1, TopOfPut DEF DirectoriesHaveTop, DiskOK, IsDirectory
<1>8. DiskOK' /\ DirectoriesHaveTop'
  BY <1>1, <1>4, <1>5, <1>6, <1>7 DEF DiskOK, DirectoriesHaveTop
<1>9. LinksOK'
  <2> SUFFICES ASSUME NEW u \in Threads
               PROVE  /\ pc'[u] # "write" => fd'[u] = "closed"
                      /\ fd'[u] = "tmp" => idx'[u] \in DOMAIN tmp'[target'[u]]
                      /\ fd'[u] = "part" => idx'[u] \in DOMAIN part'[target'[u]]
    BY DEF LinksOK
  <2>1. CASE u = t
    BY <2>1 DEF ReplaceTmp, Relink, FlushOK
  <2>2. CASE u # t
    <3>1. idx'[u] = idx[u] /\ target'[u] = target[u] /\ pc'[u] = pc[u]
      BY <2>2 DEF ReplaceTmp, FlushOK, ThreadsOK
    <3>2. CASE target[u] = k /\ idx[u] = i
      <4>1. fd'[u] = IF fd[u] = "tmp" THEN "part"
                     ELSE IF fd[u] = "part" THEN "unlinked" ELSE fd[u]
        BY <2>2, <3>2 DEF ReplaceTmp, Relink, FlushOK
      <4>2. i \in DOMAIN part'[k]
        BY <1>1, <1>4, <1>5 DEF DiskOK
      <4> QED BY <3>1, <3>2, <4>1, <4>2 DEF LinksOK
    <3>3. CASE ~(target[u] = k /\ idx[u] = i)
      <4>1. fd'[u] = fd[u]
        BY <2>2, <3>3 DEF ReplaceTmp, Relink
      <4>2. /\ idx[u] \in DOMAIN tmp[target[u]] => idx[u] \in DOMAIN tmp'[target[u]]
            /\ idx[u] \in DOMAIN part[target[u]] => idx[u] \in DOMAIN part'[target[u]]
        BY <1>1, <1>4, <1>5, <1>6, <3>3 DEF DiskOK, FlushOK
      <4> QED BY <3>1, <4>1, <4>2 DEF LinksOK
    <3> QED BY <3>2, <3>3
  <2> QED BY <2>1, <2>2
<1> QED BY <1>2, <1>3, <1>8, <1>9

LEMMA ForgetTypes ==
    ASSUME TypeOK, NEW T \in SUBSET Threads, Forget(T)
    PROVE  /\ ThreadsOK'
           /\ flight' \in [Threads -> SUBSET Rows]
           /\ target' \in [Threads -> Partitions]
           /\ idx' \in [Threads -> Nat]
           /\ swept' \in [Threads -> SUBSET Rows]
BY WriterConstants DEF TypeOK, ThreadsOK, FlushOK, HistoryOK, Forget, AnyPartition

LEMMA RaiseTypeInv ==
    ASSUME TypeInv, NEW t \in Threads, FlushRaises(t)
    PROVE  TypeInv'
<1> USE DEF TypeInv, TypeOK
<1> DEFINE k == target[t]
           i == idx[t]
<1>1. k \in Partitions /\ i \in Nat /\ flight[t] \in SUBSET Rows
  BY DEF FlushOK
<1>2. MemoryOK'
  BY WriterConstants DEF FlushRaises, Release, MemoryOK
<1>3. Forget({t})
  BY DEF FlushRaises
<1>4. fd' \in [Threads -> FdStates]
  BY DEF FlushRaises, Relink, FdStates, FlushOK
<1>5. ThreadsOK' /\ FlushOK'
  BY <1>3, <1>4, ForgetTypes DEF FlushOK
<1>6. HistoryOK'
  BY <1>1, <1>3, ForgetTypes DEF FlushRaises, HistoryOK
<1>7. part' = part
  BY DEF FlushRaises
<1>8. /\ IsDirectory(Drop(tmp[k], i))
      /\ DOMAIN Drop(tmp[k], i) = DOMAIN tmp[k] \ {i}
  BY DropDirectory, <1>1 DEF DiskOK
<1>9. \/ tmp' = tmp /\ fd' = [fd EXCEPT ![t] = "closed"]
      \/ /\ tmp' = [tmp EXCEPT ![k] = Drop(@, i)]
         /\ fd' = Relink(t, [tmp |-> "unlinked"], "closed")
  BY DEF FlushRaises
<1>10. DiskOK' /\ DirectoriesHaveTop'
  BY <1>1, <1>7, <1>8, <1>9 DEF DiskOK, DirectoriesHaveTop
<1>11. LinksOK'
  <2> SUFFICES ASSUME NEW u \in Threads
               PROVE  /\ pc'[u] # "write" => fd'[u] = "closed"
                      /\ fd'[u] = "tmp" => idx'[u] \in DOMAIN tmp'[target'[u]]
                      /\ fd'[u] = "part" => idx'[u] \in DOMAIN part'[target'[u]]
    BY DEF LinksOK
  <2>1. CASE u = t
    BY <1>9, <2>1 DEF Relink, FlushOK
  <2>2. CASE u # t
    <3>1. idx'[u] = idx[u] /\ target'[u] = target[u] /\ pc'[u] = pc[u]
      BY <1>3, <2>2 DEF Forget
    <3>2. CASE tmp' = tmp /\ fd' = [fd EXCEPT ![t] = "closed"]
      BY <1>7, <2>2, <3>1, <3>2 DEF LinksOK, FlushOK
    <3>3. CASE /\ tmp' = [tmp EXCEPT ![k] = Drop(@, i)]
               /\ fd' = Relink(t, [tmp |-> "unlinked"], "closed")
      <4>1. CASE target[u] = k /\ idx[u] = i
        <5>1. fd'[u] = IF fd[u] = "tmp" THEN "unlinked" ELSE fd[u]
          BY <2>2, <3>3, <4>1 DEF Relink, FlushOK
        <5> QED BY <1>7, <3>1, <5>1 DEF LinksOK
      <4>2. CASE ~(target[u] = k /\ idx[u] = i)
        <5>1. fd'[u] = fd[u]
          BY <2>2, <3>3, <4>2 DEF Relink
        <5>2. idx[u] \in DOMAIN tmp[target[u]] => idx[u] \in DOMAIN tmp'[target[u]]
          BY <1>1, <1>8, <3>3, <4>2 DEF DiskOK, FlushOK
        <5> QED BY <1>7, <3>1, <5>1, <5>2 DEF LinksOK
      <4> QED BY <4>1, <4>2
    <3> QED BY <1>9, <3>2, <3>3
  <2> QED BY <2>1, <2>2
<1> QED BY <1>2, <1>5, <1>6, <1>10, <1>11

LEMMA CrashTypeInv ==
    ASSUME TypeInv, NEW w \in Writers, Crash(w)
    PROVE  TypeInv'
<1> USE DEF TypeInv, TypeOK
<1> DEFINE T == {t \in Threads : WriterOf[t] = w}
<1>1. MemoryOK'
  BY DEF Crash, MemoryOK
<1>2. Forget(T) /\ fd' = [t \in Threads |-> IF t \in T THEN "closed" ELSE fd[t]]
  BY DEF Crash
<1>3. ThreadsOK' /\ FlushOK'
  BY <1>2, ForgetTypes DEF FlushOK, FdStates
<1>4. HistoryOK'
  <2>1. InMemory(w) \in SUBSET Rows
    <3>1. UNION {buffers[w][k] : k \in Partitions} \in SUBSET Rows
      BY DEF MemoryOK
    <3>2. UNION {flight[t] : t \in {u \in Threads : WriterOf[u] = w}}
              \in SUBSET Rows
      BY DEF FlushOK
    <3> QED BY <3>1, <3>2 DEF InMemory
  <2> QED
    BY <1>2, <2>1, ForgetTypes DEF Crash, HistoryOK
<1>5. DiskOK' /\ DirectoriesHaveTop'
  BY DEF Crash, disk, DiskOK, DirectoriesHaveTop
<1>6. LinksOK'
  BY <1>2 DEF Crash, disk, Forget, LinksOK
<1> QED BY <1>1, <1>3, <1>4, <1>5, <1>6

LEMMA AgeTypeInv ==
    ASSUME TypeInv, NEW w \in Writers, NEW k \in Partitions, Age(w, k)
    PROVE  TypeInv'
<1> USE DEF TypeInv, TypeOK
<1>1. MemoryOK'
  BY DEF Age, MemoryOK
<1>2. ThreadsOK' /\ FlushOK' /\ HistoryOK'
  BY DEF Age, ThreadsOK, FlushOK, HistoryOK, local, flush, history
<1>3. DiskOK' /\ DirectoriesHaveTop' /\ LinksOK'
  BY DEF Age, flush, disk, DiskOK, DirectoriesHaveTop, LinksOK
<1> QED BY <1>1, <1>2, <1>3

LEMMA NextTypeInv == TypeInv /\ [Next]_vars => TypeInv'
<1> SUFFICES ASSUME TypeInv, [Next]_vars PROVE TypeInv'
  OBVIOUS
<1>1. CASE UNCHANGED vars
  BY <1>1 DEF TypeInv, TypeOK, MemoryOK, ThreadsOK, FlushOK, DiskOK, HistoryOK,
              DirectoriesHaveTop, LinksOK, memory, local, flush, disk, history, vars
<1>2. ASSUME NEW t \in Threads, Call(t) PROVE TypeInv'
  BY <1>2, AppendTypeInv, CallTypeInv DEF Call
<1>3. ASSUME NEW t \in Threads, Step(t) PROVE TypeInv'
  BY <1>3, BufferTypeInv, CallTypeInv, ScanTypeInv, OpenTypeInv, WriteTypeInv,
     ReplaceTypeInv, RaiseTypeInv DEF Step
<1>4. ASSUME NEW w \in Writers, Crash(w) \/ \E k \in Partitions : Age(w, k)
      PROVE  TypeInv'
  BY <1>4, CrashTypeInv, AgeTypeInv
<1> QED BY <1>1, <1>2, <1>3, <1>4 DEF Next

\* Every reachable state is well typed: in particular a flush always finds a
\* part number, and writes a file that is there, however instances interfere.
THEOREM TypeCorrect == Spec => []TypeOK
<1>1. TypeInv => TypeOK
  BY DEF TypeInv
<1> QED BY InitTypeInv, NextTypeInv, <1>1, PTL DEF Spec

-----------------------------------------------------------------------------
(* Threads: the lock excludes, and every instance keeps to its partitions *)

\* No partition is written by two instances ("one instance per process is
\* sufficient", one process per partition).
OwnsDisjoint ==
    \A v, w \in Writers : v # w => Owns[v] \cap Owns[w] = {}

Mutex ==
    /\ \A t \in Threads : pc[t] # "idle" => locked[WriterOf[t]]
    /\ \A t, u \in Threads :
          pc[t] # "idle" /\ pc[u] # "idle" /\ WriterOf[t] = WriterOf[u] => t = u

Ownership ==
    /\ \A w \in Writers : aged[w] \subseteq Owns[w]
    /\ \A w \in Writers : \A k \in Partitions :
          buffers[w][k] # {} => k \in Owns[w]
    /\ \A t \in Threads :
          /\ keys[t] \subseteq Owns[WriterOf[t]]
          /\ \A r \in todo[t] : PartitionOf[r] \in Owns[WriterOf[t]]
          /\ pc[t] \in Flushing => target[t] \in Owns[WriterOf[t]]

\* pc changes for one thread only, or a crash sends threads to "idle".
LEMMA NextMutex == TypeInv /\ Mutex /\ [Next]_vars => Mutex'
<1> SUFFICES ASSUME TypeInv, Mutex, [Next]_vars PROVE Mutex'
  OBVIOUS
<1> USE WriterConstants DEF Mutex, TypeInv, TypeOK, MemoryOK, ThreadsOK
<1>1. ASSUME NEW t \in Threads, Acquire(t), pc[t] = "idle",
             \E p : pc' = [pc EXCEPT ![t] = p]
      PROVE  Mutex'
  BY <1>1 DEF Acquire
<1>2. ASSUME NEW t \in Threads, Release(t), pc[t] # "idle",
             pc' = [pc EXCEPT ![t] = "idle"]
      PROVE  Mutex'
  BY <1>2 DEF Release
<1>3. ASSUME UNCHANGED locked, NEW t \in Threads, pc[t] # "idle",
             \E p : pc' = [pc EXCEPT ![t] = p]
      PROVE  Mutex'
  BY <1>3
<1>4. ASSUME UNCHANGED <<pc, locked>> PROVE Mutex'
  BY <1>4
<1>5. ASSUME NEW t \in Threads, Call(t) PROVE Mutex'
  <2>1. \/ Acquire(t) /\ pc[t] = "idle" /\ \E p : pc' = [pc EXCEPT ![t] = p]
        \/ UNCHANGED <<pc, locked>>
    BY <1>5 DEF Call, AppendMany, AppendRejected, FlushAll, FlushIdle, BeginSweep,
                memory
  <2> QED BY <1>1, <1>4, <2>1
<1>6. ASSUME NEW t \in Threads, Step(t) PROVE Mutex'
  <2>1. CASE FlushRaises(t)
    <3>1. pc' = [pc EXCEPT ![t] = "idle"]
      BY <2>1 DEF FlushRaises, Forget
    <3> QED BY <1>2, <2>1, <3>1 DEF FlushRaises, Flushing
  <2>2. CASE AppendReturns(t) \/ SweepReturns(t)
    BY <1>2, <2>2 DEF AppendReturns, SweepReturns
  <2>3. CASE \E k \in Partitions :
                 AppendBuffered(t, k) \/ AppendFlushes(t, k) \/ SweepNext(t, k)
    <3>1. \/ UNCHANGED <<pc, locked>>
          \/ /\ UNCHANGED locked /\ pc[t] # "idle"
             /\ pc' = [pc EXCEPT ![t] = "scan"]
      BY <2>3 DEF AppendBuffered, AppendFlushes, SweepNext, PopBuffer
    <3> QED BY <1>3, <1>4, <3>1
  <2>4. CASE ScanParts(t) \/ OpenTmp(t) \/ WriteTmp(t) \/ ReplaceTmp(t)
    <3>1. UNCHANGED locked /\ pc[t] # "idle" /\ \E p : pc' = [pc EXCEPT ![t] = p]
      BY <2>4 DEF ScanParts, OpenTmp, WriteTmp, ReplaceTmp, memory
    <3> QED BY <1>3, <3>1
  <2> QED BY <1>6, <2>1, <2>2, <2>3, <2>4 DEF Step
<1>7. ASSUME NEW w \in Writers, Crash(w) PROVE Mutex'
  <2>1. /\ pc' = [t \in Threads |-> IF WriterOf[t] = w THEN "idle" ELSE pc[t]]
        /\ locked' = [locked EXCEPT ![w] = FALSE]
    BY <1>7 DEF Crash, Forget
  <2> QED BY <2>1
<1>8. ASSUME NEW w \in Writers, NEW k \in Partitions, Age(w, k) PROVE Mutex'
  BY <1>4, <1>8 DEF Age
<1>9. CASE UNCHANGED vars
  BY <1>4, <1>9 DEF vars, memory
<1> QED BY <1>5, <1>6, <1>7, <1>8, <1>9 DEF Next

LEMMA NextOwnership == TypeInv /\ Ownership /\ [Next]_vars => Ownership'
<1> SUFFICES ASSUME TypeInv, Ownership, [Next]_vars PROVE Ownership'
  OBVIOUS
<1> USE WriterConstants DEF Ownership, TypeInv, TypeOK, MemoryOK, ThreadsOK, FlushOK
<1>1. ASSUME NEW t \in Threads, Call(t) PROVE Ownership'
  <2>1. CASE \E batch \in Batches(t) : AppendRejected(t, batch)
    BY <2>1 DEF AppendRejected, memory, local, flush
  <2>2. CASE \E batch \in Batches(t) : AppendMany(t, batch)
    BY <2>2 DEF AppendMany, Batches, flush, Flushing
  <2>3. CASE FlushAll(t) \/ FlushIdle(t)
    <3>1. BufferedKeys(WriterOf[t]) \subseteq Owns[WriterOf[t]]
          /\ aged[WriterOf[t]] \subseteq Owns[WriterOf[t]]
      BY DEF BufferedKeys
    <3> QED
      BY <2>3, <3>1 DEF FlushAll, FlushIdle, BeginSweep, flush, Flushing
  <2> QED BY <1>1, <2>1, <2>2, <2>3 DEF Call
<1>2. ASSUME NEW t \in Threads, Step(t) PROVE Ownership'
  <2>1. ASSUME NEW k \in Partitions, AppendBuffered(t, k) PROVE Ownership'
    <3>1. k \in Owns[WriterOf[t]]
      BY <2>1 DEF AppendBuffered, Group
    <3> QED BY <2>1, <3>1 DEF AppendBuffered, flush
  <2>2. ASSUME NEW k \in Partitions, k \in Owns[WriterOf[t]],
               NEW rows, PopBuffer(t, k, rows),
               todo'[t] \subseteq todo[t], keys'[t] \subseteq keys[t],
               \A u \in Threads \ {t} : todo'[u] = todo[u] /\ keys'[u] = keys[u]
        PROVE  Ownership'
    <3>1. \A w \in Writers : /\ aged'[w] \subseteq aged[w]
                             /\ \A l \in Partitions : buffers'[w][l] # {}
                                    => buffers[w][l] # {}
      BY <2>2 DEF PopBuffer
    <3>2. target'[t] = k /\ \A u \in Threads \ {t} : /\ target'[u] = target[u]
                                                     /\ pc'[u] = pc[u]
      BY <2>2 DEF PopBuffer
    <3> QED BY <2>2, <3>1, <3>2
  <2>3. ASSUME NEW k \in Partitions, AppendFlushes(t, k) PROVE Ownership'
    <3>1. k \in Owns[WriterOf[t]]
      BY <2>3 DEF AppendFlushes, Group
    <3> QED BY <2>2, <2>3, <3>1 DEF AppendFlushes
  <2>4. ASSUME NEW k \in Partitions, SweepNext(t, k) PROVE Ownership'
    <3>1. k \in Owns[WriterOf[t]]
      BY <2>4 DEF SweepNext
    <3> QED BY <2>2, <2>4, <3>1 DEF SweepNext
  <2>5. CASE AppendReturns(t) \/ SweepReturns(t)
    BY <2>5 DEF AppendReturns, SweepReturns, local, flush, Flushing
  <2>6. CASE ScanParts(t) \/ OpenTmp(t) \/ WriteTmp(t)
    BY <2>6 DEF ScanParts, OpenTmp, WriteTmp, memory, local, Flushing
  <2>7. CASE ReplaceTmp(t)
    BY <2>7 DEF ReplaceTmp, memory, local, Flushing
  <2>8. CASE FlushRaises(t)
    BY <2>8 DEF FlushRaises, Forget, Flushing
  <2> QED BY <1>2, <2>1, <2>3, <2>4, <2>5, <2>6, <2>7, <2>8 DEF Step
<1>3. ASSUME NEW w \in Writers, Crash(w) PROVE Ownership'
  BY <1>3 DEF Crash, Forget, Flushing
<1>4. ASSUME NEW w \in Writers, NEW k \in Partitions, Age(w, k) PROVE Ownership'
  BY <1>4 DEF Age, local, flush
<1>5. CASE UNCHANGED vars
  BY <1>5 DEF vars, memory, local, flush
<1> QED BY <1>1, <1>2, <1>3, <1>4, <1>5 DEF Next

\* Two flushes under way never go to the same partition.
LEMMA TargetsDiffer ==
    ASSUME TypeInv, Mutex, Ownership, OwnsDisjoint,
           NEW t \in Threads, NEW u \in Threads, t # u,
           pc[t] \in Flushing, pc[u] \in Flushing
    PROVE  target[t] # target[u]
<1>1. WriterOf[t] \in Writers /\ WriterOf[u] \in Writers
  BY WriterConstants
<1>2. WriterOf[t] # WriterOf[u]
  BY DEF Mutex, Flushing
<1> QED BY <1>1, <1>2 DEF OwnsDisjoint, Ownership

-----------------------------------------------------------------------------
(* The disk: a flush stages its own file and renames it to a free name *)

Partial(t) == [rows |-> {}, state |-> "partial", by |-> t]
Complete(t) == [rows |-> flight[t], state |-> "complete", by |-> t]

Slot(t) ==
    /\ pc[t] \in {"open", "write", "replace"} =>
           idx[t] \notin DOMAIN part[target[t]]
    /\ pc[t] = "write" => /\ fd[t] = "tmp"
                          /\ tmp[target[t]][idx[t]] = Partial(t)
    /\ pc[t] = "replace" => /\ idx[t] \in DOMAIN tmp[target[t]]
                            /\ tmp[target[t]][idx[t]] = Complete(t)

Slots == \A t \in Threads : Slot(t)

WriterInv == TypeInv /\ Mutex /\ Ownership /\ Slots /\ PublishedIsComplete

\* Every part keeps its contents.
PartsKept == \A k \in Partitions : \A i \in DOMAIN part[k] :
                 i \in DOMAIN part'[k] /\ part'[k][i] = part[k][i]

\* A step that touches no file and takes no thread to open, write or replace
\* keeps every slot.
LEMMA QuietSlots ==
    ASSUME TypeInv, Slots, PublishedIsComplete, UNCHANGED disk,
           \A t \in Threads :
               \/ pc'[t] \notin {"open", "write", "replace"}
               \/ /\ pc'[t] = pc[t] /\ target'[t] = target[t]
                  /\ idx'[t] = idx[t] /\ fd'[t] = fd[t] /\ flight'[t] = flight[t]
    PROVE  Slots' /\ PublishedIsComplete' /\ PartsKept
BY DEF Slots, Slot, Partial, Complete, PublishedIsComplete, PartsKept, disk

\* A step of t's flush that leaves every file of other partitions alone keeps
\* the slots of the other threads.
LEMMA OtherSlots ==
    ASSUME WriterInv, OwnsDisjoint, NEW t \in Threads, pc[t] \in Flushing,
           \A l \in Partitions \ {target[t]} : tmp'[l] = tmp[l] /\ part'[l] = part[l],
           \A u \in Threads \ {t} :
               /\ pc'[u] = pc[u] /\ target'[u] = target[u] /\ idx'[u] = idx[u]
               /\ flight'[u] = flight[u]
               /\ target[u] # target[t] => fd'[u] = fd[u]
    PROVE  \A u \in Threads \ {t} : Slot(u)'
<1> SUFFICES ASSUME NEW u \in Threads \ {t} PROVE Slot(u)'
  OBVIOUS
<1>1. CASE pc[u] \notin Flushing
  BY <1>1 DEF Slot, Flushing
<1>2. CASE pc[u] \in Flushing
  <2>1. target[u] # target[t] /\ target[u] \in Partitions
    BY <1>2, TargetsDiffer DEF WriterInv, TypeInv, TypeOK, FlushOK
  <2> QED
    BY <2>1 DEF WriterInv, Slots, Slot, Partial, Complete
<1> QED BY <1>1, <1>2

LEMMA ScanSlots ==
    ASSUME WriterInv, OwnsDisjoint, NEW t \in Threads, ScanParts(t)
    PROVE  Slots' /\ PublishedIsComplete' /\ PartsKept
<1> USE DEF WriterInv, TypeInv, TypeOK, ThreadsOK, FlushOK
<1>1. UNCHANGED disk /\ target' = target /\ flight' = flight /\ fd' = fd
  BY DEF ScanParts
<1>2. \A u \in Threads \ {t} : Slot(u)'
  <2>1. pc[t] \in Flushing
    BY DEF ScanParts, Flushing
  <2> QED
    BY <1>1, <2>1, OtherSlots DEF ScanParts, disk
<1>3. Slot(t)'
  <2>1. NextPartIndex(target[t]) \notin DOMAIN part[target[t]]
    BY NextPartIndexIsFresh
  <2> QED BY <1>1, <2>1 DEF ScanParts, Slot, disk
<1> QED
  BY <1>1, <1>2, <1>3 DEF Slots, PublishedIsComplete, PartsKept, disk

LEMMA OpenSlots ==
    ASSUME WriterInv, OwnsDisjoint, NEW t \in Threads, OpenTmp(t)
    PROVE  Slots' /\ PublishedIsComplete' /\ PartsKept
<1> USE DEF WriterInv, TypeInv, TypeOK, ThreadsOK, FlushOK, DiskOK
<1> DEFINE k == target[t]
           new == Put(tmp[k], idx[t], Partial(t))
<1>1. k \in Partitions /\ idx[t] \in Nat /\ IsDirectory(tmp[k])
  OBVIOUS
<1>2. /\ tmp' = [tmp EXCEPT ![k] = new] /\ part' = part
      /\ target' = target /\ idx' = idx /\ flight' = flight
      /\ fd' = [fd EXCEPT ![t] = "tmp"]
      /\ pc[t] = "open" /\ pc' = [pc EXCEPT ![t] = "write"]
  BY DEF OpenTmp, Partial
<1>3. \A u \in Threads \ {t} : Slot(u)'
  <2>1. pc[t] \in Flushing
    BY <1>2 DEF Flushing
  <2> QED BY <1>2, <2>1, OtherSlots
<1>4. Slot(t)'
  <2>1. new[idx[t]] = Partial(t)
    BY DEF Put
  <2> QED BY <1>1, <1>2, <2>1 DEF Slots, Slot, Partial
<1> QED
  BY <1>2, <1>3, <1>4 DEF Slots, PublishedIsComplete, PartsKept

LEMMA WriteSlots ==
    ASSUME WriterInv, OwnsDisjoint, NEW t \in Threads, WriteTmp(t)
    PROVE  Slots' /\ PublishedIsComplete' /\ PartsKept
<1> USE DEF WriterInv, TypeInv, TypeOK, ThreadsOK, FlushOK, DiskOK
<1> DEFINE k == target[t]
           i == idx[t]
           new == Put(tmp[k], i, Complete(t))
<1>1. k \in Partitions /\ i \in Nat /\ fd[t] = "tmp" /\ tmp[k][i] = Partial(t)
      /\ IsDirectory(tmp[k]) /\ i \in DOMAIN tmp[k] /\ i \notin DOMAIN part[k]
  BY DEF WriteTmp, Slots, Slot, LinksOK
<1>2. Written(tmp[k][i], t) = Complete(t)
  BY <1>1 DEF Written, Partial, Complete
<1>3. /\ tmp' = [tmp EXCEPT ![k] = new] /\ part' = part
      /\ target' = target /\ idx' = idx /\ flight' = flight
      /\ fd' = [fd EXCEPT ![t] = "closed"]
      /\ pc[t] = "write" /\ pc' = [pc EXCEPT ![t] = "replace"]
  BY <1>1, <1>2 DEF WriteTmp
<1>4. \A u \in Threads \ {t} : Slot(u)'
  <2>1. pc[t] \in Flushing
    BY <1>3 DEF Flushing
  <2> QED BY <1>3, <2>1, OtherSlots
<1>5. Slot(t)'
  <2>1. i \in DOMAIN new /\ new[i] = Complete(t)
    BY DEF Put
  <2>2. tmp'[k] = new /\ Complete(t)' = Complete(t)
    BY <1>1, <1>3 DEF Complete
  <2> QED BY <1>1, <1>3, <2>1, <2>2 DEF Slot
<1> QED
  BY <1>3, <1>4, <1>5 DEF Slots, PublishedIsComplete, PartsKept

LEMMA ReplaceSlots ==
    ASSUME WriterInv, OwnsDisjoint, NEW t \in Threads, ReplaceTmp(t)
    PROVE  Slots' /\ PublishedIsComplete' /\ PartsKept
<1> USE DEF WriterInv, TypeInv, TypeOK, ThreadsOK, FlushOK, DiskOK
<1> DEFINE k == target[t]
           i == idx[t]
           f == tmp[k][i]
           new == Put(part[k], i, f)
<1>1. k \in Partitions /\ i \in Nat /\ i \in DOMAIN tmp[k] /\ f \in File
      /\ IsDirectory(part[k]) /\ i \notin DOMAIN part[k] /\ f.state = "complete"
  <2>1. k \in Partitions /\ i \in Nat /\ IsDirectory(tmp[k]) /\ IsDirectory(part[k])
    OBVIOUS
  <2>2. i \in DOMAIN tmp[k] /\ i \notin DOMAIN part[k] /\ f = Complete(t)
    BY DEF ReplaceTmp, Slots, Slot
  <2>3. f \in File
    BY <2>1, <2>2 DEF IsDirectory
  <2> QED BY <2>1, <2>2, <2>3 DEF Complete
<1>2. /\ part' = [part EXCEPT ![k] = new]
      /\ tmp' = [tmp EXCEPT ![k] = Drop(@, i)]
      /\ fd' = Relink(t, [tmp |-> "part", part |-> "unlinked"], "closed")
      /\ \A u \in Threads \ {t} :
            /\ pc'[u] = pc[u] /\ target'[u] = target[u] /\ idx'[u] = idx[u]
            /\ flight'[u] = flight[u]
      /\ pc[t] = "replace" /\ pc'[t] \in {"append", "sweep"}
  BY DEF ReplaceTmp
<1>3. /\ DOMAIN new = DOMAIN part[k] \cup {i} /\ new[i] = f
      /\ \A j \in DOMAIN part[k] : new[j] = part[k][j]
  BY <1>1 DEF Put
<1>4. \A u \in Threads \ {t} : Slot(u)'
  <2>1. pc[t] \in Flushing
    BY <1>2 DEF Flushing
  <2>2. \A u \in Threads \ {t} : target[u] # target[t] => fd'[u] = fd[u]
    BY <1>2 DEF Relink
  <2> QED BY <1>2, <2>1, <2>2, OtherSlots
<1>5. Slot(t)'
  BY <1>2 DEF Slot
<1>6. part'[k] = new /\ \A l \in Partitions \ {k} : part'[l] = part[l]
  BY <1>1, <1>2
<1>7. PublishedIsComplete' /\ PartsKept
  BY <1>1, <1>3, <1>6 DEF PublishedIsComplete, PartsKept
<1> QED BY <1>4, <1>5, <1>7 DEF Slots

LEMMA RaiseSlots ==
    ASSUME WriterInv, OwnsDisjoint, NEW t \in Threads, FlushRaises(t)
    PROVE  Slots' /\ PublishedIsComplete' /\ PartsKept
<1> USE DEF WriterInv, TypeInv, TypeOK, ThreadsOK, FlushOK, DiskOK
<1>1. /\ part' = part /\ pc[t] \in Flushing /\ pc'[t] = "idle"
      /\ \A l \in Partitions \ {target[t]} : tmp'[l] = tmp[l]
      /\ \A u \in Threads \ {t} :
            /\ pc'[u] = pc[u] /\ target'[u] = target[u] /\ idx'[u] = idx[u]
            /\ flight'[u] = flight[u]
            /\ target[u] # target[t] => fd'[u] = fd[u]
  BY DEF FlushRaises, Forget, Relink
<1>2. \A u \in Threads \ {t} : Slot(u)'
  BY <1>1, OtherSlots
<1>3. Slot(t)'
  BY <1>1 DEF Slot
<1> QED
  BY <1>1, <1>2, <1>3 DEF Slots, PublishedIsComplete, PartsKept

LEMMA NextSlots ==
    ASSUME OwnsDisjoint, WriterInv, [Next]_vars
    PROVE  Slots' /\ PublishedIsComplete' /\ PartsKept
<1> USE DEF WriterInv, TypeInv, TypeOK, ThreadsOK, FlushOK
<1>1. ASSUME NEW t \in Threads, Call(t)
      PROVE  Slots' /\ PublishedIsComplete' /\ PartsKept
  BY <1>1, QuietSlots DEF Call, AppendMany, AppendRejected, FlushAll, FlushIdle,
                          BeginSweep, flush
<1>2. ASSUME NEW t \in Threads, NEW k \in Partitions,
             AppendBuffered(t, k) \/ AppendFlushes(t, k) \/ SweepNext(t, k)
      PROVE  Slots' /\ PublishedIsComplete' /\ PartsKept
  BY <1>2, QuietSlots DEF AppendBuffered, AppendFlushes, SweepNext, PopBuffer, flush
<1>3. ASSUME NEW t \in Threads, AppendReturns(t) \/ SweepReturns(t)
      PROVE  Slots' /\ PublishedIsComplete' /\ PartsKept
  BY <1>3, QuietSlots DEF AppendReturns, SweepReturns, flush
<1>4. ASSUME NEW t \in Threads, Step(t)
      PROVE  Slots' /\ PublishedIsComplete' /\ PartsKept
  BY <1>2, <1>3, <1>4, ScanSlots, OpenSlots, WriteSlots, ReplaceSlots, RaiseSlots
     DEF Step
<1>5. ASSUME NEW w \in Writers, Crash(w)
      PROVE  Slots' /\ PublishedIsComplete' /\ PartsKept
  BY <1>5, QuietSlots DEF Crash, Forget
<1>6. ASSUME NEW w \in Writers, NEW k \in Partitions, Age(w, k)
      PROVE  Slots' /\ PublishedIsComplete' /\ PartsKept
  BY <1>6, QuietSlots DEF Age, flush
<1>7. CASE UNCHANGED vars
  BY <1>7, QuietSlots DEF vars, flush
<1> QED BY <1>1, <1>4, <1>5, <1>6, <1>7 DEF Next

LEMMA InitWriterInv == Init => WriterInv
<1> SUFFICES ASSUME Init PROVE WriterInv
  OBVIOUS
<1>1. TypeInv
  BY InitTypeInv
<1>2. Mutex /\ Ownership /\ Slots /\ PublishedIsComplete
  BY WriterConstants DEF Init, Mutex, Ownership, Slots, Slot, PublishedIsComplete,
                         OldFile, Flushing
<1> QED BY <1>1, <1>2 DEF WriterInv

LEMMA NextWriterInv ==
    ASSUME OwnsDisjoint
    PROVE  WriterInv /\ [Next]_vars => WriterInv' /\ PartsKept
BY NextTypeInv, NextMutex, NextOwnership, NextSlots DEF WriterInv

\* writer.py:10, "a reader never sees a half-written file": with one instance
\* per partition every file under a part name is complete, whatever flushes,
\* failures and crashes have happened.
THEOREM PartsAreComplete ==
    ASSUME OwnsDisjoint
    PROVE  Spec => []PublishedIsComplete
<1>1. WriterInv => PublishedIsComplete
  BY DEF WriterInv
<1> QED BY InitWriterInv, NextWriterInv, <1>1, PTL DEF Spec

\* With one instance per partition no part is ever overwritten or removed.
THEOREM PartsAreImmutable ==
    ASSUME OwnsDisjoint
    PROVE  Spec => PartsImmutable
<1>1. WriterInv /\ [Next]_vars =>
          [\A k \in Partitions : \A i \in DOMAIN part[k] :
               i \in DOMAIN part'[k] /\ part'[k][i] = part[k][i]]_vars
  BY NextWriterInv DEF PartsKept
<1> QED BY InitWriterInv, NextWriterInv, <1>1, PTL DEF Spec, PartsImmutable

-----------------------------------------------------------------------------
(* Thresholds *)

Below == \A w \in Writers : \A k \in Partitions :
             buffers[w][k] = {} \/ ~Full(buffers[w][k])

LEMMA NextBelow == TypeInv /\ Below /\ [Next]_vars => Below'
<1> SUFFICES ASSUME TypeInv, Below, [Next]_vars PROVE Below'
  OBVIOUS
<1> USE WriterConstants DEF Below, TypeInv, TypeOK, MemoryOK
<1>1. ASSUME UNCHANGED buffers PROVE Below'
  BY <1>1 DEF Full
<1>2. ASSUME NEW t \in Threads, NEW k \in Partitions, NEW rows,
             buffers' = [buffers EXCEPT ![WriterOf[t]][k] = rows],
             rows = {} \/ ~Full(rows)
      PROVE  Below'
  BY <1>2 DEF Full
<1>3. ASSUME NEW t \in Threads, Call(t) PROVE Below'
  BY <1>1, <1>3 DEF Call, AppendMany, AppendRejected, FlushAll, FlushIdle,
                    BeginSweep, memory
<1>4. ASSUME NEW t \in Threads, Step(t) PROVE Below'
  <2>1. ASSUME NEW k \in Partitions, AppendBuffered(t, k) PROVE Below'
    BY <1>2, <2>1 DEF AppendBuffered
  <2>2. ASSUME NEW k \in Partitions, AppendFlushes(t, k) \/ SweepNext(t, k)
        PROVE  Below'
    <3>1. buffers' = [buffers EXCEPT ![WriterOf[t]][k] = {}]
      BY <2>2 DEF AppendFlushes, SweepNext, PopBuffer
    <3> QED BY <1>2, <3>1
  <2>3. CASE AppendReturns(t) \/ SweepReturns(t) \/ ScanParts(t) \/ OpenTmp(t)
             \/ WriteTmp(t) \/ ReplaceTmp(t) \/ FlushRaises(t)
    BY <1>1, <2>3 DEF AppendReturns, SweepReturns, ScanParts, OpenTmp, WriteTmp,
                      ReplaceTmp, FlushRaises, memory
  <2> QED BY <1>4, <2>1, <2>2, <2>3 DEF Step
<1>5. ASSUME NEW w \in Writers, Crash(w) PROVE Below'
  BY <1>5 DEF Crash, Full
<1>6. ASSUME NEW w \in Writers, NEW k \in Partitions, Age(w, k) PROVE Below'
  BY <1>1, <1>6 DEF Age
<1>7. CASE UNCHANGED vars
  BY <1>1, <1>7 DEF vars, memory
<1> QED BY <1>3, <1>4, <1>5, <1>6, <1>7 DEF Next

\* No buffer rests at max_rows or max_bytes: whoever appends past a threshold
\* flushes before the lock is free again, and a flush that raises has already
\* emptied the buffer.
THEOREM ThresholdsHold == Spec => []BuffersBelowThresholds
<1>1. Init => Below
  BY DEF Init, Below
<1>2. Below => BuffersBelowThresholds
  BY DEF Below, BuffersBelowThresholds, Full
<1> QED BY InitTypeInv, NextTypeInv, NextBelow, <1>1, <1>2, PTL DEF Spec
=============================================================================
