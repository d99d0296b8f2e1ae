SPECIFICATION FairSpec
CONSTANTS
    w1 = w1  w2 = w2  t1 = t1  t2 = t2  a = a  b = b
    r1 = r1  r2 = r2  r3 = r3  r4 = r4  bad = bad
    Writers = {w1}
    Threads = {t1, t2}
    WriterOf <- OneWriterOf
    Partitions = {a, b}
    Owns <- OneOwns
    Rows = {r1, r2, r3, bad}
    PartitionOf <- MCPartitionOf
    EstBytes <- MCEstBytes
    Invalid = {bad}
    Unconvertible = {r2}
    MaxRows = 2
    MaxBytes = 4
    OldIndices <- MCOldIndices
INVARIANTS
    TypeOK
    AckedRowsAccounted
    RowInOnePlace
    BuffersBelowThresholds
    RejectedLeaveNoTrace
    PublishedIsComplete
PROPERTIES
    PartsImmutable
    FlushAllPublishes
    DurableSpec
    LockIsReleased
    BufferedRowsSettle
