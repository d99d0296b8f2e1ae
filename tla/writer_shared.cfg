SPECIFICATION Spec
CONSTANTS
    w1 = w1  w2 = w2  t1 = t1  t2 = t2  a = a  b = b
    r1 = r1  r2 = r2  r3 = r3  r4 = r4  bad = bad
    Writers = {w1, w2}
    Threads = {t1, t2}
    WriterOf <- TwoWriterOf
    Partitions = {a}
    Owns <- SharedOwns
    Rows = {r1, r2}
    PartitionOf <- MCPartitionOf
    EstBytes <- MCEstBytes
    Invalid = {}
    Unconvertible = {}
    MaxRows = 1
    MaxBytes = 5
    OldIndices <- MCOldIndices
INVARIANTS
    PublishedIsComplete
