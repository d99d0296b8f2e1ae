-------------------------- MODULE MCParquetWriter --------------------------
(* Instances of ParquetWriter for TLC. *)
EXTENDS ParquetWriter, TLC

CONSTANTS w1, w2, t1, t2, a, b, r1, r2, r3, r4, bad

\* One instance, called by two threads, with rows for two partitions.
OneWriterOf == [t \in {t1, t2} |-> w1]
OneOwns == [w \in {w1} |-> {a, b}]

\* Two instances with a thread each: w1 is given the rows of a, w2 those of b.
TwoWriterOf == t1 :> w1 @@ t2 :> w2
SplitOwns == w1 :> {a} @@ w2 :> {b}

\* Two instances that are both given the rows of a.
SharedOwns == [w \in {w1, w2} |-> {a}]

\* a holds part-0001 only: part-0000 was removed by hand.
MCOldIndices == Restrict(a :> {1} @@ b :> {}, Partitions)

MCPartitionOf ==
    Restrict(r1 :> a @@ r2 :> a @@ r3 :> b @@ r4 :> b @@ bad :> a, Rows)

\* r1 and r2 together reach a MaxRows of 2 and not a MaxBytes of 4; r3 reaches
\* MaxBytes alone.
MCEstBytes ==
    Restrict(r1 :> 1 @@ r2 :> 2 @@ r3 :> 4 @@ r4 :> 1 @@ bad :> 1, Rows)
=============================================================================
