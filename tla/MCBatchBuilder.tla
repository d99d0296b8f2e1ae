--------------------------- MODULE MCBatchBuilder ---------------------------
(* Instances of BatchBuilder for TLC. *)
EXTENDS BatchBuilder, TLC

CONSTANTS ea, eb, ec, short, long, other, tick, noise, x1, x2, x3, x4

MCEntityType == Restrict(ea :> "series" @@ eb :> "series" @@ ec :> "device", Entities)
MCFeatureType ==
    Restrict(short :> "series" @@ long :> "series" @@ other :> "device", Features)
MCLookback == Restrict(short :> 1 @@ long :> 2 @@ other :> 1, Features)

\* ea reads tick; eb has no route.
MCSource == ea :> tick

MCStreamOf == Restrict(x1 :> tick @@ x2 :> tick @@ x3 :> tick @@ x4 :> noise, Raw)
MCEventOf == Restrict(x1 :> 0 @@ x2 :> 1 @@ x3 :> 2 @@ x4 :> 1, Raw)

Job(fs, es, s, t, d) ==
    [features |-> fs, entities |-> es, start |-> s, end |-> t, step |-> d]

\* A grid of two points, one feature, one entity.
OneEntity == {Job(<<long>>, <<ea>>, 1, 2, 1)}

\* Entities of two types, one of them without a route, and an interval that does
\* not divide the span.
Mixed == {Job(<<short, other>>, <<ec, ea, eb>>, 1, 2, 2)}

\* A build without features for one of its entities, and what the constructor
\* refuses.
Odd == {Job(<<other>>, <<ea, ec>>, 1, 2, 1),
        Job(<<short>>, <<ea>>, 1, 2, 0), Job(<<short>>, <<ea>>, 2, 1, 1),
        Job(<<>>, <<ea>>, 1, 2, 1), Job(<<short>>, <<>>, 1, 2, 1)}

SomeJobs == OneEntity \cup Mixed \cup Odd
=============================================================================
