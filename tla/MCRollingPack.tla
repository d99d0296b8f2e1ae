--------------------------- MODULE MCRollingPack ---------------------------
(* Instances of RollingPack for TLC. *)
EXTENDS RollingPack

CONSTANTS tick, r1, r2, r3, r4, sa, sx

JustRolling == {Rolling}
NoOwn == {}

\* A feature of a wider window under a name of the pack, and one that reads from
\* a start in another zone.
WideLast == [name |-> "last", type |-> "series", window |-> 4, off |-> None]
Local == [name |-> "local", type |-> "series", window |-> 1, off |-> 2]
WideAndLocal == {WideLast, Local}

\* The end of a day, in UTC and behind it.
Zones == {-1, 0, 2}
TwoPoints == [ts : {4}, off : {-1, 0}]
OnePoint == [ts : {4}, off : {0}]

MCSource == sa :> tick
MCStreamOf == [r \in Rows |-> tick]

\* Hours of two units and days of two hours; r2 and r3 are of one instant.
MCEventOf == Restrict(r1 :> 1 @@ r2 :> 2 @@ r3 :> 2 @@ r4 :> 3, Rows)

\* Sums and quotients of these are exact with 10 digits.
MCValueOf == Restrict(r1 :> 12 @@ r2 :> 24 @@ r3 :> 0 @@ r4 :> None, Rows)
MCSizeOf == Restrict(r1 :> 1 @@ r2 :> 2 @@ r3 :> None @@ r4 :> 1, Rows)

\* With 4 digits, 3 * 14 is 40 and 40 / 3 is 13.
Flat == [r \in Rows |-> 14]
=============================================================================
