--------------------------- MODULE MCAsOfContext ---------------------------
(* Instances of AsOfContext for TLC. *)
EXTENDS AsOfContext, TLC, Functions

CONSTANTS tick, quote, r1, r2, q1

\* Hours of two units and days of two hours: r1 is in the last hour of a day,
\* r2 in the first of the next one, and q1 is of the hour of r1 and of another
\* stream.
MCStreamOf == Restrict(r1 :> tick @@ r2 :> tick @@ q1 :> quote, Rows)
MCEventOf == Restrict(r1 :> 2 @@ r2 :> 4 @@ q1 :> 3, Rows)

\* An hour behind UTC: the local date of the first hour of a day is the day
\* before.
Behind == {-2}
=============================================================================
