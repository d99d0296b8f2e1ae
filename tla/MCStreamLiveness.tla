-------------------------- MODULE MCStreamLiveness --------------------------
(* Instances of StreamLiveness for TLC. *)
EXTENDS StreamLiveness

CONSTANTS ea, eb

Event(en, ws, ts) == [entity |-> en, window |-> ws, ts |-> ts, id |-> 1]
Again(v) == [v EXCEPT !.id = 2]
Label(en, ws) == [entity |-> en, window |-> ws, set |-> TRUE]
Undetermined(l) == [l EXCEPT !.set = FALSE]

\* Windows of four units.  The first of ea can be ok or begin late, with two rows
\* at one instant, and has an event spilled so far past its close that a lookback
\* of four can see it and not the second window; the second can have a blackout
\* up to an event past its close, or be missing; a third, and one of another
\* entity.
SomeEvents ==
    {Event(ea, 0, 1), Event(ea, 0, 3), Again(Event(ea, 0, 3)), Event(ea, 0, 5),
     Event(ea, 4, 4), Event(ea, 4, 8), Event(ea, 8, 9), Event(eb, 4, 4)}
SomeLabels == {Label(ea, 4), Undetermined(Label(ea, 4))}

OfOne == {v \in SomeEvents : v.entity = ea}
=============================================================================
