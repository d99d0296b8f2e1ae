---------------------------- MODULE PointInTime ----------------------------
(***************************************************************************)
(* What AsOfContext promises a feature: a read of a window that ends at or *)
(* before the cutoff shows, in one step, the rows of the window that were  *)
(* in the lake when the context was made, those the context has returned   *)
(* before, and possibly some of the ones published since.  A query that    *)
(* fails shows nothing, and may make later reads of its stream blank until *)
(* the next context.                                                       *)
(***************************************************************************)
EXTENDS Integers

CONSTANTS Rows, Streams, StreamOf, EventOf, Times

VARIABLES
    lake, cutoff,
    base,         \* the lake when the context was made
    seen,         \* every row shown
    blind,        \* streams a query of which has failed
    shown         \* the last answer, while no other read is under way

Answers == [stream : Streams, lo : Times, hi : Times, rows : SUBSET Rows]

vars == <<lake, cutoff, base, seen, blind, shown>>

Window(s, lo, hi, rows) ==
    {r \in rows : StreamOf[r] = s /\ lo <= EventOf[r] /\ EventOf[r] < hi}

Init ==
    /\ lake = {} /\ cutoff \in Times
    /\ base = {} /\ seen = {} /\ blind = {} /\ shown = {}

Open(c) ==
    /\ cutoff' = c
    /\ base' = lake
    /\ seen' = {} /\ blind' = {} /\ shown' = {}
    /\ UNCHANGED lake

Publish(S) ==
    /\ lake' = lake \cup S
    /\ UNCHANGED <<cutoff, base, seen, blind, shown>>

\* What a read of a window may return.
Views(s, lo, hi) ==
    {V \in SUBSET Window(s, lo, hi, lake) :
        Window(s, lo, hi, base \cup seen) \subseteq V}

\* A read of a window that ends at or before the cutoff is answered.
Show(a) ==
    /\ a.hi <= cutoff
    /\ shown' = {a}
    /\ seen' = seen \cup a.rows
    /\ UNCHANGED <<lake, cutoff, base>>

\* A read begins, and may raise.
Ask ==
    /\ shown' = {}
    /\ UNCHANGED <<lake, cutoff, base, seen, blind>>

Read(a) ==
    /\ Show(a)
    /\ a.rows \in Views(a.stream, a.lo, a.hi)
    /\ UNCHANGED blind

ReadBlank(a) ==
    /\ a.rows = {} /\ a.stream \in blind
    /\ Show(a)
    /\ UNCHANGED blind

Fail(a) ==
    /\ a.rows = {}
    /\ Show(a)
    /\ blind' = blind \cup {a.stream}

Next ==
    \/ \E c \in Times : Open(c)
    \/ \E S \in SUBSET Rows : Publish(S)
    \/ Ask
    \/ \E a \in shown' \cap Answers : Read(a) \/ ReadBlank(a) \/ Fail(a)

Spec == Init /\ [][Next]_vars
=============================================================================
