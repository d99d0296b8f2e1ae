---------------------------- MODULE DurableRows ----------------------------
(***************************************************************************)
(* What ParquetWriter promises of the rows it accepts: a row is accepted   *)
(* once; from then on it is pending until it is published, which is final, *)
(* or lost with the flush or the process that held it.                     *)
(***************************************************************************)
VARIABLES pending, published, lost

vars == <<pending, published, lost>>

OnePlace ==
    /\ pending \cap published = {}
    /\ pending \cap lost = {}
    /\ published \cap lost = {}

Init == pending = {} /\ published = {} /\ lost = {}

\* Rows are accepted, published, lost: any of them, of several rows at once.
Move ==
    /\ published \subseteq published'
    /\ lost \subseteq lost'
    /\ pending \subseteq pending' \cup published' \cup lost'
    /\ OnePlace'

Spec == Init /\ [][Move]_vars
=============================================================================
