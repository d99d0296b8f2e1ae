--------------------------- MODULE FeatureRegistry ---------------------------
(***************************************************************************)
(* The feature registry (features/registry.py): a dict of FeatureSpecs by  *)
(* name, in the order of registration.  A feature pack is a module whose   *)
(* @feature decorators run one after the other when it is imported; the    *)
(* first one that raises ends the import, and what was registered before   *)
(* it stays.  The registry is used by one thread.                          *)
(***************************************************************************)
EXTENDS Integers, Sequences, FiniteSets, Functions

CONSTANTS
    Packs,        \* feature packs: sequences of specs
    Own           \* specs registered one by one, outside a pack

VARIABLE specs    \* FeatureRegistry._specs

ASSUME RegistryConstants ==
    /\ \A p \in Packs : /\ p \in Seq(Range(p))
                        /\ \A i, j \in DOMAIN p : p[i].name = p[j].name => i = j
                        /\ Range(p) \cap Own = {}
    /\ \A p, q \in Packs : p # q => Range(p) \cap Range(q) = {}

Declared == Own \cup UNION {Range(p) : p \in Packs}

Names == {specs[i].name : i \in DOMAIN specs}

\* MUTANT of Registered: a taken name is skipped and the import goes on.
RegisteredSkipping(list) ==
    specs \o SelectSeq(list, LAMBDA s : s.name \notin Names)

\* The specs of a list that are registered before one raises ValueError, after
\* those that are there.
Registered(list) ==
    LET free == {n \in 0 .. Len(list) : \A i \in 1 .. n : list[i].name \notin Names}
    IN  specs \o SubSeq(list, 1, CHOOSE n \in free : \A m \in free : m <= n)

Register(s) == specs' = Registered(<<s>>)

\* The first import of a pack, the next one after an import that raised, or
\* a reload.
Import(p) == specs' = Registered(p)

Clear == specs' = <<>>

\* A finite set of numbers in ascending order.
Ascending(S) ==
    [k \in 1 .. Cardinality(S) |->
        CHOOSE x \in S : Cardinality({y \in S : y <= x}) = k]

\* The elements of a list at the positions in S: a list comprehension with a
\* condition.  (Facts about SelectSeq are out of the prover's reach.)
Sublist(list, S) ==
    LET at == Ascending(S) IN [k \in DOMAIN at |-> list[at[k]]]

\* list(entity_type).
List(type) == Sublist(specs, {i \in DOMAIN specs : specs[i].type = type})

RegistryInit == specs = <<>>

RegistryNext ==
    \/ \E s \in Own : Register(s)
    \/ \E p \in Packs : Import(p)
    \/ Clear

\* The registered features of a pack are the first ones of the pack, side by
\* side and in its order, whatever was imported, refused, retried, reloaded and
\* cleared before: no other feature reads between two of them.  One that is cut
\* short ends before a name that is taken.
PackStaysTogether ==
    \A p \in Packs :
        \E at \in 0 .. Len(specs) : \E n \in 0 .. Len(specs) - at :
            /\ n <= Len(p) /\ \A i \in 1 .. n : specs[at + i] = p[i]
            /\ n \in 1 .. Len(p) - 1 => p[n + 1].name \in Names
            /\ \A i \in DOMAIN specs : specs[i] \in Range(p) => i \in at + 1 .. at + n
=============================================================================
