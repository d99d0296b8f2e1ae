------------------------- MODULE NumberFacts_proofs -------------------------
(***************************************************************************)
(* Facts about numbers that the proofs of several modules need: least and  *)
(* greatest elements of finite sets, those that min() and max() of the     *)
(* code return; the rank of an element; induction, powers of two, and      *)
(* values computed step by step, as sum() computes them.                   *)
(***************************************************************************)
EXTENDS Integers, FiniteSets, FiniteSetTheorems, WellFoundedInduction, TLAPS

\* A set of natural numbers has a least element.
LEMMA LeastNatural ==
    ASSUME NEW S \in SUBSET Nat, S # {}
    PROVE  \E least \in S : \A n \in S : least <= n
<1> DEFINE R == OpToRel(<, Nat)
<1>1. IsWellFoundedOn(R, Nat)
  BY NatLessThanWellFounded
<1>2. \A i, j \in Nat : i < j => <<i, j>> \in R
  BY DEF OpToRel
<1> HIDE DEF R
<1>3. PICK least \in S : \A n \in S : ~ (<<n, least>> \in R)
  BY <1>1, WFMin
<1>4. \A n \in S : ~ (n < least)
  BY <1>2, <1>3
<1>5. \A n \in S : n \in Nat /\ least \in Nat
  OBVIOUS
<1> QED BY <1>4, <1>5

\* A finite set of integers has a greatest element: one with the fewest elements
\* above it.
LEMMA GreatestElement ==
    ASSUME NEW S \in SUBSET Int, IsFiniteSet(S), S # {}
    PROVE  \E top \in S : \A i \in S : i <= top
<1> DEFINE above(i) == {j \in S : j > i}
           counts == {Cardinality(above(i)) : i \in S}
<1>1. \A i \in S : IsFiniteSet(above(i)) /\ Cardinality(above(i)) \in Nat
  <2> TAKE i \in S
  <2>1. above(i) \in SUBSET S
    OBVIOUS
  <2> HIDE DEF above
  <2>2. IsFiniteSet(above(i))
    BY <2>1, FS_Subset
  <2> QED BY <2>2, FS_CardinalityType
<1>2. counts \in SUBSET Nat /\ counts # {}
  BY <1>1
<1>3. PICK least \in counts : \A c \in counts : least <= c
  <2> HIDE DEF counts
  <2> QED BY <1>2, LeastNatural
<1>4. PICK top \in S : least = Cardinality(above(top))
  BY <1>3
<1>5. ASSUME NEW i \in S, i > top PROVE FALSE
  <2>1. above(i) \subseteq above(top) /\ i \in above(top) /\ i \notin above(i)
    <3>1. i \in Int /\ top \in Int /\ ~(i > i) /\ \A j \in Int : j > i => j > top
      BY <1>5
    <3> QED BY <1>5, <3>1
  <2>2. Cardinality(above(i)) <= Cardinality(above(top)) /\ above(i) # above(top)
        /\ (Cardinality(above(i)) = Cardinality(above(top)) => above(i) = above(top))
    <3> HIDE DEF above
    <3> QED BY <1>1, <2>1, FS_Subset
  <2>3. Cardinality(above(top)) <= Cardinality(above(i))
    BY <1>3, <1>4
  <2>4. Cardinality(above(i)) \in Nat /\ Cardinality(above(top)) \in Nat
    BY <1>1
  <2> HIDE DEF above
  <2> QED BY <2>2, <2>3, <2>4
<1> QED BY <1>5

LEMMA LeastElement ==
    ASSUME NEW S \in SUBSET Int, IsFiniteSet(S), S # {}
    PROVE  \E least \in S : \A i \in S : least <= i
<1> DEFINE minus == [i \in S |-> -i]
           T == {-i : i \in S}
<1>1. minus \in Surjection(S, T)
  BY DEF Surjection
<1>2. IsFiniteSet(T)
  <2> HIDE DEF minus, T
  <2> QED BY <1>1, FS_Surjection
<1>3. T \in SUBSET Int /\ T # {}
  OBVIOUS
<1>4. PICK top \in T : \A j \in T : j <= top
  <2> HIDE DEF T
  <2> QED BY <1>2, <1>3, GreatestElement
<1>5. PICK least \in S : top = -least
  BY <1>4
<1>6. \A i \in S : -i \in T
  OBVIOUS
<1>7. \A i \in S : -i <= -least
  BY <1>4, <1>5, <1>6
<1> QED BY <1>7

-----------------------------------------------------------------------------
(* Induction, with a set in the place of a predicate *)

LEMMA Induction ==
    ASSUME NEW m \in Nat, NEW S, 0 \in S, \A n \in 0 .. m - 1 : n \in S => n + 1 \in S
    PROVE  \A n \in 0 .. m : n \in S
<1> DEFINE gaps == {n \in 0 .. m : n \notin S}
<1> SUFFICES ASSUME gaps # {} PROVE FALSE
  OBVIOUS
<1>1. gaps \in SUBSET Nat
  OBVIOUS
<1>2. PICK least \in gaps : \A n \in gaps : least <= n
  <2> HIDE DEF gaps
  <2> QED BY <1>1, LeastNatural
<1>3. least \in 1 .. m /\ least - 1 \in 0 .. m - 1
  BY <1>2
<1>4. least - 1 \notin gaps
  BY <1>2, <1>3
<1> QED BY <1>2, <1>3, <1>4

\* What is computed from one value after the other, as sum() does, is computed.
LEMMA StepByStep ==
    ASSUME NEW m \in Nat, NEW Step \in [Int \X (1 .. m) -> Int]
    PROVE  \E s \in [0 .. m -> Int] :
              s = [i \in 0 .. m |-> IF i = 0 THEN 0 ELSE Step[<<s[i - 1], i>>]]
<1> DEFINE Upto(s, n) == /\ s \in [0 .. n -> Int] /\ s[0] = 0
                         /\ \A i \in 1 .. n : s[i] = Step[<<s[i - 1], i>>]
           S == {n \in 0 .. m : \E s : Upto(s, n)}
<1>1. 0 \in S
  <2>1. Upto([i \in 0 .. 0 |-> 0], 0)
    OBVIOUS
  <2>2. 0 \in 0 .. m
    OBVIOUS
  <2> HIDE DEF Upto
  <2> QED BY <2>1, <2>2
<1>2. ASSUME NEW n \in 0 .. m - 1, n \in S PROVE n + 1 \in S
  <2>1. PICK s : Upto(s, n)
    BY <1>2
  <2> DEFINE t == [i \in 0 .. n + 1 |-> IF i = n + 1 THEN Step[<<s[n], i>>] ELSE s[i]]
  <2>2. n + 1 \in 1 .. m /\ s[n] \in Int
    BY <2>1
  <2>3. t \in [0 .. n + 1 -> Int] /\ t[0] = 0
    BY <2>1, <2>2
  <2>4. ASSUME NEW i \in 1 .. n + 1 PROVE t[i] = Step[<<t[i - 1], i>>]
    BY <2>1
  <2>5. Upto(t, n + 1)
    BY <2>3, <2>4
  <2>6. n + 1 \in 0 .. m
    OBVIOUS
  <2> HIDE DEF Upto, t
  <2> QED BY <2>5, <2>6
<1>3. m \in S
  <2> HIDE DEF S
  <2> QED BY <1>1, <1>2, Induction
<1>4. PICK s : Upto(s, m)
  BY <1>3
<1>5. s = [i \in 0 .. m |-> IF i = 0 THEN 0 ELSE Step[<<s[i - 1], i>>]]
  BY <1>4
<1> QED BY <1>4, <1>5

-----------------------------------------------------------------------------
(* Powers of two, which count the subsets of a set *)

LEMMA PowerOfZero == 2 ^ 0 = 1
OBVIOUS

LEMMA PowerDoubles ==
    ASSUME NEW k \in Nat
    PROVE  2 ^ k \in Nat /\ 2 ^ (k + 1) = 2 * 2 ^ k
<1> DEFINE few == SUBSET (1 .. k)
           more == {T \cup {k + 1} : T \in few}
           grow == [T \in few |-> T \cup {k + 1}]
<1>1. IsFiniteSet(1 .. k) /\ Cardinality(1 .. k) = k
  BY FS_Interval
<1>2. IsFiniteSet(1 .. k + 1) /\ Cardinality(1 .. k + 1) = k + 1
  BY FS_Interval
<1>3. IsFiniteSet(few) /\ Cardinality(few) = 2 ^ k
  BY <1>1, FS_SUBSET
<1>4. Cardinality(SUBSET (1 .. k + 1)) = 2 ^ (k + 1)
  BY <1>2, FS_SUBSET
<1>5. \A T \in few : k + 1 \notin T
  OBVIOUS
<1>6. grow \in Bijection(few, more)
  <2>1. \A T, U \in few : T \cup {k + 1} = U \cup {k + 1} => T = U
    BY <1>5
  <2> HIDE DEF few
  <2> QED BY <2>1 DEF Bijection, Injection, Surjection, IsInjective
<1>7. IsFiniteSet(more) /\ Cardinality(more) = 2 ^ k
  <2> HIDE DEF grow, few, more
  <2>1. ExistsBijection(few, more)
    BY <1>6 DEF ExistsBijection
  <2> QED BY <1>3, <2>1, FS_Bijection
<1>8. SUBSET (1 .. k + 1) = few \cup more
  <2>1. ASSUME NEW U \in SUBSET (1 .. k + 1) PROVE U \in few \cup more
    <3>1. U \ {k + 1} \in few
      OBVIOUS
    <3>2. CASE k + 1 \in U
      <4>1. U = (U \ {k + 1}) \cup {k + 1}
        BY <3>2
      <4> QED BY <3>1, <4>1
    <3>3. CASE k + 1 \notin U
      BY <3>1, <3>3
    <3> QED BY <3>2, <3>3
  <2>2. \A U \in few : U \in SUBSET (1 .. k + 1) /\ U \cup {k + 1} \in SUBSET (1 .. k + 1)
    OBVIOUS
  <2>3. \A U \in few \cup more : U \in SUBSET (1 .. k + 1)
    BY <2>2
  <2> HIDE DEF few, more
  <2> QED BY <2>1, <2>3
<1>9. few \cap more = {}
  BY <1>5
<1>10. Cardinality(few \cup more) = Cardinality(few) + Cardinality(more) - Cardinality(few \cap more)
  <2> HIDE DEF few, more
  <2> QED BY <1>3, <1>7, FS_Union
<1>11. Cardinality(few \cap more) = 0
  BY <1>9, FS_EmptySet
<1>12. Cardinality(few) \in Nat
  <2> HIDE DEF few
  <2> QED BY <1>3, FS_CardinalityType
<1>13. Cardinality(SUBSET (1 .. k + 1)) = Cardinality(few) + Cardinality(few)
  <2> HIDE DEF few, more
  <2> QED BY <1>3, <1>7, <1>8, <1>10, <1>11, <1>12
<1>14. \A c \in Nat : c + c = 2 * c
  OBVIOUS
<1> HIDE DEF few, more, grow
<1> QED BY <1>3, <1>4, <1>12, <1>13, <1>14, Zenon

LEMMA PowerGrows ==
    ASSUME NEW k \in Nat
    PROVE  2 ^ k \in Nat /\ 2 ^ k > k
<1> DEFINE S == {n \in Nat : 2 ^ n > n}
<1>1. 0 \in S
  BY PowerOfZero
<1>2. ASSUME NEW n \in 0 .. k - 1, n \in S PROVE n + 1 \in S
  <2>1. 2 ^ n \in Nat /\ 2 ^ (n + 1) = 2 * 2 ^ n /\ 2 ^ n > n
    BY <1>2, PowerDoubles
  <2> QED BY <2>1
<1>3. k \in S
  <2> HIDE DEF S
  <2> QED BY <1>1, <1>2, Induction
<1> QED BY <1>3, PowerDoubles

LEMMA PowerMonotone ==
    ASSUME NEW j \in Nat, NEW k \in Nat
    PROVE  2 ^ (j + k) \in Nat /\ 2 ^ j <= 2 ^ (j + k)
<1> DEFINE S == {n \in Nat : 2 ^ j <= 2 ^ (j + n)}
<1>1. 0 \in S
  <2>1. j + 0 = j /\ 2 ^ j \in Nat
    BY PowerDoubles
  <2> QED BY <2>1
<1>2. ASSUME NEW n \in 0 .. k - 1, n \in S PROVE n + 1 \in S
  <2>1. j + n \in Nat /\ j + (n + 1) = (j + n) + 1
    OBVIOUS
  <2>2. 2 ^ (j + (n + 1)) = 2 * 2 ^ (j + n) /\ 2 ^ (j + n) \in Nat /\ 2 ^ j \in Nat
    BY <2>1, PowerDoubles
  <2> QED BY <1>2, <2>2
<1>3. k \in S
  <2> HIDE DEF S
  <2> QED BY <1>1, <1>2, Induction
<1> QED BY <1>3, PowerDoubles

-----------------------------------------------------------------------------
(* Ranks *)

\* The elements of a finite set of numbers have the ranks 1, 2, ..., in their order.
LEMMA Ranks ==
    ASSUME NEW S \in SUBSET Int, IsFiniteSet(S),
           NEW rank, rank = [x \in S |-> Cardinality({y \in S : y <= x})]
    PROVE  /\ Cardinality(S) \in Nat
           /\ rank \in [S -> 1 .. Cardinality(S)]
           /\ \A x, y \in S : x < y <=> rank[x] < rank[y]
           /\ \A k \in 1 .. Cardinality(S) : \E x \in S : rank[x] = k
<1> DEFINE below(x) == {y \in S : y <= x}
           n == Cardinality(S)
<1>1. \A x \in S : rank[x] = Cardinality(below(x))
  OBVIOUS
<1>2. ASSUME NEW x \in S
      PROVE  /\ below(x) \in SUBSET S /\ IsFiniteSet(below(x))
             /\ Cardinality(below(x)) \in 1 .. n
  <2>1. below(x) \in SUBSET S /\ below(x) # {}
    <3>1. x <= x
      OBVIOUS
    <3> QED BY <3>1
  <2> HIDE DEF below
  <2>2. IsFiniteSet(below(x)) /\ Cardinality(below(x)) <= n
    BY <2>1, FS_Subset
  <2>3. Cardinality(below(x)) \in Nat /\ Cardinality(below(x)) # 0 /\ n \in Nat
    BY <2>1, <2>2, FS_CardinalityType, FS_EmptySet
  <2> QED BY <2>1, <2>2, <2>3
<1>3. n \in Nat
  BY FS_CardinalityType
<1>4. rank \in [S -> 1 .. n]
  <2> HIDE DEF below
  <2> QED BY <1>1, <1>2
<1>5. ASSUME NEW x \in S, NEW y \in S, x < y PROVE rank[x] < rank[y]
  <2>1. below(x) \in SUBSET below(y) /\ y \in below(y) /\ y \notin below(x)
    <3>1. x \in Int /\ y \in Int /\ y <= y /\ ~(y <= x)
      BY <1>5
    <3>2. \A z \in S : z <= x => z <= y
      BY <1>5
    <3> QED BY <3>1, <3>2
  <2> HIDE DEF below
  <2>2. Cardinality(below(x)) <= Cardinality(below(y))
        /\ Cardinality(below(x)) # Cardinality(below(y))
    BY <1>2, <2>1, FS_Subset
  <2> QED BY <1>1, <1>2, <2>2
<1>6. \A x, y \in S : x < y <=> rank[x] < rank[y]
  <2> TAKE x, y \in S
  <2>1. x \in Int /\ y \in Int /\ rank[x] \in Int /\ rank[y] \in Int
    BY <1>3, <1>4
  <2>2. x = y => rank[x] = rank[y]
    OBVIOUS
  <2> QED BY <1>5, <2>1, <2>2
<1>7. ASSUME NEW k \in 1 .. n PROVE \E x \in S : rank[x] = k
  <2> SUFFICES ASSUME \A x \in S : rank[x] # k PROVE FALSE
    OBVIOUS
  <2> DEFINE others == (1 .. n) \ {k}
  <2>1. IsFiniteSet(1 .. n) /\ Cardinality(1 .. n) = n
    BY <1>3, FS_Interval
  <2>2. IsFiniteSet(others) /\ Cardinality(others) = n - 1
    BY <2>1, FS_RemoveElement
  <2>3. rank \in [S -> others]
    BY <1>4
  <2>4. PICK x \in S, y \in S : x # y /\ rank[x] = rank[y]
    <3>1. Cardinality(others) < Cardinality(S) /\ IsFiniteSet(others)
      BY <1>3, <2>2
    <3> HIDE DEF others
    <3>2. \A f \in [S -> others] : \E x, y \in S : x # y /\ f[x] = f[y]
      BY <3>1, FS_PigeonHole
    <3> QED BY <2>3, <3>2
  <2>5. x \in Int /\ y \in Int /\ rank[x] \in Int
    BY <1>3, <1>4
  <2> QED BY <1>6, <2>4, <2>5
<1> QED BY <1>3, <1>4, <1>6, <1>7
=============================================================================
