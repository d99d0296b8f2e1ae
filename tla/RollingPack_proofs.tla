------------------------- MODULE RollingPack_proofs -------------------------
(***************************************************************************)
(* Proofs about the rolling feature pack, for any packs and any other      *)
(* features, any ticks and any grid:                                       *)
(*   - the algorithms: lists in order, floats and their sums, the values   *)
(*     of a table, and what a feature returns for enough rows;             *)
(*   - the registry: a pack stays together and in order;                   *)
(*   - the build of a grid point: its types, that it is a client of        *)
(*     AsOfContext like any other, what each feature reads, when one       *)
(*     declines, and that the features of one window describe one table.   *)
(***************************************************************************)
EXTENDS RollingPack, AsOfContext_proofs, NumberFacts_proofs, SequenceTheorems, TLAPS

-----------------------------------------------------------------------------
(* Lists in order *)

LEMMA AscendingFacts ==
    ASSUME NEW S \in SUBSET Int, IsFiniteSet(S)
    PROVE  /\ Cardinality(S) \in Nat /\ Ascending(S) \in [1 .. Cardinality(S) -> S]
           /\ \A i, j \in 1 .. Cardinality(S) : i < j => Ascending(S)[i] < Ascending(S)[j]
           /\ \A x \in S : \E k \in 1 .. Cardinality(S) : Ascending(S)[k] = x
<1> DEFINE rank == [x \in S |-> Cardinality({y \in S : y <= x})]
           n == Cardinality(S)
           at == Ascending(S)
<1>1. /\ n \in Nat /\ rank \in [S -> 1 .. n]
      /\ \A x, y \in S : x < y <=> rank[x] < rank[y]
      /\ \A k \in 1 .. n : \E x \in S : rank[x] = k
  <2> HIDE DEF rank
  <2>1. rank = [x \in S |-> Cardinality({y \in S : y <= x})]
    BY DEF rank
  <2> QED BY <2>1, Ranks
<1>2. at = [k \in 1 .. n |-> CHOOSE x \in S : Cardinality({y \in S : y <= x}) = k]
  BY DEF Ascending
<1>3. \A k \in 1 .. n : at[k] \in S /\ rank[at[k]] = k
  <2> TAKE k \in 1 .. n
  <2>1. \E x \in S : Cardinality({y \in S : y <= x}) = k
    BY <1>1
  <2> HIDE DEF at, n
  <2>2. at[k] = CHOOSE x \in S : Cardinality({y \in S : y <= x}) = k
    BY <1>2
  <2>3. at[k] \in S /\ Cardinality({y \in S : y <= at[k]}) = k
    BY <2>1, <2>2
  <2> QED BY <2>3
<1> HIDE DEF rank, at, n
<1>4. at \in [1 .. n -> S]
  BY <1>2, <1>3
<1>5. \A i, j \in 1 .. n : i < j => at[i] < at[j]
  BY <1>1, <1>3
<1>6. ASSUME NEW x \in S PROVE \E k \in 1 .. n : at[k] = x
  <2>1. rank[x] \in 1 .. n
    BY <1>1
  <2>2. at[rank[x]] \in S /\ rank[at[rank[x]]] = rank[x]
    BY <1>3, <2>1
  <2>3. at[rank[x]] \in Int /\ x \in Int
    BY <2>2
  <2>4. at[rank[x]] = x
    BY <1>1, <2>1, <2>2, <2>3
  <2> QED BY <2>1, <2>4
<1> QED BY <1>1, <1>4, <1>5, <1>6 DEF at, n

\* A sublist keeps the order: at gives the position each of its elements had.
LEMMA SublistFacts ==
    ASSUME NEW A, NEW list \in Seq(A), NEW S \in SUBSET (1 .. Len(list))
    PROVE  \E n \in Nat : \E at \in [1 .. n -> S] :
              /\ Sublist(list, S) = [k \in 1 .. n |-> list[at[k]]]
              /\ \A i, j \in 1 .. n : i < j => at[i] < at[j]
              /\ \A x \in S : \E k \in 1 .. n : at[k] = x
<1>1. S \in SUBSET Int /\ IsFiniteSet(S)
  <2>1. IsFiniteSet(1 .. Len(list))
    BY FS_Interval
  <2>2. IsFiniteSet(S)
    BY <2>1, FS_Subset
  <2>3. \A x \in S : x \in Int
    OBVIOUS
  <2> QED BY <2>2, <2>3
<1> DEFINE n == Cardinality(S)
           at == Ascending(S)
<1>2. /\ n \in Nat /\ at \in [1 .. n -> S]
      /\ \A i, j \in 1 .. n : i < j => at[i] < at[j]
      /\ \A x \in S : \E k \in 1 .. n : at[k] = x
  BY <1>1, AscendingFacts
<1>3. Sublist(list, S) = [k \in DOMAIN at |-> list[at[k]]]
  BY DEF Sublist
<1> HIDE DEF n, at
<1>4. DOMAIN at = 1 .. n
  BY <1>2
<1> QED BY <1>2, <1>3, <1>4

\* A table has each of its rows once.
IsTable(table, rows) ==
    /\ table \in Seq(rows)
    /\ \A r \in rows : \E k \in 1 .. Len(table) : table[k] = r
    /\ \A j, k \in 1 .. Len(table) : table[j] = table[k] => j = k

LEMMA InOrderFacts ==
    ASSUME NEW o \in Orders, NEW rows \in SUBSET Rows
    PROVE  IsTable(InOrder(rows, o), rows)
<1>1. /\ \A r \in rows : r \in Rows /\ o[r] \in Int
      /\ \A q, r \in rows : o[q] = o[r] => q = r
  <2>1. o \in [Rows -> 1 .. Cardinality(Rows)] /\ IsInjective(o)
    BY DEF Orders
  <2> QED BY <2>1 DEF IsInjective
<1> DEFINE S == {o[r] : r \in rows}
           n == Cardinality(S)
           at == Ascending(S)
           table == InOrder(rows, o)
<1>2. S \in SUBSET Int /\ IsFiniteSet(S)
  <2>1. IsFiniteSet(rows)
    BY PackConstants, FS_Subset
  <2>2. [r \in rows |-> o[r]] \in Surjection(rows, S)
    BY DEF Surjection
  <2>3. S \in SUBSET Int
    BY <1>1
  <2> HIDE DEF S
  <2> QED BY <2>1, <2>2, <2>3, FS_Surjection
<1>3. /\ n \in Nat /\ at \in [1 .. n -> S]
      /\ \A i, j \in 1 .. n : i < j => at[i] < at[j]
      /\ \A x \in S : \E k \in 1 .. n : at[k] = x
  <2> HIDE DEF S
  <2> QED BY <1>2, AscendingFacts
<1>4. table = [k \in 1 .. n |-> CHOOSE r \in rows : o[r] = at[k]]
  <2>1. table = [k \in DOMAIN at |-> CHOOSE r \in rows : o[r] = at[k]]
    BY DEF InOrder
  <2> HIDE DEF table, at, n
  <2> QED BY <1>3, <2>1
<1>5. \A x \in S : \E r \in rows : o[r] = x
  OBVIOUS
<1>6. \A r \in rows : o[r] \in S
  OBVIOUS
<1> HIDE DEF S, at, n, table
<1>7. \A k \in 1 .. n : table[k] \in rows /\ o[table[k]] = at[k]
  BY <1>3, <1>4, <1>5
<1>8. table \in Seq(rows) /\ Len(table) = n
  <2>1. table \in [1 .. n -> rows]
    BY <1>4, <1>7
  <2> QED BY <1>3, <2>1
<1>9. ASSUME NEW r \in rows PROVE \E k \in 1 .. n : table[k] = r
  <2>1. PICK k \in 1 .. n : at[k] = o[r]
    BY <1>3, <1>6
  <2> QED BY <1>1, <1>7, <2>1
<1>10. \A j, k \in 1 .. n : table[j] = table[k] => j = k
  <2>1. \A j, k \in 1 .. n : at[j] = at[k] => j = k
    <3> SUFFICES ASSUME NEW j \in 1 .. n, NEW k \in 1 .. n, at[j] = at[k], j # k
                 PROVE  FALSE
      OBVIOUS
    <3>1. at[j] \in Int /\ at[k] \in Int
      BY <1>2, <1>3
    <3>2. j < k \/ k < j
      BY <1>3
    <3> QED BY <1>3, <3>1, <3>2
  <2> QED BY <1>7, <2>1
<1> QED BY <1>8, <1>9, <1>10 DEF IsTable, table

-----------------------------------------------------------------------------
(* Floats *)

LEMMA NoneIsNoNumber == None \notin Int
BY NoneIsNoValue

LEMMA AbsFacts ==
    ASSUME NEW x \in Int
    PROVE  Abs(x) \in Nat /\ x <= Abs(x) /\ -x <= Abs(x) /\ (x >= 0 => Abs(x) = x)
BY DEF Abs

LEMMA NearestFacts ==
    ASSUME NEW n \in Int, NEW d \in Nat \ {0}
    PROVE  /\ Nearest(n, d) \in Int
           /\ \A lo \in Int : lo * d <= n => lo <= Nearest(n, d)
           /\ \A hi \in Int : n <= hi * d => Nearest(n, d) <= hi
<1> DEFINE q == n \div d
           twice == 2 * (n - q * d)
<1>1. q \in Int /\ q * d <= n /\ n < (q + 1) * d
  OBVIOUS
<1>2. Nearest(n, d) = IF twice < d \/ (twice = d /\ q % 2 = 0) THEN q ELSE q + 1
  BY DEF Nearest
<1> HIDE DEF q
<1>3. Nearest(n, d) \in {q, q + 1} /\ (Nearest(n, d) = q + 1 => q * d < n)
  <2>1. q * d \in Int
    BY <1>1
  <2> QED BY <1>1, <1>2, <2>1
<1>4. ASSUME NEW lo \in Int, lo * d <= n PROVE lo <= q
  <2>1. lo * d < (q + 1) * d
    BY <1>1, <1>4
  <2> QED BY <1>1, <2>1
<1>5. ASSUME NEW hi \in Int, n <= hi * d PROVE q <= hi /\ (q * d < n => q + 1 <= hi)
  <2>1. q * d <= hi * d
    BY <1>1, <1>5
  <2>2. q <= hi
    BY <1>1, <2>1
  <2>3. ASSUME q * d < n PROVE q # hi
    BY <1>5, <2>3
  <2> QED BY <1>1, <2>2, <2>3
<1> QED BY <1>1, <1>3, <1>4, <1>5

\* A float is a whole number of some unit, of 1 unless the digits run out.
LEMMA FlForm ==
    ASSUME NEW n \in Int, NEW d \in Nat \ {0}
    PROVE  \E u \in Nat \ {0} :
              /\ Fl(n, d) = u * Nearest(n, d * u)
              /\ Abs(n) < d * 2 ^ Bits => u = 1
              /\ Abs(n) >= d * 2 ^ Bits => Abs(n) >= d * u
<1> DEFINE Fits(k) == Abs(n) < d * 2 ^ (Bits + k)
           Right(k) == Fits(k) /\ (k = 0 \/ Abs(n) >= d * 2 ^ (Bits + k - 1))
           e == CHOOSE k \in 0 .. Abs(n) : Right(k)
<1>1. Abs(n) \in Nat /\ Bits \in Nat \ {0} /\ d \in Nat /\ d > 0
  BY AbsFacts, PackConstants
<1>2. Fl(n, d) = 2 ^ e * Nearest(n, d * 2 ^ e)
  BY DEF Fl
<1>3. \A k \in Nat : 2 ^ k \in Nat \ {0} /\ 2 ^ (Bits + k) \in Nat /\ 2 ^ k <= 2 ^ (Bits + k)
  <2> TAKE k \in Nat
  <2>1. 2 ^ k \in Nat /\ 2 ^ k > k
    BY PowerGrows
  <2>2. 2 ^ (k + Bits) \in Nat /\ 2 ^ k <= 2 ^ (k + Bits)
    BY <1>1, PowerMonotone
  <2>3. k + Bits = Bits + k
    BY <1>1
  <2> QED BY <2>1, <2>2, <2>3
<1>4. \E k \in 0 .. Abs(n) : Right(k)
  <2> DEFINE fits == {k \in 0 .. Abs(n) : Fits(k)}
  <2>1. Abs(n) \in fits
    <3>1. 2 ^ Abs(n) > Abs(n) /\ 2 ^ Abs(n) \in Nat
      BY <1>1, PowerGrows
    <3>2. 2 ^ (Bits + Abs(n)) > Abs(n) /\ 2 ^ (Bits + Abs(n)) \in Nat
      BY <1>1, <1>3, <3>1
    <3>3. \A c \in Nat : c <= d * c
      BY <1>1
    <3>4. 2 ^ (Bits + Abs(n)) <= d * 2 ^ (Bits + Abs(n))
      BY <3>2, <3>3
    <3>5. Fits(Abs(n))
      BY <1>1, <3>2, <3>4
    <3> QED BY <1>1, <3>5
  <2>2. fits \in SUBSET Nat /\ fits # {}
    BY <2>1
  <2>3. PICK k \in fits : \A j \in fits : k <= j
    <3> HIDE DEF fits
    <3> QED BY <2>2, LeastNatural
  <2>4. CASE k = 0
    BY <2>3, <2>4
  <2>5. CASE k # 0
    <3>1. k - 1 \in 0 .. Abs(n) /\ k - 1 \notin fits
      BY <1>1, <2>3, <2>5
    <3>2. ~Fits(k - 1)
      BY <3>1
    <3>3. Bits + (k - 1) = Bits + k - 1 /\ k - 1 \in Nat
      BY <1>1, <2>3, <2>5
    <3>4. 2 ^ (Bits + (k - 1)) \in Nat
      BY <1>3, <3>3
    <3>5. Abs(n) >= d * 2 ^ (Bits + k - 1)
      BY <1>1, <3>2, <3>3, <3>4
    <3> QED BY <2>3, <3>5
  <2> QED BY <2>4, <2>5
<1>5. e \in 0 .. Abs(n) /\ Right(e)
  <2> HIDE DEF Right
  <2> QED BY <1>4
<1> HIDE DEF e
<1>6. e \in Nat /\ 2 ^ e \in Nat \ {0}
  BY <1>1, <1>3, <1>5
<1>7. ASSUME e # 0
      PROVE  /\ 2 ^ Bits \in Nat
             /\ 2 ^ (Bits + e - 1) \in Nat
             /\ 2 ^ Bits <= 2 ^ (Bits + e - 1) /\ 2 ^ e <= 2 ^ (Bits + e - 1)
  <2>1. e - 1 \in Nat /\ Bits - 1 \in Nat
    BY <1>1, <1>6, <1>7
  <2>2. Bits + (e - 1) = Bits + e - 1 /\ e + (Bits - 1) = Bits + e - 1
    BY <1>1, <1>6
  <2>3. 2 ^ (Bits + (e - 1)) \in Nat /\ 2 ^ Bits <= 2 ^ (Bits + (e - 1))
    BY <1>1, <2>1, PowerMonotone
  <2>4. 2 ^ e <= 2 ^ (e + (Bits - 1))
    BY <1>6, <2>1, PowerMonotone
  <2>5. 2 ^ Bits \in Nat
    BY <1>1, PowerDoubles
  <2> QED BY <2>2, <2>3, <2>4, <2>5
<1>8. \A a, b \in Nat : a <= b => d * a <= d * b
  BY <1>1
<1>9. ASSUME Abs(n) < d * 2 ^ Bits PROVE 2 ^ e = 1
  <2>1. CASE e = 0
    BY <2>1, PowerOfZero
  <2>2. CASE e # 0
    <3>1. Abs(n) >= d * 2 ^ (Bits + e - 1)
      BY <1>5, <2>2
    <3>2. d * 2 ^ Bits <= d * 2 ^ (Bits + e - 1)
      BY <1>7, <1>8, <2>2
    <3>3. d * 2 ^ Bits \in Nat /\ d * 2 ^ (Bits + e - 1) \in Nat
      BY <1>1, <1>7, <2>2
    <3> QED BY <1>1, <1>9, <3>1, <3>2, <3>3
  <2> QED BY <2>1, <2>2
<1>10. ASSUME Abs(n) >= d * 2 ^ Bits PROVE Abs(n) >= d * 2 ^ e
  <2>1. CASE e = 0
    <3>1. 2 ^ Bits \in Nat /\ 2 ^ Bits >= 1
      BY <1>1, PowerGrows
    <3>2. d * 1 <= d * 2 ^ Bits /\ d * 2 ^ Bits \in Nat
      BY <1>1, <1>8, <3>1
    <3> QED BY <1>1, <1>10, <2>1, <3>2, PowerOfZero
  <2>2. CASE e # 0
    <3>1. Abs(n) >= d * 2 ^ (Bits + e - 1)
      BY <1>5, <2>2
    <3>2. d * 2 ^ e <= d * 2 ^ (Bits + e - 1)
      BY <1>6, <1>7, <1>8, <2>2
    <3>3. d * 2 ^ e \in Nat /\ d * 2 ^ (Bits + e - 1) \in Nat
      BY <1>1, <1>6, <1>7, <2>2
    <3> QED BY <1>1, <3>1, <3>2, <3>3
  <2> QED BY <2>1, <2>2
<1> QED BY <1>2, <1>6, <1>9, <1>10

LEMMA FlType ==
    ASSUME NEW n \in Int, NEW d \in Nat \ {0}
    PROVE  Fl(n, d) \in Int
<1>1. PICK u \in Nat \ {0} : Fl(n, d) = u * Nearest(n, d * u)
  BY FlForm
<1>2. d * u \in Nat \ {0}
  OBVIOUS
<1>3. Nearest(n, d * u) \in Int
  BY <1>2, NearestFacts
<1> QED BY <1>1, <1>3

\* A quotient within the digits is rounded to between its bounds.
LEMMA FlBetween ==
    ASSUME NEW n \in Int, NEW d \in Nat \ {0}, Abs(n) < d * 2 ^ Bits,
           NEW lo \in Int, NEW hi \in Int, lo * d <= n, n <= hi * d
    PROVE  lo <= Fl(n, d) /\ Fl(n, d) <= hi
<1>1. Fl(n, d) = 1 * Nearest(n, d * 1)
  BY FlForm
<1>2. lo <= Nearest(n, d) /\ Nearest(n, d) <= hi /\ Nearest(n, d) \in Int
  BY NearestFacts
<1>3. d * 1 = d /\ \A x \in Int : 1 * x = x
  OBVIOUS
<1> QED BY <1>1, <1>2, <1>3

LEMMA FlExact ==
    ASSUME NEW x \in Int, Abs(x) < 2 ^ Bits
    PROVE  Fl(x, 1) = x
<1>1. 1 * 2 ^ Bits = 2 ^ Bits
  BY PowerDoubles, PackConstants
<1>2. x * 1 = x /\ x <= x
  OBVIOUS
<1>3. Fl(x, 1) \in Int
  BY FlType
<1> QED BY <1>1, <1>2, <1>3, FlBetween

LEMMA FlSign ==
    ASSUME NEW n \in Nat
    PROVE  Fl(n, 1) \in Nat /\ (n > 0 => Fl(n, 1) > 0)
<1>1. PICK u \in Nat \ {0} : /\ Fl(n, 1) = u * Nearest(n, 1 * u)
                             /\ Abs(n) < 1 * 2 ^ Bits => u = 1
                             /\ Abs(n) >= 1 * 2 ^ Bits => Abs(n) >= 1 * u
  <2>1. n \in Int /\ 1 \in Nat \ {0}
    OBVIOUS
  <2> QED BY <2>1, FlForm, Zenon
<1>2. 1 * u = u /\ 0 * u = 0 /\ 1 * 2 ^ Bits = 2 ^ Bits /\ 2 ^ Bits \in Nat /\ Abs(n) = n
  BY PowerDoubles, PackConstants, AbsFacts
<1>3. Nearest(n, u) \in Int /\ Nearest(n, u) >= 0
  BY <1>2, NearestFacts
<1>4. ASSUME n > 0 PROVE Nearest(n, u) >= 1
  <2>1. n >= u
    BY <1>1, <1>2, <1>4
  <2>2. 1 * u <= n
    BY <1>2, <2>1
  <2> QED BY <2>2, NearestFacts
<1>5. u * Nearest(n, u) \in Nat /\ (Nearest(n, u) >= 1 => u * Nearest(n, u) > 0)
  BY <1>3
<1> QED BY <1>1, <1>2, <1>4, <1>5

\* A difference of two floats is zero only if they are equal.
LEMMA FlZero ==
    ASSUME NEW n \in Int
    PROVE  Fl(n, 1) \in Int /\ (Fl(n, 1) = 0 <=> n = 0)
<1>1. Fl(n, 1) \in Int
  BY FlType
<1>2. CASE n >= 0
  <2>1. n \in Nat
    BY <1>2
  <2>2. n > 0 => Fl(n, 1) > 0
    BY <2>1, FlSign
  <2>3. n = 0 => Fl(n, 1) = 0
    <3>1. 2 ^ Bits > Bits
      BY PowerGrows, PackConstants
    <3>2. Abs(0) = 0 /\ 0 < 2 ^ Bits
      BY <3>1, PackConstants, AbsFacts
    <3> QED BY <3>2, FlExact
  <2> QED BY <1>1, <2>1, <2>2, <2>3
<1>3. CASE n < 0
  <2>1. PICK u \in Nat \ {0} : /\ Fl(n, 1) = u * Nearest(n, 1 * u)
                               /\ Abs(n) < 1 * 2 ^ Bits => u = 1
                               /\ Abs(n) >= 1 * 2 ^ Bits => Abs(n) >= 1 * u
    <3>1. n \in Int /\ 1 \in Nat \ {0}
      OBVIOUS
    <3> QED BY <3>1, FlForm, Zenon
  <2>2. 1 * u = u /\ (-1) * u = -u /\ 1 * 2 ^ Bits = 2 ^ Bits /\ 2 ^ Bits \in Nat
        /\ Abs(n) = -n
    BY <1>3, PowerDoubles, PackConstants DEF Abs
  <2>3. n <= -u
    BY <1>3, <2>1, <2>2
  <2>4. n <= (-1) * u /\ -1 \in Int
    BY <2>2, <2>3
  <2>5. Nearest(n, u) <= -1 /\ Nearest(n, u) \in Int
    BY <2>4, NearestFacts
  <2>6. u * Nearest(n, u) # 0
    BY <2>5
  <2> QED BY <1>1, <1>3, <2>1, <2>2, <2>6
<1> QED BY <1>2, <1>3

-----------------------------------------------------------------------------
(* Sums *)

LEMMA FlSumSteps ==
    ASSUME NEW xs \in Seq(Int)
    PROVE  \E s \in [0 .. Len(xs) -> Int] :
              /\ s[0] = 0 /\ \A i \in 1 .. Len(xs) : s[i] = Fl(s[i - 1] + xs[i], 1)
              /\ FlSum(xs) = s[Len(xs)]
<1> DEFINE n == Len(xs)
           Step == [p \in Int \X (1 .. n) |-> Fl(p[1] + xs[p[2]], 1)]
           Sums(s) == s = [i \in 0 .. n |-> IF i = 0 THEN 0 ELSE Fl(s[i - 1] + xs[i], 1)]
           sums == CHOOSE s : Sums(s)
<1>1. n \in Nat /\ \A i \in 1 .. n : xs[i] \in Int
  OBVIOUS
<1>2. Step \in [Int \X (1 .. n) -> Int]
  <2> SUFFICES ASSUME NEW a \in Int, NEW i \in 1 .. n PROVE Fl(a + xs[i], 1) \in Int
    OBVIOUS
  <2>1. a + xs[i] \in Int /\ 1 \in Nat \ {0}
    BY <1>1
  <2> QED BY <2>1, FlType
<1>3. PICK s \in [0 .. n -> Int] :
         s = [i \in 0 .. n |-> IF i = 0 THEN 0 ELSE Step[<<s[i - 1], i>>]]
  <2> HIDE DEF Step, n
  <2>1. 0 \in Int /\ n \in Nat
    BY <1>1
  <2> QED BY <1>2, <2>1, StepByStep
<1>4. Sums(s)
  <2>1. \A i \in 1 .. n : Step[<<s[i - 1], i>>] = Fl(s[i - 1] + xs[i], 1)
    <3> TAKE i \in 1 .. n
    <3>1. i - 1 \in 0 .. n
      BY <1>1
    <3>2. s[i - 1] \in Int
      BY <3>1
    <3> QED BY <3>2
  <2>2. \A i \in 0 .. n : i # 0 => i \in 1 .. n
    BY <1>1
  <2>3. [i \in 0 .. n |-> IF i = 0 THEN 0 ELSE Step[<<s[i - 1], i>>]]
        = [i \in 0 .. n |-> IF i = 0 THEN 0 ELSE Fl(s[i - 1] + xs[i], 1)]
    <3> HIDE DEF Step, n
    <3> QED BY <2>1, <2>2
  <2> HIDE DEF Step, n
  <2> QED BY <1>3, <2>3
<1>5. Sums(sums)
  <2> HIDE DEF Sums
  <2> QED BY <1>4
<1>6. FlSum(xs) = sums[n]
  BY DEF FlSum
<1> HIDE DEF sums, n
<1>7. DOMAIN sums = 0 .. n /\ sums[0] = 0
      /\ \A i \in 1 .. n : sums[i] = Fl(sums[i - 1] + xs[i], 1)
  BY <1>1, <1>5
<1>8. sums \in [0 .. n -> Int]
  <2> DEFINE S == {i \in 0 .. n : sums[i] \in Int}
  <2>1. 0 \in S
    BY <1>1, <1>7
  <2>2. ASSUME NEW i \in 0 .. n - 1, i \in S PROVE i + 1 \in S
    <3>1. i + 1 \in 1 .. n /\ (i + 1) - 1 = i
      BY <1>1
    <3>2. sums[i] + xs[i + 1] \in Int /\ 1 \in Nat \ {0}
      BY <1>1, <2>2, <3>1
    <3>3. sums[i + 1] \in Int
      BY <1>7, <3>1, <3>2, FlType
    <3> QED BY <1>1, <3>1, <3>3
  <2>3. \A i \in 0 .. n : i \in S
    <3> HIDE DEF S
    <3> QED BY <1>1, <2>1, <2>2, Induction
  <2>4. sums = [i \in 0 .. n |-> sums[i]]
    BY <1>5
  <2> QED BY <2>3, <2>4
<1> QED BY <1>6, <1>7, <1>8 DEF n


LEMMA OneMore ==
    ASSUME NEW i \in Int, NEW a \in Int
    PROVE  a * i \in Int /\ a * (i + 1) \in Int /\ a * (i + 1) = a * i + a
OBVIOUS

LEMMA UpToTimes ==
    ASSUME NEW m \in Nat, NEW j \in Nat, NEW n \in Nat, j <= n
    PROVE  m * j \in Int /\ m * n \in Int /\ m * j <= m * n
OBVIOUS

\* A sum is exact if no partial sum has more than the digits.
LEMMA ExactSteps ==
    ASSUME NEW xs \in Seq(Int), NEW m \in Nat, m * Len(xs) < 2 ^ Bits,
           \A i \in 1 .. Len(xs) : -m <= xs[i] /\ xs[i] <= m
    PROVE  \E s \in [0 .. Len(xs) -> Int] :
              /\ s[0] = 0 /\ \A i \in 1 .. Len(xs) : s[i] = s[i - 1] + xs[i]
              /\ FlSum(xs) = s[Len(xs)] /\ Abs(FlSum(xs)) < 2 ^ Bits
<1>1. PICK s \in [0 .. Len(xs) -> Int] :
              /\ s[0] = 0 /\ \A i \in 1 .. Len(xs) : s[i] = Fl(s[i - 1] + xs[i], 1)
              /\ FlSum(xs) = s[Len(xs)]
  BY FlSumSteps
<1> DEFINE n == Len(xs)
           S == {i \in 0 .. n : /\ -(m * i) <= s[i] /\ s[i] <= m * i
                                /\ i # 0 => s[i] = s[i - 1] + xs[i]}
<1>2. n \in Nat /\ 2 ^ Bits \in Nat /\ n = Len(xs) /\ \A i \in 1 .. n : xs[i] \in Int
  BY PowerDoubles, PackConstants
<1> HIDE DEF n
<1>3. 0 \in S
  BY <1>1, <1>2
<1>4. ASSUME NEW i \in 0 .. n - 1, i \in S PROVE i + 1 \in S
  <2>1. i + 1 \in 1 .. n /\ (i + 1) - 1 = i /\ i \in 0 .. n /\ i \in Nat
    BY <1>2
  <2> DEFINE next == s[i] + xs[i + 1]
             a == s[i]
             b == xs[i + 1]
             ma == m * i
             mb == m * (i + 1)
             mn == m * n
  <2>2. s[i + 1] = Fl(next, 1) /\ next = a + b /\ -m <= b /\ b <= m
    BY <1>1, <1>2, <2>1
  <2>3. a \in Int /\ b \in Int /\ -ma <= a /\ a <= ma
    BY <1>1, <1>2, <1>4, <2>1
  <2>4. ma \in Int /\ mb \in Int /\ mb = ma + m
    BY <2>1, OneMore
  <2>5. mb <= mn /\ mn \in Int /\ mn < 2 ^ Bits
    <3>1. i + 1 \in Nat /\ i + 1 <= n
      BY <1>2, <2>1
    <3> QED BY <1>2, <3>1, UpToTimes
  <2> HIDE DEF next, a, b, ma, mb, mn
  <2>6. next \in Int /\ -mb <= next /\ next <= mb /\ Abs(next) < 2 ^ Bits
    BY <1>2, <2>2, <2>3, <2>4, <2>5 DEF Abs
  <2>7. s[i + 1] = next
    BY <2>2, <2>6, FlExact
  <2> QED BY <2>1, <2>6, <2>7 DEF next, mb
<1>5. \A i \in 0 .. n : i \in S
  <2> HIDE DEF S
  <2> QED BY <1>2, <1>3, <1>4, Induction
<1>6. \A i \in 1 .. n : s[i] = s[i - 1] + xs[i]
  BY <1>2, <1>5
<1>7. Abs(FlSum(xs)) < 2 ^ Bits
  <2> DEFINE mn == m * n
  <2>1. mn \in Int /\ mn < 2 ^ Bits
    BY <1>2
  <2>2. s[n] \in Int /\ -mn <= s[n] /\ s[n] <= mn
    BY <1>1, <1>2, <1>5
  <2> HIDE DEF mn
  <2> QED BY <1>1, <1>2, <2>1, <2>2 DEF Abs
<1> QED BY <1>1, <1>2, <1>6, <1>7

\* One sum lies between two multiples of another if its terms do.
LEMMA SumsBetween ==
    ASSUME NEW n \in Nat, NEW s \in [0 .. n -> Int], NEW t \in [0 .. n -> Int],
           s[0] = 0, t[0] = 0, NEW lo \in Int, NEW hi \in Int,
           \A i \in 1 .. n : /\ lo * (t[i] - t[i - 1]) <= s[i] - s[i - 1]
                             /\ s[i] - s[i - 1] <= hi * (t[i] - t[i - 1])
    PROVE  lo * t[n] <= s[n] /\ s[n] <= hi * t[n]
<1> DEFINE S == {i \in 0 .. n : lo * t[i] <= s[i] /\ s[i] <= hi * t[i]}
<1>1. \A a \in Int : a * 0 = 0
  OBVIOUS
<1>2. 0 \in S
  BY <1>1
<1>3. ASSUME NEW i \in 0 .. n - 1, i \in S PROVE i + 1 \in S
  <2>1. i + 1 \in 1 .. n /\ (i + 1) - 1 = i /\ i \in 0 .. n /\ i + 1 \in 0 .. n
    OBVIOUS
  <2> DEFINE a == s[i]
             b == s[i + 1]
             c == t[i]
             d == t[i + 1]
  <2>2. /\ a \in Int /\ b \in Int /\ c \in Int /\ d \in Int
        /\ lo * (d - c) <= b - a /\ b - a <= hi * (d - c)
        /\ lo * c <= a /\ a <= hi * c
    BY <1>3, <2>1
  <2> HIDE DEF a, b, c, d
  <2>3. \A x \in Int : x * c \in Int /\ x * d \in Int /\ x * (d - c) = x * d - x * c
    BY <2>2
  <2> DEFINE lc == lo * c
             ld == lo * d
             hc == hi * c
             hd == hi * d
  <2>4. /\ lc \in Int /\ ld \in Int /\ hc \in Int /\ hd \in Int
        /\ ld - lc <= b - a /\ b - a <= hd - hc /\ lc <= a /\ a <= hc
    BY <2>2, <2>3
  <2> HIDE DEF lc, ld, hc, hd
  <2>5. ld <= b /\ b <= hd
    BY <2>2, <2>4
  <2> QED BY <2>1, <2>5 DEF ld, hd, b, d
<1>4. \A i \in 0 .. n : i \in S
  <2> HIDE DEF S
  <2> QED BY <1>2, <1>3, Induction
<1> QED BY <1>4

LEMMA Increments ==
    ASSUME NEW n \in Nat, NEW xs, \A i \in 1 .. n : xs[i] \in Int,
           NEW s \in [0 .. n -> Int], \A i \in 1 .. n : s[i] = s[i - 1] + xs[i]
    PROVE  \A i \in 1 .. n : s[i] - s[i - 1] = xs[i]
<1> TAKE i \in 1 .. n
<1>1. i - 1 \in 0 .. n
  OBVIOUS
<1> QED BY <1>1

LEMMA ExactSum ==
    ASSUME NEW xs \in Seq(Int), NEW m \in Nat, m * Len(xs) < 2 ^ Bits,
           NEW lo \in Int, NEW hi \in Int,
           \A i \in 1 .. Len(xs) : /\ -m <= xs[i] /\ xs[i] <= m
                                   /\ lo <= xs[i] /\ xs[i] <= hi
    PROVE  /\ FlSum(xs) \in Int /\ Abs(FlSum(xs)) < 2 ^ Bits
           /\ lo * Len(xs) <= FlSum(xs) /\ FlSum(xs) <= hi * Len(xs)
<1> DEFINE n == Len(xs)
           t == [i \in 0 .. n |-> i]
<1>1. n \in Nat /\ t \in [0 .. n -> Int] /\ \A i \in 1 .. n : xs[i] \in Int
  OBVIOUS
<1>2. PICK s \in [0 .. n -> Int] :
              /\ s[0] = 0 /\ \A i \in 1 .. n : s[i] = s[i - 1] + xs[i]
              /\ FlSum(xs) = s[n] /\ Abs(FlSum(xs)) < 2 ^ Bits
  BY ExactSteps
<1>3. t[0] = 0 /\ t[n] = n /\ \A i \in 1 .. n : t[i] - t[i - 1] = 1
  BY <1>1
<1> HIDE DEF n, t
<1>4. \A i \in 1 .. n : /\ lo * (t[i] - t[i - 1]) <= s[i] - s[i - 1]
                        /\ s[i] - s[i - 1] <= hi * (t[i] - t[i - 1])
  <2> TAKE i \in 1 .. n
  <2>1. s[i] - s[i - 1] = xs[i] /\ t[i] - t[i - 1] = 1
    BY <1>1, <1>2, <1>3, Increments
  <2> QED BY <1>1, <2>1 DEF n
<1>5. lo * t[n] <= s[n] /\ s[n] <= hi * t[n]
  BY <1>1, <1>2, <1>3, <1>4, SumsBetween
<1>6. n \in 0 .. n
  BY <1>1
<1> QED BY <1>2, <1>3, <1>5, <1>6 DEF n

\* The same for a sum of products with weights.
LEMMA ExactWeighted ==
    ASSUME NEW xs \in Seq(Int), NEW ws \in Seq(Nat), Len(xs) = Len(ws),
           NEW m \in Nat, m * Len(xs) < 2 ^ Bits, NEW lo \in Int, NEW hi \in Int,
           \A i \in 1 .. Len(xs) : /\ -m <= xs[i] /\ xs[i] <= m /\ ws[i] <= m
                                   /\ lo * ws[i] <= xs[i] /\ xs[i] <= hi * ws[i]
    PROVE  /\ FlSum(xs) \in Int /\ FlSum(ws) \in Int /\ Abs(FlSum(xs)) < 2 ^ Bits
           /\ lo * FlSum(ws) <= FlSum(xs) /\ FlSum(xs) <= hi * FlSum(ws)
<1> DEFINE n == Len(xs)
<1>1. n \in Nat /\ n = Len(ws) /\ \A i \in 1 .. n : xs[i] \in Int /\ ws[i] \in Nat
  OBVIOUS
<1>2. PICK s \in [0 .. n -> Int] :
              /\ s[0] = 0 /\ \A i \in 1 .. n : s[i] = s[i - 1] + xs[i]
              /\ FlSum(xs) = s[n] /\ Abs(FlSum(xs)) < 2 ^ Bits
  BY ExactSteps
<1>3. PICK t \in [0 .. n -> Int] :
              /\ t[0] = 0 /\ \A i \in 1 .. n : t[i] = t[i - 1] + ws[i]
              /\ FlSum(ws) = t[n]
  <2>1. ws \in Seq(Int)
    BY SeqMonotonic
  <2>2. \A i \in 1 .. Len(ws) : -m <= ws[i] /\ ws[i] <= m
    BY <1>1
  <2> HIDE DEF n
  <2>3. m * Len(ws) < 2 ^ Bits
    OBVIOUS
  <2> QED BY <1>1, <2>1, <2>2, <2>3, ExactSteps
<1>4. \A i \in 1 .. n : /\ lo * (t[i] - t[i - 1]) <= s[i] - s[i - 1]
                        /\ s[i] - s[i - 1] <= hi * (t[i] - t[i - 1])
  <2>1. \A i \in 1 .. n : s[i] - s[i - 1] = xs[i]
    <3> HIDE DEF n
    <3> QED BY <1>1, <1>2, Increments
  <2>2. \A i \in 1 .. n : t[i] - t[i - 1] = ws[i]
    <3> HIDE DEF n
    <3>1. \A i \in 1 .. n : ws[i] \in Int
      BY <1>1
    <3> QED BY <1>1, <1>3, <3>1, Increments
  <2>3. \A i \in 1 .. n : lo * ws[i] <= xs[i] /\ xs[i] <= hi * ws[i]
    OBVIOUS
  <2> QED BY <2>1, <2>2, <2>3
<1> HIDE DEF n
<1>5. lo * t[n] <= s[n] /\ s[n] <= hi * t[n]
  BY <1>1, <1>2, <1>3, <1>4, SumsBetween
<1>6. n \in 0 .. n
  BY <1>1
<1> QED BY <1>2, <1>3, <1>5, <1>6

\* A sum of sizes, or of squares, is not negative, and positive if one of them
\* is.
LEMMA PositiveSum ==
    ASSUME NEW xs \in Seq(Nat)
    PROVE  FlSum(xs) \in Nat /\ (FlSum(xs) > 0 <=> \E k \in 1 .. Len(xs) : xs[k] > 0)
<1>1. PICK s \in [0 .. Len(xs) -> Int] :
              /\ s[0] = 0 /\ \A i \in 1 .. Len(xs) : s[i] = Fl(s[i - 1] + xs[i], 1)
              /\ FlSum(xs) = s[Len(xs)]
  <2>1. xs \in Seq(Int)
    BY SeqMonotonic
  <2> QED BY <2>1, FlSumSteps
<1> DEFINE n == Len(xs)
           S == {i \in 0 .. n : /\ s[i] \in Nat /\ \A k \in 1 .. i : xs[k] > 0 => s[i] > 0
                                /\ s[i] = 0 \/ \E k \in 1 .. i : xs[k] > 0}
<1>2. n \in Nat
  OBVIOUS
<1>3. 0 \in S
  BY <1>1, <1>2
<1>4. ASSUME NEW i \in 0 .. n - 1, i \in S PROVE i + 1 \in S
  <2>1. i + 1 \in 1 .. n /\ (i + 1) - 1 = i /\ i \in 0 .. n
    BY <1>2
  <2>2. xs[i + 1] \in Nat /\ s[i] \in Nat /\ s[i + 1] = Fl(s[i] + xs[i + 1], 1)
    BY <1>1, <1>4, <2>1
  <2>3. s[i + 1] \in Nat /\ (s[i] + xs[i + 1] > 0 => s[i + 1] > 0)
    <3>1. s[i] + xs[i + 1] \in Nat
      BY <2>2
    <3> QED BY <2>2, <3>1, FlSign
  <2>4. \A k \in 1 .. i + 1 : xs[k] > 0 => s[i + 1] > 0
    <3> SUFFICES ASSUME NEW k \in 1 .. i + 1, xs[k] > 0 PROVE s[i] + xs[i + 1] > 0
      BY <2>3
    <3>1. CASE k = i + 1
      BY <2>2, <3>1
    <3>2. CASE k # i + 1
      <4>1. k \in 1 .. i
        BY <3>2
      <4>2. s[i] > 0
        BY <1>4, <4>1
      <4> QED BY <2>2, <4>2
    <3> QED BY <3>1, <3>2
  <2>5. s[i + 1] = 0 \/ \E k \in 1 .. i + 1 : xs[k] > 0
    <3>1. CASE s[i] = 0 /\ xs[i + 1] = 0
      <4>1. Fl(0, 1) = 0 /\ s[i] + xs[i + 1] = 0
        BY <3>1, FlZero
      <4> QED BY <2>2, <4>1
    <3>2. CASE s[i] # 0
      <4>1. PICK k \in 1 .. i : xs[k] > 0
        BY <1>4, <3>2
      <4> QED BY <2>1, <4>1
    <3>3. CASE xs[i + 1] # 0
      BY <2>1, <2>2, <3>3
    <3> QED BY <3>1, <3>2, <3>3
  <2> QED BY <2>1, <2>3, <2>4, <2>5
<1>5. n \in S
  <2>1. \A i \in 0 .. n : i \in S
    <3> HIDE DEF S
    <3> QED BY <1>2, <1>3, <1>4, Induction
  <2> QED BY <1>2, <2>1
<1> QED BY <1>1, <1>5

\* Squares do not cancel out.
LEMMA SquaresFacts ==
    ASSUME NEW xs \in Seq(Int), NEW m \in Int
    PROVE  Squares(xs, m) \in Nat /\ (Squares(xs, m) > 0 <=> \E k \in 1 .. Len(xs) : xs[k] # m)
<1> DEFINE sq == [i \in DOMAIN xs |-> Square(Minus(xs[i], m))]
<1>1. ASSUME NEW y \in Int PROVE Square(y) \in Nat /\ (Square(y) > 0 <=> y # 0)
  <2>1. y * y \in Nat /\ (y # 0 <=> y * y # 0)
    OBVIOUS
  <2> HIDE DEF Fl
  <2> DEFINE z == y * y
  <2>2. z \in Nat /\ z \in Int
    BY <2>1
  <2> HIDE DEF z
  <2>3. Fl(z, 1) \in Nat /\ (Fl(z, 1) = 0 <=> z = 0)
    BY <2>2, FlSign, FlZero
  <2>4. Square(y) = Fl(z, 1)
    BY DEF Square, z
  <2>5. y # 0 <=> z # 0
    BY <2>1 DEF z
  <2> QED BY <2>3, <2>4, <2>5
<1>2. ASSUME NEW i \in 1 .. Len(xs) PROVE Minus(xs[i], m) \in Int /\ (Minus(xs[i], m) # 0 <=> xs[i] # m)
  <2>1. xs[i] - m \in Int /\ (xs[i] - m = 0 <=> xs[i] = m)
    OBVIOUS
  <2> QED BY <2>1, FlZero DEF Minus
<1>3. DOMAIN xs = 1 .. Len(xs) /\ Len(xs) \in Nat
  OBVIOUS
<1>4. \A i \in 1 .. Len(xs) : sq[i] \in Nat /\ (sq[i] > 0 <=> xs[i] # m)
  BY <1>1, <1>2, <1>3
<1>5. sq \in Seq(Nat) /\ Len(sq) = Len(xs)
  <2>1. sq = [i \in 1 .. Len(xs) |-> Square(Minus(xs[i], m))]
    BY <1>3
  <2>2. sq \in [1 .. Len(xs) -> Nat]
    BY <1>1, <1>2, <2>1
  <2> HIDE DEF sq
  <2> QED BY <1>3, <2>2
<1>6. Squares(xs, m) = FlSum(sq)
  BY DEF Squares
<1> HIDE DEF sq
<1> QED BY <1>4, <1>5, <1>6, PositiveSum

-----------------------------------------------------------------------------
(* The values of a table *)

\* n positions of a table that are those of S in ascending order.
Positions(n, table, S) ==
    /\ n <= Cardinality(Rows) /\ Cardinality(Rows) \in Nat
    /\ Ascending(S) \in [1 .. n -> S]
    /\ \A i, j \in 1 .. n : table[Ascending(S)[i]] = table[Ascending(S)[j]] => i = j
    /\ \A x \in S : \E k \in 1 .. n : Ascending(S)[k] = x

\* The rows at some positions of a table, each once.
LEMMA SubTable ==
    ASSUME NEW R \in SUBSET Rows, NEW table, IsTable(table, R),
           NEW S \in SUBSET (1 .. Len(table))
    PROVE  \E n \in Nat : Positions(n, table, S)
<1> DEFINE n == Cardinality(S)
           at == Ascending(S)
<1>1. /\ table \in Seq(R) /\ Len(table) \in Nat
      /\ \A j, k \in 1 .. Len(table) : table[j] = table[k] => j = k
  BY DEF IsTable
<1>2. S \in SUBSET Int /\ IsFiniteSet(S)
  <2>1. IsFiniteSet(1 .. Len(table))
    BY <1>1, FS_Interval
  <2>2. IsFiniteSet(S)
    BY <2>1, FS_Subset
  <2>3. S \in SUBSET Int
    BY <1>1
  <2> QED BY <2>2, <2>3
<1>3. /\ n \in Nat /\ at \in [1 .. n -> S]
      /\ \A i, j \in 1 .. n : i < j => at[i] < at[j]
      /\ \A x \in S : \E k \in 1 .. n : at[k] = x
  BY <1>2, AscendingFacts
<1> HIDE DEF n, at
<1>4. ASSUME NEW i \in 1 .. n, NEW j \in 1 .. n, table[at[i]] = table[at[j]] PROVE i = j
  <2>1. at[i] \in 1 .. Len(table) /\ at[j] \in 1 .. Len(table)
    BY <1>3
  <2>2. at[i] = at[j] /\ at[i] \in Int
    BY <1>1, <1>4, <2>1
  <2>3. i < j \/ j < i \/ i = j
    BY <1>3
  <2>4. ~(i < j) /\ ~(j < i)
    BY <1>3, <2>1, <2>2
  <2> QED BY <2>3, <2>4
<1>5. n <= Cardinality(Rows) /\ Cardinality(Rows) \in Nat
  <2> DEFINE f == [k \in 1 .. n |-> table[at[k]]]
  <2>1. \A k \in 1 .. n : table[at[k]] \in Rows
    <3> TAKE k \in 1 .. n
    <3>1. at[k] \in 1 .. Len(table)
      BY <1>3
    <3>2. table[at[k]] \in R
      BY <1>1, <3>1
    <3> QED BY <3>2
  <2>2. f \in Injection(1 .. n, Rows)
    BY <1>4, <2>1 DEF Injection, IsInjective
  <2>3. Cardinality(1 .. n) = n
    BY <1>3, FS_Interval
  <2>4. Cardinality(Rows) \in Nat
    BY PackConstants, FS_CardinalityType
  <2> HIDE DEF f
  <2> QED BY <2>2, <2>3, <2>4, FS_Injection, PackConstants
<1> QED BY <1>3, <1>4, <1>5 DEF at, Positions

\* The values of a table are those of its rows with a value, one by one.
ValuesOf(n, row, table, R) ==
    /\ n <= Cardinality(Rows) /\ row \in [1 .. n -> Valued(R)]
    /\ Values(table) = [k \in 1 .. n |-> ValueOf[row[k]]]
    /\ \A r \in Valued(R) : \E k \in 1 .. n : row[k] = r

LEMMA ValuesFacts ==
    ASSUME NEW R \in SUBSET Rows, NEW table, IsTable(table, R)
    PROVE  \E n \in Nat : \E row : ValuesOf(n, row, table, R)
<1> DEFINE vs == [i \in DOMAIN table |-> ValueOf[table[i]]]
           S == {i \in DOMAIN vs : vs[i] # None}
           at == Ascending(S)
<1>1. /\ table \in Seq(R) /\ DOMAIN table = 1 .. Len(table)
      /\ \A r \in R : \E k \in 1 .. Len(table) : table[k] = r
  BY DEF IsTable
<1>2. S = {i \in 1 .. Len(table) : ValueOf[table[i]] # None}
  BY <1>1
<1>3. Values(table) = [k \in DOMAIN at |-> vs[at[k]]]
  BY DEF Values, Sublist
<1> HIDE DEF at
<1>4. PICK n \in Nat : Positions(n, table, S)
  <2>1. S \in SUBSET (1 .. Len(table))
    BY <1>2
  <2> HIDE DEF S
  <2> QED BY <2>1, SubTable
<1>5. /\ n <= Cardinality(Rows)
      /\ at \in [1 .. n -> S]
      /\ \A x \in S : \E k \in 1 .. n : at[k] = x
  BY <1>4 DEF Positions, at
<1> DEFINE row == [k \in 1 .. n |-> table[at[k]]]
<1>6. \A k \in 1 .. n : at[k] \in 1 .. Len(table) /\ ValueOf[table[at[k]]] # None
  BY <1>2, <1>5
<1>7. row \in [1 .. n -> Valued(R)]
  BY <1>1, <1>6 DEF Valued
<1>8. Values(table) = [k \in 1 .. n |-> ValueOf[row[k]]]
  <2>1. \A k \in 1 .. n : vs[at[k]] = ValueOf[row[k]]
    BY <1>1, <1>6
  <2>2. DOMAIN at = 1 .. n
    BY <1>5
  <2> HIDE DEF vs, row
  <2> QED BY <1>3, <2>1, <2>2
<1>9. ASSUME NEW r \in Valued(R) PROVE \E k \in 1 .. n : row[k] = r
  <2>1. r \in R /\ ValueOf[r] # None
    BY DEF Valued
  <2>2. PICK x \in 1 .. Len(table) : table[x] = r
    BY <1>1, <2>1
  <2>3. x \in S
    BY <1>2, <2>1, <2>2
  <2>4. PICK k \in 1 .. n : at[k] = x
    BY <1>5, <2>3
  <2> QED BY <2>2, <2>4
<1> HIDE DEF row
<1>10. ValuesOf(n, row, table, R)
  BY <1>5, <1>7, <1>8, <1>9 DEF ValuesOf
<1> QED BY <1>10

\* So are the rows vwap_300s sums over.
LEMMA WeighedFacts ==
    ASSUME NEW R \in SUBSET Rows, NEW table, IsTable(table, R)
    PROVE  /\ Weighed(table) \in Seq({r \in Valued(R) : SizeOf[r] # None})
           /\ Len(Weighed(table)) <= Cardinality(Rows)
           /\ \A r \in Valued(R) : SizeOf[r] # None =>
                 \E k \in 1 .. Len(Weighed(table)) : Weighed(table)[k] = r
<1> DEFINE S == {i \in DOMAIN table : ValueOf[table[i]] # None /\ SizeOf[table[i]] # None}
           at == Ascending(S)
<1>1. /\ table \in Seq(R) /\ DOMAIN table = 1 .. Len(table)
      /\ \A r \in R : \E k \in 1 .. Len(table) : table[k] = r
  BY DEF IsTable
<1>2. Weighed(table) = [k \in DOMAIN at |-> table[at[k]]]
  BY DEF Weighed, Sublist
<1> HIDE DEF at
<1>3. PICK n \in Nat : Positions(n, table, S)
  <2>1. S \in SUBSET (1 .. Len(table))
    BY <1>1
  <2> HIDE DEF S
  <2> QED BY <2>1, SubTable
<1>4. /\ n <= Cardinality(Rows)
      /\ at \in [1 .. n -> S]
      /\ \A x \in S : \E k \in 1 .. n : at[k] = x
  BY <1>3 DEF Positions, at
<1> DEFINE T == {r \in Valued(R) : SizeOf[r] # None}
<1>5. \A k \in 1 .. n : at[k] \in S /\ table[at[k]] \in T
  BY <1>1, <1>4 DEF Valued
<1>6. Weighed(table) \in [1 .. n -> T]
  <2>1. DOMAIN at = 1 .. n
    BY <1>4
  <2> HIDE DEF T, S
  <2> QED BY <1>2, <1>5, <2>1
<1>7. Weighed(table) \in Seq(T) /\ Len(Weighed(table)) = n
  <2> HIDE DEF T
  <2> QED BY <1>4, <1>6
<1>8. ASSUME NEW r \in Valued(R), SizeOf[r] # None
      PROVE  \E k \in 1 .. n : Weighed(table)[k] = r
  <2>1. PICK x \in 1 .. Len(table) : table[x] = r
    BY <1>1 DEF Valued
  <2>2. x \in S
    BY <1>1, <1>8, <2>1 DEF Valued
  <2>3. PICK k \in 1 .. n : at[k] = x
    BY <1>4, <2>2
  <2>4. DOMAIN at = 1 .. n
    BY <1>4
  <2> QED BY <1>2, <2>1, <2>3, <2>4
<1> QED BY <1>4, <1>7, <1>8

\* The numbers of a list are the values of some rows.
Lists(xs, R) ==
    /\ xs \in Seq(Int) /\ Len(xs) \in Nat /\ Len(xs) <= Cardinality(Rows)
    /\ \A k \in 1 .. Len(xs) : \E r \in Valued(R) : xs[k] = ValueOf[r]
    /\ \A r \in Valued(R) : \E k \in 1 .. Len(xs) : xs[k] = ValueOf[r]
    /\ \A q, r \in Valued(R) : q # r => Len(xs) >= 2
    /\ xs = <<>> <=> Len(xs) = 0
    /\ Range(xs) = {xs[k] : k \in 1 .. Len(xs)}

LEMMA ValueBasics ==
    ASSUME NEW R \in SUBSET Rows, NEW table, IsTable(table, R)
    PROVE  Lists(Values(table), R)
<1> DEFINE xs == Values(table)
<1>1. PICK n \in Nat : \E row : ValuesOf(n, row, table, R)
  BY ValuesFacts
<1>2. PICK row : ValuesOf(n, row, table, R)
  BY <1>1
<1>3. /\ n <= Cardinality(Rows) /\ row \in [1 .. n -> Valued(R)]
      /\ xs = [k \in 1 .. n |-> ValueOf[row[k]]]
      /\ \A r \in Valued(R) : \E k \in 1 .. n : row[k] = r
  BY <1>2 DEF ValuesOf
<1>4. \A r \in Valued(R) : ValueOf[r] \in Int
  BY PackConstants DEF Valued
<1> HIDE DEF xs
<1>5. xs \in Seq(Int) /\ Len(xs) = n /\ DOMAIN xs = 1 .. n
  <2>1. xs \in [1 .. n -> Int]
    BY <1>3, <1>4
  <2> QED BY <1>3, <2>1
<1>6. ASSUME NEW q \in Valued(R), NEW r \in Valued(R), q # r PROVE n >= 2
  <2>1. PICK i \in 1 .. n : row[i] = q
    BY <1>3
  <2>2. PICK j \in 1 .. n : row[j] = r
    BY <1>3
  <2>3. i # j
    BY <1>6, <2>1, <2>2
  <2> QED BY <2>1, <2>2, <2>3
<1>7. Range(xs) = {xs[k] : k \in 1 .. Len(xs)}
  BY <1>5 DEF Range
<1>8. /\ \A k \in 1 .. n : \E r \in Valued(R) : xs[k] = ValueOf[r]
      /\ \A r \in Valued(R) : \E k \in 1 .. n : xs[k] = ValueOf[r]
  BY <1>3
<1>9. xs = <<>> <=> Len(xs) = 0
  BY <1>5
<1>10. Lists(xs, R)
  BY <1>3, <1>5, <1>6, <1>7, <1>8, <1>9 DEF Lists
<1> QED BY <1>10 DEF xs

LEMMA ExtremesFacts ==
    ASSUME NEW R \in SUBSET Rows, NEW table, IsTable(table, R),
           NEW xs, xs = Values(table)
    PROVE  /\ Len(xs) \in Nat
           /\ Len(xs) = 0 => Lowest(table) = None /\ Highest(table) = None
           /\ Len(xs) > 0 => Lowest(table) \in Int /\ Highest(table) \in Int
           /\ \A k \in 1 .. Len(xs) : Lowest(table) <= xs[k] /\ xs[k] <= Highest(table)
           /\ \A r \in Valued(R) : Lowest(table) <= ValueOf[r] /\ ValueOf[r] <= Highest(table)
           /\ Len(xs) > 0 => /\ \E r \in Valued(R) : Lowest(table) = ValueOf[r]
                             /\ \E r \in Valued(R) : Highest(table) = ValueOf[r]
<1> DEFINE vs == Range(xs)
<1>1. /\ xs \in Seq(Int) /\ Len(xs) \in Nat
      /\ \A k \in 1 .. Len(xs) : \E r \in Valued(R) : xs[k] = ValueOf[r]
      /\ \A r \in Valued(R) : \E k \in 1 .. Len(xs) : xs[k] = ValueOf[r]
      /\ vs = {xs[k] : k \in 1 .. Len(xs)}
  <2>1. Lists(xs, R)
    BY ValueBasics
  <2> QED BY <2>1 DEF Lists
<1>2. /\ Lowest(table) = IF vs = {} THEN None ELSE CHOOSE v \in vs : \A w \in vs : v <= w
      /\ Highest(table) = IF vs = {} THEN None ELSE CHOOSE v \in vs : \A w \in vs : v >= w
  BY DEF Lowest, Highest
<1> HIDE DEF vs
<1>3. vs \in SUBSET Int /\ IsFiniteSet(vs)
  <2>1. IsFiniteSet(1 .. Len(xs))
    BY <1>1, FS_Interval
  <2>2. [k \in 1 .. Len(xs) |-> xs[k]] \in Surjection(1 .. Len(xs), vs)
    BY <1>1 DEF Surjection
  <2>3. IsFiniteSet(vs)
    BY <2>1, <2>2, FS_Surjection
  <2> QED BY <1>1, <2>3
<1>4. CASE Len(xs) = 0
  <2>1. vs = {} /\ Valued(R) = {}
    BY <1>1, <1>4
  <2> QED BY <1>2, <1>4, <2>1
<1>5. CASE Len(xs) > 0
  <2>1. vs # {}
    <3>1. xs[1] \in vs
      BY <1>1, <1>5
    <3> QED BY <3>1
  <2>2. \E v \in vs : \A w \in vs : v <= w
    BY <1>3, <2>1, LeastElement
  <2>3. \E v \in vs : \A w \in vs : v >= w
    <3>1. \E v \in vs : \A w \in vs : w <= v
      BY <1>3, <2>1, GreatestElement
    <3> QED BY <1>3, <3>1
  <2>4. Lowest(table) \in vs /\ \A w \in vs : Lowest(table) <= w
    BY <1>2, <2>1, <2>2
  <2>5. Highest(table) \in vs /\ \A w \in vs : w <= Highest(table)
    <3>1. Highest(table) \in vs /\ \A w \in vs : Highest(table) >= w
      BY <1>2, <2>1, <2>3
    <3> QED BY <1>3, <3>1
  <2>6. Lowest(table) \in Int /\ Highest(table) \in Int
    BY <1>3, <2>4, <2>5
  <2>7. \A k \in 1 .. Len(xs) : xs[k] \in vs
    BY <1>1
  <2>8. \A r \in Valued(R) : ValueOf[r] \in vs
    <3> TAKE r \in Valued(R)
    <3>1. PICK k \in 1 .. Len(xs) : xs[k] = ValueOf[r]
      BY <1>1
    <3> QED BY <2>7, <3>1
  <2>9. \A v \in vs : \E r \in Valued(R) : v = ValueOf[r]
    BY <1>1
  <2> QED BY <1>5, <2>4, <2>5, <2>6, <2>7, <2>8, <2>9
<1> QED BY <1>1, <1>4, <1>5

LEMMA SumType ==
    ASSUME NEW xs \in Seq(Int)
    PROVE  FlSum(xs) \in Int
<1>1. PICK s \in [0 .. Len(xs) -> Int] :
              /\ s[0] = 0 /\ \A i \in 1 .. Len(xs) : s[i] = Fl(s[i - 1] + xs[i], 1)
              /\ FlSum(xs) = s[Len(xs)]
  BY FlSumSteps
<1>2. Len(xs) \in 0 .. Len(xs)
  OBVIOUS
<1> QED BY <1>1, <1>2

\* What the features of one table are, in terms of its values.
LEMMA FeatureFacts ==
    ASSUME NEW R \in SUBSET Rows, NEW table, IsTable(table, R),
           NEW xs, xs = Values(table)
    PROVE  /\ Len(xs) = 0 => /\ Mean(table) = None /\ Spread(table) = None
                             /\ Latest(table) = None
           /\ Len(xs) > 0 => /\ Mean(table) = Fl(FlSum(xs), Len(xs)) /\ Mean(table) \in Int
                             /\ Spread(table) = Minus(Highest(table), Lowest(table))
                             /\ Spread(table) \in Int
                             /\ Latest(table) = xs[Len(xs)] /\ Latest(table) \in Int
           /\ Len(xs) < 2 => Std(table) = None
           /\ Len(xs) >= 2 => /\ Std(table) = [sq |-> Squares(xs, Mean(table)), n |-> Len(xs)]
                              /\ Std(table) \in [sq : Int, n : Int] /\ Std(table) # None
<1>1. xs \in Seq(Int) /\ Len(xs) \in Nat /\ (xs = <<>> <=> Len(xs) = 0)
  <2>1. Lists(xs, R)
    BY ValueBasics
  <2> QED BY <2>1 DEF Lists
<1>2. CASE Len(xs) = 0
  BY <1>1, <1>2 DEF Mean, Spread, Latest, Std
<1>3. CASE Len(xs) > 0
  <2>1. Mean(table) = Fl(FlSum(xs), Len(xs)) /\ Mean(table) \in Int
    <3>1. Mean(table) = Fl(FlSum(xs), Len(xs))
      BY <1>1, <1>3 DEF Mean
    <3>2. FlSum(xs) \in Int /\ Len(xs) \in Nat \ {0}
      BY <1>1, <1>3, SumType
    <3> QED BY <3>1, <3>2, FlType
  <2>2. Lowest(table) \in Int /\ Highest(table) \in Int
    BY <1>3, ExtremesFacts
  <2>3. Spread(table) = Minus(Highest(table), Lowest(table)) /\ Spread(table) \in Int
    <3>1. Highest(table) - Lowest(table) \in Int
      BY <2>2
    <3> QED BY <1>1, <1>3, <3>1, FlZero DEF Spread, Minus
  <2>4. Latest(table) = xs[Len(xs)] /\ xs[Len(xs)] \in Int
    BY <1>1, <1>3 DEF Latest, Last
  <2>5. Len(xs) < 2 => Std(table) = None
    BY DEF Std
  <2>6. ASSUME Len(xs) >= 2
        PROVE  /\ Std(table) = [sq |-> Squares(xs, Mean(table)), n |-> Len(xs)]
               /\ Std(table) \in [sq : Int, n : Int]
    <3>1. Std(table) = [sq |-> Squares(xs, Mean(table)), n |-> Len(xs)]
      BY <1>1, <2>6 DEF Std
    <3>2. Squares(xs, Mean(table)) \in Nat
      BY <1>1, <2>1, SquaresFacts
    <3> QED BY <1>1, <3>1, <3>2
  <2>7. \A x \in [sq : Int, n : Int] : x # None
    BY NoneIsNoValue
  <2> QED BY <1>1, <1>3, <2>1, <2>3, <2>4, <2>5, <2>6, <2>7
<1> QED BY <1>1, <1>2, <1>3

-----------------------------------------------------------------------------
(* The features *)

LEMMA RollingFacts ==
    /\ Rolling \in Seq(Range(Rolling)) /\ Len(Rolling) = 11
    /\ Range(Rolling) = {Rolling[i] : i \in 1 .. 11} /\ Range(Rolling) \subseteq Declared
    /\ \A s \in Range(Rolling) :
          s.type = "series" /\ s.off = None /\ s.window \in {Short, Long}
<1>1. Len(Rolling) = 11 /\ DOMAIN Rolling = 1 .. 11
  BY DEF Rolling
<1>2. Range(Rolling) = {Rolling[i] : i \in 1 .. 11}
  <2> HIDE DEF Rolling
  <2> QED BY <1>1 DEF Range
<1>3. Rolling \in Seq(Range(Rolling)) /\ Range(Rolling) \subseteq Declared
  BY WindowConstants, RegistryConstants DEF Declared
<1>4. \A i \in 1 .. 11 : /\ Rolling[i].type = "series" /\ Rolling[i].off = None
                         /\ Rolling[i].window \in {Short, Long}
  BY DEF Rolling, Feature
<1> QED BY <1>1, <1>2, <1>3, <1>4

\* The two sums of vwap_300s.
Num(table) ==
    LET w == Weighed(table) IN [i \in DOMAIN w |-> Fl(ValueOf[w[i]] * SizeOf[w[i]], 1)]
Den(table) == LET w == Weighed(table) IN [i \in DOMAIN w |-> SizeOf[w[i]]]

LEMMA VwapFacts ==
    ASSUME NEW R \in SUBSET Rows, NEW table, IsTable(table, R)
    PROVE  /\ Num(table) \in Seq(Int) /\ Den(table) \in Seq(Nat)
           /\ Len(Num(table)) = Len(Weighed(table)) /\ Len(Den(table)) = Len(Weighed(table))
           /\ FlSum(Num(table)) \in Int /\ FlSum(Den(table)) \in Nat
           /\ Vwap(table) = IF FlSum(Den(table)) = 0 THEN None
                            ELSE Fl(FlSum(Num(table)), FlSum(Den(table)))
           /\ FlSum(Den(table)) # 0 => Vwap(table) \in Int
           /\ \A r \in Valued(R) : SizeOf[r] # None /\ SizeOf[r] > 0 => FlSum(Den(table)) > 0
<1> DEFINE w == Weighed(table)
           T == {r \in Valued(R) : SizeOf[r] # None}
<1>1. /\ w \in Seq(T)
      /\ \A r \in Valued(R) : SizeOf[r] # None => \E k \in 1 .. Len(w) : w[k] = r
  BY WeighedFacts
<1>2. \A r \in T : ValueOf[r] \in Int /\ SizeOf[r] \in Nat
  BY PackConstants DEF Valued
<1> HIDE DEF w, T
<1>3. DOMAIN w = 1 .. Len(w) /\ Len(w) \in Nat
      /\ \A i \in 1 .. Len(w) : ValueOf[w[i]] \in Int /\ SizeOf[w[i]] \in Nat
  BY <1>1, <1>2
<1>4. \A i \in 1 .. Len(w) : Fl(ValueOf[w[i]] * SizeOf[w[i]], 1) \in Int
  <2> TAKE i \in 1 .. Len(w)
  <2>1. \A a \in Int : \A b \in Nat : a * b \in Int
    OBVIOUS
  <2>2. ValueOf[w[i]] * SizeOf[w[i]] \in Int /\ 1 \in Nat \ {0}
    BY <1>3, <2>1
  <2> QED BY <2>2, FlType
<1>5. /\ Num(table) = [i \in 1 .. Len(w) |-> Fl(ValueOf[w[i]] * SizeOf[w[i]], 1)]
      /\ Den(table) = [i \in 1 .. Len(w) |-> SizeOf[w[i]]]
  BY <1>3 DEF Num, Den, w
<1>6. /\ Num(table) \in Seq(Int) /\ Den(table) \in Seq(Nat)
      /\ Len(Num(table)) = Len(w) /\ Len(Den(table)) = Len(w)
  <2>1. Num(table) \in [1 .. Len(w) -> Int] /\ Den(table) \in [1 .. Len(w) -> Nat]
    BY <1>3, <1>4, <1>5
  <2> QED BY <1>3, <2>1
<1>7. FlSum(Num(table)) \in Int /\ FlSum(Den(table)) \in Nat
  BY <1>6, SumType, PositiveSum
<1>8. Vwap(table) = IF FlSum(Den(table)) = 0 THEN None
                    ELSE Fl(FlSum(Num(table)), FlSum(Den(table)))
  BY DEF Vwap, Num, Den
<1>9. ASSUME FlSum(Den(table)) # 0 PROVE Vwap(table) \in Int
  <2>1. FlSum(Den(table)) \in Nat \ {0}
    BY <1>7, <1>9
  <2>2. Fl(FlSum(Num(table)), FlSum(Den(table))) \in Int
    BY <1>7, <2>1, FlType
  <2> QED BY <1>8, <1>9, <2>2
<1>10. ASSUME NEW r \in Valued(R), SizeOf[r] # None, SizeOf[r] > 0
       PROVE  FlSum(Den(table)) > 0
  <2>1. PICK k \in 1 .. Len(w) : w[k] = r
    BY <1>1, <1>10
  <2>2. Den(table)[k] > 0 /\ k \in 1 .. Len(Den(table))
    BY <1>5, <1>6, <1>10, <2>1
  <2> QED BY <1>6, <2>2, PositiveSum
<1> QED BY <1>6, <1>7, <1>8, <1>9, <1>10 DEF w

LEMMA TwoElements ==
    ASSUME NEW S, Cardinality(S) >= 2
    PROVE  \E x, y \in S : x # y
<1> SUFFICES ASSUME \A x, y \in S : x = y PROVE Cardinality(S) \in {0, 1}
  OBVIOUS
<1>1. CASE S = {}
  BY <1>1, FS_EmptySet
<1>2. CASE S # {}
  <2>1. PICK x \in S : TRUE
    BY <1>2
  <2>2. S = {x}
    BY <2>1
  <2> QED BY <2>2, FS_Singleton
<1> QED BY <1>1, <1>2

\* Rows of W are enough for s, in a lake L.
Enough(s, W, L) ==
    LET vals == {ValueOf[r] : r \in Valued(W)}
    IN  CASE s.name = "count_60s" -> W # {}
          [] s.name = "std_300s" -> Cardinality(Valued(W)) >= 2
          [] s.name = "zscore_300s" -> Cardinality(vals) >= 2
          [] s.name = "log_return_300s" ->
                /\ Cardinality(Valued(W)) >= 2
                /\ \A r \in Valued(L) : ValueOf[r] > 0
          [] s.name = "vwap_300s" ->
                \E r \in Valued(W) : SizeOf[r] # None /\ SizeOf[r] > 0
          [] OTHER -> vals # {}

LEMMA NamesOfRolling ==
    \A s \in Range(Rolling) :
        s.name \in {"mean_60s", "mean_300s", "std_300s", "min_300s", "max_300s",
                    "range_300s", "count_60s", "last", "zscore_300s",
                    "log_return_300s", "vwap_300s"}
<1>1. \A i \in 1 .. 11 :
        Rolling[i].name \in {"mean_60s", "mean_300s", "std_300s", "min_300s", "max_300s",
                             "range_300s", "count_60s", "last", "zscore_300s",
                             "log_return_300s", "vwap_300s"}
  BY DEF Rolling, Feature
<1> QED BY <1>1, RollingFacts

\* A feature does not decline a table with enough rows.
LEMMA EnoughRows ==
    ASSUME NEW s \in Range(Rolling), NEW L \in SUBSET Rows, NEW R \in SUBSET L,
           NEW W \in SUBSET R, NEW table, IsTable(table, R), Enough(s, W, L)
    PROVE  Value(s, table) # None
<1> DEFINE xs == Values(table)
<1>1. Lists(xs, R) /\ R \in SUBSET Rows
  <2>1. R \in SUBSET Rows
    OBVIOUS
  <2> QED BY <2>1, ValueBasics
<1>2. /\ xs \in Seq(Int) /\ Len(xs) \in Nat
      /\ \A k \in 1 .. Len(xs) : \E r \in Valued(R) : xs[k] = ValueOf[r]
      /\ \A r \in Valued(R) : \E k \in 1 .. Len(xs) : xs[k] = ValueOf[r]
      /\ \A q, r \in Valued(R) : q # r => Len(xs) >= 2
  BY <1>1 DEF Lists
<1>3. Valued(W) \subseteq Valued(R) /\ Valued(R) \subseteq Valued(L)
  BY DEF Valued
<1> DEFINE vals == {ValueOf[r] : r \in Valued(W)}
<1>4. \A x : x \in Int => x # None
  BY NoneIsNoNumber
<1>5. ASSUME NEW r \in Valued(R) PROVE Len(xs) > 0
  BY <1>2, <1>5
<1>6. ASSUME Len(xs) > 0 PROVE /\ Mean(table) \in Int /\ Spread(table) \in Int
                               /\ Latest(table) \in Int
                               /\ Lowest(table) \in Int /\ Highest(table) \in Int
  BY <1>1, <1>6, FeatureFacts, ExtremesFacts
<1>7. ASSUME Cardinality(Valued(W)) >= 2 PROVE Len(xs) >= 2
  BY <1>2, <1>3, <1>7, TwoElements
<1> HIDE DEF xs
<1>8. CASE s.name \in {"mean_60s", "mean_300s", "min_300s", "max_300s", "range_300s", "last"}
  <2>1. vals # {}
    BY <1>8 DEF Enough
  <2>2. Len(xs) > 0
    BY <1>3, <1>5, <2>1
  <2>3. Value(s, table) \in {Mean(table), Lowest(table), Highest(table), Spread(table), Latest(table)}
    BY <1>8 DEF Value
  <2> QED BY <1>4, <1>6, <2>2, <2>3
<1>9. CASE s.name = "count_60s"
  <2>1. W # {}
    BY <1>9 DEF Enough
  <2>2. PICK r \in R : TRUE
    BY <2>1
  <2>3. table \in Seq(R) /\ \E k \in 1 .. Len(table) : table[k] = r
    BY DEF IsTable
  <2>4. Count(table) = Len(table) /\ Len(table) \in Int
    BY <2>3 DEF Count
  <2>5. Value(s, table) = Count(table)
    BY <1>9 DEF Value
  <2> QED BY <1>4, <2>4, <2>5
<1>10. CASE s.name = "std_300s"
  <2>1. Len(xs) >= 2
    BY <1>7, <1>10 DEF Enough
  <2>2. Std(table) # None
    BY <1>1, <2>1, FeatureFacts DEF xs
  <2> QED BY <1>10, <2>2 DEF Value
<1>11. CASE s.name = "zscore_300s"
  <2>1. Cardinality(vals) >= 2
    BY <1>11 DEF Enough
  <2>2. PICK v \in vals, u \in vals : v # u
    <3> HIDE DEF vals
    <3> QED BY <2>1, TwoElements
  <2>3. PICK q \in Valued(W), r \in Valued(W) : ValueOf[q] = v /\ ValueOf[r] = u
    BY <2>2
  <2>4. q \in Valued(R) /\ r \in Valued(R) /\ q # r
    BY <1>3, <2>2, <2>3
  <2>5. Len(xs) >= 2
    BY <1>2, <2>4
  <2>6. /\ Mean(table) \in Int /\ Latest(table) \in Int
        /\ Std(table) = [sq |-> Squares(xs, Mean(table)), n |-> Len(xs)]
        /\ Std(table) \in [sq : Int, n : Int] /\ Std(table) # None
    BY <1>1, <1>2, <2>5, FeatureFacts DEF xs
  <2>7. \E k \in 1 .. Len(xs) : xs[k] # Mean(table)
    <3>1. PICK i \in 1 .. Len(xs) : xs[i] = v
      BY <1>2, <2>3, <2>4
    <3>2. PICK j \in 1 .. Len(xs) : xs[j] = u
      BY <1>2, <2>3, <2>4
    <3> QED BY <2>2, <3>1, <3>2
  <2>8. Std(table).sq > 0 /\ Std(table).sq \in Int
    <3>1. Squares(xs, Mean(table)) > 0 /\ Squares(xs, Mean(table)) \in Nat
      BY <1>2, <2>6, <2>7, SquaresFacts
    <3> QED BY <2>6, <3>1
  <2>9. ZScore(table) = [dev |-> Minus(Latest(table), Mean(table)), std |-> Std(table)]
    BY <2>6, <2>8 DEF ZScore
  <2>10. ZScore(table) \in [dev : Int, std : [sq : Int, n : Int]]
    <3>1. Latest(table) - Mean(table) \in Int
      BY <2>6
    <3>2. Minus(Latest(table), Mean(table)) \in Int
      BY <3>1, FlZero DEF Minus
    <3> QED BY <2>6, <2>9, <3>2
  <2>11. ZScore(table) # None
    BY <2>10, NoneIsNoValue
  <2> QED BY <1>11, <2>11 DEF Value
<1>12. CASE s.name = "log_return_300s"
  <2>1. Cardinality(Valued(W)) >= 2 /\ \A r \in Valued(L) : ValueOf[r] > 0
    BY <1>12 DEF Enough
  <2>2. Len(xs) >= 2
    BY <1>7, <2>1
  <2>3. \A k \in 1 .. Len(xs) : xs[k] > 0 /\ xs[k] \in Int
    <3> TAKE k \in 1 .. Len(xs)
    <3>1. PICK r \in Valued(R) : xs[k] = ValueOf[r]
      BY <1>2
    <3>2. r \in Valued(L) /\ ValueOf[r] > 0
      BY <1>3, <2>1
    <3>3. xs \in Seq(Int)
      BY <1>2
    <3>4. xs[k] \in Int
      BY <3>3
    <3> QED BY <3>1, <3>2, <3>4
  <2>4. Last(xs) = xs[Len(xs)] /\ Len(xs) \in 1 .. Len(xs) /\ 1 \in 1 .. Len(xs)
    BY <1>2, <2>2 DEF Last
  <2>5. xs[1] > 0 /\ Last(xs) > 0 /\ xs[1] \in Int /\ Last(xs) \in Int
    BY <2>3, <2>4
  <2>6. LogReturn(table) = [last |-> Last(xs), first |-> xs[1]]
    <3>1. LogReturn(table) = IF Len(xs) < 2 \/ xs[1] <= 0 \/ Last(xs) <= 0 THEN None
                             ELSE [last |-> Last(xs), first |-> xs[1]]
      BY DEF LogReturn, xs
    <3>2. ~(Len(xs) < 2) /\ ~(xs[1] <= 0) /\ ~(Last(xs) <= 0)
      BY <1>2, <2>2, <2>5
    <3> QED BY <3>1, <3>2
  <2>7. LogReturn(table) \in [last : Int, first : Int]
    BY <2>5, <2>6
  <2>8. LogReturn(table) # None
    BY <2>7, NoneIsNoValue
  <2> QED BY <1>12, <2>8 DEF Value
<1>13. CASE s.name = "vwap_300s"
  <2>1. PICK r \in Valued(W) : SizeOf[r] # None /\ SizeOf[r] > 0
    BY <1>13 DEF Enough
  <2>2. FlSum(Den(table)) > 0 /\ FlSum(Den(table)) \in Nat
    BY <1>1, <1>3, <2>1, VwapFacts
  <2>3. Vwap(table) \in Int
    <3>1. FlSum(Den(table)) # 0
      BY <2>2
    <3> QED BY <1>1, <3>1, VwapFacts
  <2>4. Value(s, table) = Vwap(table)
    BY <1>13 DEF Value
  <2> QED BY <1>4, <2>3, <2>4
<1> QED BY <1>8, <1>9, <1>10, <1>11, <1>12, <1>13, NamesOfRolling

-----------------------------------------------------------------------------
(* The registry *)

Taken(name, list) == \E i \in 1 .. Len(list) : list[i].name = name

\* The features of p that are registered are its first n, after the first at
\* features of the registry.
Block(p, list, at, n) ==
    /\ at \in 0 .. Len(list) /\ n \in 0 .. Len(list) - at
    /\ n <= Len(p) /\ \A i \in 1 .. n : list[at + i] = p[i]
    /\ \A i \in 1 .. Len(list) : list[i] \in Range(p) => i \in at + 1 .. at + n

Together(p, list) == \E at, n \in Nat : Block(p, list, at, n)

\* In the registry a pack that is cut short ends before a taken name.
Stretch(p, list, at, n) ==
    /\ Block(p, list, at, n)
    /\ n \in 1 .. Len(p) - 1 => Taken(p[n + 1].name, list)

Kept(p, list) == \E at, n \in Nat : Stretch(p, list, at, n)

RegistryInv == specs \in Seq(Declared) /\ \A p \in Packs : Kept(p, specs)

\* Registering a list adds its first features, none if the first one's name is
\* taken.
LEMMA RegisteredPrefix ==
    ASSUME specs \in Seq(Declared), NEW list \in Seq(Declared)
    PROVE  \E n \in 0 .. Len(list) :
              /\ \A i \in 1 .. n : list[i].name \notin Names
              /\ n < Len(list) => Taken(list[n + 1].name, specs)
              /\ Registered(list) = specs \o SubSeq(list, 1, n)
<1> DEFINE free == {n \in 0 .. Len(list) : \A i \in 1 .. n : list[i].name \notin Names}
<1>1. Len(list) \in Nat /\ 0 \in free
  OBVIOUS
<1>2. free \in SUBSET Int /\ IsFiniteSet(free) /\ free # {}
  <2>1. IsFiniteSet(0 .. Len(list))
    BY <1>1, FS_Interval
  <2>2. free \in SUBSET (0 .. Len(list))
    OBVIOUS
  <2> HIDE DEF free
  <2>3. IsFiniteSet(free)
    BY <2>1, <2>2, FS_Subset
  <2> QED BY <1>1, <2>2, <2>3
<1> DEFINE most == CHOOSE n \in free : \A m \in free : m <= n
<1>3. most \in free /\ \A m \in free : m <= most
  <2> HIDE DEF free
  <2>1. \E n \in free : \A m \in free : m <= n
    BY <1>2, GreatestElement
  <2> QED BY <2>1
<1>4. Registered(list) = specs \o SubSeq(list, 1, most)
  BY DEF Registered
<1> HIDE DEF most
<1>5. ASSUME most < Len(list) PROVE Taken(list[most + 1].name, specs)
  <2>1. most + 1 \in 0 .. Len(list) /\ most \in Int /\ most + 1 \notin free
    BY <1>1, <1>3, <1>5
  <2>2. PICK i \in 1 .. most + 1 : list[i].name \in Names
    BY <2>1
  <2>3. i = most + 1
    BY <1>3, <2>1, <2>2
  <2>4. DOMAIN specs = 1 .. Len(specs)
    OBVIOUS
  <2> QED BY <2>2, <2>3, <2>4 DEF Names, Taken
<1> QED BY <1>3, <1>4, <1>5

LEMMA AfterPrefix ==
    ASSUME specs \in Seq(Declared), NEW list \in Seq(Declared), NEW n \in 0 .. Len(list),
           NEW new, new = specs \o SubSeq(list, 1, n)
    PROVE  /\ new \in Seq(Declared) /\ Len(new) = Len(specs) + n /\ Len(specs) \in Nat
           /\ \A i \in 1 .. Len(specs) : new[i] = specs[i]
           /\ \A i \in 1 .. n : new[Len(specs) + i] = list[i]
<1>1. SubSeq(list, 1, n) \in Seq(Declared) /\ Len(SubSeq(list, 1, n)) = n
      /\ \A i \in 1 .. n : SubSeq(list, 1, n)[i] = list[i]
  OBVIOUS
<1> QED BY <1>1

\* A pack none of whose features is among the new ones stays where it is.
LEMMA OtherPack ==
    ASSUME specs \in Seq(Declared), NEW list \in Seq(Declared), NEW n \in 0 .. Len(list),
           NEW p \in Packs, Kept(p, specs),
           \A i \in 1 .. n : list[i] \notin Range(p),
           NEW new, new = specs \o SubSeq(list, 1, n)
    PROVE  Kept(p, new)
<1>1. /\ new \in Seq(Declared) /\ Len(new) = Len(specs) + n /\ Len(specs) \in Nat
      /\ \A i \in 1 .. Len(specs) : new[i] = specs[i]
      /\ \A i \in 1 .. n : new[Len(specs) + i] = list[i]
  BY AfterPrefix
<1>2. PICK at \in Nat, m \in Nat : Stretch(p, specs, at, m)
  BY DEF Kept
<1>3. ASSUME NEW i \in 1 .. Len(new), new[i] \in Range(p) PROVE i \in at + 1 .. at + m
  <2>1. CASE i \in 1 .. Len(specs)
    BY <1>1, <1>2, <1>3, <2>1 DEF Stretch, Block
  <2>2. CASE i - Len(specs) \in 1 .. n
    <3>1. new[Len(specs) + (i - Len(specs))] = list[i - Len(specs)]
      BY <1>1, <2>2
    <3>2. Len(specs) + (i - Len(specs)) = i
      BY <1>1
    <3> QED BY <1>3, <2>2, <3>1, <3>2
  <2> QED BY <1>1, <2>1, <2>2
<1>4. /\ at \in 0 .. Len(specs) /\ m \in 0 .. Len(specs) - at /\ m <= Len(p)
      /\ \A i \in 1 .. m : specs[at + i] = p[i]
      /\ m \in 1 .. Len(p) - 1 => Taken(p[m + 1].name, specs)
  BY <1>2 DEF Stretch, Block
<1>5. /\ \A i \in 1 .. m : new[at + i] = p[i]
      /\ \A x : Taken(x, specs) => Taken(x, new)
  BY <1>1, <1>4 DEF Taken
<1>6. Stretch(p, new, at, m)
  BY <1>1, <1>3, <1>4, <1>5 DEF Stretch, Block
<1> QED BY <1>6 DEF Kept

LEMMA RegistryNextInv ==
    ASSUME RegistryInv, RegistryNext
    PROVE  RegistryInv'
<1>1. specs \in Seq(Declared) /\ Len(specs) \in Nat /\ \A p \in Packs : Kept(p, specs)
  BY DEF RegistryInv
<1>2. \A p \in Packs : p \in Seq(Declared) /\ Len(p) \in Nat /\ Range(p) = {p[i] : i \in 1 .. Len(p)}
  <2> SUFFICES ASSUME NEW p \in Packs
               PROVE  p \in Seq(Declared) /\ Len(p) \in Nat /\ Range(p) = {p[i] : i \in 1 .. Len(p)}
    OBVIOUS
  <2>1. p \in Seq(Range(p)) /\ Range(p) \subseteq Declared
    BY RegistryConstants DEF Declared
  <2>2. DOMAIN p = 1 .. Len(p) /\ Len(p) \in Nat
    BY <2>1
  <2> QED BY <2>1, <2>2 DEF Range
<1>3. ASSUME NEW s \in Own, Register(s) PROVE RegistryInv'
  <2>1. <<s>> \in Seq(Declared) /\ Len(<<s>>) = 1 /\ <<s>>[1] = s
    <3>1. s \in Declared
      BY <1>3 DEF Declared
    <3> QED BY <3>1
  <2>2. PICK n \in 0 .. 1 : specs' = specs \o SubSeq(<<s>>, 1, n)
    BY <1>1, <1>3, <2>1, RegisteredPrefix DEF Register
  <2>3. \A p \in Packs : \A i \in 1 .. n : <<s>>[i] \notin Range(p)
    BY <1>3, RegistryConstants
  <2>4. specs' \in Seq(Declared)
    BY <1>1, <2>1, <2>2, AfterPrefix
  <2>5. ASSUME NEW p \in Packs PROVE Kept(p, specs')
    BY <1>1, <2>1, <2>2, <2>3, OtherPack
  <2> QED BY <2>4, <2>5 DEF RegistryInv
<1>4. ASSUME NEW p \in Packs, Import(p) PROVE RegistryInv'
  <2>1. p \in Seq(Declared) /\ Len(p) \in Nat
    BY <1>2, <1>4
  <2>2. PICK n \in 0 .. Len(p) : /\ \A i \in 1 .. n : p[i].name \notin Names
                                 /\ n < Len(p) => Taken(p[n + 1].name, specs)
                                 /\ specs' = specs \o SubSeq(p, 1, n)
    BY <1>1, <1>4, <2>1, RegisteredPrefix DEF Import
  <2>3. /\ specs' \in Seq(Declared) /\ Len(specs') = Len(specs) + n
        /\ \A i \in 1 .. Len(specs) : specs'[i] = specs[i]
        /\ \A i \in 1 .. n : specs'[Len(specs) + i] = p[i]
    BY <1>1, <2>1, <2>2, AfterPrefix
  <2>4. ASSUME NEW q \in Packs, q # p PROVE Kept(q, specs')
    <3>1. \A i \in 1 .. n : p[i] \notin Range(q)
      BY <1>2, <1>4, <2>4, RegistryConstants
    <3> QED BY <1>1, <2>1, <2>2, <3>1, OtherPack
  <2>5. Kept(p, specs')
    <3>1. PICK at \in Nat, m \in Nat : Stretch(p, specs, at, m)
      BY <1>1, <1>4 DEF Kept
    <3>2. CASE m = 0
      <4>1. \A i \in 1 .. Len(specs) : specs[i] \notin Range(p)
        BY <3>1, <3>2 DEF Stretch, Block
      <4>2. ASSUME NEW i \in 1 .. Len(specs'), specs'[i] \in Range(p)
            PROVE  i \in Len(specs) + 1 .. Len(specs) + n
        <5>1. i \notin 1 .. Len(specs)
          BY <2>3, <4>1, <4>2
        <5> QED BY <1>1, <2>3, <5>1
      <4>3. n < Len(p) => Taken(p[n + 1].name, specs')
        BY <1>1, <2>2, <2>3 DEF Taken
      <4>4. Block(p, specs', Len(specs), n)
        BY <1>1, <2>1, <2>3, <4>2 DEF Block
      <4>5. Stretch(p, specs', Len(specs), n)
        BY <2>1, <4>3, <4>4 DEF Stretch
      <4> QED BY <1>1, <2>1, <4>5 DEF Kept
    <3>3. CASE m > 0
      <4>1. specs[at + 1] = p[1] /\ at + 1 \in 1 .. Len(specs)
        BY <1>1, <3>1, <3>3 DEF Stretch, Block
      <4>2. p[1].name \in Names
        <5>1. DOMAIN specs = 1 .. Len(specs)
          BY <1>1
        <5> QED BY <4>1, <5>1 DEF Names
      <4>3. n = 0
        BY <2>1, <2>2, <4>2
      <4>4. specs' = specs
        BY <1>1, <2>1, <2>2, <4>3
      <4> QED BY <1>1, <1>4, <4>4
    <3> QED BY <3>1, <3>2, <3>3
  <2>6. \A q \in Packs : Kept(q, specs')
    BY <2>4, <2>5
  <2> QED BY <2>3, <2>6 DEF RegistryInv, Kept, Stretch, Block
<1>5. CASE Clear
  <2>1. specs' = <<>> /\ specs' \in Seq(Declared) /\ Len(specs') = 0
    BY <1>5 DEF Clear
  <2>2. ASSUME NEW p \in Packs PROVE Kept(p, specs')
    <3>1. Stretch(p, specs', 0, 0)
      BY <1>2, <2>1 DEF Stretch, Block
    <3> QED BY <3>1 DEF Kept
  <2> QED BY <2>1, <2>2 DEF RegistryInv, Kept, Stretch, Block
<1> QED BY <1>3, <1>4, <1>5 DEF RegistryNext

LEMMA RegistryInitInv == PackInit => RegistryInv
<1> SUFFICES ASSUME specs = <<>> PROVE RegistryInv
  BY DEF PackInit, RegistryInit
<1>1. specs \in Seq(Declared) /\ Len(specs) = 0
  OBVIOUS
<1>2. ASSUME NEW p \in Packs PROVE Kept(p, specs)
  <2>1. Len(p) \in Nat
    <3>1. p \in Seq(Range(p))
      BY <1>2, RegistryConstants
    <3> QED BY <3>1
  <2>2. Stretch(p, specs, 0, 0)
    BY <1>1, <2>1 DEF Stretch, Block
  <2> QED BY <2>2 DEF Kept
<1> QED BY <1>1, <1>2 DEF RegistryInv

LEMMA RegistryStep == RegistryInv /\ [PackNext]_packVars => RegistryInv'
<1> SUFFICES ASSUME RegistryInv, [PackNext]_packVars PROVE RegistryInv'
  OBVIOUS
<1>1. RegistryNext \/ UNCHANGED specs
  BY DEF PackNext, Setup, Point, Ask, Scan, Fetch, FetchFails, Compute, NoRoute, Yield,
         packVars
<1>2. CASE UNCHANGED specs
  BY <1>2 DEF RegistryInv, Kept, Stretch, Block
<1> QED BY <1>1, <1>2, RegistryNextInv

\* Whatever is registered, refused, imported again, reloaded and cleared, and
\* while grid points are computed, the registered features of a pack are its
\* first ones, side by side (registry.py: register; rolling.py: the decorators).
THEOREM PackStaysTogetherHolds == PackSpec => []PackStaysTogether
<1>1. RegistryInv => PackStaysTogether
  <2> SUFFICES ASSUME RegistryInv, NEW p \in Packs
               PROVE  \E at \in 0 .. Len(specs) : \E n \in 0 .. Len(specs) - at :
                         /\ n <= Len(p) /\ \A i \in 1 .. n : specs[at + i] = p[i]
                         /\ n \in 1 .. Len(p) - 1 => p[n + 1].name \in Names
                         /\ \A i \in DOMAIN specs : specs[i] \in Range(p) => i \in at + 1 .. at + n
    BY DEF PackStaysTogether
  <2>1. PICK at \in Nat, n \in Nat : Stretch(p, specs, at, n)
    BY DEF RegistryInv, Kept
  <2>2. DOMAIN specs = 1 .. Len(specs)
    BY DEF RegistryInv
  <2>3. \A x : Taken(x, specs) => x \in Names
    BY <2>2 DEF Taken, Names
  <2> QED BY <2>1, <2>2, <2>3 DEF Stretch, Block
<1> QED BY <1>1, RegistryInitInv, RegistryStep, PTL DEF PackSpec

-----------------------------------------------------------------------------
(* The plan of a build *)

Distinct(list) == \A i, j \in 1 .. Len(list) : list[i].name = list[j].name => i = j

LEMMA RegistryDistinct ==
    ASSUME specs \in Seq(Declared), Distinct(specs), RegistryNext
    PROVE  specs' \in Seq(Declared) /\ Distinct(specs')
<1>1. ASSUME NEW list \in Seq(Declared), Distinct(list), specs' = Registered(list)
      PROVE  specs' \in Seq(Declared) /\ Distinct(specs')
  <2>1. PICK n \in 0 .. Len(list) : /\ \A i \in 1 .. n : list[i].name \notin Names
                                    /\ specs' = specs \o SubSeq(list, 1, n)
    BY <1>1, RegisteredPrefix
  <2>2. /\ specs' \in Seq(Declared) /\ Len(specs') = Len(specs) + n /\ Len(specs) \in Nat
        /\ \A i \in 1 .. Len(specs) : specs'[i] = specs[i]
        /\ \A i \in 1 .. n : specs'[Len(specs) + i] = list[i]
    BY <2>1, AfterPrefix
  <2>3. \A i \in 1 .. Len(specs) : specs'[i].name \in Names
    <3>1. DOMAIN specs = 1 .. Len(specs)
      OBVIOUS
    <3> QED BY <2>2, <3>1 DEF Names
  <2>4. \A i \in 1 .. Len(specs') : i \notin 1 .. Len(specs) =>
           /\ i - Len(specs) \in 1 .. n /\ specs'[i] = list[i - Len(specs)]
           /\ specs'[i].name \notin Names
    <3> TAKE i \in 1 .. Len(specs')
    <3> HAVE i \notin 1 .. Len(specs)
    <3>1. i - Len(specs) \in 1 .. n /\ Len(specs) + (i - Len(specs)) = i
      BY <2>2
    <3>2. specs'[i] = list[i - Len(specs)]
      BY <2>2, <3>1
    <3> QED BY <2>1, <3>1, <3>2
  <2>5. ASSUME NEW i \in 1 .. Len(specs'), NEW j \in 1 .. Len(specs'),
               specs'[i].name = specs'[j].name
        PROVE  i = j
    <3>1. CASE i \in 1 .. Len(specs) /\ j \in 1 .. Len(specs)
      BY <2>2, <2>5, <3>1 DEF Distinct
    <3>2. CASE i \notin 1 .. Len(specs) /\ j \notin 1 .. Len(specs)
      <4>1. i - Len(specs) \in 1 .. n /\ j - Len(specs) \in 1 .. n
            /\ list[i - Len(specs)].name = list[j - Len(specs)].name
        BY <2>4, <2>5, <3>2
      <4>2. i - Len(specs) \in 1 .. Len(list) /\ j - Len(specs) \in 1 .. Len(list)
        BY <4>1
      <4>3. i - Len(specs) = j - Len(specs)
        BY <1>1, <4>1, <4>2 DEF Distinct
      <4> QED BY <2>2, <4>3
    <3> QED BY <2>3, <2>4, <2>5, <3>1, <3>2
  <2> QED BY <2>2, <2>5 DEF Distinct
<1>2. ASSUME NEW s \in Own, Register(s) PROVE specs' \in Seq(Declared) /\ Distinct(specs')
  <2>1. <<s>> \in Seq(Declared) /\ Distinct(<<s>>)
    <3>1. s \in Declared
      BY <1>2 DEF Declared
    <3> QED BY <3>1 DEF Distinct
  <2> QED BY <1>1, <1>2, <2>1 DEF Register
<1>3. ASSUME NEW p \in Packs, Import(p) PROVE specs' \in Seq(Declared) /\ Distinct(specs')
  <2>1. p \in Seq(Range(p)) /\ Range(p) \subseteq Declared
        /\ \A i, j \in DOMAIN p : p[i].name = p[j].name => i = j
    BY RegistryConstants DEF Declared
  <2>2. p \in Seq(Declared) /\ DOMAIN p = 1 .. Len(p)
    BY <2>1
  <2> QED BY <1>1, <1>3, <2>1, <2>2 DEF Import, Distinct
<1>4. CASE Clear
  BY <1>4 DEF Clear, Distinct
<1> QED BY <1>2, <1>3, <1>4 DEF RegistryNext

\* What a build computes: the features of a pack are still side by side.
LEMMA ListFacts ==
    ASSUME specs \in Seq(Declared), Distinct(specs), Together(Rolling, specs)
    PROVE  /\ List("series") \in Seq(Declared) /\ Distinct(List("series"))
           /\ Together(Rolling, List("series"))
<1> DEFINE S == {i \in DOMAIN specs : specs[i].type = "series"}
           list == List("series")
<1>1. DOMAIN specs = 1 .. Len(specs) /\ Len(specs) \in Nat
  OBVIOUS
<1> DEFINE Picks(n, at) ==
              /\ list = [k \in 1 .. n |-> specs[at[k]]]
              /\ \A i, j \in 1 .. n : i < j => at[i] < at[j]
              /\ \A x \in S : \E k \in 1 .. n : at[k] = x
<1>2. \E n \in Nat : \E at \in [1 .. n -> S] : Picks(n, at)
  <2>1. S \in SUBSET (1 .. Len(specs))
    BY <1>1
  <2>2. list = Sublist(specs, S)
    BY DEF List
  <2> HIDE DEF S, list
  <2> QED BY <2>1, <2>2, SublistFacts
<1>3. PICK n \in Nat : \E at \in [1 .. n -> S] : Picks(n, at)
  BY <1>2
<1>4. PICK at \in [1 .. n -> S] : Picks(n, at)
  BY <1>3
<1> HIDE DEF list
<1>5. \A k \in 1 .. n : at[k] \in S /\ at[k] \in 1 .. Len(specs) /\ at[k] \in Int
  BY <1>1, <1>4
<1>6. list \in Seq(Declared) /\ Len(list) = n /\ \A k \in 1 .. n : list[k] = specs[at[k]]
  <2>1. list \in [1 .. n -> Declared]
    BY <1>4, <1>5
  <2> QED BY <1>4, <2>1
<1>7. \A i, j \in 1 .. n : /\ at[i] = at[j] => i = j
                           /\ at[i] < at[j] => i < j
  <2> HIDE DEF S
  <2> QED BY <1>4, <1>5
<1>8. Distinct(list)
  BY <1>5, <1>6, <1>7 DEF Distinct
<1>9. PICK a \in Nat, m \in Nat : Block(Rolling, specs, a, m)
  BY DEF Together
<1>10. /\ a \in 0 .. Len(specs) /\ m \in 0 .. Len(specs) - a /\ m <= Len(Rolling)
       /\ \A i \in 1 .. m : specs[a + i] = Rolling[i]
       /\ \A i \in 1 .. Len(specs) : specs[i] \in Range(Rolling) => i \in a + 1 .. a + m
  BY <1>9 DEF Block
<1>11. \A i \in 1 .. m : a + i \in S
  <2> TAKE i \in 1 .. m
  <2>1. a + i \in 1 .. Len(specs) /\ i \in 1 .. 11
    BY <1>1, <1>10, RollingFacts
  <2>2. specs[a + i] = Rolling[i] /\ Rolling[i] \in Range(Rolling)
    BY <1>10, <2>1, RollingFacts
  <2>3. specs[a + i].type = "series"
    BY <2>2, RollingFacts
  <2> QED BY <1>1, <2>1, <2>3
<1>12. \A k \in 1 .. n : list[k] \in Range(Rolling) => at[k] \in a + 1 .. a + m
  <2> TAKE k \in 1 .. n
  <2>1. at[k] \in 1 .. Len(specs) /\ list[k] = specs[at[k]]
    BY <1>5, <1>6
  <2> QED BY <1>10, <2>1
<1>13. CASE m = 0
  <2>1. ASSUME NEW k \in 1 .. n PROVE list[k] \notin Range(Rolling)
    <3>1. a + 1 .. a + m = {}
      BY <1>13
    <3> QED BY <1>12, <3>1
  <2>2. Block(Rolling, list, 0, 0)
    <3>1. 0 <= Len(Rolling)
      BY RollingFacts
    <3> QED BY <1>6, <2>1, <3>1 DEF Block
  <2> QED BY <1>6, <1>8, <2>2 DEF Together, list
<1>14. CASE m > 0
  <2>1. 1 \in 1 .. m
    BY <1>14
  <2>2. PICK first \in 1 .. n : at[first] = a + 1
    BY <1>4, <1>11, <2>1
  <2> DEFINE P == {i \in 0 .. m - 1 : first + i \in 1 .. n /\ at[first + i] = a + 1 + i}
  <2>3. 0 \in P
    BY <2>1, <2>2
  <2>4. ASSUME NEW i \in 0 .. m - 2, i \in P PROVE i + 1 \in P
    <3> DEFINE k == first + i
    <3>1. k \in 1 .. n /\ at[k] = a + 1 + i
      BY <2>4
    <3>2. a + (i + 2) \in S
      <4>1. i + 2 \in 1 .. m
        OBVIOUS
      <4> QED BY <1>11, <4>1
    <3>3. PICK l \in 1 .. n : at[l] = a + (i + 2)
      BY <1>4, <3>2
    <3>4. k < l
      BY <1>7, <1>5, <3>1, <3>3
    <3>5. k + 1 \in 1 .. n /\ at[k] < at[k + 1] /\ at[k + 1] <= at[l] /\ at[k + 1] \in Int
      <4>1. k + 1 \in 1 .. n /\ k < k + 1 /\ (k + 1 = l \/ k + 1 < l)
        <5>1. k \in Int /\ l \in Int /\ 1 <= k /\ l <= n /\ k < l
          BY <3>1, <3>4
        <5> HIDE DEF k
        <5> QED BY <5>1
      <4>2. at[k + 1] \in Int /\ at[l] \in Int
        BY <1>5, <4>1
      <4> QED BY <1>4, <3>1, <4>1, <4>2
    <3>6. at[k + 1] = a + 1 + (i + 1) /\ first + (i + 1) = k + 1
      BY <3>1, <3>3, <3>5
    <3> QED BY <3>5, <3>6
  <2>5. \A i \in 0 .. m - 1 : i \in P
    <3>1. m - 1 \in Nat /\ (m - 1) - 1 = m - 2
      BY <2>1
    <3> HIDE DEF P
    <3> QED BY <2>3, <2>4, <3>1, Induction
  <2>6. \A i \in 1 .. m : first - 1 + i \in 1 .. n /\ at[first - 1 + i] = a + i
    <3> TAKE i \in 1 .. m
    <3>1. i - 1 \in 0 .. m - 1
      OBVIOUS
    <3>2. first + (i - 1) = first - 1 + i /\ a + 1 + (i - 1) = a + i
      OBVIOUS
    <3> QED BY <2>5, <3>1, <3>2
  <2>7. first - 1 \in 0 .. n /\ m \in 0 .. n - (first - 1)
    <3>1. first - 1 + m \in 1 .. n
      BY <2>1, <2>6
    <3> QED BY <2>1, <3>1
  <2>8. \A i \in 1 .. m : list[first - 1 + i] = Rolling[i]
    BY <1>6, <1>10, <2>6
  <2>9. ASSUME NEW k \in 1 .. n, list[k] \in Range(Rolling)
        PROVE  k \in first - 1 + 1 .. first - 1 + m
    <3>1. at[k] \in a + 1 .. a + m
      BY <1>12, <2>9
    <3>2. at[k] - a \in 1 .. m /\ a + (at[k] - a) = at[k]
      BY <3>1
    <3>3. first - 1 + (at[k] - a) \in 1 .. n /\ at[first - 1 + (at[k] - a)] = at[k]
      BY <2>6, <3>2
    <3>4. k = first - 1 + (at[k] - a)
      BY <1>7, <3>3
    <3> QED BY <3>2, <3>4
  <2>10. Block(Rolling, list, first - 1, m)
    BY <1>6, <1>10, <2>7, <2>8, <2>9 DEF Block
  <2>11. first - 1 \in Nat
    BY <2>7
  <2> QED BY <1>6, <1>8, <2>10, <2>11 DEF Together, list
<1> QED BY <1>10, <1>13, <1>14

-----------------------------------------------------------------------------
(* The pack as a context *)

PackTyped ==
    /\ TypeOK /\ asof \in Points
    /\ specs \in Seq(Declared) /\ Distinct(specs)
    /\ entity \in Entities
    /\ plan \in Seq(Declared) /\ Distinct(plan)
    /\ pos \in 1 .. Len(plan) + 1 /\ asked \in BOOLEAN /\ clean \in BOOLEAN
    /\ asked => pos <= Len(plan) /\ entity \in DOMAIN Source
    /\ pc = "scan" => asked
    /\ order \in Orders
    /\ DOMAIN values = {plan[i].name : i \in 1 .. pos - 1}

LEMMA StartFacts ==
    ASSUME asof \in Points, NEW s \in Declared
    PROVE  /\ asof.ts \in Times /\ asof.ts \in Int /\ s.window \in Int
           /\ Start(s) \in Stamp /\ Start(s).ts = asof.ts - s.window
           /\ Start(s).off = IF s.off = None THEN asof.off ELSE s.off
<1>1. asof \in Stamp
  BY PackConstants
<1>2. asof.ts - s.window \in Times /\ s.window \in Int /\ s.off \in Offsets \cup {None}
  BY WindowConstants
<1>3. asof.ts \in Times /\ asof.ts \in Int /\ asof.off \in Offsets
  BY <1>1, StampType
<1> QED BY <1>2, <1>3 DEF Start, Stamp

LEMMA SourceFacts == \A e \in DOMAIN Source : Source[e] \in Streams
BY PackConstants DEF Range

LEMMA AskReads ==
    ASSUME PackTyped, Ask
    PROVE  /\ entity \in DOMAIN Source /\ Source[entity] \in Streams /\ asof.ts \in Times
           /\ pos \in 1 .. Len(plan) /\ plan[pos] \in Declared /\ Start(plan[pos]) \in Stamp
           /\ Read(Source[entity], Start(plan[pos]), asof.ts)
<1>1. pos \in 1 .. Len(plan) /\ plan[pos] \in Declared
  BY DEF PackTyped, Ask
<1> QED BY <1>1, StartFacts, SourceFacts DEF PackTyped, Ask

\* What the pack does, a context and the writers can do.
LEMMA PackStepIsAStep ==
    ASSUME PackTyped, [PackNext]_packVars
    PROVE  [Next]_vars
<1>1. CASE Setup
  BY <1>1 DEF Setup
<1>2. ASSUME NEW en \in Entities, NEW a \in Points, Point(en, a) PROVE Next
  <2>1. a \in Stamp
    BY PackConstants
  <2> QED BY <1>2, <2>1 DEF Point, Next, Healthy, Answering
<1>3. CASE Ask
  BY <1>3, AskReads DEF Read, Next, Healthy, Answering
<1>4. CASE Scan
  BY <1>4 DEF Scan, Next, Healthy, Answering
<1>5. CASE Fetch
  BY <1>5 DEF Fetch, Next, Healthy, Answering
<1>6. CASE FetchFails
  BY <1>6 DEF FetchFails, Next
<1>7. CASE Compute \/ NoRoute
  BY <1>7 DEF Compute, NoRoute, Yield
<1>8. ASSUME NEW S \in SUBSET Rows, Publish(S) PROVE Next
  BY <1>8 DEF Next, Healthy, Answering
<1>9. CASE UNCHANGED packVars
  BY <1>9 DEF packVars
<1> QED BY <1>1, <1>2, <1>3, <1>4, <1>5, <1>6, <1>7, <1>8, <1>9 DEF PackNext

LEMMA YieldTypes ==
    ASSUME PackTyped, pos <= Len(plan), pc = "idle", NEW v, Yield(v)
    PROVE  PackTyped'
<1>1. /\ pos' = pos + 1 /\ asked' = FALSE
      /\ UNCHANGED <<vars, specs, entity, plan, order, clean>>
      /\ DOMAIN values' = DOMAIN values \cup {plan[pos].name}
  BY DEF Yield
<1>2. UNCHANGED <<asof, pc>> /\ TypeOK'
  BY <1>1 DEF PackTyped, TypeOK, vars, context, query, answer, history
<1>3. pos \in 1 .. Len(plan) + 1 /\ Len(plan) \in Nat
  BY DEF PackTyped
<1>4. {plan[i].name : i \in 1 .. pos' - 1}
      = {plan[i].name : i \in 1 .. pos - 1} \cup {plan[pos].name}
  <2>1. 1 .. pos' - 1 = (1 .. pos - 1) \cup {pos}
    BY <1>1, <1>3
  <2> QED BY <2>1
<1>5. DOMAIN values' = {plan'[i].name : i \in 1 .. pos' - 1}
  BY <1>1, <1>4 DEF PackTyped
<1>6. pos' \in 1 .. Len(plan') + 1
  BY <1>1, <1>3
<1> QED BY <1>1, <1>2, <1>5, <1>6 DEF PackTyped

LEMMA PackTypes ==
    ASSUME PackTyped, Together(Rolling, specs), [PackNext]_packVars
    PROVE  PackTyped'
<1>1. TypeOK'
  BY PackStepIsAStep, NextTypes DEF PackTyped
<1> DEFINE Others == /\ specs \in Seq(Declared) /\ Distinct(specs) /\ entity \in Entities
                     /\ plan \in Seq(Declared) /\ Distinct(plan)
                     /\ pos \in 1 .. Len(plan) + 1 /\ asked \in BOOLEAN /\ clean \in BOOLEAN
                     /\ asked => pos <= Len(plan) /\ entity \in DOMAIN Source
                     /\ DOMAIN values = {plan[i].name : i \in 1 .. pos - 1}
<1>2. Others
  BY DEF PackTyped
<1>3. CASE Setup
  <2>1. specs' \in Seq(Declared) /\ Distinct(specs')
    BY <1>3, RegistryDistinct DEF Setup, PackTyped
  <2>2. UNCHANGED <<vars, reading>>
    BY <1>3 DEF Setup
  <2> QED BY <1>1, <2>1, <2>2 DEF PackTyped, Distinct, reading, vars, context, query
<1>4. ASSUME NEW en \in Entities, NEW a \in Points, Point(en, a) PROVE PackTyped'
  <2>1. /\ plan' = List("series") /\ pos' = 1 /\ asked' = FALSE /\ entity' = en
        /\ values' = [n \in {} |-> None] /\ asof' = a /\ clean' = (a.off = 0)
        /\ pc' = pc /\ pc = "idle" /\ UNCHANGED <<specs, order>>
    BY <1>4 DEF Point, NewContext, query
  <2>2. plan' \in Seq(Declared) /\ Distinct(plan')
    BY <2>1, ListFacts DEF PackTyped, Distinct
  <2>3. Len(plan') \in Nat /\ pos' \in 1 .. Len(plan') + 1
    BY <2>1, <2>2
  <2>4. DOMAIN values' = {} /\ {plan'[i].name : i \in 1 .. pos' - 1} = {}
    BY <2>1
  <2>5. ~asked' /\ pc' # "scan" /\ clean' \in BOOLEAN /\ specs' = specs /\ order' = order
    BY <2>1
  <2> QED BY <1>1, <1>2, <1>4, <2>1, <2>2, <2>3, <2>4, <2>5 DEF PackTyped, Distinct
<1>5. CASE Ask
  <2>1. /\ asked' = TRUE /\ clean' \in BOOLEAN
        /\ UNCHANGED <<specs, entity, plan, pos, order, values>>
    BY <1>5 DEF Ask, PackTyped
  <2>2. asof' = asof
    BY <1>5, AskReads
    DEF Read, ReadEmpty, ReadCached, ReadBegin, ReadRaises, context
  <2>3. pos <= Len(plan) /\ entity \in DOMAIN Source
    BY <1>5 DEF Ask
  <2> QED BY <1>1, <2>1, <2>2, <2>3 DEF PackTyped, Distinct
<1>6. CASE Scan
  <2>1. UNCHANGED <<specs, reading, context, pc>>
    BY <1>6 DEF Scan, ListDir
  <2> QED BY <1>1, <2>1 DEF PackTyped, Distinct, reading, context
<1>7. CASE Fetch
  <2>1. /\ asof' = asof /\ pc' = "idle" /\ order' \in Orders
        /\ UNCHANGED <<specs, entity, plan, pos, asked, values, clean>>
    BY <1>7 DEF Fetch, ReadEnd, Finish
  <2> QED BY <1>1, <2>1 DEF PackTyped, Distinct
<1>8. CASE FetchFails
  <2>1. /\ asof' = asof /\ pc' = "idle" /\ clean' = FALSE
        /\ UNCHANGED <<specs, entity, plan, pos, asked, order, values>>
    BY <1>8 DEF FetchFails, ReadFails, Finish
  <2> QED BY <1>1, <2>1 DEF PackTyped, Distinct
<1>9. CASE Compute
  BY <1>9, YieldTypes DEF Compute, PackTyped
<1>10. CASE NoRoute
  <2>1. pc = "idle"
    BY <1>10 DEF NoRoute, PackTyped, TypeOK
  <2> QED BY <1>10, <2>1, YieldTypes DEF NoRoute
<1>11. ASSUME NEW S \in SUBSET Rows, Publish(S), UNCHANGED <<specs, reading>>
       PROVE  PackTyped'
  BY <1>1, <1>11 DEF PackTyped, Distinct, reading, Publish, context, query
<1>12. CASE UNCHANGED packVars
  BY <1>1, <1>12 DEF PackTyped, Distinct, packVars, reading, vars, context, query
<1> QED BY <1>3, <1>4, <1>5, <1>6, <1>7, <1>8, <1>9, <1>10, <1>11, <1>12 DEF PackNext

LEMMA PackInitTypes == PackInit => PackTyped
<1> SUFFICES ASSUME PackInit PROVE PackTyped
  OBVIOUS
<1>1. TypeOK /\ pc = "idle"
  BY InitTypes DEF PackInit, Init
<1>2. /\ specs = <<>> /\ plan = <<>> /\ pos = 1 /\ asked = FALSE /\ clean = FALSE
      /\ values = [n \in {} |-> None]
      /\ asof \in Points /\ entity \in Entities /\ order \in Orders
  BY DEF PackInit, RegistryInit
<1>3. Len(<<>>) = 0 /\ <<>> \in Seq(Declared) /\ 1 .. 0 = {}
  OBVIOUS
<1>4. DOMAIN values = {} /\ {plan[i].name : i \in 1 .. pos - 1} = {}
  BY <1>2
<1>5. Distinct(specs) /\ Distinct(plan) /\ pos \in 1 .. Len(plan) + 1
  BY <1>2, <1>3 DEF Distinct
<1>6. specs \in Seq(Declared) /\ plan \in Seq(Declared)
  BY <1>2, <1>3
<1> QED BY <1>1, <1>2, <1>4, <1>5, <1>6 DEF PackTyped

\* The types, the registry's packs and the plan's, and the context's soundness.
PackSound == PackTyped /\ RegistryInv /\ Together(Rolling, plan) /\ SoundInv

LEMMA PackSoundInit == PackInit => PackSound
<1> SUFFICES ASSUME PackInit PROVE PackSound
  OBVIOUS
<1>1. plan = <<>> /\ Len(plan) = 0 /\ Init
  BY DEF PackInit
<1>2. Block(Rolling, plan, 0, 0)
  <2>1. 0 <= Len(Rolling)
    BY RollingFacts
  <2> QED BY <1>1, <2>1 DEF Block
<1>3. Together(Rolling, plan)
  BY <1>2 DEF Together
<1> QED BY <1>1, <1>3, PackInitTypes, RegistryInitInv, InitSound DEF PackSound

LEMMA PlanStep ==
    ASSUME PackTyped, Together(Rolling, specs), Together(Rolling, plan),
           [PackNext]_packVars
    PROVE  Together(Rolling, plan')
<1>1. CASE plan' = plan
  BY <1>1
<1>2. CASE plan' = List("series")
  BY <1>2, ListFacts DEF PackTyped
<1>3. plan' = plan \/ plan' = List("series")
  BY DEF PackNext, Setup, Point, Ask, Scan, Fetch, FetchFails, Compute, NoRoute, Yield,
         packVars, reading
<1> QED BY <1>1, <1>2, <1>3

LEMMA PackSoundStep == PackSound /\ [PackNext]_packVars => PackSound'
<1> SUFFICES ASSUME PackSound, [PackNext]_packVars PROVE PackSound'
  OBVIOUS
<1>1. Together(Rolling, specs)
  BY WindowConstants DEF PackSound, RegistryInv, Kept, Stretch, Together
<1>2. PackTyped'
  BY <1>1, PackTypes DEF PackSound
<1>3. SoundInv'
  BY PackStepIsAStep, NextSound DEF PackSound
<1>4. Together(Rolling, plan)'
  BY <1>1, PlanStep DEF PackSound, Together, Block
<1> QED BY <1>2, <1>3, <1>4, RegistryStep DEF PackSound

\* The build of a grid point is well typed: every feature reads a window that
\* starts at a datetime, of a stream its entity is routed to, and returns under
\* its name once (builder.py: run; registry.py: list).
THEOREM PackTypeCorrect == PackSpec => []PackTypeOK
<1>1. PackSound => PackTypeOK
  <2> SUFFICES ASSUME PackSound PROVE PackTypeOK
    OBVIOUS
  <2>1. Range(specs) \subseteq Declared /\ Range(plan) \subseteq Declared
    BY DEF PackSound, PackTyped, Range
  <2>2. DOMAIN order = Rows
    BY DEF PackSound, PackTyped, Orders
  <2> QED BY <2>1, <2>2 DEF PackSound, PackTyped, PackTypeOK
<1> QED BY <1>1, PackSoundInit, PackSoundStep, PTL DEF PackSpec

\* The pack uses its context as any caller may: what is proved of AsOfContext
\* for every sequence of reads holds while the features are computed
\* (rolling.py: _read_ticks; builder.py: run).
THEOREM PackIsAContext == PackSpec => Spec
<1>1. PackInit => Init
  BY DEF PackInit
<1>2. PackSound /\ [PackNext]_packVars => [Next]_vars
  BY PackStepIsAStep DEF PackSound
<1> QED BY <1>1, <1>2, PackSoundInit, PackSoundStep, PTL DEF PackSpec, Spec

\* registry.py:25, "a feature must never look at any input row with event_ts >=
\* as_of_ts": no feature of the pack is given one, in whatever order, zone and
\* with whatever failures the features read.
COROLLARY PackDoesNotLeak == PackSpec => []NoLeakage
BY PackIsAContext, NoLeakageHolds, PTL

-----------------------------------------------------------------------------
(* What a feature reads *)

\* The read of s is answered, from the cache.
Fetched(s) ==
    LET e == Source[entity]
        lo == asof.ts - s.window
    IN  /\ answered
        /\ req.stream = e /\ req.start.ts = lo /\ req.end = asof.ts
        /\ e \in DOMAIN cache /\ cache[e].start.ts <= lo
        /\ result = Between(cache[e].rows, lo, asof.ts) /\ result \subseteq seen

\* A read of a feature of the pack is neither empty nor refused: it is answered
\* from the cache, or scans for its own window.
AskInv ==
    asked =>
        /\ pc = "scan" => req = [stream |-> Source[entity], start |-> Start(plan[pos]),
                                 end |-> asof.ts]
        /\ pc = "idle" /\ plan[pos] \in Range(Rolling) => Fetched(plan[pos])

LEMMA RollingStart ==
    ASSUME PackTyped, NEW s \in Range(Rolling)
    PROVE  /\ s \in Declared /\ asof.ts \in Int /\ s.window \in Nat \ {0}
           /\ Start(s).ts = asof.ts - s.window /\ Start(s).off = asof.off
           /\ asof.ts > Start(s).ts /\ EffectiveEnd(asof.ts) = asof.ts
           /\ DtsBetween(Start(s), asof) # {}
<1>1. s \in Declared /\ s.off = None /\ s.window \in {Short, Long}
  BY RollingFacts
<1>2. s.window \in Nat \ {0}
  BY <1>1, PackConstants
<1>3. /\ asof.ts \in Int /\ Start(s).ts = asof.ts - s.window /\ Start(s).off = asof.off
  BY <1>1, StartFacts DEF PackTyped
<1>4. asof.off \in Int
  BY StampType DEF PackTyped, TypeOK
<1>5. Start(s).ts \in Int /\ Start(s).ts < asof.ts
  BY <1>2, <1>3
<1>6. DtsBetween(Start(s), asof) # {}
  <2>1. /\ Start(s).ts + asof.off \in Int /\ asof.ts + asof.off \in Int
        /\ Start(s).ts + asof.off <= asof.ts + asof.off
    BY <1>3, <1>4, <1>5
  <2>2. LocalDate(Start(s)) <= LocalDate(asof) /\ LocalDate(Start(s)) \in Int
        /\ LocalDate(asof) \in Int
    <3>1. /\ (Start(s).ts + asof.off) \div DayLength <= (asof.ts + asof.off) \div DayLength
          /\ (Start(s).ts + asof.off) \div DayLength \in Int
          /\ (asof.ts + asof.off) \div DayLength \in Int
      BY <2>1, DivMonotone, ContextConstants
    <3> QED BY <1>3, <3>1 DEF LocalDate
  <2>3. LocalDate(asof) \in DtsBetween(Start(s), asof)
    BY <2>2 DEF DtsBetween
  <2> QED BY <2>3
<1>7. EffectiveEnd(asof.ts) = asof.ts
  BY <1>3 DEF EffectiveEnd
<1> QED BY <1>1, <1>2, <1>3, <1>5, <1>6, <1>7

LEMMA AskInvStep ==
    ASSUME PackSound, AskInv, [PackNext]_packVars
    PROVE  AskInv'
<1> USE DEF PackSound
<1> SUFFICES ASSUME asked'
             PROVE  /\ pc' = "scan" => req' = [stream |-> Source[entity'],
                                               start |-> Start(plan[pos])', end |-> asof'.ts]
                    /\ pc' = "idle" /\ (plan[pos])' \in Range(Rolling) => Fetched(plan[pos])'
  BY DEF AskInv
<1>1. CASE Setup \/ UNCHANGED packVars
  BY <1>1 DEF Setup, packVars, reading, vars, context, query, answer, history, AskInv,
              Fetched, Start
<1>2. ASSUME NEW en \in Entities, NEW a \in Points, Point(en, a) PROVE FALSE
  BY <1>2 DEF Point
<1>3. CASE Ask
  <2> DEFINE s == plan[pos]
             e == Source[entity]
  <2>1. /\ e \in Streams /\ s \in Declared /\ Start(s) \in Stamp
        /\ Read(e, Start(s), asof.ts) /\ UNCHANGED <<entity, plan, pos>>
    BY <1>3, AskReads DEF Ask
  <2>2. asof' = asof
    BY <2>1 DEF Read, ReadEmpty, ReadCached, ReadBegin, ReadRaises, context
  <2>3. EffectiveEnd(asof.ts) = asof.ts
    BY DEF EffectiveEnd
  <2>4. CASE ReadEmpty(e, Start(s), asof.ts) \/ ReadRaises(e, Start(s), asof.ts)
    <3>1. pc' = "idle"
      BY <2>4 DEF ReadEmpty, ReadRaises, query
    <3>2. s \notin Range(Rolling)
      <4> SUFFICES ASSUME s \in Range(Rolling) PROVE FALSE
        OBVIOUS
      <4>1. /\ asof.ts \in Int /\ Start(s).ts \in Int /\ asof.ts > Start(s).ts
            /\ DtsBetween(Start(s), asof) # {}
        <5>1. /\ asof.ts \in Int /\ asof.ts > Start(s).ts /\ s.window \in Nat
              /\ Start(s).ts = asof.ts - s.window /\ DtsBetween(Start(s), asof) # {}
          BY RollingStart
        <5> QED BY <5>1
      <4> QED BY <2>3, <2>4, <4>1 DEF ReadEmpty, ReadRaises
    <3> QED BY <2>1, <3>1, <3>2
  <2>5. CASE ReadCached(e, Start(s), asof.ts)
    <3>1. /\ pc' = "idle" /\ cache' = cache /\ answered' /\ e \in DOMAIN cache
          /\ cache[e].start.ts <= Start(s).ts
          /\ req' = [stream |-> e, start |-> Start(s), end |-> asof.ts]
          /\ result' = Between(cache[e].rows, Start(s).ts, asof.ts)
      BY <2>3, <2>5 DEF ReadCached, Answer, Hit, query, context
    <3>2. Start(s).ts = asof.ts - s.window
      BY <2>1, StartFacts DEF PackTyped
    <3>3. result' \subseteq seen'
      BY <2>5 DEF ReadCached, Answer
    <3> QED BY <2>1, <2>2, <3>1, <3>2, <3>3 DEF Fetched
  <2>6. CASE ReadBegin(e, Start(s), asof.ts)
    <3>1. pc' = "scan" /\ req' = [stream |-> e, start |-> Start(s), end |-> asof.ts]
      BY <2>3, <2>6 DEF ReadBegin
    <3> QED BY <2>1, <2>2, <3>1 DEF Start
  <2> QED BY <2>1, <2>4, <2>5, <2>6 DEF Read
<1>4. CASE Scan
  BY <1>4 DEF Scan, ListDir, reading, context, answer, AskInv, Fetched, Start
<1>5. ASSUME NEW table, pc = "scan", Finish(table), UNCHANGED <<entity, plan, pos, asked>>
      PROVE  pc' = "idle" /\ Fetched(plan[pos])'
  <2>1. /\ req = [stream |-> Source[entity], start |-> Start(plan[pos]), end |-> asof.ts]
        /\ pos \in 1 .. Len(plan) /\ plan[pos] \in Declared
    BY <1>5 DEF AskInv, PackTyped
  <2>2. Start(plan[pos]).ts = asof.ts - plan[pos].window /\ asof.ts - plan[pos].window \in Int
    BY <2>1, StartFacts DEF PackTyped
  <2> DEFINE e == Source[entity]
  <2>3. /\ cache' = [t \in DOMAIN cache \cup {e} |->
                        IF t # e THEN cache[t] ELSE [start |-> req.start, rows |-> table]]
        /\ pc' = "idle" /\ asof' = asof /\ answered'
        /\ req' = [stream |-> e, start |-> req.start, end |-> asof.ts]
        /\ result' = Between(table, req.start.ts, asof.ts) /\ result' \subseteq seen'
    BY <1>5, <2>1 DEF Finish, Store, Answer
  <2>4. e \in DOMAIN cache' /\ cache'[e] = [start |-> req.start, rows |-> table]
    BY <2>3
  <2> QED BY <1>5, <2>1, <2>2, <2>3, <2>4 DEF Fetched
<1>6. CASE Fetch
  BY <1>5, <1>6 DEF Fetch, ReadEnd
<1>7. CASE FetchFails
  BY <1>5, <1>7 DEF FetchFails, ReadFails
<1>8. CASE Compute \/ NoRoute
  BY <1>8 DEF Compute, NoRoute, Yield
<1>9. ASSUME NEW S \in SUBSET Rows, Publish(S), UNCHANGED <<specs, reading>> PROVE AskInv'
  BY <1>9 DEF Publish, reading, context, query, answer, history, AskInv, Fetched, Start
<1> QED BY <1>1, <1>2, <1>3, <1>4, <1>6, <1>7, <1>8, <1>9 DEF PackNext, AskInv

\* While no read failed or used another zone, reads miss nothing.
CleanInv ==
    clean => /\ asof.off = 0 /\ (pc = "scan" => req.start.off = 0)
             /\ failed = {} /\ CompleteInv

LEMMA CleanStep ==
    ASSUME PackSound, AskInv, CleanInv, [PackNext]_packVars
    PROVE  CleanInv'
<1> USE DEF PackSound
<1>1. SoundInv'
  BY PackSoundStep
<1>2. ASSUME clean, [Healthy]_vars PROVE CompleteInv' /\ failed = {}
  <2>1. ReadEnd => req.start.off = 0 /\ asof.off = 0
    BY <1>2 DEF CleanInv, ReadEnd
  <2>2. CompleteInv /\ failed = {} /\ [Next]_vars
    BY <1>2 DEF CleanInv, Next
  <2> QED BY <2>1, <2>2, StepComplete
<1>3. CASE Setup \/ Compute \/ NoRoute \/ UNCHANGED packVars
  <2>1. UNCHANGED vars /\ clean' = clean
    BY <1>3 DEF Setup, Compute, NoRoute, Yield, packVars, reading
  <2> QED BY <1>2, <2>1 DEF CleanInv, vars, context, query, answer, history
<1>4. ASSUME NEW en \in Entities, NEW a \in Points, Point(en, a) PROVE CleanInv'
  <2>1. NewContext(a) /\ clean' = (a.off = 0)
    BY <1>4 DEF Point
  <2>2. CompleteInv' /\ asof' = a /\ pc' # "scan" /\ failed' = {}
    BY <1>1, <2>1 DEF NewContext, NoEntry, query, CompleteInv, CacheComplete, ScanComplete,
                      AnswerComplete
  <2> QED BY <2>1, <2>2 DEF CleanInv
<1>5. CASE Ask
  <2> SUFFICES ASSUME clean' PROVE CleanInv'
    BY DEF CleanInv
  <2> DEFINE s == plan[pos]
             e == Source[entity]
  <2>1. /\ e \in Streams /\ Start(s) \in Stamp /\ asof.ts \in Times
        /\ Read(e, Start(s), asof.ts) /\ clean /\ Start(s).off = 0
    BY <1>5, AskReads DEF Ask
  <2>2. CompleteInv /\ asof.off = 0 /\ failed = {}
    BY <2>1 DEF CleanInv
  <2>3. CacheComplete' /\ ScanComplete' /\ AnswerComplete'
    BY <2>1, <2>2, ReadComplete
  <2>4. UNCHANGED <<lake, asof, base, failed>>
    BY <2>1 DEF Read, ReadEmpty, ReadCached, ReadBegin, ReadRaises, context, history
  <2>5. CompleteInv'
    BY <1>1, <2>2, <2>3, <2>4 DEF CompleteInv
  <2>6. pc' = "scan" => req'.start.off = 0
    BY <2>1 DEF Read, ReadEmpty, ReadCached, ReadBegin, ReadRaises, query
  <2> QED BY <2>2, <2>4, <2>5, <2>6 DEF CleanInv
<1>6. CASE Scan
  <2>1. Healthy /\ UNCHANGED <<clean, asof, pc, req, failed>>
    BY <1>6 DEF Scan, Healthy, Answering, ListDir, reading, context, answer, history
  <2> QED BY <1>2, <2>1 DEF CleanInv
<1>7. CASE Fetch
  <2>1. Healthy /\ UNCHANGED <<clean, asof, failed>> /\ pc' = "idle"
    BY <1>7 DEF Fetch, Healthy, Answering, ReadEnd, Finish
  <2> QED BY <1>2, <2>1 DEF CleanInv
<1>8. CASE FetchFails
  BY <1>8 DEF FetchFails, CleanInv
<1>9. ASSUME NEW S \in SUBSET Rows, Publish(S), UNCHANGED <<specs, reading>> PROVE CleanInv'
  <2>1. Healthy /\ UNCHANGED <<clean, asof, pc, req, failed>>
    BY <1>9 DEF Healthy, Answering, Publish, reading, context, query, answer, history
  <2> QED BY <1>2, <2>1 DEF CleanInv
<1> QED BY <1>3, <1>4, <1>5, <1>6, <1>7, <1>8, <1>9 DEF PackNext

LEMMA YieldKeeps ==
    ASSUME PackTyped, pos <= Len(plan), NEW v, Yield(v)
    PROVE  /\ pos \in 1 .. Len(plan) /\ 1 .. pos' - 1 = (1 .. pos - 1) \cup {pos}
           /\ UNCHANGED <<vars, specs, entity, plan, order, clean>>
           /\ values'[plan[pos].name] = v
           /\ \A i \in 1 .. pos - 1 : i \in 1 .. Len(plan) /\ i # pos
                                     /\ values'[plan[i].name] = values[plan[i].name]
<1>1. pos \in 1 .. Len(plan) /\ pos' = pos + 1
  BY DEF PackTyped, Yield
<1>2. values' = [n \in DOMAIN values \cup {plan[pos].name} |->
                    IF n = plan[pos].name THEN v ELSE values[n]]
  BY DEF Yield
<1>3. ASSUME NEW i \in 1 .. pos - 1
      PROVE  i \in 1 .. Len(plan) /\ i # pos /\ values'[plan[i].name] = values[plan[i].name]
  <2>1. i \in 1 .. Len(plan) /\ i # pos
    BY <1>1
  <2>2. plan[i].name # plan[pos].name
    BY <1>1, <2>1 DEF PackTyped, Distinct
  <2>3. plan[i].name \in DOMAIN values
    BY DEF PackTyped
  <2> QED BY <1>2, <2>1, <2>2, <2>3
<1>4. 1 .. pos' - 1 = (1 .. pos - 1) \cup {pos}
  BY <1>1
<1>5. UNCHANGED <<vars, specs, entity, plan, order, clean>>
  BY DEF Yield
<1> QED BY <1>1, <1>2, <1>3, <1>4, <1>5

LEMMA RollingComputes ==
    ASSUME PackSound, AskInv, Compute, plan[pos] \in Range(Rolling)
    PROVE  /\ Fetched(plan[pos]) /\ pos <= Len(plan) /\ entity \in DOMAIN Source
           /\ result \in SUBSET Rows /\ order \in Orders
           /\ IsTable(Table, result) /\ Yield(Value(plan[pos], Table))
<1>1. asked /\ pc = "idle" /\ Yield(IF answered THEN Value(plan[pos], Table) ELSE Raised)
  BY DEF Compute
<1>2. Fetched(plan[pos]) /\ answered
  BY <1>1 DEF AskInv, Fetched
<1>3. result \in SUBSET Rows /\ order \in Orders /\ pos <= Len(plan) /\ entity \in DOMAIN Source
  BY <1>1 DEF PackSound, PackTyped, TypeOK
<1>4. IsTable(Table, result)
  BY <1>3, InOrderFacts DEF Table
<1> QED BY <1>1, <1>2, <1>3, <1>4

\* Between the computations of two features nothing a feature reports changes.
LEMMA OtherSteps ==
    ASSUME PackSound, [PackNext]_packVars
    PROVE  \/ Compute \/ NoRoute
           \/ \E en \in Entities, a \in Points : Point(en, a)
           \/ /\ UNCHANGED <<entity, plan, pos, values, asof, base>>
              /\ lake \subseteq lake' /\ (clean' => clean)
<1> USE DEF PackSound
<1>1. CASE Setup \/ UNCHANGED packVars
  BY <1>1 DEF Setup, packVars, reading, vars, context, history
<1>2. CASE Ask
  <2>1. Read(Source[entity], Start(plan[pos]), asof.ts)
    BY <1>2, AskReads
  <2>2. UNCHANGED <<lake, asof, base>>
    BY <2>1 DEF Read, ReadEmpty, ReadCached, ReadBegin, ReadRaises, context, history
  <2> QED BY <1>2, <2>2 DEF Ask
<1>3. CASE Scan
  BY <1>3 DEF Scan, ListDir, reading, context, history
<1>4. CASE Fetch
  BY <1>4 DEF Fetch, ReadEnd, Finish
<1>5. CASE FetchFails
  BY <1>5 DEF FetchFails, ReadFails, Finish
<1>6. ASSUME NEW S \in SUBSET Rows, Publish(S), UNCHANGED <<specs, reading>>
      PROVE  /\ UNCHANGED <<entity, plan, pos, values, asof, base>>
             /\ lake \subseteq lake' /\ (clean' => clean)
  BY <1>6 DEF Publish, reading, context, history
<1> QED BY <1>1, <1>2, <1>3, <1>4, <1>5, <1>6 DEF PackNext

-----------------------------------------------------------------------------
(* A feature that declines *)

LEMMA SufficientIsEnough ==
    \A s : Sufficient(s)
           <=> Enough(s, PIT!Window(Source[entity], asof.ts - s.window, asof.ts, base), lake)
BY DEF Sufficient, Enough

LEMMA NoneStep ==
    ASSUME PackSound, AskInv, CleanInv, NoneIsInsufficient, [PackNext]_packVars
    PROVE  NoneIsInsufficient'
<1> USE DEF PackSound
<1>1. CASE UNCHANGED <<entity, plan, pos, values, asof, base>>
           /\ lake \subseteq lake' /\ (clean' => clean)
  <2> SUFFICES ASSUME clean', entity \in DOMAIN Source, NEW i \in 1 .. pos - 1,
                      plan[i] \in Range(Rolling), Sufficient(plan[i])'
               PROVE  (plan[i].name \in Returned)'
    BY <1>1 DEF NoneIsInsufficient
  <2>1. Sufficient(plan[i])
    <3>1. Valued(lake) \subseteq Valued(lake')
      BY <1>1 DEF Valued
    <3> QED BY <1>1, <3>1 DEF Sufficient, PIT!Window, Valued
  <2>2. plan[i].name \in Returned
    BY <1>1, <2>1 DEF NoneIsInsufficient
  <2> QED BY <1>1, <2>2 DEF Returned
<1>2. ASSUME NEW en \in Entities, NEW a \in Points, Point(en, a) PROVE NoneIsInsufficient'
  <2>1. pos' = 1
    BY <1>2 DEF Point
  <2> QED BY <2>1 DEF NoneIsInsufficient
<1>3. CASE NoRoute
  <2>1. entity' \notin DOMAIN Source
    BY <1>3 DEF NoRoute, Yield
  <2> QED BY <2>1 DEF NoneIsInsufficient
<1>4. CASE Compute
  <2> DEFINE v == IF answered THEN Value(plan[pos], Table) ELSE Raised
  <2>1. /\ pos \in 1 .. Len(plan) /\ 1 .. pos' - 1 = (1 .. pos - 1) \cup {pos}
        /\ UNCHANGED <<vars, specs, entity, plan, order, clean>>
        /\ \A i \in 1 .. pos - 1 : values'[plan[i].name] = values[plan[i].name]
    <3>1. Yield(v) /\ asked
      BY <1>4 DEF Compute
    <3>2. pos <= Len(plan)
      BY <3>1 DEF PackTyped
    <3> HIDE DEF v
    <3> QED BY <3>1, <3>2, YieldKeeps
  <2>2. UNCHANGED <<lake, asof, base>>
    BY <2>1 DEF vars, context, history
  <2> SUFFICES ASSUME clean, entity \in DOMAIN Source, NEW i \in 1 .. pos' - 1,
                      plan[i] \in Range(Rolling), Sufficient(plan[i])'
               PROVE  (plan[i].name \in Returned)'
    BY <2>1 DEF NoneIsInsufficient
  <2>3. Sufficient(plan[i])
    BY <2>1, <2>2 DEF Sufficient
  <2>4. CASE i \in 1 .. pos - 1
    <3>1. plan[i].name \in Returned
      BY <2>3, <2>4 DEF NoneIsInsufficient
    <3>2. values[plan[i].name] # None
      <4>1. PICK j \in 1 .. pos - 1 : plan[j].name = plan[i].name /\ values[plan[j].name] # None
        BY <3>1 DEF Returned
      <4> QED BY <4>1
    <3> QED BY <2>1, <2>4, <3>2 DEF Returned
  <2>5. CASE i = pos
    <3> DEFINE s == plan[pos]
               W == PIT!Window(Source[entity], asof.ts - s.window, asof.ts, base)
    <3>1. /\ Fetched(s) /\ pos <= Len(plan) /\ result \in SUBSET Rows
          /\ IsTable(Table, result) /\ Yield(Value(s, Table))
      BY <1>4, <2>5, RollingComputes
    <3>2. values'[s.name] = Value(s, Table)
      BY <3>1, YieldKeeps
    <3>3. CompleteInv /\ failed = {} /\ lake \in SUBSET Rows
      BY DEF CleanInv, PackTyped, TypeOK
    <3>4. W \subseteq result /\ result \subseteq lake
      <4>1. /\ answered /\ req.stream = Source[entity] /\ req.end = asof.ts
            /\ req.start.ts = asof.ts - s.window
        BY <3>1 DEF Fetched
      <4>2. PIT!Window(req.stream, req.start.ts, req.end, Known) \subseteq result
        BY <3>3, <4>1 DEF CompleteInv, AnswerComplete, Blank
      <4>3. result \subseteq lake
        BY <4>1 DEF SoundInv, ReadsStayInWindow, Asked, PIT!Window
      <4> QED BY <4>1, <4>2, <4>3 DEF PIT!Window, Known
    <3>5. Enough(s, W, lake)
      BY <2>3, <2>5, SufficientIsEnough
    <3>6. Value(s, Table) # None
      <4> HIDE DEF W
      <4> QED BY <2>5, <3>1, <3>3, <3>4, <3>5, EnoughRows
    <3> QED BY <2>1, <2>5, <3>2, <3>6 DEF Returned
  <2> QED BY <2>1, <2>4, <2>5
<1> QED BY <1>1, <1>2, <1>3, <1>4, OtherSteps

\* What the invariants of the pack rest on.
PackInv == PackSound /\ AskInv /\ CleanInv

LEMMA PackInvInit == PackInit => PackInv
<1> SUFFICES ASSUME PackInit PROVE PackInv
  OBVIOUS
<1>1. asked = FALSE /\ clean = FALSE
  BY DEF PackInit
<1> QED BY <1>1, PackSoundInit DEF PackInv, AskInv, CleanInv

LEMMA PackInvStep == PackInv /\ [PackNext]_packVars => PackInv'
BY PackSoundStep, AskInvStep, CleanStep DEF PackInv

\* registry.py:9, "None (skip -- insufficient data)": in UTC and without failing
\* reads, a feature of the pack returns a value if the lake its context was made
\* over had enough ticks in its window, whatever is cached and published.
THEOREM NoneIsInsufficientHolds == PackSpec => []NoneIsInsufficient
<1>1. PackInit => NoneIsInsufficient
  BY DEF PackInit, NoneIsInsufficient
<1>2. PackInv /\ NoneIsInsufficient /\ [PackNext]_packVars => NoneIsInsufficient'
  BY NoneStep DEF PackInv
<1> QED BY <1>1, <1>2, PackInvInit, PackInvStep, PTL DEF PackSpec

-----------------------------------------------------------------------------
(* Features of one window *)

\* Between two features of the pack there are only others of the pack, and those
\* before a feature in the pack are computed before it.
LEMMA PlanFacts ==
    ASSUME PackSound
    PROVE  /\ \A i, j, k \in 1 .. Len(plan) :
                 i < j /\ j < k /\ plan[i] \in Range(Rolling) /\ plan[k] \in Range(Rolling)
                     => plan[j] \in Range(Rolling)
           /\ \A i \in 1 .. Len(plan), k \in 1 .. 11 : plan[i] = Rolling[k] =>
                 \A m \in 1 .. k : \E j \in 1 .. i : plan[j] = Rolling[m]
           /\ \A i, j \in 1 .. Len(plan) :
                 plan[i] = Rolling[1] /\ plan[j] \in Range(Rolling) => i <= j
<1>1. PICK at \in Nat, n \in Nat : Block(Rolling, plan, at, n)
  BY DEF PackSound, Together
<1>2. /\ plan \in Seq(Declared) /\ Len(plan) \in Nat
      /\ \A i, j \in 1 .. Len(plan) : plan[i].name = plan[j].name => i = j
  BY DEF PackSound, PackTyped, Distinct
<1>3. /\ at \in 0 .. Len(plan) /\ n \in 0 .. Len(plan) - at /\ n <= 11
      /\ \A i \in 1 .. n : plan[at + i] = Rolling[i]
      /\ \A i \in 1 .. Len(plan) : plan[i] \in Range(Rolling) => i \in at + 1 .. at + n
  BY <1>1, RollingFacts DEF Block
<1>4. \A k \in 1 .. 11 : Rolling[k] \in Range(Rolling)
  BY RollingFacts
<1>5. \A k \in 1 .. n : at + k \in 1 .. Len(plan) /\ k \in 1 .. 11
  BY <1>2, <1>3
<1>6. \A j \in at + 1 .. at + n : plan[j] \in Range(Rolling)
  <2> TAKE j \in at + 1 .. at + n
  <2>1. j - at \in 1 .. n /\ at + (j - at) = j
    BY <1>3
  <2>2. plan[j] = Rolling[j - at]
    BY <1>3, <2>1
  <2> QED BY <1>4, <1>5, <2>1, <2>2
<1>7. ASSUME NEW i \in 1 .. Len(plan), NEW j \in 1 .. Len(plan), NEW k \in 1 .. Len(plan),
             i < j, j < k, plan[i] \in Range(Rolling), plan[k] \in Range(Rolling)
      PROVE  plan[j] \in Range(Rolling)
  <2>1. i \in at + 1 .. at + n /\ k \in at + 1 .. at + n
    BY <1>3, <1>7
  <2>2. j \in at + 1 .. at + n
    BY <1>7, <2>1
  <2> QED BY <1>6, <2>2
<1>8. ASSUME NEW i \in 1 .. Len(plan), NEW k \in 1 .. 11, plan[i] = Rolling[k]
      PROVE  i = at + k /\ k \in 1 .. n
  <2>1. i \in at + 1 .. at + n
    BY <1>3, <1>4, <1>8
  <2>2. i - at \in 1 .. n /\ at + (i - at) = i
    BY <1>3, <2>1
  <2>3. plan[i] = Rolling[i - at] /\ i - at \in 1 .. 11
    BY <1>3, <1>5, <2>2
  <2>4. DOMAIN Rolling = 1 .. 11 /\ \A a, b \in DOMAIN Rolling :
            Rolling[a].name = Rolling[b].name => a = b
    <3>1. Rolling \in Seq(Range(Rolling)) /\ Len(Rolling) = 11
      BY RollingFacts
    <3>2. DOMAIN Rolling = 1 .. 11
      BY <3>1
    <3> QED BY <3>2, WindowConstants, RegistryConstants
  <2>5. i - at = k
    BY <1>8, <2>3, <2>4
  <2> QED BY <2>2, <2>5
<1>9. ASSUME NEW i \in 1 .. Len(plan), NEW k \in 1 .. 11, plan[i] = Rolling[k],
             NEW m \in 1 .. k
      PROVE  \E j \in 1 .. i : plan[j] = Rolling[m]
  <2>1. i = at + k /\ k \in 1 .. n
    BY <1>8, <1>9
  <2>2. m \in 1 .. n /\ at + m \in 1 .. i
    BY <1>3, <2>1
  <2>3. plan[at + m] = Rolling[m]
    BY <1>3, <2>2
  <2> QED BY <2>2, <2>3
<1>10. ASSUME NEW i \in 1 .. Len(plan), NEW j \in 1 .. Len(plan),
              plan[i] = Rolling[1], plan[j] \in Range(Rolling)
       PROVE  i <= j
  <2>1. i = at + 1
    BY <1>8, <1>10
  <2>2. j \in at + 1 .. at + n
    BY <1>3, <1>10
  <2> QED BY <2>1, <2>2
<1> QED BY <1>7, <1>9, <1>10

Wide == {s \in Range(Rolling) : s.window = Long}

WideDone == \E i \in 1 .. pos - 1 : plan[i] \in Wide

\* The rows of a window that the context has returned.
SeenIn(window) == PIT!Window(Source[entity], asof.ts - window, asof.ts, seen)

\* The features of the long window were computed on the rows R in the order o,
\* mean_60s on the rows Q in the order p.
Describes(R, o, Q, p) ==
    /\ \A i \in 1 .. pos - 1 :
          /\ plan[i] \in Wide => values[plan[i].name] = Value(plan[i], InOrder(R, o))
          /\ plan[i] = Rolling[1] => values[plan[i].name] = Mean(InOrder(Q, p))
    /\ Q \subseteq SeenIn(Short)
    /\ clean /\ WideDone => Q \subseteq R

\* The next feature of the pack will find R cached.
Keeps(R, o) ==
    LET e == Source[entity]
    IN  WideDone /\ pos <= Len(plan) /\ plan[pos] \in Range(Rolling) =>
            /\ pc = "idle" /\ o = order
            /\ e \in DOMAIN cache /\ cache[e].start.ts <= asof.ts - Long
            /\ R = Between(cache[e].rows, asof.ts - Long, asof.ts)

AgreeInv ==
    IF entity \in DOMAIN Source
    THEN \E R, Q \in SUBSET Rows, o, p \in Orders : Describes(R, o, Q, p) /\ Keeps(R, o)
    ELSE \A i \in 1 .. pos - 1 : values[plan[i].name] = None

\* A feature of the pack that follows one of the long window reads the cache.
LEMMA AskCached ==
    ASSUME PackSound, Ask, WideDone, plan[pos] \in Range(Rolling),
           NEW R, NEW o, Keeps(R, o)
    PROVE  UNCHANGED <<cache, pc>>
<1> DEFINE s == plan[pos]
           e == Source[entity]
<1>1. /\ e \in Streams /\ Start(s) \in Stamp /\ pos \in 1 .. Len(plan)
      /\ Read(e, Start(s), asof.ts)
  BY AskReads DEF PackSound
<1>2. /\ asof.ts \in Int /\ Start(s).ts = asof.ts - s.window /\ asof.ts > Start(s).ts
      /\ EffectiveEnd(asof.ts) = asof.ts
  BY RollingStart DEF PackSound
<1>3. e \in DOMAIN cache /\ cache[e].start.ts <= asof.ts - Long
  <2>1. pos <= Len(plan)
    BY DEF Ask
  <2> QED BY <2>1 DEF Keeps
<1>4. s.window \in Nat /\ Long \in Nat /\ s.window <= Long
  BY RollingFacts, PackConstants
<1>5. cache[e].start.ts \in Int
  <2>1. cache[e].start \in Stamp
    BY <1>3 DEF PackSound, PackTyped, TypeOK, Entry
  <2> QED BY <2>1, StampType
<1>6. Hit(e, Start(s))
  BY <1>2, <1>3, <1>4, <1>5 DEF Hit
<1> QED BY <1>1, <1>2, <1>6
        DEF Read, ReadEmpty, ReadCached, ReadBegin, ReadRaises, context, query

\* What a context has returned it has returned.
LEMMA SeenStays ==
    ASSUME PackSound, [PackNext]_packVars, UNCHANGED <<entity, asof>>,
           \A en \in Entities, a \in Points : ~Point(en, a)
    PROVE  \A w : SeenIn(w) \subseteq SeenIn(w)'
<1> USE DEF PackSound
<1>1. seen \subseteq seen'
  <2>1. CASE Setup \/ Compute \/ NoRoute \/ UNCHANGED packVars
    BY <2>1 DEF Setup, Compute, NoRoute, Yield, packVars, vars, history
  <2>2. CASE Ask
    <3>1. Read(Source[entity], Start(plan[pos]), asof.ts)
      BY <2>2, AskReads
    <3> QED BY <3>1 DEF Read, ReadEmpty, ReadCached, ReadBegin, ReadRaises, Answer, history
  <2>3. CASE Scan
    BY <2>3 DEF Scan, ListDir, history
  <2>4. CASE Fetch \/ FetchFails
    BY <2>4 DEF Fetch, FetchFails, ReadEnd, ReadFails, Finish, Answer
  <2>5. ASSUME NEW S \in SUBSET Rows, Publish(S) PROVE seen \subseteq seen'
    BY <2>5 DEF Publish, history
  <2> QED BY <2>1, <2>2, <2>3, <2>4, <2>5 DEF PackNext
<1> QED BY <1>1 DEF SeenIn, PIT!Window

\* The features computed so far are described by the same rows after a step that
\* computes none.
LEMMA AgreeStays ==
    ASSUME PackSound, AskInv, AgreeInv, [PackNext]_packVars, ~Compute, ~NoRoute,
           \A en \in Entities, a \in Points : ~Point(en, a)
    PROVE  AgreeInv'
<1> USE DEF PackSound
<1>1. /\ UNCHANGED <<entity, plan, pos, values, asof, base>> /\ (clean' => clean)
  BY OtherSteps
<1>2. CASE entity \notin DOMAIN Source
  BY <1>1, <1>2 DEF AgreeInv
<1>3. CASE entity \in DOMAIN Source
  <2>1. PICK R \in SUBSET Rows, Q \in SUBSET Rows, o \in Orders, p \in Orders :
           Describes(R, o, Q, p) /\ Keeps(R, o)
    BY <1>3 DEF AgreeInv
  <2>2. WideDone' = WideDone /\ SeenIn(Short) \subseteq SeenIn(Short)'
    BY <1>1, SeenStays DEF WideDone
  <2>3. Describes(R, o, Q, p)'
    BY <1>1, <2>1, <2>2 DEF Describes
  <2>4. Keeps(R, o)'
    <3> SUFFICES ASSUME WideDone, pos <= Len(plan), plan[pos] \in Range(Rolling)
                 PROVE  UNCHANGED <<cache, pc, order>>
      BY <1>1, <2>1, <2>2 DEF Keeps
    <3>1. pc = "idle"
      BY <2>1 DEF Keeps
    <3>2. CASE Setup \/ UNCHANGED packVars
      BY <3>2 DEF Setup, packVars, reading, vars, context, query
    <3>3. CASE Ask
      BY <2>1, <3>3, AskCached DEF Ask
    <3>4. CASE Scan \/ Fetch \/ FetchFails
      BY <3>1, <3>4 DEF Scan, Fetch, FetchFails, ListDir, ReadEnd, ReadFails
    <3>5. ASSUME NEW S \in SUBSET Rows, Publish(S), UNCHANGED <<specs, reading>>
          PROVE  UNCHANGED <<cache, pc, order>>
      BY <3>5 DEF Publish, reading, context, query
    <3> QED BY <3>2, <3>3, <3>4, <3>5 DEF PackNext
  <2> QED BY <1>1, <1>3, <2>3, <2>4 DEF AgreeInv
<1> QED BY <1>2, <1>3

\* A feature of the pack is computed on the window the features of the long one
\* share, or is the first of them.
LEMMA AgreeComputes ==
    ASSUME PackSound, AskInv, CleanInv, AgreeInv, Compute
    PROVE  AgreeInv'
<1> USE DEF PackSound
<1> DEFINE s == plan[pos]
           e == Source[entity]
           v == IF answered THEN Value(s, Table) ELSE Raised
<1>1. asked /\ pc = "idle" /\ Yield(v) /\ e \in Streams
      /\ pos <= Len(plan) /\ entity \in DOMAIN Source
  BY SourceFacts DEF Compute, PackTyped
<1>2. /\ pos \in 1 .. Len(plan) /\ 1 .. pos' - 1 = (1 .. pos - 1) \cup {pos}
      /\ UNCHANGED <<vars, specs, entity, plan, order, clean>>
      /\ values'[s.name] = v
      /\ \A i \in 1 .. pos - 1 : i \in 1 .. Len(plan) /\ i # pos
                                /\ values'[plan[i].name] = values[plan[i].name]
  <2> HIDE DEF v
  <2> QED BY <1>1, YieldKeeps
<1>3. UNCHANGED <<asof, cache, pc, seen>> /\ pos' = pos + 1
  BY <1>1, <1>2 DEF vars, context, query, history, Yield
<1>4. SeenIn(Short)' = SeenIn(Short)
  BY <1>2, <1>3 DEF SeenIn
<1>5. PICK R \in SUBSET Rows, Q \in SUBSET Rows, o \in Orders, p \in Orders :
         Describes(R, o, Q, p) /\ Keeps(R, o)
  BY <1>1 DEF AgreeInv
<1>6. SUFFICES \E S, T \in SUBSET Rows, q, r \in Orders :
                  Describes(S, q, T, r)' /\ Keeps(S, q)'
  BY <1>1, <1>2 DEF AgreeInv
<1>7. WideDone' <=> WideDone \/ s \in Wide
  BY <1>2 DEF WideDone
<1>8. CASE s \notin Range(Rolling)
  <2>1. s \notin Wide /\ s # Rolling[1]
    BY <1>8, RollingFacts DEF Wide
  <2>2. Describes(R, o, Q, p)'
    <3>1. \A i \in 1 .. pos' - 1 :
             /\ plan'[i] \in Wide => values'[plan'[i].name] = Value(plan'[i], InOrder(R, o))
             /\ plan'[i] = Rolling[1] => values'[plan'[i].name] = Mean(InOrder(Q, p))
      BY <1>2, <1>5, <2>1 DEF Describes
    <3> QED BY <1>2, <1>4, <1>5, <1>7, <2>1, <3>1 DEF Describes
  <2>3. Keeps(R, o)'
    <3> SUFFICES ASSUME WideDone', pos' <= Len(plan'), plan'[pos'] \in Range(Rolling)
                 PROVE  FALSE
      BY DEF Keeps
    <3>1. PICK i \in 1 .. pos - 1 : plan[i] \in Wide
      BY <1>7, <2>1 DEF WideDone
    <3>2. /\ i \in 1 .. Len(plan) /\ pos + 1 \in 1 .. Len(plan) /\ i < pos /\ pos < pos + 1
          /\ plan[i] \in Range(Rolling) /\ plan[pos + 1] \in Range(Rolling)
      BY <1>2, <1>3, <3>1 DEF Wide
    <3> QED BY <1>2, <1>8, <3>2, PlanFacts
  <2> QED BY <1>5, <2>2, <2>3
<1>9. CASE s \in Range(Rolling)
  <2>1. /\ Fetched(s) /\ result \in SUBSET Rows /\ order \in Orders
        /\ v = Value(s, InOrder(result, order))
    BY <1>2, <1>4, <1>9, RollingComputes DEF Compute, Fetched, Table
  <2>2. /\ asof.ts \in Int /\ s.window \in Nat /\ s.window \in {Short, Long}
        /\ Short \in Nat /\ Long \in Nat /\ Short <= Long
    BY <1>9, RollingStart, RollingFacts, PackConstants
  <2>3. PICK R1 \in SUBSET Rows, Q1 \in SUBSET Rows, o1 \in Orders, p1 \in Orders :
           /\ R1 = (IF WideDone THEN R ELSE result) /\ o1 = (IF WideDone THEN o ELSE order)
           /\ Q1 = (IF s = Rolling[1] THEN result ELSE Q)
           /\ p1 = (IF s = Rolling[1] THEN order ELSE p)
    <3> DEFINE a == IF WideDone THEN R ELSE result
               b == IF s = Rolling[1] THEN result ELSE Q
               c == IF WideDone THEN o ELSE order
               d == IF s = Rolling[1] THEN order ELSE p
    <3>1. a \in SUBSET Rows /\ b \in SUBSET Rows /\ c \in Orders /\ d \in Orders
      BY <2>1
    <3> HIDE DEF a, b, c, d
    <3>2. \E R1, Q1 \in SUBSET Rows, o1, p1 \in Orders :
             R1 = a /\ o1 = c /\ Q1 = b /\ p1 = d
      BY <3>1
    <3> QED BY <3>2 DEF a, b, c, d
  <2>4. s \in Wide => R1 = result /\ o1 = order
    <3> SUFFICES ASSUME WideDone, s.window = Long PROVE R = result /\ o = order
      BY <2>3 DEF Wide
    <3>1. o = order /\ R = Between(cache[e].rows, asof.ts - Long, asof.ts)
      BY <1>1, <1>5, <1>9 DEF Keeps
    <3> QED BY <2>1, <2>3, <3>1 DEF Fetched
  <2>5. s = Rolling[1] => ~WideDone /\ s.window = Short /\ v = Mean(InOrder(result, order))
    <3> SUFFICES ASSUME s = Rolling[1]
                 PROVE  ~WideDone /\ s.window = Short /\ v = Mean(InOrder(result, order))
      OBVIOUS
    <3>1. s.window = Short /\ s.name = "mean_60s"
      BY DEF Rolling, Feature
    <3>2. Value(s, InOrder(result, order)) = Mean(InOrder(result, order))
      BY <1>9, <3>1 DEF Value
    <3>3. ASSUME NEW i \in 1 .. pos - 1, plan[i] \in Wide PROVE FALSE
      <4>1. i \in 1 .. Len(plan) /\ i < pos /\ plan[i] \in Range(Rolling)
        BY <1>2, <3>3 DEF Wide
      <4>2. pos <= i
        BY <1>2, <4>1, PlanFacts
      <4>3. i \in Int /\ pos \in Int
        BY <1>2, <4>1
      <4> QED BY <4>1, <4>2, <4>3
    <3> QED BY <2>1, <3>1, <3>2, <3>3 DEF WideDone
  <2>6. Q1 \subseteq SeenIn(Short)
    <3>1. CASE s = Rolling[1]
      <4>1. result \subseteq Asked(lake)
        BY <2>1 DEF SoundInv, ReadsStayInWindow, Fetched
      <4> QED BY <2>1, <2>3, <2>5, <3>1, <4>1 DEF Fetched, Asked, PIT!Window, SeenIn
    <3>2. CASE s # Rolling[1]
      BY <1>5, <2>3, <3>2 DEF Describes
    <3> QED BY <3>1, <3>2
  <2>7. clean /\ WideDone' => Q1 \subseteq R1
    <3>1. CASE WideDone
      <4>1. s # Rolling[1]
        BY <2>5, <3>1
      <4> QED BY <1>5, <2>3, <3>1, <4>1 DEF Describes
    <3>2. CASE ~WideDone /\ s = Rolling[1]
      BY <2>3, <3>2
    <3>3. CASE clean /\ s \in Wide /\ s # Rolling[1] /\ ~WideDone
      <4>1. CompleteInv /\ failed = {}
        BY <3>3 DEF CleanInv
      <4>2. PIT!Window(e, asof.ts - Long, asof.ts, Known) \subseteq result
        BY <2>1, <3>3, <4>1 DEF CompleteInv, AnswerComplete, Blank, Fetched, Wide
      <4>3. SeenIn(Short) \subseteq PIT!Window(e, asof.ts - Long, asof.ts, Known)
        <5>1. \A r \in seen : EventOf[r] \in Int
          BY ContextConstants DEF PackTyped, TypeOK
        <5> QED BY <2>2, <5>1 DEF SeenIn, PIT!Window, Known
      <4> QED BY <2>3, <2>6, <3>3, <4>2, <4>3
    <3> QED BY <1>7, <3>1, <3>2, <3>3
  <2>8. Describes(R1, o1, Q1, p1)'
    <3>1. ASSUME NEW i \in 1 .. pos' - 1
          PROVE  /\ plan'[i] \in Wide =>
                        values'[plan'[i].name] = Value(plan'[i], InOrder(R1, o1))
                 /\ plan'[i] = Rolling[1] =>
                        values'[plan'[i].name] = Mean(InOrder(Q1, p1))
      <4>1. CASE i = pos
        BY <1>2, <2>1, <2>3, <2>4, <2>5, <4>1
      <4>2. CASE i \in 1 .. pos - 1
        <5>1. plan[i] \in Wide => R1 = R /\ o1 = o
          BY <2>3, <4>2 DEF WideDone
        <5>2. plan[i] = Rolling[1] => Q1 = Q /\ p1 = p
          BY <1>2, <2>3, <4>2 DEF PackTyped, Distinct
        <5> QED BY <1>2, <1>5, <4>2, <5>1, <5>2 DEF Describes
      <4> QED BY <1>2, <4>1, <4>2
    <3> QED BY <1>2, <1>4, <2>6, <2>7, <3>1 DEF Describes
  <2>9. Keeps(R1, o1)'
    <3> SUFFICES ASSUME WideDone'
                 PROVE  /\ pc = "idle" /\ o1 = order
                        /\ e \in DOMAIN cache /\ cache[e].start.ts <= asof.ts - Long
                        /\ R1 = Between(cache[e].rows, asof.ts - Long, asof.ts)
      BY <1>2, <1>3 DEF Keeps
    <3>1. CASE WideDone
      BY <1>1, <1>5, <1>9, <2>3, <3>1 DEF Keeps
    <3>2. CASE ~WideDone /\ s \in Wide
      BY <1>1, <2>1, <2>3, <3>2 DEF Fetched, Wide
    <3> QED BY <1>7, <3>1, <3>2
  <2> QED BY <2>3, <2>8, <2>9
<1> QED BY <1>8, <1>9

\* Before the first feature of a grid point nothing is described.
LEMMA AgreeAtFirst == PackTyped /\ pos = 1 => AgreeInv
<1> SUFFICES ASSUME PackTyped, pos = 1 PROVE AgreeInv
  OBVIOUS
<1>1. order \in Orders /\ 1 .. pos - 1 = {}
  BY DEF PackTyped
<1>2. ~WideDone
  BY <1>1 DEF WideDone
<1>3. Describes({}, order, {}, order) /\ Keeps({}, order)
  BY <1>1, <1>2 DEF Describes, Keeps
<1> QED BY <1>1, <1>3 DEF AgreeInv

LEMMA AgreeStep ==
    ASSUME PackSound, AskInv, CleanInv, AgreeInv, [PackNext]_packVars
    PROVE  AgreeInv'
<1>1. CASE Compute
  BY <1>1, AgreeComputes
<1>2. ASSUME NEW en \in Entities, NEW a \in Points, Point(en, a) PROVE AgreeInv'
  <2>1. pos' = 1
    BY <1>2 DEF Point
  <2>2. PackTyped'
    BY PackSoundStep DEF PackSound
  <2>3. (PackTyped /\ pos = 1)' => AgreeInv'
    BY AgreeAtFirst, PTL
  <2> QED BY <2>1, <2>2, <2>3
<1>3. CASE NoRoute
  <2>1. entity \notin DOMAIN Source /\ pos <= Len(plan) /\ Yield(None)
    BY <1>3 DEF NoRoute
  <2>2. /\ 1 .. pos' - 1 = (1 .. pos - 1) \cup {pos} /\ UNCHANGED <<entity, plan>>
        /\ values'[plan[pos].name] = None
        /\ \A i \in 1 .. pos - 1 : values'[plan[i].name] = values[plan[i].name]
    BY <2>1, YieldKeeps DEF PackSound
  <2> QED BY <2>1, <2>2 DEF AgreeInv
<1> QED BY <1>1, <1>2, <1>3, AgreeStays

\* A feature that returned a value: those before it in the pack are computed, too.
LEMMA ReturnedFacts ==
    ASSUME PackSound, NEW R, NEW o, NEW Q, NEW p, Describes(R, o, Q, p),
           NEW k \in 1 .. 11, Rolling[k].name \in Returned
    PROVE  /\ values[Rolling[k].name] # None
           /\ \A m \in 1 .. k : Rolling[m].window = Long =>
                 values[Rolling[m].name] = Value(Rolling[m], InOrder(R, o))
           /\ k = 1 => values[Rolling[k].name] = Mean(InOrder(Q, p))
           /\ Rolling[k].window = Long => WideDone
<1>1. PICK i \in 1 .. pos - 1 : /\ plan[i] \in Range(Rolling)
                                /\ values[plan[i].name] # None
                                /\ plan[i].name = Rolling[k].name
  BY DEF Returned
<1>2. i \in 1 .. Len(plan) /\ pos \in Int
  BY DEF PackSound, PackTyped
<1>3. DOMAIN Rolling = 1 .. 11
  BY RollingFacts
<1>4. plan[i] = Rolling[k]
  <2>1. PICK j \in 1 .. 11 : plan[i] = Rolling[j]
    BY <1>1, RollingFacts
  <2>2. \A a, b \in 1 .. 11 : Rolling[a].name = Rolling[b].name => a = b
    BY <1>3, WindowConstants, RegistryConstants
  <2> QED BY <1>1, <2>1, <2>2
<1>5. ASSUME NEW m \in 1 .. k, Rolling[m].window = Long
      PROVE  values[Rolling[m].name] = Value(Rolling[m], InOrder(R, o))
  <2>1. PICK j \in 1 .. i : plan[j] = Rolling[m]
    BY <1>2, <1>4, PlanFacts
  <2>2. j \in 1 .. pos - 1 /\ m \in 1 .. 11
    BY <1>2
  <2>3. plan[j] \in Wide
    BY <1>5, <2>1, <2>2, RollingFacts DEF Wide
  <2> QED BY <2>1, <2>2, <2>3 DEF Describes
<1>6. k = 1 => values[Rolling[k].name] = Mean(InOrder(Q, p))
  BY <1>4 DEF Describes
<1>7. Rolling[k].window = Long => WideDone
  BY <1>1, <1>4 DEF WideDone, Wide
<1> QED BY <1>1, <1>5, <1>6, <1>7

\* What has been returned, in terms of the tables of the two windows.
Reports(T, U) ==
    LET v == values
    IN  /\ "mean_60s" \in Returned => v["mean_60s"] = Mean(U) /\ Mean(U) # None
        /\ "mean_300s" \in Returned => v["mean_300s"] = Mean(T) /\ Mean(T) # None
        /\ "min_300s" \in Returned => v["min_300s"] = Lowest(T) /\ Lowest(T) # None
        /\ "max_300s" \in Returned =>
              /\ v["max_300s"] = Highest(T) /\ Highest(T) # None
              /\ v["min_300s"] = Lowest(T) /\ WideDone
        /\ "range_300s" \in Returned => v["range_300s"] = Spread(T) /\ Spread(T) # None
        /\ "last" \in Returned => v["last"] = Latest(T) /\ Latest(T) # None
        /\ "zscore_300s" \in Returned =>
              /\ v["zscore_300s"] = ZScore(T) /\ ZScore(T) # None
              /\ v["mean_300s"] = Mean(T) /\ v["std_300s"] = Std(T)
        /\ "log_return_300s" \in Returned =>
              v["log_return_300s"] = LogReturn(T) /\ LogReturn(T) # None
        /\ "vwap_300s" \in Returned => v["vwap_300s"] = Vwap(T) /\ Vwap(T) # None

LEMMA RollingValues ==
    \A T : /\ Value(Rolling[2], T) = Mean(T) /\ Value(Rolling[3], T) = Std(T)
           /\ Value(Rolling[4], T) = Lowest(T) /\ Value(Rolling[5], T) = Highest(T)
           /\ Value(Rolling[6], T) = Spread(T) /\ Value(Rolling[8], T) = Latest(T)
           /\ Value(Rolling[9], T) = ZScore(T) /\ Value(Rolling[10], T) = LogReturn(T)
           /\ Value(Rolling[11], T) = Vwap(T)
<1>1. \A k \in 1 .. 11 : Rolling[k] \in Range(Rolling)
  BY RollingFacts
<1>2. /\ Rolling[2].name = "mean_300s" /\ Rolling[3].name = "std_300s"
      /\ Rolling[4].name = "min_300s" /\ Rolling[5].name = "max_300s"
      /\ Rolling[6].name = "range_300s" /\ Rolling[8].name = "last"
      /\ Rolling[9].name = "zscore_300s" /\ Rolling[10].name = "log_return_300s"
      /\ Rolling[11].name = "vwap_300s"
  BY DEF Rolling, Feature
<1> TAKE T
<1>3. /\ Value(Rolling[2], T) = Mean(T) /\ Value(Rolling[3], T) = Std(T)
      /\ Value(Rolling[4], T) = Lowest(T) /\ Value(Rolling[5], T) = Highest(T)
  BY <1>1, <1>2 DEF Value
<1>4. Value(Rolling[6], T) = Spread(T) /\ Value(Rolling[8], T) = Latest(T)
  BY <1>1, <1>2 DEF Value
<1>5. Value(Rolling[9], T) = ZScore(T) /\ Value(Rolling[10], T) = LogReturn(T)
  BY <1>1, <1>2 DEF Value
<1>6. Value(Rolling[11], T) = Vwap(T)
  BY <1>1, <1>2 DEF Value
<1> QED BY <1>3, <1>4, <1>5, <1>6

LEMMA ReportsFacts ==
    ASSUME PackSound, NEW R, NEW o, NEW Q, NEW p, Describes(R, o, Q, p)
    PROVE  Reports(InOrder(R, o), InOrder(Q, p))
<1> DEFINE T == InOrder(R, o)
           U == InOrder(Q, p)
<1>1. /\ Rolling[1].name = "mean_60s"
      /\ Rolling[2].name = "mean_300s" /\ Rolling[3].name = "std_300s"
      /\ Rolling[4].name = "min_300s" /\ Rolling[5].name = "max_300s"
      /\ Rolling[6].name = "range_300s" /\ Rolling[8].name = "last"
      /\ Rolling[9].name = "zscore_300s" /\ Rolling[10].name = "log_return_300s"
      /\ Rolling[11].name = "vwap_300s"
  BY DEF Rolling, Feature
<1>2. \A m \in {2, 3, 4, 5, 6, 8, 9, 10, 11} : Rolling[m].window = Long
  BY DEF Rolling, Feature
<1>3. \A k \in 1 .. 11 : Rolling[k].name \in Returned =>
         /\ values[Rolling[k].name] # None
         /\ \A m \in 1 .. k : Rolling[m].window = Long =>
               values[Rolling[m].name] = Value(Rolling[m], T)
         /\ k = 1 => values[Rolling[k].name] = Mean(U)
         /\ Rolling[k].window = Long => WideDone
  BY ReturnedFacts
<1> HIDE DEF T, U
<1>4. "mean_60s" \in Returned => values["mean_60s"] = Mean(U) /\ Mean(U) # None
  BY <1>1, <1>3, 1 \in 1 .. 11
<1>5. "mean_300s" \in Returned => values["mean_300s"] = Mean(T) /\ Mean(T) # None
  BY <1>1, <1>2, <1>3, RollingValues, 2 \in 1 .. 11, 2 \in 1 .. 2
<1>6. "min_300s" \in Returned => values["min_300s"] = Lowest(T) /\ Lowest(T) # None
  BY <1>1, <1>2, <1>3, RollingValues, 4 \in 1 .. 11, 4 \in 1 .. 4
<1>7. "max_300s" \in Returned =>
         /\ values["max_300s"] = Highest(T) /\ Highest(T) # None
         /\ values["min_300s"] = Lowest(T) /\ WideDone
  BY <1>1, <1>2, <1>3, RollingValues, 5 \in 1 .. 11, 5 \in 1 .. 5, 4 \in 1 .. 5
<1>8. "range_300s" \in Returned => values["range_300s"] = Spread(T) /\ Spread(T) # None
  BY <1>1, <1>2, <1>3, RollingValues, 6 \in 1 .. 11, 6 \in 1 .. 6
<1>9. "last" \in Returned => values["last"] = Latest(T) /\ Latest(T) # None
  BY <1>1, <1>2, <1>3, RollingValues, 8 \in 1 .. 11, 8 \in 1 .. 8
<1>10. "zscore_300s" \in Returned =>
          /\ values["zscore_300s"] = ZScore(T) /\ ZScore(T) # None
          /\ values["mean_300s"] = Mean(T) /\ values["std_300s"] = Std(T)
  BY <1>1, <1>2, <1>3, RollingValues, 9 \in 1 .. 11, 9 \in 1 .. 9, 2 \in 1 .. 9, 3 \in 1 .. 9
<1>11. "log_return_300s" \in Returned =>
          values["log_return_300s"] = LogReturn(T) /\ LogReturn(T) # None
  BY <1>1, <1>2, <1>3, RollingValues, 10 \in 1 .. 11, 10 \in 1 .. 10
<1>12. "vwap_300s" \in Returned => values["vwap_300s"] = Vwap(T) /\ Vwap(T) # None
  BY <1>1, <1>2, <1>3, RollingValues, 11 \in 1 .. 11, 11 \in 1 .. 11
<1>13. Reports(T, U)
  BY <1>4, <1>5, <1>6, <1>7, <1>8, <1>9, <1>10, <1>11, <1>12 DEF Reports
<1> QED BY <1>13 DEF T, U

\* The features of one table agree.
LEMMA TableAgrees ==
    ASSUME NEW R \in SUBSET Rows, NEW T, IsTable(T, R), NEW U, Reports(T, U)
    PROVE  FeaturesAgree
<1> DEFINE xs == Values(T)
<1>1. /\ xs \in Seq(Int) /\ Len(xs) \in Nat /\ (xs = <<>> <=> Len(xs) = 0)
  <2>1. Lists(xs, R)
    BY ValueBasics
  <2> QED BY <2>1 DEF Lists
<1>2. /\ Len(xs) = 0 => /\ Lowest(T) = None /\ Highest(T) = None
                        /\ Spread(T) = None /\ Latest(T) = None
      /\ Len(xs) > 0 => /\ Spread(T) = Minus(Highest(T), Lowest(T))
                        /\ Latest(T) = xs[Len(xs)] /\ Latest(T) \in Int
                        /\ Lowest(T) \in Int /\ Highest(T) \in Int
      /\ \A k \in 1 .. Len(xs) : Lowest(T) <= xs[k] /\ xs[k] <= Highest(T)
  BY ExtremesFacts, FeatureFacts
<1> HIDE DEF xs
<1>3. ASSUME {"range_300s", "max_300s"} \subseteq Returned
      PROVE  values["range_300s"] = Minus(values["max_300s"], values["min_300s"])
  BY <1>1, <1>2, <1>3 DEF Reports
<1>4. ASSUME {"last", "max_300s"} \subseteq Returned
      PROVE  values["last"] \in values["min_300s"] .. values["max_300s"]
  <2>1. Len(xs) > 0
    BY <1>1, <1>2, <1>4 DEF Reports
  <2>2. Lowest(T) <= Latest(T) /\ Latest(T) <= Highest(T)
    BY <1>1, <1>2, <2>1
  <2> QED BY <1>2, <1>4, <2>1, <2>2 DEF Reports
<1>5. ASSUME {"zscore_300s", "last"} \subseteq Returned
      PROVE  /\ values["zscore_300s"].dev = Minus(values["last"], values["mean_300s"])
             /\ values["zscore_300s"].std = values["std_300s"]
  <2>1. ZScore(T) = [dev |-> Minus(Latest(T), Mean(T)), std |-> Std(T)]
    BY <1>5 DEF Reports, ZScore
  <2> QED BY <1>5, <2>1 DEF Reports
<1>6. ASSUME {"log_return_300s", "last"} \subseteq Returned
      PROVE  values["log_return_300s"].last = values["last"]
  <2>1. LogReturn(T) = [last |-> Last(xs), first |-> xs[1]] /\ Len(xs) >= 2
    BY <1>1, <1>6 DEF Reports, LogReturn, xs
  <2>2. Latest(T) = Last(xs)
    BY <1>1, <1>2, <2>1 DEF Last
  <2> QED BY <1>6, <2>1, <2>2 DEF Reports
<1> QED BY <1>3, <1>4, <1>5, <1>6 DEF FeaturesAgree

\* The inductive invariant under the two properties of the values.
DescribedInv == PackInv /\ AgreeInv

LEMMA DescribedInit == PackInit => DescribedInv
<1> SUFFICES ASSUME PackInit PROVE DescribedInv
  OBVIOUS
<1>1. PackInv /\ pos = 1
  BY PackInvInit DEF PackInit
<1> QED BY <1>1, AgreeAtFirst DEF DescribedInv, PackInv, PackSound

LEMMA DescribedStep == DescribedInv /\ [PackNext]_packVars => DescribedInv'
BY PackInvStep, AgreeStep DEF DescribedInv, PackInv

\* A grid point without a route returns nothing.
LEMMA UnroutedReturns ==
    ASSUME AgreeInv, entity \notin DOMAIN Source
    PROVE  Returned = {}
BY DEF AgreeInv, Returned

\* rolling.py: the features of the long window that return a value describe one
\* table, though each reads for itself through the cache while parts are
\* published, reads fail and rows of one instant come in any order.
THEOREM FeaturesAgreeHolds == PackSpec => []FeaturesAgree
<1>1. DescribedInv => FeaturesAgree
  <2> SUFFICES ASSUME DescribedInv PROVE FeaturesAgree
    OBVIOUS
  <2>1. PackSound /\ AgreeInv
    BY DEF DescribedInv, PackInv
  <2>2. CASE entity \notin DOMAIN Source
    BY <2>1, <2>2, UnroutedReturns DEF FeaturesAgree
  <2>3. CASE entity \in DOMAIN Source
    <3>1. PICK R \in SUBSET Rows, Q \in SUBSET Rows, o \in Orders, p \in Orders :
             Describes(R, o, Q, p)
      BY <2>1, <2>3 DEF AgreeInv
    <3>2. Reports(InOrder(R, o), InOrder(Q, p))
      BY <2>1, <3>1, ReportsFacts
    <3>3. IsTable(InOrder(R, o), R)
      BY InOrderFacts
    <3> QED BY <3>2, <3>3, TableAgrees
  <2> QED BY <2>2, <2>3
<1> QED BY <1>1, DescribedInit, DescribedStep, PTL DEF PackSpec

-----------------------------------------------------------------------------
(* Means *)

\* Every sum of values, and of their products with the sizes, has no more than
\* the digits of a float.
SumsAreExact ==
    \E m \in Nat :
        /\ m * Cardinality(Rows) < 2 ^ Bits
        /\ \A r \in Rows : ValueOf[r] # None =>
              /\ Abs(ValueOf[r]) <= m
              /\ SizeOf[r] # None => SizeOf[r] <= m /\ Abs(ValueOf[r] * SizeOf[r]) <= m

\* m bounds them, and so do n terms of them.
Bounds(m, n) ==
    /\ m * n < 2 ^ Bits
    /\ \A r \in Rows : ValueOf[r] # None =>
          /\ -m <= ValueOf[r] /\ ValueOf[r] <= m
          /\ SizeOf[r] # None => /\ SizeOf[r] <= m
                                 /\ -m <= ValueOf[r] * SizeOf[r] /\ ValueOf[r] * SizeOf[r] <= m

LEMMA ExactBounds ==
    ASSUME SumsAreExact, NEW n \in Nat, n <= Cardinality(Rows)
    PROVE  \E m \in Nat : Bounds(m, n)
<1>1. PICK m \in Nat :
        /\ m * Cardinality(Rows) < 2 ^ Bits
        /\ \A r \in Rows : ValueOf[r] # None =>
              /\ Abs(ValueOf[r]) <= m
              /\ SizeOf[r] # None => SizeOf[r] <= m /\ Abs(ValueOf[r] * SizeOf[r]) <= m
  BY DEF SumsAreExact
<1>2. Cardinality(Rows) \in Nat /\ 2 ^ Bits \in Nat
  BY PackConstants, FS_CardinalityType, PowerDoubles
<1>3. m * n < 2 ^ Bits
  <2>1. m * n \in Int /\ m * Cardinality(Rows) \in Int /\ m * n <= m * Cardinality(Rows)
    BY <1>2, UpToTimes
  <2> DEFINE a == m * n
             b == m * Cardinality(Rows)
  <2>2. a \in Int /\ b \in Int /\ a <= b /\ b < 2 ^ Bits
    BY <1>1, <2>1
  <2> HIDE DEF a, b
  <2>3. a < 2 ^ Bits
    BY <1>2, <2>2
  <2> QED BY <2>3 DEF a
<1>4. \A x \in Int : Abs(x) <= m => -m <= x /\ x <= m
  BY DEF Abs
<1>5. ASSUME NEW r \in Rows, ValueOf[r] # None
      PROVE  /\ -m <= ValueOf[r] /\ ValueOf[r] <= m
             /\ SizeOf[r] # None => /\ SizeOf[r] <= m
                                    /\ -m <= ValueOf[r] * SizeOf[r]
                                    /\ ValueOf[r] * SizeOf[r] <= m
  <2>1. ValueOf[r] \in Int /\ (SizeOf[r] # None => SizeOf[r] \in Nat)
    BY <1>5, PackConstants
  <2>2. SizeOf[r] # None => ValueOf[r] * SizeOf[r] \in Int
    BY <2>1
  <2> QED BY <1>1, <1>4, <1>5, <2>1, <2>2
<1> QED BY <1>3, <1>5 DEF Bounds

\* An exact sum over a positive one is a float between the bounds of its terms.
LEMMA QuotientBetween ==
    ASSUME NEW n \in Int, NEW d \in Nat \ {0}, Abs(n) < 2 ^ Bits,
           NEW lo \in Int, NEW hi \in Int, lo * d <= n, n <= hi * d
    PROVE  lo <= Fl(n, d) /\ Fl(n, d) <= hi
<1>1. 2 ^ Bits \in Nat /\ Abs(n) \in Nat
  BY PowerDoubles, PackConstants, AbsFacts
<1>2. \A x \in Nat : d * x \in Nat /\ x <= d * x
  OBVIOUS
<1>3. Abs(n) < d * 2 ^ Bits
  BY <1>1, <1>2
<1> QED BY <1>3, FlBetween

\* The mean of a table lies between the bounds of its values.
LEMMA MeanBetween ==
    ASSUME SumsAreExact, NEW Q \in SUBSET Rows, NEW U, IsTable(U, Q),
           NEW lo \in Int, NEW hi \in Int,
           \A r \in Valued(Q) : lo <= ValueOf[r] /\ ValueOf[r] <= hi,
           Mean(U) # None
    PROVE  lo <= Mean(U) /\ Mean(U) <= hi
<1> DEFINE xs == Values(U)
           n == Len(xs)
<1>1. /\ xs \in Seq(Int) /\ n \in Nat /\ n <= Cardinality(Rows)
      /\ \A k \in 1 .. n : \E r \in Valued(Q) : xs[k] = ValueOf[r]
  <2>1. Lists(xs, Q)
    BY ValueBasics
  <2> QED BY <2>1 DEF Lists
<1>2. n > 0 /\ Mean(U) = Fl(FlSum(xs), n)
  <2>1. n = 0 => Mean(U) = None
    BY FeatureFacts
  <2>2. n > 0 => Mean(U) = Fl(FlSum(xs), n)
    BY FeatureFacts
  <2> QED BY <1>1, <2>1, <2>2
<1> HIDE DEF xs
<1>3. PICK m \in Nat : Bounds(m, n)
  BY <1>1, ExactBounds
<1>4. \A k \in 1 .. n : /\ -m <= xs[k] /\ xs[k] <= m
                        /\ lo <= xs[k] /\ xs[k] <= hi
  BY <1>1, <1>3 DEF Bounds, Valued
<1>5. m * Len(xs) < 2 ^ Bits
  BY <1>3 DEF Bounds
<1>6. /\ FlSum(xs) \in Int /\ Abs(FlSum(xs)) < 2 ^ Bits
      /\ lo * n <= FlSum(xs) /\ FlSum(xs) <= hi * n
  BY <1>1, <1>4, <1>5, ExactSum
<1>7. n \in Nat \ {0}
  BY <1>1, <1>2
<1> HIDE DEF n
<1> QED BY <1>2, <1>6, <1>7, QuotientBetween

\* So does the weighted one.
LEMMA VwapBetween ==
    ASSUME SumsAreExact, NEW R \in SUBSET Rows, NEW T, IsTable(T, R),
           NEW lo \in Int, NEW hi \in Int,
           \A r \in Valued(R) : lo <= ValueOf[r] /\ ValueOf[r] <= hi,
           Vwap(T) # None
    PROVE  Vwap(T) \in lo .. hi
<1> DEFINE w == Weighed(T)
           n == Len(w)
           num == Num(T)
           den == Den(T)
<1>1. /\ w \in Seq({r \in Valued(R) : SizeOf[r] # None})
      /\ n \in Nat /\ n <= Cardinality(Rows)
  <2>1. /\ w \in Seq({r \in Valued(R) : SizeOf[r] # None})
        /\ Len(w) <= Cardinality(Rows)
    BY WeighedFacts
  <2> HIDE DEF w
  <2> QED BY <2>1
<1>2. /\ num \in Seq(Int) /\ den \in Seq(Nat) /\ Len(num) = n /\ Len(den) = n
      /\ FlSum(den) \in Nat
      /\ Vwap(T) = IF FlSum(den) = 0 THEN None ELSE Fl(FlSum(num), FlSum(den))
      /\ FlSum(den) # 0 => Vwap(T) \in Int
  BY VwapFacts
<1>3. PICK m \in Nat : Bounds(m, n)
  <2> HIDE DEF n
  <2> QED BY <1>1, ExactBounds
<1>4. \A k \in 1 .. n : /\ w[k] \in Rows /\ w[k] \in Valued(R)
                        /\ ValueOf[w[k]] # None /\ SizeOf[w[k]] # None
                        /\ ValueOf[w[k]] \in Int /\ SizeOf[w[k]] \in Nat
  <2> TAKE k \in 1 .. n
  <2>1. w[k] \in {r \in Valued(R) : SizeOf[r] # None}
    BY <1>1
  <2> HIDE DEF w
  <2> QED BY <2>1, PackConstants DEF Valued
<1>5. \A k \in 1 .. n : /\ num[k] = Fl(ValueOf[w[k]] * SizeOf[w[k]], 1)
                        /\ den[k] = SizeOf[w[k]]
  <2>1. DOMAIN w = 1 .. n
    BY <1>1
  <2> QED BY <2>1 DEF Num, Den
<1> HIDE DEF w, n, num, den
<1>6. \A k \in 1 .. n : /\ -m <= num[k] /\ num[k] <= m /\ den[k] <= m
                        /\ lo * den[k] <= num[k] /\ num[k] <= hi * den[k]
  <2> TAKE k \in 1 .. n
  <2> DEFINE v == ValueOf[w[k]]
             s == SizeOf[w[k]]
             p == v * s
  <2>1. v \in Int /\ s \in Nat /\ lo <= v /\ v <= hi
    BY <1>4
  <2>2. -m <= p /\ p <= m /\ s <= m
    BY <1>3, <1>4 DEF Bounds
  <2>3. p \in Int /\ lo * s <= p /\ p <= hi * s
    <3> HIDE DEF v, s
    <3>1. v * s \in Int /\ lo * s <= v * s /\ v * s <= hi * s
      BY <2>1
    <3> QED BY <3>1
  <2>4. Fl(p, 1) = p
    <3> HIDE DEF p
    <3>1. m < 2 ^ Bits
      <4>1. n >= 1 /\ m * n < 2 ^ Bits
        BY <1>1, <1>3 DEF Bounds
      <4>2. m * 1 \in Int /\ m * n \in Int /\ m * 1 <= m * n
        BY <1>1, <4>1, UpToTimes
      <4>3. 2 ^ Bits \in Nat /\ m * 1 = m
        BY PowerDoubles, PackConstants
      <4> DEFINE mn == m * n
      <4>4. mn \in Int /\ m <= mn /\ mn < 2 ^ Bits
        BY <4>1, <4>2, <4>3
      <4> HIDE DEF mn
      <4> QED BY <4>3, <4>4
    <3>2. 2 ^ Bits \in Nat
      BY PowerDoubles, PackConstants
    <3>3. Abs(p) < 2 ^ Bits
      BY <2>2, <2>3, <3>1, <3>2 DEF Abs
    <3> QED BY <2>3, <3>3, FlExact
  <2>5. num[k] = p /\ den[k] = s
    BY <1>5, <2>4
  <2> HIDE DEF v, s, p
  <2> QED BY <2>2, <2>3, <2>5
<1>7. m * Len(num) < 2 ^ Bits
  BY <1>2, <1>3 DEF Bounds
<1>8. /\ FlSum(num) \in Int /\ Abs(FlSum(num)) < 2 ^ Bits
      /\ lo * FlSum(den) <= FlSum(num) /\ FlSum(num) <= hi * FlSum(den)
  BY <1>2, <1>6, <1>7, ExactWeighted
<1>9. FlSum(den) \in Nat \ {0} /\ Vwap(T) = Fl(FlSum(num), FlSum(den)) /\ Vwap(T) \in Int
  BY <1>2
<1>10. lo <= Vwap(T) /\ Vwap(T) <= hi
  BY <1>8, <1>9, QuotientBetween
<1> QED BY <1>9, <1>10

LEMMA TableMeans ==
    ASSUME SumsAreExact, NEW R \in SUBSET Rows, NEW T, IsTable(T, R),
           NEW Q \in SUBSET Rows, NEW U, IsTable(U, Q),
           clean /\ WideDone => Q \subseteq R, Reports(T, U)
    PROVE  MeansAreBetween /\ FlatHasNoScore
<1> DEFINE xs == Values(T)
           lo == Lowest(T)
           hi == Highest(T)
<1>1. xs \in Seq(Int) /\ Len(xs) \in Nat /\ \A k \in 1 .. Len(xs) : xs[k] \in Int
  <2>1. Lists(xs, R)
    BY ValueBasics
  <2> HIDE DEF xs
  <2> QED BY <2>1 DEF Lists
<1>2. /\ Len(xs) = 0 => /\ lo = None /\ hi = None /\ Spread(T) = None
                        /\ Mean(T) = None /\ Std(T) = None
      /\ Len(xs) > 0 => /\ lo \in Int /\ hi \in Int /\ Mean(T) \in Int
                        /\ Spread(T) = Minus(hi, lo)
      /\ \A k \in 1 .. Len(xs) : lo <= xs[k] /\ xs[k] <= hi
      /\ \A r \in Valued(R) : lo <= ValueOf[r] /\ ValueOf[r] <= hi
      /\ Std(T) # None => Std(T) = [sq |-> Squares(xs, Mean(T)), n |-> Len(xs)]
  <2>1. /\ Len(xs) = 0 => lo = None /\ hi = None
        /\ Len(xs) > 0 => lo \in Int /\ hi \in Int
        /\ \A k \in 1 .. Len(xs) : lo <= xs[k] /\ xs[k] <= hi
        /\ \A r \in Valued(R) : lo <= ValueOf[r] /\ ValueOf[r] <= hi
    BY ExtremesFacts
  <2>2. /\ Len(xs) = 0 => Mean(T) = None /\ Spread(T) = None
        /\ Len(xs) > 0 => Mean(T) \in Int /\ Spread(T) = Minus(hi, lo)
        /\ Len(xs) < 2 => Std(T) = None
        /\ Len(xs) >= 2 => Std(T) = [sq |-> Squares(xs, Mean(T)), n |-> Len(xs)]
    BY FeatureFacts
  <2> HIDE DEF xs, lo, hi
  <2> QED BY <1>1, <2>1, <2>2
<1> HIDE DEF xs, lo, hi
<1>3. Mean(T) # None => lo <= Mean(T) /\ Mean(T) <= hi
  <2>1. Mean(T) # None => lo \in Int /\ hi \in Int
    BY <1>1, <1>2
  <2>2. \A r \in Valued(R) : lo <= ValueOf[r] /\ ValueOf[r] <= hi
    BY <1>2
  <2> QED BY <2>1, <2>2, MeanBetween
<1>4. ASSUME "mean_300s" \in Returned
      PROVE  /\ "max_300s" \in Returned => values["mean_300s"] <= values["max_300s"]
             /\ "min_300s" \in Returned => values["min_300s"] <= values["mean_300s"]
  BY <1>3, <1>4 DEF Reports, lo, hi
<1>5. ASSUME {"vwap_300s", "max_300s"} \subseteq Returned
      PROVE  values["vwap_300s"] \in values["min_300s"] .. values["max_300s"]
  <2>1. Vwap(T) # None /\ hi # None
    BY <1>5 DEF Reports, hi
  <2>2. lo \in Int /\ hi \in Int
    BY <1>1, <1>2, <2>1
  <2>3. Vwap(T) \in lo .. hi
    BY <1>2, <2>1, <2>2, VwapBetween
  <2> QED BY <1>5, <2>3 DEF Reports, lo, hi
<1>6. ASSUME clean, {"mean_60s", "max_300s"} \subseteq Returned
      PROVE  values["mean_60s"] \in values["min_300s"] .. values["max_300s"]
  <2>1. Mean(U) # None /\ hi # None /\ WideDone
    BY <1>6 DEF Reports, hi
  <2>2. lo \in Int /\ hi \in Int
    BY <1>1, <1>2, <2>1
  <2>3. \A r \in Valued(Q) : lo <= ValueOf[r] /\ ValueOf[r] <= hi
    BY <1>2, <1>6, <2>1 DEF Valued
  <2>4. lo <= Mean(U) /\ Mean(U) <= hi
    BY <2>1, <2>2, <2>3, MeanBetween
  <2>5. Mean(U) \in Int
    <3>1. Len(Values(U)) \in Nat
      <4>1. Lists(Values(U), Q)
        BY ValueBasics
      <4> QED BY <4>1 DEF Lists
    <3>2. Len(Values(U)) = 0 => Mean(U) = None
      BY FeatureFacts
    <3>3. Len(Values(U)) > 0 => Mean(U) \in Int
      BY FeatureFacts
    <3> QED BY <2>1, <3>1, <3>2, <3>3
  <2> QED BY <1>6, <2>2, <2>4, <2>5 DEF Reports, lo, hi
<1>7. ASSUME {"zscore_300s", "range_300s"} \subseteq Returned, values["range_300s"] = 0
      PROVE  FALSE
  <2>1. ZScore(T) # None /\ Spread(T) = 0 /\ Spread(T) # None
    BY <1>7 DEF Reports
  <2>2. Len(xs) > 0
    BY <1>1, <1>2, <2>1
  <2>3. lo \in Int /\ hi \in Int /\ Mean(T) \in Int /\ lo = hi
    <3>1. lo \in Int /\ hi \in Int /\ Mean(T) \in Int /\ Minus(hi, lo) = 0
      BY <1>2, <2>1, <2>2
    <3>2. hi - lo \in Int /\ Fl(hi - lo, 1) = 0
      BY <3>1 DEF Minus
    <3>3. hi - lo = 0
      BY <3>2, FlZero
    <3> QED BY <3>1, <3>3
  <2>4. Mean(T) = lo
    BY <1>3, <2>3, NoneIsNoNumber
  <2>5. \A k \in 1 .. Len(xs) : xs[k] = Mean(T)
    BY <1>1, <1>2, <2>3, <2>4
  <2>6. Squares(xs, Mean(T)) = 0
    <3>1. /\ Squares(xs, Mean(T)) \in Nat
          /\ Squares(xs, Mean(T)) > 0 <=> \E k \in 1 .. Len(xs) : xs[k] # Mean(T)
      BY <1>1, <2>3, SquaresFacts
    <3> QED BY <2>5, <3>1
  <2>7. Std(T) # None /\ Std(T).sq # 0
    BY <2>1 DEF ZScore
  <2> QED BY <1>2, <2>6, <2>7
<1>8. MeansAreBetween
  BY <1>4, <1>5, <1>6 DEF MeansAreBetween
<1>9. FlatHasNoScore
  BY <1>7 DEF FlatHasNoScore
<1> QED BY <1>8, <1>9

LEMMA ExactMeans ==
    ASSUME SumsAreExact, DescribedInv
    PROVE  MeansAreBetween /\ FlatHasNoScore
<1>1. PackSound /\ AgreeInv
  BY DEF DescribedInv, PackInv
<1>2. CASE entity \notin DOMAIN Source
  BY <1>1, <1>2, UnroutedReturns DEF MeansAreBetween, FlatHasNoScore
<1>3. CASE entity \in DOMAIN Source
  <2>1. PICK R \in SUBSET Rows, Q \in SUBSET Rows, o \in Orders, p \in Orders :
           Describes(R, o, Q, p)
    BY <1>1, <1>3 DEF AgreeInv
  <2>2. Reports(InOrder(R, o), InOrder(Q, p))
    BY <1>1, <2>1, ReportsFacts
  <2>3. IsTable(InOrder(R, o), R) /\ IsTable(InOrder(Q, p), Q)
    BY InOrderFacts
  <2>4. clean /\ WideDone => Q \subseteq R
    BY <2>1 DEF Describes
  <2> QED BY <2>2, <2>3, <2>4, TableMeans
<1> QED BY <1>2, <1>3

\* rolling.py: where no sum has more than the digits of a float, a mean lies
\* between the extremes of its window, the weighted one too, and in UTC and
\* without failing reads the mean of 60s between the extremes of 300s.
THEOREM MeansAreBetweenHolds == SumsAreExact => (PackSpec => []MeansAreBetween)
<1> SUFFICES ASSUME SumsAreExact PROVE PackSpec => []MeansAreBetween
  OBVIOUS
<1>1. DescribedInv => MeansAreBetween
  BY ExactMeans
<1> QED BY <1>1, DescribedInit, DescribedStep, PTL DEF PackSpec

\* rolling.py:134: where no sum has more than the digits of a float, a window of
\* equal values has no z-score; only rounding gives it one.
THEOREM FlatHasNoScoreIfExact == SumsAreExact => (PackSpec => []FlatHasNoScore)
<1> SUFFICES ASSUME SumsAreExact PROVE PackSpec => []FlatHasNoScore
  OBVIOUS
<1>1. DescribedInv => FlatHasNoScore
  BY ExactMeans
<1> QED BY <1>1, DescribedInit, DescribedStep, PTL DEF PackSpec
=============================================================================
