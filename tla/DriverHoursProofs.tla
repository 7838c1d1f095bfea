--------------------------- MODULE DriverHoursProofs ---------------------------
(***************************************************************************)
(* Theorems about DriverHours, for books of any length, any dates, times   *)
(* of day, breaks, thresholds and rates, and about the operators of        *)
(* Engines they rest on.  All of them are about folds and sorts; what they *)
(* need of induction is over sets of numbers (Induction).                  *)
(***************************************************************************)
EXTENDS DriverHours, FiniteSetTheorems, WellFoundedInduction, TLAPS

-------------------------------------------------------------------------------
(***************************************************************************)
(* Induction, recursion and order                                          *)
(***************************************************************************)

LEMMA LeastNatural ==
  ASSUME NEW T, T \subseteq Nat, T # {}
  PROVE  \E m \in T : \A k \in T : m <= k
<1> DEFINE R == OpToRel(<, Nat)
<1>1. IsWellFoundedOn(R, Nat)
  BY NatLessThanWellFounded
<1>2. \A x, y \in Nat : x < y => <<x, y>> \in R
  BY DEF OpToRel
<1> HIDE DEF R
<1>3. PICK m \in T : \A y \in T : ~(<<y, m>> \in R)
  BY <1>1, WFMin
<1>4. ASSUME NEW k \in T PROVE m <= k
  <2>1. m \in Nat /\ k \in Nat /\ ~(k < m)
    BY <1>2, <1>3
  <2> QED BY <2>1
<1> QED BY <1>4

\* Over a set of numbers, since a predicate cannot be a parameter
LEMMA Induction ==
  ASSUME NEW n \in Nat, NEW T, 0 \in T, \A k \in 0 .. n - 1 : k \in T => k + 1 \in T
  PROVE  0 .. n \subseteq T
<1> DEFINE Missed == (0 .. n) \ T
<1> SUFFICES ASSUME Missed # {} PROVE FALSE
  OBVIOUS
<1>1. Missed \subseteq Nat
  OBVIOUS
<1>2. \A k : k \in Missed <=> (k \in 0 .. n /\ k \notin T)
  OBVIOUS
<1> HIDE DEF Missed
<1>3. PICK m \in Missed : \A k \in Missed : m <= k
  BY <1>1, LeastNatural
<1>4. m \in 0 .. n /\ m # 0
  BY <1>2
<1>5. m \in 1 .. n /\ m - 1 \in 0 .. n - 1 /\ m - 1 \in 0 .. n /\ ~(m <= m - 1)
  BY <1>4
<1>6. m - 1 \in T
  BY <1>2, <1>3, <1>5
<1>7. (m - 1) + 1 \in T
  BY <1>5, <1>6
<1>8. (m - 1) + 1 = m
  BY <1>5
<1> QED BY <1>2, <1>7, <1>8

\* A function given by its first value and a step exists, and there is only one.
LEMMA RecursionExists ==
  ASSUME NEW V, NEW base \in V, NEW n \in Nat, NEW step \in [1 .. n -> [V -> V]]
  PROVE  \E f \in [0 .. n -> V] : f[0] = base /\ \A k \in 1 .. n : f[k] = step[k][f[k - 1]]
<1> DEFINE Upto(m, f) == /\ f \in [0 .. m -> V] /\ f[0] = base
                         /\ \A k \in 1 .. m : f[k] = step[k][f[k - 1]]
           T == {m \in 0 .. n : \E f : Upto(m, f)}
<1>1. 0 \in T
  <2> DEFINE f0 == [k \in 0 .. 0 |-> base]
  <2>1. f0 \in [0 .. 0 -> V] /\ f0[0] = base /\ 1 .. 0 = {}
    OBVIOUS
  <2>2. Upto(0, f0)
    BY <2>1
  <2>3. 0 \in 0 .. n
    OBVIOUS
  <2> HIDE DEF Upto, f0
  <2> QED BY <2>2, <2>3
<1>2. ASSUME NEW m \in 0 .. n - 1, m \in T PROVE m + 1 \in T
  <2>1. PICK f : Upto(m, f)
    BY <1>2
  <2> DEFINE last == step[m + 1][f[m]]
             g == [k \in 0 .. m + 1 |-> IF k = m + 1 THEN last ELSE f[k]]
  <2>2. f[m] \in V /\ m + 1 \in 1 .. n
    BY <2>1
  <2>3. last \in V
    BY <2>2
  <2> HIDE DEF last
  <2>4. g \in [0 .. m + 1 -> V] /\ g[0] = base
    BY <2>1, <2>3
  <2>5. \A k \in 0 .. m : g[k] = f[k]
    BY <2>1
  <2>6. g[m + 1] = last
    OBVIOUS
  <2> HIDE DEF g
  <2>7. ASSUME NEW k \in 1 .. m + 1 PROVE g[k] = step[k][g[k - 1]]
    <3>1. CASE k = m + 1
      <4>1. k - 1 = m /\ m \in 0 .. m
        BY <3>1
      <4> QED BY <2>5, <2>6, <3>1, <4>1 DEF last
    <3>2. CASE k \in 1 .. m
      <4>1. k \in 0 .. m /\ k - 1 \in 0 .. m
        BY <3>2
      <4> QED BY <2>1, <2>5, <3>2, <4>1
    <3>3. k = m + 1 \/ k \in 1 .. m
      OBVIOUS
    <3> QED BY <3>1, <3>2, <3>3
  <2>8. Upto(m + 1, g)
    BY <2>4, <2>7
  <2>9. m + 1 \in 0 .. n
    OBVIOUS
  <2> HIDE DEF Upto
  <2> QED BY <2>8, <2>9
<1>3. 0 .. n \subseteq T
  <2> HIDE DEF T
  <2> QED BY <1>1, <1>2, Induction
<1>4. n \in T
  <2>1. n \in 0 .. n
    OBVIOUS
  <2> HIDE DEF T
  <2> QED BY <1>3, <2>1
<1>5. PICK f : Upto(n, f)
  BY <1>4
<1> QED BY <1>5

LEMMA RecursionUnique ==
  ASSUME NEW n \in Nat, NEW f, NEW g, f[0] = g[0],
         \A k \in 1 .. n : f[k - 1] = g[k - 1] => f[k] = g[k]
  PROVE  \A k \in 0 .. n : f[k] = g[k]
<1> DEFINE T == {k \in 0 .. n : f[k] = g[k]}
<1>1. ASSUME NEW k \in 0 .. n - 1, k \in T PROVE k + 1 \in T
  <2>1. k + 1 \in 1 .. n /\ (k + 1) - 1 = k
    OBVIOUS
  <2> QED BY <1>1, <2>1
<1>2. 0 \in T
  OBVIOUS
<1>3. 0 .. n \subseteq T
  <2> HIDE DEF T
  <2> QED BY <1>1, <1>2, Induction
<1> QED BY <1>3

\* What Sum adds up to on the way
LEMMA SumIs ==
  ASSUME NEW q, Len(q) \in Nat, \A k \in 1 .. Len(q) : q[k] \in Int
  PROVE  \E f \in [0 .. Len(q) -> Int] :
           /\ f[0] = 0 /\ \A k \in 1 .. Len(q) : f[k] = f[k - 1] + q[k]
           /\ Sum(q) = f[Len(q)]
<1> DEFINE n == Len(q)
           Z == Int
           zero == 0
           step == [k \in 1 .. n |-> [v \in Z |-> v + q[k]]]
           Sums(f) == f = [k \in 0 .. n |-> IF k = 0 THEN 0 ELSE f[k - 1] + q[k]]
<1>1. step \in [1 .. n -> [Z -> Z]]
  OBVIOUS
<1>2. PICK f \in [0 .. n -> Z] : f[0] = zero /\ \A k \in 1 .. n : f[k] = step[k][f[k - 1]]
  <2>1. zero \in Z /\ n \in Nat
    OBVIOUS
  <2> HIDE DEF step, n, Z, zero
  <2> QED BY <1>1, <2>1, RecursionExists
<1>3. ASSUME NEW k \in 1 .. n PROVE f[k] = f[k - 1] + q[k]
  <2>1. k - 1 \in 0 .. n
    OBVIOUS
  <2>2. f[k - 1] \in Int
    BY <1>2, <2>1
  <2> QED BY <1>2, <2>2
<1>4. Sums(f)
  <2>1. f = [k \in 0 .. n |-> f[k]]
    BY <1>2
  <2>2. \A k \in 0 .. n : f[k] = IF k = 0 THEN 0 ELSE f[k - 1] + q[k]
    BY <1>2, <1>3
  <2> QED BY <2>1, <2>2
<1>5. Sum(q) = (CHOOSE g : Sums(g))[n]
  BY DEF Sum
<1>6. PICK g : g = CHOOSE h : Sums(h)
  OBVIOUS
<1>7. Sums(g)
  <2> HIDE DEF Sums
  <2> QED BY <1>4, <1>6
<1>8. g[0] = 0 /\ \A k \in 1 .. n : g[k] = g[k - 1] + q[k]
  BY <1>7
<1>9. g \in [0 .. n -> Int]
  <2> DEFINE T == {k \in 0 .. n : g[k] = f[k]}
  <2>1. 0 \in T
    BY <1>2, <1>8
  <2>2. ASSUME NEW k \in 0 .. n - 1, k \in T PROVE k + 1 \in T
    <3>1. k + 1 \in 1 .. n /\ (k + 1) - 1 = k
      OBVIOUS
    <3> QED BY <1>3, <1>8, <2>2, <3>1
  <2>3. 0 .. n \subseteq T
    <3> HIDE DEF T
    <3> QED BY <2>1, <2>2, Induction
  <2>4. \A k \in 0 .. n : g[k] = f[k]
    BY <2>3
  <2>5. g = [k \in 0 .. n |-> IF k = 0 THEN 0 ELSE g[k - 1] + q[k]]
    BY <1>7
  <2>6. \A k \in 0 .. n : g[k] \in Int
    BY <1>2, <2>4
  <2>7. g = [k \in 0 .. n |-> g[k]]
    BY <2>5
  <2> QED BY <2>6, <2>7
<1>10. Sum(q) = g[n]
  BY <1>5, <1>6
<1> QED BY <1>8, <1>9, <1>10

\* R is a strict order of S in which any two elements are comparable.
Orders(R, S) ==
  /\ \A x \in S : <<x, x>> \notin R
  /\ \A x, y, z \in S : <<x, y>> \in R /\ <<y, z>> \in R => <<x, z>> \in R
  /\ \A x, y \in S : x = y \/ <<x, y>> \in R \/ <<y, x>> \in R

\* The elements of S before x, and how many they are
Below(S, R, x) == {y \in S : <<y, x>> \in R}
Rank(S, R, x) == Cardinality(Below(S, R, x))

LEMMA RankType ==
  ASSUME NEW S, IsFiniteSet(S), NEW R, Orders(R, S), NEW x \in S
  PROVE  Rank(S, R, x) \in 0 .. Cardinality(S) - 1
<1>1. Below(S, R, x) \in SUBSET S /\ x \notin Below(S, R, x)
  BY DEF Below, Orders
<1>2. /\ IsFiniteSet(Below(S, R, x))
      /\ Cardinality(Below(S, R, x)) <= Cardinality(S)
      /\ Cardinality(S) = Cardinality(Below(S, R, x)) => S = Below(S, R, x)
  BY <1>1, FS_Subset
<1>3. Cardinality(S) \in Nat /\ Cardinality(Below(S, R, x)) \in Nat
  BY <1>2, FS_CardinalityType
<1>4. Cardinality(S) # Cardinality(Below(S, R, x))
  BY <1>1, <1>2
<1> QED BY <1>2, <1>3, <1>4 DEF Rank

LEMMA RankGrows ==
  ASSUME NEW S, IsFiniteSet(S), NEW R, Orders(R, S), NEW x \in S, NEW y \in S, <<x, y>> \in R
  PROVE  Rank(S, R, x) < Rank(S, R, y)
<1>1. /\ Below(S, R, x) \in SUBSET Below(S, R, y)
      /\ x \in Below(S, R, y) /\ x \notin Below(S, R, x)
  BY DEF Below, Orders
<1>2. IsFiniteSet(Below(S, R, y))
  <2>1. Below(S, R, y) \in SUBSET S
    BY DEF Below
  <2> QED BY <2>1, FS_Subset
<1>3. /\ IsFiniteSet(Below(S, R, x))
      /\ Cardinality(Below(S, R, x)) <= Cardinality(Below(S, R, y))
      /\ Cardinality(Below(S, R, y)) = Cardinality(Below(S, R, x))
           => Below(S, R, y) = Below(S, R, x)
  BY <1>1, <1>2, FS_Subset
<1>4. Cardinality(Below(S, R, x)) \in Nat /\ Cardinality(Below(S, R, y)) \in Nat
  BY <1>2, <1>3, FS_CardinalityType
<1>5. Cardinality(Below(S, R, x)) # Cardinality(Below(S, R, y))
  BY <1>1, <1>3
<1> QED BY <1>3, <1>4, <1>5 DEF Rank

LEMMA RankInjective ==
  ASSUME NEW S, IsFiniteSet(S), NEW R, Orders(R, S), NEW x \in S, NEW y \in S,
         Rank(S, R, x) = Rank(S, R, y)
  PROVE  x = y
<1>1. Rank(S, R, x) \in Int /\ Rank(S, R, y) \in Int
  BY RankType
<1>2. <<x, y>> \notin R
  BY <1>1, RankGrows
<1>3. <<y, x>> \notin R
  BY <1>1, RankGrows
<1> QED BY <1>2, <1>3 DEF Orders

\* There is an element of every rank.
LEMMA RankOnto ==
  ASSUME NEW S, IsFiniteSet(S), NEW R, Orders(R, S), NEW k \in 1 .. Cardinality(S)
  PROVE  \E x \in S : Rank(S, R, x) = k - 1
<1> DEFINE n == Cardinality(S)
           T == 0 .. n - 1
           rank == [x \in S |-> Rank(S, R, x)]
<1>1. n \in Nat
  BY FS_CardinalityType
<1>2. IsFiniteSet(T) /\ Cardinality(T) = n
  <2>1. 0 \in Int /\ n - 1 \in Int
    BY <1>1
  <2>2. IsFiniteSet(T) /\ Cardinality(T) = IF 0 > n - 1 THEN 0 ELSE (n - 1) - 0 + 1
    BY <2>1, FS_Interval
  <2> QED BY <1>1, <2>2
<1>3. rank \in [S -> T]
  BY RankType
<1>4. \A x, y \in S : rank[x] = rank[y] => x = y
  BY RankInjective
<1>5. rank \in Injection(S, T)
  BY <1>3, <1>4 DEF Injection, IsInjective
<1>6. rank \in Surjection(S, T)
  BY <1>2, <1>5, FS_Injection
<1>7. k - 1 \in T
  BY <1>1
<1>8. \E x \in S : rank[x] = k - 1
  BY <1>6, <1>7 DEF Surjection
<1> QED BY <1>8

\* Ordered(S, R) lists every element of S once, in the order R.
LEMMA OrderedLists ==
  ASSUME NEW S, IsFiniteSet(S), NEW R, Orders(R, S)
  PROVE  /\ Ordered(S, R) \in [1 .. Cardinality(S) -> S]
         /\ \A x \in S : \E k \in 1 .. Cardinality(S) : Ordered(S, R)[k] = x
         /\ \A i, j \in 1 .. Cardinality(S) :
              i < j <=> <<Ordered(S, R)[i], Ordered(S, R)[j]>> \in R
         /\ \A k \in 1 .. Cardinality(S) : Rank(S, R, Ordered(S, R)[k]) = k - 1
<1> DEFINE n == Cardinality(S)
           r == Ordered(S, R)
<1>1. n \in Nat
  BY FS_CardinalityType
<1>2. ASSUME NEW k \in 1 .. n PROVE r[k] \in S /\ Rank(S, R, r[k]) = k - 1
  <2>1. r[k] = CHOOSE x \in S : Rank(S, R, x) = k - 1
    BY DEF Ordered, Rank, Below
  <2> QED BY <2>1, RankOnto
<1>3. r \in [1 .. n -> S]
  <2> DEFINE ofRank(k) == CHOOSE x \in S : Rank(S, R, x) = k - 1
  <2>1. r = [k \in 1 .. n |-> ofRank(k)]
    BY DEF Ordered, Rank, Below
  <2> HIDE DEF r, ofRank
  <2> QED BY <1>2, <2>1
<1>4. ASSUME NEW x \in S PROVE \E k \in 1 .. n : r[k] = x
  <2>1. Rank(S, R, x) \in 0 .. n - 1
    BY RankType
  <2>2. Rank(S, R, x) + 1 \in 1 .. n /\ (Rank(S, R, x) + 1) - 1 = Rank(S, R, x)
    BY <1>1, <2>1
  <2>3. /\ r[Rank(S, R, x) + 1] \in S
        /\ Rank(S, R, r[Rank(S, R, x) + 1]) = Rank(S, R, x)
    BY <1>2, <2>2
  <2>4. r[Rank(S, R, x) + 1] = x
    BY <2>3, RankInjective
  <2> QED BY <2>2, <2>4
<1>5. ASSUME NEW i \in 1 .. n, NEW j \in 1 .. n PROVE i < j <=> <<r[i], r[j]>> \in R
  <2>1. /\ r[i] \in S /\ Rank(S, R, r[i]) = i - 1
        /\ r[j] \in S /\ Rank(S, R, r[j]) = j - 1
    BY <1>2
  <2> HIDE DEF r
  <2>2. <<r[i], r[j]>> \in R => i - 1 < j - 1
    BY <2>1, RankGrows
  <2>3. <<r[j], r[i]>> \in R => j - 1 < i - 1
    BY <2>1, RankGrows
  <2>4. r[i] = r[j] => i - 1 = j - 1
    BY <2>1
  <2>5. r[i] = r[j] \/ <<r[i], r[j]>> \in R \/ <<r[j], r[i]>> \in R
    BY <2>1 DEF Orders
  <2> QED BY <2>2, <2>3, <2>4, <2>5
<1> HIDE DEF r
<1>6. r = Ordered(S, R)
  BY DEF r
<1> QED BY <1>2, <1>3, <1>4, <1>5, <1>6

\* And what lists them so is Ordered(S, R).
LEMMA OrderedUnique ==
  ASSUME NEW S, NEW R, NEW n \in Nat, NEW f \in [1 .. n -> S],
         IsFiniteSet(S), Orders(R, S),
         \A x \in S : \E k \in 1 .. n : f[k] = x,
         \A i, j \in 1 .. n : i < j <=> <<f[i], f[j]>> \in R
  PROVE  n = Cardinality(S) /\ f = Ordered(S, R)
<1>1. ASSUME NEW i \in 1 .. n, NEW j \in 1 .. n, f[i] = f[j] PROVE i = j
  <2>1. f[i] \in S /\ f[j] \in S
    OBVIOUS
  <2>2. <<f[i], f[i]>> \notin R
    BY <2>1 DEF Orders
  <2>3. ~(i < j) /\ ~(j < i)
    BY <1>1, <2>2
  <2> QED BY <2>3
<1>2. ASSUME NEW m \in 0 .. n, NEW T, T = {f[i] : i \in 1 .. m} PROVE Cardinality(T) = m
  <2> DEFINE g == [i \in 1 .. m |-> f[i]]
  <2>1. \A i \in 1 .. m : i \in 1 .. n
    OBVIOUS
  <2>2. g \in [1 .. m -> T]
    BY <1>2
  <2>3. \A i, j \in 1 .. m : g[i] = g[j] => i = j
    BY <1>1, <2>1
  <2>4. \A y \in T : \E i \in 1 .. m : g[i] = y
    BY <1>2
  <2>5. g \in Bijection(1 .. m, T)
    <3> HIDE DEF g
    <3> QED BY <2>2, <2>3, <2>4 DEF Bijection, Injection, Surjection, IsInjective
  <2>6. ExistsBijection(1 .. m, T) /\ m \in Nat
    BY <2>5 DEF ExistsBijection
  <2> QED BY <2>6, FS_CountingElements
<1>3. S = {f[i] : i \in 1 .. n} /\ n \in 0 .. n
  OBVIOUS
<1>4. Cardinality(S) = n
  BY <1>2, <1>3
<1>5. ASSUME NEW k \in 1 .. n PROVE f[k] = Ordered(S, R)[k]
  <2>1. Below(S, R, f[k]) = {f[i] : i \in 1 .. k - 1}
    <3>1. ASSUME NEW y \in Below(S, R, f[k]) PROVE y \in {f[i] : i \in 1 .. k - 1}
      <4>1. y \in S /\ <<y, f[k]>> \in R
        BY DEF Below
      <4>2. PICK i \in 1 .. n : f[i] = y
        BY <4>1
      <4>3. i < k
        BY <4>1, <4>2
      <4>4. i \in 1 .. k - 1
        BY <4>3
      <4> QED BY <4>2, <4>4
    <3>2. ASSUME NEW i \in 1 .. k - 1 PROVE f[i] \in Below(S, R, f[k])
      <4>1. i \in 1 .. n /\ i < k
        OBVIOUS
      <4> QED BY <4>1 DEF Below
    <3> QED BY <3>1, <3>2
  <2>2. k - 1 \in 0 .. n
    OBVIOUS
  <2>3. Rank(S, R, f[k]) = k - 1
    BY <1>2, <2>1, <2>2 DEF Rank
  <2>4. Ordered(S, R)[k] \in S /\ Rank(S, R, Ordered(S, R)[k]) = k - 1
    <3>1. Ordered(S, R) \in [1 .. n -> S] /\ \A m \in 1 .. n : Rank(S, R, Ordered(S, R)[m]) = m - 1
      BY <1>4, OrderedLists
    <3> QED BY <3>1
  <2> QED BY <2>3, <2>4, RankInjective
<1>6. Ordered(S, R) \in [1 .. n -> S]
  BY <1>4, OrderedLists
<1>7. f = Ordered(S, R)
  BY <1>5, <1>6
<1> QED BY <1>4, <1>7

-------------------------------------------------------------------------------
(***************************************************************************)
(* Times, shifts in order                                                  *)
(***************************************************************************)

LEMMA Lengths == DayLength = 1440 /\ Hour = 60
BY DEF DayLength, Hour

\* ParseDateTime is the local time, an hour less before the clocks go back.
LEMMA ParseIs ==
  ASSUME NEW date \in Int, NEW minute \in Int
  PROVE  /\ ParseDateTime(date, minute) \in Int
         /\ ParseDateTime(date, minute)
              = IF date < ChangeDay \/ (date = ChangeDay /\ minute < 120)
                  THEN 1440 * date + minute - 60 ELSE 1440 * date + minute
<1>1. ChangeDay \in Nat
  BY ChangeIsSunday
<1> QED BY <1>1, Lengths DEF ParseDateTime

LEMMA ParseNatural ==
  ASSUME NEW date \in Nat \ {0}, NEW minute \in Nat
  PROVE  ParseDateTime(date, minute) \in Nat
<1>1. date \in Int /\ minute \in Int
  OBVIOUS
<1>2. \/ ParseDateTime(date, minute) = 1440 * date + minute - 60
      \/ ParseDateTime(date, minute) = 1440 * date + minute
  BY <1>1, ParseIs
<1> QED BY <1>2

LEMMA RowFields ==
  ASSUME NEW row \in ShiftRows
  PROVE  /\ row.date \in Nat \ {0} /\ row.driving \in Nat /\ row.breakMinutes \in Nat
         /\ row.start \in 0 .. 1439 /\ row.end \in 0 .. 1439
<1>1. /\ row.date \in Dates /\ row.driving \in Drivings /\ row.breakMinutes \in Breaks
      /\ row.start \in Starts /\ row.end \in Ends
  BY DEF ShiftRows
<1>2. row.date \in Nat \ {0} /\ row.driving \in Nat /\ row.breakMinutes \in Nat
  BY <1>1, ShiftInputs
<1>3. 0 .. DayLength - 1 = 0 .. 1439
  BY Lengths
<1>4. row.start \in 0 .. DayLength - 1 /\ row.end \in 0 .. DayLength - 1
  BY <1>1, ShiftInputs
<1> QED BY <1>2, <1>3, <1>4

LEMMA ShiftTimes ==
  ASSUME NEW row \in ShiftRows
  PROVE  /\ StartOf(row) \in Nat /\ EndOf(row) \in Nat
         /\ ComputeDuration(row).start = StartOf(row)
         /\ ComputeDuration(row).end = EndOf(row)
         /\ ComputeDuration(row).dutyMinutes = EndOf(row) - StartOf(row)
         /\ EndOf(row) = LET until == ParseDateTime(row.date, row.end)
                         IN IF until <= StartOf(row) THEN until + 1440 ELSE until
<1> DEFINE until == ParseDateTime(row.date, row.end)
<1>1. row.date \in Nat \ {0} /\ row.start \in 0 .. 1439 /\ row.end \in 0 .. 1439
  BY RowFields
<1>2. PICK d, m, e : d = row.date /\ m = row.start /\ e = row.end
  OBVIOUS
<1>3. StartOf(row) \in Nat /\ until \in Nat
  <2>1. d \in Nat \ {0} /\ m \in 0 .. 1439 /\ e \in 0 .. 1439
    BY <1>1, <1>2
  <2>2. ParseDateTime(d, m) \in Nat /\ ParseDateTime(d, e) \in Nat
    BY <2>1, ParseNatural
  <2> QED BY <1>2, <2>2 DEF StartOf
<1>4. EndOf(row) = IF until <= StartOf(row) THEN until + 1440 ELSE until
  BY Lengths DEF EndOf, ComputeDuration, StartOf
<1>5. /\ ComputeDuration(row).start = StartOf(row) /\ ComputeDuration(row).end = EndOf(row)
      /\ ComputeDuration(row).dutyMinutes = EndOf(row) - StartOf(row)
  BY DEF EndOf, ComputeDuration, StartOf
<1> HIDE DEF until
<1>6. EndOf(row) \in Nat
  BY <1>3, <1>4
<1> QED BY <1>3, <1>4, <1>5, <1>6 DEF until

LEMMA ShiftInts ==
  ASSUME NEW row \in ShiftRows
  PROVE  StartOf(row) \in Int /\ EndOf(row) \in Int
<1>1. StartOf(row) \in Nat /\ EndOf(row) \in Nat
  BY ShiftTimes
<1> QED BY <1>1

\* Before(s) orders any of the places of s.
LEMMA BeforeOrders ==
  ASSUME NEW s \in Seq(ShiftRows), NEW I \in SUBSET (1 .. Len(s))
  PROVE  IsFiniteSet(I) /\ Orders(Before(s), I)
<1>1. IsFiniteSet(I)
  <2>1. IsFiniteSet(1 .. Len(s))
    BY FS_Interval
  <2> QED BY <2>1, FS_Subset
<1>2. \A i \in I : i \in Int /\ i \in DOMAIN s /\ StartOf(s[i]) \in Int
  <2> TAKE i \in I
  <2>1. s[i] \in ShiftRows /\ i \in Int /\ i \in DOMAIN s
    OBVIOUS
  <2> QED BY <2>1, ShiftInts
<1>3. \A i, j \in I : <<i, j>> \in Before(s)
        <=> (StartOf(s[i]) < StartOf(s[j]) \/ (StartOf(s[i]) = StartOf(s[j]) /\ i < j))
  BY <1>2 DEF Before
<1>4. Orders(Before(s), I)
  BY <1>2, <1>3 DEF Orders
<1> QED BY <1>1, <1>4

LEMMA BeforeIs ==
  ASSUME NEW s \in Seq(ShiftRows), NEW i \in 1 .. Len(s), NEW j \in 1 .. Len(s)
  PROVE  <<i, j>> \in Before(s)
           <=> (StartOf(s[i]) < StartOf(s[j]) \/ (StartOf(s[i]) = StartOf(s[j]) /\ i < j))
BY DEF Before

\* The rows at the places I, sorted, by the places p they come from
LEMMA InOrderIs ==
  ASSUME NEW s \in Seq(ShiftRows), NEW I \in SUBSET (1 .. Len(s))
  PROVE  /\ Cardinality(I) \in Nat
         /\ InOrder(s, I) \in Seq(ShiftRows) /\ Len(InOrder(s, I)) = Cardinality(I)
         /\ \E p \in [1 .. Cardinality(I) -> I] :
              /\ \A i \in I : \E k \in 1 .. Cardinality(I) : p[k] = i
              /\ \A k, m \in 1 .. Cardinality(I) : k < m <=> <<p[k], p[m]>> \in Before(s)
              /\ \A k \in 1 .. Cardinality(I) : InOrder(s, I)[k] = s[p[k]]
              /\ p = Ordered(I, Before(s))
<1> DEFINE p == Ordered(I, Before(s))
           n == Cardinality(I)
<1>1. IsFiniteSet(I) /\ Orders(Before(s), I)
  BY BeforeOrders
<1>2. n \in Nat
  BY <1>1, FS_CardinalityType
<1>3. /\ p \in [1 .. n -> I]
      /\ \A i \in I : \E k \in 1 .. n : p[k] = i
      /\ \A k, m \in 1 .. n : k < m <=> <<p[k], p[m]>> \in Before(s)
  BY <1>1, OrderedLists
<1>4. InOrder(s, I) = [k \in DOMAIN p |-> s[p[k]]]
  BY DEF InOrder
<1> HIDE DEF p, n
<1>5. InOrder(s, I) = [k \in 1 .. n |-> s[p[k]]]
  BY <1>3, <1>4
<1>6. ASSUME NEW k \in 1 .. n PROVE s[p[k]] \in ShiftRows
  <2>1. p[k] \in 1 .. Len(s)
    BY <1>3
  <2> QED BY <2>1
<1>7. InOrder(s, I) \in Seq(ShiftRows) /\ Len(InOrder(s, I)) = n
  BY <1>2, <1>5, <1>6
<1>8. \A k \in 1 .. n : InOrder(s, I)[k] = s[p[k]]
  BY <1>5
<1> QED BY <1>2, <1>3, <1>7, <1>8 DEF p, n

\* The sorted rows are all the rows, with starts that do not decrease.
LEMMA SortedIs ==
  ASSUME NEW s \in Seq(ShiftRows)
  PROVE  /\ SortedShifts(s) \in Seq(ShiftRows) /\ Len(SortedShifts(s)) = Len(s)
         /\ \A k, m \in 1 .. Len(s) :
              k <= m => StartOf(SortedShifts(s)[k]) <= StartOf(SortedShifts(s)[m])
         /\ \A i \in 1 .. Len(s) : \E k \in 1 .. Len(s) : SortedShifts(s)[k] = s[i]
         /\ \A k \in 1 .. Len(s) : \E i \in 1 .. Len(s) : SortedShifts(s)[k] = s[i]
<1> DEFINE I == DOMAIN s
           n == Len(s)
           r == SortedShifts(s)
<1>1. I = 1 .. n /\ n \in Nat /\ r = InOrder(s, I)
  BY DEF SortedShifts
<1>2. Cardinality(I) = n
  <2>1. Cardinality(1 .. n) = IF 1 > n THEN 0 ELSE n - 1 + 1
    BY <1>1, FS_Interval
  <2> QED BY <1>1, <2>1
<1> HIDE DEF I, r
<1>3. I \in SUBSET (1 .. Len(s))
  BY <1>1
<1>4. r \in Seq(ShiftRows) /\ Len(r) = n
  BY <1>1, <1>2, <1>3, InOrderIs
<1>5. PICK p \in [1 .. n -> I] :
        /\ \A i \in I : \E k \in 1 .. n : p[k] = i
        /\ \A k, m \in 1 .. n : k < m <=> <<p[k], p[m]>> \in Before(s)
        /\ \A k \in 1 .. n : r[k] = s[p[k]]
  <2>1. \E p \in [1 .. Cardinality(I) -> I] :
              /\ \A i \in I : \E k \in 1 .. Cardinality(I) : p[k] = i
              /\ \A k, m \in 1 .. Cardinality(I) : k < m <=> <<p[k], p[m]>> \in Before(s)
              /\ \A k \in 1 .. Cardinality(I) : InOrder(s, I)[k] = s[p[k]]
    BY <1>3, InOrderIs
  <2>2. \E p \in [1 .. n -> I] :
              /\ \A i \in I : \E k \in 1 .. n : p[k] = i
              /\ \A k, m \in 1 .. n : k < m <=> <<p[k], p[m]>> \in Before(s)
              /\ \A k \in 1 .. n : InOrder(s, I)[k] = s[p[k]]
    BY <1>2, <2>1
  <2> QED BY <1>1, <2>2
<1>6. ASSUME NEW k \in 1 .. n, NEW m \in 1 .. n, k <= m PROVE StartOf(r[k]) <= StartOf(r[m])
  <2>1. r[k] \in ShiftRows /\ r[m] \in ShiftRows
    BY <1>4
  <2>2. StartOf(r[k]) \in Int /\ StartOf(r[m]) \in Int
    BY <2>1, ShiftInts
  <2>3. CASE k = m
    BY <2>2, <2>3
  <2>4. CASE k < m
    <3>1. <<p[k], p[m]>> \in Before(s) /\ p[k] \in 1 .. Len(s) /\ p[m] \in 1 .. Len(s)
      BY <1>1, <1>5, <2>4
    <3>2. StartOf(s[p[k]]) < StartOf(s[p[m]]) \/ StartOf(s[p[k]]) = StartOf(s[p[m]])
      BY <3>1, BeforeIs
    <3>3. r[k] = s[p[k]] /\ r[m] = s[p[m]]
      BY <1>5
    <3> QED BY <2>2, <3>2, <3>3
  <2> QED BY <1>6, <2>3, <2>4
<1>7. ASSUME NEW i \in 1 .. n PROVE \E k \in 1 .. n : r[k] = s[i]
  <2>1. PICK k \in 1 .. n : p[k] = i
    BY <1>1, <1>5
  <2>2. r[k] = s[p[k]]
    BY <1>5
  <2> QED BY <2>1, <2>2
<1>8. ASSUME NEW k \in 1 .. n PROVE \E i \in 1 .. n : r[k] = s[i]
  <2>1. r[k] = s[p[k]] /\ p[k] \in 1 .. n
    BY <1>1, <1>5
  <2> QED BY <2>1
<1> QED BY <1>4, <1>6, <1>7, <1>8 DEF r

\* A row that starts no earlier than the others is sorted to the end.
LEMMA SortedAppend ==
  ASSUME NEW s \in Seq(ShiftRows), NEW x \in ShiftRows,
         \A i \in 1 .. Len(s) : StartOf(s[i]) <= StartOf(x)
  PROVE  SortedShifts(Append(s, x)) = Append(SortedShifts(s), x)
<1> DEFINE n == Len(s)
           t == Append(s, x)
           I == 1 .. n
           J == 1 .. n + 1
<1>1. /\ t \in Seq(ShiftRows) /\ Len(t) = n + 1 /\ t[n + 1] = x /\ n \in Nat
      /\ \A i \in I : t[i] = s[i]
      /\ DOMAIN t = J /\ DOMAIN s = I
  OBVIOUS
<1>2. Cardinality(I) = n
  <2>1. Cardinality(1 .. n) = IF 1 > n THEN 0 ELSE n - 1 + 1
    BY FS_Interval
  <2> QED BY <2>1
<1>3. PICK p \in [1 .. n -> I] :
        /\ \A i \in I : \E k \in 1 .. n : p[k] = i
        /\ \A k, m \in 1 .. n : k < m <=> <<p[k], p[m]>> \in Before(s)
        /\ \A k \in 1 .. n : InOrder(s, I)[k] = s[p[k]]
  <2>1. I \in SUBSET (1 .. Len(s))
    OBVIOUS
  <2>2. \E p \in [1 .. Cardinality(I) -> I] :
              /\ \A i \in I : \E k \in 1 .. Cardinality(I) : p[k] = i
              /\ \A k, m \in 1 .. Cardinality(I) : k < m <=> <<p[k], p[m]>> \in Before(s)
              /\ \A k \in 1 .. Cardinality(I) : InOrder(s, I)[k] = s[p[k]]
    <3> HIDE DEF I
    <3> QED BY <2>1, InOrderIs
  <2> QED BY <1>2, <2>2
<1>4. /\ SortedShifts(s) \in Seq(ShiftRows) /\ Len(SortedShifts(s)) = n
      /\ \A k \in 1 .. n : SortedShifts(s)[k] = s[p[k]]
  BY <1>1, <1>3, SortedIs DEF SortedShifts
<1> DEFINE q == [k \in J |-> IF k = n + 1 THEN n + 1 ELSE p[k]]
<1>5. /\ q \in [J -> J] /\ q[n + 1] = n + 1 /\ n + 1 \in J
      /\ \A k \in I : k \in J /\ q[k] = p[k] /\ q[k] \in I
  <2>1. \A k \in I : k \in J /\ k # n + 1 /\ p[k] \in I /\ p[k] \in J
    BY <1>3
  <2>2. n + 1 \in J
    OBVIOUS
  <2>3. \A k \in J : k = n + 1 \/ k \in I
    OBVIOUS
  <2> HIDE DEF J, I
  <2> QED BY <2>1, <2>2, <2>3
<1>6. \A i \in J : i = n + 1 \/ i \in I
  OBVIOUS
<1> HIDE DEF t, q
<1>7. \A i \in J : \E k \in J : q[k] = i
  BY <1>3, <1>5, <1>6
<1>8. ASSUME NEW k \in J, NEW m \in J PROVE k < m <=> <<q[k], q[m]>> \in Before(t)
  <2>0. /\ q[k] \in 1 .. Len(t) /\ q[m] \in 1 .. Len(t)
    BY <1>1, <1>5
  <2>1. <<q[k], q[m]>> \in Before(t)
          <=> \/ StartOf(t[q[k]]) < StartOf(t[q[m]])
              \/ StartOf(t[q[k]]) = StartOf(t[q[m]]) /\ q[k] < q[m]
    BY <1>1, <2>0, BeforeIs
  <2>2. CASE k \in I /\ m \in I
    <3>1. p[k] \in 1 .. Len(s) /\ p[m] \in 1 .. Len(s) /\ t[p[k]] = s[p[k]] /\ t[p[m]] = s[p[m]]
      BY <1>1, <1>3, <2>2
    <3>2. <<p[k], p[m]>> \in Before(s)
            <=> \/ StartOf(s[p[k]]) < StartOf(s[p[m]])
                \/ StartOf(s[p[k]]) = StartOf(s[p[m]]) /\ p[k] < p[m]
      BY <3>1, BeforeIs
    <3>3. k < m <=> <<p[k], p[m]>> \in Before(s)
      BY <1>3, <2>2
    <3>4. q[k] = p[k] /\ q[m] = p[m]
      BY <1>5, <2>2
    <3> QED BY <2>1, <3>1, <3>2, <3>3, <3>4
  <2>3. CASE k \in I /\ m = n + 1
    <3>1. q[k] \in 1 .. n /\ t[q[k]] = s[q[k]] /\ q[m] = n + 1 /\ t[q[m]] = x
      BY <1>1, <1>5, <2>3
    <3>2. s[q[k]] \in ShiftRows
      BY <3>1
    <3>3. /\ StartOf(s[q[k]]) <= StartOf(x) /\ StartOf(s[q[k]]) \in Int /\ StartOf(x) \in Int
      BY <3>1, <3>2, ShiftInts
    <3> QED BY <2>1, <2>3, <3>1, <3>3
  <2>4. CASE k = n + 1 /\ m \in I
    <3>1. q[m] \in 1 .. n /\ t[q[m]] = s[q[m]] /\ q[k] = n + 1 /\ t[q[k]] = x
      BY <1>1, <1>5, <2>4
    <3>2. s[q[m]] \in ShiftRows
      BY <3>1
    <3>3. /\ StartOf(s[q[m]]) <= StartOf(x) /\ StartOf(s[q[m]]) \in Int /\ StartOf(x) \in Int
      BY <3>1, <3>2, ShiftInts
    <3> QED BY <2>1, <2>4, <3>1, <3>3
  <2>5. CASE k = n + 1 /\ m = n + 1
    <3>1. t[q[k]] = x /\ t[q[m]] = x /\ q[k] = n + 1 /\ q[m] = n + 1 /\ StartOf(x) \in Int
      BY <1>1, <1>5, <2>5, ShiftInts
    <3> QED BY <1>1, <2>1, <2>5, <3>1
  <2> QED BY <1>6, <2>2, <2>3, <2>4, <2>5
<1>9. IsFiniteSet(J) /\ Orders(Before(t), J)
  <2>1. J \in SUBSET (1 .. Len(t))
    BY <1>1
  <2> HIDE DEF J
  <2> QED BY <1>1, <2>1, BeforeOrders
<1>10. n + 1 = Cardinality(J) /\ q = Ordered(J, Before(t))
  <2> DEFINE N == n + 1
  <2>0. N \in Nat
    OBVIOUS
  <2>1. J = 1 .. N
    OBVIOUS
  <2> HIDE DEF J, N
  <2>2. q \in [1 .. N -> J]
    BY <1>5, <2>1
  <2>3. /\ \A i \in J : \E k \in 1 .. N : q[k] = i
        /\ \A k, m \in 1 .. N : k < m <=> <<q[k], q[m]>> \in Before(t)
    BY <1>7, <1>8, <2>1
  <2>4. N = Cardinality(J) /\ q = Ordered(J, Before(t))
    BY <1>9, <2>0, <2>2, <2>3, OrderedUnique
  <2> QED BY <2>4 DEF N
<1>11. SortedShifts(t) = [k \in DOMAIN q |-> t[q[k]]]
  BY <1>1, <1>10 DEF SortedShifts, InOrder
<1>12. SortedShifts(t) = [k \in J |-> t[q[k]]]
  BY <1>5, <1>11
<1>13. \A k \in I : t[q[k]] = SortedShifts(s)[k]
  BY <1>1, <1>4, <1>5
<1>14. t[q[n + 1]] = x
  BY <1>1, <1>5
<1>15. SortedShifts(t) \in Seq(ShiftRows) /\ Len(SortedShifts(t)) = n + 1
  BY <1>1, SortedIs
<1> DEFINE a == SortedShifts(t)
           b == Append(SortedShifts(s), x)
<1>16. /\ b \in Seq(ShiftRows) /\ Len(b) = n + 1 /\ b[n + 1] = x
       /\ \A k \in I : b[k] = SortedShifts(s)[k]
  BY <1>4
<1>17. \A k \in 1 .. n + 1 : a[k] = b[k]
  BY <1>5, <1>6, <1>12, <1>13, <1>14, <1>16
<1> HIDE DEF a, b
<1>18. a = b
  BY <1>15, <1>16, <1>17 DEF a
<1> QED BY <1>18 DEF a, b, t

-------------------------------------------------------------------------------
(***************************************************************************)
(* The loop of computeCompliance                                           *)
(***************************************************************************)

RestCodes == {"restBelowMinimum", "reducedRestBudgetExceeded"}
AlertCodes ==
  RestCodes \cup
  {"dailyDutyAbsoluteMaxExceeded", "longShiftOverThreshold", "longShiftBudgetExceeded",
   "drivingHardLimitExceeded", "extendedDrivingBudgetExceeded"}
Alerts == [code : AlertCodes, date : Nat]
Cycles == [reducedRest : Nat, extendedDriving : Nat, longShift : Nat,
           alerts : Seq(Alerts), prevEnd : Int]

\* Two cycles that differ in nothing but where the last shift ended
SameBut(c, d) ==
  /\ c.reducedRest = d.reducedRest /\ c.extendedDriving = d.extendedDriving
  /\ c.longShift = d.longShift /\ c.alerts = d.alerts

\* c's alerts are a's with others after them, none of a code of a rest.
AddsNoRest(a, c) ==
  /\ c.reducedRest = a.reducedRest
  /\ Len(c.alerts) >= Len(a.alerts)
  /\ \A k \in 1 .. Len(a.alerts) : c.alerts[k] = a.alerts[k]
  /\ \A k \in Len(a.alerts) + 1 .. Len(c.alerts) : c.alerts[k].code \notin RestCodes

LEMMA OpenType ==
  ASSUME NEW e \in Int
  PROVE  OpenCycle(e) \in Cycles
<1>1. <<>> \in Seq(Alerts)
  OBVIOUS
<1> QED BY <1>1 DEF OpenCycle, Cycles

LEMMA AlertIs ==
  ASSUME NEW c \in Cycles, NEW code \in AlertCodes, NEW date \in Nat
  PROVE  /\ Alert(c, code, date) \in Cycles
         /\ Alert(c, code, date).reducedRest = c.reducedRest
         /\ Alert(c, code, date).extendedDriving = c.extendedDriving
         /\ Alert(c, code, date).longShift = c.longShift
         /\ Alert(c, code, date).prevEnd = c.prevEnd
         /\ Alert(c, code, date).alerts = Append(c.alerts, [code |-> code, date |-> date])
<1>1. c.alerts \in Seq(Alerts) /\ [code |-> code, date |-> date] \in Alerts
  BY DEF Cycles, Alerts
<1>2. Append(c.alerts, [code |-> code, date |-> date]) \in Seq(Alerts)
  BY <1>1
<1> QED BY <1>2 DEF Alert, Cycles

LEMMA AddsItself ==
  ASSUME NEW a \in Cycles
  PROVE  AddsNoRest(a, a)
BY DEF AddsNoRest, Cycles

LEMMA AddsOne ==
  ASSUME NEW a \in Cycles, NEW c \in Cycles, NEW code \in AlertCodes, NEW date \in Nat,
         AddsNoRest(a, c), code \notin RestCodes
  PROVE  AddsNoRest(a, Alert(c, code, date))
<1> DEFINE x == [code |-> code, date |-> date]
           d == Alert(c, code, date)
           p == Len(a.alerts)
           q == Len(c.alerts)
<1>1. d.reducedRest = c.reducedRest /\ d.alerts = Append(c.alerts, x)
  BY AlertIs
<1>2. p \in Nat /\ q \in Nat /\ c.alerts \in Seq(Alerts) /\ x \in Alerts
  BY DEF Cycles, Alerts
<1>3. Len(d.alerts) = q + 1 /\ d.alerts[q + 1] = x /\ \A k \in 1 .. q : d.alerts[k] = c.alerts[k]
  BY <1>1, <1>2
<1>4. x.code = code
  OBVIOUS
<1>5. c.reducedRest = a.reducedRest /\ q >= p
  BY DEF AddsNoRest
<1>6. /\ \A k \in 1 .. p : c.alerts[k] = a.alerts[k]
      /\ \A k \in p + 1 .. q : c.alerts[k].code \notin RestCodes
  BY DEF AddsNoRest
<1> HIDE DEF d, x, p, q
<1>7. \A k \in 1 .. p : d.alerts[k] = a.alerts[k]
  BY <1>2, <1>3, <1>5, <1>6
<1>8. ASSUME NEW k \in p + 1 .. q + 1 PROVE d.alerts[k].code \notin RestCodes
  <2>1. CASE k = q + 1
    BY <1>3, <1>4, <2>1
  <2>2. CASE k \in p + 1 .. q
    <3>1. k \in 1 .. q
      BY <1>2, <2>2
    <3> QED BY <1>3, <1>6, <2>2, <3>1
  <2> QED BY <1>2, <2>1, <2>2
<1>9. d.reducedRest = a.reducedRest /\ Len(d.alerts) = q + 1 /\ q + 1 >= p
  BY <1>1, <1>2, <1>3, <1>5
<1> QED BY <1>7, <1>8, <1>9 DEF AddsNoRest, d, p, q

LEMMA ThresholdTypes ==
  /\ Rules.reducedRestMax \in Nat /\ Rules.extendedDrivingMax \in Nat /\ Rules.longShiftMax \in Nat
  /\ Rules.minRest \in Nat /\ Rules.reducedRestUpper \in Nat /\ Rules.cycleReset \in Nat
  /\ Rules.minRest <= Rules.reducedRestUpper /\ Rules.reducedRestUpper <= Rules.cycleReset
  /\ Rules.absoluteMaxDaily \in Nat /\ Rules.longShiftThreshold \in Nat
  /\ Rules.drivingHardLimit \in Nat /\ Rules.extendedDrivingThreshold \in Nat
BY RulesAreOrdered

LEMMA AfterDutyIs ==
  ASSUME NEW c \in Cycles, NEW duty \in Int, NEW date \in Nat
  PROVE  AfterDuty(c, duty, date) \in Cycles /\ AddsNoRest(c, AfterDuty(c, duty, date))
<1> DEFINE tooLong == AlertIf(c, duty > Rules.absoluteMaxDaily, "dailyDutyAbsoluteMaxExceeded", date)
           long == Alert(tooLong, "longShiftOverThreshold", date)
           counted == [long EXCEPT !.longShift = @ + 1]
           over == Alert(counted, "longShiftBudgetExceeded", date)
<1>0. /\ "dailyDutyAbsoluteMaxExceeded" \in AlertCodes
      /\ "dailyDutyAbsoluteMaxExceeded" \notin RestCodes
      /\ "longShiftOverThreshold" \in AlertCodes /\ "longShiftOverThreshold" \notin RestCodes
      /\ "longShiftBudgetExceeded" \in AlertCodes /\ "longShiftBudgetExceeded" \notin RestCodes
  BY DEF AlertCodes, RestCodes
<1>1. tooLong \in Cycles /\ AddsNoRest(c, tooLong)
  <2>1. CASE duty > Rules.absoluteMaxDaily
    <3>1. tooLong = Alert(c, "dailyDutyAbsoluteMaxExceeded", date)
      BY <2>1 DEF AlertIf
    <3> QED BY <1>0, <3>1, AddsItself, AddsOne, AlertIs
  <2>2. CASE ~(duty > Rules.absoluteMaxDaily)
    <3>1. tooLong = c
      BY <2>2 DEF AlertIf
    <3> QED BY <3>1, AddsItself
  <2> QED BY <2>1, <2>2
<1>2. AfterDuty(c, duty, date)
        = IF duty <= Rules.longShiftThreshold THEN tooLong
          ELSE IF c.longShift >= Rules.longShiftMax THEN over ELSE counted
  BY DEF AfterDuty, AlertIf
<1> HIDE DEF tooLong
<1>3. long \in Cycles /\ AddsNoRest(c, long)
  BY <1>0, <1>1, AddsOne, AlertIs
<1> HIDE DEF long
<1>4. counted \in Cycles /\ counted.reducedRest = long.reducedRest /\ counted.alerts = long.alerts
  BY <1>3 DEF Cycles
<1> HIDE DEF counted
<1>5. AddsNoRest(c, counted)
  BY <1>3, <1>4 DEF AddsNoRest
<1>6. over \in Cycles /\ AddsNoRest(c, over)
  BY <1>0, <1>4, <1>5, AddsOne, AlertIs
<1> HIDE DEF over
<1> QED BY <1>1, <1>2, <1>4, <1>5, <1>6

LEMMA AfterDrivingIs ==
  ASSUME NEW c \in Cycles, NEW driving \in Int, NEW date \in Nat
  PROVE  AfterDriving(c, driving, date) \in Cycles /\ AddsNoRest(c, AfterDriving(c, driving, date))
<1> DEFINE counted == [c EXCEPT !.extendedDriving = @ + 1]
           over == Alert(counted, "extendedDrivingBudgetExceeded", date)
           hard == Alert(c, "drivingHardLimitExceeded", date)
<1>0. /\ "extendedDrivingBudgetExceeded" \in AlertCodes
      /\ "extendedDrivingBudgetExceeded" \notin RestCodes
      /\ "drivingHardLimitExceeded" \in AlertCodes /\ "drivingHardLimitExceeded" \notin RestCodes
  BY DEF AlertCodes, RestCodes
<1>1. AfterDriving(c, driving, date) \in {c, counted, over, hard}
  BY DEF AfterDriving, AlertIf
<1>2. hard \in Cycles /\ AddsNoRest(c, hard)
  BY <1>0, AddsItself, AddsOne, AlertIs
<1>3. counted \in Cycles /\ counted.reducedRest = c.reducedRest /\ counted.alerts = c.alerts
  BY DEF Cycles
<1> HIDE DEF counted
<1>4. AddsNoRest(c, counted)
  BY <1>3, AddsItself DEF AddsNoRest
<1>5. over \in Cycles /\ AddsNoRest(c, over)
  BY <1>0, <1>3, <1>4, AddsOne, AlertIs
<1> HIDE DEF over, hard
<1> QED BY <1>1, <1>2, <1>3, <1>4, <1>5, AddsItself

\* The rest before the next shift
LEMMA AfterRestIs ==
  ASSUME NEW c \in Cycles, NEW gap \in Int, NEW date \in Nat
  PROVE  /\ AfterRest(c, gap, date) \in Cycles
         /\ gap >= Rules.cycleReset => AfterRest(c, gap, date) = OpenCycle(c.prevEnd)
         /\ gap < Rules.minRest => AfterRest(c, gap, date) = Alert(c, "restBelowMinimum", date)
         /\ (gap < Rules.cycleReset /\ gap >= Rules.reducedRestUpper)
              => AfterRest(c, gap, date) = c
         /\ (gap >= Rules.minRest /\ gap < Rules.reducedRestUpper)
              => LET counted == [c EXCEPT !.reducedRest = @ + 1]
                 IN /\ counted \in Cycles
                    /\ AfterRest(c, gap, date)
                         = IF c.reducedRest >= Rules.reducedRestMax
                             THEN Alert(counted, "reducedRestBudgetExceeded", date) ELSE counted
<1> DEFINE counted == [c EXCEPT !.reducedRest = @ + 1]
           over == Alert(counted, "reducedRestBudgetExceeded", date)
           below == Alert(c, "restBelowMinimum", date)
<1>1. AfterRest(c, gap, date)
        = IF gap >= Rules.cycleReset THEN OpenCycle(c.prevEnd)
          ELSE IF gap < Rules.minRest THEN below
          ELSE IF gap < Rules.reducedRestUpper
            THEN IF c.reducedRest >= Rules.reducedRestMax THEN over ELSE counted
          ELSE c
  <2> DEFINE alert == AlertIf(counted, c.reducedRest >= Rules.reducedRestMax,
                              "reducedRestBudgetExceeded", date)
  <2>1. AfterRest(c, gap, date)
          = CASE gap >= Rules.cycleReset      -> OpenCycle(c.prevEnd)
              [] gap < Rules.minRest          -> below
              [] gap \in Rules.minRest .. Rules.reducedRestUpper - 1 -> alert
              [] OTHER -> c
    BY DEF AfterRest
  <2>2. alert = IF c.reducedRest >= Rules.reducedRestMax THEN over ELSE counted
    BY DEF AlertIf
  <2> HIDE DEF alert, over, below, counted
  <2>3. gap >= Rules.cycleReset
          => ~(gap < Rules.minRest) /\ ~(gap \in Rules.minRest .. Rules.reducedRestUpper - 1)
    BY ThresholdTypes
  <2>4. /\ gap < Rules.minRest => ~(gap \in Rules.minRest .. Rules.reducedRestUpper - 1)
        /\ ~(gap < Rules.minRest)
             => (gap < Rules.reducedRestUpper
                   <=> gap \in Rules.minRest .. Rules.reducedRestUpper - 1)
    BY ThresholdTypes
  <2>5. CASE gap >= Rules.cycleReset
    BY <2>1, <2>3, <2>5
  <2>6. CASE gap < Rules.minRest
    BY <2>1, <2>3, <2>4, <2>6
  <2>7. CASE ~(gap >= Rules.cycleReset) /\ ~(gap < Rules.minRest) /\ gap < Rules.reducedRestUpper
    BY <2>1, <2>2, <2>4, <2>7
  <2>8. CASE ~(gap >= Rules.cycleReset) /\ ~(gap < Rules.minRest) /\ ~(gap < Rules.reducedRestUpper)
    BY <2>1, <2>4, <2>8
  <2> QED BY <2>5, <2>6, <2>7, <2>8
<1>2. counted \in Cycles
  BY DEF Cycles
<1>3. c.prevEnd \in Int
  BY DEF Cycles
<1> HIDE DEF counted
<1>4. over \in Cycles /\ below \in Cycles /\ OpenCycle(c.prevEnd) \in Cycles
  <2>1. "reducedRestBudgetExceeded" \in AlertCodes /\ "restBelowMinimum" \in AlertCodes
    BY DEF AlertCodes, RestCodes
  <2>2. OpenCycle(c.prevEnd) \in Cycles
    <3> PICK e : e = c.prevEnd
      OBVIOUS
    <3> QED BY <1>3, OpenType
  <2> QED BY <1>2, <2>1, <2>2, AlertIs
<1> HIDE DEF over, below
<1>5. AfterRest(c, gap, date) \in Cycles
  BY <1>1, <1>2, <1>4
<1>6. /\ gap >= Rules.cycleReset => AfterRest(c, gap, date) = OpenCycle(c.prevEnd)
      /\ gap < Rules.minRest => AfterRest(c, gap, date) = below
      /\ (gap < Rules.cycleReset /\ gap >= Rules.reducedRestUpper) => AfterRest(c, gap, date) = c
      /\ (gap >= Rules.minRest /\ gap < Rules.reducedRestUpper)
           => AfterRest(c, gap, date)
                = IF c.reducedRest >= Rules.reducedRestMax THEN over ELSE counted
  BY <1>1, ThresholdTypes
<1> QED BY <1>2, <1>5, <1>6 DEF counted, over, below

\* A shift: its rest, then its duty and its driving, which raise no alert of a rest.
Rested(c, shift) ==
  IF c.prevEnd = NoEnd THEN c ELSE AfterRest(c, StartOf(shift) - c.prevEnd, shift.date)
Worked(c, shift) ==
  AfterDriving(AfterDuty(c, EndOf(shift) - StartOf(shift), shift.date), shift.driving, shift.date)

LEMMA WorkedIs ==
  ASSUME NEW c \in Cycles, NEW shift \in ShiftRows
  PROVE  Worked(c, shift) \in Cycles /\ AddsNoRest(c, Worked(c, shift))
<1> PICK date, driving : date = shift.date /\ driving = shift.driving
  OBVIOUS
<1> DEFINE duty == EndOf(shift) - StartOf(shift)
           a == AfterDuty(c, duty, date)
           b == AfterDriving(a, driving, date)
<1>1. date \in Nat /\ driving \in Int /\ duty \in Int
  BY RowFields, ShiftInts
<1> HIDE DEF duty
<1>2. a \in Cycles /\ AddsNoRest(c, a)
  BY <1>1, AfterDutyIs
<1> HIDE DEF a
<1>3. b \in Cycles /\ AddsNoRest(a, b)
  BY <1>1, <1>2, AfterDrivingIs
<1>4. b = Worked(c, shift)
  BY DEF Worked, a, duty
<1> HIDE DEF b
<1>5. AddsNoRest(c, b)
  <2>1. Len(a.alerts) \in Nat /\ Len(b.alerts) \in Nat /\ Len(c.alerts) \in Nat
    BY <1>2, <1>3 DEF Cycles
  <2> QED BY <1>2, <1>3, <2>1 DEF AddsNoRest
<1> QED BY <1>3, <1>4, <1>5

LEMMA AfterShiftIs ==
  ASSUME NEW c \in Cycles, NEW shift \in ShiftRows
  PROVE  /\ Rested(c, shift) \in Cycles
         /\ AfterShift(c, shift) \in Cycles
         /\ AfterShift(c, shift) = [Worked(Rested(c, shift), shift) EXCEPT !.prevEnd = EndOf(shift)]
         /\ AfterShift(c, shift).prevEnd = EndOf(shift)
<1>1. Rested(c, shift) \in Cycles
  <2>1. CASE c.prevEnd = NoEnd
    BY <2>1 DEF Rested
  <2>2. CASE c.prevEnd # NoEnd
    <3> PICK date, gap : date = shift.date /\ gap = StartOf(shift) - c.prevEnd
      OBVIOUS
    <3>1. date \in Nat /\ gap \in Int
      BY RowFields, ShiftInts DEF Cycles
    <3>2. AfterRest(c, gap, date) \in Cycles
      BY <3>1, AfterRestIs
    <3> QED BY <2>2, <3>2 DEF Rested
  <2> QED BY <2>1, <2>2
<1>2. AfterShift(c, shift) = [Worked(Rested(c, shift), shift) EXCEPT !.prevEnd = EndOf(shift)]
  <2>1. /\ ComputeDuration(shift).start = StartOf(shift) /\ ComputeDuration(shift).end = EndOf(shift)
        /\ ComputeDuration(shift).dutyMinutes = EndOf(shift) - StartOf(shift)
    BY ShiftTimes
  <2> QED BY <2>1 DEF AfterShift, Worked, Rested
<1>3. Worked(Rested(c, shift), shift) \in Cycles /\ EndOf(shift) \in Int
  BY <1>1, WorkedIs, ShiftInts
<1> HIDE DEF Cycles
<1>4. AfterShift(c, shift) \in Cycles /\ AfterShift(c, shift).prevEnd = EndOf(shift)
  BY <1>2, <1>3 DEF Cycles
<1> QED BY <1>1, <1>2, <1>4

\* What the loop has found after each shift
LEMMA CycleFold ==
  ASSUME NEW s \in Seq(ShiftRows)
  PROVE  \E f \in [0 .. Len(s) -> Cycles] :
           /\ f[0] = OpenCycle(NoEnd)
           /\ \A k \in 1 .. Len(s) : f[k] = AfterShift(f[k - 1], s[k])
           /\ CycleAfter(s) = f[Len(s)]
<1> DEFINE n == Len(s)
           base == OpenCycle(NoEnd)
           step == [k \in 1 .. n |-> [c \in Cycles |-> AfterShift(c, s[k])]]
           Folds(f) == f = [k \in 0 .. n |-> IF k = 0 THEN base ELSE AfterShift(f[k - 1], s[k])]
<1>1. \A k \in 1 .. n : s[k] \in ShiftRows
  OBVIOUS
<1>2. base \in Cycles /\ n \in Nat
  BY OpenType DEF NoEnd
<1>3. step \in [1 .. n -> [Cycles -> Cycles]]
  <2>1. ASSUME NEW k \in 1 .. n, NEW c \in Cycles PROVE AfterShift(c, s[k]) \in Cycles
    <3>1. s[k] \in ShiftRows
      BY <1>1
    <3> QED BY <3>1, AfterShiftIs
  <2> QED BY <2>1
<1> HIDE DEF base
<1>4. PICK f \in [0 .. n -> Cycles] : f[0] = base /\ \A k \in 1 .. n : f[k] = step[k][f[k - 1]]
  <2> HIDE DEF step, n, Cycles
  <2> QED BY <1>2, <1>3, RecursionExists
<1>5. ASSUME NEW k \in 1 .. n PROVE f[k] = AfterShift(f[k - 1], s[k])
  <2>1. k - 1 \in 0 .. n
    OBVIOUS
  <2>2. f[k - 1] \in Cycles
    BY <1>4, <2>1
  <2> HIDE DEF Cycles
  <2> QED BY <1>4, <2>2
<1>6. Folds(f)
  <2>1. f = [k \in 0 .. n |-> f[k]]
    BY <1>4
  <2>2. \A k \in 0 .. n : f[k] = IF k = 0 THEN base ELSE AfterShift(f[k - 1], s[k])
    BY <1>4, <1>5
  <2> QED BY <2>1, <2>2
<1>7. CycleAfter(s) = (CHOOSE g : Folds(g))[n]
  BY DEF CycleAfter, base
<1>8. PICK g : g = CHOOSE h : Folds(h)
  OBVIOUS
<1>9. Folds(g)
  <2> HIDE DEF Folds
  <2> QED BY <1>6, <1>8
<1>10. g[0] = base /\ \A k \in 1 .. n : g[k] = AfterShift(g[k - 1], s[k])
  BY <1>9
<1>11. \A k \in 0 .. n : g[k] = f[k]
  <2> DEFINE T == {k \in 0 .. n : g[k] = f[k]}
  <2>1. 0 \in T
    BY <1>4, <1>10
  <2>2. ASSUME NEW k \in 0 .. n - 1, k \in T PROVE k + 1 \in T
    <3>1. k + 1 \in 1 .. n /\ (k + 1) - 1 = k
      OBVIOUS
    <3>2. g[k + 1] = AfterShift(g[k], s[k + 1]) /\ f[k + 1] = AfterShift(f[k], s[k + 1])
      BY <1>5, <1>10, <3>1
    <3>3. g[k] = f[k]
      BY <2>2
    <3> QED BY <3>1, <3>2, <3>3
  <2>3. 0 .. n \subseteq T
    <3> HIDE DEF T
    <3> QED BY <1>2, <2>1, <2>2, Induction
  <2> QED BY <2>3
<1>12. CycleAfter(s) = f[n]
  BY <1>7, <1>8, <1>11
<1>13. /\ f[0] = OpenCycle(NoEnd)
       /\ \A k \in 1 .. Len(s) : f[k] = AfterShift(f[k - 1], s[k])
       /\ CycleAfter(s) = f[Len(s)]
  BY <1>4, <1>5, <1>12 DEF base
<1> QED BY <1>4, <1>13

\* Without shifts, and with one more
LEMMA CycleEmpty ==
  CycleAfter(<<>>) = OpenCycle(NoEnd)
<1>1. <<>> \in Seq(ShiftRows) /\ Len(<<>>) = 0
  OBVIOUS
<1> PICK s : s = <<>>
  OBVIOUS
<1>2. s \in Seq(ShiftRows) /\ Len(s) = 0
  BY <1>1
<1>3. PICK f \in [0 .. Len(s) -> Cycles] : f[0] = OpenCycle(NoEnd) /\ CycleAfter(s) = f[Len(s)]
  BY <1>2, CycleFold
<1> QED BY <1>2, <1>3

LEMMA CycleAppend ==
  ASSUME NEW s \in Seq(ShiftRows), NEW x \in ShiftRows
  PROVE  /\ CycleAfter(s) \in Cycles
         /\ CycleAfter(Append(s, x)) = AfterShift(CycleAfter(s), x)
<1> DEFINE n == Len(s)
           t == Append(s, x)
<1>1. /\ t \in Seq(ShiftRows) /\ Len(t) = n + 1 /\ t[n + 1] = x /\ n \in Nat
      /\ \A k \in 1 .. n : t[k] = s[k]
  OBVIOUS
<1>2. PICK f \in [0 .. n -> Cycles] :
        /\ f[0] = OpenCycle(NoEnd)
        /\ \A k \in 1 .. n : f[k] = AfterShift(f[k - 1], s[k])
        /\ CycleAfter(s) = f[n]
  BY CycleFold
<1> HIDE DEF t, Cycles
<1>3. PICK g \in [0 .. n + 1 -> Cycles] :
        /\ g[0] = OpenCycle(NoEnd)
        /\ \A k \in 1 .. n + 1 : g[k] = AfterShift(g[k - 1], t[k])
        /\ CycleAfter(t) = g[n + 1]
  <2>1. \E g \in [0 .. Len(t) -> Cycles] :
           /\ g[0] = OpenCycle(NoEnd)
           /\ \A k \in 1 .. Len(t) : g[k] = AfterShift(g[k - 1], t[k])
           /\ CycleAfter(t) = g[Len(t)]
    BY <1>1, CycleFold
  <2> QED BY <1>1, <2>1
<1>4. \A k \in 0 .. n : g[k] = f[k]
  <2> DEFINE T == {k \in 0 .. n : g[k] = f[k]}
  <2>1. 0 \in T
    BY <1>2, <1>3
  <2>2. ASSUME NEW k \in 0 .. n - 1, k \in T PROVE k + 1 \in T
    <3>1. k + 1 \in 1 .. n /\ k + 1 \in 1 .. n + 1 /\ (k + 1) - 1 = k
      OBVIOUS
    <3>2. g[k + 1] = AfterShift(g[k], t[k + 1]) /\ f[k + 1] = AfterShift(f[k], s[k + 1])
      BY <1>2, <1>3, <3>1
    <3>3. g[k] = f[k] /\ t[k + 1] = s[k + 1]
      BY <1>1, <2>2, <3>1
    <3> QED BY <3>1, <3>2, <3>3
  <2>3. 0 .. n \subseteq T
    <3> HIDE DEF T
    <3> QED BY <1>1, <2>1, <2>2, Induction
  <2> QED BY <2>3
<1>5. n \in 0 .. n /\ n + 1 \in 1 .. n + 1 /\ (n + 1) - 1 = n
  BY <1>1
<1>6. g[n + 1] = AfterShift(g[n], t[n + 1]) /\ g[n] = f[n] /\ f[n] \in Cycles
  BY <1>2, <1>3, <1>4, <1>5
<1> QED BY <1>1, <1>2, <1>3, <1>6 DEF t

\* The loop ends with the end of the last shift.
LEMMA CycleEndsLast ==
  ASSUME NEW s \in Seq(ShiftRows), s # <<>>
  PROVE  CycleAfter(s) \in Cycles /\ CycleAfter(s).prevEnd = EndOf(Last(s))
<1> DEFINE n == Len(s)
<1>1. n \in Nat /\ n # 0 /\ s[n] \in ShiftRows /\ Last(s) = s[n]
  BY DEF Last
<1>2. PICK f \in [0 .. n -> Cycles] :
        /\ \A k \in 1 .. n : f[k] = AfterShift(f[k - 1], s[k])
        /\ CycleAfter(s) = f[n]
  BY CycleFold
<1>3. n \in 1 .. n /\ n - 1 \in 0 .. n
  BY <1>1
<1>4. f[n] = AfterShift(f[n - 1], s[n]) /\ f[n - 1] \in Cycles
  BY <1>2, <1>3
<1>5. AfterShift(f[n - 1], s[n]) \in Cycles /\ AfterShift(f[n - 1], s[n]).prevEnd = EndOf(s[n])
  <2> HIDE DEF Cycles
  <2> QED BY <1>1, <1>4, AfterShiftIs
<1> QED BY <1>1, <1>2, <1>4, <1>5

-------------------------------------------------------------------------------
(***************************************************************************)
(* The book                                                                *)
(***************************************************************************)

LEMMA MaxIs ==
  ASSUME NEW S, NEW m \in S, S \subseteq Int, \A x \in S : x <= m
  PROVE  Max(S) = m
<1>1. \E x \in S : \A y \in S : x >= y
  OBVIOUS
<1>2. PICK x : x = Max(S)
  OBVIOUS
<1>3. x \in S /\ \A y \in S : x >= y
  BY <1>1, <1>2 DEF Max
<1> QED BY <1>2, <1>3

LEMMA MinIs ==
  ASSUME NEW S, NEW m \in S, S \subseteq Int, \A x \in S : m <= x
  PROVE  Min(S) = m
<1>1. \E x \in S : \A y \in S : x <= y
  OBVIOUS
<1>2. PICK x : x = Min(S)
  OBVIOUS
<1>3. x \in S /\ \A y \in S : x <= y
  BY <1>1, <1>2 DEF Min
<1> QED BY <1>2, <1>3

LEMMA LeastInstant ==
  Min(Instants) \in Instants
<1>1. Instants \subseteq Nat /\ Instants # {}
  BY HoursBounds
<1>2. PICK m \in Instants : \A k \in Instants : m <= k
  BY <1>1, LeastNatural
<1>3. Instants \subseteq Int
  BY <1>1
<1>4. Min(Instants) = m
  BY <1>2, <1>3, MinIs
<1> QED BY <1>4

\* The book holds rows, and no more than it may.
THEOREM TypeCorrect == Spec => []TypeOK
<1>1. Init => TypeOK
  <2> SUFFICES ASSUME Init PROVE TypeOK
    OBVIOUS
  <2>1. shifts \in Seq(ShiftRows) /\ Len(shifts) = 0
    BY DEF Init
  <2>2. MaxShifts \in Nat /\ now \in Instants
    BY HoursBounds, LeastInstant DEF Init
  <2> QED BY <2>1, <2>2 DEF TypeOK
<1>2. TypeOK /\ [Next]_vars => TypeOK'
  <2> SUFFICES ASSUME TypeOK, [Next]_vars PROVE TypeOK'
    OBVIOUS
  <2> USE DEF TypeOK
  <2>1. MaxShifts \in Nat /\ Len(shifts) \in Nat
    BY HoursBounds
  <2>2. CASE LogShift
    <3>1. PICK row \in ShiftRows : shifts' = Append(shifts, row)
      BY <2>2 DEF LogShift
    <3>2. shifts' \in Seq(ShiftRows) /\ Len(shifts') = Len(shifts) + 1
      BY <3>1
    <3> QED BY <2>1, <2>2, <3>2 DEF LogShift
  <2>3. CASE EditShift
    <3>1. PICK i \in DOMAIN shifts, row \in ShiftRows : shifts' = [shifts EXCEPT ![i] = row]
      BY <2>3 DEF EditShift
    <3>2. shifts' \in Seq(ShiftRows) /\ Len(shifts') = Len(shifts)
      BY <3>1
    <3> QED BY <2>1, <2>3, <3>2 DEF EditShift
  <2>4. CASE DeleteShift
    <3>1. PICK i \in DOMAIN shifts : shifts' = RemoveAt(shifts, i)
      BY <2>4 DEF DeleteShift
    <3>2. shifts' \in Seq(ShiftRows) /\ Len(shifts') <= Len(shifts)
      BY <3>1 DEF RemoveAt
    <3> QED BY <2>1, <2>4, <3>2 DEF DeleteShift
  <2>5. CASE TimePasses
    BY <2>5 DEF TimePasses
  <2>6. CASE UNCHANGED vars
    BY <2>6 DEF vars
  <2> QED BY <2>2, <2>3, <2>4, <2>5, <2>6 DEF Next
<1> QED BY <1>1, <1>2, PTL DEF Spec

\* The last of shifts that follow one another ends last.
LEMMA LastEndIs ==
  ASSUME NEW s \in Seq(ShiftRows), s # <<>>, Sequential(s)
  PROVE  /\ SortedShifts(s) \in Seq(ShiftRows) /\ SortedShifts(s) # <<>>
         /\ LastShiftEnd(s) = EndOf(Last(SortedShifts(s)))
         /\ LastShiftEnd(s) \in Nat
         /\ \A i \in 1 .. Len(s) : StartOf(s[i]) <= LastShiftEnd(s)
<1> DEFINE n == Len(s)
           r == SortedShifts(s)
           Ends_ == {EndOf(s[i]) : i \in DOMAIN s}
<1>1. n \in Nat /\ n # 0 /\ DOMAIN s = 1 .. n /\ n \in 1 .. n
  OBVIOUS
<1>2. /\ r \in Seq(ShiftRows) /\ Len(r) = n
      /\ \A i \in 1 .. n : \E k \in 1 .. n : r[k] = s[i]
      /\ \A k \in 1 .. n : \E i \in 1 .. n : r[k] = s[i]
  BY SortedIs
<1>3. /\ \A i \in 1 .. n : StartOf(s[i]) < EndOf(s[i])
      /\ \A k \in 1 .. n - 1 : EndOf(r[k]) <= StartOf(r[k + 1])
  BY <1>1, <1>2 DEF Sequential
<1> HIDE DEF r
<1>4. \A k \in 1 .. n : r[k] \in ShiftRows
  BY <1>2
<1>5. \A k \in 1 .. n : /\ StartOf(r[k]) \in Int /\ EndOf(r[k]) \in Int /\ EndOf(r[k]) \in Nat
                        /\ StartOf(r[k]) < EndOf(r[k])
  <2> TAKE k \in 1 .. n
  <2>1. PICK i \in 1 .. n : r[k] = s[i]
    BY <1>2
  <2>2. r[k] \in ShiftRows
    BY <1>4
  <2>3. StartOf(r[k]) \in Int /\ EndOf(r[k]) \in Int /\ EndOf(r[k]) \in Nat
    BY <2>2, ShiftInts, ShiftTimes
  <2>4. StartOf(s[i]) < EndOf(s[i])
    BY <1>3
  <2> QED BY <2>1, <2>3, <2>4
<1>6. \A k \in 0 .. n : k < n => EndOf(r[n - k]) <= EndOf(r[n])
  <2> DEFINE T == {k \in 0 .. n : k < n => EndOf(r[n - k]) <= EndOf(r[n])}
  <2>1. 0 \in T
    BY <1>1, <1>5
  <2>2. ASSUME NEW k \in 0 .. n - 1, k \in T PROVE k + 1 \in T
    <3>0. k + 1 \in 0 .. n /\ (k + 1 = n \/ k + 1 < n)
      <4>1. n \in Nat /\ k \in Nat /\ k <= n - 1
        BY <1>1
      <4> HIDE DEF n
      <4> QED BY <4>1
    <3>1. CASE k + 1 = n
      <4>1. ~(k + 1 < n)
        BY <1>1, <3>1
      <4> QED BY <3>0, <4>1
    <3>2. CASE k + 1 < n
      <4>1. n - k \in 1 .. n /\ n - (k + 1) \in 1 .. n - 1 /\ n - (k + 1) + 1 = n - k
            /\ n - (k + 1) \in 1 .. n /\ k < n
        BY <1>1, <3>2
      <4>2. EndOf(r[n - (k + 1)]) <= StartOf(r[n - k])
        BY <1>3, <4>1
      <4>3. EndOf(r[n - k]) <= EndOf(r[n])
        BY <2>2, <4>1
      <4>4. StartOf(r[n - k]) < EndOf(r[n - k])
        BY <1>5, <4>1
      <4>5. /\ EndOf(r[n - (k + 1)]) \in Int /\ StartOf(r[n - k]) \in Int
            /\ EndOf(r[n - k]) \in Int /\ EndOf(r[n]) \in Int
        BY <1>1, <1>5, <4>1
      <4>6. EndOf(r[n - (k + 1)]) <= EndOf(r[n])
        BY <4>2, <4>3, <4>4, <4>5
      <4> QED BY <3>0, <4>6
    <3> QED BY <3>0, <3>1, <3>2
  <2>3. 0 .. n \subseteq T
    <3> HIDE DEF T
    <3> QED BY <1>1, <2>1, <2>2, Induction
  <2> QED BY <2>3
<1>7. \A k \in 1 .. n : EndOf(r[k]) <= EndOf(r[n])
  <2> TAKE k \in 1 .. n
  <2>1. n - k \in 0 .. n /\ n - k < n /\ n - (n - k) = k
    BY <1>1
  <2> QED BY <1>6, <2>1
<1>8. \A i \in 1 .. n : /\ EndOf(s[i]) <= EndOf(r[n]) /\ EndOf(s[i]) \in Int
                        /\ StartOf(s[i]) \in Int /\ StartOf(s[i]) < EndOf(s[i])
  <2> TAKE i \in 1 .. n
  <2>1. PICK k \in 1 .. n : r[k] = s[i]
    BY <1>2
  <2> QED BY <1>5, <1>7, <2>1
<1>9. EndOf(r[n]) \in Ends_
  <2>1. PICK i \in 1 .. n : r[n] = s[i]
    BY <1>1, <1>2
  <2> QED BY <1>1, <2>1
<1>10. Ends_ \subseteq Int /\ \A x \in Ends_ : x <= EndOf(r[n])
  BY <1>1, <1>8
<1>11. LastShiftEnd(s) = EndOf(r[n])
  <2>1. LastShiftEnd(s) = Max(Ends_)
    BY DEF LastShiftEnd
  <2> HIDE DEF Ends_
  <2> QED BY <1>9, <1>10, <2>1, MaxIs
<1>12. Last(r) = r[n] /\ r # <<>> /\ EndOf(r[n]) \in Nat
  BY <1>1, <1>2, <1>5 DEF Last
<1>13. \A i \in 1 .. n : StartOf(s[i]) <= EndOf(r[n])
  <2>1. EndOf(r[n]) \in Int
    BY <1>1, <1>5
  <2> TAKE i \in 1 .. n
  <2>2. /\ EndOf(s[i]) <= EndOf(r[n]) /\ EndOf(s[i]) \in Int
        /\ StartOf(s[i]) \in Int /\ StartOf(s[i]) < EndOf(s[i])
    BY <1>8
  <2> QED BY <2>1, <2>2
<1> QED BY <1>2, <1>11, <1>12, <1>13 DEF r

-------------------------------------------------------------------------------
(***************************************************************************)
(* A rest that is still going on                                           *)
(***************************************************************************)

LEMMA AlertSame ==
  ASSUME NEW c \in Cycles, NEW d \in Cycles, SameBut(c, d), NEW code \in AlertCodes, NEW date \in Nat
  PROVE  SameBut(Alert(c, code, date), Alert(d, code, date))
<1>1. /\ Alert(c, code, date).reducedRest = c.reducedRest
      /\ Alert(c, code, date).extendedDriving = c.extendedDriving
      /\ Alert(c, code, date).longShift = c.longShift
      /\ Alert(c, code, date).alerts = Append(c.alerts, [code |-> code, date |-> date])
  BY AlertIs
<1>2. /\ Alert(d, code, date).reducedRest = d.reducedRest
      /\ Alert(d, code, date).extendedDriving = d.extendedDriving
      /\ Alert(d, code, date).longShift = d.longShift
      /\ Alert(d, code, date).alerts = Append(d.alerts, [code |-> code, date |-> date])
  BY AlertIs
<1> QED BY <1>1, <1>2 DEF SameBut

LEMMA LongCounted ==
  ASSUME NEW x \in Cycles
  PROVE  [x EXCEPT !.longShift = @ + 1] \in Cycles
<1>1. x.longShift + 1 \in Nat
  BY DEF Cycles
<1> QED BY <1>1 DEF Cycles

LEMMA DutySame ==
  ASSUME NEW c \in Cycles, NEW d \in Cycles, SameBut(c, d), NEW duty \in Int, NEW date \in Nat
  PROVE  SameBut(AfterDuty(c, duty, date), AfterDuty(d, duty, date))
<1> DEFINE tooLong(x) == AlertIf(x, duty > Rules.absoluteMaxDaily, "dailyDutyAbsoluteMaxExceeded", date)
           long(x) == Alert(tooLong(x), "longShiftOverThreshold", date)
           counted(x) == [long(x) EXCEPT !.longShift = @ + 1]
           over(x) == Alert(counted(x), "longShiftBudgetExceeded", date)
<1>0. /\ "dailyDutyAbsoluteMaxExceeded" \in AlertCodes
      /\ "longShiftOverThreshold" \in AlertCodes
      /\ "longShiftBudgetExceeded" \in AlertCodes
  BY DEF AlertCodes
<1>1. \A x \in Cycles : tooLong(x) \in Cycles
  BY <1>0, AlertIs DEF AlertIf
<1>2. SameBut(tooLong(c), tooLong(d))
  <2>1. CASE duty > Rules.absoluteMaxDaily
    <3>1. /\ tooLong(c) = Alert(c, "dailyDutyAbsoluteMaxExceeded", date)
          /\ tooLong(d) = Alert(d, "dailyDutyAbsoluteMaxExceeded", date)
      BY <2>1 DEF AlertIf
    <3> QED BY <1>0, <3>1, AlertSame
  <2>2. CASE ~(duty > Rules.absoluteMaxDaily)
    BY <2>2 DEF AlertIf
  <2> QED BY <2>1, <2>2
<1>3. \A x \in Cycles :
        AfterDuty(x, duty, date)
          = IF duty <= Rules.longShiftThreshold THEN tooLong(x)
            ELSE IF x.longShift >= Rules.longShiftMax THEN over(x) ELSE counted(x)
  BY DEF AfterDuty, AlertIf
<1> HIDE DEF tooLong
<1>4. SameBut(long(c), long(d)) /\ long(c) \in Cycles /\ long(d) \in Cycles
  BY <1>0, <1>1, <1>2, AlertSame, AlertIs
<1> HIDE DEF long
<1>5. SameBut(counted(c), counted(d)) /\ counted(c) \in Cycles /\ counted(d) \in Cycles
  <2>1. \A x \in Cycles : [x EXCEPT !.longShift = @ + 1] \in Cycles
    BY LongCounted
  <2>2. \A x, y \in Cycles :
          SameBut(x, y) => SameBut([x EXCEPT !.longShift = @ + 1], [y EXCEPT !.longShift = @ + 1])
    BY DEF SameBut, Cycles
  <2> HIDE DEF Cycles, SameBut
  <2> QED BY <1>4, <2>1, <2>2
<1> HIDE DEF counted
<1>6. SameBut(over(c), over(d))
  BY <1>0, <1>5, AlertSame
<1> HIDE DEF over
<1>7. c.longShift = d.longShift
  BY DEF SameBut
<1> QED BY <1>2, <1>3, <1>5, <1>6, <1>7

LEMMA DrivingSame ==
  ASSUME NEW c \in Cycles, NEW d \in Cycles, SameBut(c, d), NEW driving \in Int, NEW date \in Nat
  PROVE  SameBut(AfterDriving(c, driving, date), AfterDriving(d, driving, date))
<1> DEFINE counted(x) == [x EXCEPT !.extendedDriving = @ + 1]
           over(x) == Alert(counted(x), "extendedDrivingBudgetExceeded", date)
           hard(x) == Alert(x, "drivingHardLimitExceeded", date)
           extended == driving \in Rules.extendedDrivingThreshold + 1 .. Rules.drivingHardLimit
<1>0. "extendedDrivingBudgetExceeded" \in AlertCodes /\ "drivingHardLimitExceeded" \in AlertCodes
  BY DEF AlertCodes
<1>1. \A x \in Cycles :
        AfterDriving(x, driving, date)
          = IF driving > Rules.drivingHardLimit THEN hard(x)
            ELSE IF extended
              THEN IF x.extendedDriving >= Rules.extendedDrivingMax THEN over(x) ELSE counted(x)
            ELSE x
  <2>1. driving > Rules.drivingHardLimit => ~extended
    BY ThresholdTypes
  <2> TAKE x \in Cycles
  <2> DEFINE alert == AlertIf(counted(x), x.extendedDriving >= Rules.extendedDrivingMax,
                              "extendedDrivingBudgetExceeded", date)
  <2>2. AfterDriving(x, driving, date)
          = CASE driving > Rules.drivingHardLimit -> hard(x) [] extended -> alert [] OTHER -> x
    BY DEF AfterDriving
  <2>3. alert = IF x.extendedDriving >= Rules.extendedDrivingMax THEN over(x) ELSE counted(x)
    BY DEF AlertIf
  <2> HIDE DEF alert, extended, hard, over, counted
  <2> QED BY <2>1, <2>2, <2>3
<1> HIDE DEF extended
<1>2. SameBut(hard(c), hard(d))
  BY <1>0, AlertSame
<1>3. SameBut(counted(c), counted(d)) /\ counted(c) \in Cycles /\ counted(d) \in Cycles
  BY DEF SameBut, Cycles
<1> HIDE DEF counted
<1>4. SameBut(over(c), over(d))
  BY <1>0, <1>3, AlertSame
<1> HIDE DEF over, hard
<1>5. c.extendedDriving = d.extendedDriving
  BY DEF SameBut
<1> QED BY <1>1, <1>2, <1>3, <1>4, <1>5

LEMMA WorkedSame ==
  ASSUME NEW c \in Cycles, NEW d \in Cycles, SameBut(c, d), NEW shift \in ShiftRows
  PROVE  SameBut(Worked(c, shift), Worked(d, shift))
<1> PICK date, driving : date = shift.date /\ driving = shift.driving
  OBVIOUS
<1> DEFINE duty == EndOf(shift) - StartOf(shift)
           a(x) == AfterDuty(x, duty, date)
<1>1. date \in Nat /\ driving \in Int /\ duty \in Int
  BY RowFields, ShiftInts
<1> HIDE DEF duty
<1>2. a(c) \in Cycles /\ a(d) \in Cycles /\ SameBut(a(c), a(d))
  BY <1>1, AfterDutyIs, DutySame
<1> HIDE DEF a
<1>3. SameBut(AfterDriving(a(c), driving, date), AfterDriving(a(d), driving, date))
  BY <1>1, <1>2, DrivingSame
<1> QED BY <1>3 DEF Worked, a, duty

LEMMA ComplianceSame ==
  ASSUME NEW s, NEW t, SameBut(CycleAfter(s), CycleAfter(t))
  PROVE  ComputeCompliance(s) = ComputeCompliance(t)
BY DEF ComputeCompliance, SameBut

\* After a rest that closes the cycle a shift is judged on its own.
LEMMA ClosedCycle ==
  ASSUME NEW s \in Seq(ShiftRows), s # <<>>, NEW row \in ShiftRows,
         StartOf(row) - EndOf(Last(s)) >= Rules.cycleReset
  PROVE  ComputeCompliance(Append(s, row)) = ComputeCompliance(<<row>>)
<1> DEFINE c == CycleAfter(s)
           e == EndOf(Last(s))
           open == OpenCycle(NoEnd)
<1>1. c \in Cycles /\ c.prevEnd = e
  BY CycleEndsLast
<1>2. e \in Nat
  <2>1. Last(s) \in ShiftRows
    BY DEF Last
  <2> QED BY <2>1, ShiftTimes
<1>3. CycleAfter(Append(s, row)) = AfterShift(c, row)
  BY CycleAppend
<1>4. CycleAfter(<<row>>) = AfterShift(open, row)
  <2>1. PICK z : z = <<>>
    OBVIOUS
  <2>2. z \in Seq(ShiftRows) /\ Append(z, row) = <<row>>
    BY <2>1
  <2>3. CycleAfter(Append(z, row)) = AfterShift(CycleAfter(z), row)
    BY <2>2, CycleAppend
  <2> QED BY <2>1, <2>2, <2>3, CycleEmpty
<1> HIDE DEF c
<1>5. Rested(c, row) = OpenCycle(e)
  <2>1. c.prevEnd # NoEnd
    BY <1>1, <1>2 DEF NoEnd
  <2> PICK date, gap : date = row.date /\ gap = StartOf(row) - e
    OBVIOUS
  <2>2. date \in Nat /\ gap \in Int /\ gap >= Rules.cycleReset
    BY <1>2, RowFields, ShiftInts
  <2> HIDE DEF e
  <2>3. AfterRest(c, gap, date) = OpenCycle(c.prevEnd)
    BY <1>1, <2>2, AfterRestIs
  <2> QED BY <1>1, <2>1, <2>3 DEF Rested
<1>6. Rested(open, row) = open
  BY DEF Rested, OpenCycle
<1>7. OpenCycle(e) \in Cycles /\ open \in Cycles /\ SameBut(OpenCycle(e), open)
  <2>1. e \in Int /\ NoEnd \in Int
    BY <1>2 DEF NoEnd
  <2> HIDE DEF e
  <2>2. OpenCycle(e) \in Cycles /\ open \in Cycles
    BY <2>1, OpenType
  <2> QED BY <2>2 DEF SameBut, OpenCycle
<1> HIDE DEF open, e
<1> DEFINE a == Worked(OpenCycle(e), row)
           b == Worked(open, row)
<1>8. SameBut(a, b) /\ a \in Cycles /\ b \in Cycles
  BY <1>7, WorkedSame, WorkedIs
<1>9. /\ AfterShift(c, row) = [a EXCEPT !.prevEnd = EndOf(row)]
      /\ AfterShift(open, row) = [b EXCEPT !.prevEnd = EndOf(row)]
  BY <1>1, <1>5, <1>6, <1>7, AfterShiftIs
<1> HIDE DEF a, b
<1>10. SameBut(AfterShift(c, row), AfterShift(open, row))
  BY <1>8, <1>9 DEF SameBut, Cycles
<1> QED BY <1>3, <1>4, <1>10, ComplianceSame

LEMMA NoAlerts ==
  ComputeCompliance(<<>>).alerts = <<>>
BY CycleEmpty DEF ComputeCompliance, OpenCycle

\* A rest that is still going on closes the cycle just as it will once the next shift is
\* logged, whatever that shift is; the roll-up, which does not look at the clock, never
\* misses an alert the driver sees.
THEOREM RestClosesTheCycleHolds == Spec => []RestClosesTheCycle
<1>1. TypeOK => RestClosesTheCycle
  <2> SUFFICES ASSUME TypeOK PROVE RestClosesTheCycle
    OBVIOUS
  <2>1. shifts \in Seq(ShiftRows) /\ now \in Nat
    BY HoursBounds DEF TypeOK
  <2>2. ASSUME NEW row \in ShiftRows, shifts # <<>>, Sequential(shifts),
               now - LastShiftEnd(shifts) >= Rules.cycleReset, StartOf(row) >= now
        PROVE  /\ ComputeCompliance(Append(SortedShifts(shifts), row)) = ComputeCompliance(<<row>>)
               /\ Compliance(shifts, now) = ComputeCompliance(<<>>)
    <3> DEFINE r == SortedShifts(shifts)
               e == EndOf(Last(r))
    <3>1. r \in Seq(ShiftRows) /\ r # <<>> /\ LastShiftEnd(shifts) = e /\ e \in Nat
      <4>1. LastShiftEnd(shifts) \in Nat
        BY <2>1, <2>2, LastEndIs
      <4> QED BY <2>1, <2>2, <4>1, LastEndIs
    <3> HIDE DEF r
    <3>2. StartOf(row) - e >= Rules.cycleReset
      <4>1. StartOf(row) \in Int /\ e \in Int /\ Rules.cycleReset \in Int /\ now \in Int
        BY <2>1, <3>1, ShiftInts, ThresholdTypes
      <4> QED BY <2>2, <3>1, <4>1
    <3>3. ComputeCompliance(Append(r, row)) = ComputeCompliance(<<row>>)
      BY <3>1, <3>2, ClosedCycle
    <3>4. ComputeComplianceNow(r, now) = ComputeCompliance(<<>>)
      <4>1. ComputeDuration(Last(r)).end = e
        BY DEF EndOf
      <4>2. now - ComputeDuration(Last(r)).end >= Rules.cycleReset
        BY <2>2, <3>1, <4>1
      <4> QED BY <3>1, <4>2 DEF ComputeComplianceNow
    <3> QED BY <3>3, <3>4 DEF Compliance, r
  <2>3. ASSUME shifts = SortedShifts(shifts), HoursStatus(shifts) = "ok"
        PROVE  Compliance(shifts, now).alerts = <<>>
    <3>1. ComputeCompliance(shifts).alerts = <<>>
      BY <2>3 DEF HoursStatus
    <3>2. Compliance(shifts, now) = ComputeComplianceNow(shifts, now)
      BY <2>3 DEF Compliance
    <3>3. ComputeComplianceNow(shifts, now) \in {ComputeCompliance(<<>>), ComputeCompliance(shifts)}
      BY DEF ComputeComplianceNow
    <3> QED BY <3>1, <3>2, <3>3, NoAlerts
  <2> QED BY <2>2, <2>3 DEF RestClosesTheCycle
<1> QED BY <1>1, TypeCorrect, PTL

-------------------------------------------------------------------------------
(***************************************************************************)
(* The next start                                                          *)
(***************************************************************************)

\* An alert of the code is among those d has and c has not.
Raised(c, d, code) == \E k \in Len(c.alerts) + 1 .. Len(d.alerts) : d.alerts[k].code = code

LEMMA MinOfTwo ==
  ASSUME NEW a \in Int, NEW b \in Int
  PROVE  Min({a, b}) = IF a <= b THEN a ELSE b
<1>1. CASE a <= b
  <2>1. a \in {a, b} /\ {a, b} \subseteq Int /\ \A x \in {a, b} : a <= x
    BY <1>1
  <2> QED BY <1>1, <2>1, MinIs
<1>2. CASE ~(a <= b)
  <2>1. b \in {a, b} /\ {a, b} \subseteq Int /\ \A x \in {a, b} : b <= x
    BY <1>2
  <2> QED BY <1>2, <2>1, MinIs
<1> QED BY <1>1, <1>2

LEMMA RaisedNothing ==
  ASSUME NEW c \in Cycles, NEW d \in Cycles, NEW code \in RestCodes,
         \/ AddsNoRest(c, d)
         \/ \E x \in Cycles : x.alerts = <<>> /\ AddsNoRest(x, d)
  PROVE  ~Raised(c, d, code)
<1>1. Len(c.alerts) \in Nat /\ Len(d.alerts) \in Nat
  BY DEF Cycles
<1>2. CASE AddsNoRest(c, d)
  BY <1>2 DEF AddsNoRest, Raised
<1>3. ASSUME NEW x \in Cycles, x.alerts = <<>>, AddsNoRest(x, d) PROVE ~Raised(c, d, code)
  <2>1. \A k \in 1 .. Len(d.alerts) : d.alerts[k].code \notin RestCodes
    BY <1>3 DEF AddsNoRest
  <2>2. \A k \in Len(c.alerts) + 1 .. Len(d.alerts) : k \in 1 .. Len(d.alerts)
    BY <1>1
  <2> QED BY <2>1, <2>2 DEF Raised
<1> QED BY <1>2, <1>3

\* One alert of the rest, before those of the shift
LEMMA RaisedOne ==
  ASSUME NEW c \in Cycles, NEW x \in Cycles, NEW d \in Cycles,
         NEW raised \in RestCodes, NEW date \in Nat, NEW code \in RestCodes,
         x.alerts = Append(c.alerts, [code |-> raised, date |-> date]), AddsNoRest(x, d)
  PROVE  Raised(c, d, code) <=> code = raised
<1> DEFINE n == Len(c.alerts)
           m == Len(d.alerts)
           a == [code |-> raised, date |-> date]
<1>1. n \in Nat /\ m \in Nat /\ c.alerts \in Seq(Alerts) /\ a \in Alerts /\ a.code = raised
  BY DEF Cycles, Alerts, AlertCodes
<1>2. Len(x.alerts) = n + 1 /\ x.alerts[n + 1] = a
  BY <1>1
<1>3. /\ m >= n + 1 /\ d.alerts[n + 1] = a
      /\ \A k \in n + 2 .. m : d.alerts[k].code \notin RestCodes
  <2>1. m >= Len(x.alerts) /\ \A k \in 1 .. Len(x.alerts) : d.alerts[k] = x.alerts[k]
    BY DEF AddsNoRest
  <2>2. \A k \in Len(x.alerts) + 1 .. m : d.alerts[k].code \notin RestCodes
    BY DEF AddsNoRest
  <2>3. n + 1 \in 1 .. Len(x.alerts) /\ n + 2 = Len(x.alerts) + 1
    BY <1>1, <1>2
  <2> HIDE DEF a, n, m
  <2> QED BY <1>2, <2>1, <2>2, <2>3
<1> HIDE DEF a, n, m
<1>4. ASSUME code = raised PROVE \E k \in n + 1 .. m : d.alerts[k].code = code
  <2>1. n + 1 \in n + 1 .. m
    BY <1>1, <1>3
  <2> QED BY <1>1, <1>3, <1>4, <2>1
<1>5. ASSUME NEW k \in n + 1 .. m, d.alerts[k].code = code PROVE code = raised
  <2>1. k = n + 1 \/ k \in n + 2 .. m
    BY <1>1
  <2> QED BY <1>1, <1>3, <1>5, <2>1
<1> QED BY <1>4, <1>5 DEF Raised, n, m

LEMMA ShortRest ==
  ASSUME NEW c \in Cycles, NEW gap \in Int, NEW date \in Nat, gap < Rules.minRest
  PROVE  AfterRest(c, gap, date) = Alert(c, "restBelowMinimum", date)
<1>1. gap < Rules.minRest => AfterRest(c, gap, date) = Alert(c, "restBelowMinimum", date)
  BY AfterRestIs
<1> QED BY <1>1

\* What the rest before a shift does to the cycle
LEMMA JudgedByRest ==
  ASSUME NEW c \in Cycles, NEW row \in ShiftRows, c.prevEnd \in Nat
  PROVE  LET gap  == StartOf(row) - c.prevEnd
             d    == AfterShift(c, row)
             used(x) == Min({x.reducedRest, Rules.reducedRestMax})
         IN /\ gap < Rules.minRest <=> Raised(c, d, "restBelowMinimum")
            /\ (Rules.minRest <= gap /\ gap < Rules.reducedRestUpper)
                 <=> (used(d) > used(c) \/ Raised(c, d, "reducedRestBudgetExceeded"))
            /\ (Rules.minRest <= gap /\ gap < Rules.reducedRestUpper)
                 => (Rules.reducedRestMax - used(c) > 0
                       <=> ~Raised(c, d, "reducedRestBudgetExceeded"))
<1> DEFINE x == Rested(c, row)
           d == AfterShift(c, row)
           max == Rules.reducedRestMax
           used(y) == Min({y.reducedRest, max})
<1> PICK date, gap : date = row.date /\ gap = StartOf(row) - c.prevEnd
  OBVIOUS
<1>1. date \in Nat /\ gap \in Int
  BY RowFields, ShiftInts
<1>2. x = AfterRest(c, gap, date)
  BY DEF Rested, NoEnd
<1>3. x \in Cycles /\ d \in Cycles /\ d = [Worked(x, row) EXCEPT !.prevEnd = EndOf(row)]
  BY AfterShiftIs
<1> HIDE DEF x, d
<1>4. AddsNoRest(x, d)
  <2>1. Worked(x, row) \in Cycles /\ AddsNoRest(x, Worked(x, row))
    BY <1>3, WorkedIs
  <2>2. d.alerts = Worked(x, row).alerts /\ d.reducedRest = Worked(x, row).reducedRest
    BY <1>3, <2>1 DEF Cycles
  <2> QED BY <2>1, <2>2 DEF AddsNoRest
<1>5. d.reducedRest = x.reducedRest
  BY <1>4 DEF AddsNoRest
<1>6. c.reducedRest \in Nat /\ max \in Nat /\ x.reducedRest \in Nat
  BY <1>3, ThresholdTypes DEF Cycles
<1>7. /\ used(c) = IF c.reducedRest <= max THEN c.reducedRest ELSE max
      /\ used(d) = IF x.reducedRest <= max THEN x.reducedRest ELSE max
  <2>1. \A a, b \in Int : Min({a, b}) = IF a <= b THEN a ELSE b
    BY MinOfTwo
  <2>2. PICK a, b, m : a = c.reducedRest /\ b = x.reducedRest /\ m = max
    OBVIOUS
  <2>3. a \in Int /\ b \in Int /\ m \in Int
    BY <1>6, <2>2
  <2>4. Min({a, m}) = (IF a <= m THEN a ELSE m) /\ Min({b, m}) = (IF b <= m THEN b ELSE m)
    BY <2>1, <2>3
  <2> QED BY <1>5, <2>2, <2>4
<1> DEFINE low == Raised(c, d, "restBelowMinimum")
           budget == Raised(c, d, "reducedRestBudgetExceeded")
<1> HIDE DEF used, max
<1>8. /\ "restBelowMinimum" \in RestCodes /\ "reducedRestBudgetExceeded" \in RestCodes
      /\ "restBelowMinimum" \in AlertCodes /\ "reducedRestBudgetExceeded" \in AlertCodes
      /\ "restBelowMinimum" # "reducedRestBudgetExceeded"
  BY DEF RestCodes, AlertCodes
<1>9. CASE gap >= Rules.cycleReset
  <2>1. x = OpenCycle(c.prevEnd)
    BY <1>1, <1>2, <1>9, AfterRestIs
  <2>2. x.alerts = <<>> /\ x.reducedRest = 0
    BY <2>1 DEF OpenCycle
  <2>3. ~low /\ ~budget
    BY <1>3, <1>4, <1>8, <2>2, RaisedNothing
  <2>4. ~(used(d) > used(c))
    BY <1>6, <1>7, <2>2
  <2>5. ~(gap < Rules.minRest) /\ ~(gap < Rules.reducedRestUpper)
    BY <1>1, <1>9, ThresholdTypes
  <2> QED BY <2>3, <2>4, <2>5 DEF x, d, used, max
<1>10. CASE gap < Rules.cycleReset /\ gap >= Rules.reducedRestUpper
  <2>1. x = c
    BY <1>1, <1>2, <1>10, AfterRestIs
  <2>2. ~low /\ ~budget
    BY <1>3, <1>4, <1>8, <2>1, RaisedNothing
  <2>3. ~(used(d) > used(c))
    BY <1>6, <1>7, <2>1
  <2>4. ~(gap < Rules.minRest) /\ ~(gap < Rules.reducedRestUpper)
    BY <1>1, <1>10, ThresholdTypes
  <2> QED BY <2>2, <2>3, <2>4 DEF x, d, used, max
<1>11. CASE gap < Rules.minRest
  <2>1. x = Alert(c, "restBelowMinimum", date)
    BY <1>1, <1>2, <1>11, ShortRest
  <2>2. /\ x.alerts = Append(c.alerts, [code |-> "restBelowMinimum", date |-> date])
        /\ x.reducedRest = c.reducedRest
    BY <1>1, <1>8, <2>1, AlertIs
  <2>3. low /\ ~budget
    BY <1>1, <1>3, <1>4, <1>8, <2>2, RaisedOne
  <2>4. ~(used(d) > used(c))
    BY <1>6, <1>7, <2>2
  <2>5. ~(Rules.minRest <= gap)
    BY <1>1, <1>11, ThresholdTypes
  <2> QED BY <1>11, <2>3, <2>4, <2>5 DEF x, d, used, max
<1>12. CASE gap >= Rules.minRest /\ gap < Rules.reducedRestUpper
  <2> DEFINE counted == [c EXCEPT !.reducedRest = @ + 1]
  <2>1. /\ counted \in Cycles
        /\ x = IF c.reducedRest >= max THEN Alert(counted, "reducedRestBudgetExceeded", date) ELSE counted
    BY <1>1, <1>2, <1>12, AfterRestIs DEF max
  <2>2. counted.alerts = c.alerts /\ counted.reducedRest = c.reducedRest + 1
    BY DEF Cycles
  <2> HIDE DEF counted
  <2>3. ~(gap < Rules.minRest) /\ Rules.minRest <= gap
    BY <1>1, <1>12, ThresholdTypes
  <2>4. CASE c.reducedRest >= max
    <3>1. x.alerts = Append(c.alerts, [code |-> "reducedRestBudgetExceeded", date |-> date])
      BY <1>1, <1>8, <2>1, <2>2, <2>4, AlertIs
    <3>2. budget /\ ~low
      BY <1>1, <1>3, <1>4, <1>8, <3>1, RaisedOne
    <3>3. ~(max - used(c) > 0)
      BY <1>6, <1>7, <2>4
    <3> QED BY <1>12, <2>3, <3>2, <3>3 DEF x, d, used, max
  <2>5. CASE ~(c.reducedRest >= max)
    <3>1. x = counted
      BY <2>1, <2>5
    <3>2. used(d) > used(c)
      BY <1>6, <1>7, <2>2, <2>5, <3>1
    <3>3. /\ Len(d.alerts) >= Len(c.alerts)
          /\ \A k \in Len(c.alerts) + 1 .. Len(d.alerts) : d.alerts[k].code \notin RestCodes
      BY <1>4, <2>2, <3>1 DEF AddsNoRest
    <3>4. ~low /\ ~budget
      BY <1>8, <3>3 DEF Raised
    <3>5. max - used(c) > 0
      BY <1>6, <1>7, <2>5
    <3> QED BY <1>12, <2>3, <3>2, <3>4, <3>5 DEF x, d, used, max
  <2> QED BY <2>4, <2>5
<1>13. \/ gap >= Rules.cycleReset
       \/ gap < Rules.cycleReset /\ gap >= Rules.reducedRestUpper
       \/ gap < Rules.minRest
       \/ gap >= Rules.minRest /\ gap < Rules.reducedRestUpper
  BY <1>1, ThresholdTypes
<1> QED BY <1>9, <1>10, <1>11, <1>12, <1>13

\* What the dashboard says of the next start is what the book is judged by.
THEOREM NextStartIsHonestHolds == Spec => NextStartIsHonest
<1>1. ASSUME TypeOK, [Next]_vars, shifts' # shifts, Len(shifts') > Len(shifts), shifts # <<>>,
             Sequential(shifts), StartOf(Last(shifts')) >= LastShiftEnd(shifts)
      PROVE  LET shown  == NextStart(shifts, now)
                 new    == Last(shifts')
                 before == ComputeCompliance(SortedShifts(shifts))
                 after  == ComputeCompliance(SortedShifts(shifts'))
                 raised(code) ==
                   \E k \in Len(before.alerts) + 1 .. Len(after.alerts) :
                     after.alerts[k].code = code
             IN /\ (StartOf(new) < shown.reduced) <=> raised("restBelowMinimum")
                /\ (StartOf(new) \in shown.reduced .. shown.normal - 1)
                     <=> \/ after.reducedRestUsed > before.reducedRestUsed
                         \/ raised("reducedRestBudgetExceeded")
                /\ (/\ StartOf(new) \in shown.reduced .. shown.normal - 1
                    /\ now - LastShiftEnd(shifts) < Rules.cycleReset)
                     => (shown.reducedLeft > 0 <=> ~raised("reducedRestBudgetExceeded"))
  <2>1. shifts \in Seq(ShiftRows) /\ Len(shifts) \in Nat
    BY <1>1 DEF TypeOK
  <2>2. PICK row \in ShiftRows : shifts' = Append(shifts, row)
    <3>1. ~EditShift
      <4> SUFFICES ASSUME EditShift PROVE FALSE
        OBVIOUS
      <4>1. PICK i \in DOMAIN shifts, row \in ShiftRows : shifts' = [shifts EXCEPT ![i] = row]
        BY DEF EditShift
      <4>2. Len(shifts') = Len(shifts)
        BY <2>1, <4>1
      <4> QED BY <1>1, <2>1, <4>2
    <3>2. ~DeleteShift
      <4> SUFFICES ASSUME DeleteShift PROVE FALSE
        OBVIOUS
      <4>1. PICK i \in DOMAIN shifts : shifts' = RemoveAt(shifts, i)
        BY DEF DeleteShift
      <4>2. Len(shifts') <= Len(shifts) /\ Len(shifts') \in Nat
        BY <2>1, <4>1 DEF RemoveAt
      <4> QED BY <1>1, <2>1, <4>2
    <3>3. ~TimePasses /\ ~UNCHANGED vars
      BY <1>1 DEF TimePasses, vars
    <3> QED BY <1>1, <3>1, <3>2, <3>3 DEF Next, LogShift
  <2> DEFINE r == SortedShifts(shifts)
             c == CycleAfter(r)
             d == AfterShift(c, row)
             e == EndOf(Last(r))
             gap == StartOf(row) - e
             max == Rules.reducedRestMax
             shown == NextStart(shifts, now)
             before == ComputeCompliance(r)
             after == ComputeCompliance(SortedShifts(shifts'))
             raised(code) ==
               \E k \in Len(before.alerts) + 1 .. Len(after.alerts) : after.alerts[k].code = code
  <2>3. Last(shifts') = row
    BY <2>1, <2>2 DEF Last
  <2>4. /\ r \in Seq(ShiftRows) /\ r # <<>> /\ LastShiftEnd(shifts) = e /\ e \in Nat
        /\ \A i \in 1 .. Len(shifts) : StartOf(shifts[i]) <= e
    <3>1. /\ LastShiftEnd(shifts) \in Nat
          /\ \A i \in 1 .. Len(shifts) : StartOf(shifts[i]) <= LastShiftEnd(shifts)
      BY <1>1, <2>1, LastEndIs
    <3> QED BY <1>1, <2>1, <3>1, LastEndIs
  <2>5. SortedShifts(shifts') = Append(r, row)
    <3>1. \A i \in 1 .. Len(shifts) : StartOf(shifts[i]) <= StartOf(row)
      <4> TAKE i \in 1 .. Len(shifts)
      <4>1. shifts[i] \in ShiftRows
        BY <2>1
      <4>2. StartOf(shifts[i]) \in Int /\ StartOf(row) \in Int
        BY <4>1, ShiftInts
      <4> QED BY <1>1, <2>3, <2>4, <4>2
    <3>2. SortedShifts(Append(shifts, row)) = Append(SortedShifts(shifts), row)
      BY <2>1, <3>1, SortedAppend
    <3> QED BY <2>2, <3>2
  <2> HIDE DEF r
  <2>6. c \in Cycles /\ c.prevEnd = e /\ CycleAfter(Append(r, row)) = d
    BY <2>4, CycleAppend, CycleEndsLast
  <2>7. /\ before.alerts = c.alerts /\ after.alerts = d.alerts
        /\ before.reducedRestUsed = Min({c.reducedRest, max})
        /\ after.reducedRestUsed = Min({d.reducedRest, max})
    BY <2>5, <2>6 DEF ComputeCompliance
  <2>8. shown.reduced = e + Rules.minRest /\ shown.normal = e + Rules.reducedRestUpper
    BY <1>1, <2>4 DEF NextStart
  <2>a. now - LastShiftEnd(shifts) < Rules.cycleReset =>
          shown.reducedLeft = max - Min({c.reducedRest, max})
    <3> SUFFICES ASSUME now - LastShiftEnd(shifts) < Rules.cycleReset
                 PROVE  shown.reducedLeft = max - Min({c.reducedRest, max})
      OBVIOUS
    <3>1. now \in Int /\ e \in Int /\ Rules.cycleReset \in Int
      BY <1>1, <2>4, HoursBounds, ThresholdTypes DEF TypeOK
    <3>2. ~(now - ComputeDuration(Last(r)).end >= Rules.cycleReset)
      BY <2>4, <3>1 DEF EndOf
    <3>3. Compliance(shifts, now) = before
      BY <3>2 DEF Compliance, ComputeComplianceNow, r
    <3> QED BY <1>1, <2>7, <3>3 DEF NextStart
  <2> HIDE DEF c, d, e, max, shown, before, after
  <2>9. /\ gap < Rules.minRest <=> Raised(c, d, "restBelowMinimum")
        /\ (Rules.minRest <= gap /\ gap < Rules.reducedRestUpper)
             <=> \/ Min({d.reducedRest, max}) > Min({c.reducedRest, max})
                 \/ Raised(c, d, "reducedRestBudgetExceeded")
        /\ (Rules.minRest <= gap /\ gap < Rules.reducedRestUpper)
             => (max - Min({c.reducedRest, max}) > 0
                   <=> ~Raised(c, d, "reducedRestBudgetExceeded"))
    BY <2>4, <2>6, JudgedByRest DEF d, max
  <2>10. /\ StartOf(row) < shown.reduced <=> gap < Rules.minRest
         /\ StartOf(row) \in shown.reduced .. shown.normal - 1
              <=> (Rules.minRest <= gap /\ gap < Rules.reducedRestUpper)
    <3>1. StartOf(row) \in Int /\ e \in Int /\ Rules.minRest \in Int /\ Rules.reducedRestUpper \in Int
      BY <2>4, ShiftInts, ThresholdTypes
    <3> QED BY <2>8, <3>1
  <2>11. /\ raised("restBelowMinimum") <=> Raised(c, d, "restBelowMinimum")
         /\ raised("reducedRestBudgetExceeded") <=> Raised(c, d, "reducedRestBudgetExceeded")
    BY <2>7 DEF Raised
  <2> HIDE DEF raised, gap
  <2>12. /\ (StartOf(row) < shown.reduced) <=> raised("restBelowMinimum")
         /\ (StartOf(row) \in shown.reduced .. shown.normal - 1)
              <=> \/ after.reducedRestUsed > before.reducedRestUsed
                  \/ raised("reducedRestBudgetExceeded")
         /\ (/\ StartOf(row) \in shown.reduced .. shown.normal - 1
             /\ now - LastShiftEnd(shifts) < Rules.cycleReset)
              => (shown.reducedLeft > 0 <=> ~raised("reducedRestBudgetExceeded"))
    BY <2>7, <2>a, <2>9, <2>10, <2>11
  <2> QED BY <2>3, <2>12 DEF shown, before, after, raised, r
<1>2. TypeOK /\ [Next]_vars
        => [(shifts' # shifts /\ Len(shifts') > Len(shifts) /\ shifts # <<>> /\ Sequential(shifts)
             /\ StartOf(Last(shifts')) >= LastShiftEnd(shifts))
            => LET shown  == NextStart(shifts, now)
                   new    == Last(shifts')
                   before == ComputeCompliance(SortedShifts(shifts))
                   after  == ComputeCompliance(SortedShifts(shifts'))
                   raised(code) ==
                     \E k \in Len(before.alerts) + 1 .. Len(after.alerts) :
                       after.alerts[k].code = code
               IN /\ (StartOf(new) < shown.reduced) <=> raised("restBelowMinimum")
                  /\ (StartOf(new) \in shown.reduced .. shown.normal - 1)
                       <=> \/ after.reducedRestUsed > before.reducedRestUsed
                           \/ raised("reducedRestBudgetExceeded")
                  /\ (/\ StartOf(new) \in shown.reduced .. shown.normal - 1
                      /\ now - LastShiftEnd(shifts) < Rules.cycleReset)
                       => (shown.reducedLeft > 0 <=> ~raised("reducedRestBudgetExceeded"))]_vars
  BY <1>1
<1> QED BY <1>2, TypeCorrect, PTL DEF Spec, NextStartIsHonest

-------------------------------------------------------------------------------
(***************************************************************************)
(* The weeks                                                               *)
(***************************************************************************)

\* Midnight of a day
LEMMA MidnightIs ==
  ASSUME NEW d \in Int
  PROVE  /\ ParseDateTime(d, 0) = IF d <= ChangeDay THEN 1440 * d - 60 ELSE 1440 * d
         /\ ParseDateTime(d, 0) \in Int
<1>1. ChangeDay \in Int
  BY ChangeIsSunday
<1>2. 0 \in Int
  OBVIOUS
<1>3. ParseDateTime(d, 0)
        = IF d < ChangeDay \/ (d = ChangeDay /\ 0 < 120) THEN 1440 * d + 0 - 60 ELSE 1440 * d + 0
  BY <1>2, ParseIs
<1> QED BY <1>1, <1>3

\* The week a day is in
LEMMA WeekStartIs ==
  ASSUME NEW d \in Int, NEW w \in Int, w % 7 = 0
  PROVE  /\ GetWeekStart(d) \in Int /\ GetWeekStart(d) % 7 = 0
         /\ d \in w .. w + 6 <=> w = GetWeekStart(d)
BY DEF GetWeekStart

\* The key of the week that begins with w
KeyOf(w) == IF w <= ChangeDay THEN w - 1 ELSE w

LEMMA WeekKeyIs ==
  ASSUME NEW d \in Int
  PROVE  WeekKey(d) = KeyOf(GetWeekStart(d))
<1> DEFINE w == GetWeekStart(d)
<1>1. w \in Int /\ ChangeDay \in Int
  BY ChangeIsSunday DEF GetWeekStart
<1> HIDE DEF w
<1>2. ParseDateTime(w, 0) = IF w <= ChangeDay THEN 1440 * w - 60 ELSE 1440 * w
  BY <1>1, MidnightIs
<1>3. ToKey(ParseDateTime(w, 0)) = KeyOf(w)
  <2>1. CASE w <= ChangeDay
    <3>1. (1440 * w - 60) \div 1440 = w - 1
      BY <1>1
    <3> QED BY <1>2, <2>1, <3>1, Lengths DEF ToKey, KeyOf
  <2>2. CASE ~(w <= ChangeDay)
    <3>1. (1440 * w) \div 1440 = w
      BY <1>1
    <3> QED BY <1>2, <2>2, <3>1, Lengths DEF ToKey, KeyOf
  <2> QED BY <2>1, <2>2
<1> QED BY <1>3 DEF WeekKey, w

LEMMA KeysDiffer ==
  ASSUME NEW v \in Int, NEW w \in Int, v % 7 = 0, w % 7 = 0, KeyOf(v) = KeyOf(w)
  PROVE  v = w
BY ChangeIsSunday DEF KeyOf

\* The days of the payslip of a key are the days of its week.
LEMMA PayslipDays ==
  ASSUME NEW d \in Int, NEW w \in Int
  PROVE  LET from == KeyOf(w) * DayLength
             to   == ParseDateTime(LocalDay(from) + 7, MinuteOfDay(from))
         IN (from <= ParseDateTime(d, 0) /\ ParseDateTime(d, 0) < to) <=> d \in w .. w + 6
<1> DEFINE key == KeyOf(w)
           from == key * DayLength
           minute == IF key <= ChangeDay THEN 60 ELSE 0
           to == ParseDateTime(LocalDay(from) + 7, MinuteOfDay(from))
<1>1. key \in Int /\ ChangeDay \in Int
  BY ChangeIsSunday DEF KeyOf
<1>2. from = 1440 * key
  BY <1>1, Lengths
<1>3. Local(from) = 1440 * key + minute
  BY <1>1, <1>2, Lengths DEF Local
<1>4. minute \in {0, 60}
  OBVIOUS
<1>5. key = KeyOf(w)
  OBVIOUS
<1> HIDE DEF key, minute
<1>6. (1440 * key + minute) \div 1440 = key /\ (1440 * key + minute) % 1440 = minute
  BY <1>1, <1>4
<1>7. LocalDay(from) = key /\ MinuteOfDay(from) = minute
  BY <1>3, <1>6, Lengths DEF LocalDay, MinuteOfDay
<1>8. to = ParseDateTime(key + 7, minute)
  BY <1>7
<1>9. key + 7 \in Int /\ minute \in Int
  BY <1>1, <1>4
<1>10. ParseDateTime(key + 7, minute)
         = IF key + 7 < ChangeDay \/ (key + 7 = ChangeDay /\ minute < 120)
             THEN 1440 * (key + 7) + minute - 60 ELSE 1440 * (key + 7) + minute
  <2> PICK x \in Int, y \in Int : x = key + 7 /\ y = minute
    BY <1>9
  <2>1. ParseDateTime(x, y)
          = IF x < ChangeDay \/ (x = ChangeDay /\ y < 120)
              THEN 1440 * x + y - 60 ELSE 1440 * x + y
    BY <1>1, Lengths DEF ParseDateTime
  <2> QED BY <2>1
<1> DEFINE m == ParseDateTime(d, 0)
<1>11. m = IF d <= ChangeDay THEN 1440 * d - 60 ELSE 1440 * d
  BY MidnightIs
<1> HIDE DEF from, to, m
<1>12. CASE w <= ChangeDay
  <2>1. key = w - 1 /\ minute = 60
    BY <1>1, <1>5, <1>12 DEF KeyOf, minute
  <2>2. from = 1440 * w - 1440
    BY <1>1, <1>2, <2>1
  <2>3. to = IF w + 6 <= ChangeDay THEN 1440 * w + 8640 ELSE 1440 * w + 8700
    BY <1>1, <1>8, <1>10, <2>1
  <2>4. (from <= m /\ m < to) <=> d \in w .. w + 6
    BY <1>1, <1>11, <1>12, <2>2, <2>3
  <2> QED BY <2>4 DEF from, to, key, m
<1>13. CASE ~(w <= ChangeDay)
  <2>1. key = w /\ minute = 0
    BY <1>1, <1>5, <1>13 DEF KeyOf, minute
  <2>2. from = 1440 * w
    BY <1>1, <1>2, <2>1
  <2>3. to = 1440 * w + 10080
    BY <1>1, <1>8, <1>10, <1>13, <2>1
  <2>4. (from <= m /\ m < to) <=> d \in w .. w + 6
    BY <1>1, <1>11, <1>13, <2>2, <2>3
  <2> QED BY <2>4 DEF from, to, key, m
<1> QED BY <1>12, <1>13

\* And so are those of the week of the dashboard.
LEMMA WeekDays ==
  ASSUME NEW d \in Int, NEW w \in Int
  PROVE  (ParseDateTime(w, 0) <= ParseDateTime(d, 0) /\ ParseDateTime(d, 0) < ParseDateTime(w + 7, 0))
           <=> d \in w .. w + 6
<1>1. ChangeDay \in Int /\ w + 7 \in Int
  BY ChangeIsSunday
<1>2. /\ ParseDateTime(d, 0) = IF d <= ChangeDay THEN 1440 * d - 60 ELSE 1440 * d
      /\ ParseDateTime(w, 0) = IF w <= ChangeDay THEN 1440 * w - 60 ELSE 1440 * w
      /\ ParseDateTime(w + 7, 0)
           = IF w + 7 <= ChangeDay THEN 1440 * (w + 7) - 60 ELSE 1440 * (w + 7)
  BY <1>1, MidnightIs
<1> DEFINE m == ParseDateTime(d, 0)
           a == ParseDateTime(w, 0)
           b == ParseDateTime(w + 7, 0)
<1> HIDE DEF m, a, b
<1>3. (a <= m /\ m < b) <=> d \in w .. w + 6
  BY <1>1, <1>2 DEF m, a, b
<1> QED BY <1>3 DEF m, a, b

\* The fourteen days up to the last one, but for the oldest when the clocks go back
LEMMA FortnightDays ==
  ASSUME NEW d \in Int, NEW last \in Int
  PROVE  LET ref   == ParseDateTime(last, DayLength - 1)
             first == IF ChangeDay \in last - 13 .. last THEN last - 12 ELSE last - 13
         IN (ref - Fortnight * DayLength < ParseDateTime(d, 0) /\ ParseDateTime(d, 0) <= ref)
              <=> d \in first .. last
<1> DEFINE ref == ParseDateTime(last, DayLength - 1)
           first == IF ChangeDay \in last - 13 .. last THEN last - 12 ELSE last - 13
           m == ParseDateTime(d, 0)
<1>1. ChangeDay \in Int
  BY ChangeIsSunday
<1>2. DayLength - 1 = 1439 /\ Fortnight * DayLength = 20160
  BY Lengths DEF Fortnight
<1>3. ParseDateTime(last, 1439)
        = IF last < ChangeDay \/ (last = ChangeDay /\ 1439 < 120)
            THEN 1440 * last + 1439 - 60 ELSE 1440 * last + 1439
  <2> PICK x \in Int : x = 1439
    OBVIOUS
  <2>1. ParseDateTime(last, x)
          = IF last < ChangeDay \/ (last = ChangeDay /\ x < 120)
              THEN 1440 * last + x - 60 ELSE 1440 * last + x
    BY <1>1, Lengths DEF ParseDateTime
  <2> QED BY <2>1
<1>4. ref = IF last < ChangeDay THEN 1440 * last + 1379 ELSE 1440 * last + 1439
  BY <1>1, <1>2, <1>3
<1>5. m = IF d <= ChangeDay THEN 1440 * d - 60 ELSE 1440 * d
  BY MidnightIs
<1> HIDE DEF ref, m
<1>6. (ref - 20160 < m /\ m <= ref) <=> d \in first .. last
  BY <1>1, <1>4, <1>5
<1> QED BY <1>2, <1>6 DEF ref, m

LEMMA MemberOfInOrder ==
  ASSUME NEW s \in Seq(ShiftRows), NEW I \in SUBSET (1 .. Len(s)), NEW x
  PROVE  x \in Range(InOrder(s, I)) <=> \E i \in I : s[i] = x
<1> DEFINE n == Cardinality(I)
           q == InOrder(s, I)
<1>1. q \in Seq(ShiftRows) /\ Len(q) = n
  BY InOrderIs
<1>2. PICK p \in [1 .. n -> I] :
        /\ \A i \in I : \E k \in 1 .. n : p[k] = i
        /\ \A k \in 1 .. n : q[k] = s[p[k]]
  BY InOrderIs
<1>3. DOMAIN q = 1 .. n
  BY <1>1
<1> HIDE DEF n, q
<1>4. x \in Range(q) <=> \E k \in 1 .. n : q[k] = x
  BY <1>3 DEF Range
<1>5. ASSUME NEW k \in 1 .. n, q[k] = x PROVE \E i \in I : s[i] = x
  <2>1. p[k] \in I /\ s[p[k]] = x
    BY <1>2, <1>5
  <2> QED BY <2>1
<1>6. ASSUME NEW i \in I, s[i] = x PROVE \E k \in 1 .. n : q[k] = x
  BY <1>2, <1>6
<1> QED BY <1>4, <1>5, <1>6 DEF q

\* The payslip's weeks are the dashboard's: every shift is in exactly one of them, and
\* the rolling fortnight is the driving of its days.
THEOREM WeeksAgreeHolds == Spec => []WeeksAgree
<1>1. TypeOK => WeeksAgree
  <2> SUFFICES ASSUME TypeOK, NEW i \in DOMAIN shifts
               PROVE  LET week == GetWeekStart(shifts[i].date)
                          last == Last(SortedShifts(shifts)).date
                          first == IF ChangeDay \in last - 13 .. last THEN last - 12 ELSE last - 13
                      IN /\ \A key \in WeekOptions(shifts, now) :
                              (shifts[i] \in Range(PayslipShifts(shifts, key)))
                                <=> (key = WeekKey(shifts[i].date))
                         /\ PayslipShifts(shifts, WeekKey(shifts[i].date)) = WeekShifts(shifts, week)
                         /\ DrivingFortnight(shifts, now)
                              = DrivingOn(SortedShifts(shifts), first .. last)
    BY DEF WeeksAgree
  <2> DEFINE Inside(w) == {j \in DOMAIN shifts : shifts[j].date \in w .. w + 6}
  <2>1. shifts \in Seq(ShiftRows) /\ now \in Nat /\ DOMAIN shifts = 1 .. Len(shifts)
    BY HoursBounds DEF TypeOK
  <2>2. \A j \in DOMAIN shifts : shifts[j] \in ShiftRows /\ shifts[j].date \in Int
    <3> TAKE j \in DOMAIN shifts
    <3>1. shifts[j] \in ShiftRows
      BY <2>1
    <3>2. shifts[j].date \in Nat \ {0}
      BY <3>1, RowFields
    <3> QED BY <3>1, <3>2
  <2>3. ASSUME NEW w \in Int
        PROVE  /\ PayslipShifts(shifts, KeyOf(w)) = InOrder(shifts, Inside(w))
               /\ WeekShifts(shifts, w) = InOrder(shifts, Inside(w))
    <3> DEFINE from == KeyOf(w) * DayLength
               to == ParseDateTime(LocalDay(from) + 7, MinuteOfDay(from))
               A == {j \in DOMAIN shifts : LET d == ParseDateTime(shifts[j].date, 0)
                                           IN from <= d /\ d < to}
               B == {j \in DOMAIN shifts : LET d == ParseDateTime(shifts[j].date, 0)
                                           IN /\ ParseDateTime(w, 0) <= d
                                              /\ d < ParseDateTime(w + 7, 0)}
    <3>1. PayslipShifts(shifts, KeyOf(w)) = InOrder(shifts, A)
      BY DEF PayslipShifts
    <3>2. WeekShifts(shifts, w) = InOrder(shifts, B)
      BY DEF WeekShifts
    <3>3. \A j \in DOMAIN shifts :
            /\ (from <= ParseDateTime(shifts[j].date, 0) /\ ParseDateTime(shifts[j].date, 0) < to)
                 <=> shifts[j].date \in w .. w + 6
            /\ (ParseDateTime(w, 0) <= ParseDateTime(shifts[j].date, 0)
                  /\ ParseDateTime(shifts[j].date, 0) < ParseDateTime(w + 7, 0))
                 <=> shifts[j].date \in w .. w + 6
      <4> TAKE j \in DOMAIN shifts
      <4> PICK d : d = shifts[j].date
        OBVIOUS
      <4>1. d \in Int
        BY <2>2
      <4> HIDE DEF from, to
      <4>2. (from <= ParseDateTime(d, 0) /\ ParseDateTime(d, 0) < to) <=> d \in w .. w + 6
        BY <4>1, PayslipDays DEF from, to
      <4>3. (ParseDateTime(w, 0) <= ParseDateTime(d, 0) /\ ParseDateTime(d, 0) < ParseDateTime(w + 7, 0))
              <=> d \in w .. w + 6
        BY <4>1, WeekDays
      <4> QED BY <4>2, <4>3
    <3> HIDE DEF from, to
    <3>4. A = Inside(w) /\ B = Inside(w)
      BY <3>3
    <3> QED BY <3>1, <3>2, <3>4
  <2> PICK date : date = shifts[i].date
    OBVIOUS
  <2> DEFINE week == GetWeekStart(date)
  <2>4. date \in Int /\ week \in Int /\ week % 7 = 0 /\ WeekKey(date) = KeyOf(week)
    BY <2>2, WeekStartIs, WeekKeyIs DEF GetWeekStart
  <2>5. ASSUME NEW key \in WeekOptions(shifts, now)
        PROVE  (shifts[i] \in Range(PayslipShifts(shifts, key))) <=> (key = WeekKey(date))
    <3>1. PICK day \in Int : key = WeekKey(day)
      <4>1. LocalDay(now) \in Int
        BY <2>1, ChangeIsSunday, Lengths DEF LocalDay, Local
      <4> QED BY <2>2, <4>1 DEF WeekOptions
    <3> DEFINE w == GetWeekStart(day)
    <3>2. w \in Int /\ w % 7 = 0 /\ key = KeyOf(w)
      BY <3>1, WeekKeyIs DEF GetWeekStart
    <3> HIDE DEF w, week
    <3>3. date \in w .. w + 6 <=> w = week
      BY <2>4, <3>2, WeekStartIs DEF week
    <3>4. w = week <=> key = WeekKey(date)
      BY <2>4, <3>2, KeysDiffer
    <3>5. Inside(w) \in SUBSET (1 .. Len(shifts))
      BY <2>1
    <3>6. shifts[i] \in Range(InOrder(shifts, Inside(w))) <=> \E j \in Inside(w) : shifts[j] = shifts[i]
      <4> HIDE DEF Inside
      <4> QED BY <2>1, <3>5, MemberOfInOrder
    <3>7. (\E j \in Inside(w) : shifts[j] = shifts[i]) <=> date \in w .. w + 6
      OBVIOUS
    <3> QED BY <2>3, <3>2, <3>3, <3>4, <3>6, <3>7
  <2>6. PayslipShifts(shifts, WeekKey(date)) = WeekShifts(shifts, week)
    BY <2>3, <2>4
  <2>7. ASSUME NEW last, NEW first, last = Last(SortedShifts(shifts)).date,
               first = IF ChangeDay \in last - 13 .. last THEN last - 12 ELSE last - 13
        PROVE  DrivingFortnight(shifts, now)
                 = DrivingOn(SortedShifts(shifts), first .. last)
    <3> DEFINE r == SortedShifts(shifts)
               ref == ParseDateTime(last, DayLength - 1)
    <3>1. r \in Seq(ShiftRows) /\ Len(r) = Len(shifts) /\ shifts # <<>> /\ Len(shifts) # 0
      BY <2>1, SortedIs
    <3>2. r # <<>> /\ Last(r) \in ShiftRows
      BY <3>1 DEF Last
    <3> HIDE DEF r
    <3>3. last \in Int
      <4>1. Last(r).date \in Nat \ {0}
        BY <3>2, RowFields
      <4> QED BY <2>7, <4>1 DEF r
    <3>4. RefDate(shifts, now) = ref
      BY <2>7, <3>1 DEF RefDate, r
    <3>5. DrivingFortnight(shifts, now) = RollingDrivingSum(r, Fortnight, ref)
      BY <3>4 DEF DrivingFortnight, r
    <3>6. ASSUME NEW k \in DOMAIN r
          PROVE  (IF ref - Fortnight * DayLength < ParseDateTime(r[k].date, 0)
                       /\ ParseDateTime(r[k].date, 0) <= ref THEN r[k].driving ELSE 0)
                   = IF r[k].date \in first .. last THEN r[k].driving ELSE 0
      <4> PICK d : d = r[k].date
        OBVIOUS
      <4>1. d \in Int
        <5>1. r[k] \in ShiftRows
          BY <3>1
        <5>2. r[k].date \in Nat \ {0}
          BY <5>1, RowFields
        <5> QED BY <5>2
      <4> HIDE DEF ref
      <4>2. (ref - Fortnight * DayLength < ParseDateTime(d, 0) /\ ParseDateTime(d, 0) <= ref)
              <=> d \in first .. last
        BY <2>7, <3>3, <4>1, FortnightDays DEF ref
      <4> QED BY <4>2
    <3> HIDE DEF ref
    <3>7. [k \in DOMAIN r |-> IF ref - Fortnight * DayLength < ParseDateTime(r[k].date, 0)
                                   /\ ParseDateTime(r[k].date, 0) <= ref THEN r[k].driving ELSE 0]
            = [k \in DOMAIN r |-> IF r[k].date \in first .. last THEN r[k].driving ELSE 0]
      BY <3>6
    <3>8. RollingDrivingSum(r, Fortnight, ref) = DrivingOn(r, first .. last)
      BY <3>7 DEF RollingDrivingSum, DrivingOn
    <3> QED BY <3>5, <3>8 DEF r
  <2> QED BY <2>5, <2>6, <2>7
<1> QED BY <1>1, TypeCorrect, PTL

-------------------------------------------------------------------------------
(***************************************************************************)
(* The local clock                                                         *)
(***************************************************************************)

\* A day and a minute of it, an hour ahead of UTC until the clocks go back
LEMMA LocalIs ==
  ASSUME NEW t \in Int
  PROVE  /\ LocalDay(t) \in Int /\ MinuteOfDay(t) \in Int
         /\ 0 <= MinuteOfDay(t) /\ MinuteOfDay(t) <= 1439
         /\ 1440 * LocalDay(t) + MinuteOfDay(t)
              = IF t < 1440 * ChangeDay + 60 THEN t + 60 ELSE t
<1> DEFINE l == IF t < 1440 * ChangeDay + 60 THEN t + 60 ELSE t
<1>1. ChangeDay \in Int
  BY ChangeIsSunday
<1>2. Local(t) = l
  BY <1>1, Lengths DEF Local
<1>3. l \in Int
  BY <1>1
<1> HIDE DEF l
<1>4. l \div 1440 \in Int /\ l % 1440 \in 0 .. 1439 /\ 1440 * (l \div 1440) + (l % 1440) = l
  BY <1>3
<1>5. LocalDay(t) = l \div 1440 /\ MinuteOfDay(t) = l % 1440
  BY <1>2, Lengths DEF LocalDay, MinuteOfDay
<1> QED BY <1>4, <1>5 DEF l

\* What the clock shows at a time that was entered
LEMMA ShownIs ==
  ASSUME NEW d \in Int, NEW m \in Int, 0 <= m, m <= 1439
  PROVE  /\ ParseDateTime(d, m) \in Int
         /\ LocalDay(ParseDateTime(d, m)) = d /\ MinuteOfDay(ParseDateTime(d, m)) = m
<1> DEFINE t == ParseDateTime(d, m)
           D == LocalDay(t)
           M == MinuteOfDay(t)
<1>1. ChangeDay \in Int
  BY ChangeIsSunday
<1>2. t = IF d < ChangeDay \/ (d = ChangeDay /\ m < 120) THEN 1440 * d + m - 60 ELSE 1440 * d + m
  BY <1>1, Lengths DEF ParseDateTime
<1>3. t \in Int
  BY <1>1, <1>2
<1> HIDE DEF t
<1>4. D \in Int /\ M \in Int /\ 0 <= M /\ M <= 1439
  BY <1>3, LocalIs
<1>5. 1440 * D + M = IF t < 1440 * ChangeDay + 60 THEN t + 60 ELSE t
  BY <1>3, LocalIs
<1> HIDE DEF D, M
<1>6. 1440 * D + M = 1440 * d + m
  BY <1>1, <1>2, <1>3, <1>4, <1>5
<1>7. d \in Int /\ m \in Int /\ 0 <= m /\ m <= 1439
  OBVIOUS
<1>8. D <= d
  BY <1>4, <1>6, <1>7
<1>9. d <= D
  BY <1>4, <1>6, <1>7
<1>10. D = d /\ M = m
  BY <1>4, <1>6, <1>7, <1>8, <1>9
<1> QED BY <1>3, <1>10 DEF t, D, M

LEMMA DaysAscend ==
  ASSUME NEW u \in Int, NEW t \in Int, u <= t
  PROVE  LocalDay(u) <= LocalDay(t)
<1> DEFINE C == ChangeDay
           D == LocalDay(t)
           M == MinuteOfDay(t)
           E == LocalDay(u)
           N == MinuteOfDay(u)
<1>1. C \in Int
  BY ChangeIsSunday
<1>2. D \in Int /\ M \in Int /\ 0 <= M /\ M <= 1439
  BY LocalIs
<1>3. E \in Int /\ N \in Int /\ 0 <= N /\ N <= 1439
  BY LocalIs
<1>4. 1440 * D + M = IF t < 1440 * C + 60 THEN t + 60 ELSE t
  BY LocalIs
<1>5. 1440 * E + N = IF u < 1440 * C + 60 THEN u + 60 ELSE u
  BY LocalIs
<1> HIDE DEF C, D, M, E, N
<1>6. CASE u < 1440 * C + 60 /\ t >= 1440 * C + 60
  <2>1. 1440 * E + N < 1440 * C + 120 /\ 1440 * D + M >= 1440 * C + 60
    BY <1>1, <1>4, <1>5, <1>6
  <2>2. E <= C
    BY <1>1, <1>3, <2>1
  <2>3. C <= D
    BY <1>1, <1>2, <2>1
  <2> QED BY <1>1, <1>2, <1>3, <2>2, <2>3 DEF D, E
<1>7. CASE ~(u < 1440 * C + 60 /\ t >= 1440 * C + 60)
  <2>1. 1440 * E + N <= 1440 * D + M
    BY <1>1, <1>4, <1>5, <1>7
  <2>2. E <= D
    BY <1>2, <1>3, <2>1
  <2> QED BY <2>2 DEF D, E
<1> QED BY <1>6, <1>7

\* The start of the window an instant lies in
StartOfWindow(t) ==
  IF MinuteOfDay(t) < 360 THEN ParseDateTime(LocalDay(t) - 1, 1320)
  ELSE IF MinuteOfDay(t) < 840 THEN ParseDateTime(LocalDay(t), 360)
  ELSE IF MinuteOfDay(t) < 1320 THEN ParseDateTime(LocalDay(t), 840)
  ELSE ParseDateTime(LocalDay(t), 1320)

LEMMA WindowIs ==
  ASSUME NEW t \in Int
  PROVE  WindowType(t) = IF MinuteOfDay(t) < 360 THEN "Nights"
                         ELSE IF MinuteOfDay(t) < 840 THEN "Days"
                         ELSE IF MinuteOfDay(t) < 1320 THEN "Lates" ELSE "Nights"
<1> DEFINE M == MinuteOfDay(t)
<1>1. M \in Int /\ 0 <= M /\ M <= 1439
  BY LocalIs
<1>2. 6 * Hour = 360 /\ 14 * Hour = 840 /\ 22 * Hour = 1320
  BY Lengths
<1>3. WindowType(t) = CASE M \in 360 .. 840 - 1  -> "Days"
                        [] M \in 840 .. 1320 - 1 -> "Lates"
                        [] OTHER -> "Nights"
  BY <1>2 DEF WindowType
<1> HIDE DEF M
<1> QED BY <1>1, <1>3 DEF M

\* Of the parts of a window: a time of day in it, or after midnight of one begun the day before
LEMMA InWindow ==
  ASSUME NEW t \in Int, NEW u \in Int, StartOfWindow(t) <= u, u <= t
  PROVE  /\ WindowType(u) = WindowType(t)
         /\ \/ LocalDay(u) = LocalDay(t)
            \/ LocalDay(u) = LocalDay(t) - 1 /\ MinuteOfDay(u) >= 1320 /\ MinuteOfDay(t) < 360
         /\ (LocalDay(u) = LocalDay(t) /\ MinuteOfDay(t) < 360) => MinuteOfDay(u) < 360
<1> DEFINE C == ChangeDay
           D == LocalDay(t)
           M == MinuteOfDay(t)
           E == LocalDay(u)
           N == MinuteOfDay(u)
<1>1. C \in Int
  BY ChangeIsSunday
<1>2. /\ D \in Int /\ M \in Int /\ 0 <= M /\ M <= 1439 /\ E \in Int /\ N \in Int /\ 0 <= N /\ N <= 1439
      /\ 1440 * D + M = IF t < 1440 * C + 60 THEN t + 60 ELSE t
      /\ 1440 * E + N = IF u < 1440 * C + 60 THEN u + 60 ELSE u
  <2>1. D \in Int /\ M \in Int /\ 0 <= M /\ M <= 1439 /\ E \in Int /\ N \in Int /\ 0 <= N /\ N <= 1439
    BY LocalIs
  <2>2. 1440 * D + M = IF t < 1440 * C + 60 THEN t + 60 ELSE t
    BY LocalIs
  <2>3. 1440 * E + N = IF u < 1440 * C + 60 THEN u + 60 ELSE u
    BY LocalIs
  <2> QED BY <2>1, <2>2, <2>3 DEF D, M, E, N
<1>3. E <= D
  BY DaysAscend
<1>4. \A d \in Int, m \in {360, 840, 1320} :
        ParseDateTime(d, m) = IF d < C THEN 1440 * d + m - 60 ELSE 1440 * d + m
  BY <1>1, Lengths DEF ParseDateTime
<1> HIDE DEF C, D, M, E, N
<1>5. CASE M < 360
  <2> DEFINE b == StartOfWindow(t)
  <2>1. b = ParseDateTime(D - 1, 1320)
    BY <1>5 DEF StartOfWindow, D, M
  <2>2. b = IF D - 1 < C THEN 1440 * (D - 1) + 1260 ELSE 1440 * (D - 1) + 1320
    <3>1. D - 1 \in Int /\ 1320 \in {360, 840, 1320}
      BY <1>2
    <3> QED BY <1>4, <2>1, <3>1
  <2>3. b \in Int /\ b <= u /\ u <= t
    BY <1>1, <1>2, <2>2
  <2> HIDE DEF b
  <2>4. (E = D /\ N < 360) \/ (E = D - 1 /\ N >= 1320)
    BY <1>1, <1>2, <1>3, <1>5, <2>2, <2>3
  <2>5. WindowType(t) = "Nights"
    BY <1>5, WindowIs DEF M, N
  <2>6. WindowType(u) = "Nights"
    BY <1>2, <2>4, WindowIs DEF M, N
  <2> QED BY <1>2, <1>5, <2>4, <2>5, <2>6 DEF D, M, E, N
<1>6. CASE M >= 360 /\ M < 840
  <2> DEFINE b == StartOfWindow(t)
  <2>1. b = ParseDateTime(D, 360)
    BY <1>2, <1>6 DEF StartOfWindow, D, M
  <2>2. b = IF D < C THEN 1440 * D + 300 ELSE 1440 * D + 360
    BY <1>2, <1>4, <2>1
  <2>3. b \in Int /\ b <= u /\ u <= t
    BY <1>1, <1>2, <2>2
  <2> HIDE DEF b
  <2>4. E = D /\ N >= 360 /\ N < 840
    BY <1>1, <1>2, <1>3, <1>6, <2>2, <2>3
  <2>5. WindowType(t) = "Days" /\ WindowType(u) = "Days"
    BY <1>2, <1>6, <2>4, WindowIs DEF M, N
  <2> QED BY <1>2, <1>6, <2>4, <2>5 DEF D, M, E, N
<1>7. CASE M >= 840 /\ M < 1320
  <2> DEFINE b == StartOfWindow(t)
  <2>1. b = ParseDateTime(D, 840)
    BY <1>2, <1>7 DEF StartOfWindow, D, M
  <2>2. b = IF D < C THEN 1440 * D + 780 ELSE 1440 * D + 840
    BY <1>2, <1>4, <2>1
  <2>3. b \in Int /\ b <= u /\ u <= t
    BY <1>1, <1>2, <2>2
  <2> HIDE DEF b
  <2>4. E = D /\ N >= 840 /\ N < 1320
    BY <1>1, <1>2, <1>3, <1>7, <2>2, <2>3
  <2>5. WindowType(t) = "Lates" /\ WindowType(u) = "Lates"
    BY <1>2, <1>7, <2>4, WindowIs DEF M, N
  <2> QED BY <1>2, <1>7, <2>4, <2>5 DEF D, M, E, N
<1>8. CASE M >= 1320
  <2> DEFINE b == StartOfWindow(t)
  <2>1. b = ParseDateTime(D, 1320)
    BY <1>2, <1>8 DEF StartOfWindow, D, M
  <2>2. b = IF D < C THEN 1440 * D + 1260 ELSE 1440 * D + 1320
    BY <1>2, <1>4, <2>1
  <2>3. b \in Int /\ b <= u /\ u <= t
    BY <1>1, <1>2, <2>2
  <2> HIDE DEF b
  <2>4. E = D /\ N >= 1320
    BY <1>1, <1>2, <1>3, <1>8, <2>2, <2>3
  <2>5. WindowType(t) = "Nights" /\ WindowType(u) = "Nights"
    BY <1>2, <1>8, <2>4, WindowIs DEF M, N
  <2> QED BY <1>2, <1>8, <2>4, <2>5 DEF D, M, E, N
<1>9. M < 360 \/ (M >= 360 /\ M < 840) \/ (M >= 840 /\ M < 1320) \/ M >= 1320
  BY <1>2
<1> QED BY <1>5, <1>6, <1>7, <1>8, <1>9

\* A window starts before the instants in it, and after midnight the night started the day before.
LEMMA WindowStarts ==
  ASSUME NEW t \in Int
  PROVE  StartOfWindow(t) \in Int /\ StartOfWindow(t) <= t
<1> DEFINE C == ChangeDay
           D == LocalDay(t)
           M == MinuteOfDay(t)
           b == StartOfWindow(t)
<1>1. C \in Int
  BY ChangeIsSunday
<1>2. /\ D \in Int /\ M \in Int /\ 0 <= M /\ M <= 1439
      /\ 1440 * D + M = IF t < 1440 * C + 60 THEN t + 60 ELSE t
  <2>1. D \in Int /\ M \in Int /\ 0 <= M /\ M <= 1439
    BY LocalIs
  <2>2. 1440 * D + M = IF t < 1440 * C + 60 THEN t + 60 ELSE t
    BY LocalIs
  <2> QED BY <2>1, <2>2
<1>3. \A d \in Int, m \in {360, 840, 1320} :
        ParseDateTime(d, m) = IF d < C THEN 1440 * d + m - 60 ELSE 1440 * d + m
  BY <1>1, Lengths DEF ParseDateTime
<1>4. D - 1 \in Int
  BY <1>2
<1>5. /\ ParseDateTime(D - 1, 1320) = IF D - 1 < C THEN 1440 * (D - 1) + 1260 ELSE 1440 * (D - 1) + 1320
      /\ ParseDateTime(D, 360) = IF D < C THEN 1440 * D + 300 ELSE 1440 * D + 360
      /\ ParseDateTime(D, 840) = IF D < C THEN 1440 * D + 780 ELSE 1440 * D + 840
      /\ ParseDateTime(D, 1320) = IF D < C THEN 1440 * D + 1260 ELSE 1440 * D + 1320
  BY <1>2, <1>3, <1>4
<1>6. b = IF M < 360 THEN ParseDateTime(D - 1, 1320)
          ELSE IF M < 840 THEN ParseDateTime(D, 360)
          ELSE IF M < 1320 THEN ParseDateTime(D, 840) ELSE ParseDateTime(D, 1320)
  BY DEF StartOfWindow
<1> HIDE DEF C, D, M, b
<1>7. b \in Int /\ b <= t
  BY <1>1, <1>2, <1>5, <1>6
<1> QED BY <1>7 DEF b

\* Seven hours before the first hours of a day it is the day before.
LEMMA NightBefore ==
  ASSUME NEW t \in Int, MinuteOfDay(t) < 360
  PROVE  LocalDay(t - 420) = LocalDay(t) - 1
<1> DEFINE C == ChangeDay
           D == LocalDay(t)
           M == MinuteOfDay(t)
           E(u) == LocalDay(u)
           N(u) == MinuteOfDay(u)
<1>1. C \in Int
  BY ChangeIsSunday
<1>2. D \in Int /\ M \in Int /\ 0 <= M /\ M <= 1439 /\ 1440 * D + M = IF t < 1440 * C + 60 THEN t + 60 ELSE t
  <2>1. D \in Int /\ M \in Int /\ 0 <= M /\ M <= 1439
    BY LocalIs
  <2>2. 1440 * D + M = IF t < 1440 * C + 60 THEN t + 60 ELSE t
    BY LocalIs
  <2> QED BY <2>1, <2>2
<1>3. ASSUME NEW u \in Int, u = t - 420 PROVE E(u) = D - 1
  <2>1. E(u) \in Int /\ N(u) \in Int /\ 0 <= N(u) /\ N(u) <= 1439
    BY LocalIs
  <2>2. 1440 * E(u) + N(u) = IF u < 1440 * C + 60 THEN u + 60 ELSE u
    BY LocalIs
  <2> HIDE DEF C, D, E, N
  <2>3. 0 <= M /\ M < 360
    BY <1>2
  <2> HIDE DEF M
  <2>4. 1440 * (D - 1) <= 1440 * E(u) + N(u) /\ 1440 * E(u) + N(u) <= 1440 * (D - 1) + 1439
    BY <1>1, <1>2, <1>3, <2>1, <2>2, <2>3
  <2>5. D - 1 \in Int /\ 0 \in 0 .. 1439 /\ 1439 \in 0 .. 1439
    BY <1>2
  <2>6. E(u) <= D - 1
    BY <1>2, <2>1, <2>4
  <2>7. D - 1 <= E(u)
    BY <1>2, <2>1, <2>4
  <2> QED BY <1>2, <2>1, <2>6, <2>7
<1>4. t - 420 \in Int
  OBVIOUS
<1> HIDE DEF D
<1>5. E(t - 420) = D - 1
  BY <1>3, <1>4
<1> QED BY <1>5 DEF D

-------------------------------------------------------------------------------
(***************************************************************************)
(* The segments of a shift                                                 *)
(***************************************************************************)

LEMMA AscendingLists ==
  ASSUME NEW S, IsFiniteSet(S), S \subseteq Int
  PROVE  /\ Cardinality(S) \in Nat
         /\ Ascending(S) \in [1 .. Cardinality(S) -> S]
         /\ \A x \in S : \E k \in 1 .. Cardinality(S) : Ascending(S)[k] = x
         /\ \A i, j \in 1 .. Cardinality(S) : i < j <=> Ascending(S)[i] < Ascending(S)[j]
<1> DEFINE R == {p \in S \X S : p[1] < p[2]}
           n == Cardinality(S)
           r == Ascending(S)
<1>1. \A x, y \in S : <<x, y>> \in R <=> x < y
  OBVIOUS
<1>2. r = Ordered(S, R)
  BY DEF Ascending
<1> HIDE DEF R
<1>3. Orders(R, S)
  BY <1>1 DEF Orders
<1>4. /\ r \in [1 .. n -> S]
      /\ \A x \in S : \E k \in 1 .. n : r[k] = x
      /\ \A i, j \in 1 .. n : i < j <=> <<r[i], r[j]>> \in R
  BY <1>2, <1>3, OrderedLists
<1>5. n \in Nat
  BY FS_CardinalityType
<1> HIDE DEF r, n
<1>6. \A i, j \in 1 .. n : i < j <=> r[i] < r[j]
  BY <1>1, <1>4
<1> QED BY <1>4, <1>5, <1>6 DEF r, n

\* The instants at which a window begins, of the days BuildBoundaries looks at
WindowBounds(start, end) ==
  {ParseDateTime(d, h * Hour) : d \in LocalDay(start) - 1 .. LocalDay(end) + 1, h \in {6, 14, 22}}

LEMMA BoundsAre ==
  ASSUME NEW start \in Int, NEW end \in Int, start <= end
  PROVE  LET b == BuildBoundaries(start, end)
             n == Len(b)
         IN /\ n \in Nat /\ n >= 1 /\ b \in Seq(Int)
            /\ b[1] = start /\ b[n] = end
            /\ \A k \in 1 .. n : b[k] \in start .. end
            /\ \A i, j \in 1 .. n : i < j <=> b[i] < b[j]
            /\ \A k \in 1 .. n : b[k] \in {start, end} \cup WindowBounds(start, end)
            /\ \A x \in WindowBounds(start, end) :
                 (start < x /\ x < end) => \E k \in 1 .. n : b[k] = x
<1> DEFINE b == BuildBoundaries(start, end)
           n == Len(b)
           all == WindowBounds(start, end)
           S == {start, end} \cup {x \in all : start < x /\ x < end}
           m == Cardinality(S)
<1>1. b = Ascending(S)
  BY DEF BuildBoundaries, WindowBounds
<1>2. all \subseteq Int
  <2>1. LocalDay(start) \in Int /\ LocalDay(end) \in Int
    BY LocalIs
  <2>2. \A d \in LocalDay(start) - 1 .. LocalDay(end) + 1, h \in {6, 14, 22} :
          ParseDateTime(d, h * Hour) \in Int
    BY <2>1, ChangeIsSunday, Lengths DEF ParseDateTime
  <2> QED BY <2>2 DEF WindowBounds
<1>3. S \subseteq start .. end /\ S \subseteq Int /\ start \in S /\ end \in S
  BY <1>2
<1>4. IsFiniteSet(S)
  <2>1. IsFiniteSet(start .. end)
    BY FS_Interval
  <2>2. S \in SUBSET (start .. end)
    BY <1>3
  <2> HIDE DEF S
  <2> QED BY <2>1, <2>2, FS_Subset
<1>5. S \subseteq {start, end} \cup all /\ \A x \in all : (start < x /\ x < end) => x \in S
  OBVIOUS
<1> HIDE DEF S, b, all
<1>6. /\ m \in Nat /\ b \in [1 .. m -> S]
      /\ \A x \in S : \E k \in 1 .. m : b[k] = x
      /\ \A i, j \in 1 .. m : i < j <=> b[i] < b[j]
  BY <1>1, <1>3, <1>4, AscendingLists
<1> HIDE DEF m
<1>7. b \in Seq(Int) /\ n = m
  <2>1. b \in [1 .. m -> Int]
    BY <1>3, <1>6
  <2> QED BY <1>6, <2>1
<1> HIDE DEF n
<1>8. \A k \in 1 .. n : b[k] \in S
  BY <1>6, <1>7
<1>9. n >= 1 /\ b[1] = start
  <2>1. PICK k \in 1 .. n : b[k] = start
    BY <1>3, <1>6, <1>7
  <2>2. 1 \in 1 .. n /\ n >= 1
    BY <1>6, <1>7, <2>1
  <2>3. b[1] \in start .. end
    BY <1>3, <1>8, <2>2
  <2>4. ~(1 < k)
    <3>1. 1 < k => b[1] < b[k]
      BY <1>6, <1>7, <2>2
    <3>2. ~(b[1] < b[k])
      BY <2>1, <2>3
    <3> QED BY <3>1, <3>2
  <2>5. k = 1
    BY <2>4
  <2> QED BY <2>1, <2>2, <2>5
<1>10. b[n] = end
  <2>1. PICK k \in 1 .. n : b[k] = end
    BY <1>3, <1>6, <1>7
  <2>2. n \in 1 .. n
    BY <1>6, <1>7, <1>9
  <2>3. b[n] \in start .. end
    BY <1>3, <1>8, <2>2
  <2>4. ~(k < n)
    <3>1. k < n => b[k] < b[n]
      BY <1>6, <1>7, <2>2
    <3>2. ~(b[k] < b[n])
      BY <2>1, <2>3
    <3> QED BY <3>1, <3>2
  <2>5. k = n
    BY <1>6, <1>7, <2>4
  <2> QED BY <2>1, <2>5
<1>11. \A k \in 1 .. n : b[k] \in start .. end
  BY <1>3, <1>8
<1>12. \A k \in 1 .. n : b[k] \in {start, end} \cup all
  BY <1>5, <1>8
<1>13. \A x \in all : (start < x /\ x < end) => \E k \in 1 .. n : b[k] = x
  BY <1>5, <1>6, <1>7
<1> QED BY <1>6, <1>7, <1>9, <1>10, <1>11, <1>12, <1>13 DEF b, n, all

\* The window an instant lies in begins at one of the boundaries.
LEMMA WindowStartsInBounds ==
  ASSUME NEW start \in Int, NEW end \in Int, NEW t \in Int, start <= t, t <= end
  PROVE  StartOfWindow(t) \in WindowBounds(start, end)
<1> DEFINE D == LocalDay(t)
           L == LocalDay(start)
           U == LocalDay(end)
           M == MinuteOfDay(t)
<1>1. D \in Int /\ L \in Int /\ U \in Int
  BY LocalIs
<1>2. L <= D /\ D <= U
  BY DaysAscend
<1> HIDE DEF D, L, U, M
<1>3. D - 1 \in L - 1 .. U + 1 /\ D \in L - 1 .. U + 1
  BY <1>1, <1>2
<1>4. 6 * Hour = 360 /\ 14 * Hour = 840 /\ 22 * Hour = 1320
  BY Lengths
<1>5. \A d \in L - 1 .. U + 1, h \in {6, 14, 22} : ParseDateTime(d, h * Hour) \in WindowBounds(start, end)
  BY DEF WindowBounds, L, U
<1>6. /\ ParseDateTime(D - 1, 1320) \in WindowBounds(start, end)
      /\ ParseDateTime(D, 360) \in WindowBounds(start, end)
      /\ ParseDateTime(D, 840) \in WindowBounds(start, end)
      /\ ParseDateTime(D, 1320) \in WindowBounds(start, end)
  <2>1. \A d \in L - 1 .. U + 1 : /\ ParseDateTime(d, 6 * Hour) \in WindowBounds(start, end)
                                  /\ ParseDateTime(d, 14 * Hour) \in WindowBounds(start, end)
                                  /\ ParseDateTime(d, 22 * Hour) \in WindowBounds(start, end)
    BY <1>5
  <2> QED BY <1>3, <1>4, <2>1
<1>7. StartOfWindow(t) = IF M < 360 THEN ParseDateTime(D - 1, 1320)
                         ELSE IF M < 840 THEN ParseDateTime(D, 360)
                         ELSE IF M < 1320 THEN ParseDateTime(D, 840) ELSE ParseDateTime(D, 1320)
  BY DEF StartOfWindow, D, M
<1> QED BY <1>6, <1>7

\* A boundary that is not the start of the shift is the start of a window.
LEMMA BoundIsStart ==
  ASSUME NEW start \in Int, NEW end \in Int, NEW x \in WindowBounds(start, end)
  PROVE  x \in Int /\ MinuteOfDay(x) \in {360, 840, 1320}
<1>1. LocalDay(start) \in Int /\ LocalDay(end) \in Int
  BY LocalIs
<1>2. PICK d \in LocalDay(start) - 1 .. LocalDay(end) + 1, h \in {6, 14, 22} :
        x = ParseDateTime(d, h * Hour)
  BY DEF WindowBounds
<1> DEFINE m == h * Hour
<1>3. d \in Int /\ m \in {360, 840, 1320} /\ m \in Int /\ 0 <= m /\ m <= 1439
  BY <1>1, Lengths
<1> HIDE DEF m
<1>4. ParseDateTime(d, m) \in Int /\ MinuteOfDay(ParseDateTime(d, m)) = m
  BY <1>3, ShownIs
<1> QED BY <1>2, <1>3, <1>4 DEF m

LEMMA SameDay ==
  ASSUME NEW u, NEW v, LocalDay(u) = LocalDay(v)
  PROVE  DayCategory(u) = DayCategory(v)
BY DEF DayCategory

\* Every instant of a segment is of the window and the day the segment is priced by.
LEMMA SegmentPrice ==
  ASSUME NEW shift \in ShiftRows, NEW end \in Int, StartOf(shift) <= end,
         NEW k \in 1 .. Len(BuildBoundaries(StartOf(shift), end)) - 1, NEW t \in Int,
         BuildBoundaries(StartOf(shift), end)[k] <= t,
         t < BuildBoundaries(StartOf(shift), end)[k + 1]
  PROVE  /\ WindowType(BuildBoundaries(StartOf(shift), end)[k]) = WindowType(t)
         /\ DayCategory(BuildBoundaries(StartOf(shift), end)[k]) = DayCategory(PricedDay(t, shift))
<1> DEFINE start == StartOf(shift)
           b == BuildBoundaries(start, end)
           n == Len(b)
           u == b[k]
           w == StartOfWindow(t)
           all == WindowBounds(start, end)
<1>1. start \in Int /\ LocalDay(start) = shift.date
  <2>0. PICK d, m : d = shift.date /\ m = shift.start
    OBVIOUS
  <2>1. shift.date \in Nat /\ shift.start \in 0 .. 1439
    BY RowFields
  <2>2. d \in Int /\ m \in Int /\ 0 <= m /\ m <= 1439
    <3>1. d \in Nat /\ m \in 0 .. 1439
      BY <2>0, <2>1, Zenon
    <3> QED BY <3>1
  <2>3. ParseDateTime(d, m) \in Int
    BY <2>2, ShownIs
  <2>4. LocalDay(ParseDateTime(d, m)) = d
    BY <2>2, ShownIs
  <2> QED BY <2>0, <2>3, <2>4 DEF StartOf
<1>2. u <= t /\ t < b[k + 1] /\ start <= end /\ k \in 1 .. n - 1
  OBVIOUS
<1> HIDE DEF start
<1>3. /\ n \in Nat /\ n >= 1 /\ b \in Seq(Int)
      /\ \A i \in 1 .. n : b[i] \in start .. end
      /\ \A i, j \in 1 .. n : i < j <=> b[i] < b[j]
      /\ \A i \in 1 .. n : b[i] \in {start, end} \cup all
      /\ \A x \in all : (start < x /\ x < end) => \E i \in 1 .. n : b[i] = x
      /\ b[n] = end
  BY <1>1, <1>2, BoundsAre
<1> HIDE DEF b, n
<1>4. k \in 1 .. n /\ k + 1 \in 1 .. n /\ k < n /\ n \in 1 .. n
  BY <1>2, <1>3
<1>5. u \in start .. end /\ b[k + 1] \in start .. end
  BY <1>3, <1>4
<1> HIDE DEF all
<1>6. w \in Int /\ w <= t /\ w \in all
  <2>1. start <= t /\ t <= end
    BY <1>1, <1>2, <1>5
  <2> QED BY <1>1, <2>1, WindowStarts, WindowStartsInBounds DEF all
<1> HIDE DEF w, u
<1>7. w <= u
  <2> SUFFICES ASSUME u < w PROVE FALSE
    BY <1>5, <1>6
  <2>1. start < w /\ w < end
    BY <1>1, <1>2, <1>5, <1>6
  <2>2. PICK i \in 1 .. n : b[i] = w
    BY <1>3, <1>6, <2>1
  <2>3. b[k] < b[i] /\ b[i] < b[k + 1]
    BY <1>1, <1>2, <1>5, <1>6, <2>2 DEF u
  <2>4. k < i /\ i < k + 1
    BY <1>3, <1>4, <2>3
  <2> QED BY <1>4, <2>4
<1>8. u \in Int
  BY <1>1, <1>5
<1> DEFINE D == LocalDay(t)
           M == MinuteOfDay(t)
           E == LocalDay(u)
           N == MinuteOfDay(u)
<1>9. /\ WindowType(u) = WindowType(t)
      /\ E = D \/ (E = D - 1 /\ N >= 1320 /\ M < 360)
      /\ (E = D /\ M < 360) => N < 360
  BY <1>2, <1>7, <1>8, InWindow DEF w
<1>10. D \in Int /\ E \in Int /\ LocalDay(start) \in Int
  <2>1. \A x \in Int : LocalDay(x) \in Int
    BY LocalIs
  <2> QED BY <1>1, <1>8, <2>1
<1>11. M \in Int /\ N \in Int
  <2>1. \A x \in Int : MinuteOfDay(x) \in Int
    BY LocalIs
  <2> QED BY <1>8, <2>1
<1>12. LocalDay(start) <= E
  BY <1>1, <1>5, <1>8, DaysAscend
<1>13. LocalDay(t - 420) = D - 1 \/ ~(M < 360)
  BY NightBefore
<1>14. u = start \/ N \in {360, 840, 1320}
  <2>1. u \in {start, end} \cup all
    BY <1>3, <1>4 DEF u
  <2>2. u # end
    <3>1. b[k] < b[n]
      BY <1>3, <1>4
    <3> QED BY <1>1, <1>3, <1>5, <3>1 DEF u
  <2>3. u \in all => N \in {360, 840, 1320}
    BY <1>1, BoundIsStart DEF all
  <2> QED BY <2>1, <2>2, <2>3
<1>15. PricedDay(t, shift) = IF M < 360 /\ D > shift.date THEN t - 420 ELSE t
  <2>1. 6 * Hour = 360 /\ 7 * Hour = 420
    BY Lengths
  <2> QED BY <2>1 DEF PricedDay
<1> PICK date : date = shift.date
  OBVIOUS
<1> HIDE DEF D, M, N
<1>16. LocalDay(u) = LocalDay(PricedDay(t, shift))
  <2>1. CASE M < 360 /\ D > date
    <3>1. LocalDay(PricedDay(t, shift)) = D - 1
      BY <1>13, <1>15, <2>1
    <3>2. E = D - 1
      <4>1. CASE u = start
        <5>1. E = date
          BY <1>1, <4>1
        <5>2. E # D
          BY <1>10, <2>1, <5>1
        <5> QED BY <1>9, <5>2
      <4>2. CASE N \in {360, 840, 1320}
        BY <1>9, <1>11, <2>1, <4>2
      <4> QED BY <1>14, <4>1, <4>2
    <3> QED BY <3>1, <3>2
  <2>2. CASE M < 360 /\ ~(D > date)
    <3>1. LocalDay(PricedDay(t, shift)) = D
      BY <1>15, <2>2 DEF D
    <3>2. date <= E /\ date \in Int
      BY <1>1, <1>10, <1>12
    <3>3. E = D \/ E = D - 1
      BY <1>9
    <3> HIDE DEF E
    <3>4. E = D
      BY <1>10, <2>2, <3>2, <3>3
    <3> QED BY <3>1, <3>4 DEF E
  <2>3. CASE ~(M < 360)
    <3>1. LocalDay(PricedDay(t, shift)) = D
      BY <1>15, <2>3 DEF D
    <3>2. E = D
      BY <1>9, <2>3
    <3> QED BY <3>1, <3>2
  <2> QED BY <2>1, <2>2, <2>3
<1>17. DayCategory(u) = DayCategory(PricedDay(t, shift))
  BY <1>16, SameDay
<1> QED BY <1>9, <1>17 DEF u, b, start

-------------------------------------------------------------------------------
(***************************************************************************)
(* Slots                                                                   *)
(***************************************************************************)

LEMMA SlotPositive == Slot \in Int /\ Slot > 0
BY ShiftInputs

LEMMA Distributes ==
  ASSUME NEW q \in Int, NEW r \in Int
  PROVE  /\ Slot * q \in Int /\ Slot * q + Slot * r = Slot * (q + r)
         /\ Slot * q - Slot * r = Slot * (q - r)
BY SlotPositive

LEMMA Associates ==
  ASSUME NEW q \in Int, NEW r \in Int
  PROVE  (Slot * q) * r = Slot * (q * r)
BY SlotPositive

LEMMA SlotsDiffer ==
  ASSUME NEW q \in Int, NEW r \in Int
  PROVE  /\ Slot * q < Slot * r <=> q < r
         /\ Slot * q = Slot * r <=> q = r
BY SlotPositive

LEMMA WholeSlots ==
  ASSUME NEW x \in Int, x % Slot = 0
  PROVE  x \div Slot \in Int /\ x = Slot * (x \div Slot)
BY SlotPositive

\* The times of the model are on a grid.
OnGrid(x) == \E q \in Int : x = Slot * q

LEMMA GridSums ==
  ASSUME NEW x \in Int, NEW y \in Int, OnGrid(x), OnGrid(y)
  PROVE  OnGrid(x + y) /\ OnGrid(x - y)
<1>1. PICK q \in Int : x = Slot * q
  BY DEF OnGrid
<1>2. PICK r \in Int : y = Slot * r
  BY DEF OnGrid
<1>3. q + r \in Int /\ q - r \in Int
  OBVIOUS
<1>4. x + y = Slot * (q + r) /\ x - y = Slot * (q - r)
  BY <1>1, <1>2, Distributes
<1> QED BY <1>3, <1>4 DEF OnGrid

LEMMA HoursOnGrid ==
  ASSUME NEW z \in Int
  PROVE  OnGrid(60 * z)
<1>1. 60 % Slot = 0 /\ 60 \in Int
  BY ShiftInputs, Lengths
<1>2. PICK c \in Int : 60 = Slot * c
  BY <1>1, WholeSlots
<1>3. 60 * z = Slot * (c * z)
  BY <1>2, Associates
<1>4. c * z \in Int
  OBVIOUS
<1> QED BY <1>3, <1>4 DEF OnGrid

LEMMA InputsOnGrid ==
  ASSUME NEW x \in Int, x % Slot = 0
  PROVE  OnGrid(x)
BY WholeSlots DEF OnGrid

LEMMA ParsedOnGrid ==
  ASSUME NEW d \in Int, NEW m \in Int, OnGrid(m)
  PROVE  OnGrid(ParseDateTime(d, m))
<1> DEFINE z == IF d < ChangeDay \/ (d = ChangeDay /\ m < 120) THEN 24 * d - 1 ELSE 24 * d
<1>1. z \in Int
  OBVIOUS
<1>2. ParseDateTime(d, m) = 60 * z + m
  <2>1. CASE d < ChangeDay \/ (d = ChangeDay /\ m < 120)
    <3>1. ParseDateTime(d, m) = 1440 * d + m - 60
      BY <2>1, ParseIs
    <3>2. z = 24 * d - 1
      BY <2>1
    <3> QED BY <3>1, <3>2
  <2>2. CASE ~(d < ChangeDay \/ (d = ChangeDay /\ m < 120))
    <3>1. ParseDateTime(d, m) = 1440 * d + m
      BY <2>2, ParseIs
    <3>2. z = 24 * d
      BY <2>2
    <3> QED BY <3>1, <3>2
  <2> QED BY <2>1, <2>2
<1> HIDE DEF z
<1>3. OnGrid(60 * z) /\ 60 * z \in Int
  BY <1>1, HoursOnGrid
<1> QED BY <1>2, <1>3, GridSums

LEMMA BoundsOnGrid ==
  ASSUME NEW start \in Int, NEW end \in Int, NEW x \in WindowBounds(start, end)
  PROVE  OnGrid(x)
<1>1. LocalDay(start) \in Int /\ LocalDay(end) \in Int
  BY LocalIs
<1>2. PICK d \in LocalDay(start) - 1 .. LocalDay(end) + 1, h \in {6, 14, 22} :
        x = ParseDateTime(d, h * Hour)
  BY DEF WindowBounds
<1> DEFINE m == h * Hour
<1>3. d \in Int /\ h \in Int /\ m = 60 * h
  BY <1>1, Lengths
<1> HIDE DEF m
<1>4. OnGrid(60 * h) /\ m \in Int
  BY <1>3, HoursOnGrid
<1>5. OnGrid(ParseDateTime(d, m))
  BY <1>3, <1>4, ParsedOnGrid
<1> QED BY <1>2, <1>5 DEF m

-------------------------------------------------------------------------------
(***************************************************************************)
(* A sum over segments is the sum over their slots                         *)
(***************************************************************************)

LEMMA OneMore ==
  ASSUME NEW i \in Int, NEW c \in Int
  PROVE  (i + 1) * c = i * c + c /\ i * c \in Int
OBVIOUS

\* n segments, the k-th from the slot at[k - 1] on up to the slot at[k]
LEMMA SlotSums ==
  ASSUME NEW n \in Nat, NEW N \in Nat, NEW at \in [0 .. n -> Int], at[0] = 0, at[n] = N,
         \A k \in 1 .. n : at[k - 1] <= at[k],
         NEW rate \in [1 .. n -> Int],
         NEW f \in [0 .. N -> Int], f[0] = 0,
         \A k \in 1 .. n : \A j \in at[k - 1] + 1 .. at[k] : f[j] = f[j - 1] + Slot * rate[k],
         NEW g \in [0 .. n -> Int], g[0] = 0,
         \A k \in 1 .. n : g[k] = g[k - 1] + (Slot * (at[k] - at[k - 1])) * rate[k]
  PROVE  g[n] = f[N]
<1>0. ASSUME NEW c \in Int, NEW a \in Int, NEW b \in Int, a <= b, f[a] \in Int,
              \A j \in a + 1 .. b : f[j] = f[j - 1] + c
       PROVE  f[b] = f[a] + (b - a) * c
  <2> DEFINE m == b - a
             Z == {i \in 0 .. m : f[a + i] = f[a] + i * c}
  <2>1. m \in Nat
    BY <1>0
  <2>2. 0 \in Z
    BY <1>0, <2>1
  <2>3. ASSUME NEW i \in 0 .. m - 1, i \in Z PROVE i + 1 \in Z
    <3> DEFINE j == a + (i + 1)
    <3>1. j \in a + 1 .. b /\ j - 1 = a + i /\ i + 1 \in 0 .. m /\ i \in Int
      OBVIOUS
    <3>2. f[j] = f[a + i] + c
      BY <1>0, <3>1
    <3>3. f[a + i] = f[a] + i * c
      BY <2>3
    <3>4. (i + 1) * c = i * c + c /\ i * c \in Int
      BY <3>1, OneMore
    <3> DEFINE x == i * c
               y == (i + 1) * c
               w == f[a]
    <3>5. f[j] = w + x + c /\ y = x + c /\ x \in Int /\ w \in Int
      BY <1>0, <3>2, <3>3, <3>4
    <3> HIDE DEF x, y, w
    <3>6. f[j] = w + y
      BY <3>5
    <3> QED BY <3>1, <3>6 DEF w, y
  <2>4. 0 .. m \subseteq Z
    <3> HIDE DEF Z, m
    <3> QED BY <2>1, <2>2, <2>3, Induction
  <2>5. m \in Z
    <3> HIDE DEF Z, m
    <3>1. m \in 0 .. m
      BY <2>1
    <3> QED BY <2>4, <3>1
  <2>6. f[a + m] = f[a] + m * c
    BY <2>5
  <2>7. a + m = b
    OBVIOUS
  <2> QED BY <2>6, <2>7
<1> DEFINE T == {k \in 0 .. n : at[k] >= 0 /\ f[at[k]] \in Int /\ g[k] = f[at[k]]}
<1>1. 0 \in T
  OBVIOUS
<1>2. ASSUME NEW i \in 0 .. n - 1, i \in T PROVE i + 1 \in T
  <2> DEFINE k == i + 1
             a == at[i]
             b == at[k]
             r == rate[k]
             c == Slot * r
  <2>1. k \in 1 .. n /\ k \in 0 .. n /\ k - 1 = i /\ i \in 0 .. n
    OBVIOUS
  <2> HIDE DEF k
  <2>2. a \in Int /\ b \in Int /\ a <= b /\ 0 <= a /\ f[a] \in Int /\ g[i] = f[a]
    BY <1>2, <2>1
  <2>3. r \in Int
    BY <2>1
  <2>4. \A j \in a + 1 .. b : f[j] = f[j - 1] + c
    BY <2>1
  <2>5. g[k] = g[i] + (Slot * (b - a)) * r
    BY <2>1
  <2> HIDE DEF a, b, r
  <2>6. c \in Int /\ (Slot * (b - a)) * r = (b - a) * c /\ (b - a) * c \in Int
    BY <2>2, <2>3, SlotPositive
  <2> HIDE DEF c
  <2>7. f[b] = f[a] + (b - a) * c
    BY <1>0, <2>2, <2>4, <2>6
  <2>8. g[k] = f[b] /\ f[b] \in Int
    BY <2>2, <2>5, <2>6, <2>7
  <2> QED BY <2>1, <2>2, <2>8 DEF b, k
<1>3. 0 .. n \subseteq T
  <2> HIDE DEF T
  <2> QED BY <1>1, <1>2, Induction
<1>4. n \in T
  <2> HIDE DEF T
  <2> QED BY <1>3
<1> QED BY <1>4

-------------------------------------------------------------------------------
(***************************************************************************)
(* Pay                                                                     *)
(***************************************************************************)

LEMMA PaidIs ==
  ASSUME NEW row \in ShiftRows
  PROVE  LET d == ComputeDuration(row)
         IN /\ d.start = StartOf(row) /\ d.paidMinutes \in Nat /\ OnGrid(d.paidMinutes)
            /\ d.paidEnd = StartOf(row) + d.paidMinutes
<1> DEFINE d == ComputeDuration(row)
           start == StartOf(row)
           end == EndOf(row)
           left == end - start - row.breakMinutes
<1>1. start \in Int /\ end \in Int /\ row.breakMinutes \in Nat
  BY ShiftInts, RowFields
<1>2. d.start = start /\ d.paidMinutes = Max({left, 0}) /\ d.paidEnd = start + Max({left, 0})
  BY Lengths DEF ComputeDuration, StartOf, EndOf
<1>3. OnGrid(start) /\ OnGrid(end)
  <2>1. row.date \in Nat /\ row.start \in 0 .. 1439 /\ row.end \in 0 .. 1439
    BY RowFields
  <2>2. row.start \in Starts /\ row.end \in Ends
    BY DEF ShiftRows
  <2>3. row.start % Slot = 0 /\ row.end % Slot = 0
    BY <2>2, ShiftInputs
  <2>4a. PICK date \in Nat : date = row.date
    BY <2>1
  <2>4b. PICK m \in 0 .. 1439 : m = row.start
    BY <2>1
  <2>4c. PICK e \in 0 .. 1439 : e = row.end
    BY <2>1
  <2>4. date = row.date /\ m = row.start /\ e = row.end
    BY <2>4a, <2>4b, <2>4c
  <2>5. date \in Int /\ m \in Int /\ e \in Int /\ m % Slot = 0 /\ e % Slot = 0
    <3>1. date \in Int /\ m \in Int /\ e \in Int
      OBVIOUS
    <3> QED BY <2>3, <2>4b, <2>4c, <3>1
  <2>6. OnGrid(m) /\ OnGrid(e)
    BY <2>5, InputsOnGrid
  <2> DEFINE from == ParseDateTime(date, m)
             until == ParseDateTime(date, e)
  <2>7. OnGrid(from) /\ OnGrid(until)
    BY <2>5, <2>6, ParsedOnGrid
  <2>8. until \in Int
    BY <2>5, ParseIs
  <2>9. start = from
    BY <2>4 DEF StartOf
  <2>10. end = until \/ end = until + 1440
    <3>1. EndOf(row) = IF ParseDateTime(row.date, row.end) <= StartOf(row)
                         THEN ParseDateTime(row.date, row.end) + 1440
                         ELSE ParseDateTime(row.date, row.end)
      BY ShiftTimes
    <3>2. ParseDateTime(row.date, row.end) = until
      BY <2>4
    <3> HIDE DEF until
    <3> QED BY <3>1, <3>2
  <2> HIDE DEF from, until, start, end
  <2>11. PICK z \in Int : z = 24
    OBVIOUS
  <2>12. OnGrid(60 * z) /\ 60 * z = 1440
    <3>1. OnGrid(60 * z)
      BY HoursOnGrid
    <3>2. 60 * z = 1440
      BY <2>11
    <3> QED BY <3>1, <3>2
  <2>13. OnGrid(until + 1440)
    BY <2>7, <2>8, <2>12, GridSums
  <2> QED BY <2>7, <2>9, <2>10, <2>13
<1>4. OnGrid(row.breakMinutes)
  <2>1. row.breakMinutes \in Breaks
    BY DEF ShiftRows
  <2>2. row.breakMinutes % Slot = 0
    BY <2>1, ShiftInputs
  <2>3. PICK x : x = row.breakMinutes
    OBVIOUS
  <2>4. x \in Int /\ x % Slot = 0
    BY <1>1, <2>2, <2>3
  <2>5. OnGrid(x)
    BY <2>4, InputsOnGrid
  <2> QED BY <2>3, <2>5
<1>5. left \in Int /\ OnGrid(left)
  <2>1. PICK x : x = row.breakMinutes
    OBVIOUS
  <2>2. x \in Int /\ OnGrid(x)
    BY <1>1, <1>4, <2>1
  <2> HIDE DEF start, end
  <2>3. end - start \in Int /\ OnGrid(end - start)
    BY <1>1, <1>3, GridSums
  <2>4. PICK y : y = end - start
    OBVIOUS
  <2>5. y \in Int /\ OnGrid(y)
    BY <2>3, <2>4
  <2>6. OnGrid(y - x) /\ y - x \in Int
    BY <2>2, <2>5, GridSums
  <2> QED BY <2>1, <2>4, <2>6
<1>6. OnGrid(0)
  <2>1. 60 * 0 = 0 /\ 0 \in Int
    OBVIOUS
  <2> QED BY <2>1, HoursOnGrid
<1> HIDE DEF left
<1>7. CASE left >= 0
  <2>1. Max({left, 0}) = left
    BY <1>5, <1>7, MaxIs
  <2> QED BY <1>2, <1>5, <1>7, <2>1
<1>8. CASE left < 0
  <2>1. Max({left, 0}) = 0
    BY <1>5, <1>8, MaxIs
  <2> QED BY <1>2, <1>6, <2>1
<1> QED BY <1>5, <1>7, <1>8

\* The segments of a shift, by the slots they consist of
LEMMA SegmentsAre ==
  ASSUME NEW shift \in ShiftRows, NEW N \in Nat
  PROVE  LET start == StartOf(shift)
             segs == Segments(start, start + Slot * N)
         IN \E n \in Nat : \E at \in [0 .. n -> Int] :
              /\ DOMAIN segs = 1 .. n /\ Len(segs) = n
              /\ at[0] = 0 /\ at[n] = N
              /\ \A k \in 1 .. n : /\ at[k - 1] < at[k]
                                   /\ segs[k].minutes = Slot * (at[k] - at[k - 1])
              /\ \A k \in 1 .. n : \A j \in at[k - 1] + 1 .. at[k] :
                   /\ segs[k].cat = DayCategory(PricedDay(start + Slot * (j - 1), shift))
                   /\ segs[k].win = WindowType(start + Slot * (j - 1))
<1> DEFINE start == StartOf(shift)
           end == start + Slot * N
           segs == Segments(start, end)
           b == BuildBoundaries(start, end)
           all == WindowBounds(start, end)
           n == Len(b) - 1
<1>1. start \in Int /\ Slot \in Int /\ Slot > 0
  BY ShiftInts, SlotPositive
<1>2. Slot * N \in Int /\ Slot * N >= 0
  BY <1>1
<1>3. end \in Int /\ start <= end
  BY <1>1, <1>2
<1>4. OnGrid(start)
  <2>1. PICK date, m : date = shift.date /\ m = shift.start
    OBVIOUS
  <2>2. date \in Int /\ m \in Int /\ m % Slot = 0
    <3>1. shift.date \in Nat /\ shift.start \in 0 .. 1439 /\ shift.start \in Starts
      BY RowFields DEF ShiftRows
    <3>2. date \in Nat /\ m \in 0 .. 1439 /\ m \in Starts
      BY <2>1, <3>1, Zenon
    <3> QED BY <3>2, ShiftInputs
  <2>3. OnGrid(m)
    BY <2>2, InputsOnGrid
  <2>4. OnGrid(ParseDateTime(date, m))
    BY <2>2, <2>3, ParsedOnGrid
  <2> QED BY <2>1, <2>4 DEF StartOf
<1>5. OnGrid(end)
  <2>1. PICK x : x = Slot * N
    OBVIOUS
  <2>2. N \in Int /\ x \in Int
    BY <1>2, <2>1
  <2>3. OnGrid(x)
    BY <2>1, <2>2 DEF OnGrid
  <2> HIDE DEF start
  <2>4. OnGrid(start + x)
    BY <1>1, <1>4, <2>2, <2>3, GridSums
  <2> QED BY <2>1, <2>4
<1>6. \A k \in DOMAIN segs : segs[k] = [cat |-> DayCategory(b[k]), win |-> WindowType(b[k]),
                                        minutes |-> b[k + 1] - b[k]]
  BY DEF Segments
<1>7. segs = [k \in 1 .. n |-> [cat |-> DayCategory(b[k]), win |-> WindowType(b[k]),
                                minutes |-> b[k + 1] - b[k]]]
  BY DEF Segments
<1> HIDE DEF segs
<1>8. /\ Len(b) \in Nat /\ Len(b) >= 1 /\ b[1] = start /\ b[Len(b)] = end
      /\ \A k \in 1 .. Len(b) : b[k] \in start .. end
      /\ \A i, j \in 1 .. Len(b) : i < j <=> b[i] < b[j]
      /\ \A k \in 1 .. Len(b) : b[k] \in {start, end} \cup all
  <2> HIDE DEF start, end
  <2> QED BY <1>1, <1>3, BoundsAre
<1>9. SUFFICES \E at \in [0 .. n -> Int] :
                 /\ DOMAIN segs = 1 .. n /\ Len(segs) = n
                 /\ at[0] = 0 /\ at[n] = N
                 /\ \A k \in 1 .. n : /\ at[k - 1] < at[k]
                                      /\ segs[k].minutes = Slot * (at[k] - at[k - 1])
                 /\ \A k \in 1 .. n : \A j \in at[k - 1] + 1 .. at[k] :
                      /\ segs[k].cat = DayCategory(PricedDay(start + Slot * (j - 1), shift))
                      /\ segs[k].win = WindowType(start + Slot * (j - 1))
  <2>1. n \in Nat
    BY <1>8
  <2> HIDE DEF n
  <2> QED BY <1>9, <2>1 DEF segs
<1> HIDE DEF b, all
<1>10. n \in Nat /\ n + 1 = Len(b)
  BY <1>8
<1> HIDE DEF n
<1>11. \A k \in 0 .. n : \E q \in Int : b[k + 1] = start + Slot * q
  <2> TAKE k \in 0 .. n
  <2>1. PICK x : x = b[k + 1]
    OBVIOUS
  <2>2. k + 1 \in 1 .. Len(b)
    BY <1>10
  <2>3. x \in start .. end /\ x \in {start, end} \cup all
    BY <1>8, <2>1, <2>2
  <2>4. x \in Int
    BY <1>1, <1>3, <2>3
  <2> HIDE DEF start, end
  <2>5. OnGrid(x)
    <3>1. x \in all => OnGrid(x)
      BY <1>1, <1>3, BoundsOnGrid DEF all
    <3> QED BY <1>4, <1>5, <2>3, <3>1
  <2>6. OnGrid(x - start)
    BY <1>1, <1>4, <2>4, <2>5, GridSums
  <2>7. PICK q \in Int : x - start = Slot * q
    BY <2>6 DEF OnGrid
  <2>8. Slot * q \in Int
    BY <1>1
  <2>9. x = start + Slot * q
    BY <1>1, <2>4, <2>7, <2>8
  <2> QED BY <2>1, <2>9
<1> DEFINE at == [k \in 0 .. n |-> CHOOSE q \in Int : b[k + 1] = start + Slot * q]
<1>12. \A k \in 0 .. n : at[k] \in Int /\ b[k + 1] = start + Slot * at[k]
  <2> TAKE k \in 0 .. n
  <2>1. at[k] = CHOOSE q \in Int : b[k + 1] = start + Slot * q
    OBVIOUS
  <2>2. \E q \in Int : b[k + 1] = start + Slot * q
    BY <1>11
  <2> HIDE DEF at, start
  <2> QED BY <2>1, <2>2
<1>13. at \in [0 .. n -> Int]
  <2>1. \A k \in 0 .. n : (CHOOSE q \in Int : b[k + 1] = start + Slot * q) \in Int
    BY <1>12
  <2> HIDE DEF start
  <2> QED BY <2>1
<1> HIDE DEF at, start, end
<1>14. \A k \in 0 .. n : Slot * at[k] \in Int /\ Slot * at[k] = b[k + 1] - start
  <2> TAKE k \in 0 .. n
  <2>1. PICK q : q = at[k]
    OBVIOUS
  <2>2. q \in Int /\ b[k + 1] = start + Slot * q
    BY <1>12, <2>1
  <2>3. Slot * q \in Int
    BY <1>1, <2>2
  <2>4. Slot * q = b[k + 1] - start
    BY <1>1, <2>2, <2>3
  <2> QED BY <2>1, <2>3, <2>4
<1>15. at[0] = 0
  <2>1. 0 \in 0 .. n /\ 0 + 1 = 1
    BY <1>10
  <2>2. Slot * at[0] = start - start
    BY <1>8, <1>14, <2>1
  <2>3. at[0] \in Int
    BY <1>12, <2>1
  <2> QED BY <1>1, <2>2, <2>3
<1>16. at[n] = N
  <2>1. n \in 0 .. n
    BY <1>10
  <2>2. Slot * at[n] = end - start
    BY <1>8, <1>10, <1>14, <2>1
  <2>3. at[n] \in Int /\ N \in Int
    BY <1>12, <2>1
  <2>4. Slot * at[n] = Slot * N
    BY <1>1, <1>2, <2>2 DEF end
  <2> QED BY <2>3, <2>4, SlotsDiffer
<1>17. ASSUME NEW k \in 1 .. n
       PROVE  /\ k - 1 \in 0 .. n /\ k \in 0 .. n /\ k \in 1 .. Len(b) /\ k + 1 \in 1 .. Len(b)
              /\ (k - 1) + 1 = k
              /\ at[k - 1] \in Int /\ at[k] \in Int
              /\ b[k] = start + Slot * at[k - 1] /\ b[k + 1] = start + Slot * at[k]
              /\ b[k] < b[k + 1] /\ b[k] \in Int /\ b[k + 1] \in Int
  <2>1. /\ k - 1 \in 0 .. n /\ k \in 0 .. n /\ k \in 1 .. Len(b) /\ k + 1 \in 1 .. Len(b)
        /\ (k - 1) + 1 = k /\ k < k + 1
    BY <1>10
  <2>2. b[k] < b[k + 1]
    BY <1>8, <2>1
  <2>3. b[k] \in Int /\ b[k + 1] \in Int
    BY <1>1, <1>3, <1>8, <2>1
  <2>4. at[k - 1] \in Int /\ b[(k - 1) + 1] = start + Slot * at[k - 1]
    BY <1>12, <2>1
  <2>5. at[k] \in Int /\ b[k + 1] = start + Slot * at[k]
    BY <1>12, <2>1
  <2> QED BY <2>1, <2>2, <2>3, <2>4, <2>5
<1>18. DOMAIN segs = 1 .. n /\ Len(segs) = n
  BY <1>7, <1>10
<1>19. ASSUME NEW k \in 1 .. n
       PROVE  at[k - 1] < at[k] /\ segs[k].minutes = Slot * (at[k] - at[k - 1])
  <2>1. PICK q, r : q = at[k - 1] /\ r = at[k]
    OBVIOUS
  <2>2. q \in Int /\ r \in Int /\ b[k] = start + Slot * q /\ b[k + 1] = start + Slot * r
    BY <1>17, <2>1
  <2>3. Slot * q \in Int /\ Slot * r \in Int /\ Slot * r - Slot * q = Slot * (r - q)
    BY <2>2, Distributes
  <2>4. b[k] < b[k + 1]
    BY <1>17
  <2>5. Slot * q < Slot * r
    BY <1>1, <2>2, <2>3, <2>4
  <2>6. q < r
    BY <2>2, <2>5, SlotsDiffer
  <2>7. segs[k].minutes = b[k + 1] - b[k]
    BY <1>7
  <2>8. segs[k].minutes = Slot * (r - q)
    BY <1>1, <2>2, <2>3, <2>7
  <2> QED BY <2>1, <2>2, <2>6, <2>8
<1>20. ASSUME NEW k \in 1 .. n, NEW j \in at[k - 1] + 1 .. at[k]
       PROVE  /\ segs[k].cat = DayCategory(PricedDay(start + Slot * (j - 1), shift))
              /\ segs[k].win = WindowType(start + Slot * (j - 1))
  <2>1. PICK q, r, t : q = at[k - 1] /\ r = at[k] /\ t = start + Slot * (j - 1)
    OBVIOUS
  <2>2. q \in Int /\ r \in Int /\ b[k] = start + Slot * q /\ b[k + 1] = start + Slot * r
    BY <1>17, <2>1
  <2>3. j \in Int /\ j - 1 \in Int /\ q <= j - 1 /\ j - 1 < r
    BY <2>1, <2>2
  <2>4. PICK p : p = j - 1
    OBVIOUS
  <2>5. p \in Int /\ q <= p /\ p < r
    BY <2>3, <2>4
  <2>6. Slot * p \in Int /\ Slot * q \in Int /\ Slot * r \in Int
    BY <2>2, <2>5, Distributes
  <2>7. Slot * p < Slot * r
    BY <2>2, <2>5, SlotsDiffer
  <2>8. Slot * q <= Slot * p
    <3>1. ~(p < q)
      BY <2>2, <2>5
    <3>2. ~(Slot * p < Slot * q)
      BY <2>2, <2>5, <3>1, SlotsDiffer
    <3> QED BY <2>6, <3>2
  <2>9. t = start + Slot * p
    BY <2>1, <2>4
  <2>10. t \in Int /\ b[k] <= t /\ t < b[k + 1]
    BY <1>1, <2>2, <2>6, <2>7, <2>8, <2>9
  <2>11. k \in 1 .. Len(b) - 1
    BY <1>10
  <2>12. WindowType(b[k]) = WindowType(t) /\ DayCategory(b[k]) = DayCategory(PricedDay(t, shift))
    BY <1>3, <2>10, <2>11, SegmentPrice DEF b, start
  <2>13. segs[k].cat = DayCategory(b[k]) /\ segs[k].win = WindowType(b[k])
    BY <1>7
  <2> QED BY <2>1, <2>12, <2>13
<1> QED BY <1>13, <1>15, <1>16, <1>18, <1>19, <1>20

LEMMA RateIs ==
  ASSUME NEW u, NEW v \in Int, NEW column \in 1 .. 2
  PROVE  Rates[DayCategory(u)][WindowType(v)][column] \in Int
<1>1. DayCategory(u) \in {"MonThu", "Fri", "Sat", "Sun"}
  BY DEF DayCategory
<1>2. WindowType(v) \in {"Days", "Lates", "Nights"}
  BY WindowIs
<1> QED BY <1>1, <1>2, RatesAreNumbers

\* The segments of a shift come to what its slots come to.
LEMMA PriceIs ==
  ASSUME NEW shift \in ShiftRows, NEW column \in 1 .. 2, NEW N \in Nat,
         ComputeDuration(shift).start = StartOf(shift),
         ComputeDuration(shift).paidMinutes = Slot * N
  PROVE  LET segs == Segments(StartOf(shift), StartOf(shift) + Slot * N)
         IN /\ Pay(segs, column) = WorkedPay(shift, column)
            /\ Sum([k \in DOMAIN segs |-> segs[k].minutes]) = Slot * N
<1> DEFINE start == StartOf(shift)
           segs == Segments(start, start + Slot * N)
           RateOf(j) == RateAt(start + Slot * (j - 1), shift, column)
<1> DEFINE Slots(n, at) ==
             /\ DOMAIN segs = 1 .. n /\ Len(segs) = n
             /\ at[0] = 0 /\ at[n] = N
             /\ \A k \in 1 .. n : at[k - 1] < at[k] /\ segs[k].minutes = Slot * (at[k] - at[k - 1])
             /\ \A k \in 1 .. n : \A j \in at[k - 1] + 1 .. at[k] :
                  /\ segs[k].cat = DayCategory(PricedDay(start + Slot * (j - 1), shift))
                  /\ segs[k].win = WindowType(start + Slot * (j - 1))
<1>0. PICK n \in Nat : \E at \in [0 .. n -> Int] : Slots(n, at)
  BY SegmentsAre
<1>1a. PICK at \in [0 .. n -> Int] : Slots(n, at)
  BY <1>0
<1>1. /\ DOMAIN segs = 1 .. n /\ Len(segs) = n
      /\ at[0] = 0 /\ at[n] = N
      /\ \A k \in 1 .. n : at[k - 1] < at[k] /\ segs[k].minutes = Slot * (at[k] - at[k - 1])
      /\ \A k \in 1 .. n : \A j \in at[k - 1] + 1 .. at[k] :
           /\ segs[k].cat = DayCategory(PricedDay(start + Slot * (j - 1), shift))
           /\ segs[k].win = WindowType(start + Slot * (j - 1))
  BY <1>1a
<1>2. Pay(segs, column)
        = Sum([k \in DOMAIN segs |-> segs[k].minutes * Rates[segs[k].cat][segs[k].win][column]])
  BY DEF Pay
<1> HIDE DEF segs, Slots
<1> DEFINE rate == [k \in 1 .. n |-> Rates[segs[k].cat][segs[k].win][column]]
           minutes == [k \in 1 .. n |-> segs[k].minutes]
           priced == [k \in 1 .. n |-> segs[k].minutes * rate[k]]
           worked == [j \in 1 .. N |-> Slot * RateOf(j)]
<1>3. Slot \in Int /\ Slot > 0
  BY SlotPositive
<1>4. ASSUME NEW k \in 1 .. n
      PROVE  /\ k \in 0 .. n /\ k - 1 \in 0 .. n /\ at[k] \in Int /\ at[k - 1] \in Int
             /\ at[k - 1] < at[k] /\ segs[k].minutes = Slot * (at[k] - at[k - 1])
             /\ Slot * (at[k] - at[k - 1]) \in Int
  <2>1. k \in 0 .. n /\ k - 1 \in 0 .. n
    OBVIOUS
  <2>2. at[k] \in Int /\ at[k - 1] \in Int
    BY <2>1
  <2>3. at[k] - at[k - 1] \in Int
    BY <2>2
  <2>4. Slot * (at[k] - at[k - 1]) \in Int
    BY <1>3, <2>3
  <2> QED BY <1>1, <2>1, <2>2, <2>4
<1>5. \A k \in 1 .. n : rate[k] = Rates[segs[k].cat][segs[k].win][column]
  OBVIOUS
<1>6. ASSUME NEW k \in 1 .. n, NEW j \in at[k - 1] + 1 .. at[k]
      PROVE  rate[k] = RateOf(j)
  BY <1>1, <1>5 DEF RateAt
<1>7. \A j \in Int : RateOf(j) \in Int
  <2> TAKE j \in Int
  <2>1. start \in Int
    BY ShiftInts
  <2>2. PICK v : v = start + Slot * (j - 1)
    OBVIOUS
  <2>3. v \in Int
    BY <1>3, <2>1, <2>2
  <2> QED BY <2>2, <2>3, RateIs DEF RateAt
<1>r. rate = [k \in 1 .. n |-> rate[k]]
  OBVIOUS
<1> HIDE DEF rate, RateOf
<1>8. \A k \in 1 .. n : rate[k] \in Int
  <2> TAKE k \in 1 .. n
  <2>1. at[k] \in at[k - 1] + 1 .. at[k] /\ at[k] \in Int
    BY <1>4
  <2> QED BY <1>6, <1>7, <2>1
<1>9. Sum(minutes) = Slot * N
  <2>1. Len(minutes) = n /\ \A k \in 1 .. n : minutes[k] \in Int /\ minutes[k] = Slot * (at[k] - at[k - 1])
    BY <1>4
  <2> HIDE DEF minutes
  <2>2. PICK h : /\ h[0] = 0 /\ \A k \in 1 .. n : h[k] = h[k - 1] + minutes[k]
                 /\ Sum(minutes) = h[n]
    BY <2>1, SumIs
  <2> DEFINE T == {k \in 0 .. n : h[k] = Slot * at[k]}
  <2>3. 0 \in T
    BY <1>1, <1>3, <2>2
  <2>4. ASSUME NEW i \in 0 .. n - 1, i \in T PROVE i + 1 \in T
    <3>1. PICK k : k = i + 1
      OBVIOUS
    <3>2. k \in 1 .. n /\ k \in 0 .. n /\ k - 1 = i
      BY <3>1
    <3>3. PICK q, r : q = at[i] /\ r = at[k]
      OBVIOUS
    <3>4. q \in Int /\ r \in Int
      BY <1>4, <3>2, <3>3
    <3>5. h[k] = h[i] + Slot * (r - q)
      BY <2>1, <2>2, <3>2, <3>3
    <3>6. h[i] = Slot * q
      BY <2>4, <3>3
    <3>7. Slot * q \in Int /\ Slot * r \in Int /\ Slot * r - Slot * q = Slot * (r - q)
      BY <3>4, Distributes
    <3>8. h[k] = Slot * r
      BY <3>5, <3>6, <3>7
    <3> QED BY <3>1, <3>2, <3>3, <3>8
  <2>5. 0 .. n \subseteq T
    <3> HIDE DEF T
    <3> QED BY <2>3, <2>4, Induction
  <2>6. n \in T
    <3> HIDE DEF T
    <3> QED BY <2>5
  <2> QED BY <1>1, <2>2, <2>6
<1>10. PICK g \in [0 .. n -> Int] :
                /\ g[0] = 0
                /\ \A k \in 1 .. n : g[k] = g[k - 1] + (Slot * (at[k] - at[k - 1])) * rate[k]
                /\ Sum(priced) = g[n]
  <2>1. \A k \in 1 .. n : priced[k] = (Slot * (at[k] - at[k - 1])) * rate[k]
    BY <1>4
  <2>2. \A k \in 1 .. n : priced[k] \in Int
    <3> TAKE k \in 1 .. n
    <3>1. PICK x, y : x = Slot * (at[k] - at[k - 1]) /\ y = rate[k]
      OBVIOUS
    <3>2. x \in Int /\ y \in Int
      BY <1>4, <1>8, <3>1
    <3>3. x * y \in Int
      BY <3>2
    <3> QED BY <2>1, <3>1, <3>3
  <2>3. Len(priced) = n
    OBVIOUS
  <2> HIDE DEF priced
  <2> QED BY <2>1, <2>2, <2>3, SumIs
<1>11. PICK f \in [0 .. N -> Int] :
         /\ f[0] = 0 /\ \A j \in 1 .. N : f[j] = f[j - 1] + Slot * RateOf(j)
         /\ Sum(worked) = f[N]
  <2>1. \A j \in 1 .. N : worked[j] = Slot * RateOf(j)
    OBVIOUS
  <2>2. \A j \in 1 .. N : worked[j] \in Int
    BY <1>3, <1>7
  <2>3. Len(worked) = N
    OBVIOUS
  <2> HIDE DEF worked
  <2> QED BY <2>1, <2>2, <2>3, SumIs
<1>12. \A k \in 0 .. n : 0 <= at[k] /\ at[k] <= N
  <2> DEFINE T == {k \in 0 .. n : 0 <= at[k]}
             U == {k \in 0 .. n : at[n - k] <= N}
  <2>1. 0 .. n \subseteq T
    <3>1. 0 \in T
      BY <1>1
    <3>2. ASSUME NEW i \in 0 .. n - 1, i \in T PROVE i + 1 \in T
      <4>1. i + 1 \in 1 .. n /\ (i + 1) - 1 = i /\ i + 1 \in 0 .. n /\ i \in 0 .. n
        OBVIOUS
      <4>2. at[i] < at[i + 1] /\ at[i] \in Int /\ at[i + 1] \in Int
        BY <1>4, <4>1
      <4>3. 0 <= at[i]
        BY <3>2
      <4> QED BY <4>1, <4>2, <4>3
    <3> HIDE DEF T
    <3> QED BY <3>1, <3>2, Induction
  <2>2. 0 .. n \subseteq U
    <3>1. 0 \in U
      BY <1>1
    <3>2. ASSUME NEW i \in 0 .. n - 1, i \in U PROVE i + 1 \in U
      <4>1. PICK k : k = n - i
        OBVIOUS
      <4>2. k \in 1 .. n /\ k - 1 = n - (i + 1) /\ i + 1 \in 0 .. n
        BY <4>1
      <4>3. at[k - 1] < at[k] /\ at[k] \in Int /\ at[k - 1] \in Int
        BY <1>4, <4>2
      <4>4. at[k] <= N
        BY <3>2, <4>1
      <4>5. at[k - 1] <= N
        BY <4>3, <4>4
      <4> QED BY <4>2, <4>5
    <3> HIDE DEF U
    <3> QED BY <3>1, <3>2, Induction
  <2>3. ASSUME NEW k \in 0 .. n PROVE 0 <= at[k] /\ at[k] <= N
    <3>1. PICK i : i = n - k
      OBVIOUS
    <3>2. i \in 0 .. n /\ n - i = k
      BY <3>1
    <3>3. k \in T /\ i \in U
      <4> HIDE DEF T, U
      <4> QED BY <2>1, <2>2, <3>2
    <3> QED BY <3>2, <3>3
  <2> QED BY <2>3
<1>13. ASSUME NEW k \in 1 .. n, NEW j \in at[k - 1] + 1 .. at[k]
       PROVE  f[j] = f[j - 1] + Slot * rate[k]
  <2>1. at[k - 1] \in Int /\ at[k] \in Int /\ 0 <= at[k - 1] /\ at[k] <= N
    BY <1>4, <1>12
  <2>2. j \in 1 .. N
    BY <2>1
  <2> QED BY <1>6, <1>11, <2>2
<1>14. g[n] = f[N]
  <2>1. \A k \in 1 .. n : at[k - 1] <= at[k]
    <3> TAKE k \in 1 .. n
    <3>1. at[k - 1] < at[k] /\ at[k - 1] \in Int /\ at[k] \in Int
      BY <1>4
    <3> QED BY <3>1
  <2>2. at[0] = 0 /\ at[n] = N
    BY <1>1
  <2>3. f[0] = 0 /\ g[0] = 0
    BY <1>10, <1>11
  <2>4. \A k \in 1 .. n : \A j \in at[k - 1] + 1 .. at[k] : f[j] = f[j - 1] + Slot * rate[k]
    BY <1>13
  <2>5. \A k \in 1 .. n : g[k] = g[k - 1] + (Slot * (at[k] - at[k - 1])) * rate[k]
    BY <1>10
  <2>6. rate \in [1 .. n -> Int]
    BY <1>8, <1>r
  <2> QED BY <2>1, <2>2, <2>3, <2>4, <2>5, <2>6, SlotSums
<1>15. Pay(segs, column) = Sum(priced)
  <2>1. [k \in DOMAIN segs |-> segs[k].minutes * Rates[segs[k].cat][segs[k].win][column]] = priced
    BY <1>1, <1>5
  <2> HIDE DEF priced
  <2> QED BY <1>2, <2>1
<1>16. WorkedPay(shift, column) = Sum(worked)
  <2>1. (Slot * N) \div Slot = N
    BY <1>3
  <2> QED BY <2>1 DEF WorkedPay, RateOf
<1>17. [k \in DOMAIN segs |-> segs[k].minutes] = minutes
  BY <1>1
<1> HIDE DEF priced, worked, minutes
<1> QED BY <1>9, <1>10, <1>11, <1>14, <1>15, <1>16, <1>17 DEF segs

\* The pay of every shift in the book is that of its slots.
THEOREM PaidAsWorkedHolds == Spec => []PaidAsWorked
<1>1. ASSUME TypeOK PROVE PaidAsWorked
  <2> SUFFICES ASSUME NEW i \in DOMAIN shifts
               PROVE  LET b == ComputeShiftBreakdown(shifts[i], "hourly", <<>>)
                      IN /\ b.basePay = WorkedPay(shifts[i], 1) /\ b.gross = WorkedPay(shifts[i], 2)
                         /\ Sum([k \in DOMAIN b.segments |-> b.segments[k].minutes]) = b.paidMinutes
    BY DEF PaidAsWorked
  <2>1. PICK row : row = shifts[i]
    OBVIOUS
  <2>2. row \in ShiftRows
    BY <1>1, <2>1 DEF TypeOK
  <2> DEFINE d == ComputeDuration(row)
             segs == Segments(d.start, d.paidEnd)
             b == ComputeShiftBreakdown(row, "hourly", <<>>)
  <2>3. /\ b.segments = segs /\ b.paidMinutes = d.paidMinutes
        /\ b.basePay = Pay(segs, 1) /\ b.gross = Pay(segs, 2)
    BY DEF ComputeShiftBreakdown
  <2>4. /\ d.start = StartOf(row) /\ d.paidMinutes \in Nat /\ OnGrid(d.paidMinutes)
        /\ d.paidEnd = StartOf(row) + d.paidMinutes
    BY <2>2, PaidIs
  <2> HIDE DEF b, d
  <2>5. PICK N \in Int : d.paidMinutes = Slot * N
    BY <2>4 DEF OnGrid
  <2>6. N \in Nat
    BY <2>4, <2>5, SlotPositive
  <2>7. segs = Segments(StartOf(row), StartOf(row) + Slot * N)
    BY <2>4, <2>5
  <2> DEFINE whole == Segments(StartOf(row), StartOf(row) + Slot * N)
  <2>8. 1 \in 1 .. 2 /\ 2 \in 1 .. 2
    OBVIOUS
  <2>9. ComputeDuration(row).start = StartOf(row) /\ ComputeDuration(row).paidMinutes = Slot * N
    BY <2>4, <2>5 DEF d
  <2>10. /\ Pay(whole, 1) = WorkedPay(row, 1) /\ Pay(whole, 2) = WorkedPay(row, 2)
         /\ Sum([k \in DOMAIN whole |-> whole[k].minutes]) = Slot * N
    BY <2>2, <2>6, <2>8, <2>9, PriceIs
  <2> HIDE DEF segs, whole
  <2>11. segs = whole
    BY <2>7 DEF whole
  <2> QED BY <2>1, <2>3, <2>5, <2>10, <2>11 DEF b
<1> QED BY <1>1, TypeCorrect, PTL

================================================================================
