---------------------------- MODULE StatsProofs -----------------------------
(***************************************************************************)
(* Facts about sums, counts and percentiles of lists of any length.  They  *)
(* rest on induction, which is stated of a set of numbers (LeastNat,       *)
(* Inductive): every set of natural numbers that is not empty has a least  *)
(* element, because < is well-founded on them.                             *)
(***************************************************************************)
EXTENDS Stats, FiniteSetTheorems, WellFoundedInduction, TLAPS

\* Every set of natural numbers that is not empty has a least element.
LEMMA LeastNat ==
  ASSUME NEW T \in SUBSET Nat, T # {}
  PROVE  \E m \in T : \A n \in T : m <= n
<1> DEFINE R == OpToRel(<, Nat)
<1>1. \A x, y \in Nat : y < x => <<y, x>> \in R
  BY DEF OpToRel
<1>2. PICK x \in T : \A y \in T : ~(<<y, x>> \in R)
  <2>1. IsWellFoundedOn(R, Nat)
    BY NatLessThanWellFounded
  <2> HIDE DEF R
  <2> QED BY <2>1, WFMin
<1> HIDE DEF R
<1>3. ASSUME NEW n \in T PROVE x <= n
  <2>1. x \in Nat /\ n \in Nat /\ ~(n < x)
    BY <1>1, <1>2
  <2> QED BY <2>1
<1> QED BY <1>3

\* Induction: a set that has 0 and with each number its successor has them all.
LEMMA Inductive ==
  ASSUME NEW T, 0 \in T, \A n \in Nat : n \in T => n + 1 \in T
  PROVE  \A n \in Nat : n \in T
<1> SUFFICES ASSUME NEW z \in Nat, z \notin T PROVE FALSE
  OBVIOUS
<1> DEFINE B == {n \in Nat : n \notin T}
<1>1. PICK m \in B : \A n \in B : m <= n
  BY LeastNat
<1>2. m # 0 /\ m - 1 \in Nat /\ m - 1 \in T
  BY <1>1
<1> QED BY <1>2

\* Lists with the same elements are the same.
LEMMA SameList ==
  ASSUME NEW S, NEW s \in Seq(S), NEW t \in Seq(S), Len(s) = Len(t),
         \A i \in 1..Len(s) : s[i] = t[i]
  PROVE  s = t
OBVIOUS

-----------------------------------------------------------------------------

\* The sums of the beginnings of a list.
PartialSums(s, f) ==
  /\ f \in [0..Len(s) -> Int]
  /\ f[0] = 0
  /\ \A i \in 1..Len(s) : f[i] = f[i - 1] + s[i]

\* There is such a function for every list.
LEMMA PartialSumsExist ==
  ASSUME NEW s \in Seq(Int)
  PROVE  \E f : PartialSums(s, f)
<1> DEFINE Upto(n, f) == /\ f \in [0..n -> Int] /\ f[0] = 0
                         /\ \A i \in 1..n : f[i] = f[i - 1] + s[i]
           T == {n \in Nat : n <= Len(s) => \E f : Upto(n, f)}
<1> HIDE DEF Upto
<1>1. 0 \in T
  <2> DEFINE f == [i \in 0..0 |-> 0]
  <2>1. 0 \in 0..0 /\ \A i \in 1..0 : FALSE
    OBVIOUS
  <2>2. f \in [0..0 -> Int] /\ f[0] = 0
    BY <2>1
  <2>3. Upto(0, f)
    BY <2>1, <2>2 DEF Upto
  <2> HIDE DEF f
  <2> QED BY <2>3
<1>2. ASSUME NEW n \in Nat, n \in T PROVE n + 1 \in T
  <2> SUFFICES ASSUME n + 1 <= Len(s) PROVE \E g : Upto(n + 1, g)
    OBVIOUS
  <2>1. n <= Len(s) /\ s[n + 1] \in Int /\ n + 1 - 1 = n
    <3>1. n + 1 \in DOMAIN s
      OBVIOUS
    <3> QED BY <3>1
  <2>2. PICK f : Upto(n, f)
    BY <1>2, <2>1
  <2> DEFINE g == [i \in 0..(n + 1) |-> IF i = n + 1 THEN f[n] + s[n + 1] ELSE f[i]]
  <2>3. g \in [0..(n + 1) -> Int] /\ g[0] = 0
    BY <2>1, <2>2 DEF Upto
  <2>4. ASSUME NEW i \in 1..(n + 1) PROVE g[i] = g[i - 1] + s[i]
    <3>1. CASE i = n + 1
      BY <2>1, <3>1
    <3>2. CASE i # n + 1
      <4>1. i \in 1..n /\ i - 1 \in 0..n
        BY <3>2
      <4>2. g[i] = f[i] /\ g[i - 1] = f[i - 1]
        BY <4>1
      <4> QED BY <2>2, <4>1, <4>2 DEF Upto
    <3> QED BY <3>1, <3>2
  <2> HIDE DEF g
  <2>5. Upto(n + 1, g)
    BY <2>3, <2>4 DEF Upto
  <2> QED BY <2>5
<1>3. Len(s) \in T
  <2> HIDE DEF T
  <2>1. \A n \in Nat : n \in T
    BY <1>1, <1>2, Inductive
  <2>2. Len(s) \in Nat
    OBVIOUS
  <2> QED BY <2>1, <2>2, Zenon
<1> QED BY <1>3 DEF PartialSums, Upto

\* SumOf is the last of them.
LEMMA SumIsLast ==
  ASSUME NEW s \in Seq(Int)
  PROVE  \E f : PartialSums(s, f) /\ SumOf(s) = f[Len(s)]
<1> DEFINE Rec(f) == f = [n \in 0..Len(s) |-> IF n = 0 THEN 0 ELSE f[n - 1] + s[n]]
           F == CHOOSE f : Rec(f)
<1>1. \E f : Rec(f)
  <2>1. PICK f : PartialSums(s, f)
    BY PartialSumsExist
  <2>2. Rec(f)
    BY <2>1 DEF PartialSums
  <2> HIDE DEF Rec
  <2> QED BY <2>2
<1>2. Rec(F)
  <2> HIDE DEF Rec
  <2> QED BY <1>1
<1>3. SumOf(s) = F[Len(s)]
  BY DEF SumOf
<1> HIDE DEF F
<1>4. F = [n \in 0..Len(s) |-> IF n = 0 THEN 0 ELSE F[n - 1] + s[n]]
  BY <1>2
<1>5. F[0] = 0 /\ \A n \in 1..Len(s) : F[n] = F[n - 1] + s[n]
  <2> DEFINE G == [n \in 0..Len(s) |-> IF n = 0 THEN 0 ELSE F[n - 1] + s[n]]
  <2>1. G[0] = 0 /\ \A n \in 1..Len(s) : G[n] = F[n - 1] + s[n]
    OBVIOUS
  <2>2. F = G
    BY <1>4
  <2> HIDE DEF G
  <2> QED BY <2>1, <2>2
<1>6. \A n \in 0..Len(s) : F[n] \in Int
  <2> DEFINE T == {n \in Nat : n <= Len(s) => F[n] \in Int}
  <2>1. 0 \in T
    BY <1>5
  <2>2. ASSUME NEW n \in Nat, n \in T PROVE n + 1 \in T
    <3> SUFFICES ASSUME n + 1 <= Len(s) PROVE F[n + 1] \in Int
      OBVIOUS
    <3>1. n + 1 \in 1..Len(s) /\ n + 1 - 1 = n
      OBVIOUS
    <3>2. F[n + 1] = F[n] + s[n + 1] /\ F[n] \in Int /\ s[n + 1] \in Int
      BY <1>5, <2>2, <3>1
    <3> QED BY <3>2
  <2>3. \A n \in Nat : n \in T
    <3> HIDE DEF T
    <3> QED BY <2>1, <2>2, Inductive
  <2> QED BY <2>3
<1>7. PartialSums(s, F)
  <2>1. F \in [0..Len(s) -> Int]
    BY <1>4, <1>6
  <2> QED BY <1>5, <2>1 DEF PartialSums
<1> QED BY <1>3, <1>7

Times(x, y) == x * y

\* Products of integers are integers.
LEMMA TimesInt == \A x, y \in Int : Times(x, y) \in Int
BY DEF Times

\* They distribute over sums.
LEMMA TimesSum == \A x, y, z \in Int : Times(x, y + z) = Times(x, y) + Times(x, z)
BY DEF Times

\* One list is, element by element, a combination of two others.
Combines(u, a, s, b, t, c) ==
  /\ Len(t) = Len(s) /\ Len(u) = Len(s)
  /\ \A i \in 1..Len(s) : u[i] = Times(a, s[i]) + Times(b, t[i]) + c

\* Sums are linear, whatever the length.
LEMMA SumLinear ==
  ASSUME NEW s \in Seq(Int), NEW t \in Seq(Int), NEW u \in Seq(Int),
         NEW a \in Int, NEW b \in Int, NEW c \in Int, Combines(u, a, s, b, t, c)
  PROVE  /\ SumOf(s) \in Int /\ SumOf(t) \in Int
         /\ SumOf(u) = Times(a, SumOf(s)) + Times(b, SumOf(t)) + Times(c, Len(s))
<1>0. Len(t) = Len(s) /\ Len(u) = Len(s)
  BY DEF Combines
<1>1. PICK f : PartialSums(s, f) /\ SumOf(s) = f[Len(s)]
  BY SumIsLast
<1>2. PICK g : PartialSums(t, g) /\ SumOf(t) = g[Len(s)]
  BY <1>0, SumIsLast
<1>3. PICK h : PartialSums(u, h) /\ SumOf(u) = h[Len(s)]
  BY <1>0, SumIsLast
<1> DEFINE T == {n \in Nat : n <= Len(s) => h[n] = Times(a, f[n]) + Times(b, g[n]) + Times(c, n)}
<1> HIDE DEF T
<1>4. 0 \in T
  <2>1. f[0] = 0 /\ g[0] = 0 /\ h[0] = 0
    BY <1>1, <1>2, <1>3 DEF PartialSums
  <2>2. Times(a, 0) = 0 /\ Times(b, 0) = 0 /\ Times(c, 0) = 0
    BY DEF Times
  <2> QED BY <2>1, <2>2 DEF T
<1>5. ASSUME NEW n \in Nat, n \in T, n + 1 <= Len(s)
      PROVE  h[n + 1] = Times(a, f[n + 1]) + Times(b, g[n + 1]) + Times(c, n + 1)
  <2>1. n + 1 \in 1..Len(s) /\ n + 1 - 1 = n /\ n \in 0..Len(s) /\ n <= Len(s)
    BY <1>5
  <2>2. h[n + 1] = h[n] + u[n + 1] /\ f[n + 1] = f[n] + s[n + 1] /\ g[n + 1] = g[n] + t[n + 1]
    <3> DEFINE m == n + 1
    <3>1. m \in 1..Len(s) /\ m - 1 = n
      BY <2>1
    <3> HIDE DEF m
    <3>2. h[m] = h[n] + u[m]
      BY <1>0, <1>3, <3>1 DEF PartialSums
    <3>3. f[m] = f[n] + s[m]
      BY <1>1, <3>1 DEF PartialSums
    <3>4. g[m] = g[n] + t[m]
      BY <1>0, <1>2, <3>1 DEF PartialSums
    <3> QED BY <3>2, <3>3, <3>4 DEF m
  <2>3. h[n] = Times(a, f[n]) + Times(b, g[n]) + Times(c, n)
    BY <1>5, <2>1 DEF T
  <2>4. u[n + 1] = Times(a, s[n + 1]) + Times(b, t[n + 1]) + c
    BY <2>1 DEF Combines
  <2>5. f[n] \in Int /\ g[n] \in Int
    BY <1>0, <1>1, <1>2, <2>1 DEF PartialSums
  <2>6. s[n + 1] \in Int /\ t[n + 1] \in Int
    <3>1. DOMAIN s = 1..Len(s) /\ DOMAIN t = 1..Len(t)
      OBVIOUS
    <3>2. n + 1 \in DOMAIN s /\ n + 1 \in DOMAIN t
      BY <1>0, <2>1, <3>1, Zenon
    <3> QED BY <3>2
  <2>7. Times(a, f[n] + s[n + 1]) = Times(a, f[n]) + Times(a, s[n + 1])
    BY <2>5, <2>6, TimesSum, Zenon
  <2>8. Times(b, g[n] + t[n + 1]) = Times(b, g[n]) + Times(b, t[n + 1])
    BY <2>5, <2>6, TimesSum, Zenon
  <2>9. Times(c, n + 1) = Times(c, n) + c
    <3>1. n \in Int /\ 1 \in Int
      OBVIOUS
    <3>2. Times(c, n + 1) = Times(c, n) + Times(c, 1)
      BY <3>1, TimesSum, Zenon
    <3>3. Times(c, 1) = c
      BY DEF Times
    <3> QED BY <3>2, <3>3
  <2>10. /\ Times(a, f[n]) \in Int /\ Times(a, s[n + 1]) \in Int
         /\ Times(b, g[n]) \in Int /\ Times(b, t[n + 1]) \in Int
    BY <2>5, <2>6, TimesInt, Zenon
  <2>11. Times(c, n) \in Int
    <3>1. n \in Int
      OBVIOUS
    <3> QED BY <3>1, TimesInt, Zenon
  <2>12. h[n + 1] = (Times(a, f[n]) + Times(b, g[n]) + Times(c, n))
                      + (Times(a, s[n + 1]) + Times(b, t[n + 1]) + c)
    BY <2>2, <2>3, <2>4, Zenon
  <2>13. h[n + 1] = (Times(a, f[n]) + Times(a, s[n + 1])) + (Times(b, g[n]) + Times(b, t[n + 1]))
                      + (Times(c, n) + c)
    <3> DEFINE p == Times(a, f[n])
               q == Times(b, g[n])
               r == Times(c, n)
               x == Times(a, s[n + 1])
               y == Times(b, t[n + 1])
    <3>1. p \in Int /\ q \in Int /\ r \in Int /\ x \in Int /\ y \in Int
      BY <2>10, <2>11
    <3> HIDE DEF p, q, r, x, y
    <3>2. (p + q + r) + (x + y + c) = (p + x) + (q + y) + (r + c)
      BY <3>1
    <3> QED BY <2>12, <3>2, Zenon DEF p, q, r, x, y
  <2> QED BY <2>2, <2>7, <2>8, <2>9, <2>13, Zenon
<1>6. ASSUME NEW n \in Nat, n \in T PROVE n + 1 \in T
  BY <1>5, <1>6 DEF T
<1>7. Len(s) \in T /\ Len(s) \in 0..Len(s)
  <2>1. Len(s) \in Nat /\ Len(s) \in 0..Len(s)
    OBVIOUS
  <2>2. \A n \in Nat : n \in T
    BY <1>4, <1>6, Inductive
  <2> QED BY <2>1, <2>2
<1>8. f[Len(s)] \in Int /\ g[Len(s)] \in Int
  BY <1>0, <1>1, <1>2, <1>7 DEF PartialSums
<1> QED BY <1>1, <1>2, <1>3, <1>7, <1>8 DEF T

\* Sums of lists that agree are equal, and those of counts are counts.
LEMMA SumNat ==
  ASSUME NEW s \in Seq(Nat)
  PROVE  SumOf(s) \in Nat
<1>1. s \in Seq(Int)
  OBVIOUS
<1>2. PICK f : PartialSums(s, f) /\ SumOf(s) = f[Len(s)]
  BY <1>1, SumIsLast
<1> DEFINE T == {n \in Nat : n <= Len(s) => f[n] \in Nat}
<1>3. 0 \in T
  BY <1>2 DEF PartialSums
<1>4. ASSUME NEW n \in Nat, n \in T PROVE n + 1 \in T
  <2> SUFFICES ASSUME n + 1 <= Len(s) PROVE f[n + 1] \in Nat
    OBVIOUS
  <2>1. n + 1 \in 1..Len(s) /\ n + 1 - 1 = n
    OBVIOUS
  <2>2. f[n + 1] = f[n] + s[n + 1] /\ s[n + 1] \in Nat /\ f[n] \in Nat
    BY <1>2, <1>4, <2>1 DEF PartialSums
  <2> QED BY <2>2
<1>5. Len(s) \in T
  <2> HIDE DEF T
  <2>1. \A n \in Nat : n \in T
    BY <1>3, <1>4, Inductive
  <2>2. Len(s) \in Nat
    OBVIOUS
  <2> QED BY <2>1, <2>2, Zenon
<1> QED BY <1>2, <1>5

\* Two lists with the same elements have the same sum; one of zeros has the sum 0.
LEMMA SumOfMultiples ==
  ASSUME NEW s \in Seq(Int), NEW u \in Seq(Int), Len(u) = Len(s), NEW a \in Int,
         \A i \in 1..Len(s) : u[i] = a * s[i]
  PROVE  SumOf(s) \in Int /\ SumOf(u) = a * SumOf(s)
<1>1. Combines(u, a, s, 0, s, 0)
  <2>1. \A i \in 1..Len(s) : s[i] \in Int /\ u[i] = a * s[i] /\ a * s[i] \in Int
    OBVIOUS
  <2> QED BY <2>1 DEF Combines, Times
<1>2. /\ SumOf(s) \in Int
      /\ SumOf(u) = Times(a, SumOf(s)) + Times(0, SumOf(s)) + Times(0, Len(s))
  BY <1>1, SumLinear
<1> QED BY <1>2 DEF Times

-----------------------------------------------------------------------------

\* The places where a list has a value up to a bound are counted by HowMany.
Upto(s, v) == {i \in DOMAIN s : s[i] <= v}
Below(s, v) == {i \in DOMAIN s : s[i] < v}

\* They are finitely many, and more for a higher bound.
LEMMA Places ==
  ASSUME NEW s \in Seq(Int)
  PROVE  /\ IsFiniteSet(DOMAIN s) /\ Cardinality(DOMAIN s) = Len(s)
         /\ \A T \in SUBSET DOMAIN s :
              IsFiniteSet(T) /\ Cardinality(T) \in Nat /\ Cardinality(T) <= Len(s)
         /\ \A v : Upto(s, v) \in SUBSET DOMAIN s /\ Below(s, v) \in SUBSET DOMAIN s
<1>1. DOMAIN s = 1..Len(s) /\ Len(s) \in Nat /\ 1 \in Int /\ Len(s) \in Int
  OBVIOUS
<1>2. IsFiniteSet(DOMAIN s) /\ Cardinality(DOMAIN s) = Len(s)
  <2> DEFINE n == Len(s)
  <2>1. n \in Nat /\ n \in Int /\ 1 \in Int /\ n - 1 + 1 = n /\ (n < 1 => n = 0)
    BY <1>1
  <2> HIDE DEF n
  <2>2. IsFiniteSet(1..n) /\ Cardinality(1..n) = IF 1 > n THEN 0 ELSE n - 1 + 1
    BY <2>1, FS_Interval, Zenon
  <2>3. Cardinality(1..n) = n
    BY <2>1, <2>2
  <2> QED BY <1>1, <2>2, <2>3 DEF n
<1>3. ASSUME NEW T \in SUBSET DOMAIN s
      PROVE  IsFiniteSet(T) /\ Cardinality(T) \in Nat /\ Cardinality(T) <= Len(s)
  BY <1>2, FS_Subset, FS_CardinalityType
<1>4. \A v : Upto(s, v) \in SUBSET DOMAIN s /\ Below(s, v) \in SUBSET DOMAIN s
  BY DEF Upto, Below
<1> QED BY <1>2, <1>3, <1>4

\* Some place among any has the highest value.
LEMMA Highest ==
  ASSUME NEW s \in Seq(Int), NEW J \in SUBSET DOMAIN s, J # {}
  PROVE  \E j \in J : \A k \in J : s[k] <= s[j]
<1>1. \A v : Cardinality(Upto(s, v)) \in Nat /\ Len(s) - Cardinality(Upto(s, v)) \in Nat
  BY Places
<1> DEFINE T == {Len(s) - Cardinality(Upto(s, s[j])) : j \in J}
<1>2. T \in SUBSET Nat /\ T # {}
  BY <1>1
<1>3. PICK m \in T : \A n \in T : m <= n
  BY <1>2, LeastNat
<1>4. PICK j \in J : m = Len(s) - Cardinality(Upto(s, s[j]))
  BY <1>3
<1>5. ASSUME NEW k \in J, s[j] < s[k] PROVE FALSE
  <2>1. Upto(s, s[j]) \in SUBSET Upto(s, s[k]) /\ k \in Upto(s, s[k]) /\ k \notin Upto(s, s[j])
    BY <1>5 DEF Upto
  <2>2. IsFiniteSet(Upto(s, s[k]))
    BY Places
  <2>3. Cardinality(Upto(s, s[j])) < Cardinality(Upto(s, s[k]))
    <3>1. /\ Cardinality(Upto(s, s[j])) <= Cardinality(Upto(s, s[k]))
          /\ Cardinality(Upto(s, s[j])) # Cardinality(Upto(s, s[k]))
      BY <2>1, <2>2, FS_Subset
    <3> QED BY <1>1, <3>1
  <2>4. m <= Len(s) - Cardinality(Upto(s, s[k]))
    BY <1>3
  <2> QED BY <1>1, <1>4, <2>3, <2>4
<1>6. \A k \in J : s[k] \in Int
  OBVIOUS
<1>7. \A k \in J : ~(s[j] < s[k])
  BY <1>5, Zenon
<1>8. \A k \in J : s[k] <= s[j]
  BY <1>6, <1>7
<1> QED BY <1>8

\* A rank is the least number of elements that make up the percentage.
LEMMA RankIs ==
  ASSUME NEW p \in 1..100, NEW n \in Nat \ {0}
  PROVE  /\ Rank(p, n) \in 1..n
         /\ \A k \in Nat : k >= Rank(p, n) <=> 100 * k >= p * n
<1> DEFINE m == p * n
<1>1. m \in Nat /\ m >= 1 /\ m <= 100 * n
  OBVIOUS
<1>2. Rank(p, n) = (m + 99) \div 100
  BY DEF Rank
<1> HIDE DEF m
<1>3. (m + 99) \div 100 \in 1..n /\ \A k \in Nat : k >= (m + 99) \div 100 <=> 100 * k >= m
  BY <1>1
<1> QED BY <1>2, <1>3 DEF m

\* Among the elements of a list there is one at each rank.
LEMMA RankTaken ==
  ASSUME NEW s \in Seq(Int), NEW r \in 1..Len(s)
  PROVE  \E v \in {s[i] : i \in DOMAIN s} :
           Cardinality(Below(s, v)) < r /\ Cardinality(Upto(s, v)) >= r
<1> DEFINE count(i) == Cardinality(Upto(s, s[i]))
           Enough == {i \in DOMAIN s : count(i) >= r}
<1>1. \A i \in DOMAIN s : s[i] \in Int
  OBVIOUS
<1>2. \A i : count(i) \in Nat
  BY Places
<1>3. Enough # {}
  <2>1. r \in DOMAIN s /\ r <= Len(s)
    OBVIOUS
  <2>2. PICK j \in DOMAIN s : \A k \in DOMAIN s : s[k] <= s[j]
    BY <2>1, Highest
  <2>3. Upto(s, s[j]) = DOMAIN s
    BY <2>2 DEF Upto
  <2>4. count(j) = Len(s)
    BY <2>3, Places
  <2> QED BY <2>1, <2>4
<1> DEFINE T == {count(i) : i \in Enough}
<1>4. T \in SUBSET Nat /\ T # {}
  BY <1>2, <1>3
<1>5. PICK m \in T : \A n \in T : m <= n
  BY <1>4, LeastNat
<1>6. PICK i \in Enough : m = count(i)
  BY <1>5
<1>7. ASSUME Cardinality(Below(s, s[i])) >= r PROVE FALSE
  <2>1. Below(s, s[i]) # {}
    <3>1. Cardinality({}) = 0 /\ ~(0 >= r)
      BY FS_EmptySet
    <3> QED BY <1>7, <3>1
  <2>2. PICK j \in Below(s, s[i]) : \A k \in Below(s, s[i]) : s[k] <= s[j]
    BY <2>1, Highest, Places
  <2>3. j \in DOMAIN s /\ s[j] < s[i]
    BY DEF Below
  <2>4. Upto(s, s[j]) = Below(s, s[i])
    BY <1>1, <2>2, <2>3 DEF Upto, Below
  <2>5. count(j) >= r /\ j \in Enough
    BY <1>7, <2>3, <2>4
  <2>6. Upto(s, s[j]) \in SUBSET Upto(s, s[i]) /\ i \in Upto(s, s[i]) /\ i \notin Upto(s, s[j])
    BY <1>1, <2>3, <2>4 DEF Upto, Below
  <2>7. count(j) < count(i)
    <3>1. IsFiniteSet(Upto(s, s[i]))
      BY Places
    <3>2. count(j) <= count(i) /\ count(j) # count(i)
      BY <2>6, <3>1, FS_Subset
    <3> QED BY <1>2, <3>2
  <2>8. m <= count(j)
    BY <1>5, <2>5
  <2> QED BY <1>2, <1>6, <2>7, <2>8
<1>8. Cardinality(Below(s, s[i])) \in Nat
  BY Places
<1> HIDE DEF count
<1> QED BY <1>6, <1>7, <1>8 DEF count

\* A percentile is one of the elements; at most the percentage of them lies below it and
\* at least that much does not exceed it.
THEOREM PercentileIs ==
  ASSUME NEW p \in 1..100, NEW s \in Seq(Int), s # <<>>
  PROVE  LET v == Percentile(p, s)
         IN  /\ v \in {s[i] : i \in DOMAIN s} /\ v \in Int
             /\ 100 * Cardinality(Below(s, v)) < p * Len(s)
             /\ 100 * Cardinality(Upto(s, v)) >= p * Len(s)
<1> DEFINE At(v) == /\ Cardinality(Below(s, v)) < Rank(p, Len(s))
                    /\ Cardinality(Upto(s, v)) >= Rank(p, Len(s))
           v == Percentile(p, s)
           Values == {s[i] : i \in DOMAIN s}
<1>1. Len(s) \in Nat \ {0}
  OBVIOUS
<1>2. v = CHOOSE x \in Values : At(x)
  BY DEF Percentile, HowMany, Below, Upto
<1>3. \E x \in Values : At(x)
  BY <1>1, RankIs, RankTaken
<1>4. v \in Values /\ At(v)
  <2> HIDE DEF At, Values, v
  <2> QED BY <1>2, <1>3
<1>5. v \in Int
  BY <1>4
<1> HIDE DEF v
<1>6. Cardinality(Below(s, v)) \in Nat /\ Cardinality(Upto(s, v)) \in Nat
  BY Places
<1>7. /\ Rank(p, Len(s)) \in Nat
      /\ \A k \in Nat : k >= Rank(p, Len(s)) <=> 100 * k >= p * Len(s)
  <2>1. Rank(p, Len(s)) \in 1..Len(s)
    BY <1>1, RankIs
  <2>2. \A k \in Nat : k >= Rank(p, Len(s)) <=> 100 * k >= p * Len(s)
    BY <1>1, RankIs, Zenon
  <2> QED BY <2>1, <2>2
<1>8. ~(Cardinality(Below(s, v)) >= Rank(p, Len(s))) /\ Cardinality(Upto(s, v)) >= Rank(p, Len(s))
  BY <1>4, <1>6, <1>7
<1>9. ~(100 * Cardinality(Below(s, v)) >= p * Len(s)) /\ 100 * Cardinality(Upto(s, v)) >= p * Len(s)
  BY <1>6, <1>7, <1>8
<1>10. p * Len(s) \in Int /\ 100 * Cardinality(Below(s, v)) \in Int
  BY <1>1, <1>6
<1>11. 100 * Cardinality(Below(s, v)) < p * Len(s)
  BY <1>9, <1>10
<1> QED BY <1>4, <1>5, <1>9, <1>11 DEF v
=============================================================================
