--------------------------- MODULE NaturalLemmas ----------------------------
(***************************************************************************)
(* Facts about natural numbers that proofs of this project rest on:        *)
(* induction and least elements, as statements about sets; the iteration   *)
(* of a step; whole multiples.  The induction theorems of the library take *)
(* an operator as a parameter; these take a set, and are derived from the  *)
(* well-foundedness of strict inclusion on finite sets.                    *)
(***************************************************************************)
EXTENDS Integers, FiniteSetTheorems, TLAPS

-----------------------------------------------------------------------------
(* Every set of natural numbers that is not empty has a least element: the
   initial segments that its elements cut off are finite sets, and strict
   inclusion of finite sets is well founded. *)
LEMMA LeastNumber ==
  ASSUME NEW T \in SUBSET Nat, T # {}
  PROVE  \E x \in T : \A y \in T : x <= y
<1> DEFINE UpTo(x) == T \cap (0 .. x)
           Family == {UpTo(x) : x \in T}
           R == StrictSubsetOrdering(Nat)
           F == FiniteSubsetsOf(Nat)
<1>1. Family \subseteq F
  <2>1. ASSUME NEW x \in T
        PROVE  IsFiniteSet(UpTo(x))
    <3>1. IsFiniteSet(0 .. x)
      BY FS_Interval
    <3>2. UpTo(x) \in SUBSET (0 .. x)
      OBVIOUS
    <3>3. QED
      BY <3>1, <3>2, FS_Subset
  <2>2. QED
    BY <2>1 DEF FiniteSubsetsOf
<1>2. Family # {}
  OBVIOUS
<1>3. IsWellFoundedOn(R, F)
  BY FS_StrictSubsetOrderingWellFounded
<1>4. PICK m \in Family : \A n \in Family : ~(<<n, m>> \in R)
  <2> HIDE DEF Family, R, F
  <2>1. QED
    BY <1>1, <1>2, <1>3, WFMin
<1>5. PICK x \in T : m = UpTo(x)
  BY <1>4
<1>6. ASSUME NEW y \in T, y < x
      PROVE  FALSE
  <2>1. UpTo(y) \subseteq UpTo(x) /\ x \in UpTo(x) /\ x \notin UpTo(y)
    BY <1>6
  <2>2. UpTo(y) \in SUBSET Nat /\ UpTo(x) \in SUBSET Nat /\ UpTo(y) # UpTo(x)
    BY <2>1
  <2>3. UpTo(y) \in Family
    OBVIOUS
  <2>4. <<UpTo(y), UpTo(x)>> \in R
    <3> HIDE DEF UpTo
    <3>1. QED
      BY <2>1, <2>2 DEF StrictSubsetOrdering
  <2>5. QED
    BY <1>4, <1>5, <2>3, <2>4
<1>7. QED
  BY <1>6

(* Induction over the natural numbers, for the set of those that have a
   property. *)
LEMMA SetInduction ==
  ASSUME NEW T, 0 \in T, \A n \in Nat : n \in T => n + 1 \in T
  PROVE  Nat \subseteq T
<1>1. SUFFICES ASSUME Nat \ T # {}
               PROVE  FALSE
  OBVIOUS
<1>2. Nat \ T \in SUBSET Nat
  OBVIOUS
<1>3. PICK x \in Nat \ T : \A y \in Nat \ T : x <= y
  BY <1>1, <1>2, LeastNumber
<1>4. x - 1 \in Nat /\ x - 1 \in T
  BY <1>3
<1>5. QED
  BY <1>3, <1>4

(* A set of integers that is not empty and has an upper bound has a greatest
   element. *)
LEMMA GreatestNumber ==
  ASSUME NEW T \in SUBSET Int, T # {}, NEW m \in Int, \A x \in T : x <= m
  PROVE  \E x \in T : \A y \in T : y <= x
<1> DEFINE D == {m - x : x \in T}
<1>1. D \in SUBSET Nat /\ D # {}
  <2>1. \A x \in T : m - x \in Nat
    OBVIOUS
  <2>2. QED
    BY <2>1
<1>2. PICK d \in D : \A e \in D : d <= e
  <2> HIDE DEF D
  <2>1. QED
    BY <1>1, LeastNumber
<1>3. PICK x \in T : d = m - x
  BY <1>2
<1>4. ASSUME NEW y \in T
      PROVE  y <= x
  <2>1. m - y \in D
    OBVIOUS
  <2>2. d <= m - y
    BY <1>2, <2>1
  <2>3. QED
    BY <1>3, <2>2
<1>5. QED
  BY <1>4

\* f[n] is what n steps reach from the first value.
Repeats(f, S, first, step) ==
  f \in [Nat -> S] /\ f[0] = first /\ \A n \in Nat : f[n + 1] = step[f[n]]

(* Steps repeated from a first value are a function of their number. *)
LEMMA StepsExist ==
  ASSUME NEW S, NEW first \in S, NEW step \in [S -> S]
  PROVE  \E f : Repeats(f, S, first, step)
<1> DEFINE Walks(f, n) == /\ f \in [0 .. n -> S] /\ f[0] = first
                          /\ \A i \in 0 .. n - 1 : f[i + 1] = step[f[i]]
           Reached == {n \in Nat : \E f : Walks(f, n)}
<1>1. Nat \subseteq Reached
  <2>1. 0 \in Reached
    <3>1. Walks([i \in 0 .. 0 |-> first], 0)
      OBVIOUS
    <3>2. QED
      BY <3>1
  <2>2. ASSUME NEW n \in Nat, n \in Reached
        PROVE  n + 1 \in Reached
    <3>1. PICK f : Walks(f, n)
      BY <2>2
    <3> DEFINE g == [i \in 0 .. n + 1 |-> IF i = n + 1 THEN step[f[n]] ELSE f[i]]
    <3>2. f[n] \in S /\ step[f[n]] \in S
      BY <3>1
    <3>3. g \in [0 .. n + 1 -> S]
      BY <3>1, <3>2
    <3>4. g[0] = first
      BY <3>1
    <3>5. ASSUME NEW i \in 0 .. n
          PROVE  g[i + 1] = step[g[i]]
      <4>1. CASE i = n
        BY <4>1
      <4>2. CASE i # n
        <5>1. i \in 0 .. n - 1 /\ i + 1 \in 0 .. n + 1 /\ i + 1 # n + 1
          BY <4>2
        <5>2. f[i + 1] = step[f[i]]
          BY <3>1, <5>1
        <5>3. QED
          BY <4>2, <5>1, <5>2
      <4>3. QED
        BY <4>1, <4>2
    <3>6. Walks(g, n + 1)
      <4> HIDE DEF g
      <4>1. n + 1 - 1 = n
        OBVIOUS
      <4>2. QED
        BY <3>3, <3>4, <3>5, <4>1
    <3> HIDE DEF Walks, g
    <3>7. QED
      BY <3>6
  <2> HIDE DEF Reached
  <2>3. QED
    BY <2>1, <2>2, SetInduction
<1>2. ASSUME NEW n \in Nat, NEW m \in Nat, NEW f, NEW g, Walks(f, n), Walks(g, m)
      PROVE  \A i \in Nat : i <= n /\ i <= m => f[i] = g[i]
  <2> DEFINE Equal == {i \in Nat : i <= n /\ i <= m => f[i] = g[i]}
  <2>1. 0 \in Equal
    BY <1>2
  <2>2. ASSUME NEW i \in Nat, i \in Equal
        PROVE  i + 1 \in Equal
    <3>1. SUFFICES ASSUME i + 1 <= n, i + 1 <= m
                   PROVE  f[i + 1] = g[i + 1]
      OBVIOUS
    <3>2. i \in 0 .. n - 1 /\ i \in 0 .. m - 1
      BY <3>1
    <3>3. f[i + 1] = step[f[i]] /\ g[i + 1] = step[g[i]] /\ f[i] = g[i]
      BY <1>2, <2>2, <3>1, <3>2
    <3>4. QED
      BY <3>3
  <2>3. Nat \subseteq Equal
    <3> HIDE DEF Equal
    <3>1. QED
      BY <2>1, <2>2, SetInduction
  <2>4. QED
    BY <2>3
<1> DEFINE Upto(n) == CHOOSE f : Walks(f, n)
           F == [n \in Nat |-> Upto(n)[n]]
<1>3. ASSUME NEW n \in Nat
      PROVE  Walks(Upto(n), n)
  <2>1. \E f : Walks(f, n)
    BY <1>1
  <2> HIDE DEF Walks
  <2>2. QED
    BY <2>1
<1>4. ASSUME NEW n \in Nat
      PROVE  F[n] \in S
  <2> HIDE DEF Upto
  <2>1. Upto(n) \in [0 .. n -> S] /\ n \in 0 .. n
    BY <1>3
  <2>2. QED
    BY <2>1
<1>5. F[0] = first
  <2> HIDE DEF Upto
  <2>1. Upto(0)[0] = first
    BY <1>3
  <2>2. QED
    BY <2>1
<1>6. ASSUME NEW n \in Nat
      PROVE  F[n + 1] = step[F[n]]
  <2> HIDE DEF Walks, Upto
  <2>1. Walks(Upto(n), n) /\ Walks(Upto(n + 1), n + 1) /\ n + 1 \in Nat
    BY <1>3
  <2> USE DEF Walks
  <2> HIDE DEF Upto
  <2>2. Upto(n + 1)[n] = Upto(n)[n]
    <3> HIDE DEF Walks
    <3>1. QED
      BY <1>2, <2>1
  <2>3. n \in 0 .. (n + 1) - 1
    OBVIOUS
  <2>4. Upto(n + 1)[n + 1] = step[Upto(n + 1)[n]]
    BY <2>1, <2>3
  <2>5. QED
    BY <2>2, <2>4
<1>7. F \in [Nat -> S]
  BY <1>4
<1> HIDE DEF F
<1>8. Repeats(F, S, first, step)
  BY <1>5, <1>6, <1>7 DEF Repeats
<1>9. QED
  BY <1>8

-----------------------------------------------------------------------------
(***************************************************************************)
(* Multiples.                                                              *)
(***************************************************************************)
LEMMA DivMod ==
  ASSUME NEW n \in Nat \ {0}, NEW x \in Nat
  PROVE  /\ x \div n \in Nat /\ x % n \in 0 .. n - 1
         /\ x = n * (x \div n) + (x % n)
<1>1. /\ x % n \in 0 .. n - 1
      /\ x = n * (x \div n) + (x % n)
      /\ x \div n \in Int
  BY Z3
<1>2. x \div n >= 0
  BY <1>1, Z3
<1>3. QED
  BY <1>1, <1>2

(* A multiple leaves no rest, *)
LEMMA TimesIsWhole ==
  ASSUME NEW n \in Nat \ {0}, NEW k \in Nat
  PROVE  (n * k) % n = 0
<1> DEFINE x == n * k
<1>1. x \in Nat
  OBVIOUS
<1>2. /\ x \div n \in Nat /\ x % n \in 0 .. n - 1
      /\ x = n * (x \div n) + (x % n)
  <2> HIDE DEF x
  <2>1. QED
    BY <1>1, DivMod
<1>3. PICK q \in Nat : q = x \div n
  BY <1>2
<1>4. PICK r \in 0 .. n - 1 : r = x % n
  BY <1>2
<1>5. r = n * (k - q)
  BY <1>2, <1>3, <1>4
<1>6. CASE k = q
  BY <1>4, <1>5, <1>6
<1>7. CASE k - q >= 1
  <2>1. n * (k - q) >= n
    BY <1>7
  <2>2. QED
    BY <1>5, <2>1
<1>8. CASE k - q <= 0 - 1
  <2>1. n * (k - q) <= 0 - n
    BY <1>8
  <2>2. QED
    BY <1>5, <2>1
<1>9. QED
  BY <1>6, <1>7, <1>8

(* and what leaves no rest is a multiple. *)
LEMMA WholeIsTimes ==
  ASSUME NEW n \in Nat \ {0}, NEW x \in Nat, x % n = 0
  PROVE  \E k \in Nat : x = n * k
<1>1. /\ x \div n \in Nat
      /\ x = n * (x \div n) + (x % n)
  BY DivMod
<1>2. PICK k \in Nat : k = x \div n
  BY <1>1
<1>3. x = n * k
  BY <1>1, <1>2
<1>4. QED
  BY <1>3

(* Sums of multiples are multiples, *)
LEMMA WholePlus ==
  ASSUME NEW n \in Nat \ {0}, NEW x \in Nat, NEW y \in Nat,
         x % n = 0, y % n = 0
  PROVE  (x + y) % n = 0
<1>1. PICK i \in Nat : x = n * i
  BY WholeIsTimes
<1>2. PICK j \in Nat : y = n * j
  BY WholeIsTimes
<1>3. x + y = n * (i + j) /\ i + j \in Nat
  BY <1>1, <1>2
<1> DEFINE k == i + j
<1>4. (n * k) % n = 0
  <2> HIDE DEF k
  <2>1. k \in Nat
    BY <1>3 DEF k
  <2>2. QED
    BY <2>1, TimesIsWhole
<1>5. QED
  BY <1>3, <1>4

(* and so are differences. *)
LEMMA WholeMinus ==
  ASSUME NEW n \in Nat \ {0}, NEW x \in Nat, NEW y \in Nat,
         x % n = 0, y % n = 0, y <= x
  PROVE  (x - y) % n = 0
<1>1. PICK i \in Nat : x = n * i
  BY WholeIsTimes
<1>2. PICK j \in Nat : y = n * j
  BY WholeIsTimes
<1>3. x - y = n * (i - j)
  BY <1>1, <1>2
<1>4. i - j \in Nat
  <2>1. SUFFICES ASSUME j - i >= 1 PROVE FALSE
    OBVIOUS
  <2>2. n * (j - i) >= n
    BY <2>1
  <2>3. QED
    BY <1>1, <1>2, <2>2
<1> DEFINE k == i - j
<1>5. (n * k) % n = 0
  <2> HIDE DEF k
  <2>1. k \in Nat
    BY <1>4 DEF k
  <2>2. QED
    BY <2>1, TimesIsWhole
<1>6. QED
  BY <1>3, <1>5

(* The greater of two multiples is greater by the number at least. *)
LEMMA TimesOrder ==
  ASSUME NEW n \in Nat, NEW a \in Nat, NEW b \in Nat, a < b
  PROVE  a * n + n <= b * n
<1>1. PICK d \in Nat : b = a + 1 + d
  <2>1. b - a - 1 \in Nat /\ b = a + 1 + (b - a - 1)
    OBVIOUS
  <2>2. QED
    BY <2>1
<1>2. b * n = a * n + n + d * n
  BY <1>1
<1>3. d * n >= 0 /\ a * n \in Int /\ d * n \in Int
  OBVIOUS
<1>4. QED
  BY <1>2, <1>3

(* A number before a multiple has fewer of the number in it. *)
LEMMA FewerTimes ==
  ASSUME NEW n \in Nat \ {0}, NEW a \in Nat, NEW b \in Nat, NEW j \in Nat,
         a * n + j < b * n
  PROVE  a < b
<1>1. SUFFICES ASSUME b <= a PROVE FALSE
  OBVIOUS
<1>2. b * n <= a * n
  <2>1. CASE b = a
    BY <2>1
  <2>2. CASE b < a
    <3>1. b * n + n <= a * n
      BY <2>2, TimesOrder
    <3>2. b * n \in Int /\ a * n \in Int
      OBVIOUS
    <3>3. QED
      BY <3>1, <3>2
  <2>3. QED
    BY <1>1, <2>1, <2>2
<1>3. b * n \in Int /\ a * n \in Int
  OBVIOUS
<1>4. QED
  BY <1>2, <1>3

(* Quotient and rest are what they are put together from. *)
LEMMA DivIs ==
  ASSUME NEW n \in Nat \ {0}, NEW k \in Nat, NEW j \in 0 .. n - 1, NEW x, x = k * n + j
  PROVE  x \in Nat /\ x \div n = k /\ x % n = j
<1>1. x \in Nat
  <2>1. k * n \in Nat
    OBVIOUS
  <2>2. QED
    BY <2>1
<1>2. PICK q \in Nat, r \in 0 .. n - 1 : q = x \div n /\ r = (x % n)
  BY <1>1, DivMod
<1>3. x = q * n + r
  <2>1. x = n * q + r
    BY <1>1, <1>2, DivMod
  <2>2. n * q = q * n
    OBVIOUS
  <2>3. QED
    BY <2>1, <2>2
<1>4. k * n \in Int /\ q * n \in Int
  OBVIOUS
<1>5. ~(q < k)
  <2>1. SUFFICES ASSUME q < k PROVE FALSE
    OBVIOUS
  <2>2. q * n + n <= k * n
    BY <2>1, TimesOrder
  <2>3. QED
    BY <1>3, <1>4, <2>2
<1>6. ~(k < q)
  <2>1. SUFFICES ASSUME k < q PROVE FALSE
    OBVIOUS
  <2>2. k * n + n <= q * n
    BY <2>1, TimesOrder
  <2>3. QED
    BY <1>3, <1>4, <2>2
<1>7. q = k
  BY <1>5, <1>6
<1>8. r = j
  BY <1>3, <1>4, <1>7
<1>9. QED
  BY <1>1, <1>2, <1>7, <1>8

=============================================================================
