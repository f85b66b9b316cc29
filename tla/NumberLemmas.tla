---------------------------- MODULE NumberLemmas ----------------------------
(***************************************************************************)
(* Facts about natural numbers that the proofs of several components need: *)
(* division by a modulus that is not known, least elements, induction over *)
(* a set of numbers, and functions defined by recursion.                   *)
(***************************************************************************)
EXTENDS Integers, TLAPS, WellFoundedInduction

(* Division by an unknown modulus, from scratch.                            *)

\* The only multiple of m strictly between -m and m is 0.
LEMMA NoMultiple ==
  ASSUME NEW m \in Nat \ {0}, NEW d \in Int, -m < m * d, m * d < m
  PROVE  d = 0
<1>1. CASE d >= 1
  <2>1. m * d >= m * 1
    BY <1>1, Z3
  <2> QED BY <2>1
<1>2. CASE d <= -1
  <2>1. m * d <= m * (-1)
    BY <1>2, Z3
  <2> QED BY <2>1
<1> QED BY <1>1, <1>2

\* Quotient and remainder.
LEMMA DivMod ==
  ASSUME NEW m \in Nat \ {0}, NEW i \in Nat
  PROVE  /\ i \div m \in Nat
         /\ i % m \in 0 .. m - 1
         /\ i = m * (i \div m) + (i % m)
OBVIOUS

\* Remainders of what is less than two moduli away from 0.
LEMMA SmallMod ==
  ASSUME NEW s \in Nat \ {0}, NEW a \in Int
  PROVE  /\ 0 <= a /\ a < s => a % s = a
         /\ -s <= a /\ a < 0 => a % s = a + s
         /\ s <= a /\ a < 2 * s => a % s = a - s
<1>1. PICK q \in Int : q = a \div s
  OBVIOUS
<1>2. a % s \in 0 .. s - 1 /\ a = s * q + (a % s)
  BY <1>1
<1>3. PICK m \in 0 .. s - 1 : m = a % s
  BY <1>2
<1>4. a = s * q + m
  BY <1>2, <1>3
<1>5. ASSUME 0 <= a, a < s  PROVE m = a
  <2>1. -s < s * q /\ s * q < s
    BY <1>4, <1>5
  <2>2. q = 0
    BY <2>1, NoMultiple
  <2> QED BY <1>4, <2>2
<1>6. ASSUME -s <= a, a < 0  PROVE m = a + s
  <2>1. s * (q + 1) = s * q + s
    OBVIOUS
  <2>2. -s < s * (q + 1) /\ s * (q + 1) < s
    BY <1>4, <1>6, <2>1
  <2>3. q + 1 = 0
    BY <2>2, NoMultiple
  <2> QED BY <1>4, <2>1, <2>3
<1>7. ASSUME s <= a, a < 2 * s  PROVE m = a - s
  <2>1. s * (q - 1) = s * q - s
    OBVIOUS
  <2>2. -s < s * (q - 1) /\ s * (q - 1) < s
    BY <1>4, <1>7, <2>1
  <2>3. q - 1 = 0
    BY <2>2, NoMultiple
  <2> QED BY <1>4, <2>1, <2>3
<1> QED BY <1>3, <1>5, <1>6, <1>7

\* One turn around at most, forwards or backwards.
LEMMA Once ==
  ASSUME NEW s \in Nat \ {0}, NEW a \in Int, 0 <= a, a < 2 * s
  PROVE  a % s = IF a < s THEN a ELSE a - s
BY SmallMod

LEMMA Back ==
  ASSUME NEW s \in Nat \ {0}, NEW a \in Int, -s <= a, a < s
  PROVE  a % s = IF a >= 0 THEN a ELSE a + s
<1>1. 0 <= a => a % s = a
  BY SmallMod
<1>2. a < 0 => a % s = a + s
  BY SmallMod
<1> QED BY <1>1, <1>2

\* The remainder is the only one.
LEMMA ModUnique ==
  ASSUME NEW m \in Nat \ {0}, NEW q \in Nat, NEW r \in 0 .. m - 1
  PROVE  (m * q + r) % m = r
<1> DEFINE i == m * q + r
           d == (i \div m) - q
<1>1. i \in Nat
  OBVIOUS
<1>2. /\ i \div m \in Nat
      /\ i % m \in 0 .. m - 1
      /\ i = m * (i \div m) + (i % m)
  BY <1>1, DivMod
<1>3. m * d = r - (i % m)
  BY <1>2
<1>4. d = 0
  BY <1>2, <1>3, NoMultiple
<1> QED BY <1>2, <1>3, <1>4

\* Two numbers less than a full turn apart have different remainders.
LEMMA ModDiffers ==
  ASSUME NEW m \in Nat \ {0}, NEW i \in Nat, NEW j \in Nat,
         i < j, j < i + m
  PROVE  i % m # j % m
<1> SUFFICES ASSUME i % m = j % m
             PROVE  FALSE
  OBVIOUS
<1> DEFINE p == i \div m
           q == j \div m
<1>1. /\ p \in Nat /\ q \in Nat
      /\ i = m * p + (i % m)
      /\ j = m * q + (j % m)
  BY DivMod
<1>2. i % m \in Nat
  BY DivMod
<1> HIDE DEF p, q
<1>3. m * (q - p) = j - i
  BY <1>1, <1>2
<1>4. q - p = 0
  BY <1>1, <1>3, NoMultiple
<1> QED BY <1>1, <1>3, <1>4

\* Every set of natural numbers has a smallest element.
LEMMA SmallestNumber ==
  ASSUME NEW T \in SUBSET Nat, T # {}
  PROVE  \E x \in T : \A y \in T : x <= y
<1> DEFINE R == OpToRel(<, Nat)
<1>1. IsWellFoundedOn(R, Nat)
  BY NatLessThanWellFounded
<1> HIDE DEF R
<1>2. PICK x \in T : \A y \in T : ~ (<<y, x>> \in R)
  BY <1>1, WFMin
<1>3. ASSUME NEW y \in T, y < x
      PROVE  FALSE
  <2>1. <<y, x>> \in R
    BY <1>3 DEF R, OpToRel
  <2> QED BY <1>2, <2>1
<1>4. \A y \in T : x <= y
  BY <1>3
<1> QED BY <1>4

\* A set of natural numbers that has 0 and with every number the next one has all.
LEMMA NumberInduction ==
  ASSUME NEW S, 0 \in S, \A n \in Nat : n \in S => n + 1 \in S
  PROVE  Nat \subseteq S
<1> DEFINE T == Nat \ S
<1> SUFFICES ASSUME T # {}  PROVE FALSE
  OBVIOUS
<1>1. PICK x \in T : \A y \in T : x <= y
  BY SmallestNumber
<1>2. x # 0 /\ x - 1 \in Nat /\ x - 1 \notin T
  BY <1>1
<1>3. (x - 1) + 1 \in S
  BY <1>2
<1> QED BY <1>1, <1>2, <1>3

\* A first value, and every other one a function of its place and of the one before.
StepsFrom(a, F, X) ==
  {g \in [Nat -> X] : g[0] = a /\ \A n \in Nat : g[n + 1] = F[<<n, g[n]>>]}

\* Such values exist, which is what makes a recursive function defined.
LEMMA StepsDefined ==
  ASSUME NEW X, NEW a \in X, NEW F \in [Nat \X X -> X]
  PROVE  StepsFrom(a, F, X) # {}
<1> DEFINE Steps(n, h) == h[0] = a /\ \A i \in 0 .. n - 1 : h[i + 1] = F[<<i, h[i]>>]
<1>1. ASSUME NEW n \in Nat, NEW m \in Nat, n <= m, NEW g, NEW h, Steps(n, g), Steps(m, h)
      PROVE  \A i \in 0 .. n : g[i] = h[i]
  <2> DEFINE S == {i \in Nat : i <= n => g[i] = h[i]}
  <2>1. 0 \in S
    BY <1>1
  <2>2. ASSUME NEW i \in Nat, i \in S  PROVE i + 1 \in S
    <3> SUFFICES ASSUME i + 1 <= n  PROVE g[i + 1] = h[i + 1]
      OBVIOUS
    <3>1. i \in 0 .. n - 1 /\ i \in 0 .. m - 1 /\ g[i] = h[i]
      BY <1>1, <2>2
    <3> QED BY <1>1, <3>1
  <2> HIDE DEF S
  <2>3. Nat \subseteq S
    BY <2>1, <2>2, NumberInduction
  <2> QED BY <2>3 DEF S
<1> DEFINE E == {n \in Nat : \E h \in [0 .. n -> X] : Steps(n, h)}
<1>2. 0 \in E
  <2> DEFINE h == [i \in 0 .. 0 |-> a]
  <2>1. h \in [0 .. 0 -> X] /\ Steps(0, h)
    OBVIOUS
  <2> QED BY <2>1
<1>3. ASSUME NEW n \in Nat, n \in E  PROVE n + 1 \in E
  <2>1. PICK h \in [0 .. n -> X] : Steps(n, h)
    BY <1>3
  <2> DEFINE k == [i \in 0 .. n + 1 |-> IF i <= n THEN h[i] ELSE F[<<n, h[n]>>]]
  <2>2. F[<<n, h[n]>>] \in X
    OBVIOUS
  <2>3. k \in [0 .. n + 1 -> X]
    BY <2>2
  <2>4. k[0] = a
    BY <2>1
  <2>5. ASSUME NEW i \in 0 .. (n + 1) - 1  PROVE k[i + 1] = F[<<i, k[i]>>]
    <3>1. CASE i < n
      <4>1. i \in 0 .. n - 1 /\ k[i] = h[i] /\ k[i + 1] = h[i + 1]
        BY <3>1
      <4> QED BY <2>1, <4>1
    <3>2. CASE i = n
      <4>1. k[i] = h[n] /\ k[i + 1] = F[<<n, h[n]>>]
        BY <3>2
      <4> QED BY <3>2, <4>1
    <3> QED BY <3>1, <3>2
  <2>6. Steps(n + 1, k)
    BY <2>4, <2>5
  <2> HIDE DEF k, Steps
  <2>7. n + 1 \in Nat
    OBVIOUS
  <2> QED BY <2>3, <2>6, <2>7
<1> HIDE DEF E
<1>4. Nat \subseteq E
  BY <1>2, <1>3, NumberInduction
<1> DEFINE H(n) == CHOOSE h \in [0 .. n -> X] : Steps(n, h)
<1>5. ASSUME NEW n \in Nat  PROVE H(n) \in [0 .. n -> X] /\ Steps(n, H(n))
  <2>1. \E h \in [0 .. n -> X] : Steps(n, h)
    BY <1>4 DEF E
  <2> QED BY <2>1
<1> HIDE DEF H, Steps
<1> DEFINE g == [n \in Nat |-> H(n)[n]]
<1>6. g \in [Nat -> X]
  BY <1>5
<1>7. g[0] = a
  BY <1>5 DEF Steps
<1>8. ASSUME NEW n \in Nat  PROVE g[n + 1] = F[<<n, g[n]>>]
  <2>1. Steps(n, H(n)) /\ Steps(n + 1, H(n + 1)) /\ n + 1 \in Nat /\ n <= n + 1
    BY <1>5
  <2>2. H(n)[n] = H(n + 1)[n]
    BY <1>1, <2>1
  <2>3. H(n + 1)[n + 1] = F[<<n, H(n + 1)[n]>>]
    BY <2>1 DEF Steps
  <2> QED BY <2>2, <2>3
<1> QED BY <1>6, <1>7, <1>8 DEF StepsFrom

\* The same for a bounded number of values, as the recursive functions of the models
\* have them.
TurnsFrom(a, F, X, n) ==
  {f \in [0 .. n -> X] : f[0] = a /\ \A i \in 1 .. n : f[i] = F[<<i, f[i - 1]>>]}

LEMMA TurnsDefined ==
  ASSUME NEW X, NEW a \in X, NEW F \in [Nat \X X -> X], NEW n \in Nat
  PROVE  TurnsFrom(a, F, X, n) # {}
<1> DEFINE G == [y \in Nat \X X |-> F[<<y[1] + 1, y[2]>>]]
<1>1. G \in [Nat \X X -> X] /\ \A i \in Nat, x \in X : G[<<i, x>>] = F[<<i + 1, x>>]
  OBVIOUS
<1> HIDE DEF G
<1>2. StepsFrom(a, G, X) # {}
  BY Zenon, <1>1, StepsDefined
<1>3. PICK g \in [Nat -> X] : g[0] = a /\ \A i \in Nat : g[i + 1] = G[<<i, g[i]>>]
  BY Zenon, <1>2 DEF StepsFrom
<1> DEFINE f == [i \in 0 .. n |-> g[i]]
<1>4. f \in [0 .. n -> X] /\ f[0] = a
  BY <1>3
<1>5. ASSUME NEW i \in 1 .. n  PROVE f[i] = F[<<i, f[i - 1]>>]
  <2>1. PICK k \in Nat : k = i - 1 /\ i = k + 1
    OBVIOUS
  <2>2. g[k + 1] = G[<<k, g[k]>>] /\ g[k] \in X
    BY <1>3
  <2>3. G[<<k, g[k]>>] = F[<<k + 1, g[k]>>]
    BY <1>1, <2>2
  <2>4. f[i] = g[i] /\ f[i - 1] = g[k]
    BY <2>1
  <2> QED BY <2>1, <2>2, <2>3, <2>4
<1> QED BY <1>4, <1>5 DEF TurnsFrom

=============================================================================
