------------------------- MODULE FixedPointTheorems -------------------------
(***************************************************************************)
(* Lemmas about SumUpTo and about truncating division.  Induction over the *)
(* number of summands goes through the least-element principle for sets of *)
(* naturals, which is a statement about sets and so needs no operator      *)
(* parameter.                                                              *)
(***************************************************************************)
EXTENDS FixedPoint, WellFoundedInduction, TLAPS

LOCAL NaturalsOrder == {pair \in Nat \X Nat : pair[1] < pair[2]}

(* A nonempty set of naturals has a least element.                         *)
LEMMA NaturalsLeast ==
    ASSUME NEW S \in SUBSET Nat, S # {}
    PROVE  \E m \in S : \A k \in S : ~ (k < m)
<1>1. IsWellFoundedOn(NaturalsOrder, Nat)
  BY NatLessThanWellFounded DEF OpToRel, NaturalsOrder
<1>2. PICK m \in S : \A k \in S : ~ (<<k, m>> \in NaturalsOrder)
  BY <1>1, WFMin
<1>3. \A k \in S : k < m => <<k, m>> \in NaturalsOrder
  BY DEF NaturalsOrder
<1> QED
  BY <1>2, <1>3

(* A set of naturals that holds 0 and, up to N, the successor of each of   *)
(* its members holds every number up to N.                                 *)
LEMMA NaturalsUpTo ==
    ASSUME NEW N \in Nat, NEW S \in SUBSET Nat, 0 \in S,
           \A k \in S : k < N => k + 1 \in S
    PROVE  0 .. N \subseteq S
<1>1. SUFFICES ASSUME (0 .. N) \ S # {}
               PROVE  FALSE
  OBVIOUS
<1> DEFINE Missing == (0 .. N) \ S
<1>2. PICK m \in Missing : \A k \in Missing : ~ (k < m)
  <2>1. Missing \in SUBSET Nat
    OBVIOUS
  <2> QED
    BY <1>1, <2>1, NaturalsLeast
<1>3. m # 0 /\ m - 1 \in 0 .. N /\ m - 1 < m /\ m \in Nat
  BY <1>2
<1>4. m - 1 \in S
  BY <1>2, <1>3
<1>5. (m - 1) + 1 = m
  BY <1>3
<1>6. m - 1 < N /\ m - 1 \in Nat
  BY <1>2, <1>3
<1>7. m \in S
  BY <1>4, <1>5, <1>6
<1> QED
  BY <1>2, <1>7

-----------------------------------------------------------------------------
(* The equation that the recursive definition of PartialSums stands for.   *)
LOCAL Sums(f, n, s) ==
    s = [i \in 0 .. n |-> IF i = 0 THEN 0 ELSE s[i - 1] + f[i - 1]]

(* The recursive definition has a solution, and its values are integers.   *)
LEMMA SumsExist ==
    ASSUME NEW N \in Nat, NEW f \in [0 .. (N - 1) -> Int], NEW n \in 0 .. N
    PROVE  \E s \in [0 .. n -> Int] : Sums(f, n, s)
<1> DEFINE S == {k \in Nat : k <= N => \E s \in [0 .. k -> Int] : Sums(f, k, s)}
<1>1. 0 \in S
  <2> DEFINE s0 == [i \in 0 .. 0 |-> 0]
  <2>1. s0 \in [0 .. 0 -> Int] /\ Sums(f, 0, s0)
    BY DEF Sums
  <2> QED
    BY <2>1
<1>2. ASSUME NEW k \in S, k < N
      PROVE  k + 1 \in S
  <2>1. PICK s \in [0 .. k -> Int] : Sums(f, k, s)
    BY <1>2
  <2> DEFINE t == [i \in 0 .. (k + 1) |-> IF i <= k THEN s[i] ELSE s[k] + f[k]]
  <2>2. k \in Nat /\ f[k] \in Int /\ s[k] \in Int
    BY <1>2
  <2>3. t \in [0 .. (k + 1) -> Int]
    BY <2>2
  <2>4. \A i \in 0 .. k : s[i] = IF i = 0 THEN 0 ELSE s[i - 1] + f[i - 1]
    BY <2>1 DEF Sums
  <2>5. ASSUME NEW i \in 0 .. (k + 1)
        PROVE  t[i] = IF i = 0 THEN 0 ELSE t[i - 1] + f[i - 1]
    <3>1. CASE i = 0
      BY <2>2, <2>4, <3>1
    <3>2. CASE i # 0 /\ i <= k
      <4>1. i \in 0 .. k /\ i - 1 \in 0 .. (k + 1) /\ i - 1 <= k
        BY <2>2, <3>2
      <4>2. t[i] = s[i] /\ t[i - 1] = s[i - 1]
        BY <3>2, <4>1
      <4> QED
        BY <2>4, <3>2, <4>1, <4>2
    <3>3. CASE i = k + 1
      <4>1. i # 0 /\ ~ (i <= k) /\ i - 1 = k /\ k <= k /\ k \in 0 .. (k + 1)
        BY <2>2, <3>3
      <4>2. t[i] = s[k] + f[k] /\ t[k] = s[k]
        BY <4>1
      <4> QED
        BY <4>1, <4>2
    <3> QED
      BY <2>2, <3>1, <3>2, <3>3
  <2>6. Sums(f, k + 1, t)
    BY <2>5 DEF Sums
  <2> QED
    BY <2>2, <2>3, <2>6
<1>3. 0 .. N \subseteq S
  <2> HIDE DEF S
  <2> S \in SUBSET Nat
    BY DEF S
  <2> QED
    BY <1>1, <1>2, NaturalsUpTo
<1>4. n \in S /\ n <= N
  BY <1>3
<1> QED
  BY <1>4

(* PartialSums(f, n) is such a solution.                                   *)
LEMMA PartialSumsEquation ==
    ASSUME NEW N \in Nat, NEW f \in [0 .. (N - 1) -> Int], NEW n \in 0 .. N
    PROVE  \A i \in 0 .. n : PartialSums(f, n)[i] =
               IF i = 0 THEN 0 ELSE PartialSums(f, n)[i - 1] + f[i - 1]
<1>1. \E s : Sums(f, n, s)
  BY SumsExist
<1>2. PartialSums(f, n) = CHOOSE s : Sums(f, n, s)
  BY DEF PartialSums, Sums
<1>3. Sums(f, n, PartialSums(f, n))
  BY <1>1, <1>2
<1> QED
  BY <1>3 DEF Sums

(* What a function that satisfies the equation up to n holds at i <= n     *)
(* does not depend on n: it is SumUpTo(f, i), an integer.                  *)
LEMMA PartialSumsAgree ==
    ASSUME NEW N \in Nat, NEW f \in [0 .. (N - 1) -> Int], NEW n \in 0 .. N, NEW m \in 0 .. N,
           n <= m
    PROVE  /\ PartialSums(f, n)[n] = PartialSums(f, m)[n]
           /\ PartialSums(f, n)[n] \in Int
<1> DEFINE p == PartialSums(f, n)
           q == PartialSums(f, m)
           S == {k \in Nat : k <= n => p[k] = q[k] /\ p[k] \in Int}
<1>1. /\ \A i \in 0 .. n : p[i] = IF i = 0 THEN 0 ELSE p[i - 1] + f[i - 1]
      /\ \A i \in 0 .. m : q[i] = IF i = 0 THEN 0 ELSE q[i - 1] + f[i - 1]
  BY PartialSumsEquation
<1> HIDE DEF p, q
<1>2. 0 \in S
  BY <1>1
<1>3. ASSUME NEW k \in S, k < n
      PROVE  k + 1 \in S
  <2>1. k \in Nat /\ k + 1 \in 0 .. n /\ k + 1 \in 0 .. m /\ k + 1 # 0 /\ (k + 1) - 1 = k
    BY <1>3
  <2>2. p[k + 1] = p[k] + f[k] /\ q[k + 1] = q[k] + f[k]
    BY <1>1, <2>1
  <2>3. p[k] = q[k] /\ p[k] \in Int /\ f[k] \in Int
    BY <1>3, <2>1
  <2> QED
    BY <2>1, <2>2, <2>3
<1>4. 0 .. n \subseteq S
  <2> HIDE DEF S
  <2> S \in SUBSET Nat /\ n \in Nat
    BY DEF S
  <2> QED
    BY <1>2, <1>3, NaturalsUpTo
<1>5. n \in S /\ n <= n
  BY <1>4
<1> QED
  BY <1>5 DEF p, q

(* SumUpTo is an integer and adds one entry at a time.                     *)
LEMMA SumUpToStep ==
    ASSUME NEW N \in Nat, NEW f \in [0 .. (N - 1) -> Int]
    PROVE  /\ SumUpTo(f, 0) = 0
           /\ \A n \in 0 .. N : SumUpTo(f, n) \in Int
           /\ \A n \in 0 .. (N - 1) : SumUpTo(f, n + 1) = SumUpTo(f, n) + f[n]
<1>1. SumUpTo(f, 0) = 0
  BY PartialSumsEquation DEF SumUpTo
<1>2. \A n \in 0 .. N : SumUpTo(f, n) \in Int
  BY PartialSumsAgree DEF SumUpTo
<1>3. ASSUME NEW n \in 0 .. (N - 1)
      PROVE  SumUpTo(f, n + 1) = SumUpTo(f, n) + f[n]
  <2>1. n \in 0 .. N /\ n + 1 \in 0 .. N /\ n <= n + 1 /\ n + 1 # 0 /\ (n + 1) - 1 = n
        /\ n + 1 \in 0 .. (n + 1)
    OBVIOUS
  <2>2. PartialSums(f, n + 1)[n + 1] = PartialSums(f, n + 1)[n] + f[n]
    BY <2>1, PartialSumsEquation
  <2>3. PartialSums(f, n)[n] = PartialSums(f, n + 1)[n]
    BY <2>1, PartialSumsAgree
  <2> QED
    BY <2>2, <2>3 DEF SumUpTo
<1> QED
  BY <1>1, <1>2, <1>3

-----------------------------------------------------------------------------
LEMMA ScaledStep ==
    ASSUME NEW c \in Int, NEW d \in Int, NEW x \in Int, NEW y \in Int,
           NEW u \in Int, NEW v \in Int,
           c * x <= d * y, c * u <= d * v
    PROVE  c * (x + u) <= d * (y + v)
OBVIOUS

(* If c times each entry of f is at most d times that of g, then so are    *)
(* the sums.                                                               *)
LEMMA SumScaleLe ==
    ASSUME NEW N \in Nat, NEW f \in [0 .. (N - 1) -> Int], NEW g \in [0 .. (N - 1) -> Int],
           NEW c \in Int, NEW d \in Int,
           \A i \in 0 .. (N - 1) : c * f[i] <= d * g[i]
    PROVE  \A n \in 0 .. N : c * SumUpTo(f, n) <= d * SumUpTo(g, n)
<1> DEFINE S == {k \in Nat : k <= N => c * SumUpTo(f, k) <= d * SumUpTo(g, k)}
<1>1. 0 \in S
  BY SumUpToStep
<1>2. ASSUME NEW k \in S, k < N
      PROVE  k + 1 \in S
  <2>1. k \in 0 .. (N - 1) /\ k \in 0 .. N /\ k + 1 \in Nat
    BY <1>2
  <2>2. /\ SumUpTo(f, k + 1) = SumUpTo(f, k) + f[k]
        /\ SumUpTo(g, k + 1) = SumUpTo(g, k) + g[k]
        /\ SumUpTo(f, k) \in Int /\ SumUpTo(g, k) \in Int /\ f[k] \in Int /\ g[k] \in Int
    BY <2>1, SumUpToStep
  <2>3. c * SumUpTo(f, k) <= d * SumUpTo(g, k) /\ c * f[k] <= d * g[k]
    BY <1>2, <2>1
  <2>4. c * (SumUpTo(f, k) + f[k]) <= d * (SumUpTo(g, k) + g[k])
    BY <2>2, <2>3, ScaledStep
  <2> QED
    BY <2>1, <2>2, <2>4
<1>3. 0 .. N \subseteq S
  <2> HIDE DEF S
  <2> S \in SUBSET Nat
    BY DEF S
  <2> QED
    BY <1>1, <1>2, NaturalsUpTo
<1> QED
  BY <1>3

(* Sums of naturals are naturals.                                          *)
LEMMA SumUpToNat ==
    ASSUME NEW N \in Nat, NEW f \in [0 .. (N - 1) -> Nat]
    PROVE  \A n \in 0 .. N : SumUpTo(f, n) \in Nat
<1> DEFINE S == {k \in Nat : k <= N => SumUpTo(f, k) \in Nat}
<1>1. f \in [0 .. (N - 1) -> Int]
  OBVIOUS
<1>2. 0 \in S
  BY <1>1, SumUpToStep
<1>3. ASSUME NEW k \in S, k < N
      PROVE  k + 1 \in S
  <2>1. k \in 0 .. (N - 1) /\ k + 1 \in Nat
    BY <1>3
  <2>2. SumUpTo(f, k + 1) = SumUpTo(f, k) + f[k]
    BY <1>1, <2>1, SumUpToStep
  <2> QED
    BY <1>3, <2>1, <2>2
<1>4. 0 .. N \subseteq S
  <2> HIDE DEF S
  <2> S \in SUBSET Nat
    BY DEF S
  <2> QED
    BY <1>2, <1>3, NaturalsUpTo
<1> QED
  BY <1>4

(* Adding entry by entry adds the sums.                                    *)
LEMMA SumUpToAdd ==
    ASSUME NEW N \in Nat, NEW f \in [0 .. (N - 1) -> Int], NEW g \in [0 .. (N - 1) -> Int],
           NEW h \in [0 .. (N - 1) -> Int],
           \A i \in 0 .. (N - 1) : h[i] = f[i] + g[i]
    PROVE  \A n \in 0 .. N : SumUpTo(h, n) = SumUpTo(f, n) + SumUpTo(g, n)
<1> DEFINE S == {k \in Nat : k <= N => SumUpTo(h, k) = SumUpTo(f, k) + SumUpTo(g, k)}
<1>1. 0 \in S
  BY SumUpToStep
<1>2. ASSUME NEW k \in S, k < N
      PROVE  k + 1 \in S
  <2>1. k \in 0 .. (N - 1) /\ k \in 0 .. N /\ k + 1 \in Nat
    BY <1>2
  <2>2. /\ SumUpTo(f, k + 1) = SumUpTo(f, k) + f[k]
        /\ SumUpTo(g, k + 1) = SumUpTo(g, k) + g[k]
        /\ SumUpTo(h, k + 1) = SumUpTo(h, k) + h[k]
        /\ SumUpTo(f, k) \in Int /\ SumUpTo(g, k) \in Int
        /\ f[k] \in Int /\ g[k] \in Int
    BY <2>1, SumUpToStep
  <2>3. SumUpTo(h, k) = SumUpTo(f, k) + SumUpTo(g, k) /\ h[k] = f[k] + g[k]
    BY <1>2, <2>1
  <2> QED
    BY <2>1, <2>2, <2>3
<1>3. 0 .. N \subseteq S
  <2> HIDE DEF S
  <2> S \in SUBSET Nat
    BY DEF S
  <2> QED
    BY <1>1, <1>2, NaturalsUpTo
<1> QED
  BY <1>3

(* The sum of a function that is zero except at one point.                 *)
LEMMA SumUpToSpike ==
    ASSUME NEW N \in Nat, NEW f \in [0 .. (N - 1) -> Int], NEW j \in 0 .. (N - 1),
           \A i \in 0 .. (N - 1) : i # j => f[i] = 0
    PROVE  \A n \in 0 .. N : SumUpTo(f, n) = IF n <= j THEN 0 ELSE f[j]
<1> DEFINE S == {k \in Nat : k <= N => SumUpTo(f, k) = IF k <= j THEN 0 ELSE f[j]}
<1>1. 0 \in S
  BY SumUpToStep
<1>2. ASSUME NEW k \in S, k < N
      PROVE  k + 1 \in S
  <2>1. k \in 0 .. (N - 1) /\ k \in 0 .. N /\ k + 1 \in Nat /\ j \in Nat
    BY <1>2
  <2>2. SumUpTo(f, k + 1) = SumUpTo(f, k) + f[k] /\ f[k] \in Int
    BY <2>1, SumUpToStep
  <2>3. SumUpTo(f, k) = IF k <= j THEN 0 ELSE f[j]
    BY <1>2, <2>1
  <2>4. k # j => f[k] = 0
    BY <2>1
  <2>5. SumUpTo(f, k + 1) = IF k + 1 <= j THEN 0 ELSE f[j]
    <3>1. CASE k < j
      BY <2>1, <2>2, <2>3, <2>4, <3>1
    <3>2. CASE k = j
      BY <2>1, <2>2, <2>3, <3>2
    <3>3. CASE k > j
      <4>1. f[j] \in Int
        OBVIOUS
      <4> QED
        BY <2>1, <2>2, <2>3, <2>4, <3>3, <4>1
    <3> QED
      BY <2>1, <3>1, <3>2, <3>3
  <2> QED
    BY <2>1, <2>5
<1>3. 0 .. N \subseteq S
  <2> HIDE DEF S
  <2> S \in SUBSET Nat
    BY DEF S
  <2> QED
    BY <1>1, <1>2, NaturalsUpTo
<1> QED
  BY <1>3

(* Changing one entry changes the sum by as much.                          *)
LEMMA SumUpToUpdate ==
    ASSUME NEW N \in Nat, NEW f \in [0 .. (N - 1) -> Int], NEW g \in [0 .. (N - 1) -> Int],
           NEW j \in 0 .. (N - 1),
           \A i \in 0 .. (N - 1) : i # j => g[i] = f[i]
    PROVE  \A n \in 0 .. N :
               SumUpTo(g, n) = SumUpTo(f, n) + IF n <= j THEN 0 ELSE g[j] - f[j]
<1> DEFINE d == [i \in 0 .. (N - 1) |-> g[i] - f[i]]
<1>1. d \in [0 .. (N - 1) -> Int] /\ d[j] = g[j] - f[j]
  OBVIOUS
<1>2. \A i \in 0 .. (N - 1) : i # j => d[i] = 0
  OBVIOUS
<1>3. \A i \in 0 .. (N - 1) : g[i] = f[i] + d[i]
  OBVIOUS
<1> HIDE DEF d
<1>4. \A n \in 0 .. N : SumUpTo(g, n) = SumUpTo(f, n) + SumUpTo(d, n)
  BY <1>1, <1>3, SumUpToAdd
<1>5. \A n \in 0 .. N : SumUpTo(d, n) = IF n <= j THEN 0 ELSE d[j]
  BY <1>1, <1>2, SumUpToSpike
<1> QED
  BY <1>1, <1>4, <1>5

(* No entry of naturals exceeds a sum that includes it.                    *)
LEMMA SumUpToBoundsEntry ==
    ASSUME NEW N \in Nat, NEW f \in [0 .. (N - 1) -> Nat], NEW n \in 0 .. N,
           NEW j \in 0 .. (n - 1)
    PROVE  f[j] <= SumUpTo(f, n)
<1> DEFINE g == [f EXCEPT ![j] = 0]
<1>1. j \in 0 .. (N - 1) /\ ~ (n <= j)
  OBVIOUS
<1>2. /\ g \in [0 .. (N - 1) -> Nat] /\ g[j] = 0
      /\ \A i \in 0 .. (N - 1) : i # j => f[i] = g[i]
  BY <1>1
<1> HIDE DEF g
<1>3. SumUpTo(f, n) = SumUpTo(g, n) + (f[j] - g[j])
  <2>1. f \in [0 .. (N - 1) -> Int] /\ g \in [0 .. (N - 1) -> Int]
    BY <1>2
  <2> QED
    BY <1>1, <1>2, <2>1, SumUpToUpdate
<1>4. SumUpTo(g, n) \in Nat
  BY <1>2, SumUpToNat
<1>5. f[j] \in Nat
  BY <1>1
<1> QED
  BY <1>2, <1>3, <1>4, <1>5

-----------------------------------------------------------------------------
(* Truncating division, and products of naturals.                          *)
LEMMA DivBounds ==
    ASSUME NEW a \in Nat, NEW b \in Nat, b > 0
    PROVE  /\ a \div b \in Nat
           /\ b * (a \div b) <= a
           /\ a < b * (a \div b) + b
OBVIOUS

LEMMA DivMonotone ==
    ASSUME NEW a \in Nat, NEW b \in Nat, NEW c \in Nat, b > 0, a <= c * b
    PROVE  a \div b <= c
OBVIOUS

LEMMA DivAtLeast ==
    ASSUME NEW a \in Nat, NEW b \in Nat, NEW c \in Nat, b > 0, c * b <= a
    PROVE  c <= a \div b
OBVIOUS

(* Truncating divisions by the same number keep the order.                 *)
LEMMA DivOrdered ==
    ASSUME NEW a \in Nat, NEW b \in Nat, NEW c \in Nat, c > 0, a <= b
    PROVE  a \div c <= b \div c
<1>1. a \div c \in Nat /\ c * (a \div c) <= a
  BY DivBounds
<1>2. c * (a \div c) = (a \div c) * c /\ c * (a \div c) \in Nat
  BY <1>1
<1> DEFINE q == a \div c
<1> HIDE DEF q
<1> QED
  BY <1>1, <1>2, DivAtLeast DEF q

LEMMA ProductNat ==
    ASSUME NEW a \in Nat, NEW b \in Nat
    PROVE  a * b \in Nat
OBVIOUS

LEMMA ProductMonotone ==
    ASSUME NEW a \in Nat, NEW b \in Nat, NEW c \in Nat, a <= b
    PROVE  c * a <= c * b /\ a * c <= b * c
OBVIOUS
=============================================================================
