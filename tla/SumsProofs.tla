----------------------------- MODULE SumsProofs -----------------------------
(***************************************************************************)
(* What SumTo computes, for every length.                                  *)
(*                                                                         *)
(* The library's induction and recursion theorems take an operator, which  *)
(* the installed provers cannot instantiate.  Induction is stated here     *)
(* over a SET of naturals instead (NatSetInduction), from the fact that a  *)
(* nonempty set of naturals has a least element, and the defining equation *)
(* of SumTo is proved by constructing the function (SumToEquation).        *)
(***************************************************************************)
EXTENDS Sums, WellFoundedInduction, TLAPS

(***************************************************************************)
(* A nonempty set of naturals has a least element.                         *)
(***************************************************************************)
LEMMA LeastElement ==
    ASSUME NEW T, T \subseteq Nat, T # {}
    PROVE  \E x \in T : \A y \in T : x <= y
<1> DEFINE R == {p \in Nat \X Nat : p[1] < p[2]}
<1>1. IsWellFoundedOn(R, Nat)
  BY NatLessThanWellFounded DEF OpToRel
<1> HIDE DEF R
<1>2. PICK x \in T : \A y \in T : ~ (<<y, x>> \in R)
  BY <1>1, WFMin
<1>3. \A y \in T : ~ (y < x)
  BY <1>2 DEF R
<1> QED
  BY <1>3

(***************************************************************************)
(* Induction over the naturals, with the predicate given as a set.         *)
(***************************************************************************)
LEMMA NatSetInduction ==
    ASSUME NEW P, 0 \in P, \A n \in Nat : n \in P => n + 1 \in P
    PROVE  Nat \subseteq P
<1> SUFFICES ASSUME ~ (Nat \subseteq P) PROVE FALSE
  OBVIOUS
<1> DEFINE T == {n \in Nat : n \notin P}
<1>1. T \subseteq Nat /\ T # {}
  OBVIOUS
<1>2. PICK x \in T : \A y \in T : x <= y
  BY <1>1, LeastElement
<1>3. x # 0 /\ x - 1 \in Nat
  BY <1>2
<1>4. x - 1 \in P
  BY <1>2, <1>3
<1> QED
  BY <1>2, <1>3, <1>4

\* g is the table of the partial sums of f up to n.
IsTable(f, n, g) == g = [i \in 0 .. n |-> IF i = 0 THEN 0 ELSE g[i - 1] + f[i]]

(***************************************************************************)
(* Every length has a table of partial sums.                               *)
(***************************************************************************)
LEMMA TableExists ==
    ASSUME NEW f
    PROVE  \A n \in Nat : \E g : IsTable(f, n, g)
<1> DEFINE P == {n \in Nat : \E g : IsTable(f, n, g)}
<1>1. 0 \in P
  <2>1. IsTable(f, 0, [i \in 0 .. 0 |-> 0])
    BY DEF IsTable
  <2> QED
    BY <2>1
<1>2. ASSUME NEW n \in Nat, n \in P
      PROVE  n + 1 \in P
  <2>1. PICK g : IsTable(f, n, g)
    BY <1>2
  <2> DEFINE h == [i \in 0 .. (n + 1) |-> IF i = n + 1 THEN g[n] + f[n + 1] ELSE g[i]]
  <2>2. \A i \in 0 .. n : h[i] = g[i]
    OBVIOUS
  <2>3. \A i \in 0 .. (n + 1) : h[i] = IF i = 0 THEN 0 ELSE h[i - 1] + f[i]
    <3> TAKE i \in 0 .. (n + 1)
    <3>1. CASE i = n + 1
      BY <3>1, <2>2
    <3>2. CASE i \in 0 .. n
      BY <3>2, <2>2, <2>1 DEF IsTable
    <3> QED
      BY <3>1, <3>2
  <2>4. IsTable(f, n + 1, h)
    BY <2>3 DEF IsTable
  <2> QED
    BY <2>4
<1> HIDE DEF P
<1>3. Nat \subseteq P
  BY <1>1, <1>2, NatSetInduction
<1> QED
  BY <1>3 DEF P

(***************************************************************************)
(* Two tables agree where both are defined.                                *)
(***************************************************************************)
LEMMA TablesAgree ==
    ASSUME NEW f, NEW n \in Nat, NEW m \in Nat, NEW g, NEW h,
           IsTable(f, n, g), IsTable(f, m, h)
    PROVE  \A i \in Nat : i <= n /\ i <= m => g[i] = h[i]
<1> DEFINE P == {i \in Nat : i <= n /\ i <= m => g[i] = h[i]}
<1>1. 0 \in P
  BY DEF IsTable
<1>2. ASSUME NEW i \in Nat, i \in P
      PROVE  i + 1 \in P
  BY <1>2 DEF IsTable
<1> HIDE DEF P
<1>3. Nat \subseteq P
  BY <1>1, <1>2, NatSetInduction
<1> QED
  BY <1>3 DEF P

(***************************************************************************)
(* The diagonal of the tables is the table of every length.                *)
(***************************************************************************)
LEMMA Diagonal ==
    ASSUME NEW f, NEW i \in Nat, NEW g, NEW h,
           IsTable(f, i, g), i > 0 => IsTable(f, i - 1, h)
    PROVE  g[i] = IF i = 0 THEN 0 ELSE h[i - 1] + f[i]
<1>1. g[i] = IF i = 0 THEN 0 ELSE g[i - 1] + f[i]
  <2>1. i \in 0 .. i
    OBVIOUS
  <2> QED
    BY <2>1 DEF IsTable
<1>2. ASSUME i > 0 PROVE g[i - 1] = h[i - 1]
  <2>1. i - 1 \in Nat /\ i - 1 <= i
    BY <1>2
  <2> QED
    BY <2>1, <1>2, TablesAgree
<1> QED
  BY <1>1, <1>2

(***************************************************************************)
(* The defining equation of SumTo.                                         *)
(***************************************************************************)
THEOREM SumToEquation ==
    ASSUME NEW f, NEW n \in Nat
    PROVE  SumTo(f, n) = IF n = 0 THEN 0 ELSE SumTo(f, n - 1) + f[n]
<1> DEFINE D(s) == s = [i \in Nat |-> IF i = 0 THEN 0 ELSE s[i - 1] + f[i]]
<1> DEFINE H(i) == CHOOSE g : IsTable(f, i, g)
<1>1. ASSUME NEW i \in Nat PROVE IsTable(f, i, H(i))
  BY TableExists
<1> DEFINE G == [i \in Nat |-> H(i)[i]]
<1>2. ASSUME NEW i \in Nat
      PROVE  G[i] = IF i = 0 THEN 0 ELSE G[i - 1] + f[i]
  <2>1. IsTable(f, i, H(i))
    BY <1>1
  <2>2. i > 0 => IsTable(f, i - 1, H(i - 1))
    BY <1>1
  <2> HIDE DEF H
  <2>3. H(i)[i] = IF i = 0 THEN 0 ELSE H(i - 1)[i - 1] + f[i]
    BY <2>1, <2>2, Diagonal
  <2>4. G[i] = H(i)[i] /\ (i # 0 => G[i - 1] = H(i - 1)[i - 1])
    OBVIOUS
  <2> QED
    BY <2>3, <2>4
<1> HIDE DEF H
<1>3. D(G)
  BY <1>2
<1> DEFINE S == CHOOSE s : D(s)
<1> HIDE DEF G
<1>4. D(S)
  BY <1>3
<1>5. \A k \in Nat : SumTo(f, k) = S[k]
  BY DEF SumTo
<1> HIDE DEF S
<1> QED
  BY <1>4, <1>5

(***************************************************************************)
(* A sum of integers is an integer.                                        *)
(***************************************************************************)
LEMMA SumToInt ==
    ASSUME NEW n \in Nat, NEW f, \A i \in 1 .. n : f[i] \in Int
    PROVE  SumTo(f, n) \in Int
<1> DEFINE P == {m \in Nat : m <= n => SumTo(f, m) \in Int}
<1>1. 0 \in P
  <2>1. SumTo(f, 0) = 0
    BY SumToEquation
  <2> QED
    BY <2>1
<1>2. ASSUME NEW m \in Nat, m \in P
      PROVE  m + 1 \in P
  <2>1. SumTo(f, m + 1) = SumTo(f, m) + f[m + 1]
    BY SumToEquation
  <2> QED
    BY <2>1, <1>2
<1> HIDE DEF P
<1>3. Nat \subseteq P
  BY <1>1, <1>2, NatSetInduction
<1> QED
  BY <1>3 DEF P

(***************************************************************************)
(* A sum only looks at the entries it adds.                                *)
(***************************************************************************)
LEMMA SumToCong ==
    ASSUME NEW n \in Nat, NEW f, NEW g, \A i \in 1 .. n : f[i] = g[i]
    PROVE  SumTo(f, n) = SumTo(g, n)
<1> DEFINE P == {m \in Nat : m <= n => SumTo(f, m) = SumTo(g, m)}
<1>1. 0 \in P
  <2>1. SumTo(f, 0) = 0 /\ SumTo(g, 0) = 0
    BY SumToEquation
  <2> QED
    BY <2>1
<1>2. ASSUME NEW m \in Nat, m \in P
      PROVE  m + 1 \in P
  <2>1. SumTo(f, m + 1) = SumTo(f, m) + f[m + 1]
    BY SumToEquation
  <2>2. SumTo(g, m + 1) = SumTo(g, m) + g[m + 1]
    BY SumToEquation
  <2> QED
    BY <2>1, <2>2, <1>2
<1> HIDE DEF P
<1>3. Nat \subseteq P
  BY <1>1, <1>2, NatSetInduction
<1> QED
  BY <1>3 DEF P

(***************************************************************************)
(* The sum of a pointwise sum.                                             *)
(***************************************************************************)
LEMMA SumToAdd ==
    ASSUME NEW n \in Nat, NEW f, NEW g, NEW h,
           \A i \in 1 .. n : f[i] \in Int /\ g[i] \in Int /\ h[i] = f[i] + g[i]
    PROVE  SumTo(h, n) = SumTo(f, n) + SumTo(g, n)
<1> DEFINE P == {m \in Nat : m <= n => /\ SumTo(f, m) \in Int /\ SumTo(g, m) \in Int
                                       /\ SumTo(h, m) = SumTo(f, m) + SumTo(g, m)}
<1>1. 0 \in P
  <2>1. SumTo(f, 0) = 0 /\ SumTo(g, 0) = 0 /\ SumTo(h, 0) = 0
    BY SumToEquation
  <2> QED
    BY <2>1
<1>2. ASSUME NEW m \in Nat, m \in P
      PROVE  m + 1 \in P
  <2>1. SumTo(f, m + 1) = SumTo(f, m) + f[m + 1]
    BY SumToEquation
  <2>2. SumTo(g, m + 1) = SumTo(g, m) + g[m + 1]
    BY SumToEquation
  <2>3. SumTo(h, m + 1) = SumTo(h, m) + h[m + 1]
    BY SumToEquation
  <2> QED
    BY <2>1, <2>2, <2>3, <1>2
<1> HIDE DEF P
<1>3. Nat \subseteq P
  BY <1>1, <1>2, NatSetInduction
<1> QED
  BY <1>3 DEF P

(***************************************************************************)
(* Changing one entry changes the sum by the difference.                   *)
(***************************************************************************)
LEMMA SumToUpdate ==
    ASSUME NEW n \in Nat, NEW f, NEW g, NEW k \in 1 .. n,
           \A i \in 1 .. n : f[i] \in Int /\ g[i] \in Int,
           \A i \in 1 .. n : i # k => g[i] = f[i]
    PROVE  SumTo(g, n) = SumTo(f, n) + (g[k] - f[k])
<1> DEFINE P == {m \in Nat : m <= n =>
                   /\ SumTo(f, m) \in Int
                   /\ SumTo(g, m) = SumTo(f, m) + (IF k <= m THEN g[k] - f[k] ELSE 0)}
<1>1. 0 \in P
  <2>1. SumTo(f, 0) = 0 /\ SumTo(g, 0) = 0
    BY SumToEquation
  <2> QED
    BY <2>1
<1>2. ASSUME NEW m \in Nat, m \in P
      PROVE  m + 1 \in P
  <2>1. SumTo(f, m + 1) = SumTo(f, m) + f[m + 1]
    BY SumToEquation
  <2>2. SumTo(g, m + 1) = SumTo(g, m) + g[m + 1]
    BY SumToEquation
  <2> QED
    BY <2>1, <2>2, <1>2
<1> HIDE DEF P
<1>3. Nat \subseteq P
  BY <1>1, <1>2, NatSetInduction
<1>4. n \in P
  BY <1>3
<1> QED
  BY <1>4 DEF P

(***************************************************************************)
(* A sum of naturals is a natural, and at least each of its entries.       *)
(***************************************************************************)
LEMMA SumToNat ==
    ASSUME NEW n \in Nat, NEW f, \A i \in 1 .. n : f[i] \in Nat
    PROVE  /\ SumTo(f, n) \in Nat
           /\ \A k \in 1 .. n : f[k] <= SumTo(f, n)
<1> DEFINE P == {m \in Nat : m <= n => /\ SumTo(f, m) \in Nat
                                       /\ \A k \in 1 .. m : f[k] <= SumTo(f, m)}
<1>1. 0 \in P
  <2>1. SumTo(f, 0) = 0
    BY SumToEquation
  <2> QED
    BY <2>1
<1>2. ASSUME NEW m \in Nat, m \in P
      PROVE  m + 1 \in P
  <2>1. SumTo(f, m + 1) = SumTo(f, m) + f[m + 1]
    BY SumToEquation
  <2> QED
    BY <2>1, <1>2
<1> HIDE DEF P
<1>3. Nat \subseteq P
  BY <1>1, <1>2, NatSetInduction
<1>4. n \in P
  BY <1>3
<1> QED
  BY <1>4 DEF P

(***************************************************************************)
(* A sum grows by the entry appended to it.                                *)
(***************************************************************************)
LEMMA SumToAppend ==
    ASSUME NEW n \in Nat, NEW f, NEW g, \A i \in 1 .. n : g[i] = f[i]
    PROVE  SumTo(g, n + 1) = SumTo(f, n) + g[n + 1]
<1>1. SumTo(g, n + 1) = SumTo(g, n) + g[n + 1]
  BY SumToEquation
<1>2. SumTo(g, n) = SumTo(f, n)
  BY SumToCong
<1> QED
  BY <1>1, <1>2
=============================================================================
