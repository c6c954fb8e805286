---------------------------- MODULE NatRecursion ----------------------------
(***************************************************************************)
(* Induction and recursion over the natural numbers, with a set in place   *)
(* of the predicate and a function in place of the operator, so that the   *)
(* lemmas can be cited for every formula: the induction theorems of the    *)
(* library take an operator as a parameter.                                *)
(***************************************************************************)
EXTENDS Integers, Sequences, SequencesExt, SequenceTheorems,
        WellFoundedInduction, TLAPS

\* Every set of natural numbers that is not empty has a least element.
LEMMA Least ==
    ASSUME NEW T, T \subseteq Nat, T # {}
    PROVE  \E m \in T : \A k \in T : m <= k
<1> DEFINE R == OpToRel(<, Nat)
<1>1. IsWellFoundedOn(R, Nat)
  BY NatLessThanWellFounded
<1>2. \A k, m \in Nat : k < m => <<k, m>> \in R
  BY DEF OpToRel
<1> HIDE DEF R
<1>3. PICK m \in T : \A k \in T : <<k, m>> \notin R
  BY <1>1, WFMin
<1>4. \A k \in T : k \in Nat /\ m \in Nat /\ ~ (k < m)
  BY <1>2, <1>3
<1> QED BY <1>4

\* A set of numbers up to n that is not empty has a greatest element.
LEMMA Greatest ==
    ASSUME NEW n \in Nat, NEW T, T \subseteq 0 .. n, T # {}
    PROVE  Max(T) \in T /\ \A k \in T : k <= Max(T)
<1> DEFINE U == {n - k : k \in T}
<1>1. U \subseteq Nat /\ U # {}
  <2>1. ASSUME NEW k \in T PROVE n - k \in Nat
    <3>1. k \in 0 .. n
      OBVIOUS
    <3> QED BY <3>1
  <2> QED BY <2>1
<1>2. PICK m \in U : \A k \in U : m <= k
  <2> HIDE DEF U
  <2> QED BY <1>1, Least
<1>3. PICK t \in T : m = n - t
  BY <1>2
<1>4. \A k \in T : t >= k
  <2> SUFFICES ASSUME NEW k \in T PROVE t >= k
    OBVIOUS
  <2>1. m <= n - k
    BY <1>2
  <2> QED BY <1>3, <2>1
<1>5. Max(T) \in T /\ \A k \in T : Max(T) >= k
  BY <1>4 DEF Max
<1> QED BY <1>5

\* Induction: a set with 0 and with the successor of each of its numbers.
LEMMA Induction ==
    ASSUME NEW T, 0 \in T, \A n \in Nat : n \in T => n + 1 \in T
    PROVE  Nat \subseteq T
<1> SUFFICES ASSUME NEW x \in Nat, x \notin T PROVE FALSE
  OBVIOUS
<1> DEFINE U == Nat \ T
<1>1. PICK m \in U : \A k \in U : m <= k
  BY Least
<1>2. m # 0
  BY <1>1
<1>3. m - 1 \in T
  BY <1>1, <1>2
<1> QED BY <1>1, <1>2, <1>3

\* The same from p to e.
LEMMA Upwards ==
    ASSUME NEW p \in Nat, NEW e \in Nat, p <= e,
           NEW T, p \in T, \A i \in p .. e : i < e /\ i \in T => i + 1 \in T
    PROVE  e \in T
<1> DEFINE U == {d \in Nat : p + d <= e => p + d \in T}
<1>1. 0 \in U
  OBVIOUS
<1>2. ASSUME NEW d \in Nat, d \in U PROVE d + 1 \in U
  <2> SUFFICES ASSUME p + (d + 1) <= e PROVE p + (d + 1) \in T
    OBVIOUS
  <2>1. p + d \in p .. e /\ p + d < e /\ p + d \in T /\ (p + d) + 1 = p + (d + 1)
    BY <1>2
  <2> QED BY <2>1
<1>3. e - p \in U
  <2> HIDE DEF U
  <2> QED BY <1>1, <1>2, Induction
<1> QED BY <1>3

\* A recursion of n rounds that stays in S: the i-th round is F[i], and r has
\* what there is after each round.
Rounds(n, S) == [1 .. n -> [S -> S]]
Iterates(r, c, n, F) ==
    r[0] = c /\ \A i \in 1 .. n : r[i] = F[i][r[i - 1]]

\* There is such a function.
LEMMA RecursionExists ==
    ASSUME NEW S, NEW c \in S, NEW n \in Nat, NEW F \in Rounds(n, S)
    PROVE  \E r \in [0 .. n -> S] : Iterates(r, c, n, F)
<1>1. F \in [1 .. n -> [S -> S]]
  BY DEF Rounds
<1> DEFINE Defines(r, m) ==
              /\ r \in [0 .. m -> S]
              /\ r[0] = c
              /\ \A i \in 1 .. m : i <= n => r[i] = F[i][r[i - 1]]
           T == {m \in Nat : m <= n => \E r : Defines(r, m)}
<1>2. 0 \in T
  <2>1. Defines([i \in 0 .. 0 |-> c], 0)
    OBVIOUS
  <2> QED BY <2>1
<1>3. ASSUME NEW m \in Nat, m \in T PROVE m + 1 \in T
  <2> SUFFICES ASSUME m + 1 <= n PROVE \E r : Defines(r, m + 1)
    OBVIOUS
  <2>1. PICK r : Defines(r, m)
    BY <1>3
  <2> DEFINE v == F[m + 1][r[m]]
             g == [i \in 0 .. m + 1 |-> IF i <= m THEN r[i] ELSE v]
  <2>2. v \in S
    <3>1. r[m] \in S /\ m + 1 \in 1 .. n
      BY <2>1
    <3> QED BY <1>1, <3>1
  <2>3. g \in [0 .. m + 1 -> S] /\ g[0] = c
    BY <2>1, <2>2
  <2>4. ASSUME NEW i \in 1 .. m + 1 PROVE g[i] = F[i][g[i - 1]]
    <3>1. CASE i <= m
      BY <2>1, <3>1
    <3>2. CASE i = m + 1
      BY <2>1, <3>2
    <3> QED BY <3>1, <3>2
  <2> HIDE DEF g
  <2> QED BY <2>3, <2>4
<1>4. n \in T
  <2> HIDE DEF T
  <2> QED BY <1>2, <1>3, Induction
<1>5. PICK r : Defines(r, n)
  BY <1>4
<1>6. r[0] = c /\ \A i \in 1 .. n : r[i] = F[i][r[i - 1]]
  BY <1>5
<1>7. Iterates(r, c, n, F)
  BY <1>6 DEF Iterates
<1> QED BY <1>5, <1>7

\* A function that does what the rounds do, as long as it is in S, is in S.
LEMMA RecursionStays ==
    ASSUME NEW S, NEW c \in S, NEW n \in Nat, NEW F \in Rounds(n, S),
           NEW r, r[0] = c,
           \A i \in 1 .. n : r[i - 1] \in S => r[i] = F[i][r[i - 1]]
    PROVE  \A i \in 0 .. n : r[i] \in S
<1> DEFINE T == {i \in Nat : i <= n => r[i] \in S}
<1>1. 0 \in T
  OBVIOUS
<1>2. ASSUME NEW i \in Nat, i \in T PROVE i + 1 \in T
  <2> SUFFICES ASSUME i + 1 <= n PROVE r[i + 1] \in S
    OBVIOUS
  <2>1. r[i] \in S /\ i + 1 \in 1 .. n /\ (i + 1) - 1 = i
    BY <1>2
  <2>2. F[i + 1] \in [S -> S]
    BY <2>1 DEF Rounds
  <2> QED BY <2>1, <2>2
<1>3. Nat \subseteq T
  <2> HIDE DEF T
  <2> QED BY <1>1, <1>2, Induction
<1> QED BY <1>3

\* n sequences over S, and what there is when the first of them have been put
\* behind each other.
Listing(s, n, S) == s = [i \in 1 .. n |-> s[i]] /\ \A i \in 1 .. n : s[i] \in Seq(S)
Joins(r, s, n) ==
    r[0] = << >> /\ r[n] = FlattenSeq(s) /\ \A i \in 1 .. n : r[i] = r[i - 1] \o s[i]

\* Sequences are put behind each other one by one.
LEMMA FlattenSeqPrefixes ==
    ASSUME NEW S, NEW n \in Nat, NEW s, Listing(s, n, S)
    PROVE  \E r \in [0 .. n -> Seq(S)] : Joins(r, s, n)
<1>0. s = [i \in 1 .. n |-> s[i]] /\ \A i \in 1 .. n : s[i] \in Seq(S)
  BY DEF Listing
<1>1. Len(s) = n
  BY <1>0
<1>a. PICK Q : Q = Seq(S)
  OBVIOUS
<1>b. << >> \in Q
  BY <1>a, EmptySeq
<1>2. CASE n = 0
  <2>1. FlattenSeq(s) = << >>
    BY <1>1, <1>2, EmptySeq DEF FlattenSeq
  <2>2. PICK r : r = [i \in 0 .. 0 |-> << >>]
    OBVIOUS
  <2>3. /\ r \in [0 .. n -> Q] /\ r[0] = << >> /\ r[n] = FlattenSeq(s)
        /\ \A i \in 1 .. n : r[i] = r[i - 1] \o s[i]
    BY <1>2, <1>b, <2>1, <2>2
  <2> QED BY <1>a, <2>3 DEF Joins
<1>3. CASE n # 0
  <2>2. PICK F : F = [i \in 1 .. n |-> [q \in Q |-> q \o s[i]]]
    OBVIOUS
  <2>3. F \in Rounds(n, Q)
    BY <1>0, <1>a, <2>2, <1>3, ConcatProperties DEF Rounds
  <2>4. PICK r \in [0 .. n -> Q] : Iterates(r, << >>, n, F)
    BY <1>b, <2>3, RecursionExists
  <2>a. ASSUME NEW i \in 1 .. n PROVE r[i] = r[i - 1] \o s[i]
    <3>1. r[i - 1] \in Q
      BY <2>4
    <3>2. r[i] = F[i][r[i - 1]]
      BY <2>4 DEF Iterates
    <3>3. PICK x : x = r[i - 1]
      OBVIOUS
    <3>4. F[i][x] = x \o s[i]
      BY <2>2, <3>1, <3>3
    <3> QED BY <3>2, <3>3, <3>4
  <2>b. r[0] = << >>
    BY <2>4 DEF Iterates
  <2>c. r[1] = s[1]
    <3>1. 1 \in 1 .. n /\ 1 - 1 = 0
      BY <1>3
    <3>2. s[1] \in Seq(S)
      BY <1>0, <3>1
    <3>3. << >> \o s[1] = s[1]
      BY <3>2, ConcatEmptySeq
    <3> QED BY <2>a, <2>b, <3>1, <3>3
  <2> DEFINE G(g) == [i \in 1 .. n |-> IF i = 1 THEN s[i] ELSE g[i - 1] \o s[i]]
             h == [i \in 1 .. n |-> r[i]]
             f == CHOOSE g : g = G(g)
  <2>5. h = G(h)
    <3>1. ASSUME NEW i \in 1 .. n
          PROVE  r[i] = IF i = 1 THEN s[i] ELSE h[i - 1] \o s[i]
      <4>1. i # 1 => i - 1 \in 1 .. n
        OBVIOUS
      <4> QED BY <2>a, <2>c, <4>1
    <3> QED BY <3>1
  <2>6. FlattenSeq(s) = f[n]
    BY <1>1, <1>3 DEF FlattenSeq
  <2>7. f = G(f)
    <3> HIDE DEF G
    <3> QED BY <2>5
  <2> HIDE DEF f
  <2>8. \A i \in 1 .. n : f[i] = IF i = 1 THEN s[i] ELSE f[i - 1] \o s[i]
    BY <2>7
  <2> DEFINE T == {i \in Nat : 1 <= i /\ i <= n => f[i] = r[i]}
  <2>9. 0 \in T
    OBVIOUS
  <2>10. ASSUME NEW i \in Nat, i \in T PROVE i + 1 \in T
    <3> SUFFICES ASSUME i + 1 <= n PROVE f[i + 1] = r[i + 1]
      OBVIOUS
    <3>1. i + 1 \in 1 .. n /\ (i + 1) - 1 = i
      OBVIOUS
    <3>2. CASE i = 0
      <4>1. i + 1 = 1
        BY <3>2
      <4> QED BY <2>8, <2>c, <3>1, <4>1
    <3>3. CASE i # 0
      <4>1. f[i] = r[i] /\ i + 1 # 1
        BY <2>10, <3>1, <3>3
      <4>2. PICK j : j = i + 1
        OBVIOUS
      <4>3. j \in 1 .. n /\ j - 1 = i /\ j # 1
        BY <3>1, <4>1, <4>2
      <4>4. f[j] = f[i] \o s[j]
        BY <2>8, <4>3
      <4>5. r[j] = r[i] \o s[j]
        BY <2>a, <4>3
      <4> QED BY <4>1, <4>2, <4>4, <4>5
    <3> QED BY <3>2, <3>3
  <2>11. n \in T
    <3> HIDE DEF T
    <3> QED BY <2>9, <2>10, Induction
  <2>12. r[n] = FlattenSeq(s)
    BY <1>3, <2>6, <2>11
  <2>13. \A i \in 1 .. n : r[i] = r[i - 1] \o s[i]
    BY <2>a
  <2> QED BY <1>a, <2>12, <2>13, <2>b DEF Joins
<1> QED BY <1>2, <1>3

\* The sequences over S that are put behind each other are one over S.
LEMMA FlattenSeqType ==
    ASSUME NEW S, NEW n \in Nat, NEW s, s = [i \in 1 .. n |-> s[i]], \A i \in 1 .. n : s[i] \in Seq(S)
    PROVE  FlattenSeq(s) \in Seq(S)
<1>1. Listing(s, n, S)
  BY DEF Listing
<1>2. PICK r \in [0 .. n -> Seq(S)] : Joins(r, s, n)
  BY <1>1, FlattenSeqPrefixes
<1>3. r[n] \in Seq(S)
  OBVIOUS
<1> QED BY <1>2, <1>3 DEF Joins
=============================================================================
