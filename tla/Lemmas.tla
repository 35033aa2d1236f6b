------------------------------- MODULE Lemmas -------------------------------
(***************************************************************************)
(* What the proofs of several modules rest on: induction over the natural  *)
(* numbers in the form of a set, greatest and least elements, the values   *)
(* of a recursive definition and of folds, short sequences, and sums.      *)
(***************************************************************************)
EXTENDS FiniteSetTheorems, SequenceTheorems, TLAPS

\* A set of natural numbers that has zero and every successor has all of them.
LEMMA SetInduction ==
  ASSUME NEW S, 0 \in S, \A n \in Nat : n \in S => n + 1 \in S
  PROVE  Nat \subseteq S
<1> SUFFICES ASSUME Nat \ S # {} PROVE FALSE
  OBVIOUS
<1>1. PICK x \in Nat \ S : \A y \in Nat \ S : <<y, x>> \notin OpToRel(<, Nat)
  BY NatLessThanWellFounded, WFMin
<1>2. \A y \in Nat \ S : ~(y < x)
  BY <1>1 DEF OpToRel
<1> QED BY <1>2

\* A set of numbers with a bound has a greatest element.
LEMMA GreatestElement ==
  ASSUME NEW n \in Nat, NEW S \in SUBSET (1..n), S # {}
  PROVE  \E i \in S : \A j \in S : j <= i
<1> DEFINE P(m) == \A T \in SUBSET (1..m) : T # {} => \E i \in T : \A j \in T : j <= i
           G == {m \in Nat : P(m)}
<1>1. 0 \in G
  <2>1. 1..0 = {}
    OBVIOUS
  <2> QED BY <2>1
<1>2. ASSUME NEW m \in Nat, m \in G PROVE m + 1 \in G
  <2> SUFFICES ASSUME NEW T \in SUBSET (1..(m + 1)), T # {}
               PROVE  \E i \in T : \A j \in T : j <= i
    OBVIOUS
  <2>1. CASE m + 1 \in T
    BY <2>1
  <2>2. CASE m + 1 \notin T
    <3>1. T \in SUBSET (1..m)
      BY <2>2
    <3> QED BY <1>2, <3>1
  <2> QED BY <2>1, <2>2
<1> HIDE DEF G
<1>3. n \in G
  BY <1>1, <1>2, SetInduction
<1> QED BY <1>3 DEF G

\* A set of natural numbers that is not empty has a least element.
LEMMA LeastElement ==
  ASSUME NEW S \in SUBSET Nat, S # {}
  PROVE  \E i \in S : \A j \in S : i <= j
<1>1. PICK i \in S : \A j \in S : <<j, i>> \notin OpToRel(<, Nat)
  BY NatLessThanWellFounded, WFMin
<1>2. \A j \in S : ~(j < i)
  BY <1>1 DEF OpToRel
<1> QED BY <1>2

\* The values that begin with a and are continued by a function.
Continued(g, N, D, a, step) ==
  /\ g \in [0..N -> D] /\ g[0] = a
  /\ \A i \in 1..N : g[i] = step[g[i - 1]]

\* There are such values, of which a recursive definition chooses one.
LEMMA Recursion ==
  ASSUME NEW D, NEW a \in D, NEW step \in [D -> D], NEW N \in Nat
  PROVE  \E g : Continued(g, N, D, a, step)
<1> DEFINE S == {n \in Nat : \E g : Continued(g, n, D, a, step)}
<1>1. 0 \in S
  <2> DEFINE g == [i \in 0..0 |-> a]
  <2>1. g \in [0..0 -> D] /\ g[0] = a /\ 1..0 = {}
    OBVIOUS
  <2>2. Continued(g, 0, D, a, step)
    BY <2>1 DEF Continued
  <2> QED BY <2>2
<1>2. ASSUME NEW n \in Nat, n \in S PROVE n + 1 \in S
  <2>1. PICK g : Continued(g, n, D, a, step)
    BY <1>2
  <2>2. g \in [0..n -> D] /\ g[0] = a /\ \A i \in 1..n : g[i] = step[g[i - 1]]
    BY <2>1 DEF Continued
  <2> DEFINE h == [i \in 0..(n + 1) |-> IF i = n + 1 THEN step[g[n]] ELSE g[i]]
  <2>3. h \in [0..(n + 1) -> D]
    BY <2>2
  <2>4. h[0] = a
    BY <2>2
  <2>5. ASSUME NEW i \in 1..(n + 1) PROVE h[i] = step[h[i - 1]]
    <3>1. CASE i = n + 1
      BY <3>1
    <3>2. CASE i \in 1..n
      BY <3>2, <2>2
    <3> QED BY <3>1, <3>2
  <2> HIDE DEF h
  <2>6. Continued(h, n + 1, D, a, step)
    BY <2>3, <2>4, <2>5 DEF Continued
  <2> QED BY <2>6
<1> HIDE DEF S
<1>3. N \in S
  BY <1>1, <1>2, SetInduction
<1> QED BY <1>3 DEF S

-----------------------------------------------------------------------------
(* Folds: recursion over the subsets of a finite set.                      *)

\* Only the empty set has no elements.
LEMMA NoElements ==
  ASSUME NEW L, IsFiniteSet(L), NEW s \in SUBSET L, Cardinality(s) <= 0
  PROVE  s = {}
<1>1. IsFiniteSet(s) /\ Cardinality(s) \in Nat
  BY FS_Subset, FS_CardinalityType
<1>2. Cardinality(s) = 0
  BY <1>1
<1> QED BY <1>1, <1>2, FS_EmptySet

\* A set without one of its elements has one element less.
LEMMA OneElementLess ==
  ASSUME NEW L, IsFiniteSet(L), NEW s \in SUBSET L, NEW x \in s
  PROVE  /\ s \ {x} \in SUBSET L /\ Cardinality(s) \in Nat
         /\ Cardinality(s \ {x}) = Cardinality(s) - 1
<1>1. IsFiniteSet(s) /\ Cardinality(s) \in Nat
  BY FS_Subset, FS_CardinalityType
<1>2. Cardinality(s \ {x}) = Cardinality(s) - 1
  BY <1>1, FS_RemoveElement
<1> QED BY <1>1, <1>2

\* What holds of the empty set, and of a set if it holds of the set without some
\* element, holds of every finite set.
LEMMA SubsetInduction ==
  ASSUME NEW L, IsFiniteSet(L), NEW T, {} \in T,
         \A s \in (SUBSET L) \ {{}} : \E x \in s : s \ {x} \in T => s \in T
  PROVE  SUBSET L \subseteq T
<1> DEFINE N == {n \in Nat : \A s \in SUBSET L : Cardinality(s) <= n => s \in T}
<1>1. 0 \in N
  BY NoElements
<1>2. ASSUME NEW n \in Nat, n \in N PROVE n + 1 \in N
  <2> SUFFICES ASSUME NEW s \in SUBSET L, Cardinality(s) <= n + 1 PROVE s \in T
    OBVIOUS
  <2>1. CASE s = {}
    BY <2>1
  <2>2. CASE s # {}
    <3>1. PICK x \in s : s \ {x} \in T => s \in T
      BY <2>2
    <3>2. s \ {x} \in SUBSET L /\ Cardinality(s \ {x}) <= n
      BY OneElementLess
    <3> QED BY <3>1, <3>2, <1>2
  <2> QED BY <2>1, <2>2
<1> HIDE DEF N
<1>3. Nat \subseteq N
  BY <1>1, <1>2, SetInduction
<1>4. ASSUME NEW s \in SUBSET L PROVE s \in T
  <2>1. Cardinality(s) \in Nat
    BY FS_Subset, FS_CardinalityType
  <2>2. Cardinality(s) \in N
    BY <2>1, <1>3
  <2> QED BY <2>1, <2>2 DEF N
<1> QED BY <1>4

\* The values that a fold comes to for the subsets, if pick says which element is next.
Folded(g, L, D, base, pick, step) ==
  /\ g \in [SUBSET L -> D] /\ g[{}] = base
  /\ \A s \in (SUBSET L) \ {{}} : g[s] = step[<<pick[s], g[s \ {pick[s]}]>>]

\* There are such values.
LEMMA FoldExists ==
  ASSUME NEW L, IsFiniteSet(L), NEW D, NEW base \in D, NEW pick,
         \A s \in (SUBSET L) \ {{}} : pick[s] \in s,
         NEW step \in [L \X D -> D]
  PROVE  \E g : Folded(g, L, D, base, pick, step)
<1> DEFINE Small(n) == {s \in SUBSET L : Cardinality(s) <= n}
           Partial(g, n) ==
             /\ g \in [Small(n) -> D]
             /\ \A s \in Small(n) : g[s] = IF s = {} THEN base
                                           ELSE step[<<pick[s], g[s \ {pick[s]}]>>]
           N == {n \in Nat : \E g : Partial(g, n)}
<1>1. 0 \in N
  <2> DEFINE g == [s \in Small(0) |-> base]
  <2>1. ASSUME NEW s \in Small(0) PROVE s = {}
    BY NoElements
  <2>2. g \in [Small(0) -> D] /\ \A s \in Small(0) : g[s] = base
    OBVIOUS
  <2> HIDE DEF g, Small
  <2>3. Partial(g, 0)
    BY <2>1, <2>2
  <2> HIDE DEF Partial
  <2> QED BY <2>3
<1>2. ASSUME NEW n \in Nat, n \in N PROVE n + 1 \in N
  <2>1. PICK g : Partial(g, n)
    BY <1>2
  <2> DEFINE h == [s \in Small(n + 1) |-> IF s = {} THEN base
                                          ELSE step[<<pick[s], g[s \ {pick[s]}]>>]]
  <2>2. ASSUME NEW s \in Small(n + 1), s # {}
        PROVE  /\ s \ {pick[s]} \in Small(n) /\ s \ {pick[s]} \in Small(n + 1)
               /\ pick[s] \in L
    <3>1. pick[s] \in s
      BY <2>2
    <3>2. /\ s \ {pick[s]} \in SUBSET L /\ Cardinality(s) \in Nat
          /\ Cardinality(s \ {pick[s]}) = Cardinality(s) - 1
      BY <3>1, OneElementLess
    <3> QED BY <3>1, <3>2
  <2>3. ASSUME NEW s \in Small(n) PROVE s \in Small(n + 1)
    <3>1. IsFiniteSet(s) /\ Cardinality(s) \in Nat
      BY FS_Subset, FS_CardinalityType
    <3> QED BY <3>1
  <2> HIDE DEF Small
  <2>4. h \in [Small(n + 1) -> D]
    <3>1. ASSUME NEW s \in Small(n + 1), s # {}
          PROVE  step[<<pick[s], g[s \ {pick[s]}]>>] \in D
      <4>1. g[s \ {pick[s]}] \in D /\ pick[s] \in L
        BY <2>1, <2>2, <3>1
      <4> QED BY <4>1
    <3> QED BY <3>1
  <2>5. ASSUME NEW s \in Small(n) PROVE h[s] = g[s]
    BY <2>1, <2>3
  <2>6. ASSUME NEW s \in Small(n + 1), s # {}
        PROVE  h[s] = step[<<pick[s], h[s \ {pick[s]}]>>]
    BY <2>6, <2>2, <2>5
  <2>7. ASSUME {} \in Small(n + 1) PROVE h[{}] = base
    BY <2>7
  <2> HIDE DEF h
  <2>8. Partial(h, n + 1)
    BY <2>4, <2>6, <2>7
  <2> HIDE DEF Partial
  <2> QED BY <2>8
<1> DEFINE c == Cardinality(L)
<1>3. c \in Nat /\ Small(c) = SUBSET L
  BY FS_CardinalityType, FS_Subset
<1> HIDE DEF N, c, Small
<1>4. c \in N
  BY <1>1, <1>2, <1>3, SetInduction
<1>5. PICK g : Partial(g, c)
  BY <1>4 DEF N
<1>6. g \in [SUBSET L -> D] /\ g[{}] = base
  BY <1>3, <1>5
<1>7. ASSUME NEW s \in (SUBSET L) \ {{}} PROVE g[s] = step[<<pick[s], g[s \ {pick[s]}]>>]
  BY <1>3, <1>5
<1> QED BY <1>6, <1>7 DEF Folded

-----------------------------------------------------------------------------
(* The fold of a sequence from the left, which takes the indices from the greatest down. *)

Largest(S) == CHOOSE i \in S : \A j \in S : i >= j

\* Of the indices of a sequence.
LEMMA LargestIndex ==
  ASSUME NEW n \in Nat, NEW S \in (SUBSET (1..n)) \ {{}}
  PROVE  Largest(S) \in S
<1>1. PICK i \in S : \A j \in S : j <= i
  BY GreatestElement
<1>2. \A j \in S : i >= j
  BY <1>1
<1> QED BY <1>2 DEF Largest

\* Of the first indices.
LEMMA LargestOfFirst ==
  ASSUME NEW k \in Nat \ {0}
  PROVE  Largest(1..k) = k /\ (1..k) \ {k} = 1..(k - 1)
<1>1. \A i \in 1..k : (\A j \in 1..k : i >= j) => i = k
  OBVIOUS
<1>2. k \in 1..k /\ \A j \in 1..k : k >= j
  OBVIOUS
<1> QED BY <1>1, <1>2 DEF Largest

\* The values of the fold for the sets of indices.
SeqFolded(g, s, D, base, step) ==
  /\ g \in [SUBSET (1..Len(s)) -> D] /\ g[{}] = base
  /\ \A S \in (SUBSET (1..Len(s))) \ {{}} :
       Largest(S) \in S /\ g[S] = step[<<g[S \ {Largest(S)}], s[Largest(S)]>>]

\* They exist for every sequence and step.
LEMMA SeqFoldExists ==
  ASSUME NEW A, NEW s \in Seq(A), NEW D, NEW base \in D, NEW step \in [D \X A -> D]
  PROVE  \E g : SeqFolded(g, s, D, base, step)
<1> DEFINE L == 1..Len(s)
           pick == [S \in SUBSET L |-> Largest(S)]
           each == [x \in L \X D |-> step[<<x[2], s[x[1]]>>]]
<1>1. Len(s) \in Nat /\ IsFiniteSet(L) /\ \A i \in L : s[i] \in A
  <2>1. Len(s) \in Nat
    OBVIOUS
  <2> QED BY <2>1, FS_Interval
<1>2. \A S \in (SUBSET L) \ {{}} : Largest(S) \in S /\ pick[S] = Largest(S)
  BY <1>1, LargestIndex
<1>3. each \in [L \X D -> D] /\ \A i \in L, d \in D : each[<<i, d>>] = step[<<d, s[i]>>]
  BY <1>1
<1> HIDE DEF pick, each
<1>4. PICK g : Folded(g, L, D, base, pick, each)
  BY <1>1, <1>2, <1>3, FoldExists
<1>5. g \in [SUBSET L -> D] /\ g[{}] = base
  BY <1>4 DEF Folded
<1>6. ASSUME NEW S \in (SUBSET L) \ {{}}
      PROVE  g[S] = step[<<g[S \ {Largest(S)}], s[Largest(S)]>>]
  <2>1. Largest(S) \in L /\ S \ {Largest(S)} \in SUBSET L
    BY <1>2
  <2>2. g[S] = each[<<Largest(S), g[S \ {Largest(S)}]>>]
    BY <1>2, <1>4 DEF Folded
  <2>3. g[S \ {Largest(S)}] \in D
    BY <2>1, <1>5
  <2> QED BY <2>1, <2>2, <2>3, <1>3
<1> QED BY <1>2, <1>5, <1>6 DEF SeqFolded

\* A sequence of different elements of a finite set is not longer than the set.
LEMMA DifferentIsShort ==
  ASSUME NEW A, IsFiniteSet(A), NEW s \in Seq(A),
         \A i, j \in 1..Len(s) : s[i] = s[j] => i = j
  PROVE  Len(s) <= Cardinality(A)
<1>1. Len(s) \in Nat /\ Cardinality(A) \in Nat /\ s \in [1..Len(s) -> A]
  BY FS_CardinalityType
<1>2. IsFiniteSet(1..Len(s)) /\ Cardinality(1..Len(s)) = IF 1 > Len(s) THEN 0 ELSE Len(s) - 1 + 1
  <2>1. Len(s) \in Nat
    OBVIOUS
  <2> QED BY <2>1, FS_Interval
<1>3. SUFFICES ASSUME Cardinality(A) < Cardinality(1..Len(s)) PROVE FALSE
  BY <1>1, <1>2
<1>4. \E i, j \in 1..Len(s) : i # j /\ s[i] = s[j]
  BY <1>1, <1>2, <1>3, FS_PigeonHole
<1> QED BY <1>4

-----------------------------------------------------------------------------
(* The sum of a function's values. *)

\* The element that a sum of a set begins with.
Chosen(s) == CHOOSE x \in s : TRUE

IsTotal(g, f, L) ==
  /\ g \in [SUBSET L -> Nat] /\ g[{}] = 0
  /\ \A s \in (SUBSET L) \ {{}} :
       Chosen(s) \in s /\ g[s] = f[Chosen(s)] + g[s \ {Chosen(s)}]

\* A sum is the fold that it is defined by.
LEMMA SumIsTotal ==
  ASSUME NEW L, IsFiniteSet(L), NEW f \in [L -> Nat]
  PROVE  \E g : IsTotal(g, f, L) /\ SumFunction(f) = g[L]
<1> DEFINE pick == [s \in SUBSET L |-> Chosen(s)]
           step == [x \in L \X Nat |-> f[x[1]] + x[2]]
           Sums(k) == k = [s \in SUBSET L |->
                             IF s = {} THEN 0
                             ELSE f[CHOOSE x \in s : TRUE] + k[s \ {CHOOSE x \in s : TRUE}]]
           h == CHOOSE k : Sums(k)
<1>1. \A s \in (SUBSET L) \ {{}} : Chosen(s) \in s /\ pick[s] = Chosen(s)
  BY DEF Chosen
<1>2. step \in [L \X Nat -> Nat] /\ \A l \in L, v \in Nat : step[<<l, v>>] = f[l] + v
  OBVIOUS
<1>3. SumFunction(f) = h[L]
  BY DEF SumFunction, SumFunctionOnSet, FoldFunctionOnSet, MapThenFoldSet
<1> HIDE DEF pick, step
<1>4. PICK g : Folded(g, L, Nat, 0, pick, step)
  BY <1>1, <1>2, FoldExists
<1>5. g \in [SUBSET L -> Nat] /\ g[{}] = 0
  BY <1>4 DEF Folded
<1>6. ASSUME NEW s \in (SUBSET L) \ {{}} PROVE g[s] = f[Chosen(s)] + g[s \ {Chosen(s)}]
  <2>1. Chosen(s) \in L /\ s \ {Chosen(s)} \in SUBSET L
    BY <1>1
  <2>2. g[s] = step[<<Chosen(s), g[s \ {Chosen(s)}]>>]
    BY <1>1, <1>4 DEF Folded
  <2>3. g[s \ {Chosen(s)}] \in Nat
    BY <2>1, <1>5
  <2> QED BY <2>1, <2>2, <2>3, <1>2
<1>7. Sums(g)
  BY <1>5, <1>6 DEF Chosen
<1> HIDE DEF Sums
<1>8. Sums(h)
  BY <1>7
<1> HIDE DEF h
<1>9. h = [s \in SUBSET L |-> IF s = {} THEN 0 ELSE f[Chosen(s)] + h[s \ {Chosen(s)}]]
  BY <1>8 DEF Sums, Chosen
<1>10. h[{}] = 0 /\ \A s \in (SUBSET L) \ {{}} : h[s] = f[Chosen(s)] + h[s \ {Chosen(s)}]
  BY <1>9
<1> DEFINE T == {s \in SUBSET L : h[s] \in Nat}
<1>11. {} \in T
  BY <1>10
<1>12. ASSUME NEW s \in (SUBSET L) \ {{}} PROVE \E x \in s : s \ {x} \in T => s \in T
  <2>1. Chosen(s) \in s
    BY <1>1
  <2>2. h[s] = f[Chosen(s)] + h[s \ {Chosen(s)}] /\ f[Chosen(s)] \in Nat
    BY <2>1, <1>10
  <2> QED BY <2>1, <2>2
<1> HIDE DEF T
<1>13. SUBSET L \subseteq T
  BY <1>11, <1>12, SubsetInduction
<1>14. h \in [SUBSET L -> Nat]
  BY <1>9, <1>13 DEF T
<1>15. IsTotal(h, f, L)
  BY <1>1, <1>10, <1>14 DEF IsTotal
<1> QED BY <1>3, <1>15

\* A sum changes by what one of its terms changes by.
LEMMA TotalChanges ==
  ASSUME NEW L, IsFiniteSet(L), NEW f \in [L -> Nat], NEW a \in L, NEW v \in Nat,
         NEW e, e[a] = v, \A l \in L : l # a => e[l] = f[l],
         NEW g, IsTotal(g, f, L), NEW h, IsTotal(h, e, L)
  PROVE  h[L] = g[L] - f[a] + v
<1> DEFINE T == {s \in SUBSET L : h[s] = IF a \in s THEN g[s] - f[a] + v ELSE g[s]}
<1>1. /\ g \in [SUBSET L -> Nat] /\ g[{}] = 0 /\ h \in [SUBSET L -> Nat] /\ h[{}] = 0
      /\ \A s \in (SUBSET L) \ {{}} : Chosen(s) \in s
      /\ \A s \in (SUBSET L) \ {{}} : g[s] = f[Chosen(s)] + g[s \ {Chosen(s)}]
      /\ \A s \in (SUBSET L) \ {{}} : h[s] = e[Chosen(s)] + h[s \ {Chosen(s)}]
  BY DEF IsTotal
<1>2. {} \in T
  BY <1>1
<1>3. ASSUME NEW s \in (SUBSET L) \ {{}} PROVE \E x \in s : s \ {x} \in T => s \in T
  <2> DEFINE x == Chosen(s)
             r == s \ {x}
  <2>1. x \in s /\ x \in L /\ r \in SUBSET L
    BY <1>1
  <2> SUFFICES ASSUME r \in T PROVE h[s] = IF a \in s THEN g[s] - f[a] + v ELSE g[s]
    BY <2>1
  <2>2. g[s] = f[x] + g[r] /\ h[s] = e[x] + h[r]
    BY <1>1
  <2>3. h[r] = IF a \in r THEN g[r] - f[a] + v ELSE g[r]
    OBVIOUS
  <2>4. a \in r <=> a \in s /\ a # x
    OBVIOUS
  <2>5. g[r] \in Nat /\ h[r] \in Nat /\ f[x] \in Nat /\ f[a] \in Nat
    BY <2>1, <1>1
  <2> HIDE DEF x, r, T
  <2>6. CASE x = a
    <3>1. h[r] = g[r]
      BY <2>3, <2>4, <2>6
    <3> QED BY <2>1, <2>2, <2>5, <2>6, <3>1
  <2>7. CASE x # a
    <3>1. e[x] = f[x]
      BY <2>1, <2>7
    <3> QED BY <2>2, <2>3, <2>4, <2>5, <2>7, <3>1
  <2> QED BY <2>6, <2>7
<1> HIDE DEF T
<1>4. SUBSET L \subseteq T
  BY <1>2, <1>3, SubsetInduction
<1>5. L \in T
  BY <1>4
<1> QED BY <1>5 DEF T

\* The same of the sum of a function, which is never below one of its terms.
LEMMA SumChanges ==
  ASSUME NEW L, IsFiniteSet(L), NEW f \in [L -> Nat], NEW a \in L, NEW v \in Nat
  PROVE  /\ SumFunction(f) \in Nat /\ SumFunction(f) >= f[a]
         /\ SumFunction([f EXCEPT ![a] = v]) = SumFunction(f) - f[a] + v
<1>1. ASSUME NEW w \in Nat
      PROVE  /\ SumFunction(f) \in Nat /\ SumFunction([f EXCEPT ![a] = w]) \in Nat
             /\ SumFunction([f EXCEPT ![a] = w]) = SumFunction(f) - f[a] + w
  <2>1. PICK g : IsTotal(g, f, L) /\ SumFunction(f) = g[L]
    BY SumIsTotal
  <2>2. PICK e : e = [f EXCEPT ![a] = w]
    OBVIOUS
  <2>3. e \in [L -> Nat]
    BY <2>2
  <2>4. PICK h : IsTotal(h, e, L) /\ SumFunction(e) = h[L]
    BY <2>3, SumIsTotal
  <2>5. h[L] = g[L] - f[a] + w
    <3>1. e[a] = w /\ \A l \in L : l # a => e[l] = f[l]
      BY <2>2
    <3> QED BY <3>1, <2>1, <2>4, TotalChanges
  <2>6. g[L] \in Nat /\ h[L] \in Nat
    BY <2>1, <2>4 DEF IsTotal
  <2> QED BY <2>1, <2>2, <2>4, <2>5, <2>6
<1>2. SumFunction([f EXCEPT ![a] = 0]) \in Nat
      /\ SumFunction([f EXCEPT ![a] = 0]) = SumFunction(f) - f[a] + 0
  BY <1>1
<1>3. SumFunction(f) \in Nat /\ f[a] \in Nat
  BY <1>1
<1>4. SumFunction(f) >= f[a]
  BY <1>2, <1>3
<1> QED BY <1>1, <1>4

\* The sum of zeros.
LEMMA SumOfZeros ==
  ASSUME NEW L, IsFiniteSet(L)
  PROVE  SumFunction([l \in L |-> 0]) = 0
<1> DEFINE f == [l \in L |-> 0]
<1>1. f \in [L -> Nat] /\ \A l \in L : f[l] = 0
  OBVIOUS
<1> HIDE DEF f
<1>2. PICK g : IsTotal(g, f, L) /\ SumFunction(f) = g[L]
  BY <1>1, SumIsTotal
<1>3. /\ g[{}] = 0 /\ \A s \in (SUBSET L) \ {{}} : Chosen(s) \in s
      /\ \A s \in (SUBSET L) \ {{}} : g[s] = f[Chosen(s)] + g[s \ {Chosen(s)}]
  BY <1>2 DEF IsTotal
<1> DEFINE T == {s \in SUBSET L : g[s] = 0}
<1>4. {} \in T
  BY <1>3
<1>5. ASSUME NEW s \in (SUBSET L) \ {{}} PROVE \E x \in s : s \ {x} \in T => s \in T
  <2>1. Chosen(s) \in s
    BY <1>3
  <2>2. g[s] = f[Chosen(s)] + g[s \ {Chosen(s)}] /\ f[Chosen(s)] = 0
    BY <2>1, <1>1, <1>3
  <2> QED BY <2>1, <2>2
<1> HIDE DEF T
<1>6. SUBSET L \subseteq T
  BY <1>4, <1>5, SubsetInduction
<1>7. g[L] = 0
  BY <1>6 DEF T
<1> QED BY <1>2, <1>7 DEF f
=============================================================================
