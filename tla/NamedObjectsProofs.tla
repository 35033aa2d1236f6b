-------------------------- MODULE NamedObjectsProofs --------------------------
(***************************************************************************)
(* Every cell has at least as many references counted as there are holders, *)
(* and exactly as many until a failure leaves something behind, for any     *)
(* number of cells, paths and references of the evaluator.                  *)
(*                                                                         *)
(* What a cell's count exceeds its node and the other cells' references by  *)
(* is its surplus. Each operator of Objects changes the surpluses in a way   *)
(* of its own; a declaration adds them up.                                  *)
(***************************************************************************)
EXTENDS NamedObjects, Lemmas, FunctionTheorems

Refs == Cells \cup {Nil}

-----------------------------------------------------------------------------
(* How often a sequence of references has a cell. *)

\* Where it has it.
At(c, refs) == {i \in DOMAIN refs : refs[i] = c}

\* The occurrences in a finite sequence are a number, and its places are a set of
\* that size.
LEMMA TimesIsNatural ==
  ASSUME NEW c, NEW A, NEW s \in Seq(A)
  PROVE  IsFiniteSet(At(c, s)) /\ Times(c, s) = Cardinality(At(c, s)) /\ Times(c, s) \in Nat
<1>1. IsFiniteSet(1..Len(s))
  <2>1. Len(s) \in Nat
    OBVIOUS
  <2> QED BY <2>1, FS_Interval
<1>2. At(c, s) \in SUBSET (1..Len(s))
  BY DEF At
<1>3. IsFiniteSet(At(c, s)) /\ Cardinality(At(c, s)) \in Nat
  BY <1>1, <1>2, FS_Subset, FS_CardinalityType
<1> QED BY <1>3 DEF Times, At

\* A sequence that never has a cell is one of other references.
LEMMA TimesZero ==
  ASSUME NEW c, NEW A, NEW s \in Seq(A)
  PROVE  /\ (Times(c, s) = 0 <=> \A i \in 1..Len(s) : s[i] # c)
         /\ Times(c, s) = 0 => s \in Seq(A \ {c})
<1>1. Times(c, s) = 0 <=> At(c, s) = {}
  BY TimesIsNatural, FS_EmptySet
<1>2. At(c, s) = {} <=> \A i \in 1..Len(s) : s[i] # c
  BY DEF At
<1>3. (\A i \in 1..Len(s) : s[i] # c) => s \in Seq(A \ {c})
  OBVIOUS
<1> QED BY <1>1, <1>2, <1>3

\* The occurrences in two sequences add up.
LEMMA TimesConcat ==
  ASSUME NEW c, NEW A, NEW s \in Seq(A), NEW t \in Seq(A)
  PROVE  Times(c, s \o t) = Times(c, s) + Times(c, t)
<1> DEFINE later == {i \in (Len(s) + 1)..(Len(s) + Len(t)) : t[i - Len(s)] = c}
           f == [i \in At(c, t) |-> i + Len(s)]
<1>1. /\ s \o t \in Seq(A) /\ Len(s) \in Nat /\ Len(t) \in Nat
      /\ Len(s \o t) = Len(s) + Len(t)
      /\ \A i \in 1..Len(s) : (s \o t)[i] = s[i]
      /\ \A i \in (Len(s) + 1)..(Len(s) + Len(t)) : (s \o t)[i] = t[i - Len(s)]
  OBVIOUS
<1>2. At(c, s \o t) = At(c, s) \cup later
  <2>1. DOMAIN (s \o t) = 1..(Len(s) + Len(t)) /\ DOMAIN s = 1..Len(s)
    BY <1>1
  <2> QED BY <1>1, <2>1 DEF At
<1>3. At(c, s) \cap later = {}
  BY <1>1 DEF At
<1>4. f \in Bijection(At(c, t), later)
  <2>1. f \in [At(c, t) -> later]
    BY <1>1 DEF At
  <2>2. \A i, j \in At(c, t) : f[i] = f[j] => i = j
    BY <1>1 DEF At
  <2>3. \A k \in later : \E i \in At(c, t) : f[i] = k
    <3> SUFFICES ASSUME NEW k \in later PROVE k - Len(s) \in At(c, t) /\ f[k - Len(s)] = k
      OBVIOUS
    <3> QED BY <1>1 DEF At
  <2> QED BY <2>1, <2>2, <2>3, Fun_IsBij
<1>5. IsFiniteSet(later) /\ Cardinality(later) = Cardinality(At(c, t))
  <2>1. IsFiniteSet(At(c, t))
    BY TimesIsNatural
  <2> HIDE DEF f, later
  <2>2. ExistsBijection(At(c, t), later)
    BY <1>4 DEF ExistsBijection
  <2> QED BY <2>1, <2>2, FS_Bijection
<1> HIDE DEF later
<1>6. IsFiniteSet(At(c, s)) /\ Cardinality(At(c, s)) = Times(c, s) /\ Times(c, s) \in Nat
  BY TimesIsNatural
<1>7. Cardinality(At(c, t)) = Times(c, t) /\ Times(c, t) \in Nat
  BY TimesIsNatural
<1>8. Cardinality(At(c, s \o t)) = Times(c, s \o t)
  BY <1>1, TimesIsNatural
<1>9. Cardinality(At(c, s) \cup later)
        = Cardinality(At(c, s)) + Cardinality(later) - Cardinality(At(c, s) \cap later)
  BY <1>5, <1>6, FS_Union
<1>10. Cardinality(At(c, s) \cap later) = 0
  BY <1>3, FS_EmptySet
<1> QED BY <1>2, <1>5, <1>6, <1>7, <1>8, <1>9, <1>10

\* Of one reference and of none.
LEMMA TimesOne ==
  ASSUME NEW c, NEW d
  PROVE  Times(c, <<d>>) = (IF c = d THEN 1 ELSE 0) /\ Times(c, <<>>) = 0
<1>1. At(c, <<d>>) = IF c = d THEN {1} ELSE {}
  BY DEF At
<1>2. At(c, <<>>) = {}
  BY DEF At
<1>3. Times(c, <<d>>) = Cardinality(At(c, <<d>>)) /\ Times(c, <<>>) = Cardinality(At(c, <<>>))
  BY DEF Times, At
<1>4. Cardinality({1}) = 1 /\ Cardinality({}) = 0
  BY FS_Singleton, FS_EmptySet
<1> QED BY <1>1, <1>2, <1>3, <1>4

\* The first reference is one of all.
LEMMA TimesHead ==
  ASSUME NEW c, NEW A, NEW s \in Seq(A), s # <<>>
  PROVE  /\ Head(s) \in A /\ Tail(s) \in Seq(A) /\ Len(Tail(s)) = Len(s) - 1 /\ Len(s) \in Nat
         /\ Times(c, s) = (IF c = Head(s) THEN 1 ELSE 0) + Times(c, Tail(s))
<1>1. /\ Head(s) \in A /\ Tail(s) \in Seq(A) /\ Len(Tail(s)) = Len(s) - 1 /\ Len(s) \in Nat
      /\ <<Head(s)>> \in Seq(A)
  OBVIOUS
<1>2. s = <<Head(s)>> \o Tail(s)
  BY <1>1
<1>3. Times(c, <<Head(s)>> \o Tail(s)) = Times(c, <<Head(s)>>) + Times(c, Tail(s))
  BY <1>1, TimesConcat
<1> QED BY <1>1, <1>2, <1>3, TimesOne

-----------------------------------------------------------------------------
(* Stores. *)

Types == {"name", "buffer", "package", "device", "processor", "powerres", "thermalzone",
          "alias", "method", "region", "mutex", "event", "dataregion"} \cup Fields
CellRecords == [type : Types, count : Nat \ {0}, refs : Seq(Refs),
                node : Names \cup {Nil}, open : BOOLEAN]
NodeRecords == [in : BOOLEAN, object : Refs, pre : BOOLEAN]
Stores == [cells : UNION {[L -> CellRecords] : L \in SUBSET Cells},
           nodes : [Names -> NodeRecords],
           opened : Int, misfreed : BOOLEAN, dangled : BOOLEAN, lost : BOOLEAN]

Opened(s) == {c \in Live(s) : s.cells[c].open}

\* What a node and its object know of each other, except for the nodes of x.
Linked(s, x) ==
  /\ \A n \in Names : ~s.nodes[n].in => s.nodes[n] = NoNode
  /\ \A n \in Names \ x : s.nodes[n].object # Nil
       => s.nodes[n].object \in Live(s) /\ s.cells[s.nodes[n].object].node = n
  /\ \A c \in Live(s) : s.cells[c].node # Nil
       => s.cells[c].node \in Names \ x /\ s.nodes[s.cells[c].node].object = c

\* Nothing refers to what has been freed, and the host has open what it should.
Shape(s, x) ==
  /\ s \in Stores /\ ~s.dangled /\ Linked(s, x)
  /\ \A c \in Live(s) : s.cells[c].refs \in Seq(Live(s) \cup {Nil})
  /\ \A c \in Live(s) : s.cells[c].open => s.cells[c].type \in OnHost
  /\ s.opened = Cardinality(Opened(s))

\* The references of other cells to c, and what is counted beyond them and the
\* node.
Terms(s, c) == [d \in Cells |-> Times(c, RefsOf(s, d))]
Inner(s, c) == SumFunction(Terms(s, c))
Surplus(s, c) ==
  IF c \in Live(s)
  THEN s.cells[c].count - (IF s.cells[c].node = Nil THEN 0 ELSE 1) - Inner(s, c)
  ELSE 0

\* A store's cells.
LEMMA StoreCells ==
  ASSUME NEW s \in Stores
  PROVE  /\ Live(s) \in SUBSET Cells /\ IsFiniteSet(Live(s)) /\ IsFiniteSet(Opened(s))
         /\ Cardinality(Opened(s)) \in Nat
         /\ s.cells \in [Live(s) -> CellRecords]
         /\ \A c \in Cells : RefsOf(s, c) \in Seq(Refs)
<1>1. PICK L \in SUBSET Cells : s.cells \in [L -> CellRecords]
  BY DEF Stores
<1>2. Live(s) = L
  BY <1>1 DEF Live
<1>3. \A c \in Cells : RefsOf(s, c) \in Seq(Refs)
  BY <1>1, <1>2 DEF RefsOf, CellRecords
<1>4. IsFiniteSet(L)
  BY CellsAssumption, FS_Subset
<1>5. Opened(s) \in SUBSET L
  BY <1>2 DEF Opened
<1>6. IsFiniteSet(Opened(s)) /\ Cardinality(Opened(s)) \in Nat
  BY <1>4, <1>5, FS_Subset, FS_CardinalityType
<1> QED BY <1>1, <1>2, <1>3, <1>4, <1>6

\* The references to a cell are a number, and no less than those of one cell.
LEMMA InnerIsNatural ==
  ASSUME NEW s \in Stores, NEW c, NEW d \in Cells
  PROVE  /\ Terms(s, c) \in [Cells -> Nat] /\ Inner(s, c) \in Nat
         /\ Inner(s, c) >= Times(c, RefsOf(s, d)) /\ Times(c, RefsOf(s, d)) \in Nat
<1>1. \A e \in Cells : Times(c, RefsOf(s, e)) \in Nat
  BY StoreCells, TimesIsNatural
<1>2. Terms(s, c) \in [Cells -> Nat]
  BY <1>1 DEF Terms
<1>3. IsFiniteSet(Cells) /\ 0 \in Nat
  BY CellsAssumption
<1>4. SumFunction(Terms(s, c)) \in Nat /\ SumFunction(Terms(s, c)) >= Terms(s, c)[d]
  BY <1>2, <1>3, SumChanges
<1> QED BY <1>1, <1>2, <1>4 DEF Inner, Terms

\* Nothing refers to a cell that does not exist.
LEMMA NothingRefers ==
  ASSUME NEW s, NEW x, Shape(s, x), NEW c \in Cells, c \notin Live(s)
  PROVE  Inner(s, c) = 0
<1>1. s \in Stores /\ \A d \in Live(s) : s.cells[d].refs \in Seq(Live(s) \cup {Nil})
  BY DEF Shape
<1>2. c \notin Live(s) \cup {Nil}
  BY CellsAssumption
<1>3. ASSUME NEW d \in Cells PROVE Times(c, RefsOf(s, d)) = 0
  <2>1. RefsOf(s, d) \in Seq(Live(s) \cup {Nil})
    BY <1>1 DEF RefsOf
  <2>2. \A i \in 1..Len(RefsOf(s, d)) : RefsOf(s, d)[i] # c
    BY <2>1, <1>2
  <2> QED BY <2>1, <2>2, TimesZero
<1>4. Terms(s, c) = [d \in Cells |-> 0]
  BY <1>3 DEF Terms
<1> QED BY <1>4, CellsAssumption, SumOfZeros DEF Inner

\* The references of one cell come or go.
LEMMA InnerChanges ==
  ASSUME NEW s \in Stores, NEW t \in Stores, NEW a \in Cells, NEW c,
         \A d \in Cells \ {a} : RefsOf(t, d) = RefsOf(s, d)
  PROVE  Inner(t, c) = Inner(s, c) - Times(c, RefsOf(s, a)) + Times(c, RefsOf(t, a))
<1> DEFINE v == Times(c, RefsOf(t, a))
<1>1. Terms(s, c) \in [Cells -> Nat] /\ v \in Nat
  BY InnerIsNatural
<1>2. Terms(t, c) = [Terms(s, c) EXCEPT ![a] = v]
  BY DEF Terms
<1> HIDE DEF v
<1>3. SumFunction([Terms(s, c) EXCEPT ![a] = v]) = SumFunction(Terms(s, c)) - Terms(s, c)[a] + v
  <2>1. PICK f : f = Terms(s, c)
    OBVIOUS
  <2>2. f \in [Cells -> Nat] /\ IsFiniteSet(Cells)
    BY <2>1, <1>1, CellsAssumption
  <2>3. SumFunction([f EXCEPT ![a] = v]) = SumFunction(f) - f[a] + v
    BY <2>2, <1>1, SumChanges
  <2> QED BY <2>1, <2>3
<1>4. Terms(s, c)[a] = Times(c, RefsOf(s, a))
  BY DEF Terms
<1> QED BY <1>2, <1>3, <1>4 DEF Inner, v

\* A surplus may be negative as far as the types go.
LEMMA SurplusIsInteger ==
  ASSUME NEW s \in Stores, NEW c \in Cells
  PROVE  Surplus(s, c) \in Int
<1>1. Inner(s, c) \in Nat
  BY InnerIsNatural
<1>2. c \in Live(s) => s.cells[c].count \in Nat
  BY StoreCells DEF CellRecords
<1> QED BY <1>1, <1>2 DEF Surplus

-----------------------------------------------------------------------------
(* What the operators of Objects do to a store. *)

\* The stores differ in their counts at most.
SameButCounts(s, t) ==
  /\ t \in Stores /\ Live(t) = Live(s)
  /\ \A c \in Live(s) : /\ t.cells[c].type = s.cells[c].type /\ t.cells[c].refs = s.cells[c].refs
                        /\ t.cells[c].node = s.cells[c].node /\ t.cells[c].open = s.cells[c].open
  /\ t.nodes = s.nodes /\ t.opened = s.opened
  /\ t.misfreed = s.misfreed /\ t.dangled = s.dangled /\ t.lost = s.lost

\* Counts decide nothing of the shape of a store.
LEMMA CountsKeepShape ==
  ASSUME NEW s, NEW x, Shape(s, x), NEW t, SameButCounts(s, t)
  PROVE  Shape(t, x) /\ \A c : Inner(t, c) = Inner(s, c)
<1>1. Shape(t, x)
  <2>1. Opened(t) = Opened(s)
    BY DEF SameButCounts, Opened
  <2>2. Linked(t, x)
    BY DEF SameButCounts, Shape, Linked
  <2> QED BY <2>1, <2>2 DEF SameButCounts, Shape
<1>2. \A c, d : Times(c, RefsOf(t, d)) = Times(c, RefsOf(s, d))
  BY DEF RefsOf, SameButCounts
<1>3. \A c : Terms(t, c) = Terms(s, c)
  BY <1>2 DEF Terms
<1> QED BY <1>1, <1>3 DEF Inner

\* A count changes by one.
LEMMA CountChanges ==
  ASSUME NEW s, NEW x, Shape(s, x), NEW c \in Live(s), NEW k \in Nat \ {0},
         NEW t, t = [s EXCEPT !.cells[c].count = k]
  PROVE  /\ SameButCounts(s, t) /\ Shape(t, x)
         /\ \A d \in Cells : Surplus(t, d) = Surplus(s, d)
                               + (IF d = c THEN k - s.cells[c].count ELSE 0)
<1>1. s \in Stores /\ s.cells \in [Live(s) -> CellRecords] /\ Live(s) \in SUBSET Cells
  BY StoreCells DEF Shape
<1> DEFINE cells == [s.cells EXCEPT ![c].count = k]
<1>2. t = [s EXCEPT !.cells = cells]
  OBVIOUS
<1>3. /\ cells \in [Live(s) -> CellRecords]
      /\ \A d \in Live(s) : /\ cells[d].type = s.cells[d].type /\ cells[d].refs = s.cells[d].refs
                            /\ cells[d].node = s.cells[d].node /\ cells[d].open = s.cells[d].open
                            /\ cells[d].count = IF d = c THEN k ELSE s.cells[d].count
  BY <1>1 DEF CellRecords
<1> HIDE DEF cells
<1>4. /\ t.cells = cells /\ t.nodes = s.nodes /\ t.opened = s.opened
      /\ t.misfreed = s.misfreed /\ t.dangled = s.dangled /\ t.lost = s.lost /\ t \in Stores
  BY <1>1, <1>2, <1>3 DEF Stores
<1>5. Live(t) = Live(s)
  BY <1>3, <1>4 DEF Live
<1>6. SameButCounts(s, t)
  BY <1>3, <1>4, <1>5 DEF SameButCounts
<1>7. Shape(t, x) /\ \A d : Inner(t, d) = Inner(s, d)
  BY <1>6, CountsKeepShape
<1>8. ASSUME NEW d \in Cells
      PROVE  Surplus(t, d) = Surplus(s, d) + (IF d = c THEN k - s.cells[c].count ELSE 0)
  <2>1. Inner(s, d) \in Nat /\ (d \in Live(s) => s.cells[d].count \in Nat)
    BY <1>1, InnerIsNatural DEF CellRecords
  <2> QED BY <2>1, <1>3, <1>4, <1>5, <1>7 DEF Surplus
<1> QED BY <1>6, <1>7, <1>8

\* A reference to a cell that exists is one more.
LEMMA ReferenceIsSound ==
  ASSUME NEW s, NEW x, Shape(s, x), NEW c \in Live(s) \cup {Nil}
  PROVE  /\ SameButCounts(s, Reference(s, c)) /\ Shape(Reference(s, c), x)
         /\ \A d \in Cells : Surplus(Reference(s, c), d) = Surplus(s, d)
                               + (IF d = c THEN 1 ELSE 0)
<1>1. s \in Stores /\ s.cells \in [Live(s) -> CellRecords] /\ Live(s) \in SUBSET Cells
  BY StoreCells DEF Shape
<1>2. CASE c = Nil
  <2>1. Reference(s, c) = s
    BY <1>2 DEF Reference
  <2>2. \A d \in Cells : Surplus(s, d) = Surplus(s, d) + 0 /\ d # c
    BY <1>1, <1>2, SurplusIsInteger, CellsAssumption
  <2> QED BY <1>1, <2>1, <2>2 DEF SameButCounts
<1>3. CASE c # Nil
  <2>1. PICK k : k = s.cells[c].count + 1
    OBVIOUS
  <2>2. s.cells[c].count \in Nat /\ k \in Nat \ {0} /\ k - s.cells[c].count = 1
    BY <1>1, <1>3, <2>1 DEF CellRecords
  <2>3. Reference(s, c) = [s EXCEPT !.cells[c].count = k]
    BY <1>3, <2>1 DEF Reference
  <2> QED BY <1>3, <2>2, <2>3, CountChanges
<1> QED BY <1>2, <1>3

\* So are the references of a sequence, one after another.
LEMMA ReferenceAllIsSound ==
  ASSUME NEW s, NEW x, Shape(s, x), NEW refs \in Seq(Live(s) \cup {Nil})
  PROVE  /\ SameButCounts(s, ReferenceAll(s, refs)) /\ Shape(ReferenceAll(s, refs), x)
         /\ \A d \in Cells : Surplus(ReferenceAll(s, refs), d) = Surplus(s, d) + Times(d, refs)
<1> DEFINE A == Live(s) \cup {Nil}
           D == {u \in Stores : SameButCounts(s, u) /\ Shape(u, x)}
           step == [y \in D \X A |-> Reference(y[1], y[2])]
           L == 1..Len(refs)
           Follow(k) == k = [S \in SUBSET L |->
                               IF S = {} THEN s
                               ELSE Reference(k[S \ {Largest(S)}], refs[Largest(S)])]
           h == CHOOSE k : Follow(k)
<1>1. DOMAIN refs = L /\ \A i \in L : refs[i] \in A
  OBVIOUS
<1>2. ReferenceAll(s, refs) = h[L]
  BY <1>1 DEF ReferenceAll, FoldLeft, MapThenFoldSet, Max, Largest
<1>3. ASSUME NEW u \in D, NEW c \in A
      PROVE  /\ Reference(u, c) \in D
             /\ \A d \in Cells : Surplus(Reference(u, c), d) = Surplus(u, d)
                                   + (IF d = c THEN 1 ELSE 0)
  <2>1. c \in Live(u) \cup {Nil}
    BY DEF SameButCounts
  <2>2. /\ SameButCounts(u, Reference(u, c)) /\ Shape(Reference(u, c), x)
        /\ \A d \in Cells : Surplus(Reference(u, c), d) = Surplus(u, d)
                              + (IF d = c THEN 1 ELSE 0)
    BY <2>1, ReferenceIsSound
  <2>3. SameButCounts(s, Reference(u, c))
    BY <2>2 DEF SameButCounts
  <2> QED BY <2>2, <2>3 DEF SameButCounts
<1>4. step \in [D \X A -> D] /\ \A u \in D, c \in A : step[<<u, c>>] = Reference(u, c)
  BY <1>3
<1>5. s \in D
  BY DEF Shape, SameButCounts
<1> HIDE DEF step, D
<1>6. PICK g : SeqFolded(g, refs, D, s, step)
  BY <1>4, <1>5, SeqFoldExists
<1>7. /\ g \in [SUBSET L -> D] /\ g[{}] = s
      /\ \A S \in (SUBSET L) \ {{}} : Largest(S) \in S
      /\ \A S \in (SUBSET L) \ {{}} : g[S] = step[<<g[S \ {Largest(S)}], refs[Largest(S)]>>]
  BY <1>6 DEF SeqFolded
<1>8. Follow(g)
  <2>1. ASSUME NEW S \in (SUBSET L) \ {{}}
        PROVE  g[S] = Reference(g[S \ {Largest(S)}], refs[Largest(S)])
    <3>1. Largest(S) \in L /\ S \ {Largest(S)} \in SUBSET L
      BY <1>7
    <3>2. g[S \ {Largest(S)}] \in D /\ refs[Largest(S)] \in A
      BY <3>1, <1>1, <1>7
    <3> QED BY <3>2, <1>4, <1>7
  <2> HIDE DEF L
  <2> QED BY <2>1, <1>7
<1> HIDE DEF Follow
<1>9. Follow(h)
  BY <1>8
<1> HIDE DEF h
<1>10. h[{}] = s /\ \A S \in (SUBSET L) \ {{}} :
                       h[S] = Reference(h[S \ {Largest(S)}], refs[Largest(S)])
  BY <1>9 DEF Follow
<1> DEFINE Found(S, d) == {i \in S : refs[i] = d}
           T == {S \in SUBSET L : /\ h[S] \in D
                                  /\ \A d \in Cells : Surplus(h[S], d)
                                       = Surplus(s, d) + Cardinality(Found(S, d))}
<1>11. \A d \in Cells : Surplus(s, d) \in Int
  BY SurplusIsInteger DEF Shape
<1>12. {} \in T
  <2>1. \A d : Found({}, d) = {}
    OBVIOUS
  <2> HIDE DEF Found
  <2>2. \A d : Cardinality(Found({}, d)) = 0
    BY <2>1, FS_EmptySet
  <2>3. \A d \in Cells : Surplus(s, d) = Surplus(s, d) + Cardinality(Found({}, d))
    BY <2>2, <1>11
  <2> QED BY <2>3, <1>5, <1>10
<1>13. IsFiniteSet(L)
  <2>1. Len(refs) \in Nat
    OBVIOUS
  <2> QED BY <2>1, FS_Interval
<1>14. ASSUME NEW S \in (SUBSET L) \ {{}} PROVE \E i \in S : S \ {i} \in T => S \in T
  <2>1. PICK i \in S : i = Largest(S)
    BY <1>7
  <2>2. PICK r : r = S \ {i}
    OBVIOUS
  <2>3. SUFFICES ASSUME r \in T PROVE S \in T
    BY <2>1, <2>2
  <2>4. refs[i] \in A /\ h[S] = Reference(h[r], refs[i]) /\ h[r] \in D
    BY <2>1, <2>2, <2>3, <1>1, <1>10
  <2>5. h[S] \in D
    BY <2>4, <1>3
  <2>6. ASSUME NEW d \in Cells
        PROVE  Surplus(h[S], d) = Surplus(s, d) + Cardinality(Found(S, d))
    <3>1. Found(S, d) = IF d = refs[i] THEN Found(r, d) \cup {i} ELSE Found(r, d)
      BY <2>1, <2>2
    <3>2. i \notin Found(r, d) /\ Found(r, d) \in SUBSET L
      BY <2>2
    <3> HIDE DEF Found
    <3>3. IsFiniteSet(Found(r, d)) /\ Cardinality(Found(r, d)) \in Nat
      BY <3>2, <1>13, FS_Subset, FS_CardinalityType
    <3>4. Cardinality(Found(r, d) \cup {i}) = Cardinality(Found(r, d)) + 1
      BY <3>2, <3>3, FS_AddElement
    <3>5. Surplus(h[S], d) = Surplus(h[r], d) + (IF d = refs[i] THEN 1 ELSE 0)
      BY <2>4, <1>3
    <3>6. Surplus(h[r], d) = Surplus(s, d) + Cardinality(Found(r, d))
      BY <2>3
    <3> QED BY <3>1, <3>3, <3>4, <3>5, <3>6, <1>11
  <2> QED BY <2>5, <2>6
<1> HIDE DEF T, L
<1>15. SUBSET L \subseteq T
  BY <1>12, <1>13, <1>14, SubsetInduction
<1>16. L \in T
  BY <1>15
<1>17. \A d : Found(L, d) = At(d, refs)
  BY <1>1 DEF At
<1>18. \A d : Times(d, refs) = Cardinality(At(d, refs))
  BY DEF Times, At
<1> HIDE DEF Found
<1> QED BY <1>2, <1>16, <1>17, <1>18 DEF T, D

\* The references that cells hold are a number.
LEMMA AllRefsAreNatural ==
  ASSUME NEW s \in Stores
  PROVE  AllRefs(s) \in Nat
<1>1. PICK f : f = [d \in Cells |-> Len(RefsOf(s, d))]
  OBVIOUS
<1>2. f \in [Cells -> Nat]
  BY <1>1, StoreCells
<1>3. CASE Cells = {}
  <2>1. f = [d \in Cells |-> 0]
    BY <1>1, <1>3
  <2> QED BY <1>1, <2>1, CellsAssumption, SumOfZeros DEF AllRefs
<1>4. CASE Cells # {}
  <2>1. PICK a \in Cells : TRUE
    BY <1>4
  <2>2. SumFunction(f) \in Nat
    BY <2>1, <1>2, CellsAssumption, SumChanges
  <2> QED BY <1>1, <2>2 DEF AllRefs
<1> QED BY <1>3, <1>4

\* All references that cells hold, before and after those of one cell change.
LEMMA AllRefsChange ==
  ASSUME NEW s \in Stores, NEW t \in Stores, NEW a \in Cells,
         \A d \in Cells \ {a} : RefsOf(t, d) = RefsOf(s, d)
  PROVE  /\ AllRefs(s) \in Nat /\ AllRefs(t) \in Nat
         /\ AllRefs(t) = AllRefs(s) - Len(RefsOf(s, a)) + Len(RefsOf(t, a))
<1>1. PICK f : f = [d \in Cells |-> Len(RefsOf(s, d))]
  OBVIOUS
<1>2. PICK e : e = [d \in Cells |-> Len(RefsOf(t, d))]
  OBVIOUS
<1>3. \A d \in Cells : Len(RefsOf(s, d)) \in Nat /\ Len(RefsOf(t, d)) \in Nat
  BY StoreCells
<1>4. PICK v : v = Len(RefsOf(t, a))
  OBVIOUS
<1>5. f \in [Cells -> Nat] /\ v \in Nat /\ IsFiniteSet(Cells)
  BY <1>1, <1>3, <1>4, CellsAssumption
<1>6. SumFunction(f) \in Nat /\ SumFunction([f EXCEPT ![a] = v]) = SumFunction(f) - f[a] + v
  BY <1>5, SumChanges
<1>7. e = [f EXCEPT ![a] = v]
  BY <1>1, <1>2, <1>4
<1>8. AllRefs(s) \in Nat /\ AllRefs(t) \in Nat
  BY AllRefsAreNatural
<1> QED BY <1>1, <1>2, <1>4, <1>6, <1>7, <1>8 DEF AllRefs

\* Every mutex and event has its resource of the host.
HostsOpen(s) == \A c \in Live(s) : s.cells[c].type \in {"mutex", "event"} => s.cells[c].open

\* The last reference goes, and it is one that is counted for nobody else: the
\* cell has no node, and no other cell refers to it.
LEMMA FreedIsSound ==
  ASSUME NEW s, NEW x, Shape(s, x), NEW c \in Live(s),
         s.cells[c].count = 1, Surplus(s, c) >= 1
  PROVE  LET t == Freed(s, c)
         IN /\ s.cells[c].node = Nil /\ Shape(t, x) /\ Live(t) = Live(s) \ {c}
            /\ \A d \in Live(t) : t.cells[d] = s.cells[d]
            /\ t.nodes = s.nodes /\ t.lost = (s.lost \/ s.cells[c].type = "dataregion")
            /\ HostsOpen(s) => t.misfreed = s.misfreed
            /\ Surplus(s, c) = 1 /\ Times(c, s.cells[c].refs) = 0
            /\ \A d \in Cells \ {c} : Surplus(t, d) = Surplus(s, d) + Times(d, s.cells[c].refs)
            /\ AllRefs(s) \in Nat /\ AllRefs(t) \in Nat
            /\ AllRefs(t) = AllRefs(s) - Len(s.cells[c].refs)
<1> DEFINE t == Freed(s, c)
           cells == [d \in Live(s) \ {c} |-> s.cells[d]]
           u == Close(s, c)
<1>1. /\ s \in Stores /\ s.cells \in [Live(s) -> CellRecords] /\ Live(s) \in SUBSET Cells
      /\ c \in Cells /\ Cardinality(Opened(s)) \in Nat /\ IsFiniteSet(Opened(s))
  BY StoreCells DEF Shape
<1>2. s.cells[c].node = Nil /\ Inner(s, c) = 0 /\ Surplus(s, c) = 1
  <2>1. Inner(s, c) \in Nat
    BY <1>1, InnerIsNatural
  <2> QED BY <2>1 DEF Surplus
<1>3. \A d \in Cells : Times(c, RefsOf(s, d)) = 0
  BY <1>1, <1>2, InnerIsNatural
<1>4. /\ u.cells = s.cells /\ u.nodes = s.nodes /\ u.dangled = s.dangled /\ u.lost = s.lost
      /\ u.opened = IF s.cells[c].open THEN s.opened - 1 ELSE s.opened
      /\ u.misfreed \in BOOLEAN /\ u \in Stores
      /\ HostsOpen(s) => u.misfreed = s.misfreed
  <2>1. CASE s.cells[c].open
    <3>1. u = [s EXCEPT !.opened = @ - 1]
      BY <2>1 DEF Close, Shape
    <3> QED BY <2>1, <3>1, <1>1 DEF Stores
  <2>2. CASE ~s.cells[c].open /\ s.cells[c].type \in {"mutex", "event"}
    <3>1. u = [s EXCEPT !.misfreed = TRUE] /\ ~HostsOpen(s)
      BY <2>2 DEF Close, OnHost, HostsOpen
    <3> QED BY <2>2, <3>1, <1>1 DEF Stores
  <2>3. CASE ~s.cells[c].open /\ s.cells[c].type \notin {"mutex", "event"}
    <3>1. u = s
      BY <2>3 DEF Close, OnHost
    <3> QED BY <2>3, <3>1, <1>1 DEF Stores
  <2> QED BY <2>1, <2>2, <2>3
<1>5. PICK l \in BOOLEAN : l = (s.lost \/ s.cells[c].type = "dataregion")
  OBVIOUS
<1> HIDE DEF u
<1>6. t = [u EXCEPT !.cells = cells, !.lost = l]
  <2>1. t = [u EXCEPT !.cells = cells, !.nodes = @, !.lost = @ \/ s.cells[c].type = "dataregion"]
    BY <1>2 DEF Freed, u
  <2> HIDE DEF t, cells
  <2> QED BY <2>1, <1>4, <1>5 DEF Stores
<1>7. /\ t.cells = cells /\ t.nodes = s.nodes /\ t.dangled = s.dangled
      /\ t.lost = (s.lost \/ s.cells[c].type = "dataregion")
      /\ t.opened = u.opened /\ t.misfreed = u.misfreed /\ t \in Stores
  <2>1. cells \in [Live(s) \ {c} -> CellRecords] /\ Live(s) \ {c} \in SUBSET Cells
    BY <1>1
  <2> HIDE DEF cells
  <2> HIDE DEF t
  <2>2. u \in Stores
    BY <1>4
  <2>3. /\ t.cells = cells /\ t.lost = l /\ t.nodes = u.nodes /\ t.dangled = u.dangled
        /\ t.opened = u.opened /\ t.misfreed = u.misfreed
    BY <2>2, <1>6 DEF Stores
  <2>4. cells \in UNION {[L -> CellRecords] : L \in SUBSET Cells}
    BY <2>1
  <2>5. t \in Stores
    BY <2>2, <2>4, <1>5, <1>6 DEF Stores
  <2> QED BY <2>3, <2>5, <1>4, <1>5
<1>8. Live(t) = Live(s) \ {c} /\ \A d \in Live(t) : t.cells[d] = s.cells[d]
  BY <1>7 DEF Live
<1> HIDE DEF t, cells
<1>9. t.opened = Cardinality(Opened(t))
  <2>1. Opened(t) = IF s.cells[c].open THEN Opened(s) \ {c} ELSE Opened(s)
    BY <1>8 DEF Opened
  <2>2. s.cells[c].open => c \in Opened(s)
    BY DEF Opened
  <2>3. s.opened = Cardinality(Opened(s))
    BY DEF Shape
  <2>4. s.cells[c].open => Cardinality(Opened(s) \ {c}) = Cardinality(Opened(s)) - 1
    BY <2>2, <1>1, FS_RemoveElement
  <2> QED BY <2>1, <2>3, <2>4, <1>4, <1>7
<1>10. ASSUME NEW d \in Live(t) PROVE t.cells[d].refs \in Seq(Live(t) \cup {Nil})
  <2>1. s.cells[d].refs \in Seq(Live(s) \cup {Nil}) /\ d \in Live(s) /\ d \in Cells
    BY <1>1, <1>8 DEF Shape
  <2>2. Times(c, s.cells[d].refs) = 0
    BY <2>1, <1>3 DEF RefsOf
  <2>3. s.cells[d].refs \in Seq((Live(s) \cup {Nil}) \ {c})
    BY <2>1, <2>2, TimesZero
  <2>4. (Live(s) \cup {Nil}) \ {c} = Live(t) \cup {Nil}
    BY <1>1, <1>8, CellsAssumption
  <2> QED BY <2>3, <2>4, <1>8
<1>11. Linked(t, x)
  <2>1. Linked(s, x)
    BY DEF Shape
  <2>2. ASSUME NEW n \in Names \ x, s.nodes[n].object # Nil PROVE s.nodes[n].object # c
    BY <2>1, <2>2, <1>2, CellsAssumption DEF Linked
  <2> QED BY <2>1, <2>2, <1>7, <1>8 DEF Linked
<1>12. Shape(t, x)
  <2>1. \A d \in Live(t) : t.cells[d].open => t.cells[d].type \in OnHost
    BY <1>8 DEF Shape
  <2> QED BY <2>1, <1>7, <1>9, <1>10, <1>11 DEF Shape
<1>13. \A d \in Cells \ {c} : RefsOf(t, d) = RefsOf(s, d)
  BY <1>8 DEF RefsOf
<1>14. RefsOf(t, c) = <<>> /\ RefsOf(s, c) = s.cells[c].refs
  BY <1>8 DEF RefsOf
<1>15. ASSUME NEW d \in Cells \ {c}
       PROVE  Surplus(t, d) = Surplus(s, d) + Times(d, s.cells[c].refs)
  <2>1. Inner(t, d) = Inner(s, d) - Times(d, s.cells[c].refs) + 0
    <3>1. Inner(t, d) = Inner(s, d) - Times(d, RefsOf(s, c)) + Times(d, RefsOf(t, c))
      BY <1>1, <1>7, <1>13, InnerChanges
    <3> QED BY <3>1, <1>14, TimesOne
  <2>2. Inner(s, d) \in Nat /\ Times(d, s.cells[c].refs) \in Nat
    BY <1>1, <1>14, InnerIsNatural
  <2>3. d \notin Live(s) => Times(d, s.cells[c].refs) = 0
    <3>1. ASSUME d \notin Live(s) PROVE Inner(s, d) = 0
      BY <3>1, NothingRefers
    <3>2. Inner(s, d) >= Times(d, s.cells[c].refs)
      BY <1>1, <1>14, InnerIsNatural
    <3> QED BY <3>1, <3>2, <2>2
  <2>4. d \in Live(s) => s.cells[d].count \in Nat
    BY <1>1 DEF CellRecords
  <2> QED BY <2>1, <2>2, <2>3, <2>4, <1>8 DEF Surplus
<1>16. /\ AllRefs(s) \in Nat /\ AllRefs(t) \in Nat
       /\ AllRefs(t) = AllRefs(s) - Len(s.cells[c].refs)
  <2>1. AllRefs(s) \in Nat /\ AllRefs(t) \in Nat
        /\ AllRefs(t) = AllRefs(s) - Len(RefsOf(s, c)) + Len(RefsOf(t, c))
    BY <1>1, <1>7, <1>13, AllRefsChange
  <2>2. /\ Len(RefsOf(s, c)) = Len(s.cells[c].refs) /\ Len(s.cells[c].refs) \in Nat
        /\ Len(RefsOf(t, c)) = 0
    BY <1>1, <1>14, StoreCells
  <2> QED BY <2>1, <2>2
<1>17. Times(c, s.cells[c].refs) = 0
  BY <1>1, <1>3, <1>14
<1> QED BY <1>2, <1>4, <1>7, <1>8, <1>12, <1>15, <1>16, <1>17 DEF t

\* Of a release that began with the store s: what is left of it, and what will
\* have been counted beyond the holders when it is over.
Accs == [s : Stores, todo : Seq(Refs)]
Later(s, t) ==
  /\ Live(t) \subseteq Live(s) /\ t.nodes = s.nodes /\ (s.lost => t.lost)
  /\ \A c \in Live(t) : /\ t.cells[c].type = s.cells[c].type /\ t.cells[c].refs = s.cells[c].refs
                        /\ t.cells[c].node = s.cells[c].node /\ t.cells[c].open = s.cells[c].open
  /\ \A c \in Live(s) : s.cells[c].node # Nil => c \in Live(t)
  /\ HostsOpen(s) => t.misfreed = s.misfreed
Releasing(s, x, rest, acc) ==
  /\ acc \in Accs /\ Shape(acc.s, x) /\ Later(s, acc.s)
  /\ \A c \in Cells : /\ Surplus(acc.s, c) >= rest[c] + Times(c, acc.todo)
                      /\ ~acc.s.lost => Surplus(acc.s, c) = rest[c] + Times(c, acc.todo)
Potential(acc) == AllRefs(acc.s) + Len(acc.todo)

\* A release that goes on after a release is one.
LEMMA LaterAndLater ==
  ASSUME NEW s, NEW t, NEW u, Later(s, t), Later(t, u)
  PROVE  Later(s, u)
<1>1. HostsOpen(s) => HostsOpen(t)
  BY DEF Later, HostsOpen
<1> QED BY <1>1 DEF Later

\* Every step of it frees a cell or does not, keeps the surplus and has less left.
LEMMA ReleaseStepIsSound ==
  ASSUME NEW s, NEW x, NEW rest \in [Cells -> Nat], NEW acc, Releasing(s, x, rest, acc),
         acc.todo # <<>>
  PROVE  /\ Releasing(s, x, rest, ReleaseStep(acc))
         /\ Potential(acc) \in Nat /\ Potential(ReleaseStep(acc)) \in Nat
         /\ Potential(ReleaseStep(acc)) < Potential(acc)
<1>1. PICK u, todo : acc = [s |-> u, todo |-> todo] /\ u = acc.s /\ todo = acc.todo
  BY DEF Releasing, Accs
<1>2. PICK c, left : c = Head(todo) /\ left = Tail(todo)
  OBVIOUS
<1>3. /\ u \in Stores /\ todo \in Seq(Refs) /\ todo # <<>> /\ Shape(u, x) /\ Later(s, u)
      /\ \A d \in Cells : /\ Surplus(u, d) >= rest[d] + Times(d, todo)
                          /\ ~u.lost => Surplus(u, d) = rest[d] + Times(d, todo)
  BY <1>1 DEF Releasing, Accs
<1>4. /\ c \in Refs /\ left \in Seq(Refs) /\ Len(left) = Len(todo) - 1 /\ Len(todo) \in Nat
      /\ \A d : Times(d, todo) = (IF d = c THEN 1 ELSE 0) + Times(d, left)
  BY <1>2, <1>3, TimesHead
<1>5. /\ u.cells \in [Live(u) -> CellRecords] /\ Live(u) \in SUBSET Cells
      /\ \A d \in Cells : Surplus(u, d) \in Int
      /\ \A d : Times(d, left) \in Nat
  BY <1>3, <1>4, StoreCells, SurplusIsInteger, TimesIsNatural
<1>6. ASSUME NEW t, NEW more \in Seq(Refs), ReleaseStep(acc) = [s |-> t, todo |-> more],
             Shape(t, x), Later(u, t), AllRefs(u) \in Nat, AllRefs(t) \in Nat,
             AllRefs(t) + Len(more) < AllRefs(u) + Len(todo),
             \A d \in Cells : /\ Surplus(t, d) >= rest[d] + Times(d, more)
                              /\ ~t.lost => Surplus(t, d) = rest[d] + Times(d, more)
      PROVE  /\ Releasing(s, x, rest, ReleaseStep(acc))
             /\ Potential(acc) \in Nat /\ Potential(ReleaseStep(acc)) \in Nat
             /\ Potential(ReleaseStep(acc)) < Potential(acc)
  <2>1. PICK new : new = ReleaseStep(acc)
    OBVIOUS
  <2>2. new.s = t /\ new.todo = more /\ t \in Stores /\ new \in Accs
    BY <1>6, <2>1 DEF Accs, Shape
  <2>3. Later(s, t)
    BY <1>3, <1>6, LaterAndLater
  <2>4. Releasing(s, x, rest, new)
    BY <1>6, <2>2, <2>3 DEF Releasing
  <2>5. Len(more) \in Nat /\ Len(todo) \in Nat
    BY <1>4
  <2> QED BY <1>1, <1>6, <2>1, <2>2, <2>4, <2>5 DEF Potential
<1>7. CASE c = Nil
  <2>1. ReleaseStep(acc) = [s |-> u, todo |-> left]
    BY <1>1, <1>2, <1>7 DEF ReleaseStep
  <2>2. \A d \in Cells : Times(d, todo) = Times(d, left)
    BY <1>4, <1>5, <1>7, CellsAssumption
  <2>3. AllRefs(u) \in Nat
    BY <1>3, AllRefsAreNatural
  <2>4. Later(u, u)
    BY DEF Later
  <2> QED BY <1>3, <1>4, <1>6, <2>1, <2>2, <2>3, <2>4
<1>8. CASE c # Nil
  <2>1. c \in Cells /\ Times(c, todo) = 1 + Times(c, left) /\ rest[c] \in Nat
    BY <1>4, <1>8 DEF Refs
  <2>2. Surplus(u, c) >= 1
    BY <2>1, <1>3, <1>5
  <2>3. c \in Live(u) /\ u.cells[c].count \in Nat \ {0}
    BY <2>2, <1>5 DEF Surplus, CellRecords
  <2>4. CASE u.cells[c].count > 1
    <3>1. PICK k : k = u.cells[c].count - 1
      OBVIOUS
    <3>2. PICK t : t = [u EXCEPT !.cells[c].count = k]
      OBVIOUS
    <3>3. ReleaseStep(acc) = [s |-> t, todo |-> left]
      BY <1>1, <1>2, <1>8, <2>3, <2>4, <3>1, <3>2 DEF ReleaseStep
    <3>4. k \in Nat \ {0} /\ k - u.cells[c].count = 0 - 1
      BY <2>3, <2>4, <3>1
    <3>5. /\ SameButCounts(u, t) /\ Shape(t, x)
          /\ \A d \in Cells : Surplus(t, d) = Surplus(u, d) + (IF d = c THEN 0 - 1 ELSE 0)
      <4>1. /\ SameButCounts(u, t) /\ Shape(t, x)
            /\ \A d \in Cells : Surplus(t, d) = Surplus(u, d)
                                  + (IF d = c THEN k - u.cells[c].count ELSE 0)
        BY <1>3, <2>3, <3>2, <3>4, CountChanges
      <4> QED BY <4>1, <3>4
    <3>6. Later(u, t)
      BY <3>5 DEF SameButCounts, Later
    <3>7. AllRefs(u) \in Nat /\ AllRefs(t) = AllRefs(u)
      BY <1>3, <3>5, AllRefsAreNatural DEF SameButCounts, AllRefs, RefsOf
    <3>8. \A d \in Cells : /\ Surplus(t, d) >= rest[d] + Times(d, left)
                           /\ ~t.lost => Surplus(t, d) = rest[d] + Times(d, left)
      <4>1. t.lost = u.lost
        BY <3>5 DEF SameButCounts
      <4> QED BY <4>1, <3>5, <1>3, <1>4, <1>5
    <3> QED BY <1>4, <1>6, <3>3, <3>5, <3>6, <3>7, <3>8
  <2>5. CASE u.cells[c].count = 1
    <3>1. PICK t : t = Freed(u, c)
      OBVIOUS
    <3>2. PICK refs : refs = u.cells[c].refs
      OBVIOUS
    <3>3. PICK more : more = Held(u, c) \o left
      OBVIOUS
    <3>4. ReleaseStep(acc) = [s |-> t, todo |-> more]
      BY <1>1, <1>2, <1>8, <2>3, <2>5, <3>1, <3>3 DEF ReleaseStep
    <3>5. /\ u.cells[c].node = Nil /\ Shape(t, x) /\ Live(t) = Live(u) \ {c}
          /\ \A d \in Live(t) : t.cells[d] = u.cells[d]
          /\ t.nodes = u.nodes /\ t.lost = (u.lost \/ u.cells[c].type = "dataregion")
          /\ HostsOpen(u) => t.misfreed = u.misfreed
          /\ Surplus(u, c) = 1 /\ Times(c, refs) = 0
          /\ \A d \in Cells \ {c} : Surplus(t, d) = Surplus(u, d) + Times(d, refs)
          /\ AllRefs(u) \in Nat /\ AllRefs(t) \in Nat
          /\ AllRefs(t) = AllRefs(u) - Len(refs)
      BY <1>3, <2>2, <2>3, <2>5, <3>1, <3>2, FreedIsSound
    <3>6. Later(u, t)
      BY <3>5 DEF Later
    <3>7. refs \in Seq(Refs) /\ Len(refs) \in Nat /\ \A d : Times(d, refs) \in Nat
      <4>1. refs \in Seq(Refs)
        BY <1>5, <2>3, <3>2 DEF CellRecords
      <4>2. \A d : Times(d, refs) \in Nat
        BY <4>1, TimesIsNatural
      <4> QED BY <4>1, <4>2
    <3>8. /\ more \in Seq(Refs) /\ Len(more) <= Len(refs) + Len(left) /\ Len(more) \in Nat
          /\ u.cells[c].type # "dataregion" => \A d : Times(d, more) = Times(d, refs) + Times(d, left)
          /\ \A d : Times(d, more) <= Times(d, refs) + Times(d, left) /\ Times(d, more) \in Nat
      <4>1. CASE u.cells[c].type = "dataregion"
        <5>1. more = left /\ Len(left) \in Nat
          BY <3>3, <4>1, <1>4 DEF Held
        <5> QED BY <5>1, <4>1, <1>4, <1>5, <3>7
      <4>2. CASE u.cells[c].type # "dataregion"
        <5>1. more = refs \o left
          BY <3>2, <3>3, <4>2 DEF Held
        <5>2. more \in Seq(Refs) /\ Len(more) = Len(refs) + Len(left) /\ Len(more) \in Nat
          <6>1. Len(refs) \in Nat /\ Len(left) \in Nat
            BY <1>4, <3>7
          <6>2. refs \o left \in Seq(Refs) /\ Len(refs \o left) = Len(refs) + Len(left)
            BY <1>4, <3>7
          <6> QED BY <5>1, <6>1, <6>2
        <5>3. \A d : Times(d, more) = Times(d, refs) + Times(d, left)
          BY <5>1, <1>4, <3>7, TimesConcat
        <5> QED BY <5>2, <5>3, <1>5, <3>7
      <4> QED BY <4>1, <4>2
    <3>9. ASSUME NEW d \in Cells
          PROVE  /\ Surplus(t, d) >= rest[d] + Times(d, more)
                 /\ ~t.lost => Surplus(t, d) = rest[d] + Times(d, more)
      <4>1. CASE d = c
        <5>1. Surplus(t, c) = 0
          BY <3>5 DEF Surplus
        <5>2. rest[c] = 0 /\ Times(c, left) = 0
          BY <2>1, <3>5, <1>3, <1>5
        <5>3. Times(c, more) = 0
          BY <5>2, <3>5, <3>8
        <5> QED BY <4>1, <5>1, <5>2, <5>3
      <4>2. CASE d # c
        <5>1. /\ Surplus(t, d) = Surplus(u, d) + Times(d, refs) /\ Times(d, todo) = Times(d, left)
              /\ Surplus(u, d) \in Int /\ rest[d] \in Nat /\ Times(d, refs) \in Nat
              /\ Times(d, left) \in Nat
          BY <4>2, <3>5, <3>7, <1>4, <1>5
        <5>2. Times(d, more) <= Times(d, refs) + Times(d, left) /\ Times(d, more) \in Nat
          BY <3>8
        <5>3. ~t.lost => ~u.lost /\ Times(d, more) = Times(d, refs) + Times(d, left)
          BY <3>5, <3>8
        <5>4. /\ Surplus(u, d) >= rest[d] + Times(d, left)
              /\ ~u.lost => Surplus(u, d) = rest[d] + Times(d, left)
          BY <5>1, <1>3
        <5> QED BY <5>1, <5>2, <5>3, <5>4
      <4> QED BY <4>1, <4>2
    <3> QED BY <1>4, <1>6, <3>4, <3>5, <3>6, <3>7, <3>8, <3>9
  <2> QED BY <2>3, <2>4, <2>5
<1> QED BY <1>7, <1>8

\* A release ends: it takes as many steps as it may need. Everything that has a
\* node stays.
LEMMA ReleaseAllIsSound ==
  ASSUME NEW s, NEW x, Shape(s, x), NEW refs \in Seq(Refs),
         \A c \in Cells : Surplus(s, c) >= Times(c, refs)
  PROVE  /\ Shape(ReleaseAll(s, refs), x) /\ Later(s, ReleaseAll(s, refs))
         /\ \A c \in Cells :
              /\ Surplus(ReleaseAll(s, refs), c) >= Surplus(s, c) - Times(c, refs)
              /\ ~ReleaseAll(s, refs).lost
                   => Surplus(ReleaseAll(s, refs), c) = Surplus(s, c) - Times(c, refs)
<1>1. PICK first : first = [s |-> s, todo |-> refs]
  OBVIOUS
<1>2. PICK rest : rest = [c \in Cells |-> Surplus(s, c) - Times(c, refs)]
  OBVIOUS
<1>3. PICK N : N = AllRefs(s) + Len(refs)
  OBVIOUS
<1>4. PICK q : q = [i \in 1..N |-> i]
  OBVIOUS
<1>5. s \in Stores /\ AllRefs(s) \in Nat /\ Len(refs) \in Nat /\ N \in Nat
  BY <1>3, AllRefsAreNatural DEF Shape
<1>6. \A c \in Cells : Surplus(s, c) \in Int /\ Times(c, refs) \in Nat
  BY <1>5, SurplusIsInteger, TimesIsNatural
<1>7. /\ rest \in [Cells -> Nat]
      /\ \A c \in Cells : Surplus(s, c) = rest[c] + Times(c, refs)
      /\ \A c \in Cells : rest[c] = Surplus(s, c) - Times(c, refs)
  BY <1>2, <1>6
<1>8. q \in Seq(Nat) /\ Len(q) = N /\ DOMAIN q = 1..N
  BY <1>4, <1>5
<1>9. Releasing(s, x, rest, first) /\ Potential(first) = N
  <2>1. first.s = s /\ first.todo = refs /\ first \in Accs
    BY <1>1, <1>5 DEF Accs
  <2>2. Later(s, s)
    BY DEF Later
  <2> QED BY <1>3, <1>6, <1>7, <2>1, <2>2 DEF Releasing, Potential
<1> DEFINE D == {acc \in Accs : Releasing(s, x, rest, acc)}
           step == [y \in D \X Nat |-> ReleaseOnce(y[1], y[2])]
           L == 1..N
           Follow(k) == k = [S \in SUBSET L |->
                               IF S = {} THEN first
                               ELSE ReleaseOnce(k[S \ {Largest(S)}], q[Largest(S)])]
           h == CHOOSE k : Follow(k)
<1>10. ReleaseAll(s, refs) = h[L].s
  <2>1. ReleaseAll(s, refs) = FoldLeft(ReleaseOnce, first, q).s
    BY <1>1, <1>3, <1>4 DEF ReleaseAll
  <2>2. FoldLeft(ReleaseOnce, first, q) = h[L]
    BY <1>8 DEF FoldLeft, MapThenFoldSet, Max, Largest
  <2> QED BY <2>1, <2>2
<1>11. ASSUME NEW acc \in D, NEW i \in Nat
       PROVE  /\ ReleaseOnce(acc, i) \in D /\ Potential(acc) \in Nat
              /\ acc.todo = <<>> => ReleaseOnce(acc, i) = acc
              /\ acc.todo # <<>> => /\ Potential(ReleaseOnce(acc, i)) \in Nat
                                    /\ Potential(ReleaseOnce(acc, i)) < Potential(acc)
  <2>1. acc.todo # <<>> => /\ Releasing(s, x, rest, ReleaseStep(acc))
                           /\ Potential(acc) \in Nat /\ Potential(ReleaseStep(acc)) \in Nat
                           /\ Potential(ReleaseStep(acc)) < Potential(acc)
    BY <1>7, ReleaseStepIsSound
  <2>2. Releasing(s, x, rest, ReleaseStep(acc)) => ReleaseStep(acc) \in D
    BY DEF Releasing
  <2>3. Potential(acc) \in Nat
    <3>1. acc.s \in Stores /\ acc.todo \in Seq(Refs)
      BY DEF Accs
    <3>2. AllRefs(acc.s) \in Nat /\ Len(acc.todo) \in Nat
      BY <3>1, AllRefsAreNatural
    <3> QED BY <3>2 DEF Potential
  <2> QED BY <2>1, <2>2, <2>3 DEF ReleaseOnce
<1>12. step \in [D \X Nat -> D] /\ \A acc \in D, i \in Nat : step[<<acc, i>>] = ReleaseOnce(acc, i)
  BY <1>11
<1>13. first \in D
  BY <1>9 DEF Releasing
<1> HIDE DEF step, D
<1>14. PICK g : SeqFolded(g, q, D, first, step)
  BY <1>8, <1>12, <1>13, SeqFoldExists
<1>15. /\ g \in [SUBSET L -> D] /\ g[{}] = first
       /\ \A S \in (SUBSET L) \ {{}} : Largest(S) \in S
       /\ \A S \in (SUBSET L) \ {{}} : g[S] = step[<<g[S \ {Largest(S)}], q[Largest(S)]>>]
  BY <1>8, <1>14 DEF SeqFolded
<1>16. \A i \in L : q[i] \in Nat
  BY <1>8
<1>17. Follow(g)
  <2>1. ASSUME NEW S \in (SUBSET L) \ {{}}
        PROVE  g[S] = ReleaseOnce(g[S \ {Largest(S)}], q[Largest(S)])
    <3>1. Largest(S) \in L /\ S \ {Largest(S)} \in SUBSET L
      BY <1>15
    <3>2. g[S \ {Largest(S)}] \in D /\ q[Largest(S)] \in Nat
      BY <3>1, <1>15, <1>16
    <3> QED BY <3>2, <1>12, <1>15
  <2> HIDE DEF L
  <2> QED BY <2>1, <1>15
<1> HIDE DEF Follow
<1>18. Follow(h)
  BY <1>17
<1> HIDE DEF h
<1>19. h[{}] = first /\ \A S \in (SUBSET L) \ {{}} :
                          h[S] = ReleaseOnce(h[S \ {Largest(S)}], q[Largest(S)])
  BY <1>18 DEF Follow
<1>20. IsFiniteSet(L) /\ Cardinality(L) = N
  <2>1. N \in Nat
    BY <1>5
  <2>2. IsFiniteSet(1..N) /\ Cardinality(1..N) = IF 1 > N THEN 0 ELSE N - 1 + 1
    BY <2>1, FS_Interval
  <2> QED BY <2>1, <2>2
<1> DEFINE T == {S \in SUBSET L : /\ h[S] \in D
                                  /\ \/ h[S].todo = <<>>
                                     \/ Potential(h[S]) + Cardinality(S) <= N}
<1>21. {} \in T
  <2>1. Potential(first) + Cardinality({}) <= N
    BY <1>5, <1>9, FS_EmptySet
  <2> QED BY <2>1, <1>13, <1>19
<1>22. ASSUME NEW S \in (SUBSET L) \ {{}} PROVE \E i \in S : S \ {i} \in T => S \in T
  <2>1. PICK i \in S : i = Largest(S)
    BY <1>15
  <2>2. PICK r : r = S \ {i}
    OBVIOUS
  <2>3. SUFFICES ASSUME r \in T PROVE S \in T
    BY <2>1, <2>2
  <2>4. q[i] \in Nat /\ h[S] = ReleaseOnce(h[r], q[i]) /\ h[r] \in D
    BY <2>1, <2>2, <2>3, <1>16, <1>19
  <2>5. /\ h[S] \in D /\ Potential(h[r]) \in Nat
        /\ h[r].todo = <<>> => h[S] = h[r]
        /\ h[r].todo # <<>> => Potential(h[S]) \in Nat /\ Potential(h[S]) < Potential(h[r])
    BY <2>4, <1>11
  <2>6. Cardinality(S) \in Nat /\ Cardinality(r) = Cardinality(S) - 1
    <3>1. IsFiniteSet(S) /\ i \in S
      BY <2>1, <1>20, FS_Subset
    <3>2. Cardinality(S) \in Nat /\ Cardinality(S \ {i}) = Cardinality(S) - 1
      BY <3>1, FS_CardinalityType, FS_RemoveElement
    <3> QED BY <2>2, <3>2
  <2>7. h[r].todo = <<>> \/ Potential(h[r]) + Cardinality(r) <= N
    BY <2>3
  <2>8. h[S].todo = <<>> \/ Potential(h[S]) + Cardinality(S) <= N
    BY <2>5, <2>6, <2>7, <1>5
  <2> QED BY <2>5, <2>8
<1> HIDE DEF T, L
<1>23. SUBSET L \subseteq T
  BY <1>20, <1>21, <1>22, SubsetInduction
<1>24. L \in T
  BY <1>23
<1>25. PICK last : last = h[L] /\ last \in D /\ (last.todo = <<>> \/ Potential(last) + N <= N)
  BY <1>20, <1>24 DEF T
<1>26. Releasing(s, x, rest, last) /\ last.s \in Stores /\ last.todo \in Seq(Refs)
  BY <1>25 DEF D, Accs
<1>27. last.todo = <<>>
  <2>1. AllRefs(last.s) \in Nat /\ Len(last.todo) \in Nat
    BY <1>26, AllRefsAreNatural
  <2>2. Len(last.todo) = 0 => last.todo = <<>>
    BY <1>26
  <2> QED BY <2>1, <2>2, <1>5, <1>25 DEF Potential
<1>28. \A c \in Cells : Times(c, last.todo) = 0 /\ Surplus(last.s, c) \in Int
  BY <1>26, <1>27, TimesOne, SurplusIsInteger
<1>29. /\ Shape(last.s, x) /\ Later(s, last.s)
       /\ \A c \in Cells : /\ Surplus(last.s, c) >= rest[c]
                           /\ ~last.s.lost => Surplus(last.s, c) = rest[c]
  BY <1>7, <1>26, <1>28 DEF Releasing
<1> QED BY <1>7, <1>10, <1>25, <1>29

\* Room for two is room for one after the other.
LEMMA RoomIsThere ==
  ASSUME NEW s, Live(s) \in SUBSET Cells, HasRoom(s, 1) \/ HasRoom(s, 2)
  PROVE  Fresh(s) \in Cells \ Live(s) /\ HasRoom(s, 1)
<1>1. IsFiniteSet(Cells \ Live(s)) /\ Cardinality(Cells \ Live(s)) \in Nat
  <2>1. Cells \ Live(s) \in SUBSET Cells
    OBVIOUS
  <2> QED BY <2>1, CellsAssumption, FS_Subset, FS_CardinalityType
<1>2. Cardinality(Cells \ Live(s)) >= 1
  BY <1>1 DEF HasRoom
<1>3. Cells \ Live(s) # {}
  BY <1>1, <1>2, FS_EmptySet
<1>4. Fresh(s) \in Cells \ Live(s)
  BY <1>3 DEF Fresh
<1> QED BY <1>2, <1>4 DEF HasRoom

\* One cell takes one of the two.
LEMMA RoomAfterOne ==
  ASSUME NEW s, HasRoom(s, 2), NEW t, NEW c, Live(t) = Live(s) \cup {c}
  PROVE  HasRoom(t, 1)
<1>1. IsFiniteSet(Cells \ Live(s)) /\ Cardinality(Cells \ Live(s)) \in Nat
  <2>1. Cells \ Live(s) \in SUBSET Cells
    OBVIOUS
  <2> QED BY <2>1, CellsAssumption, FS_Subset, FS_CardinalityType
<1>2. Cells \ Live(t) = (Cells \ Live(s)) \ {c}
  OBVIOUS
<1>3. Cardinality((Cells \ Live(s)) \ {c}) >= Cardinality(Cells \ Live(s)) - 1
  <2>1. Cardinality((Cells \ Live(s)) \ {c})
          = IF c \in Cells \ Live(s) THEN Cardinality(Cells \ Live(s)) - 1
                                     ELSE Cardinality(Cells \ Live(s))
    BY <1>1, FS_RemoveElement
  <2> QED BY <1>1, <2>1
<1>4. Cardinality((Cells \ Live(s)) \ {c}) \in Nat
  BY <1>1, FS_RemoveElement, FS_CardinalityType
<1> QED BY <1>1, <1>2, <1>3, <1>4 DEF HasRoom

\* A cell is created: t has it beside those of s.
Created(s, t, c, type, refs) ==
  /\ c \in Cells \ Live(s) /\ Live(t) = Live(s) \cup {c}
  /\ \A d \in Live(s) : t.cells[d] = s.cells[d]
  /\ t.cells[c] = [type |-> type, count |-> 1, refs |-> refs, node |-> Nil, open |-> FALSE]
  /\ t.nodes = s.nodes /\ t.opened = s.opened
  /\ t.misfreed = s.misfreed /\ t.lost = s.lost

\* The cell's only reference is its surplus; what it refers to has fewer.
LEMMA CreateIsSound ==
  ASSUME NEW s, NEW x, Shape(s, x), NEW type \in Types, NEW refs \in Seq(Live(s) \cup {Nil}),
         HasRoom(s, 1) \/ HasRoom(s, 2), NEW c, c = Fresh(s), NEW t, t = Create(s, type, refs)
  PROVE  /\ Created(s, t, c, type, refs) /\ Shape(t, x)
         /\ \A d \in Cells : Surplus(t, d) = IF d = c THEN 1 ELSE Surplus(s, d) - Times(d, refs)
<1> DEFINE cell == [type |-> type, count |-> 1, refs |-> refs, node |-> Nil, open |-> FALSE]
           cells == [d \in Live(s) \cup {c} |-> IF d \in Live(s) THEN s.cells[d] ELSE cell]
<1>1. s \in Stores /\ s.cells \in [Live(s) -> CellRecords] /\ Live(s) \in SUBSET Cells
  BY StoreCells DEF Shape
<1>2. c \in Cells \ Live(s)
  BY <1>1, RoomIsThere
<1>3. t = [s EXCEPT !.cells = cells]
  BY DEF Create
<1>4. cell \in CellRecords
  <2>1. refs \in Seq(Refs)
    BY <1>1 DEF Refs
  <2> QED BY <2>1 DEF CellRecords
<1> HIDE DEF cell
<1>5. cells \in [Live(s) \cup {c} -> CellRecords] /\ Live(s) \cup {c} \in SUBSET Cells
  BY <1>1, <1>2, <1>4
<1>6. cells[c] = cell /\ \A d \in Live(s) : cells[d] = s.cells[d]
  BY <1>2
<1>7. DOMAIN cells = Live(s) \cup {c}
  OBVIOUS
<1> HIDE DEF cells
<1>8. /\ t.cells = cells /\ t.nodes = s.nodes /\ t.opened = s.opened
      /\ t.misfreed = s.misfreed /\ t.dangled = s.dangled /\ t.lost = s.lost /\ t \in Stores
  BY <1>1, <1>3, <1>5 DEF Stores
<1>9. Created(s, t, c, type, refs)
  BY <1>2, <1>6, <1>7, <1>8 DEF Created, Live, cell
<1>10. Shape(t, x)
  <2>1. Linked(t, x)
    BY <1>9, SMTT(60) DEF Shape, Linked, Created
  <2>2. \A d \in Live(t) : t.cells[d].refs \in Seq(Live(t) \cup {Nil})
    <3>1. \A d \in Live(t) : t.cells[d].refs \in Seq(Live(s) \cup {Nil})
      BY <1>9 DEF Shape, Created
    <3>2. \A r \in Seq(Live(s) \cup {Nil}) : r \in Seq(Live(t) \cup {Nil})
      BY <1>9 DEF Created
    <3> QED BY <3>1, <3>2
  <2>3. Opened(t) = Opened(s)
    BY <1>9 DEF Created, Opened
  <2>4. \A d \in Live(t) : t.cells[d].open => t.cells[d].type \in OnHost
    BY <1>9 DEF Created, Shape
  <2> QED BY <2>1, <2>2, <2>3, <2>4, <1>8 DEF Shape
<1>11. /\ \A d \in Cells \ {c} : RefsOf(t, d) = RefsOf(s, d)
       /\ RefsOf(t, c) = refs /\ RefsOf(s, c) = <<>>
  BY <1>2, <1>9 DEF RefsOf, Created
<1>12. ASSUME NEW d \in Cells
       PROVE  Surplus(t, d) = IF d = c THEN 1 ELSE Surplus(s, d) - Times(d, refs)
  <2>1. Inner(t, d) = Inner(s, d) + Times(d, refs)
    <3>1. Inner(t, d) = Inner(s, d) - Times(d, RefsOf(s, c)) + Times(d, RefsOf(t, c))
      BY <1>1, <1>2, <1>8, <1>11, InnerChanges
    <3>2. Inner(s, d) \in Nat /\ Times(d, RefsOf(s, c)) = 0
      BY <1>1, <1>11, InnerIsNatural, TimesOne
    <3> QED BY <3>1, <3>2, <1>11
  <2>2. d \notin Live(s) => Inner(s, d) = 0 /\ Times(d, refs) = 0
    <3>1. ASSUME d \notin Live(s) PROVE \A i \in 1..Len(refs) : refs[i] # d
      BY <3>1, CellsAssumption
    <3> QED BY <3>1, NothingRefers, TimesZero
  <2>3. Inner(s, d) \in Nat /\ Times(d, refs) \in Nat
    BY <1>1, InnerIsNatural, TimesIsNatural
  <2>4. d \in Live(s) => s.cells[d].count \in Nat
    BY <1>1 DEF CellRecords
  <2>5. CASE d = c
    BY <2>1, <2>2, <2>5, <1>2, <1>9 DEF Surplus, Created
  <2>6. CASE d # c
    <3>1. CASE d \in Live(s)
      <4>1. d \in Live(t) /\ t.cells[d] = s.cells[d]
        BY <3>1, <1>9 DEF Created
      <4> QED BY <2>1, <2>3, <2>4, <2>6, <3>1, <4>1 DEF Surplus
    <3>2. CASE d \notin Live(s)
      <4>1. d \notin Live(t)
        BY <2>6, <3>2, <1>9 DEF Created
      <4> QED BY <2>2, <2>6, <3>2, <4>1 DEF Surplus
    <3> QED BY <3>1, <3>2
  <2> QED BY <2>5, <2>6
<1> QED BY <1>9, <1>10, <1>12

\* The surplus is a matter of the cells.
LEMMA SurplusOfCells ==
  ASSUME NEW s, NEW t, Live(t) = Live(s),
         \A c \in Live(s) : /\ t.cells[c].count = s.cells[c].count
                            /\ t.cells[c].refs = s.cells[c].refs
                            /\ t.cells[c].node = s.cells[c].node
  PROVE  \A c : Surplus(t, c) = Surplus(s, c)
<1>1. \A d : RefsOf(t, d) = RefsOf(s, d)
  BY DEF RefsOf
<1>2. \A c : Terms(t, c) = Terms(s, c)
  BY <1>1 DEF Terms
<1> QED BY <1>2 DEF Surplus, Inner

\* A node comes into being, or its flag is set: no cell changes.
LEMMA NewNodeIsSound ==
  ASSUME NEW s, NEW x, Shape(s, x), NEW n \in Names, ~s.nodes[n].in
  PROVE  LET t == NewNode(s, n)
         IN /\ t.cells = s.cells /\ t.opened = s.opened
            /\ t.misfreed = s.misfreed /\ t.lost = s.lost
            /\ t.nodes[n] = [in |-> TRUE, object |-> Nil, pre |-> FALSE]
            /\ \A m \in Names \ {n} : t.nodes[m] = s.nodes[m]
            /\ s.nodes[n].object = Nil /\ Shape(t, x) /\ \A d : Surplus(t, d) = Surplus(s, d)
<1>1. PICK t : t = NewNode(s, n)
  OBVIOUS
<1>2. PICK nodes : nodes = [s.nodes EXCEPT ![n] = [in |-> TRUE, object |-> Nil, pre |-> FALSE]]
  OBVIOUS
<1>3. s \in Stores /\ s.nodes \in [Names -> NodeRecords] /\ s.nodes[n] = NoNode
  BY DEF Shape, Linked, Stores
<1>4. t = [s EXCEPT !.nodes = nodes]
  BY <1>1, <1>2 DEF NewNode
<1>5. /\ nodes[n] = [in |-> TRUE, object |-> Nil, pre |-> FALSE]
      /\ \A m \in Names \ {n} : nodes[m] = s.nodes[m]
      /\ nodes \in [Names -> NodeRecords]
  BY <1>2, <1>3 DEF NodeRecords, Refs
<1>6. /\ t.cells = s.cells /\ t.opened = s.opened /\ t.dangled = s.dangled
      /\ t.misfreed = s.misfreed /\ t.lost = s.lost /\ t.nodes = nodes /\ t \in Stores
  BY <1>3, <1>4, <1>5 DEF Stores
<1>7. s.nodes[n].object = Nil
  BY <1>3 DEF NoNode
<1>8. Linked(t, x)
  <2>1. Linked(s, x) /\ Live(t) = Live(s)
    BY <1>6 DEF Shape, Live
  <2>2. \A c \in Live(s) : s.cells[c].node # n \/ s.cells[c].node = Nil
    <3>1. ASSUME NEW c \in Live(s), s.cells[c].node = n, n # Nil PROVE FALSE
      <4>1. c = Nil /\ c \in Cells
        BY <2>1, <3>1, <1>3, <1>7, StoreCells DEF Linked
      <4> QED BY <4>1, CellsAssumption
    <3> QED BY <3>1
  <2> QED BY <2>1, <2>2, <1>5, <1>6 DEF Linked
<1>9. Shape(t, x)
  BY <1>6, <1>8 DEF Shape, Live, Opened
<1>10. \A d : Surplus(t, d) = Surplus(s, d)
  BY <1>6, SurplusOfCells DEF Live
<1> QED BY <1>1, <1>5, <1>6, <1>7, <1>9, <1>10

\* The flag of a node changes nothing else.
LEMMA PreParsedIsSound ==
  ASSUME NEW s, NEW x, Shape(s, x), NEW n \in Names, s.nodes[n].in
  PROVE  LET t == PreParsed(s, n)
         IN /\ t.cells = s.cells /\ t.opened = s.opened
            /\ t.misfreed = s.misfreed /\ t.lost = s.lost
            /\ \A m \in Names : /\ t.nodes[m].in = s.nodes[m].in
                                /\ t.nodes[m].object = s.nodes[m].object
            /\ Shape(t, x) /\ \A d : Surplus(t, d) = Surplus(s, d)
<1>1. PICK t : t = PreParsed(s, n)
  OBVIOUS
<1>2. PICK b \in BOOLEAN : b = (pass = "namespace")
  OBVIOUS
<1>3. PICK nodes : nodes = [s.nodes EXCEPT ![n].pre = b]
  OBVIOUS
<1>4. s \in Stores /\ s.nodes \in [Names -> NodeRecords]
  BY DEF Shape, Stores
<1>5. t = [s EXCEPT !.nodes = nodes]
  BY <1>1, <1>2, <1>3 DEF PreParsed
<1>6. /\ nodes[n].in = s.nodes[n].in /\ nodes[n].object = s.nodes[n].object
      /\ \A m \in Names \ {n} : nodes[m] = s.nodes[m]
      /\ nodes \in [Names -> NodeRecords]
  BY <1>3, <1>4 DEF NodeRecords
<1>7. /\ t.cells = s.cells /\ t.opened = s.opened /\ t.dangled = s.dangled
      /\ t.misfreed = s.misfreed /\ t.lost = s.lost /\ t.nodes = nodes /\ t \in Stores
  BY <1>4, <1>5, <1>6 DEF Stores
<1>8. Linked(t, x)
  <2>1. Linked(s, x) /\ Live(t) = Live(s)
    BY <1>7 DEF Shape, Live
  <2>2. \A m \in Names : t.nodes[m].in = s.nodes[m].in /\ t.nodes[m].object = s.nodes[m].object
    BY <1>6, <1>7
  <2>3. \A m \in Names : ~t.nodes[m].in => t.nodes[m] = NoNode
    BY <2>1, <2>2, <1>6, <1>7 DEF Linked
  <2>4. \A m \in Names \ x : t.nodes[m].object # Nil
           => t.nodes[m].object \in Live(t) /\ t.cells[t.nodes[m].object].node = m
    BY <2>1, <2>2, <1>7 DEF Linked
  <2>5. \A c \in Live(t) : t.cells[c].node # Nil
           => t.cells[c].node \in Names \ x /\ t.nodes[t.cells[c].node].object = c
    BY <2>1, <2>2, <1>7 DEF Linked
  <2> QED BY <2>3, <2>4, <2>5 DEF Linked
<1>9. Shape(t, x)
  BY <1>7, <1>8 DEF Shape, Live, Opened
<1>10. \A d : Surplus(t, d) = Surplus(s, d)
  BY <1>7, SurplusOfCells DEF Live
<1> QED BY <1>1, <1>6, <1>7, <1>9, <1>10

\* A node and an object are tied: one of the references is the node's now.
LEMMA LinkIsSound ==
  ASSUME NEW s, NEW x, Shape(s, x), NEW n \in Names \ x, NEW c \in Live(s),
         s.nodes[n].in, s.nodes[n].object = Nil, s.cells[c].node = Nil
  PROVE  LET t == Link(s, n, c)
         IN /\ Live(t) = Live(s) /\ t.opened = s.opened
            /\ t.misfreed = s.misfreed /\ t.lost = s.lost
            /\ \A d \in Live(s) : t.cells[d].type = s.cells[d].type /\ t.cells[d].open = s.cells[d].open
            /\ t.nodes[n].in /\ t.nodes[n].object = c
            /\ \A m \in Names \ {n} : t.nodes[m] = s.nodes[m]
            /\ Shape(t, x) /\ t.cells[c].node = n
            /\ \A d \in Live(s) \ {c} : t.cells[d].node = s.cells[d].node
            /\ \A d \in Cells : Surplus(t, d) = Surplus(s, d) - (IF d = c THEN 1 ELSE 0)
<1>1. PICK t : t = Link(s, n, c)
  OBVIOUS
<1>2. PICK nodes : nodes = [s.nodes EXCEPT ![n].object = c]
  OBVIOUS
<1>3. PICK cells : cells = [s.cells EXCEPT ![c].node = n]
  OBVIOUS
<1>4. /\ s \in Stores /\ s.nodes \in [Names -> NodeRecords] /\ Live(s) \in SUBSET Cells
      /\ s.cells \in [Live(s) -> CellRecords] /\ c \in Cells /\ n # Nil /\ c # Nil
  BY StoreCells, CellsAssumption DEF Shape, Stores
<1>5. t = [s EXCEPT !.nodes = nodes, !.cells = cells]
  BY <1>1, <1>2, <1>3 DEF Link
<1>6. /\ nodes[n].in /\ nodes[n].object = c
      /\ \A m \in Names \ {n} : nodes[m] = s.nodes[m]
      /\ nodes \in [Names -> NodeRecords]
  BY <1>2, <1>4 DEF NodeRecords, Refs
<1>7. /\ cells \in [Live(s) -> CellRecords] /\ cells[c].node = n
      /\ \A d \in Live(s) \ {c} : cells[d] = s.cells[d]
      /\ cells[c].type = s.cells[c].type /\ cells[c].open = s.cells[c].open
      /\ cells[c].refs = s.cells[c].refs /\ cells[c].count = s.cells[c].count
  BY <1>3, <1>4 DEF CellRecords
<1>8. /\ t.cells = cells /\ t.opened = s.opened /\ t.dangled = s.dangled
      /\ t.misfreed = s.misfreed /\ t.lost = s.lost /\ t.nodes = nodes /\ t \in Stores
  BY <1>4, <1>5, <1>6, <1>7 DEF Stores
<1>9. Live(t) = Live(s)
  BY <1>7, <1>8 DEF Live
<1>10. \A d \in Live(s) : /\ t.cells[d].type = s.cells[d].type /\ t.cells[d].open = s.cells[d].open
                          /\ t.cells[d].refs = s.cells[d].refs /\ t.cells[d].count = s.cells[d].count
                          /\ t.cells[d].node = IF d = c THEN n ELSE s.cells[d].node
  BY <1>7, <1>8
<1>11. Linked(t, x)
  <2>1. Linked(s, x)
    BY DEF Shape
  <2>2. \A d \in Live(s) : s.cells[d].node # Nil => s.cells[d].node # n
    BY <2>1, <1>4, CellsAssumption DEF Linked
  <2>3. \A m \in Names \ x : s.nodes[m].object # c
    BY <2>1, <1>4, CellsAssumption DEF Linked
  <2>4. \A m \in Names : ~t.nodes[m].in => t.nodes[m] = NoNode
    BY <2>1, <1>6, <1>8 DEF Linked
  <2>5. \A m \in Names \ x : t.nodes[m].object # Nil
           => t.nodes[m].object \in Live(t) /\ t.cells[t.nodes[m].object].node = m
    BY <2>1, <2>3, <1>6, <1>8, <1>9, <1>10 DEF Linked
  <2>6. \A d \in Live(t) : t.cells[d].node # Nil
           => t.cells[d].node \in Names \ x /\ t.nodes[t.cells[d].node].object = d
    BY <2>1, <2>2, <1>6, <1>8, <1>9, <1>10 DEF Linked
  <2> QED BY <2>4, <2>5, <2>6 DEF Linked
<1>12. Shape(t, x)
  <2>1. Opened(t) = Opened(s)
    BY <1>9, <1>10 DEF Opened
  <2> QED BY <2>1, <1>8, <1>9, <1>10, <1>11 DEF Shape
<1>13. ASSUME NEW d \in Cells
       PROVE  Surplus(t, d) = Surplus(s, d) - (IF d = c THEN 1 ELSE 0)
  <2>1. \A e : RefsOf(t, e) = RefsOf(s, e)
    BY <1>9, <1>10 DEF RefsOf
  <2>2. Inner(t, d) = Inner(s, d) /\ Inner(s, d) \in Nat
    BY <2>1, <1>4, InnerIsNatural DEF Inner, Terms
  <2>3. d \in Live(s) => s.cells[d].count \in Nat
    BY <1>4 DEF CellRecords
  <2> QED BY <2>2, <2>3, <1>4, <1>9, <1>10 DEF Surplus
<1> QED BY <1>1, <1>6, <1>8, <1>9, <1>10, <1>12, <1>13

\* A resource of the host.
LEMMA OpenIsSound ==
  ASSUME NEW s, NEW x, Shape(s, x), NEW c \in Live(s),
         s.cells[c].type \in OnHost, ~s.cells[c].open
  PROVE  LET t == Open(s, c)
         IN /\ Live(t) = Live(s) /\ t.nodes = s.nodes
            /\ t.misfreed = s.misfreed /\ t.lost = s.lost
            /\ \A d \in Live(s) : /\ t.cells[d].type = s.cells[d].type
                                  /\ t.cells[d].node = s.cells[d].node
                                  /\ t.cells[d].open = (d = c \/ s.cells[d].open)
            /\ Shape(t, x) /\ \A d : Surplus(t, d) = Surplus(s, d)
<1>1. PICK t : t = Open(s, c)
  OBVIOUS
<1>2. PICK cells : cells = [s.cells EXCEPT ![c].open = TRUE]
  OBVIOUS
<1>3. /\ s \in Stores /\ Live(s) \in SUBSET Cells /\ s.cells \in [Live(s) -> CellRecords]
      /\ IsFiniteSet(Opened(s)) /\ Cardinality(Opened(s)) \in Nat
  BY StoreCells DEF Shape
<1>4. PICK k \in Int : k = s.opened + 1
  BY <1>3 DEF Stores
<1>5. t = [s EXCEPT !.cells = cells, !.opened = k]
  BY <1>1, <1>2, <1>3, <1>4 DEF Open, Stores
<1>6. /\ cells \in [Live(s) -> CellRecords] /\ cells[c].open
      /\ \A d \in Live(s) \ {c} : cells[d] = s.cells[d]
      /\ cells[c].type = s.cells[c].type /\ cells[c].node = s.cells[c].node
      /\ cells[c].refs = s.cells[c].refs /\ cells[c].count = s.cells[c].count
  BY <1>2, <1>3 DEF CellRecords
<1>7. /\ t.cells = cells /\ t.opened = s.opened + 1 /\ t.dangled = s.dangled
      /\ t.misfreed = s.misfreed /\ t.lost = s.lost /\ t.nodes = s.nodes /\ t \in Stores
  BY <1>3, <1>4, <1>5, <1>6 DEF Stores
<1>8. Live(t) = Live(s)
  BY <1>6, <1>7 DEF Live
<1>9. \A d \in Live(s) : /\ t.cells[d].type = s.cells[d].type /\ t.cells[d].node = s.cells[d].node
                         /\ t.cells[d].refs = s.cells[d].refs /\ t.cells[d].count = s.cells[d].count
                         /\ t.cells[d].open = (d = c \/ s.cells[d].open)
  <2>1. \A d \in Live(s) : cells[d].open \in BOOLEAN /\ s.cells[d].open \in BOOLEAN
    BY <1>3, <1>6 DEF CellRecords
  <2> QED BY <2>1, <1>6, <1>7
<1>10. Linked(t, x)
  BY <1>7, <1>8, <1>9 DEF Shape, Linked
<1>11. t.opened = Cardinality(Opened(t))
  <2>1. Opened(t) = Opened(s) \cup {c} /\ c \notin Opened(s)
    BY <1>8, <1>9 DEF Opened
  <2>2. Cardinality(Opened(s) \cup {c}) = Cardinality(Opened(s)) + 1
    BY <2>1, <1>3, FS_AddElement
  <2> QED BY <2>1, <2>2, <1>7 DEF Shape
<1>12. Shape(t, x)
  BY <1>7, <1>8, <1>9, <1>10, <1>11 DEF Shape
<1>13. \A d : Surplus(t, d) = Surplus(s, d)
  BY <1>8, <1>9, SurplusOfCells
<1> QED BY <1>1, <1>7, <1>8, <1>9, <1>12, <1>13

-----------------------------------------------------------------------------
(* The invariant. *)

\* Who refers to a cell besides nodes and cells.
Others(c) == (IF c \in held THEN 1 ELSE 0) + (IF c = fields.conn THEN 1 ELSE 0)

\* Nothing has failed that leaves something behind.
Tidy(s) ==
  /\ HostsOpen(s) /\ ~s.misfreed
  /\ \A n \in Names : s.nodes[n].in => s.nodes[n].object # Nil

FieldLists == {NoFields} \cup [kind : {"field", "bank", "index"}, refs : Seq(Cells), conn : Refs]

\* The objects of a field list are not counted for it. They have nodes, and no
\* node goes before the list ends.
Steady(s, refs) == \A i \in 1..Len(refs) : refs[i] \in Live(s) /\ s.cells[refs[i]].node # Nil

ObjectsInv ==
  /\ Shape(store, {}) /\ fields \in FieldLists /\ held \in SUBSET Cells
  /\ pass \in {"namespace", "full"} /\ failed \in BOOLEAN
  /\ \A c \in Cells : /\ Surplus(store, c) >= Others(c)
                      /\ ~failed /\ ~store.lost => Surplus(store, c) = Others(c)
  /\ ~failed => Tidy(store)
  /\ Steady(store, fields.refs)

\* No node has lost its object or got another one.
Kept(s, t) == \A n \in Names : s.nodes[n].object # Nil => t.nodes[n].object = s.nodes[n].object
Grown(s, t) == Shape(t, {}) /\ Kept(s, t) /\ (s.lost => t.lost) /\ (Tidy(s) => Tidy(t))

\* Growth goes on.
LEMMA GrownAndGrown ==
  ASSUME NEW s, NEW t, NEW u, Grown(s, t), Grown(t, u)
  PROVE  Grown(s, u)
<1>1. Kept(s, u)
  BY DEF Grown, Kept
<1> QED BY <1>1 DEF Grown

\* A new cell that needs no host is growth.
LEMMA CreatedIsGrown ==
  ASSUME NEW s, NEW t, NEW c, NEW type \in Types \ {"mutex", "event"}, NEW refs,
         Created(s, t, c, type, refs), Shape(t, {})
  PROVE  Grown(s, t)
<1>1. Kept(s, t)
  BY DEF Created, Kept
<1>2. Tidy(s) => Tidy(t)
  BY DEF Created, Tidy, HostsOpen
<1> QED BY <1>1, <1>2 DEF Grown, Created

\* So are counts that change, ...
LEMMA SameIsGrown ==
  ASSUME NEW s, NEW t, SameButCounts(s, t), Shape(t, {})
  PROVE  Grown(s, t)
<1>1. Kept(s, t)
  BY DEF SameButCounts, Kept
<1>2. Tidy(s) => Tidy(t)
  BY DEF SameButCounts, Tidy, HostsOpen
<1> QED BY <1>1, <1>2 DEF Grown, SameButCounts

\* ... and a release.
LEMMA LaterIsGrown ==
  ASSUME NEW s, NEW t, Later(s, t), Shape(t, {})
  PROVE  Grown(s, t)
<1>1. Kept(s, t)
  BY DEF Later, Kept
<1>2. Tidy(s) => Tidy(t)
  BY DEF Later, Tidy, HostsOpen
<1> QED BY <1>1, <1>2 DEF Grown, Later

\* A node that is made for an object takes over one of its references.
LEMMA NodeForObject ==
  ASSUME NEW s, Shape(s, {}), NEW n \in Names, ~s.nodes[n].in, NEW c \in Live(s),
         s.cells[c].node = Nil
  PROVE  LET t == Link(NewNode(s, n), n, c)
         IN /\ Grown(s, t) /\ t.nodes[n].in
            /\ \A d \in Live(s) : d # c /\ s.cells[d].node # Nil
                 => d \in Live(t) /\ t.cells[d].node = s.cells[d].node
            /\ \A d \in Cells : Surplus(t, d) = Surplus(s, d) - (IF d = c THEN 1 ELSE 0)
<1>1. PICK u : u = NewNode(s, n)
  OBVIOUS
<1>2. PICK t : t = Link(u, n, c)
  OBVIOUS
<1>3. /\ u.cells = s.cells /\ u.opened = s.opened /\ u.misfreed = s.misfreed /\ u.lost = s.lost
      /\ u.nodes[n] = [in |-> TRUE, object |-> Nil, pre |-> FALSE]
      /\ \A m \in Names \ {n} : u.nodes[m] = s.nodes[m]
      /\ s.nodes[n].object = Nil /\ Shape(u, {}) /\ \A d : Surplus(u, d) = Surplus(s, d)
  BY <1>1, NewNodeIsSound
<1>4. Live(u) = Live(s) /\ c \in Live(u) /\ u.nodes[n].in /\ u.nodes[n].object = Nil
      /\ u.cells[c].node = Nil /\ n \in Names \ {}
  BY <1>3 DEF Live
<1>5. /\ Live(t) = Live(u) /\ t.opened = u.opened /\ t.misfreed = u.misfreed /\ t.lost = u.lost
      /\ \A d \in Live(u) : t.cells[d].type = u.cells[d].type /\ t.cells[d].open = u.cells[d].open
      /\ t.nodes[n].in /\ t.nodes[n].object = c
      /\ \A m \in Names \ {n} : t.nodes[m] = u.nodes[m]
      /\ Shape(t, {}) /\ t.cells[c].node = n
      /\ \A d \in Live(u) \ {c} : t.cells[d].node = u.cells[d].node
      /\ \A d \in Cells : Surplus(t, d) = Surplus(u, d) - (IF d = c THEN 1 ELSE 0)
  BY <1>2, <1>3, <1>4, LinkIsSound
<1>6. Kept(s, t)
  BY <1>3, <1>5 DEF Kept
<1>7. ASSUME Tidy(s) PROVE Tidy(t)
  <2>1. c # Nil
    BY <1>3, <1>4, StoreCells, CellsAssumption DEF Shape
  <2>2. HostsOpen(t)
    BY <1>3, <1>4, <1>5, <1>7 DEF Tidy, HostsOpen
  <2>3. \A m \in Names : t.nodes[m].in => t.nodes[m].object # Nil
    BY <2>1, <1>3, <1>5, <1>7 DEF Tidy
  <2> QED BY <2>2, <2>3, <1>3, <1>5, <1>7 DEF Tidy
<1>8. Grown(s, t)
  BY <1>3, <1>5, <1>6, <1>7 DEF Grown
<1>9. \A d \in Live(s) : d # c /\ s.cells[d].node # Nil
        => d \in Live(t) /\ t.cells[d].node = s.cells[d].node
  BY <1>3, <1>4, <1>5
<1>10. \A d \in Cells : Surplus(t, d) = Surplus(s, d) - (IF d = c THEN 1 ELSE 0)
  BY <1>3, <1>5
<1> QED BY <1>1, <1>2, <1>5, <1>8, <1>9, <1>10

\* The flag of a node that the namespace pass has declared.
LEMMA PreParsedIsGrown ==
  ASSUME NEW s, Shape(s, {}), NEW n \in Names, s.nodes[n].in
  PROVE  Grown(s, PreParsed(s, n)) /\ \A d : Surplus(PreParsed(s, n), d) = Surplus(s, d)
<1>1. PICK t : t = PreParsed(s, n)
  OBVIOUS
<1>2. /\ t.cells = s.cells /\ t.opened = s.opened /\ t.misfreed = s.misfreed /\ t.lost = s.lost
      /\ \A m \in Names : t.nodes[m].in = s.nodes[m].in /\ t.nodes[m].object = s.nodes[m].object
      /\ Shape(t, {}) /\ \A d : Surplus(t, d) = Surplus(s, d)
  BY <1>1, PreParsedIsSound
<1>3. Kept(s, t)
  BY <1>2 DEF Kept
<1>4. Tidy(s) => Tidy(t)
  BY <1>2 DEF Tidy, HostsOpen, Live
<1>5. Grown(s, t)
  BY <1>2, <1>3, <1>4 DEF Grown
<1> QED BY <1>1, <1>2, <1>5

\* A release of one reference that is counted for the one who gives it back.
LEMMA ReleaseIsGrown ==
  ASSUME NEW s, Shape(s, {}), NEW c \in Refs, c # Nil => Surplus(s, c) >= 1,
         \A d \in Cells : Surplus(s, d) >= 0
  PROVE  /\ Grown(s, Release(s, c)) /\ Later(s, Release(s, c))
         /\ \A d \in Cells :
              /\ Surplus(Release(s, c), d) >= Surplus(s, d) - (IF d = c THEN 1 ELSE 0)
              /\ ~Release(s, c).lost
                   => Surplus(Release(s, c), d) = Surplus(s, d) - (IF d = c THEN 1 ELSE 0)
<1>1. <<c>> \in Seq(Refs) /\ \A d : Times(d, <<c>>) = IF d = c THEN 1 ELSE 0
  BY TimesOne
<1>2. PICK t : t = Release(s, c)
  OBVIOUS
<1>3. \A d \in Cells : Surplus(s, d) >= Times(d, <<c>>)
  BY <1>1, CellsAssumption
<1>4. PICK refs : refs = <<c>>
  OBVIOUS
<1>5. t = ReleaseAll(s, refs)
  BY <1>2, <1>4 DEF Release
<1>6. refs \in Seq(Refs) /\ \A d \in Cells : Surplus(s, d) >= Times(d, refs)
  BY <1>1, <1>3, <1>4
<1>7. /\ Shape(t, {}) /\ Later(s, t)
      /\ \A d \in Cells : /\ Surplus(t, d) >= Surplus(s, d) - Times(d, refs)
                          /\ ~t.lost => Surplus(t, d) = Surplus(s, d) - Times(d, refs)
  BY <1>5, <1>6, ReleaseAllIsSound
<1>8. Grown(s, t)
  BY <1>7, LaterIsGrown
<1> QED BY <1>1, <1>2, <1>4, <1>7, <1>8

-----------------------------------------------------------------------------
(* Declarations. *)

\* What a step may not do to the object of a node.
Final == \A n \in Names : ObjectOf(n) # Nil /\ store'.nodes[n].in
                            => store'.nodes[n].object = ObjectOf(n)

\* A declaration leaves all counts to their holders when it is done, ...
LEMMA DoneIsSound ==
  ASSUME ObjectsInv, Idle, NEW t, Done(t), Grown(store, t),
         \A c \in Cells : /\ Surplus(t, c) >= Surplus(store, c)
                          /\ ~t.lost => Surplus(t, c) = Surplus(store, c)
  PROVE  ObjectsInv' /\ Final
<1>1. /\ store' = t /\ pass' = pass /\ fields' = fields /\ held' = held /\ failed' = failed
      /\ fields = NoFields /\ Shape(t, {}) /\ Kept(store, t)
      /\ (store.lost => t.lost) /\ (Tidy(store) => Tidy(t))
  BY DEF Done, Idle, Grown
<1>2. Final
  BY <1>1 DEF Final, Kept, ObjectOf, Node
<1>3. \A c \in Cells : Others(c)' = Others(c) /\ Others(c) \in Int
  BY <1>1 DEF Others
<1>4. \A c \in Cells : Surplus(store, c) \in Int /\ Surplus(t, c) \in Int
  BY <1>1, SurplusIsInteger DEF ObjectsInv, Shape
<1>5. \A c \in Cells : /\ Surplus(t, c) >= Others(c)
                       /\ ~failed /\ ~t.lost => Surplus(t, c) = Others(c)
  <2> SUFFICES ASSUME NEW c \in Cells
               PROVE  /\ Surplus(t, c) >= Others(c)
                      /\ ~failed /\ ~t.lost => Surplus(t, c) = Others(c)
    OBVIOUS
  <2>1. /\ Surplus(store, c) >= Others(c)
        /\ ~failed /\ ~store.lost => Surplus(store, c) = Others(c)
    BY DEF ObjectsInv
  <2> QED BY <2>1, <1>1, <1>3, <1>4
<1>6. (\A c \in Cells : /\ Surplus(store, c) >= Others(c)
                        /\ ~failed /\ ~store.lost => Surplus(store, c) = Others(c))'
  BY <1>1, <1>3, <1>5
<1>7. Steady(t, fields.refs)
  <2>1. Len(fields.refs) = 0
    BY <1>1 DEF NoFields
  <2> QED BY <2>1 DEF Steady
<1> QED BY <1>1, <1>2, <1>6, <1>7 DEF ObjectsInv

\* ... and none below them when it fails.
LEMMA FailIsSound ==
  ASSUME ObjectsInv, Idle, NEW t, Fail(t), Shape(t, {}), Kept(store, t),
         \A c \in Cells : Surplus(t, c) >= Surplus(store, c)
  PROVE  ObjectsInv' /\ Final
<1>1. /\ store' = t /\ pass' = pass /\ fields' = fields /\ held' = held /\ failed' = TRUE
      /\ fields = NoFields
  BY DEF Fail, Idle
<1>2. Final
  BY <1>1 DEF Final, Kept, ObjectOf, Node
<1>3. \A c \in Cells : Others(c)' = Others(c) /\ Others(c) \in Int
  BY <1>1 DEF Others
<1>4. \A c \in Cells : Surplus(store, c) \in Int /\ Surplus(t, c) \in Int
  BY SurplusIsInteger DEF ObjectsInv, Shape
<1>5. \A c \in Cells : Surplus(t, c) >= Others(c)
  BY <1>3, <1>4 DEF ObjectsInv
<1>6. (\A c \in Cells : /\ Surplus(store, c) >= Others(c)
                        /\ ~failed /\ ~store.lost => Surplus(store, c) = Others(c))'
  BY <1>1, <1>3, <1>5
<1>7. Steady(t, fields.refs)
  <2>1. Len(fields.refs) = 0
    BY <1>1 DEF NoFields
  <2> QED BY <2>1 DEF Steady
<1> QED BY <1>1, <1>2, <1>6, <1>7 DEF ObjectsInv

\* The declaration has one reference to c, which nobody else counts on.
Has(s, t, c) ==
  /\ Grown(s, t) /\ t.nodes = s.nodes /\ t.lost = s.lost /\ c \in Live(t) \cup {Nil}
  /\ \A d \in Cells : Surplus(t, d) = Surplus(s, d) + (IF d = c THEN 1 ELSE 0)

\* It has one to itself, to a buffer that is new, and to a copy.
LEMMA HasNothing ==
  ASSUME NEW s, Shape(s, {})
  PROVE  Has(s, s, Nil)
<1>1. s \in Stores /\ \A d \in Cells : d # Nil /\ Surplus(s, d) \in Int
  BY SurplusIsInteger, CellsAssumption DEF Shape
<1> QED BY <1>1 DEF Has, Grown, Kept

\* A copy of what exists is one more reference to it.
LEMMA HasCopy ==
  ASSUME NEW s, Shape(s, {}), NEW c \in Live(s) \cup {Nil}
  PROVE  Has(s, Duplicate(s, c), c) /\ Live(Duplicate(s, c)) = Live(s)
<1>1. PICK t : t = Duplicate(s, c)
  OBVIOUS
<1>2. /\ SameButCounts(s, t) /\ Shape(t, {})
      /\ \A d \in Cells : Surplus(t, d) = Surplus(s, d) + (IF d = c THEN 1 ELSE 0)
  BY <1>1, ReferenceIsSound DEF Duplicate
<1>3. Grown(s, t)
  BY <1>2, SameIsGrown
<1> QED BY <1>1, <1>2, <1>3 DEF Has, SameButCounts

\* An object takes over the reference to what it is made for, and has one itself.
Made(s, u, t, c) ==
  Has(s, t, c) /\ c \in Live(t) /\ t.cells[c].node = Nil /\ Live(t) = Live(u) \cup {c}

\* The object that is made for b is the only one who refers to itself yet, and b
\* is its own from then on.
LEMMA HasObject ==
  ASSUME NEW s, NEW u, NEW b, Has(s, u, b), Shape(s, {}), HasRoom(u, 1) \/ HasRoom(u, 2),
         NEW type \in Types \ {"mutex", "event"},
         NEW refs, refs = <<b>> \/ (refs = <<>> /\ b = Nil),
         NEW t, t = Create(u, type, refs), NEW c, c = Fresh(u)
  PROVE  Made(s, u, t, c)
<1>1. Shape(u, {}) /\ b \in Live(u) \cup {Nil} /\ s \in Stores
  BY DEF Has, Grown, Shape
<1>2. refs \in Seq(Live(u) \cup {Nil})
  <2>1. CASE refs = <<b>>
    BY <2>1, <1>1
  <2>2. CASE refs = <<>>
    BY <2>2
  <2> QED BY <2>1, <2>2
<1>3. /\ Created(u, t, c, type, refs) /\ Shape(t, {})
      /\ \A d \in Cells : Surplus(t, d) = IF d = c THEN 1 ELSE Surplus(u, d) - Times(d, refs)
  BY <1>1, <1>2, CreateIsSound
<1>4. Grown(u, t)
  BY <1>3, CreatedIsGrown
<1>5. Grown(s, t)
  BY <1>4, GrownAndGrown DEF Has
<1>6. \A d \in Cells : Times(d, refs) = IF d = b THEN 1 ELSE 0
  <2>1. CASE refs = <<b>>
    BY <2>1, TimesOne
  <2>2. CASE refs = <<>> /\ b = Nil
    BY <2>2, TimesOne, CellsAssumption
  <2> QED BY <2>1, <2>2
<1>7. ASSUME NEW d \in Cells
      PROVE  Surplus(t, d) = Surplus(s, d) + (IF d = c THEN 1 ELSE 0)
  <2>1. Surplus(s, d) \in Int /\ Surplus(u, d) = Surplus(s, d) + (IF d = b THEN 1 ELSE 0)
    BY <1>1, SurplusIsInteger DEF Has
  <2>2. d = c => Surplus(u, d) = 0 /\ d # b
    BY <1>1, <1>3, CellsAssumption DEF Created, Surplus
  <2> QED BY <2>1, <2>2, <1>3, <1>6
<1>8. Has(s, t, c)
  BY <1>3, <1>5, <1>7 DEF Has, Created
<1> QED BY <1>3, <1>8 DEF Created, Made

\* It has the data that the byte code gives it.
LEMMA HasValues ==
  ASSUME NEW s, Shape(s, {}), HasRoom(s, 2), NEW v \in Values(s)
  PROVE  Has(s, v.s, v.c) /\ (HasRoom(v.s, 1) \/ HasRoom(v.s, 2))
<1>1. Has(s, s, Nil)
  BY HasNothing
<1>2. CASE v = [s |-> s, c |-> Nil]
  BY <1>1, <1>2
<1>3. CASE v = [s |-> NewBuffer(s), c |-> Fresh(s)]
  <2>1. PICK refs : refs = <<>>
    OBVIOUS
  <2>2. PICK t, c : t = Create(s, "buffer", refs) /\ c = Fresh(s)
    OBVIOUS
  <2>3. Made(s, s, t, c)
    <3>1. "buffer" \in Types \ {"mutex", "event"}
      BY DEF Types
    <3>2. refs = <<Nil>> \/ (refs = <<>> /\ Nil = Nil)
      BY <2>1
    <3>3. HasRoom(s, 1) \/ HasRoom(s, 2)
      OBVIOUS
    <3> QED BY <3>1, <3>2, <3>3, <1>1, <2>2, HasObject, Zenon
  <2>4. HasRoom(t, 1)
    BY <2>3, RoomAfterOne DEF Made
  <2> QED BY <1>3, <2>1, <2>2, <2>3, <2>4 DEF NewBuffer, Made
<1>4. ASSUME NEW c \in OfType(s, {"buffer", "device", "mutex", "method"}),
             v = [s |-> NewPackage(s, c), c |-> Fresh(s)]
      PROVE  Has(s, v.s, v.c) /\ (HasRoom(v.s, 1) \/ HasRoom(v.s, 2))
  <2>1. PICK u : u = Duplicate(s, c)
    OBVIOUS
  <2>2. c \in Live(s) \cup {Nil}
    BY DEF OfType
  <2>3. Has(s, u, c) /\ Live(u) = Live(s)
    BY <2>1, <2>2, HasCopy
  <2>4. HasRoom(u, 2) /\ Fresh(u) = Fresh(s)
    BY <2>3 DEF HasRoom, Fresh
  <2>5. PICK refs : refs = <<c>>
    OBVIOUS
  <2>6. PICK t, d : t = Create(u, "package", refs) /\ d = Fresh(u)
    OBVIOUS
  <2>7. Made(s, u, t, d)
    <3>1. "package" \in Types \ {"mutex", "event"}
      BY DEF Types
    <3>2. refs = <<c>> \/ (refs = <<>> /\ c = Nil)
      BY <2>5
    <3>3. HasRoom(u, 1) \/ HasRoom(u, 2)
      BY <2>4
    <3> QED BY <3>1, <3>2, <3>3, <2>3, <2>6, HasObject, Zenon
  <2>8. HasRoom(t, 1)
    BY <2>4, <2>7, RoomAfterOne DEF Made
  <2>9. v.s = t /\ v.c = d
    BY <1>4, <2>1, <2>4, <2>5, <2>6 DEF NewPackage
  <2> QED BY <2>7, <2>8, <2>9 DEF Made
<1> QED BY <1>2, <1>3, <1>4 DEF Values

\* What the invariant says of the store.
LEMMA StoreIsSound ==
  ASSUME ObjectsInv
  PROVE  /\ Shape(store, {}) /\ store \in Stores /\ Live(store) \in SUBSET Cells
         /\ \A c \in Cells : /\ Surplus(store, c) \in Int /\ Surplus(store, c) >= 0
                             /\ Surplus(store, c) >= Others(c) /\ Others(c) \in Nat
                             /\ c \in held => Others(c) >= 1
                             /\ c = fields.conn => Others(c) >= 1
<1>1. Shape(store, {}) /\ store \in Stores /\ Live(store) \in SUBSET Cells
  BY StoreCells DEF ObjectsInv, Shape
<1>2. \A c \in Cells : Surplus(store, c) \in Int /\ Surplus(store, c) >= Others(c)
  BY <1>1, SurplusIsInteger DEF ObjectsInv
<1>3. \A c : /\ Others(c) \in Nat /\ (c \in held => Others(c) >= 1)
             /\ (c = fields.conn => Others(c) >= 1)
  BY DEF Others
<1> QED BY <1>1, <1>2, <1>3

\* The node of an object takes the declaration's reference.
LEMMA NamedIsSound ==
  ASSUME ObjectsInv, Idle, NEW s, NEW c, Has(store, s, c), c \in Live(s), s.cells[c].node = Nil,
         NEW n \in Names, ~Node(n).in, NEW t, t = Link(NewNode(s, n), n, c)
  PROVE  /\ Grown(store, t) /\ t.nodes[n].in
         /\ \A d \in Cells : Surplus(t, d) = Surplus(store, d)
<1>1. Shape(s, {}) /\ ~s.nodes[n].in /\ Grown(store, s)
  BY DEF Has, Grown, Node
<1>2. /\ Grown(s, t) /\ t.nodes[n].in
      /\ \A d \in Cells : Surplus(t, d) = Surplus(s, d) - (IF d = c THEN 1 ELSE 0)
  BY <1>1, NodeForObject
<1>3. Grown(store, t)
  BY <1>1, <1>2, GrownAndGrown
<1>4. \A d \in Cells : /\ Surplus(store, d) \in Int
                       /\ Surplus(s, d) = Surplus(store, d) + (IF d = c THEN 1 ELSE 0)
  BY StoreIsSound DEF Has
<1> QED BY <1>2, <1>3, <1>4

\* A declaration that fails gives its object back.
LEMMA GivenBack ==
  ASSUME ObjectsInv, NEW s, NEW c \in Cells, Shape(s, {}),
         \A d \in Cells : Surplus(s, d) = Surplus(store, d) + (IF d = c THEN 1 ELSE 0),
         NEW t, t = Release(s, c)
  PROVE  /\ Grown(s, t) /\ Later(s, t)
         /\ \A d \in Cells : /\ Surplus(t, d) >= Surplus(store, d)
                             /\ ~t.lost => Surplus(t, d) = Surplus(store, d)
<1>1. \A d \in Cells : Surplus(store, d) \in Int /\ Surplus(store, d) >= 0
  BY StoreIsSound
<1>2. c \in Refs /\ Surplus(s, c) >= 1 /\ \A d \in Cells : Surplus(s, d) >= 0
  BY <1>1 DEF Refs
<1>3. /\ Grown(s, t) /\ Later(s, t)
      /\ \A d \in Cells :
           /\ Surplus(t, d) >= Surplus(s, d) - (IF d = c THEN 1 ELSE 0)
           /\ ~t.lost => Surplus(t, d) = Surplus(s, d) - (IF d = c THEN 1 ELSE 0)
  BY <1>2, ReleaseIsGrown
<1>4. \A d \in Cells : Surplus(s, d) - (IF d = c THEN 1 ELSE 0) = Surplus(store, d)
  BY <1>1
<1> QED BY <1>3, <1>4

\* The object becomes that of its node, or it goes.
LEMMA ObjectThenNodeIsSound ==
  ASSUME ObjectsInv, Idle, NEW s, NEW c, Has(store, s, c), c \in Live(s), s.cells[c].node = Nil,
         NEW n \in Names, ObjectThenNode(s, n, c)
  PROVE  ObjectsInv' /\ Final
<1>1. Shape(s, {}) /\ Grown(store, s) /\ s \in Stores
  BY DEF Has, Grown, Shape
<1>2. c \in Cells
  BY <1>1, StoreCells
<1>3. CASE Done(Release(s, c))
  <2>1. PICK t : t = Release(s, c)
    OBVIOUS
  <2>2. /\ Grown(s, t)
        /\ \A d \in Cells : /\ Surplus(t, d) >= Surplus(store, d)
                            /\ ~t.lost => Surplus(t, d) = Surplus(store, d)
    BY <1>1, <1>2, <2>1, GivenBack DEF Has
  <2>3. Grown(store, t)
    BY <1>1, <2>2, GrownAndGrown
  <2> QED BY <1>3, <2>1, <2>2, <2>3, DoneIsSound
<1>4. CASE ~Node(n).in /\ Done(Link(NewNode(s, n), n, c))
  <2>1. PICK t : t = Link(NewNode(s, n), n, c)
    OBVIOUS
  <2>2. Grown(store, t) /\ \A d \in Cells : Surplus(t, d) = Surplus(store, d)
    BY <1>4, <2>1, NamedIsSound
  <2>3. \A d \in Cells : Surplus(t, d) >= Surplus(store, d)
    BY <2>2, StoreIsSound
  <2> QED BY <1>4, <2>1, <2>2, <2>3, DoneIsSound
<1> QED BY <1>3, <1>4 DEF ObjectThenNode

\* A name keeps its data, and what it fails with is left behind.
LEMMA NameIsSound ==
  ASSUME ObjectsInv, NEW n \in Names, DeclareName(n)
  PROVE  ObjectsInv' /\ Final
<1>1. Idle /\ HasRoom(store, 2) /\ Shape(store, {})
  BY DEF DeclareName, ObjectsInv
<1>2. ASSUME NEW s \in {store} \cup LostElement(store), Fail(Create(s, "name", <<>>))
      PROVE  ObjectsInv' /\ Final
  <2>1. PICK c \in Live(store) \cup {Nil} : s = Duplicate(store, c)
    <3>1. store = Duplicate(store, Nil)
      BY DEF Duplicate, Reference
    <3> QED BY <3>1, <1>2 DEF LostElement, OfType
  <2>2. Has(store, s, c) /\ HasRoom(s, 2)
    <3>1. Has(store, s, c) /\ Live(s) = Live(store)
      BY <1>1, <2>1, HasCopy
    <3> QED BY <3>1, <1>1 DEF HasRoom
  <2>3. Has(s, s, Nil) /\ Shape(s, {})
    <3>1. Shape(s, {})
      BY <2>2 DEF Has, Grown
    <3> QED BY <3>1, HasNothing
  <2>4. PICK refs : refs = <<>>
    OBVIOUS
  <2>5. PICK t, e : t = Create(s, "name", refs) /\ e = Fresh(s)
    OBVIOUS
  <2>6. Made(s, s, t, e)
    <3>1. "name" \in Types \ {"mutex", "event"}
      BY DEF Types
    <3>2. refs = <<Nil>> \/ (refs = <<>> /\ Nil = Nil)
      BY <2>4
    <3>3. HasRoom(s, 1) \/ HasRoom(s, 2)
      BY <2>2
    <3> QED BY <3>1, <3>2, <3>3, <2>3, <2>5, HasObject, Zenon
  <2>7. Grown(store, t)
    BY <2>2, <2>6, GrownAndGrown DEF Has, Made
  <2>8. \A d \in Cells : Surplus(t, d) >= Surplus(store, d)
    <3>1. ASSUME NEW d \in Cells PROVE Surplus(t, d) >= Surplus(store, d)
      <4>1. Surplus(store, d) \in Int
        BY StoreIsSound
      <4> QED BY <4>1, <2>2, <2>6 DEF Has, Made
    <3> QED BY <3>1
  <2> QED BY <1>1, <1>2, <2>4, <2>5, <2>7, <2>8, FailIsSound DEF Grown
<1>3. ASSUME NEW v \in Values(store),
             \/ Fail(Create(v.s, "name", <<v.c>>))
             \/ /\ ~Node(n).in
                /\ Done(Link(NewNode(Create(v.s, "name", <<v.c>>), n), n, Fresh(v.s)))
      PROVE  ObjectsInv' /\ Final
  <2>1. Has(store, v.s, v.c) /\ (HasRoom(v.s, 1) \/ HasRoom(v.s, 2))
    BY <1>1, HasValues
  <2>2. PICK u, b, refs : u = v.s /\ b = v.c /\ refs = <<b>>
    OBVIOUS
  <2>3. PICK s, c : s = Create(u, "name", refs) /\ c = Fresh(u)
    OBVIOUS
  <2>4. Made(store, u, s, c)
    <3>1. "name" \in Types \ {"mutex", "event"}
      BY DEF Types
    <3>2. refs = <<b>> \/ (refs = <<>> /\ b = Nil)
      BY <2>2
    <3>3. Has(store, u, b) /\ (HasRoom(u, 1) \/ HasRoom(u, 2))
      BY <2>1, <2>2
    <3> QED BY <3>1, <3>2, <3>3, <1>1, <2>3, HasObject, Zenon
  <2>5. CASE Fail(s)
    <3>1. \A d \in Cells : Surplus(s, d) >= Surplus(store, d)
      <4>1. \A d \in Cells : Surplus(store, d) \in Int
        BY StoreIsSound
      <4> QED BY <4>1, <2>4 DEF Has, Made
    <3> QED BY <1>1, <2>4, <2>5, <3>1, FailIsSound DEF Has, Grown, Made
  <2>6. CASE ~Node(n).in /\ Done(Link(NewNode(s, n), n, c))
    BY <1>1, <2>4, <2>6, ObjectThenNodeIsSound DEF ObjectThenNode, Made
  <2> QED BY <1>3, <2>2, <2>3, <2>5, <2>6
<1> QED BY <1>2, <1>3 DEF DeclareName

\* An object that refers to nothing.
LEMMA HasNewObject ==
  ASSUME NEW s, Shape(s, {}), HasRoom(s, 1) \/ HasRoom(s, 2), NEW type \in Types \ {"mutex", "event"},
         NEW t, t = Create(s, type, <<>>), NEW c, c = Fresh(s)
  PROVE  Made(s, s, t, c)
<1>1. PICK refs : refs = <<>>
  OBVIOUS
<1>2. refs = <<Nil>> \/ (refs = <<>> /\ Nil = Nil)
  BY <1>1
<1>3. Has(s, s, Nil)
  BY HasNothing
<1>4. t = Create(s, type, refs)
  BY <1>1
<1> QED BY <1>2, <1>3, <1>4, HasObject, Zenon

\* A buffer field keeps its buffer, new or not.
LEMMA BufferFieldIsSound ==
  ASSUME ObjectsInv, NEW n \in Names, DeclareBufferField(n)
  PROVE  ObjectsInv' /\ Final
<1>1. Idle /\ HasRoom(store, 2) /\ Shape(store, {})
  BY DEF DeclareBufferField, ObjectsInv
<1>2. PICK b \in {[s |-> NewBuffer(store), c |-> Fresh(store)]}
                  \cup {[s |-> Duplicate(store, c), c |-> c] : c \in OfType(store, {"buffer"})} :
         \/ Fail(b.s)
         \/ ObjectThenNode(Create(b.s, "bufferfield", <<b.c>>), n, Fresh(b.s))
  BY DEF DeclareBufferField
<1>3. PICK u, e : u = b.s /\ e = b.c
  OBVIOUS
<1>4. Has(store, u, e) /\ HasRoom(u, 1)
  <2>1. CASE b = [s |-> NewBuffer(store), c |-> Fresh(store)]
    <3>1. u = Create(store, "buffer", <<>>) /\ e = Fresh(store)
      BY <1>3, <2>1 DEF NewBuffer
    <3>2. "buffer" \in Types \ {"mutex", "event"}
      BY DEF Types
    <3>3. Made(store, store, u, e)
      BY <1>1, <3>1, <3>2, HasNewObject
    <3> QED BY <1>1, <3>3, RoomAfterOne DEF Made
  <2>2. ASSUME NEW c \in OfType(store, {"buffer"}), b = [s |-> Duplicate(store, c), c |-> c]
        PROVE  Has(store, u, e) /\ HasRoom(u, 1)
    <3>1. u = Duplicate(store, c) /\ e = c /\ c \in Live(store) \cup {Nil}
      BY <1>3, <2>2 DEF OfType
    <3>2. Has(store, u, c) /\ Live(u) = Live(store)
      BY <1>1, <3>1, HasCopy
    <3>3. HasRoom(u, 2) /\ Live(u) \in SUBSET Cells
      BY <1>1, <3>2, StoreIsSound DEF HasRoom
    <3> QED BY <3>1, <3>2, <3>3, RoomIsThere
  <2> QED BY <1>2, <2>1, <2>2
<1>5. CASE Fail(u)
  <2>1. \A d \in Cells : Surplus(u, d) >= Surplus(store, d)
    <3>1. \A d \in Cells : Surplus(store, d) \in Int
      BY StoreIsSound
    <3> QED BY <3>1, <1>4 DEF Has
  <2> QED BY <1>1, <1>4, <1>5, <2>1, FailIsSound DEF Has, Grown
<1>6. CASE ObjectThenNode(Create(u, "bufferfield", <<e>>), n, Fresh(u))
  <2>1. PICK refs : refs = <<e>>
    OBVIOUS
  <2>2. PICK t, c : t = Create(u, "bufferfield", refs) /\ c = Fresh(u)
    OBVIOUS
  <2>3. refs = <<e>> \/ (refs = <<>> /\ e = Nil)
    BY <2>1
  <2>4. "bufferfield" \in Types \ {"mutex", "event"}
    BY DEF Types, Fields
  <2>5. Made(store, u, t, c)
    BY <1>1, <1>4, <2>2, <2>3, <2>4, HasObject, Zenon
  <2>6. ObjectThenNode(t, n, c)
    BY <1>6, <2>1, <2>2
  <2> QED BY <1>1, <2>5, <2>6, ObjectThenNodeIsSound DEF Made
<1> QED BY <1>2, <1>3, <1>5, <1>6

\* A data region keeps its strings.
LEMMA DataRegionIsSound ==
  ASSUME ObjectsInv, NEW n \in Names, DeclareDataRegion(n)
  PROVE  ObjectsInv' /\ Final
<1>1. Idle /\ HasRoom(store, 2) /\ Shape(store, {})
  BY DEF DeclareDataRegion, ObjectsInv
<1>2. PICK u, e : u = Create(store, "buffer", <<>>) /\ e = Fresh(store)
  OBVIOUS
<1>3. PICK refs : refs = <<e>>
  OBVIOUS
<1>4. PICK t, c : t = Create(u, "dataregion", refs) /\ c = Fresh(u)
  OBVIOUS
<1>5. "buffer" \in Types \ {"mutex", "event"} /\ "dataregion" \in Types \ {"mutex", "event"}
  BY DEF Types
<1>6. Made(store, store, u, e)
  BY <1>1, <1>2, <1>5, HasNewObject
<1>7. Has(store, u, e) /\ HasRoom(u, 1)
  BY <1>1, <1>6, RoomAfterOne DEF Made
<1>8. refs = <<e>> \/ (refs = <<>> /\ e = Nil)
  BY <1>3
<1>9. Made(store, u, t, c)
  BY <1>1, <1>4, <1>5, <1>7, <1>8, HasObject, Zenon
<1>10. ObjectThenNode(t, n, c)
  BY <1>2, <1>3, <1>4 DEF DeclareDataRegion, NewBuffer
<1> QED BY <1>1, <1>9, <1>10, ObjectThenNodeIsSound DEF Made

\* It makes no difference whether the node or the object is made first.
LEMMA NodeBesideObject ==
  ASSUME NEW s \in Stores, NEW n \in Names, NEW type, NEW c
  PROVE  /\ Create(NewNode(s, n), type, <<>>) = NewNode(Create(s, type, <<>>), n)
         /\ Fresh(NewNode(s, n)) = Fresh(s)
         /\ Open(NewNode(s, n), c) = NewNode(Open(s, c), n)
<1>1. Live(NewNode(s, n)) = Live(s) /\ NewNode(s, n).cells = s.cells
  BY DEF NewNode, Live, Stores
<1>2. Fresh(NewNode(s, n)) = Fresh(s)
  BY <1>1 DEF Fresh
<1>3. PICK nodes : nodes = [s.nodes EXCEPT ![n] = [in |-> TRUE, object |-> Nil, pre |-> FALSE]]
  OBVIOUS
<1>4. PICK cells : cells = [d \in Live(s) \cup {Fresh(s)} |->
                              IF d \in Live(s) THEN s.cells[d]
                              ELSE [type |-> type, count |-> 1, refs |-> <<>>, node |-> Nil,
                                    open |-> FALSE]]
  OBVIOUS
<1>5. PICK opened : opened = [s.cells EXCEPT ![c].open = TRUE]
  OBVIOUS
<1>6. Create(NewNode(s, n), type, <<>>) = [NewNode(s, n) EXCEPT !.cells = cells]
  BY <1>1, <1>2, <1>4 DEF Create
<1>7. Create(s, type, <<>>) = [s EXCEPT !.cells = cells]
  BY <1>4 DEF Create
<1>8. NewNode(s, n) = [s EXCEPT !.nodes = nodes]
  BY <1>3 DEF NewNode
<1>9. [[s EXCEPT !.nodes = nodes] EXCEPT !.cells = cells]
        = [[s EXCEPT !.cells = cells] EXCEPT !.nodes = nodes]
  BY DEF Stores
<1>10. NewNode([s EXCEPT !.cells = cells], n) = [[s EXCEPT !.cells = cells] EXCEPT !.nodes = nodes]
  BY <1>3 DEF NewNode, Stores
<1>11. Open(NewNode(s, n), c) = [[s EXCEPT !.nodes = nodes] EXCEPT !.cells = opened, !.opened = s.opened + 1]
  BY <1>1, <1>5, <1>8 DEF Open, Stores
<1>12. NewNode(Open(s, c), n) = [[s EXCEPT !.cells = opened, !.opened = s.opened + 1] EXCEPT !.nodes = nodes]
  BY <1>3, <1>5 DEF Open, NewNode, Stores
<1>13. [[s EXCEPT !.nodes = nodes] EXCEPT !.cells = opened, !.opened = s.opened + 1]
         = [[s EXCEPT !.cells = opened, !.opened = s.opened + 1] EXCEPT !.nodes = nodes]
  BY DEF Stores
<1> QED BY <1>2, <1>6, <1>7, <1>8, <1>9, <1>10, <1>11, <1>12, <1>13

\* A declaration that was made in the namespace pass is taken over as it is.
LEMMA ReuseIsSound ==
  ASSUME ObjectsInv, Idle, Done(store)
  PROVE  ObjectsInv' /\ Final
<1>1. Grown(store, store) /\ \A c \in Cells : Surplus(store, c) >= Surplus(store, c)
  BY StoreIsSound DEF Grown, Kept
<1> QED BY <1>1, DoneIsSound

\* A node whose object fails stays without one.
LEMMA BareNodeIsSound ==
  ASSUME ObjectsInv, Idle, NEW n \in Names, ~Node(n).in, Fail(NewNode(store, n))
  PROVE  ObjectsInv' /\ Final
<1>1. PICK t : t = NewNode(store, n)
  OBVIOUS
<1>2. /\ \A m \in Names \ {n} : t.nodes[m] = store.nodes[m]
      /\ store.nodes[n].object = Nil /\ Shape(t, {}) /\ \A d : Surplus(t, d) = Surplus(store, d)
  BY <1>1, StoreIsSound, NewNodeIsSound DEF Node
<1>3. Kept(store, t) /\ \A c \in Cells : Surplus(t, c) >= Surplus(store, c)
  BY <1>2, StoreIsSound DEF Kept
<1> QED BY <1>1, <1>2, <1>3, FailIsSound

\* An object is made and tied to a new node, with the flag of the pass.
LEMMA ObjectOnNewNode ==
  ASSUME ObjectsInv, Idle, HasRoom(store, 1), NEW type \in Types \ {"mutex", "event"},
         NEW n \in Names, ~Node(n).in,
         NEW s, s = NewNode(store, n),
         NEW t, t = Link(Create(s, type, <<>>), n, Fresh(s)),
         Done(t) \/ Done(PreParsed(t, n))
  PROVE  ObjectsInv' /\ Final
<1>1. Shape(store, {}) /\ store \in Stores
  BY StoreIsSound
<1>2. PICK u, c : u = Create(store, type, <<>>) /\ c = Fresh(store)
  OBVIOUS
<1>3. Made(store, store, u, c)
  BY <1>1, <1>2, HasNewObject
<1>4. t = Link(NewNode(u, n), n, c)
  BY <1>1, <1>2, NodeBesideObject
<1>5. Grown(store, t) /\ t.nodes[n].in /\ \A d \in Cells : Surplus(t, d) = Surplus(store, d)
  BY <1>3, <1>4, NamedIsSound DEF Made
<1>6. \A d \in Cells : Surplus(t, d) >= Surplus(store, d)
  BY <1>5, StoreIsSound
<1>7. CASE Done(t)
  BY <1>5, <1>6, <1>7, DoneIsSound
<1>8. CASE Done(PreParsed(t, n))
  <2>1. PICK v : v = PreParsed(t, n)
    OBVIOUS
  <2>2. Grown(t, v) /\ \A d : Surplus(v, d) = Surplus(t, d)
    BY <1>5, <2>1, PreParsedIsGrown DEF Grown
  <2>3. Grown(store, v)
    BY <1>5, <2>2, GrownAndGrown
  <2> QED BY <1>5, <1>6, <1>8, <2>1, <2>2, <2>3, DoneIsSound
<1> QED BY <1>7, <1>8

\* Devices and their like take over what the namespace pass has declared.
LEMMA BodyIsSound ==
  ASSUME ObjectsInv, NEW n \in Names, NEW type \in Types \ {"mutex", "event"}, DeclareBody(n, type)
  PROVE  ObjectsInv' /\ Final
<1>1. Idle /\ HasRoom(store, 1)
  BY DEF DeclareBody
<1>2. CASE Reusable(n, type) /\ Done(store)
  BY <1>1, <1>2, ReuseIsSound
<1>3. CASE /\ ~Node(n).in
           /\ \/ Fail(NewNode(store, n))
              \/ Done(PreParsed(Link(Create(NewNode(store, n), type, <<>>), n,
                                     Fresh(NewNode(store, n))), n))
  <2>1. CASE Fail(NewNode(store, n))
    BY <1>1, <1>3, <2>1, BareNodeIsSound
  <2>2. CASE Done(PreParsed(Link(Create(NewNode(store, n), type, <<>>), n,
                                 Fresh(NewNode(store, n))), n))
    <3>1. PICK s : s = NewNode(store, n)
      OBVIOUS
    <3>2. PICK t : t = Link(Create(s, type, <<>>), n, Fresh(s))
      OBVIOUS
    <3>3. Done(PreParsed(t, n))
      BY <2>2, <3>1, <3>2
    <3> QED BY <1>1, <1>3, <3>1, <3>2, <3>3, ObjectOnNewNode
  <2> QED BY <1>3, <2>1, <2>2
<1> QED BY <1>2, <1>3 DEF DeclareBody

\* Aliases do so in the full pass.
LEMMA AliasIsSound ==
  ASSUME ObjectsInv, NEW n \in Names, DeclareAlias(n)
  PROVE  ObjectsInv' /\ Final
<1>1. Idle /\ HasRoom(store, 1)
  BY DEF DeclareAlias
<1>2. "alias" \in Types \ {"mutex", "event"}
  BY DEF Types
<1>3. CASE Done(store)
  BY <1>1, <1>3, ReuseIsSound
<1>4. CASE ~Node(n).in /\ Fail(NewNode(store, n))
  BY <1>1, <1>4, BareNodeIsSound
<1>5. CASE /\ ~Node(n).in
           /\ Done(PreParsed(Link(Create(NewNode(store, n), "alias", <<>>), n,
                                  Fresh(NewNode(store, n))), n))
  <2>1. PICK s : s = NewNode(store, n)
    OBVIOUS
  <2>2. PICK t : t = Link(Create(s, "alias", <<>>), n, Fresh(s))
    OBVIOUS
  <2>3. Done(PreParsed(t, n))
    BY <1>5, <2>1, <2>2
  <2> QED BY <1>1, <1>2, <1>5, <2>1, <2>2, <2>3, ObjectOnNewNode
<1> QED BY <1>3, <1>4, <1>5 DEF DeclareAlias

\* A region has its node first.
LEMMA RegionIsSound ==
  ASSUME ObjectsInv, NEW n \in Names, DeclareRegion(n)
  PROVE  ObjectsInv' /\ Final
<1>1. Idle /\ HasRoom(store, 1) /\ ~Node(n).in
  BY DEF DeclareRegion
<1>2. "region" \in Types \ {"mutex", "event"}
  BY DEF Types
<1>3. CASE Fail(NewNode(store, n))
  BY <1>1, <1>3, BareNodeIsSound
<1>4. CASE Done(Link(Create(NewNode(store, n), "region", <<>>), n, Fresh(NewNode(store, n))))
  <2>1. PICK s : s = NewNode(store, n)
    OBVIOUS
  <2>2. PICK t : t = Link(Create(s, "region", <<>>), n, Fresh(s))
    OBVIOUS
  <2>3. Done(t)
    BY <1>4, <2>1, <2>2
  <2> QED BY <1>1, <1>2, <2>1, <2>2, <2>3, ObjectOnNewNode
<1> QED BY <1>3, <1>4 DEF DeclareRegion

\* A method has its object first.
LEMMA MethodIsSound ==
  ASSUME ObjectsInv, NEW n \in Names, DeclareMethod(n)
  PROVE  ObjectsInv' /\ Final
<1>1. Idle /\ HasRoom(store, 1) /\ Shape(store, {}) /\ store \in Stores
  BY StoreIsSound DEF DeclareMethod
<1>2. "method" \in Types \ {"mutex", "event"}
  BY DEF Types
<1>3. PICK s, c : s = Create(store, "method", <<>>) /\ c = Fresh(store)
  OBVIOUS
<1>4. Made(store, store, s, c)
  BY <1>1, <1>2, <1>3, HasNewObject
<1>5. CASE Done(store)
  BY <1>1, <1>5, ReuseIsSound
<1>6. CASE Done(Release(s, c))
  <2>1. ObjectThenNode(s, n, c)
    BY <1>6 DEF ObjectThenNode
  <2> QED BY <1>1, <1>4, <2>1, ObjectThenNodeIsSound DEF Made
<1>7. CASE ~Node(n).in /\ Done(PreParsed(Link(NewNode(s, n), n, c), n))
  <2>1. PICK u : u = NewNode(store, n)
    OBVIOUS
  <2>2. PICK t : t = Link(Create(u, "method", <<>>), n, Fresh(u))
    OBVIOUS
  <2>3. t = Link(NewNode(s, n), n, c)
    BY <1>1, <1>3, <2>1, <2>2, NodeBesideObject
  <2>4. Done(PreParsed(t, n))
    BY <1>7, <2>3
  <2> QED BY <1>1, <1>2, <1>7, <2>1, <2>2, <2>4, ObjectOnNewNode
<1> QED BY <1>3, <1>5, <1>6, <1>7 DEF DeclareMethod

\* A region is mapped when it is accessed.
LEMMA MapIsSound ==
  ASSUME ObjectsInv, NEW c \in Cells, MapRegion(c)
  PROVE  ObjectsInv' /\ Final
<1>1. /\ Idle /\ c \in Live(store) /\ store.cells[c].type = "region" /\ ~store.cells[c].open
      /\ Shape(store, {})
  BY StoreIsSound DEF MapRegion, OfType
<1>2. PICK t : t = Open(store, c)
  OBVIOUS
<1>3. /\ Live(t) = Live(store) /\ t.nodes = store.nodes
      /\ t.misfreed = store.misfreed /\ t.lost = store.lost
      /\ \A d \in Live(store) : /\ t.cells[d].type = store.cells[d].type
                                /\ t.cells[d].node = store.cells[d].node
                                /\ t.cells[d].open = (d = c \/ store.cells[d].open)
      /\ Shape(t, {}) /\ \A d : Surplus(t, d) = Surplus(store, d)
  BY <1>1, <1>2, OpenIsSound DEF OnHost
<1>4. Kept(store, t) /\ (Tidy(store) => Tidy(t))
  BY <1>3 DEF Kept, Tidy, HostsOpen
<1>5. Grown(store, t) /\ \A d \in Cells : Surplus(t, d) >= Surplus(store, d)
  BY <1>3, <1>4, StoreIsSound DEF Grown
<1>6. Done(t)
  BY <1>2 DEF MapRegion
<1> QED BY <1>1, <1>3, <1>5, <1>6, DoneIsSound

\* A mutex or an event, whose resource comes last and is given back at once if
\* the node or the resource fails.
LEMMA OnHostIsSound ==
  ASSUME ObjectsInv, NEW n \in Names, NEW type \in {"mutex", "event"}, DeclareOnHost(n, type)
  PROVE  ObjectsInv' /\ Final
<1>1. Idle /\ HasRoom(store, 1) /\ Shape(store, {}) /\ store \in Stores
  BY StoreIsSound DEF DeclareOnHost
<1>2. type \in Types /\ type \in OnHost
  BY DEF Types, OnHost
<1>3. PICK refs : refs = <<>>
  OBVIOUS
<1>4. PICK s, c : s = Create(store, type, refs) /\ c = Fresh(store)
  OBVIOUS
<1>5. /\ Created(store, s, c, type, refs) /\ Shape(s, {})
      /\ \A d \in Cells : Surplus(s, d) = IF d = c THEN 1 ELSE Surplus(store, d) - Times(d, refs)
  <2>1. refs \in Seq(Live(store) \cup {Nil})
    BY <1>3
  <2>2. HasRoom(store, 1) \/ HasRoom(store, 2)
    BY <1>1
  <2>3. Shape(store, {}) /\ type \in Types
    BY <1>1, <1>2
  <2> QED BY <2>1, <2>2, <2>3, <1>4, CreateIsSound
<1>6. /\ c \in Cells \ Live(store) /\ c \in Live(s) /\ s.cells[c].type = type
      /\ s.cells[c].node = Nil /\ ~s.cells[c].open
      /\ s.nodes = store.nodes /\ s.lost = store.lost /\ s.misfreed = store.misfreed
      /\ \A d \in Live(s) : d # c => d \in Live(store) /\ s.cells[d] = store.cells[d]
  BY <1>5 DEF Created
<1>7. \A d \in Cells : Surplus(s, d) = Surplus(store, d) + (IF d = c THEN 1 ELSE 0)
  <2>1. \A d \in Cells : Times(d, refs) = 0 /\ Surplus(store, d) \in Int
    BY <1>3, TimesOne, StoreIsSound
  <2>2. Surplus(store, c) = 0
    BY <1>6 DEF Surplus
  <2> QED BY <2>1, <2>2, <1>5
<1>8. Kept(store, s)
  BY <1>6 DEF Kept
<1>9. CASE Fail(Release(s, c))
  <2>1. PICK t : t = Release(s, c)
    OBVIOUS
  <2>2. Grown(s, t) /\ \A d \in Cells : Surplus(t, d) >= Surplus(store, d)
    BY <1>5, <1>6, <1>7, <2>1, GivenBack
  <2>3. Kept(store, t) /\ Shape(t, {})
    BY <1>8, <2>2 DEF Kept, Grown
  <2> QED BY <1>1, <1>9, <2>1, <2>2, <2>3, FailIsSound
<1>10. CASE ~Node(n).in /\ Fail(Release(NewNode(s, n), c))
  <2>1. PICK u : u = NewNode(s, n)
    OBVIOUS
  <2>2. /\ \A m \in Names \ {n} : u.nodes[m] = s.nodes[m]
        /\ s.nodes[n].object = Nil /\ Shape(u, {}) /\ \A d : Surplus(u, d) = Surplus(s, d)
    BY <1>5, <1>6, <1>10, <2>1, NewNodeIsSound DEF Node
  <2>3. PICK t : t = Release(u, c)
    OBVIOUS
  <2>4. Grown(u, t) /\ \A d \in Cells : Surplus(t, d) >= Surplus(store, d)
    <3>1. \A d \in Cells : Surplus(u, d) = Surplus(store, d) + (IF d = c THEN 1 ELSE 0)
      BY <2>2, <1>7
    <3> QED BY <3>1, <2>2, <2>3, <1>6, GivenBack
  <2>5. Kept(store, t) /\ Shape(t, {})
    BY <1>6, <2>2, <2>4 DEF Kept, Grown
  <2> QED BY <1>1, <1>10, <2>1, <2>3, <2>4, <2>5, FailIsSound
<1>11. CASE ~Node(n).in /\ Done(Link(Open(NewNode(s, n), c), n, c))
  <2>1. PICK u : u = Open(s, c)
    OBVIOUS
  <2>2. /\ Live(u) = Live(s) /\ u.nodes = s.nodes
        /\ u.misfreed = s.misfreed /\ u.lost = s.lost
        /\ \A d \in Live(s) : /\ u.cells[d].type = s.cells[d].type
                              /\ u.cells[d].node = s.cells[d].node
                              /\ u.cells[d].open = (d = c \/ s.cells[d].open)
        /\ Shape(u, {}) /\ \A d : Surplus(u, d) = Surplus(s, d)
    BY <1>2, <1>5, <1>6, <2>1, OpenIsSound
  <2>3. Kept(store, u) /\ (Tidy(store) => Tidy(u))
    <3>1. ASSUME HostsOpen(store) PROVE HostsOpen(u)
      <4>1. ASSUME NEW d \in Live(u), d # c, u.cells[d].type \in {"mutex", "event"}
            PROVE  u.cells[d].open
        <5>1. d \in Live(store) /\ s.cells[d] = store.cells[d]
          BY <4>1, <1>6, <2>2
        <5>2. store.cells[d].open
          BY <3>1, <4>1, <5>1, <2>2 DEF HostsOpen
        <5> QED BY <4>1, <5>1, <5>2, <2>2
      <4>2. u.cells[c].open
        BY <1>6, <2>2
      <4> QED BY <4>1, <4>2 DEF HostsOpen
    <3>2. u.nodes = store.nodes /\ u.misfreed = store.misfreed
      BY <1>6, <2>2
    <3> QED BY <3>1, <3>2 DEF Kept, Tidy
  <2>4. Has(store, u, c) /\ c \in Live(u) /\ u.cells[c].node = Nil
    BY <1>6, <1>7, <2>2, <2>3 DEF Has, Grown
  <2>5. PICK t : t = Link(NewNode(u, n), n, c)
    OBVIOUS
  <2>6. Done(t)
    BY <1>5, <1>11, <2>1, <2>5, NodeBesideObject DEF Shape
  <2>7. ObjectThenNode(u, n, c)
    BY <1>11, <2>5, <2>6 DEF ObjectThenNode
  <2> QED BY <1>1, <2>4, <2>7, ObjectThenNodeIsSound
<1> QED BY <1>3, <1>4, <1>9, <1>10, <1>11 DEF DeclareOnHost

-----------------------------------------------------------------------------
(* Field lists. *)

\* What has a node is an object that exists, and knows the node.
LEMMA NamedIsSteady ==
  ASSUME ObjectsInv, NEW n \in Names, NEW types \in SUBSET Types, IsNamed(n, types)
  PROVE  /\ ObjectOf(n) \in Live(store) /\ ObjectOf(n) \in Cells
         /\ store.cells[ObjectOf(n)].node # Nil
<1>1. Linked(store, {}) /\ Live(store) \in SUBSET Cells
  BY StoreIsSound DEF Shape
<1>2. ObjectOf(n) \in Live(store)
  <2>1. "nil" \notin Types
    BY DEF Types, Fields
  <2> QED BY <2>1 DEF IsNamed, TypeOf
<1>3. store.cells[ObjectOf(n)].node = n
  BY <1>1, <1>2, CellsAssumption DEF Linked, ObjectOf, Node
<1> QED BY <1>1, <1>2, <1>3, CellsAssumption

\* A list begins with objects that have nodes, and without a connection.
LEMMA BeginIsSound ==
  ASSUME ObjectsInv, NEW kind \in {"field", "bank", "index"}, NEW refs \in Seq(Cells),
         \A i \in 1..Len(refs) : refs[i] \in Live(store) /\ store.cells[refs[i]].node # Nil,
         BeginFields(kind, refs)
  PROVE  ObjectsInv' /\ Final
<1>1. /\ store' = store /\ pass' = pass /\ held' = held /\ failed' = failed
      /\ fields' = [kind |-> kind, refs |-> refs, conn |-> Nil] /\ fields = NoFields
  BY DEF BeginFields, Idle
<1>2. fields' \in FieldLists
  BY <1>1 DEF FieldLists, Refs
<1>3. \A c : Others(c)' = Others(c)
  BY <1>1 DEF Others, NoFields
<1>4. Final
  BY <1>1 DEF Final, ObjectOf, Node
<1>5. (\A c \in Cells : /\ Surplus(store, c) >= Others(c)
                        /\ ~failed /\ ~store.lost => Surplus(store, c) = Others(c))'
  BY <1>1, <1>3 DEF ObjectsInv
<1>6. Steady(store, fields.refs)'
  BY <1>1 DEF Steady
<1> QED BY <1>1, <1>2, <1>4, <1>5, <1>6 DEF ObjectsInv

\* The three kinds of lists begin so.
LEMMA ListsAreSound ==
  ASSUME ObjectsInv, NEW n \in Names, NEW m \in Names,
         FieldList(n) \/ BankFieldList(n, m) \/ IndexFieldList(n, m)
  PROVE  ObjectsInv' /\ Final
<1>1. {"region"} \in SUBSET Types /\ Fields \in SUBSET Types
  BY DEF Types
<1>2. CASE FieldList(n)
  <2>1. ObjectOf(n) \in Live(store) /\ ObjectOf(n) \in Cells /\ store.cells[ObjectOf(n)].node # Nil
    BY <1>1, <1>2, NamedIsSteady DEF FieldList
  <2>2. PICK refs : refs = <<ObjectOf(n)>>
    OBVIOUS
  <2>3. /\ refs \in Seq(Cells) /\ BeginFields("field", refs)
        /\ \A i \in 1..Len(refs) : refs[i] \in Live(store) /\ store.cells[refs[i]].node # Nil
    BY <1>2, <2>1, <2>2 DEF FieldList
  <2> QED BY <2>3, BeginIsSound
<1>3. ASSUME NEW kind \in {"bank", "index"},
             ObjectOf(n) \in Live(store), ObjectOf(n) \in Cells, store.cells[ObjectOf(n)].node # Nil,
             ObjectOf(m) \in Live(store), ObjectOf(m) \in Cells, store.cells[ObjectOf(m)].node # Nil,
             BeginFields(kind, <<ObjectOf(n), ObjectOf(m)>>)
      PROVE  ObjectsInv' /\ Final
  <2>1. PICK refs : refs = <<ObjectOf(n), ObjectOf(m)>>
    OBVIOUS
  <2>2. /\ refs \in Seq(Cells) /\ BeginFields(kind, refs) /\ kind \in {"field", "bank", "index"}
        /\ \A i \in 1..Len(refs) : refs[i] \in Live(store) /\ store.cells[refs[i]].node # Nil
    BY <1>3, <2>1
  <2> QED BY <2>2, BeginIsSound
<1>4. CASE BankFieldList(n, m)
  <2>1. /\ ObjectOf(n) \in Live(store) /\ ObjectOf(n) \in Cells /\ store.cells[ObjectOf(n)].node # Nil
        /\ ObjectOf(m) \in Live(store) /\ ObjectOf(m) \in Cells /\ store.cells[ObjectOf(m)].node # Nil
    BY <1>1, <1>4, NamedIsSteady DEF BankFieldList
  <2> QED BY <1>3, <1>4, <2>1 DEF BankFieldList
<1>5. CASE IndexFieldList(n, m)
  <2>1. /\ ObjectOf(n) \in Live(store) /\ ObjectOf(n) \in Cells /\ store.cells[ObjectOf(n)].node # Nil
        /\ ObjectOf(m) \in Live(store) /\ ObjectOf(m) \in Cells /\ store.cells[ObjectOf(m)].node # Nil
    BY <1>1, <1>5, NamedIsSteady DEF IndexFieldList
  <2> QED BY <1>3, <1>5, <2>1 DEF IndexFieldList
<1> QED BY <1>2, <1>4, <1>5

\* A list ends, well or not; its connection is left behind by the latter.
LEMMA EndIsSound ==
  ASSUME ObjectsInv, EndFields
  PROVE  ObjectsInv' /\ Final
<1>1. PICK t, c : t = Release(store, c) /\ c = fields.conn
  OBVIOUS
<1>2. /\ store' = t /\ pass' = pass /\ held' = held /\ failed' = failed /\ fields' = NoFields
  BY <1>1 DEF EndFields
<1>3. c \in Refs
  BY <1>1 DEF ObjectsInv, FieldLists, NoFields, Refs
<1>4. c # Nil => Surplus(store, c) >= 1
  <2>1. ASSUME c # Nil PROVE Surplus(store, c) >= 1
    <3>1. c \in Cells
      BY <2>1, <1>3 DEF Refs
    <3> QED BY <3>1, <1>1, StoreIsSound
  <2> QED BY <2>1
<1>5. /\ Grown(store, t)
      /\ \A d \in Cells :
           /\ Surplus(t, d) >= Surplus(store, d) - (IF d = c THEN 1 ELSE 0)
           /\ ~t.lost => Surplus(t, d) = Surplus(store, d) - (IF d = c THEN 1 ELSE 0)
  BY <1>1, <1>3, <1>4, StoreIsSound, ReleaseIsGrown
<1>6. \A d \in Cells : Others(d)' = Others(d) - (IF d = c THEN 1 ELSE 0)
  BY <1>1, <1>2, CellsAssumption DEF Others, NoFields
<1>7. Final
  BY <1>2, <1>5 DEF Final, Grown, Kept, ObjectOf, Node
<1>8. \A d \in Cells : /\ Surplus(t, d) >= Others(d)'
                       /\ ~failed /\ ~t.lost => Surplus(t, d) = Others(d)'
  <2> SUFFICES ASSUME NEW d \in Cells
               PROVE  /\ Surplus(t, d) >= Others(d)'
                      /\ ~failed /\ ~t.lost => Surplus(t, d) = Others(d)'
    OBVIOUS
  <2>1. /\ Surplus(store, d) >= Others(d)
        /\ ~failed /\ ~store.lost => Surplus(store, d) = Others(d)
    BY DEF ObjectsInv
  <2>2. Surplus(store, d) \in Int /\ Others(d) \in Nat /\ Surplus(t, d) \in Int
    BY <1>5, StoreIsSound, SurplusIsInteger DEF Grown, Shape
  <2> QED BY <2>1, <2>2, <1>5, <1>6 DEF Grown
<1>9. (\A d \in Cells : /\ Surplus(store, d) >= Others(d)
                        /\ ~failed /\ ~store.lost => Surplus(store, d) = Others(d))'
  BY <1>2, <1>8
<1>10. Steady(store, fields.refs)' /\ fields' \in FieldLists
  <2>1. Len(fields'.refs) = 0
    BY <1>2 DEF NoFields
  <2> QED BY <2>1, <1>2 DEF Steady, FieldLists
<1> QED BY <1>2, <1>5, <1>7, <1>9, <1>10 DEF ObjectsInv, Grown

\* A list that fails leaves its connection behind, if it has one.
LEMMA ListFailsIsSound ==
  ASSUME ObjectsInv, NEW t, ListFails(t), Grown(store, t),
         \A d \in Cells : /\ Surplus(t, d) >= Surplus(store, d)
                          /\ ~t.lost => Surplus(t, d) = Surplus(store, d)
  PROVE  ObjectsInv' /\ Final
<1>1. /\ store' = t /\ pass' = pass /\ held' = held /\ fields' = NoFields
      /\ failed' = (failed \/ fields.conn # Nil)
  BY DEF ListFails
<1>2. \A d \in Cells : /\ Others(d)' \in Nat /\ Others(d) >= Others(d)'
                       /\ fields.conn = Nil => Others(d) = Others(d)'
  BY <1>1, CellsAssumption DEF Others, NoFields
<1>3. Final
  BY <1>1 DEF Final, Grown, Kept, ObjectOf, Node
<1>4. \A d \in Cells : /\ Surplus(t, d) >= Others(d)'
                       /\ ~failed' /\ ~t.lost => Surplus(t, d) = Others(d)'
  <2> SUFFICES ASSUME NEW d \in Cells
               PROVE  /\ Surplus(t, d) >= Others(d)'
                      /\ ~failed' /\ ~t.lost => Surplus(t, d) = Others(d)'
    OBVIOUS
  <2>1. /\ Surplus(store, d) >= Others(d)
        /\ ~failed /\ ~store.lost => Surplus(store, d) = Others(d)
    BY DEF ObjectsInv
  <2>2. Surplus(store, d) \in Int /\ Others(d) \in Nat /\ Surplus(t, d) \in Int
    BY StoreIsSound, SurplusIsInteger DEF Grown, Shape
  <2>3. ~failed' => ~failed /\ fields.conn = Nil
    BY <1>1
  <2> QED BY <2>1, <2>2, <2>3, <1>2 DEF Grown
<1>5. (\A d \in Cells : /\ Surplus(store, d) >= Others(d)
                        /\ ~failed /\ ~store.lost => Surplus(store, d) = Others(d))'
  BY <1>1, <1>4
<1>6. Steady(store, fields.refs)' /\ fields' \in FieldLists
  <2>1. Len(fields'.refs) = 0
    BY <1>1 DEF NoFields
  <2> QED BY <2>1, <1>1 DEF Steady, FieldLists
<1> QED BY <1>1, <1>3, <1>5, <1>6 DEF ObjectsInv, Grown

\* It may fail before an element has begun.
LEMMA BrokenIsSound ==
  ASSUME ObjectsInv, BrokenElement
  PROVE  ObjectsInv' /\ Final
<1>1. Grown(store, store) /\ \A d \in Cells : Surplus(store, d) >= Surplus(store, d)
  BY StoreIsSound DEF Grown, Kept
<1> QED BY <1>1, ListFailsIsSound DEF BrokenElement

\* An object with references of its own leaves the counts of all else to their
\* holders.
LEMMA HasReferences ==
  ASSUME NEW s, Shape(s, {}), HasRoom(s, 1) \/ HasRoom(s, 2),
         NEW type \in Types \ {"mutex", "event"}, NEW refs \in Seq(Live(s) \cup {Nil}),
         NEW u, u = Create(s, type, refs), NEW c, c = Fresh(s)
  PROVE  LET t == ReferenceAll(u, refs)
         IN /\ Has(s, t, c) /\ c \in Live(t) /\ t.cells[c].node = Nil
            /\ \A d \in Live(s) : d # c /\ d \in Live(t) /\ t.cells[d].node = s.cells[d].node
<1>1. PICK t : t = ReferenceAll(u, refs)
  OBVIOUS
<1>2. /\ Created(s, u, c, type, refs) /\ Shape(u, {})
      /\ \A d \in Cells : Surplus(u, d) = IF d = c THEN 1 ELSE Surplus(s, d) - Times(d, refs)
  BY CreateIsSound
<1>3. Grown(s, u)
  BY <1>2, CreatedIsGrown
<1>4. refs \in Seq(Live(u) \cup {Nil})
  BY <1>2 DEF Created
<1>5. /\ SameButCounts(u, t) /\ Shape(t, {})
      /\ \A d \in Cells : Surplus(t, d) = Surplus(u, d) + Times(d, refs)
  BY <1>1, <1>2, <1>4, ReferenceAllIsSound
<1>6. Grown(s, t)
  <2>1. Grown(u, t)
    BY <1>5, SameIsGrown
  <2> QED BY <2>1, <1>3, GrownAndGrown
<1>7. ASSUME NEW d \in Cells
      PROVE  Surplus(t, d) = Surplus(s, d) + (IF d = c THEN 1 ELSE 0)
  <2>1. Surplus(s, d) \in Int /\ Times(d, refs) \in Nat
    BY SurplusIsInteger, TimesIsNatural DEF Shape
  <2>2. d = c => Surplus(s, d) = 0
    BY <1>2 DEF Created, Surplus
  <2>3. d = c => Times(d, refs) = 0
    <3>1. ASSUME d = c PROVE \A i \in 1..Len(refs) : refs[i] # d
      BY <3>1, <1>2, CellsAssumption DEF Created
    <3> QED BY <3>1, TimesZero
  <2> QED BY <2>1, <2>2, <2>3, <1>2, <1>5
<1>8. Has(s, t, c)
  BY <1>2, <1>5, <1>6, <1>7 DEF Has, Created, SameButCounts
<1> QED BY <1>1, <1>2, <1>5, <1>8 DEF Created, SameButCounts

\* What the elements of a list refer to exists.
LEMMA ElementReferences ==
  ASSUME ObjectsInv, ~Idle
  PROVE  /\ fields.kind \in Types \ {"mutex", "event"}
         /\ fields.refs \o <<fields.conn>> \in Seq(Live(store) \cup {Nil})
<1>1. fields.kind \in {"field", "bank", "index"} /\ fields.refs \in Seq(Cells) /\ fields.conn \in Refs
  BY DEF ObjectsInv, FieldLists, Idle
<1>2. fields.kind \in Types \ {"mutex", "event"}
  BY <1>1 DEF Types, Fields
<1>3. fields.refs \in Seq(Live(store) \cup {Nil})
  BY <1>1 DEF ObjectsInv, Steady
<1>4. fields.conn \in Live(store) \cup {Nil}
  <2>1. ASSUME fields.conn \in Cells PROVE fields.conn \in Live(store)
    <3>1. Surplus(store, fields.conn) >= 1
      BY <2>1, StoreIsSound
    <3> QED BY <3>1 DEF Surplus
  <2> QED BY <2>1, <1>1 DEF Refs
<1>5. <<fields.conn>> \in Seq(Live(store) \cup {Nil})
  BY <1>4
<1> QED BY <1>2, <1>3, <1>5

\* A named element refers to all that the list is about, or the list fails.
LEMMA ElementIsSound ==
  ASSUME ObjectsInv, NEW n \in Names, NamedElement(n)
  PROVE  ObjectsInv' /\ Final
<1>1. ~Idle /\ HasRoom(store, 1)
  BY DEF NamedElement
<1>2. PICK kind, refs : kind = fields.kind /\ refs = fields.refs \o <<fields.conn>>
  OBVIOUS
<1>3. PICK u, s, c : /\ u = Create(store, kind, refs) /\ s = ReferenceAll(u, refs)
                     /\ c = Fresh(store)
  OBVIOUS
<1>4. /\ Has(store, s, c) /\ c \in Live(s) /\ s.cells[c].node = Nil
      /\ \A d \in Live(store) : d # c /\ d \in Live(s) /\ s.cells[d].node = store.cells[d].node
  <2>1. kind \in Types \ {"mutex", "event"} /\ refs \in Seq(Live(store) \cup {Nil})
    BY <1>1, <1>2, ElementReferences
  <2>2. HasRoom(store, 1) \/ HasRoom(store, 2)
    BY <1>1
  <2>3. Shape(store, {})
    BY StoreIsSound
  <2> QED BY <2>1, <2>2, <2>3, <1>3, HasReferences
<1>5. Shape(s, {}) /\ Grown(store, s) /\ c \in Cells
  BY <1>4, StoreCells DEF Has, Grown, Shape
<1>6. CASE ListFails(Release(s, c))
  <2>1. PICK t : t = Release(s, c)
    OBVIOUS
  <2>2. /\ Grown(s, t)
        /\ \A d \in Cells : /\ Surplus(t, d) >= Surplus(store, d)
                            /\ ~t.lost => Surplus(t, d) = Surplus(store, d)
    BY <1>4, <1>5, <2>1, GivenBack DEF Has
  <2>3. Grown(store, t)
    BY <1>5, <2>2, GrownAndGrown
  <2> QED BY <1>6, <2>1, <2>2, <2>3, ListFailsIsSound
<1>7. CASE /\ ~Node(n).in /\ store' = Link(NewNode(s, n), n, c)
           /\ UNCHANGED <<pass, fields, held, failed>>
  <2>1. PICK t : t = Link(NewNode(s, n), n, c)
    OBVIOUS
  <2>2. /\ Grown(s, t)
        /\ \A d \in Live(s) : d # c /\ s.cells[d].node # Nil
             => d \in Live(t) /\ t.cells[d].node = s.cells[d].node
        /\ \A d \in Cells : Surplus(t, d) = Surplus(s, d) - (IF d = c THEN 1 ELSE 0)
    <3>1. ~s.nodes[n].in
      BY <1>4, <1>7 DEF Has, Node
    <3> QED BY <3>1, <1>4, <1>5, <2>1, NodeForObject
  <2>3. Grown(store, t)
    BY <1>5, <2>2, GrownAndGrown
  <2>4. \A d \in Cells : Surplus(t, d) = Surplus(store, d)
    BY <1>4, <2>2, StoreIsSound DEF Has
  <2>5. store' = t /\ pass' = pass /\ fields' = fields /\ held' = held /\ failed' = failed
    BY <1>7, <2>1
  <2>6. \A d : Others(d)' = Others(d)
    BY <2>5 DEF Others
  <2>7. (\A d \in Cells : /\ Surplus(store, d) >= Others(d)
                          /\ ~failed /\ ~store.lost => Surplus(store, d) = Others(d))'
    BY <2>3, <2>4, <2>5, <2>6 DEF ObjectsInv, Grown
  <2>8. Steady(store, fields.refs)'
    BY <1>4, <2>2, <2>5 DEF ObjectsInv, Steady
  <2>9. Final
    BY <2>3, <2>5 DEF Final, Grown, Kept, ObjectOf, Node
  <2> QED BY <2>3, <2>5, <2>7, <2>8, <2>9 DEF ObjectsInv, Grown
<1> QED BY <1>2, <1>3, <1>6, <1>7 DEF NamedElement

\* The connection that is replaced gives its reference back; the new one has one.
LEMMA ConnectionIsSound ==
  ASSUME ObjectsInv, Connection
  PROVE  ObjectsInv' /\ Final
<1>1. PICK u, e : /\ Has(store, u, e) /\ e \in Cells /\ ~Idle
                  /\ \A d \in Live(store) : d \in Live(u) /\ (store.cells[d].node # Nil
                       => u.cells[d].node # Nil)
                  /\ store' = Release(u, fields.conn) /\ fields' = [fields EXCEPT !.conn = e]
                  /\ UNCHANGED <<pass, held, failed>>
  <2>1. ASSUME NEW c \in OfType(store, {"buffer"}),
               store' = Release(Duplicate(store, c), fields.conn),
               fields' = [fields EXCEPT !.conn = c]
        PROVE  \E u, e : /\ Has(store, u, e) /\ e \in Cells /\ ~Idle
                         /\ \A d \in Live(store) : d \in Live(u) /\ (store.cells[d].node # Nil
                              => u.cells[d].node # Nil)
                         /\ store' = Release(u, fields.conn) /\ fields' = [fields EXCEPT !.conn = e]
                         /\ UNCHANGED <<pass, held, failed>>
    <3>1. PICK u : u = Duplicate(store, c)
      OBVIOUS
    <3>2. c \in Live(store) /\ c \in Cells /\ Shape(store, {})
      BY StoreIsSound DEF OfType
    <3>3. Has(store, u, c)
      BY <3>1, <3>2, HasCopy
    <3>4. SameButCounts(store, u)
      BY <3>1, <3>2, ReferenceIsSound DEF Duplicate
    <3> QED BY <3>1, <3>2, <3>3, <3>4, <2>1 DEF SameButCounts, Connection
  <2>2. ASSUME HasRoom(store, 1), store' = Release(NewBuffer(store), fields.conn),
               fields' = [fields EXCEPT !.conn = Fresh(store)]
        PROVE  \E u, e : /\ Has(store, u, e) /\ e \in Cells /\ ~Idle
                         /\ \A d \in Live(store) : d \in Live(u) /\ (store.cells[d].node # Nil
                              => u.cells[d].node # Nil)
                         /\ store' = Release(u, fields.conn) /\ fields' = [fields EXCEPT !.conn = e]
                         /\ UNCHANGED <<pass, held, failed>>
    <3>1. PICK refs : refs = <<>>
      OBVIOUS
    <3>2. PICK u, e : u = Create(store, "buffer", refs) /\ e = Fresh(store)
      OBVIOUS
    <3>3. Shape(store, {}) /\ "buffer" \in Types /\ "buffer" \in Types \ {"mutex", "event"}
      BY StoreIsSound DEF Types
    <3>4. HasRoom(store, 1) \/ HasRoom(store, 2)
      BY <2>2
    <3>5. refs \in Seq(Live(store) \cup {Nil})
      BY <3>1
    <3>6. Created(store, u, e, "buffer", refs)
      BY <3>2, <3>3, <3>4, <3>5, CreateIsSound, Zenon
    <3>7. Made(store, store, u, e)
      BY <3>1, <3>2, <3>3, <3>4, HasNewObject
    <3> QED BY <3>1, <3>2, <3>6, <3>7, <2>2 DEF Made, Created, NewBuffer, Connection
  <2> QED BY <2>1, <2>2 DEF Connection
<1>2. PICK t, c : t = Release(u, c) /\ c = fields.conn
  OBVIOUS
<1>3. /\ store' = t /\ pass' = pass /\ held' = held /\ failed' = failed
      /\ fields' = [fields EXCEPT !.conn = e]
  BY <1>1, <1>2
<1>4. c \in Refs /\ fields' \in FieldLists /\ fields'.conn = e /\ fields'.refs = fields.refs
  <2>1. fields \in [kind : {"field", "bank", "index"}, refs : Seq(Cells), conn : Refs]
    BY <1>1 DEF ObjectsInv, FieldLists, Idle
  <2> QED BY <2>1, <1>1, <1>2, <1>3 DEF FieldLists, Refs
<1>5. \A d \in Cells : /\ Surplus(store, d) \in Int /\ Surplus(store, d) >= 0
                       /\ Others(d) \in Nat /\ Surplus(store, d) >= Others(d)
                       /\ d = c => Others(d) >= 1
                       /\ Surplus(u, d) = Surplus(store, d) + (IF d = e THEN 1 ELSE 0)
  BY <1>1, <1>2, StoreIsSound DEF Has
<1>6. (c # Nil => Surplus(u, c) >= 1) /\ \A d \in Cells : Surplus(u, d) >= 0
  <2>1. \A d \in Cells : Surplus(u, d) >= 0 /\ (d = c => Surplus(u, d) >= 1)
    BY <1>5
  <2> QED BY <2>1, <1>4 DEF Refs
<1>7. Shape(u, {}) /\ Grown(store, u)
  BY <1>1 DEF Has, Grown
<1>8. /\ Grown(u, t) /\ Later(u, t)
      /\ \A d \in Cells :
           /\ Surplus(t, d) >= Surplus(u, d) - (IF d = c THEN 1 ELSE 0)
           /\ ~t.lost => Surplus(t, d) = Surplus(u, d) - (IF d = c THEN 1 ELSE 0)
  BY <1>2, <1>4, <1>6, <1>7, ReleaseIsGrown
<1>9. Grown(store, t)
  BY <1>7, <1>8, GrownAndGrown
<1>10. \A d \in Cells :
         Others(d)' = Others(d) + (IF d = e THEN 1 ELSE 0) - (IF d = c THEN 1 ELSE 0)
  BY <1>2, <1>3, <1>4 DEF Others
<1>11. Final
  BY <1>3, <1>9 DEF Final, Grown, Kept, ObjectOf, Node
<1>12. \A d \in Cells : /\ Surplus(t, d) >= Others(d)'
                        /\ ~failed /\ ~t.lost => Surplus(t, d) = Others(d)'
  <2> SUFFICES ASSUME NEW d \in Cells
               PROVE  /\ Surplus(t, d) >= Others(d)'
                      /\ ~failed /\ ~t.lost => Surplus(t, d) = Others(d)'
    OBVIOUS
  <2>1. ~failed /\ ~store.lost => Surplus(store, d) = Others(d)
    BY DEF ObjectsInv
  <2>2. Surplus(t, d) \in Int
    BY <1>9, SurplusIsInteger DEF Grown, Shape
  <2>3. ~t.lost => ~store.lost
    BY <1>9 DEF Grown
  <2> QED BY <2>1, <2>2, <2>3, <1>5, <1>8, <1>10
<1>13. (\A d \in Cells : /\ Surplus(store, d) >= Others(d)
                         /\ ~failed /\ ~store.lost => Surplus(store, d) = Others(d))'
  BY <1>3, <1>12
<1>14. Steady(store, fields.refs)'
  <2>1. \A d \in Live(store) : store.cells[d].node # Nil => d \in Live(t) /\ t.cells[d].node # Nil
    BY <1>1, <1>8 DEF Later
  <2> QED BY <2>1, <1>3, <1>4 DEF ObjectsInv, Steady
<1> QED BY <1>3, <1>4, <1>9, <1>11, <1>13, <1>14 DEF ObjectsInv, Grown

-----------------------------------------------------------------------------
(* The rest of the evaluator. *)

\* A name that is resolved has an object, and the evaluator counts its reference.
LEMMA ResolveIsSound ==
  ASSUME ObjectsInv, NEW n \in Names, Resolve(n)
  PROVE  ObjectsInv' /\ Final
<1>1. PICK c : c = ObjectOf(n)
  OBVIOUS
<1>2. PICK t : t = Reference(store, c)
  OBVIOUS
<1>3. /\ store' = t /\ pass' = pass /\ fields' = fields /\ failed' = failed
      /\ held' = held \cup {c} /\ fields = NoFields /\ c \notin held /\ c # Nil
  BY <1>1, <1>2 DEF Resolve, Idle
<1>4. c \in Live(store) /\ c \in Cells /\ Shape(store, {})
  BY <1>1, <1>3, StoreIsSound DEF Shape, Linked, ObjectOf, Node
<1>5. /\ SameButCounts(store, t) /\ Shape(t, {})
      /\ \A d \in Cells : Surplus(t, d) = Surplus(store, d) + (IF d = c THEN 1 ELSE 0)
  BY <1>2, <1>4, ReferenceIsSound
<1>6. Grown(store, t)
  BY <1>5, SameIsGrown
<1>7. \A d \in Cells : Others(d)' = Others(d) + (IF d = c THEN 1 ELSE 0)
  BY <1>3 DEF Others
<1>8. Final
  BY <1>3, <1>6 DEF Final, Grown, Kept, ObjectOf, Node
<1>9. \A d \in Cells : /\ Surplus(t, d) >= Others(d)'
                       /\ ~failed /\ ~t.lost => Surplus(t, d) = Others(d)'
  <2> SUFFICES ASSUME NEW d \in Cells
               PROVE  /\ Surplus(t, d) >= Others(d)'
                      /\ ~failed /\ ~t.lost => Surplus(t, d) = Others(d)'
    OBVIOUS
  <2>1. /\ Surplus(store, d) >= Others(d)
        /\ ~failed /\ ~store.lost => Surplus(store, d) = Others(d)
    BY DEF ObjectsInv
  <2>2. Surplus(store, d) \in Int /\ Others(d) \in Nat /\ (~t.lost => ~store.lost)
    BY <1>6, StoreIsSound DEF Grown
  <2> QED BY <2>1, <2>2, <1>5, <1>7
<1>10. (\A d \in Cells : /\ Surplus(store, d) >= Others(d)
                         /\ ~failed /\ ~store.lost => Surplus(store, d) = Others(d))'
  BY <1>3, <1>9
<1>11. Steady(store, fields.refs)'
  <2>1. Len(fields'.refs) = 0
    BY <1>3 DEF NoFields
  <2> QED BY <2>1 DEF Steady
<1>12. held' \in SUBSET Cells
  BY <1>3, <1>4 DEF ObjectsInv
<1> QED BY <1>3, <1>6, <1>8, <1>10, <1>11, <1>12 DEF ObjectsInv, Grown

\* What the evaluator gives back is its own reference.
LEMMA DropIsSound ==
  ASSUME ObjectsInv, NEW c \in Cells, Drop(c)
  PROVE  ObjectsInv' /\ Final
<1>1. PICK t : t = Release(store, c)
  OBVIOUS
<1>2. /\ store' = t /\ pass' = pass /\ fields' = fields /\ failed' = failed
      /\ held' = held \ {c} /\ fields = NoFields /\ c \in held
  BY <1>1 DEF Drop, Idle
<1>3. c \in Refs /\ Surplus(store, c) >= 1 /\ Shape(store, {})
      /\ \A d \in Cells : Surplus(store, d) >= 0
  BY <1>2, StoreIsSound DEF Refs
<1>4. /\ Grown(store, t)
      /\ \A d \in Cells :
           /\ Surplus(t, d) >= Surplus(store, d) - (IF d = c THEN 1 ELSE 0)
           /\ ~t.lost => Surplus(t, d) = Surplus(store, d) - (IF d = c THEN 1 ELSE 0)
  BY <1>1, <1>3, ReleaseIsGrown
<1>5. \A d \in Cells : Others(d)' = Others(d) - (IF d = c THEN 1 ELSE 0)
  BY <1>2 DEF Others
<1>6. Final
  BY <1>2, <1>4 DEF Final, Grown, Kept, ObjectOf, Node
<1>7. \A d \in Cells : /\ Surplus(t, d) >= Others(d)'
                       /\ ~failed /\ ~t.lost => Surplus(t, d) = Others(d)'
  <2> SUFFICES ASSUME NEW d \in Cells
               PROVE  /\ Surplus(t, d) >= Others(d)'
                      /\ ~failed /\ ~t.lost => Surplus(t, d) = Others(d)'
    OBVIOUS
  <2>1. /\ Surplus(store, d) >= Others(d)
        /\ ~failed /\ ~store.lost => Surplus(store, d) = Others(d)
    BY DEF ObjectsInv
  <2>2. Surplus(store, d) \in Int /\ Others(d) \in Nat /\ Surplus(t, d) \in Int
    BY <1>4, StoreIsSound, SurplusIsInteger DEF Grown, Shape
  <2> QED BY <2>1, <2>2, <1>4, <1>5 DEF Grown
<1>8. (\A d \in Cells : /\ Surplus(store, d) >= Others(d)
                        /\ ~failed /\ ~store.lost => Surplus(store, d) = Others(d))'
  BY <1>2, <1>7
<1>9. Steady(store, fields.refs)'
  <2>1. Len(fields'.refs) = 0
    BY <1>2 DEF NoFields
  <2> QED BY <2>1 DEF Steady
<1>10. held' \in SUBSET Cells
  BY <1>2 DEF ObjectsInv
<1> QED BY <1>2, <1>4, <1>6, <1>8, <1>9, <1>10 DEF ObjectsInv, Grown

\* The two steps of ReleaseNode around the release.
Cut(s, c) == IF c = Nil THEN s ELSE [s EXCEPT !.cells[c].node = Nil]
Without(s, n) == [s EXCEPT !.nodes[n] = NoNode]

\* A node is cut off from its object, which has its reference to spare.
LEMMA CutIsSound ==
  ASSUME NEW s, Shape(s, {}), NEW n \in Names, NEW c, c = s.nodes[n].object,
         NEW t, t = Cut(s, c)
  PROVE  /\ Shape(t, {n}) /\ t.nodes = s.nodes /\ t.misfreed = s.misfreed /\ t.lost = s.lost
         /\ c \in Live(s) \cup {Nil} /\ Live(t) = Live(s)
         /\ \A d \in Live(s) : t.cells[d].type = s.cells[d].type /\ t.cells[d].open = s.cells[d].open
         /\ \A d \in Live(s) \ {c} : t.cells[d].node = s.cells[d].node
         /\ \A d \in Cells : Surplus(t, d) = Surplus(s, d) + (IF d = c THEN 1 ELSE 0)
<1>1. /\ s \in Stores /\ s.nodes \in [Names -> NodeRecords] /\ Live(s) \in SUBSET Cells
      /\ s.cells \in [Live(s) -> CellRecords] /\ n # Nil /\ Linked(s, {})
  BY StoreCells, CellsAssumption DEF Shape, Stores
<1>2. c # Nil => c \in Live(s) /\ s.cells[c].node = n
  BY <1>1 DEF Linked
<1>3. \A d \in Live(s) \ {c} : s.cells[d].node # n
  BY <1>1, CellsAssumption DEF Linked
<1>4. CASE c = Nil
  <2>1. t = s
    BY <1>4 DEF Cut
  <2>2. Linked(s, {n})
    <3>1. \A d \in Live(s) : s.cells[d].node # n
      BY <1>1, <1>3, <1>4, CellsAssumption
    <3> QED BY <3>1, <1>1 DEF Linked
  <2>3. \A d \in Cells : d # c /\ Surplus(s, d) \in Int
    BY <1>1, <1>4, SurplusIsInteger, CellsAssumption
  <2> QED BY <1>4, <2>1, <2>2, <2>3 DEF Shape
<1>5. CASE c # Nil
  <2>1. c \in Live(s) /\ s.cells[c].node = n /\ c \in Cells
    BY <1>1, <1>2, <1>5
  <2>2. PICK cells : cells = [s.cells EXCEPT ![c].node = Nil]
    OBVIOUS
  <2>3. t = [s EXCEPT !.cells = cells]
    BY <1>5, <2>2 DEF Cut
  <2>4. /\ cells \in [Live(s) -> CellRecords] /\ cells[c].node = Nil
        /\ \A d \in Live(s) \ {c} : cells[d] = s.cells[d]
        /\ cells[c].type = s.cells[c].type /\ cells[c].open = s.cells[c].open
        /\ cells[c].refs = s.cells[c].refs /\ cells[c].count = s.cells[c].count
    BY <1>1, <2>1, <2>2 DEF CellRecords
  <2>5. /\ t.cells = cells /\ t.opened = s.opened /\ t.dangled = s.dangled /\ t.nodes = s.nodes
        /\ t.misfreed = s.misfreed /\ t.lost = s.lost /\ t \in Stores
    BY <1>1, <2>3, <2>4 DEF Stores
  <2>6. Live(t) = Live(s)
    BY <2>4, <2>5 DEF Live
  <2>7. \A d \in Live(s) : /\ t.cells[d].type = s.cells[d].type /\ t.cells[d].open = s.cells[d].open
                           /\ t.cells[d].refs = s.cells[d].refs /\ t.cells[d].count = s.cells[d].count
                           /\ t.cells[d].node = IF d = c THEN Nil ELSE s.cells[d].node
    BY <2>4, <2>5
  <2>8. Linked(t, {n})
    <3>1. \A m \in Names \ {n} : s.nodes[m].object # c
      BY <2>1, <1>1, <1>5 DEF Linked
    <3>2. \A m \in Names : ~t.nodes[m].in => t.nodes[m] = NoNode
      BY <1>1, <2>5 DEF Linked
    <3>3. \A m \in Names \ {n} : t.nodes[m].object # Nil
             => t.nodes[m].object \in Live(t) /\ t.cells[t.nodes[m].object].node = m
      BY <3>1, <1>1, <2>5, <2>6, <2>7, SMTT(60) DEF Linked
    <3>4. \A d \in Live(t) : t.cells[d].node # Nil
             => t.cells[d].node \in Names \ {n} /\ t.nodes[t.cells[d].node].object = d
      BY <1>1, <1>3, <2>5, <2>6, <2>7, SMTT(60) DEF Linked
    <3> QED BY <3>2, <3>3, <3>4 DEF Linked
  <2>9. Shape(t, {n})
    <3>1. Opened(t) = Opened(s)
      BY <2>6, <2>7, SMTT(60) DEF Opened
    <3> QED BY <3>1, <2>5, <2>6, <2>7, <2>8 DEF Shape
  <2>10. ASSUME NEW d \in Cells
         PROVE  Surplus(t, d) = Surplus(s, d) + (IF d = c THEN 1 ELSE 0)
    <3>1. \A e : RefsOf(t, e) = RefsOf(s, e)
      BY <2>6, <2>7 DEF RefsOf
    <3>2. Inner(t, d) = Inner(s, d) /\ Inner(s, d) \in Nat
      BY <3>1, <1>1, InnerIsNatural DEF Inner, Terms
    <3>3. d \in Live(s) => s.cells[d].count \in Nat
      BY <1>1 DEF CellRecords
    <3>4. d \in Live(t) <=> d \in Live(s)
      BY <2>6
    <3>5. CASE d \notin Live(s)
      BY <3>4, <3>5, <2>1, <2>6 DEF Surplus
    <3>6. CASE d \in Live(s)
      <4>1. PICK k \in Nat, m \in Nat : k = s.cells[d].count /\ m = Inner(s, d)
        BY <3>2, <3>3, <3>6
      <4>2. /\ Surplus(s, d) = k - (IF s.cells[d].node = Nil THEN 0 ELSE 1) - m
            /\ Surplus(t, d) = k - (IF t.cells[d].node = Nil THEN 0 ELSE 1) - m
        BY <3>2, <3>4, <3>6, <4>1, <2>7 DEF Surplus
      <4>3. CASE d = c
        <5>1. s.cells[d].node # Nil /\ t.cells[d].node = Nil
          BY <1>1, <2>1, <2>7, <3>6, <4>3
        <5>2. Surplus(s, d) = k - 1 - m /\ Surplus(t, d) = k - 0 - m
          BY <4>2, <5>1
        <5> QED BY ONLY <4>1, <4>3, <5>2
      <4>4. CASE d # c
        <5>1. t.cells[d].node = s.cells[d].node
          BY <2>7, <3>6, <4>4
        <5>2. PICK i \in Int : i = k - (IF s.cells[d].node = Nil THEN 0 ELSE 1) - m
          BY <4>1
        <5>3. Surplus(t, d) = i /\ Surplus(s, d) = i /\ i + 0 = i
          BY <4>2, <5>1, <5>2
        <5> QED BY <4>4, <5>3
      <4> QED BY <4>3, <4>4
    <3> QED BY <3>5, <3>6
  <2> QED BY <2>1, <2>5, <2>6, <2>7, <2>9, <2>10
<1> QED BY <1>4, <1>5

\* The node itself goes last.
LEMMA NodeGoes ==
  ASSUME NEW s, NEW n \in Names, Shape(s, {n}), NEW t, t = Without(s, n)
  PROVE  /\ Shape(t, {}) /\ t.cells = s.cells /\ t.misfreed = s.misfreed /\ t.lost = s.lost
         /\ ~t.nodes[n].in /\ \A m \in Names \ {n} : t.nodes[m] = s.nodes[m]
         /\ \A d : Surplus(t, d) = Surplus(s, d)
<1>1. s \in Stores /\ s.nodes \in [Names -> NodeRecords]
  BY DEF Shape, Stores
<1>2. PICK nodes : nodes = [s.nodes EXCEPT ![n] = NoNode]
  OBVIOUS
<1>3. t = [s EXCEPT !.nodes = nodes]
  BY <1>2 DEF Without
<1>4. /\ nodes[n] = NoNode /\ \A m \in Names \ {n} : nodes[m] = s.nodes[m]
      /\ nodes \in [Names -> NodeRecords]
  BY <1>1, <1>2 DEF NodeRecords, NoNode, Refs
<1>5. /\ t.cells = s.cells /\ t.opened = s.opened /\ t.dangled = s.dangled
      /\ t.misfreed = s.misfreed /\ t.lost = s.lost /\ t.nodes = nodes /\ t \in Stores
  BY <1>1, <1>3, <1>4 DEF Stores
<1>6. Linked(t, {})
  <2>1. Linked(s, {n}) /\ Live(t) = Live(s) /\ NoNode.object = Nil
    BY <1>5 DEF Shape, Live, NoNode
  <2> QED BY <2>1, <1>4, <1>5 DEF Linked
<1>7. Shape(t, {})
  BY <1>5, <1>6 DEF Shape, Live, Opened
<1>8. \A d : Surplus(t, d) = Surplus(s, d)
  BY <1>5, SurplusOfCells DEF Live
<1>9. ~t.nodes[n].in
  BY <1>4, <1>5 DEF NoNode
<1> QED BY <1>4, <1>5, <1>7, <1>8, <1>9

\* A node gives its reference back before it goes, and what has a node stays.
LEMMA ReleaseNodeIsSound ==
  ASSUME ObjectsInv, NEW n \in Names, ReleaseNode(n)
  PROVE  ObjectsInv' /\ Final
<1>1. PICK c : c = store.nodes[n].object
  OBVIOUS
<1>2. PICK cut : cut = Cut(store, c)
  OBVIOUS
<1>3. PICK s : s = Release(cut, c)
  OBVIOUS
<1>4. PICK t : t = Without(s, n)
  OBVIOUS
<1>5. /\ store' = t /\ pass' = pass /\ fields' = fields /\ held' = held /\ failed' = failed
      /\ fields = NoFields
  BY <1>1, <1>2, <1>3, <1>4 DEF ReleaseNode, Done, Idle, ObjectOf, Node, Cut, Without
<1>6. Shape(store, {}) /\ Live(store) \in SUBSET Cells
      /\ \A d \in Cells : Surplus(store, d) \in Int /\ Surplus(store, d) >= 0
  BY StoreIsSound
<1>7. /\ Shape(cut, {n}) /\ cut.nodes = store.nodes /\ cut.misfreed = store.misfreed
      /\ cut.lost = store.lost /\ c \in Live(store) \cup {Nil} /\ Live(cut) = Live(store)
      /\ \A d \in Live(store) :
           cut.cells[d].type = store.cells[d].type /\ cut.cells[d].open = store.cells[d].open
      /\ \A d \in Live(store) \ {c} : cut.cells[d].node = store.cells[d].node
      /\ \A d \in Cells : Surplus(cut, d) = Surplus(store, d) + (IF d = c THEN 1 ELSE 0)
  <2>1. Shape(store, {})
    BY <1>6
  <2>2. n \in Names
    OBVIOUS
  <2> QED BY <2>1, <2>2, <1>1, <1>2, CutIsSound, SMTT(60)
<1>8. PICK refs : refs = <<c>>
  OBVIOUS
<1>9. s = ReleaseAll(cut, refs) /\ c \in Refs
  BY <1>3, <1>6, <1>7, <1>8 DEF Release, Refs
<1>10. refs \in Seq(Refs) /\ \A d \in Cells : Times(d, refs) = IF d = c THEN 1 ELSE 0
  BY <1>8, <1>9, TimesOne
<1>11. \A d \in Cells : Surplus(cut, d) >= Times(d, refs)
                        /\ Surplus(cut, d) - Times(d, refs) = Surplus(store, d)
  BY <1>6, <1>7, <1>10
<1>12. /\ Shape(s, {n}) /\ Later(cut, s)
       /\ \A d \in Cells : /\ Surplus(s, d) >= Surplus(cut, d) - Times(d, refs)
                           /\ ~s.lost => Surplus(s, d) = Surplus(cut, d) - Times(d, refs)
  BY <1>7, <1>9, <1>10, <1>11, ReleaseAllIsSound
<1>13. /\ Shape(t, {}) /\ t.cells = s.cells /\ t.misfreed = s.misfreed /\ t.lost = s.lost
       /\ ~t.nodes[n].in /\ \A m \in Names \ {n} : t.nodes[m] = s.nodes[m]
       /\ \A d : Surplus(t, d) = Surplus(s, d)
  <2>1. Shape(s, {n})
    BY <1>12
  <2> QED BY <2>1, <1>4, NodeGoes
<1>14. \A m \in Names \ {n} : t.nodes[m] = store.nodes[m]
  BY <1>7, <1>12, <1>13 DEF Later
<1>15. Final
  BY <1>5, <1>13, <1>14 DEF Final, ObjectOf, Node
<1>16. Tidy(store) => Tidy(t)
  <2>1. HostsOpen(store) => HostsOpen(cut) /\ HostsOpen(t)
    BY <1>7, <1>12, <1>13 DEF HostsOpen, Later, Live
  <2>2. HostsOpen(cut) => s.misfreed = cut.misfreed
    BY <1>12 DEF Later
  <2>3. Tidy(store) => \A m \in Names : t.nodes[m].in => t.nodes[m].object # Nil
    BY <1>13, <1>14 DEF Tidy
  <2> QED BY <2>1, <2>2, <2>3, <1>7, <1>13 DEF Tidy
<1>17. \A d \in Cells : /\ Surplus(t, d) >= Surplus(store, d)
                        /\ ~t.lost => Surplus(t, d) = Surplus(store, d)
  <2>1. ASSUME NEW d \in Cells
        PROVE  /\ Surplus(t, d) >= Surplus(store, d)
               /\ ~t.lost => Surplus(t, d) = Surplus(store, d)
    <3>1. Surplus(t, d) = Surplus(s, d) /\ t.lost = s.lost
      BY <1>13
    <3>2. Surplus(s, d) >= Surplus(cut, d) - Times(d, refs)
          /\ (~s.lost => Surplus(s, d) = Surplus(cut, d) - Times(d, refs))
      BY <1>12
    <3>3. Surplus(cut, d) - Times(d, refs) = Surplus(store, d)
      BY <1>11
    <3> QED BY <3>1, <3>2, <3>3
  <2> QED BY <2>1
<1>18. store.lost => t.lost
  BY <1>7, <1>12, <1>13 DEF Later
<1>19. \A d \in Cells : /\ Surplus(t, d) >= Others(d)'
                        /\ ~failed /\ ~t.lost => Surplus(t, d) = Others(d)'
  <2> SUFFICES ASSUME NEW d \in Cells
               PROVE  /\ Surplus(t, d) >= Others(d)'
                      /\ ~failed /\ ~t.lost => Surplus(t, d) = Others(d)'
    OBVIOUS
  <2>1. /\ Surplus(store, d) >= Others(d)
        /\ ~failed /\ ~store.lost => Surplus(store, d) = Others(d)
    BY DEF ObjectsInv
  <2>2. Others(d)' = Others(d)
    BY <1>5 DEF Others
  <2>3. Surplus(store, d) \in Int /\ Others(d) \in Nat /\ Surplus(t, d) \in Int
    BY <1>13, StoreIsSound, SurplusIsInteger DEF Shape
  <2> QED BY <2>1, <2>2, <2>3, <1>17, <1>18
<1>20. (\A d \in Cells : /\ Surplus(store, d) >= Others(d)
                         /\ ~failed /\ ~store.lost => Surplus(store, d) = Others(d))'
  BY <1>5, <1>19
<1>21. Steady(store, fields.refs)'
  <2>1. Len(fields'.refs) = 0
    BY <1>5 DEF NoFields
  <2> QED BY <2>1 DEF Steady
<1> QED BY <1>5, <1>13, <1>15, <1>16, <1>20, <1>21 DEF ObjectsInv

\* The passes.
LEMMA NextPassIsSound ==
  ASSUME ObjectsInv, NextPass
  PROVE  ObjectsInv' /\ Final
<1>1. /\ store' = store /\ fields' = fields /\ held' = held /\ failed' = failed
      /\ pass' \in {"namespace", "full"}
  BY DEF NextPass
<1>2. \A d : Others(d)' = Others(d)
  BY <1>1 DEF Others
<1>3. Final
  BY <1>1 DEF Final, ObjectOf, Node
<1> QED BY <1>1, <1>2, <1>3 DEF ObjectsInv

-----------------------------------------------------------------------------
(* The theorems. *)

\* An empty namespace has nothing to refer to.
LEMMA InitIsSound == Init => ObjectsInv
<1> SUFFICES ASSUME Init PROVE ObjectsInv
  OBVIOUS
<1>1. /\ store.cells = [c \in {} |-> <<>>] /\ store.nodes = [n \in Names |-> NoNode]
      /\ store.opened = 0 /\ store.misfreed = FALSE /\ store.dangled = FALSE /\ store.lost = FALSE
      /\ store = EmptyStore /\ fields = NoFields /\ held = {} /\ pass = "namespace" /\ failed = FALSE
  BY DEF Init, EmptyStore
<1>2. Live(store) = {}
  BY <1>1 DEF Live
<1>3. store.cells \in [{} -> CellRecords] /\ store.nodes \in [Names -> NodeRecords]
  BY <1>1 DEF NoNode, NodeRecords, Refs
<1>4. store \in Stores
  <2>1. store.cells \in UNION {[L -> CellRecords] : L \in SUBSET Cells}
    BY <1>3
  <2> QED BY <2>1, <1>1, <1>3 DEF EmptyStore, Stores
<1>5. Cardinality(Opened(store)) = 0
  BY <1>2, FS_EmptySet DEF Opened
<1>6. Linked(store, {})
  BY <1>1, <1>2 DEF Linked, NoNode
<1>7. Shape(store, {})
  BY <1>1, <1>2, <1>4, <1>5, <1>6 DEF Shape
<1>8. \A c \in Cells : Surplus(store, c) = 0 /\ Others(c) = 0
  BY <1>1, <1>2, CellsAssumption DEF Surplus, Others, NoFields
<1>9. Tidy(store)
  BY <1>1, <1>2 DEF Tidy, HostsOpen, NoNode
<1>10. Steady(store, fields.refs)
  <2>1. Len(fields.refs) = 0
    BY <1>1 DEF NoFields
  <2> QED BY <2>1 DEF Steady
<1>11. fields \in FieldLists /\ held \in SUBSET Cells /\ pass \in {"namespace", "full"}
       /\ failed \in BOOLEAN
  BY <1>1 DEF FieldLists
<1>12. \A c \in Cells : Surplus(store, c) >= Others(c) /\ Surplus(store, c) = Others(c)
  BY <1>8
<1> QED BY <1>7, <1>9, <1>10, <1>11, <1>12 DEF ObjectsInv

\* Every step of the evaluator keeps the invariant and the objects of the nodes.
LEMMA NextIsSound ==
  ASSUME ObjectsInv, Next
  PROVE  ObjectsInv' /\ Final
<1>1. ASSUME NEW n \in Names,
             \/ DeclareDevice(n) \/ DeclareProcessor(n)
             \/ DeclarePowerRes(n) \/ DeclareThermalZone(n)
      PROVE  ObjectsInv' /\ Final
  <2>1. PICK type \in {"device", "processor", "powerres", "thermalzone"} : DeclareBody(n, type)
    BY <1>1 DEF DeclareDevice, DeclareProcessor, DeclarePowerRes, DeclareThermalZone
  <2>2. type \in Types \ {"mutex", "event"}
    BY <2>1 DEF Types
  <2> QED BY <2>1, <2>2, BodyIsSound
<1>2. ASSUME NEW n \in Names, DeclareMutex(n) \/ DeclareEvent(n)
      PROVE  ObjectsInv' /\ Final
  BY <1>2, OnHostIsSound DEF DeclareMutex, DeclareEvent
<1>3. ASSUME NEW n \in Names, DeclareName(n) \/ DeclareBufferField(n) \/ DeclareDataRegion(n)
      PROVE  ObjectsInv' /\ Final
  BY <1>3, NameIsSound, BufferFieldIsSound, DataRegionIsSound
<1>4. ASSUME NEW n \in Names, DeclareAlias(n) \/ DeclareMethod(n) \/ DeclareRegion(n)
      PROVE  ObjectsInv' /\ Final
  BY <1>4, AliasIsSound, MethodIsSound, RegionIsSound
<1>5. ASSUME NEW n \in Names, NEW m \in Names,
             FieldList(n) \/ BankFieldList(n, m) \/ IndexFieldList(n, m)
      PROVE  ObjectsInv' /\ Final
  BY <1>5, ListsAreSound
<1>6. ASSUME NEW n \in Names, NamedElement(n) \/ Resolve(n) \/ ReleaseNode(n)
      PROVE  ObjectsInv' /\ Final
  BY <1>6, ElementIsSound, ResolveIsSound, ReleaseNodeIsSound
<1>7. ASSUME NEW c \in Cells, MapRegion(c) \/ Drop(c)
      PROVE  ObjectsInv' /\ Final
  BY <1>7, MapIsSound, DropIsSound
<1>8. CASE Connection \/ BrokenElement \/ EndFields \/ NextPass
  BY <1>8, ConnectionIsSound, BrokenIsSound, EndIsSound, NextPassIsSound
<1> QED BY <1>1, <1>2, <1>3, <1>4, <1>5, <1>6, <1>7, <1>8 DEF Next

\* The invariant holds in every behaviour.
THEOREM ObjectsStaySound == Spec => []ObjectsInv
<1>1. ObjectsInv /\ UNCHANGED vars => ObjectsInv'
  <2> SUFFICES ASSUME ObjectsInv, UNCHANGED vars PROVE ObjectsInv'
    OBVIOUS
  <2>1. store' = store /\ pass' = pass /\ fields' = fields /\ held' = held /\ failed' = failed
    BY DEF vars
  <2>2. \A d : Others(d)' = Others(d)
    BY <2>1 DEF Others
  <2> QED BY <2>1, <2>2 DEF ObjectsInv
<1>2. ObjectsInv /\ [Next]_vars => ObjectsInv'
  BY <1>1, NextIsSound
<1> QED BY <1>2, InitIsSound, PTL DEF Spec

\* What is counted of a cell is what the invariant counts and what its holders are.
LEMMA HoldersAreCounted ==
  ASSUME ObjectsInv, NEW c \in Live(store)
  PROVE  /\ c \in Cells /\ Holders(c) \in Nat /\ store.cells[c].count \in Nat \ {0}
         /\ store.cells[c].count - Holders(c) = Surplus(store, c) - Others(c)
<1>1. /\ Shape(store, {}) /\ store \in Stores /\ c \in Cells /\ Linked(store, {})
      /\ Surplus(store, c) \in Int /\ Others(c) \in Nat
  BY StoreIsSound DEF Shape
<1>2. store.cells[c].count \in Nat \ {0} /\ c # Nil
  BY <1>1, StoreCells, CellsAssumption DEF CellRecords
<1>3. Inner(store, c) \in Nat
  BY <1>1, InnerIsNatural
<1>4. PICK k : k = Cardinality({n \in Names : ObjectOf(n) = c})
  OBVIOUS
<1>5. k = IF store.cells[c].node = Nil THEN 0 ELSE 1
  <2>1. CASE store.cells[c].node = Nil
    <3>1. {n \in Names : ObjectOf(n) = c} = {}
      BY <2>1, <1>1, <1>2, CellsAssumption DEF Linked, ObjectOf, Node
    <3> QED BY <2>1, <3>1, <1>4, FS_EmptySet
  <2>2. CASE store.cells[c].node # Nil
    <3>1. {n \in Names : ObjectOf(n) = c} = {store.cells[c].node}
      BY <2>2, <1>1, <1>2 DEF Linked, ObjectOf, Node
    <3> QED BY <2>2, <3>1, <1>4, FS_Singleton
  <2> QED BY <2>1, <2>2
<1>6. Holders(c) = k + Inner(store, c) + Others(c)
  <2>1. PICK i : i = Inner(store, c)
    OBVIOUS
  <2>2. Holders(c) = k + i + (IF c \in held THEN 1 ELSE 0) + (IF c = fields.conn THEN 1 ELSE 0)
    BY <2>1, <1>4 DEF Holders, Inner, Terms
  <2> QED BY <2>1, <2>2, <1>3, <1>5 DEF Others
<1>7. Surplus(store, c) = store.cells[c].count - k - Inner(store, c)
  BY <1>5 DEF Surplus
<1> QED BY <1>1, <1>2, <1>3, <1>5, <1>6, <1>7

\* Whatever is declared, fails or is released: no object, buffer or package is
\* freed that something still refers to, none is counted below its references,
\* and nodes and objects know each other (AmlObjectRelease, AmlObjectFree,
\* AmlNamespaceReleaseNode, the declarations of aml_eval.c).
THEOREM ReferencesStaySound == Spec => []ReferencesAreSound
<1>1. ObjectsInv => ReferencesAreSound
  <2> SUFFICES ASSUME ObjectsInv PROVE ReferencesAreSound
    OBVIOUS
  <2>1. /\ Shape(store, {}) /\ store \in Stores /\ Linked(store, {}) /\ Live(store) \in SUBSET Cells
        /\ \A c \in Live(store) : store.cells[c].refs \in Seq(Live(store) \cup {Nil})
    BY StoreIsSound DEF Shape
  <2>2. \A c \in Live(store) : ToSet(store.cells[c].refs) \subseteq Live(store) \cup {Nil}
    BY <2>1 DEF ToSet
  <2>3. TypeOK
    <3>1. \A c \in Live(store) : store.cells[c] \in CellRecords
      BY <2>1, StoreCells
    <3>2. \A c \in Live(store) :
            /\ store.cells[c].count \in Nat \ {0}
            /\ ToSet(store.cells[c].refs) \subseteq Cells \cup {Nil}
            /\ store.cells[c].node \in Names \cup {Nil}
            /\ store.cells[c].open => store.cells[c].type \in OnHost
      BY <2>1, <2>2, <3>1 DEF CellRecords, Shape
    <3>3. store.nodes \in [Names -> [in : BOOLEAN, object : Cells \cup {Nil}, pre : BOOLEAN]]
      BY <2>1 DEF Stores, NodeRecords, Refs
    <3>4. {store.misfreed, store.dangled, store.lost, failed} \subseteq BOOLEAN
      BY <2>1 DEF Stores, ObjectsInv
    <3>5. fields.kind \in {"none", "field", "bank", "index"}
      BY DEF ObjectsInv, FieldLists, NoFields
    <3>6. pass \in {"namespace", "full"} /\ held \subseteq Cells
      BY DEF ObjectsInv
    <3> QED BY <2>1, <3>2, <3>3, <3>4, <3>5, <3>6 DEF TypeOK
  <2>4. NothingDangles
    <3>1. \A n \in Names : ObjectOf(n) \in Live(store) \cup {Nil}
      BY <2>1 DEF Linked, ObjectOf, Node
    <3>2. \A c \in Live(store) : store.cells[c].count >= Holders(c)
      <4>1. ASSUME NEW c \in Live(store) PROVE store.cells[c].count >= Holders(c)
        <5>1. /\ c \in Cells /\ Holders(c) \in Nat /\ store.cells[c].count \in Nat \ {0}
              /\ store.cells[c].count - Holders(c) = Surplus(store, c) - Others(c)
          BY HoldersAreCounted
        <5>2. /\ Surplus(store, c) \in Int /\ Surplus(store, c) >= Others(c)
              /\ Others(c) \in Nat
          BY <5>1, StoreIsSound
        <5> QED BY <5>1, <5>2
      <4> QED BY <4>1
    <3>3. \A c \in Cells : c \in held \/ c = fields.conn => c \in Live(store)
      <4>1. \A c \in Cells : c \in held \/ c = fields.conn => Surplus(store, c) # 0
        BY StoreIsSound
      <4> QED BY <4>1 DEF Surplus
    <3>4. fields.conn \in Refs /\ held \subseteq Cells
      BY DEF ObjectsInv, FieldLists, NoFields, Refs
    <3>5. fields.refs \in Seq(Cells)
      <4>1. fields \in {NoFields} \/ fields.refs \in Seq(Cells)
        BY DEF ObjectsInv, FieldLists
      <4>2. NoFields.refs = <<>> /\ <<>> \in Seq(Cells)
        BY DEF NoFields
      <4> QED BY <4>1, <4>2
    <3>6. ToSet(fields.refs) \subseteq Live(store) \cup {Nil}
      BY <3>5 DEF ObjectsInv, Steady, ToSet
    <3> QED BY <2>1, <2>2, <3>1, <3>2, <3>3, <3>4, <3>6 DEF NothingDangles, Shape, Refs
  <2>5. NodesMatchObjects
    BY <2>1 DEF NodesMatchObjects, Linked, ObjectOf, Node
  <2>6. NodesHaveObjectsAtFirst
    BY DEF NodesHaveObjectsAtFirst, ObjectsInv, Tidy, ObjectOf, Node
  <2> QED BY <2>3, <2>4, <2>5, <2>6 DEF ReferencesAreSound
<1> QED BY <1>1, ObjectsStaySound, PTL

\* Until a failure leaves something behind or a data region is freed, the count of
\* every cell is the number of its holders, so that nothing outlives them.
THEOREM NothingEverLeaksAtFirst == Spec => []NothingLeaksAtFirst
<1>1. ObjectsInv => NothingLeaksAtFirst
  <2> SUFFICES ASSUME ObjectsInv, ~failed, ~store.lost, NEW c \in Live(store)
               PROVE  store.cells[c].count = Holders(c)
    BY DEF NothingLeaksAtFirst
  <2>1. /\ c \in Cells /\ Holders(c) \in Nat /\ store.cells[c].count \in Nat \ {0}
        /\ store.cells[c].count - Holders(c) = Surplus(store, c) - Others(c)
    BY HoldersAreCounted
  <2>2. Surplus(store, c) = Others(c) /\ Others(c) \in Nat
    BY <2>1, StoreIsSound DEF ObjectsInv
  <2> QED BY <2>1, <2>2
<1> QED BY <1>1, ObjectsStaySound, PTL

\* The mutexes, events and mappings that the host has open are those of the objects
\* that exist, and it gets nothing back that it never gave until a declaration has
\* failed.
THEOREM HostStaysBalanced == Spec => []HostIsBalanced
<1>1. ObjectsInv => HostIsBalanced
  BY DEF ObjectsInv, Shape, Tidy, HostIsBalanced, Opened
<1> QED BY <1>1, ObjectsStaySound, PTL

\* A name is declared once: as long as its node exists, neither pass, nor a later
\* table, nor a failure replaces or removes its object.
THEOREM DeclarationsStayFinal == Spec => DeclarationsAreFinal
<1>1. ObjectsInv /\ [Next]_vars =>
        [\A n \in Names : ObjectOf(n) # Nil /\ store'.nodes[n].in
           => store'.nodes[n].object = ObjectOf(n)]_vars
  BY NextIsSound DEF Final
<1> QED BY <1>1, ObjectsStaySound, PTL DEF Spec, DeclarationsAreFinal
=============================================================================
