---------------------------- MODULE DevicesProofs ----------------------------
(***************************************************************************)
(* Theorems about Devices: what the loads, the broadcasts to the _REG      *)
(* methods and the initialisation of the devices add up to, whatever is    *)
(* declared in whichever tables, and however the calls nest.               *)
(*                                                                         *)
(* The state is a stack of calls that are in progress, over a tree that    *)
(* grows.  DevicesInv says of each call what its place in the stack needs: *)
(*                                                                         *)
(*   Made, LoadsOK    a table is being loaded exactly while one call of    *)
(*                    the stack loads it, and names exist only from then   *)
(*                    on;                                                  *)
(*   WalksOK          each visit stack is a path down from the root        *)
(*                    through working devices, with the children that are  *)
(*                    ahead of it;                                         *)
(*   InitOK,          a call that initialises a device is right above the  *)
(*   Announcements    walk that asked it, once per device unless a load    *)
(*                    was nested in it;                                    *)
(*   Regions          what a broadcast, a loop over the handlers or a load *)
(*                    has passed was told, or a call above it will tell it *)
(*                    (five conjuncts, one per kind of call);              *)
(*   DevicesHandled   a device was dealt with, or some call in progress    *)
(*                    leads to it.                                         *)
(*                                                                         *)
(* A device d is still to be visited by a walk (IsPending) when d or an    *)
(* ancestor is among the children ahead of one of its visits; the heart of *)
(* the proof is that a step of a walk, or the growth of the tree at its    *)
(* end, loses no pending device.  The module first turns each action into  *)
(* a description of what it does to the stack (LoadBegun, Registered,      *)
(* RegTold, ...), then shows per conjunct that these preserve it.          *)
(***************************************************************************)
EXTENDS Devices, Lemmas

-----------------------------------------------------------------------------
(* The tree of the declarations. *)

\* The parents of n lead to a in k steps.
Path(n, a, k) ==
  \E g \in [0..k -> Entries] :
    g[0] = n /\ g[k] = a /\ \A i \in 1..k : g[i - 1] \in Nodes /\ g[i] = Parent[g[i - 1]]

\* A node, and the entries that it is below.
Chain(n) == {n} \cup Above[n]

\* What is said of the parents.
LEMMA ParentFacts ==
  /\ TreeRoot \notin Nodes /\ Null \notin Entries /\ Devices \subseteq Nodes
  /\ \A n \in Nodes : Parent[n] \in Entries /\ Parent[n] \in Devices \cup {TreeRoot}
  /\ \A S \in SUBSET Nodes : S # {} => \E n \in S : Parent[n] \notin S
BY DevicesAssumption DEF Devices, Entries

\* Paths of no steps, from the root, and from a node.
LEMMA PathFacts ==
  /\ \A n, a \in Entries : Path(n, a, 0) <=> n = a
  /\ \A a \in Entries, k \in Nat : ~Path(TreeRoot, a, k + 1)
  /\ \A n \in Nodes, a \in Entries, k \in Nat : Path(n, a, k + 1) <=> Path(Parent[n], a, k)
<1>1. ASSUME NEW n \in Entries, NEW a \in Entries PROVE Path(n, a, 0) <=> n = a
  <2>1. ASSUME n = a PROVE Path(n, a, 0)
    <3> DEFINE g == [i \in 0..0 |-> n]
    <3>1. g \in [0..0 -> Entries] /\ g[0] = n /\ 1..0 = {}
      OBVIOUS
    <3> QED BY <2>1, <3>1 DEF Path
  <2> QED BY <2>1 DEF Path
<1>2. ASSUME NEW a \in Entries, NEW k \in Nat PROVE ~Path(TreeRoot, a, k + 1)
  <2>1. 1 \in 1..(k + 1) /\ 1 - 1 = 0
    OBVIOUS
  <2>2. ASSUME NEW g \in [0..(k + 1) -> Entries], g[0] = TreeRoot,
               \A i \in 1..(k + 1) : g[i - 1] \in Nodes
        PROVE  FALSE
    <3>1. g[0] \in Nodes
      BY <2>1, <2>2
    <3> QED BY <3>1, <2>2, ParentFacts
  <2> QED BY <2>2 DEF Path
<1>3. ASSUME NEW n \in Nodes, NEW a \in Entries, NEW k \in Nat, Path(n, a, k + 1)
      PROVE  Path(Parent[n], a, k)
  <2>1. PICK g \in [0..(k + 1) -> Entries] :
           g[0] = n /\ g[k + 1] = a
             /\ \A i \in 1..(k + 1) : g[i - 1] \in Nodes /\ g[i] = Parent[g[i - 1]]
    BY <1>3 DEF Path
  <2> DEFINE h == [i \in 0..k |-> g[i + 1]]
  <2>2. h \in [0..k -> Entries]
    OBVIOUS
  <2>3. h[0] = Parent[n] /\ h[k] = a
    <3>1. 1 \in 1..(k + 1)
      OBVIOUS
    <3> QED BY <3>1, <2>1
  <2>4. ASSUME NEW i \in 1..k PROVE h[i - 1] \in Nodes /\ h[i] = Parent[h[i - 1]]
    <3>1. i + 1 \in 1..(k + 1) /\ i - 1 \in 0..k /\ (i - 1) + 1 = i /\ (i + 1) - 1 = i /\ i \in 0..k
      OBVIOUS
    <3> QED BY <3>1, <2>1
  <2> HIDE DEF h
  <2> QED BY <2>2, <2>3, <2>4 DEF Path
<1>4. ASSUME NEW n \in Nodes, NEW a \in Entries, NEW k \in Nat, Path(Parent[n], a, k)
      PROVE  Path(n, a, k + 1)
  <2>1. PICK g \in [0..k -> Entries] :
           g[0] = Parent[n] /\ g[k] = a
             /\ \A i \in 1..k : g[i - 1] \in Nodes /\ g[i] = Parent[g[i - 1]]
    BY <1>4 DEF Path
  <2> DEFINE h == [i \in 0..(k + 1) |-> IF i = 0 THEN n ELSE g[i - 1]]
  <2>2. h \in [0..(k + 1) -> Entries]
    BY DEF Entries
  <2>3. h[0] = n /\ h[k + 1] = a
    BY <2>1
  <2>4. ASSUME NEW i \in 1..(k + 1) PROVE h[i - 1] \in Nodes /\ h[i] = Parent[h[i - 1]]
    <3>1. CASE i = 1
      BY <3>1, <2>1
    <3>2. CASE i # 1
      <4>1. i - 1 \in 1..k /\ h[i - 1] = g[(i - 1) - 1] /\ h[i] = g[i - 1]
        BY <3>2
      <4> QED BY <4>1, <2>1
    <3> QED BY <3>1, <3>2
  <2> HIDE DEF h
  <2> QED BY <2>2, <2>3, <2>4 DEF Path
<1> QED BY <1>1, <1>2, <1>3, <1>4

\* The root is one length away from each entry.
LEMMA PathToRoot ==
  \A n \in Entries : \E k \in Nat : Path(n, TreeRoot, k) /\ \A j \in Nat : Path(n, TreeRoot, j) => j = k
<1> DEFINE Unique(n) == \E k \in Nat : Path(n, TreeRoot, k)
                           /\ \A j \in Nat : Path(n, TreeRoot, j) => j = k
           S == {n \in Nodes : ~Unique(n)}
<1>1. Unique(TreeRoot)
  <2>1. Path(TreeRoot, TreeRoot, 0) /\ TreeRoot \in Entries
    BY PathFacts DEF Entries
  <2>2. ASSUME NEW j \in Nat, Path(TreeRoot, TreeRoot, j) PROVE j = 0
    <3>1. j # 0 => (j - 1 \in Nat /\ j = (j - 1) + 1)
      OBVIOUS
    <3> QED BY <3>1, <2>1, <2>2, PathFacts
  <2> QED BY <2>1, <2>2
<1>2. ASSUME NEW n \in Nodes, Unique(Parent[n]) PROVE Unique(n)
  <2>1. PICK k \in Nat : Path(Parent[n], TreeRoot, k)
                           /\ \A j \in Nat : Path(Parent[n], TreeRoot, j) => j = k
    BY <1>2
  <2>2. Path(n, TreeRoot, k + 1) /\ TreeRoot \in Entries /\ n \in Entries /\ n # TreeRoot
    BY <2>1, PathFacts, ParentFacts DEF Entries
  <2>3. ASSUME NEW j \in Nat, Path(n, TreeRoot, j) PROVE j = k + 1
    <3>1. j # 0
      BY <2>2, <2>3, PathFacts
    <3>2. j - 1 \in Nat /\ j = (j - 1) + 1
      BY <3>1
    <3>3. Path(Parent[n], TreeRoot, j - 1)
      BY <2>2, <2>3, <3>2, PathFacts
    <3> QED BY <3>2, <3>3, <2>1
  <2> QED BY <2>2, <2>3
<1> HIDE DEF Unique
<1>3. S = {}
  <2> SUFFICES ASSUME S # {} PROVE FALSE
    OBVIOUS
  <2>1. PICK n \in S : Parent[n] \notin S
    BY ParentFacts
  <2>2. Unique(Parent[n])
    BY <2>1, <1>1, ParentFacts
  <2> QED BY <2>2, <1>2
<1>4. \A n \in Entries : Unique(n)
  BY <1>1, <1>3 DEF Entries
<1> QED BY <1>4 DEF Unique

\* The depth of an entry.
LEMMA DepthFacts ==
  /\ Depth \in [Entries -> Nat] /\ Depth[TreeRoot] = 1
  /\ \A n \in Nodes : Depth[n] = Depth[Parent[n]] + 1
<1> DEFINE Length(n) == CHOOSE k \in Nat : Path(n, TreeRoot, k)
           Is(h) == h = [n \in Entries |-> IF n = TreeRoot THEN 1 ELSE h[Parent[n]] + 1]
           g == [n \in Entries |-> Length(n) + 1]
<1>1. \A n \in Entries : Length(n) \in Nat /\ Path(n, TreeRoot, Length(n))
  BY PathToRoot
<1>2. Length(TreeRoot) = 0
  BY PathToRoot, PathFacts DEF Entries
<1>3. ASSUME NEW n \in Nodes PROVE Length(n) = Length(Parent[n]) + 1
  <2>1. n \in Entries /\ Parent[n] \in Entries /\ TreeRoot \in Entries
    BY ParentFacts DEF Entries
  <2>2. Path(n, TreeRoot, Length(Parent[n]) + 1)
    BY <1>1, <2>1, PathFacts
  <2> QED BY <1>1, <2>1, <2>2, PathToRoot
<1> HIDE DEF Length
<1>4. Is(g)
  BY <1>2, <1>3, ParentFacts DEF Entries
<1>5. Is(Depth)
  BY <1>4 DEF Depth
<1>6. Depth[TreeRoot] = 1 /\ \A n \in Nodes : Depth[n] = Depth[Parent[n]] + 1
  BY <1>5, ParentFacts DEF Entries
<1> DEFINE S == {n \in Nodes : Depth[n] \notin Nat}
<1>7. S = {}
  <2> SUFFICES ASSUME S # {} PROVE FALSE
    OBVIOUS
  <2>1. PICK n \in S : Parent[n] \notin S
    BY ParentFacts
  <2>2. Depth[Parent[n]] \in Nat
    BY <2>1, <1>6, ParentFacts
  <2> QED BY <2>2, <1>6
<1> HIDE DEF Is, g
<1>8. Depth \in [Entries -> Nat]
  <2>1. \A n \in Entries : Depth[n] \in Nat
    BY <1>6, <1>7 DEF Entries
  <2>2. Depth = [n \in Entries |-> Depth[n]]
    BY <1>5 DEF Is
  <2> HIDE DEF S
  <2> QED BY <2>1, <2>2
<1> QED BY <1>6, <1>8

\* What an entry is below.
LEMMA AboveFacts ==
  /\ Above[TreeRoot] = {}
  /\ \A n \in Nodes : Above[n] = {Parent[n]} \cup Above[Parent[n]]
<1> DEFINE Is(h) == h = [n \in Entries |-> IF n = TreeRoot THEN {} ELSE {Parent[n]} \cup h[Parent[n]]]
           Over(n) == {a \in Entries : \E k \in Nat : Path(n, a, k + 1)}
           g == [n \in Entries |-> Over(n)]
<1>1. Over(TreeRoot) = {}
  BY PathFacts
<1>2. ASSUME NEW n \in Nodes PROVE Over(n) = {Parent[n]} \cup Over(Parent[n])
  <2>1. n \in Entries /\ Parent[n] \in Entries
    BY ParentFacts DEF Entries
  <2>2. ASSUME NEW a \in Over(n), a # Parent[n] PROVE a \in Over(Parent[n])
    <3>1. PICK k \in Nat : Path(n, a, k + 1)
      OBVIOUS
    <3>2. Path(Parent[n], a, k)
      BY <3>1, <2>1, PathFacts
    <3>3. k # 0
      BY <3>2, <2>1, <2>2, PathFacts
    <3>4. k - 1 \in Nat /\ k = (k - 1) + 1
      BY <3>3
    <3> QED BY <3>2, <3>4
  <2>3. ASSUME NEW a \in Over(Parent[n]) PROVE a \in Over(n)
    <3>1. PICK k \in Nat : Path(Parent[n], a, k + 1)
      OBVIOUS
    <3>2. Path(n, a, (k + 1) + 1) /\ k + 1 \in Nat
      BY <3>1, PathFacts
    <3> QED BY <3>2
  <2>4. Parent[n] \in Over(n)
    <3>1. Path(n, Parent[n], 0 + 1)
      BY <2>1, PathFacts
    <3> QED BY <3>1, <2>1
  <2> HIDE DEF Over
  <2> QED BY <2>2, <2>3, <2>4
<1> HIDE DEF Over
<1>3. Is(g)
  BY <1>1, <1>2, ParentFacts DEF Entries
<1>4. Is(Above)
  BY <1>3 DEF Above
<1> QED BY <1>4, ParentFacts DEF Entries

\* Of a device and the devices it is below: one is a child of the root, and one is a
\* child of each of the others.
LEMMA ChainFacts ==
  ASSUME NEW d \in Devices
  PROVE  /\ Above[d] \subseteq Devices \cup {TreeRoot}
         /\ \E t \in Chain(d) \cap Devices : Parent[t] = TreeRoot
         /\ \A a \in Above[d] \cap Devices : \E t \in Chain(d) \cap Devices : Parent[t] = a
         /\ \A a \in Chain(d) \cap Devices : Parent[a] \in Above[d]
<1> DEFINE Top1(n) == \E t \in Chain(n) \cap Devices : Parent[t] = TreeRoot
           Top2(n) == \A a \in Above[n] \cap Devices : \E t \in Chain(n) \cap Devices : Parent[t] = a
           Top3(n) == \A a \in Chain(n) \cap Devices : Parent[a] \in Above[n]
           Good(n) == Above[n] \subseteq Devices \cup {TreeRoot} /\ Top1(n) /\ Top2(n) /\ Top3(n)
           S == {n \in Devices : ~Good(n)}
<1>1. ASSUME NEW n \in Devices, Parent[n] = TreeRoot PROVE Good(n)
  <2>1. Above[n] = {TreeRoot} /\ Chain(n) = {n, TreeRoot} /\ TreeRoot \notin Devices
    BY <1>1, AboveFacts, ParentFacts DEF Chain
  <2> QED BY <1>1, <2>1
<1>2. ASSUME NEW n \in Devices, Parent[n] \in Devices, Good(Parent[n]) PROVE Good(n)
  <2>1. Above[n] = {Parent[n]} \cup Above[Parent[n]] /\ Chain(n) = {n} \cup Chain(Parent[n])
        /\ Chain(Parent[n]) = Above[n]
    BY AboveFacts, ParentFacts DEF Chain
  <2>2. Above[n] \subseteq Devices \cup {TreeRoot}
    BY <1>2, <2>1
  <2>3. Top1(n)
    BY <1>2, <2>1
  <2>4. Top2(n)
    <3> SUFFICES ASSUME NEW a \in Above[n] \cap Devices
                 PROVE  \E t \in Chain(n) \cap Devices : Parent[t] = a
      OBVIOUS
    <3>1. CASE a = Parent[n]
      BY <3>1, <2>1
    <3>2. CASE a \in Above[Parent[n]]
      BY <3>2, <1>2, <2>1
    <3> QED BY <3>1, <3>2, <2>1
  <2>5. Top3(n)
    BY <1>2, <2>1
  <2> QED BY <2>2, <2>3, <2>4, <2>5
<1> HIDE DEF Good
<1>3. S = {}
  <2> SUFFICES ASSUME S # {} PROVE FALSE
    OBVIOUS
  <2>1. PICK n \in S : Parent[n] \notin S
    BY ParentFacts
  <2> QED BY <2>1, <1>1, <1>2, ParentFacts
<1> QED BY <1>3 DEF Good

\* A set that has the parents of its nodes has what they are below.
LEMMA ChainInside ==
  ASSUME NEW L \in SUBSET Nodes, \A n \in L : Parent[n] \in L \cup {TreeRoot}
  PROVE  \A n \in L : Chain(n) \subseteq L \cup {TreeRoot}
<1> DEFINE S == {n \in L : ~(Chain(n) \subseteq L \cup {TreeRoot})}
<1> SUFFICES ASSUME S # {} PROVE FALSE
  OBVIOUS
<1>1. PICK n \in S : Parent[n] \notin S
  BY ParentFacts
<1>2. Chain(n) = {n} \cup Chain(Parent[n])
  BY AboveFacts DEF Chain
<1>3. Chain(TreeRoot) = {TreeRoot}
  BY AboveFacts DEF Chain
<1>4. CASE Parent[n] = TreeRoot
  BY <1>2, <1>3, <1>4
<1>5. CASE Parent[n] \in L
  BY <1>1, <1>2, <1>5
<1> QED BY <1>4, <1>5

-----------------------------------------------------------------------------
(* Sequences: the nodes in their order, and the stack of calls. *)

\* A sequence with one element more, one less, and another last one.
LEMMA SeqSteps ==
  ASSUME NEW F, NEW s \in Seq(F), NEW f \in F
  PROVE  /\ Append(s, f) \in Seq(F) /\ Len(Append(s, f)) = Len(s) + 1
         /\ \A i \in 1..Len(s) : Append(s, f)[i] = s[i]
         /\ Append(s, f)[Len(s) + 1] = f
         /\ s # <<>> =>
              /\ Len(s) \in Nat \ {0}
              /\ Front(s) \in Seq(F) /\ Len(Front(s)) = Len(s) - 1
              /\ \A i \in 1..(Len(s) - 1) : Front(s)[i] = s[i]
              /\ Append(Front(s), f) \in Seq(F) /\ Len(Append(Front(s), f)) = Len(s)
              /\ \A i \in 1..(Len(s) - 1) : Append(Front(s), f)[i] = s[i]
              /\ Append(Front(s), f)[Len(s)] = f
<1>1. /\ Append(s, f) \in Seq(F) /\ Len(Append(s, f)) = Len(s) + 1
      /\ \A i \in 1..Len(s) : Append(s, f)[i] = s[i]
      /\ Append(s, f)[Len(s) + 1] = f
  BY AppendProperties
<1>2. ASSUME s # <<>>
      PROVE  /\ Len(s) \in Nat \ {0}
             /\ Front(s) \in Seq(F) /\ Len(Front(s)) = Len(s) - 1
             /\ \A i \in 1..(Len(s) - 1) : Front(s)[i] = s[i]
  <2>1. Len(s) \in Nat \ {0}
    BY <1>2, EmptySeq
  <2>2. \A i \in 1..(Len(s) - 1) : s[i] \in F
    BY ElementOfSeq
  <2>3. 1 \in Int /\ Len(s) - 1 \in Int /\ Len(s) \in Int
    BY <2>1
  <2> DEFINE q == Front(s)
             m == Len(s) - 1
  <2>4. /\ q \in Seq(F) /\ Len(q) = IF 1 <= m THEN m - 1 + 1 ELSE 0
        /\ \A i \in 1..(m - 1 + 1) : q[i] = s[1 + i - 1]
    BY <2>2, <2>3, SubSeqProperties DEF Front
  <2>5. m \in Nat
    BY <2>1
  <2> HIDE DEF q, m
  <2>6. Len(q) = m /\ \A i \in 1..m : q[i] = s[i]
    BY <2>4, <2>5
  <2> QED BY <2>1, <2>4, <2>6 DEF q, m
<1>3. ASSUME s # <<>>
      PROVE  /\ Append(Front(s), f) \in Seq(F) /\ Len(Append(Front(s), f)) = Len(s)
             /\ \A i \in 1..(Len(s) - 1) : Append(Front(s), f)[i] = s[i]
             /\ Append(Front(s), f)[Len(s)] = f
  <2> DEFINE q == Front(s)
  <2>1. q \in Seq(F) /\ Len(q) = Len(s) - 1 /\ Len(s) \in Nat \ {0}
        /\ \A i \in 1..(Len(s) - 1) : q[i] = s[i]
    BY <1>2, <1>3
  <2> HIDE DEF q
  <2>2. /\ Append(q, f) \in Seq(F) /\ Len(Append(q, f)) = Len(q) + 1
        /\ \A i \in 1..Len(q) : Append(q, f)[i] = q[i]
        /\ Append(q, f)[Len(q) + 1] = f
    BY <2>1, AppendProperties
  <2>3. Len(q) + 1 = Len(s)
    BY <2>1
  <2>4. Append(q, f) \in Seq(F) /\ Len(Append(q, f)) = Len(s) /\ Append(q, f)[Len(s)] = f
    BY <2>2, <2>3
  <2>5. \A i \in 1..(Len(s) - 1) : Append(q, f)[i] = s[i]
    BY <2>1, <2>2
  <2> QED BY <2>4, <2>5 DEF q
<1> QED BY <1>1, <1>2, <1>3

\* A sequence with two elements in place of the last one.
LEMMA SeqSwapsAndGrows ==
  ASSUME NEW F, NEW s \in Seq(F), s # <<>>, NEW f \in F, NEW g \in F
  PROVE  /\ Front(s) \o <<f, g>> \in Seq(F) /\ Len(Front(s) \o <<f, g>>) = Len(s) + 1
         /\ \A i \in 1..(Len(s) - 1) : (Front(s) \o <<f, g>>)[i] = s[i]
         /\ (Front(s) \o <<f, g>>)[Len(s)] = f /\ (Front(s) \o <<f, g>>)[Len(s) + 1] = g
<1> DEFINE q == Front(s)
           p == <<f, g>>
<1>1. q \in Seq(F) /\ Len(q) = Len(s) - 1 /\ Len(s) \in Nat \ {0}
      /\ \A i \in 1..(Len(s) - 1) : q[i] = s[i]
  BY SeqSteps
<1>2. p \in Seq(F) /\ Len(p) = 2 /\ p[1] = f /\ p[2] = g
  OBVIOUS
<1> HIDE DEF q, p
<1>3. /\ q \o p \in Seq(F) /\ Len(q \o p) = Len(q) + Len(p)
      /\ \A i \in 1..Len(q) + Len(p) : (q \o p)[i] = IF i <= Len(q) THEN q[i] ELSE p[i - Len(q)]
  BY <1>1, <1>2, ConcatProperties
<1>4. Len(q) + Len(p) = Len(s) + 1
  BY <1>1, <1>2
<1>5. ASSUME NEW i \in 1..(Len(s) - 1) PROVE (q \o p)[i] = s[i]
  <2>1. i \in 1..(Len(q) + Len(p)) /\ i <= Len(q)
    BY <1>1, <1>2
  <2> QED BY <2>1, <1>1, <1>3
<1>6. (q \o p)[Len(s)] = f
  <2>1. Len(s) \in 1..(Len(q) + Len(p)) /\ ~(Len(s) <= Len(q)) /\ Len(s) - Len(q) = 1
    BY <1>1, <1>2
  <2> QED BY <2>1, <1>2, <1>3
<1>7. (q \o p)[Len(s) + 1] = g
  <2>1. Len(s) + 1 \in 1..(Len(q) + Len(p)) /\ ~(Len(s) + 1 <= Len(q)) /\ (Len(s) + 1) - Len(q) = 2
    BY <1>1, <1>2
  <2> QED BY <2>1, <1>2, <1>3
<1> QED BY <1>3, <1>4, <1>5, <1>6, <1>7 DEF q, p

-----------------------------------------------------------------------------
(* Walks: what they have ahead of them when c is the sequence of nodes. *)

\* The children that a visit will still come to.
Ahead(c, v) ==
  IF SkipChildren(v) THEN {}
  ELSE {c[i] : i \in {j \in DOMAIN c : Parent[c[j]] = v.node /\ \E k \in 1..j : c[k] = v.next}}

\* A device that the walk of a call will still visit.
IsPending(c, f, d) ==
  \/ f.pc = "visit" /\ d = Last(f.walk).node
  \/ \E j \in DOMAIN f.walk : Ahead(c, f.walk[j]) \cap Chain(d) # {}

\* All children are ahead.
AtFirst(c, v) == \A i \in DOMAIN c : Parent[c[i]] = v.node => c[i] \in Ahead(c, v)

\* The nodes and their parents.
Tree ==
  /\ created \in Seq(Nodes) /\ IsInjective(created)
  /\ \A n \in Live : Parent[n] \in Live \cup {TreeRoot}

\* The nodes are at the indices.
LEMMA LiveFacts ==
  ASSUME Tree
  PROVE  /\ Len(created) \in Nat /\ DOMAIN created = 1..Len(created)
         /\ \A i \in 1..Len(created) : created[i] \in Live /\ created[i] \in Nodes
         /\ Live \subseteq Nodes /\ \A n \in Live : \E i \in 1..Len(created) : created[i] = n
         /\ \A i, j \in 1..Len(created) : created[i] = created[j] => i = j
         /\ \A i \in 1..Len(created) : Place(created[i]) = i
<1>1. Len(created) \in Nat /\ DOMAIN created = 1..Len(created)
  BY LenProperties DEF Tree
<1>2. \A i \in 1..Len(created) : created[i] \in Live /\ created[i] \in Nodes
  BY <1>1, ElementOfSeq DEF Tree, Live, ToSet
<1>3. Live \subseteq Nodes /\ \A n \in Live : \E i \in 1..Len(created) : created[i] = n
  BY <1>1, <1>2 DEF Live, ToSet
<1>4. \A i, j \in 1..Len(created) : created[i] = created[j] => i = j
  BY <1>1 DEF Tree, IsInjective
<1>5. \A i \in 1..Len(created) : Place(created[i]) = i
  BY <1>1, <1>4 DEF Place
<1> QED BY <1>1, <1>2, <1>3, <1>4, <1>5

\* The first of some nodes.
LEMMA FirstFacts ==
  ASSUME Tree, NEW P \in SUBSET (1..Len(created))
  PROVE  /\ P = {} => First(P) = Null
         /\ P # {} => \E i \in P : First(P) = created[i] /\ \A j \in P : i <= j
<1>1. P = {} => First(P) = Null
  BY DEF First
<1>2. ASSUME P # {} PROVE \E i \in P : First(P) = created[i] /\ \A j \in P : i <= j
  <2>1. P \subseteq Nat
    BY LiveFacts
  <2>2. \E i \in P : \A j \in P : i <= j
    BY <1>2, <2>1, LeastElement
  <2>3. Min(P) \in P /\ \A j \in P : Min(P) <= j
    BY <2>2 DEF Min
  <2> QED BY <1>2, <2>3 DEF First
<1> QED BY <1>1, <1>2

\* The first child of an entry: all children are ahead of a visit that begins there.
LEMMA ChildFirstFacts ==
  ASSUME Tree, NEW n \in Entries
  PROVE  /\ ChildFirst(n) = Null \/ (ChildFirst(n) \in Live /\ Parent[ChildFirst(n)] = n)
         /\ \A v : v.node = n /\ v.next = ChildFirst(n) /\ ~SkipChildren(v) => AtFirst(created, v)
<1> DEFINE P == {i \in 1..Len(created) : Parent[created[i]] = n}
<1>1. Kids(n) = P
  BY LiveFacts DEF Kids
<1>2. /\ P = {} => ChildFirst(n) = Null
      /\ P # {} => \E i \in P : ChildFirst(n) = created[i] /\ \A j \in P : i <= j
  BY <1>1, FirstFacts DEF ChildFirst
<1>3. ChildFirst(n) = Null \/ (ChildFirst(n) \in Live /\ Parent[ChildFirst(n)] = n)
  BY <1>2, LiveFacts
<1>4. ASSUME NEW v, v.node = n, v.next = ChildFirst(n), ~SkipChildren(v)
      PROVE  AtFirst(created, v)
  <2> SUFFICES ASSUME NEW m \in 1..Len(created), Parent[created[m]] = n
               PROVE  created[m] \in Ahead(created, v)
    BY <1>4, LiveFacts DEF AtFirst
  <2>1. PICK i \in P : ChildFirst(n) = created[i] /\ \A j \in P : i <= j
    BY <1>2
  <2>2. i \in 1..m /\ m \in DOMAIN created
    BY <2>1, LiveFacts
  <2> QED BY <1>4, <2>1, <2>2 DEF Ahead
<1> QED BY <1>3, <1>4

\* Of a visit to an entry of the tree.
VisitIn(v, L) ==
  /\ v.node \in L \cup {TreeRoot}
  /\ v.next # Null => v.next \in L /\ Parent[v.next] = v.node
VisitOK(v) == VisitIn(v, Live)

\* The next device of a visit: only methods are before it.
LEMMA NextDeviceFacts ==
  ASSUME Tree, NEW v, VisitOK(v)
  PROVE  /\ NextDevice(v) = Null => Ahead(created, v) \cap Devices = {}
         /\ NextDevice(v) # Null =>
              LET d == NextDevice(v)
              IN  /\ d \in Live \cap Devices /\ Parent[d] = v.node
                  /\ Sibling(d) # Null => Sibling(d) \in Live /\ Parent[Sibling(d)] = v.node
                  /\ \A w : w.node = v.node /\ w.status = v.status /\ w.next = Sibling(d) =>
                       \A m \in Ahead(created, v) \cap Devices : m = d \/ m \in Ahead(created, w)
<1> DEFINE P == {i \in 1..Len(created) : /\ Parent[created[i]] = v.node /\ i >= Place(v.next)
                                         /\ Kind[created[i]] = "device"}
<1>1. ASSUME v.next = Null PROVE Ahead(created, v) = {} /\ NextDevice(v) = Null
  <2>1. \A j \in 1..Len(created) : created[j] # v.next
    BY <1>1, LiveFacts, ParentFacts DEF Entries
  <2>2. \A i \in 1..Len(created) : \A j \in 1..i : j \in 1..Len(created)
    BY LiveFacts
  <2> QED BY <1>1, <2>1, <2>2, LiveFacts DEF Ahead, NextDevice
<1>2. ASSUME v.next # Null
      PROVE  /\ NextDevice(v) = First(P)
             /\ Place(v.next) \in 1..Len(created) /\ created[Place(v.next)] = v.next
             /\ \A m \in Ahead(created, v) \cap Devices : \E i \in P : m = created[i]
  <2>1. PICK k \in 1..Len(created) : v.next = created[k]
    BY <1>2, LiveFacts DEF VisitOK, VisitIn
  <2>2. Place(v.next) = k
    BY <2>1, LiveFacts
  <2>3. {i \in Kids(v.node) : i >= Place(v.next) /\ Kind[created[i]] = "device"} = P
    BY LiveFacts DEF Kids
  <2>4. NextDevice(v) = First(P)
    BY <1>2, <2>3 DEF NextDevice
  <2>5. ASSUME NEW m \in Ahead(created, v) \cap Devices PROVE \E i \in P : m = created[i]
    <3>1. PICK i \in 1..Len(created) :
            m = created[i] /\ Parent[created[i]] = v.node /\ \E j \in 1..i : created[j] = v.next
      BY LiveFacts DEF Ahead
    <3>2. PICK j \in 1..i :
            m = created[i] /\ Parent[created[i]] = v.node /\ created[j] = v.next
      BY <3>1
    <3>3. j \in 1..Len(created)
      BY <3>2, LiveFacts
    <3>4. j = k
      BY <3>2, <3>3, <2>1, LiveFacts
    <3>5. i >= k
      BY <3>2, <3>4
    <3> QED BY <3>2, <3>5, <2>2 DEF Devices
  <2> QED BY <2>1, <2>2, <2>4, <2>5
<1>3. ASSUME NextDevice(v) = Null PROVE Ahead(created, v) \cap Devices = {}
  <2>1. CASE v.next = Null
    BY <1>1, <2>1
  <2>2. CASE v.next # Null
    <3>1. P = {}
      <4> SUFFICES ASSUME P # {} PROVE FALSE
        OBVIOUS
      <4>1. PICK i \in P : First(P) = created[i]
        BY FirstFacts
      <4> QED BY <4>1, <1>2, <1>3, <2>2, LiveFacts, ParentFacts DEF Entries
    <3> QED BY <3>1, <1>2, <2>2
  <2> QED BY <2>1, <2>2
<1>4. ASSUME NextDevice(v) # Null
      PROVE  LET d == NextDevice(v)
             IN  /\ d \in Live \cap Devices /\ Parent[d] = v.node
                 /\ Sibling(d) # Null => Sibling(d) \in Live /\ Parent[Sibling(d)] = v.node
                 /\ \A w : w.node = v.node /\ w.status = v.status /\ w.next = Sibling(d) =>
                      \A m \in Ahead(created, v) \cap Devices : m = d \/ m \in Ahead(created, w)
  <2> DEFINE d == NextDevice(v)
  <2>1. v.next # Null /\ P # {}
    BY <1>1, <1>2, <1>4, FirstFacts
  <2>2. PICK i \in P : d = created[i] /\ \A j \in P : i <= j
    BY <1>2, <2>1, FirstFacts
  <2>3. d \in Live \cap Devices /\ Parent[d] = v.node /\ Place(d) = i
    BY <2>2, LiveFacts DEF Devices
  <2> DEFINE Q == {j \in 1..Len(created) : Parent[created[j]] = v.node /\ j > i}
  <2>4. {j \in Kids(Parent[d]) : j > Place(d)} = Q
    BY <2>3, LiveFacts DEF Kids
  <2>5. Sibling(d) = First(Q)
    BY <2>4 DEF Sibling
  <2>6. /\ Q = {} => Sibling(d) = Null
        /\ Q # {} => \E j \in Q : Sibling(d) = created[j] /\ \A k \in Q : j <= k
    BY <2>5, FirstFacts
  <2>7. Sibling(d) # Null => Sibling(d) \in Live /\ Parent[Sibling(d)] = v.node
    BY <2>6, LiveFacts
  <2>8. ASSUME NEW w, w.node = v.node, w.status = v.status, w.next = Sibling(d),
               NEW m \in Ahead(created, v) \cap Devices, m # d
        PROVE  m \in Ahead(created, w)
    <3>1. PICK j \in P : m = created[j]
      BY <1>2, <2>1
    <3>2. j \in Q
      BY <3>1, <2>2, <2>8
    <3>3. PICK k \in Q : Sibling(d) = created[k] /\ \A l \in Q : k <= l
      BY <3>2, <2>6
    <3>4. k \in 1..j /\ j \in DOMAIN created /\ Parent[created[j]] = w.node /\ created[k] = w.next
      BY <3>2, <3>3, <2>8, LiveFacts
    <3>5. ~SkipChildren(w)
      BY <2>8 DEF Ahead, SkipChildren
    <3> QED BY <3>1, <3>4, <3>5 DEF Ahead
  <2> HIDE DEF d
  <2>9. /\ d \in Live \cap Devices /\ Parent[d] = v.node
        /\ Sibling(d) # Null => Sibling(d) \in Live /\ Parent[Sibling(d)] = v.node
        /\ \A w : w.node = v.node /\ w.status = v.status /\ w.next = Sibling(d) =>
             \A m \in Ahead(created, v) \cap Devices : m = d \/ m \in Ahead(created, w)
    BY <2>3, <2>7, <2>8
  <2> QED BY <2>9 DEF d
<1> QED BY <1>3, <1>4

\* One visit of a walk.
VisitRec == [node : Entries, next : Nodes \cup {Null}, status : Statuses \cup {"none"}]

\* The visit stack of a walk: one frame for each level of the tree.
WalkIn(w, L) ==
  /\ w \in Seq(VisitRec) /\ w # <<>>
  /\ \A j \in 1..Len(w) : /\ VisitIn(w[j], L) /\ Depth[w[j].node] = j
                          /\ j < Len(w) => ~SkipChildren(w[j])
WalkOK(w) == WalkIn(w, Live)

\* What a walk consists of.
LEMMA WalkFacts ==
  ASSUME NEW w, WalkOK(w)
  PROVE  /\ Len(w) \in Nat \ {0} /\ DOMAIN w = 1..Len(w)
         /\ Last(w) = w[Len(w)] /\ Last(w) \in VisitRec
         /\ VisitOK(Last(w)) /\ Depth[Last(w).node] = Len(w)
         /\ \A j \in 1..Len(w) : w[j] \in VisitRec
         /\ Front(w) \in Seq(VisitRec) /\ Len(Front(w)) = Len(w) - 1
         /\ \A j \in 1..(Len(w) - 1) : Front(w)[j] = w[j]
<1>1. Len(w) \in Nat \ {0} /\ DOMAIN w = 1..Len(w) /\ \A j \in 1..Len(w) : w[j] \in VisitRec
  BY EmptySeq, LenProperties, ElementOfSeq DEF WalkOK, WalkIn, VisitOK
<1>2. Last(w) = w[Len(w)] /\ Last(w) \in VisitRec
  BY <1>1 DEF Last
<1>3. VisitOK(Last(w)) /\ Depth[Last(w).node] = Len(w)
  BY <1>1, <1>2 DEF WalkOK, WalkIn, VisitOK
<1>4. /\ Front(w) \in Seq(VisitRec) /\ Len(Front(w)) = Len(w) - 1
      /\ \A j \in 1..(Len(w) - 1) : Front(w)[j] = w[j]
  BY <1>2, SeqSteps DEF WalkOK, WalkIn, VisitOK
<1> QED BY <1>1, <1>2, <1>3, <1>4

\* A first visit to an entry of the tree.
LEMMA VisitFacts ==
  ASSUME Tree, NEW n \in Live \cup {TreeRoot}
  PROVE  /\ Visit(n) \in VisitRec /\ VisitOK(Visit(n)) /\ ~SkipChildren(Visit(n))
         /\ Visit(n).node = n /\ Visit(n).status = "none" /\ Visit(n).next = ChildFirst(n)
         /\ AtFirst(created, Visit(n))
<1>1. n \in Entries
  BY LiveFacts DEF Entries
<1>2. /\ Visit(n).node = n /\ Visit(n).next = ChildFirst(n) /\ Visit(n).status = "none"
      /\ ~SkipChildren(Visit(n))
  BY DEF Visit, SkipChildren
<1>3. ChildFirst(n) = Null \/ (ChildFirst(n) \in Live /\ Parent[ChildFirst(n)] = n)
  BY <1>1, ChildFirstFacts
<1>4. Visit(n) \in VisitRec
  BY <1>1, <1>3, LiveFacts DEF Visit, VisitRec
<1>5. VisitOK(Visit(n))
  BY <1>2, <1>3 DEF VisitOK, VisitIn
<1>6. AtFirst(created, Visit(n))
  BY <1>1, <1>2, ChildFirstFacts
<1> QED BY <1>2, <1>4, <1>5, <1>6

\* All that a live device is below is live.
LEMMA LiveChain ==
  ASSUME Tree, NEW d \in Devices \cap Live
  PROVE  Chain(d) \subseteq Live \cup {TreeRoot}
<1>1. Live \in SUBSET Nodes /\ \A n \in Live : Parent[n] \in Live \cup {TreeRoot}
  BY LiveFacts DEF Tree
<1> QED BY <1>1, ChainInside DEF Devices

\* A visit that has all children of a device ahead is ahead of what is below it.
LEMMA BelowIsAhead ==
  ASSUME Tree, NEW d \in Devices \cap Live, NEW v, AtFirst(created, v),
         v.node \in (Above[d] \cap Devices) \cup {TreeRoot}
  PROVE  Ahead(created, v) \cap Chain(d) # {}
<1>1. PICK t \in Chain(d) \cap Devices : Parent[t] = v.node
  BY ChainFacts
<1>2. t \in Live
  BY LiveChain, ParentFacts
<1>3. t \in Ahead(created, v)
  BY <1>1, <1>2, LiveFacts DEF AtFirst
<1> QED BY <1>1, <1>3

\* A walk that begins will come to every device.
LEMMA FreshWalk ==
  ASSUME Tree, NEW f, f.walk = <<Visit(TreeRoot)>>
  PROVE  WalkOK(f.walk) /\ Last(f.walk) = Visit(TreeRoot)
         /\ \A d \in Devices \cap Live : IsPending(created, f, d)
<1> DEFINE v == Visit(TreeRoot)
<1>1. v \in VisitRec /\ VisitOK(v) /\ v.node = TreeRoot /\ AtFirst(created, v)
  BY VisitFacts
<1> HIDE DEF v
<1>2. f.walk = <<v>> /\ Len(f.walk) = 1 /\ DOMAIN f.walk = {1} /\ f.walk[1] = v
  BY DEF v
<1>3. WalkOK(f.walk)
  BY <1>1, <1>2, DepthFacts DEF WalkOK, WalkIn, VisitOK
<1>4. ASSUME NEW d \in Devices \cap Live PROVE IsPending(created, f, d)
  BY <1>1, <1>2, BelowIsAhead DEF IsPending
<1>5. Last(f.walk) = Visit(TreeRoot)
  BY <1>2 DEF Last, v
<1> QED BY <1>3, <1>4, <1>5

\* A visit that is over was ahead of no device.
LEMMA OverIsEmpty ==
  ASSUME Tree, NEW v, VisitOK(v), NextDevice(v) = Null \/ SkipChildren(v), NEW d \in Devices \cap Live
  PROVE  Ahead(created, v) \cap Chain(d) = {}
<1>1. Ahead(created, v) \cap Devices = {}
  BY NextDeviceFacts DEF Ahead
<1>2. Ahead(created, v) \subseteq Nodes
  BY LiveFacts DEF Ahead
<1>3. Chain(d) \subseteq Devices \cup {TreeRoot}
  BY ChainFacts DEF Chain
<1> QED BY <1>1, <1>2, <1>3, ParentFacts

\* The end of a visit leaves no device out.
LEMMA VisitEnds ==
  ASSUME Tree, NEW f, NEW g, WalkOK(f.walk), f.pc = "go", g.walk = Front(f.walk),
         NextDevice(Last(f.walk)) = Null \/ SkipChildren(Last(f.walk)),
         NEW d \in Devices \cap Live, IsPending(created, f, d)
  PROVE  Front(f.walk) # <<>> /\ IsPending(created, g, d)
<1> DEFINE w == f.walk
<1>1. PICK j \in 1..Len(w) : Ahead(created, w[j]) \cap Chain(d) # {}
  BY WalkFacts DEF IsPending
<1>2. j # Len(w)
  BY <1>1, WalkFacts, OverIsEmpty
<1>3. j \in 1..Len(g.walk) /\ g.walk[j] = w[j] /\ DOMAIN g.walk = 1..Len(g.walk)
  <2>1. g.walk \in Seq(VisitRec) /\ Len(g.walk) = Len(w) - 1
        /\ \A k \in 1..(Len(w) - 1) : g.walk[k] = w[k]
    BY WalkFacts
  <2>2. DOMAIN g.walk = 1..Len(g.walk)
    BY <2>1, LenProperties
  <2> QED BY <1>1, <1>2, <2>1, <2>2, WalkFacts
<1>4. g.walk # <<>>
  BY <1>3
<1> QED BY <1>1, <1>3, <1>4 DEF IsPending

\* The walk that a walk is after it has gone down to a device.
Down(w, n) == Front(w) \o <<[Last(w) EXCEPT !.next = Sibling(n)], Visit(n)>>

\* The parts of it.
LEMMA DownFacts ==
  ASSUME Tree, NEW w, WalkOK(w), ~SkipChildren(Last(w)), NEW n, n = NextDevice(Last(w)), n # Null
  PROVE  /\ WalkOK(Down(w, n)) /\ Last(Down(w, n)) = Visit(n) /\ Len(Down(w, n)) = Len(w) + 1
         /\ \A j \in 1..(Len(w) - 1) : Down(w, n)[j] = w[j]
         /\ Down(w, n)[Len(w)] = [Last(w) EXCEPT !.next = Sibling(n)]
         /\ n \in Live \cap Devices /\ Depth[n] = Len(w) + 1
<1> DEFINE u == [Last(w) EXCEPT !.next = Sibling(n)]
           x == Down(w, n)
           v == Visit(n)
<1>1. /\ n \in Live \cap Devices /\ Parent[n] = Last(w).node
      /\ Sibling(n) # Null => Sibling(n) \in Live /\ Parent[Sibling(n)] = Last(w).node
  BY WalkFacts, NextDeviceFacts
<1>2. Last(w) \in VisitRec /\ VisitOK(Last(w)) /\ Depth[Last(w).node] = Len(w)
      /\ Len(w) \in Nat \ {0} /\ Last(w) = w[Len(w)]
  BY WalkFacts
<1>3. u.node = Last(w).node /\ u.status = Last(w).status /\ u.next = Sibling(n) /\ u \in VisitRec
  BY <1>1, <1>2, LiveFacts DEF VisitRec
<1>4. v \in VisitRec /\ VisitOK(v) /\ v.node = n
  BY <1>1, VisitFacts
<1>5. VisitOK(u) /\ ~SkipChildren(u)
  BY <1>1, <1>2, <1>3 DEF VisitOK, VisitIn, SkipChildren
<1>6. Depth[n] = Len(w) + 1
  BY <1>1, <1>2, DepthFacts, ParentFacts
<1> HIDE DEF u, v
<1>7. /\ x \in Seq(VisitRec) /\ Len(x) = Len(w) + 1
      /\ \A j \in 1..(Len(w) - 1) : x[j] = w[j]
      /\ x[Len(w)] = u /\ x[Len(w) + 1] = v
  BY <1>3, <1>4, SeqSwapsAndGrows DEF Down, u, v, WalkOK, WalkIn
<1> HIDE DEF x
<1>8. Last(x) = v /\ x # <<>>
  BY <1>2, <1>7 DEF Last
<1>9. ASSUME NEW j \in 1..Len(x)
      PROVE  VisitOK(x[j]) /\ Depth[x[j].node] = j /\ (j < Len(x) => ~SkipChildren(x[j]))
  <2>1. CASE j \in 1..(Len(w) - 1)
    BY <2>1, <1>2, <1>7 DEF WalkOK, WalkIn, VisitOK
  <2>2. CASE j = Len(w)
    BY <2>2, <1>2, <1>3, <1>5, <1>7
  <2>3. CASE j = Len(w) + 1
    BY <2>3, <1>4, <1>6, <1>7
  <2> QED BY <2>1, <2>2, <2>3, <1>2, <1>7
<1>10. WalkOK(x)
  BY <1>7, <1>8, <1>9 DEF WalkOK, WalkIn, VisitOK
<1> QED BY <1>1, <1>6, <1>7, <1>8, <1>10 DEF u, v, x

\* Going down to a device leaves none out.
LEMMA VisitGoesDown ==
  ASSUME Tree, NEW f, NEW g, WalkOK(f.walk), f.pc = "go", ~SkipChildren(Last(f.walk)),
         NEW n, n = NextDevice(Last(f.walk)), n # Null, g.walk = Down(f.walk, n), g.pc = "visit",
         NEW d \in Devices \cap Live, IsPending(created, f, d)
  PROVE  IsPending(created, g, d)
<1> DEFINE w == f.walk
           x == g.walk
           u == [Last(w) EXCEPT !.next = Sibling(n)]
<1>1. WalkOK(w)
  OBVIOUS
<1>2. /\ WalkOK(x) /\ Last(x) = Visit(n) /\ Len(x) = Len(w) + 1
      /\ \A j \in 1..(Len(w) - 1) : x[j] = w[j]
      /\ x[Len(w)] = u /\ n \in Live \cap Devices
  BY DownFacts
<1>3. /\ Len(w) \in Nat \ {0} /\ Last(w) = w[Len(w)] /\ Last(w) \in VisitRec /\ VisitOK(Last(w))
      /\ DOMAIN x = 1..Len(x) /\ Last(x) = x[Len(x)]
  BY <1>1, <1>2, WalkFacts
<1>4. u.node = Last(w).node /\ u.status = Last(w).status /\ u.next = Sibling(n)
  BY <1>3 DEF VisitRec
<1>5. PICK j \in 1..Len(w) : Ahead(created, w[j]) \cap Chain(d) # {}
  BY <1>1, WalkFacts DEF IsPending
<1>6. CASE j # Len(w)
  <2>1. j \in DOMAIN x /\ x[j] = w[j]
    BY <1>2, <1>3, <1>6
  <2> QED BY <2>1, <1>5 DEF IsPending
<1>7. CASE j = Len(w)
  <2>1. PICK m : m \in Ahead(created, Last(w)) /\ m \in Chain(d)
    BY <1>3, <1>5, <1>7
  <2>2. m \in Devices
    <3>1. Ahead(created, Last(w)) \subseteq Nodes
      BY LiveFacts DEF Ahead
    <3>2. Chain(d) \subseteq Devices \cup {TreeRoot}
      BY ChainFacts DEF Chain
    <3> QED BY <2>1, <3>1, <3>2, ParentFacts
  <2> HIDE DEF u
  <2>3. m = n \/ m \in Ahead(created, u)
    <3>1. \A z : z.node = Last(w).node /\ z.status = Last(w).status /\ z.next = Sibling(n) =>
            \A k \in Ahead(created, Last(w)) \cap Devices : k = n \/ k \in Ahead(created, z)
      BY <1>3, NextDeviceFacts
    <3> QED BY <3>1, <1>4, <2>1, <2>2
  <2>4. CASE m \in Ahead(created, u)
    <3>1. Len(w) \in DOMAIN x
      BY <1>2, <1>3
    <3> QED BY <2>1, <2>4, <3>1, <1>2 DEF IsPending
  <2>5. CASE m = n /\ n = d
    BY <2>5, <1>2, VisitFacts DEF IsPending
  <2>6. CASE m = n /\ n # d
    <3>1. n \in Above[d] \cap Devices
      BY <2>1, <2>6, <1>2 DEF Chain
    <3>2. AtFirst(created, Visit(n)) /\ Visit(n).node = n
      BY <1>2, VisitFacts
    <3>3. Ahead(created, Last(x)) \cap Chain(d) # {}
      BY <3>1, <3>2, <1>2, BelowIsAhead
    <3>4. Len(x) \in DOMAIN x
      BY <1>2, <1>3
    <3> QED BY <3>3, <3>4, <1>3 DEF IsPending
  <2> QED BY <2>3, <2>4, <2>5, <2>6
<1> QED BY <1>6, <1>7

\* The walk does not end because its stack is full.
LEMMA DepthSuffices ==
  ASSUME Tree
  PROVE  TreeMaxDepth \in Nat /\ \A n \in Live : TreeMaxDepth >= Depth[n]
<1> DEFINE S == {StartDepth} \cup {Depth[m] : m \in Live}
           T == {k \in Nat : k <= Len(created) =>
                   \E x \in S : x >= StartDepth /\ \A i \in 1..k : x >= Depth[created[i]]}
<1>1. StartDepth \in Nat /\ \A x \in S : x \in Nat
  BY DevicesAssumption, DepthFacts, LiveFacts DEF Entries
<1>2. 0 \in T
  BY <1>1
<1>3. ASSUME NEW k \in Nat, k \in T PROVE k + 1 \in T
  <2> SUFFICES ASSUME k + 1 <= Len(created)
               PROVE  \E x \in S : x >= StartDepth /\ \A i \in 1..(k + 1) : x >= Depth[created[i]]
    OBVIOUS
  <2>1. Len(created) \in Nat
    BY LiveFacts
  <2>2. PICK x \in S : x >= StartDepth /\ \A i \in 1..k : x >= Depth[created[i]]
    BY <1>3, <2>1
  <2>3. created[k + 1] \in Live
    BY <2>1, LiveFacts
  <2> DEFINE y == Depth[created[k + 1]]
  <2>4. y \in S /\ y \in Nat /\ x \in Nat
    BY <1>1, <2>3
  <2>5. ASSUME NEW i \in 1..(k + 1) PROVE i \in 1..k \/ Depth[created[i]] = y
    OBVIOUS
  <2>6. ASSUME NEW i \in 1..k PROVE Depth[created[i]] \in Nat
    <3>1. created[i] \in Live
      BY <2>1, LiveFacts
    <3> QED BY <3>1, <1>1
  <2> HIDE DEF y, S
  <2>7. CASE x >= y
    BY <2>7, <2>2, <2>5
  <2>8. CASE y >= x
    BY <2>8, <1>1, <2>2, <2>4, <2>5, <2>6
  <2> QED BY <2>4, <2>7, <2>8
<1> HIDE DEF T
<1>4. Len(created) \in T
  BY <1>2, <1>3, LiveFacts, SetInduction
<1>5. \E x \in S : \A y \in S : x >= y
  <2>1. PICK x \in S : x >= StartDepth /\ \A i \in 1..Len(created) : x >= Depth[created[i]]
    BY <1>4, LiveFacts DEF T
  <2>2. \A y \in S : x >= y
    BY <2>1, LiveFacts
  <2> QED BY <2>2
<1>6. TreeMaxDepth \in S /\ \A y \in S : TreeMaxDepth >= y
  BY <1>5 DEF TreeMaxDepth, Max
<1>7. TreeMaxDepth \in Nat
  BY <1>1, <1>6
<1> QED BY <1>6, <1>7

\* The walk that a walk is when its last visit has come to a status.
WithStatus(w, status) == Append(Front(w), [Last(w) EXCEPT !.status = status])

\* The parts of it.
LEMMA StatusWalk ==
  ASSUME Tree, NEW w, WalkOK(w), NEW status \in Statuses \cup {"none"}
  PROVE  LET x == WithStatus(w, status)
         IN  /\ WalkOK(x) /\ Len(x) = Len(w)
             /\ \A j \in 1..(Len(w) - 1) : x[j] = w[j]
             /\ Last(x).node = Last(w).node /\ Last(x).status = status /\ Last(x).next = Last(w).next
             /\ ~SkipChildren(Last(x)) => Ahead(created, Last(w)) \subseteq Ahead(created, Last(x))
             /\ ~SkipChildren(Last(x)) /\ AtFirst(created, Last(w)) => AtFirst(created, Last(x))
<1> DEFINE v == Last(w)
           u == [v EXCEPT !.status = status]
           x == WithStatus(w, status)
<1>1. /\ v \in VisitRec /\ VisitOK(v) /\ Depth[v.node] = Len(w)
      /\ Len(w) \in Nat \ {0} /\ v = w[Len(w)] /\ DOMAIN w = 1..Len(w)
  BY WalkFacts
<1>2. u.node = v.node /\ u.status = status /\ u.next = v.next /\ u \in VisitRec
  BY <1>1 DEF VisitRec
<1>3. VisitOK(u)
  BY <1>1, <1>2 DEF VisitOK, VisitIn
<1> HIDE DEF u, v
<1>4. /\ x \in Seq(VisitRec) /\ Len(x) = Len(w)
      /\ \A j \in 1..(Len(w) - 1) : x[j] = w[j]
      /\ x[Len(w)] = u
  BY <1>2, SeqSteps DEF u, v, WalkOK, WalkIn, WithStatus
<1> HIDE DEF x
<1>5. Last(x) = u /\ x # <<>> /\ DOMAIN x = 1..Len(x)
  BY <1>1, <1>4, LenProperties DEF Last
<1>6. ASSUME NEW j \in 1..Len(x)
      PROVE  VisitOK(x[j]) /\ Depth[x[j].node] = j /\ (j < Len(x) => ~SkipChildren(x[j]))
  <2>1. CASE j \in 1..(Len(w) - 1)
    BY <2>1, <1>1, <1>4 DEF WalkOK, WalkIn, VisitOK
  <2>2. CASE j = Len(w)
    BY <2>2, <1>1, <1>2, <1>3, <1>4
  <2>3. j \in 1..(Len(w) - 1) \/ j = Len(w)
    <3>1. Len(x) = Len(w) /\ Len(w) \in Nat \ {0}
      BY <1>1, <1>4
    <3>2. j \in 1..Len(x)
      OBVIOUS
    <3> QED BY ONLY <3>1, <3>2
  <2> QED BY <2>1, <2>2, <2>3
<1>7. WalkOK(x)
  BY <1>4, <1>5, <1>6 DEF WalkOK, WalkIn, VisitOK
<1>8. ASSUME ~SkipChildren(u) PROVE Ahead(created, v) \subseteq Ahead(created, u)
  BY <1>2, <1>8 DEF Ahead
<1>9. ASSUME ~SkipChildren(u), AtFirst(created, v) PROVE AtFirst(created, u)
  BY <1>2, <1>8, <1>9 DEF AtFirst
<1>10. /\ WalkOK(x) /\ Len(x) = Len(w)
       /\ \A j \in 1..(Len(w) - 1) : x[j] = w[j]
       /\ Last(x).node = Last(w).node /\ Last(x).status = status /\ Last(x).next = Last(w).next
       /\ ~SkipChildren(Last(x)) => Ahead(created, Last(w)) \subseteq Ahead(created, Last(x))
       /\ ~SkipChildren(Last(x)) /\ AtFirst(created, Last(w)) => AtFirst(created, Last(x))
  BY <1>2, <1>4, <1>5, <1>7, <1>8, <1>9 DEF v
<1> QED BY <1>10 DEF x

\* A device has been asked: it is done with, and so is what is below it if it does
\* not function.
LEMMA StatusIsKnown ==
  ASSUME Tree, NEW f, NEW g, WalkOK(f.walk), NEW status \in Statuses \cup {"none"},
         g.walk = WithStatus(f.walk, status)
  PROVE  \A d \in Devices \cap Live : IsPending(created, f, d) =>
           \/ d = Last(f.walk).node \/ IsPending(created, g, d)
           \/ SkipChildren(Last(g.walk)) /\ Last(f.walk).node \in Above[d]
<1> DEFINE w == f.walk
           x == g.walk
           v == Last(w)
           u == Last(x)
<1>1. Len(w) \in Nat \ {0} /\ v = w[Len(w)] /\ DOMAIN w = 1..Len(w)
  BY WalkFacts
<1>2. WalkOK(w) /\ x = WithStatus(w, status)
  OBVIOUS
<1> HIDE DEF w, x
<1>3. /\ WalkOK(x) /\ Len(x) = Len(w) /\ \A j \in 1..(Len(w) - 1) : x[j] = w[j]
      /\ ~SkipChildren(u) => Ahead(created, v) \subseteq Ahead(created, u)
  BY <1>2, StatusWalk
<1>4. u = x[Len(w)] /\ DOMAIN x = 1..Len(x)
  BY <1>3, WalkFacts
<1> HIDE DEF u, v
<1> SUFFICES ASSUME NEW d \in Devices \cap Live, IsPending(created, f, d), d # v.node
             PROVE  IsPending(created, g, d) \/ (SkipChildren(u) /\ v.node \in Above[d])
  BY DEF u, v, w, x
<1>5. PICK j \in 1..Len(w) : Ahead(created, w[j]) \cap Chain(d) # {}
  BY <1>1 DEF IsPending, v, w
<1>6. CASE j # Len(w)
  <2>1. j \in DOMAIN x /\ x[j] = w[j]
    BY <1>1, <1>3, <1>4, <1>5, <1>6
  <2> QED BY <2>1, <1>5 DEF IsPending, x
<1>7. CASE j = Len(w) /\ ~SkipChildren(u)
  <2>1. Ahead(created, x[j]) \cap Chain(d) # {} /\ j \in DOMAIN x
    BY <1>1, <1>3, <1>4, <1>5, <1>7
  <2> QED BY <2>1 DEF IsPending, x
<1>8. CASE j = Len(w) /\ SkipChildren(u)
  <2>1. PICK m : m \in Ahead(created, v) /\ m \in Chain(d)
    BY <1>1, <1>5, <1>8
  <2>2. m \in Nodes /\ Parent[m] = v.node
    BY <2>1, LiveFacts DEF Ahead
  <2>3. m \in Devices
    BY <2>1, <2>2, ChainFacts, ParentFacts DEF Chain
  <2> QED BY <2>1, <2>2, <2>3, <1>8, ChainFacts
<1> QED BY <1>6, <1>7, <1>8

\* New nodes are linked behind the others.
LEMMA TreeGrows ==
  ASSUME NEW c \in Seq(Nodes), NEW e \in Seq(Nodes),
         Len(c) <= Len(e), \A i \in 1..Len(c) : e[i] = c[i]
  PROVE  /\ \A v : Ahead(c, v) \subseteq Ahead(e, v)
         /\ \A f, d : IsPending(c, f, d) => IsPending(e, f, d)
         /\ \A v : AtFirst(c, v) /\ v.next \in ToSet(c) /\ ~SkipChildren(v) => AtFirst(e, v)
<1>1. Len(c) \in Nat /\ Len(e) \in Nat /\ DOMAIN c = 1..Len(c) /\ DOMAIN e = 1..Len(e)
  BY LenProperties
<1>2. ASSUME NEW v PROVE Ahead(c, v) \subseteq Ahead(e, v)
  <2> SUFFICES ASSUME NEW m \in Ahead(c, v) PROVE m \in Ahead(e, v)
    OBVIOUS
  <2>1. ~SkipChildren(v)
    BY DEF Ahead
  <2>2. PICK i \in 1..Len(c) : m = c[i] /\ Parent[c[i]] = v.node /\ \E k \in 1..i : c[k] = v.next
    BY <1>1, <2>1 DEF Ahead
  <2>3. PICK k \in 1..i : c[k] = v.next
    BY <2>2
  <2>4. i \in DOMAIN e /\ e[i] = c[i] /\ e[k] = v.next
    BY <1>1, <2>2, <2>3
  <2> QED BY <2>1, <2>2, <2>3, <2>4 DEF Ahead
<1>3. ASSUME NEW f, NEW d, IsPending(c, f, d) PROVE IsPending(e, f, d)
  BY <1>2, <1>3 DEF IsPending
<1>4. ASSUME NEW v, AtFirst(c, v), v.next \in ToSet(c), ~SkipChildren(v) PROVE AtFirst(e, v)
  <2> SUFFICES ASSUME NEW i \in 1..Len(e), Parent[e[i]] = v.node PROVE e[i] \in Ahead(e, v)
    BY <1>1 DEF AtFirst
  <2>1. CASE i <= Len(c)
    BY <2>1, <1>1, <1>2, <1>4 DEF AtFirst
  <2>2. CASE i > Len(c)
    <3>1. PICK k \in 1..Len(c) : c[k] = v.next
      BY <1>1, <1>4 DEF ToSet
    <3>2. k \in 1..i /\ e[k] = v.next
      BY <1>1, <2>2, <3>1
    <3> QED BY <3>2, <1>1, <1>4 DEF Ahead
  <2> QED BY <2>1, <2>2, <1>1
<1> QED BY <1>2, <1>3, <1>4

\* The table of a node.
LEMMA TableFacts ==
  /\ \A n \in Nodes : TableOf(n) \in Tables /\ n \in ToSet(Declares[TableOf(n)])
  /\ \A t \in Tables : \A n \in ToSet(Declares[t]) : n \in Nodes /\ TableOf(n) = t
<1>1. ASSUME NEW t \in Tables, NEW n \in ToSet(Declares[t]) PROVE n \in Nodes
  <2>1. Declares[t] \in Seq(Nodes)
    BY DevicesAssumption
  <2> QED BY <2>1, LenProperties, ElementOfSeq DEF ToSet
<1>2. ASSUME NEW n \in Nodes PROVE TableOf(n) \in Tables /\ n \in ToSet(Declares[TableOf(n)])
  <2>1. \E t \in Tables : n \in ToSet(Declares[t])
    BY DevicesAssumption
  <2> HIDE DEF ToSet
  <2> QED BY <2>1 DEF TableOf
<1>3. ASSUME NEW t \in Tables, NEW n \in ToSet(Declares[t]) PROVE TableOf(n) = t
  <2>1. \A u \in Tables : t # u => ToSet(Declares[t]) \cap ToSet(Declares[u]) = {}
    BY DevicesAssumption
  <2> QED BY <1>1, <1>2, <2>1
<1> QED BY <1>1, <1>2, <1>3

-----------------------------------------------------------------------------
(* The invariant. *)

\* The calls that are in progress, by what they are: the local state of each.
LoadFrame == [op : {"load"}, pc : {"names", "full", "regs"}, table : Tables,
              by : {"host", "code"}, i : 1..(Len(Spaces) + 1)]
CompleteFrame == [op : {"complete"}, pc : {"regs"}, i : 1..(Len(Spaces) + 1), initialize : BOOLEAN]
                   \cup [op : {"complete"}, pc : {"clear"}, i : 2..(Len(Spaces) + 1), initialize : BOOLEAN]
BroadcastFrame == [op : {"broadcast"}, pc : {"go", "visit"}, walk : Seq(VisitRec),
                   space : SpaceTypes, enable : BOOLEAN]
RootsFrame == [op : {"devices"}, pc : {"roots"}, walk : {<<>>}, i : 1..(Len(RootInitializers) + 1)]
DevicesFrame == [op : {"devices"}, pc : {"go", "visit"}, walk : Seq(VisitRec)]
MethodFrame == [op : {"method"}, node : Nodes, why : {"_REG", "_INI", "root"}, loaded : BOOLEAN]
HostFrame == [op : {"host"}, node : Devices]
Frame == LoadFrame \cup CompleteFrame \cup BroadcastFrame \cup RootsFrame \cup DevicesFrame
           \cup MethodFrame \cup HostFrame

\* The types, with those of the calls.
Types == TypeOK /\ stack \in Seq(Frame)

\* Nothing of a table exists before it is loaded, and no node is told before it exists.
Made ==
  /\ Tree
  /\ \A t \in Tables : tables[t] = "new" => ToSet(Declares[t]) \cap Live = {}
  /\ \A n \in Nodes \ Live, s \in SpaceTypes : ~told[n][s]

\* A table is being loaded while one call is there that loads it.
LoadsOK ==
  /\ \A i \in 1..Len(stack) : stack[i].op = "load" =>
       /\ tables[stack[i].table] = (IF stack[i].pc = "regs" THEN "loaded" ELSE "running")
       /\ IF stack[i].pc = "regs" THEN complete ELSE stack[i].i = 1
       /\ stack[i].pc = "names" => i = Len(stack) /\ ToSet(Declares[stack[i].table]) \cap Live = {}
  /\ \A i, j \in 1..Len(stack) :
       stack[i].op = "load" /\ stack[j].op = "load" /\ stack[i].table = stack[j].table => i = j
  /\ \A t \in Tables : tables[t] = "running" =>
       \E i \in 1..Len(stack) : stack[i].op = "load" /\ stack[i].table = t

\* A call that is walking the tree.
IsWalk(f) == f.op \in {"broadcast", "devices"} /\ f.pc # "roots"

\* A walk is at a place in the tree; when it is about to call a node's methods, the
\* node's children are all ahead.
WalksOK ==
  \A i \in 1..Len(stack) : IsWalk(stack[i]) =>
    /\ WalkOK(stack[i].walk)
    /\ stack[i].pc = "visit" =>
         LET v == Last(stack[i].walk)
         IN  i = Len(stack) /\ v.node \in Devices \cap Live /\ ~SkipChildren(v) /\ AtFirst(created, v)

\* What a call that initialises a device is above.
InitOK ==
  /\ \A i \in 1..Len(stack) : stack[i].op = "method" =>
       /\ stack[i].why = "root" => Kind[stack[i].node] = "_INI"
       /\ stack[i].why = "_INI" => Parent[stack[i].node] \in Devices
  /\ \A i \in 1..Len(stack), d \in Devices : InitializedBy(stack[i], d) =>
       /\ i > 1 /\ stack[i - 1].op = "devices" /\ stack[i - 1].pc = "go" /\ d \in Live
       /\ LET v == Last(stack[i - 1].walk)
          IN  v.node = d /\ v.status = "ready" /\ v.next \in Live /\ AtFirst(created, v)

\* A device is announced once, unless a table was loaded in the meantime.
Announcements ==
  \A d \in Devices \ reentered :
    /\ announced[d] <= 1
    /\ \A i, j \in 1..Len(stack) : InitializedBy(stack[i], d) /\ i < j =>
         stack[j].op \notin {"load", "devices"}
    /\ \A i, j \in 1..Len(stack) : InitializedBy(stack[i], d) /\ InitializedBy(stack[j], d) => i = j
    /\ \A i \in 1..Len(stack) : stack[i].op = "method" /\ InitializedBy(stack[i], d) => announced[d] = 0
    /\ announced[d] = 1 =>
         inited[d] \/ \E i \in 1..Len(stack) : stack[i].op = "host" /\ stack[i].node = d

\* A table that is loaded by a device's _INI is not the table of the device.
InitAboveLoad ==
  \A i, j \in 1..Len(stack) : Ini(stack[i]) /\ stack[j].op = "load" /\ i < j =>
    stack[j].table # TableOf(Parent[stack[i].node])

\* Before the initial load is complete no _REG has run, and a handler is pending.
BeforeComplete ==
  ~complete => /\ unsure = {} /\ ~wanted /\ \A i \in 1..Len(stack) : stack[i].op # "complete"
               /\ \A s \in SpaceTypes : handlers[s].enable => handlers[s].pending
               /\ \A n \in Nodes, s \in SpaceTypes : ~told[n][s]

\* The _REG methods of devices, in tables that have not failed.
Known == {n \in Live : /\ Kind[n] = "_REG" /\ Parent[n] \in Devices
                       /\ tables[TableOf(n)] \in {"running", "loaded"}}
Sure == SpaceTypes \ (Quiet \cup unsure)

\* The table of n is being loaded above the i-th call.
LoadedAbove(st, n, i) ==
  \E j \in 1..Len(st) : j > i /\ st[j].op = "load" /\ st[j].table = TableOf(n)

\* A broadcast of s above the i-th call will come to the device of n.
WillBeTold(st, c, n, s, i) ==
  \E k \in 1..Len(st) : /\ k > i /\ st[k].op = "broadcast" /\ st[k].space = s
                        /\ IsPending(c, st[k], Parent[n])

\* What a broadcast has passed by was told, or is in a table that is being loaded.
BroadcastsTell ==
  \A k \in 1..Len(stack) : stack[k].op = "broadcast" /\ stack[k].space \in Sure =>
    LET s == stack[k].space
    IN /\ stack[k].enable = handlers[s].enable
       /\ \A n \in Known : \/ told[n][s] = handlers[s].enable
                           \/ IsPending(created, stack[k], Parent[n])
                           \/ LoadedAbove(stack, n, k) /\ ~told[n][s]

\* What was told of a handler that is there no longer will be told of that.
DisabledTold ==
  \A n \in Known, s \in Sure : ~handlers[s].enable /\ told[n][s] =>
    WillBeTold(stack, created, n, s, 0)

\* A load has broadcast the handlers that its loop has passed.
LoadsTell ==
  \A j \in 1..Len(stack) : stack[j].op = "load" /\ stack[j].pc = "regs" =>
    \A m \in 1..(stack[j].i - 1) : Spaces[m] \in Sure /\ handlers[Spaces[m]].enable =>
      \A n \in Known : \/ told[n][Spaces[m]] \/ WillBeTold(stack, created, n, Spaces[m], j)
                       \/ LoadedAbove(stack, n, j)

\* Devices are initialised after the broadcasts.
DevicesTold ==
  \A i \in 1..Len(stack) : stack[i].op = "devices" =>
    \A n \in Known, s \in Sure : \/ told[n][s] = handlers[s].enable \/ Broadcasting(s)
                                 \/ LoadedAbove(stack, n, i)

\* A handler that is there has been broadcast, or a loop is going to.
EnabledTold ==
  complete =>
    \A n \in Known, m \in 1..Len(Spaces) :
      tables[TableOf(n)] = "loaded" /\ Spaces[m] \in Sure /\ handlers[Spaces[m]].enable =>
        \/ told[n][Spaces[m]] \/ WillBeTold(stack, created, n, Spaces[m], 0)
        \/ \E j \in 1..Len(stack) : stack[j].op = "load" /\ stack[j].pc = "regs" /\ stack[j].i <= m
        \/ \E j \in 1..Len(stack) : /\ stack[j].op = "complete" /\ stack[j].i <= m
                                    /\ handlers[Spaces[m]].pending

\* A device is initialised, was asked, or is below one that does not function.
Handled(d) == \/ inited[d] \/ asked[d] # "never"
              \/ \E a \in Above[d] \cap Devices : ~inited[a] /\ asked[a] = "cut"

\* A device is done with, or a walk will come to it.
DevicesHandled ==
  wanted => \A d \in Devices \cap Live : tables[TableOf(d)] = "loaded" =>
    \/ Handled(d)
    \/ \E i \in 1..Len(stack) : /\ stack[i].op = "devices"
                                /\ stack[i].pc = "roots" \/ IsPending(created, stack[i], d)
    \/ \E i \in 1..Len(stack) : stack[i].op = "load" /\ stack[i].pc = "regs"
    \/ \E i \in 1..Len(stack) : stack[i].op = "complete" /\ stack[i].initialize

\* What the _REG methods have been told, and will be.
Regions == BroadcastsTell /\ DisabledTold /\ LoadsTell /\ DevicesTold /\ EnabledTold

\* The inductive invariant.
DevicesInv ==
  /\ Types /\ Made /\ LoadsOK /\ WalksOK /\ InitOK /\ Announcements /\ InitAboveLoad
  /\ BeforeComplete /\ Regions /\ DevicesHandled

-----------------------------------------------------------------------------
(* The steps of the stack. *)

\* The stack t is s after a call, after its top went on, after both, and after a return.
Pushed(s, t, g) ==
  /\ t \in Seq(Frame) /\ Len(t) = Len(s) + 1 /\ t[Len(s) + 1] = g
  /\ \A i \in 1..Len(s) : t[i] = s[i]
Swapped(s, t, f) ==
  /\ t \in Seq(Frame) /\ Len(t) = Len(s) /\ t[Len(s)] = f
  /\ \A i \in 1..(Len(s) - 1) : t[i] = s[i]
SwappedAndPushed(s, t, f, g) ==
  /\ t \in Seq(Frame) /\ Len(t) = Len(s) + 1 /\ t[Len(s)] = f /\ t[Len(s) + 1] = g
  /\ \A i \in 1..(Len(s) - 1) : t[i] = s[i]
Popped(s, t) ==
  /\ t \in Seq(Frame) /\ Len(t) = Len(s) - 1
  /\ \A i \in 1..(Len(s) - 1) : t[i] = s[i]

\* What the operators on the stack do.
LEMMA StackSteps ==
  ASSUME NEW s \in Seq(Frame)
  PROVE  /\ \A g \in Frame : Pushed(s, Append(s, g), g)
         /\ s # <<>> => \A f \in Frame : Swapped(s, Append(Front(s), f), f)
         /\ s # <<>> => \A f, g \in Frame : SwappedAndPushed(s, Front(s) \o <<f, g>>, f, g)
         /\ s # <<>> => Popped(s, Front(s))
<1> HIDE DEF Frame
<1>1. ASSUME NEW g \in Frame PROVE Pushed(s, Append(s, g), g)
  BY SeqSteps DEF Pushed
<1>2. ASSUME s # <<>>, NEW f \in Frame PROVE Swapped(s, Append(Front(s), f), f) /\ Popped(s, Front(s))
  BY <1>2, SeqSteps DEF Swapped, Popped
<1>3. ASSUME s # <<>>, NEW f \in Frame, NEW g \in Frame
      PROVE  SwappedAndPushed(s, Front(s) \o <<f, g>>, f, g)
  BY <1>3, SeqSwapsAndGrows DEF SwappedAndPushed
<1>4. s # <<>> => Popped(s, Front(s))
  BY <1>2, EmptySeq, ElementOfSeq DEF Popped
<1> QED BY <1>1, <1>2, <1>3, <1>4

\* The frames of the stack.
LEMMA StackFacts ==
  ASSUME Types
  PROVE  /\ Len(stack) \in Nat /\ DOMAIN stack = 1..Len(stack)
         /\ \A i \in 1..Len(stack) : stack[i] \in Frame
         /\ Idle <=> Len(stack) = 0
         /\ ~Idle => Len(stack) \in 1..Len(stack) /\ Top \in Frame
<1> HIDE DEF Frame
<1>1. stack \in Seq(Frame)
  BY DEF Types
<1>2. Len(stack) \in Nat /\ DOMAIN stack = 1..Len(stack) /\ (Idle <=> Len(stack) = 0)
  BY <1>1, LenProperties, EmptySeq DEF Idle
<1>3. \A i \in 1..Len(stack) : stack[i] \in Frame
  BY <1>1, ElementOfSeq
<1> QED BY <1>2, <1>3 DEF Top

\* The kinds of frames.
LEMMA FrameFacts ==
  ASSUME NEW f \in Frame
  PROVE  /\ f.op \in {"load", "complete", "broadcast", "devices", "method", "host"}
         /\ f.op = "load" => f \in LoadFrame
         /\ f.op = "complete" => f \in CompleteFrame
         /\ f.op = "broadcast" => f \in BroadcastFrame
         /\ f.op = "devices" /\ f.pc = "roots" => f \in RootsFrame
         /\ f.op = "devices" /\ f.pc # "roots" => f \in DevicesFrame
         /\ f.op = "method" => f \in MethodFrame
         /\ f.op = "host" => f \in HostFrame
BY DEF Frame, LoadFrame, CompleteFrame, BroadcastFrame, RootsFrame, DevicesFrame, MethodFrame, HostFrame

\* Which are the top frames that are looked for.
LEMMA AtFacts ==
  ASSUME Types, NEW op, Running(op)
  PROVE  /\ ~Idle /\ stack # <<>> /\ Top.op = op /\ Top \in Frame
         /\ Len(stack) \in Nat \ {0} /\ Top = stack[Len(stack)]
BY StackFacts DEF Running, Idle, Top

-----------------------------------------------------------------------------
(* What each action does. *)

\* The region spaces and the root initialisers are in an order.
LEMMA SpacesFacts ==
  /\ Len(Spaces) \in Nat /\ \A m \in 1..Len(Spaces) : Spaces[m] \in SpaceTypes
  /\ \A s \in SpaceTypes : \E m \in 1..Len(Spaces) : s = Spaces[m]
  /\ \A m, k \in 1..Len(Spaces) : Spaces[m] = Spaces[k] => m = k
  /\ Len(RootInitializers) \in Nat
  /\ \A i \in 1..Len(RootInitializers) :
       RootInitializers[i] \in Nodes /\ Kind[RootInitializers[i]] = "_INI"
<1>1. Spaces \in Seq(SpaceTypes) /\ IsInjective(Spaces)
      /\ RootInitializers \in Seq({n \in Nodes : Kind[n] = "_INI"})
  BY DevicesAssumption
<1>2. Len(Spaces) \in Nat /\ DOMAIN Spaces = 1..Len(Spaces)
      /\ \A m \in 1..Len(Spaces) : Spaces[m] \in SpaceTypes
  BY <1>1, LenProperties, ElementOfSeq
<1>3. Len(RootInitializers) \in Nat
      /\ \A i \in 1..Len(RootInitializers) : RootInitializers[i] \in {n \in Nodes : Kind[n] = "_INI"}
  BY <1>1, LenProperties, ElementOfSeq
<1>4. \A s \in SpaceTypes : \E m \in 1..Len(Spaces) : s = Spaces[m]
  BY <1>2 DEF SpaceTypes, ToSet
<1>5. \A m, k \in 1..Len(Spaces) : Spaces[m] = Spaces[k] => m = k
  BY <1>1, <1>2 DEF IsInjective
<1> QED BY <1>2, <1>3, <1>4, <1>5

\* The load of a table begins.
LoadBegun(t) ==
  /\ stack' \in Seq(Frame) /\ Len(stack') = Len(stack) + 1
  /\ LET g == stack'[Len(stack) + 1]
     IN  g \in Frame /\ g.op = "load" /\ g.pc = "names" /\ g.table = t /\ g.i = 1
  /\ \A i \in 1..Len(stack) :
       /\ stack'[i].op = stack[i].op
       /\ stack[i].op # "method" => stack'[i] = stack[i]
       /\ stack[i].op = "method" => stack'[i].node = stack[i].node /\ stack'[i].why = stack[i].why
  /\ Len(stack) > 0 => Top.op = "method" \/ (Top.op = "load" /\ Top.pc = "full")
  /\ tables[t] = "new" /\ tables' = [tables EXCEPT ![t] = "running"]
  /\ reentered \subseteq reentered' /\ reentered' \subseteq Devices
  /\ Len(stack) > 0 /\ Top.op = "method" =>
       \A d \in Devices \ reentered', i \in 1..Len(stack) : ~InitializedBy(stack[i], d)
  /\ UNCHANGED <<created, complete, handlers, inited, registrations, told, asked, announced,
                 unsure, wanted>>

\* Each of the three ways into a load begins it.
LEMMA LoadBegins ==
  ASSUME DevicesInv, NEW t \in Tables, HostLoads(t) \/ FullPassLoads(t) \/ MethodLoads(t)
  PROVE  LoadBegun(t)
<1> USE DEF history
<1>1. Types
  BY DEF DevicesInv
<1>2. Load(t, "host") \in Frame /\ Load(t, "code") \in Frame
  <2>1. Len(Spaces) \in Nat
    BY SpacesFacts
  <2> QED BY <2>1 DEF Load, Frame, LoadFrame
<1>3. CASE HostLoads(t)
  <2>1. Len(stack) = 0
    BY <1>1, <1>3, StackFacts DEF HostLoads
  <2>2. Pushed(stack, stack', Load(t, "host"))
    BY <1>1, <1>2, <1>3, StackSteps DEF HostLoads, Call, Types
  <2>3. reentered' = reentered /\ reentered \subseteq Devices
    BY <1>1, <1>3 DEF HostLoads, Types, TypeOK
  <2> QED BY <1>2, <1>3, <2>1, <2>2, <2>3 DEF HostLoads, LoadBegun, Load, Pushed
<1>4. CASE FullPassLoads(t)
  <2>1. Top.op = "load" /\ Top.pc = "full"
    BY <1>4 DEF FullPassLoads, At, Running
  <2>2. Pushed(stack, stack', Load(t, "code"))
    BY <1>1, <1>2, <1>4, StackSteps DEF FullPassLoads, Call, Types
  <2>3. reentered' = reentered /\ reentered \subseteq Devices
    BY <1>1, <1>4 DEF FullPassLoads, Types, TypeOK
  <2> QED BY <1>2, <1>4, <2>1, <2>2, <2>3 DEF FullPassLoads, LoadBegun, Load, Pushed
<1>5. CASE MethodLoads(t)
  <2>1. /\ ~Idle /\ stack # <<>> /\ Top.op = "method" /\ Top \in Frame
        /\ Len(stack) \in Nat \ {0} /\ Top = stack[Len(stack)]
    BY <1>1, <1>5, AtFacts DEF MethodLoads
  <2> DEFINE f == [Top EXCEPT !.loaded = TRUE]
  <2>2. Top \in MethodFrame
    BY <2>1, FrameFacts
  <2>3. f \in MethodFrame /\ f.op = "method" /\ f.node = Top.node /\ f.why = Top.why
    BY <2>2 DEF MethodFrame
  <2>4. f \in Frame
    BY <2>3 DEF Frame
  <2>5. stack' = Front(stack) \o <<f, Load(t, "code")>>
    BY <1>5 DEF MethodLoads, ContinueAndCall
  <2> HIDE DEF f
  <2>6. SwappedAndPushed(stack, stack', f, Load(t, "code"))
    BY <1>1, <1>2, <2>1, <2>4, <2>5, StackSteps DEF Types
  <2>7. reentered' = reentered \cup {d \in Devices : \E i \in 1..Len(stack) : InitializedBy(stack[i], d)}
        /\ reentered \subseteq Devices
    BY <1>1, <1>5, StackFacts DEF MethodLoads, Types, TypeOK
  <2>8. stack' \in Seq(Frame) /\ Len(stack') = Len(stack) + 1
        /\ LET g == stack'[Len(stack) + 1]
           IN  g \in Frame /\ g.op = "load" /\ g.pc = "names" /\ g.table = t /\ g.i = 1
    BY <1>2, <2>6 DEF SwappedAndPushed, Load
  <2>9. \A i \in 1..Len(stack) :
          /\ stack'[i].op = stack[i].op
          /\ stack[i].op # "method" => stack'[i] = stack[i]
          /\ stack[i].op = "method" => stack'[i].node = stack[i].node /\ stack'[i].why = stack[i].why
    <3> SUFFICES ASSUME NEW i \in 1..Len(stack)
                 PROVE  /\ stack'[i].op = stack[i].op
                        /\ stack[i].op # "method" => stack'[i] = stack[i]
                        /\ stack[i].op = "method" =>
                             stack'[i].node = stack[i].node /\ stack'[i].why = stack[i].why
      OBVIOUS
    <3>1. CASE i = Len(stack)
      BY <2>1, <2>3, <2>6, <3>1 DEF SwappedAndPushed
    <3>2. CASE i \in 1..(Len(stack) - 1)
      BY <2>6, <3>2 DEF SwappedAndPushed
    <3> QED BY <3>1, <3>2, <2>1
  <2>10. tables[t] = "new" /\ tables' = [tables EXCEPT ![t] = "running"]
         /\ UNCHANGED <<created, complete, handlers, inited, registrations, told, asked, announced,
                        unsure, wanted>>
    BY <1>5 DEF MethodLoads
  <2> QED BY <2>1, <2>7, <2>8, <2>9, <2>10 DEF LoadBegun
<1> QED BY <1>3, <1>4, <1>5

\* The nodes of a table come into being behind the others.
Grown(t) ==
  /\ Tree' /\ Len(created) <= Len(created') /\ \A i \in 1..Len(created) : created'[i] = created[i]
  /\ Live \subseteq Live' /\ Live' \subseteq Live \cup ToSet(Declares[t])

\* The load of the table at the top is over, and has failed.
LoadFailed ==
  /\ Running("load") /\ Top.pc # "regs" /\ Popped(stack, stack')
  /\ \E x \in {"failed", "freed"} : tables' = [tables EXCEPT ![Top.table] = x]
  /\ Grown(Top.table)
  /\ UNCHANGED <<complete, handlers, inited, registrations, history>>

\* The names pass is over.
NamesMade ==
  /\ At("load", "names") /\ Swapped(stack, stack', [Top EXCEPT !.pc = "full"])
  /\ Grown(Top.table)
  /\ UNCHANGED <<tables, complete, handlers, inited, registrations, history>>

\* The first names of a table.
LEMMA TreeExtends ==
  ASSUME Tree, NEW t \in Tables, ToSet(Declares[t]) \cap Live = {},
         NEW k \in 0..Len(Declares[t]),
         \A i \in 1..k : Parent[Declares[t][i]] \in Live \cup {TreeRoot}
                                                      \cup {Declares[t][j] : j \in 1..(i - 1)},
         created' = created \o SubSeq(Declares[t], 1, k)
  PROVE  Grown(t)
<1> DEFINE names == Declares[t]
           part == SubSeq(names, 1, k)
           c == created
           e == created'
<1>1. names \in Seq(Nodes) /\ IsInjective(names)
  BY DevicesAssumption
<1>2. Len(names) \in Nat /\ DOMAIN names = 1..Len(names) /\ \A i \in 1..Len(names) : names[i] \in Nodes
  BY <1>1, LenProperties, ElementOfSeq
<1>3. \A i, j \in 1..Len(names) : names[i] = names[j] => i = j
  BY <1>1, <1>2 DEF IsInjective
<1>4. \A i \in 1..Len(names) : names[i] \in ToSet(names)
  BY <1>2 DEF ToSet
<1> HIDE DEF names
<1>5. part \in Seq(Nodes) /\ Len(part) = k /\ \A i \in 1..k : part[i] = names[i]
  <2>1. \A i \in 1..k : names[i] \in Nodes
    BY <1>2 DEF names
  <2>2. 1 \in Int /\ k \in Int
    OBVIOUS
  <2>3. /\ part \in Seq(Nodes) /\ Len(part) = IF 1 <= k THEN k - 1 + 1 ELSE 0
        /\ \A i \in 1..(k - 1 + 1) : part[i] = names[1 + i - 1]
    BY <2>1, <2>2, SubSeqProperties
  <2> HIDE DEF part
  <2> QED BY <2>3
<1> HIDE DEF part
<1>6. /\ c \in Seq(Nodes) /\ Len(c) \in Nat /\ DOMAIN c = 1..Len(c)
      /\ \A i \in 1..Len(c) : c[i] \in Live
      /\ \A i, j \in 1..Len(c) : c[i] = c[j] => i = j
      /\ Live \subseteq Nodes /\ \A n \in Live : \E i \in 1..Len(c) : c[i] = n
  BY LiveFacts DEF Tree
<1>7. e = c \o part
  BY DEF part, names
<1> HIDE DEF c, e
<1>8. /\ e \in Seq(Nodes) /\ Len(e) = Len(c) + k
      /\ \A i \in 1..(Len(c) + k) : e[i] = IF i <= Len(c) THEN c[i] ELSE names[i - Len(c)]
  <2>1. /\ e \in Seq(Nodes) /\ Len(e) = Len(c) + Len(part)
        /\ \A i \in 1..Len(c) + Len(part) : e[i] = IF i <= Len(c) THEN c[i] ELSE part[i - Len(c)]
    <3>1. c \in Seq(Nodes) /\ part \in Seq(Nodes)
      BY <1>5, <1>6
    <3>2. /\ c \o part \in Seq(Nodes) /\ Len(c \o part) = Len(c) + Len(part)
          /\ \A i \in 1..Len(c) + Len(part) :
               (c \o part)[i] = IF i <= Len(c) THEN c[i] ELSE part[i - Len(c)]
      BY ONLY <3>1, ConcatProperties
    <3> QED BY ONLY <3>2, <1>7
  <2>2. \A i \in 1..(Len(c) + k) : ~(i <= Len(c)) => i - Len(c) \in 1..k
    BY <1>6
  <2> QED BY <1>5, <2>1, <2>2
<1>9. Len(c) <= Len(e) /\ \A i \in 1..Len(c) : e[i] = c[i]
  BY <1>6, <1>8
<1>10. DOMAIN e = 1..Len(e)
  BY <1>8, LenProperties
<1>11. \A i \in 1..Len(e) : i \in 1..Len(c) \/ (i - Len(c) \in 1..k /\ i - Len(c) \in 1..Len(names)
                                                /\ e[i] = names[i - Len(c)])
  <2> SUFFICES ASSUME NEW i \in 1..Len(e), i \notin 1..Len(c)
               PROVE  i - Len(c) \in 1..k /\ i - Len(c) \in 1..Len(names) /\ e[i] = names[i - Len(c)]
    OBVIOUS
  <2>1. i \in 1..(Len(c) + k) /\ ~(i <= Len(c)) /\ i - Len(c) \in 1..k
    BY <1>6, <1>8
  <2>2. k \in 0..Len(names)
    BY DEF names
  <2> QED BY <1>2, <1>8, <2>1, <2>2
<1>12. \A i \in 1..k : names[i] \notin Live
  BY <1>2, <1>4 DEF names
<1>13. IsInjective(e)
  <2> SUFFICES ASSUME NEW i \in 1..Len(e), NEW j \in 1..Len(e), e[i] = e[j] PROVE i = j
    BY <1>10 DEF IsInjective
  <2>1. CASE i \in 1..Len(c) /\ j \in 1..Len(c)
    BY <2>1, <1>6, <1>9
  <2>2. CASE i \in 1..Len(c) /\ j \notin 1..Len(c)
    <3>1. e[i] = c[i] /\ c[i] \in Live
      BY <2>2, <1>6, <1>9
    <3>2. j - Len(c) \in 1..k /\ e[j] = names[j - Len(c)]
      BY <2>2, <1>11
    <3>3. e[j] \notin Live
      BY <3>2, <1>12
    <3> QED BY <3>1, <3>3
  <2>3. CASE i \notin 1..Len(c) /\ j \in 1..Len(c)
    <3>1. e[j] = c[j] /\ c[j] \in Live
      BY <2>3, <1>6, <1>9
    <3>2. i - Len(c) \in 1..k /\ e[i] = names[i - Len(c)]
      BY <2>3, <1>11
    <3>3. e[i] \notin Live
      BY <3>2, <1>12
    <3> QED BY <3>1, <3>3
  <2>4. CASE i \notin 1..Len(c) /\ j \notin 1..Len(c)
    <3>1. i - Len(c) = j - Len(c)
      BY <2>4, <1>3, <1>11
    <3> QED BY <3>1, <1>6, <1>8
  <2> QED BY <2>1, <2>2, <2>3, <2>4
<1>14. Live' = ToSet(e)
  BY DEF Live, e
<1>15. \A i \in 1..Len(e) : e[i] \in Live'
  BY <1>10, <1>14 DEF ToSet
<1>16. Live \subseteq Live'
  <2> SUFFICES ASSUME NEW n \in Live PROVE n \in Live'
    OBVIOUS
  <2>1. PICK i \in 1..Len(c) : c[i] = n
    BY <1>6
  <2>2. i \in 1..Len(e) /\ e[i] = n
    BY <2>1, <1>6, <1>8, <1>9
  <2> QED BY <2>2, <1>15
<1>17. ASSUME NEW n \in Live'
       PROVE  n \in Live \/ \E i \in 1..k : n = names[i]
  <2>1. PICK i \in 1..Len(e) : e[i] = n
    BY <1>10, <1>14 DEF ToSet
  <2>2. CASE i \in 1..Len(c)
    BY <2>1, <2>2, <1>6, <1>9
  <2>3. CASE i \notin 1..Len(c)
    BY <2>1, <2>3, <1>11
  <2> QED BY <2>2, <2>3
<1>18. \A j \in 1..k : names[j] \in Live'
  <2> SUFFICES ASSUME NEW j \in 1..k PROVE names[j] \in Live'
    OBVIOUS
  <2>1. Len(c) + j \in 1..(Len(c) + k) /\ ~(Len(c) + j <= Len(c)) /\ (Len(c) + j) - Len(c) = j
    BY <1>6
  <2>2. e[Len(c) + j] = names[j] /\ Len(c) + j \in 1..Len(e)
    BY <2>1, <1>8
  <2> QED BY <2>2, <1>15
<1>19. \A n \in Live' : Parent[n] \in Live' \cup {TreeRoot}
  <2> SUFFICES ASSUME NEW n \in Live' PROVE Parent[n] \in Live' \cup {TreeRoot}
    OBVIOUS
  <2>1. CASE n \in Live
    BY <2>1, <1>16 DEF Tree
  <2>2. CASE \E i \in 1..k : n = names[i]
    <3>1. PICK i \in 1..k : n = names[i]
      BY <2>2
    <3>2. Parent[n] \in Live \cup {TreeRoot} \cup {names[j] : j \in 1..(i - 1)}
      BY <3>1 DEF names
    <3>3. \A j \in 1..(i - 1) : j \in 1..k
      OBVIOUS
    <3> QED BY <3>2, <3>3, <1>16, <1>18
  <2> QED BY <2>1, <2>2, <1>17
<1>20. Live' \subseteq Live \cup ToSet(Declares[t])
  <2>1. \A i \in 1..k : names[i] \in ToSet(names)
    BY <1>2, <1>4 DEF names
  <2> QED BY <2>1, <1>17 DEF names
<1>21. Tree'
  BY <1>8, <1>13, <1>19 DEF Tree, e
<1> QED BY <1>9, <1>16, <1>20, <1>21 DEF Grown, c, e

\* The namespace pass makes the names and goes on, or fails.
LEMMA NamespacePassSteps ==
  ASSUME DevicesInv, NamespacePass
  PROVE  NamesMade \/ LoadFailed
<1> DEFINE t == Top.table
           names == Declares[t]
           parents(i) == Live \cup {TreeRoot} \cup {names[j] : j \in 1..(i - 1)}
           known(k) == \A i \in 1..k : Parent[names[i]] \in parents(i)
           S == {k \in 0..Len(names) : known(k)}
           f == [Top EXCEPT !.pc = "full"]
<1>1. Types /\ Tree
  BY DEF DevicesInv, Made
<1>2. /\ ~Idle /\ stack # <<>> /\ Top.op = "load" /\ Top \in Frame /\ Top.pc = "names"
      /\ Len(stack) \in Nat \ {0} /\ Top = stack[Len(stack)]
  BY <1>1, AtFacts DEF NamespacePass, At
<1>3. Top \in LoadFrame
  BY <1>2, FrameFacts
<1>4. t \in Tables /\ f \in Frame
  BY <1>3 DEF LoadFrame, Frame
<1>5. ToSet(Declares[t]) \cap Live = {} /\ tables[t] = "running"
  BY <1>2 DEF DevicesInv, LoadsOK
<1>6. Len(names) \in Nat
  BY <1>4, LenProperties, DevicesAssumption
<1>7. Max(S) \in S
  <2> HIDE DEF names, parents
  <2>1. 0 \in S
    BY <1>6
  <2>2. \E x \in S : \A y \in S : x >= y
    <3>1. CASE S \ {0} = {}
      BY <3>1, <2>1
    <3>2. CASE S \ {0} # {}
      <4>1. S \ {0} \in SUBSET (1..Len(names))
        BY <1>6
      <4>2. PICK x \in S \ {0} : \A y \in S \ {0} : y <= x
        BY <1>6, <3>2, <4>1, GreatestElement
      <4>3. \A y \in S : x >= y
        BY <1>6, <4>2
      <4> QED BY <4>2, <4>3
    <3> QED BY <3>1, <3>2
  <2> HIDE DEF S
  <2> QED BY <2>2 DEF Max
<1>8. PICK k \in (Breaks \cap 0..Max(S)) \cup {Max(S)} :
         /\ created' = created \o SubSeq(names, 1, k)
         /\ IF k = Len(names)
            THEN Continue([Top EXCEPT !.pc = "full"]) /\ UNCHANGED tables
            ELSE Return /\ LoadFails(Top)
  BY <1>2 DEF NamespacePass
<1>9. k \in 0..Len(names) /\ k <= Max(S)
  <2>1. PICK m \in 0..Len(names) : m = Max(S)
    BY <1>7
  <2>2. k \in (Breaks \cap 0..m) \cup {m}
    BY <1>8, <2>1
  <2> HIDE DEF names, S
  <2> QED BY <1>6, <2>1, <2>2
<1>10. \A i \in 1..k : Parent[names[i]] \in parents(i)
  <2>1. PICK m \in 0..Len(names) : m = Max(S) /\ known(m)
    BY <1>7
  <2>2. k \in Nat /\ k <= m /\ m \in Nat
    <3> HIDE DEF names, S, known
    <3> QED BY <1>6, <1>9, <2>1
  <2>3. \A i \in 1..k : i \in 1..m
    BY ONLY <2>2
  <2> QED BY <2>1, <2>3
<1>11. Grown(t)
  BY <1>1, <1>4, <1>5, <1>8, <1>9, <1>10, TreeExtends
<1>12. UNCHANGED <<complete, handlers, inited, registrations, history>>
  BY DEF NamespacePass
<1> HIDE DEF names, S, f, known, parents
<1>13. CASE k = Len(names)
  <2>1. stack' = Append(Front(stack), f) /\ tables' = tables
    BY <1>8, <1>13 DEF Continue, f
  <2>2. Swapped(stack, stack', f)
    BY <1>1, <1>2, <1>4, <2>1, StackSteps DEF Types
  <2> QED BY <1>2, <1>11, <1>12, <2>1, <2>2 DEF NamesMade, At, Running, f
<1>14. CASE k # Len(names)
  <2>1. stack' = Front(stack)
    BY <1>8, <1>14 DEF Return
  <2>2. \E x \in {"failed", "freed"} : tables' = [tables EXCEPT ![Top.table] = x]
    BY <1>8, <1>14 DEF LoadFails
  <2>3. Popped(stack, stack')
    BY <1>1, <1>2, <2>1, StackSteps DEF Types
  <2> QED BY <1>2, <1>11, <1>12, <2>2, <2>3 DEF LoadFailed, Running
<1> QED BY <1>13, <1>14

\* The full pass is over.
TableLoaded ==
  /\ At("load", "full")
  /\ tables' = [tables EXCEPT ![Top.table] = "loaded"]
  /\ IF complete THEN Swapped(stack, stack', [Top EXCEPT !.pc = "regs"]) ELSE Popped(stack, stack')
  /\ UNCHANGED <<created, complete, handlers, inited, registrations, history>>

\* The end of the full pass is one of the two.
LEMMA FullPassEndsSteps ==
  ASSUME DevicesInv, FullPassEnds
  PROVE  TableLoaded \/ LoadFailed
<1> DEFINE f == [Top EXCEPT !.pc = "regs"]
<1>1. Types /\ Tree
  BY DEF DevicesInv, Made
<1>2. /\ ~Idle /\ stack # <<>> /\ Top.op = "load" /\ Top \in Frame /\ Top.pc = "full"
      /\ Len(stack) \in Nat \ {0} /\ Top = stack[Len(stack)]
  BY <1>1, AtFacts DEF FullPassEnds, At
<1>3. f \in Frame
  <2>1. Top \in LoadFrame
    BY <1>2, FrameFacts
  <2> QED BY <2>1 DEF LoadFrame, Frame
<1>4. Grown(Top.table)
  <2>1. created' = created
    BY DEF FullPassEnds
  <2>2. Tree' /\ Live' = Live
    BY <1>1, <2>1 DEF Tree, Live
  <2>3. Len(created) <= Len(created')
    BY <2>1, <1>1, LiveFacts
  <2> QED BY <2>1, <2>2, <2>3 DEF Grown
<1>5. Popped(stack, Front(stack)) /\ Swapped(stack, Append(Front(stack), f), f)
  BY <1>1, <1>2, <1>3, StackSteps DEF Types
<1>6. CASE Return /\ LoadFails(Top)
  <2>1. \E x \in {"failed", "freed"} : tables' = [tables EXCEPT ![Top.table] = x]
    BY <1>6 DEF LoadFails
  <2> QED BY <1>2, <1>4, <1>5, <1>6, <2>1 DEF LoadFailed, Running, FullPassEnds, Return
<1>7. CASE /\ tables' = [tables EXCEPT ![Top.table] = "loaded"]
           /\ IF complete THEN Continue([Top EXCEPT !.pc = "regs"]) ELSE Return
  <2>1. IF complete THEN stack' = Append(Front(stack), f) ELSE stack' = Front(stack)
    BY <1>7 DEF Continue, Return
  <2> QED BY <1>5, <1>7, <2>1 DEF TableLoaded, FullPassEnds
<1> QED BY <1>6, <1>7 DEF FullPassEnds

\* A loop over the handlers stops at the m-th.
Stopped(m, flag) ==
  /\ m \in Top.i..Len(Spaces) /\ handlers[Spaces[m]][flag]
  /\ \A j \in Top.i..(m - 1) : ~handlers[Spaces[j]][flag]

\* The call whose loop goes on.
After(f, pc, i) == [f EXCEPT !.pc = pc, !.i = i]

\* It goes on to the next, with a broadcast of this one.
LoopSteps(m, f) ==
  \/ Spaces[m] \in Quiet /\ Swapped(stack, stack', f)
  \/ /\ Spaces[m] \notin Quiet
     /\ SwappedAndPushed(stack, stack', f, Broadcast(Spaces[m], handlers[Spaces[m]].enable))

\* A broadcast begins with the whole tree.
LEMMA BroadcastFacts ==
  ASSUME Tree, NEW s \in SpaceTypes, NEW enable \in BOOLEAN
  PROVE  LET f == Broadcast(s, enable)
         IN  /\ f \in Frame /\ f.op = "broadcast" /\ f.pc = "go" /\ f.space = s /\ f.enable = enable
             /\ WalkOK(f.walk)
             /\ \A d \in Devices \cap Live : IsPending(created, f, d)
<1> DEFINE f == Broadcast(s, enable)
<1>1. f.op = "broadcast" /\ f.pc = "go" /\ f.space = s /\ f.enable = enable
      /\ f.walk = <<Visit(TreeRoot)>>
  BY DEF Broadcast
<1>2. WalkOK(f.walk) /\ \A d \in Devices \cap Live : IsPending(created, f, d)
  BY <1>1, FreshWalk
<1>3. f \in Frame
  <2>1. f.walk \in Seq(VisitRec)
    BY <1>2 DEF WalkOK, WalkIn, VisitOK
  <2>2. Broadcast(s, enable) \in BroadcastFrame
    BY <2>1, <1>1 DEF Broadcast, BroadcastFrame
  <2> QED BY <2>2 DEF Frame
<1> HIDE DEF f
<1>4. /\ f \in Frame /\ f.op = "broadcast" /\ f.pc = "go" /\ f.space = s /\ f.enable = enable
      /\ WalkOK(f.walk) /\ \A d \in Devices \cap Live : IsPending(created, f, d)
  BY <1>1, <1>2, <1>3 DEF f
<1> QED BY <1>4 DEF f

\* A loop over the handlers that does not end stops at the first one that its flag asks for.
LEMMA LoopFacts ==
  ASSUME DevicesInv, ~Idle, NEW flag \in {"enable", "pending"}, Top.i \in 1..(Len(Spaces) + 1),
         NEW pc, Stops(Top.i, flag) # {}, BroadcastNext(Stops(Top.i, flag), pc),
         \A m \in Top.i..Len(Spaces) : After(Top, pc, m + 1) \in Frame
  PROVE  \E m \in 1..Len(Spaces) : Stopped(m, flag) /\ LoopSteps(m, After(Top, pc, m + 1))
<1> DEFINE stops == Stops(Top.i, flag)
           m == Min(stops)
           s == Spaces[m]
           f == After(Top, pc, m + 1)
<1>1. Types /\ Tree
  BY DEF DevicesInv, Made
<1>2. /\ stack # <<>> /\ stack \in Seq(Frame)
  BY <1>1 DEF Idle, Types
<1>3. Len(Spaces) \in Nat
  BY SpacesFacts
<1>4. m \in stops /\ \A j \in stops : m <= j
  <2>1. stops \subseteq Nat
    BY <1>3 DEF Stops
  <2>2. \E j \in stops : \A k \in stops : j <= k
    BY <2>1, LeastElement
  <2> HIDE DEF stops
  <2> QED BY <2>2 DEF Min
<1> HIDE DEF m
<1>5. m \in Top.i..Len(Spaces) /\ handlers[s][flag] /\ m \in 1..Len(Spaces)
  BY <1>3, <1>4 DEF Stops
<1>6. ASSUME NEW j \in Top.i..(m - 1) PROVE ~handlers[Spaces[j]][flag]
  BY <1>3, <1>4, <1>5 DEF Stops
<1>7. Stopped(m, flag)
  BY <1>5, <1>6 DEF Stopped
<1>8. f \in Frame
  BY <1>5
<1>9. s \in SpaceTypes /\ handlers[s].enable \in BOOLEAN
  <2>1. s \in SpaceTypes
    BY <1>5, SpacesFacts
  <2> QED BY <2>1, <1>1 DEF Types, TypeOK
<1>10. IF s \in Quiet THEN stack' = Append(Front(stack), f)
       ELSE stack' = Front(stack) \o <<f, Broadcast(s, handlers[s].enable)>>
  BY DEF BroadcastNext, Continue, ContinueAndCall, After, m
<1> HIDE DEF f, s, stops
<1>11. CASE s \in Quiet
  <2>1. Swapped(stack, stack', f)
    BY <1>2, <1>8, <1>10, <1>11, StackSteps
  <2>2. LoopSteps(m, f)
    BY <1>11, <2>1 DEF LoopSteps, s
  <2> QED BY <1>5, <1>7, <2>2 DEF f
<1>12. CASE s \notin Quiet
  <2>1. Broadcast(s, handlers[s].enable) \in Frame
    BY <1>1, <1>9, BroadcastFacts
  <2>2. SwappedAndPushed(stack, stack', f, Broadcast(s, handlers[s].enable))
    BY <1>2, <1>8, <1>10, <1>12, <2>1, StackSteps
  <2>3. LoopSteps(m, f)
    BY <1>9, <1>12, <2>2 DEF LoopSteps, Sure, s
  <2> QED BY <1>5, <1>7, <2>3 DEF f
<1> QED BY <1>11, <1>12

\* The walk over the devices begins with the root initialisers.
LEMMA InitializeDevicesFacts ==
  InitializeDevices \in Frame /\ InitializeDevices.op = "devices" /\ InitializeDevices.pc = "roots"
<1>1. InitializeDevices \in RootsFrame
  <2>1. 1 \in 1..(Len(RootInitializers) + 1)
    BY SpacesFacts
  <2> QED BY <2>1 DEF InitializeDevices, RootsFrame
<1> QED BY <1>1 DEF InitializeDevices, Frame

\* The loop over the handlers after a load.
RegsStep(m, f) ==
  /\ At("load", "regs") /\ Stopped(m, "enable") /\ LoopSteps(m, f)
  /\ f \in Frame /\ f.op = "load" /\ f.pc = "regs" /\ f.table = Top.table /\ f.i = m + 1
  /\ UNCHANGED <<created, tables, complete, handlers, inited, registrations, history>>
RegsDone ==
  /\ At("load", "regs") /\ \A m \in Top.i..Len(Spaces) : ~handlers[Spaces[m]].enable
  /\ Swapped(stack, stack', InitializeDevices) /\ wanted' = TRUE
  /\ UNCHANGED <<created, tables, complete, handlers, inited, registrations,
                 told, asked, announced, reentered, unsure>>

\* The loop of a load goes on, or is over.
LEMMA LoadedCodeRegsSteps ==
  ASSUME DevicesInv, LoadedCodeRegs
  PROVE  RegsDone \/ \E m \in 1..Len(Spaces), f \in Frame : RegsStep(m, f)
<1>1. Types
  BY DEF DevicesInv
<1>2. /\ ~Idle /\ stack # <<>> /\ Top.op = "load" /\ Top \in Frame /\ Top.pc = "regs"
      /\ At("load", "regs")
  BY <1>1, AtFacts DEF LoadedCodeRegs, At
<1>3. Top \in LoadFrame /\ Top.i \in 1..(Len(Spaces) + 1)
  BY <1>2, FrameFacts DEF LoadFrame
<1>4. \A m \in Top.i..Len(Spaces) : LET f == After(Top, "regs", m + 1)
        IN f \in Frame /\ f.op = "load" /\ f.pc = "regs" /\ f.table = Top.table /\ f.i = m + 1
  <2> SUFFICES ASSUME NEW m \in Top.i..Len(Spaces)
               PROVE  LET f == After(Top, "regs", m + 1)
                      IN f \in LoadFrame /\ f.op = "load" /\ f.pc = "regs"
                           /\ f.table = Top.table /\ f.i = m + 1
    BY DEF Frame
  <2>1. m + 1 \in 1..(Len(Spaces) + 1)
    BY <1>3, SpacesFacts
  <2> QED BY <1>2, <1>3, <2>1 DEF After, LoadFrame
<1>5. UNCHANGED <<created, tables, complete, handlers, inited, registrations,
                  told, asked, announced, reentered, unsure>>
  BY DEF LoadedCodeRegs
<1>6. CASE Stops(Top.i, "enable") # {}
  <2>1. BroadcastNext(Stops(Top.i, "enable"), "regs") /\ wanted' = wanted
    BY <1>6 DEF LoadedCodeRegs
  <2>2. \A m \in Top.i..Len(Spaces) : After(Top, "regs", m + 1) \in Frame
    BY <1>4
  <2>3. PICK m \in 1..Len(Spaces) : Stopped(m, "enable") /\ LoopSteps(m, After(Top, "regs", m + 1))
    BY <1>2, <1>3, <1>6, <2>1, <2>2, LoopFacts
  <2>4. m \in Top.i..Len(Spaces)
    BY <2>3 DEF Stopped
  <2>5. RegsStep(m, After(Top, "regs", m + 1))
    BY <1>2, <1>4, <1>5, <2>1, <2>3, <2>4 DEF RegsStep, history
  <2> QED BY <2>2, <2>4, <2>5
<1>7. CASE Stops(Top.i, "enable") = {}
  <2>1. stack' = Append(Front(stack), InitializeDevices) /\ wanted' = TRUE
    BY <1>7 DEF LoadedCodeRegs
  <2>2. Swapped(stack, stack', InitializeDevices)
    BY <1>1, <1>2, <2>1, InitializeDevicesFacts, StackSteps DEF Types
  <2>3. \A m \in Top.i..Len(Spaces) : ~handlers[Spaces[m]].enable
    BY <1>7 DEF Stops
  <2> QED BY <1>2, <1>5, <2>1, <2>2, <2>3 DEF RegsDone
<1> QED BY <1>6, <1>7

\* The end of the initial load begins.
CompleteBegins(initialize) ==
  /\ Len(stack) = 0 /\ ~complete /\ complete' = TRUE /\ wanted' = initialize
  /\ \E g \in Frame : /\ Pushed(stack, stack', g)
                      /\ g.op = "complete" /\ g.pc = "regs" /\ g.i = 1 /\ g.initialize = initialize
  /\ UNCHANGED <<created, tables, handlers, inited, registrations,
                 told, asked, announced, reentered, unsure>>

\* What the call that completes the initial load begins with.
LEMMA CompleteInitialLoadSteps ==
  ASSUME DevicesInv, NEW initialize \in BOOLEAN, CompleteInitialLoad(initialize)
  PROVE  CompleteBegins(initialize)
<1> DEFINE g == [op |-> "complete", pc |-> "regs", i |-> 1, initialize |-> initialize]
<1>1. Types
  BY DEF DevicesInv
<1>2. g \in CompleteFrame /\ g.op = "complete" /\ g.pc = "regs" /\ g.i = 1 /\ g.initialize = initialize
  <2>1. 1 \in 1..(Len(Spaces) + 1)
    BY SpacesFacts
  <2> QED BY <2>1 DEF CompleteFrame
<1>3. g \in Frame
  BY <1>2 DEF Frame
<1>4. stack' = Append(stack, g)
  BY DEF CompleteInitialLoad, Call
<1> HIDE DEF g
<1>5. Pushed(stack, stack', g)
  BY <1>1, <1>3, <1>4, StackSteps DEF Types
<1>6. Len(stack) = 0
  BY <1>1, StackFacts DEF CompleteInitialLoad
<1> QED BY <1>2, <1>3, <1>5, <1>6 DEF CompleteInitialLoad, CompleteBegins

\* Its loop over the handlers.
CompleteStep(m, f) ==
  /\ At("complete", "regs") /\ Stopped(m, "pending") /\ LoopSteps(m, f)
  /\ f \in Frame /\ f.op = "complete" /\ f.pc = "clear" /\ f.initialize = Top.initialize /\ f.i = m + 1
  /\ UNCHANGED <<created, tables, complete, handlers, inited, registrations, history>>
CompleteDone ==
  /\ At("complete", "regs") /\ \A m \in Top.i..Len(Spaces) : ~handlers[Spaces[m]].pending
  /\ IF Top.initialize THEN Swapped(stack, stack', InitializeDevices) ELSE Popped(stack, stack')
  /\ UNCHANGED <<created, tables, complete, handlers, inited, registrations, history>>

\* The loop of the initial load goes on, or is over.
LEMMA CompleteRegsSteps ==
  ASSUME DevicesInv, CompleteRegs
  PROVE  CompleteDone \/ \E m \in 1..Len(Spaces), f \in Frame : CompleteStep(m, f)
<1>1. Types
  BY DEF DevicesInv
<1>2. /\ ~Idle /\ stack # <<>> /\ Top.op = "complete" /\ Top \in Frame /\ Top.pc = "regs"
      /\ At("complete", "regs")
  BY <1>1, AtFacts DEF CompleteRegs, At
<1>3. Top \in CompleteFrame /\ Top.i \in 1..(Len(Spaces) + 1)
  BY <1>2, FrameFacts DEF CompleteFrame
<1>4. \A m \in Top.i..Len(Spaces) : LET f == After(Top, "clear", m + 1)
        IN f \in Frame /\ f.op = "complete" /\ f.pc = "clear"
             /\ f.initialize = Top.initialize /\ f.i = m + 1
  <2> SUFFICES ASSUME NEW m \in Top.i..Len(Spaces)
               PROVE  LET f == After(Top, "clear", m + 1)
                      IN f \in CompleteFrame /\ f.op = "complete" /\ f.pc = "clear"
                           /\ f.initialize = Top.initialize /\ f.i = m + 1
    BY DEF Frame
  <2>1. m + 1 \in 2..(Len(Spaces) + 1)
    BY <1>3, SpacesFacts
  <2> QED BY <1>2, <1>3, <2>1 DEF After, CompleteFrame
<1>5. UNCHANGED <<created, tables, complete, handlers, inited, registrations, history>>
  BY DEF CompleteRegs
<1>6. CASE Stops(Top.i, "pending") # {}
  <2>1. BroadcastNext(Stops(Top.i, "pending"), "clear")
    BY <1>6 DEF CompleteRegs
  <2>2. \A m \in Top.i..Len(Spaces) : After(Top, "clear", m + 1) \in Frame
    BY <1>4
  <2>3. PICK m \in 1..Len(Spaces) : Stopped(m, "pending") /\ LoopSteps(m, After(Top, "clear", m + 1))
    BY <1>2, <1>3, <1>6, <2>1, <2>2, LoopFacts
  <2>4. m \in Top.i..Len(Spaces)
    BY <2>3 DEF Stopped
  <2>5. CompleteStep(m, After(Top, "clear", m + 1))
    BY <1>2, <1>4, <1>5, <2>3, <2>4 DEF CompleteStep
  <2> QED BY <2>2, <2>4, <2>5
<1>7. CASE Stops(Top.i, "pending") = {}
  <2>1. stack' = IF Top.initialize THEN Append(Front(stack), InitializeDevices) ELSE Front(stack)
    BY <1>7 DEF CompleteRegs
  <2>2. Swapped(stack, Append(Front(stack), InitializeDevices), InitializeDevices)
        /\ Popped(stack, Front(stack))
    BY <1>1, <1>2, InitializeDevicesFacts, StackSteps DEF Types
  <2>3. \A m \in Top.i..Len(Spaces) : ~handlers[Spaces[m]].pending
    BY <1>7 DEF Stops
  <2> QED BY <1>2, <1>5, <2>1, <2>2, <2>3 DEF CompleteDone
<1> QED BY <1>6, <1>7

\* The flag of the handler that was broadcast is cleared.
Cleared ==
  /\ At("complete", "clear") /\ Top.i \in 2..(Len(Spaces) + 1)
  /\ handlers' = [handlers EXCEPT ![Spaces[Top.i - 1]].pending = FALSE]
  /\ \E f \in Frame : /\ Swapped(stack, stack', f)
                      /\ f.op = "complete" /\ f.pc = "regs"
                      /\ f.i = Top.i /\ f.initialize = Top.initialize
  /\ UNCHANGED <<created, tables, complete, inited, registrations, history>>

\* What the loop of the initial load does after a broadcast.
LEMMA CompleteClearsSteps ==
  ASSUME DevicesInv, CompleteClears
  PROVE  Cleared
<1> DEFINE f == [Top EXCEPT !.pc = "regs"]
<1>1. Types
  BY DEF DevicesInv
<1>2. /\ ~Idle /\ stack # <<>> /\ Top.op = "complete" /\ Top \in Frame /\ Top.pc = "clear"
      /\ At("complete", "clear")
  BY <1>1, AtFacts DEF CompleteClears, At
<1>3. Top \in CompleteFrame
  BY <1>2, FrameFacts
<1>4. /\ f \in CompleteFrame /\ f.op = "complete" /\ f.pc = "regs" /\ f.i = Top.i
      /\ f.initialize = Top.initialize /\ Top.i \in 2..(Len(Spaces) + 1)
  <2>1. Top.i \in 2..(Len(Spaces) + 1) /\ Top.initialize \in BOOLEAN
        /\ f = [op |-> "complete", pc |-> "regs", i |-> Top.i, initialize |-> Top.initialize]
    BY <1>2, <1>3 DEF CompleteFrame
  <2>2. Top.i \in 1..(Len(Spaces) + 1)
    BY <2>1, SpacesFacts
  <2> QED BY <2>1, <2>2 DEF CompleteFrame
<1>5. f \in Frame
  BY <1>4 DEF Frame
<1>6. stack' = Append(Front(stack), f)
  BY DEF CompleteClears, Continue
<1> HIDE DEF f
<1>7. Swapped(stack, stack', f)
  BY <1>1, <1>2, <1>5, <1>6, StackSteps DEF Types
<1> QED BY <1>2, <1>4, <1>5, <1>7 DEF CompleteClears, Cleared

\* A handler is registered.
Registered(s, enable, call) ==
  /\ Len(stack) = 0 \/ Running("host")
  /\ registrations < MaxRegistrations /\ registrations' = registrations + 1
  /\ handlers' = [handlers EXCEPT ![s] = [enable |-> enable, pending |-> ~call \/ ~complete]]
  /\ unsure' = IF Broadcasting(s) \/ (complete /\ ~call) THEN unsure \cup {s} ELSE unsure \ {s}
  /\ IF call /\ complete /\ s \notin Quiet
     THEN Pushed(stack, stack', Broadcast(s, enable)) ELSE stack' = stack
  /\ UNCHANGED <<created, tables, complete, inited, told, asked, announced, reentered, wanted>>

\* What a registration does.
LEMMA RegisterHandlerSteps ==
  ASSUME DevicesInv, NEW s \in SpaceTypes, NEW enable \in BOOLEAN, NEW call \in BOOLEAN,
         RegisterHandler(s, enable, call)
  PROVE  Registered(s, enable, call)
<1>1. Types /\ Tree
  BY DEF DevicesInv, Made
<1>2. Broadcast(s, enable) \in Frame
  BY <1>1, BroadcastFacts
<1>3. Pushed(stack, Append(stack, Broadcast(s, enable)), Broadcast(s, enable))
  BY <1>1, <1>2, StackSteps DEF Types
<1>4. Len(stack) = 0 \/ Running("host")
  BY <1>1, StackFacts DEF RegisterHandler
<1> QED BY <1>3, <1>4 DEF RegisterHandler, Registered, Call

\* A frame that a walk is in after f: at the same walk, and as far.
Continues(f, g) ==
  /\ g \in Frame /\ g.op = f.op /\ g.pc \in {"go", "visit"} /\ WalkOK(g.walk)
  /\ f.op = "broadcast" => g.space = f.space /\ g.enable = f.enable

\* What a frame that is about to call a node's methods is at.
Visiting(v) ==
  v.node \in Devices \cap Live /\ ~SkipChildren(v) /\ AtFirst(created, v)

\* A walk's frame.
LEMMA WalkFrameFacts ==
  ASSUME DevicesInv, NEW pc \in {"go", "visit"}, Walking(pc)
  PROVE  /\ ~Idle /\ stack # <<>> /\ Top \in Frame /\ Len(stack) \in Nat \ {0}
         /\ Top = stack[Len(stack)] /\ Top.op \in {"broadcast", "devices"} /\ Top.pc = pc
         /\ IsWalk(Top) /\ WalkOK(Top.walk) /\ VisitOK(Here) /\ Here \in VisitRec
         /\ Here = Last(Top.walk)
         /\ pc = "visit" => Visiting(Here)
         /\ Top.op = "broadcast" => Top \in BroadcastFrame
         /\ Top.op = "devices" => Top \in DevicesFrame
<1>1. Types
  BY DEF DevicesInv
<1>2. /\ ~Idle /\ stack # <<>> /\ Top \in Frame /\ Len(stack) \in Nat \ {0}
      /\ Top = stack[Len(stack)] /\ Top.op \in {"broadcast", "devices"} /\ Top.pc = pc
  BY <1>1, AtFacts DEF Walking, Running
<1>3. IsWalk(Top)
  BY <1>2 DEF IsWalk
<1>4. Len(stack) \in 1..Len(stack)
  BY <1>2
<1>5. WalkOK(Top.walk) /\ (pc = "visit" => Visiting(Here))
  BY <1>2, <1>3, <1>4 DEF DevicesInv, WalksOK, Visiting, Here
<1>6. VisitOK(Here) /\ Here \in VisitRec
  BY <1>5, WalkFacts DEF Here
<1> QED BY <1>2, <1>3, <1>5, <1>6, FrameFacts DEF Here

\* The frame with another walk.
Onward(f, w, pc) == [f EXCEPT !.walk = w, !.pc = pc]

\* A frame with another walk is still the same call.
LEMMA ContinuesFacts ==
  ASSUME NEW f, f \in BroadcastFrame \/ f \in DevicesFrame, NEW pc \in {"go", "visit"},
         NEW w, WalkOK(w)
  PROVE  /\ Continues(f, Onward(f, w, pc))
         /\ Onward(f, w, pc).pc = pc /\ Onward(f, w, pc).walk = w
<1> DEFINE g == Onward(f, w, pc)
<1>1. w \in Seq(VisitRec)
  BY DEF WalkOK, WalkIn, VisitOK
<1>2. CASE f \in BroadcastFrame
  <2>1. g \in BroadcastFrame /\ g.op = f.op /\ g.pc = pc /\ g.walk = w
        /\ g.space = f.space /\ g.enable = f.enable
    BY <1>1, <1>2 DEF BroadcastFrame, Onward
  <2> QED BY <2>1 DEF Continues, Frame
<1>3. CASE f \in DevicesFrame
  <2>1. g \in DevicesFrame /\ g.op = f.op /\ g.pc = pc /\ g.walk = w /\ f.op # "broadcast"
    BY <1>1, <1>3 DEF DevicesFrame, Onward
  <2> QED BY <2>1 DEF Continues, Frame
<1> QED BY <1>2, <1>3

\* A walk moves, and leaves no device out.
WalkMoves(f) ==
  /\ Walking("go") /\ Swapped(stack, stack', f) /\ Continues(Top, f)
  /\ f.pc = "visit" => Visiting(Last(f.walk))
  /\ \A d \in Devices \cap Live : IsPending(created, Top, d) => IsPending(created, f, d)
  /\ UNCHANGED <<created, tables, complete, handlers, inited, registrations, history>>
WalkEnds ==
  /\ Walking("go") /\ Popped(stack, stack')
  /\ \A d \in Devices \cap Live : ~IsPending(created, Top, d)
  /\ UNCHANGED <<created, tables, complete, handlers, inited, registrations, history>>

\* A walk that goes on moves, or ends.
LEMMA WalkOnSteps ==
  ASSUME DevicesInv, WalkOn
  PROVE  WalkEnds \/ \E f \in Frame : WalkMoves(f)
<1> DEFINE w == Top.walk
           n == NextDevice(Here)
<1>1. Types /\ Tree
  BY DEF DevicesInv, Made
<1>2. /\ ~Idle /\ stack # <<>> /\ Top \in Frame /\ Top.pc = "go"
      /\ IsWalk(Top) /\ WalkOK(w) /\ VisitOK(Here) /\ Here = Last(w)
      /\ (Top \in BroadcastFrame \/ Top \in DevicesFrame)
  <2>1. Walking("go")
    BY DEF WalkOn
  <2> QED BY <2>1, WalkFrameFacts
<1>3. Walking("go")
      /\ UNCHANGED <<created, tables, complete, handlers, inited, registrations, history>>
  BY DEF WalkOn
<1>4. CASE (n = Null \/ SkipChildren(Here)) /\ Front(w) = <<>>
  <2>1. stack' = Front(stack)
    BY <1>4 DEF WalkOn, Return
  <2>2. Popped(stack, stack')
    BY <1>1, <1>2, <2>1, StackSteps DEF Types
  <2>3. ASSUME NEW d \in Devices \cap Live, IsPending(created, Top, d) PROVE FALSE
    <3> DEFINE g == [Top EXCEPT !.walk = Front(w)]
    <3>1. g.walk = Front(w)
      BY <1>2 DEF BroadcastFrame, DevicesFrame
    <3> HIDE DEF g
    <3>2. Front(w) # <<>>
      BY <1>1, <1>2, <1>4, <2>3, <3>1, VisitEnds
    <3> QED BY <1>4, <3>2
  <2> QED BY <1>3, <2>2, <2>3 DEF WalkEnds
<1>5. CASE (n = Null \/ SkipChildren(Here)) /\ Front(w) # <<>>
  <2> DEFINE g == Onward(Top, Front(w), "go")
  <2>1. stack' = Append(Front(stack), g)
    <3>1. stack' = Append(Front(stack), [Top EXCEPT !.walk = Front(w)])
      BY <1>5 DEF WalkOn, Continue
    <3>2. [Top EXCEPT !.walk = Front(w)] = g
      BY <1>2 DEF BroadcastFrame, DevicesFrame, Onward
    <3> QED BY <3>1, <3>2
  <2>2. WalkOK(Front(w))
    <3>1. /\ Len(w) \in Nat \ {0} /\ Front(w) \in Seq(VisitRec) /\ Len(Front(w)) = Len(w) - 1
          /\ \A j \in 1..(Len(w) - 1) : Front(w)[j] = w[j]
      BY <1>2, WalkFacts
    <3>2. \A j \in 1..(Len(w) - 1) : j \in 1..Len(w) /\ j < Len(w)
      BY <3>1
    <3> QED BY <1>2, <1>5, <3>1, <3>2 DEF WalkOK, WalkIn, VisitOK
  <2>3. Continues(Top, g) /\ g.pc = "go" /\ g.walk = Front(w)
    BY <1>2, <2>2, ContinuesFacts
  <2> HIDE DEF g
  <2>4. \A d \in Devices \cap Live : IsPending(created, Top, d) => IsPending(created, g, d)
    BY <1>1, <1>2, <1>5, <2>3, VisitEnds
  <2>5. Swapped(stack, stack', g) /\ g \in Frame
    BY <1>1, <1>2, <2>1, <2>3, StackSteps DEF Types, Continues
  <2>6. WalkMoves(g)
    BY <1>3, <2>3, <2>4, <2>5 DEF WalkMoves
  <2> QED BY <2>5, <2>6
<1>6. CASE ~(n = Null \/ SkipChildren(Here))
  <2> DEFINE x == Down(w, n)
             g == Onward(Top, x, "visit")
  <2>1. /\ WalkOK(x) /\ Last(x) = Visit(n) /\ Len(x) = Len(w) + 1
        /\ n \in Live \cap Devices /\ Depth[n] = Len(w) + 1
    BY <1>1, <1>2, <1>6, DownFacts
  <2>2. ~(Len(w) >= TreeMaxDepth)
    <3>1. TreeMaxDepth >= Len(w) + 1 /\ Len(w) \in Nat /\ TreeMaxDepth \in Nat
      BY <1>1, <1>2, <2>1, DepthSuffices, WalkFacts
    <3> QED BY <3>1
  <2>3. Visit(n).node = n /\ Visit(n).next = ChildFirst(n) /\ ~SkipChildren(Visit(n))
        /\ AtFirst(created, Visit(n)) /\ n # TreeRoot
    BY <1>1, <2>1, VisitFacts, ParentFacts
  <2>4. stack' = Append(Front(stack), g)
    <3>1. stack' = Append(Front(stack), WithWalk(x))
      BY <1>2, <1>6, <2>2 DEF WalkOn, Continue, Down
    <3>2. IsFirstVisit(Last(x))
      BY <2>1, <2>3 DEF IsFirstVisit
    <3>3. WithWalk(x) = g
      BY <3>2 DEF WithWalk, Onward
    <3> QED BY <3>1, <3>3
  <2>5. Continues(Top, g) /\ g.pc = "visit" /\ g.walk = x
    BY <1>2, <2>1, ContinuesFacts
  <2> HIDE DEF g
  <2>6. \A d \in Devices \cap Live : IsPending(created, Top, d) => IsPending(created, g, d)
    BY <1>1, <1>2, <1>6, <2>5, VisitGoesDown
  <2>7. Swapped(stack, stack', g) /\ g \in Frame
    BY <1>1, <1>2, <2>4, <2>5, StackSteps DEF Types, Continues
  <2>8. Visiting(Last(g.walk))
    BY <2>1, <2>3, <2>5 DEF Visiting
  <2>9. WalkMoves(g)
    BY <1>3, <2>5, <2>6, <2>7, <2>8 DEF WalkMoves
  <2> QED BY <2>7, <2>9
<1> QED BY <1>4, <1>5, <1>6

\* The method of a node.
LEMMA MethodFacts ==
  ASSUME Tree, NEW n \in Entries, NEW kind \in {"_REG", "_INI"}
  PROVE  /\ Method(n, kind) = Null => \A m \in Live : ~(Parent[m] = n /\ Kind[m] = kind)
         /\ Method(n, kind) # Null =>
              /\ Method(n, kind) \in Live \cap Nodes
              /\ Parent[Method(n, kind)] = n /\ Kind[Method(n, kind)] = kind
              /\ \A m \in Live : Parent[m] = n /\ Kind[m] = kind => m = Method(n, kind)
<1>1. Live \subseteq Nodes /\ Null \notin Nodes
  BY LiveFacts, ParentFacts DEF Entries
<1>2. CASE \E m \in Live : Parent[m] = n /\ Kind[m] = kind
  <2>1. Method(n, kind) \in Live /\ Parent[Method(n, kind)] = n /\ Kind[Method(n, kind)] = kind
    BY <1>2 DEF Method
  <2>2. \A m \in Live : Parent[m] = n /\ Kind[m] = kind => m = Method(n, kind)
    <3>1. \A m, k \in Nodes : Kind[m] = Kind[k] /\ Parent[m] = Parent[k] /\ m # k => Kind[k] = "device"
      BY DevicesAssumption
    <3> QED BY <1>1, <2>1, <3>1
  <2> QED BY <1>1, <2>1, <2>2
<1>3. CASE ~\E m \in Live : Parent[m] = n /\ Kind[m] = kind
  BY <1>3 DEF Method
<1> QED BY <1>2, <1>3

\* A method that is called.
LEMMA InvokeFacts ==
  ASSUME NEW m \in Nodes, NEW why \in {"_REG", "_INI", "root"}
  PROVE  LET g == Invoke(m, why)
         IN  g \in Frame /\ g.op = "method" /\ g.node = m /\ g.why = why
BY DEF Invoke, Frame, MethodFrame

\* A broadcast has come to a device, and tells its _REG method.
RegTold(f) ==
  /\ Walking("visit") /\ Top.op = "broadcast" /\ Continues(Top, f) /\ f.pc = "go"
  /\ \/ Swapped(stack, stack', f)
     \/ \E g \in Frame : SwappedAndPushed(stack, stack', f, g) /\ g.op = "method" /\ g.why = "_REG"
  /\ told' \in [Nodes -> [SpaceTypes -> BOOLEAN]]
  /\ \A n \in Nodes, s \in SpaceTypes :
       \/ told'[n][s] = told[n][s]
       \/ n \in Live /\ s = Top.space /\ told'[n][s] = Top.enable
  /\ \A n \in Live : Kind[n] = "_REG" /\ Parent[n] \in Devices =>
       \/ told'[n][Top.space] = Top.enable
       \/ IsPending(created, Top, Parent[n]) => IsPending(created, f, Parent[n])
  /\ UNCHANGED <<created, tables, complete, handlers, inited, registrations,
                 asked, announced, reentered, unsure, wanted>>

\* What a broadcast does at a device.
LEMMA BroadcastVisitsSteps ==
  ASSUME DevicesInv, BroadcastVisits
  PROVE  \E f \in Frame : RegTold(f)
<1> DEFINE d == Here.node
           reg == Method(d, "_REG")
           f == Onward(Top, Top.walk, "go")
<1>1. Types /\ Tree
  BY DEF DevicesInv, Made
<1>2. Walking("visit") /\ Top.op = "broadcast"
  BY DEF BroadcastVisits
<1>3. /\ ~Idle /\ stack # <<>> /\ Top \in Frame /\ Top.pc = "visit"
      /\ WalkOK(Top.walk) /\ Here = Last(Top.walk) /\ Visiting(Here) /\ Top \in BroadcastFrame
  BY <1>2, WalkFrameFacts
<1>4. Continues(Top, f) /\ f.pc = "go" /\ f.walk = Top.walk
  BY <1>3, ContinuesFacts
<1>5. [Top EXCEPT !.pc = "go"] = f
  BY <1>3 DEF Onward, BroadcastFrame
<1> HIDE DEF f
<1>6. \A n \in Devices : IsPending(created, Top, n) /\ n # d => IsPending(created, f, n)
  BY <1>3, <1>4 DEF IsPending
<1>7. d \in Devices /\ d \in Live /\ d \in Entries
  BY <1>3, ParentFacts DEF Visiting, Entries
<1>8. Top.space \in SpaceTypes /\ Top.enable \in BOOLEAN
  BY <1>3 DEF BroadcastFrame
<1>9. told \in [Nodes -> [SpaceTypes -> BOOLEAN]]
  BY <1>1 DEF Types, TypeOK
<1>10. f \in Frame
  BY <1>4 DEF Continues
<1>11. UNCHANGED <<created, tables, complete, handlers, inited, registrations,
                 asked, announced, reentered, unsure, wanted>>
  BY DEF BroadcastVisits
<1>12. CASE reg = Null
  <2>1. stack' = Append(Front(stack), f) /\ told' = told
    BY <1>5, <1>12 DEF BroadcastVisits, Continue
  <2>2. Swapped(stack, stack', f)
    BY <1>1, <1>3, <1>10, <2>1, StackSteps DEF Types
  <2>3. \A n \in Live : Kind[n] = "_REG" /\ Parent[n] \in Devices => Parent[n] # d
    BY <1>1, <1>7, <1>12, MethodFacts
  <2>4. \A n \in Live : Kind[n] = "_REG" /\ Parent[n] \in Devices =>
          (IsPending(created, Top, Parent[n]) => IsPending(created, f, Parent[n]))
    BY <1>6, <2>3
  <2>5. RegTold(f)
    BY <1>2, <1>4, <1>9, <1>11, <2>1, <2>2, <2>4 DEF RegTold
  <2> QED BY <1>10, <2>5
<1>13. CASE reg # Null
  <2> DEFINE g == Invoke(reg, "_REG")
  <2>1. /\ reg \in Live /\ reg \in Nodes /\ Parent[reg] = d /\ Kind[reg] = "_REG"
        /\ \A n \in Live : Parent[n] = d /\ Kind[n] = "_REG" => n = reg
    BY <1>1, <1>7, <1>13, MethodFacts
  <2>2. stack' = Front(stack) \o <<f, g>> /\ told' = [told EXCEPT ![reg][Top.space] = Top.enable]
    BY <1>5, <1>13 DEF BroadcastVisits, ContinueAndCall
  <2>3. g \in Frame /\ g.op = "method" /\ g.why = "_REG"
    BY <2>1, InvokeFacts
  <2> HIDE DEF g, reg
  <2>4. SwappedAndPushed(stack, stack', f, g)
    BY <1>1, <1>3, <1>10, <2>2, <2>3, StackSteps DEF Types
  <2>5. told' \in [Nodes -> [SpaceTypes -> BOOLEAN]] /\ told'[reg][Top.space] = Top.enable
        /\ \A n \in Nodes, s \in SpaceTypes :
             told'[n][s] = told[n][s] \/ (n = reg /\ s = Top.space)
    BY <1>8, <1>9, <2>1, <2>2
  <2>6. \A n \in Nodes, s \in SpaceTypes :
          \/ told'[n][s] = told[n][s]
          \/ n \in Live /\ s = Top.space /\ told'[n][s] = Top.enable
    BY <2>1, <2>5
  <2>7. \A n \in Live : Kind[n] = "_REG" /\ Parent[n] \in Devices =>
          \/ told'[n][Top.space] = Top.enable
          \/ IsPending(created, Top, Parent[n]) => IsPending(created, f, Parent[n])
    BY <1>6, <2>1, <2>5
  <2>8. RegTold(f)
    BY <1>2, <1>4, <1>11, <2>3, <2>4, <2>5, <2>6, <2>7 DEF RegTold
  <2> QED BY <1>10, <2>8
<1> QED BY <1>12, <1>13

\* The walk over the devices calls a root initialiser, or begins.
RootCalled(f, g) ==
  /\ At("devices", "roots") /\ SwappedAndPushed(stack, stack', f, g)
  /\ f \in Frame /\ f.op = "devices" /\ f.pc = "roots"
  /\ g \in Frame /\ g.op = "method" /\ g.why = "root" /\ Kind[g.node] = "_INI"
  /\ UNCHANGED <<created, tables, complete, handlers, inited, registrations, history>>
WalkBegins(f) ==
  /\ At("devices", "roots") /\ Swapped(stack, stack', f)
  /\ f \in Frame /\ f.op = "devices" /\ f.pc = "go" /\ WalkOK(f.walk)
  /\ \A d \in Devices \cap Live : IsPending(created, f, d)
  /\ UNCHANGED <<created, tables, complete, handlers, inited, registrations, history>>

\* What the walk over the devices does before it starts.
LEMMA RootInitializerSteps ==
  ASSUME DevicesInv, RootInitializer
  PROVE  (\E f, g \in Frame : RootCalled(f, g)) \/ (\E f \in Frame : WalkBegins(f))
<1> DEFINE todo == {i \in Top.i..Len(RootInitializers) :
                      RootInitializers[i] \in Live /\ ~inited[RootInitializers[i]]}
           j == Min(todo)
<1>1. Types /\ Tree
  BY DEF DevicesInv, Made
<1>2. /\ ~Idle /\ stack # <<>> /\ Top.op = "devices" /\ Top \in Frame /\ Top.pc = "roots"
      /\ At("devices", "roots")
  BY <1>1, AtFacts DEF RootInitializer, At
<1>3. Top \in RootsFrame
  BY <1>2, FrameFacts
<1>4. Top.i \in 1..(Len(RootInitializers) + 1)
  BY <1>3 DEF RootsFrame
<1>5. UNCHANGED <<created, tables, complete, handlers, inited, registrations, history>>
  BY DEF RootInitializer
<1>6. CASE todo = {}
  <2> DEFINE f == DeviceWalk
  <2>1. f.op = "devices" /\ f.pc = "go" /\ f.walk = <<Visit(TreeRoot)>>
    BY DEF DeviceWalk
  <2>2. WalkOK(f.walk) /\ \A d \in Devices \cap Live : IsPending(created, f, d)
    BY <1>1, <2>1, FreshWalk
  <2>3. f \in Frame
    <3>1. f.walk \in Seq(VisitRec)
      BY <2>2 DEF WalkOK, WalkIn, VisitOK
    <3>2. f \in DevicesFrame
      BY <2>1, <3>1 DEF DeviceWalk, DevicesFrame
    <3> QED BY <3>2 DEF Frame
  <2>4. stack' = Append(Front(stack), f)
    BY <1>6 DEF RootInitializer, Continue
  <2> HIDE DEF f
  <2>5. Swapped(stack, stack', f)
    BY <1>1, <1>2, <2>3, <2>4, StackSteps DEF Types
  <2> QED BY <1>2, <1>5, <2>1, <2>2, <2>3, <2>5 DEF WalkBegins
<1>7. CASE todo # {}
  <2> DEFINE f == [Top EXCEPT !.i = j + 1]
             g == Invoke(RootInitializers[j], "root")
  <2>1. j \in todo
    <3>1. todo \subseteq Nat
      BY <1>4, SpacesFacts
    <3>2. \E i \in todo : \A k \in todo : i <= k
      BY <1>7, <3>1, LeastElement
    <3> HIDE DEF todo
    <3> QED BY <3>2 DEF Min
  <2>2. j \in 1..Len(RootInitializers)
    BY <1>4, <2>1, SpacesFacts
  <2>3. stack' = Front(stack) \o <<f, g>>
    BY <1>7 DEF RootInitializer, ContinueAndCall
  <2> HIDE DEF j
  <2>4. f \in RootsFrame /\ f.op = "devices" /\ f.pc = "roots"
    <3>1. j + 1 \in 1..(Len(RootInitializers) + 1)
      BY <2>2, SpacesFacts
    <3> QED BY <1>2, <1>3, <3>1 DEF RootsFrame
  <2>5. f \in Frame
    BY <2>4 DEF Frame
  <2>6. g \in Frame /\ g.op = "method" /\ g.why = "root" /\ Kind[g.node] = "_INI"
    BY <2>2, SpacesFacts, InvokeFacts
  <2> HIDE DEF f, g
  <2>7. SwappedAndPushed(stack, stack', f, g)
    BY <1>1, <1>2, <2>3, <2>5, <2>6, StackSteps DEF Types
  <2> QED BY <1>2, <1>5, <2>4, <2>5, <2>6, <2>7 DEF RootCalled
<1> QED BY <1>6, <1>7

\* A walk has come to a device that is initialised.
AskedBefore(f) ==
  /\ Walking("visit") /\ Top.op = "devices" /\ inited[Here.node]
  /\ Swapped(stack, stack', f) /\ Continues(Top, f) /\ f.pc = "go"
  /\ \A e \in Devices \cap Live : IsPending(created, Top, e) =>
       e = Here.node \/ IsPending(created, f, e)
  /\ UNCHANGED <<created, tables, complete, handlers, inited, registrations, history>>

\* It has come to another, asked it for its status, and may call its _INI method.
DeviceAsked(status, f) ==
  /\ Walking("visit") /\ Top.op = "devices" /\ ~inited[Here.node]
  /\ Continues(Top, f) /\ f.pc = "go"
  /\ LET v == Last(f.walk)
     IN  /\ v.node = Here.node /\ v.status = status
         /\ ~SkipChildren(v) => AtFirst(created, v)
         /\ asked' = [asked EXCEPT ![Here.node] = IF SkipChildren(v) THEN "cut" ELSE "answered"]
         /\ \A e \in Devices \cap Live : IsPending(created, Top, e) =>
              \/ e = Here.node \/ IsPending(created, f, e)
              \/ SkipChildren(v) /\ Here.node \in Above[e]
         /\ \/ Swapped(stack, stack', f)
            \/ /\ status = "ready" /\ v.next \in Live
               /\ \E g \in Frame : /\ SwappedAndPushed(stack, stack', f, g)
                                   /\ g.op = "method" /\ g.why = "_INI" /\ Parent[g.node] = Here.node
  /\ UNCHANGED <<created, tables, complete, handlers, inited, registrations,
                 told, announced, reentered, unsure, wanted>>

\* What the walk over the devices does at a device.
LEMMA InitializeDeviceSteps ==
  ASSUME DevicesInv, NEW status \in Statuses, InitializeDevice(status)
  PROVE  \E f \in Frame : AskedBefore(f) \/ DeviceAsked(status, f)
<1> DEFINE d == Here.node
           ini == Method(d, "_INI")
           w == Top.walk
           x == WithStatus(w, status)
           f == Onward(Top, x, "go")
<1>1. Types /\ Tree
  BY DEF DevicesInv, Made
<1>2. Walking("visit") /\ Top.op = "devices"
  BY DEF InitializeDevice, At, Walking, Running
<1>3. /\ ~Idle /\ stack # <<>> /\ Top \in Frame /\ Top.pc = "visit"
      /\ WalkOK(w) /\ Here = Last(w) /\ Visiting(Here) /\ Top \in DevicesFrame
  BY <1>2, WalkFrameFacts
<1>4. d \in Devices /\ d \in Live /\ d \in Entries /\ AtFirst(created, Here)
  BY <1>3, ParentFacts DEF Visiting, Entries
<1>5. UNCHANGED <<created, tables, complete, handlers, inited, registrations,
                  told, announced, reentered, unsure, wanted>>
  BY DEF InitializeDevice
<1>6. CASE inited[d]
  <2> DEFINE g == Onward(Top, w, "go")
  <2>1. Continues(Top, g) /\ g.pc = "go" /\ g.walk = w
    BY <1>3, ContinuesFacts
  <2>2. [Top EXCEPT !.pc = "go"] = g
    BY <1>3 DEF Onward, DevicesFrame
  <2>3. stack' = Append(Front(stack), g) /\ asked' = asked
    BY <1>6, <2>2 DEF InitializeDevice, Continue
  <2> HIDE DEF g
  <2>4. \A e \in Devices : IsPending(created, Top, e) => e = d \/ IsPending(created, g, e)
    BY <1>3, <2>1 DEF IsPending
  <2>5. g \in Frame /\ Swapped(stack, stack', g)
    BY <1>1, <1>3, <2>1, <2>3, StackSteps DEF Types, Continues
  <2>6. AskedBefore(g)
    BY <1>2, <1>5, <1>6, <2>1, <2>3, <2>4, <2>5 DEF AskedBefore, history
  <2> QED BY <2>5, <2>6
<1>7. CASE ~inited[d]
  <2> DEFINE v == Last(x)
  <2>1. x = WithStatus(w, status) /\ status \in Statuses \cup {"none"}
    OBVIOUS
  <2> HIDE DEF x, v
  <2>2. /\ WalkOK(x) /\ Last(x).node = Last(w).node /\ Last(x).status = status
        /\ Last(x).next = Last(w).next
        /\ ~SkipChildren(Last(x)) /\ AtFirst(created, Last(w)) => AtFirst(created, Last(x))
    BY <1>1, <1>3, <2>1, StatusWalk
  <2>3. /\ WalkOK(x) /\ v.node = d /\ v.status = status
        /\ ~SkipChildren(v) => AtFirst(created, v)
    BY <1>3, <1>4, <2>2 DEF v
  <2>4. Continues(Top, f) /\ f.pc = "go" /\ f.walk = x
    BY <1>3, <2>3, ContinuesFacts
  <2>5. VisitedWith(status) = f
    BY <1>3 DEF VisitedWith, Onward, DevicesFrame, x, WithStatus
  <2> HIDE DEF f
  <2>6. \A e \in Devices \cap Live : IsPending(created, Top, e) =>
          e = d \/ IsPending(created, f, e) \/ (SkipChildren(v) /\ d \in Above[e])
    <3>1. f.walk = WithStatus(Top.walk, status)
      BY <1>3, <2>4 DEF x
    <3>2. \A e \in Devices \cap Live : IsPending(created, Top, e) =>
            \/ e = Last(Top.walk).node \/ IsPending(created, f, e)
            \/ SkipChildren(Last(f.walk)) /\ Last(Top.walk).node \in Above[e]
      BY <1>1, <1>3, <2>1, <3>1, StatusIsKnown
    <3> QED BY <1>3, <2>4, <3>2 DEF v
  <2>7. SkipChildren([status |-> status]) <=> SkipChildren(v)
    BY <2>3 DEF SkipChildren
  <2>8. asked' = [asked EXCEPT ![d] = IF SkipChildren(v) THEN "cut" ELSE "answered"]
        /\ IF status = "ready" /\ ini # Null
           THEN stack' = Front(stack) \o <<f, Invoke(ini, "_INI")>>
           ELSE stack' = Append(Front(stack), f)
    BY <1>7, <2>5, <2>7 DEF InitializeDevice, Continue, ContinueAndCall
  <2>9. f \in Frame /\ Last(f.walk) = v
    BY <2>4 DEF Continues, v
  <2>10. \/ Swapped(stack, stack', f)
         \/ /\ status = "ready" /\ v.next \in Live
            /\ \E g \in Frame : /\ SwappedAndPushed(stack, stack', f, g)
                                /\ g.op = "method" /\ g.why = "_INI" /\ Parent[g.node] = d
    <3>1. CASE ~(status = "ready" /\ ini # Null)
      BY <1>1, <1>3, <2>8, <2>9, <3>1, StackSteps DEF Types
    <3>2. CASE status = "ready" /\ ini # Null
      <4> DEFINE g == Invoke(ini, "_INI")
      <4>1. ini \in Live /\ ini \in Nodes /\ Parent[ini] = d /\ Kind[ini] = "_INI"
        BY <1>1, <1>4, <3>2, MethodFacts
      <4>2. g \in Frame /\ g.op = "method" /\ g.why = "_INI" /\ Parent[g.node] = d
        BY <4>1, InvokeFacts
      <4>3. stack' = Front(stack) \o <<f, g>>
        BY <2>8, <3>2
      <4> HIDE DEF g
      <4>4. SwappedAndPushed(stack, stack', f, g)
        BY <1>1, <1>3, <2>9, <4>2, <4>3, StackSteps DEF Types
      <4>5. v.next \in Live
        <5>1. ~SkipChildren(v)
          BY <2>3, <3>2 DEF SkipChildren
        <5>2. ini \in Ahead(created, v)
          BY <1>1, <2>3, <4>1, <5>1, LiveFacts DEF AtFirst
        <5>3. PICK i \in 1..Len(created) : \E k \in 1..i : created[k] = v.next
          BY <1>1, <5>1, <5>2, LiveFacts DEF Ahead
        <5>4. PICK k \in 1..i : created[k] = v.next
          BY <5>3
        <5>5. k \in 1..Len(created)
          BY <1>1, <5>3, LiveFacts
        <5> QED BY <1>1, <5>4, <5>5, LiveFacts
      <4> QED BY <3>2, <4>2, <4>4, <4>5
    <3> QED BY <3>1, <3>2
  <2>11. DeviceAsked(status, f)
    BY <1>2, <1>5, <1>7, <2>3, <2>4, <2>6, <2>8, <2>9, <2>10 DEF DeviceAsked
  <2> QED BY <2>9, <2>11
<1> QED BY <1>6, <1>7

\* A method is over, without or with the call of the host for a device.
MethodOver ==
  /\ Running("method") /\ Popped(stack, stack')
  /\ inited' \in [Nodes -> BOOLEAN] /\ \A d \in Devices : inited'[d] = inited[d]
  /\ UNCHANGED <<created, tables, complete, handlers, registrations, history>>
HostCalled(g) ==
  /\ Running("method") /\ Top.why = "_INI" /\ Swapped(stack, stack', g)
  /\ g \in Frame /\ g.op = "host" /\ g.node = Parent[Top.node] /\ g.node \in Devices
  /\ announced' = [announced EXCEPT ![g.node] = @ + 1]
  /\ inited' \in [Nodes -> BOOLEAN] /\ \A d \in Devices : inited'[d] = inited[d]
  /\ UNCHANGED <<created, tables, complete, handlers, registrations,
                 told, asked, reentered, unsure, wanted>>

\* The two ends of a method.
LEMMA MethodSteps ==
  ASSUME DevicesInv, MethodFails \/ MethodEnds
  PROVE  MethodOver \/ \E g \in Frame : HostCalled(g)
<1>1. Types
  BY DEF DevicesInv
<1>2. /\ ~Idle /\ stack # <<>> /\ Top.op = "method" /\ Top \in Frame /\ Running("method")
      /\ Len(stack) \in Nat \ {0} /\ Top = stack[Len(stack)]
  BY <1>1, AtFacts DEF MethodFails, MethodEnds
<1>3. Top \in MethodFrame
  BY <1>2, FrameFacts
<1>4. Top.node \in Nodes /\ Top.why \in {"_REG", "_INI", "root"}
  BY <1>3 DEF MethodFrame
<1>5. /\ Top.why = "root" => Kind[Top.node] = "_INI"
      /\ Top.why = "_INI" => Parent[Top.node] \in Devices
  BY <1>2 DEF DevicesInv, InitOK
<1>6. inited' = [inited EXCEPT ![Top.node] = @ \/ Top.why = "root"] /\ inited \in [Nodes -> BOOLEAN]
  BY <1>1 DEF MethodFails, MethodEnds, Types, TypeOK
<1>7. inited' \in [Nodes -> BOOLEAN] /\ \A d \in Devices : inited'[d] = inited[d]
  <2>1. ASSUME NEW d \in Devices PROVE inited'[d] = inited[d]
    <3>1. d \in Nodes /\ Kind[d] = "device"
      BY DEF Devices
    <3>2. CASE Top.node = d
      BY <3>1, <3>2, <1>5, <1>6
    <3>3. CASE Top.node # d
      BY <3>1, <3>3, <1>6
    <3> QED BY <3>2, <3>3
  <2>2. inited' \in [Nodes -> BOOLEAN]
    BY <1>4, <1>6
  <2> QED BY <2>1, <2>2
<1>8. Popped(stack, Front(stack))
  BY <1>1, <1>2, StackSteps DEF Types
<1>9. CASE stack' = Front(stack) /\ announced' = announced
  BY <1>2, <1>7, <1>8, <1>9 DEF MethodOver, MethodFails, MethodEnds, history
<1>10. CASE ~(stack' = Front(stack) /\ announced' = announced)
  <2> DEFINE g == [op |-> "host", node |-> Parent[Top.node]]
  <2>1. MethodEnds /\ Top.why = "_INI"
    BY <1>10 DEF MethodFails, MethodEnds, Return, history
  <2>2. g \in HostFrame /\ g.op = "host" /\ g.node = Parent[Top.node]
    BY <1>5, <2>1 DEF HostFrame
  <2>3. g \in Frame
    BY <2>2 DEF Frame
  <2>4. stack' = Append(Front(stack), g) /\ announced' = [announced EXCEPT ![g.node] = @ + 1]
    BY <2>1 DEF MethodEnds, Continue
  <2> HIDE DEF g
  <2>5. Swapped(stack, stack', g)
    BY <1>1, <1>2, <2>3, <2>4, StackSteps DEF Types
  <2>6. HostCalled(g)
    BY <1>2, <1>5, <1>7, <2>1, <2>2, <2>3, <2>4, <2>5 DEF HostCalled, MethodEnds
  <2> QED BY <2>3, <2>6
<1> QED BY <1>9, <1>10

\* The host has heard of a device.
HostReturned ==
  /\ Running("host") /\ Popped(stack, stack') /\ Top.node \in Devices
  /\ inited' = [inited EXCEPT ![Top.node] = TRUE]
  /\ UNCHANGED <<created, tables, complete, handlers, registrations, history>>

\* The return of the host.
LEMMA HostReturnsSteps ==
  ASSUME DevicesInv, HostReturns
  PROVE  HostReturned
<1>1. Types
  BY DEF DevicesInv
<1>2. /\ ~Idle /\ stack # <<>> /\ Top.op = "host" /\ Top \in Frame /\ Running("host")
  BY <1>1, AtFacts DEF HostReturns
<1>3. Top.node \in Devices
  BY <1>2, FrameFacts DEF HostFrame
<1>4. Popped(stack, stack')
  BY <1>1, <1>2, StackSteps DEF Types, HostReturns, Return
<1> QED BY <1>2, <1>3, <1>4 DEF HostReturns, HostReturned

-----------------------------------------------------------------------------
(* The steps: loads, loops over the handlers, walks and methods. *)

\* The steps: of the loads, of the handlers, and of the walks with what they call.
LoadSteps == (\E t \in Tables : LoadBegun(t)) \/ NamesMade \/ LoadFailed \/ TableLoaded
HandlerSteps ==
  \/ RegsDone \/ (\E m \in 1..Len(Spaces), f \in Frame : RegsStep(m, f))
  \/ (\E initialize \in BOOLEAN : CompleteBegins(initialize))
  \/ CompleteDone \/ (\E m \in 1..Len(Spaces), f \in Frame : CompleteStep(m, f)) \/ Cleared
  \/ (\E s \in SpaceTypes, enable, call \in BOOLEAN : Registered(s, enable, call))
WalkSteps ==
  \/ WalkEnds \/ (\E f \in Frame : WalkMoves(f)) \/ (\E f \in Frame : RegTold(f))
  \/ (\E f, g \in Frame : RootCalled(f, g)) \/ (\E f \in Frame : WalkBegins(f))
  \/ (\E f \in Frame : AskedBefore(f)) \/ (\E status \in Statuses, f \in Frame : DeviceAsked(status, f))
  \/ MethodOver \/ (\E g \in Frame : HostCalled(g)) \/ HostReturned

\* Every step is one of them.
LEMMA Steps ==
  ASSUME DevicesInv, [Next]_vars
  PROVE  LoadSteps \/ HandlerSteps \/ WalkSteps \/ UNCHANGED vars
<1> HIDE DEF Frame
<1>1. CASE \E t \in Tables : HostLoads(t) \/ FullPassLoads(t) \/ MethodLoads(t)
  BY <1>1, LoadBegins DEF LoadSteps
<1>2. CASE NamespacePass \/ FullPassEnds
  BY <1>2, NamespacePassSteps, FullPassEndsSteps DEF LoadSteps
<1>3. CASE LoadedCodeRegs
  BY <1>3, LoadedCodeRegsSteps DEF HandlerSteps
<1>4. CASE \E initialize \in BOOLEAN : CompleteInitialLoad(initialize)
  BY <1>4, CompleteInitialLoadSteps DEF HandlerSteps
<1>5. CASE CompleteRegs \/ CompleteClears
  BY <1>5, CompleteRegsSteps, CompleteClearsSteps DEF HandlerSteps
<1>6. CASE \E s \in SpaceTypes, enable, call \in BOOLEAN : RegisterHandler(s, enable, call)
  BY <1>6, RegisterHandlerSteps DEF HandlerSteps
<1>7. CASE WalkOn \/ BroadcastVisits
  BY <1>7, WalkOnSteps, BroadcastVisitsSteps DEF WalkSteps
<1>8. CASE RootInitializer
  BY <1>8, RootInitializerSteps DEF WalkSteps
<1>9. CASE \E status \in Statuses : InitializeDevice(status)
  BY <1>9, InitializeDeviceSteps DEF WalkSteps
<1>10. CASE MethodFails \/ MethodEnds \/ HostReturns
  BY <1>10, MethodSteps, HostReturnsSteps DEF WalkSteps
<1> QED BY <1>1, <1>2, <1>3, <1>4, <1>5, <1>6, <1>7, <1>8, <1>9, <1>10 DEF Next, Library

\* The calls that the walks are made of.
Inner == {"broadcast", "devices", "method", "host"}

\* A step of a walk or of a method: the calls below it stay.
InsideStack ==
  /\ Len(stack) \in Nat \ {0} /\ Top.op \in Inner
  /\ stack' \in Seq(Frame) /\ Len(stack') \in Nat /\ Len(stack') >= Len(stack) - 1
  /\ \A i \in 1..(Len(stack) - 1) : stack'[i] = stack[i]
  /\ \A i \in 1..Len(stack') : i >= Len(stack) =>
       /\ stack'[i].op \in Inner /\ (stack'[i].op \in {"broadcast", "devices"} => stack'[i].op = Top.op)
       /\ i > Len(stack) => stack'[i].op \in {"method", "host"}
Inside ==
  /\ InsideStack
  /\ inited' \in [Nodes -> BOOLEAN] /\ told' \in [Nodes -> [SpaceTypes -> BOOLEAN]]
  /\ asked' \in [Devices -> {"never", "answered", "cut"}] /\ announced' \in [Devices -> Nat]
  /\ UNCHANGED <<created, tables, complete, handlers, registrations, reentered, unsure, wanted>>

\* The ways in which the top of the stack changes.
LEMMA TopSteps ==
  ASSUME Len(stack) \in Nat \ {0}, Top.op \in Inner,
         \/ Popped(stack, stack')
         \/ \E f \in Frame : f.op = Top.op /\ Swapped(stack, stack', f)
         \/ \E f \in Frame : f.op \in {"method", "host"} /\ Swapped(stack, stack', f)
         \/ \E f, g \in Frame : /\ f.op = Top.op /\ g.op \in {"method", "host"}
                                /\ SwappedAndPushed(stack, stack', f, g)
  PROVE  InsideStack
<1> HIDE DEF Frame
<1>1. CASE Popped(stack, stack')
  BY <1>1 DEF Popped, InsideStack
<1>2. ASSUME NEW f \in Frame, f.op = Top.op \/ f.op \in {"method", "host"}, Swapped(stack, stack', f)
      PROVE  InsideStack
  <2>1. \A i \in 1..Len(stack') : i >= Len(stack) => stack'[i] = f /\ ~(i > Len(stack))
    BY <1>2 DEF Swapped
  <2>2. f.op \in Inner /\ (f.op \in {"broadcast", "devices"} => f.op = Top.op)
    BY <1>2 DEF Inner
  <2> QED BY <1>2, <2>1, <2>2 DEF Swapped, InsideStack
<1>3. ASSUME NEW f \in Frame, NEW g \in Frame, f.op = Top.op, g.op \in {"method", "host"},
             SwappedAndPushed(stack, stack', f, g)
      PROVE  InsideStack
  <2>1. \A i \in 1..Len(stack') : i >= Len(stack) =>
          (stack'[i] = f \/ stack'[i] = g) /\ (i > Len(stack) => stack'[i] = g)
    BY <1>3 DEF SwappedAndPushed
  <2>2. /\ f.op \in Inner /\ (f.op \in {"broadcast", "devices"} => f.op = Top.op)
        /\ g.op \in Inner /\ g.op \notin {"broadcast", "devices"}
    BY <1>3 DEF Inner
  <2> QED BY <1>3, <2>1, <2>2 DEF SwappedAndPushed, InsideStack
<1> QED BY <1>1, <1>2, <1>3

\* What the steps of the walks and of what they call leave alone.
LEMMA InsideSteps ==
  ASSUME DevicesInv, WalkSteps
  PROVE  Inside
<1> USE DEF history
<1> HIDE DEF Frame
<1>1. Types /\ Len(stack) \in Nat
  BY StackFacts DEF DevicesInv
<1>2. \A op \in Inner : Running(op) => Len(stack) \in Nat \ {0} /\ Top.op = op /\ Top \in Frame
  BY <1>1, AtFacts
<1>3. /\ inited \in [Nodes -> BOOLEAN] /\ told \in [Nodes -> [SpaceTypes -> BOOLEAN]]
      /\ asked \in [Devices -> {"never", "answered", "cut"}] /\ announced \in [Devices -> Nat]
  BY <1>1 DEF Types, TypeOK
<1>4. CASE WalkEnds \/ MethodOver
  <2>1. Len(stack) \in Nat \ {0} /\ Top.op \in Inner /\ Popped(stack, stack')
    BY <1>2, <1>4 DEF WalkEnds, MethodOver, Walking, Inner
  <2>2. inited' \in [Nodes -> BOOLEAN] /\ UNCHANGED <<told, asked, announced>>
    BY <1>3, <1>4 DEF WalkEnds, MethodOver
  <2>3. InsideStack
    BY <2>1, TopSteps
  <2> QED BY <1>3, <1>4, <2>2, <2>3 DEF WalkEnds, MethodOver, Inside
<1>5. CASE HostReturned
  <2>1. Len(stack) \in Nat \ {0} /\ Top.op \in Inner /\ Popped(stack, stack')
    BY <1>2, <1>5 DEF HostReturned, Inner
  <2>2. inited' \in [Nodes -> BOOLEAN] /\ UNCHANGED <<told, asked, announced>>
    BY <1>3, <1>5 DEF HostReturned
  <2>3. InsideStack
    BY <2>1, TopSteps
  <2> QED BY <1>3, <1>5, <2>2, <2>3 DEF HostReturned, Inside
<1>6. ASSUME NEW f \in Frame, WalkMoves(f) \/ AskedBefore(f) \/ WalkBegins(f) PROVE Inside
  <2>1. Len(stack) \in Nat \ {0} /\ Top.op \in Inner /\ f.op = Top.op /\ Swapped(stack, stack', f)
    BY <1>2, <1>6 DEF WalkMoves, AskedBefore, WalkBegins, Walking, At, Continues, Inner
  <2>2. UNCHANGED <<created, tables, complete, handlers, inited, registrations, history>>
    BY <1>6 DEF WalkMoves, AskedBefore, WalkBegins
  <2>3. InsideStack
    BY <2>1, TopSteps
  <2> QED BY <1>3, <2>2, <2>3 DEF Inside
<1>7. ASSUME NEW f \in Frame, RegTold(f) PROVE Inside
  <2>1. Len(stack) \in Nat \ {0} /\ Top.op \in Inner /\ f.op = Top.op
    BY <1>2, <1>7 DEF RegTold, Walking, Continues, Inner
  <2>2. InsideStack
    BY <1>7, <2>1, TopSteps DEF RegTold
  <2> QED BY <1>3, <1>7, <2>2 DEF Inside, RegTold
<1>8. ASSUME NEW f \in Frame, NEW g \in Frame, RootCalled(f, g) PROVE Inside
  <2>1. Len(stack) \in Nat \ {0} /\ Top.op \in Inner /\ f.op = Top.op
        /\ SwappedAndPushed(stack, stack', f, g) /\ g.op = "method"
    BY <1>2, <1>8 DEF RootCalled, At, Inner
  <2>2. InsideStack
    BY <2>1, TopSteps
  <2> QED BY <1>3, <1>8, <2>2 DEF Inside, RootCalled
<1>9. ASSUME NEW status \in Statuses, NEW f \in Frame, DeviceAsked(status, f) PROVE Inside
  <2>1. Len(stack) \in Nat \ {0} /\ Top.op \in Inner /\ f.op = Top.op
    BY <1>2, <1>9 DEF DeviceAsked, Walking, Continues, Inner
  <2>2. asked' \in [Devices -> {"never", "answered", "cut"}]
    BY <1>3, <1>9 DEF DeviceAsked
  <2>3. InsideStack
    <3>1. \/ Swapped(stack, stack', f)
          \/ \E g \in Frame : SwappedAndPushed(stack, stack', f, g) /\ g.op = "method"
      BY <1>9 DEF DeviceAsked
    <3> QED BY <2>1, <3>1, TopSteps
  <2> QED BY <1>3, <1>9, <2>2, <2>3 DEF Inside, DeviceAsked
<1>10. ASSUME NEW g \in Frame, HostCalled(g) PROVE Inside
  <2>1. Len(stack) \in Nat \ {0} /\ Top.op \in Inner /\ Swapped(stack, stack', g) /\ g.op = "host"
    BY <1>2, <1>10 DEF HostCalled, Inner
  <2>2. announced' \in [Devices -> Nat]
    BY <1>3, <1>10 DEF HostCalled
  <2>3. InsideStack
    BY <2>1, TopSteps
  <2> QED BY <1>3, <1>10, <2>2, <2>3 DEF Inside, HostCalled
<1> QED BY <1>4, <1>5, <1>6, <1>7, <1>8, <1>9, <1>10 DEF WalkSteps

-----------------------------------------------------------------------------
(* Types, and the tree. *)

\* The tree stays when no node comes into being.
LEMMA TreeStays ==
  ASSUME Tree, created' = created
  PROVE  Tree' /\ Live' = Live
BY DEF Tree, Live

\* What exists is in the declarations.
LEMMA LiveAreNodes ==
  ASSUME Tree'
  PROVE  Live' \subseteq Nodes
<1>1. created' \in Seq(Nodes)
  BY DEF Tree
<1> QED BY <1>1, LenProperties, ElementOfSeq DEF Live, ToSet

\* The load at the top.
LEMMA LoadFacts ==
  ASSUME DevicesInv, Running("load"), NEW pc \in {"full", "regs"}
  PROVE  /\ Top \in LoadFrame /\ Top.op = "load" /\ Top.table \in Tables
         /\ Len(stack) \in Nat \ {0} /\ Top = stack[Len(stack)]
         /\ LET f == [Top EXCEPT !.pc = pc]
            IN  f \in Frame /\ f.op = "load" /\ f.pc = pc /\ f.table = Top.table /\ f.i = Top.i
<1>1. Types
  BY DEF DevicesInv
<1>2. Top.op = "load" /\ Top \in Frame /\ Len(stack) \in Nat \ {0} /\ Top = stack[Len(stack)]
  BY <1>1, AtFacts
<1>3. Top \in LoadFrame
  BY <1>2, FrameFacts
<1> QED BY <1>2, <1>3 DEF LoadFrame, Frame

\* A broadcast that begins will come to every device.
NewBroadcast(g, s, enable) ==
  /\ g \in Frame /\ g.op = "broadcast" /\ g.pc = "go" /\ g.space = s /\ g.enable = enable
  /\ WalkOK(g.walk) /\ \A d \in Devices \cap Live : IsPending(created, g, d)

\* The stack after a step of a loop over the handlers.
LEMMA LoopFrames ==
  ASSUME DevicesInv, Len(stack) \in Nat \ {0}, NEW m \in 1..Len(Spaces), NEW f \in Frame, LoopSteps(m, f)
  PROVE  /\ stack' \in Seq(Frame) /\ Len(stack') \in {Len(stack), Len(stack) + 1}
         /\ \A i \in 1..(Len(stack) - 1) : stack'[i] = stack[i]
         /\ stack'[Len(stack)] = f
         /\ Len(stack') = Len(stack) + 1 =>
              NewBroadcast(stack'[Len(stack) + 1], Spaces[m], handlers[Spaces[m]].enable)
         /\ Spaces[m] \notin Quiet => Len(stack') = Len(stack) + 1
<1> HIDE DEF Frame
<1>1. Types /\ Tree
  BY DEF DevicesInv, Made
<1>2. Spaces[m] \in SpaceTypes /\ handlers[Spaces[m]].enable \in BOOLEAN
  <2>1. Spaces[m] \in SpaceTypes
    BY SpacesFacts
  <2> QED BY <2>1, <1>1 DEF Types, TypeOK
<1> DEFINE g == Broadcast(Spaces[m], handlers[Spaces[m]].enable)
<1>3. NewBroadcast(g, Spaces[m], handlers[Spaces[m]].enable)
  BY <1>1, <1>2, BroadcastFacts DEF NewBroadcast
<1>4. CASE Spaces[m] \in Quiet
  BY <1>4 DEF LoopSteps, Swapped
<1>5. CASE Spaces[m] \notin Quiet
  <2>1. SwappedAndPushed(stack, stack', f, g)
    BY <1>5 DEF LoopSteps
  <2> HIDE DEF g
  <2> QED BY <1>3, <1>5, <2>1 DEF SwappedAndPushed
<1> QED BY <1>4, <1>5

\* Of the region spaces.
LEMMA RegisteredFacts ==
  ASSUME DevicesInv, NEW s \in SpaceTypes, NEW enable \in BOOLEAN, NEW call \in BOOLEAN,
         Registered(s, enable, call)
  PROVE  /\ stack' \in Seq(Frame) /\ Len(stack) \in Nat /\ Len(stack') \in {Len(stack), Len(stack) + 1}
         /\ \A i \in 1..Len(stack) : stack'[i] = stack[i]
         /\ Len(stack') = Len(stack) + 1 => complete /\ NewBroadcast(stack'[Len(stack) + 1], s, enable)
         /\ Len(stack') = Len(stack) + 1 <=> call /\ complete /\ s \notin Quiet
<1> HIDE DEF Frame
<1>1. Types /\ Tree /\ Len(stack) \in Nat /\ stack \in Seq(Frame)
  BY StackFacts DEF DevicesInv, Made, Types
<1> DEFINE g == Broadcast(s, enable)
<1>2. NewBroadcast(g, s, enable)
  BY <1>1, BroadcastFacts DEF NewBroadcast
<1>3. IF call /\ complete /\ s \notin Quiet THEN Pushed(stack, stack', g) ELSE stack' = stack
  BY DEF Registered
<1> HIDE DEF g
<1>4. CASE call /\ complete /\ s \notin Quiet
  BY <1>1, <1>2, <1>3, <1>4 DEF Pushed
<1>5. CASE ~(call /\ complete /\ s \notin Quiet)
  BY <1>1, <1>3, <1>5
<1> QED BY <1>4, <1>5

\* The top is a load, or a part of the end of the initial load.
LEMMA TopFacts ==
  ASSUME DevicesInv, NEW op, Running(op)
  PROVE  /\ Len(stack) \in Nat \ {0} /\ Top = stack[Len(stack)] /\ Top.op = op /\ Top \in Frame
         /\ op = "complete" => Len(stack) = 1 /\ complete
         /\ op \in {"broadcast", "devices"} => complete
         /\ op = "load" /\ Top.pc = "regs" => complete
<1> HIDE DEF Frame
<1>1. Types
  BY DEF DevicesInv
<1>2. Len(stack) \in Nat \ {0} /\ Top = stack[Len(stack)] /\ Top.op = op /\ Top \in Frame
  BY <1>1, AtFacts
<1>3. Len(stack) \in 1..Len(stack) /\ Len(stack) \in DOMAIN stack
  BY <1>1, <1>2, StackFacts
<1>4. op = "complete" => Len(stack) = 1
  <2>1. \A i \in DOMAIN stack : i > 1 => stack[i].op # "complete"
    BY <1>1 DEF Types, TypeOK
  <2>2. Len(stack) > 1 => Top.op # "complete"
    BY <1>2, <1>3, <2>1
  <2>3. \A k \in Nat \ {0} : ~(k > 1) => k = 1
    OBVIOUS
  <2> QED BY <1>2, <2>2, <2>3
<1>5. op = "complete" => complete
  BY <1>2, <1>3 DEF DevicesInv, BeforeComplete
<1>6. op \in {"broadcast", "devices"} => complete
  BY <1>1, <1>2, <1>3 DEF Types, TypeOK
<1>7. op = "load" /\ Top.pc = "regs" => complete
  BY <1>2, <1>3 DEF DevicesInv, LoadsOK
<1> QED BY <1>2, <1>4, <1>5, <1>6, <1>7

\* Nothing is told of a node before it exists, nor does one exist before its table is loaded.
LEMMA MadeStays ==
  ASSUME DevicesInv, LoadSteps \/ HandlerSteps \/ WalkSteps \/ UNCHANGED vars
  PROVE  Made'
<1> HIDE DEF Frame
<1>1. /\ Types /\ Tree /\ \A n \in Nodes \ Live, s \in SpaceTypes : ~told[n][s]
      /\ \A t \in Tables : tables[t] = "new" => ToSet(Declares[t]) \cap Live = {}
  BY DEF DevicesInv, Made
<1>2. tables \in [Tables -> {"new", "running", "loaded", "failed", "freed"}]
  BY <1>1 DEF Types, TypeOK
<1>3. ASSUME Running("load"), Grown(Top.table), told' = told,
             \/ tables' = tables
             \/ \E x \in {"failed", "freed"} : tables' = [tables EXCEPT ![Top.table] = x]
      PROVE  Made'
  <2>1. Top.table \in Tables /\ tables[Top.table] # "new"
    <3>1. Top.table \in Tables /\ Len(stack) \in 1..Len(stack) /\ Top = stack[Len(stack)] /\ Top.op = "load"
      BY <1>3, LoadFacts
    <3> QED BY <3>1 DEF DevicesInv, LoadsOK
  <2>2. \A t \in Tables : tables'[t] = "new" => tables[t] = "new" /\ t # Top.table
    BY <1>2, <1>3, <2>1
  <2>3. Live \subseteq Live' /\ Live' \subseteq Live \cup ToSet(Declares[Top.table]) /\ Tree'
    BY <1>3 DEF Grown
  <2>4. \A t \in Tables : t # Top.table => ToSet(Declares[t]) \cap ToSet(Declares[Top.table]) = {}
    BY <2>1, TableFacts
  <2>5. \A t \in Tables : tables'[t] = "new" => ToSet(Declares[t]) \cap Live' = {}
    BY <1>1, <2>2, <2>3, <2>4
  <2> QED BY <1>1, <1>3, <2>3, <2>5 DEF Made
<1>4. ASSUME created' = created, \A t \in Tables : tables'[t] = "new" => tables[t] = "new",
             \A n \in Nodes \ Live, s \in SpaceTypes : told'[n][s] = told[n][s]
      PROVE  Made'
  BY <1>1, <1>4, TreeStays DEF Made
<1>5. CASE LoadSteps
  <2>1. ASSUME NEW t \in Tables, LoadBegun(t) PROVE Made'
    BY <1>2, <1>4, <2>1 DEF LoadBegun
  <2>2. CASE NamesMade
    BY <1>3, <2>2 DEF NamesMade, At, history
  <2>3. CASE LoadFailed
    BY <1>3, <2>3 DEF LoadFailed, history
  <2>4. CASE TableLoaded
    <3>1. \A t \in Tables : tables'[t] = "new" => tables[t] = "new"
      BY <1>2, <2>4 DEF TableLoaded
    <3> QED BY <1>4, <2>4, <3>1 DEF TableLoaded, history
  <2> QED BY <1>5, <2>1, <2>2, <2>3, <2>4 DEF LoadSteps
<1>6. CASE HandlerSteps
  <2>1. UNCHANGED <<created, tables, told>>
    BY <1>6 DEF HandlerSteps, RegsDone, RegsStep, CompleteBegins, CompleteDone, CompleteStep, Cleared,
                Registered, history
  <2> QED BY <1>4, <2>1
<1>7. CASE WalkSteps
  <2>1. created' = created /\ tables' = tables
    BY <1>7, InsideSteps DEF Inside
  <2>2. ASSUME NEW n \in Nodes \ Live, NEW s \in SpaceTypes PROVE told'[n][s] = told[n][s]
    <3>1. CASE \E f \in Frame : RegTold(f)
      BY <3>1 DEF RegTold
    <3>2. CASE ~\E f \in Frame : RegTold(f)
      <4>1. told' = told
        BY <1>7, <3>2 DEF WalkSteps, WalkEnds, WalkMoves, RootCalled, WalkBegins, AskedBefore, DeviceAsked,
                          MethodOver, HostCalled, HostReturned, history
      <4> QED BY <4>1
    <3> QED BY <3>1, <3>2
  <2> QED BY <1>4, <2>1, <2>2
<1>8. CASE UNCHANGED vars
  BY <1>4, <1>8 DEF vars
<1> QED BY <1>5, <1>6, <1>7, <1>8

\* The types are preserved.
LEMMA TypesStay ==
  ASSUME DevicesInv, LoadSteps \/ HandlerSteps \/ WalkSteps \/ UNCHANGED vars
  PROVE  Types'
<1> HIDE DEF Frame
<1> DEFINE V == {"new", "running", "loaded", "failed", "freed"}
           H == [SpaceTypes -> [enable : BOOLEAN, pending : BOOLEAN]]
           OpsOK(t, c) == \A i \in 1..Len(t) : /\ i > 1 => t[i].op # "complete"
                                               /\ t[i].op \in {"broadcast", "devices"} => c
           Variables == /\ tables' \in [Tables -> V] /\ complete' \in BOOLEAN /\ wanted' \in BOOLEAN
                        /\ handlers' \in H /\ registrations' \in 0..MaxRegistrations
                        /\ inited' \in [Nodes -> BOOLEAN] /\ told' \in [Nodes -> [SpaceTypes -> BOOLEAN]]
                        /\ asked' \in [Devices -> {"never", "answered", "cut"}]
                        /\ announced' \in [Devices -> Nat]
                        /\ reentered' \subseteq Devices /\ unsure' \subseteq SpaceTypes
<1>1. /\ tables \in [Tables -> V] /\ complete \in BOOLEAN /\ wanted \in BOOLEAN
      /\ handlers \in H /\ registrations \in 0..MaxRegistrations
      /\ inited \in [Nodes -> BOOLEAN] /\ told \in [Nodes -> [SpaceTypes -> BOOLEAN]]
      /\ asked \in [Devices -> {"never", "answered", "cut"}] /\ announced \in [Devices -> Nat]
      /\ reentered \subseteq Devices /\ unsure \subseteq SpaceTypes
  BY DEF DevicesInv, Types, TypeOK
<1>2. OpsOK(stack, complete)
  BY StackFacts DEF DevicesInv, Types, TypeOK
<1>3. Types /\ Len(stack) \in Nat /\ stack \in Seq(Frame)
  BY StackFacts DEF DevicesInv, Types
<1>4. ASSUME stack' \in Seq(Frame), Variables, OpsOK(stack', complete') PROVE Types'
  <2>1. Made'
    BY MadeStays
  <2>2. IsInjective(created') /\ Live' \subseteq Nodes
    BY <2>1, LiveAreNodes DEF Made, Tree
  <2>3. DOMAIN stack' = 1..Len(stack')
    BY <1>4, LenProperties
  <2>4. \A i \in DOMAIN stack' :
          stack'[i].op \in {"load", "complete", "broadcast", "devices", "method", "host"}
    BY <1>4, ElementOfSeq, FrameFacts, <2>3
  <2> QED BY <1>4, <2>2, <2>3, <2>4 DEF Types, TypeOK
<1>5. ASSUME UNCHANGED <<complete, handlers, inited, registrations, history>> PROVE
        tables' \in [Tables -> V] => Variables
  BY <1>1, <1>5 DEF history
<1> HIDE DEF Variables
<1>6. CASE LoadSteps
  <2>1. ASSUME NEW t \in Tables, LoadBegun(t) PROVE Types'
    <3>1. Variables /\ stack' \in Seq(Frame) /\ complete' = complete
      BY <1>1, <2>1 DEF LoadBegun, Variables
    <3>2. /\ \A i \in 1..Len(stack) : stack'[i].op = stack[i].op
          /\ stack'[Len(stack) + 1].op = "load" /\ Len(stack') = Len(stack) + 1
      BY <2>1 DEF LoadBegun
    <3>3. OpsOK(stack', complete')
      <4>1. complete' = complete
        BY <3>1
      <4> QED BY <1>2, <1>3, <3>2, <4>1
    <3> QED BY <1>4, <3>1, <3>3
  <2>2. CASE NamesMade
    <3>1. Running("load")
      BY <2>2 DEF NamesMade, At
    <3>2. Variables /\ complete' = complete
      BY <1>1, <1>5, <2>2 DEF NamesMade
    <3>3. stack' \in Seq(Frame) /\ OpsOK(stack', complete')
      <4>1. Len(stack) \in Nat \ {0} /\ [Top EXCEPT !.pc = "full"].op = "load"
        BY <3>1, LoadFacts
      <4> DEFINE f == [Top EXCEPT !.pc = "full"]
      <4>2. Swapped(stack, stack', f)
        BY <2>2 DEF NamesMade
      <4> HIDE DEF f
      <4>3. f.op = "load"
        BY <4>1 DEF f
      <4> QED BY <1>2, <3>2, <4>1, <4>2, <4>3 DEF Swapped
    <3> QED BY <1>4, <3>2, <3>3
  <2>3. CASE LoadFailed
    <3>1. Variables /\ complete' = complete
      BY <1>1, <1>5, <2>3 DEF LoadFailed
    <3>2. stack' \in Seq(Frame) /\ OpsOK(stack', complete')
      BY <1>2, <1>3, <2>3, <3>1 DEF LoadFailed, Popped
    <3> QED BY <1>4, <3>1, <3>2
  <2>4. CASE TableLoaded
    <3>1. Running("load")
      BY <2>4 DEF TableLoaded, At
    <3>2. Variables /\ complete' = complete
      BY <1>1, <1>5, <2>4 DEF TableLoaded
    <3>3. stack' \in Seq(Frame) /\ OpsOK(stack', complete')
      <4>1. CASE complete
        <5>1. Len(stack) \in Nat \ {0} /\ [Top EXCEPT !.pc = "regs"].op = "load"
          BY <3>1, LoadFacts
        <5> DEFINE f == [Top EXCEPT !.pc = "regs"]
        <5>2. Swapped(stack, stack', f)
          BY <2>4, <4>1 DEF TableLoaded
        <5> HIDE DEF f
        <5>3. f.op = "load"
          BY <5>1 DEF f
        <5> QED BY <1>2, <3>2, <5>1, <5>2, <5>3 DEF Swapped
      <4>2. CASE ~complete
        BY <1>2, <1>3, <2>4, <3>2, <4>2 DEF TableLoaded, Popped
      <4> QED BY <4>1, <4>2
    <3> QED BY <1>4, <3>2, <3>3
  <2> QED BY <1>6, <2>1, <2>2, <2>3, <2>4 DEF LoadSteps
<1>7. CASE HandlerSteps
  <2>1. CASE RegsDone
    <3>1. complete /\ Len(stack) \in Nat \ {0}
      BY <2>1, TopFacts DEF RegsDone, At
    <3>2. Variables /\ complete' = complete
      BY <1>1, <2>1 DEF RegsDone, Variables
    <3>3. stack' \in Seq(Frame) /\ OpsOK(stack', complete')
      BY <1>2, <2>1, <3>1, <3>2, InitializeDevicesFacts DEF RegsDone, Swapped
    <3> QED BY <1>4, <3>2, <3>3
  <2>2. ASSUME NEW m \in 1..Len(Spaces), NEW f \in Frame, RegsStep(m, f) \/ CompleteStep(m, f)
        PROVE  Types'
    <3>1. Variables /\ complete' = complete
      BY <1>1, <1>5, <2>2 DEF RegsStep, CompleteStep
    <3>2. complete /\ Len(stack) \in Nat \ {0} /\ (f.op = "complete" => Len(stack) = 1)
      BY <2>2, TopFacts DEF RegsStep, CompleteStep, At
    <3>3. f.op \in {"load", "complete"} /\ LoopSteps(m, f)
      BY <2>2 DEF RegsStep, CompleteStep
    <3>4. stack' \in Seq(Frame) /\ OpsOK(stack', complete')
      <4>1. /\ stack' \in Seq(Frame) /\ Len(stack') \in {Len(stack), Len(stack) + 1}
            /\ \A i \in 1..(Len(stack) - 1) : stack'[i] = stack[i]
            /\ stack'[Len(stack)] = f
            /\ Len(stack') = Len(stack) + 1 => stack'[Len(stack) + 1].op = "broadcast"
        BY <3>2, <3>3, LoopFrames DEF NewBroadcast
      <4> QED BY <1>2, <3>1, <3>2, <3>3, <4>1
    <3> QED BY <1>4, <3>1, <3>4
  <2>3. ASSUME NEW initialize \in BOOLEAN, CompleteBegins(initialize) PROVE Types'
    <3>1. Variables /\ complete' = TRUE
      BY <1>1, <2>3 DEF CompleteBegins, Variables
    <3>2. stack' \in Seq(Frame) /\ OpsOK(stack', complete')
      BY <2>3, <3>1 DEF CompleteBegins, Pushed
    <3> QED BY <1>4, <3>1, <3>2
  <2>4. CASE CompleteDone
    <3>1. Variables /\ complete' = complete
      BY <1>1, <1>5, <2>4 DEF CompleteDone
    <3>2. complete /\ Len(stack) = 1
      BY <2>4, TopFacts DEF CompleteDone, At
    <3>3. stack' \in Seq(Frame) /\ OpsOK(stack', complete')
      BY <2>4, <3>1, <3>2, InitializeDevicesFacts DEF CompleteDone, Swapped, Popped
    <3> QED BY <1>4, <3>1, <3>3
  <2>5. CASE Cleared
    <3>1. complete /\ Len(stack) = 1 /\ Top.op = "complete" /\ Top \in Frame
      BY <2>5, TopFacts DEF Cleared, At
    <3>2. handlers' \in H
      BY <1>1, <2>5 DEF Cleared
    <3>3. Variables /\ complete' = complete
      BY <1>1, <2>5, <3>2 DEF Cleared, history, Variables
    <3>4. stack' \in Seq(Frame) /\ OpsOK(stack', complete')
      BY <2>5, <3>1, <3>3 DEF Cleared, Swapped
    <3> QED BY <1>4, <3>3, <3>4
  <2>6. ASSUME NEW s \in SpaceTypes, NEW enable \in BOOLEAN, NEW call \in BOOLEAN,
               Registered(s, enable, call)
        PROVE  Types'
    <3>1. (~call \/ ~complete) \in BOOLEAN
      OBVIOUS
    <3>2. handlers' \in H
      BY <1>1, <2>6, <3>1 DEF Registered
    <3>3. registrations' \in 0..MaxRegistrations
      BY <1>1, <2>6, DevicesAssumption DEF Registered
    <3>4. unsure' \subseteq SpaceTypes
      BY <1>1, <2>6 DEF Registered
    <3>5. Variables /\ complete' = complete
      BY <1>1, <2>6, <3>2, <3>3, <3>4 DEF Registered, Variables
    <3>6. stack' \in Seq(Frame) /\ OpsOK(stack', complete')
      <4>1. /\ stack' \in Seq(Frame) /\ Len(stack) \in Nat /\ Len(stack') \in {Len(stack), Len(stack) + 1}
            /\ \A i \in 1..Len(stack) : stack'[i] = stack[i]
            /\ Len(stack') = Len(stack) + 1 => complete /\ stack'[Len(stack) + 1].op = "broadcast"
        BY <2>6, RegisteredFacts DEF NewBroadcast
      <4> QED BY <1>2, <3>5, <4>1
    <3> QED BY <1>4, <3>5, <3>6
  <2> QED BY <1>7, <2>1, <2>2, <2>3, <2>4, <2>5, <2>6 DEF HandlerSteps
<1>8. CASE WalkSteps
  <2>1. Inside
    BY <1>8, InsideSteps
  <2>2. Variables /\ complete' = complete /\ stack' \in Seq(Frame)
    BY <1>1, <2>1 DEF Inside, InsideStack, Variables
  <2>3. Top.op \in {"broadcast", "devices"} => complete
    BY <1>2, <2>1 DEF Inside, InsideStack, Top
  <2>4. OpsOK(stack', complete')
    <3> SUFFICES ASSUME NEW i \in 1..Len(stack')
                 PROVE  /\ i > 1 => stack'[i].op # "complete"
                        /\ stack'[i].op \in {"broadcast", "devices"} => complete
      BY <2>2
    <3>1. CASE i \in 1..(Len(stack) - 1)
      <4>1. stack'[i] = stack[i] /\ i \in 1..Len(stack)
        BY <1>3, <2>1, <3>1 DEF Inside, InsideStack
      <4> QED BY <1>2, <4>1
    <3>2. CASE i >= Len(stack)
      BY <2>1, <2>3, <3>2 DEF Inside, InsideStack, Inner
    <3> QED BY <1>3, <3>1, <3>2
  <2> QED BY <1>4, <2>2, <2>4
<1>9. CASE UNCHANGED vars
  <2>1. Variables
    BY <1>1, <1>9 DEF vars, Variables
  <2>2. stack' = stack /\ complete' = complete
    BY <1>9 DEF vars
  <2> QED BY <1>2, <1>3, <1>4, <2>1, <2>2
<1> QED BY <1>6, <1>7, <1>8, <1>9

-----------------------------------------------------------------------------
(* The loads. *)

\* The load at the top, at another place.
LoadAt(f, pc) == f.op = "load" /\ f.pc = pc /\ f.table = Top.table /\ f.i = Top.i

\* The passes of a load, one after the other.
LEMMA LoadGoesOn ==
  ASSUME DevicesInv
  PROVE  /\ NamesMade => \E f \in Frame : Swapped(stack, stack', f) /\ LoadAt(f, "full")
         /\ TableLoaded /\ complete => \E f \in Frame : Swapped(stack, stack', f) /\ LoadAt(f, "regs")
<1>1. ASSUME NamesMade PROVE \E f \in Frame : Swapped(stack, stack', f) /\ LoadAt(f, "full")
  <2> DEFINE f == [Top EXCEPT !.pc = "full"]
  <2>1. f \in Frame /\ LoadAt(f, "full")
    BY <1>1, LoadFacts DEF NamesMade, At, LoadAt
  <2>2. Swapped(stack, stack', f)
    BY <1>1 DEF NamesMade
  <2> QED BY <2>1, <2>2
<1>2. ASSUME TableLoaded, complete PROVE \E f \in Frame : Swapped(stack, stack', f) /\ LoadAt(f, "regs")
  <2> DEFINE f == [Top EXCEPT !.pc = "regs"]
  <2>1. f \in Frame /\ LoadAt(f, "regs")
    BY <1>2, LoadFacts DEF TableLoaded, At, LoadAt
  <2>2. Swapped(stack, stack', f)
    BY <1>2 DEF TableLoaded
  <2> QED BY <2>1, <2>2
<1> QED BY <1>1, <1>2

\* A step at which the loads stay as they are.
SameLoads ==
  /\ \A i \in 1..Len(stack') : stack'[i].op = "load" => i \in 1..Len(stack) /\ stack'[i] = stack[i]
  /\ \A i \in 1..Len(stack) : stack[i].op = "load" => i \in 1..Len(stack') /\ stack'[i] = stack[i]

\* The steps of the end of the initial load.
CompleteSteps ==
  \/ (\E initialize \in BOOLEAN : CompleteBegins(initialize)) \/ CompleteDone
  \/ (\E m \in 1..Len(Spaces), f \in Frame : CompleteStep(m, f)) \/ Cleared
RegisterSteps == \E s \in SpaceTypes, enable, call \in BOOLEAN : Registered(s, enable, call)

\* The steps that do not touch the loads.
LEMMA SameLoadsFacts ==
  ASSUME DevicesInv, CompleteSteps \/ RegisterSteps \/ WalkSteps \/ UNCHANGED vars
  PROVE  /\ SameLoads /\ UNCHANGED <<created, tables>> /\ (complete => complete')
         /\ stack' = stack \/ Len(stack) = 0 \/ Top.op # "load"
<1> HIDE DEF Frame
<1>1. Len(stack) \in Nat
  BY StackFacts DEF DevicesInv
<1>2. ASSUME NEW initialize \in BOOLEAN, CompleteBegins(initialize)
      PROVE  SameLoads /\ UNCHANGED <<created, tables>> /\ Len(stack) = 0 /\ (complete => complete')
  <2>1. Len(stack) = 0 /\ Len(stack') = 1 /\ stack'[1].op = "complete"
    BY <1>2 DEF CompleteBegins, Pushed
  <2> QED BY <1>2, <2>1 DEF SameLoads, CompleteBegins
<1>3. ASSUME NEW op, op # "load", Running(op), UNCHANGED <<created, tables, complete>>,
             \A i \in 1..(Len(stack) - 1) : stack'[i] = stack[i],
             Len(stack') \in Nat, Len(stack') >= Len(stack) - 1,
             \A i \in 1..Len(stack') : i >= Len(stack) => stack'[i].op # "load"
      PROVE  SameLoads /\ UNCHANGED <<created, tables>> /\ Top.op # "load" /\ (complete => complete')
  <2>1. Len(stack) \in Nat \ {0} /\ Top = stack[Len(stack)] /\ Top.op = op
    BY <1>3, TopFacts
  <2>2. \A i \in 1..Len(stack') : stack'[i].op = "load" => i \in 1..(Len(stack) - 1)
    BY <1>3, <2>1
  <2>3. \A i \in 1..Len(stack) : stack[i].op = "load" => i \in 1..(Len(stack) - 1)
    BY <1>3, <2>1
  <2> QED BY <1>3, <2>1, <2>2, <2>3 DEF SameLoads
<1>4. CASE CompleteDone
  <2>1. Running("complete") /\ UNCHANGED <<created, tables, complete>> /\ Len(stack) \in Nat \ {0}
    BY <1>4, TopFacts DEF CompleteDone, At
  <2>2. CASE Popped(stack, stack')
    <3>1. /\ \A i \in 1..(Len(stack) - 1) : stack'[i] = stack[i]
          /\ Len(stack') \in Nat /\ Len(stack') >= Len(stack) - 1
          /\ \A i \in 1..Len(stack') : i >= Len(stack) => stack'[i].op # "load"
      BY <2>1, <2>2 DEF Popped
    <3> QED BY <1>3, <2>1, <3>1
  <2>3. CASE Swapped(stack, stack', InitializeDevices)
    <3>1. /\ \A i \in 1..(Len(stack) - 1) : stack'[i] = stack[i]
          /\ Len(stack') \in Nat /\ Len(stack') >= Len(stack) - 1
          /\ \A i \in 1..Len(stack') : i >= Len(stack) => stack'[i].op # "load"
      BY <2>1, <2>3, InitializeDevicesFacts DEF Swapped
    <3> QED BY <1>3, <2>1, <3>1
  <2> QED BY <1>4, <2>2, <2>3 DEF CompleteDone
<1>5. ASSUME NEW m \in 1..Len(Spaces), NEW f \in Frame, CompleteStep(m, f)
      PROVE  SameLoads /\ UNCHANGED <<created, tables>> /\ Top.op # "load" /\ (complete => complete')
  <2>1. Running("complete") /\ UNCHANGED <<created, tables, complete>> /\ Len(stack) \in Nat \ {0}
        /\ f.op = "complete" /\ LoopSteps(m, f)
    BY <1>5, TopFacts DEF CompleteStep, At
  <2>2. /\ \A i \in 1..(Len(stack) - 1) : stack'[i] = stack[i]
        /\ Len(stack') \in Nat /\ Len(stack') >= Len(stack) - 1
        /\ \A i \in 1..Len(stack') : i >= Len(stack) => stack'[i].op # "load"
    BY <2>1, LoopFrames DEF NewBroadcast
  <2> QED BY <1>3, <2>1, <2>2
<1>6. CASE Cleared
  <2>1. Running("complete") /\ UNCHANGED <<created, tables, complete>> /\ Len(stack) \in Nat \ {0}
    BY <1>6, TopFacts DEF Cleared, At
  <2>2. /\ \A i \in 1..(Len(stack) - 1) : stack'[i] = stack[i]
        /\ Len(stack') \in Nat /\ Len(stack') >= Len(stack) - 1
        /\ \A i \in 1..Len(stack') : i >= Len(stack) => stack'[i].op # "load"
    BY <1>6, <2>1 DEF Cleared, Swapped
  <2> QED BY <1>3, <2>1, <2>2
<1>7. ASSUME NEW s \in SpaceTypes, NEW enable \in BOOLEAN, NEW call \in BOOLEAN,
             Registered(s, enable, call)
      PROVE  /\ SameLoads /\ UNCHANGED <<created, tables>> /\ (complete => complete')
             /\ Len(stack) = 0 \/ Top.op # "load"
  <2>1. /\ Len(stack') \in {Len(stack), Len(stack) + 1}
        /\ \A i \in 1..Len(stack) : stack'[i] = stack[i]
        /\ Len(stack') = Len(stack) + 1 => stack'[Len(stack) + 1].op = "broadcast"
    BY <1>7, RegisteredFacts DEF NewBroadcast
  <2>2. SameLoads
    BY <1>1, <2>1 DEF SameLoads
  <2>3. Len(stack) = 0 \/ Top.op # "load"
    BY <1>7, TopFacts DEF Registered
  <2> QED BY <1>7, <2>2, <2>3 DEF Registered
<1>8. CASE WalkSteps
  <2>1. Inside /\ Len(stack) \in Nat \ {0} /\ Top.op \in Inner
    BY <1>8, InsideSteps DEF Inside, InsideStack
  <2>2. /\ \A i \in 1..(Len(stack) - 1) : stack'[i] = stack[i]
        /\ Len(stack') \in Nat /\ Len(stack') >= Len(stack) - 1
        /\ \A i \in 1..Len(stack') : i >= Len(stack) => stack'[i].op # "load"
        /\ UNCHANGED <<created, tables, complete>>
    BY <2>1 DEF Inside, InsideStack, Inner
  <2>3. Running(Top.op) /\ Top.op # "load"
    BY <2>1, StackFacts DEF Running, Inner, DevicesInv
  <2> QED BY <1>3, <2>2, <2>3
<1>9. CASE UNCHANGED vars
  BY <1>1, <1>9 DEF vars, SameLoads
<1> QED BY <1>2, <1>4, <1>5, <1>6, <1>7, <1>8, <1>9, <1>3 DEF CompleteSteps, RegisterSteps

\* A table is being loaded while one call is there that loads it.
LEMMA LoadsStay ==
  ASSUME DevicesInv, LoadSteps \/ HandlerSteps \/ WalkSteps \/ UNCHANGED vars
  PROVE  LoadsOK'
<1> HIDE DEF Frame
<1> DEFINE Is(f, t) == f.op = "load" /\ f.table = t
           Loading(f, T, c) == /\ T[f.table] = (IF f.pc = "regs" THEN "loaded" ELSE "running")
                               /\ IF f.pc = "regs" THEN c ELSE f.i = 1
           Blank(f, C) == ToSet(Declares[f.table]) \cap C = {}
<1>1. /\ \A i \in 1..Len(stack) : stack[i].op = "load" =>
           /\ Loading(stack[i], tables, complete)
           /\ stack[i].pc = "names" => i = Len(stack) /\ Blank(stack[i], Live)
      /\ \A i, j \in 1..Len(stack) :
           stack[i].op = "load" /\ stack[j].op = "load" /\ stack[i].table = stack[j].table => i = j
      /\ \A t \in Tables : tables[t] = "running" => \E i \in 1..Len(stack) : Is(stack[i], t)
  BY DEF DevicesInv, LoadsOK
<1>2. /\ Types /\ Made /\ Len(stack) \in Nat /\ \A i \in 1..Len(stack) : stack[i] \in Frame
      /\ tables \in [Tables -> {"new", "running", "loaded", "failed", "freed"}]
      /\ \A i \in 1..Len(stack) : stack[i].op = "load" => stack[i].table \in Tables
  <2>1. Types /\ Made /\ Len(stack) \in Nat /\ \A i \in 1..Len(stack) : stack[i] \in Frame
    BY StackFacts DEF DevicesInv
  <2>2. tables \in [Tables -> {"new", "running", "loaded", "failed", "freed"}]
    BY <2>1 DEF Types, TypeOK
  <2> QED BY <2>1, <2>2, FrameFacts DEF LoadFrame
<1>3. ASSUME /\ \A i \in 1..Len(stack') : stack'[i].op = "load" =>
                  /\ Loading(stack'[i], tables', complete')
                  /\ stack'[i].pc = "names" => i = Len(stack') /\ Blank(stack'[i], Live')
             /\ \A i, j \in 1..Len(stack') :
                  stack'[i].op = "load" /\ stack'[j].op = "load" /\ stack'[i].table = stack'[j].table => i = j
             /\ \A t \in Tables : tables'[t] = "running" => \E i \in 1..Len(stack') : Is(stack'[i], t)
      PROVE  LoadsOK'
  BY <1>3 DEF LoadsOK
<1>4. CASE CompleteSteps \/ RegisterSteps \/ WalkSteps \/ UNCHANGED vars
  <2>1. /\ SameLoads /\ UNCHANGED <<created, tables>> /\ (complete => complete')
        /\ stack' = stack \/ Len(stack) = 0 \/ Top.op # "load"
    BY <1>4, SameLoadsFacts
  <2>2. \A i \in 1..Len(stack) : stack[i].op = "load" /\ stack[i].pc = "names" => stack' = stack
    BY <1>1, <1>2, <2>1 DEF Top
  <2>3. Live' = Live
    BY <2>1 DEF Live
  <2> HIDE DEF Blank
  <2>4. \A i \in 1..Len(stack') : stack'[i].op = "load" =>
                  /\ Loading(stack'[i], tables', complete')
                  /\ stack'[i].pc = "names" => i = Len(stack') /\ Blank(stack'[i], Live')
    BY <1>1, <2>1, <2>2, <2>3 DEF SameLoads
  <2>5. \A i, j \in 1..Len(stack') :
                  stack'[i].op = "load" /\ stack'[j].op = "load" /\ stack'[i].table = stack'[j].table => i = j
    BY <1>1, <2>1 DEF SameLoads
  <2>6. \A t \in Tables : tables'[t] = "running" => \E i \in 1..Len(stack') : Is(stack'[i], t)
    BY <1>1, <2>1 DEF SameLoads
  <2> QED BY <1>3, <2>4, <2>5, <2>6
<1>5. ASSUME NEW t \in Tables, LoadBegun(t) PROVE LoadsOK'
  <2> DEFINE g == stack'[Len(stack) + 1]
  <2>1. /\ Len(stack') = Len(stack) + 1 /\ complete' = complete /\ Live' = Live
        /\ g.op = "load" /\ g.pc = "names" /\ g.table = t /\ g.i = 1
        /\ tables[t] = "new" /\ tables'[t] = "running" /\ \A u \in Tables : u # t => tables'[u] = tables[u]
    BY <1>2, <1>5 DEF LoadBegun, Live
  <2>2. /\ \A i \in 1..Len(stack) : stack[i].op = "load" => stack'[i] = stack[i]
        /\ \A i \in 1..Len(stack) : stack'[i].op = "load" => stack[i].op = "load"
    BY <1>5 DEF LoadBegun
  <2>3. ASSUME NEW i \in 1..Len(stack), stack[i].op = "load"
        PROVE  stack[i].pc # "names" /\ stack[i].table # t
    <3>1. stack[i].pc # "names"
      BY <1>1, <1>2, <1>5, <2>3 DEF LoadBegun, Top
    <3> QED BY <1>1, <2>1, <2>3, <3>1
  <2>4. Blank(g, Live)
    BY <1>2, <2>1 DEF Made
  <2> HIDE DEF g, Blank
  <2>5. \A i \in 1..Len(stack') : i \in 1..Len(stack) \/ i = Len(stack')
    BY <1>2, <2>1
  <2>6. ASSUME NEW i \in 1..Len(stack'), stack'[i].op = "load"
        PROVE  /\ Loading(stack'[i], tables', complete')
               /\ stack'[i].pc = "names" => i = Len(stack') /\ Blank(stack'[i], Live')
    <3>1. CASE i \in 1..Len(stack)
      BY <1>1, <1>2, <2>1, <2>2, <2>3, <2>6, <3>1
    <3>2. CASE i = Len(stack')
      <4>1. stack'[i] = g
        BY <2>1, <3>2 DEF g
      <4> QED BY <2>1, <2>4, <3>2, <4>1
    <3> QED BY <2>5, <3>1, <3>2
  <2>7. ASSUME NEW i \in 1..Len(stack'), NEW j \in 1..Len(stack'),
               stack'[i].op = "load", stack'[j].op = "load", stack'[i].table = stack'[j].table
        PROVE  i = j
    <3>1. CASE i \in 1..Len(stack) /\ j \in 1..Len(stack)
      BY <1>1, <2>2, <2>7, <3>1
    <3>2. ASSUME NEW k \in 1..Len(stack), stack'[k].op = "load" PROVE stack'[k].table # t
      BY <2>2, <2>3, <3>2
    <3>3. stack'[Len(stack')].table = t
      BY <2>1 DEF g
    <3> QED BY <2>5, <2>7, <3>1, <3>2, <3>3
  <2>8. ASSUME NEW u \in Tables, tables'[u] = "running"
        PROVE  \E i \in 1..Len(stack') : Is(stack'[i], u)
    <3>1. CASE u = t
      <4>1. Len(stack') \in 1..Len(stack') /\ Is(stack'[Len(stack')], t)
        BY <1>2, <2>1 DEF g
      <4> QED BY <3>1, <4>1
    <3>2. CASE u # t
      <4>1. PICK i \in 1..Len(stack) : Is(stack[i], u)
        BY <1>1, <2>1, <2>8, <3>2
      <4>2. i \in 1..Len(stack')
        BY <1>2, <2>1
      <4> QED BY <2>2, <4>1, <4>2
    <3> QED BY <3>1, <3>2
  <2> QED BY <1>3, <2>6, <2>7, <2>8
<1>6. ASSUME Running("load"), Len(stack') \in Nat, complete' = complete,
             \A t \in Tables : t # Top.table => tables'[t] = tables[t],
             \A i \in 1..(Len(stack) - 1) : stack'[i] = stack[i],
             \A i \in 1..Len(stack') : i > Len(stack) => stack'[i].op # "load",
             \/ /\ Len(stack') = Len(stack) - 1 \/ stack'[Len(stack)].op # "load"
                /\ Len(stack') >= Len(stack) - 1 /\ tables'[Top.table] # "running"
             \/ /\ Len(stack') >= Len(stack)
                /\ LET f == stack'[Len(stack)]
                   IN  f.op = "load" /\ f.table = Top.table /\ f.pc # "names" /\ Loading(f, tables', complete')
      PROVE  LoadsOK'
  <2>1. /\ Len(stack) \in Nat \ {0} /\ Len(stack) \in 1..Len(stack) /\ Top = stack[Len(stack)]
        /\ Top.op = "load" /\ Top.table \in Tables
    BY <1>6, LoadFacts
  <2>2. \A i \in 1..Len(stack') : i \in 1..(Len(stack) - 1) \/ i = Len(stack) \/ i > Len(stack)
    BY <1>6, <2>1
  <2>3. \A i \in 1..(Len(stack) - 1) :
          i \in 1..Len(stack) /\ i \in 1..Len(stack') /\ i # Len(stack) /\ stack'[i] = stack[i]
    BY <1>6, <2>1
  <2>4. ASSUME NEW i \in 1..(Len(stack) - 1), stack[i].op = "load"
        PROVE  stack[i].pc # "names" /\ stack[i].table # Top.table /\ stack[i].table \in Tables
    BY <1>1, <1>2, <2>1, <2>3, <2>4
  <2> DEFINE f == stack'[Len(stack)]
             Kept == Len(stack) \in 1..Len(stack') /\ f.op = "load"
  <2>5. Kept => f.table = Top.table /\ f.pc # "names" /\ Loading(f, tables', complete')
    BY <1>6, <2>1
  <2> HIDE DEF f, Blank
  <2>6. ASSUME NEW i \in 1..Len(stack'), stack'[i].op = "load"
        PROVE  i \in 1..(Len(stack) - 1) \/ (i = Len(stack) /\ Kept)
    BY <1>6, <2>2, <2>6 DEF f
  <2>7. ASSUME NEW i \in 1..Len(stack'), stack'[i].op = "load"
        PROVE  Loading(stack'[i], tables', complete') /\ stack'[i].pc # "names"
    <3>1. CASE i \in 1..(Len(stack) - 1)
      <4>1. stack[i].op = "load" /\ stack'[i] = stack[i] /\ i \in 1..Len(stack)
        BY <2>3, <2>7, <3>1
      <4>2. stack[i].pc # "names" /\ stack[i].table # Top.table /\ stack[i].table \in Tables
        BY <2>4, <3>1, <4>1
      <4>3. Loading(stack[i], tables, complete)
        BY <1>1, <4>1
      <4> QED BY <1>6, <4>1, <4>2, <4>3
    <3>2. CASE i = Len(stack) /\ Kept
      BY <2>5, <3>2 DEF f
    <3> QED BY <2>6, <2>7, <3>1, <3>2
  <2>8. ASSUME NEW i \in 1..Len(stack'), NEW j \in 1..Len(stack'),
               stack'[i].op = "load", stack'[j].op = "load", stack'[i].table = stack'[j].table
        PROVE  i = j
    <3>1. CASE i \in 1..(Len(stack) - 1) /\ j \in 1..(Len(stack) - 1)
      BY <1>1, <2>3, <2>8, <3>1
    <3>2. ASSUME NEW k \in 1..(Len(stack) - 1), stack'[k].op = "load" PROVE stack'[k].table # Top.table
      BY <2>3, <2>4, <3>2
    <3>3. Kept => stack'[Len(stack)].table = Top.table
      BY <2>5 DEF f
    <3> QED BY <2>6, <2>8, <3>1, <3>2, <3>3
  <2>9. ASSUME NEW u \in Tables, tables'[u] = "running"
        PROVE  \E i \in 1..Len(stack') : Is(stack'[i], u)
    <3>1. CASE u = Top.table
      <4>1. Len(stack) \in 1..Len(stack') /\ Is(stack'[Len(stack)], Top.table)
        BY <1>6, <2>1, <2>9, <3>1
      <4> QED BY <3>1, <4>1
    <3>2. CASE u # Top.table
      <4>1. PICK i \in 1..Len(stack) : Is(stack[i], u)
        BY <1>1, <1>6, <2>9, <3>2
      <4>2. i # Len(stack)
        BY <2>1, <3>2, <4>1
      <4>3. i \in 1..(Len(stack) - 1)
        BY <2>1, <4>2
      <4> QED BY <2>3, <4>1, <4>3
    <3> QED BY <3>1, <3>2
  <2> QED BY <1>3, <2>7, <2>8, <2>9
<1>7. CASE NamesMade
  <2>1. PICK f \in Frame : Swapped(stack, stack', f) /\ LoadAt(f, "full")
    BY <1>7, LoadGoesOn
  <2>2. Running("load") /\ Top.pc = "names" /\ complete' = complete /\ tables' = tables
    BY <1>7 DEF NamesMade, At
  <2>3. Len(stack) \in Nat \ {0} /\ Top = stack[Len(stack)] /\ Top.op = "load"
    BY <2>2, LoadFacts
  <2>4. tables[Top.table] = "running" /\ Top.i = 1
    BY <1>1, <2>2, <2>3
  <2>5. /\ Len(stack') = Len(stack) /\ stack'[Len(stack)] = f
        /\ \A i \in 1..(Len(stack) - 1) : stack'[i] = stack[i]
    BY <2>1 DEF Swapped
  <2>6. f.op = "load" /\ f.table = Top.table /\ f.pc # "names" /\ Loading(f, tables', complete')
    BY <2>1, <2>2, <2>4 DEF LoadAt
  <2> HIDE DEF Loading
  <2> QED BY <1>6, <2>2, <2>3, <2>5, <2>6
<1>8. CASE LoadFailed
  <2>1. Running("load") /\ complete' = complete /\ Popped(stack, stack')
    BY <1>8 DEF LoadFailed
  <2>2. Len(stack) \in Nat \ {0} /\ Top.table \in Tables
    BY <2>1, LoadFacts
  <2>3. tables'[Top.table] # "running" /\ \A t \in Tables : t # Top.table => tables'[t] = tables[t]
    BY <1>2, <1>8, <2>2 DEF LoadFailed
  <2>4. Len(stack') = Len(stack) - 1 /\ \A i \in 1..(Len(stack) - 1) : stack'[i] = stack[i]
    BY <2>1 DEF Popped
  <2> HIDE DEF Loading
  <2> QED BY <1>6, <2>1, <2>2, <2>3, <2>4
<1>9. CASE TableLoaded
  <2>1. Running("load") /\ complete' = complete /\ Top.pc = "full"
    BY <1>9 DEF TableLoaded, At
  <2>2. Len(stack) \in Nat \ {0} /\ Top.table \in Tables /\ Top = stack[Len(stack)] /\ Top.op = "load"
    BY <2>1, LoadFacts
  <2>3. tables'[Top.table] = "loaded" /\ \A t \in Tables : t # Top.table => tables'[t] = tables[t]
    BY <1>2, <1>9, <2>2 DEF TableLoaded
  <2>4. CASE complete
    <3>1. PICK f \in Frame : Swapped(stack, stack', f) /\ LoadAt(f, "regs")
      BY <1>9, <2>4, LoadGoesOn
    <3>2. /\ Len(stack') = Len(stack) /\ stack'[Len(stack)] = f
          /\ \A i \in 1..(Len(stack) - 1) : stack'[i] = stack[i]
      BY <3>1 DEF Swapped
    <3>3. f.op = "load" /\ f.table = Top.table /\ f.pc # "names" /\ Loading(f, tables', complete')
      BY <2>1, <2>3, <2>4, <3>1 DEF LoadAt
    <3> HIDE DEF Loading
    <3> QED BY <1>6, <2>1, <2>2, <2>3, <3>2, <3>3
  <2>5. CASE ~complete
    <3>1. Len(stack') = Len(stack) - 1 /\ \A i \in 1..(Len(stack) - 1) : stack'[i] = stack[i]
      BY <1>9, <2>5 DEF TableLoaded, Popped
    <3> HIDE DEF Loading
    <3> QED BY <1>6, <2>1, <2>2, <2>3, <3>1
  <2> QED BY <2>4, <2>5
<1>10. ASSUME NEW m \in 1..Len(Spaces), NEW f \in Frame, RegsStep(m, f) PROVE LoadsOK'
  <2>1. Running("load") /\ complete' = complete /\ tables' = tables /\ Top.pc = "regs" /\ LoopSteps(m, f)
        /\ f.op = "load" /\ f.pc = "regs" /\ f.table = Top.table
    BY <1>10 DEF RegsStep, At
  <2>2. Len(stack) \in Nat \ {0} /\ Top = stack[Len(stack)] /\ Top.op = "load" /\ complete
    BY <2>1, TopFacts
  <2>3. Len(stack) \in 1..Len(stack) /\ tables[Top.table] = "loaded"
    BY <1>1, <2>1, <2>2
  <2>4. /\ Len(stack') \in {Len(stack), Len(stack) + 1} /\ stack'[Len(stack)] = f
        /\ \A i \in 1..(Len(stack) - 1) : stack'[i] = stack[i]
        /\ Len(stack') = Len(stack) + 1 => stack'[Len(stack) + 1].op = "broadcast"
    BY <2>1, <2>2, LoopFrames DEF NewBroadcast
  <2>5. /\ \A i \in 1..Len(stack') : i > Len(stack) => stack'[i].op # "load"
        /\ Len(stack') \in Nat /\ Len(stack') >= Len(stack)
    BY <2>2, <2>4
  <2>6. f.op = "load" /\ f.table = Top.table /\ f.pc # "names" /\ Loading(f, tables', complete')
    BY <2>1, <2>2, <2>3
  <2> HIDE DEF Loading
  <2> QED BY <1>6, <2>1, <2>4, <2>5, <2>6
<1>11. CASE RegsDone
  <2>1. Running("load") /\ complete' = complete /\ tables' = tables /\ Top.pc = "regs"
    BY <1>11 DEF RegsDone, At
  <2>2. Len(stack) \in Nat \ {0} /\ Top = stack[Len(stack)] /\ Top.op = "load"
    BY <2>1, TopFacts
  <2>3. Len(stack) \in 1..Len(stack) /\ tables'[Top.table] # "running"
    BY <1>1, <2>1, <2>2
  <2>4. /\ Len(stack') = Len(stack) /\ stack'[Len(stack)].op # "load"
        /\ \A i \in 1..(Len(stack) - 1) : stack'[i] = stack[i]
    BY <1>11, InitializeDevicesFacts DEF RegsDone, Swapped
  <2> HIDE DEF Loading
  <2> QED BY <1>6, <2>1, <2>2, <2>3, <2>4
<1>12. LoadSteps => LoadsOK'
  BY <1>5, <1>7, <1>8, <1>9 DEF LoadSteps
<1>13. HandlerSteps => LoadsOK'
  <2>1. HandlerSteps => CompleteSteps \/ RegisterSteps \/ RegsDone
                         \/ \E m \in 1..Len(Spaces), f \in Frame : RegsStep(m, f)
    BY DEF HandlerSteps, CompleteSteps, RegisterSteps
  <2> QED BY <2>1, <1>4, <1>10, <1>11
<1> QED BY <1>4, <1>12, <1>13

-----------------------------------------------------------------------------
(* The walks. *)

\* The nodes never leave the tree.
LEMMA LiveGrows ==
  ASSUME DevicesInv, LoadSteps \/ HandlerSteps \/ WalkSteps \/ UNCHANGED vars
  PROVE  /\ Live \subseteq Live' /\ Tree /\ Tree'
         /\ Len(created) <= Len(created') /\ \A i \in 1..Len(created) : created'[i] = created[i]
         /\ created' = created \/ (Running("load") /\ Grown(Top.table))
<1> HIDE DEF Frame
<1>1. Tree /\ Tree' /\ Len(created) \in Nat
  BY MadeStays, LiveFacts DEF DevicesInv, Made
<1>2. created' = created \/ (Running("load") /\ Grown(Top.table))
  <2>1. LoadSteps => created' = created \/ (Running("load") /\ Grown(Top.table))
    BY DEF LoadSteps, LoadBegun, NamesMade, LoadFailed, TableLoaded, At
  <2>2. HandlerSteps => created' = created
    BY DEF HandlerSteps, RegsDone, RegsStep, CompleteBegins, CompleteDone, CompleteStep, Cleared, Registered
  <2>3. WalkSteps => created' = created
    BY InsideSteps DEF Inside
  <2> QED BY <2>1, <2>2, <2>3 DEF vars
<1>3. CASE created' = created
  BY <1>1, <1>2, <1>3 DEF Live
<1>4. CASE Grown(Top.table)
  BY <1>1, <1>2, <1>4 DEF Grown
<1> QED BY <1>2, <1>3, <1>4

\* The places of the walks are preserved.
LEMMA WalksStay ==
  ASSUME DevicesInv, LoadSteps \/ HandlerSteps \/ WalkSteps \/ UNCHANGED vars
  PROVE  WalksOK'
<1> HIDE DEF Frame
<1> DEFINE Ready(i) == /\ WalkOK(stack'[i].walk)
                       /\ stack'[i].pc = "visit" =>
                            i = Len(stack') /\ Visiting(Last(stack'[i].walk)) /\ created' = created
           Kept(i) == i \in 1..Len(stack) /\ stack'[i] = stack[i] /\ stack[i].pc # "visit"
           Good == \A i \in 1..Len(stack') : IsWalk(stack'[i]) => Kept(i) \/ Ready(i)
           Below == \A i \in 1..(Len(stack) - 1) : i \in 1..Len(stack') => stack'[i] = stack[i]
           Above1 == \A i \in 1..Len(stack') : i >= Len(stack) => (IsWalk(stack'[i]) => Ready(i))
<1>1. Types /\ Tree /\ Len(stack) \in Nat
  BY StackFacts DEF DevicesInv, Made
<1>2. \A i \in 1..Len(stack) : IsWalk(stack[i]) =>
         /\ WalkOK(stack[i].walk)
         /\ stack[i].pc = "visit" => i = Len(stack) /\ Visiting(Last(stack[i].walk))
  BY DEF DevicesInv, WalksOK, Visiting
<1>3. ASSUME Good PROVE WalksOK'
  <2>1. Live \subseteq Live'
    BY LiveGrows
  <2>2. \A w : WalkOK(w) => WalkIn(w, Live')
    BY <2>1 DEF WalkOK, WalkIn, VisitIn
  <2> SUFFICES ASSUME NEW i \in 1..Len(stack'), IsWalk(stack'[i])
               PROVE  /\ WalkIn(stack'[i].walk, Live')
                      /\ stack'[i].pc = "visit" =>
                           LET v == Last(stack'[i].walk)
                           IN  /\ i = Len(stack') /\ v.node \in Devices \cap Live'
                               /\ ~SkipChildren(v) /\ AtFirst(created', v)
    BY DEF WalksOK, WalkOK, IsWalk, SkipChildren
  <2>3. Kept(i) \/ Ready(i)
    BY <1>3
  <2>4. WalkIn(stack'[i].walk, Live')
    BY <1>2, <2>2, <2>3
  <2>5. ASSUME stack'[i].pc = "visit"
        PROVE  i = Len(stack') /\ Visiting(Last(stack'[i].walk)) /\ created' = created /\ Live' = Live
    BY <2>3, <2>5 DEF Live
  <2> QED BY <2>4, <2>5 DEF Visiting
<1>4. ASSUME Len(stack) \in Nat \ {0}, Len(stack') \in Nat, Below, Above1 PROVE WalksOK'
  <2> SUFFICES ASSUME NEW i \in 1..Len(stack'), IsWalk(stack'[i]) PROVE Kept(i) \/ Ready(i)
    BY <1>3
  <2>1. CASE i >= Len(stack)
    BY <1>4, <2>1
  <2>2. CASE i \in 1..(Len(stack) - 1)
    <3>1. stack'[i] = stack[i] /\ i \in 1..Len(stack) /\ i # Len(stack)
      BY <1>4, <2>2
    <3> QED BY <1>2, <3>1
  <2> QED BY <1>4, <2>1, <2>2
<1>5. ASSUME Len(stack) = 0 \/ ~IsWalk(Top), Len(stack') = Len(stack) + 1,
             \A i \in 1..Len(stack) : IsWalk(stack'[i]) => stack'[i] = stack[i],
             IsWalk(stack'[Len(stack) + 1]) => Ready(Len(stack) + 1)
      PROVE  WalksOK'
  <2> SUFFICES ASSUME NEW i \in 1..Len(stack'), IsWalk(stack'[i]) PROVE Kept(i) \/ Ready(i)
    BY <1>3
  <2>1. CASE i \in 1..Len(stack)
    BY <1>1, <1>2, <1>5, <2>1 DEF Top
  <2>2. CASE i = Len(stack) + 1
    BY <1>5, <2>2
  <2> QED BY <1>1, <1>5, <2>1, <2>2
<1>6. CASE LoadSteps
  <2>1. ASSUME NEW t \in Tables, LoadBegun(t) PROVE WalksOK'
    <3>1. Len(stack) = 0 \/ ~IsWalk(Top)
      BY <1>1, <2>1 DEF LoadBegun, IsWalk
    <3>2. \A i \in 1..Len(stack) : IsWalk(stack'[i]) => stack'[i] = stack[i]
      BY <2>1 DEF LoadBegun, IsWalk
    <3>3. ~IsWalk(stack'[Len(stack) + 1]) /\ Len(stack') = Len(stack) + 1
      BY <2>1 DEF LoadBegun, IsWalk
    <3> QED BY <1>5, <3>1, <3>2, <3>3
  <2>2. ASSUME NEW f \in Frame, f.op = "load", Running("load"), Swapped(stack, stack', f) PROVE WalksOK'
    <3>1. Len(stack) \in Nat \ {0} /\ ~IsWalk(f)
      BY <2>2, TopFacts DEF IsWalk
    <3>2. Len(stack') \in Nat /\ Below /\ \A i \in 1..Len(stack') : i >= Len(stack) => stack'[i] = f
      BY <2>2, <3>1 DEF Swapped
    <3> QED BY <1>4, <3>1, <3>2
  <2>3. ASSUME Running("load"), Popped(stack, stack') PROVE WalksOK'
    <3>1. Len(stack) \in Nat \ {0}
      BY <2>3, TopFacts
    <3>2. Len(stack') \in Nat /\ Below /\ ~\E i \in 1..Len(stack') : i >= Len(stack)
      BY <2>3, <3>1 DEF Popped
    <3> QED BY <1>4, <3>1, <3>2
  <2>4. CASE NamesMade
    BY <2>2, <2>4, LoadGoesOn DEF NamesMade, At, LoadAt
  <2>5. CASE LoadFailed
    BY <2>3, <2>5 DEF LoadFailed
  <2>6. CASE TableLoaded
    <3>1. CASE complete
      BY <2>2, <2>6, <3>1, LoadGoesOn DEF TableLoaded, At, LoadAt
    <3>2. CASE ~complete
      BY <2>3, <2>6, <3>2 DEF TableLoaded, At
    <3> QED BY <3>1, <3>2
  <2> QED BY <1>6, <2>1, <2>4, <2>5, <2>6 DEF LoadSteps
<1>7. CASE HandlerSteps
  <2>1. ASSUME NEW op, Running(op), NEW f \in Frame, ~IsWalk(f), Swapped(stack, stack', f) PROVE WalksOK'
    <3>1. Len(stack) \in Nat \ {0}
      BY <2>1, TopFacts
    <3>2. Len(stack') \in Nat /\ Below /\ \A i \in 1..Len(stack') : i >= Len(stack) => stack'[i] = f
      BY <2>1, <3>1 DEF Swapped
    <3> QED BY <1>4, <2>1, <3>1, <3>2
  <2>2. ASSUME NEW m \in 1..Len(Spaces), NEW f \in Frame, RegsStep(m, f) \/ CompleteStep(m, f)
        PROVE  WalksOK'
    <3>1. Len(stack) \in Nat \ {0} /\ LoopSteps(m, f) /\ ~IsWalk(f)
      BY <2>2, TopFacts DEF RegsStep, CompleteStep, At, IsWalk
    <3>2. /\ Len(stack') \in {Len(stack), Len(stack) + 1} /\ stack'[Len(stack)] = f
          /\ \A i \in 1..(Len(stack) - 1) : stack'[i] = stack[i]
          /\ Len(stack') = Len(stack) + 1 => /\ stack'[Len(stack) + 1].pc = "go"
                                             /\ WalkOK(stack'[Len(stack) + 1].walk)
      BY <3>1, LoopFrames DEF NewBroadcast
    <3>3. \A i \in 1..Len(stack') : i >= Len(stack) =>
             i = Len(stack) \/ (i = Len(stack) + 1 /\ Len(stack') = Len(stack) + 1)
      BY <3>1, <3>2
    <3>4. Above1
      BY <3>1, <3>2, <3>3
    <3>5. Len(stack') \in Nat /\ Below
      BY <3>1, <3>2
    <3> QED BY <1>4, <3>1, <3>4, <3>5
  <2>3. ~IsWalk(InitializeDevices)
    BY InitializeDevicesFacts DEF IsWalk
  <2>4. CASE RegsDone
    BY <2>1, <2>3, <2>4, InitializeDevicesFacts DEF RegsDone, At
  <2>5. CASE CompleteDone
    <3>1. CASE Swapped(stack, stack', InitializeDevices)
      BY <2>1, <2>3, <2>5, <3>1, InitializeDevicesFacts DEF CompleteDone, At
    <3>2. CASE Popped(stack, stack')
      <4>1. Len(stack) \in Nat \ {0}
        BY <2>5, TopFacts DEF CompleteDone, At
      <4>2. Len(stack') \in Nat /\ Below /\ ~\E i \in 1..Len(stack') : i >= Len(stack)
        BY <3>2, <4>1 DEF Popped
      <4> QED BY <1>4, <4>1, <4>2
    <3> QED BY <2>5, <3>1, <3>2 DEF CompleteDone
  <2>6. CASE Cleared
    BY <2>1, <2>6 DEF Cleared, At, IsWalk
  <2>7. ASSUME NEW initialize \in BOOLEAN, CompleteBegins(initialize) PROVE WalksOK'
    <3>1. Len(stack) = 0 /\ Len(stack') = 1 /\ ~IsWalk(stack'[1])
      BY <2>7 DEF CompleteBegins, Pushed, IsWalk
    <3> QED BY <1>3, <3>1
  <2>8. ASSUME NEW s \in SpaceTypes, NEW enable \in BOOLEAN, NEW call \in BOOLEAN,
               Registered(s, enable, call)
        PROVE  WalksOK'
    <3>1. /\ Len(stack') \in {Len(stack), Len(stack) + 1}
          /\ \A i \in 1..Len(stack) : stack'[i] = stack[i]
          /\ Len(stack') = Len(stack) + 1 => /\ stack'[Len(stack) + 1].pc = "go"
                                             /\ WalkOK(stack'[Len(stack) + 1].walk)
      BY <2>8, RegisteredFacts DEF NewBroadcast
    <3>2. Len(stack) = 0 \/ ~IsWalk(Top)
      BY <2>8, TopFacts DEF Registered, IsWalk
    <3>3. CASE Len(stack') = Len(stack) + 1
      BY <1>5, <3>1, <3>2, <3>3
    <3>4. CASE Len(stack') = Len(stack)
      BY <1>1, <1>2, <1>3, <3>1, <3>2, <3>4 DEF Top
    <3> QED BY <3>1, <3>3, <3>4
  <2> QED BY <1>7, <2>2, <2>4, <2>5, <2>6, <2>7, <2>8 DEF HandlerSteps
<1>8. CASE WalkSteps
  <2>1. Inside /\ InsideStack
    BY <1>8, InsideSteps DEF Inside
  <2>2. Len(stack) \in Nat \ {0} /\ Len(stack') \in Nat /\ Below /\ created' = created
    BY <2>1 DEF Inside, InsideStack
  <2>3. ASSUME NEW f \in Frame, f.op = Top.op, IsWalk(f) => WalkOK(f.walk) /\ f.pc = "go",
               \/ Swapped(stack, stack', f)
               \/ \E g \in Frame : SwappedAndPushed(stack, stack', f, g) /\ g.op = "method"
        PROVE  WalksOK'
    <3>1. CASE Swapped(stack, stack', f)
      <4>1. \A i \in 1..Len(stack') : i >= Len(stack) => stack'[i] = f
        BY <2>2, <3>1 DEF Swapped
      <4> QED BY <1>4, <2>2, <2>3, <4>1
    <3>2. ASSUME NEW g \in Frame, SwappedAndPushed(stack, stack', f, g), g.op = "method" PROVE WalksOK'
      <4>1. \A i \in 1..Len(stack') : i >= Len(stack) => stack'[i] = f \/ stack'[i] = g
        BY <2>2, <3>2 DEF SwappedAndPushed
      <4>2. ~IsWalk(g)
        BY <3>2 DEF IsWalk
      <4> QED BY <1>4, <2>2, <2>3, <4>1, <4>2
    <3> QED BY <2>3, <3>1, <3>2
  <2>4. CASE WalkEnds \/ MethodOver \/ HostReturned
    <3>1. Popped(stack, stack')
      BY <2>4 DEF WalkEnds, MethodOver, HostReturned
    <3>2. ~\E i \in 1..Len(stack') : i >= Len(stack)
      BY <2>2, <3>1 DEF Popped
    <3> QED BY <1>4, <2>2, <3>2
  <2>5. ASSUME NEW f \in Frame, WalkMoves(f) PROVE WalksOK'
    <3>1. \A i \in 1..Len(stack') : i >= Len(stack) => stack'[i] = f /\ i = Len(stack')
      BY <2>2, <2>5 DEF WalkMoves, Swapped
    <3>2. WalkOK(f.walk) /\ (f.pc = "visit" => Visiting(Last(f.walk)))
      BY <2>5 DEF WalkMoves, Continues
    <3> QED BY <1>4, <2>2, <3>1, <3>2
  <2>6. ASSUME NEW f \in Frame, RegTold(f) PROVE WalksOK'
    BY <2>3, <2>6 DEF RegTold, Continues
  <2>7. ASSUME NEW f \in Frame, NEW g \in Frame, RootCalled(f, g) PROVE WalksOK'
    <3>1. f.op = Top.op /\ ~IsWalk(f)
      BY <2>7 DEF RootCalled, At, Running, IsWalk
    <3> QED BY <2>3, <2>7, <3>1 DEF RootCalled
  <2>8. ASSUME NEW f \in Frame, WalkBegins(f) PROVE WalksOK'
    BY <2>3, <2>8 DEF WalkBegins, At, Running
  <2>9. ASSUME NEW f \in Frame, AskedBefore(f) PROVE WalksOK'
    BY <2>3, <2>9 DEF AskedBefore, Continues
  <2>10. ASSUME NEW status \in Statuses, NEW f \in Frame, DeviceAsked(status, f) PROVE WalksOK'
    <3>1. f.op = Top.op /\ WalkOK(f.walk) /\ f.pc = "go"
      BY <2>10 DEF DeviceAsked, Continues
    <3>2. \/ Swapped(stack, stack', f)
          \/ \E g \in Frame : SwappedAndPushed(stack, stack', f, g) /\ g.op = "method"
      BY <2>10 DEF DeviceAsked
    <3> QED BY <2>3, <3>1, <3>2
  <2>11. ASSUME NEW g \in Frame, HostCalled(g) PROVE WalksOK'
    <3>1. \A i \in 1..Len(stack') : i >= Len(stack) => stack'[i] = g
      BY <2>2, <2>11 DEF HostCalled, Swapped
    <3>2. ~IsWalk(g)
      BY <2>11 DEF HostCalled, IsWalk
    <3> QED BY <1>4, <2>2, <3>1, <3>2
  <2> QED BY <1>8, <2>4, <2>5, <2>6, <2>7, <2>8, <2>9, <2>10, <2>11 DEF WalkSteps
<1>9. CASE UNCHANGED vars
  BY <1>2, <1>3, <1>9 DEF vars
<1> QED BY <1>6, <1>7, <1>8, <1>9

-----------------------------------------------------------------------------
(* The calls that initialise a device. *)

\* What a call that initialises a device is above is preserved.
LEMMA InitStays ==
  ASSUME DevicesInv, LoadSteps \/ HandlerSteps \/ WalkSteps \/ UNCHANGED vars
  PROVE  InitOK'
<1> HIDE DEF Frame
<1> DEFINE MethodOK(f) == /\ f.why = "root" => Kind[f.node] = "_INI"
                          /\ f.why = "_INI" => Parent[f.node] \in Devices
           Visited(v, d) == v.node = d /\ v.status = "ready" /\ v.next \in Live /\ AtFirst(created, v)
           Under(f, d) == f.op = "devices" /\ f.pc = "go" /\ d \in Live /\ Visited(Last(f.walk), d)
           Kept(i, d) == /\ i \in 1..Len(stack) /\ InitializedBy(stack[i], d)
                         /\ i > 1 /\ stack[i - 1].op = "devices" => stack'[i - 1] = stack[i - 1]
           New(i, d) == i > 1 /\ Under(stack'[i - 1], d)
           Below == \A i \in 1..(Len(stack) - 1) : i \in 1..Len(stack') => stack'[i] = stack[i]
           Plain(f) == f.op \notin {"method", "host"}
<1>1. Types /\ Tree /\ Len(stack) \in Nat
  BY StackFacts DEF DevicesInv, Made
<1>2. /\ \A i \in 1..Len(stack) : stack[i].op = "method" => MethodOK(stack[i])
      /\ \A i \in 1..Len(stack), d \in Devices : InitializedBy(stack[i], d) =>
           i > 1 /\ Under(stack[i - 1], d)
  BY DEF DevicesInv, InitOK
<1>3. ASSUME \A i \in 1..Len(stack') : stack'[i].op = "method" => MethodOK(stack'[i]),
             \A i \in 1..Len(stack'), d \in Devices : InitializedBy(stack'[i], d) =>
               Kept(i, d) \/ New(i, d)
      PROVE  InitOK'
  <2>1. Live \subseteq Live' /\ Len(created) <= Len(created') /\ created \in Seq(Nodes)
        /\ created' \in Seq(Nodes) /\ \A i \in 1..Len(created) : created'[i] = created[i]
    BY LiveGrows DEF Tree
  <2>2. ASSUME NEW f, NEW d, Under(f, d)
        PROVE  /\ f.op = "devices" /\ f.pc = "go" /\ d \in Live'
               /\ LET v == Last(f.walk)
                  IN  v.node = d /\ v.status = "ready" /\ v.next \in Live' /\ AtFirst(created', v)
    <3> DEFINE v == Last(f.walk)
    <3>1. AtFirst(created, v) /\ v.next \in ToSet(created) /\ v.status = "ready"
      BY <2>2 DEF Live
    <3> HIDE DEF v
    <3>2. ~SkipChildren(v)
      BY <3>1 DEF SkipChildren
    <3>3. AtFirst(created', v)
      BY <2>1, <3>1, <3>2, TreeGrows
    <3> QED BY <2>1, <2>2, <3>3 DEF v
  <2>3. ASSUME NEW i \in 1..Len(stack'), NEW d \in Devices, InitializedBy(stack'[i], d)
        PROVE  i > 1 /\ Under(stack'[i - 1], d)
    <3>1. CASE Kept(i, d)
      BY <1>2, <3>1
    <3>2. CASE New(i, d)
      BY <3>2
    <3> QED BY <1>3, <2>3, <3>1, <3>2
  <2>4. ASSUME NEW i \in 1..Len(stack'), NEW d \in Devices, InitializedBy(stack'[i], d)
        PROVE  /\ i > 1 /\ stack'[i - 1].op = "devices" /\ stack'[i - 1].pc = "go" /\ d \in Live'
               /\ LET v == Last(stack'[i - 1].walk)
                  IN  v.node = d /\ v.status = "ready" /\ v.next \in Live' /\ AtFirst(created', v)
    BY <2>2, <2>3, <2>4
  <2> HIDE DEF Under
  <2> QED BY <1>3, <2>4 DEF InitOK, InitializedBy, Ini
<1> HIDE DEF MethodOK
<1>4. ASSUME Len(stack) \in Nat \ {0}, Len(stack') \in Nat, Below,
             \A i \in 1..Len(stack') : i >= Len(stack) =>
               /\ stack'[i].op = "method" => MethodOK(stack'[i])
               /\ \A d \in Devices : InitializedBy(stack'[i], d) =>
                    (i = Len(stack) /\ InitializedBy(stack[i], d)) \/ New(i, d)
      PROVE  InitOK'
  <2>1. ASSUME NEW i \in 1..(Len(stack) - 1), i \in 1..Len(stack')
        PROVE  stack'[i] = stack[i] /\ i \in 1..Len(stack)
    BY <1>4, <2>1
  <2>2. ASSUME NEW i \in 1..Len(stack), i > 1, i \in 1..Len(stack') PROVE stack'[i - 1] = stack[i - 1]
    BY <1>4, <2>2
  <2>3. \A i \in 1..Len(stack') : i \in 1..(Len(stack) - 1) \/ i >= Len(stack)
    BY <1>4
  <2>4. \A i \in 1..Len(stack') : stack'[i].op = "method" => MethodOK(stack'[i])
    BY <1>2, <1>4, <2>1, <2>3
  <2> HIDE DEF New
  <2>5. \A i \in 1..Len(stack'), d \in Devices : InitializedBy(stack'[i], d) => Kept(i, d) \/ New(i, d)
    <3> SUFFICES ASSUME NEW i \in 1..Len(stack'), NEW d \in Devices, InitializedBy(stack'[i], d), ~New(i, d)
                 PROVE  Kept(i, d)
      OBVIOUS
    <3>1. CASE i \in 1..(Len(stack) - 1)
      BY <2>1, <2>2, <3>1
    <3>2. CASE i >= Len(stack)
      <4>1. i = Len(stack) /\ InitializedBy(stack[i], d)
        BY <1>4, <3>2
      <4>2. i \in 1..Len(stack)
        BY <1>4, <4>1
      <4> QED BY <2>2, <4>1, <4>2
    <3> QED BY <2>3, <3>1, <3>2
  <2> QED BY <1>3, <2>4, <2>5 DEF New
<1>5. ASSUME Len(stack) \in Nat \ {0}, Len(stack') \in Nat, Below,
             \A i \in 1..Len(stack') : i >= Len(stack) => Plain(stack'[i])
      PROVE  InitOK'
  BY <1>4, <1>5 DEF InitializedBy, Ini
<1>6. ASSUME Len(stack') \in Nat, Len(stack') >= Len(stack), \A i \in 1..Len(stack) : stack'[i] = stack[i],
             \A i \in 1..Len(stack') : i > Len(stack) => Plain(stack'[i])
      PROVE  InitOK'
  <2>1. \A i \in 1..Len(stack') : i \in 1..Len(stack) \/ Plain(stack'[i])
    BY <1>1, <1>6
  <2>2. \A i \in 1..Len(stack) : i > 1 => i - 1 \in 1..Len(stack)
    BY <1>1
  <2>3. \A i \in 1..Len(stack') : stack'[i].op = "method" => MethodOK(stack'[i])
    BY <1>2, <1>6, <2>1
  <2>4. \A i \in 1..Len(stack'), d \in Devices : InitializedBy(stack'[i], d) => Kept(i, d)
    BY <1>6, <2>1, <2>2 DEF InitializedBy, Ini
  <2> QED BY <1>3, <2>3, <2>4
<1>7. ASSUME NEW op, Running(op), NEW f \in Frame, Plain(f), Swapped(stack, stack', f) PROVE InitOK'
  <2>1. Len(stack) \in Nat \ {0}
    BY <1>7, TopFacts
  <2>2. Len(stack') \in Nat /\ Below /\ \A i \in 1..Len(stack') : i >= Len(stack) => stack'[i] = f
    BY <1>7, <2>1 DEF Swapped
  <2> QED BY <1>5, <1>7, <2>1, <2>2
<1>8. ASSUME NEW op, Running(op), Popped(stack, stack') PROVE InitOK'
  <2>1. Len(stack) \in Nat \ {0}
    BY <1>8, TopFacts
  <2>2. Len(stack') \in Nat /\ Below /\ ~\E i \in 1..Len(stack') : i >= Len(stack)
    BY <1>8, <2>1 DEF Popped
  <2> QED BY <1>5, <2>1, <2>2
<1>9. CASE LoadSteps
  <2>1. ASSUME NEW t \in Tables, LoadBegun(t) PROVE InitOK'
    <3>1. /\ Len(stack') = Len(stack) + 1 /\ stack'[Len(stack) + 1].op = "load"
          /\ \A i \in 1..Len(stack) :
               /\ stack'[i].op = stack[i].op
               /\ stack[i].op # "method" => stack'[i] = stack[i]
               /\ stack[i].op = "method" => stack'[i].node = stack[i].node /\ stack'[i].why = stack[i].why
      BY <2>1 DEF LoadBegun
    <3>2. \A i \in 1..Len(stack') : i \in 1..Len(stack) \/ Plain(stack'[i])
      BY <1>1, <3>1
    <3>3. \A i \in 1..Len(stack') : stack'[i].op = "method" => MethodOK(stack'[i])
      BY <1>2, <3>1, <3>2 DEF MethodOK
    <3>4. \A i \in 1..Len(stack) : i > 1 => i - 1 \in 1..Len(stack)
      BY <1>1
    <3>5. \A i \in 1..Len(stack), d \in Devices :
            InitializedBy(stack'[i], d) => InitializedBy(stack[i], d)
      BY <3>1 DEF InitializedBy, Ini
    <3>6. \A i \in 1..Len(stack'), d \in Devices : InitializedBy(stack'[i], d) => i \in 1..Len(stack)
      BY <3>2 DEF InitializedBy, Ini
    <3>7. \A i \in 1..Len(stack'), d \in Devices : InitializedBy(stack'[i], d) => Kept(i, d)
      BY <3>1, <3>4, <3>5, <3>6
    <3> QED BY <1>3, <3>3, <3>7
  <2>2. CASE NamesMade
    BY <1>7, <2>2, LoadGoesOn DEF NamesMade, At, LoadAt
  <2>3. CASE LoadFailed
    BY <1>8, <2>3 DEF LoadFailed
  <2>4. CASE TableLoaded
    <3>1. CASE complete
      BY <1>7, <2>4, <3>1, LoadGoesOn DEF TableLoaded, At, LoadAt
    <3>2. CASE ~complete
      BY <1>8, <2>4, <3>2 DEF TableLoaded, At
    <3> QED BY <3>1, <3>2
  <2> QED BY <1>9, <2>1, <2>2, <2>3, <2>4 DEF LoadSteps
<1>10. CASE HandlerSteps
  <2>1. Plain(InitializeDevices) /\ InitializeDevices \in Frame
    BY InitializeDevicesFacts
  <2>2. CASE RegsDone
    BY <1>7, <2>1, <2>2 DEF RegsDone, At
  <2>3. CASE CompleteDone
    BY <1>7, <1>8, <2>1, <2>3 DEF CompleteDone, At
  <2>4. CASE Cleared
    BY <1>7, <2>4 DEF Cleared, At
  <2>5. ASSUME NEW m \in 1..Len(Spaces), NEW f \in Frame, RegsStep(m, f) \/ CompleteStep(m, f)
        PROVE  InitOK'
    <3>1. Len(stack) \in Nat \ {0} /\ LoopSteps(m, f) /\ Plain(f)
      BY <2>5, TopFacts DEF RegsStep, CompleteStep, At
    <3>2. /\ Len(stack') \in {Len(stack), Len(stack) + 1} /\ stack'[Len(stack)] = f
          /\ \A i \in 1..(Len(stack) - 1) : stack'[i] = stack[i]
          /\ Len(stack') = Len(stack) + 1 => Plain(stack'[Len(stack) + 1])
      BY <3>1, LoopFrames DEF NewBroadcast
    <3>3. \A i \in 1..Len(stack') : i >= Len(stack) => Plain(stack'[i])
      BY <3>1, <3>2
    <3>4. Len(stack') \in Nat /\ Below
      BY <3>1, <3>2
    <3> QED BY <1>5, <3>1, <3>3, <3>4
  <2>6. ASSUME NEW initialize \in BOOLEAN, CompleteBegins(initialize) PROVE InitOK'
    <3>1. Len(stack) = 0 /\ Len(stack') = 1 /\ Plain(stack'[1])
      BY <2>6 DEF CompleteBegins, Pushed
    <3> QED BY <1>6, <3>1
  <2>7. ASSUME NEW s \in SpaceTypes, NEW enable \in BOOLEAN, NEW call \in BOOLEAN,
               Registered(s, enable, call)
        PROVE  InitOK'
    <3>1. /\ Len(stack') \in {Len(stack), Len(stack) + 1}
          /\ \A i \in 1..Len(stack) : stack'[i] = stack[i]
          /\ Len(stack') = Len(stack) + 1 => Plain(stack'[Len(stack) + 1])
      BY <2>7, RegisteredFacts DEF NewBroadcast
    <3>2. Len(stack') \in Nat /\ Len(stack') >= Len(stack)
          /\ \A i \in 1..Len(stack') : i > Len(stack) => Plain(stack'[i])
      BY <1>1, <3>1
    <3> QED BY <1>6, <3>1, <3>2
  <2> QED BY <1>10, <2>2, <2>3, <2>4, <2>5, <2>6, <2>7 DEF HandlerSteps
<1>11. CASE WalkSteps
  <2>1. Inside /\ InsideStack /\ Running(Top.op)
    BY <1>1, <1>11, InsideSteps, StackFacts DEF Inside, InsideStack, Running
  <2>2. Len(stack) \in Nat \ {0} /\ Len(stack') \in Nat /\ Below
    BY <2>1 DEF Inside, InsideStack
  <2>3. CASE WalkEnds \/ MethodOver \/ HostReturned
    BY <1>8, <2>1, <2>3 DEF WalkEnds, MethodOver, HostReturned
  <2>4. ASSUME NEW f \in Frame, WalkMoves(f) \/ WalkBegins(f) \/ AskedBefore(f) PROVE InitOK'
    <3>1. f.op \in {"broadcast", "devices"} /\ Swapped(stack, stack', f)
      BY <2>4 DEF WalkMoves, WalkBegins, AskedBefore, Continues, Walking, Running
    <3> QED BY <1>7, <2>1, <3>1
  <2>5. ASSUME NEW f \in Frame, NEW g \in Frame, Plain(f), SwappedAndPushed(stack, stack', f, g),
               g.op = "method", MethodOK(g),
               \A d \in Devices : InitializedBy(g, d) => Under(f, d)
        PROVE  InitOK'
    <3>1. /\ \A i \in 1..Len(stack') : i >= Len(stack) => i = Len(stack) \/ i = Len(stack) + 1
          /\ stack'[Len(stack)] = f /\ stack'[Len(stack) + 1] = g
      BY <2>2, <2>5 DEF SwappedAndPushed
    <3>2. \A d \in Devices : InitializedBy(stack'[Len(stack) + 1], d) => New(Len(stack) + 1, d)
      <4>1. Len(stack) + 1 > 1 /\ (Len(stack) + 1) - 1 = Len(stack)
        BY <2>2
      <4> HIDE DEF Under
      <4> QED BY <2>5, <3>1, <4>1
    <3>3. \A d \in Devices : ~InitializedBy(stack'[Len(stack)], d)
      BY <2>5, <3>1 DEF InitializedBy, Ini
    <3> HIDE DEF New
    <3> QED BY <1>4, <2>2, <2>5, <3>1, <3>2, <3>3 DEF New
  <2>6. ASSUME NEW f \in Frame, RegTold(f) PROVE InitOK'
    <3>1. Plain(f)
      BY <2>6 DEF RegTold, Continues, Walking, Running
    <3>2. CASE Swapped(stack, stack', f)
      BY <1>7, <2>1, <3>1, <3>2
    <3>3. ASSUME NEW g \in Frame, SwappedAndPushed(stack, stack', f, g), g.op = "method", g.why = "_REG"
          PROVE  InitOK'
      <4>1. MethodOK(g) /\ \A d \in Devices : ~InitializedBy(g, d)
        BY <3>3 DEF MethodOK, InitializedBy, Ini
      <4> QED BY <2>5, <3>1, <3>3, <4>1
    <3> QED BY <2>6, <3>2, <3>3 DEF RegTold
  <2>7. ASSUME NEW f \in Frame, NEW g \in Frame, RootCalled(f, g) PROVE InitOK'
    <3>1. Plain(f) /\ SwappedAndPushed(stack, stack', f, g) /\ g.op = "method" /\ g.why = "root"
          /\ Kind[g.node] = "_INI"
      BY <2>7 DEF RootCalled
    <3>2. MethodOK(g) /\ \A d \in Devices : ~InitializedBy(g, d)
      BY <3>1 DEF MethodOK, InitializedBy, Ini
    <3> QED BY <2>5, <3>1, <3>2
  <2>8. ASSUME NEW status \in Statuses, NEW f \in Frame, DeviceAsked(status, f) PROVE InitOK'
    <3> DEFINE v == Last(f.walk)
    <3>1. /\ Walking("visit") /\ Top.op = "devices" /\ Continues(Top, f) /\ f.pc = "go"
          /\ v.node = Here.node /\ v.status = status /\ (~SkipChildren(v) => AtFirst(created, v))
          /\ \/ Swapped(stack, stack', f)
             \/ /\ status = "ready" /\ v.next \in Live
                /\ \E g \in Frame : /\ SwappedAndPushed(stack, stack', f, g)
                                    /\ g.op = "method" /\ g.why = "_INI" /\ Parent[g.node] = Here.node
      BY <2>8 DEF DeviceAsked
    <3> HIDE DEF v
    <3>2. Visiting(Here)
      BY <3>1, WalkFrameFacts
    <3>3. f.op = "devices"
      BY <3>1 DEF Continues
    <3>4. CASE Swapped(stack, stack', f)
      BY <1>7, <2>1, <3>3, <3>4
    <3>5. ASSUME NEW g \in Frame, status = "ready", v.next \in Live, SwappedAndPushed(stack, stack', f, g),
                 g.op = "method", g.why = "_INI", Parent[g.node] = Here.node
          PROVE  InitOK'
      <4>1. Here.node \in Devices /\ Here.node \in Live
        BY <3>2 DEF Visiting
      <4>2. MethodOK(g) /\ \A d \in Devices : InitializedBy(g, d) => d = Here.node
        BY <3>5, <4>1 DEF MethodOK, InitializedBy, Ini
      <4>3. ~SkipChildren(v)
        BY <3>1, <3>5 DEF SkipChildren
      <4>4. Under(f, Here.node)
        BY <3>1, <3>3, <3>5, <4>1, <4>3 DEF v
      <4> HIDE DEF Under
      <4> QED BY <2>5, <3>3, <3>5, <4>2, <4>4
    <3> QED BY <3>1, <3>4, <3>5
  <2>9. ASSUME NEW g \in Frame, HostCalled(g) PROVE InitOK'
    <3>1. /\ Top.op = "method" /\ Top.why = "_INI" /\ g.op = "host" /\ g.node = Parent[Top.node]
          /\ Swapped(stack, stack', g) /\ Top = stack[Len(stack)]
      BY <2>9, TopFacts DEF HostCalled
    <3>2. \A d \in Devices : InitializedBy(g, d) => InitializedBy(stack[Len(stack)], d)
      BY <3>1 DEF InitializedBy, Ini
    <3>3. \A i \in 1..Len(stack') : i >= Len(stack) => i = Len(stack) /\ stack'[i] = g
      BY <2>2, <3>1 DEF Swapped
    <3> HIDE DEF New
    <3> QED BY <1>4, <2>2, <3>1, <3>2, <3>3 DEF New
  <2> QED BY <1>11, <2>3, <2>4, <2>6, <2>7, <2>8, <2>9 DEF WalkSteps
<1>12. CASE UNCHANGED vars
  <2>1. stack' = stack
    BY <1>12 DEF vars
  <2>2. \A i \in 1..Len(stack') : ~(i > Len(stack))
    BY <1>1, <2>1
  <2> QED BY <1>1, <1>6, <2>1, <2>2
<1> QED BY <1>9, <1>10, <1>11, <1>12

-----------------------------------------------------------------------------
(* What is announced. *)

\* A step of the top call that initialises no device: the calls below it stay.
PlainTop ==
  /\ Len(stack) \in Nat \ {0} /\ Len(stack') \in Nat
  /\ \A i \in 1..(Len(stack) - 1) : i \in 1..Len(stack') /\ stack'[i] = stack[i]
  /\ \A i \in 1..Len(stack') : i >= Len(stack) =>
       /\ ~Ini(stack'[i]) /\ stack'[i].op # "host"
       /\ stack'[i].op = "load" => i = Len(stack) /\ Top.op = "load" /\ stack'[i].table = Top.table
       /\ stack'[i].op = "devices" => i = Len(stack) /\ (Top.op \in {"load", "devices"} \/ i = 1)
Plain ==
  /\ PlainTop /\ UNCHANGED <<announced, reentered>>
  /\ \A d \in Devices : inited[d] => inited'[d]
  /\ Top.op = "host" => inited'[Top.node]

\* The ways in which the top of the stack changes then.
LEMMA PlainTops ==
  ASSUME Len(stack) \in Nat \ {0},
         \/ Popped(stack, stack')
         \/ \E f \in Frame :
              /\ f.op = "load" => Top.op = "load" /\ f.table = Top.table
              /\ f.op = "devices" => Top.op \in {"load", "devices"} \/ Len(stack) = 1
              /\ f.op \notin {"method", "host"}
              /\ \/ Swapped(stack, stack', f)
                 \/ \E g \in Frame : /\ g.op \notin {"load", "devices", "host"} /\ ~Ini(g)
                                     /\ SwappedAndPushed(stack, stack', f, g)
  PROVE  PlainTop
<1> HIDE DEF Frame
<1>1. CASE Popped(stack, stack')
  BY <1>1 DEF Popped, PlainTop
<1>2. ASSUME NEW f \in Frame, Swapped(stack, stack', f), f.op \notin {"method", "host"},
             f.op = "load" => Top.op = "load" /\ f.table = Top.table,
             f.op = "devices" => Top.op \in {"load", "devices"} \/ Len(stack) = 1
      PROVE  PlainTop
  <2>1. \A i \in 1..Len(stack') : i >= Len(stack) => i = Len(stack) /\ stack'[i] = f
    BY <1>2 DEF Swapped
  <2>2. ~Ini(f)
    BY <1>2 DEF Ini
  <2> QED BY <1>2, <2>1, <2>2 DEF Swapped, PlainTop
<1>3. ASSUME NEW f \in Frame, NEW g \in Frame, SwappedAndPushed(stack, stack', f, g), f.op \notin {"method", "host"},
             f.op = "load" => Top.op = "load" /\ f.table = Top.table,
             f.op = "devices" => Top.op \in {"load", "devices"} \/ Len(stack) = 1,
             g.op \notin {"load", "devices", "host"}, ~Ini(g)
      PROVE  PlainTop
  <2>1. \A i \in 1..Len(stack') : i >= Len(stack) => (i = Len(stack) /\ stack'[i] = f) \/ stack'[i] = g
    BY <1>3 DEF SwappedAndPushed
  <2>2. ~Ini(f)
    BY <1>3 DEF Ini
  <2>3. Len(stack') \in Nat /\ \A i \in 1..(Len(stack) - 1) : i \in 1..Len(stack') /\ stack'[i] = stack[i]
    BY <1>3 DEF SwappedAndPushed
  <2>4. ASSUME NEW i \in 1..Len(stack'), i >= Len(stack)
        PROVE  /\ ~Ini(stack'[i]) /\ stack'[i].op # "host"
               /\ stack'[i].op = "load" => i = Len(stack) /\ Top.op = "load" /\ stack'[i].table = Top.table
               /\ stack'[i].op = "devices" => i = Len(stack) /\ (Top.op \in {"load", "devices"} \/ i = 1)
    BY <1>3, <2>1, <2>2, <2>4
  <2> QED BY <2>3, <2>4 DEF PlainTop
<1> QED BY <1>1, <1>2, <1>3

\* Those are all steps but these.
LEMMA PlainSteps ==
  ASSUME DevicesInv, LoadSteps \/ HandlerSteps \/ WalkSteps,
         ~\E t \in Tables : LoadBegun(t), ~\E initialize \in BOOLEAN : CompleteBegins(initialize),
         ~RegisterSteps, ~\E status \in Statuses, f \in Frame : DeviceAsked(status, f),
         ~\E g \in Frame : HostCalled(g)
  PROVE  Plain
<1> USE DEF history
<1> HIDE DEF Frame
<1>1. Types
  BY DEF DevicesInv
<1>2. ASSUME NEW op, Running(op) PROVE Len(stack) \in Nat \ {0} /\ Top.op = op /\ Top = stack[Len(stack)]
  BY <1>2, TopFacts
<1>3. CASE NamesMade \/ LoadFailed
  <2>1. Running("load") /\ UNCHANGED <<announced, reentered, inited>>
    BY <1>3 DEF NamesMade, LoadFailed, At
  <2>2. Popped(stack, stack') \/ \E f \in Frame : Swapped(stack, stack', f) /\ LoadAt(f, "full")
    BY <1>3, LoadGoesOn DEF LoadFailed
  <2>3. PlainTop
    BY <1>2, <2>1, <2>2, PlainTops DEF LoadAt
  <2> QED BY <1>2, <2>1, <2>3 DEF Plain
<1>4. CASE TableLoaded
  <2>1. Running("load") /\ UNCHANGED <<announced, reentered, inited>>
    BY <1>4 DEF TableLoaded, At
  <2>2. Popped(stack, stack') \/ \E f \in Frame : Swapped(stack, stack', f) /\ LoadAt(f, "regs")
    BY <1>4, LoadGoesOn DEF TableLoaded
  <2>3. PlainTop
    BY <1>2, <2>1, <2>2, PlainTops DEF LoadAt
  <2> QED BY <1>2, <2>1, <2>3 DEF Plain
<1>5. CASE RegsDone \/ CompleteDone
  <2>1. (Running("load") \/ Running("complete")) /\ UNCHANGED <<announced, reentered, inited>>
        /\ (Running("complete") => Len(stack) = 1)
    BY <1>5, TopFacts DEF RegsDone, CompleteDone, At
  <2>2. Popped(stack, stack') \/ Swapped(stack, stack', InitializeDevices)
    BY <1>5 DEF RegsDone, CompleteDone
  <2>3. PlainTop
    BY <1>2, <2>1, <2>2, PlainTops, InitializeDevicesFacts
  <2> QED BY <1>2, <2>1, <2>3 DEF Plain
<1>6. ASSUME NEW m \in 1..Len(Spaces), NEW f \in Frame, RegsStep(m, f) \/ CompleteStep(m, f) PROVE Plain
  <2>1. /\ (Running("load") \/ Running("complete")) /\ UNCHANGED <<announced, reentered, inited>>
        /\ f.op \notin {"method", "host", "devices"} /\ LoopSteps(m, f)
        /\ f.op = "load" => Top.op = "load" /\ f.table = Top.table
        /\ UNCHANGED <<announced, reentered, inited>>
    BY <1>2, <1>6 DEF RegsStep, CompleteStep, At
  <2>2. Types /\ Tree /\ Spaces[m] \in SpaceTypes /\ handlers[Spaces[m]].enable \in BOOLEAN
    <3>1. Spaces[m] \in SpaceTypes
      BY SpacesFacts
    <3> QED BY <3>1 DEF DevicesInv, Made, Types, TypeOK
  <2> DEFINE g == Broadcast(Spaces[m], handlers[Spaces[m]].enable)
  <2>3. g \in Frame /\ g.op = "broadcast"
    BY <2>2, BroadcastFacts
  <2>4. Swapped(stack, stack', f) \/ SwappedAndPushed(stack, stack', f, g)
    BY <2>1 DEF LoopSteps
  <2> HIDE DEF g
  <2>5. PlainTop
    BY <1>2, <2>1, <2>3, <2>4, PlainTops DEF Ini
  <2> QED BY <1>2, <2>1, <2>5 DEF Plain
<1>7. CASE Cleared
  <2>1. /\ Running("complete") /\ UNCHANGED <<announced, reentered, inited>>
        /\ \E f \in Frame : Swapped(stack, stack', f) /\ f.op = "complete"
    BY <1>7 DEF Cleared, At
  <2>2. PlainTop
    BY <1>2, <2>1, PlainTops
  <2> QED BY <1>2, <2>1, <2>2 DEF Plain
<1>8. CASE WalkEnds \/ MethodOver \/ HostReturned
  <2>1. /\ \E op \in Inner : Running(op)
        /\ Popped(stack, stack') /\ UNCHANGED <<announced, reentered>>
        /\ \A d \in Devices : inited[d] => inited'[d]
    BY <1>1, <1>8 DEF WalkEnds, MethodOver, HostReturned, Walking, Inner, Types, TypeOK, Devices
  <2>2. Top.op = "host" => inited'[Top.node]
    <3>1. CASE HostReturned
      BY <1>1, <3>1 DEF HostReturned, Types, TypeOK, Devices
    <3>2. CASE WalkEnds \/ MethodOver
      BY <3>2 DEF WalkEnds, MethodOver, Walking, Running
    <3> QED BY <1>8, <3>1, <3>2
  <2>3. PlainTop
    BY <1>2, <2>1, PlainTops
  <2> QED BY <2>1, <2>2, <2>3 DEF Plain
<1>9. ASSUME NEW f \in Frame, WalkMoves(f) \/ WalkBegins(f) \/ AskedBefore(f) \/ RegTold(f) PROVE Plain
  <2>1. /\ f.op = Top.op /\ Top.op \in {"broadcast", "devices"} /\ Running(Top.op)
        /\ UNCHANGED <<announced, reentered, inited>>
    BY <1>9 DEF WalkMoves, WalkBegins, AskedBefore, RegTold, Continues, Walking, At, Running
  <2>2. \/ Swapped(stack, stack', f)
        \/ \E g \in Frame : SwappedAndPushed(stack, stack', f, g) /\ g.op = "method" /\ g.why = "_REG"
    BY <1>9 DEF WalkMoves, WalkBegins, AskedBefore, RegTold
  <2>3. PlainTop
    BY <1>2, <2>1, <2>2, PlainTops DEF Ini
  <2> QED BY <2>1, <2>3 DEF Plain
<1>10. ASSUME NEW f \in Frame, NEW g \in Frame, RootCalled(f, g) PROVE Plain
  <2>1. /\ f.op = "devices" /\ Running("devices") /\ g.op = "method" /\ g.why = "root"
        /\ UNCHANGED <<announced, reentered, inited>> /\ SwappedAndPushed(stack, stack', f, g)
    BY <1>10 DEF RootCalled, At
  <2>2. PlainTop
    BY <1>2, <2>1, PlainTops DEF Ini
  <2> QED BY <1>2, <2>1, <2>2 DEF Plain
<1> QED BY <1>3, <1>4, <1>5, <1>6, <1>7, <1>8, <1>9, <1>10
        DEF LoadSteps, HandlerSteps, WalkSteps, RegisterSteps

\* The three kinds of frames, of a device.
LEMMA InitializedFacts ==
  ASSUME NEW f, NEW d
  PROVE  /\ InitializedBy(f, d) => Ini(f) \/ f.op = "host"
         /\ Ini(f) => f.op = "method"
         /\ f.op = "method" => (InitializedBy(f, d) <=> f.why = "_INI" /\ Parent[f.node] = d)
         /\ f.op = "host" => (InitializedBy(f, d) <=> f.node = d)
BY DEF InitializedBy, Ini

\* A device is announced once, unless a table was loaded in the meantime.
LEMMA AnnouncementsStay ==
  ASSUME DevicesInv, LoadSteps \/ HandlerSteps \/ WalkSteps \/ UNCHANGED vars
  PROVE  Announcements'
<1> HIDE DEF Frame
<1> DEFINE Hosted(d) == \E i \in 1..Len(stack) : stack[i].op = "host" /\ stack[i].node = d
           Hosted2(d) == \E i \in 1..Len(stack') : stack'[i].op = "host" /\ stack'[i].node = d
           Heavy(f) == f.op \in {"load", "devices"}
           SameInit(i, d) == i \in 1..Len(stack) /\ stack'[i].op = stack[i].op /\ InitializedBy(stack[i], d)
<1>1. /\ Types /\ Len(stack) \in Nat /\ announced \in [Devices -> Nat]
      /\ \A i \in 1..Len(stack) : stack[i] \in Frame
  BY StackFacts DEF DevicesInv, Types, TypeOK
<1>2. ASSUME NEW d \in Devices, d \notin reentered
      PROVE  /\ announced[d] <= 1
             /\ \A i, j \in 1..Len(stack) : InitializedBy(stack[i], d) /\ i < j => ~Heavy(stack[j])
             /\ \A i, j \in 1..Len(stack) : InitializedBy(stack[i], d) /\ InitializedBy(stack[j], d) => i = j
             /\ \A i \in 1..Len(stack) : stack[i].op = "method" /\ InitializedBy(stack[i], d) => announced[d] = 0
             /\ announced[d] = 1 => inited[d] \/ Hosted(d)
  <2>1. Announcements
    BY DEF DevicesInv
  <2>2. \A i, j \in 1..Len(stack) : InitializedBy(stack[i], d) /\ i < j => ~Heavy(stack[j])
    BY <1>2, <2>1 DEF Announcements
  <2> HIDE DEF Heavy
  <2> QED BY <1>2, <2>1, <2>2 DEF Announcements
<1>3. ASSUME \A d \in Devices \ reentered' :
               /\ announced'[d] <= 1
               /\ \A i, j \in 1..Len(stack') : InitializedBy(stack'[i], d) /\ i < j => ~Heavy(stack'[j])
               /\ \A i, j \in 1..Len(stack') : InitializedBy(stack'[i], d) /\ InitializedBy(stack'[j], d) => i = j
               /\ \A i \in 1..Len(stack') : stack'[i].op = "method" /\ InitializedBy(stack'[i], d) => announced'[d] = 0
               /\ announced'[d] = 1 => inited'[d] \/ Hosted2(d)
      PROVE  Announcements'
  BY <1>3 DEF Announcements, InitializedBy, Ini
<1>4. ASSUME NEW d \in Devices, d \notin reentered, announced'[d] = announced[d], inited[d] => inited'[d],
             \A j \in 1..Len(stack') : Heavy(stack'[j]) => j = 1 \/ (j \in 1..Len(stack) /\ Heavy(stack[j])),
             \A i \in 1..Len(stack') : InitializedBy(stack'[i], d) => SameInit(i, d),
             \A i \in 1..Len(stack) : stack[i].op = "host" /\ stack[i].node = d => inited'[d] \/ Hosted2(d)
      PROVE  /\ announced'[d] <= 1
             /\ \A i, j \in 1..Len(stack') : InitializedBy(stack'[i], d) /\ i < j => ~Heavy(stack'[j])
             /\ \A i, j \in 1..Len(stack') : InitializedBy(stack'[i], d) /\ InitializedBy(stack'[j], d) => i = j
             /\ \A i \in 1..Len(stack') : stack'[i].op = "method" /\ InitializedBy(stack'[i], d) => announced'[d] = 0
             /\ announced'[d] = 1 => inited'[d] \/ Hosted2(d)
  <2> HIDE DEF Heavy, Hosted2
  <2>1. \A i, j \in 1..Len(stack') : InitializedBy(stack'[i], d) /\ i < j => ~Heavy(stack'[j])
    BY <1>1, <1>2, <1>4
  <2>2. \A i, j \in 1..Len(stack') : InitializedBy(stack'[i], d) /\ InitializedBy(stack'[j], d) => i = j
    BY <1>2, <1>4
  <2>3. \A i \in 1..Len(stack') : stack'[i].op = "method" /\ InitializedBy(stack'[i], d) => announced'[d] = 0
    BY <1>2, <1>4
  <2>4. announced'[d] = 1 => inited'[d] \/ Hosted2(d)
    BY <1>2, <1>4
  <2> QED BY <1>2, <1>4, <2>1, <2>2, <2>3, <2>4
<1>5. CASE Plain
  <2>1. /\ Len(stack) \in Nat \ {0} /\ Len(stack') \in Nat /\ UNCHANGED <<announced, reentered>>
        /\ \A i \in 1..(Len(stack) - 1) : i \in 1..Len(stack') /\ stack'[i] = stack[i]
        /\ \A i \in 1..Len(stack') : i >= Len(stack) =>
             /\ ~Ini(stack'[i]) /\ stack'[i].op # "host"
             /\ Heavy(stack'[i]) => i = Len(stack) /\ (Heavy(Top) \/ i = 1)
        /\ \A d \in Devices : inited[d] => inited'[d]
        /\ Top.op = "host" => inited'[Top.node]
        /\ Top = stack[Len(stack)]
    BY <1>5 DEF Plain, PlainTop, Top
  <2>2. \A i \in 1..Len(stack') : i \in 1..(Len(stack) - 1) \/ i >= Len(stack)
    BY <2>1
  <2>3. \A i \in 1..(Len(stack) - 1) : i \in 1..Len(stack)
    BY <2>1
  <2>4. Len(stack) \in 1..Len(stack)
    BY <2>1
  <2> HIDE DEF Heavy
  <2>5. \A j \in 1..Len(stack') : Heavy(stack'[j]) => j = 1 \/ (j \in 1..Len(stack) /\ Heavy(stack[j]))
    BY <2>1, <2>2, <2>3, <2>4
  <2>6. \A i \in 1..Len(stack'), d \in Devices : InitializedBy(stack'[i], d) => SameInit(i, d)
    BY <2>1, <2>2, <2>3, InitializedFacts
  <2>7. \A i \in 1..Len(stack), d \in Devices : stack[i].op = "host" /\ stack[i].node = d =>
           inited'[d] \/ Hosted2(d)
    <3> SUFFICES ASSUME NEW i \in 1..Len(stack), stack[i].op = "host" PROVE inited'[stack[i].node] \/ Hosted2(stack[i].node)
      OBVIOUS
    <3>1. CASE i = Len(stack)
      BY <2>1, <3>1
    <3>2. CASE i \in 1..(Len(stack) - 1)
      BY <2>1, <3>2
    <3> QED BY <2>1, <3>1, <3>2
  <2> HIDE DEF SameInit, Hosted2
  <2>8. \A d \in Devices : announced'[d] = announced[d] /\ (inited[d] => inited'[d])
    BY <2>1
  <2> QED BY <1>3, <1>4, <2>1, <2>5, <2>6, <2>7, <2>8
<1>6. ASSUME NEW t \in Tables, LoadBegun(t) PROVE Announcements'
  <2>1. /\ Len(stack') = Len(stack) + 1 /\ stack'[Len(stack) + 1].op = "load"
        /\ \A i \in 1..Len(stack) :
             /\ stack'[i].op = stack[i].op
             /\ stack[i].op # "method" => stack'[i] = stack[i]
             /\ stack[i].op = "method" => stack'[i].node = stack[i].node /\ stack'[i].why = stack[i].why
        /\ UNCHANGED <<announced, inited>> /\ reentered \subseteq reentered'
    BY <1>6 DEF LoadBegun
  <2>2. \A i \in 1..Len(stack') : i \in 1..Len(stack) \/ i = Len(stack) + 1
    BY <1>1, <2>1
  <2>3. \A i \in 1..Len(stack), d \in Devices : InitializedBy(stack'[i], d) => InitializedBy(stack[i], d)
    BY <2>1 DEF InitializedBy, Ini
  <2>4. \A d : ~InitializedBy(stack'[Len(stack) + 1], d)
    BY <2>1 DEF InitializedBy, Ini
  <2>5. ASSUME NEW d \in Devices, d \notin reentered', NEW i \in 1..Len(stack) PROVE ~InitializedBy(stack[i], d)
    <3>1. CASE Top.op = "method"
      BY <1>1, <1>6, <2>5, <3>1 DEF LoadBegun
    <3>2. CASE Top.op # "method"
      <4>1. Top.op = "load" /\ Top = stack[Len(stack)] /\ Len(stack) \in 1..Len(stack)
        BY <1>1, <1>6, <2>5, <3>2 DEF LoadBegun, Top
      <4>2. \A j \in 1..Len(stack) : InitializedBy(stack[i], d) /\ i < j => ~Heavy(stack[j])
        BY <1>2, <2>1, <2>5
      <4>3. CASE i < Len(stack)
        BY <4>1, <4>2, <4>3
      <4>4. CASE i = Len(stack)
        BY <4>1, <4>4, InitializedFacts
      <4> QED BY <1>1, <2>5, <4>3, <4>4
    <3> QED BY <3>1, <3>2
  <2>6. \A i \in 1..Len(stack'), d \in Devices \ reentered' : ~InitializedBy(stack'[i], d)
    BY <2>2, <2>3, <2>4, <2>5
  <2>7. ASSUME NEW d \in Devices \ reentered' PROVE announced'[d] <= 1 /\ (announced'[d] = 1 => inited'[d])
    <3>1. ~Hosted(d)
      BY <2>5, InitializedFacts
    <3> QED BY <1>2, <2>1, <3>1
  <2> HIDE DEF Heavy
  <2> QED BY <1>3, <2>6, <2>7
<1>7. ASSUME \A i \in 1..Len(stack) : i \in 1..Len(stack') /\ stack'[i] = stack[i],
             \A i \in 1..Len(stack') : i \in 1..Len(stack) \/ stack'[i].op \in {"broadcast", "complete"},
             UNCHANGED <<announced, reentered, inited>>
      PROVE  Announcements'
  <2>1. \A j \in 1..Len(stack') : Heavy(stack'[j]) => j \in 1..Len(stack) /\ Heavy(stack[j])
    BY <1>7
  <2>2. \A i \in 1..Len(stack'), d \in Devices : InitializedBy(stack'[i], d) => SameInit(i, d)
    BY <1>7, InitializedFacts
  <2>3. \A i \in 1..Len(stack), d \in Devices : stack[i].op = "host" /\ stack[i].node = d => Hosted2(d)
    BY <1>7
  <2> HIDE DEF Heavy, SameInit, Hosted2
  <2> QED BY <1>3, <1>4, <1>7, <2>1, <2>2, <2>3
<1>8. ASSUME NEW initialize \in BOOLEAN, CompleteBegins(initialize) PROVE Announcements'
  <2>1. Len(stack) = 0 /\ Len(stack') = 1 /\ stack'[1].op = "complete" /\ UNCHANGED <<announced, reentered, inited>>
    BY <1>8 DEF CompleteBegins, Pushed
  <2> QED BY <1>7, <2>1
<1>9. CASE RegisterSteps
  <2>1. PICK s \in SpaceTypes, enable \in BOOLEAN, call \in BOOLEAN : Registered(s, enable, call)
    BY <1>9 DEF RegisterSteps
  <2>2. /\ Len(stack') \in {Len(stack), Len(stack) + 1}
        /\ \A i \in 1..Len(stack) : stack'[i] = stack[i]
        /\ Len(stack') = Len(stack) + 1 => stack'[Len(stack) + 1].op = "broadcast"
    BY <2>1, RegisteredFacts DEF NewBroadcast
  <2>3. \A i \in 1..Len(stack') : i \in 1..Len(stack) \/ stack'[i].op = "broadcast"
    BY <1>1, <2>2
  <2>4. \A i \in 1..Len(stack) : i \in 1..Len(stack')
    BY <1>1, <2>2
  <2>5. UNCHANGED <<announced, reentered, inited>>
    BY <2>1 DEF Registered
  <2> QED BY <1>7, <2>2, <2>3, <2>4, <2>5
<1>10. ASSUME NEW g \in Frame, HostCalled(g) PROVE Announcements'
  <2>1. /\ Len(stack) \in Nat \ {0} /\ Top = stack[Len(stack)] /\ Top.op = "method" /\ Top.why = "_INI"
        /\ Swapped(stack, stack', g) /\ g.op = "host" /\ g.node = Parent[Top.node] /\ g.node \in Devices
        /\ announced' = [announced EXCEPT ![g.node] = @ + 1] /\ reentered' = reentered
        /\ \A d \in Devices : inited'[d] = inited[d]
    BY <1>10, TopFacts DEF HostCalled
  <2>2. /\ Len(stack') = Len(stack) /\ stack'[Len(stack)] = g
        /\ \A i \in 1..Len(stack) : i = Len(stack) \/ stack'[i] = stack[i]
    BY <2>1 DEF Swapped
  <2>3. Len(stack) \in 1..Len(stack)
    BY <2>1
  <2>4. /\ InitializedBy(stack[Len(stack)], g.node)
        /\ \A d \in Devices : InitializedBy(g, d) => d = g.node
    BY <2>1, InitializedFacts
  <2>5. \A i \in 1..Len(stack'), d \in Devices : InitializedBy(stack'[i], d) =>
          InitializedBy(stack[i], d) /\ (stack'[i].op = "method" => stack[i].op = "method" /\ i # Len(stack))
    BY <2>1, <2>2, <2>4
  <2>6. \A j \in 1..Len(stack') : Heavy(stack'[j]) => Heavy(stack[j])
    BY <2>1, <2>2
  <2>7. \A i \in 1..Len(stack), d \in Devices : stack[i].op = "host" /\ stack[i].node = d => Hosted2(d)
    BY <2>1, <2>2
  <2>8. Hosted2(g.node)
    BY <2>1, <2>2, <2>3
  <2>9. ASSUME NEW d \in Devices \ reentered'
        PROVE  /\ announced'[d] <= 1 /\ announced'[d] \in Nat
               /\ announced'[d] = 1 => inited'[d] \/ Hosted2(d)
               /\ \A i \in 1..Len(stack') : stack'[i].op = "method" /\ InitializedBy(stack'[i], d) => announced'[d] = 0
    <3>1. d \in Devices /\ d \notin reentered
      BY <2>1, <2>9
    <3>2. CASE d = g.node
      <4>1. announced[d] = 0
        BY <1>2, <2>1, <2>3, <2>4, <3>1, <3>2
      <4>2. announced'[d] = 1
        BY <1>1, <2>1, <3>1, <3>2, <4>1
      <4>3. ASSUME NEW i \in 1..Len(stack'), stack'[i].op = "method", InitializedBy(stack'[i], d) PROVE FALSE
        <5>1. InitializedBy(stack[i], d) /\ i # Len(stack) /\ i \in 1..Len(stack)
          BY <2>2, <2>5, <4>3
        <5> QED BY <1>2, <2>3, <2>4, <3>1, <3>2, <5>1
      <4> QED BY <2>8, <3>2, <4>2, <4>3
    <3>3. CASE d # g.node
      <4>1. announced'[d] = announced[d] /\ inited'[d] = inited[d]
        BY <1>1, <2>1, <3>1, <3>3
      <4>2. announced[d] = 1 => inited[d] \/ Hosted2(d)
        BY <1>2, <2>7, <3>1
      <4>3. \A i \in 1..Len(stack') : i \in 1..Len(stack)
        BY <2>2
      <4> HIDE DEF Hosted, Hosted2
      <4> QED BY <1>1, <1>2, <2>5, <3>1, <4>1, <4>2, <4>3
    <3> QED BY <3>2, <3>3
  <2>10. \A i \in 1..Len(stack') : i \in 1..Len(stack)
    BY <2>2
  <2> HIDE DEF Heavy, Hosted, Hosted2
  <2>11. ASSUME NEW d \in Devices \ reentered'
         PROVE  /\ \A i, j \in 1..Len(stack') : InitializedBy(stack'[i], d) /\ i < j => ~Heavy(stack'[j])
                /\ \A i, j \in 1..Len(stack') : InitializedBy(stack'[i], d) /\ InitializedBy(stack'[j], d) => i = j
    <3>1. d \in Devices /\ d \notin reentered
      BY <2>1, <2>11
    <3> QED BY <1>2, <2>5, <2>6, <2>10, <3>1
  <2> QED BY <1>3, <2>9, <2>11
<1>11. ASSUME NEW status \in Statuses, NEW f \in Frame, DeviceAsked(status, f) PROVE Announcements'
  <2>1. /\ Running("devices") /\ f.op = "devices" /\ UNCHANGED <<announced, reentered, inited>> /\ ~inited[Here.node]
        /\ \/ Swapped(stack, stack', f)
           \/ \E g \in Frame : /\ SwappedAndPushed(stack, stack', f, g)
                               /\ g.op = "method" /\ g.why = "_INI" /\ Parent[g.node] = Here.node
    <3>1. Running("devices") /\ f.op = "devices" /\ UNCHANGED <<announced, reentered, inited>> /\ ~inited[Here.node]
      BY <1>11 DEF DeviceAsked, Continues, Walking, Running
    <3>2. \/ Swapped(stack, stack', f)
          \/ \E g \in Frame : /\ SwappedAndPushed(stack, stack', f, g)
                              /\ g.op = "method" /\ g.why = "_INI" /\ Parent[g.node] = Here.node
      BY <1>11 DEF DeviceAsked
    <3> QED BY <3>1, <3>2
  <2>2. Len(stack) \in Nat \ {0} /\ Top = stack[Len(stack)] /\ Top.op = "devices" /\ Len(stack) \in 1..Len(stack)
    BY <2>1, TopFacts
  <2>3. CASE Swapped(stack, stack', f)
    <3>1. PlainTop
      BY <2>1, <2>2, <2>3, PlainTops
    <3> QED BY <1>5, <2>1, <2>2, <3>1 DEF Plain
  <2>4. ASSUME NEW g \in Frame, SwappedAndPushed(stack, stack', f, g),
               g.op = "method", g.why = "_INI", Parent[g.node] = Here.node
        PROVE  Announcements'
    <3> DEFINE e == Here.node
    <3>1. /\ Len(stack') = Len(stack) + 1 /\ stack'[Len(stack)] = f /\ stack'[Len(stack) + 1] = g
          /\ \A i \in 1..(Len(stack) - 1) : stack'[i] = stack[i]
      BY <2>4 DEF SwappedAndPushed
    <3>2. \A i \in 1..Len(stack') : i \in 1..(Len(stack) - 1) \/ i = Len(stack) \/ i = Len(stack) + 1
      BY <2>2, <3>1
    <3>3. \A i \in 1..(Len(stack) - 1) : i \in 1..Len(stack) /\ i < Len(stack) /\ i \in 1..Len(stack')
      BY <2>2, <3>1
    <3>4. \A j \in 1..Len(stack') : Heavy(stack'[j]) => j \in 1..Len(stack) /\ Heavy(stack[j])
      BY <2>2, <2>4, <3>1, <3>2, <3>3
    <3>5. \A d \in Devices : ~InitializedBy(f, d) /\ (InitializedBy(g, d) <=> d = e)
      BY <2>1, <2>4, InitializedFacts
    <3>6. \A i \in 1..Len(stack), d \in Devices : stack[i].op = "host" /\ stack[i].node = d => Hosted2(d)
      <4> SUFFICES ASSUME NEW i \in 1..Len(stack), stack[i].op = "host" PROVE Hosted2(stack[i].node)
        OBVIOUS
      <4>1. i \in 1..(Len(stack) - 1)
        BY <2>2
      <4> QED BY <3>1, <3>3, <4>1
    <3>7. ASSUME NEW d \in Devices, d \notin reentered, NEW i \in 1..(Len(stack) - 1)
          PROVE  ~InitializedBy(stack[i], d)
      <4>1. Heavy(stack[Len(stack)])
        BY <2>2
      <4> HIDE DEF Heavy
      <4> QED BY <1>2, <2>2, <3>3, <3>7, <4>1
    <3>8. \A i \in 1..Len(stack'), d \in Devices : d \notin reentered /\ InitializedBy(stack'[i], d) =>
             i = Len(stack) + 1 /\ d = e
      BY <3>1, <3>2, <3>3, <3>5, <3>7
    <3>9. e \in Devices /\ e \notin reentered => announced[e] = 0
      <4> SUFFICES ASSUME e \in Devices, e \notin reentered PROVE announced[e] = 0
        OBVIOUS
      <4>1. ~Hosted(e)
        <5>1. ~\E i \in 1..(Len(stack) - 1) : stack[i].op = "host" /\ stack[i].node = e
          BY <3>3, <3>7, InitializedFacts
        <5> QED BY <2>2, <5>1
      <4>2. announced[e] # 1
        BY <1>2, <2>1, <4>1
      <4>3. announced[e] \in Nat /\ announced[e] <= 1
        BY <1>1, <1>2
      <4> QED BY <4>2, <4>3
    <3> HIDE DEF Heavy, Hosted, Hosted2, e
    <3>10. ASSUME NEW d \in Devices \ reentered'
           PROVE  /\ announced'[d] <= 1
                  /\ \A i, j \in 1..Len(stack') : InitializedBy(stack'[i], d) /\ i < j => ~Heavy(stack'[j])
                  /\ \A i, j \in 1..Len(stack') : InitializedBy(stack'[i], d) /\ InitializedBy(stack'[j], d) => i = j
                  /\ \A i \in 1..Len(stack') : stack'[i].op = "method" /\ InitializedBy(stack'[i], d) => announced'[d] = 0
                  /\ announced'[d] = 1 => inited'[d] \/ Hosted2(d)
      <4>1. d \in Devices /\ d \notin reentered /\ announced'[d] = announced[d] /\ inited'[d] = inited[d]
        BY <2>1, <3>10
      <4>2. announced[d] <= 1 /\ (announced[d] = 1 => inited[d] \/ Hosted2(d))
        BY <1>2, <3>6, <4>1 DEF Hosted
      <4>3. \A i, j \in 1..Len(stack') : InitializedBy(stack'[i], d) /\ i < j => ~Heavy(stack'[j])
        BY <2>2, <3>1, <3>4, <3>8, <4>1
      <4> QED BY <3>8, <3>9, <4>1, <4>2, <4>3
    <3> QED BY <1>3, <3>10 DEF Heavy
  <2> QED BY <2>1, <2>3, <2>4
<1>12. CASE UNCHANGED vars
  <2>1. stack' = stack /\ UNCHANGED <<announced, reentered, inited>>
    BY <1>12 DEF vars
  <2> QED BY <1>7, <2>1
<1>13. CASE ~UNCHANGED vars
  BY <1>5, <1>6, <1>8, <1>9, <1>10, <1>11, <1>13, PlainSteps
<1> QED BY <1>12, <1>13

\* A table that is loaded by a device's _INI is not the table of the device.
LEMMA InitAboveLoadStays ==
  ASSUME DevicesInv, LoadSteps \/ HandlerSteps \/ WalkSteps \/ UNCHANGED vars
  PROVE  InitAboveLoad'
<1> HIDE DEF Frame
<1> DEFINE Loads(f, t) == f.op = "load" /\ f.table = t
<1>1. Types /\ Len(stack) \in Nat
  BY StackFacts DEF DevicesInv
<1>2. \A t : \A i, j \in 1..Len(stack) : Ini(stack[i]) /\ Loads(stack[j], t) /\ i < j =>
         t # TableOf(Parent[stack[i].node])
  BY DEF DevicesInv, InitAboveLoad
<1>3. ASSUME \A t : \A i, j \in 1..Len(stack') : Ini(stack'[i]) /\ Loads(stack'[j], t) /\ i < j =>
               t # TableOf(Parent[stack'[i].node])
      PROVE  InitAboveLoad'
  <2> SUFFICES ASSUME NEW i \in 1..Len(stack'), NEW j \in 1..Len(stack'), Ini(stack'[i]),
                      stack'[j].op = "load", i < j
               PROVE  stack'[j].table # TableOf(Parent[stack'[i].node])
    BY DEF InitAboveLoad, Ini
  <2> HIDE DEF Loads
  <2>1. Loads(stack'[j], stack'[j].table)
    BY DEF Loads
  <2> QED BY <1>3, <2>1
<1>4. ASSUME \A i \in 1..Len(stack') : Ini(stack'[i]) =>
                i = Len(stack') \/ (i \in 1..Len(stack) /\ Ini(stack[i]) /\ stack[i].node = stack'[i].node),
             \A t : \A j \in 1..Len(stack') : Loads(stack'[j], t) => j \in 1..Len(stack) /\ Loads(stack[j], t),
             Len(stack') \in Nat
      PROVE  InitAboveLoad'
  <2> HIDE DEF Loads
  <2> SUFFICES ASSUME NEW i \in 1..Len(stack'), NEW j \in 1..Len(stack'), NEW t,
                      Ini(stack'[i]), Loads(stack'[j], t), i < j
               PROVE  t # TableOf(Parent[stack'[i].node])
    BY <1>3 DEF Loads
  <2>1. i # Len(stack')
    BY <1>4
  <2> QED BY <1>2, <1>4, <2>1
<1>5. CASE Plain
  <2>1. /\ Len(stack) \in Nat \ {0} /\ Len(stack') \in Nat
        /\ \A i \in 1..(Len(stack) - 1) : i \in 1..Len(stack') /\ stack'[i] = stack[i]
        /\ \A i \in 1..Len(stack') : i >= Len(stack) =>
             ~Ini(stack'[i]) /\ \A t : Loads(stack'[i], t) => i = Len(stack) /\ Loads(stack[Len(stack)], t)
    BY <1>5 DEF Plain, PlainTop, Top
  <2>2. \A i \in 1..Len(stack') : i \in 1..(Len(stack) - 1) \/ i >= Len(stack)
    BY <2>1
  <2>3. \A i \in 1..(Len(stack) - 1) : i \in 1..Len(stack)
    BY <2>1
  <2>4. Len(stack) \in 1..Len(stack)
    BY <2>1
  <2> HIDE DEF Loads
  <2> QED BY <1>4, <2>1, <2>2, <2>3, <2>4
<1>6. ASSUME NEW t \in Tables, LoadBegun(t) PROVE InitAboveLoad'
  <2>1. /\ Len(stack') = Len(stack) + 1 /\ \A u : Loads(stack'[Len(stack) + 1], u) => u = t
        /\ ~Ini(stack'[Len(stack) + 1]) /\ tables[t] = "new"
        /\ \A i \in 1..Len(stack) :
             /\ Ini(stack'[i]) => Ini(stack[i]) /\ stack[i].node = stack'[i].node
             /\ \A u : Loads(stack'[i], u) => Loads(stack[i], u)
    BY <1>6 DEF LoadBegun, Ini
  <2>2. \A i \in 1..Len(stack') : i \in 1..Len(stack) \/ i = Len(stack) + 1
    BY <1>1, <2>1
  <2>3. ASSUME NEW i \in 1..Len(stack), Ini(stack[i]) PROVE TableOf(Parent[stack[i].node]) # t
    <3> DEFINE d == Parent[stack[i].node]
    <3>1. d \in Devices /\ InitializedBy(stack[i], d)
      BY <2>3 DEF DevicesInv, InitOK, Ini, InitializedBy
    <3>2. d \in Live
      BY <3>1 DEF DevicesInv, InitOK
    <3>3. d \in Nodes /\ ToSet(Declares[t]) \cap Live = {}
      BY <2>1, <3>1, ParentFacts DEF DevicesInv, Made
    <3> HIDE DEF d
    <3>4. TableOf(d) # t
      BY <3>2, <3>3, TableFacts
    <3> QED BY <3>4 DEF d
  <2> HIDE DEF Loads
  <2> SUFFICES ASSUME NEW i \in 1..Len(stack'), NEW j \in 1..Len(stack'), NEW u,
                      Ini(stack'[i]), Loads(stack'[j], u), i < j
               PROVE  u # TableOf(Parent[stack'[i].node])
    BY <1>3 DEF Loads
  <2>4. i \in 1..Len(stack) /\ Ini(stack[i]) /\ stack[i].node = stack'[i].node
    BY <2>1, <2>2
  <2>5. CASE j \in 1..Len(stack)
    BY <1>2, <2>1, <2>4, <2>5
  <2>6. CASE j = Len(stack) + 1
    BY <2>1, <2>3, <2>4, <2>6
  <2> QED BY <2>2, <2>5, <2>6
<1>7. ASSUME \A i \in 1..Len(stack') : (i \in 1..Len(stack) /\ stack'[i] = stack[i])
                                         \/ stack'[i].op \notin {"method", "load"},
             Len(stack') \in Nat
      PROVE  InitAboveLoad'
  BY <1>4, <1>7 DEF Ini
<1>8. ASSUME NEW initialize \in BOOLEAN, CompleteBegins(initialize) PROVE InitAboveLoad'
  <2>1. Len(stack) = 0 /\ Len(stack') = 1 /\ stack'[1].op = "complete"
    BY <1>8 DEF CompleteBegins, Pushed
  <2> QED BY <1>7, <2>1
<1>9. CASE RegisterSteps
  <2>1. PICK s \in SpaceTypes, enable \in BOOLEAN, call \in BOOLEAN : Registered(s, enable, call)
    BY <1>9 DEF RegisterSteps
  <2>2. /\ Len(stack') \in {Len(stack), Len(stack) + 1}
        /\ \A i \in 1..Len(stack) : stack'[i] = stack[i]
        /\ Len(stack') = Len(stack) + 1 => stack'[Len(stack) + 1].op = "broadcast"
    BY <2>1, RegisteredFacts DEF NewBroadcast
  <2>3. \A i \in 1..Len(stack') : (i \in 1..Len(stack) /\ stack'[i] = stack[i]) \/ stack'[i].op = "broadcast"
    BY <1>1, <2>2
  <2>4. Len(stack') \in Nat
    BY <1>1, <2>2
  <2> QED BY <1>7, <2>3, <2>4
<1>10. ASSUME NEW g \in Frame, HostCalled(g) PROVE InitAboveLoad'
  <2>1. /\ Len(stack) \in Nat \ {0} /\ Swapped(stack, stack', g) /\ g.op = "host"
    BY <1>10, TopFacts DEF HostCalled
  <2>2. \A i \in 1..Len(stack') : (i \in 1..Len(stack) /\ stack'[i] = stack[i]) \/ stack'[i].op = "host"
    BY <2>1 DEF Swapped
  <2>3. Len(stack') \in Nat
    BY <2>1 DEF Swapped
  <2> QED BY <1>7, <2>2, <2>3
<1>11. ASSUME NEW status \in Statuses, NEW f \in Frame, DeviceAsked(status, f) PROVE InitAboveLoad'
  <2>1. /\ Running("devices") /\ f.op = "devices"
        /\ \/ Swapped(stack, stack', f)
           \/ \E g \in Frame : SwappedAndPushed(stack, stack', f, g) /\ g.op = "method"
    <3>1. Running("devices") /\ f.op = "devices"
      BY <1>11 DEF DeviceAsked, Continues, Walking, Running
    <3>2. \/ Swapped(stack, stack', f)
          \/ \E g \in Frame : SwappedAndPushed(stack, stack', f, g) /\ g.op = "method"
      BY <1>11 DEF DeviceAsked
    <3> QED BY <3>1, <3>2
  <2>2. Len(stack) \in Nat \ {0}
    BY <2>1, TopFacts
  <2>3. CASE Swapped(stack, stack', f)
    <3>1. \A i \in 1..Len(stack') : (i \in 1..Len(stack) /\ stack'[i] = stack[i]) \/ stack'[i].op = "devices"
      BY <2>1, <2>2, <2>3 DEF Swapped
    <3>2. Len(stack') \in Nat
      BY <2>2, <2>3 DEF Swapped
    <3> QED BY <1>7, <3>1, <3>2
  <2>4. ASSUME NEW g \in Frame, SwappedAndPushed(stack, stack', f, g), g.op = "method"
        PROVE  InitAboveLoad'
    <3>1. /\ \A i \in 1..Len(stack') : \/ i \in 1..Len(stack) /\ stack'[i] = stack[i]
                                       \/ stack'[i] = f \/ (i = Len(stack') /\ stack'[i] = g)
          /\ Len(stack') \in Nat
      BY <2>2, <2>4 DEF SwappedAndPushed
    <3>2. ~Ini(f)
      BY <2>1 DEF Ini
    <3>3. \A i \in 1..Len(stack') : Ini(stack'[i]) =>
            i = Len(stack') \/ (i \in 1..Len(stack) /\ Ini(stack[i]) /\ stack[i].node = stack'[i].node)
      BY <3>1, <3>2
    <3>4. \A t : \A j \in 1..Len(stack') : Loads(stack'[j], t) => j \in 1..Len(stack) /\ Loads(stack[j], t)
      BY <2>1, <2>4, <3>1
    <3> HIDE DEF Loads
    <3> QED BY <1>4, <3>1, <3>3, <3>4
  <2> QED BY <2>1, <2>3, <2>4
<1>12. CASE UNCHANGED vars
  BY <1>1, <1>7, <1>12 DEF vars
<1>13. CASE ~UNCHANGED vars
  BY <1>5, <1>6, <1>8, <1>9, <1>10, <1>11, <1>13, PlainSteps
<1> QED BY <1>12, <1>13

\* Before the initial load is complete, every handler is pending and nothing is told.
LEMMA BeforeCompleteStays ==
  ASSUME DevicesInv, LoadSteps \/ HandlerSteps \/ WalkSteps \/ UNCHANGED vars
  PROVE  BeforeComplete'
<1> HIDE DEF Frame
<1> DEFINE None == \A i \in 1..Len(stack) : stack[i].op # "complete"
           None2 == \A i \in 1..Len(stack') : stack'[i].op # "complete"
<1>1. Types /\ Len(stack) \in Nat /\ handlers \in [SpaceTypes -> [enable : BOOLEAN, pending : BOOLEAN]]
  BY StackFacts DEF DevicesInv, Types, TypeOK
<1>2. ASSUME ~complete
      PROVE  /\ unsure = {} /\ ~wanted /\ None /\ \A s \in SpaceTypes : handlers[s].enable => handlers[s].pending
             /\ \A n \in Nodes, s \in SpaceTypes : ~told[n][s]
  BY <1>2 DEF DevicesInv, BeforeComplete
<1>3. CASE complete'
  BY <1>3 DEF BeforeComplete
<1>4. ASSUME ~complete', complete' = complete, UNCHANGED <<unsure, wanted, handlers, told>>, None2
      PROVE  BeforeComplete'
  BY <1>2, <1>4 DEF BeforeComplete
<1>5. \A op \in {"complete", "broadcast", "devices"} : Running(op) => complete
  BY TopFacts
<1>6. Running("load") /\ Top.pc = "regs" => complete
  BY TopFacts
<1>7. ASSUME NEW op, Running(op), \/ Popped(stack, stack')
                                  \/ \E f \in Frame : f.op # "complete" /\ Swapped(stack, stack', f), None
      PROVE  None2
  <2>1. Len(stack) \in Nat \ {0}
    BY <1>7, TopFacts
  <2>2. CASE Popped(stack, stack')
    BY <1>7, <2>1, <2>2 DEF Popped
  <2>3. ASSUME NEW f \in Frame, f.op # "complete", Swapped(stack, stack', f) PROVE None2
    <3>1. \A i \in 1..Len(stack') : stack'[i] = f \/ (i \in 1..Len(stack) /\ stack'[i] = stack[i])
      BY <2>1, <2>3 DEF Swapped
    <3> QED BY <1>7, <2>3, <3>1
  <2> QED BY <1>7, <2>2, <2>3
<1>8. CASE LoadSteps /\ ~complete'
  <2>1. ASSUME NEW t \in Tables, LoadBegun(t) PROVE BeforeComplete'
    <3>1. complete' = complete /\ UNCHANGED <<unsure, wanted, handlers, told>>
      BY <2>1 DEF LoadBegun
    <3>2. \A i \in 1..Len(stack') : stack'[i].op = "load" \/ (i \in 1..Len(stack) /\ stack'[i].op = stack[i].op)
      BY <1>1, <2>1 DEF LoadBegun
    <3> QED BY <1>2, <1>4, <1>8, <3>1, <3>2
  <2>2. CASE NamesMade
    <3>1. \E f \in Frame : Swapped(stack, stack', f) /\ f.op # "complete"
      BY <2>2, LoadGoesOn DEF LoadAt
    <3>2. complete' = complete /\ UNCHANGED <<unsure, wanted, handlers, told>> /\ Running("load")
      BY <2>2 DEF NamesMade, At, history
    <3> HIDE DEF None, None2
    <3> QED BY <1>2, <1>4, <1>7, <1>8, <3>1, <3>2
  <2>3. CASE LoadFailed \/ TableLoaded
    <3>1. complete' = complete /\ UNCHANGED <<unsure, wanted, handlers, told>> /\ Running("load")
      BY <2>3 DEF LoadFailed, TableLoaded, At, history
    <3>2. Popped(stack, stack')
      BY <1>8, <2>3, <3>1 DEF LoadFailed, TableLoaded
    <3> HIDE DEF None, None2
    <3> QED BY <1>2, <1>4, <1>7, <1>8, <3>1, <3>2
  <2> QED BY <1>8, <2>1, <2>2, <2>3 DEF LoadSteps
<1>9. CASE HandlerSteps /\ ~complete'
  <2>1. PICK s \in SpaceTypes, enable \in BOOLEAN, call \in BOOLEAN : Registered(s, enable, call)
    <3>1. RegsDone \/ (\E m \in 1..Len(Spaces), f \in Frame : RegsStep(m, f)) => complete'
      BY <1>6 DEF RegsDone, RegsStep, At
    <3>2. CompleteDone \/ (\E m \in 1..Len(Spaces), f \in Frame : CompleteStep(m, f)) \/ Cleared => complete'
      BY <1>5 DEF CompleteDone, CompleteStep, Cleared, At
    <3>3. (\E initialize \in BOOLEAN : CompleteBegins(initialize)) => complete'
      BY DEF CompleteBegins
    <3> QED BY <1>9, <3>1, <3>2, <3>3 DEF HandlerSteps
  <2>2. /\ complete' = complete /\ UNCHANGED <<wanted, told>>
        /\ handlers' = [handlers EXCEPT ![s] = [enable |-> enable, pending |-> ~call \/ ~complete]]
        /\ unsure' = IF Broadcasting(s) \/ (complete /\ ~call) THEN unsure \cup {s} ELSE unsure \ {s}
    BY <2>1 DEF Registered
  <2>3. stack' = stack
    BY <1>9, <2>1, <2>2 DEF Registered
  <2>4. ~Broadcasting(s)
    BY <1>1, <1>9, <2>2 DEF Broadcasting, Types, TypeOK
  <2>5. unsure' = {}
    BY <1>2, <1>9, <2>2, <2>4
  <2>6. \A z \in SpaceTypes : handlers'[z].enable => handlers'[z].pending
    <3> SUFFICES ASSUME NEW z \in SpaceTypes, handlers'[z].enable PROVE handlers'[z].pending
      OBVIOUS
    <3>1. CASE z = s
      BY <1>1, <1>9, <2>2, <3>1
    <3>2. CASE z # s
      BY <1>1, <1>2, <1>9, <2>2, <3>2
    <3> QED BY <3>1, <3>2
  <2> QED BY <1>2, <1>9, <2>2, <2>3, <2>5, <2>6 DEF BeforeComplete
<1>10. CASE WalkSteps /\ ~complete'
  <2>1. Inside /\ InsideStack
    BY <1>10, InsideSteps DEF Inside
  <2>2. complete' = complete /\ UNCHANGED <<handlers, unsure, wanted>>
    BY <2>1 DEF Inside
  <2>3. told' = told
    <3>1. ~\E f \in Frame : RegTold(f)
      BY <1>5, <1>10, <2>2 DEF RegTold, Walking
    <3> QED BY <1>10, <3>1 DEF WalkSteps, WalkEnds, WalkMoves, RootCalled, WalkBegins, AskedBefore, DeviceAsked,
                               MethodOver, HostCalled, HostReturned, history
  <2>4. None2
    <3>1. \A i \in 1..Len(stack') : i >= Len(stack) \/ (i \in 1..Len(stack) /\ stack'[i] = stack[i])
      BY <2>1 DEF InsideStack
    <3>2. \A i \in 1..Len(stack') : i >= Len(stack) => stack'[i].op # "complete"
      BY <2>1 DEF InsideStack, Inner
    <3> QED BY <1>2, <1>10, <2>2, <3>1, <3>2
  <2> QED BY <1>4, <1>10, <2>2, <2>3, <2>4
<1>11. CASE UNCHANGED vars /\ ~complete'
  <2>1. stack' = stack /\ complete' = complete /\ UNCHANGED <<unsure, wanted, handlers, told>>
    BY <1>11 DEF vars
  <2> QED BY <1>2, <1>4, <1>11, <2>1
<1> QED BY <1>3, <1>8, <1>9, <1>10, <1>11

-----------------------------------------------------------------------------
(* Nobody is forgotten. *)

\* A call that leads to the device d.
Carries(c, f, d) ==
  \/ f.op = "devices" /\ (f.pc = "roots" \/ IsPending(c, f, d))
  \/ f.op = "load" /\ f.pc = "regs"
  \/ f.op = "complete" /\ f.initialize

\* That no device is forgotten is preserved.
LEMMA DevicesHandledStays ==
  ASSUME DevicesInv, LoadSteps \/ HandlerSteps \/ WalkSteps \/ UNCHANGED vars
  PROVE  DevicesHandled'
<1> HIDE DEF Frame
<1> DEFINE Carried2(d) == \E i \in 1..Len(stack') : Carries(created', stack'[i], d)
           CutAbove(d) == \E a \in Above[d] \cap Devices : ~inited[a] /\ asked[a] = "cut"
           CutAbove2(d) == \E a \in Above[d] \cap Devices : ~inited'[a] /\ asked'[a] = "cut"
           Handled2(d) == inited'[d] \/ asked'[d] # "never" \/ CutAbove2(d)
           Due(d) == d \in Devices \cap Live /\ tables[TableOf(d)] = "loaded"
           Goal(d) == Handled2(d) \/ Carried2(d)
<1>1. /\ Types /\ Tree /\ Tree' /\ Len(stack) \in Nat
      /\ inited \in [Nodes -> BOOLEAN] /\ asked \in [Devices -> {"never", "answered", "cut"}]
      /\ tables \in [Tables -> {"new", "running", "loaded", "failed", "freed"}]
  BY StackFacts, MadeStays DEF DevicesInv, Made, Types, TypeOK
<1>2. ASSUME wanted, NEW d, Due(d)
      PROVE  inited[d] \/ asked[d] # "never" \/ CutAbove(d) \/ \E i \in 1..Len(stack) : Carries(created, stack[i], d)
  BY <1>2 DEF DevicesInv, DevicesHandled, Handled, Carries
<1>3. ASSUME wanted' => \A d \in Devices \cap Live' : tables'[TableOf(d)] = "loaded" => Goal(d)
      PROVE  DevicesHandled'
  <2> SUFFICES ASSUME wanted', NEW d \in Devices \cap Live', tables'[TableOf(d)] = "loaded"
               PROVE  \/ Handled2(d)
                      \/ \E i \in 1..Len(stack') : /\ stack'[i].op = "devices"
                                                   /\ stack'[i].pc = "roots" \/ IsPending(created', stack'[i], d)
                      \/ \E i \in 1..Len(stack') : stack'[i].op = "load" /\ stack'[i].pc = "regs"
                      \/ \E i \in 1..Len(stack') : stack'[i].op = "complete" /\ stack'[i].initialize
    BY DEF DevicesHandled, Handled, IsPending
  <2>1. Goal(d)
    BY <1>3
  <2> QED BY <2>1 DEF Carries
<1>4. \A f, d : Carries(created, f, d) => Carries(created', f, d)
  <2>1. created \in Seq(Nodes) /\ created' \in Seq(Nodes) /\ Len(created) <= Len(created')
        /\ \A i \in 1..Len(created) : created'[i] = created[i]
    BY <1>1, LiveGrows DEF Tree
  <2>2. \A f, d : IsPending(created, f, d) => IsPending(created', f, d)
    BY <2>1, TreeGrows
  <2> QED BY <2>2 DEF Carries
\* The calls below the top stay.
<1>5. ASSUME wanted, Len(stack) = 0 \/ \A i \in 1..(Len(stack) - 1) : i \in 1..Len(stack') /\ stack'[i] = stack[i],
             NEW d, Due(d), inited[d] => inited'[d], asked[d] # "never" => asked'[d] # "never",
             CutAbove(d) => Goal(d),
             Len(stack) > 0 /\ Carries(created, Top, d) => Goal(d)
      PROVE  Goal(d)
  <2> HIDE DEF CutAbove, CutAbove2, Due
  <2> SUFFICES ASSUME NEW i \in 1..Len(stack), Carries(created, stack[i], d) PROVE Goal(d)
    BY <1>2, <1>5
  <2>1. CASE i = Len(stack)
    BY <1>1, <1>5, <2>1 DEF Top
  <2>2. CASE i # Len(stack)
    <3>1. i \in 1..(Len(stack) - 1) /\ Len(stack) # 0
      BY <1>1, <2>2
    <3>2. i \in 1..Len(stack') /\ stack'[i] = stack[i]
      BY <1>5, <3>1
    <3> QED BY <1>4, <3>2
  <2> QED BY <2>1, <2>2
\* Nothing is asked, nor marked.
<1>6. ASSUME Len(stack) = 0 \/ \A i \in 1..(Len(stack) - 1) : i \in 1..Len(stack') /\ stack'[i] = stack[i],
             asked' = asked, \A d \in Devices : inited'[d] = inited[d], wanted' => wanted,
             \A d \in Devices \cap Live' : tables'[TableOf(d)] = "loaded" => Due(d) \/ Goal(d),
             \A d \in Devices \cap Live : Due(d) /\ Len(stack) > 0 /\ Carries(created, Top, d) => Goal(d)
      PROVE  DevicesHandled'
  <2> SUFFICES ASSUME wanted, NEW d \in Devices, Due(d) PROVE Goal(d)
    BY <1>3, <1>6
  <2>1. CutAbove(d) => CutAbove2(d)
    BY <1>6
  <2>2. inited'[d] = inited[d] /\ asked'[d] = asked[d] /\ d \in Devices \cap Live
    BY <1>6
  <2> HIDE DEF CutAbove, CutAbove2, Due, Carried2
  <2> QED BY <1>5, <1>6, <2>1, <2>2
<1>7. ASSUME \E i \in 1..Len(stack') : \A d : Carries(created', stack'[i], d) PROVE DevicesHandled'
  BY <1>3, <1>7
<1> HIDE DEF Carried2, CutAbove, CutAbove2
<1>8. CASE LoadSteps
  <2>1. asked' = asked /\ inited' = inited /\ wanted' = wanted
    BY <1>8 DEF LoadSteps, LoadBegun, NamesMade, LoadFailed, TableLoaded, history
  <2>2. ASSUME Running("load"), NamesMade \/ LoadFailed PROVE DevicesHandled'
    <3>1. /\ Len(stack) \in Nat \ {0} /\ Top = stack[Len(stack)] /\ Top.op = "load" /\ Top \in Frame
          /\ Top.pc # "regs" /\ Grown(Top.table) /\ Len(stack) \in 1..Len(stack)
      BY <2>2, TopFacts DEF NamesMade, LoadFailed, At
    <3>2. \A i \in 1..(Len(stack) - 1) : i \in 1..Len(stack') /\ stack'[i] = stack[i]
      BY <2>2, <3>1 DEF NamesMade, LoadFailed, Swapped, Popped
    <3>3. tables[Top.table] = "running" /\ Top.table \in Tables
      BY <2>2, <3>1, LoadFacts DEF DevicesInv, LoadsOK
    <3>4. ASSUME NEW d \in Devices \cap Live', tables'[TableOf(d)] = "loaded" PROVE Due(d)
      <4>1. TableOf(d) \in Tables /\ d \in Nodes
        BY TableFacts, ParentFacts
      <4>2. TableOf(d) # Top.table /\ tables[TableOf(d)] = "loaded"
        BY <1>1, <2>2, <3>3, <3>4, <4>1 DEF NamesMade, LoadFailed
      <4>3. d \in Live \/ d \in ToSet(Declares[Top.table])
        BY <3>1, <3>4 DEF Grown
      <4> QED BY <3>3, <3>4, <4>2, <4>3, TableFacts
    <3>5. \A d : ~Carries(created, Top, d)
      BY <3>1 DEF Carries
    <3> HIDE DEF Due, Goal
    <3> QED BY <1>6, <2>1, <3>2, <3>4, <3>5
  <2>3. ASSUME NEW t \in Tables, LoadBegun(t) PROVE DevicesHandled'
    <3>1. /\ Len(stack') = Len(stack) + 1
          /\ \A i \in 1..Len(stack) : stack'[i].op = stack[i].op /\ (stack[i].op # "method" => stack'[i] = stack[i])
          /\ created' = created /\ tables[t] = "new" /\ tables' = [tables EXCEPT ![t] = "running"]
      BY <2>3 DEF LoadBegun
    <3>2. \A d : \A i \in 1..Len(stack) : Carries(created, stack[i], d) => i \in 1..Len(stack') /\ Carries(created', stack'[i], d)
      BY <1>1, <3>1 DEF Carries
    <3>3. ASSUME NEW d \in Devices \cap Live', tables'[TableOf(d)] = "loaded" PROVE Due(d)
      <4>1. TableOf(d) \in Tables /\ d \in Nodes
        BY TableFacts, ParentFacts
      <4>2. tables[TableOf(d)] = "loaded" /\ d \in Live
        BY <1>1, <3>1, <3>3, <4>1 DEF Live
      <4> QED BY <4>2
    <3>4. ASSUME NEW d \in Devices \cap Live', tables'[TableOf(d)] = "loaded", wanted' PROVE Goal(d)
      <4>1. CutAbove(d) => CutAbove2(d)
        BY <2>1 DEF CutAbove, CutAbove2
      <4>2. (\E i \in 1..Len(stack) : Carries(created, stack[i], d)) => Carried2(d)
        BY <3>2 DEF Carried2
      <4>3. Due(d)
        BY <3>3, <3>4
      <4> HIDE DEF Due
      <4> QED BY <1>2, <2>1, <3>4, <4>1, <4>2, <4>3
    <3> QED BY <1>3, <3>4
  <2>4. CASE TableLoaded
    <3>1. CASE complete
      <4>1. PICK f \in Frame : Swapped(stack, stack', f) /\ LoadAt(f, "regs")
        BY <2>4, <3>1, LoadGoesOn
      <4>2. Len(stack) \in Nat \ {0}
        BY <2>4, TopFacts DEF TableLoaded, At
      <4>3. Len(stack) \in 1..Len(stack') /\ stack'[Len(stack)] = f
        BY <4>1, <4>2 DEF Swapped
      <4>4. \A d : Carries(created', f, d)
        BY <4>1 DEF LoadAt, Carries
      <4> QED BY <1>7, <4>3, <4>4
    <3>2. CASE ~complete
      <4>1. ~wanted'
        BY <2>1, <3>2 DEF DevicesInv, BeforeComplete
      <4> QED BY <1>3, <4>1
    <3> QED BY <3>1, <3>2
  <2> QED BY <1>8, <2>2, <2>3, <2>4 DEF LoadSteps, NamesMade, LoadFailed, At
<1>9. ASSUME UNCHANGED <<created, tables>> PROVE \A d \in Devices \cap Live' : tables'[TableOf(d)] = "loaded" => Due(d)
  BY <1>9 DEF Live
<1>10. CASE HandlerSteps
  <2>1. asked' = asked /\ inited' = inited /\ UNCHANGED <<created, tables>>
    BY <1>10 DEF HandlerSteps, RegsDone, RegsStep, CompleteBegins, CompleteDone, CompleteStep, Cleared, Registered, history
  <2>2. CASE RegsDone
    <3>1. Len(stack) \in Nat \ {0} /\ Swapped(stack, stack', InitializeDevices)
      BY <2>2, TopFacts DEF RegsDone, At
    <3>2. Len(stack) \in 1..Len(stack') /\ stack'[Len(stack)] = InitializeDevices
      BY <3>1 DEF Swapped
    <3>3. \A d : Carries(created', InitializeDevices, d)
      BY InitializeDevicesFacts DEF Carries
    <3> QED BY <1>7, <3>2, <3>3
  <2>3. ASSUME NEW m \in 1..Len(Spaces), NEW f \in Frame, RegsStep(m, f) PROVE DevicesHandled'
    <3>1. Len(stack) \in Nat \ {0} /\ LoopSteps(m, f) /\ f.op = "load" /\ f.pc = "regs"
      BY <2>3, TopFacts DEF RegsStep, At
    <3>2. Len(stack) \in 1..Len(stack') /\ stack'[Len(stack)] = f
      BY <3>1, LoopFrames
    <3>3. \A d : Carries(created', f, d)
      BY <3>1 DEF Carries
    <3> QED BY <1>7, <3>2, <3>3
  <2>4. ASSUME NEW initialize \in BOOLEAN, CompleteBegins(initialize) PROVE DevicesHandled'
    <3>1. /\ Len(stack) = 0 /\ Len(stack') = 1 /\ stack'[1].op = "complete" /\ stack'[1].initialize = initialize
          /\ wanted' = initialize
      BY <2>4 DEF CompleteBegins, Pushed
    <3>2. CASE initialize
      <4>1. 1 \in 1..Len(stack') /\ \A d : Carries(created', stack'[1], d)
        BY <3>1, <3>2 DEF Carries
      <4> QED BY <1>7, <4>1
    <3>3. CASE ~initialize
      BY <1>3, <3>1, <3>3
    <3> QED BY <3>2, <3>3
  <2>5. ASSUME NEW f \in Frame, Running("complete"), f.op = "complete", f.initialize = Top.initialize,
               Len(stack') \in Nat, Len(stack) <= Len(stack'), stack'[Len(stack)] = f, wanted' = wanted,
               \A i \in 1..(Len(stack) - 1) : stack'[i] = stack[i]
        PROVE  DevicesHandled'
    <3>1. Len(stack) \in Nat \ {0} /\ Top.op = "complete" /\ Len(stack) \in 1..Len(stack')
      BY <2>5, TopFacts
    <3>2. \A d : Carries(created, Top, d) => Carries(created', f, d)
      BY <2>5, <3>1 DEF Carries
    <3>3. \A d : Carries(created', f, d) => Carried2(d)
      BY <2>5, <3>1 DEF Carried2
    <3>4. \A i \in 1..(Len(stack) - 1) : i \in 1..Len(stack') /\ stack'[i] = stack[i]
      BY <2>5, <3>1
    <3> HIDE DEF Due, Handled2
    <3> QED BY <1>6, <1>9, <2>1, <2>5, <3>2, <3>3, <3>4
  <2>6. ASSUME NEW m \in 1..Len(Spaces), NEW f \in Frame, CompleteStep(m, f) PROVE DevicesHandled'
    <3>1. /\ Running("complete") /\ Len(stack) \in Nat \ {0} /\ LoopSteps(m, f) /\ f.op = "complete"
          /\ f.initialize = Top.initialize /\ wanted' = wanted
      BY <2>6, TopFacts DEF CompleteStep, At, history
    <3>2. /\ Len(stack') \in Nat /\ Len(stack) <= Len(stack') /\ stack'[Len(stack)] = f
          /\ \A i \in 1..(Len(stack) - 1) : stack'[i] = stack[i]
      BY <3>1, LoopFrames
    <3> QED BY <2>5, <3>1, <3>2
  <2>7. CASE Cleared
    <3>1. PICK f \in Frame : Swapped(stack, stack', f) /\ f.op = "complete" /\ f.initialize = Top.initialize
      BY <2>7 DEF Cleared
    <3>2. Running("complete") /\ Len(stack) \in Nat \ {0} /\ wanted' = wanted
      BY <2>7, TopFacts DEF Cleared, At, history
    <3>3. /\ Len(stack') \in Nat /\ Len(stack) <= Len(stack') /\ stack'[Len(stack)] = f
          /\ \A i \in 1..(Len(stack) - 1) : stack'[i] = stack[i]
      BY <3>1, <3>2 DEF Swapped
    <3> QED BY <2>5, <3>1, <3>2, <3>3
  <2>8. CASE CompleteDone
    <3>1. Running("complete") /\ Len(stack) \in Nat \ {0} /\ Top.op = "complete" /\ wanted' = wanted
      BY <2>8, TopFacts DEF CompleteDone, At, history
    <3>2. CASE Top.initialize
      <4>1. Len(stack) \in 1..Len(stack') /\ stack'[Len(stack)] = InitializeDevices
        BY <2>8, <3>1, <3>2 DEF CompleteDone, Swapped
      <4>2. \A d : Carries(created', InitializeDevices, d)
        BY InitializeDevicesFacts DEF Carries
      <4> QED BY <1>7, <4>1, <4>2
    <3>3. CASE ~Top.initialize
      <4>1. \A i \in 1..(Len(stack) - 1) : i \in 1..Len(stack') /\ stack'[i] = stack[i]
        BY <2>8, <3>1, <3>3 DEF CompleteDone, Popped
      <4>2. \A d : ~Carries(created, Top, d)
        BY <3>1, <3>3 DEF Carries
      <4> HIDE DEF Due, Goal
      <4> QED BY <1>6, <1>9, <2>1, <3>1, <4>1, <4>2
    <3> QED BY <3>2, <3>3
  <2>9. ASSUME NEW s \in SpaceTypes, NEW enable \in BOOLEAN, NEW call \in BOOLEAN, Registered(s, enable, call)
        PROVE  DevicesHandled'
    <3>1. /\ Len(stack') \in {Len(stack), Len(stack) + 1} /\ \A i \in 1..Len(stack) : stack'[i] = stack[i]
          /\ wanted' = wanted
      BY <2>9, RegisteredFacts DEF Registered
    <3>2. \A i \in 1..Len(stack) : i \in 1..Len(stack')
      BY <1>1, <3>1
    <3>3. \A i \in 1..(Len(stack) - 1) : i \in 1..Len(stack)
      BY <1>1
    <3>4. Len(stack) > 0 => Len(stack) \in 1..Len(stack)
      BY <1>1
    <3>5. \A d : Len(stack) > 0 /\ Carries(created, Top, d) => Carried2(d)
      BY <1>4, <3>1, <3>2, <3>4 DEF Top, Carried2
    <3> HIDE DEF Due, Handled2
    <3> QED BY <1>6, <1>9, <2>1, <3>1, <3>2, <3>3, <3>5
  <2> QED BY <1>10, <2>2, <2>3, <2>4, <2>6, <2>7, <2>8, <2>9 DEF HandlerSteps
<1>11. CASE UNCHANGED vars
  <2>1. stack' = stack /\ created' = created /\ tables' = tables /\ asked' = asked /\ inited' = inited /\ wanted' = wanted
    BY <1>11 DEF vars
  <2>2. \A i \in 1..(Len(stack) - 1) : i \in 1..Len(stack)
    BY <1>1
  <2>3. \A d : Len(stack) > 0 /\ Carries(created, Top, d) => Carried2(d)
    <3>1. Len(stack) > 0 => Len(stack) \in 1..Len(stack)
      BY <1>1
    <3> QED BY <1>4, <2>1, <3>1 DEF Top, Carried2
  <2> HIDE DEF Due, Handled2
  <2> QED BY <1>6, <1>9, <2>1, <2>2, <2>3
<1>12. CASE WalkSteps
  <2>1. /\ Len(stack) \in Nat \ {0} /\ \A i \in 1..(Len(stack) - 1) : i \in 1..Len(stack') /\ stack'[i] = stack[i]
        /\ UNCHANGED <<created, tables, wanted>> /\ Live' = Live
    BY <1>12, InsideSteps DEF Inside, InsideStack, Live
  <2>2. ASSUME asked' = asked, \A d \in Devices : inited'[d] = inited[d],
               \A d \in Devices \cap Live : Carries(created, Top, d) => Goal(d)
        PROVE  DevicesHandled'
    <3> HIDE DEF Due, Goal
    <3> QED BY <1>6, <1>9, <2>1, <2>2
  <2>3. ASSUME NEW f \in Frame, NEW d, Carries(created, f, d),
               Swapped(stack, stack', f) \/ \E g \in Frame : SwappedAndPushed(stack, stack', f, g)
        PROVE  Carried2(d)
    <3>1. Len(stack) \in 1..Len(stack') /\ stack'[Len(stack)] = f
      BY <2>1, <2>3 DEF Swapped, SwappedAndPushed
    <3> QED BY <1>4, <2>3, <3>1 DEF Carried2
  <2>4. ASSUME Top.op \in {"devices", "broadcast"}, Top.pc # "roots",
               NEW d, Carries(created, Top, d)
        PROVE  Top.op = "devices" /\ IsPending(created, Top, d)
    BY <2>4 DEF Carries
  <2>5. CASE WalkEnds
    <3>1. /\ Top.op \in {"devices", "broadcast"} /\ Top.pc # "roots" /\ asked' = asked /\ inited' = inited
          /\ \A d \in Devices \cap Live : ~IsPending(created, Top, d)
      BY <2>5 DEF WalkEnds, Walking, Running, history
    <3> QED BY <2>2, <2>4, <3>1
  <2>6. ASSUME NEW f \in Frame, WalkMoves(f) PROVE DevicesHandled'
    <3>1. /\ Top.op \in {"devices", "broadcast"} /\ Top.pc # "roots" /\ asked' = asked /\ inited' = inited
          /\ \A d \in Devices \cap Live : IsPending(created, Top, d) => IsPending(created, f, d)
          /\ Swapped(stack, stack', f) /\ f.op = Top.op
      BY <2>6 DEF WalkMoves, Walking, Running, Continues, history
    <3>2. \A d \in Devices \cap Live : Carries(created, Top, d) => Carries(created, f, d)
      BY <2>4, <3>1 DEF Carries
    <3> QED BY <2>2, <2>3, <3>1, <3>2
  <2>7. ASSUME NEW f \in Frame, RegTold(f) PROVE DevicesHandled'
    <3>1. Top.op = "broadcast" /\ asked' = asked /\ inited' = inited
      BY <2>7 DEF RegTold, Walking, Running
    <3>2. \A d : ~Carries(created, Top, d)
      BY <3>1 DEF Carries
    <3> QED BY <2>2, <3>1, <3>2
  <2>8. ASSUME NEW f \in Frame, WalkBegins(f) \/ \E g \in Frame : RootCalled(f, g) PROVE DevicesHandled'
    <3>1. /\ asked' = asked /\ inited' = inited
          /\ \A d \in Devices \cap Live : Carries(created, f, d)
          /\ Swapped(stack, stack', f) \/ \E g \in Frame : SwappedAndPushed(stack, stack', f, g)
      BY <2>8 DEF WalkBegins, RootCalled, Carries, history
    <3> QED BY <2>2, <2>3, <3>1
  <2>9. ASSUME NEW f \in Frame, AskedBefore(f) PROVE DevicesHandled'
    <3>1. /\ Top.op = "devices" /\ Top.pc # "roots" /\ asked' = asked /\ inited' = inited
          /\ inited[Here.node] /\ f.op = Top.op /\ Swapped(stack, stack', f)
          /\ \A d \in Devices \cap Live : IsPending(created, Top, d) => d = Here.node \/ IsPending(created, f, d)
      BY <2>9 DEF AskedBefore, Continues, Walking, Running, history
    <3>2. \A d \in Devices \cap Live : Carries(created, Top, d) => inited'[d] \/ Carries(created, f, d)
      BY <2>4, <3>1 DEF Carries
    <3> QED BY <2>2, <2>3, <3>1, <3>2
  <2>10. CASE MethodOver \/ \E g \in Frame : HostCalled(g)
    <3>1. Top.op = "method" /\ asked' = asked /\ \A d \in Devices : inited'[d] = inited[d]
      BY <2>10 DEF MethodOver, HostCalled, Running, history
    <3>2. \A d : ~Carries(created, Top, d)
      BY <3>1 DEF Carries
    <3> QED BY <2>2, <3>1, <3>2
  <2>11. ASSUME \A d \in Devices \cap Live : /\ CutAbove(d) => Goal(d)
                                             /\ Carries(created, Top, d) => Goal(d),
                \A d \in Devices : (inited[d] => inited'[d]) /\ (asked[d] # "never" => asked'[d] # "never")
         PROVE  DevicesHandled'
    <3>1. ASSUME wanted, NEW d, Due(d) PROVE Goal(d)
      <4>1. d \in Devices \cap Live /\ d \in Devices
        BY <3>1
      <4> HIDE DEF Due, Goal
      <4> QED BY <1>5, <2>1, <2>11, <3>1, <4>1
    <3> HIDE DEF Due, Goal
    <3> QED BY <1>3, <1>9, <2>1, <3>1
  <2>12. CASE HostReturned
    <3> DEFINE e == Top.node
    <3>1. /\ Running("host") /\ Popped(stack, stack') /\ e \in Devices /\ asked' = asked
          /\ inited' = [inited EXCEPT ![e] = TRUE]
      BY <2>12 DEF HostReturned, history
    <3>2. Top = stack[Len(stack)] /\ Top.op = "host"
      BY <3>1, TopFacts
    <3>3. e \in Nodes /\ \A d \in Devices : d \in Nodes
      BY <3>1, ParentFacts
    <3>4. InitializedBy(stack[Len(stack)], e) /\ Len(stack) \in 1..Len(stack)
      BY <2>1, <3>2, InitializedFacts
    <3> DEFINE k == Len(stack) - 1
               v == Last(stack[k].walk)
    <3>5. /\ Len(stack) > 1 /\ stack[k].op = "devices" /\ stack[k].pc = "go" /\ e \in Live
          /\ v.node = e /\ AtFirst(created, v)
      BY <3>1, <3>4 DEF DevicesInv, InitOK
    <3>6. k \in 1..Len(stack) /\ k \in 1..(Len(stack) - 1) /\ IsWalk(stack[k])
      BY <2>1, <3>5 DEF IsWalk
    <3>7. WalkOK(stack[k].walk)
      BY <3>6 DEF DevicesInv, WalksOK
    <3>8. v = stack[k].walk[Len(stack[k].walk)] /\ Len(stack[k].walk) \in DOMAIN stack[k].walk
      BY <3>7, WalkFacts
    <3> HIDE DEF e
    <3>9. ASSUME NEW d \in Devices \cap Live, e \in Above[d] PROVE Carried2(d)
      <4>1. Ahead(created, v) \cap Chain(d) # {}
        <5> HIDE DEF v
        <5> QED BY <1>1, <3>1, <3>5, <3>9, BelowIsAhead
      <4>2. Carries(created, stack[k], d)
        BY <3>5, <3>8, <4>1 DEF Carries, IsPending
      <4>3. k \in 1..Len(stack') /\ stack'[k] = stack[k]
        BY <2>1, <3>6
      <4> QED BY <1>4, <4>2, <4>3 DEF Carried2
    <3>10. ASSUME NEW d \in Devices \cap Live, CutAbove(d) PROVE Goal(d)
      <4>1. PICK a \in Above[d] \cap Devices : ~inited[a] /\ asked[a] = "cut"
        BY <3>10 DEF CutAbove
      <4>2. CASE a = e
        BY <3>9, <4>1, <4>2
      <4>3. CASE a # e
        <5>1. inited'[a] = inited[a] /\ asked'[a] = asked[a]
          BY <1>1, <3>1, <3>3, <4>1, <4>3
        <5> QED BY <4>1, <5>1 DEF CutAbove2
      <4> QED BY <4>2, <4>3
    <3>11. \A d : ~Carries(created, Top, d)
      BY <3>2 DEF Carries
    <3>12. \A d \in Devices : inited[d] => inited'[d]
      BY <1>1, <3>1, <3>3
    <3> HIDE DEF Goal
    <3> QED BY <2>11, <3>1, <3>10, <3>11, <3>12
  <2>13. ASSUME NEW status \in Statuses, NEW f \in Frame, DeviceAsked(status, f) PROVE DevicesHandled'
    <3> DEFINE v == Last(f.walk)
               e == Here.node
    <3>1. /\ Walking("visit") /\ Top.op = "devices" /\ ~inited[e] /\ f.op = "devices" /\ WalkOK(f.walk)
          /\ v.node = e /\ (~SkipChildren(v) => AtFirst(created, v)) /\ inited' = inited
          /\ asked' = [asked EXCEPT ![e] = IF SkipChildren(v) THEN "cut" ELSE "answered"]
          /\ \A d \in Devices \cap Live : IsPending(created, Top, d) =>
               \/ d = e \/ IsPending(created, f, d) \/ (SkipChildren(v) /\ e \in Above[d])
      BY <2>13 DEF DeviceAsked, Continues
    <3>2. Swapped(stack, stack', f) \/ \E g \in Frame : SwappedAndPushed(stack, stack', f, g)
      BY <2>13 DEF DeviceAsked
    <3>3. e \in Devices /\ e \in Live /\ Top.pc # "roots"
      BY <3>1, WalkFrameFacts DEF Visiting
    <3>4. v = f.walk[Len(f.walk)] /\ Len(f.walk) \in DOMAIN f.walk
      BY <3>1, WalkFacts
    <3> HIDE DEF e, v
    <3>5. asked'[e] = (IF SkipChildren(v) THEN "cut" ELSE "answered") /\ \A d \in Devices : d # e => asked'[d] = asked[d]
      BY <1>1, <3>1, <3>3
    <3>6. ASSUME NEW d \in Devices \cap Live, e \in Above[d] PROVE Goal(d)
      <4>1. CASE SkipChildren(v)
        <5>1. ~inited'[e] /\ asked'[e] = "cut"
          BY <3>1, <3>5, <4>1
        <5> QED BY <3>3, <3>6, <5>1 DEF CutAbove2
      <4>2. CASE ~SkipChildren(v)
        <5>1. Ahead(created, v) \cap Chain(d) # {}
          BY <1>1, <3>1, <3>3, <3>6, <4>2, BelowIsAhead
        <5>2. Carries(created, f, d)
          BY <3>1, <3>4, <5>1 DEF Carries, IsPending
        <5> QED BY <2>3, <3>2, <5>2
      <4> QED BY <4>1, <4>2
    <3>7. ASSUME NEW d \in Devices \cap Live, CutAbove(d) PROVE Goal(d)
      <4>1. PICK a \in Above[d] \cap Devices : ~inited[a] /\ asked[a] = "cut"
        BY <3>7 DEF CutAbove
      <4>2. CASE a = e
        BY <3>6, <4>1, <4>2
      <4>3. CASE a # e
        BY <3>1, <3>5, <4>1, <4>3 DEF CutAbove2
      <4> QED BY <4>2, <4>3
    <3>8. ASSUME NEW d \in Devices \cap Live, Carries(created, Top, d) PROVE Goal(d)
      <4>1. IsPending(created, Top, d)
        BY <2>4, <3>1, <3>3, <3>8
      <4>2. CASE d = e
        BY <3>5, <4>2
      <4>3. CASE IsPending(created, f, d)
        <5>1. Carries(created, f, d)
          BY <3>1, <4>3 DEF Carries
        <5> QED BY <2>3, <3>2, <5>1
      <4>4. CASE e \in Above[d]
        BY <3>6, <4>4
      <4> QED BY <3>1, <4>1, <4>2, <4>3, <4>4
    <3>9. \A d \in Devices : asked[d] # "never" => asked'[d] # "never"
      BY <3>5
    <3> HIDE DEF Goal
    <3> QED BY <2>11, <3>1, <3>7, <3>8, <3>9
  <2> QED BY <1>12, <2>5, <2>6, <2>7, <2>8, <2>9, <2>10, <2>12, <2>13 DEF WalkSteps
<1> QED BY <1>8, <1>10, <1>11, <1>12

-----------------------------------------------------------------------------
(* What the _REG methods are told. *)

\* The broadcasts and loads that stay.
LEMMA CallsStay ==
  ASSUME NEW s, NEW t
  PROVE  /\ (\A k \in 1..Len(s) : s[k].op = "broadcast" => k \in 1..Len(t) /\ t[k] = s[k])
              => \A c, n, z, i : WillBeTold(s, c, n, z, i) => WillBeTold(t, c, n, z, i)
         /\ (\A k \in 1..Len(s) : s[k].op = "load" =>
               k \in 1..Len(t) /\ t[k].op = "load" /\ t[k].table = s[k].table)
              => \A n, i : LoadedAbove(s, n, i) => LoadedAbove(t, n, i)
<1>1. ASSUME \A k \in 1..Len(s) : s[k].op = "broadcast" => k \in 1..Len(t) /\ t[k] = s[k],
             NEW c, NEW n, NEW z, NEW i, WillBeTold(s, c, n, z, i)
      PROVE  WillBeTold(t, c, n, z, i)
  <2>1. PICK k \in 1..Len(s) : k > i /\ s[k].op = "broadcast" /\ s[k].space = z /\ IsPending(c, s[k], Parent[n])
    BY <1>1 DEF WillBeTold
  <2> QED BY <1>1, <2>1 DEF WillBeTold
<1>2. ASSUME \A k \in 1..Len(s) : s[k].op = "load" => k \in 1..Len(t) /\ t[k].op = "load" /\ t[k].table = s[k].table,
             NEW n, NEW i, LoadedAbove(s, n, i)
      PROVE  LoadedAbove(t, n, i)
  BY <1>2 DEF LoadedAbove
<1> QED BY <1>1, <1>2

\* The loop of a load.
IsRegs(f) == f.op = "load" /\ f.pc = "regs"

\* A step that tells a _REG method nothing but what is true, registers nothing, begins
\* no broadcast, and moves no loop over the handlers.
Quietly ==
  /\ UNCHANGED <<handlers, unsure, complete>>
  \* the broadcasts: one that ends has nothing left
  /\ \A k \in 1..Len(stack') : stack'[k].op = "broadcast" =>
       /\ k \in 1..Len(stack) /\ stack[k].op = "broadcast"
       /\ stack[k].space = stack'[k].space /\ stack[k].enable = stack'[k].enable
  /\ \A k \in 1..Len(stack) : stack[k].op = "broadcast" =>
       \/ k \in 1..Len(stack') /\ stack'[k].op = "broadcast" /\ stack'[k].space = stack[k].space
       \/ k = Len(stack) /\ \A d \in Devices \cap Live : ~IsPending(created, stack[k], d)
  /\ \A k \in 1..Len(stack), n \in Known \cap Known' :
       stack[k].op = "broadcast" /\ IsPending(created, stack[k], Parent[n]) =>
         \/ stack[k].space \in Sure /\ told'[n][stack[k].space] = handlers[stack[k].space].enable
         \/ stack[k].space \notin Sure
         \/ /\ k \in 1..Len(stack') /\ stack'[k].op = "broadcast" /\ stack'[k].space = stack[k].space
            /\ IsPending(created', stack'[k], Parent[n])
  \* the loads: of one that ends no node is known
  /\ \A j \in 1..Len(stack) : stack[j].op = "load" =>
       \/ j \in 1..Len(stack') /\ stack'[j].op = "load" /\ stack'[j].table = stack[j].table
       \/ \A n \in Known' : TableOf(n) # stack[j].table
  /\ \A j \in 1..Len(stack') : IsRegs(stack'[j]) => j \in 1..Len(stack) /\ IsRegs(stack[j]) /\ stack[j].i = stack'[j].i
  /\ \A j \in 1..Len(stack) : IsRegs(stack[j]) => j \in 1..Len(stack') /\ IsRegs(stack'[j]) /\ stack'[j].i = stack[j].i
  /\ \A i \in 1..Len(stack') : stack'[i].op = "devices" => i \in 1..Len(stack) /\ stack[i].op = "devices"
  /\ \A j \in 1..Len(stack) : stack[j].op = "complete" =>
       j \in 1..Len(stack') /\ stack'[j].op = "complete" /\ stack'[j].i = stack[j].i
  \* what is known, and what it is told; what is new is in the table at the top
  /\ \A n \in Known \cap Known', s \in Sure : told'[n][s] = told[n][s] \/ told'[n][s] = handlers[s].enable
  /\ \A n \in Known' :
       \/ n \in Known /\ (tables'[TableOf(n)] = "loaded" => tables[TableOf(n)] = "loaded")
       \/ /\ tables'[TableOf(n)] = "running" /\ \A s \in SpaceTypes : ~told'[n][s]
          /\ Len(stack') = Len(stack) /\ Len(stack) > 0
          /\ Top.op = "load" /\ stack'[Len(stack)].op = "load"
          /\ ~IsRegs(stack'[Len(stack)]) /\ stack'[Len(stack)].table = TableOf(n)

\* A quiet step preserves what the _REG methods are told.
LEMMA RegionsStayQuietly ==
  ASSUME DevicesInv, Quietly, Types'
  PROVE  Regions'
<1> HIDE DEF Frame
<1> DEFINE K == Known
           K2 == Known'
           Pend(k, n) == IsPending(created, stack[k], Parent[n])
           Pend2(k, n) == IsPending(created', stack'[k], Parent[n])
           Cast(k, s) == k \in 1..Len(stack) /\ stack[k].op = "broadcast" /\ stack[k].space = s
           Cast2(k, s) == k \in 1..Len(stack') /\ stack'[k].op = "broadcast" /\ stack'[k].space = s
           Fresh(n) == /\ tables'[TableOf(n)] = "running" /\ \A s \in SpaceTypes : ~told'[n][s]
                       /\ Len(stack') = Len(stack) /\ Len(stack) > 0
                       /\ Top.op = "load" /\ stack'[Len(stack)].op = "load"
                       /\ ~IsRegs(stack'[Len(stack)]) /\ stack'[Len(stack)].table = TableOf(n)
           on(s) == handlers[s].enable
           Loading(n, i) == LoadedAbove(stack, n, i)
           Loading2(n, i) == LoadedAbove(stack', n, i)
           Will(n, s, i) == WillBeTold(stack, created, n, s, i)
           Will2(n, s, i) == WillBeTold(stack', created', n, s, i)
<1>1. DOMAIN stack' = 1..Len(stack')
  <2>1. stack' \in Seq(Frame)
    BY DEF Types
  <2> QED BY <2>1, LenProperties
<1>2. BroadcastsTell /\ DisabledTold /\ LoadsTell /\ DevicesTold /\ EnabledTold
  BY DEF DevicesInv, Regions
<1>3. /\ Types /\ Len(stack) \in Nat
      /\ handlers \in [SpaceTypes -> [enable : BOOLEAN, pending : BOOLEAN]]
      /\ told \in [Nodes -> [SpaceTypes -> BOOLEAN]]
      /\ Regions /\ (Len(stack) = 0 \/ (Len(stack) \in 1..Len(stack) /\ Top = stack[Len(stack)]))
  BY StackFacts DEF DevicesInv, Types, TypeOK, Top
<1>4. /\ UNCHANGED <<handlers, unsure, complete>> /\ Sure' = Sure /\ \A s \in Sure : s \in SpaceTypes
      /\ \A s \in SpaceTypes : on(s) \in BOOLEAN
  BY <1>3 DEF Quietly, Sure
<1>5. \A n \in K : n \in Nodes /\ Parent[n] \in Devices \cap Live
  <2>1. Live \subseteq Nodes /\ \A n \in Live : Parent[n] \in Live \cup {TreeRoot}
    BY LiveFacts DEF DevicesInv, Made, Tree
  <2> QED BY <2>1, ParentFacts DEF Known
<1>6. \A n \in K2 : (n \in K /\ (tables'[TableOf(n)] = "loaded" => tables[TableOf(n)] = "loaded")) \/ Fresh(n)
  BY DEF Quietly
<1>7. ASSUME NEW n \in K, n \in K2, NEW s \in Sure
      PROVE  told'[n][s] = told[n][s] \/ told'[n][s] = on(s)
  BY <1>7 DEF Quietly
<1>8. ASSUME NEW n \in K, n \in K2, NEW s \in Sure, NEW k, Cast(k, s), Pend(k, n)
      PROVE  told'[n][s] = on(s) \/ (Cast2(k, s) /\ Pend2(k, n))
  BY <1>8 DEF Quietly
<1>9. ASSUME NEW n \in K, n \in K2, NEW i, Loading(n, i) PROVE Loading2(n, i)
  <2>1. PICK j \in 1..Len(stack) : j > i /\ stack[j].op = "load" /\ stack[j].table = TableOf(n)
    BY <1>9 DEF LoadedAbove
  <2>2. j \in 1..Len(stack') /\ stack'[j].op = "load" /\ stack'[j].table = stack[j].table
    BY <1>9, <2>1 DEF Quietly
  <2> QED BY <2>1, <2>2 DEF LoadedAbove
<1>10. ASSUME NEW n, Fresh(n), NEW i, i \in 1..Len(stack'), stack'[i].op # "load" \/ IsRegs(stack'[i])
      PROVE  Loading2(n, i)
  <2>1. Len(stack') \in 1..Len(stack') /\ i # Len(stack') /\ i < Len(stack')
    BY <1>3, <1>10
  <2> QED BY <1>10, <2>1 DEF LoadedAbove
<1>11. ASSUME NEW n \in K, n \in K2, NEW s \in Sure, NEW i, Will(n, s, i)
      PROVE  told'[n][s] = on(s) \/ Will2(n, s, i)
  <2>1. PICK k \in 1..Len(stack) : k > i /\ Cast(k, s) /\ Pend(k, n)
    BY <1>11 DEF WillBeTold
  <2>2. told'[n][s] = on(s) \/ (Cast2(k, s) /\ Pend2(k, n))
    BY <1>8, <1>11, <2>1
  <2> QED BY <2>1, <2>2 DEF WillBeTold
<1>12. \A n \in K, s \in Sure : told[n][s] \in BOOLEAN /\ on(s) \in BOOLEAN
  BY <1>3, <1>4, <1>5
<1>13. BroadcastsTell'
  <2>1. ASSUME NEW k, NEW s \in Sure, Cast2(k, s)
        PROVE  stack'[k].enable = on(s) /\ \A n \in K2 :
                 told'[n][s] = on(s) \/ Pend2(k, n) \/ (Loading2(n, k) /\ ~told'[n][s])
    <3>1. Cast(k, s) /\ stack[k].enable = stack'[k].enable
      BY <2>1 DEF Quietly
    <3>2. /\ stack[k].enable = on(s)
          /\ \A n \in K : told[n][s] = on(s) \/ Pend(k, n) \/ (Loading(n, k) /\ ~told[n][s])
      BY <1>2, <3>1 DEF BroadcastsTell
    <3>3. ASSUME NEW n \in K2 PROVE told'[n][s] = on(s) \/ Pend2(k, n) \/ (Loading2(n, k) /\ ~told'[n][s])
      <4>1. CASE Fresh(n)
        <5>1. Loading2(n, k)
          BY <1>10, <2>1, <4>1
        <5> QED BY <1>4, <4>1, <5>1
      <4>2. CASE n \in K
        <5> HIDE DEF K, K2, Pend, Pend2, Cast, Cast2, Fresh, on, Loading, Loading2
        <5>1. CASE told[n][s] = on(s)
          BY <1>7, <3>3, <4>2, <5>1
        <5>2. CASE Pend(k, n)
          BY <1>8, <3>1, <3>3, <4>2, <5>2
        <5>3. CASE Loading(n, k) /\ ~told[n][s]
          <6>1. Loading2(n, k)
            BY <1>9, <3>3, <4>2, <5>3
          <6>2. told'[n][s] = told[n][s] \/ told'[n][s] = on(s)
            BY <1>7, <3>3, <4>2
          <6> QED BY <5>3, <6>1, <6>2
        <5> QED BY <3>2, <4>2, <5>1, <5>2, <5>3
      <4> QED BY <1>6, <4>1, <4>2
    <3> QED BY <3>1, <3>2, <3>3
  <2> HIDE DEF K, K2, Pend2, Loading2, Cast2, on
  <2>2. ASSUME NEW k \in 1..Len(stack'), stack'[k].op = "broadcast", stack'[k].space \in Sure
        PROVE  Cast2(k, stack'[k].space)
    BY <2>2 DEF Cast2
  <2>3. \A k \in 1..Len(stack') : stack'[k].op = "broadcast" /\ stack'[k].space \in Sure =>
          /\ stack'[k].enable = on(stack'[k].space)
          /\ \A n \in K2 : \/ told'[n][stack'[k].space] = on(stack'[k].space) \/ Pend2(k, n)
                           \/ (Loading2(n, k) /\ ~told'[n][stack'[k].space])
    BY <2>1, <2>2
  <2> QED BY <1>4, <2>3 DEF BroadcastsTell, K2, Pend2, Loading2, on
<1>14. DisabledTold'
  <2> SUFFICES ASSUME NEW n \in K2, NEW s \in Sure, ~on(s), told'[n][s] PROVE Will2(n, s, 0)
    BY <1>4 DEF DisabledTold
  <2>1. n \in K
    BY <1>4, <1>6
  <2>2. told[n][s]
    BY <1>7, <2>1
  <2>3. Will(n, s, 0)
    BY <1>2, <2>1, <2>2 DEF DisabledTold
  <2> HIDE DEF K, K2, Will, Will2, on
  <2> QED BY <1>11, <1>12, <2>1, <2>3
<1>15. LoadsTell'
  <2> SUFFICES ASSUME NEW j \in 1..Len(stack'), IsRegs(stack'[j]), NEW m \in 1..(stack'[j].i - 1),
                      Spaces[m] \in Sure, on(Spaces[m]), NEW n \in K2
               PROVE  told'[n][Spaces[m]] \/ Will2(n, Spaces[m], j) \/ Loading2(n, j)
    BY <1>4 DEF LoadsTell, IsRegs
  <2>1. CASE Fresh(n)
    BY <1>10, <2>1
  <2>2. CASE n \in K
    <3>1. j \in 1..Len(stack) /\ IsRegs(stack[j]) /\ stack[j].i = stack'[j].i
      BY DEF Quietly
    <3>2. told[n][Spaces[m]] \/ Will(n, Spaces[m], j) \/ Loading(n, j)
      BY <1>2, <2>2, <3>1 DEF LoadsTell, IsRegs
    <3> DEFINE s == Spaces[m]
    <3>3. s \in Sure /\ on(s) /\ n \in K2 /\ (told[n][s] \/ Will(n, s, j) \/ Loading(n, j))
      BY <3>2
    <3> HIDE DEF K, K2, Will, Will2, on, Loading, Loading2, s, Fresh
    <3>4. told'[n][s] \/ Will2(n, s, j) \/ Loading2(n, j)
      BY <1>7, <1>9, <1>11, <1>12, <2>2, <3>3
    <3> QED BY <3>4 DEF s
  <2> QED BY <1>6, <2>1, <2>2
<1>16. DevicesTold'
  <2> SUFFICES ASSUME NEW i \in 1..Len(stack'), stack'[i].op = "devices", NEW n \in K2, NEW s \in Sure
               PROVE  told'[n][s] = on(s) \/ (\E k \in DOMAIN stack' : Cast2(k, s)) \/ Loading2(n, i)
    BY <1>4 DEF DevicesTold, Broadcasting
  <2>1. CASE Fresh(n)
    BY <1>10, <2>1
  <2>2. CASE n \in K
    <3>1. i \in 1..Len(stack) /\ stack[i].op = "devices"
      BY DEF Quietly
    <3>2. told[n][s] = on(s) \/ Broadcasting(s) \/ Loading(n, i)
      BY <1>2, <2>2, <3>1 DEF DevicesTold
    <3>3. ASSUME Broadcasting(s) PROVE told'[n][s] = on(s) \/ (\E k \in DOMAIN stack' : Cast2(k, s))
      <4>1. DOMAIN stack = 1..Len(stack)
        BY <1>3, StackFacts
      <4>2. PICK k \in 1..Len(stack) : stack[k].op = "broadcast" /\ stack[k].space = s
        BY <3>3, <4>1 DEF Broadcasting
      <4>3. CASE Cast2(k, s)
        BY <1>1, <4>3
      <4>4. CASE k = Len(stack) /\ \A d \in Devices \cap Live : ~IsPending(created, stack[k], d)
        <5>1. told[n][s] = on(s) \/ Pend(k, n) \/ (Loading(n, k) /\ ~told[n][s])
          BY <1>2, <2>2, <4>2 DEF BroadcastsTell
        <5>2. ~Pend(k, n)
          BY <1>5, <2>2, <4>4
        <5>3. ~Loading(n, k)
          BY <1>3, <4>4 DEF LoadedAbove
        <5> HIDE DEF K, K2, on, Pend, Loading
        <5> QED BY <1>7, <2>2, <5>1, <5>2, <5>3
      <4> QED BY <4>2, <4>3, <4>4 DEF Quietly
    <3> HIDE DEF K, K2, on, Loading, Loading2
    <3> QED BY <1>7, <1>9, <2>2, <3>2, <3>3
  <2> QED BY <1>6, <2>1, <2>2
<1>17. EnabledTold'
  <2> DEFINE Loop(m) == \/ \E j \in 1..Len(stack) : IsRegs(stack[j]) /\ stack[j].i <= m
                        \/ \E j \in 1..Len(stack) : /\ stack[j].op = "complete" /\ stack[j].i <= m
                                                    /\ handlers[Spaces[m]].pending
             Loop2(m) == \/ \E j \in 1..Len(stack') : IsRegs(stack'[j]) /\ stack'[j].i <= m
                         \/ \E j \in 1..Len(stack') : /\ stack'[j].op = "complete" /\ stack'[j].i <= m
                                                      /\ handlers[Spaces[m]].pending
  <2> SUFFICES ASSUME complete, NEW n \in K2, NEW m \in 1..Len(Spaces), tables'[TableOf(n)] = "loaded",
                      Spaces[m] \in Sure, on(Spaces[m])
               PROVE  told'[n][Spaces[m]] \/ Will2(n, Spaces[m], 0) \/ Loop2(m)
    BY <1>4 DEF EnabledTold, IsRegs
  <2>1. n \in K /\ tables[TableOf(n)] = "loaded"
    BY <1>6
  <2>2. told[n][Spaces[m]] \/ Will(n, Spaces[m], 0) \/ Loop(m)
    BY <1>2, <2>1 DEF EnabledTold, IsRegs
  <2>3. Loop(m) => Loop2(m)
    BY DEF Quietly
  <2> DEFINE s == Spaces[m]
  <2>4. s \in Sure /\ on(s) /\ n \in K2 /\ (told[n][s] \/ Will(n, s, 0) \/ Loop(m))
    BY <2>2
  <2> HIDE DEF K, K2, Will, Will2, on, s, Loop, Loop2
  <2>5. told'[n][s] \/ Will2(n, s, 0) \/ Loop2(m)
    BY <1>7, <1>11, <1>12, <2>1, <2>3, <2>4
  <2> QED BY <2>5 DEF s
<1> QED BY <1>13, <1>14, <1>15, <1>16, <1>17 DEF Regions

\* Before the initial load is complete nothing is said of them.
LEMMA RegionsBefore ==
  ASSUME Types', Made', LoadsOK', BeforeComplete', ~complete'
  PROVE  Regions'
<1> HIDE DEF Frame
<1>1. DOMAIN stack' = 1..Len(stack')
  <2>1. stack' \in Seq(Frame)
    BY DEF Types
  <2> QED BY <2>1, LenProperties
<1>2. \A i \in 1..Len(stack') : stack'[i].op \notin {"broadcast", "devices"}
  <2>1. \A i \in DOMAIN stack' : stack'[i].op \in {"broadcast", "devices"} => complete'
    BY DEF Types, TypeOK
  <2> QED BY <1>1, <2>1
<1>3. \A i \in 1..Len(stack') : ~(stack'[i].op = "load" /\ stack'[i].pc = "regs")
  BY DEF LoadsOK
<1>4. \A n \in Known', s \in SpaceTypes : ~told'[n][s]
  <2>1. Live' \subseteq Nodes
    BY LiveAreNodes DEF Made
  <2> QED BY <2>1 DEF Known, BeforeComplete
<1>5. BroadcastsTell' /\ DevicesTold'
  BY <1>2 DEF BroadcastsTell, DevicesTold
<1>6. LoadsTell' /\ EnabledTold'
  BY <1>3 DEF LoadsTell, EnabledTold
<1>7. DisabledTold'
  BY <1>4 DEF DisabledTold, Sure
<1> QED BY <1>5, <1>6, <1>7 DEF Regions

\* Loads begin, grow and fail quietly.
LEMMA QuietLoads ==
  ASSUME DevicesInv, NamesMade \/ LoadFailed \/ \E t \in Tables : LoadBegun(t)
  PROVE  Quietly
<1> HIDE DEF Frame
<1>1. /\ Types /\ Tree /\ Len(stack) \in Nat /\ Live \subseteq Nodes
      /\ tables \in [Tables -> {"new", "running", "loaded", "failed", "freed"}]
      /\ \A t \in Tables : tables[t] = "new" => ToSet(Declares[t]) \cap Live = {}
      /\ \A n \in Nodes \ Live, s \in SpaceTypes : ~told[n][s]
  BY StackFacts, LiveFacts DEF DevicesInv, Made, Types, TypeOK
<1>2. ASSUME NEW t \in Tables, LoadBegun(t) PROVE Quietly
  <2>1. /\ UNCHANGED <<handlers, unsure, complete, created, told>>
        /\ tables[t] = "new" /\ tables' = [tables EXCEPT ![t] = "running"]
        /\ Len(stack') = Len(stack) + 1 /\ stack'[Len(stack) + 1].op = "load"
        /\ stack'[Len(stack) + 1].pc = "names"
        /\ \A i \in 1..Len(stack) :
             stack'[i].op = stack[i].op /\ (stack[i].op # "method" => stack'[i] = stack[i])
    BY <1>2 DEF LoadBegun
  <2>2. \A i \in 1..Len(stack') : i \in 1..Len(stack) \/ i = Len(stack) + 1
    BY <1>1, <2>1
  <2>3. \A i \in 1..Len(stack) : i \in 1..Len(stack')
    BY <1>1, <2>1
  <2>4. ASSUME NEW n \in Live
        PROVE  TableOf(n) # t /\ TableOf(n) \in Tables /\ tables'[TableOf(n)] = tables[TableOf(n)]
    <3>1. n \in Nodes /\ TableOf(n) \in Tables /\ n \in ToSet(Declares[TableOf(n)])
      BY <1>1, TableFacts
    <3> QED BY <1>1, <2>1, <3>1
  <2>5. Known' = Known /\ \A n \in Known : n \in Live
    BY <2>1, <2>4 DEF Known, Live
  <2>6. \A k \in 1..Len(stack') : stack'[k].op \in {"broadcast", "devices"} \/ IsRegs(stack'[k]) =>
          k \in 1..Len(stack) /\ stack'[k] = stack[k]
    BY <2>1, <2>2 DEF IsRegs
  <2>7. \A k \in 1..Len(stack) : stack[k].op \in {"broadcast", "devices", "load", "complete"} =>
          k \in 1..Len(stack') /\ stack'[k] = stack[k]
    BY <2>1, <2>3
  <2> HIDE DEF Known
  <2> QED BY <2>1, <2>4, <2>5, <2>6, <2>7 DEF Quietly, IsRegs
<1>3. ASSUME Running("load"), Top.pc # "regs", Grown(Top.table),
             UNCHANGED <<complete, handlers, unsure, told>>,
             Len(stack') \in Nat, Len(stack') >= Len(stack) - 1,
             \A i \in 1..(Len(stack) - 1) : stack'[i] = stack[i],
             \/ /\ tables' = tables /\ Len(stack') = Len(stack)
                /\ stack'[Len(stack)].op = "load" /\ stack'[Len(stack)].pc = "full"
                /\ stack'[Len(stack)].table = Top.table
             \/ /\ Len(stack') = Len(stack) - 1
                /\ \E x \in {"failed", "freed"} : tables' = [tables EXCEPT ![Top.table] = x]
      PROVE  Quietly
  <2>1. Len(stack) \in Nat \ {0} /\ Top = stack[Len(stack)] /\ Top.op = "load" /\ Top.table \in Tables
    BY <1>3, LoadFacts
  <2>2. \A k \in 1..Len(stack) : k \in 1..(Len(stack) - 1) \/ k = Len(stack)
    BY <2>1
  <2>3. \A k \in 1..(Len(stack) - 1) : k \in 1..Len(stack) /\ k \in 1..Len(stack') /\ stack'[k] = stack[k]
    BY <1>3, <2>1
  <2>4. \A k \in 1..Len(stack') : k \in 1..(Len(stack) - 1)
          \/ (k = Len(stack) /\ Len(stack') = Len(stack) /\ stack'[k].op = "load" /\ stack'[k].pc = "full")
    BY <1>3, <2>1
  <2>5. tables[Top.table] = "running"
    <3>1. Len(stack) \in 1..Len(stack)
      BY <2>1
    <3> QED BY <1>3, <2>1, <3>1 DEF DevicesInv, LoadsOK
  <2>6. /\ Live' \subseteq Nodes /\ Live \subseteq Live' /\ Live' \subseteq Live \cup ToSet(Declares[Top.table])
        /\ \A f, d : IsPending(created, f, d) => IsPending(created', f, d)
    <3>1. created \in Seq(Nodes) /\ created' \in Seq(Nodes)
      BY <1>1, <1>3 DEF Grown, Tree
    <3>2. Live' \subseteq Nodes
      BY <1>3, LiveAreNodes DEF Grown
    <3> QED BY <1>3, <3>1, <3>2, TreeGrows DEF Grown
  <2>7. ASSUME NEW n \in Known'
        PROVE  \/ n \in Known /\ (tables'[TableOf(n)] = "loaded" => tables[TableOf(n)] = "loaded")
               \/ /\ tables'[TableOf(n)] = "running" /\ \A s \in SpaceTypes : ~told'[n][s]
                  /\ Len(stack') = Len(stack) /\ stack'[Len(stack)].op = "load"
                  /\ stack'[Len(stack)].table = TableOf(n) /\ stack'[Len(stack)].pc = "full"
    <3>1. n \in Live' /\ tables'[TableOf(n)] \in {"running", "loaded"} /\ n \in Nodes
          /\ Kind[n] = "_REG" /\ Parent[n] \in Devices /\ TableOf(n) \in Tables
      BY <2>6, TableFacts DEF Known
    <3>2. tables'[TableOf(n)] = tables[TableOf(n)]
      BY <1>1, <1>3, <2>1, <3>1
    <3>3. CASE n \in Live
      BY <3>1, <3>2, <3>3 DEF Known
    <3>4. CASE n \notin Live
      <4>1. TableOf(n) = Top.table
        BY <2>1, <2>6, <3>1, <3>4, TableFacts
      <4>2. tables'[TableOf(n)] = "running"
        BY <2>5, <3>2, <4>1
      <4>3. Len(stack') = Len(stack) /\ stack'[Len(stack)].op = "load"
            /\ stack'[Len(stack)].table = TableOf(n) /\ stack'[Len(stack)].pc = "full"
        BY <1>1, <1>3, <2>1, <4>1, <4>2
      <4>4. \A s \in SpaceTypes : ~told'[n][s]
        BY <1>1, <1>3, <3>1, <3>4
      <4> QED BY <4>2, <4>3, <4>4
    <3> QED BY <3>3, <3>4
  <2>8. ASSUME Len(stack') = Len(stack) - 1, NEW n \in Known' PROVE TableOf(n) # Top.table
    <3>1. tables'[TableOf(n)] \in {"running", "loaded"}
      BY <2>8 DEF Known
    <3>2. tables'[Top.table] \notin {"running", "loaded"}
      BY <1>1, <1>3, <2>1, <2>8
    <3> QED BY <3>1, <3>2
  <2>9. Len(stack') = Len(stack) - 1 \/ (Len(stack') = Len(stack) /\ stack'[Len(stack)].op = "load"
          /\ stack'[Len(stack)].table = Top.table /\ Len(stack) \in 1..Len(stack'))
    BY <1>3, <2>1
  <2>10. \A k \in 1..Len(stack') : stack'[k].op \in {"broadcast", "devices"} \/ IsRegs(stack'[k]) =>
           k \in 1..Len(stack) /\ stack'[k] = stack[k]
    BY <2>3, <2>4 DEF IsRegs
  <2>11. \A k \in 1..Len(stack) : stack[k].op \in {"broadcast", "devices", "complete"} \/ IsRegs(stack[k]) =>
           k \in 1..Len(stack') /\ stack'[k] = stack[k]
    BY <1>3, <2>1, <2>2, <2>3 DEF IsRegs
  <2>12. \A j \in 1..Len(stack) : stack[j].op = "load" =>
           \/ j \in 1..Len(stack') /\ stack'[j].op = "load" /\ stack'[j].table = stack[j].table
           \/ \A n \in Known' : TableOf(n) # stack[j].table
    BY <2>1, <2>2, <2>3, <2>8, <2>9
  <2>13. ASSUME NEW n \in Known'
         PROVE  \/ n \in Known /\ (tables'[TableOf(n)] = "loaded" => tables[TableOf(n)] = "loaded")
                \/ /\ tables'[TableOf(n)] = "running" /\ \A s \in SpaceTypes : ~told'[n][s]
                   /\ Len(stack') = Len(stack) /\ Len(stack) > 0
                   /\ Top.op = "load" /\ stack'[Len(stack)].op = "load"
                   /\ ~IsRegs(stack'[Len(stack)]) /\ stack'[Len(stack)].table = TableOf(n)
    BY <2>1, <2>7 DEF IsRegs
  <2> HIDE DEF Known
  <2> QED BY <1>3, <2>6, <2>10, <2>11, <2>12, <2>13 DEF Quietly
<1>4. CASE NamesMade
  <2>1. Running("load") /\ Top.pc # "regs"
    BY <1>4 DEF NamesMade, At
  <2>2. PICK f \in Frame : Swapped(stack, stack', f) /\ LoadAt(f, "full")
    BY <1>4, LoadGoesOn
  <2>3. /\ Len(stack') = Len(stack) /\ Len(stack') \in Nat /\ Len(stack') >= Len(stack) - 1
        /\ \A i \in 1..(Len(stack) - 1) : stack'[i] = stack[i] /\ stack'[Len(stack)] = f
    BY <1>1, <2>2 DEF Swapped
  <2>4. stack'[Len(stack)] = f
    BY <2>2 DEF Swapped
  <2>5. UNCHANGED <<tables, complete, handlers, unsure, told>> /\ Grown(Top.table)
    BY <1>4 DEF NamesMade, history
  <2> QED BY <1>3, <2>1, <2>2, <2>3, <2>4, <2>5 DEF LoadAt
<1>5. CASE LoadFailed
  <2>1. Running("load") /\ Top.pc # "regs" /\ Popped(stack, stack') /\ Grown(Top.table)
        /\ UNCHANGED <<complete, handlers, unsure, told>>
        /\ \E x \in {"failed", "freed"} : tables' = [tables EXCEPT ![Top.table] = x]
    BY <1>5 DEF LoadFailed, history
  <2>2. Len(stack) \in Nat \ {0}
    BY <2>1, TopFacts
  <2>3. /\ Len(stack') = Len(stack) - 1 /\ Len(stack') \in Nat /\ Len(stack') >= Len(stack) - 1
        /\ \A i \in 1..(Len(stack) - 1) : stack'[i] = stack[i]
    BY <2>1, <2>2 DEF Popped
  <2> QED BY <1>3, <2>1, <2>3
<1> QED BY <1>2, <1>4, <1>5

\* Walks and methods go on quietly.
LEMMA QuietWalks ==
  ASSUME DevicesInv, WalkSteps \/ UNCHANGED vars
  PROVE  Quietly
<1> HIDE DEF Frame
<1>1. /\ Types /\ Len(stack) \in Nat /\ BroadcastsTell
      /\ \A n \in Known : n \in Nodes /\ n \in Live /\ Kind[n] = "_REG" /\ Parent[n] \in Devices \cap Live
  <2>1. Live \subseteq Nodes /\ \A n \in Live : Parent[n] \in Live \cup {TreeRoot}
    BY LiveFacts DEF DevicesInv, Made, Tree
  <2> QED BY <2>1, StackFacts, ParentFacts DEF Known, DevicesInv, Regions
<1>2. CASE UNCHANGED vars
  <2>1. UNCHANGED <<handlers, unsure, complete, created, stack, tables, told>> /\ Known' = Known
    BY <1>2 DEF vars, Known, Live
  <2> HIDE DEF Known
  <2> QED BY <2>1 DEF Quietly
<1>3. CASE WalkSteps
  <2>1. /\ Len(stack) \in Nat \ {0} /\ Top.op \in Inner /\ Top = stack[Len(stack)]
        /\ UNCHANGED <<handlers, unsure, complete, created, tables>> /\ Known' = Known
        /\ \A i \in 1..(Len(stack) - 1) : stack'[i] = stack[i]
        /\ Len(stack') \in Nat /\ Len(stack') >= Len(stack) - 1
        /\ \A i \in 1..Len(stack') : i >= Len(stack) =>
             /\ stack'[i].op \in Inner /\ (stack'[i].op \in {"broadcast", "devices"} => stack'[i].op = Top.op)
             /\ i > Len(stack) => stack'[i].op \in {"method", "host"}
    BY <1>3, InsideSteps DEF Inside, InsideStack, Known, Live, Top
  <2>2. \A k \in 1..Len(stack) : k \in 1..(Len(stack) - 1) \/ k = Len(stack)
    BY <2>1
  <2>3. \A k \in 1..(Len(stack) - 1) : k \in 1..Len(stack) /\ k \in 1..Len(stack') /\ stack'[k] = stack[k]
    BY <2>1
  <2>4. \A k \in 1..Len(stack') : k \in 1..(Len(stack) - 1) \/ k >= Len(stack)
    BY <2>1
  <2>5. \A k \in 1..Len(stack') : stack'[k].op = "devices" => k \in 1..Len(stack) /\ stack[k].op = "devices"
    <3>1. \A k \in 1..Len(stack') : k >= Len(stack) /\ ~(k > Len(stack)) => k = Len(stack)
      BY <2>1
    <3> QED BY <2>1, <2>3, <2>4, <3>1, SMTT(60)
  <2>6. \A k \in 1..Len(stack') : IsRegs(stack'[k]) \/ stack'[k].op \in {"load", "complete"} =>
          k \in 1..Len(stack) /\ stack'[k] = stack[k]
    BY <2>1, <2>3, <2>4 DEF IsRegs, Inner
  <2>7. \A k \in 1..Len(stack) : IsRegs(stack[k]) \/ stack[k].op \in {"load", "complete"} =>
          k \in 1..Len(stack') /\ stack'[k] = stack[k]
    BY <2>1, <2>2, <2>3 DEF IsRegs, Inner
  <2> DEFINE BroadcastsGoOn ==
         /\ \A k \in 1..Len(stack') : stack'[k].op = "broadcast" =>
              /\ k \in 1..Len(stack) /\ stack[k].op = "broadcast"
              /\ stack[k].space = stack'[k].space /\ stack[k].enable = stack'[k].enable
         /\ \A k \in 1..Len(stack) : stack[k].op = "broadcast" =>
              \/ k \in 1..Len(stack') /\ stack'[k].op = "broadcast" /\ stack'[k].space = stack[k].space
              \/ k = Len(stack) /\ \A d \in Devices \cap Live : ~IsPending(created, stack[k], d)
         /\ \A k \in 1..Len(stack), n \in Known :
              stack[k].op = "broadcast" /\ IsPending(created, stack[k], Parent[n]) =>
                \/ stack[k].space \in Sure /\ told'[n][stack[k].space] = handlers[stack[k].space].enable
                \/ stack[k].space \notin Sure
                \/ /\ k \in 1..Len(stack') /\ stack'[k].op = "broadcast" /\ stack'[k].space = stack[k].space
                   /\ IsPending(created, stack'[k], Parent[n])
         /\ \A n \in Known, s \in Sure : told'[n][s] = told[n][s] \/ told'[n][s] = handlers[s].enable
  <2>8. BroadcastsGoOn
    <3>1. CASE Top.op # "broadcast"
      <4>1. told' = told
        BY <1>3, <3>1 DEF WalkSteps, WalkEnds, WalkMoves, RegTold, RootCalled, WalkBegins, AskedBefore, DeviceAsked,
                          MethodOver, HostCalled, HostReturned, history
      <4>2. \A k \in 1..Len(stack') : stack'[k].op = "broadcast" => k \in 1..(Len(stack) - 1)
        BY <2>1, <2>4, <3>1
      <4>3. \A k \in 1..Len(stack) : stack[k].op = "broadcast" => k \in 1..(Len(stack) - 1)
        BY <2>1, <2>2, <3>1
      <4> HIDE DEF Known
      <4> QED BY <2>3, <4>1, <4>2, <4>3
    <3>2. CASE Top.op = "broadcast" /\ WalkEnds
      <4>1. told' = told /\ Popped(stack, stack') /\ \A d \in Devices \cap Live : ~IsPending(created, Top, d)
        BY <3>2 DEF WalkEnds, history
      <4>2. \A k \in 1..Len(stack') : k \in 1..(Len(stack) - 1)
        BY <2>1, <4>1 DEF Popped
      <4> HIDE DEF Known
      <4> QED BY <1>1, <2>1, <2>2, <2>3, <4>1, <4>2
    <3>3. ASSUME NEW f \in Frame, Top.op = "broadcast", WalkMoves(f) \/ RegTold(f),
                 Continues(Top, f), Len(stack) \in 1..Len(stack'), stack'[Len(stack)] = f,
                 \A n \in Known : IsPending(created, Top, Parent[n]) =>
                   \/ IsPending(created, f, Parent[n])
                   \/ Top.space \in Sure => told'[n][Top.space] = handlers[Top.space].enable,
                 \A n \in Known, s \in Sure : told'[n][s] = told[n][s] \/ told'[n][s] = handlers[s].enable
          PROVE  BroadcastsGoOn
      <4>1. f.op = "broadcast" /\ f.space = Top.space /\ f.enable = Top.enable
        BY <3>3 DEF Continues
      <4>2. \A k \in 1..Len(stack') : stack'[k].op = "broadcast" => k \in 1..(Len(stack) - 1) \/ k = Len(stack)
        <5>1. \A k \in 1..Len(stack') : k >= Len(stack) /\ ~(k > Len(stack)) => k = Len(stack)
          BY <2>1
        <5> QED BY <2>1, <2>4, <5>1
      <4>3. Len(stack) \in 1..Len(stack)
        BY <2>1
      <4> HIDE DEF Known, Sure
      <4>4. \A k \in 1..Len(stack') : stack'[k].op = "broadcast" =>
             /\ k \in 1..Len(stack) /\ stack[k].op = "broadcast"
             /\ stack[k].space = stack'[k].space /\ stack[k].enable = stack'[k].enable
        BY <2>1, <2>3, <3>3, <4>1, <4>2, <4>3
      <4>5. \A k \in 1..Len(stack) : stack[k].op = "broadcast" =>
              k \in 1..Len(stack') /\ stack'[k].op = "broadcast" /\ stack'[k].space = stack[k].space
        BY <2>1, <2>2, <2>3, <3>3, <4>1
      <4>6. ASSUME NEW k \in 1..Len(stack), NEW n \in Known,
                   stack[k].op = "broadcast", IsPending(created, stack[k], Parent[n])
            PROVE  \/ stack[k].space \in Sure /\ told'[n][stack[k].space] = handlers[stack[k].space].enable
                   \/ stack[k].space \notin Sure
                   \/ /\ k \in 1..Len(stack') /\ stack'[k].op = "broadcast" /\ stack'[k].space = stack[k].space
                      /\ IsPending(created, stack'[k], Parent[n])
        <5>1. CASE k \in 1..(Len(stack) - 1)
          BY <2>3, <4>6, <5>1
        <5>2. CASE k = Len(stack)
          BY <2>1, <3>3, <4>1, <4>6, <5>2
        <5> QED BY <2>2, <5>1, <5>2
      <4> QED BY <3>3, <4>4, <4>5, <4>6
    <3>4. ASSUME NEW f \in Frame, Top.op = "broadcast", WalkMoves(f) PROVE BroadcastsGoOn
      <4>1. /\ Continues(Top, f) /\ Swapped(stack, stack', f) /\ told' = told
            /\ \A d \in Devices \cap Live : IsPending(created, Top, d) => IsPending(created, f, d)
        BY <3>4 DEF WalkMoves, history
      <4>2. Len(stack) \in 1..Len(stack') /\ stack'[Len(stack)] = f
        BY <2>1, <4>1 DEF Swapped
      <4> HIDE DEF Known, BroadcastsGoOn
      <4> QED BY <1>1, <3>3, <3>4, <4>1, <4>2
    <3>5. ASSUME NEW f \in Frame, Top.op = "broadcast", RegTold(f) PROVE BroadcastsGoOn
      <4>1. /\ Continues(Top, f)
            /\ Swapped(stack, stack', f) \/ \E g \in Frame : SwappedAndPushed(stack, stack', f, g)
        BY <3>5 DEF RegTold
      <4>2. Len(stack) \in 1..Len(stack') /\ stack'[Len(stack)] = f
        BY <2>1, <4>1 DEF Swapped, SwappedAndPushed
      <4>3. Top.space \in Sure => Top.enable = handlers[Top.space].enable
        <5>1. Len(stack) \in 1..Len(stack)
          BY <2>1
        <5> QED BY <1>1, <2>1, <3>5, <5>1 DEF BroadcastsTell
      <4>4. /\ \A n \in Nodes, s \in SpaceTypes : told'[n][s] = told[n][s] \/ (s = Top.space /\ told'[n][s] = Top.enable)
            /\ \A n \in Live : Kind[n] = "_REG" /\ Parent[n] \in Devices =>
                 \/ told'[n][Top.space] = Top.enable
                 \/ IsPending(created, Top, Parent[n]) => IsPending(created, f, Parent[n])
        BY <3>5 DEF RegTold
      <4>5. \A n \in Known, s \in Sure : told'[n][s] = told[n][s] \/ told'[n][s] = handlers[s].enable
        BY <1>1, <4>3, <4>4 DEF Sure
      <4>6. \A n \in Known : IsPending(created, Top, Parent[n]) =>
              \/ IsPending(created, f, Parent[n])
              \/ Top.space \in Sure => told'[n][Top.space] = handlers[Top.space].enable
        BY <1>1, <4>3, <4>4
      <4> HIDE DEF Known, BroadcastsGoOn
      <4> QED BY <3>3, <3>5, <4>1, <4>2, <4>5, <4>6
    <3>6. Top.op = "broadcast" => WalkEnds \/ \E f \in Frame : WalkMoves(f) \/ RegTold(f)
      BY <1>3 DEF WalkSteps, RootCalled, WalkBegins, AskedBefore, DeviceAsked, MethodOver, HostCalled, HostReturned,
                  At, Running
    <3> HIDE DEF BroadcastsGoOn
    <3> QED BY <3>1, <3>2, <3>4, <3>5, <3>6
  <2>9. ASSUME NEW n \in Known'
        PROVE  n \in Known /\ (tables'[TableOf(n)] = "loaded" => tables[TableOf(n)] = "loaded")
    <3> HIDE DEF Known
    <3> QED BY <2>1
  <2>10. Known \cap Known' = Known
    <3> HIDE DEF Known
    <3> QED BY <2>1
  <2> HIDE DEF Known
  <2>11. /\ \A k \in 1..Len(stack), n \in Known \cap Known' :
              stack[k].op = "broadcast" /\ IsPending(created, stack[k], Parent[n]) =>
                \/ stack[k].space \in Sure /\ told'[n][stack[k].space] = handlers[stack[k].space].enable
                \/ stack[k].space \notin Sure
                \/ /\ k \in 1..Len(stack') /\ stack'[k].op = "broadcast" /\ stack'[k].space = stack[k].space
                   /\ IsPending(created', stack'[k], Parent[n])
         /\ \A n \in Known \cap Known', s \in Sure : told'[n][s] = told[n][s] \/ told'[n][s] = handlers[s].enable
    <3> DEFINE Goes(k, n) ==
                 \/ stack[k].space \in Sure /\ told'[n][stack[k].space] = handlers[stack[k].space].enable
                 \/ stack[k].space \notin Sure
                 \/ /\ k \in 1..Len(stack') /\ stack'[k].op = "broadcast" /\ stack'[k].space = stack[k].space
                    /\ IsPending(created, stack'[k], Parent[n])
    <3>1. /\ \A k \in 1..Len(stack), n \in Known :
               stack[k].op = "broadcast" /\ IsPending(created, stack[k], Parent[n]) => Goes(k, n)
          /\ \A n \in Known, s \in Sure : told'[n][s] = told[n][s] \/ told'[n][s] = handlers[s].enable
      BY <2>8 DEF BroadcastsGoOn
    <3>2. created' = created
      BY <2>1
    <3> QED BY <2>10, <3>1, <3>2
  <2>12. /\ \A k \in 1..Len(stack') : stack'[k].op = "broadcast" =>
              /\ k \in 1..Len(stack) /\ stack[k].op = "broadcast"
              /\ stack[k].space = stack'[k].space /\ stack[k].enable = stack'[k].enable
         /\ \A k \in 1..Len(stack) : stack[k].op = "broadcast" =>
              \/ k \in 1..Len(stack') /\ stack'[k].op = "broadcast" /\ stack'[k].space = stack[k].space
              \/ k = Len(stack) /\ \A d \in Devices \cap Live : ~IsPending(created, stack[k], d)
    BY <2>8 DEF BroadcastsGoOn
  <2> HIDE DEF BroadcastsGoOn
  <2> QED BY <2>1, <2>5, <2>6, <2>7, <2>9, <2>11, <2>12 DEF Quietly, IsRegs
<1> QED BY <1>2, <1>3

\* A loop over the handlers, and the loads and walks around it: calls come and go, but
\* what was told stays.
LoopGoesOn ==
  /\ UNCHANGED <<created, told, unsure>> /\ Known' = Known
  /\ \A s \in SpaceTypes : handlers'[s].enable = handlers[s].enable
  /\ \A k \in 1..Len(stack) : stack[k].op = "broadcast" => k \in 1..Len(stack') /\ stack'[k] = stack[k]
  /\ \A k \in 1..Len(stack') : stack'[k].op = "broadcast" =>
       \/ k \in 1..Len(stack) /\ stack'[k] = stack[k]
       \/ /\ stack'[k].enable = handlers[stack'[k].space].enable
          /\ \A d \in Devices \cap Live : IsPending(created, stack'[k], d)
  /\ \A n \in Known, i \in Nat :
       LoadedAbove(stack, n, i) => \/ LoadedAbove(stack', n, i)
                                   \/ \A s \in Sure : handlers[s].enable => told[n][s]

\* Such a step preserves it too, when what the loop has passed will be told.
LEMMA LoopRegions ==
  ASSUME DevicesInv, LoopGoesOn, Types'
  PROVE  /\ BroadcastsTell' /\ DisabledTold'
         /\ (\A j \in 1..Len(stack') : IsRegs(stack'[j]) =>
              \A m \in 1..(stack'[j].i - 1) : Spaces[m] \in Sure /\ handlers[Spaces[m]].enable =>
                \/ j \in 1..Len(stack) /\ IsRegs(stack[j]) /\ m \in 1..(stack[j].i - 1)
                \/ \A n \in Known : WillBeTold(stack', created, n, Spaces[m], j)) => LoadsTell'
         /\ (\A i \in 1..Len(stack') : stack'[i].op = "devices" =>
              \/ i \in 1..Len(stack) /\ stack[i].op = "devices"
              \/ \A n \in Known, s \in Sure : handlers[s].enable => told[n][s]) => DevicesTold'
<1> HIDE DEF Frame
<1> DEFINE on(s) == handlers[s].enable
<1>1. /\ Types /\ Len(stack) \in Nat /\ DOMAIN stack = 1..Len(stack)
      /\ BroadcastsTell /\ DisabledTold /\ LoadsTell /\ DevicesTold
      /\ \A n \in Known : n \in Nodes /\ Parent[n] \in Devices \cap Live
  <2>1. Live \subseteq Nodes /\ \A n \in Live : Parent[n] \in Live \cup {TreeRoot}
    BY LiveFacts DEF DevicesInv, Made, Tree
  <2> QED BY <2>1, StackFacts, ParentFacts DEF Known, DevicesInv, Regions
<1>2. DOMAIN stack' = 1..Len(stack')
  <2>1. stack' \in Seq(Frame)
    BY DEF Types
  <2> QED BY <2>1, LenProperties
<1>3. UNCHANGED <<created, told, unsure>> /\ Known' = Known /\ Sure' = Sure
  BY DEF LoopGoesOn, Sure
<1>4. ASSUME NEW n \in Known, NEW s \in Sure
      PROVE  s \in SpaceTypes /\ told[n][s] \in BOOLEAN /\ on(s) \in BOOLEAN /\ handlers'[s].enable = on(s)
  <2>1. s \in SpaceTypes
    BY DEF Sure
  <2> QED BY <1>1, <2>1 DEF Types, TypeOK, LoopGoesOn
<1>5. \A n, z, i : WillBeTold(stack, created, n, z, i) => WillBeTold(stack', created, n, z, i)
  <2>1. \A k \in 1..Len(stack) : stack[k].op = "broadcast" => k \in 1..Len(stack') /\ stack'[k] = stack[k]
    BY DEF LoopGoesOn
  <2> QED BY <2>1, CallsStay
<1>6. \A n \in Known, i \in Nat : LoadedAbove(stack, n, i) =>
        LoadedAbove(stack', n, i) \/ \A s \in Sure : on(s) => told[n][s]
  BY DEF LoopGoesOn
<1>7. \A s : Broadcasting(s) => \E k \in 1..Len(stack') : stack'[k].op = "broadcast" /\ stack'[k].space = s
  BY <1>1 DEF Broadcasting, LoopGoesOn
<1>8. BroadcastsTell'
  <2> SUFFICES ASSUME NEW k \in 1..Len(stack'), stack'[k].op = "broadcast", stack'[k].space \in Sure
               PROVE  /\ stack'[k].enable = handlers'[stack'[k].space].enable
                      /\ \A n \in Known : \/ told[n][stack'[k].space] = handlers'[stack'[k].space].enable
                                          \/ IsPending(created, stack'[k], Parent[n])
                                          \/ LoadedAbove(stack', n, k) /\ ~told[n][stack'[k].space]
    BY <1>3 DEF BroadcastsTell
  <2> DEFINE s == stack'[k].space
  <2>1. s \in Sure /\ k \in Nat /\ s \in SpaceTypes /\ handlers'[s].enable = on(s)
    BY <1>1 DEF Sure, LoopGoesOn
  <2>2. CASE k \in 1..Len(stack) /\ stack'[k] = stack[k]
    <3>1. stack[k].op = "broadcast" /\ stack[k].space = s
      BY <2>2
    <3>2. /\ stack[k].enable = on(s)
          /\ \A n \in Known : \/ told[n][s] = on(s) \/ IsPending(created, stack[k], Parent[n])
                              \/ LoadedAbove(stack, n, k) /\ ~told[n][s]
      BY <1>1, <2>1, <2>2, <3>1 DEF BroadcastsTell
    <3>3. ASSUME NEW n \in Known
          PROVE  \/ told[n][s] = on(s) \/ IsPending(created, stack'[k], Parent[n])
                 \/ LoadedAbove(stack', n, k) /\ ~told[n][s]
      <4>1. told[n][s] \in BOOLEAN /\ on(s) \in BOOLEAN
        BY <1>4, <2>1
      <4> HIDE DEF Known, Sure, s, on
      <4>2. \/ told[n][s] = on(s) \/ IsPending(created, stack'[k], Parent[n])
            \/ LoadedAbove(stack, n, k) /\ ~told[n][s]
        BY <2>2, <3>2
      <4>3. LoadedAbove(stack, n, k) => LoadedAbove(stack', n, k) \/ (on(s) => told[n][s])
        BY <1>6, <2>1
      <4> QED BY <4>1, <4>2, <4>3
    <3> HIDE DEF Known
    <3> QED BY <2>1, <2>2, <3>2, <3>3
  <2>3. CASE /\ stack'[k].enable = handlers[stack'[k].space].enable
             /\ \A d \in Devices \cap Live : IsPending(created, stack'[k], d)
    BY <1>1, <2>1, <2>3
  <2> QED BY <2>2, <2>3 DEF LoopGoesOn
<1>9. DisabledTold'
  <2> SUFFICES ASSUME NEW n \in Known, NEW s \in Sure, ~handlers'[s].enable, told[n][s]
               PROVE  WillBeTold(stack', created, n, s, 0)
    BY <1>3 DEF DisabledTold
  <2>1. ~on(s)
    BY <1>4
  <2> HIDE DEF Known, Sure
  <2>2. WillBeTold(stack, created, n, s, 0)
    BY <1>1, <2>1 DEF DisabledTold
  <2> QED BY <1>5, <2>2
<1>10. ASSUME \A j \in 1..Len(stack') : IsRegs(stack'[j]) =>
                \A m \in 1..(stack'[j].i - 1) : Spaces[m] \in Sure /\ on(Spaces[m]) =>
                  \/ j \in 1..Len(stack) /\ IsRegs(stack[j]) /\ m \in 1..(stack[j].i - 1)
                  \/ \A n \in Known : WillBeTold(stack', created, n, Spaces[m], j)
       PROVE  LoadsTell'
  <2> SUFFICES ASSUME NEW j \in 1..Len(stack'), IsRegs(stack'[j]), NEW m \in 1..(stack'[j].i - 1),
                      Spaces[m] \in Sure, handlers'[Spaces[m]].enable, NEW n \in Known
               PROVE  told[n][Spaces[m]] \/ WillBeTold(stack', created, n, Spaces[m], j) \/ LoadedAbove(stack', n, j)
    BY <1>3 DEF LoadsTell, IsRegs
  <2> DEFINE s == Spaces[m]
  <2>1. s \in Sure /\ on(s) /\ j \in Nat
    BY <1>4
  <2>2. CASE j \in 1..Len(stack) /\ IsRegs(stack[j]) /\ m \in 1..(stack[j].i - 1)
    <3>1. told[n][s] \/ WillBeTold(stack, created, n, s, j) \/ LoadedAbove(stack, n, j)
      BY <1>1, <2>1, <2>2 DEF LoadsTell, IsRegs
    <3>2. told[n][s] \/ WillBeTold(stack', created, n, s, j) \/ LoadedAbove(stack', n, j)
      <4> HIDE DEF Known, Sure, s, on
      <4> QED BY <1>5, <1>6, <2>1, <3>1
    <3> QED BY <3>2
  <2>3. CASE \A z \in Known : WillBeTold(stack', created, z, s, j)
    BY <2>3
  <2> HIDE DEF Known
  <2> QED BY <1>10, <2>1, <2>2, <2>3
<1>11. ASSUME \A i \in 1..Len(stack') : stack'[i].op = "devices" =>
                \/ i \in 1..Len(stack) /\ stack[i].op = "devices"
                \/ \A n \in Known, s \in Sure : on(s) => told[n][s]
       PROVE  DevicesTold'
  <2> SUFFICES ASSUME NEW i \in 1..Len(stack'), stack'[i].op = "devices", NEW n \in Known, NEW s \in Sure
               PROVE  \/ told[n][s] = handlers'[s].enable
                      \/ \E k \in 1..Len(stack') : stack'[k].op = "broadcast" /\ stack'[k].space = s
                      \/ LoadedAbove(stack', n, i)
    BY <1>2, <1>3 DEF DevicesTold, Broadcasting
  <2> DEFINE Cast2 == \E k \in 1..Len(stack') : stack'[k].op = "broadcast" /\ stack'[k].space = s
  <2>1. told[n][s] \in BOOLEAN /\ on(s) \in BOOLEAN /\ handlers'[s].enable = on(s) /\ i \in Nat
    BY <1>4
  <2>2. ASSUME on(s) => told[n][s] PROVE told[n][s] = on(s) \/ Cast2
    <3>1. CASE ~on(s) /\ told[n][s]
      <4>1. WillBeTold(stack, created, n, s, 0)
        BY <1>1, <3>1 DEF DisabledTold
      <4>2. WillBeTold(stack', created, n, s, 0)
        BY <1>5, <4>1
      <4> QED BY <4>2 DEF WillBeTold
    <3> QED BY <2>1, <2>2, <3>1
  <2>3. CASE i \in 1..Len(stack) /\ stack[i].op = "devices"
    <3>1. told[n][s] = on(s) \/ Broadcasting(s) \/ LoadedAbove(stack, n, i)
      BY <1>1, <2>3 DEF DevicesTold
    <3>2. Broadcasting(s) => Cast2
      BY <1>7
    <3>3. LoadedAbove(stack, n, i) => LoadedAbove(stack', n, i) \/ (on(s) => told[n][s])
      BY <1>6, <2>1
    <3> HIDE DEF Cast2, on
    <3>4. told[n][s] = on(s) \/ Cast2 \/ LoadedAbove(stack', n, i)
      BY <2>2, <3>1, <3>2, <3>3
    <3> QED BY <2>1, <3>4 DEF Cast2
  <2>4. CASE on(s) => told[n][s]
    BY <2>1, <2>2, <2>4
  <2> HIDE DEF Known, Sure
  <2> QED BY <1>11, <2>3, <2>4
<1> QED BY <1>8, <1>9, <1>10, <1>11

\* What is said of the loops that will tell of a handler.
Looping(st, hs, m) ==
  \/ \E j \in 1..Len(st) : IsRegs(st[j]) /\ st[j].i <= m
  \/ \E j \in 1..Len(st) : st[j].op = "complete" /\ st[j].i <= m /\ hs[Spaces[m]].pending

\* The loop after a load.
LEMMA RegionsOfLoads ==
  ASSUME DevicesInv, Types',
         (TableLoaded /\ complete) \/ RegsDone \/ \E m \in 1..Len(Spaces), f \in Frame : RegsStep(m, f)
  PROVE  Regions'
<1> HIDE DEF Frame
<1>1. /\ Running("load") /\ Len(stack) \in Nat \ {0} /\ Top = stack[Len(stack)] /\ Top.op = "load"
      /\ Top.table \in Tables /\ Top \in LoadFrame /\ Top.i \in Nat \ {0} /\ Top.pc \in {"full", "regs"}
      /\ UNCHANGED <<created, told, unsure, handlers, complete>> /\ complete
      /\ tables \in [Tables -> {"new", "running", "loaded", "failed", "freed"}]
  <2>1. Running("load") /\ Top.pc \in {"full", "regs"} /\ UNCHANGED <<created, told, unsure, handlers, complete>>
        /\ (Top.pc = "full" => complete)
    BY DEF TableLoaded, RegsDone, RegsStep, At, history
  <2>2. Top \in LoadFrame /\ Top.op = "load" /\ Top.table \in Tables /\ Len(stack) \in Nat \ {0} /\ Top = stack[Len(stack)]
    BY <2>1, LoadFacts
  <2>3. Top.i \in Nat \ {0}
    BY <2>2 DEF LoadFrame
  <2>4. complete
    BY <2>1, TopFacts
  <2> QED BY <2>1, <2>2, <2>3, <2>4 DEF DevicesInv, Types, TypeOK
<1>2. Len(stack) \in 1..Len(stack) /\ \A k \in 1..Len(stack) : k \in 1..(Len(stack) - 1) \/ k = Len(stack)
  BY <1>1
<1>3. /\ EnabledTold /\ LoadsTell /\ \A n \in Known : n \in Nodes /\ TableOf(n) \in Tables
  <2>1. Live \subseteq Nodes
    BY LiveFacts DEF DevicesInv, Made
  <2> QED BY <2>1, TableFacts DEF Known, DevicesInv, Regions
\* the stack: what is below the top stays, and at the top is the load, or the walk after it
<1>4. ASSUME NEW f \in Frame,
             Swapped(stack, stack', f) \/ (/\ stack' \in Seq(Frame) /\ Len(stack') \in {Len(stack), Len(stack) + 1}
                                           /\ \A i \in 1..(Len(stack) - 1) : stack'[i] = stack[i]
                                           /\ stack'[Len(stack)] = f)
      PROVE  /\ Len(stack') \in {Len(stack), Len(stack) + 1} /\ stack'[Len(stack)] = f
             /\ \A k \in 1..(Len(stack) - 1) : k \in 1..Len(stack) /\ k \in 1..Len(stack') /\ stack'[k] = stack[k]
             /\ Len(stack) \in 1..Len(stack')
             /\ \A k \in 1..Len(stack') : k \in 1..(Len(stack) - 1) \/ k = Len(stack) \/ k = Len(stack) + 1
  BY <1>1, <1>4 DEF Swapped
\* a loop that goes on
<1>5. ASSUME NEW f \in Frame, f.op = "load", f.pc = "regs", f.table = Top.table,
             Len(stack') \in {Len(stack), Len(stack) + 1}, stack'[Len(stack)] = f,
             \A k \in 1..(Len(stack) - 1) : k \in 1..Len(stack) /\ k \in 1..Len(stack') /\ stack'[k] = stack[k],
             Len(stack) \in 1..Len(stack'), Known' = Known,
             \A k \in 1..Len(stack') : k \in 1..(Len(stack) - 1) \/ k = Len(stack) \/ k = Len(stack) + 1,
             Len(stack') = Len(stack) + 1 =>
               \E s : NewBroadcast(stack'[Len(stack) + 1], s, handlers[s].enable)
      PROVE  /\ LoopGoesOn
             /\ \A i \in 1..Len(stack') : stack'[i].op = "devices" => i \in 1..Len(stack) /\ stack[i].op = "devices"
             /\ \A i \in 1..Len(stack') : IsRegs(stack'[i]) =>
                  i = Len(stack) \/ (i \in 1..Len(stack) /\ stack'[i] = stack[i])
  <2>1. \A k \in 1..Len(stack') : k \in 1..(Len(stack) - 1) \/ k = Len(stack) \/
          (k = Len(stack) + 1 /\ stack'[k].op = "broadcast" /\ stack'[k].enable = handlers[stack'[k].space].enable
            /\ \A d \in Devices \cap Live : IsPending(created, stack'[k], d))
    <3>1. \A k \in 1..Len(stack') : k = Len(stack) + 1 => Len(stack') = Len(stack) + 1
      BY <1>1, <1>5
    <3> QED BY <1>5, <3>1 DEF NewBroadcast
  <2>2. \A k \in 1..Len(stack) : stack[k].op = "broadcast" => k \in 1..Len(stack') /\ stack'[k] = stack[k]
    BY <1>1, <1>2, <1>5
  <2>3. \A k \in 1..Len(stack) : stack[k].op = "load" =>
          k \in 1..Len(stack') /\ stack'[k].op = "load" /\ stack'[k].table = stack[k].table
    BY <1>1, <1>2, <1>5
  <2>4. \A n, i : LoadedAbove(stack, n, i) => LoadedAbove(stack', n, i)
    BY <2>3, CallsStay
  <2>5. \A k \in 1..Len(stack') : stack'[k].op = "broadcast" =>
          \/ k \in 1..Len(stack) /\ stack'[k] = stack[k]
          \/ /\ stack'[k].enable = handlers[stack'[k].space].enable
             /\ \A d \in Devices \cap Live : IsPending(created, stack'[k], d)
    BY <1>5, <2>1
  <2>6. LoopGoesOn
    <3> HIDE DEF Known
    <3> QED BY <1>1, <1>5, <2>2, <2>4, <2>5 DEF LoopGoesOn
  <2>7. \A i \in 1..Len(stack') : stack'[i].op = "devices" => i \in 1..Len(stack) /\ stack[i].op = "devices"
    BY <1>5, <2>1
  <2>8. \A i \in 1..Len(stack') : IsRegs(stack'[i]) =>
          i = Len(stack) \/ (i \in 1..Len(stack) /\ stack'[i] = stack[i])
    BY <1>5, <2>1 DEF IsRegs
  <2> QED BY <2>6, <2>7, <2>8
<1>6. ASSUME Known' = Known, LoopGoesOn,
             \A n \in Known, m \in 1..Len(Spaces) :
               tables'[TableOf(n)] = "loaded" /\ Spaces[m] \in Sure /\ handlers[Spaces[m]].enable =>
                 \/ tables[TableOf(n)] = "loaded" /\ (Looping(stack, handlers, m) =>
                      Looping(stack', handlers, m) \/ WillBeTold(stack', created, n, Spaces[m], 0))
                 \/ Looping(stack', handlers, m)
      PROVE  EnabledTold'
  <2> SUFFICES ASSUME NEW n \in Known, NEW m \in 1..Len(Spaces), tables'[TableOf(n)] = "loaded",
                      Spaces[m] \in Sure, handlers[Spaces[m]].enable
               PROVE  told[n][Spaces[m]] \/ WillBeTold(stack', created, n, Spaces[m], 0) \/ Looping(stack', handlers, m)
    BY <1>1, <1>6 DEF EnabledTold, Sure, Looping, IsRegs
  <2>1. \A z : WillBeTold(stack, created, n, z, 0) => WillBeTold(stack', created, n, z, 0)
    <3>1. \A k \in 1..Len(stack) : stack[k].op = "broadcast" => k \in 1..Len(stack') /\ stack'[k] = stack[k]
      BY <1>6 DEF LoopGoesOn
    <3> QED BY <3>1, CallsStay
  <2>2. tables[TableOf(n)] = "loaded" =>
          told[n][Spaces[m]] \/ WillBeTold(stack, created, n, Spaces[m], 0) \/ Looping(stack, handlers, m)
    BY <1>1, <1>3 DEF EnabledTold, Looping, IsRegs
  <2> HIDE DEF Known, Sure
  <2> QED BY <1>6, <2>1, <2>2
<1>7. CASE TableLoaded
  <2>1. PICK f \in Frame : Swapped(stack, stack', f) /\ LoadAt(f, "regs")
    BY <1>1, <1>7, LoadGoesOn
  <2>2. f.op = "load" /\ f.pc = "regs" /\ f.table = Top.table /\ f.i = Top.i /\ Len(stack') = Len(stack)
    BY <2>1 DEF LoadAt, Swapped
  <2>3. Top.i = 1 /\ tables[Top.table] = "running" /\ Top.pc = "full" /\ tables' = [tables EXCEPT ![Top.table] = "loaded"]
    <3>1. Top.pc = "full" /\ tables' = [tables EXCEPT ![Top.table] = "loaded"]
      BY <1>7 DEF TableLoaded, At
    <3> QED BY <1>1, <1>2, <3>1 DEF DevicesInv, LoadsOK
  <2>4. Known' = Known
    <3>1. \A n \in Live : tables'[TableOf(n)] \in {"running", "loaded"} <=> tables[TableOf(n)] \in {"running", "loaded"}
      <4>1. \A n \in Live : TableOf(n) \in Tables
        BY LiveFacts, TableFacts DEF DevicesInv, Made
      <4> QED BY <1>1, <2>3, <4>1
    <3> QED BY <1>1, <3>1 DEF Known, Live
  <2>5. /\ stack'[Len(stack)] = f /\ Len(stack) \in 1..Len(stack')
        /\ \A k \in 1..(Len(stack) - 1) : k \in 1..Len(stack) /\ k \in 1..Len(stack') /\ stack'[k] = stack[k]
        /\ \A k \in 1..Len(stack') : k \in 1..(Len(stack) - 1) \/ k = Len(stack) \/ k = Len(stack) + 1
    BY <1>4, <2>1
  <2>6. Len(stack') # Len(stack) + 1
    BY <1>1, <2>2
  <2>7. /\ LoopGoesOn
        /\ \A i \in 1..Len(stack') : stack'[i].op = "devices" => i \in 1..Len(stack) /\ stack[i].op = "devices"
        /\ \A i \in 1..Len(stack') : IsRegs(stack'[i]) => i = Len(stack) \/ (i \in 1..Len(stack) /\ stack'[i] = stack[i])
    BY <1>5, <2>2, <2>4, <2>5, <2>6
  <2>8. BroadcastsTell' /\ DisabledTold' /\ DevicesTold'
    BY <2>7, LoopRegions
  <2>9. LoadsTell'
    <3>1. ASSUME NEW j \in 1..Len(stack'), IsRegs(stack'[j]), NEW m \in 1..(stack'[j].i - 1)
          PROVE  j \in 1..Len(stack) /\ IsRegs(stack[j]) /\ m \in 1..(stack[j].i - 1)
      <4>1. j # Len(stack)
        BY <2>2, <2>3, <2>5, <3>1
      <4> QED BY <2>7, <3>1, <4>1
    <3> QED BY <2>7, <3>1, LoopRegions
  <2>10. EnabledTold'
    <3>1. \A m \in 1..Len(Spaces) : Looping(stack', handlers, m)
      <4>1. IsRegs(stack'[Len(stack)]) /\ stack'[Len(stack)].i = 1
        BY <2>2, <2>3, <2>5 DEF IsRegs
      <4> QED BY <2>5, <4>1 DEF Looping
    <3> QED BY <1>6, <2>4, <2>7, <3>1
  <2> QED BY <2>8, <2>9, <2>10 DEF Regions
<1>8. ASSUME NEW m \in 1..Len(Spaces), NEW f \in Frame, RegsStep(m, f) PROVE Regions'
  <2>1. /\ Stopped(m, "enable") /\ LoopSteps(m, f) /\ f.op = "load" /\ f.pc = "regs" /\ f.table = Top.table
        /\ f.i = m + 1 /\ tables' = tables /\ Top.pc = "regs"
    BY <1>8 DEF RegsStep, At
  <2>2. Known' = Known
    BY <1>1, <2>1 DEF Known, Live
  <2>3. /\ stack' \in Seq(Frame) /\ Len(stack') \in {Len(stack), Len(stack) + 1}
        /\ \A i \in 1..(Len(stack) - 1) : stack'[i] = stack[i]
        /\ stack'[Len(stack)] = f
        /\ Len(stack') = Len(stack) + 1 =>
             NewBroadcast(stack'[Len(stack) + 1], Spaces[m], handlers[Spaces[m]].enable)
        /\ Spaces[m] \notin Quiet => Len(stack') = Len(stack) + 1
    BY <1>1, <2>1, LoopFrames
  <2>4. /\ Len(stack) \in 1..Len(stack')
        /\ \A k \in 1..(Len(stack) - 1) : k \in 1..Len(stack) /\ k \in 1..Len(stack') /\ stack'[k] = stack[k]
        /\ \A k \in 1..Len(stack') : k \in 1..(Len(stack) - 1) \/ k = Len(stack) \/ k = Len(stack) + 1
    BY <1>4, <2>3
  <2>5. /\ LoopGoesOn
        /\ \A i \in 1..Len(stack') : stack'[i].op = "devices" => i \in 1..Len(stack) /\ stack[i].op = "devices"
        /\ \A i \in 1..Len(stack') : IsRegs(stack'[i]) => i = Len(stack) \/ (i \in 1..Len(stack) /\ stack'[i] = stack[i])
    BY <1>5, <2>1, <2>2, <2>3, <2>4
  <2>6. BroadcastsTell' /\ DisabledTold' /\ DevicesTold'
    BY <2>5, LoopRegions
  <2>7. ASSUME Spaces[m] \in Sure, NEW n \in Known, NEW i \in Nat, i <= Len(stack)
        PROVE  WillBeTold(stack', created, n, Spaces[m], i)
    <3>1. Len(stack') = Len(stack) + 1 /\ NewBroadcast(stack'[Len(stack) + 1], Spaces[m], handlers[Spaces[m]].enable)
      BY <2>3, <2>7 DEF Sure
    <3>2. Parent[n] \in Devices \cap Live
      <4>1. \A k \in Live : Parent[k] \in Live \cup {TreeRoot}
        BY DEF DevicesInv, Made, Tree
      <4> QED BY <4>1, ParentFacts DEF Known
    <3>3. Len(stack) + 1 \in 1..Len(stack') /\ Len(stack) + 1 > i
      BY <1>1, <2>7, <3>1
    <3> QED BY <3>1, <3>2, <3>3 DEF WillBeTold, NewBroadcast
  <2>8. LoadsTell'
    <3>1. ASSUME NEW j \in 1..Len(stack'), IsRegs(stack'[j]), NEW l \in 1..(stack'[j].i - 1),
                 Spaces[l] \in Sure, handlers[Spaces[l]].enable
          PROVE  \/ j \in 1..Len(stack) /\ IsRegs(stack[j]) /\ l \in 1..(stack[j].i - 1)
                 \/ \A n \in Known : WillBeTold(stack', created, n, Spaces[l], j)
      <4>1. CASE j = Len(stack) /\ l = m
        BY <1>1, <2>7, <3>1, <4>1
      <4>2. CASE j = Len(stack) /\ l # m
        <5>1. l \in 1..(m - 1)
          BY <2>1, <2>3, <3>1, <4>2
        <5>2. l \notin Top.i..(m - 1)
          BY <2>1, <3>1 DEF Stopped
        <5>3. l \in 1..(Top.i - 1)
          BY <1>1, <5>1, <5>2
        <5> QED BY <1>1, <1>2, <2>1, <4>2, <5>3 DEF IsRegs
      <4>3. CASE j # Len(stack)
        BY <2>5, <3>1, <4>3
      <4> QED BY <4>1, <4>2, <4>3
    <3> HIDE DEF Known, Sure
    <3> QED BY <2>5, <3>1, LoopRegions
  <2>9. EnabledTold'
    <3>1. ASSUME NEW n \in Known, NEW l \in 1..Len(Spaces), Spaces[l] \in Sure, handlers[Spaces[l]].enable,
                 Looping(stack, handlers, l)
          PROVE  Looping(stack', handlers, l) \/ WillBeTold(stack', created, n, Spaces[l], 0)
      <4>1. ASSUME NEW j \in 1..Len(stack), IsRegs(stack[j]), stack[j].i <= l, j = Len(stack)
            PROVE  Looping(stack', handlers, l) \/ WillBeTold(stack', created, n, Spaces[l], 0)
        <5>1. l \in Nat /\ m \in Nat /\ Top.i <= l
          BY <1>1, <4>1
        <5>2. CASE l = m
          <6>1. 0 \in Nat /\ 0 <= Len(stack)
            BY <1>1
          <6> QED BY <2>7, <3>1, <5>2, <6>1
        <5>3. CASE l > m
          <6>1. IsRegs(stack'[Len(stack)]) /\ stack'[Len(stack)].i <= l
            BY <2>1, <2>3, <5>1, <5>3 DEF IsRegs
          <6> QED BY <2>4, <6>1 DEF Looping
        <5>4. CASE l < m
          <6>1. l \in Top.i..(m - 1)
            BY <1>1, <5>1, <5>4
          <6> QED BY <2>1, <3>1, <6>1 DEF Stopped
        <5> QED BY <5>1, <5>2, <5>3, <5>4
      <4>2. ASSUME NEW j \in 1..Len(stack), j # Len(stack) PROVE j \in 1..Len(stack') /\ stack'[j] = stack[j]
        BY <1>2, <2>4, <4>2
      <4>3. stack[Len(stack)].op # "complete"
        BY <1>1
      <4> QED BY <3>1, <4>1, <4>2, <4>3 DEF Looping
    <3> HIDE DEF Known, Sure
    <3> QED BY <1>6, <2>1, <2>2, <2>5, <3>1
  <2> QED BY <2>6, <2>8, <2>9 DEF Regions
<1>9. CASE RegsDone
  <2>1. /\ \A m \in Top.i..Len(Spaces) : ~handlers[Spaces[m]].enable
        /\ Swapped(stack, stack', InitializeDevices) /\ tables' = tables /\ Top.pc = "regs"
        /\ InitializeDevices \in Frame /\ InitializeDevices.op = "devices"
    BY <1>9, InitializeDevicesFacts DEF RegsDone, At
  <2>2. Known' = Known
    BY <1>1, <2>1 DEF Known, Live
  <2>3. /\ Len(stack') = Len(stack) /\ stack'[Len(stack)].op = "devices" /\ Len(stack) \in 1..Len(stack')
        /\ \A k \in 1..(Len(stack) - 1) : k \in 1..Len(stack) /\ k \in 1..Len(stack') /\ stack'[k] = stack[k]
        /\ \A k \in 1..Len(stack') : k \in 1..(Len(stack) - 1) \/ k = Len(stack)
    BY <1>1, <2>1 DEF Swapped
  \* all have been told of the handlers that are there
  <2>4. ASSUME NEW n \in Known, NEW s \in Sure, handlers[s].enable PROVE told[n][s]
    <3>1. PICK m \in 1..Len(Spaces) : s = Spaces[m]
      BY SpacesFacts DEF Sure
    <3>2. m \in 1..(Top.i - 1)
      <4>1. m \notin Top.i..Len(Spaces)
        BY <2>1, <2>4, <3>1
      <4> QED BY <1>1, <4>1, SpacesFacts
    <3>3. told[n][s] \/ WillBeTold(stack, created, n, s, Len(stack)) \/ LoadedAbove(stack, n, Len(stack))
      BY <1>1, <1>2, <1>3, <2>1, <2>4, <3>1, <3>2 DEF LoadsTell
    <3>4. \A k \in 1..Len(stack) : ~(k > Len(stack))
      BY <1>1
    <3> QED BY <3>3, <3>4 DEF WillBeTold, LoadedAbove
  <2>5. \A k \in 1..Len(stack) : stack[k].op \in {"broadcast", "complete"} => k \in 1..Len(stack') /\ stack'[k] = stack[k]
    BY <1>1, <1>2, <2>3
  <2>6. \A k \in 1..Len(stack') : stack'[k].op = "broadcast" \/ IsRegs(stack'[k]) => k \in 1..Len(stack) /\ stack'[k] = stack[k]
    BY <2>3 DEF IsRegs
  <2>7. LoopGoesOn
    <3> HIDE DEF Known, Sure
    <3> QED BY <1>1, <2>2, <2>4, <2>5, <2>6 DEF LoopGoesOn
  <2>8. /\ \A i \in 1..Len(stack') : stack'[i].op = "devices" =>
              \/ i \in 1..Len(stack) /\ stack[i].op = "devices"
              \/ \A n \in Known, s \in Sure : handlers[s].enable => told[n][s]
        /\ \A j \in 1..Len(stack') : IsRegs(stack'[j]) =>
             j \in 1..Len(stack) /\ IsRegs(stack[j]) /\ stack'[j].i = stack[j].i
    <3> HIDE DEF Known, Sure
    <3> QED BY <2>3, <2>4, <2>6
  <2>9. BroadcastsTell' /\ DisabledTold' /\ DevicesTold' /\ LoadsTell'
    <3> HIDE DEF Known, Sure
    <3> QED BY <2>7, <2>8, LoopRegions
  <2>10. EnabledTold'
    <3>1. ASSUME NEW l \in 1..Len(Spaces), handlers[Spaces[l]].enable, Looping(stack, handlers, l)
          PROVE  Looping(stack', handlers, l)
      <4>1. ASSUME NEW j \in 1..Len(stack), IsRegs(stack[j]), stack[j].i <= l PROVE j # Len(stack)
        <5>1. l \notin Top.i..Len(Spaces)
          BY <2>1, <3>1
        <5> QED BY <1>1, <4>1, <5>1, SpacesFacts
      <4>2. ASSUME NEW j \in 1..Len(stack), j # Len(stack) PROVE j \in 1..Len(stack') /\ stack'[j] = stack[j]
        BY <1>2, <2>3, <4>2
      <4> QED BY <2>5, <3>1, <4>1, <4>2 DEF Looping
    <3> HIDE DEF Known, Sure
    <3> QED BY <1>6, <2>1, <2>2, <2>7, <3>1
  <2> QED BY <2>9, <2>10 DEF Regions
<1> QED BY <1>7, <1>8, <1>9

\* The loop at the end of the initial load: nothing else is in progress.
LEMMA RegionsOfComplete ==
  ASSUME DevicesInv, Types', CompleteSteps
  PROVE  Regions'
<1> HIDE DEF Frame
<1>1. /\ Types /\ Tree /\ Len(stack) \in Nat /\ BroadcastsTell /\ DisabledTold /\ EnabledTold
      /\ handlers \in [SpaceTypes -> [enable : BOOLEAN, pending : BOOLEAN]]
      /\ \A n \in Known : Parent[n] \in Devices \cap Live /\ n \in Nodes
  <2>1. Live \subseteq Nodes /\ \A n \in Live : Parent[n] \in Live \cup {TreeRoot}
    BY LiveFacts DEF DevicesInv, Made, Tree
  <2> QED BY <2>1, StackFacts, ParentFacts DEF Known, DevicesInv, Made, Regions, Types, TypeOK
<1>2. UNCHANGED <<created, told, unsure, tables>> /\ Known' = Known /\ Sure' = Sure /\ complete'
  <2>1. UNCHANGED <<created, told, unsure, tables>>
    BY DEF CompleteSteps, CompleteBegins, CompleteDone, CompleteStep, Cleared, history
  <2>2. complete'
    BY TopFacts DEF CompleteSteps, CompleteBegins, CompleteDone, CompleteStep, Cleared, At
  <2> QED BY <2>1, <2>2 DEF Known, Live, Sure
\* the stack: it was empty, or the call was all of it
<1>3. ASSUME Len(stack) <= 1, Len(stack) = 1 => stack[1].op = "complete",
             Len(stack') \in Nat, Len(stack') <= 2,
             \A s \in SpaceTypes : handlers'[s].enable = handlers[s].enable,
             Len(stack') >= 1 => stack'[1].op = "complete" \/ (stack'[1].op = "devices" /\
                                    \A n \in Known, s \in Sure : handlers[s].enable => told[n][s]),
             Len(stack') = 2 => \E s : NewBroadcast(stack'[2], s, handlers[s].enable)
      PROVE  BroadcastsTell' /\ DisabledTold' /\ LoadsTell' /\ DevicesTold' /\ LoopGoesOn
  <2>1. Len(stack) \in Nat /\ Len(stack) <= 1 /\ Len(stack') \in Nat /\ Len(stack') <= 2
    BY <1>1, <1>3
  <2>2. \A k \in 1..Len(stack) : stack[k].op = "complete"
    <3>1. \A k \in 1..Len(stack) : k = 1 /\ Len(stack) = 1
      BY <2>1
    <3> QED BY <1>3, <3>1
  <2>3. \A k \in 1..Len(stack') : k = 1 \/ (k = 2 /\ Len(stack') = 2)
    <3>1. \A x \in Nat : x <= 2 => \A k \in 1..x : k = 1 \/ (k = 2 /\ x = 2)
      OBVIOUS
    <3> QED BY <2>1, <3>1
  <2>4. \A k \in 1..Len(stack') : stack'[k].op = "broadcast" =>
          /\ stack'[k].enable = handlers[stack'[k].space].enable
          /\ \A d \in Devices \cap Live : IsPending(created, stack'[k], d)
    BY <1>3, <2>3 DEF NewBroadcast
  <2>5. LoopGoesOn
    <3>1. \A n, i : ~LoadedAbove(stack, n, i)
      BY <2>2 DEF LoadedAbove
    <3> HIDE DEF Known
    <3> QED BY <1>2, <1>3, <2>2, <2>4, <3>1 DEF LoopGoesOn
  <2>6. \A k \in 1..Len(stack') : ~IsRegs(stack'[k])
    BY <1>3, <2>3 DEF IsRegs, NewBroadcast
  <2>7. \A k \in 1..Len(stack') : stack'[k].op = "devices" =>
          \A n \in Known, s \in Sure : handlers[s].enable => told[n][s]
    <3> HIDE DEF Known, Sure
    <3> QED BY <1>3, <2>3 DEF NewBroadcast
  <2> HIDE DEF Known, Sure
  <2> QED BY <2>5, <2>6, <2>7, LoopRegions
<1>4. ASSUME \A n \in Known, m \in 1..Len(Spaces) :
               tables[TableOf(n)] = "loaded" /\ Spaces[m] \in Sure /\ handlers[Spaces[m]].enable =>
                 \/ told[n][Spaces[m]] \/ WillBeTold(stack', created, n, Spaces[m], 0)
                 \/ Looping(stack', handlers', m),
             \A s \in SpaceTypes : handlers'[s].enable = handlers[s].enable
      PROVE  EnabledTold'
  <2>1. \A m \in 1..Len(Spaces) : handlers'[Spaces[m]].enable = handlers[Spaces[m]].enable
    BY <1>4, SpacesFacts
  <2> SUFFICES ASSUME NEW n \in Known, NEW m \in 1..Len(Spaces), tables[TableOf(n)] = "loaded",
                      Spaces[m] \in Sure, handlers[Spaces[m]].enable
               PROVE  told[n][Spaces[m]] \/ WillBeTold(stack', created, n, Spaces[m], 0) \/ Looping(stack', handlers', m)
    BY <1>2, <2>1 DEF EnabledTold, Looping, IsRegs
  <2> HIDE DEF Known, Sure
  <2> QED BY <1>4
\* what is said of the handlers while the call is all of the stack
<1>5. ASSUME Len(stack) = 1, Top.op = "complete", complete,
             NEW n \in Known, NEW m \in 1..Len(Spaces), Spaces[m] \in Sure, handlers[Spaces[m]].enable
      PROVE  told[n][Spaces[m]] \/ (Top.i <= m /\ handlers[Spaces[m]].pending)
  <2>1. \A k \in 1..Len(stack) : k = 1 /\ stack[k].op = "complete" /\ stack[k] = Top
    BY <1>5 DEF Top
  <2>2. tables[TableOf(n)] = "loaded"
    <3>1. TableOf(n) \in Tables /\ tables[TableOf(n)] \in {"running", "loaded"}
      BY <1>1, TableFacts DEF Known
    <3>2. ~\E j \in 1..Len(stack) : stack[j].op = "load" /\ stack[j].table = TableOf(n)
      BY <2>1
    <3> QED BY <3>1, <3>2 DEF DevicesInv, LoadsOK
  <2>3. told[n][Spaces[m]] \/ WillBeTold(stack, created, n, Spaces[m], 0) \/ Looping(stack, handlers, m)
    BY <1>1, <1>5, <2>2 DEF EnabledTold, Looping, IsRegs
  <2> QED BY <2>1, <2>3 DEF WillBeTold, Looping, IsRegs
<1>6. ASSUME Running("complete") PROVE Len(stack) = 1 /\ Top = stack[1] /\ Top.op = "complete" /\ complete
  BY <1>6, TopFacts
<1>7. ASSUME NEW initialize \in BOOLEAN, CompleteBegins(initialize) PROVE Regions'
  <2>1. /\ Len(stack) = 0 /\ Len(stack') = 1 /\ stack'[1].op = "complete" /\ stack'[1].i = 1 /\ handlers' = handlers
        /\ ~complete
    BY <1>7 DEF CompleteBegins, Pushed
  <2>2. BroadcastsTell' /\ DisabledTold' /\ LoadsTell' /\ DevicesTold'
    BY <1>3, <2>1
  <2>3. ASSUME NEW m \in 1..Len(Spaces), handlers[Spaces[m]].enable PROVE Looping(stack', handlers', m)
    <3>1. handlers[Spaces[m]].pending
      BY <2>1, <2>3, SpacesFacts DEF DevicesInv, BeforeComplete
    <3>2. 1 \in 1..Len(stack') /\ 1 <= m
      BY <2>1
    <3> QED BY <2>1, <3>1, <3>2 DEF Looping
  <2>4. EnabledTold'
    BY <1>4, <2>1, <2>3
  <2> QED BY <2>2, <2>4 DEF Regions
<1>8. ASSUME NEW m \in 1..Len(Spaces), NEW f \in Frame, CompleteStep(m, f) PROVE Regions'
  <2>1. /\ Stopped(m, "pending") /\ LoopSteps(m, f) /\ f.op = "complete" /\ f.i = m + 1 /\ handlers' = handlers
        /\ Len(stack) = 1 /\ Top.op = "complete" /\ Top = stack[1] /\ complete
    BY <1>6, <1>8 DEF CompleteStep, At
  <2>2. /\ Len(stack') \in {1, 2} /\ stack'[1] = f
        /\ Len(stack') = 2 => NewBroadcast(stack'[2], Spaces[m], handlers[Spaces[m]].enable)
        /\ Spaces[m] \notin Quiet => Len(stack') = 2
    BY <2>1, LoopFrames
  <2>3. BroadcastsTell' /\ DisabledTold' /\ LoadsTell' /\ DevicesTold'
    <3>1. /\ Len(stack) <= 1 /\ stack[1].op = "complete"
          /\ stack'[1].op = "complete" /\ \A s \in SpaceTypes : handlers'[s].enable = handlers[s].enable
      BY <2>1, <2>2
    <3>3. Len(stack') \in Nat /\ Len(stack') <= 2
      <4>1. \A x \in {1, 2} : x \in Nat /\ x <= 2
        OBVIOUS
      <4> QED BY <2>2, <4>1
    <3>2. Len(stack') = 2 => \E s : NewBroadcast(stack'[2], s, handlers[s].enable)
      BY <2>2
    <3> HIDE DEF Known, Sure
    <3> QED BY <1>3, <3>1, <3>2, <3>3
  <2>4. ASSUME NEW n \in Known, NEW l \in 1..Len(Spaces), Spaces[l] \in Sure, handlers[Spaces[l]].enable,
               ~told[n][Spaces[l]]
        PROVE  WillBeTold(stack', created, n, Spaces[l], 0) \/ Looping(stack', handlers', l)
    <3>1. Top.i <= l /\ handlers[Spaces[l]].pending
      BY <1>5, <2>1, <2>4
    <3>2. l \in Nat /\ m \in Nat /\ m \in Top.i..Len(Spaces)
      BY <2>1 DEF Stopped
    <3>3. Top.i \in Nat
      <4>1. Top \in CompleteFrame
        BY <2>1, <1>1, StackFacts, FrameFacts
      <4> QED BY <4>1, SpacesFacts DEF CompleteFrame
    <3>4. CASE l = m
      <4>1. Len(stack') = 2 /\ 2 \in 1..Len(stack') /\ 2 > 0 /\ NewBroadcast(stack'[2], Spaces[m], handlers[Spaces[m]].enable)
        BY <2>2, <2>4, <3>4 DEF Sure
      <4>2. Parent[n] \in Devices \cap Live
        BY <1>1
      <4> QED BY <3>4, <4>1, <4>2 DEF WillBeTold, NewBroadcast
    <3>5. CASE l > m
      <4>1. 1 \in 1..Len(stack') /\ stack'[1].op = "complete" /\ stack'[1].i <= l
        BY <2>1, <2>2, <3>2, <3>5
      <4> QED BY <2>1, <3>1, <4>1 DEF Looping
    <3>6. CASE l < m
      <4>1. l \in Top.i..(m - 1)
        BY <3>1, <3>2, <3>3, <3>6
      <4> QED BY <2>1, <3>1, <4>1 DEF Stopped
    <3> QED BY <3>2, <3>4, <3>5, <3>6
  <2>5. EnabledTold'
    <3> HIDE DEF Known, Sure
    <3> QED BY <1>4, <2>1, <2>4
  <2> QED BY <2>3, <2>5 DEF Regions
<1>9. CASE CompleteDone
  <2>1. /\ \A m \in Top.i..Len(Spaces) : ~handlers[Spaces[m]].pending
        /\ IF Top.initialize THEN Swapped(stack, stack', InitializeDevices) ELSE Popped(stack, stack')
        /\ handlers' = handlers /\ Len(stack) = 1 /\ Top.op = "complete" /\ Top = stack[1] /\ complete
        /\ InitializeDevices.op = "devices"
    BY <1>6, <1>9, InitializeDevicesFacts DEF CompleteDone, At
  <2>2. ASSUME NEW n \in Known, NEW s \in Sure, handlers[s].enable PROVE told[n][s]
    <3>1. PICK m \in 1..Len(Spaces) : s = Spaces[m]
      BY SpacesFacts DEF Sure
    <3>2. Top.i \in Nat
      <4>1. Top \in CompleteFrame
        BY <2>1, <1>1, StackFacts, FrameFacts
      <4> QED BY <4>1, SpacesFacts DEF CompleteFrame
    <3>3. ~(Top.i <= m /\ handlers[Spaces[m]].pending)
      BY <2>1, <3>2, SpacesFacts
    <3> HIDE DEF Known, Sure
    <3> QED BY <1>5, <2>1, <2>2, <3>1, <3>3
  <2>3. /\ Len(stack') \in {0, 1}
        /\ Len(stack') = 1 => stack'[1].op = "devices"
    BY <2>1 DEF Swapped, Popped
  <2>4. BroadcastsTell' /\ DisabledTold' /\ LoadsTell' /\ DevicesTold'
    <3>1. /\ Len(stack) <= 1 /\ stack[1].op = "complete" /\ Len(stack') \in Nat /\ Len(stack') <= 2
          /\ Len(stack') >= 1 => stack'[1].op = "devices"
          /\ \A s \in SpaceTypes : handlers'[s].enable = handlers[s].enable
      BY <2>1, <2>3
    <3>2. Len(stack') # 2
      BY <2>3
    <3> HIDE DEF Known, Sure
    <3> QED BY <1>3, <2>2, <3>1, <3>2
  <2>5. EnabledTold'
    <3> HIDE DEF Known, Sure
    <3> QED BY <1>4, <2>1, <2>2
  <2> QED BY <2>4, <2>5 DEF Regions
<1>10. CASE Cleared
  <2>1. PICK f \in Frame : Swapped(stack, stack', f) /\ f.op = "complete" /\ f.i = Top.i
    BY <1>10 DEF Cleared
  <2>2. /\ Top.i \in 2..(Len(Spaces) + 1) /\ handlers' = [handlers EXCEPT ![Spaces[Top.i - 1]].pending = FALSE]
        /\ Len(stack) = 1 /\ Top.op = "complete" /\ Top = stack[1] /\ complete
    BY <1>6, <1>10 DEF Cleared, At
  <2>3. Top.i - 1 \in 1..Len(Spaces) /\ Spaces[Top.i - 1] \in SpaceTypes
    BY <2>2, SpacesFacts
  <2>4. \A s \in SpaceTypes : /\ handlers'[s].enable = handlers[s].enable
                              /\ s # Spaces[Top.i - 1] => handlers'[s].pending = handlers[s].pending
    BY <1>1, <2>2, <2>3
  <2>5. Len(stack') = 1 /\ stack'[1] = f
    BY <2>1, <2>2 DEF Swapped
  <2>6. BroadcastsTell' /\ DisabledTold' /\ LoadsTell' /\ DevicesTold'
    BY <1>3, <2>1, <2>2, <2>4, <2>5
  <2>7. ASSUME NEW n \in Known, NEW l \in 1..Len(Spaces), Spaces[l] \in Sure, handlers[Spaces[l]].enable,
               ~told[n][Spaces[l]]
        PROVE  Looping(stack', handlers', l)
    <3>1. Top.i <= l /\ handlers[Spaces[l]].pending
      BY <1>5, <2>2, <2>7
    <3>2. Spaces[l] # Spaces[Top.i - 1] /\ Spaces[l] \in SpaceTypes
      <4>1. l # Top.i - 1
        BY <2>2, <3>1
      <4> QED BY <2>3, <4>1, SpacesFacts
    <3>3. 1 \in 1..Len(stack') /\ stack'[1].op = "complete" /\ stack'[1].i <= l /\ handlers'[Spaces[l]].pending
      BY <2>1, <2>4, <2>5, <3>1, <3>2
    <3> QED BY <3>3 DEF Looping
  <2>8. EnabledTold'
    <3> HIDE DEF Known, Sure
    <3> QED BY <1>4, <2>4, <2>7
  <2> QED BY <2>6, <2>8 DEF Regions
<1> QED BY <1>7, <1>8, <1>9, <1>10 DEF CompleteSteps

\* A registration: a space that it makes sure of has a broadcast that all will hear.
LEMMA RegionsOfRegister ==
  ASSUME DevicesInv, Types', complete,
         NEW s \in SpaceTypes, NEW enable \in BOOLEAN, NEW call \in BOOLEAN, Registered(s, enable, call)
  PROVE  Regions'
<1> HIDE DEF Frame
<1>1. /\ Types /\ Len(stack) \in Nat /\ DOMAIN stack = 1..Len(stack)
      /\ BroadcastsTell /\ DisabledTold /\ LoadsTell /\ DevicesTold /\ EnabledTold
      /\ handlers \in [SpaceTypes -> [enable : BOOLEAN, pending : BOOLEAN]]
      /\ \A n \in Known : Parent[n] \in Devices \cap Live
  <2>1. \A n \in Live : Parent[n] \in Live \cup {TreeRoot}
    BY DEF DevicesInv, Made, Tree
  <2> QED BY <2>1, StackFacts, ParentFacts DEF Known, DevicesInv, Regions, Types, TypeOK
<1>2. UNCHANGED <<created, told, tables, complete>> /\ Known' = Known
  BY DEF Registered, Known, Live
<1>3. /\ Len(stack') \in {Len(stack), Len(stack) + 1}
      /\ \A i \in 1..Len(stack) : i \in 1..Len(stack') /\ stack'[i] = stack[i]
      /\ \A i \in 1..Len(stack') : i \in 1..Len(stack) \/ (i = Len(stack) + 1 /\ NewBroadcast(stack'[i], s, enable))
      /\ call /\ s \notin Quiet => Len(stack') = Len(stack) + 1 /\ NewBroadcast(stack'[Len(stack) + 1], s, enable)
  <2>1. /\ Len(stack') \in {Len(stack), Len(stack) + 1}
        /\ \A i \in 1..Len(stack) : stack'[i] = stack[i]
        /\ Len(stack') = Len(stack) + 1 => NewBroadcast(stack'[Len(stack) + 1], s, enable)
        /\ Len(stack') = Len(stack) + 1 <=> call /\ complete /\ s \notin Quiet
    BY RegisteredFacts
  <2>2. /\ \A i \in 1..Len(stack) : i \in 1..Len(stack')
        /\ \A i \in 1..Len(stack') : i \in 1..Len(stack) \/ (i = Len(stack) + 1 /\ Len(stack') = Len(stack) + 1)
    BY <1>1, <2>1
  <2> QED BY <2>1, <2>2
<1>4. /\ handlers'[s].enable = enable /\ \A z \in SpaceTypes : z # s => handlers'[z] = handlers[z]
  BY <1>1 DEF Registered
<1>5. /\ \A z \in Sure' : z # s => z \in Sure
      /\ s \in Sure' => /\ ~Broadcasting(s) /\ call /\ s \notin Quiet
  BY DEF Registered, Sure
<1>6. \A z \in Sure' : z \in SpaceTypes
  BY DEF Sure
<1>7. ASSUME s \in Sure', NEW n \in Known, NEW i \in Nat, i <= Len(stack) PROVE WillBeTold(stack', created, n, s, i)
  <2>1. Len(stack') = Len(stack) + 1 /\ NewBroadcast(stack'[Len(stack) + 1], s, enable)
    BY <1>3, <1>5, <1>7
  <2>2. Len(stack) + 1 \in 1..Len(stack') /\ Len(stack) + 1 > i
    BY <1>1, <1>7, <2>1
  <2> QED BY <1>1, <2>1, <2>2 DEF WillBeTold, NewBroadcast
<1>8. /\ \A n, z, i : WillBeTold(stack, created, n, z, i) => WillBeTold(stack', created, n, z, i)
      /\ \A n, i : LoadedAbove(stack, n, i) => LoadedAbove(stack', n, i)
  BY <1>3, CallsStay
<1>9. DOMAIN stack' = 1..Len(stack')
  <2>1. stack' \in Seq(Frame)
    BY DEF Types
  <2> QED BY <2>1, LenProperties
<1>10. BroadcastsTell'
  <2> SUFFICES ASSUME NEW k \in 1..Len(stack'), stack'[k].op = "broadcast", stack'[k].space \in Sure'
               PROVE  /\ stack'[k].enable = handlers'[stack'[k].space].enable
                      /\ \A n \in Known : \/ told[n][stack'[k].space] = handlers'[stack'[k].space].enable
                                          \/ IsPending(created, stack'[k], Parent[n])
                                          \/ LoadedAbove(stack', n, k) /\ ~told[n][stack'[k].space]
    BY <1>2 DEF BroadcastsTell
  <2>1. CASE k \in 1..Len(stack)
    <3>1. stack'[k] = stack[k] /\ stack[k].space # s
      BY <1>1, <1>3, <1>5, <2>1 DEF Broadcasting
    <3>2. stack[k].space \in Sure /\ handlers'[stack[k].space] = handlers[stack[k].space]
      BY <1>4, <1>5, <1>6, <3>1
    <3>3. /\ stack[k].enable = handlers[stack[k].space].enable
          /\ \A n \in Known : \/ told[n][stack[k].space] = handlers[stack[k].space].enable
                              \/ IsPending(created, stack[k], Parent[n])
                              \/ LoadedAbove(stack, n, k) /\ ~told[n][stack[k].space]
      BY <1>1, <2>1, <3>1, <3>2 DEF BroadcastsTell
    <3> HIDE DEF Known
    <3> QED BY <1>8, <3>1, <3>2, <3>3
  <2>2. CASE NewBroadcast(stack'[k], s, enable)
    BY <1>1, <1>4, <2>2 DEF NewBroadcast
  <2> QED BY <1>3, <2>1, <2>2
<1>11. DisabledTold'
  <2> SUFFICES ASSUME NEW n \in Known, NEW z \in Sure', ~handlers'[z].enable, told[n][z]
               PROVE  WillBeTold(stack', created, n, z, 0)
    BY <1>2 DEF DisabledTold
  <2>1. CASE z = s
    <3>1. 0 \in Nat /\ 0 <= Len(stack)
      BY <1>1
    <3> HIDE DEF Known, Sure
    <3> QED BY <1>7, <2>1, <3>1
  <2>2. CASE z # s
    <3>1. z \in Sure /\ ~handlers[z].enable
      BY <1>4, <1>5, <1>6, <2>2
    <3>2. WillBeTold(stack, created, n, z, 0)
      BY <1>1, <3>1 DEF DisabledTold
    <3> QED BY <1>8, <3>2
  <2> QED BY <2>1, <2>2
<1>12. LoadsTell'
  <2> SUFFICES ASSUME NEW j \in 1..Len(stack'), IsRegs(stack'[j]), NEW m \in 1..(stack'[j].i - 1),
                      Spaces[m] \in Sure', handlers'[Spaces[m]].enable, NEW n \in Known
               PROVE  told[n][Spaces[m]] \/ WillBeTold(stack', created, n, Spaces[m], j) \/ LoadedAbove(stack', n, j)
    BY <1>2 DEF LoadsTell, IsRegs
  <2>1. j \in 1..Len(stack) /\ stack'[j] = stack[j]
    BY <1>3 DEF IsRegs, NewBroadcast
  <2>2. CASE Spaces[m] = s
    <3>1. j \in Nat /\ j <= Len(stack)
      BY <1>1, <2>1
    <3> HIDE DEF Known, Sure
    <3> QED BY <1>7, <2>2, <3>1
  <2>3. CASE Spaces[m] # s
    <3>1. Spaces[m] \in Sure /\ handlers[Spaces[m]].enable
      BY <1>4, <1>5, <1>6, <2>3
    <3>2. told[n][Spaces[m]] \/ WillBeTold(stack, created, n, Spaces[m], j) \/ LoadedAbove(stack, n, j)
      BY <1>1, <2>1, <3>1 DEF LoadsTell, IsRegs
    <3> HIDE DEF Known, Sure
    <3> QED BY <1>8, <3>2
  <2> QED BY <2>2, <2>3
<1>13. DevicesTold'
  <2> SUFFICES ASSUME NEW i \in 1..Len(stack'), stack'[i].op = "devices", NEW n \in Known, NEW z \in Sure'
               PROVE  \/ told[n][z] = handlers'[z].enable
                      \/ \E k \in 1..Len(stack') : stack'[k].op = "broadcast" /\ stack'[k].space = z
                      \/ LoadedAbove(stack', n, i)
    BY <1>2, <1>9 DEF DevicesTold, Broadcasting
  <2>1. CASE z = s
    <3>1. 0 \in Nat /\ 0 <= Len(stack)
      BY <1>1
    <3>2. WillBeTold(stack', created, n, s, 0)
      BY <1>7, <2>1, <3>1
    <3> QED BY <2>1, <3>2 DEF WillBeTold
  <2>2. CASE z # s
    <3>1. i \in 1..Len(stack) /\ stack[i].op = "devices"
      BY <1>3 DEF NewBroadcast
    <3>2. z \in Sure /\ handlers'[z] = handlers[z]
      BY <1>4, <1>5, <1>6, <2>2
    <3>3. told[n][z] = handlers[z].enable \/ Broadcasting(z) \/ LoadedAbove(stack, n, i)
      BY <1>1, <3>1, <3>2 DEF DevicesTold
    <3>4. Broadcasting(z) => \E k \in 1..Len(stack') : stack'[k].op = "broadcast" /\ stack'[k].space = z
      BY <1>1, <1>3 DEF Broadcasting
    <3> HIDE DEF Known, Sure
    <3> QED BY <1>8, <3>2, <3>3, <3>4
  <2> QED BY <2>1, <2>2
<1>14. EnabledTold'
  <2> SUFFICES ASSUME NEW n \in Known, NEW m \in 1..Len(Spaces), tables[TableOf(n)] = "loaded",
                      Spaces[m] \in Sure', handlers'[Spaces[m]].enable
               PROVE  \/ told[n][Spaces[m]] \/ WillBeTold(stack', created, n, Spaces[m], 0)
                      \/ Looping(stack', handlers', m)
    BY <1>2 DEF EnabledTold, Looping, IsRegs
  <2>1. CASE Spaces[m] = s
    <3>1. 0 \in Nat /\ 0 <= Len(stack)
      BY <1>1
    <3> HIDE DEF Known, Sure
    <3> QED BY <1>7, <2>1, <3>1
  <2>2. CASE Spaces[m] # s
    <3>1. Spaces[m] \in Sure /\ handlers[Spaces[m]].enable /\ handlers'[Spaces[m]] = handlers[Spaces[m]]
      BY <1>4, <1>5, <1>6, <2>2
    <3>2. told[n][Spaces[m]] \/ WillBeTold(stack, created, n, Spaces[m], 0) \/ Looping(stack, handlers, m)
      BY <1>1, <3>1 DEF EnabledTold, Looping, IsRegs
    <3>3. Looping(stack, handlers, m) => Looping(stack', handlers', m)
      BY <1>3, <3>1 DEF Looping
    <3> HIDE DEF Known, Sure
    <3> QED BY <1>8, <3>2, <3>3
  <2> QED BY <2>1, <2>2
<1> QED BY <1>10, <1>11, <1>12, <1>13, <1>14 DEF Regions

\* What is said of the region spaces is preserved by every step.
LEMMA RegionsStay ==
  ASSUME DevicesInv, LoadSteps \/ HandlerSteps \/ WalkSteps \/ UNCHANGED vars
  PROVE  Regions'
<1> HIDE DEF Frame
<1>1. Types' /\ Made' /\ LoadsOK' /\ BeforeComplete'
  BY TypesStay, MadeStays, LoadsStay, BeforeCompleteStays
<1>2. CASE ~complete'
  BY <1>1, <1>2, RegionsBefore
<1>3. CASE complete'
  <2>1. CASE NamesMade \/ LoadFailed \/ (\E t \in Tables : LoadBegun(t)) \/ WalkSteps \/ UNCHANGED vars
    BY <1>1, <2>1, QuietLoads, QuietWalks, RegionsStayQuietly
  <2>2. CASE TableLoaded \/ RegsDone \/ \E m \in 1..Len(Spaces), f \in Frame : RegsStep(m, f)
    <3>1. TableLoaded => complete
      BY <1>3 DEF TableLoaded
    <3> QED BY <1>1, <2>2, <3>1, RegionsOfLoads
  <2>3. CASE CompleteSteps
    BY <1>1, <2>3, RegionsOfComplete
  <2>4. ASSUME NEW s \in SpaceTypes, NEW enable \in BOOLEAN, NEW call \in BOOLEAN, Registered(s, enable, call)
        PROVE  Regions'
    <3>1. complete
      BY <1>3, <2>4 DEF Registered
    <3> QED BY <1>1, <2>4, <3>1, RegionsOfRegister
  <2> QED BY <2>1, <2>2, <2>3, <2>4 DEF LoadSteps, HandlerSteps, CompleteSteps
<1> QED BY <1>2, <1>3

-----------------------------------------------------------------------------
(* The invariant holds, and what follows from it. *)

\* The invariant holds in the initial states.
LEMMA DevicesInit ==
  ASSUME Init
  PROVE  DevicesInv
<1> HIDE DEF Frame
<1>1. /\ stack \in Seq(Frame) /\ Len(stack) = 0 /\ created \in Seq(Nodes) /\ Len(created) = 0
      /\ DOMAIN stack = {} /\ DOMAIN created = {}
  BY DEF Init
<1>2. Live = {} /\ IsInjective(created)
  BY <1>1 DEF Live, ToSet, IsInjective
<1>3. Types
  <2>1. \A d \in Devices : d \in Nodes
    BY ParentFacts
  <2>2. 0 \in 0..MaxRegistrations
    BY DevicesAssumption
  <2> QED BY <1>1, <1>2, <2>1, <2>2 DEF Types, TypeOK, Init
<1>4. Made
  BY <1>1, <1>2 DEF Made, Tree, Init
<1>5. LoadsOK
  BY <1>1 DEF LoadsOK, Init
<1>6. WalksOK /\ InitOK /\ InitAboveLoad
  BY <1>1 DEF WalksOK, InitOK, InitAboveLoad
<1>7. Announcements
  BY <1>1 DEF Announcements, Init
<1>8. BeforeComplete
  BY <1>1 DEF BeforeComplete, Init
<1>9. Regions
  <2>1. Known = {}
    BY <1>2 DEF Known
  <2> QED BY <1>1, <2>1 DEF Regions, BroadcastsTell, DisabledTold, LoadsTell, DevicesTold, EnabledTold, Init
<1>10. DevicesHandled
  BY DEF DevicesHandled, Init
<1> QED BY <1>3, <1>4, <1>5, <1>6, <1>7, <1>8, <1>9, <1>10 DEF DevicesInv

\* Every step preserves it.
LEMMA DevicesNext ==
  ASSUME DevicesInv, [Next]_vars
  PROVE  DevicesInv'
<1>1. LoadSteps \/ HandlerSteps \/ WalkSteps \/ UNCHANGED vars
  BY Steps
<1>2. Types' /\ Made' /\ LoadsOK' /\ WalksOK' /\ InitOK'
  BY <1>1, TypesStay, MadeStays, LoadsStay, WalksStay, InitStays
<1>3. Announcements' /\ InitAboveLoad' /\ BeforeComplete' /\ Regions' /\ DevicesHandled'
  BY <1>1, AnnouncementsStay, InitAboveLoadStays, BeforeCompleteStays, RegionsStay, DevicesHandledStays
<1> QED BY <1>2, <1>3 DEF DevicesInv

\* The invariant of the tables, walks and registrations: every call that is in progress
\* is where the calls below it need it to be.
THEOREM DevicesInvariant == Spec => []DevicesInv
<1>1. Init => DevicesInv
  BY DevicesInit
<1>2. DevicesInv /\ [Next]_vars => DevicesInv'
  BY DevicesNext
<1> QED BY <1>1, <1>2, PTL DEF Spec

\* Devices are initialised where _STA allows it and once: a device's _INI runs only on
\* the way down of a walk, right after the device has answered that it is present and
\* functioning, and never below one that is not; and the host hears of a device a second
\* time only if a table was loaded while the device was initialised.
THEOREM DevicesOnce == Spec => []InitializedOnce
<1>1. ASSUME DevicesInv PROVE InitializedOnce
  <2>1. Types /\ WalksOK /\ InitOK /\ Announcements
    BY <1>1 DEF DevicesInv
  <2>2. Len(stack) \in Nat /\ DOMAIN stack = 1..Len(stack) /\ \A i \in 1..Len(stack) : stack[i] \in Frame
    BY <2>1, StackFacts
  <2>3. OnlyWorkingDevices
    <3> SUFFICES ASSUME NEW i \in 1..Len(stack), stack[i].op = "devices"
                 PROVE  LET w == stack[i].walk
                        IN /\ \A j \in 1..Len(w) - 1 : w[j].status \notin {"broken", "gone"}
                           /\ i < Len(stack) /\ Ini(stack[i + 1]) =>
                                w[Len(w)].status = "ready" /\ Parent[stack[i + 1].node] = w[Len(w)].node
      BY <2>2 DEF OnlyWorkingDevices
    <3> DEFINE w == stack[i].walk
               d == Parent[stack[i + 1].node]
    <3>1. ASSUME NEW j \in 1..Len(w) - 1 PROVE w[j].status \notin {"broken", "gone"}
      <4>1. CASE stack[i].pc = "roots"
        <5>1. stack[i] \in RootsFrame
          BY <2>2, <4>1, FrameFacts
        <5>2. w = <<>>
          BY <5>1 DEF RootsFrame
        <5> QED BY <5>2
      <4>2. CASE stack[i].pc # "roots"
        <5>1. WalkOK(w)
          BY <2>1, <4>2 DEF WalksOK, IsWalk
        <5>2. j \in 1..Len(w) /\ j < Len(w)
          BY <5>1, WalkFacts
        <5> QED BY <5>1, <5>2 DEF WalkOK, WalkIn, SkipChildren
      <4> QED BY <4>1, <4>2
    <3>2. ASSUME i < Len(stack), Ini(stack[i + 1])
          PROVE  w[Len(w)].status = "ready" /\ d = w[Len(w)].node
      <4>1. i + 1 \in 1..Len(stack) /\ (i + 1) - 1 = i
        BY <2>2, <3>2
      <4>2. d \in Devices /\ InitializedBy(stack[i + 1], d)
        BY <2>1, <3>2, <4>1 DEF InitOK, Ini, InitializedBy
      <4>3. stack[i].pc = "go" /\ Last(w).node = d /\ Last(w).status = "ready"
        BY <2>1, <4>1, <4>2 DEF InitOK
      <4>4. Last(w) = w[Len(w)]
        BY DEF Last
      <4> QED BY <4>3, <4>4
    <3> QED BY <3>1, <3>2
  <2>4. AnnouncedOnce
    <3> SUFFICES ASSUME NEW d \in Devices, announced[d] > 1, d \notin reentered PROVE FALSE
      BY DEF AnnouncedOnce
    <3>1. announced[d] <= 1 /\ announced[d] \in Nat
      BY <2>1 DEF Announcements, Types, TypeOK
    <3> QED BY <3>1
  <2> QED BY <2>1, <2>3, <2>4 DEF InitializedOnce, Types
<1> QED BY <1>1, DevicesInvariant, PTL

\* When the library is at rest, every _REG method of a device in a loaded table has last
\* been told what is true of every region space: what the broadcasts at the registration
\* of a handler, at the end of the initial load and after each later load add up to, in
\* every order and however they nest.
THEOREM DevicesToldAtRest == Spec => []EveryoneIsTold
<1>1. ASSUME DevicesInv PROVE EveryoneIsTold
  <2> SUFFICES ASSUME Idle, complete, NEW n \in Live, NEW s \in SpaceTypes,
                      Kind[n] = "_REG", Parent[n] \in Devices, tables[TableOf(n)] = "loaded",
                      s \notin Quiet \cup unsure
               PROVE  told[n][s] = handlers[s].enable
    BY DEF EveryoneIsTold, IsTold
  <2>1. Types /\ DisabledTold /\ EnabledTold
    BY <1>1 DEF DevicesInv, Regions
  <2>2. Len(stack) = 0
    BY <2>1, StackFacts
  <2>3. n \in Known /\ s \in Sure /\ n \in Nodes
    <3>1. n \in Nodes
      BY <1>1, LiveFacts DEF DevicesInv, Made
    <3> QED BY <3>1 DEF Known, Sure
  <2>4. told[n][s] \in BOOLEAN /\ handlers[s].enable \in BOOLEAN
    BY <2>1, <2>3 DEF Types, TypeOK
  <2>5. ~WillBeTold(stack, created, n, s, 0)
    BY <2>2 DEF WillBeTold
  <2>6. ASSUME handlers[s].enable PROVE told[n][s]
    <3>1. PICK m \in 1..Len(Spaces) : s = Spaces[m]
      BY SpacesFacts
    <3> QED BY <2>1, <2>2, <2>3, <2>5, <2>6, <3>1 DEF EnabledTold
  <2>7. ASSUME ~handlers[s].enable PROVE ~told[n][s]
    BY <2>1, <2>3, <2>5, <2>7 DEF DisabledTold
  <2> QED BY <2>4, <2>6, <2>7
<1> QED BY <1>1, DevicesInvariant, PTL

\* While the _INI method of a device runs, the _REG method that its table declares with
\* it has been told of every handler, or a broadcast of the space is under way.
THEOREM DevicesToldFirst == Spec => []ToldBeforeInit
<1>1. ASSUME DevicesInv PROVE ToldBeforeInit
  <2>1. Types /\ InitOK /\ InitAboveLoad /\ DevicesTold /\ Tree
    BY <1>1 DEF DevicesInv, Regions, Made
  <2>2. Len(stack) \in Nat /\ DOMAIN stack = 1..Len(stack)
    BY <2>1, StackFacts
  <2> SUFFICES ASSUME NEW i \in 1..Len(stack), Ini(stack[i]),
                      Method(Parent[stack[i].node], "_REG") # Null,
                      TableOf(Method(Parent[stack[i].node], "_REG")) = TableOf(Parent[stack[i].node]),
                      tables[TableOf(Method(Parent[stack[i].node], "_REG"))] \in {"running", "loaded"},
                      NEW s \in SpaceTypes
               PROVE  IsTold(Method(Parent[stack[i].node], "_REG"), s) \/ Broadcasting(s)
    BY <2>2 DEF ToldBeforeInit
  <2> DEFINE d == Parent[stack[i].node]
             reg == Method(d, "_REG")
  <2>3. d \in Devices /\ InitializedBy(stack[i], d)
    BY <2>1 DEF InitOK, Ini, InitializedBy
  <2>4. i > 1 /\ i - 1 \in 1..Len(stack) /\ stack[i - 1].op = "devices"
    <3>1. i > 1 /\ stack[i - 1].op = "devices"
      BY <2>1, <2>3 DEF InitOK
    <3> QED BY <2>2, <3>1
  <2>5. reg \in Known
    <3>1. d \in Entries
      BY <2>3, ParentFacts DEF Entries
    <3>2. reg \in Live /\ Parent[reg] = d /\ Kind[reg] = "_REG"
      BY <2>1, <3>1, MethodFacts
    <3> QED BY <2>3, <3>2 DEF Known
  <2>6. CASE s \in Quiet \cup unsure
    BY <2>6 DEF IsTold
  <2>7. CASE s \notin Quiet \cup unsure
    <3>1. s \in Sure
      BY <2>7 DEF Sure
    <3> HIDE DEF Known, Sure, reg
    <3>2. told[reg][s] = handlers[s].enable \/ Broadcasting(s) \/ LoadedAbove(stack, reg, i - 1)
      BY <2>1, <2>4, <2>5, <3>1 DEF DevicesTold
    <3>3. ~LoadedAbove(stack, reg, i - 1)
      <4> SUFFICES ASSUME NEW j \in 1..Len(stack), j > i - 1, stack[j].op = "load", stack[j].table = TableOf(reg)
                   PROVE  FALSE
        BY DEF LoadedAbove
      <4>1. j # i
        BY DEF Ini
      <4>2. i < j
        BY <2>2, <4>1
      <4>3. stack[j].table # TableOf(d)
        BY <2>1, <4>2 DEF InitAboveLoad
      <4> QED BY <4>3 DEF reg
    <3>4. IsTold(reg, s) \/ Broadcasting(s)
      BY <3>2, <3>3 DEF IsTold
    <3> QED BY <3>4 DEF reg
  <2> QED BY <2>6, <2>7
<1> QED BY <1>1, DevicesInvariant, PTL

\* When devices were to be initialised and the library is at rest, each device of a
\* loaded table was initialised or asked for its status, or is below a device that
\* answered that it does not function: no walk passes over a device, though the tree
\* grows while it is walked.
THEOREM DevicesAreAsked == Spec => []NobodyIsForgotten
<1>1. ASSUME DevicesInv PROVE NobodyIsForgotten
  <2>1. Types /\ DevicesHandled
    BY <1>1 DEF DevicesInv
  <2>2. Idle => Len(stack) = 0
    BY <2>1, StackFacts
  <2> QED BY <2>1, <2>2 DEF DevicesHandled, Handled, NobodyIsForgotten
<1> QED BY <1>1, DevicesInvariant, PTL
=============================================================================
