--------------------------- MODULE NamespaceProofs ---------------------------
(***************************************************************************)
(* Every index of the namespace leads to nodes that exist, to each once,   *)
(* and a scope that ends releases its own temporary nodes. For any set of  *)
(* nodes and names, and any depth.                                         *)
(*                                                                         *)
(* The temporary list of a scope is described by the sequence of its nodes. *)
(***************************************************************************)
EXTENDS Namespace, Lemmas

Pointer == Nodes \cup {Null}

-----------------------------------------------------------------------------
(* The search. *)

\* The table leads to nodes that exist.
LEMMA AtIsLive ==
  ASSUME NEW path
  PROVE  At(path) \in Live \cup {Null}
<1>1. (\E n \in Live : nodes[n].path = path) => At(path) \in Live
  BY DEF At
<1>2. (~\E n \in Live : nodes[n].path = path) => At(path) = Null
  BY DEF At
<1> QED BY <1>1, <1>2

\* The search for a name finds a node that exists, or nothing.
LEMMA FindIsLive ==
  ASSUME NEW scope, NEW name, NEW creation
  PROVE  Find(scope, name, creation) \in Live \cup {Null}
<1>1. SearchRelativeName(scope, name, creation) \in Live \cup {Null}
  BY AtIsLive DEF SearchRelativeName
<1>2. SearchPrefixedName(scope, name) \in Live \cup {Null}
  BY AtIsLive DEF SearchPrefixedName
<1> QED BY <1>1, <1>2 DEF Find

\* Whatever aliases lead to exists.
LEMMA ResolveIsLive ==
  ASSUME Live \subseteq Nodes, NEW n \in Live \cup {Null}
  PROVE  Resolve(n) \in Live \cup {Null, Endless}
<1> DEFINE hops == Cardinality(Nodes) + 1
           V == Nodes \cup {Null, Endless}
           Target(m) == Find(Here, nodes[m].dest, FALSE)
           base == [m \in Pointer |-> IF m = Null THEN Null
                                      ELSE IF nodes[m].kind # "alias" THEN m ELSE Endless]
           step == [g \in [Pointer -> V] |->
                      [m \in Pointer |-> IF m = Null THEN Null
                                         ELSE IF nodes[m].kind # "alias" THEN m
                                         ELSE g[Target(m)]]]
<1>1. hops \in Nat
  BY NamespaceAssumption, FS_CardinalityType
<1>2. \A m : Target(m) \in Live \cup {Null} /\ Target(m) \in Pointer
  BY FindIsLive DEF Pointer
<1> HIDE DEF hops, Target
<1>3. base \in [Pointer -> V]
  BY DEF Pointer
<1>4. step \in [[Pointer -> V] -> [Pointer -> V]]
  <2> SUFFICES ASSUME NEW g \in [Pointer -> V]
               PROVE  [m \in Pointer |-> IF m = Null THEN Null
                                         ELSE IF nodes[m].kind # "alias" THEN m
                                         ELSE g[Target(m)]] \in [Pointer -> V]
    OBVIOUS
  <2>1. ASSUME NEW m \in Pointer PROVE g[Target(m)] \in V
    BY <1>2
  <2> QED BY <2>1 DEF Pointer
<1>5. \A g \in [Pointer -> V] : step[g] =
        [m \in Pointer |-> IF m = Null THEN Null
                           ELSE IF nodes[m].kind # "alias" THEN m ELSE g[Target(m)]]
  OBVIOUS
<1> HIDE DEF V, step
<1>6. PICK f : Continued(f, hops, [Pointer -> V], base, step)
  BY <1>1, <1>3, <1>4, Recursion
<1>7. /\ f \in [0..hops -> [Pointer -> V]] /\ f[0] = base
      /\ \A k \in 1..hops : f[k] = step[f[k - 1]]
  BY <1>6 DEF Continued
<1>8. f = [k \in 0..hops |->
             [m \in Pointer |-> IF m = Null THEN Null
                                ELSE IF nodes[m].kind # "alias" THEN m
                                ELSE IF k = 0 THEN Endless ELSE f[k - 1][Target(m)]]]
  <2> SUFFICES ASSUME NEW k \in 0..hops
               PROVE  f[k] = [m \in Pointer |-> IF m = Null THEN Null
                                ELSE IF nodes[m].kind # "alias" THEN m
                                ELSE IF k = 0 THEN Endless ELSE f[k - 1][Target(m)]]
    BY <1>7
  <2>1. CASE k = 0
    BY <2>1, <1>7
  <2>2. CASE k # 0
    <3>1. k \in 1..hops /\ k - 1 \in 0..hops
      BY <2>2, <1>1
    <3>2. f[k] = step[f[k - 1]] /\ f[k - 1] \in [Pointer -> V]
      BY <3>1, <1>7
    <3> QED BY <3>2, <2>2, <1>5
  <2> QED BY <2>1, <2>2
<1> DEFINE Follow(h) == h = [k \in 0..hops |->
             [m \in Pointer |-> IF m = Null THEN Null
                                ELSE IF nodes[m].kind # "alias" THEN m
                                ELSE IF k = 0 THEN Endless ELSE h[k - 1][Target(m)]]]
           h == CHOOSE h : Follow(h)
<1>9. Resolve(n) = h[hops][n]
  BY DEF Resolve, hops, Target, Pointer
<1>10. Follow(f)
  BY <1>8
<1> HIDE DEF Follow
<1>11. Follow(h)
  BY <1>10
<1> HIDE DEF h
<1>12. \A k \in 0..hops : \A m \in Pointer :
         h[k][m] = IF m = Null THEN Null
                   ELSE IF nodes[m].kind # "alias" THEN m
                   ELSE IF k = 0 THEN Endless ELSE h[k - 1][Target(m)]
  <2>1. ASSUME NEW k \in 0..hops, NEW m \in Pointer
        PROVE  h[k][m] = IF m = Null THEN Null
                         ELSE IF nodes[m].kind # "alias" THEN m
                         ELSE IF k = 0 THEN Endless ELSE h[k - 1][Target(m)]
    <3>1. h[k] = [x \in Pointer |-> IF x = Null THEN Null
                                    ELSE IF nodes[x].kind # "alias" THEN x
                                    ELSE IF k = 0 THEN Endless ELSE h[k - 1][Target(x)]]
      BY <1>11 DEF Follow
    <3> QED BY <3>1
  <2> QED BY <2>1
<1> DEFINE S == {k \in Nat : k <= hops =>
                   \A m \in Live \cup {Null} : h[k][m] \in Live \cup {Null, Endless}}
<1>13. 0 \in S
  BY <1>1, <1>12 DEF Pointer
<1>14. ASSUME NEW k \in Nat, k \in S PROVE k + 1 \in S
  <2> SUFFICES ASSUME k + 1 <= hops, NEW m \in Live \cup {Null}
               PROVE  h[k + 1][m] \in Live \cup {Null, Endless}
    OBVIOUS
  <2>1. k + 1 \in 0..hops /\ k <= hops /\ (k + 1) - 1 = k /\ k + 1 # 0 /\ m \in Pointer
    BY <1>1 DEF Pointer
  <2>2. h[k + 1][m] = IF m = Null THEN Null
                      ELSE IF nodes[m].kind # "alias" THEN m ELSE h[k][Target(m)]
    BY <2>1, <1>12
  <2>3. h[k][Target(m)] \in Live \cup {Null, Endless}
    BY <2>1, <1>2, <1>14
  <2> QED BY <2>2, <2>3
<1> HIDE DEF S
<1>15. hops \in S
  BY <1>1, <1>13, <1>14, SetInduction
<1> QED BY <1>1, <1>9, <1>15 DEF S

-----------------------------------------------------------------------------
(* The tree. *)

EntryRecords == [in : BOOLEAN, parent : Entries \cup {Null}, first : Pointer,
                 last : Pointer, next : Pointer, prev : Pointer]

\* The trees that the operations work on: whoever is in has a parent.
Trees == {t \in [Entries -> EntryRecords] : \A n \in Nodes : t[n].in => t[n].parent # Null}

\* A tree stays one when an entry is emptied or one of its fields is set.
LEMMA EntryChanges ==
  ASSUME NEW t \in Trees, NEW e \in Entries
  PROVE  /\ \A v \in Pointer : [t EXCEPT ![e].next = v] \in Trees
         /\ \A v \in Pointer : [t EXCEPT ![e].prev = v] \in Trees
         /\ \A v \in Pointer : [t EXCEPT ![e].first = v] \in Trees
         /\ \A v \in Pointer : [t EXCEPT ![e].last = v] \in Trees
         /\ \A v \in Entries : [t EXCEPT ![e].parent = v] \in Trees
         /\ (e \in Nodes => t[e].parent # Null) => [t EXCEPT ![e].in = TRUE] \in Trees
         /\ [t EXCEPT ![e] = NoEntry] \in Trees
<1>1. t \in [Entries -> EntryRecords] /\ t[e] \in EntryRecords /\ Null \notin Entries
  BY NamespaceAssumption DEF Trees, Entries
<1>2. ASSUME NEW r \in EntryRecords, r.in /\ e \in Nodes => r.parent # Null
      PROVE  [t EXCEPT ![e] = r] \in Trees
  <2> DEFINE u == [t EXCEPT ![e] = r]
  <2>1. u \in [Entries -> EntryRecords]
    BY <1>1
  <2>2. \A n \in Nodes : u[n].in => u[n].parent # Null
    BY <1>1, <1>2 DEF Trees, Entries
  <2> QED BY <2>1, <2>2 DEF Trees
<1>3. t[e].in /\ e \in Nodes => t[e].parent # Null
  BY DEF Trees
<1> DEFINE r == t[e]
<1>4. \A v \in Pointer : [t EXCEPT ![e].next = v] \in Trees
  <2> TAKE v \in Pointer
  <2>1. [r EXCEPT !.next = v] \in EntryRecords
    BY <1>1 DEF EntryRecords
  <2>2. [r EXCEPT !.next = v].in = r.in /\ [r EXCEPT !.next = v].parent = r.parent
    BY <1>1 DEF EntryRecords
  <2> QED BY <2>1, <2>2, <1>2, <1>3
<1>5. \A v \in Pointer : [t EXCEPT ![e].prev = v] \in Trees
  <2> TAKE v \in Pointer
  <2>1. [r EXCEPT !.prev = v] \in EntryRecords
    BY <1>1 DEF EntryRecords
  <2>2. [r EXCEPT !.prev = v].in = r.in /\ [r EXCEPT !.prev = v].parent = r.parent
    BY <1>1 DEF EntryRecords
  <2> QED BY <2>1, <2>2, <1>2, <1>3
<1>6. \A v \in Pointer : [t EXCEPT ![e].first = v] \in Trees
  <2> TAKE v \in Pointer
  <2>1. [r EXCEPT !.first = v] \in EntryRecords
    BY <1>1 DEF EntryRecords
  <2>2. [r EXCEPT !.first = v].in = r.in /\ [r EXCEPT !.first = v].parent = r.parent
    BY <1>1 DEF EntryRecords
  <2> QED BY <2>1, <2>2, <1>2, <1>3
<1>7. \A v \in Pointer : [t EXCEPT ![e].last = v] \in Trees
  <2> TAKE v \in Pointer
  <2>1. [r EXCEPT !.last = v] \in EntryRecords
    BY <1>1 DEF EntryRecords
  <2>2. [r EXCEPT !.last = v].in = r.in /\ [r EXCEPT !.last = v].parent = r.parent
    BY <1>1 DEF EntryRecords
  <2> QED BY <2>1, <2>2, <1>2, <1>3
<1>8. \A v \in Entries : [t EXCEPT ![e].parent = v] \in Trees
  <2> TAKE v \in Entries
  <2>1. [r EXCEPT !.parent = v] \in EntryRecords /\ [r EXCEPT !.parent = v].parent = v
    BY <1>1 DEF EntryRecords
  <2> QED BY <2>1, <1>1, <1>2
<1>9. ASSUME e \in Nodes => r.parent # Null PROVE [t EXCEPT ![e].in = TRUE] \in Trees
  <2>1. [r EXCEPT !.in = TRUE] \in EntryRecords /\ [r EXCEPT !.in = TRUE].parent = r.parent
    BY <1>1 DEF EntryRecords
  <2> QED BY <2>1, <1>2, <1>9
<1>10. [t EXCEPT ![e] = NoEntry] \in Trees
  <2>1. NoEntry \in EntryRecords /\ ~NoEntry.in
    BY DEF NoEntry, EntryRecords, Pointer
  <2> QED BY <2>1, <1>2
<1> QED BY <1>4, <1>5, <1>6, <1>7, <1>8, <1>9, <1>10

\* The entry that is added, and its neighbours, are entries.
LEMMA TreeLinkIsTree ==
  ASSUME NEW t \in Trees, NEW p \in Entries, NEW c \in Nodes
  PROVE  TreeLink(t, p, c) \in Trees
<1> DEFINE last == t[p].last
           t1 == [t EXCEPT ![c].next = Null]
           t2 == [t1 EXCEPT ![c].prev = last]
           t3 == [t2 EXCEPT ![c].parent = p]
           t4 == [t3 EXCEPT ![c].in = TRUE]
           t5 == [t4 EXCEPT ![p].last = c]
           first == IF t5[p].first = Null THEN c ELSE t5[p].first
           t6 == [t5 EXCEPT ![p].first = first]
           t7 == [t6 EXCEPT ![last].next = c]
<1>1. TreeLink(t, p, c) = IF last = Null THEN t6 ELSE t7
  <2> DEFINE below == [t EXCEPT ![c].next = Null, ![c].prev = last, ![c].parent = p,
                                ![c].in = TRUE]
             added == [below EXCEPT ![p].last = c, ![p].first = IF @ = Null THEN c ELSE @]
  <2>0. below = t4
    OBVIOUS
  <2>1. added = [t5 EXCEPT ![p].first = IF @ = Null THEN c ELSE @]
    <3> HIDE DEF below, t4
    <3> QED BY <2>0
  <2>2. t6 = [t5 EXCEPT ![p].first = IF @ = Null THEN c ELSE @]
    <3> HIDE DEF t5
    <3> QED OBVIOUS
  <2>3. added = t6
    <3> HIDE DEF added, t6, t5, below
    <3> QED BY <2>1, <2>2
  <2>4. TreeLink(t, p, c) = IF last = Null THEN added ELSE [added EXCEPT ![last].next = c]
    BY DEF TreeLink
  <2> HIDE DEF added, t6
  <2> QED BY <2>3, <2>4
<1>2. c \in Entries /\ Null \in Pointer /\ c \in Pointer /\ p # Null
  BY NamespaceAssumption DEF Entries, Pointer
<1>3. \A u \in Trees : u \in [Entries -> EntryRecords]
       /\ u[p].last \in Pointer /\ u[p].first \in Pointer
  BY DEF Trees, EntryRecords
<1>4. last \in Pointer /\ (last # Null => last \in Entries)
  BY <1>3 DEF Entries, Pointer
<1> HIDE DEF last
<1>5. t1 \in Trees
  BY <1>2, EntryChanges
<1> HIDE DEF t1
<1>6. t2 \in Trees
  BY <1>2, <1>4, <1>5, EntryChanges
<1> HIDE DEF t2
<1>7. t3 \in Trees /\ t3[c].parent = p
  <2>1. t3 \in Trees
    BY <1>2, <1>6, EntryChanges
  <2>2. t2[c] \in EntryRecords /\ t2 \in [Entries -> EntryRecords]
    BY <1>2, <1>3, <1>6
  <2> QED BY <2>1, <2>2, <1>2 DEF EntryRecords
<1> HIDE DEF t3
<1>8. t4 \in Trees
  BY <1>2, <1>7, EntryChanges
<1> HIDE DEF t4
<1>9. t5 \in Trees
  BY <1>2, <1>8, EntryChanges
<1> HIDE DEF t5
<1>10. first \in Pointer
  BY <1>2, <1>3, <1>9
<1> HIDE DEF first
<1>11. t6 \in Trees
  BY <1>2, <1>9, <1>10, EntryChanges
<1> HIDE DEF t6
<1>12. last # Null => t7 \in Trees
  BY <1>2, <1>4, <1>11, EntryChanges
<1> QED BY <1>1, <1>11, <1>12

\* Entries are entries of a tree, and its pointers lead to entries.
LEMMA TreeTypes ==
  ASSUME NEW t \in Trees
  PROVE  /\ t \in [Entries -> EntryRecords] /\ Nodes \subseteq Entries
         /\ \A n \in Nodes : t[n].in => t[n].parent \in Entries
         /\ \A e \in Entries :
              /\ t[e].first \in Pointer /\ t[e].last \in Pointer
              /\ t[e].next \in Pointer /\ t[e].prev \in Pointer
              /\ t[e].parent \in Entries \cup {Null}
         /\ \A x \in Pointer : x # Null => x \in Entries
<1>1. t \in [Entries -> EntryRecords]
  BY DEF Trees
<1>2. \A e \in Entries : t[e] \in EntryRecords
  BY <1>1
<1>3. \A e \in Entries :
        /\ t[e].first \in Pointer /\ t[e].last \in Pointer
        /\ t[e].next \in Pointer /\ t[e].prev \in Pointer
        /\ t[e].parent \in Entries \cup {Null}
  BY <1>2 DEF EntryRecords
<1>4. \A n \in Nodes : t[n].in => t[n].parent \in Entries
  BY <1>3 DEF Trees, Entries
<1>5. \A x \in Pointer : x # Null => x \in Entries
  BY DEF Pointer, Entries
<1> QED BY <1>1, <1>3, <1>4, <1>5 DEF Entries

\* A node leaves its siblings, and stays below its parent
\* (AmlNamespaceTreeUnlinkNode, its first part).
LEMMA UnlinkSiblingsIsTree ==
  ASSUME NEW t \in Trees, NEW n \in Nodes
  PROVE  UnlinkSiblings(t, n) \in Trees
         /\ UnlinkSiblings(t, n)[n].parent = t[n].parent
         /\ UnlinkSiblings(t, n)[n].in = t[n].in
<1> DEFINE x == t[n].next
           y == t[n].prev
           t1 == [t EXCEPT ![x].prev = y]
           ahead == IF x = Null THEN t ELSE t1
           t2 == [ahead EXCEPT ![y].next = x]
<1>1. UnlinkSiblings(t, n) = IF y = Null THEN ahead ELSE t2
  BY DEF UnlinkSiblings
<1>2. /\ x \in Pointer /\ y \in Pointer /\ n \in Entries
      /\ x # Null => x \in Entries
      /\ y # Null => y \in Entries
  BY TreeTypes
<1> HIDE DEF x, y
<1>3. ASSUME NEW u \in Trees, NEW e \in Entries, NEW v
      PROVE  /\ [u EXCEPT ![e].prev = v][n].parent = u[n].parent
             /\ [u EXCEPT ![e].prev = v][n].in = u[n].in
             /\ [u EXCEPT ![e].next = v][n].parent = u[n].parent
             /\ [u EXCEPT ![e].next = v][n].in = u[n].in
  <2>1. u \in [Entries -> EntryRecords] /\ u[e] \in EntryRecords
    BY TreeTypes
  <2>2. CASE n = e
    BY <2>1, <2>2 DEF EntryRecords
  <2>3. CASE n # e
    BY <2>1, <2>3, <1>2
  <2> QED BY <2>2, <2>3
<1>4. ASSUME x # Null PROVE t1 \in Trees /\ t1[n].parent = t[n].parent /\ t1[n].in = t[n].in
  <2>1. x \in Entries
    BY <1>2, <1>4
  <2>2. t1 \in Trees
    BY <1>2, <2>1, EntryChanges
  <2> QED BY <2>1, <2>2, <1>3
<1> HIDE DEF t1
<1>5. ahead \in Trees /\ ahead[n].parent = t[n].parent /\ ahead[n].in = t[n].in
  BY <1>4
<1> HIDE DEF ahead
<1>6. ASSUME y # Null PROVE t2 \in Trees /\ t2[n].parent = ahead[n].parent /\ t2[n].in = ahead[n].in
  <2>1. y \in Entries
    BY <1>2, <1>6
  <2>2. t2 \in Trees
    BY <1>2, <1>5, <2>1, EntryChanges
  <2> QED BY <2>1, <2>2, <1>3, <1>5
<1> HIDE DEF t2
<1> QED BY <1>1, <1>5, <1>6

\* Its children join the list of its parent (the second part).
LEMMA TransplantIsTree ==
  ASSUME NEW t \in Trees, NEW n \in Nodes, t[n].parent \in Entries
  PROVE  TransplantChildren(t, n) \in Trees
<1> DEFINE p == t[n].parent
           first == t[n].first
           last == t[n].last
           C == ToSet(Children(t, n))
           moved == [m \in Entries |-> IF m \in C THEN [t[m] EXCEPT !.parent = p] ELSE t[m]]
           end == moved[p].last
           t1 == [moved EXCEPT ![end].next = first]
           t2 == [t1 EXCEPT ![first].prev = end]
           joined == IF end = Null THEN moved ELSE t2
           t3 == [joined EXCEPT ![p].last = last]
           t4 == [t3 EXCEPT ![p].first = IF @ = Null THEN first ELSE @]
<1>1. TransplantChildren(t, n) = IF first = Null THEN t ELSE t4
  <2>1. [joined EXCEPT ![p].last = last, ![p].first = IF @ = Null THEN first ELSE @] = t4
    <3> HIDE DEF joined, p, first, last
    <3> QED OBVIOUS
  <2>2. joined = IF end = Null THEN moved
                 ELSE [moved EXCEPT ![end].next = first, ![first].prev = end]
    <3> HIDE DEF moved, end, first
    <3> QED OBVIOUS
  <2> DEFINE sewn == [joined EXCEPT ![p].last = last, ![p].first = IF @ = Null THEN first ELSE @]
  <2>3. TransplantChildren(t, n) = IF first = Null THEN t ELSE sewn
    BY DEF TransplantChildren
  <2> HIDE DEF sewn, t4
  <2> QED BY <2>1, <2>3 DEF sewn
<1> SUFFICES ASSUME first # Null PROVE t4 \in Trees
  BY <1>1
<1>2. p \in Entries /\ first \in Entries /\ first \in Pointer /\ last \in Pointer
  BY TreeTypes
<1>3. t \in [Entries -> EntryRecords] /\ Null \notin Entries
  BY TreeTypes, NamespaceAssumption DEF Entries
<1> HIDE DEF p, first, last, C
<1>4. moved \in Trees
  <2>1. ASSUME NEW m \in Entries
        PROVE  moved[m] \in EntryRecords /\ (m \in Nodes /\ moved[m].in => moved[m].parent # Null)
    <3>1. t[m] \in EntryRecords
      BY <1>3
    <3>2. CASE m \in C
      <4>1. moved[m] = [t[m] EXCEPT !.parent = p]
        BY <3>2
      <4>2. moved[m] \in EntryRecords /\ moved[m].parent = p
        BY <3>1, <4>1, <1>2 DEF EntryRecords
      <4> QED BY <4>2, <1>2, <1>3
    <3>3. CASE m \notin C
      <4>1. moved[m] = t[m]
        BY <3>3
      <4> QED BY <3>1, <4>1 DEF Trees
    <3> QED BY <3>2, <3>3
  <2>2. moved \in [Entries -> EntryRecords]
    BY <2>1
  <2> HIDE DEF moved
  <2> QED BY <2>1, <2>2 DEF Trees, Entries
<1> HIDE DEF moved
<1>5. end \in Pointer /\ (end # Null => end \in Entries)
  BY <1>2, <1>4, TreeTypes
<1> HIDE DEF end
<1>6. end # Null => t1 \in Trees
  BY <1>2, <1>4, <1>5, EntryChanges
<1> HIDE DEF t1
<1>7. end # Null => t2 \in Trees
  BY <1>2, <1>5, <1>6, EntryChanges
<1> HIDE DEF t2
<1>8. joined \in Trees
  BY <1>4, <1>7
<1> HIDE DEF joined
<1>9. t3 \in Trees
  BY <1>2, <1>8, EntryChanges
<1> HIDE DEF t3
<1> DEFINE f == IF t3[p].first = Null THEN first ELSE t3[p].first
<1>10. f \in Pointer
  BY <1>2, <1>9, TreeTypes
<1>11. t4 = [t3 EXCEPT ![p].first = f]
  OBVIOUS
<1> HIDE DEF t4, f
<1> QED BY <1>2, <1>9, <1>10, <1>11, EntryChanges

\* Its parent forgets it as the first or the last (the third part).
LEMMA UnlinkParentIsTree ==
  ASSUME NEW t \in Trees, NEW n \in Nodes
  PROVE  UnlinkParent(t, n) \in Trees
<1> DEFINE p == t[n].parent
           x == t[n].next
           y == t[n].prev
           t1 == [t EXCEPT ![p].first = IF @ = n THEN x ELSE @]
           t2 == [t1 EXCEPT ![p].last = IF @ = n THEN y ELSE @]
           f == IF t[p].first = n THEN x ELSE t[p].first
           l == IF t1[p].last = n THEN y ELSE t1[p].last
<1>1. UnlinkParent(t, n) = t2
  BY DEF UnlinkParent
<1>2. p \in Entries \cup {Null} /\ x \in Pointer /\ y \in Pointer
  BY TreeTypes
<1> HIDE DEF p, x, y
<1>3. CASE p \in Entries
  <2>1. f \in Pointer /\ t1 = [t EXCEPT ![p].first = f]
    BY <1>2, <1>3, TreeTypes
  <2> HIDE DEF f, t1
  <2>2. t1 \in Trees
    BY <1>3, <2>1, EntryChanges
  <2>3. l \in Pointer /\ t2 = [t1 EXCEPT ![p].last = l]
    BY <1>2, <1>3, <2>2, TreeTypes
  <2> HIDE DEF l, t2
  <2>4. t2 \in Trees
    BY <1>3, <2>2, <2>3, EntryChanges
  <2> QED BY <1>1, <2>4
<1>4. CASE p \notin Entries
  <2>1. t \in [Entries -> EntryRecords]
    BY TreeTypes
  <2>2. t1 = t
    BY <1>4, <2>1
  <2> HIDE DEF t1
  <2>3. t2 = t1
    BY <1>4, <2>1, <2>2
  <2> QED BY <1>1, <2>2, <2>3
<1> QED BY <1>3, <1>4

\* A tree from which a node is taken is a tree: its entries lead to nodes.
LEMMA TreeUnlinkIsTree ==
  ASSUME NEW t \in Trees, NEW n \in Nodes
  PROVE  TreeUnlink(t, n) \in Trees
<1> DEFINE t1 == UnlinkSiblings(t, n)
           t2 == TransplantChildren(t1, n)
           t3 == UnlinkParent(t2, n)
<1>1. TreeUnlink(t, n) = IF ~t[n].in THEN t ELSE [t3 EXCEPT ![n] = NoEntry]
  BY DEF TreeUnlink
<1>2. t1 \in Trees /\ t1[n].parent = t[n].parent
  BY UnlinkSiblingsIsTree
<1>3. n \in Entries /\ (t[n].in => t[n].parent \in Entries)
  BY TreeTypes
<1> HIDE DEF t1
<1>4. t[n].in => t2 \in Trees
  BY <1>2, <1>3, TransplantIsTree
<1> HIDE DEF t2
<1>5. t[n].in => t3 \in Trees
  BY <1>4, UnlinkParentIsTree
<1> HIDE DEF t3
<1> QED BY <1>1, <1>3, <1>5, EntryChanges

\* Where the insertion of a node has come to: a tree, and an entry of it.
Insertions == [tree : Trees, last : Entries]

\* The node on a level of a path is linked below the one before.
LEMMA InsertLevelIsTree ==
  ASSUME Live \subseteq Nodes, NEW acc \in Insertions, NEW path, Resolve(At(path)) # Endless
  PROVE  InsertLevel(acc, path) \in Insertions
<1> DEFINE found == Resolve(At(path))
<1>1. InsertLevel(acc, path) =
        IF found = Null THEN acc
        ELSE IF acc.tree[found].in THEN [acc EXCEPT !.last = found]
        ELSE [tree |-> TreeLink(acc.tree, acc.last, found), last |-> found]
  BY DEF InsertLevel
<1>2. found # Null => found \in Nodes
  <2>1. At(path) \in Live \cup {Null}
    BY AtIsLive
  <2> QED BY <2>1, ResolveIsLive
<1> HIDE DEF found
<1>3. acc.tree \in Trees /\ acc.last \in Entries
  BY DEF Insertions
<1>4. ASSUME found # Null PROVE [acc EXCEPT !.last = found] \in Insertions
  BY <1>2, <1>4 DEF Insertions, Entries
<1>5. ASSUME found # Null
      PROVE  [tree |-> TreeLink(acc.tree, acc.last, found), last |-> found] \in Insertions
  <2>1. TreeLink(acc.tree, acc.last, found) \in Trees
    BY <1>2, <1>3, <1>5, TreeLinkIsTree
  <2> QED BY <2>1, <1>2, <1>5 DEF Insertions, Entries
<1> QED BY <1>1, <1>4, <1>5

\* Inserting the levels of a path, one after another.
LEMMA InsertLevelsIsTree ==
  ASSUME Live \subseteq Nodes, NEW t \in Trees, NEW A, NEW s \in Seq(A),
         \A path \in A : Resolve(At(path)) # Endless
  PROVE  FoldLeft(InsertLevel, [tree |-> t, last |-> TreeRoot], s) \in Insertions
<1> DEFINE base == [tree |-> t, last |-> TreeRoot]
           step == [x \in Insertions \X A |-> InsertLevel(x[1], x[2])]
           L == 1..Len(s)
           Follow(k) == k = [S \in SUBSET L |->
                               IF S = {} THEN base
                               ELSE InsertLevel(k[S \ {Largest(S)}], s[Largest(S)])]
           h == CHOOSE k : Follow(k)
<1>1. DOMAIN s = L /\ \A i \in L : s[i] \in A
  OBVIOUS
<1>2. FoldLeft(InsertLevel, base, s) = h[L]
  BY <1>1 DEF FoldLeft, MapThenFoldSet, Max, Largest
<1>3. base \in Insertions
  BY DEF Insertions, Entries
<1>4. step \in [Insertions \X A -> Insertions]
      /\ \A acc \in Insertions, path \in A : step[<<acc, path>>] = InsertLevel(acc, path)
  <2>1. \A acc \in Insertions, path \in A : InsertLevel(acc, path) \in Insertions
    BY InsertLevelIsTree
  <2> QED BY <2>1
<1> HIDE DEF step, base
<1>5. PICK g : SeqFolded(g, s, Insertions, base, step)
  BY <1>3, <1>4, SeqFoldExists
<1>6. /\ g \in [SUBSET L -> Insertions] /\ g[{}] = base
      /\ \A S \in (SUBSET L) \ {{}} : Largest(S) \in S
      /\ \A S \in (SUBSET L) \ {{}} : g[S] = step[<<g[S \ {Largest(S)}], s[Largest(S)]>>]
  BY <1>5 DEF SeqFolded
<1>7. Follow(g)
  <2>1. ASSUME NEW S \in (SUBSET L) \ {{}}
        PROVE  g[S] = InsertLevel(g[S \ {Largest(S)}], s[Largest(S)])
    <3>1. Largest(S) \in L /\ S \ {Largest(S)} \in SUBSET L
      BY <1>6
    <3>2. g[S \ {Largest(S)}] \in Insertions /\ s[Largest(S)] \in A
      BY <3>1, <1>1, <1>6
    <3> QED BY <3>2, <1>4, <1>6
  <2> HIDE DEF L
  <2> QED BY <2>1, <1>6
<1> HIDE DEF Follow
<1>8. Follow(h)
  BY <1>7
<1> HIDE DEF h
<1> DEFINE T == {S \in SUBSET L : h[S] \in Insertions}
<1>9. h[{}] = base /\ \A S \in (SUBSET L) \ {{}} :
                         h[S] = InsertLevel(h[S \ {Largest(S)}], s[Largest(S)])
  BY <1>8 DEF Follow
<1>10. {} \in T
  BY <1>3, <1>9
<1>11. ASSUME NEW S \in (SUBSET L) \ {{}} PROVE \E x \in S : S \ {x} \in T => S \in T
  <2>1. Largest(S) \in S /\ s[Largest(S)] \in A
    BY <1>1, <1>6
  <2>2. h[S \ {Largest(S)}] \in Insertions => h[S] \in Insertions
    BY <2>1, <1>9, InsertLevelIsTree
  <2> QED BY <2>1, <2>2
<1>12. IsFiniteSet(L)
  <2>1. Len(s) \in Nat
    OBVIOUS
  <2> QED BY <2>1, FS_Interval
<1> HIDE DEF T, L
<1>13. SUBSET L \subseteq T
  BY <1>10, <1>11, <1>12, SubsetInduction
<1>14. L \in T
  BY <1>13
<1> QED BY <1>2, <1>14 DEF T, base

\* No prefix of a path leads to aliases without end.
Resolvable(path) == \A k \in 0..Len(path) : Resolve(At(Prefix(path, k))) # Endless

\* A tree into which a node and those above it are inserted is a tree
\* (AmlNamespaceTreeInsertNode).
LEMMA TreeInsertIsTree ==
  ASSUME Live \subseteq Nodes, NEW t \in Trees, NEW n,
         Len(nodes[n].path) \in Nat, Resolvable(nodes[n].path)
  PROVE  TreeInsertNode(t, n) \in Trees
<1> DEFINE path == nodes[n].path
           A == {Prefix(path, k) : k \in 0..Len(path)}
           levels == [k \in 1..(Len(path) + 1) |-> Prefix(path, k - 1)]
           done == FoldLeft(InsertLevel, [tree |-> t, last |-> TreeRoot], levels)
<1>1. TreeInsertNode(t, n) = IF t[n].in THEN t ELSE done.tree
  BY DEF TreeInsertNode
<1>2. \A p \in A : Resolve(At(p)) # Endless
  BY DEF Resolvable
<1>3. levels \in Seq(A)
  <2>1. \A k \in 1..(Len(path) + 1) : k - 1 \in 0..Len(path)
    OBVIOUS
  <2>2. Len(path) + 1 \in Nat
    OBVIOUS
  <2>3. \A k \in 1..(Len(path) + 1) : Prefix(path, k - 1) \in A
    BY <2>1
  <2> HIDE DEF A
  <2> QED BY <2>2, <2>3
<1> HIDE DEF A, levels
<1>4. done \in Insertions
  BY <1>2, <1>3, InsertLevelsIsTree
<1> HIDE DEF done
<1> QED BY <1>1, <1>4 DEF Insertions

\* Inserting nodes, one after another.
LEMMA InsertAllIsTree ==
  ASSUME Live \subseteq Nodes, NEW t \in Trees, NEW A, NEW s \in Seq(A),
         \A n \in A : Len(nodes[n].path) \in Nat /\ Resolvable(nodes[n].path)
  PROVE  FoldLeft(TreeInsertNode, t, s) \in Trees
<1> DEFINE step == [x \in Trees \X A |-> TreeInsertNode(x[1], x[2])]
           L == 1..Len(s)
           Follow(k) == k = [S \in SUBSET L |->
                               IF S = {} THEN t
                               ELSE TreeInsertNode(k[S \ {Largest(S)}], s[Largest(S)])]
           h == CHOOSE k : Follow(k)
<1>1. DOMAIN s = L /\ \A i \in L : s[i] \in A
  OBVIOUS
<1>2. FoldLeft(TreeInsertNode, t, s) = h[L]
  BY <1>1 DEF FoldLeft, MapThenFoldSet, Max, Largest
<1>3. \A u \in Trees, n \in A : TreeInsertNode(u, n) \in Trees
  BY TreeInsertIsTree
<1>4. step \in [Trees \X A -> Trees] /\ \A u \in Trees, n \in A : step[<<u, n>>] = TreeInsertNode(u, n)
  BY <1>3
<1> HIDE DEF step
<1>5. PICK g : SeqFolded(g, s, Trees, t, step)
  BY <1>4, SeqFoldExists
<1>6. /\ g \in [SUBSET L -> Trees] /\ g[{}] = t
      /\ \A S \in (SUBSET L) \ {{}} : Largest(S) \in S
      /\ \A S \in (SUBSET L) \ {{}} : g[S] = step[<<g[S \ {Largest(S)}], s[Largest(S)]>>]
  BY <1>5 DEF SeqFolded
<1>7. Follow(g)
  <2>1. ASSUME NEW S \in (SUBSET L) \ {{}}
        PROVE  g[S] = TreeInsertNode(g[S \ {Largest(S)}], s[Largest(S)])
    <3>1. Largest(S) \in L /\ S \ {Largest(S)} \in SUBSET L
      BY <1>6
    <3>2. g[S \ {Largest(S)}] \in Trees /\ s[Largest(S)] \in A
      BY <3>1, <1>1, <1>6
    <3> QED BY <3>2, <1>4, <1>6
  <2> HIDE DEF L
  <2> QED BY <2>1, <1>6
<1> HIDE DEF Follow
<1>8. Follow(h)
  BY <1>7
<1> HIDE DEF h
<1>9. h[{}] = t /\ \A S \in (SUBSET L) \ {{}} :
                      h[S] = TreeInsertNode(h[S \ {Largest(S)}], s[Largest(S)])
  BY <1>8 DEF Follow
<1> DEFINE T == {S \in SUBSET L : h[S] \in Trees}
<1>10. {} \in T
  BY <1>9
<1>11. ASSUME NEW S \in (SUBSET L) \ {{}} PROVE \E x \in S : S \ {x} \in T => S \in T
  <2>1. Largest(S) \in S /\ s[Largest(S)] \in A
    BY <1>1, <1>6
  <2>2. h[S \ {Largest(S)}] \in Trees => h[S] \in Trees
    BY <2>1, <1>3, <1>9
  <2> QED BY <2>1, <2>2
<1>12. IsFiniteSet(L)
  <2>1. Len(s) \in Nat
    OBVIOUS
  <2> QED BY <2>1, FS_Interval
<1> HIDE DEF T, L
<1>13. SUBSET L \subseteq T
  BY <1>10, <1>11, <1>12, SubsetInduction
<1>14. L \in T
  BY <1>13
<1> QED BY <1>2, <1>14 DEF T

\* Unlinking nodes, one after another.
LEMMA UnlinkAllIsTree ==
  ASSUME NEW t \in Trees, NEW A \in SUBSET Nodes, NEW s \in Seq(A)
  PROVE  FoldLeft(TreeUnlink, t, s) \in Trees
<1> DEFINE step == [x \in Trees \X A |-> TreeUnlink(x[1], x[2])]
           L == 1..Len(s)
           Follow(k) == k = [S \in SUBSET L |->
                               IF S = {} THEN t
                               ELSE TreeUnlink(k[S \ {Largest(S)}], s[Largest(S)])]
           h == CHOOSE k : Follow(k)
<1>1. DOMAIN s = L /\ \A i \in L : s[i] \in A
  OBVIOUS
<1>2. FoldLeft(TreeUnlink, t, s) = h[L]
  BY <1>1 DEF FoldLeft, MapThenFoldSet, Max, Largest
<1>3. \A u \in Trees, n \in A : TreeUnlink(u, n) \in Trees
  BY TreeUnlinkIsTree
<1>4. step \in [Trees \X A -> Trees] /\ \A u \in Trees, n \in A : step[<<u, n>>] = TreeUnlink(u, n)
  BY <1>3
<1> HIDE DEF step
<1>5. PICK g : SeqFolded(g, s, Trees, t, step)
  BY <1>4, SeqFoldExists
<1>6. /\ g \in [SUBSET L -> Trees] /\ g[{}] = t
      /\ \A S \in (SUBSET L) \ {{}} : Largest(S) \in S
      /\ \A S \in (SUBSET L) \ {{}} : g[S] = step[<<g[S \ {Largest(S)}], s[Largest(S)]>>]
  BY <1>5 DEF SeqFolded
<1>7. Follow(g)
  <2>1. ASSUME NEW S \in (SUBSET L) \ {{}}
        PROVE  g[S] = TreeUnlink(g[S \ {Largest(S)}], s[Largest(S)])
    <3>1. Largest(S) \in L /\ S \ {Largest(S)} \in SUBSET L
      BY <1>6
    <3>2. g[S \ {Largest(S)}] \in Trees /\ s[Largest(S)] \in A
      BY <3>1, <1>1, <1>6
    <3> QED BY <3>2, <1>4, <1>6
  <2> HIDE DEF L
  <2> QED BY <2>1, <1>6
<1> HIDE DEF Follow
<1>8. Follow(h)
  BY <1>7
<1> HIDE DEF h
<1>9. h[{}] = t /\ \A S \in (SUBSET L) \ {{}} :
                      h[S] = TreeUnlink(h[S \ {Largest(S)}], s[Largest(S)])
  BY <1>8 DEF Follow
<1> DEFINE T == {S \in SUBSET L : h[S] \in Trees}
<1>10. {} \in T
  BY <1>9
<1>11. ASSUME NEW S \in (SUBSET L) \ {{}} PROVE \E x \in S : S \ {x} \in T => S \in T
  <2>1. Largest(S) \in S /\ s[Largest(S)] \in A
    BY <1>1, <1>6
  <2>2. h[S \ {Largest(S)}] \in Trees => h[S] \in Trees
    BY <2>1, <1>3, <1>9
  <2> QED BY <2>1, <2>2
<1>12. IsFiniteSet(L)
  <2>1. Len(s) \in Nat
    OBVIOUS
  <2> QED BY <2>1, FS_Interval
<1> HIDE DEF T, L
<1>13. SUBSET L \subseteq T
  BY <1>10, <1>11, <1>12, SubsetInduction
<1>14. L \in T
  BY <1>13
<1> QED BY <1>2, <1>14 DEF T

-----------------------------------------------------------------------------
(* The temporary lists. *)

\* s is the list of nodes of nd that begins with first, from its end: every node's
\* Next is the node before it in s, that is the one that was created before it.
Linked(nd, s, first) ==
  /\ s \in Seq(Nodes)
  /\ first = IF Len(s) = 0 THEN Null ELSE s[Len(s)]
  /\ \A i \in 1..Len(s) :
       s[i] \in DOMAIN nd /\ nd[s[i]].next = IF i = 1 THEN Null ELSE s[i - 1]
  /\ \A i, j \in 1..Len(s) : s[i] = s[j] => i = j

Members(s) == {s[i] : i \in 1..Len(s)}

\* Following a list meets its nodes and ends.
LEMMA ChainIs ==
  ASSUME Live \subseteq Nodes, \A n \in Live : nodes[n].next \in Pointer,
         NEW s, NEW first, Linked(nodes, s, first)
  PROVE  /\ Chain(first) \in Seq(Nodes) /\ Len(Chain(first)) = Len(s)
         /\ \A i \in 1..Len(s) : Chain(first)[i] = s[Len(s) + 1 - i]
<1> DEFINE c == Cardinality(Nodes)
           base == [n \in Pointer |-> <<>>]
           step == [g \in [Pointer -> Seq(Nodes)] |->
                      [n \in Pointer |-> IF n = Null THEN <<>>
                                         ELSE IF n \notin Live THEN <<n>>
                                         ELSE <<n>> \o g[nodes[n].next]]]
           From(i) == IF i = 0 THEN Null ELSE s[i]
           Rest(r, i) == r \in Seq(Nodes) /\ Len(r) = i /\ \A j \in 1..i : r[j] = s[i + 1 - j]
<1>1. c \in Nat
  BY NamespaceAssumption, FS_CardinalityType
<1>2. base \in [Pointer -> Seq(Nodes)]
  OBVIOUS
<1>3. \A n \in Pointer : n # Null => n \in Nodes
  BY DEF Pointer
<1>4. step \in [[Pointer -> Seq(Nodes)] -> [Pointer -> Seq(Nodes)]]
  <2> SUFFICES ASSUME NEW g \in [Pointer -> Seq(Nodes)], NEW n \in Pointer, n # Null
               PROVE  <<n>> \in Seq(Nodes)
                        /\ (n \in Live => <<n>> \o g[nodes[n].next] \in Seq(Nodes))
    OBVIOUS
  <2>1. <<n>> \in Seq(Nodes)
    BY <1>3
  <2>2. n \in Live => g[nodes[n].next] \in Seq(Nodes)
    OBVIOUS
  <2> QED BY <2>1, <2>2
<1>5. \A g \in [Pointer -> Seq(Nodes)] : step[g] =
        [n \in Pointer |-> IF n = Null THEN <<>>
                           ELSE IF n \notin Live THEN <<n>> ELSE <<n>> \o g[nodes[n].next]]
  OBVIOUS
<1> HIDE DEF c, step
<1>6. PICK f : Continued(f, c, [Pointer -> Seq(Nodes)], base, step)
  BY <1>1, <1>2, <1>4, Recursion
<1>7. /\ f \in [0..c -> [Pointer -> Seq(Nodes)]] /\ f[0] = base
      /\ \A k \in 1..c : f[k] = step[f[k - 1]]
  BY <1>6 DEF Continued
<1> DEFINE Follow(h) == h = [k \in 0..c |->
             [n \in Pointer |-> IF k = 0 \/ n = Null THEN <<>>
                                ELSE IF n \notin Live THEN <<n>>
                                ELSE <<n>> \o h[k - 1][nodes[n].next]]]
           h == CHOOSE h : Follow(h)
<1>8. Follow(f)
  <2> SUFFICES ASSUME NEW k \in 0..c
               PROVE  f[k] = [n \in Pointer |-> IF k = 0 \/ n = Null THEN <<>>
                                ELSE IF n \notin Live THEN <<n>>
                                ELSE <<n>> \o f[k - 1][nodes[n].next]]
    BY <1>7
  <2>1. CASE k = 0
    BY <2>1, <1>7
  <2>2. CASE k # 0
    <3>1. k \in 1..c /\ k - 1 \in 0..c
      BY <2>2, <1>1
    <3>2. f[k] = step[f[k - 1]] /\ f[k - 1] \in [Pointer -> Seq(Nodes)]
      BY <3>1, <1>7
    <3> QED BY <3>2, <2>2, <1>5
  <2> QED BY <2>1, <2>2
<1>9. Chain(first) = h[c][first]
  BY DEF Chain, c, Pointer
<1> HIDE DEF Follow
<1>10. Follow(h)
  BY <1>8
<1> HIDE DEF h
<1>11. ASSUME NEW k \in 0..c, NEW n \in Pointer
       PROVE  h[k][n] = IF k = 0 \/ n = Null THEN <<>>
                        ELSE IF n \notin Live THEN <<n>>
                        ELSE <<n>> \o h[k - 1][nodes[n].next]
  <2>1. h[k] = [x \in Pointer |-> IF k = 0 \/ x = Null THEN <<>>
                                ELSE IF x \notin Live THEN <<x>>
                                ELSE <<x>> \o h[k - 1][nodes[x].next]]
    BY <1>10 DEF Follow
  <2> QED BY <2>1
<1>12. /\ s \in Seq(Nodes) /\ Len(s) \in Nat /\ Len(s) <= c
       /\ \A i \in 1..Len(s) : /\ s[i] \in Live /\ s[i] \in Nodes /\ s[i] # Null
                               /\ nodes[s[i]].next = IF i = 1 THEN Null ELSE s[i - 1]
  <2>1. s \in Seq(Nodes) /\ \A i, j \in 1..Len(s) : s[i] = s[j] => i = j
    BY DEF Linked
  <2>2. Len(s) <= c
    BY <2>1, NamespaceAssumption, DifferentIsShort DEF c
  <2>3. Null \notin Nodes
    BY NamespaceAssumption
  <2>4. \A i \in 1..Len(s) : s[i] \in Live /\ nodes[s[i]].next = IF i = 1 THEN Null ELSE s[i - 1]
    BY DEF Linked, Live
  <2> QED BY <2>1, <2>2, <2>3, <2>4
<1> DEFINE S == {i \in Nat : i <= Len(s) => \A k \in i..c : Rest(h[k][From(i)], i)}
<1>13. 0 \in S
  <2>1. ASSUME NEW k \in 0..c PROVE h[k][Null] = <<>>
    BY <1>11 DEF Pointer
  <2>2. Rest(<<>>, 0)
    OBVIOUS
  <2> HIDE DEF Rest
  <2> QED BY <2>1, <2>2
<1>14. ASSUME NEW i \in Nat, i \in S PROVE i + 1 \in S
  <2> SUFFICES ASSUME i + 1 <= Len(s), NEW k \in (i + 1)..c
               PROVE  Rest(h[k][From(i + 1)], i + 1)
    OBVIOUS
  <2>1. /\ i + 1 \in 1..Len(s) /\ i <= Len(s) /\ k \in 0..c /\ k # 0 /\ k - 1 \in i..c
        /\ From(i + 1) = s[i + 1] /\ (i + 1) - 1 = i
    BY <1>1, <1>12
  <2>2. PICK n : n = s[i + 1]
    OBVIOUS
  <2>3. n \in Live /\ n \in Nodes /\ n # Null /\ nodes[n].next = From(i)
    BY <2>1, <2>2, <1>12
  <2>4. h[k][n] = <<n>> \o h[k - 1][From(i)]
    <3>1. n \in Pointer
      BY <2>3 DEF Pointer
    <3>2. h[k][n] = <<n>> \o h[k - 1][nodes[n].next]
      BY <2>1, <2>3, <3>1, <1>11
    <3> HIDE DEF From
    <3> QED BY <2>3, <3>2
  <2>5. PICK r : r = h[k - 1][From(i)]
    OBVIOUS
  <2>6. Rest(r, i)
    <3> HIDE DEF Rest, From
    <3> QED BY <2>1, <2>5, <1>14
  <2>7. PICK q : q = <<n>> \o r
    OBVIOUS
  <2>8. q \in Seq(Nodes) /\ Len(q) = i + 1 /\ q[1] = n /\ \A j \in 1..i : q[j + 1] = r[j]
    BY <2>3, <2>6, <2>7
  <2>9. ASSUME NEW j \in 1..(i + 1) PROVE q[j] = s[(i + 1) + 1 - j]
    <3>1. CASE j = 1
      <4>1. (i + 1) + 1 - j = i + 1
        BY <3>1
      <4> QED BY <3>1, <4>1, <2>2, <2>8
    <3>2. CASE j # 1
      <4>1. j - 1 \in 1..i /\ (j - 1) + 1 = j /\ i + 1 - (j - 1) = (i + 1) + 1 - j
        BY <3>2
      <4>2. q[j] = r[j - 1]
        BY <4>1, <2>8
      <4>3. r[j - 1] = s[i + 1 - (j - 1)]
        BY <4>1, <2>6
      <4> QED BY <4>1, <4>2, <4>3
    <3> QED BY <3>1, <3>2
  <2>10. Rest(q, i + 1)
    BY <2>8, <2>9
  <2>11. q = h[k][From(i + 1)]
    BY <2>1, <2>2, <2>4, <2>5, <2>7
  <2> HIDE DEF Rest
  <2> QED BY <2>10, <2>11
<1> HIDE DEF S
<1>15. Len(s) \in S
  BY <1>12, <1>13, <1>14, SetInduction
<1>16. Rest(h[c][From(Len(s))], Len(s))
  <2> HIDE DEF Rest, From
  <2>1. c \in Len(s)..c
    BY <1>1, <1>12
  <2> QED BY <2>1, <1>12, <1>15 DEF S
<1>17. first = From(Len(s))
  BY <1>12 DEF Linked
<1> QED BY <1>9, <1>16, <1>17

\* It meets each of them once.
LEMMA ChainMembers ==
  ASSUME Live \subseteq Nodes, \A n \in Live : nodes[n].next \in Pointer,
         NEW s, NEW first, Linked(nodes, s, first)
  PROVE  /\ Chain(first) \in Seq(Members(s)) /\ ToSet(Chain(first)) = Members(s)
         /\ IsInjective(Chain(first)) /\ Members(s) \subseteq Live
<1>1. PICK r : r = Chain(first)
  OBVIOUS
<1>2. /\ r \in Seq(Nodes) /\ Len(r) = Len(s) /\ Len(s) \in Nat /\ DOMAIN r = 1..Len(s)
      /\ \A i \in 1..Len(s) : r[i] = s[Len(s) + 1 - i]
  <2>1. r \in Seq(Nodes) /\ Len(r) = Len(s) /\ \A i \in 1..Len(s) : r[i] = s[Len(s) + 1 - i]
    BY <1>1, ChainIs
  <2>2. Len(r) \in Nat /\ DOMAIN r = 1..Len(r)
    BY <2>1
  <2> QED BY <2>1, <2>2
<1>3. \A i, j \in 1..Len(s) : s[i] = s[j] => i = j
  BY DEF Linked
<1>4. \A i \in 1..Len(s) : Len(s) + 1 - i \in 1..Len(s) /\ Len(s) + 1 - (Len(s) + 1 - i) = i
  BY <1>2
<1>5. ASSUME NEW i \in 1..Len(s) PROVE r[i] \in Members(s) /\ s[i] \in ToSet(r)
  <2>1. r[i] \in Members(s)
    BY <1>2, <1>4 DEF Members
  <2>2. s[i] = r[Len(s) + 1 - i]
    BY <1>2, <1>4
  <2> QED BY <2>1, <2>2, <1>2, <1>4 DEF ToSet
<1>6. ToSet(r) = Members(s)
  BY <1>2, <1>5 DEF ToSet, Members
<1>7. r \in Seq(Members(s))
  BY <1>2, <1>5
<1>8. IsInjective(r)
  <2> SUFFICES ASSUME NEW i \in 1..Len(s), NEW j \in 1..Len(s), r[i] = r[j] PROVE i = j
    BY <1>2 DEF IsInjective
  <2>1. s[Len(s) + 1 - i] = s[Len(s) + 1 - j]
    BY <1>2
  <2>2. Len(s) + 1 - i = Len(s) + 1 - j
    BY <2>1, <1>3, <1>4
  <2> QED BY <2>2, <1>2
<1>9. Members(s) \subseteq Live
  BY DEF Linked, Members, Live
<1> QED BY <1>1, <1>6, <1>7, <1>8, <1>9

-----------------------------------------------------------------------------
(* The list of evaluation order. *)

\* A list that has every node once, the root first.
Ordered(s) ==
  /\ s \in Seq(Nodes) /\ Len(s) > 0 /\ s[1] = RootNode
  /\ \A i, j \in 1..Len(s) : s[i] = s[j] => i = j

\* What is left of it when nodes other than the root are released.
LEMMA UnlistedIs ==
  ASSUME Ordered(order), NEW gone, RootNode \notin gone
  PROVE  Ordered(Unlisted(gone)) /\ Members(Unlisted(gone)) = Members(order) \ gone
<1> DEFINE D == Seq(Nodes)
           Keep(kept, n) == IF n \in gone THEN kept ELSE Append(kept, n)
           step == [x \in D \X Nodes |-> Keep(x[1], x[2])]
           N == Len(order)
           L == 1..N
           Follow(k) == k = [S \in SUBSET L |->
                               IF S = {} THEN <<>>
                               ELSE Keep(k[S \ {Largest(S)}], order[Largest(S)])]
           h == CHOOSE k : Follow(k)
           First(k) == {order[i] : i \in 1..k}
           Kept(r, k) ==
             /\ r \in D /\ \A i, j \in 1..Len(r) : r[i] = r[j] => i = j
             /\ Members(r) = First(k) \ gone
             /\ k = 0 => Len(r) = 0
             /\ k > 0 => Len(r) > 0 /\ r[1] = RootNode
           K == {k \in Nat : k <= N => Kept(h[1..k], k)}
<1>1. /\ order \in Seq(Nodes) /\ N \in Nat /\ N > 0 /\ order[1] = RootNode
      /\ DOMAIN order = L /\ \A i \in L : order[i] \in Nodes
      /\ \A i, j \in L : order[i] = order[j] => i = j
  BY DEF Ordered
<1>2. Unlisted(gone) = FoldLeft(Keep, <<>>, order)
  <2>1. Head(order) = RootNode
    BY <1>1
  <2> QED BY <2>1 DEF Unlisted
<1>3. FoldLeft(Keep, <<>>, order) = h[L]
  BY <1>1 DEF FoldLeft, MapThenFoldSet, Max, Largest
<1>4. step \in [D \X Nodes -> D] /\ \A r \in D, n \in Nodes : step[<<r, n>>] = Keep(r, n)
  <2>1. \A r \in D, n \in Nodes : Keep(r, n) \in D
    OBVIOUS
  <2> HIDE DEF Keep, D
  <2> QED BY <2>1
<1> HIDE DEF step
<1>5. PICK g : SeqFolded(g, order, D, <<>>, step)
  <2>1. <<>> \in D
    OBVIOUS
  <2> HIDE DEF D
  <2> QED BY <1>1, <1>4, <2>1, SeqFoldExists
<1>6. /\ g \in [SUBSET L -> D] /\ g[{}] = <<>>
      /\ \A S \in (SUBSET L) \ {{}} : Largest(S) \in S
      /\ \A S \in (SUBSET L) \ {{}} : g[S] = step[<<g[S \ {Largest(S)}], order[Largest(S)]>>]
  BY <1>5 DEF SeqFolded
<1> HIDE DEF D
<1>7. Follow(g)
  <2>1. ASSUME NEW S \in (SUBSET L) \ {{}}
        PROVE  g[S] = Keep(g[S \ {Largest(S)}], order[Largest(S)])
    <3>1. Largest(S) \in L /\ S \ {Largest(S)} \in SUBSET L
      BY <1>6
    <3>2. g[S \ {Largest(S)}] \in D /\ order[Largest(S)] \in Nodes
      BY <3>1, <1>1, <1>6
    <3> HIDE DEF Keep
    <3> QED BY <3>2, <1>4, <1>6
  <2> HIDE DEF L, Keep
  <2> QED BY <2>1, <1>6
<1> HIDE DEF Follow
<1>8. Follow(h)
  BY <1>7
<1> HIDE DEF h
<1>9. h[{}] = <<>> /\ \A S \in (SUBSET L) \ {{}} :
                         h[S] = Keep(h[S \ {Largest(S)}], order[Largest(S)])
  BY <1>8 DEF Follow
<1>10. 0 \in K
  <2>1. 1..0 = {} /\ h[1..0] = <<>>
    BY <1>9
  <2>2. Kept(<<>>, 0)
    <3>1. Members(<<>>) = {} /\ First(0) = {}
      BY <2>1 DEF Members
    <3> QED BY <3>1 DEF D
  <2> HIDE DEF Kept
  <2> QED BY <2>1, <2>2
<1>11. ASSUME NEW k \in Nat, k \in K PROVE k + 1 \in K
  <2> SUFFICES ASSUME k + 1 <= N PROVE Kept(h[1..(k + 1)], k + 1)
    OBVIOUS
  <2>1. k \in Nat /\ k <= N /\ k + 1 \in L /\ k + 1 > 0 /\ (k + 1) - 1 = k
    BY <1>1
  <2>2. Largest(1..(k + 1)) = k + 1 /\ (1..(k + 1)) \ {k + 1} = 1..k
    BY <2>1, LargestOfFirst
  <2>3. PICK r : r = h[1..k]
    OBVIOUS
  <2>4. h[1..(k + 1)] = Keep(r, order[k + 1])
    <3>1. 1..(k + 1) \in (SUBSET L) \ {{}}
      BY <2>1
    <3> HIDE DEF Keep
    <3> QED BY <3>1, <2>2, <2>3, <1>9
  <2>5. Kept(r, k)
    <3> HIDE DEF Kept
    <3> QED BY <2>1, <2>3, <1>11
  <2>6. First(k + 1) = First(k) \cup {order[k + 1]} /\ order[k + 1] \notin First(k)
    <3>1. order[k + 1] \notin First(k)
      BY <2>1, <1>1
    <3> QED BY <3>1, <2>1
  <2>7. CASE order[k + 1] \in gone
    <3>1. k # 0
      BY <2>7, <1>1
    <3>2. First(k + 1) \ gone = First(k) \ gone
      BY <2>6, <2>7
    <3> HIDE DEF First
    <3>3. Kept(r, k + 1)
      BY <2>5, <3>1, <3>2
    <3> QED BY <2>4, <2>7, <3>3
  <2>8. CASE order[k + 1] \notin gone
    <3>1. PICK q : q = Append(r, order[k + 1])
      OBVIOUS
    <3>2. /\ r \in Seq(Nodes) /\ Len(r) \in Nat /\ order[k + 1] \in Nodes
          /\ q \in Seq(Nodes) /\ Len(q) = Len(r) + 1 /\ q[Len(r) + 1] = order[k + 1]
          /\ \A i \in 1..Len(r) : q[i] = r[i]
      <4>1. r \in Seq(Nodes) /\ order[k + 1] \in Nodes
        BY <2>1, <2>5, <1>1 DEF D
      <4> HIDE DEF Kept
      <4> QED BY <3>1, <4>1
    <3>3. \A i \in 1..Len(r) : r[i] \in First(k)
      BY <2>5 DEF Members
    <3>4. ASSUME NEW i \in 1..Len(q), NEW j \in 1..Len(q), q[i] = q[j] PROVE i = j
      <4>1. \A x \in 1..Len(q) : x \in 1..Len(r) \/ x = Len(r) + 1
        BY <3>2
      <4>2. CASE i \in 1..Len(r) /\ j \in 1..Len(r)
        BY <4>2, <3>2, <3>4, <2>5
      <4>3. CASE i = Len(r) + 1 /\ j \in 1..Len(r)
        BY <4>3, <3>2, <3>3, <3>4, <2>6
      <4>4. CASE j = Len(r) + 1 /\ i \in 1..Len(r)
        BY <4>4, <3>2, <3>3, <3>4, <2>6
      <4> QED BY <4>1, <4>2, <4>3, <4>4
    <3>5. Members(q) = Members(r) \cup {order[k + 1]}
      <4>1. 1..Len(q) = (1..Len(r)) \cup {Len(r) + 1}
        BY <3>2
      <4> QED BY <4>1, <3>2 DEF Members
    <3>6. Members(q) = First(k + 1) \ gone
      BY <2>5, <2>6, <2>8, <3>5
    <3>7. q[1] = RootNode
      <4>1. CASE k = 0
        <5>1. Len(r) = 0
          BY <2>5, <4>1
        <5> QED BY <4>1, <5>1, <3>2, <1>1
      <4>2. CASE k # 0
        <5>1. Len(r) > 0 /\ r[1] = RootNode
          BY <2>5, <4>2
        <5> QED BY <5>1, <3>2
      <4> QED BY <4>1, <4>2
    <3>8. Kept(q, k + 1)
      <4> HIDE DEF First
      <4> QED BY <3>2, <3>4, <3>6, <3>7 DEF D
    <3> QED BY <2>4, <2>8, <3>1, <3>8
  <2> QED BY <2>7, <2>8
<1> HIDE DEF K
<1>12. N \in K
  BY <1>1, <1>10, <1>11, SetInduction
<1>13. Kept(Unlisted(gone), N)
  <2> HIDE DEF Kept
  <2>1. Kept(h[1..N], N)
    <3> HIDE DEF N
    <3> QED BY <1>1, <1>12 DEF K
  <2> HIDE DEF N
  <2> QED BY <1>2, <1>3, <2>1
<1>14. First(N) = Members(order)
  BY DEF Members
<1> QED BY <1>1, <1>13, <1>14 DEF Ordered, D

-----------------------------------------------------------------------------
(* The invariant. *)

Segments == UNION {ToSet(s.segs) : s \in NameStrings}
Paths == Seq(Segments)

Kinds == {"scope", "method", "name", "alias"}
NodeRecords == [path : Paths, kind : Kinds, dest : AliasNames \cup {NoDest}, temp : 0..MaxLevel,
                flagged : BOOLEAN, next : Pointer, owner : 0..MaxLevel]
ScopeRecords == [path : Paths, flagged : BOOLEAN, call : Pointer]

TypesOK ==
  /\ nodes \in [Live -> NodeRecords] /\ Live \subseteq Nodes
  /\ \A n \in Live : Len(nodes[n].path) <= MaxPath
  /\ scopes \in Seq(ScopeRecords) /\ Level \in 1..MaxLevel
  /\ heads \in [1..MaxLevel -> Pointer] /\ tree \in Trees
  /\ built \in BOOLEAN /\ recursed \in BOOLEAN /\ inner \in BOOLEAN /\ late \in BOOLEAN

\* The table and the list of evaluation order.
TableOK ==
  /\ Ordered(order) /\ Members(order) = Live
  /\ \A m, n \in Live : nodes[m].path = nodes[n].path => m = n

\* Whatever is below a method, or one itself, is flagged.
FlagsOK ==
  \A n \in Live : nodes[n].temp # 0 \/ nodes[n].kind = "method" => nodes[n].flagged

\* ls has the temporary lists of the scopes, whether the scopes release them or
\* not: what they hold is below methods, and in one list only.
Listed(ls) ==
  /\ \A l \in 1..Level :
       /\ Linked(nodes, ls[l], heads[l]) /\ RootNode \notin Members(ls[l])
       /\ \A n \in Members(ls[l]) : nodes[n].flagged
  /\ \A k, l \in 1..Level : k # l => Members(ls[k]) \cap Members(ls[l]) = {}

\* As long as no method is called while it is running: a call's method exists
\* until the call is over, and leads new nodes to the list of the call.
CallsOK(ls) ==
  /\ \A l \in 1..Level : scopes[l].call # Null =>
       /\ scopes[l].flagged /\ scopes[l].call \in Live
       /\ nodes[scopes[l].call].kind = "method" /\ nodes[scopes[l].call].temp = l
  /\ \A k, l \in 1..Level : scopes[k].call \in Members(ls[l]) => l < k

\* And a node that a call has created is in the list of the call.
OwnersOK(ls) ==
  \A n \in Live : nodes[n].owner # 0 =>
    /\ nodes[n].owner <= Level /\ scopes[nodes[n].owner].flagged
    /\ n \in Members(ls[nodes[n].owner])
    /\ nodes[n].kind # "method" => nodes[n].temp = nodes[n].owner

NamespaceInv ==
  /\ TypesOK /\ TableOK /\ FlagsOK
  /\ \E ls : Listed(ls) /\ (~recursed => CallsOK(ls) /\ OwnersOK(ls))

-----------------------------------------------------------------------------
(* Lists that grow and lists that stay. *)

\* The list of a scope that has just been pushed (AmlNamespacePushScope).
LEMMA LinkedEmpty ==
  ASSUME NEW nd PROVE Linked(nd, <<>>, Null) /\ Members(<<>>) = {}
<1>1. Len(<<>>) = 0 /\ 1..0 = {} /\ <<>> \in Seq(Nodes)
  OBVIOUS
<1> QED BY <1>1 DEF Linked, Members

\* A list stays as long as its nodes do and their Next does not change.
LEMMA LinkedFrame ==
  ASSUME NEW nd, NEW nd2, NEW s, NEW first, Linked(nd, s, first),
         \A m \in Members(s) : m \in DOMAIN nd2 /\ nd2[m].next = nd[m].next
  PROVE  Linked(nd2, s, first)
<1>1. \A i \in 1..Len(s) : s[i] \in Members(s)
  BY DEF Members
<1>2. \A i \in 1..Len(s) : s[i] \in DOMAIN nd2 /\ nd2[s[i]].next = nd[s[i]].next
  BY <1>1
<1> QED BY <1>2 DEF Linked

\* The members of a sequence are those before and the one that is appended.
LEMMA AppendMembers ==
  ASSUME NEW A, NEW s \in Seq(A), NEW a \in A
  PROVE  Members(Append(s, a)) = Members(s) \cup {a}
<1>1. PICK t : t = Append(s, a)
  OBVIOUS
<1>2. /\ Len(s) \in Nat /\ Len(t) = Len(s) + 1 /\ t[Len(s) + 1] = a
      /\ \A i \in 1..Len(s) : t[i] = s[i]
  BY <1>1
<1>3. 1..Len(t) = (1..Len(s)) \cup {Len(s) + 1}
  BY <1>2
<1>4. Members(t) = Members(s) \cup {a}
  BY <1>2, <1>3 DEF Members
<1> QED BY <1>1, <1>4

\* A new node is the head, and its Next the head before.
LEMMA LinkedAppend ==
  ASSUME NEW nd, NEW nd2, NEW s, NEW first, Linked(nd, s, first),
         NEW n \in Nodes, n \notin DOMAIN nd, DOMAIN nd2 = DOMAIN nd \cup {n},
         \A m \in DOMAIN nd : nd2[m].next = nd[m].next, nd2[n].next = first
  PROVE  Linked(nd2, Append(s, n), n)
<1>1. PICK t : t = Append(s, n)
  OBVIOUS
<1>2. /\ s \in Seq(Nodes) /\ Len(s) \in Nat
      /\ first = IF Len(s) = 0 THEN Null ELSE s[Len(s)]
      /\ \A i \in 1..Len(s) :
           s[i] \in DOMAIN nd /\ nd[s[i]].next = IF i = 1 THEN Null ELSE s[i - 1]
      /\ \A i, j \in 1..Len(s) : s[i] = s[j] => i = j
  BY DEF Linked
<1>3. /\ t \in Seq(Nodes) /\ Len(t) = Len(s) + 1 /\ t[Len(s) + 1] = n
      /\ \A i \in 1..Len(s) : t[i] = s[i]
  BY <1>1, <1>2
<1>4. \A i \in 1..Len(t) : i \in 1..Len(s) \/ i = Len(s) + 1
  BY <1>2, <1>3
<1>5. ASSUME NEW i \in 1..Len(t)
      PROVE  t[i] \in DOMAIN nd2 /\ nd2[t[i]].next = IF i = 1 THEN Null ELSE t[i - 1]
  <2>1. CASE i \in 1..Len(s)
    <3>1. t[i] = s[i] /\ s[i] \in DOMAIN nd
      BY <2>1, <1>2, <1>3
    <3>2. i # 1 => t[i - 1] = s[i - 1]
      BY <2>1, <1>2, <1>3
    <3> QED BY <2>1, <3>1, <3>2, <1>2
  <2>2. CASE i = Len(s) + 1
    <3>1. t[i] = n /\ i - 1 = Len(s)
      BY <2>2, <1>2, <1>3
    <3>2. CASE Len(s) = 0
      BY <2>2, <3>1, <3>2, <1>2
    <3>3. CASE Len(s) # 0
      <4>1. Len(s) \in 1..Len(s) /\ i # 1
        BY <2>2, <3>3, <1>2
      <4> QED BY <3>1, <3>3, <4>1, <1>2, <1>3
    <3> QED BY <3>2, <3>3
  <2> QED BY <2>1, <2>2, <1>4
<1>6. ASSUME NEW i \in 1..Len(t), NEW j \in 1..Len(t), t[i] = t[j] PROVE i = j
  <2>1. \A x \in 1..Len(s) : t[x] \in DOMAIN nd
    BY <1>2, <1>3
  <2>2. CASE i \in 1..Len(s) /\ j \in 1..Len(s)
    BY <2>2, <1>2, <1>3, <1>6
  <2>3. CASE i = Len(s) + 1 /\ j \in 1..Len(s)
    BY <2>1, <2>3, <1>3, <1>6
  <2>4. CASE j = Len(s) + 1 /\ i \in 1..Len(s)
    BY <2>1, <2>4, <1>3, <1>6
  <2> QED BY <2>2, <2>3, <2>4, <1>4
<1>7. n = IF Len(t) = 0 THEN Null ELSE t[Len(t)]
  BY <1>2, <1>3
<1> QED BY <1>1, <1>3, <1>5, <1>6, <1>7 DEF Linked

-----------------------------------------------------------------------------
(* The steps. *)

\* An absolute name that exists is a path.
LEMMA AbsoluteIsPath ==
  ASSUME NEW scope \in Paths, NEW name \in NameStrings, Absolute(scope, name) # NoPath
  PROVE  Absolute(scope, name) \in Paths
<1> DEFINE segs == name.segs
           up == name.up
<1>1. segs \in Paths
  <2>1. segs \in Seq(ToSet(segs))
    BY NamespaceAssumption
  <2>2. ToSet(segs) \subseteq Segments
    BY DEF Segments
  <2> HIDE DEF segs
  <2> QED BY <2>1, <2>2 DEF Paths
<1>2. up \in Nat
  BY NamespaceAssumption
<1>3. Absolute(scope, name) = IF name.root THEN segs
                             ELSE IF up > Len(scope) THEN NoPath
                             ELSE SubSeq(scope, 1, Len(scope) - up) \o segs
  BY DEF Absolute
<1> HIDE DEF segs, up
<1>4. up <= Len(scope) => SubSeq(scope, 1, Len(scope) - up) \in Paths
  BY <1>2 DEF Paths
<1>5. ~(up > Len(scope)) => up <= Len(scope)
  BY <1>2 DEF Paths
<1>6. \A p \in Paths : p \o segs \in Paths
  BY <1>1 DEF Paths
<1> QED BY <1>1, <1>3, <1>4, <1>5, <1>6

\* The parent of a path is a node that exists, if there is one.
LEMMA ParentIsLive ==
  ASSUME Live \subseteq Nodes, NEW path, ParentOf(path) # Endless
  PROVE  ParentOf(path) \in Live \cup {Null}
<1>1. At(Front1(path)) \in Live \cup {Null}
  BY AtIsLive
<1>2. Resolve(At(Front1(path))) \in Live \cup {Null, Endless}
  BY <1>1, ResolveIsLive
<1> QED BY <1>2 DEF ParentOf

\* The innermost call is a call.
LEMMA CallIs ==
  ASSUME Level \in Nat, NEW m
  PROVE  /\ CallOf(m) \in 0..Level
         /\ CallOf(m) # 0 => CallOf(m) \in 1..Level /\ scopes[CallOf(m)].call = m
         /\ CallOf(m) = 0 => \A l \in 1..Level : scopes[l].call # m
<1> DEFINE calls == {l \in 1..Level : scopes[l].call = m}
<1>1. CASE calls = {}
  <2>1. CallOf(m) = 0
    BY <1>1 DEF CallOf
  <2> QED BY <2>1, <1>1
<1>2. CASE calls # {}
  <2>1. \E l \in calls : \A k \in calls : k <= l
    <3>1. calls \in SUBSET (1..Level)
      OBVIOUS
    <3> HIDE DEF calls
    <3> QED BY <3>1, <1>2, GreatestElement
  <2>2. CallOf(m) = CHOOSE l \in calls : \A k \in calls : k <= l
    BY <1>2 DEF CallOf
  <2>3. CallOf(m) \in calls
    <3> HIDE DEF calls
    <3> QED BY <2>1, <2>2
  <2> QED BY <2>3
<1> QED BY <1>1, <1>2

\* What the creation of a node does to the scopes: nothing, or a new scope at the
\* top, which is no call and has an empty list.
Scoped(n) ==
  /\ scopes' \in Seq(ScopeRecords) /\ Level' \in 1..MaxLevel /\ Level' \in {Level, Level + 1}
  /\ heads' \in [1..MaxLevel -> Pointer]
  /\ \A l \in 1..Level : scopes'[l] = scopes[l] /\ heads'[l] = Headed(n, nodes'[n].temp)[l]
  /\ Level' = Level + 1 => scopes'[Level + 1].call = Null /\ heads'[Level + 1] = Null

\* The node joins the lists of its parent's scope, with its call.
LEMMA CreateKeepsInv ==
  ASSUME NamespaceInv, NEW n \in Nodes, NEW name \in NameStrings, NEW kind \in Kinds,
         NEW dest \in AliasNames \cup {NoDest}, CreateNode(n, name, kind, dest), Scoped(n)
  PROVE  NamespaceInv'
<1> DEFINE path == Absolute(Here, name)
           parent == ParentOf(path)
           made == NewNode(path, parent, kind, dest)
           temp == IF parent = Null THEN 0 ELSE nodes[parent].temp
           owner == OwnerBelow(parent)
<1>1. /\ n \notin Live /\ path # NoPath /\ Len(path) <= MaxPath /\ At(path) = Null
      /\ parent # Endless
      /\ nodes' = [m \in Live \cup {n} |-> IF m = n THEN made ELSE nodes[m]]
      /\ order' = Append(order, n)
      /\ tree' = IF parent # Null /\ InTree(parent) THEN TreeLink(tree, parent, n) ELSE tree
      /\ late' \in BOOLEAN /\ built' = built /\ recursed' = recursed /\ inner' = inner
  BY DEF CreateNode
<1>2. TypesOK /\ TableOK /\ FlagsOK
  BY DEF NamespaceInv
<1>3. /\ nodes \in [Live -> NodeRecords] /\ Live \subseteq Nodes /\ scopes \in Seq(ScopeRecords)
      /\ Level \in Nat /\ Level \in 1..MaxLevel /\ heads \in [1..MaxLevel -> Pointer]
      /\ tree \in Trees /\ MaxLevel \in Nat
  BY <1>2, NamespaceAssumption DEF TypesOK
<1>4. path \in Paths
  <2>1. Here \in Paths
    <3>1. scopes[Level] \in ScopeRecords
      BY <1>3 DEF Level
    <3> QED BY <3>1 DEF Here, ScopeRecords
  <2> QED BY <2>1, <1>1, AbsoluteIsPath
<1>5. parent \in Live \cup {Null} /\ (parent # Null => nodes[parent] \in NodeRecords)
  <2>1. parent \in Live \cup {Null}
    BY <1>1, <1>3, ParentIsLive
  <2> QED BY <2>1, <1>3
<1>6. made = [path |-> path, kind |-> kind, dest |-> dest, temp |-> temp,
              flagged |-> kind = "method" \/ (parent # Null /\ nodes[parent].flagged),
              next |-> IF temp = 0 THEN Null ELSE heads[temp], owner |-> owner]
  BY DEF NewNode
<1>7. owner = IF parent = Null THEN 0
              ELSE IF nodes[parent].kind = "method" THEN CallOf(parent)
              ELSE nodes[parent].owner
  BY DEF OwnerBelow
<1> HIDE DEF made, owner, parent, path
<1>8. temp \in 0..MaxLevel /\ (temp # 0 => parent \in Live /\ nodes[parent].temp = temp /\ nodes[parent].flagged)
  <2>1. parent # Null => nodes[parent].temp \in 0..MaxLevel
    BY <1>5 DEF NodeRecords
  <2> QED BY <2>1, <1>2, <1>3, <1>5 DEF FlagsOK
<1> HIDE DEF temp
<1>9. owner \in 0..MaxLevel
  <2>1. CallOf(parent) \in 0..MaxLevel
    BY <1>3, CallIs
  <2>2. parent # Null => nodes[parent].owner \in 0..MaxLevel
    BY <1>5 DEF NodeRecords
  <2> QED BY <2>1, <2>2, <1>3, <1>7
<1>10. /\ made \in NodeRecords /\ made.path = path /\ made.kind = kind /\ made.temp = temp
       /\ made.next = (IF temp = 0 THEN Null ELSE heads[temp]) /\ made.owner = owner
       /\ made.flagged = (kind = "method" \/ (parent # Null /\ nodes[parent].flagged))
  <2>1. (IF temp = 0 THEN Null ELSE heads[temp]) \in Pointer
    BY <1>3, <1>8 DEF Pointer
  <2>2. (kind = "method" \/ (parent # Null /\ nodes[parent].flagged)) \in BOOLEAN
    BY <1>5 DEF NodeRecords
  <2> QED BY <2>1, <2>2, <1>4, <1>6, <1>8, <1>9 DEF NodeRecords
<1>11. /\ Live' = Live \cup {n} /\ nodes'[n] = made /\ \A m \in Live : nodes'[m] = nodes[m]
       /\ nodes' \in [Live' -> NodeRecords] /\ Live' \subseteq Nodes
  <2>1. Live' = Live \cup {n}
    BY <1>1 DEF Live
  <2>2. \A m \in Live : nodes'[m] = nodes[m]
    BY <1>1
  <2>3. nodes' \in [Live \cup {n} -> NodeRecords]
    BY <1>1, <1>3, <1>10
  <2> QED BY <2>1, <2>2, <2>3, <1>1, <1>3
<1>12. TypesOK'
  <2>1. tree' \in Trees
    <3>1. parent # Null => parent \in Entries
      BY <1>3, <1>5 DEF Entries
    <3> QED BY <3>1, <1>1, <1>3, TreeLinkIsTree
  <2>2. \A m \in Live' : Len(nodes'[m].path) <= MaxPath
    BY <1>1, <1>2, <1>10, <1>11 DEF TypesOK
  <2> QED BY <2>1, <2>2, <1>1, <1>2, <1>11 DEF TypesOK, Scoped
<1>13. TableOK'
  <2>1. Ordered(order) /\ Members(order) = Live
    BY <1>2 DEF TableOK
  <2>2. Members(order') = Live'
    <3>1. order \in Seq(Nodes)
      BY <2>1 DEF Ordered
    <3> QED BY <2>1, <3>1, <1>1, <1>11, AppendMembers
  <2>3. Ordered(order')
    <3>1. PICK t : t = order'
      OBVIOUS
    <3>2. /\ order \in Seq(Nodes) /\ Len(order) \in Nat /\ Len(order) > 0 /\ order[1] = RootNode
          /\ \A i, j \in 1..Len(order) : order[i] = order[j] => i = j
      BY <2>1 DEF Ordered
    <3>3. /\ t \in Seq(Nodes) /\ Len(t) = Len(order) + 1 /\ t[Len(order) + 1] = n
          /\ \A i \in 1..Len(order) : t[i] = order[i]
      BY <3>1, <3>2, <1>1
    <3>4. \A i \in 1..Len(order) : t[i] # n
      BY <2>1, <3>3, <1>1 DEF Members
    <3>5. ASSUME NEW i \in 1..Len(t), NEW j \in 1..Len(t), t[i] = t[j] PROVE i = j
      <4>1. \A x \in 1..Len(t) : x \in 1..Len(order) \/ x = Len(order) + 1
        BY <3>2, <3>3
      <4>2. CASE i \in 1..Len(order) /\ j \in 1..Len(order)
        BY <4>2, <3>2, <3>3, <3>5
      <4>3. CASE i = Len(order) + 1 /\ j \in 1..Len(order)
        BY <4>3, <3>3, <3>4, <3>5
      <4>4. CASE j = Len(order) + 1 /\ i \in 1..Len(order)
        BY <4>4, <3>3, <3>4, <3>5
      <4> QED BY <4>1, <4>2, <4>3, <4>4
    <3> QED BY <3>1, <3>2, <3>3, <3>5 DEF Ordered
  <2>4. ASSUME NEW m \in Live', NEW k \in Live', nodes'[m].path = nodes'[k].path PROVE m = k
    <3>1. \A x \in Live : nodes[x].path # path
      <4>1. \A x \in Live : x # Null
        BY <1>3, NamespaceAssumption
      <4> QED BY <4>1, <1>1 DEF At
    <3>2. \A x, y \in Live : nodes[x].path = nodes[y].path => x = y
      BY <1>2 DEF TableOK
    <3> QED BY <2>4, <3>1, <3>2, <1>10, <1>11
  <2> QED BY <2>2, <2>3, <2>4 DEF TableOK
<1>14. FlagsOK'
  <2> SUFFICES ASSUME NEW m \in Live', nodes'[m].temp # 0 \/ nodes'[m].kind = "method"
               PROVE  nodes'[m].flagged
    BY DEF FlagsOK
  <2>1. CASE m = n
    <3>1. temp # 0 => parent # Null
      BY <1>3, <1>8, NamespaceAssumption
    <3> QED BY <2>1, <3>1, <1>8, <1>10, <1>11
  <2>2. CASE m # n
    BY <2>2, <1>2, <1>11 DEF FlagsOK
  <2> QED BY <2>1, <2>2
<1>15. PICK ls : Listed(ls) /\ (~recursed => CallsOK(ls) /\ OwnersOK(ls))
  BY DEF NamespaceInv
<1>L. PICK ls2 : ls2 = [l \in 1..MaxLevel |-> IF l \notin 1..Level THEN <<>>
                                            ELSE IF l = temp THEN Append(ls[l], n) ELSE ls[l]]
  OBVIOUS
<1>16. /\ \A l \in 1..Level : l \in 1..MaxLevel /\ l \in 1..Level'
       /\ \A l \in 1..Level' : l \in 1..MaxLevel /\ (l \in 1..Level \/ (l = Level + 1 /\ Level' = Level + 1))
       /\ \A l \in 1..Level' : l \notin 1..Level => l = Level + 1
  BY <1>3 DEF Scoped
<1>17. /\ \A l \in 1..MaxLevel : l \notin 1..Level => ls2[l] = <<>>
       /\ \A l \in 1..Level : l = temp => ls2[l] = Append(ls[l], n)
       /\ \A l \in 1..Level : l # temp => ls2[l] = ls[l]
  BY <1>L, <1>16
<1>18. ASSUME NEW l \in 1..Level
       PROVE  /\ Linked(nodes, ls[l], heads[l]) /\ RootNode \notin Members(ls[l])
              /\ ls[l] \in Seq(Nodes) /\ Members(ls[l]) \subseteq Live
              /\ \A m \in Members(ls[l]) : nodes[m].flagged
              /\ \A k \in 1..Level : k # l => Members(ls[k]) \cap Members(ls[l]) = {}
  <2>1. Linked(nodes, ls[l], heads[l])
    BY <1>15 DEF Listed
  <2>2. ls[l] \in Seq(Nodes) /\ Members(ls[l]) \subseteq Live
    BY <2>1 DEF Linked, Members, Live
  <2> QED BY <2>1, <2>2, <1>15 DEF Listed
<1>19. ASSUME NEW l \in 1..Level
       PROVE  Members(ls2[l]) = IF l = temp THEN Members(ls[l]) \cup {n} ELSE Members(ls[l])
  <2>1. CASE l = temp
    <3>1. ls[l] \in Seq(Nodes)
      BY <1>18
    <3>2. Members(Append(ls[l], n)) = Members(ls[l]) \cup {n}
      BY <3>1, AppendMembers
    <3> QED BY <2>1, <3>2, <1>17
  <2>2. CASE l # temp
    BY <2>2, <1>17
  <2> QED BY <2>1, <2>2
<1>20. ASSUME NEW l \in 1..Level', l \notin 1..Level PROVE ls2[l] = <<>> /\ Members(ls2[l]) = {}
  BY <1>16, <1>17, <1>20, LinkedEmpty
<1>21. Listed(ls2)'
  <2>1. ASSUME NEW l \in 1..Level'
        PROVE  /\ Linked(nodes', ls2[l], heads'[l]) /\ RootNode \notin Members(ls2[l])
               /\ \A m \in Members(ls2[l]) : nodes'[m].flagged
    <3>1. CASE l \notin 1..Level
      <4>1. heads'[l] = Null
        BY <3>1, <1>16 DEF Scoped
      <4> QED BY <3>1, <4>1, <1>20, LinkedEmpty
    <3>2. CASE l \in 1..Level /\ l # temp
      <4>1. ls2[l] = ls[l] /\ heads'[l] = heads[l]
        BY <3>2, <1>3, <1>10, <1>11, <1>16, <1>17 DEF Scoped, Headed
      <4>2. \A m \in Members(ls[l]) : m \in DOMAIN nodes' /\ nodes'[m] = nodes[m]
        BY <3>2, <1>11, <1>18 DEF Live
      <4>3. Linked(nodes', ls[l], heads[l])
        <5>1. PICK first : first = heads[l]
          OBVIOUS
        <5> QED BY <3>2, <4>2, <5>1, <1>18, LinkedFrame
      <4> QED BY <3>2, <4>1, <4>2, <4>3, <1>18
    <3>3. CASE l \in 1..Level /\ l = temp
      <4>1. ls2[l] = Append(ls[l], n) /\ heads'[l] = n /\ temp # 0
        BY <3>3, <1>3, <1>10, <1>11, <1>16, <1>17 DEF Scoped, Headed
      <4>2. /\ DOMAIN nodes' = DOMAIN nodes \cup {n} /\ n \notin DOMAIN nodes
            /\ \A m \in DOMAIN nodes : nodes'[m] = nodes[m]
            /\ nodes'[n].next = heads[l]
        BY <3>3, <4>1, <1>1, <1>10, <1>11 DEF Live
      <4>3. Linked(nodes', Append(ls[l], n), n)
        <5>1. PICK first : first = heads[l]
          OBVIOUS
        <5>2. Linked(nodes, ls[l], first)
          BY <3>3, <5>1, <1>18
        <5> QED BY <4>2, <5>1, <5>2, LinkedAppend
      <4>4. n # RootNode
        BY <1>1, <1>2 DEF TableOK, Ordered, Members
      <4>5. nodes'[n].flagged
        BY <4>1, <1>3, <1>8, <1>10, <1>11, NamespaceAssumption
      <4>6. \A m \in Members(ls[l]) : nodes'[m] = nodes[m] /\ nodes[m].flagged
        BY <3>3, <1>11, <1>18
      <4> QED BY <3>3, <4>1, <4>3, <4>4, <4>5, <4>6, <1>18, <1>19
    <3> QED BY <3>1, <3>2, <3>3
  <2>2. ASSUME NEW k \in 1..Level', NEW l \in 1..Level', k # l
        PROVE  Members(ls2[k]) \cap Members(ls2[l]) = {}
    <3>1. CASE k \notin 1..Level \/ l \notin 1..Level
      BY <3>1, <1>20
    <3>2. CASE k \in 1..Level /\ l \in 1..Level
      <4>1. n \notin Members(ls[k]) /\ n \notin Members(ls[l])
        BY <3>2, <1>1, <1>18
      <4>2. Members(ls[k]) \cap Members(ls[l]) = {}
        BY <2>2, <3>2, <1>18
      <4> QED BY <2>2, <3>2, <4>1, <4>2, <1>19
    <3> QED BY <3>1, <3>2
  <2> QED BY <2>1, <2>2 DEF Listed
<1>22. ASSUME ~recursed' PROVE CallsOK(ls2)' /\ OwnersOK(ls2)'
  <2>1. CallsOK(ls) /\ OwnersOK(ls)
    BY <1>1, <1>15, <1>22
  <2>2. CallsOK(ls2)'
    <3>1. ASSUME NEW l \in 1..Level', scopes'[l].call # Null
          PROVE  /\ scopes'[l].flagged /\ scopes'[l].call \in Live'
                 /\ nodes'[scopes'[l].call].kind = "method" /\ nodes'[scopes'[l].call].temp = l
      <4>1. l \in 1..Level /\ scopes'[l] = scopes[l]
        BY <3>1, <1>16 DEF Scoped
      <4> QED BY <3>1, <4>1, <2>1, <1>11 DEF CallsOK
    <3>2. ASSUME NEW k \in 1..Level', NEW l \in 1..Level', scopes'[k].call \in Members(ls2[l])
          PROVE  l < k
      <4>1. l \in 1..Level
        BY <3>2, <1>20
      <4>2. Members(ls2[l]) \subseteq Nodes
        BY <4>1, <1>3, <1>18, <1>19
      <4>3. scopes'[k].call # Null
        BY <3>2, <4>2, NamespaceAssumption
      <4>4. k \in 1..Level /\ scopes'[k] = scopes[k]
        BY <4>3, <1>16 DEF Scoped
      <4>5. scopes[k].call \in Live
        BY <2>1, <4>3, <4>4 DEF CallsOK
      <4>6. scopes[k].call \in Members(ls[l])
        BY <3>2, <4>1, <4>4, <4>5, <1>1, <1>19
      <4> QED BY <2>1, <4>1, <4>4, <4>6 DEF CallsOK
    <3> QED BY <3>1, <3>2 DEF CallsOK
  <2>3. OwnersOK(ls2)'
    <3> SUFFICES ASSUME NEW m \in Live', nodes'[m].owner # 0
                 PROVE  /\ nodes'[m].owner <= Level' /\ scopes'[nodes'[m].owner].flagged
                        /\ m \in Members(ls2[nodes'[m].owner])
                        /\ nodes'[m].kind # "method" => nodes'[m].temp = nodes'[m].owner
      BY DEF OwnersOK
    <3>1. PICK o : o = nodes'[m].owner
      OBVIOUS
    <3>2. SUFFICES /\ o \in 1..Level /\ scopes[o].flagged /\ m \in Members(ls2[o])
                   /\ nodes'[m].kind # "method" => nodes'[m].temp = o
      BY <3>1, <1>3, <1>16 DEF Scoped
    <3>3. CASE m # n
      <4>1. m \in Live /\ nodes'[m] = nodes[m] /\ nodes[m].owner \in 0..MaxLevel
        BY <3>3, <1>3, <1>11 DEF NodeRecords
      <4>2. o \in 1..Level
        BY <2>1, <3>1, <4>1, <1>3 DEF OwnersOK
      <4> QED BY <2>1, <3>1, <4>1, <4>2, <1>19 DEF OwnersOK
    <3>4. CASE m = n
      <4>1. o = owner /\ o # 0 /\ parent # Null
        BY <3>1, <3>4, <1>7, <1>10, <1>11
      <4>2. parent \in Live /\ temp = nodes[parent].temp
        BY <4>1, <1>5 DEF temp
      <4>3. CASE nodes[parent].kind = "method"
        <5>1. o \in 1..Level /\ scopes[o].call = parent
          BY <4>1, <4>3, <1>3, <1>7, CallIs
        <5>2. scopes[o].flagged /\ temp = o
          BY <2>1, <4>1, <4>2, <5>1 DEF CallsOK
        <5> QED BY <3>4, <5>1, <5>2, <1>10, <1>11, <1>19
      <4>4. CASE nodes[parent].kind # "method"
        <5>1. o = nodes[parent].owner /\ o \in 0..MaxLevel
          BY <4>1, <4>2, <4>4, <1>5, <1>7 DEF NodeRecords
        <5>2. o \in 1..Level /\ scopes[o].flagged /\ temp = o
          BY <2>1, <4>1, <4>2, <4>4, <5>1, <1>3 DEF OwnersOK
        <5> QED BY <3>4, <5>2, <1>10, <1>11, <1>19
      <4> QED BY <4>3, <4>4
    <3> QED BY <3>3, <3>4
  <2> QED BY <2>2, <2>3
<1> QED BY <1>12, <1>13, <1>14, <1>21, <1>22 DEF NamespaceInv

\* A new scope begins with an empty list; if it is a call's, its method leads new
\* nodes to it (OpenScope, Call).
LEMMA PushKeepsInv ==
  ASSUME NamespaceInv, NEW path \in Paths, NEW flagged \in BOOLEAN, NEW call \in Live \cup {Null},
         Pushed(path, flagged, call), heads' = [heads EXCEPT ![Level + 1] = Null],
         call # Null => flagged /\ nodes[call].kind = "method",
         nodes' = IF call = Null THEN nodes ELSE [nodes EXCEPT ![call].temp = Level + 1],
         order' = order, tree' = tree, built' = built, inner' = inner, late' = late,
         recursed' = (recursed \/ (call # Null /\ CallOf(call) # 0))
  PROVE  NamespaceInv'
<1>1. /\ Level < MaxLevel
      /\ scopes' = Append(scopes, [path |-> path, flagged |-> flagged, call |-> call])
  BY DEF Pushed
<1>2. TypesOK /\ TableOK /\ FlagsOK
  BY DEF NamespaceInv
<1>3. /\ nodes \in [Live -> NodeRecords] /\ Live \subseteq Nodes /\ scopes \in Seq(ScopeRecords)
      /\ Level \in Nat /\ Level \in 1..MaxLevel /\ heads \in [1..MaxLevel -> Pointer]
      /\ MaxLevel \in Nat /\ Null \notin Nodes
  BY <1>2, NamespaceAssumption DEF TypesOK
<1>4. /\ scopes' \in Seq(ScopeRecords) /\ Level' = Level + 1 /\ Level' \in 1..MaxLevel
      /\ scopes'[Level + 1].flagged = flagged /\ scopes'[Level + 1].call = call
      /\ \A l \in 1..Level : scopes'[l] = scopes[l]
  <2>1. [path |-> path, flagged |-> flagged, call |-> call] \in ScopeRecords
    BY <1>3 DEF ScopeRecords, Pointer
  <2>2. scopes' \in Seq(ScopeRecords) /\ Len(scopes') = Len(scopes) + 1
        /\ scopes'[Len(scopes) + 1] = [path |-> path, flagged |-> flagged, call |-> call]
        /\ \A l \in 1..Len(scopes) : scopes'[l] = scopes[l]
    BY <2>1, <1>1, <1>3
  <2> QED BY <2>2, <1>1, <1>3 DEF Level
<1>5. /\ \A l \in 1..Level : l \in 1..Level' /\ l # Level + 1 /\ l \in 1..MaxLevel
      /\ \A l \in 1..Level' : l \in 1..Level \/ l = Level + 1
      /\ Level + 1 \in 1..MaxLevel /\ Level + 1 \in 0..MaxLevel
  BY <1>1, <1>3, <1>4
<1>6. /\ heads' \in [1..MaxLevel -> Pointer] /\ heads'[Level + 1] = Null
      /\ \A l \in 1..Level : heads'[l] = heads[l]
  BY <1>3, <1>5 DEF Pointer
<1>7. ASSUME NEW n \in Live
      PROVE  /\ nodes'[n] \in NodeRecords
             /\ nodes'[n].path = nodes[n].path /\ nodes'[n].kind = nodes[n].kind
             /\ nodes'[n].flagged = nodes[n].flagged /\ nodes'[n].next = nodes[n].next
             /\ nodes'[n].owner = nodes[n].owner
             /\ nodes'[n].temp = IF n = call THEN Level + 1 ELSE nodes[n].temp
  <2>1. nodes[n] \in NodeRecords /\ n # Null
    BY <1>3
  <2>2. CASE n = call
    <3>1. nodes'[n] = [nodes[n] EXCEPT !.temp = Level + 1]
      BY <2>1, <2>2, <1>3
    <3> QED BY <2>1, <2>2, <3>1, <1>5 DEF NodeRecords
  <2>3. CASE n # call
    <3>1. nodes'[n] = nodes[n]
      BY <2>3, <1>3
    <3> QED BY <2>1, <2>3, <3>1
  <2> QED BY <2>2, <2>3
<1>8. Live' = Live /\ DOMAIN nodes' = Live /\ nodes' \in [Live' -> NodeRecords]
  <2>1. DOMAIN nodes' = Live
    BY <1>3
  <2>2. nodes' = [n \in Live |-> nodes'[n]]
    BY <1>3
  <2> QED BY <2>1, <2>2, <1>7 DEF Live
<1>9. TypesOK'
  <2>1. \A n \in Live' : Len(nodes'[n].path) <= MaxPath
    BY <1>2, <1>7, <1>8 DEF TypesOK
  <2>2. recursed' \in BOOLEAN
    BY <1>2 DEF TypesOK
  <2> QED BY <2>1, <2>2, <1>2, <1>3, <1>4, <1>6, <1>8 DEF TypesOK
<1>10. TableOK'
  <2>1. Ordered(order)' /\ Members(order)' = Live'
    BY <1>2, <1>8 DEF TableOK, Ordered, Members
  <2>2. \A m, n \in Live' : nodes'[m].path = nodes'[n].path => m = n
    BY <1>2, <1>7, <1>8 DEF TableOK
  <2> QED BY <2>1, <2>2 DEF TableOK
<1>11. FlagsOK'
  <2> SUFFICES ASSUME NEW n \in Live, nodes'[n].temp # 0 \/ nodes'[n].kind = "method"
               PROVE  nodes'[n].flagged
    BY <1>8 DEF FlagsOK
  <2>1. nodes[n].temp # 0 \/ nodes[n].kind = "method"
    BY <1>3, <1>7
  <2> QED BY <2>1, <1>2, <1>7 DEF FlagsOK
<1>12. PICK ls : Listed(ls) /\ (~recursed => CallsOK(ls) /\ OwnersOK(ls))
  BY DEF NamespaceInv
<1>13. PICK lt : lt = [l \in 1..MaxLevel |-> IF l \in 1..Level THEN ls[l] ELSE <<>>]
  OBVIOUS
<1>14. (\A l \in 1..Level : lt[l] = ls[l]) /\ lt[Level + 1] = <<>> /\ Members(lt[Level + 1]) = {}
  <2>1. Level + 1 \notin 1..Level
    BY <1>3
  <2> QED BY <2>1, <1>5, <1>13, LinkedEmpty
<1>15. ASSUME NEW l \in 1..Level
       PROVE  /\ Linked(nodes, ls[l], heads[l]) /\ RootNode \notin Members(ls[l])
              /\ Members(ls[l]) \subseteq Live
              /\ \A n \in Members(ls[l]) : nodes[n].flagged
  <2>1. Linked(nodes, ls[l], heads[l])
    BY <1>12 DEF Listed
  <2>2. Members(ls[l]) \subseteq Live
    BY <2>1 DEF Linked, Members, Live
  <2> QED BY <2>1, <2>2, <1>12 DEF Listed
<1>16. Listed(lt)'
  <2>1. ASSUME NEW l \in 1..Level'
        PROVE  /\ Linked(nodes', lt[l], heads'[l]) /\ RootNode \notin Members(lt[l])
               /\ \A n \in Members(lt[l]) : nodes'[n].flagged
    <3>1. CASE l \in 1..Level
      <4>1. PICK first : first = heads[l]
        OBVIOUS
      <4>2. \A n \in Members(ls[l]) : /\ n \in DOMAIN nodes' /\ nodes'[n].next = nodes[n].next
                                      /\ nodes'[n].flagged = nodes[n].flagged
        BY <3>1, <1>7, <1>8, <1>15
      <4>3. Linked(nodes', ls[l], first)
        BY <3>1, <4>1, <4>2, <1>15, LinkedFrame
      <4> QED BY <3>1, <4>1, <4>2, <4>3, <1>6, <1>14, <1>15
    <3>2. CASE l = Level + 1
      BY <3>2, <1>6, <1>14, LinkedEmpty
    <3> QED BY <3>1, <3>2, <1>5
  <2>2. ASSUME NEW k \in 1..Level', NEW l \in 1..Level', k # l
        PROVE  Members(lt[k]) \cap Members(lt[l]) = {}
    <3>1. CASE k = Level + 1 \/ l = Level + 1
      BY <3>1, <1>14
    <3>2. CASE k \in 1..Level /\ l \in 1..Level
      BY <2>2, <3>2, <1>12, <1>14 DEF Listed
    <3> QED BY <3>1, <3>2, <1>5
  <2> QED BY <2>1, <2>2 DEF Listed
<1>17. ASSUME ~recursed' PROVE CallsOK(lt)' /\ OwnersOK(lt)'
  <2>1. CallsOK(ls) /\ OwnersOK(ls) /\ (call # Null => CallOf(call) = 0)
    BY <1>12, <1>17
  <2>2. \A l \in 1..Level : scopes[l].call # Null => scopes[l].call # call
    BY <2>1, <1>3, CallIs
  <2>3. ASSUME NEW l \in 1..Level', scopes'[l].call # Null
        PROVE  /\ scopes'[l].flagged /\ scopes'[l].call \in Live'
               /\ nodes'[scopes'[l].call].kind = "method" /\ nodes'[scopes'[l].call].temp = l
    <3>1. CASE l \in 1..Level
      <4>1. scopes'[l] = scopes[l] /\ scopes[l].call \in Live /\ scopes[l].call # call
        BY <2>1, <2>2, <2>3, <3>1, <1>4 DEF CallsOK
      <4> QED BY <2>1, <2>3, <3>1, <4>1, <1>7, <1>8 DEF CallsOK
    <3>2. CASE l = Level + 1
      BY <2>3, <3>2, <1>4, <1>7, <1>8
    <3> QED BY <3>1, <3>2, <1>5
  <2>4. ASSUME NEW k \in 1..Level', NEW l \in 1..Level', scopes'[k].call \in Members(lt[l])
        PROVE  l < k
    <3>1. l \in 1..Level
      BY <2>4, <1>5, <1>14
    <3>2. CASE k \in 1..Level
      BY <2>1, <2>4, <3>1, <3>2, <1>4, <1>14 DEF CallsOK
    <3>3. CASE k = Level + 1
      BY <3>1, <3>3, <1>3
    <3> QED BY <3>2, <3>3, <1>5
  <2>5. ASSUME NEW n \in Live', nodes'[n].owner # 0
        PROVE  /\ nodes'[n].owner <= Level' /\ scopes'[nodes'[n].owner].flagged
               /\ n \in Members(lt[nodes'[n].owner])
               /\ nodes'[n].kind # "method" => nodes'[n].temp = nodes'[n].owner
    <3>1. n \in Live /\ nodes[n].owner # 0 /\ nodes'[n].owner = nodes[n].owner
      BY <2>5, <1>7, <1>8
    <3>2. nodes[n].owner \in 1..Level
      <4>1. nodes[n].owner \in 0..MaxLevel
        BY <3>1, <1>3 DEF NodeRecords
      <4> QED BY <2>1, <3>1, <4>1, <1>3 DEF OwnersOK
    <3>3. nodes'[n].kind # "method" => nodes'[n].temp = nodes[n].temp /\ nodes[n].kind # "method"
      BY <3>1, <1>3, <1>7
    <3>4. nodes[n].owner <= Level'
      BY <3>2, <1>3, <1>4
    <3> QED BY <2>1, <3>1, <3>2, <3>3, <3>4, <1>4, <1>14 DEF OwnersOK
  <2> QED BY <2>3, <2>4, <2>5 DEF CallsOK, OwnersOK
<1> QED BY <1>9, <1>10, <1>11, <1>16, <1>17 DEF NamespaceInv

\* What a pop releases is below methods and is the list of the scope.
LEMMA ReleasedAre ==
  ASSUME TypesOK, NEW ls, Listed(ls), NEW l \in 1..Level
  PROVE  /\ TempList(l) \in Seq(Members(ls[l])) /\ IsInjective(TempList(l))
         /\ ToSet(TempList(l)) = (IF scopes[l].flagged THEN Members(ls[l]) ELSE {})
         /\ Members(ls[l]) \subseteq Live
<1>1. Live \subseteq Nodes /\ \A n \in Live : nodes[n].next \in Pointer
  BY DEF TypesOK, NodeRecords
<1>2. PICK first : first = heads[l]
  OBVIOUS
<1>3. Linked(nodes, ls[l], first)
  BY <1>2 DEF Listed
<1>4. /\ Chain(first) \in Seq(Members(ls[l])) /\ ToSet(Chain(first)) = Members(ls[l])
      /\ IsInjective(Chain(first)) /\ Members(ls[l]) \subseteq Live
  BY <1>1, <1>3, ChainMembers
<1>5. CASE scopes[l].flagged
  BY <1>2, <1>4, <1>5 DEF TempList
<1>6. CASE ~scopes[l].flagged
  <2>1. TempList(l) = <<>>
    BY <1>6 DEF TempList
  <2>2. <<>> \in Seq(Members(ls[l])) /\ DOMAIN <<>> = {}
    OBVIOUS
  <2> QED BY <2>1, <2>2, <1>4, <1>6 DEF ToSet, IsInjective
<1> QED BY <1>5, <1>6

\* A pop releases the nodes of one list, and none that the calls below it are of.
LEMMA PopKeepsInv ==
  ASSUME NamespaceInv, PopScope
  PROVE  NamespaceInv'
<1> DEFINE list == TempList(Level)
<1>1. PICK gone : gone = ToSet(list)
  OBVIOUS
<1>2. /\ Level > 1 /\ scopes' = Front(scopes)
      /\ nodes' = [n \in Live \ gone |-> nodes[n]]
      /\ order' = Unlisted(gone) /\ tree' = FoldLeft(TreeUnlink, tree, list)
      /\ inner' \in BOOLEAN /\ built' = built /\ heads' = heads /\ recursed' = recursed
      /\ late' = late
  BY <1>1 DEF PopScope
<1>3. TypesOK /\ TableOK /\ FlagsOK
  BY DEF NamespaceInv
<1>4. /\ nodes \in [Live -> NodeRecords] /\ Live \subseteq Nodes /\ scopes \in Seq(ScopeRecords)
      /\ Level \in Nat /\ Level \in 1..MaxLevel /\ MaxLevel \in Nat
  BY <1>3, NamespaceAssumption DEF TypesOK
<1>5. PICK ls : Listed(ls) /\ (~recursed => CallsOK(ls) /\ OwnersOK(ls))
  BY DEF NamespaceInv
<1>6. /\ list \in Seq(Members(ls[Level])) /\ Members(ls[Level]) \subseteq Live
      /\ gone = (IF scopes[Level].flagged THEN Members(ls[Level]) ELSE {})
      /\ RootNode \notin gone /\ gone \subseteq Members(ls[Level])
  <2>1. /\ list \in Seq(Members(ls[Level])) /\ Members(ls[Level]) \subseteq Live
        /\ gone = (IF scopes[Level].flagged THEN Members(ls[Level]) ELSE {})
    BY <1>1, <1>3, <1>4, <1>5, ReleasedAre
  <2>2. RootNode \notin Members(ls[Level])
    BY <1>4, <1>5 DEF Listed
  <2> QED BY <2>1, <2>2
<1> HIDE DEF list
<1>7. /\ scopes' \in Seq(ScopeRecords) /\ Level' = Level - 1 /\ Level' \in 1..MaxLevel
      /\ \A l \in 1..Level' : scopes'[l] = scopes[l]
  <2>1. Len(scopes) \in Nat /\ Len(scopes) > 1
    BY <1>2, <1>4 DEF Level
  <2>2. /\ SubSeq(scopes, 1, Len(scopes) - 1) \in Seq(ScopeRecords)
        /\ Len(SubSeq(scopes, 1, Len(scopes) - 1)) = Len(scopes) - 1
        /\ \A l \in 1..(Len(scopes) - 1) : SubSeq(scopes, 1, Len(scopes) - 1)[l] = scopes[l]
    BY <2>1, <1>4
  <2>3. scopes' = SubSeq(scopes, 1, Len(scopes) - 1)
    BY <1>2 DEF Front
  <2> QED BY <2>1, <2>2, <2>3, <1>2, <1>4 DEF Level
<1>8. /\ \A l \in 1..Level' : l \in 1..Level /\ l # Level /\ l < Level
      /\ \A l \in 1..Level : l # Level => l \in 1..Level'
  BY <1>4, <1>7
<1>9. /\ Live' = Live \ gone /\ \A n \in Live' : nodes'[n] = nodes[n]
      /\ nodes' \in [Live' -> NodeRecords]
  <2>1. Live' = Live \ gone
    BY <1>2 DEF Live
  <2>2. \A n \in Live \ gone : nodes'[n] = nodes[n]
    BY <1>2
  <2>3. nodes' \in [Live \ gone -> NodeRecords]
    BY <1>2, <1>4
  <2> QED BY <2>1, <2>2, <2>3
<1>10. TypesOK'
  <2>1. tree' \in Trees
    <3>1. Members(ls[Level]) \subseteq Nodes /\ tree \in Trees
      BY <1>3, <1>4, <1>6 DEF TypesOK
    <3> QED BY <3>1, <1>2, <1>6, UnlinkAllIsTree
  <2>2. \A n \in Live' : Len(nodes'[n].path) <= MaxPath
    BY <1>3, <1>9 DEF TypesOK
  <2> QED BY <2>1, <2>2, <1>2, <1>3, <1>4, <1>7, <1>9 DEF TypesOK
<1>11. TableOK'
  <2>1. Ordered(order') /\ Members(order') = Live'
    BY <1>2, <1>3, <1>6, <1>9, UnlistedIs DEF TableOK
  <2>2. \A m, n \in Live' : nodes'[m].path = nodes'[n].path => m = n
    BY <1>3, <1>9 DEF TableOK
  <2> QED BY <2>1, <2>2 DEF TableOK
<1>12. FlagsOK'
  BY <1>3, <1>9 DEF FlagsOK
<1>13. ASSUME NEW l \in 1..Level'
       PROVE  /\ Linked(nodes, ls[l], heads[l]) /\ RootNode \notin Members(ls[l])
              /\ Members(ls[l]) \subseteq Live'
              /\ \A n \in Members(ls[l]) : nodes[n].flagged
  <2>1. l \in 1..Level /\ l # Level /\ Level \in 1..Level
    BY <1>4, <1>8
  <2>2. Members(ls[l]) \cap Members(ls[Level]) = {}
    BY <2>1, <1>5 DEF Listed
  <2>3. Members(ls[l]) \subseteq Live
    BY <2>1, <1>3, <1>5, ReleasedAre
  <2> QED BY <2>1, <2>2, <2>3, <1>5, <1>6, <1>9 DEF Listed
<1>14. Listed(ls)'
  <2>1. ASSUME NEW l \in 1..Level'
        PROVE  /\ Linked(nodes', ls[l], heads'[l]) /\ RootNode \notin Members(ls[l])
               /\ \A n \in Members(ls[l]) : nodes'[n].flagged
    <3>1. PICK first : first = heads[l]
      OBVIOUS
    <3>2. \A n \in Members(ls[l]) : n \in DOMAIN nodes' /\ nodes'[n] = nodes[n]
      BY <1>9, <1>13 DEF Live
    <3>3. Linked(nodes', ls[l], first)
      BY <3>1, <3>2, <1>13, LinkedFrame
    <3> QED BY <3>1, <3>2, <3>3, <1>2, <1>13
  <2>2. \A k, l \in 1..Level' : k # l => Members(ls[k]) \cap Members(ls[l]) = {}
    BY <1>5, <1>8 DEF Listed
  <2> QED BY <2>1, <2>2 DEF Listed
<1>15. ASSUME ~recursed' PROVE CallsOK(ls)' /\ OwnersOK(ls)'
  <2>1. CallsOK(ls) /\ OwnersOK(ls)
    BY <1>2, <1>5, <1>15
  <2>2. ASSUME NEW l \in 1..Level', scopes'[l].call # Null
        PROVE  /\ scopes'[l].flagged /\ scopes'[l].call \in Live'
               /\ nodes'[scopes'[l].call].kind = "method" /\ nodes'[scopes'[l].call].temp = l
    <3>1. l \in 1..Level /\ l < Level /\ scopes'[l] = scopes[l] /\ Level \in 1..Level
      BY <1>4, <1>7, <1>8
    <3>2. scopes[l].call \notin Members(ls[Level])
      <4>1. scopes[l].call \in Members(ls[Level]) => Level < l
        BY <2>1, <3>1 DEF CallsOK
      <4> QED BY <4>1, <3>1, <1>4
    <3>3. scopes[l].call \in Live'
      BY <2>1, <2>2, <3>1, <3>2, <1>6, <1>9 DEF CallsOK
    <3> QED BY <2>1, <2>2, <3>1, <3>3, <1>9 DEF CallsOK
  <2>3. \A k, l \in 1..Level' : scopes'[k].call \in Members(ls[l]) => l < k
    BY <2>1, <1>7, <1>8 DEF CallsOK
  <2>4. ASSUME NEW n \in Live', nodes'[n].owner # 0
        PROVE  /\ nodes'[n].owner <= Level' /\ scopes'[nodes'[n].owner].flagged
               /\ n \in Members(ls[nodes'[n].owner])
               /\ nodes'[n].kind # "method" => nodes'[n].temp = nodes'[n].owner
    <3>1. n \in Live /\ n \notin gone /\ nodes'[n] = nodes[n] /\ nodes[n].owner # 0
      BY <2>4, <1>9
    <3>2. nodes[n].owner \in 1..Level
      <4>1. nodes[n].owner \in 0..MaxLevel
        BY <3>1, <1>4 DEF NodeRecords
      <4> QED BY <2>1, <3>1, <4>1, <1>4 DEF OwnersOK
    <3>3. nodes[n].owner # Level
      BY <2>1, <3>1, <1>6 DEF OwnersOK
    <3>4. nodes[n].owner \in 1..Level' /\ nodes[n].owner <= Level'
      BY <3>2, <3>3, <1>4, <1>7, <1>8
    <3> QED BY <2>1, <3>1, <3>4, <1>7 DEF OwnersOK
  <2> QED BY <2>2, <2>3, <2>4 DEF CallsOK, OwnersOK
<1> QED BY <1>10, <1>11, <1>12, <1>14, <1>15 DEF NamespaceInv

\* The tree is built of the nodes of the list, and nothing else changes.
LEMMA TreeBuildKeepsInv ==
  ASSUME NamespaceInv, TreeBuild
  PROVE  NamespaceInv'
<1>1. /\ built' = TRUE /\ UNCHANGED <<nodes, order, scopes, heads, recursed, inner, late>>
      /\ tree' = FoldLeft(TreeInsertNode, [tree EXCEPT ![TreeRoot].in = TRUE], order)
      /\ \A n \in Live : \A k \in 0..Len(nodes[n].path) :
           Resolve(At(Prefix(nodes[n].path, k))) # Endless
  BY DEF TreeBuild
<1>2. TypesOK /\ TableOK /\ FlagsOK
  BY DEF NamespaceInv
<1>3. tree' \in Trees
  <2>1. [tree EXCEPT ![TreeRoot].in = TRUE] \in Trees
    <3>1. TreeRoot \in Entries /\ TreeRoot \notin Nodes /\ tree \in Trees
      BY <1>2, NamespaceAssumption DEF Entries, TypesOK
    <3> QED BY <3>1, EntryChanges
  <2>2. Live \subseteq Nodes /\ \A n \in Live : Len(nodes[n].path) \in Nat /\ Resolvable(nodes[n].path)
    <3>1. \A n \in Live : nodes[n].path \in Paths
      BY <1>2 DEF TypesOK, NodeRecords
    <3> QED BY <3>1, <1>1, <1>2 DEF TypesOK, Resolvable, Paths
  <2>3. order \in Seq(Live)
    <3>1. order \in Seq(Nodes) /\ Len(order) \in Nat
      BY <1>2 DEF TableOK, Ordered
    <3>2. \A i \in 1..Len(order) : order[i] \in Live
      BY <1>2 DEF TableOK, Members
    <3> QED BY <3>1, <3>2
  <2> QED BY <2>1, <2>2, <2>3, <1>1, InsertAllIsTree
<1>4. TypesOK'
  BY <1>1, <1>2, <1>3 DEF TypesOK, Live, Level
<1>5. TableOK' /\ FlagsOK'
  BY <1>1, <1>2 DEF TableOK, FlagsOK, Ordered, Live
<1>6. PICK ls : Listed(ls) /\ (~recursed => CallsOK(ls) /\ OwnersOK(ls))
  BY DEF NamespaceInv
<1>7. Listed(ls)' /\ (~recursed' => CallsOK(ls)' /\ OwnersOK(ls)')
  BY <1>1, <1>6 DEF Listed, CallsOK, OwnersOK, Level, Live
<1> QED BY <1>4, <1>5, <1>7 DEF NamespaceInv

\* A node without a body leaves the scopes alone.
LEMMA KindIsScoped ==
  ASSUME TypesOK, NEW n \in Nodes, heads' = Headed(n, nodes'[n].temp), scopes' = scopes
  PROVE  Scoped(n)
<1>1. /\ scopes \in Seq(ScopeRecords) /\ Level \in 1..MaxLevel /\ MaxLevel \in Nat
      /\ heads \in [1..MaxLevel -> Pointer]
  BY NamespaceAssumption DEF TypesOK
<1>2. Level' = Level /\ Level \in Nat
  BY <1>1 DEF Level
<1>3. \A temp : Headed(n, temp) \in [1..MaxLevel -> Pointer]
  BY <1>1 DEF Headed, Pointer
<1> QED BY <1>1, <1>2, <1>3 DEF Scoped

\* A device's node comes with a scope for its body.
LEMMA DeviceIsScoped ==
  ASSUME TypesOK, NEW n \in Nodes, NEW name \in NameStrings, DeclareDevice(n, name)
  PROVE  Scoped(n)
<1> DEFINE path == Absolute(Here, name)
           scope == [path |-> path, flagged |-> Inherits(path), call |-> Null]
<1>1. /\ path # NoPath /\ ParentOf(path) # Endless /\ Level < MaxLevel
      /\ scopes' = Append(scopes, scope)
      /\ heads' = [Headed(n, nodes'[n].temp) EXCEPT ![Level + 1] = Null]
  BY DEF DeclareDevice, CreateNode, Pushed
<1>2. /\ scopes \in Seq(ScopeRecords) /\ Level \in 1..MaxLevel /\ MaxLevel \in Nat
      /\ heads \in [1..MaxLevel -> Pointer] /\ Live \subseteq Nodes
      /\ nodes \in [Live -> NodeRecords]
  BY NamespaceAssumption DEF TypesOK
<1>3. scope \in ScopeRecords
  <2>1. Here \in Paths
    <3>1. Len(scopes) \in 1..Len(scopes)
      BY <1>2 DEF Level
    <3>2. scopes[Len(scopes)] \in ScopeRecords
      BY <3>1, <1>2
    <3> QED BY <3>2 DEF Here, Level, ScopeRecords
  <2>2. path \in Paths
    BY <2>1, <1>1, AbsoluteIsPath
  <2>3. ParentOf(path) \in Live \cup {Null}
    BY <1>1, <1>2, ParentIsLive
  <2>4. Inherits(path) \in BOOLEAN
    BY <2>3, <1>2 DEF Inherits, NodeRecords
  <2> HIDE DEF path
  <2> QED BY <2>2, <2>4 DEF ScopeRecords, Pointer
<1> HIDE DEF scope
<1>4. /\ scopes' \in Seq(ScopeRecords) /\ Level' = Level + 1
      /\ \A l \in 1..Level : scopes'[l] = scopes[l]
      /\ scopes'[Level + 1] = scope
  <2>1. /\ Append(scopes, scope) \in Seq(ScopeRecords)
        /\ Len(Append(scopes, scope)) = Len(scopes) + 1
        /\ \A l \in 1..Len(scopes) : Append(scopes, scope)[l] = scopes[l]
        /\ Append(scopes, scope)[Len(scopes) + 1] = scope
    BY <1>2, <1>3
  <2> QED BY <2>1, <1>1 DEF Level
<1>5. PICK temp : temp = nodes'[n].temp
  OBVIOUS
<1>6. Headed(n, temp) \in [1..MaxLevel -> Pointer]
  BY <1>2 DEF Headed, Pointer
<1>7. Level \in Nat /\ Level + 1 \in 1..MaxLevel /\ \A l \in 1..Level : l \in 1..MaxLevel /\ l # Level + 1
  BY <1>1, <1>2
<1>8. heads' = [Headed(n, temp) EXCEPT ![Level + 1] = Null]
  BY <1>1, <1>5
<1>9. /\ heads' \in [1..MaxLevel -> Pointer] /\ heads'[Level + 1] = Null
      /\ \A l \in 1..Level : heads'[l] = Headed(n, temp)[l]
  BY <1>6, <1>7, <1>8 DEF Pointer
<1>10. scope.call = Null
  BY DEF scope
<1> QED BY <1>4, <1>5, <1>7, <1>9, <1>10 DEF Scoped

\* Where a name leads is a node that exists (OpenScope).
LEMMA OpenKeepsInv ==
  ASSUME NamespaceInv, NEW name \in NameStrings, OpenScope(name)
  PROVE  NamespaceInv'
<1>1. TypesOK
  BY DEF NamespaceInv
<1>2. PICK n : n = Search(name)
  OBVIOUS
<1>3. n \in Live
  <2>1. Find(Here, name, FALSE) \in Live \cup {Null}
    BY FindIsLive
  <2>2. n \in Live \cup {Null, Endless}
    BY <2>1, <1>1, <1>2, ResolveIsLive DEF Search, TypesOK
  <2> QED BY <2>2, <1>2 DEF OpenScope
<1>4. PICK path : path = nodes[n].path
  OBVIOUS
<1>5. path \in Paths
  BY <1>1, <1>3, <1>4 DEF TypesOK, NodeRecords
<1>6. Pushed(path, FALSE, Null) /\ heads' = [heads EXCEPT ![Level + 1] = Null]
      /\ UNCHANGED <<nodes, order, tree, built, recursed, inner, late>>
  BY <1>2, <1>4 DEF OpenScope
<1>7. recursed' = (recursed \/ (Null # Null /\ CallOf(Null) # 0))
  <2>1. recursed \in BOOLEAN
    BY <1>1 DEF TypesOK
  <2> QED BY <2>1, <1>6
<1> QED BY <1>5, <1>6, <1>7, PushKeepsInv

\* The scope of a call is temporary (Call).
LEMMA CallKeepsInv ==
  ASSUME NamespaceInv, NEW m \in Nodes, Call(m)
  PROVE  NamespaceInv'
<1>1. PICK path : path = nodes[m].path
  OBVIOUS
<1>2. /\ m \in Live /\ m # Null /\ nodes[m].kind = "method" /\ Pushed(path, TRUE, m)
      /\ heads' = [heads EXCEPT ![Level + 1] = Null]
      /\ nodes' = [nodes EXCEPT ![m].temp = Level + 1]
      /\ recursed' = (recursed \/ CallOf(m) # 0)
      /\ UNCHANGED <<order, tree, built, inner, late>>
  BY <1>1, NamespaceAssumption DEF Call
<1>3. path \in Paths
  BY <1>1, <1>2 DEF NamespaceInv, TypesOK, NodeRecords
<1>4. recursed' = (recursed \/ (m # Null /\ CallOf(m) # 0))
  BY <1>2
<1>5. nodes' = IF m = Null THEN nodes ELSE [nodes EXCEPT ![m].temp = Level + 1]
  BY <1>2
<1> QED BY <1>2, <1>3, <1>4, <1>5, PushKeepsInv

-----------------------------------------------------------------------------
(* The theorems. *)

\* The namespace begins with its root and one scope.
LEMMA InitIsSound ==
  ASSUME Init
  PROVE  NamespaceInv
<1>1. RootNode \in Nodes /\ MaxLevel \in Nat /\ 1 \in 1..MaxLevel /\ MaxPath \in Nat
  BY NamespaceAssumption
<1>2. Live = {RootNode} /\ Level = 1
  BY DEF Init, Live, Level
<1>3. nodes[RootNode] = [path |-> <<>>, kind |-> "scope", dest |-> NoDest, temp |-> 0,
                         flagged |-> FALSE, next |-> Null, owner |-> 0]
  BY DEF Init
<1>4. <<>> \in Paths /\ Len(<<>>) = 0
  BY DEF Paths
<1>5. TypesOK
  <2>1. nodes \in [Live -> NodeRecords]
    <3>1. nodes[RootNode] \in NodeRecords
      BY <1>1, <1>3, <1>4 DEF NodeRecords, Kinds, Pointer
    <3>2. nodes = [n \in {RootNode} |-> nodes[RootNode]]
      BY <1>3 DEF Init
    <3> QED BY <3>1, <3>2, <1>2
  <2>2. scopes \in Seq(ScopeRecords)
    <3>1. [path |-> <<>>, flagged |-> FALSE, call |-> Null] \in ScopeRecords
      BY <1>4 DEF ScopeRecords, Pointer
    <3> QED BY <3>1 DEF Init
  <2>3. tree \in Trees
    <3>1. NoEntry \in EntryRecords /\ ~NoEntry.in
      BY DEF NoEntry, EntryRecords, Pointer
    <3>2. tree = [e \in Entries |-> NoEntry]
      BY DEF Init
    <3> HIDE DEF NoEntry
    <3> QED BY <3>1, <3>2 DEF Trees, Entries
  <2>4. heads \in [1..MaxLevel -> Pointer]
    BY DEF Init, Pointer
  <2>5. \A n \in Live : Len(nodes[n].path) <= MaxPath
    BY <1>1, <1>2, <1>3, <1>4
  <2> QED BY <2>1, <2>2, <2>3, <2>4, <2>5, <1>1, <1>2 DEF TypesOK, Init
<1>6. TableOK
  <2>1. order = <<RootNode>>
    BY DEF Init
  <2>2. Len(order) = 1 /\ order[1] = RootNode /\ order \in Seq(Nodes) /\ 1..1 = {1}
    BY <2>1, <1>1
  <2> QED BY <2>2, <1>2 DEF TableOK, Ordered, Members
<1>7. FlagsOK
  BY <1>2, <1>3 DEF FlagsOK
<1>8. PICK ls : ls = [l \in 1..1 |-> <<>>]
  OBVIOUS
<1>9. ls[1] = <<>> /\ Linked(nodes, <<>>, Null) /\ Members(<<>>) = {} /\ heads[1] = Null
      /\ 1..Level = {1} /\ scopes[1].call = Null
  <2>1. ls[1] = <<>>
    BY <1>8
  <2>2. Linked(nodes, <<>>, Null) /\ Members(<<>>) = {}
    BY LinkedEmpty
  <2>3. heads[1] = Null /\ scopes[1].call = Null
    BY <1>1 DEF Init
  <2>4. 1..Level = {1}
    BY <1>2
  <2> QED BY <2>1, <2>2, <2>3, <2>4
<1>10. Listed(ls)
  BY <1>9 DEF Listed
<1>11. CallsOK(ls) /\ OwnersOK(ls)
  BY <1>2, <1>3, <1>9 DEF CallsOK, OwnersOK
<1> QED BY <1>5, <1>6, <1>7, <1>10, <1>11 DEF NamespaceInv

\* Whatever is declared, opened, called and left, the invariant holds.
THEOREM NamespaceStaysSound == Spec => []NamespaceInv
<1>1. Init => NamespaceInv
  BY InitIsSound
<1>2. NamespaceInv /\ [Next]_vars => NamespaceInv'
  <2> SUFFICES ASSUME NamespaceInv, [Next]_vars PROVE NamespaceInv'
    OBVIOUS
  <2>1. TypesOK
    BY DEF NamespaceInv
  <2>2. ASSUME NEW n \in Nodes, NEW name \in NameStrings, NEW kind \in Kinds,
               NEW dest \in AliasNames \cup {NoDest}, DeclareKind(n, name, kind, dest)
        PROVE  NamespaceInv'
    <3>1. CreateNode(n, name, kind, dest) /\ Scoped(n)
      BY <2>1, <2>2, KindIsScoped DEF DeclareKind
    <3> QED BY <3>1, CreateKeepsInv
  <2>3. ASSUME NEW n \in Nodes, NEW name \in NameStrings, DeclareName(n, name)
        PROVE  NamespaceInv'
    BY <2>2, <2>3 DEF DeclareName, Kinds
  <2>4. ASSUME NEW n \in Nodes, NEW name \in NameStrings, DeclareMethod(n, name)
        PROVE  NamespaceInv'
    BY <2>2, <2>4 DEF DeclareMethod, Kinds
  <2>5. ASSUME NEW n \in Nodes, NEW name \in NameStrings, DeclareAlias(n, name)
        PROVE  NamespaceInv'
    BY <2>2, <2>5 DEF DeclareAlias, Kinds
  <2>6. ASSUME NEW n \in Nodes, NEW name \in NameStrings, DeclareDevice(n, name)
        PROVE  NamespaceInv'
    <3>1. CreateNode(n, name, "scope", NoDest) /\ Scoped(n) /\ "scope" \in Kinds
      BY <2>1, <2>6, DeviceIsScoped DEF DeclareDevice, Kinds
    <3> QED BY <3>1, CreateKeepsInv
  <2>7. ASSUME NEW name \in NameStrings, OpenScope(name) PROVE NamespaceInv'
    BY <2>7, OpenKeepsInv
  <2>8. ASSUME NEW m \in Nodes, Call(m) PROVE NamespaceInv'
    BY <2>8, CallKeepsInv
  <2>9. CASE PopScope
    BY <2>9, PopKeepsInv
  <2>10. CASE TreeBuild
    BY <2>10, TreeBuildKeepsInv
  <2>11. CASE UNCHANGED vars
    <3>1. UNCHANGED <<nodes, order, tree, built, scopes, heads, recursed, inner, late>>
      BY <2>11 DEF vars
    <3>2. TypesOK' /\ TableOK' /\ FlagsOK'
      BY <3>1 DEF NamespaceInv, TypesOK, TableOK, FlagsOK, Live, Level
    <3>3. PICK ls : Listed(ls) /\ (~recursed => CallsOK(ls) /\ OwnersOK(ls))
      BY DEF NamespaceInv
    <3>4. Listed(ls)' /\ (~recursed' => CallsOK(ls)' /\ OwnersOK(ls)')
      BY <3>1, <3>3 DEF Listed, CallsOK, OwnersOK, Level, Live
    <3> QED BY <3>2, <3>4 DEF NamespaceInv
  <2> QED BY <2>3, <2>4, <2>5, <2>6, <2>7, <2>8, <2>9, <2>10, <2>11 DEF Next
<1> QED BY <1>1, <1>2, PTL DEF Spec

\* The table, the list of evaluation order and the temporary lists lead to nodes
\* that exist, to each once (AmlNamespaceCreateNode, AmlNamespacePopScope).
THEOREM IndexesStaySound == Spec => []IndexesAreSound
<1>1. ASSUME NamespaceInv PROVE IndexesAreSound
  <2>1. TypesOK /\ TableOK
    BY <1>1 DEF NamespaceInv
  <2>2. PICK ls : Listed(ls)
    BY <1>1 DEF NamespaceInv
  <2>3. order \in Seq(Nodes) /\ Len(order) \in Nat /\ DOMAIN order = 1..Len(order)
        /\ order[1] = RootNode /\ 1 \in 1..Len(order)
    BY <2>1 DEF TableOK, Ordered
  <2>4. ToSet(order) = Live
    BY <2>1, <2>3 DEF TableOK, Members, ToSet
  <2>5. IndexesAgree
    <3>1. IsInjective(order)
      BY <2>1, <2>3 DEF TableOK, Ordered, IsInjective
    <3> QED BY <3>1, <2>1, <2>4 DEF IndexesAgree, TableOK
  <2>6. TypeOK
    <3>1. RootNode \in Live
      BY <2>3, <2>4 DEF ToSet
    <3>2. ASSUME NEW n \in Live
          PROVE  /\ nodes[n].kind \in {"scope", "method", "name", "alias"}
                 /\ nodes[n].temp \in 0..MaxLevel /\ nodes[n].owner \in 0..MaxLevel
                 /\ nodes[n].flagged \in BOOLEAN /\ nodes[n].next \in Nodes \cup {Null}
                 /\ Len(nodes[n].path) <= MaxPath
      BY <2>1 DEF TypesOK, NodeRecords, Kinds, Pointer
    <3>3. \A l \in 1..Level : scopes[l].call \in Nodes \cup {Null}
      <4>1. \A l \in 1..Len(scopes) : scopes[l] \in ScopeRecords
        BY <2>1 DEF TypesOK
      <4> QED BY <4>1 DEF Level, ScopeRecords, Pointer
    <3>4. tree \in [Entries -> [in : BOOLEAN, parent : Entries \cup {Null},
                                first : Nodes \cup {Null}, last : Nodes \cup {Null},
                                next : Nodes \cup {Null}, prev : Nodes \cup {Null}]]
      BY <2>1 DEF TypesOK, Trees, EntryRecords, Pointer
    <3> QED BY <3>1, <3>2, <3>3, <3>4, <2>1, <2>4 DEF TypeOK, TypesOK, Pointer
  <2>7. ReleasesAreSound
    <3>1. ASSUME NEW l \in 1..Level
          PROVE  /\ ToSet(TempList(l)) \subseteq Live /\ IsInjective(TempList(l))
                 /\ ToSet(TempList(l)) \subseteq Members(ls[l])
      BY <2>1, <2>2, ReleasedAre
    <3>2. \A k, l \in 1..Level : k # l => Members(ls[k]) \cap Members(ls[l]) = {}
      BY <2>2 DEF Listed
    <3> QED BY <3>1, <3>2 DEF ReleasesAreSound
  <2> QED BY <2>5, <2>6, <2>7 DEF IndexesAreSound
<1> QED BY <1>1, NamespaceStaysSound, PTL

\* What a call creates below its method is gone when it is over, as long as no
\* method is called while it is running (AmlNamespacePopScope).
THEOREM TemporaryNodesEndInTime == Spec => []TemporaryNodesEndAtFirst
<1>1. ASSUME NamespaceInv PROVE TemporaryNodesEndAtFirst
  <2> SUFFICES ASSUME ~recursed, NEW n \in Live PROVE nodes[n].owner <= Level
    BY DEF TemporaryNodesEndAtFirst, TemporaryNodesEnd
  <2>1. PICK ls : OwnersOK(ls)
    BY <1>1 DEF NamespaceInv
  <2>2. CASE nodes[n].owner = 0
    BY <2>2, <1>1, NamespaceAssumption DEF NamespaceInv, TypesOK
  <2>3. CASE nodes[n].owner # 0
    BY <2>1, <2>3 DEF OwnersOK
  <2> QED BY <2>2, <2>3
<1> QED BY <1>1, NamespaceStaysSound, PTL

\* A pop releases no node but those below methods; nothing else releases any.
THEOREM PermanentNodesNeverGo == Spec => PermanentNodesStay
<1>1. ASSUME NamespaceInv, [Next]_vars
      PROVE  [\A n \in Live : ~nodes[n].flagged => n \in DOMAIN nodes']_vars
  <2>1. CASE PopScope
    <3>1. PICK ls : Listed(ls)
      BY <1>1 DEF NamespaceInv
    <3>2. Level \in 1..Level /\ TypesOK
      BY <1>1, NamespaceAssumption DEF NamespaceInv, TypesOK
    <3>3. PICK gone : gone = ToSet(TempList(Level))
      OBVIOUS
    <3>4. gone \subseteq Members(ls[Level])
      BY <3>1, <3>2, <3>3, ReleasedAre
    <3>5. \A n \in gone : nodes[n].flagged
      BY <3>1, <3>2, <3>4 DEF Listed
    <3>6. nodes' = [n \in Live \ gone |-> nodes[n]]
      BY <2>1, <3>3 DEF PopScope
    <3> QED BY <3>5, <3>6
  <2>2. ASSUME NEW n, NEW name, NEW kind, NEW dest, CreateNode(n, name, kind, dest)
        PROVE  Live \subseteq DOMAIN nodes'
    BY <2>2 DEF CreateNode
  <2>3. ASSUME NEW n \in Nodes, NEW name \in NameStrings,
               DeclareName(n, name) \/ DeclareMethod(n, name) \/ DeclareAlias(n, name)
                 \/ DeclareDevice(n, name)
        PROVE  Live \subseteq DOMAIN nodes'
    BY <2>2, <2>3 DEF DeclareName, DeclareMethod, DeclareAlias, DeclareDevice, DeclareKind
  <2>4. ASSUME NEW name \in NameStrings, OpenScope(name) PROVE Live \subseteq DOMAIN nodes'
    BY <2>4 DEF OpenScope, Live
  <2>5. ASSUME NEW m \in Nodes, Call(m) PROVE Live \subseteq DOMAIN nodes'
    BY <2>5 DEF Call, Live
  <2>6. CASE TreeBuild
    BY <2>6 DEF TreeBuild, Live
  <2> QED BY <1>1, <2>1, <2>3, <2>4, <2>5, <2>6 DEF Next
<1> QED BY <1>1, NamespaceStaysSound, PTL DEF Spec, PermanentNodesStay
==============================================================================
