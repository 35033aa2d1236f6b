----------------------------- MODULE ArenaProofs ----------------------------
(***************************************************************************)
(* Until a rollback has cut chunks off the active list, the lists of the   *)
(* arena hold every chunk once; while the backend has refused nothing      *)
(* either, live allocations are disjoint and snapshots find what they      *)
(* refer to. For any number of chunks, sizes, snapshots and allocations.   *)
(*                                                                         *)
(* A list is described by the sequence of its chunks.                      *)
(***************************************************************************)
EXTENDS Arena, Lemmas

Members(s) == {s[k] : k \in 1..Len(s)}
Once(s) == \A j, k \in 1..Len(s) : s[j] = s[k] => j = k

Links == [Chunks -> Pointer]
Ends == [first : Pointer, last : Pointer]

-----------------------------------------------------------------------------
(* What the links lead to. *)

\* The equations that define what a link leads to.
LEMMA AlongEquations ==
  ASSUME NEW link \in Links, NEW from \in Pointer
  PROVE  /\ Cardinality(Chunks) \in Nat
         /\ Along(link, from) \in [0..Cardinality(Chunks) -> Pointer]
         /\ Along(link, from)[0] = from
         /\ \A k \in 1..Cardinality(Chunks) :
              Along(link, from)[k] = IF Along(link, from)[k - 1] = Null THEN Null
                                     ELSE link[Along(link, from)[k - 1]]
<1> DEFINE n == Cardinality(Chunks)
           follow == [p \in Pointer |-> IF p = Null THEN Null ELSE link[p]]
<1>1. n \in Nat
  BY ArenaAssumption, FS_CardinalityType
<1>2. follow \in [Pointer -> Pointer]
  BY DEF Links, Pointer
<1> HIDE DEF n, follow
<1>3. PICK g : Continued(g, n, Pointer, from, follow)
  BY <1>1, <1>2, Recursion
<1>4. /\ g \in [0..n -> Pointer] /\ g[0] = from
      /\ \A k \in 1..n : g[k] = follow[g[k - 1]]
  BY <1>3 DEF Continued
<1>5. g = [k \in 0..n |-> IF k = 0 THEN from
                          ELSE IF g[k - 1] = Null THEN Null ELSE link[g[k - 1]]]
  <2>1. ASSUME NEW k \in 0..n, k # 0
        PROVE  g[k] = IF g[k - 1] = Null THEN Null ELSE link[g[k - 1]]
    <3>1. k \in 1..n /\ k - 1 \in 0..n
      BY <2>1, <1>1
    <3>2. g[k - 1] \in Pointer /\ g[k] = follow[g[k - 1]]
      BY <3>1, <1>4
    <3> QED BY <3>2 DEF follow
  <2> QED BY <1>4, <2>1
<1>6. Along(link, from) =
        [k \in 0..n |-> IF k = 0 THEN from
                        ELSE IF Along(link, from)[k - 1] = Null THEN Null
                             ELSE link[Along(link, from)[k - 1]]]
  BY <1>5 DEF Along, n
<1> DEFINE c == Along(link, from)
<1> HIDE DEF c
<1>7. c = [k \in 0..n |-> IF k = 0 THEN from
                          ELSE IF c[k - 1] = Null THEN Null ELSE link[c[k - 1]]]
  BY <1>6 DEF c
<1>8. c[0] = from
  <2>1. 0 \in 0..n
    BY <1>1
  <2> QED BY <2>1, <1>7
<1>9. ASSUME NEW k \in 1..n PROVE c[k] = IF c[k - 1] = Null THEN Null ELSE link[c[k - 1]]
  <2>1. k \in 0..n /\ k # 0
    BY <1>1
  <2> QED BY <2>1, <1>7
<1>10. c \in [0..n -> Pointer]
  <2> DEFINE S == {k \in Nat : k <= n => c[k] \in Pointer}
  <2>1. 0 \in S
    BY <1>2, <1>8
  <2>2. ASSUME NEW k \in Nat, k \in S PROVE k + 1 \in S
    <3> SUFFICES ASSUME k + 1 <= n PROVE c[k + 1] \in Pointer
      OBVIOUS
    <3>1. k + 1 \in 1..n /\ (k + 1) - 1 = k /\ k <= n
      BY <1>1
    <3>2. c[k] \in Pointer /\ c[k + 1] = IF c[k] = Null THEN Null ELSE link[c[k]]
      BY <2>2, <3>1, <1>9
    <3> QED BY <3>2 DEF Links, Pointer
  <2> HIDE DEF S
  <2>3. Nat \subseteq S
    BY <2>1, <2>2, SetInduction
  <2>4. ASSUME NEW k \in 0..n PROVE c[k] \in Pointer
    BY <2>3, <1>1 DEF S
  <2> QED BY <1>7, <2>4
<1> QED BY <1>1, <1>8, <1>9, <1>10 DEF c, n

\* Links that stay among some chunks lead to nothing else.
LEMMA AlongStays ==
  ASSUME NEW link \in Links, NEW P \in SUBSET Chunks, NEW from \in P \cup {Null},
         \A c \in P : link[c] \in P \cup {Null}
  PROVE  \A k \in 0..Cardinality(Chunks) : Along(link, from)[k] \in P \cup {Null}
<1> DEFINE n == Cardinality(Chunks)
           c == Along(link, from)
           S == {k \in Nat : k <= n => c[k] \in P \cup {Null}}
<1>1. from \in Pointer
  BY DEF Pointer
<1>2. /\ n \in Nat /\ c[0] = from
      /\ \A k \in 1..n : c[k] = IF c[k - 1] = Null THEN Null ELSE link[c[k - 1]]
  BY <1>1, AlongEquations
<1> HIDE DEF n, c
<1>3. 0 \in S
  BY <1>2
<1>4. ASSUME NEW k \in Nat, k \in S PROVE k + 1 \in S
  <2> SUFFICES ASSUME k + 1 <= n PROVE c[k + 1] \in P \cup {Null}
    OBVIOUS
  <2>1. k + 1 \in 1..n /\ (k + 1) - 1 = k /\ k <= n
    BY <1>2
  <2>2. c[k] \in P \cup {Null} /\ c[k + 1] = IF c[k] = Null THEN Null ELSE link[c[k]]
    BY <1>2, <1>4, <2>1
  <2> QED BY <2>2
<1> HIDE DEF S
<1>5. Nat \subseteq S
  BY <1>3, <1>4, SetInduction
<1>6. ASSUME NEW k \in 0..n PROVE c[k] \in P \cup {Null}
  BY <1>5, <1>2 DEF S
<1> QED BY <1>6 DEF c, n

-----------------------------------------------------------------------------
(* Sequences of chunks that a link follows. *)

Path(link, from, s) ==
  /\ s \in Seq(Chunks) /\ Once(s)
  /\ from = IF s = <<>> THEN Null ELSE s[1]
  /\ \A k \in 1..Len(s) : link[s[k]] = IF k = Len(s) THEN Null ELSE s[k + 1]

\* There are no more chunks in a sequence than there are.
LEMMA OnceIsShort ==
  ASSUME NEW s \in Seq(Chunks), Once(s)
  PROVE  Len(s) <= Cardinality(Chunks)
<1>1. /\ Len(s) \in Nat /\ Cardinality(1..Len(s)) = Len(s) /\ IsFiniteSet(1..Len(s))
      /\ Cardinality(Chunks) \in Nat /\ IsFiniteSet(Chunks)
  <2>1. Len(s) \in Nat
    OBVIOUS
  <2>2. IsFiniteSet(1..Len(s)) /\ Cardinality(1..Len(s)) = IF 1 > Len(s) THEN 0 ELSE Len(s) - 1 + 1
    BY <2>1, FS_Interval
  <2> QED BY <2>1, <2>2, ArenaAssumption, FS_CardinalityType
<1>2. s \in [1..Len(s) -> Chunks]
  OBVIOUS
<1>3. SUFFICES ASSUME Cardinality(Chunks) < Cardinality(1..Len(s)) PROVE FALSE
  BY <1>1
<1>4. \E j, k \in 1..Len(s) : j # k /\ s[j] = s[k]
  BY <1>1, <1>2, <1>3, FS_PigeonHole
<1> QED BY <1>4 DEF Once

\* A link leads to the chunks of the sequence and then ends.
LEMMA AlongPath ==
  ASSUME NEW link \in Links, NEW from, NEW s, Path(link, from, s)
  PROVE  /\ ~Endless(link, from)
         /\ Reach(link, from) = Members(s)
<1> DEFINE n == Cardinality(Chunks)
           c == Along(link, from)
           S == {k \in Nat : k <= n => c[k] = IF k < Len(s) THEN s[k + 1] ELSE Null}
<1>1. /\ s \in Seq(Chunks) /\ Once(s) /\ Len(s) \in Nat
      /\ from = IF s = <<>> THEN Null ELSE s[1]
      /\ \A k \in 1..Len(s) : link[s[k]] = IF k = Len(s) THEN Null ELSE s[k + 1]
  BY DEF Path
<1>2. from \in Pointer /\ (Len(s) = 0 => from = Null) /\ (Len(s) # 0 => from = s[1])
  BY <1>1 DEF Pointer
<1>3. /\ n \in Nat /\ c[0] = from
      /\ \A k \in 1..n : c[k] = IF c[k - 1] = Null THEN Null ELSE link[c[k - 1]]
  BY <1>2, AlongEquations
<1>4. Len(s) <= n
  BY <1>1, OnceIsShort
<1>5. \A k \in 1..Len(s) : s[k] \in Chunks /\ s[k] # Null
  BY <1>1, ArenaAssumption
<1> HIDE DEF n, c
<1>6. 0 \in S
  BY <1>1, <1>2, <1>3
<1>7. ASSUME NEW k \in Nat, k \in S PROVE k + 1 \in S
  <2> SUFFICES ASSUME k + 1 <= n
               PROVE  c[k + 1] = IF k + 1 < Len(s) THEN s[(k + 1) + 1] ELSE Null
    OBVIOUS
  <2>1. k + 1 \in 1..n /\ (k + 1) - 1 = k /\ k <= n
    BY <1>3
  <2>2. c[k + 1] = IF c[k] = Null THEN Null ELSE link[c[k]]
    BY <1>3, <2>1
  <2>3. c[k] = IF k < Len(s) THEN s[k + 1] ELSE Null
    BY <1>7, <2>1
  <2>4. CASE k < Len(s)
    <3>1. k + 1 \in 1..Len(s) /\ c[k] = s[k + 1] /\ c[k] # Null
      BY <2>3, <2>4, <1>1, <1>5
    <3>2. link[s[k + 1]] = IF k + 1 = Len(s) THEN Null ELSE s[(k + 1) + 1]
      BY <3>1, <1>1
    <3> QED BY <3>1, <3>2, <2>2, <1>1
  <2>5. CASE ~(k < Len(s))
    BY <2>2, <2>3, <2>5, <1>1
  <2> QED BY <2>4, <2>5
<1> HIDE DEF S
<1>8. Nat \subseteq S
  BY <1>6, <1>7, SetInduction
<1>9. ASSUME NEW k \in 0..n PROVE c[k] = IF k < Len(s) THEN s[k + 1] ELSE Null
  BY <1>8, <1>3 DEF S
<1>10. c[n] = Null
  BY <1>9, <1>3, <1>4, <1>1
<1>11. {c[k] : k \in 0..n} \ {Null} = Members(s)
  <2>1. ASSUME NEW k \in 0..n, c[k] # Null PROVE c[k] \in Members(s)
    <3>1. k < Len(s) /\ c[k] = s[k + 1]
      BY <2>1, <1>9
    <3>2. k + 1 \in 1..Len(s)
      BY <3>1, <1>1, <1>3
    <3> QED BY <3>1, <3>2 DEF Members
  <2>2. ASSUME NEW k \in 1..Len(s) PROVE s[k] # Null /\ \E j \in 0..n : c[j] = s[k]
    <3>1. k - 1 \in 0..n /\ k - 1 < Len(s) /\ (k - 1) + 1 = k
      BY <1>1, <1>3, <1>4
    <3> QED BY <3>1, <1>5, <1>9
  <2> QED BY <2>1, <2>2 DEF Members
<1> QED BY <1>10, <1>11 DEF Endless, Reach, c, n

-----------------------------------------------------------------------------
(* Doubly linked lists. *)

Linked(n, p, list, s) ==
  /\ Path(n, list.first, s)
  /\ list.last = IF s = <<>> THEN Null ELSE s[Len(s)]
  /\ \A k \in 1..Len(s) : p[s[k]] = IF k = 1 THEN Null ELSE s[k - 1]

\* A linked list reads the same from its head and from its tail.
LEMMA LinkedIsWell ==
  ASSUME NEW n \in Links, NEW p \in Links, NEW list, NEW s, Linked(n, p, list, s)
  PROVE  /\ ~Endless(n, list.first) /\ Reach(n, list.first) = Members(s)
         /\ ~Endless(p, list.last) /\ Reach(p, list.last) = Members(s)
         /\ \A c \in Members(s) : n[c] # Null => p[n[c]] = c
<1>1. /\ s \in Seq(Chunks) /\ Once(s) /\ Len(s) \in Nat
      /\ \A k \in 1..Len(s) : n[s[k]] = IF k = Len(s) THEN Null ELSE s[k + 1]
      /\ \A k \in 1..Len(s) : p[s[k]] = IF k = 1 THEN Null ELSE s[k - 1]
      /\ list.last = IF s = <<>> THEN Null ELSE s[Len(s)]
  BY DEF Linked, Path
<1>2. ~Endless(n, list.first) /\ Reach(n, list.first) = Members(s)
  BY AlongPath DEF Linked
<1> DEFINE r == [k \in 1..Len(s) |-> s[Len(s) + 1 - k]]
<1>3. r \in Seq(Chunks) /\ Len(r) = Len(s) /\ \A k \in 1..Len(s) : r[k] = s[Len(s) + 1 - k]
  <2>1. \A k \in 1..Len(s) : Len(s) + 1 - k \in 1..Len(s)
    BY <1>1
  <2>2. \A k \in 1..Len(s) : s[Len(s) + 1 - k] \in Chunks
    BY <2>1, <1>1
  <2> QED BY <2>2, <1>1
<1> HIDE DEF r
<1>4. Path(p, list.last, r)
  <2>1. Once(r)
    <3> SUFFICES ASSUME NEW j \in 1..Len(s), NEW k \in 1..Len(s), r[j] = r[k] PROVE j = k
      BY <1>3 DEF Once
    <3>1. Len(s) + 1 - j \in 1..Len(s) /\ Len(s) + 1 - k \in 1..Len(s)
      BY <1>1
    <3>2. s[Len(s) + 1 - j] = s[Len(s) + 1 - k]
      BY <1>3
    <3>3. Len(s) + 1 - j = Len(s) + 1 - k
      BY <3>1, <3>2, <1>1 DEF Once
    <3> QED BY <3>3, <1>1
  <2>2. list.last = IF r = <<>> THEN Null ELSE r[1]
    <3>1. CASE s = <<>>
      BY <3>1, <1>1, <1>3
    <3>2. CASE s # <<>>
      <4>1. Len(s) # 0 /\ 1 \in 1..Len(s) /\ Len(s) + 1 - 1 = Len(s)
        BY <3>2, <1>1
      <4>2. r # <<>> /\ r[1] = s[Len(s)]
        BY <4>1, <1>3
      <4> QED BY <4>2, <3>2, <1>1
    <3> QED BY <3>1, <3>2
  <2>3. ASSUME NEW k \in 1..Len(r) PROVE p[r[k]] = IF k = Len(r) THEN Null ELSE r[k + 1]
    <3>1. k \in 1..Len(s) /\ Len(s) + 1 - k \in 1..Len(s)
      BY <1>1, <1>3
    <3>2. p[r[k]] = IF Len(s) + 1 - k = 1 THEN Null ELSE s[(Len(s) + 1 - k) - 1]
      BY <3>1, <1>1, <1>3
    <3>3. CASE k = Len(s)
      BY <3>2, <3>3, <1>1, <1>3
    <3>4. CASE k # Len(s)
      <4>1. k + 1 \in 1..Len(s) /\ Len(s) + 1 - (k + 1) = (Len(s) + 1 - k) - 1 /\ Len(s) + 1 - k # 1
        BY <3>1, <3>4, <1>1
      <4>2. r[k + 1] = s[Len(s) + 1 - (k + 1)]
        BY <4>1, <1>3
      <4> QED BY <4>1, <4>2, <3>2, <3>4, <1>3
    <3> QED BY <3>3, <3>4
  <2> QED BY <2>1, <2>2, <2>3, <1>3 DEF Path
<1>5. Members(r) = Members(s)
  <2>1. ASSUME NEW k \in 1..Len(s) PROVE r[k] \in Members(s) /\ s[k] \in Members(r)
    <3>1. Len(s) + 1 - k \in 1..Len(s) /\ Len(s) + 1 - (Len(s) + 1 - k) = k
      BY <1>1
    <3>2. r[k] = s[Len(s) + 1 - k] /\ r[Len(s) + 1 - k] = s[k]
      BY <3>1, <1>3
    <3> QED BY <3>1, <3>2, <1>3 DEF Members
  <2> QED BY <2>1, <1>3 DEF Members
<1>6. ~Endless(p, list.last) /\ Reach(p, list.last) = Members(s)
  BY <1>4, <1>5, AlongPath
<1>7. ASSUME NEW c \in Members(s), n[c] # Null PROVE p[n[c]] = c
  <2>1. PICK k \in 1..Len(s) : c = s[k]
    BY DEF Members
  <2>2. k # Len(s) /\ n[c] = s[k + 1]
    BY <1>1, <1>7, <2>1
  <2>3. k + 1 \in 1..Len(s) /\ k + 1 # 1 /\ (k + 1) - 1 = k
    BY <1>1, <2>2
  <2> QED BY <1>1, <2>1, <2>2, <2>3
<1> QED BY <1>2, <1>6, <1>7

\* A list depends on the links of its own chunks only.
LEMMA LinkedFrame ==
  ASSUME NEW n, NEW p, NEW n2, NEW p2, NEW list, NEW s, Linked(n, p, list, s),
         \A c \in Members(s) : n2[c] = n[c] /\ p2[c] = p[c]
  PROVE  Linked(n2, p2, list, s)
<1>1. \A k \in 1..Len(s) : s[k] \in Members(s)
  BY DEF Members
<1> QED BY <1>1 DEF Linked, Path

\* What it takes to be linked, chunk by chunk.
LEMMA LinkedFacts ==
  ASSUME NEW n, NEW p, NEW list, NEW s, Linked(n, p, list, s)
  PROVE  /\ s \in Seq(Chunks) /\ Len(s) \in Nat /\ Once(s)
         /\ Len(s) = 0 => list.first = Null /\ list.last = Null
         /\ Len(s) > 0 => /\ list.first = s[1] /\ list.last = s[Len(s)]
                          /\ list.first \in Chunks /\ list.last \in Chunks
                          /\ list.first # Null /\ list.last # Null
                          /\ list.first \in Members(s) /\ list.last \in Members(s)
         /\ \A k \in 1..Len(s) : s[k] \in Chunks /\ s[k] # Null /\ s[k] \in Members(s)
         /\ \A k \in 1..Len(s) : n[s[k]] = IF k = Len(s) THEN Null ELSE s[k + 1]
         /\ \A k \in 1..Len(s) : p[s[k]] = IF k = 1 THEN Null ELSE s[k - 1]
         /\ Members(s) \subseteq Chunks
<1>1. s \in Seq(Chunks) /\ Len(s) \in Nat /\ Once(s)
  BY DEF Linked, Path
<1>2. \A k \in 1..Len(s) : s[k] \in Chunks /\ s[k] # Null /\ s[k] \in Members(s)
  BY <1>1, ArenaAssumption DEF Members
<1>3. Len(s) > 0 => 1 \in 1..Len(s) /\ Len(s) \in 1..Len(s) /\ s # <<>>
  BY <1>1
<1>4. Len(s) = 0 => s = <<>>
  BY <1>1
<1>5. list.first = (IF s = <<>> THEN Null ELSE s[1]) /\ list.last = (IF s = <<>> THEN Null ELSE s[Len(s)])
  BY DEF Linked, Path
<1>6. Members(s) \subseteq Chunks
  BY <1>2 DEF Members
<1> QED BY <1>1, <1>2, <1>3, <1>4, <1>5, <1>6 DEF Linked, Path

\* How to show that a list is linked.
LEMMA LinkedIntro ==
  ASSUME NEW n, NEW p, NEW list, NEW s \in Seq(Chunks), Once(s),
         Len(s) = 0 => list.first = Null /\ list.last = Null,
         Len(s) > 0 => list.first = s[1] /\ list.last = s[Len(s)],
         \A k \in 1..Len(s) : n[s[k]] = IF k = Len(s) THEN Null ELSE s[k + 1],
         \A k \in 1..Len(s) : p[s[k]] = IF k = 1 THEN Null ELSE s[k - 1]
  PROVE  Linked(n, p, list, s)
<1>1. Len(s) \in Nat /\ (s = <<>> => Len(s) = 0) /\ (s # <<>> => Len(s) > 0)
  OBVIOUS
<1> QED BY <1>1 DEF Linked, Path

\* A list without ends is empty.
LEMMA EmptyLinked ==
  ASSUME NEW n, NEW p, NEW list, list.first = Null, list.last = Null
  PROVE  Linked(n, p, list, << >>) /\ Members(<< >>) = {}
<1> DEFINE s == << >>
<1>1. s = << >> /\ s \in Seq(Chunks) /\ Len(s) = 0 /\ 1..0 = {}
  OBVIOUS
<1> HIDE DEF s
<1>2. Members(s) = {} /\ Once(s)
  BY <1>1 DEF Members, Once
<1>3. Path(n, list.first, s)
  BY <1>1, <1>2 DEF Path
<1>4. Linked(n, p, list, s)
  BY <1>1, <1>3 DEF Linked
<1> QED BY <1>1, <1>2, <1>4

-----------------------------------------------------------------------------
(* AmlArenaChunkListInsert and AmlArenaChunkListRemove. *)

\* Inserting appends a chunk at the tail.
LEMMA InsertLinked ==
  ASSUME NEW n \in Links, NEW p \in Links, NEW list, NEW s, Linked(n, p, list, s),
         NEW e \in Chunks, e \notin Members(s), n[e] = Null,
         NEW n2, NEW p2, NEW list2,
         n2 = Insert(n, p, list, e).next, p2 = Insert(n, p, list, e).prev,
         list2 = Insert(n, p, list, e).list
  PROVE  /\ Linked(n2, p2, list2, Append(s, e))
         /\ Members(Append(s, e)) = Members(s) \cup {e}
         /\ \A c \in Chunks : c \notin Members(s) \cup {e} => n2[c] = n[c] /\ p2[c] = p[c]
<1> DEFINE t == Append(s, e)
<1>1. /\ s \in Seq(Chunks) /\ Len(s) \in Nat /\ Once(s)
      /\ Len(s) = 0 => list.first = Null /\ list.last = Null
      /\ Len(s) > 0 => /\ list.first = s[1] /\ list.last = s[Len(s)]
                       /\ list.first # Null /\ list.last # Null
                       /\ list.last \in Chunks /\ list.last \in Members(s)
      /\ \A k \in 1..Len(s) : s[k] \in Chunks /\ s[k] # Null /\ s[k] \in Members(s)
      /\ \A k \in 1..Len(s) : n[s[k]] = IF k = Len(s) THEN Null ELSE s[k + 1]
      /\ \A k \in 1..Len(s) : p[s[k]] = IF k = 1 THEN Null ELSE s[k - 1]
  BY LinkedFacts
<1>2. /\ n2 = IF list.last # Null THEN [n EXCEPT ![list.last] = e] ELSE n
      /\ p2 = [p EXCEPT ![e] = list.last]
      /\ list2.first = IF list.first = Null THEN e ELSE list.first
      /\ list2.last = e
  BY DEF Insert
<1>3. /\ \A c \in Chunks : n2[c] = IF list.last # Null /\ c = list.last THEN e ELSE n[c]
      /\ \A c \in Chunks : p2[c] = IF c = e THEN list.last ELSE p[c]
  BY <1>1, <1>2 DEF Links
<1>4. /\ t \in Seq(Chunks) /\ Len(t) = Len(s) + 1 /\ t[Len(s) + 1] = e
      /\ \A k \in 1..Len(s) : t[k] = s[k]
  BY <1>1
<1> HIDE DEF t
<1>5. Once(t)
  <2> SUFFICES ASSUME NEW j \in 1..(Len(s) + 1), NEW k \in 1..(Len(s) + 1), t[j] = t[k] PROVE j = k
    BY <1>4 DEF Once
  <2>1. j \in 1..Len(s) \/ j = Len(s) + 1
    BY <1>1
  <2>2. k \in 1..Len(s) \/ k = Len(s) + 1
    BY <1>1
  <2> QED BY <2>1, <2>2, <1>1, <1>4 DEF Once
<1>6. list2.first = t[1] /\ list2.last = t[Len(t)]
  <2>1. CASE Len(s) = 0
    BY <2>1, <1>1, <1>2, <1>4
  <2>2. CASE Len(s) > 0
    <3>1. 1 \in 1..Len(s)
      BY <2>2, <1>1
    <3> QED BY <3>1, <2>2, <1>1, <1>2, <1>4
  <2> QED BY <2>1, <2>2, <1>1
<1>7. ASSUME NEW k \in 1..Len(t) PROVE n2[t[k]] = IF k = Len(t) THEN Null ELSE t[k + 1]
  <2>1. CASE k = Len(s) + 1
    <3>1. t[k] = e /\ ~(list.last # Null /\ e = list.last)
      BY <2>1, <1>1, <1>4
    <3> QED BY <3>1, <2>1, <1>3, <1>4
  <2>2. CASE k = Len(s)
    <3>1. k \in 1..Len(s) /\ t[k] = list.last /\ list.last # Null /\ list.last \in Chunks
      BY <2>2, <1>1, <1>4
    <3> QED BY <3>1, <2>2, <1>1, <1>3, <1>4
  <2>3. CASE k < Len(s)
    <3>1. k \in 1..Len(s) /\ k + 1 \in 1..Len(s) /\ Len(s) \in 1..Len(s) /\ k # Len(s)
      BY <2>3, <1>1, <1>4
    <3>2. s[k] # s[Len(s)]
      BY <3>1, <1>1 DEF Once
    <3>3. t[k] = s[k] /\ t[k + 1] = s[k + 1] /\ s[k] # list.last /\ s[k] \in Chunks
      BY <3>1, <3>2, <1>1, <1>4
    <3>4. n2[s[k]] = n[s[k]] /\ n[s[k]] = s[k + 1]
      BY <3>1, <3>3, <1>1, <1>3
    <3> QED BY <3>1, <3>3, <3>4, <1>1, <1>4
  <2> QED BY <2>1, <2>2, <2>3, <1>1, <1>4
<1>8. ASSUME NEW k \in 1..Len(t) PROVE p2[t[k]] = IF k = 1 THEN Null ELSE t[k - 1]
  <2>1. CASE k = Len(s) + 1
    <3>1. p2[t[k]] = list.last
      BY <2>1, <1>3, <1>4
    <3>2. CASE Len(s) = 0
      BY <3>1, <3>2, <2>1, <1>1
    <3>3. CASE Len(s) > 0
      <4>1. k # 1 /\ k - 1 = Len(s) /\ Len(s) \in 1..Len(s)
        BY <2>1, <3>3, <1>1
      <4> QED BY <4>1, <3>1, <3>3, <1>1, <1>4
    <3> QED BY <3>2, <3>3, <1>1
  <2>2. CASE k \in 1..Len(s)
    <3>1. t[k] = s[k] /\ s[k] # e /\ s[k] \in Chunks
      BY <2>2, <1>1, <1>4
    <3>2. p2[t[k]] = IF k = 1 THEN Null ELSE s[k - 1]
      BY <3>1, <2>2, <1>1, <1>3
    <3>3. k = 1 \/ k - 1 \in 1..Len(s)
      BY <2>2, <1>1
    <3> QED BY <3>2, <3>3, <1>4
  <2> QED BY <2>1, <2>2, <1>1, <1>4
<1>9. Linked(n2, p2, list2, t)
  BY <1>1, <1>4, <1>5, <1>6, <1>7, <1>8, LinkedIntro
<1>10. Members(t) = Members(s) \cup {e}
  <2>1. ASSUME NEW k \in 1..Len(t) PROVE t[k] \in Members(s) \cup {e}
    <3>1. k \in 1..Len(s) \/ k = Len(s) + 1
      BY <1>1, <1>4
    <3> QED BY <3>1, <1>1, <1>4
  <2>2. \A k \in 1..Len(s) : k \in 1..Len(t) /\ s[k] = t[k]
    BY <1>1, <1>4
  <2>3. Len(s) + 1 \in 1..Len(t) /\ t[Len(s) + 1] = e
    BY <1>1, <1>4
  <2> QED BY <2>1, <2>2, <2>3 DEF Members
<1>11. \A c \in Chunks : c \notin Members(s) \cup {e} => n2[c] = n[c] /\ p2[c] = p[c]
  <2>1. list.last = Null \/ list.last \in Members(s)
    BY <1>1
  <2> QED BY <2>1, <1>3
<1> QED BY <1>9, <1>10, <1>11 DEF t

\* Removing takes a chunk out of the list, wherever it is, and clears its links.
LEMMA RemoveLinked ==
  ASSUME NEW n \in Links, NEW p \in Links, NEW list, NEW s, Linked(n, p, list, s),
         NEW e \in Members(s),
         NEW n2, NEW p2, NEW list2,
         n2 = Remove(n, p, list, e).next, p2 = Remove(n, p, list, e).prev,
         list2 = Remove(n, p, list, e).list
  PROVE  /\ \E t : Linked(n2, p2, list2, t) /\ Members(t) = Members(s) \ {e}
         /\ n2[e] = Null
         /\ \A c \in Chunks : c \notin Members(s) => n2[c] = n[c] /\ p2[c] = p[c]
<1>1. /\ s \in Seq(Chunks) /\ Len(s) \in Nat /\ Once(s)
      /\ Len(s) > 0 => list.first = s[1] /\ list.last = s[Len(s)]
      /\ \A k \in 1..Len(s) : s[k] \in Chunks /\ s[k] # Null /\ s[k] \in Members(s)
      /\ \A k \in 1..Len(s) : n[s[k]] = IF k = Len(s) THEN Null ELSE s[k + 1]
      /\ \A k \in 1..Len(s) : p[s[k]] = IF k = 1 THEN Null ELSE s[k - 1]
  BY LinkedFacts
<1>2. PICK j \in 1..Len(s) : e = s[j]
  BY DEF Members
<1> DEFINE N == Len(s)
           before == IF j = 1 THEN Null ELSE s[j - 1]
           after == IF j = N THEN Null ELSE s[j + 1]
<1>3. /\ n[e] = after /\ p[e] = before /\ e \in Chunks /\ e # Null
      /\ before \in Pointer /\ after \in Pointer /\ N \in Nat /\ N > 0 /\ j \in Nat
      /\ (j # 1 => j - 1 \in 1..N /\ before # Null /\ before \in Chunks)
      /\ (j # N => j + 1 \in 1..N /\ after # Null /\ after \in Chunks)
  <2>1. j # 1 => j - 1 \in 1..N
    BY <1>1
  <2>2. j # N => j + 1 \in 1..N
    BY <1>1
  <2> QED BY <2>1, <2>2, <1>1, <1>2 DEF Pointer
<1>4. s[1] \in Chunks /\ s[N] \in Chunks
  BY <1>1, <1>3
<1> HIDE DEF before, after
<1> DEFINE n1 == IF before # Null THEN [n EXCEPT ![before] = after] ELSE n
           p1 == IF after # Null THEN [p EXCEPT ![after] = before] ELSE p
<1>5. /\ n2 = [n1 EXCEPT ![e] = Null] /\ p2 = [p1 EXCEPT ![e] = Null]
      /\ list2.first = IF list.first = e THEN n1[e] ELSE list.first
      /\ list2.last = IF list.last = e THEN p1[e] ELSE list.last
  BY <1>3 DEF Remove
<1>6. /\ n1 \in Links /\ p1 \in Links
      /\ \A c \in Chunks : n1[c] = IF before # Null /\ c = before THEN after ELSE n[c]
      /\ \A c \in Chunks : p1[c] = IF after # Null /\ c = after THEN before ELSE p[c]
  BY <1>3 DEF Links
<1> HIDE DEF n1, p1
<1>7. /\ \A c \in Chunks : n2[c] = IF c = e THEN Null ELSE
                              IF before # Null /\ c = before THEN after ELSE n[c]
      /\ \A c \in Chunks : p2[c] = IF c = e THEN Null ELSE
                              IF after # Null /\ c = after THEN before ELSE p[c]
  BY <1>3, <1>5, <1>6 DEF Links
<1>8. (before # Null => before # e /\ j # 1) /\ (after # Null => after # e /\ j # N)
  <2>1. j # 1 => s[j - 1] # s[j]
    BY <1>1, <1>3 DEF Once
  <2>2. j # N => s[j + 1] # s[j]
    BY <1>1, <1>3 DEF Once
  <2> QED BY <2>1, <2>2, <1>2 DEF before, after
<1>9. /\ list2.first = IF j = 1 THEN after ELSE s[1]
      /\ list2.last = IF j = N THEN before ELSE s[N]
  <2>1. n1[e] = after /\ p1[e] = before
    BY <1>3, <1>6, <1>8
  <2>2. (list.first = e <=> j = 1) /\ (list.last = e <=> j = N)
    <3>1. list.first = s[1] /\ list.last = s[N] /\ 1 \in 1..N /\ N \in 1..N
      BY <1>1, <1>3
    <3> QED BY <3>1, <1>1, <1>2 DEF Once
  <2> QED BY <2>1, <2>2, <1>1, <1>3, <1>5
<1> DEFINE t == [k \in 1..(N - 1) |-> IF k < j THEN s[k] ELSE s[k + 1]]
<1>10. ASSUME NEW k \in 1..(N - 1)
       PROVE  /\ k \in 1..N /\ k + 1 \in 1..N
              /\ (IF k < j THEN s[k] ELSE s[k + 1]) \in Chunks
  BY <1>1, <1>3
<1>11. /\ t \in Seq(Chunks) /\ Len(t) = N - 1
       /\ \A k \in 1..(N - 1) : t[k] = IF k < j THEN s[k] ELSE s[k + 1]
  <2>1. N - 1 \in Nat
    BY <1>3
  <2> QED BY <2>1, <1>10
<1> HIDE DEF t
<1>12. Once(t)
  <2> SUFFICES ASSUME NEW a \in 1..(N - 1), NEW b \in 1..(N - 1), t[a] = t[b] PROVE a = b
    BY <1>11 DEF Once
  <2>1. a \in 1..N /\ a + 1 \in 1..N /\ b \in 1..N /\ b + 1 \in 1..N
    BY <1>10
  <2> QED BY <2>1, <1>1, <1>3, <1>11 DEF Once
<1>13. ASSUME NEW k \in 1..(N - 1)
       PROVE  /\ t[k] \in Chunks /\ t[k] # e
              /\ (before # Null /\ t[k] = before <=> k = j - 1)
              /\ (after # Null /\ t[k] = after <=> k = j)
  <2>1. k \in 1..N /\ k + 1 \in 1..N
    BY <1>10
  <2>2. t[k] = IF k < j THEN s[k] ELSE s[k + 1]
    BY <1>11
  <2>3. t[k] \in Chunks /\ t[k] # e
    BY <2>1, <2>2, <1>1, <1>2, <1>3 DEF Once
  <2>4. before # Null /\ t[k] = before <=> k = j - 1
    BY <2>1, <2>2, <1>1, <1>3, <1>8 DEF Once, before
  <2>5. after # Null /\ t[k] = after <=> k = j
    BY <2>1, <2>2, <1>1, <1>3, <1>8 DEF Once, after
  <2> QED BY <2>3, <2>4, <2>5
<1>14. ASSUME NEW k \in 1..(N - 1) PROVE n2[t[k]] = IF k = N - 1 THEN Null ELSE t[k + 1]
  <2>1. k \in 1..N /\ k + 1 \in 1..N
    BY <1>10
  <2>2. t[k] \in Chunks /\ t[k] # e /\ (before # Null /\ t[k] = before <=> k = j - 1)
    BY <1>13
  <2>3. n2[t[k]] = IF k = j - 1 THEN after ELSE n[t[k]]
    BY <2>2, <1>7
  <2>4. k # N - 1 => k + 1 \in 1..(N - 1)
    BY <1>3
  <2>5. k # N - 1 => t[k + 1] = IF k + 1 < j THEN s[k + 1] ELSE s[(k + 1) + 1]
    BY <2>4, <1>11
  <2>6. CASE k = j - 1
    <3>1. k + 1 = j /\ (j = N <=> k = N - 1)
      BY <2>6, <1>3
    <3> QED BY <3>1, <2>3, <2>5, <2>6, <1>3 DEF after
  <2>7. CASE k < j - 1
    <3>1. t[k] = s[k] /\ k < j /\ k + 1 < j /\ k # N - 1 /\ k # N
      BY <2>7, <1>3, <1>11
    <3> QED BY <3>1, <2>1, <2>3, <2>5, <2>7, <1>1, <1>3
  <2>8. CASE k > j - 1
    <3>1. t[k] = s[k + 1] /\ ~(k < j) /\ ~(k + 1 < j) /\ (k + 1 = N <=> k = N - 1)
      BY <2>8, <1>3, <1>11
    <3>2. n[s[k + 1]] = IF k + 1 = N THEN Null ELSE s[(k + 1) + 1]
      BY <2>1, <1>1
    <3> QED BY <3>1, <3>2, <2>3, <2>5, <2>8
  <2> QED BY <2>6, <2>7, <2>8, <1>3
<1>15. ASSUME NEW k \in 1..(N - 1) PROVE p2[t[k]] = IF k = 1 THEN Null ELSE t[k - 1]
  <2>1. k \in 1..N /\ k + 1 \in 1..N
    BY <1>10
  <2>2. t[k] \in Chunks /\ t[k] # e /\ (after # Null /\ t[k] = after <=> k = j)
    BY <1>13
  <2>3. p2[t[k]] = IF k = j THEN before ELSE p[t[k]]
    BY <2>2, <1>7
  <2>4. k # 1 => k - 1 \in 1..(N - 1)
    BY <1>3
  <2>5. k # 1 => t[k - 1] = IF k - 1 < j THEN s[k - 1] ELSE s[(k - 1) + 1]
    BY <2>4, <1>11
  <2>6. CASE k = j
    <3>1. k - 1 < j
      BY <2>6, <1>3
    <3> QED BY <3>1, <2>3, <2>5, <2>6 DEF before
  <2>7. CASE k < j
    <3>1. t[k] = s[k] /\ k - 1 < j /\ k # j
      BY <2>7, <1>3, <1>11
    <3> QED BY <3>1, <2>1, <2>3, <2>5, <1>1
  <2>8. CASE k > j
    <3>1. t[k] = s[k + 1] /\ ~(k < j) /\ ~(k - 1 < j) /\ k + 1 # 1 /\ k # 1 /\ (k + 1) - 1 = (k - 1) + 1
      BY <2>8, <1>3, <1>11
    <3>2. p[s[k + 1]] = s[(k + 1) - 1]
      BY <3>1, <2>1, <1>1
    <3> QED BY <3>1, <3>2, <2>3, <2>5, <2>8
  <2> QED BY <2>6, <2>7, <2>8, <1>3
<1>16. /\ Len(t) = 0 => list2.first = Null /\ list2.last = Null
       /\ Len(t) > 0 => list2.first = t[1] /\ list2.last = t[Len(t)]
  <2>1. CASE N = 1
    <3>1. j = 1 /\ j = N /\ before = Null /\ after = Null
      BY <2>1, <1>3 DEF before, after
    <3> QED BY <3>1, <2>1, <1>9, <1>11
  <2>2. CASE N > 1
    <3>1. 1 \in 1..(N - 1) /\ N - 1 \in 1..(N - 1) /\ Len(t) = N - 1 /\ Len(t) > 0 /\ (N - 1) + 1 = N
      BY <2>2, <1>3, <1>11
    <3>2. t[1] = IF 1 < j THEN s[1] ELSE s[1 + 1]
      BY <3>1, <1>11
    <3>3. t[N - 1] = IF N - 1 < j THEN s[N - 1] ELSE s[(N - 1) + 1]
      BY <3>1, <1>11
    <3>4. list2.first = t[1]
      BY <3>2, <2>2, <1>3, <1>9 DEF after
    <3>5. list2.last = t[N - 1]
      BY <3>1, <3>3, <2>2, <1>3, <1>9 DEF before
    <3> QED BY <3>1, <3>4, <3>5
  <2>3. N = 1 \/ N > 1
    <3>1. N \in Nat /\ N # 0
      BY <1>3
    <3> HIDE DEF N
    <3> QED BY <3>1
  <2> QED BY <2>1, <2>2, <2>3
<1>17. Linked(n2, p2, list2, t)
  BY <1>11, <1>12, <1>14, <1>15, <1>16, LinkedIntro
<1>18. Members(t) = Members(s) \ {e}
  <2>1. ASSUME NEW k \in 1..(N - 1) PROVE t[k] \in Members(s) /\ t[k] # e
    BY <1>1, <1>10, <1>11, <1>13
  <2>2. ASSUME NEW k \in 1..N, s[k] # e PROVE \E i \in 1..(N - 1) : t[i] = s[k]
    <3>1. k # j
      BY <2>2, <1>2
    <3>2. CASE k < j
      <4>1. k \in 1..(N - 1) /\ t[k] = s[k]
        BY <3>2, <1>3, <1>11
      <4> QED BY <4>1
    <3>3. CASE k > j
      <4>1. k - 1 \in 1..(N - 1) /\ ~(k - 1 < j) /\ (k - 1) + 1 = k
        BY <3>3, <1>3
      <4>2. t[k - 1] = s[k]
        BY <4>1, <1>11
      <4> QED BY <4>1, <4>2
    <3> QED BY <3>1, <3>2, <3>3, <1>3
  <2>3. Members(t) \subseteq Members(s) \ {e}
    BY <2>1, <1>11 DEF Members
  <2>4. Members(s) \ {e} \subseteq Members(t)
    BY <2>2, <1>11 DEF Members
  <2> QED BY <2>3, <2>4
<1>19. n2[e] = Null
  BY <1>3, <1>7
<1>20. \A c \in Chunks : c \notin Members(s) => n2[c] = n[c] /\ p2[c] = p[c]
  <2>1. (before = Null \/ before \in Members(s)) /\ (after = Null \/ after \in Members(s))
    BY <1>1, <1>3 DEF before, after
  <2> QED BY <2>1, <1>7
<1> QED BY <1>17, <1>18, <1>19, <1>20

-----------------------------------------------------------------------------
(* AmlArenaReset: the active list goes behind the free list. *)

\* Two lists one behind the other are a list.
LEMMA JoinLinked ==
  ASSUME NEW n \in Links, NEW p \in Links,
         NEW lf, NEW f, Linked(n, p, lf, f),
         NEW la, NEW s, Linked(n, p, la, s), Len(s) > 0,
         Members(f) \cap Members(s) = {},
         NEW n2, NEW p2, NEW list2,
         \A c \in Chunks : n2[c] = IF lf.last # Null /\ c = lf.last THEN la.first ELSE n[c],
         \A c \in Chunks : p2[c] = IF c = la.first THEN lf.last ELSE p[c],
         list2.first = IF lf.first # Null THEN lf.first ELSE la.first,
         list2.last = la.last
  PROVE  Linked(n2, p2, list2, f \o s) /\ Members(f \o s) = Members(f) \cup Members(s)
<1>1. /\ f \in Seq(Chunks) /\ Len(f) \in Nat /\ Once(f)
      /\ Len(f) = 0 => lf.first = Null /\ lf.last = Null
      /\ Len(f) > 0 => lf.first = f[1] /\ lf.last = f[Len(f)] /\ lf.first # Null /\ lf.last # Null
      /\ \A k \in 1..Len(f) : f[k] \in Chunks /\ f[k] # Null /\ f[k] \in Members(f)
      /\ \A k \in 1..Len(f) : n[f[k]] = IF k = Len(f) THEN Null ELSE f[k + 1]
      /\ \A k \in 1..Len(f) : p[f[k]] = IF k = 1 THEN Null ELSE f[k - 1]
  BY LinkedFacts
<1>2. /\ s \in Seq(Chunks) /\ Len(s) \in Nat /\ Once(s)
      /\ la.first = s[1] /\ la.last = s[Len(s)] /\ la.first \in Members(s)
      /\ \A k \in 1..Len(s) : s[k] \in Chunks /\ s[k] # Null /\ s[k] \in Members(s)
      /\ \A k \in 1..Len(s) : n[s[k]] = IF k = Len(s) THEN Null ELSE s[k + 1]
      /\ \A k \in 1..Len(s) : p[s[k]] = IF k = 1 THEN Null ELSE s[k - 1]
  BY LinkedFacts
<1> DEFINE t == f \o s
           M == Len(f)
           N == Len(s)
<1>3. /\ t \in Seq(Chunks) /\ Len(t) = M + N /\ M \in Nat /\ N \in Nat /\ N > 0
      /\ \A k \in 1..M : t[k] = f[k]
  BY <1>1, <1>2
<1>4. \A k \in 1..N : t[M + k] = s[k]
  BY <1>1, <1>2
<1>5. \A k \in 1..(M + N) : k \in 1..M \/ \E i \in 1..N : k = M + i
  <2>1. ASSUME NEW k \in 1..(M + N), k \notin 1..M PROVE k - M \in 1..N /\ k = M + (k - M)
    BY <2>1, <1>3
  <2> QED BY <2>1
<1> HIDE DEF t
<1>6. Once(t)
  <2> SUFFICES ASSUME NEW j \in 1..(M + N), NEW k \in 1..(M + N), t[j] = t[k] PROVE j = k
    BY <1>3 DEF Once
  <2>1. ASSUME NEW a \in 1..M, NEW i \in 1..N PROVE t[a] # t[M + i]
    <3>1. t[a] \in Members(f)
      BY <1>1, <1>3
    <3>2. t[M + i] \in Members(s)
      BY <1>2, <1>4
    <3> QED BY <3>1, <3>2
  <2>2. CASE j \in 1..M /\ k \in 1..M
    BY <2>2, <1>1, <1>3 DEF Once
  <2>3. CASE j \in 1..M /\ k \notin 1..M
    <3>1. PICK i \in 1..N : k = M + i
      BY <2>3, <1>5
    <3>2. t[j] # t[k]
      BY <2>1, <2>3, <3>1
    <3> QED BY <3>2
  <2>4. CASE j \notin 1..M /\ k \in 1..M
    <3>1. PICK i \in 1..N : j = M + i
      BY <2>4, <1>5
    <3>2. t[k] # t[j]
      BY <2>1, <2>4, <3>1
    <3> QED BY <3>2
  <2>5. CASE j \notin 1..M /\ k \notin 1..M
    <3>1. PICK a \in 1..N : j = M + a
      BY <2>5, <1>5
    <3>2. PICK b \in 1..N : k = M + b
      BY <2>5, <1>5
    <3>3. s[a] = s[b]
      BY <3>1, <3>2, <1>4
    <3> QED BY <3>1, <3>2, <3>3, <1>2 DEF Once
  <2> QED BY <2>2, <2>3, <2>4, <2>5
<1>7. ASSUME NEW k \in 1..Len(t) PROVE n2[t[k]] = IF k = Len(t) THEN Null ELSE t[k + 1]
  <2>1. CASE k \in 1..M
    <3>1. t[k] = f[k] /\ f[k] \in Chunks /\ n[f[k]] = (IF k = M THEN Null ELSE f[k + 1]) /\ M > 0
      BY <2>1, <1>1, <1>3
    <3>2. k # M + N /\ M \in 1..M
      BY <2>1, <1>3
    <3>3. CASE k = M
      <4>1. n2[t[k]] = s[1]
        BY <3>1, <3>3, <1>1, <1>2
      <4>2. t[M + 1] = s[1]
        BY <1>3, <1>4
      <4> QED BY <4>1, <4>2, <3>2, <3>3, <1>3
    <3>4. CASE k # M
      <4>1. f[k] # f[M] /\ k + 1 \in 1..M
        BY <2>1, <3>2, <3>4, <1>1, <1>3 DEF Once
      <4>2. n2[t[k]] = f[k + 1]
        BY <4>1, <3>1, <3>4, <1>1
      <4> QED BY <4>1, <4>2, <3>2, <1>3
    <3> QED BY <3>3, <3>4
  <2>2. CASE k \notin 1..M
    <3>1. PICK i \in 1..N : k = M + i
      BY <2>2, <1>3, <1>5
    <3>2. t[k] = s[i] /\ s[i] \in Chunks /\ s[i] \in Members(s)
      BY <3>1, <1>2, <1>4
    <3>3. lf.last = Null \/ lf.last \in Members(f)
      BY <1>1, <1>3
    <3>4. n2[t[k]] = n[s[i]]
      BY <3>2, <3>3
    <3>5. n[s[i]] = IF i = N THEN Null ELSE s[i + 1]
      BY <3>1, <1>2
    <3>6. (k = M + N <=> i = N) /\ k + 1 = M + (i + 1) /\ (i # N => i + 1 \in 1..N)
      BY <3>1, <1>3
    <3>7. i # N => t[k + 1] = s[i + 1]
      BY <3>6, <1>4
    <3> QED BY <3>4, <3>5, <3>6, <3>7, <1>3
  <2> QED BY <2>1, <2>2
<1>8. ASSUME NEW k \in 1..Len(t) PROVE p2[t[k]] = IF k = 1 THEN Null ELSE t[k - 1]
  <2>1. CASE k \in 1..M
    <3>1. t[k] = f[k] /\ f[k] \in Chunks /\ f[k] # la.first
      BY <2>1, <1>1, <1>2, <1>3
    <3>2. p2[t[k]] = IF k = 1 THEN Null ELSE f[k - 1]
      BY <2>1, <3>1, <1>1
    <3>3. k # 1 => k - 1 \in 1..M
      BY <2>1, <1>3
    <3> QED BY <3>2, <3>3, <1>3
  <2>2. CASE k \notin 1..M
    <3>1. PICK i \in 1..N : k = M + i
      BY <2>2, <1>3, <1>5
    <3>2. t[k] = s[i] /\ s[i] \in Chunks
      BY <3>1, <1>2, <1>4
    <3>3. CASE i = 1
      <4>1. p2[t[k]] = lf.last
        BY <3>2, <3>3, <1>2
      <4>2. CASE M = 0
        BY <4>1, <4>2, <3>1, <3>3, <1>1
      <4>3. CASE M > 0
        <5>1. M \in 1..M /\ k - 1 = M /\ k # 1
          BY <4>3, <3>1, <3>3, <1>3
        <5> QED BY <5>1, <4>1, <4>3, <1>1, <1>3
      <4> QED BY <4>2, <4>3, <1>3
    <3>4. CASE i # 1
      <4>1. 1 \in 1..N /\ i - 1 \in 1..N /\ k - 1 = M + (i - 1) /\ k # 1
        BY <3>1, <3>4, <1>3
      <4>2. s[i] # la.first
        BY <4>1, <3>1, <3>4, <1>2 DEF Once
      <4>3. p2[t[k]] = s[i - 1]
        BY <4>1, <4>2, <3>1, <3>2, <3>4, <1>2
      <4>4. t[k - 1] = s[i - 1]
        BY <4>1, <1>4
      <4> QED BY <4>1, <4>3, <4>4
    <3> QED BY <3>3, <3>4
  <2> QED BY <2>1, <2>2
<1>9. list2.first = t[1] /\ list2.last = t[Len(t)]
  <2>1. N \in 1..N /\ 1 \in 1..N /\ t[M + N] = s[N] /\ t[M + 1] = s[1]
    BY <1>3, <1>4
  <2>2. CASE M = 0
    BY <2>1, <2>2, <1>1, <1>2, <1>3
  <2>3. CASE M > 0
    <3>1. 1 \in 1..M
      BY <2>3, <1>3
    <3> QED BY <3>1, <2>1, <2>3, <1>1, <1>2, <1>3
  <2> QED BY <2>2, <2>3, <1>3
<1>10. Linked(n2, p2, list2, t)
  <2>1. Len(t) # 0 /\ t \in Seq(Chunks)
    BY <1>3
  <2> QED BY <2>1, <1>6, <1>7, <1>8, <1>9, LinkedIntro
<1>11. Members(t) = Members(f) \cup Members(s)
  <2>1. ASSUME NEW k \in 1..Len(t) PROVE t[k] \in Members(f) \cup Members(s)
    <3>1. CASE k \in 1..M
      BY <3>1, <1>1, <1>3
    <3>2. CASE k \notin 1..M
      <4>1. PICK i \in 1..N : k = M + i
        BY <3>2, <1>3, <1>5
      <4> QED BY <4>1, <1>2, <1>4
    <3> QED BY <3>1, <3>2
  <2>2. ASSUME NEW k \in 1..M PROVE f[k] \in Members(t)
    <3>1. k \in 1..Len(t)
      BY <1>3
    <3> QED BY <3>1, <1>3 DEF Members
  <2>3. ASSUME NEW k \in 1..N PROVE s[k] \in Members(t)
    <3>1. M + k \in 1..Len(t)
      BY <1>3
    <3> QED BY <3>1, <1>4 DEF Members
  <2>4. Members(t) \subseteq Members(f) \cup Members(s)
    BY <2>1 DEF Members
  <2>5. Members(f) \subseteq Members(t) /\ Members(s) \subseteq Members(t)
    BY <2>2, <2>3 DEF Members
  <2> QED BY <2>4, <2>5
<1> QED BY <1>10, <1>11 DEF t

-----------------------------------------------------------------------------
(* Links that stay among some chunks, however they lie. *)

\* The links of the chunks B, and the ends of a list, are among B.
Within(n, p, list, B) ==
  /\ n \in Links /\ p \in Links
  /\ \A c \in B : n[c] \in B \cup {Null} /\ p[c] \in B \cup {Null}
  /\ list.first \in B \cup {Null} /\ list.last \in B \cup {Null}

\* Inserting brings in no more than the chunk.
LEMMA InsertWithin ==
  ASSUME NEW B \in SUBSET Chunks, NEW n, NEW p, NEW list, Within(n, p, list, B),
         NEW e \in Chunks, n[e] \in B \cup {Null},
         NEW n2, NEW p2, NEW list2,
         n2 = Insert(n, p, list, e).next, p2 = Insert(n, p, list, e).prev,
         list2 = Insert(n, p, list, e).list
  PROVE  Within(n2, p2, list2, B \cup {e})
         /\ list2 = [first |-> list2.first, last |-> list2.last]
<1>1. /\ n2 = IF list.last # Null THEN [n EXCEPT ![list.last] = e] ELSE n
      /\ p2 = [p EXCEPT ![e] = list.last]
      /\ list2 = [first |-> IF list.first = Null THEN e ELSE list.first, last |-> e]
  BY DEF Insert
<1>2. /\ n \in [Chunks -> Pointer] /\ p \in [Chunks -> Pointer] /\ e \in Pointer
      /\ list.first \in Pointer /\ list.last \in Pointer
      /\ (list.last # Null => list.last \in Chunks)
  BY DEF Within, Links, Pointer
<1>3. n2 \in Links /\ p2 \in Links
  BY <1>1, <1>2 DEF Links
<1>4. /\ \A c \in Chunks : n2[c] = IF list.last # Null /\ c = list.last THEN e ELSE n[c]
      /\ \A c \in Chunks : p2[c] = IF c = e THEN list.last ELSE p[c]
  BY <1>1, <1>2
<1>5. \A c \in B \cup {e} : n2[c] \in B \cup {e, Null} /\ p2[c] \in B \cup {e, Null}
  BY <1>4 DEF Within
<1>6. list2.first \in B \cup {e, Null} /\ list2.last \in B \cup {e, Null}
      /\ list2 = [first |-> list2.first, last |-> list2.last]
  BY <1>1 DEF Within
<1> QED BY <1>3, <1>5, <1>6 DEF Within

\* Removing brings in nothing.
LEMMA RemoveWithin ==
  ASSUME NEW B \in SUBSET Chunks, NEW n, NEW p, NEW list, Within(n, p, list, B), NEW e \in B,
         NEW n2, NEW p2, NEW list2,
         n2 = Remove(n, p, list, e).next, p2 = Remove(n, p, list, e).prev,
         list2 = Remove(n, p, list, e).list
  PROVE  Within(n2, p2, list2, B) /\ n2[e] = Null
         /\ list2 = [first |-> list2.first, last |-> list2.last]
<1> DEFINE n1 == IF p[e] # Null THEN [n EXCEPT ![p[e]] = n[e]] ELSE n
           p1 == IF n[e] # Null THEN [p EXCEPT ![n[e]] = p[e]] ELSE p
<1>1. /\ n2 = [n1 EXCEPT ![e] = Null] /\ p2 = [p1 EXCEPT ![e] = Null]
      /\ list2 = [first |-> IF list.first = e THEN n1[e] ELSE list.first,
                  last |-> IF list.last = e THEN p1[e] ELSE list.last]
  BY DEF Remove
<1>2. /\ n \in [Chunks -> Pointer] /\ p \in [Chunks -> Pointer] /\ e \in Chunks
      /\ n[e] \in B \cup {Null} /\ p[e] \in B \cup {Null}
      /\ n[e] \in Pointer /\ p[e] \in Pointer
      /\ (p[e] # Null => p[e] \in Chunks) /\ (n[e] # Null => n[e] \in Chunks)
  BY DEF Within, Links, Pointer
<1>3. /\ n1 \in [Chunks -> Pointer] /\ p1 \in [Chunks -> Pointer]
      /\ \A c \in Chunks : n1[c] = IF p[e] # Null /\ c = p[e] THEN n[e] ELSE n[c]
      /\ \A c \in Chunks : p1[c] = IF n[e] # Null /\ c = n[e] THEN p[e] ELSE p[c]
  BY <1>2
<1> HIDE DEF n1, p1
<1>4. Null \in Pointer
  BY DEF Pointer
<1>5. /\ n2 \in Links /\ p2 \in Links /\ n2[e] = Null
      /\ \A c \in Chunks : n2[c] = IF c = e THEN Null ELSE n1[c]
      /\ \A c \in Chunks : p2[c] = IF c = e THEN Null ELSE p1[c]
  BY <1>1, <1>2, <1>3, <1>4 DEF Links
<1>6. \A c \in B : n1[c] \in B \cup {Null} /\ p1[c] \in B \cup {Null}
  BY <1>2, <1>3 DEF Within
<1>7. \A c \in B : n2[c] \in B \cup {Null} /\ p2[c] \in B \cup {Null}
  BY <1>5, <1>6
<1>8. list2.first \in B \cup {Null} /\ list2.last \in B \cup {Null}
      /\ list2 = [first |-> list2.first, last |-> list2.last]
  BY <1>1, <1>6 DEF Within
<1> QED BY <1>5, <1>7, <1>8 DEF Within

\* AmlArenaTryReclaimFreeChunk finds nothing but a chunk that the tail of the free
\* list leads to and that is large enough.
LEMMA ReclaimableFits ==
  ASSUME NEW P \in SUBSET Chunks, prev \in Links, freeList.last \in P \cup {Null},
         \A c \in P : prev[c] \in P \cup {Null},
         NEW size, Reclaimable(size) # Null
  PROVE  Reclaimable(size) \in P /\ total[Reclaimable(size)] >= size
<1> DEFINE nth == Along(prev, freeList.last)
           n == Cardinality(Chunks)
           stop == {k \in DOMAIN nth : nth[k] = Null \/ total[nth[k]] >= size}
           first == CHOOSE k \in stop : \A j \in stop : k <= j
<1>1. freeList.last \in Pointer
  BY DEF Pointer
<1>2. n \in Nat /\ DOMAIN nth = 0..n
  BY <1>1, AlongEquations
<1>3. \A k \in 0..n : nth[k] \in P \cup {Null}
  BY AlongStays
<1>4. Reclaimable(size) = IF stop = {} THEN Null ELSE nth[first]
  BY DEF Reclaimable
<1>5. stop # {} /\ Reclaimable(size) = nth[first]
  BY <1>4
<1>6. stop \in SUBSET Nat
  BY <1>2
<1> HIDE DEF stop, nth
<1>7. \E k \in stop : \A j \in stop : k <= j
  BY <1>5, <1>6, LeastElement
<1>8. first \in stop
  BY <1>7
<1> HIDE DEF first
<1>9. first \in 0..n /\ (nth[first] = Null \/ total[nth[first]] >= size)
  BY <1>2, <1>8 DEF stop
<1> QED BY <1>3, <1>5, <1>9

-----------------------------------------------------------------------------
(* The invariant. *)

Allocations == [chunk : Chunks, from : Nat, to : Nat]
SnapshotRecords == [index : Nat, chunk : Pointer, used : Nat, kept : Nat]

\* Whatever a rollback has unlinked, links lead to chunks that the backend has lent,
\* and snapshots refer to such chunks.
Owned ==
  /\ Within(next, prev, chunkList, backed) /\ Within(next, prev, freeList, backed)
  /\ current \in backed \cup {Null}
  /\ \A i \in DOMAIN snapshots : snapshots[i].chunk # Null =>
       snapshots[i].chunk \in backed /\ snapshots[i].used <= total[snapshots[i].chunk]

\* The active list is s, the free list is f, and every chunk is in one of them.
Listed(s, f) ==
  /\ Linked(next, prev, chunkList, s) /\ Linked(next, prev, freeList, f)
  /\ Members(s) \cap Members(f) = {} /\ Members(s) \cup Members(f) = backed

\* A snapshot keeps allocations that there are, and an earlier one keeps no more.
KeptFits ==
  /\ \A i \in DOMAIN snapshots : snapshots[i].kept <= Len(live)
  /\ \A i, j \in DOMAIN snapshots : i < j => snapshots[i].kept <= snapshots[j].kept

\* Live allocations are in active chunks, below their allocation points, and those of
\* a chunk follow each other.
LiveFits(s) ==
  /\ \A i \in DOMAIN live :
       live[i].chunk \in Members(s) /\ live[i].to <= used[live[i].chunk]
  /\ \A i, j \in DOMAIN live :
       i < j /\ live[i].chunk = live[j].chunk => live[i].to <= live[j].from

\* A snapshot's chunk is active, and what was live at the snapshot is below the
\* snapshot's allocation point; one without a chunk was taken when nothing was live.
SnapshotFits(t, s) ==
  /\ t.chunk # Null =>
       /\ t.chunk \in Members(s) /\ t.used <= used[t.chunk]
       /\ \A k \in 1..t.kept : live[k].chunk = t.chunk => live[k].to <= t.used
  /\ t.chunk = Null => t.kept = 0

\* A later snapshot keeps what an earlier one refers to.
Follows(t, u) ==
  /\ t.chunk # Null /\ t.chunk = u.chunk => t.used <= u.used
  /\ u.chunk = Null => t.chunk = Null

SnapshotsFit(s) ==
  /\ current = chunkList.last
  /\ \A i \in DOMAIN snapshots : SnapshotFits(snapshots[i], s)
  /\ \A i, j \in DOMAIN snapshots : i < j => Follows(snapshots[i], snapshots[j])

ArenaInv ==
  /\ TypeOK
  /\ live \in Seq(Allocations) /\ snapshots \in Seq(SnapshotRecords) /\ KeptFits
  /\ phase = "open" => Owned
  /\ phase = "open" /\ ~unlinked =>
       \E s, f : Listed(s, f) /\ (~exhausted => LiveFits(s) /\ SnapshotsFit(s))
  /\ phase # "open" => live = <<>> /\ snapshots = <<>>
                       /\ (~unlinked => backed = {} /\ phase = "released")

-----------------------------------------------------------------------------
(* The steps. *)

\* An arena without chunks is sound (AmlArenaInitialize).
LEMMA InitEstablishesInv ==
  ASSUME Init
  PROVE  ArenaInv
<1>1. /\ chunkList = Nowhere /\ freeList = Nowhere /\ backed = {}
      /\ next \in Links /\ prev \in Links /\ live = <<>> /\ snapshots = <<>>
      /\ phase = "open" /\ current = Null
  BY DEF Init, Links, Pointer
<1>2. TypeOK
  <2>1. Nowhere \in [first : Pointer, last : Pointer]
    BY DEF Nowhere, Pointer
  <2>2. DOMAIN live = {} /\ DOMAIN snapshots = {}
    BY <1>1
  <2>3. next \in [Chunks -> Pointer] /\ prev \in [Chunks -> Pointer] /\ current \in Pointer
    BY <1>1 DEF Links, Pointer
  <2>4. used \in [Chunks -> Nat] /\ total \in [Chunks -> Nat] /\ \A c \in Chunks : used[c] <= total[c]
    BY DEF Init
  <2>5. snapshotCount \in Nat /\ unlinked \in BOOLEAN /\ exhausted \in BOOLEAN
    BY DEF Init
  <2> QED BY <2>1, <2>2, <2>3, <2>4, <2>5, <1>1 DEF TypeOK
<1>3. live \in Seq(Allocations) /\ snapshots \in Seq(SnapshotRecords) /\ KeptFits
  BY <1>1 DEF KeptFits
<1>4. Owned
  BY <1>1 DEF Owned, Within, Nowhere
<1>5. Nowhere.first = Null /\ Nowhere.last = Null
  BY DEF Nowhere
<1>6. Linked(next, prev, Nowhere, << >>) /\ Members(<< >>) = {}
  BY <1>5, EmptyLinked
<1> DEFINE s == << >>
<1>7. Listed(s, s)
  BY <1>1, <1>6 DEF Listed
<1>8. LiveFits(s) /\ SnapshotsFit(s)
  BY <1>1 DEF LiveFits, SnapshotsFit, Nowhere
<1> QED BY <1>1, <1>2, <1>3, <1>4, <1>7, <1>8 DEF ArenaInv

\* A further allocation takes nothing from what snapshots keep.
LEMMA KeptAfterHandout ==
  ASSUME live \in Seq(Allocations), snapshots \in Seq(SnapshotRecords), KeptFits,
         live' \in Seq(Allocations), Len(live') = Len(live) + 1, snapshots' = snapshots
  PROVE  KeptFits'
<1>1. ASSUME NEW i \in DOMAIN snapshots PROVE snapshots[i].kept <= Len(live')
  <2>1. snapshots[i] \in SnapshotRecords /\ Len(live) \in Nat
    OBVIOUS
  <2>2. snapshots[i].kept \in Nat /\ snapshots[i].kept <= Len(live)
    BY <2>1 DEF SnapshotRecords, KeptFits
  <2> QED BY <2>1, <2>2
<1> QED BY <1>1 DEF KeptFits

\* An allocation above the allocation point of a chunk, or at the start of a new one,
\* is apart from all others and above every snapshot.
LEMMA HandoutFits ==
  ASSUME live \in Seq(Allocations), snapshots \in Seq(SnapshotRecords), KeptFits,
         used \in [Chunks -> Nat], used' \in [Chunks -> Nat],
         NEW s, NEW t, Members(s) \subseteq Members(t), Members(t) \subseteq Chunks,
         LiveFits(s), \A i \in DOMAIN snapshots : SnapshotFits(snapshots[i], s),
         NEW c \in Members(t), NEW from \in Nat, NEW to \in Nat,
         c \in Members(s) => from = used[c], from <= to,
         live' = Append(live, [chunk |-> c, from |-> from, to |-> to]),
         snapshots' = snapshots,
         used'[c] = to, \A x \in Members(s) : x # c => used'[x] = used[x]
  PROVE  /\ live' \in Seq(Allocations) /\ LiveFits(t)'
         /\ (\A i \in DOMAIN snapshots : SnapshotFits(snapshots[i], t))'
<1> DEFINE a == [chunk |-> c, from |-> from, to |-> to]
           n == Len(live)
<1>1. a \in Allocations /\ a.chunk = c /\ a.from = from /\ a.to = to
  BY DEF Allocations
<1> HIDE DEF a
<1>2. /\ live' \in Seq(Allocations) /\ Len(live') = n + 1 /\ live'[n + 1] = a
      /\ n \in Nat /\ DOMAIN live = 1..n /\ DOMAIN live' = 1..(n + 1)
      /\ \A i \in 1..n : live'[i] = live[i]
  BY <1>1 DEF a
<1>3. \A i \in 1..n : live[i].chunk \in Chunks /\ live[i].from \in Nat /\ live[i].to \in Nat
  <2>1. \A i \in 1..n : live[i] \in Allocations
    BY <1>2
  <2> QED BY <2>1 DEF Allocations
<1>4. \A i \in 1..n : live[i].chunk \in Members(s) /\ live[i].to <= used[live[i].chunk]
  BY <1>2 DEF LiveFits
<1> HIDE DEF n
\* The allocation points of the chunks with live allocations have not gone down.
<1>5. ASSUME NEW x \in Members(s) PROVE used[x] <= used'[x] /\ used[x] \in Nat /\ used'[x] \in Nat
  <2>1. x \in Chunks /\ used[x] \in Nat /\ used'[x] \in Nat
    OBVIOUS
  <2> QED BY <2>1
<1>6. LiveFits(t)'
  <2>1. ASSUME NEW i \in 1..(n + 1)
        PROVE  live'[i].chunk \in Members(t) /\ live'[i].to <= used'[live'[i].chunk]
    <3>1. CASE i = n + 1
      BY <3>1, <1>1, <1>2
    <3>2. CASE i \in 1..n
      <4>1. live[i].chunk \in Members(s) /\ live[i].to <= used[live[i].chunk] /\ live[i].to \in Nat
        BY <3>2, <1>3, <1>4
      <4> QED BY <4>1, <3>2, <1>2, <1>5
    <3> QED BY <3>1, <3>2, <1>2
  <2>2. ASSUME NEW i \in 1..(n + 1), NEW j \in 1..(n + 1), i < j, live'[i].chunk = live'[j].chunk
        PROVE  live'[i].to <= live'[j].from
    <3>1. i \in 1..n /\ live'[i] = live[i]
      BY <2>2, <1>2
    <3>2. CASE j = n + 1
      <4>1. live[i].chunk = c /\ live'[j].from = from
        BY <2>2, <3>1, <3>2, <1>1, <1>2
      <4>2. c \in Members(s) /\ live[i].to <= used[c]
        BY <4>1, <3>1, <1>4
      <4> QED BY <4>1, <4>2, <3>1
    <3>3. CASE j \in 1..n
      BY <2>2, <3>1, <3>3, <1>2 DEF LiveFits
    <3> QED BY <3>2, <3>3, <1>2
  <2>3. /\ \A i \in DOMAIN live' :
             live'[i].chunk \in Members(t) /\ live'[i].to <= used'[live'[i].chunk]
        /\ \A i, j \in DOMAIN live' :
             i < j /\ live'[i].chunk = live'[j].chunk => live'[i].to <= live'[j].from
    <3>1. DOMAIN live' = 1..(n + 1)
      BY <1>2
    <3>2. \A i \in 1..(n + 1) :
             live'[i].chunk \in Members(t) /\ live'[i].to <= used'[live'[i].chunk]
      BY <2>1
    <3>3. \A i, j \in 1..(n + 1) :
             i < j /\ live'[i].chunk = live'[j].chunk => live'[i].to <= live'[j].from
      BY <2>2
    <3> QED BY ONLY <3>1, <3>2, <3>3
  <2> QED BY <2>3 DEF LiveFits
<1>7. ASSUME NEW i \in DOMAIN snapshots PROVE SnapshotFits(snapshots[i], t)'
  <2>1. snapshots[i] \in SnapshotRecords /\ SnapshotFits(snapshots[i], s)
    OBVIOUS
  <2> DEFINE u == snapshots[i]
  <2>2. u.kept \in Nat /\ u.used \in Nat /\ u.kept <= n
    BY <2>1 DEF SnapshotRecords, KeptFits, n
  <2>4. u.chunk # Null => u.chunk \in Members(t) /\ u.used <= used'[u.chunk]
    <3> SUFFICES ASSUME u.chunk # Null PROVE u.chunk \in Members(t) /\ u.used <= used'[u.chunk]
      OBVIOUS
    <3>1. u.chunk \in Members(s) /\ u.used <= used[u.chunk]
      BY <2>1 DEF SnapshotFits
    <3> QED BY <3>1, <2>2, <1>5
  <2>5. \A k \in 1..u.kept : live'[k] = live[k]
    BY <2>2, <1>2
  <2>6. u.chunk # Null => \A k \in 1..u.kept : live[k].chunk = u.chunk => live[k].to <= u.used
    BY <2>1 DEF SnapshotFits
  <2>7. u.chunk = Null => u.kept = 0
    BY <2>1 DEF SnapshotFits
  <2>8. u.chunk # Null => \A k \in 1..u.kept : live'[k].chunk = u.chunk => live'[k].to <= u.used
    BY <2>5, <2>6
  <2>9. snapshots'[i] = u
    OBVIOUS
  <2> HIDE DEF u
  <2> QED BY <2>4, <2>7, <2>8, <2>9 DEF SnapshotFits
<1> QED BY <1>2, <1>6, <1>7

\* Cutting more from the current chunk (AmlArenaAllocate).
LEMMA BumpKeepsInv ==
  ASSUME ArenaInv, NEW size \in Sizes, Bump(size)
  PROVE  ArenaInv'
<1> DEFINE A == AllocationSize(size)
           to == used[current] + A
<1>1. /\ phase = "open" /\ current # Null /\ total[current] - used[current] >= A
      /\ used' = [used EXCEPT ![current] = @ + A]
      /\ live' = Append(live, [chunk |-> current, from |-> used[current], to |-> to])
      /\ chunkList' = chunkList /\ freeList' = freeList /\ next' = next /\ prev' = prev
      /\ total' = total /\ current' = current /\ snapshotCount' = snapshotCount
      /\ backed' = backed /\ snapshots' = snapshots /\ unlinked' = unlinked
      /\ exhausted' = exhausted /\ phase' = phase
  BY DEF Bump, MayAllocate, Fits, Handout, listVars
<1>2. TypeOK /\ Owned /\ live \in Seq(Allocations) /\ snapshots \in Seq(SnapshotRecords) /\ KeptFits
  BY <1>1 DEF ArenaInv
<1>3. A \in Nat /\ A > 0
  BY ArenaAssumption DEF AllocationSize
<1> HIDE DEF A
<1>4. current \in Chunks /\ used[current] \in Nat /\ total[current] \in Nat /\ to \in Nat
  BY <1>1, <1>2, <1>3 DEF TypeOK, Pointer
<1>5. to <= total[current] /\ used[current] <= to
  BY <1>1, <1>3, <1>4
<1> HIDE DEF to
<1>6. used' \in [Chunks -> Nat] /\ used'[current] = to /\ \A x \in Chunks : x # current => used'[x] = used[x]
  BY <1>1, <1>2, <1>4 DEF TypeOK, to
<1>7. live' \in Seq(Allocations) /\ Len(live') = Len(live) + 1
  <2>1. [chunk |-> current, from |-> used[current], to |-> to] \in Allocations
    BY <1>4 DEF Allocations
  <2> QED BY <2>1, <1>1, <1>2
<1>11. KeptFits'
  BY <1>1, <1>2, <1>7, KeptAfterHandout
<1>8. TypeOK'
  <2>1. \A c \in Chunks : used'[c] <= total'[c]
    BY <1>1, <1>2, <1>5, <1>6 DEF TypeOK
  <2>2. \A i \in DOMAIN live' : live'[i] \in [chunk : Chunks, from : Nat, to : Nat]
    <3>1. \A i \in DOMAIN live' : live'[i] \in Allocations
      BY <1>7
    <3> QED BY <3>1 DEF Allocations
  <2> QED BY <2>1, <2>2, <1>1, <1>2, <1>6 DEF TypeOK
<1>9. Owned'
  BY <1>1, <1>2 DEF Owned, Within
<1>10. ASSUME ~unlinked'
       PROVE  \E s, f : Listed(s, f)' /\ (~exhausted' => LiveFits(s)' /\ SnapshotsFit(s)')
  <2>1. PICK s, f : Listed(s, f) /\ (~exhausted => LiveFits(s) /\ SnapshotsFit(s))
    BY <1>1, <1>10 DEF ArenaInv
  <2>2. Listed(s, f)'
    BY <2>1, <1>1 DEF Listed
  <2>3. ASSUME ~exhausted PROVE LiveFits(s)' /\ SnapshotsFit(s)'
    <3>1. /\ LiveFits(s) /\ current = chunkList.last
          /\ \A i \in DOMAIN snapshots : SnapshotFits(snapshots[i], s)
          /\ \A i, j \in DOMAIN snapshots : i < j => Follows(snapshots[i], snapshots[j])
      BY <2>1, <2>3 DEF SnapshotsFit
    <3>2. current \in Members(s) /\ Members(s) \subseteq Chunks
      BY <2>1, <3>1, <1>1, LinkedFacts DEF Listed
    <3>3. LiveFits(s)' /\ (\A i \in DOMAIN snapshots : SnapshotFits(snapshots[i], s))'
      BY <3>1, <3>2, <1>1, <1>2, <1>4, <1>5, <1>6, HandoutFits DEF TypeOK
    <3>4. SnapshotsFit(s)'
      BY <3>1, <3>3, <1>1 DEF SnapshotsFit, Follows
    <3> QED BY <3>3, <3>4
  <2> QED BY <2>2, <2>3, <1>1
<1> QED BY <1>1, <1>2, <1>7, <1>8, <1>9, <1>10, <1>11 DEF ArenaInv

\* Beginning a chunk, wherever it comes from: it goes to the tail of the active list,
\* and the allocation to its start (AmlArenaCreateChunk).
LEMMA BeginKeepsInv ==
  ASSUME ArenaInv, phase = "open", NEW size \in Sizes, NEW c \in Chunks, c \in backed',
         backed \subseteq backed', backed' \subseteq Chunks,
         Within(next, prev, chunkList, backed)', Within(next, prev, freeList, backed)',
         chunkList' \in Ends, freeList' \in Ends, chunkList'.last = c,
         total' \in [Chunks -> Nat], AllocationSize(size) <= total'[c],
         \A x \in Chunks : x # c => total'[x] = total[x],
         \A x \in backed : total'[x] = total[x],
         used' = [used EXCEPT ![c] = AllocationSize(size)], current' = c,
         Handout(c, 0, size),
         snapshotCount' = snapshotCount, snapshots' = snapshots, unlinked' = unlinked,
         exhausted' = exhausted, phase' = phase,
         \A s, f : Listed(s, f) =>
           c \notin Members(s)
             /\ \E s2, f2 : Listed(s2, f2)' /\ Members(s2) = Members(s) \cup {c}
  PROVE  ArenaInv'
<1> DEFINE A == AllocationSize(size)
<1>1. A \in Nat /\ 0 + A = A
  BY ArenaAssumption DEF AllocationSize
<1>2. live' = Append(live, [chunk |-> c, from |-> 0, to |-> A])
  BY <1>1 DEF Handout
<1> HIDE DEF A
<1>3. TypeOK /\ Owned /\ live \in Seq(Allocations) /\ snapshots \in Seq(SnapshotRecords) /\ KeptFits
  BY DEF ArenaInv
<1>4. used' \in [Chunks -> Nat] /\ used'[c] = A /\ \A x \in Chunks : x # c => used'[x] = used[x]
  BY <1>1, <1>3 DEF TypeOK, A
<1>5. live' \in Seq(Allocations) /\ Len(live') = Len(live) + 1
  <2>1. [chunk |-> c, from |-> 0, to |-> A] \in Allocations
    BY <1>1 DEF Allocations
  <2> QED BY <2>1, <1>2, <1>3
<1>9. KeptFits'
  BY <1>3, <1>5, KeptAfterHandout
<1>6. TypeOK'
  <2>1. \A x \in Chunks : used'[x] <= total'[x]
    <3> SUFFICES ASSUME NEW x \in Chunks PROVE used'[x] <= total'[x]
      OBVIOUS
    <3>1. CASE x = c
      BY <3>1, <1>4 DEF A
    <3>2. CASE x # c
      BY <3>2, <1>3, <1>4 DEF TypeOK
    <3> QED BY <3>1, <3>2
  <2>2. \A i \in DOMAIN live' : live'[i] \in [chunk : Chunks, from : Nat, to : Nat]
    <3>1. \A i \in DOMAIN live' : live'[i] \in Allocations
      BY <1>5
    <3> QED BY <3>1 DEF Allocations
  <2>3. next' \in [Chunks -> Pointer] /\ prev' \in [Chunks -> Pointer]
    BY DEF Within, Links
  <2>4. current' \in Pointer
    BY DEF Pointer
  <2>5. chunkList' \in [first : Pointer, last : Pointer] /\ freeList' \in [first : Pointer, last : Pointer]
    BY DEF Ends
  <2>6. \A i \in DOMAIN snapshots' :
          snapshots'[i] \in [index : Nat, chunk : Pointer, used : Nat, kept : Nat]
    BY <1>3 DEF TypeOK
  <2>7. /\ snapshotCount' \in Nat /\ unlinked' \in BOOLEAN /\ exhausted' \in BOOLEAN
        /\ phase' \in {"open", "released", "looping"}
    BY <1>3 DEF TypeOK
  <2> QED BY <2>1, <2>2, <2>3, <2>4, <2>5, <2>6, <2>7, <1>4 DEF TypeOK
<1>7. Owned'
  <2>1. \A i \in DOMAIN snapshots' : snapshots'[i].chunk # Null =>
          snapshots'[i].chunk \in backed' /\ snapshots'[i].used <= total'[snapshots'[i].chunk]
    BY <1>3 DEF Owned
  <2> QED BY <2>1 DEF Owned
<1>8. ASSUME ~unlinked'
      PROVE  \E s2, f2 : Listed(s2, f2)' /\ (~exhausted' => LiveFits(s2)' /\ SnapshotsFit(s2)')
  <2>1. PICK s, f : Listed(s, f) /\ (~exhausted => LiveFits(s) /\ SnapshotsFit(s))
    BY <1>8 DEF ArenaInv
  <2>2. PICK s2, f2 : Listed(s2, f2)' /\ Members(s2) = Members(s) \cup {c} /\ c \notin Members(s)
    BY <2>1
  <2>3. ASSUME ~exhausted PROVE LiveFits(s2)' /\ SnapshotsFit(s2)'
    <3>1. /\ LiveFits(s)
          /\ \A i \in DOMAIN snapshots : SnapshotFits(snapshots[i], s)
          /\ \A i, j \in DOMAIN snapshots : i < j => Follows(snapshots[i], snapshots[j])
      BY <2>1, <2>3 DEF SnapshotsFit
    <3>2. Members(s) \subseteq Chunks
      BY <2>1, LinkedFacts DEF Listed
    <3>3. c \in Members(s2) /\ Members(s) \subseteq Members(s2) /\ Members(s2) \subseteq Chunks
      BY <2>2, <3>2
    <3>4. \A x \in Members(s) : x # c => used'[x] = used[x]
      BY <3>2, <1>4
    <3>5. used \in [Chunks -> Nat] /\ 0 \in Nat /\ 0 <= A
      BY <1>1, <1>3 DEF TypeOK
    <3>6. c \in Members(s) => 0 = used[c]
      BY <2>2
    <3>7. LiveFits(s2)' /\ (\A i \in DOMAIN snapshots : SnapshotFits(snapshots[i], s2))'
      <4>1. PICK z : z = 0 /\ z \in Nat
        OBVIOUS
      <4>2. /\ live' = Append(live, [chunk |-> c, from |-> z, to |-> A])
            /\ (c \in Members(s) => z = used[c]) /\ z <= A
        BY <3>5, <3>6, <4>1, <1>2
      <4>3. /\ used \in [Chunks -> Nat] /\ used' \in [Chunks -> Nat] /\ used'[c] = A
            /\ KeptFits /\ A \in Nat /\ z \in Nat
        BY <3>5, <4>1, <1>1, <1>3, <1>4
      <4>4. LiveFits(s) /\ \A i \in DOMAIN snapshots : SnapshotFits(snapshots[i], s)
        BY <3>1
      <4> HIDE DEF LiveFits
      <4>5. /\ live \in Seq(Allocations) /\ snapshots \in Seq(SnapshotRecords)
            /\ snapshots' = snapshots
        BY <1>3
      <4> QED BY ONLY <3>3, <3>4, <4>2, <4>3, <4>4, <4>5, HandoutFits, Zenon
    <3>8. SnapshotsFit(s2)'
      BY <3>1, <3>7 DEF SnapshotsFit, Follows
    <3> QED BY <3>7, <3>8
  <2> QED BY <2>2, <2>3
<1> QED BY <1>3, <1>5, <1>6, <1>7, <1>8, <1>9 DEF ArenaInv

\* A chunk of the free list is large enough and was in no other list.
LEMMA BeginReclaimedKeepsInv ==
  ASSUME ArenaInv, NEW size \in Sizes, BeginReclaimed(size)
  PROVE  ArenaInv'
<1> DEFINE A == AllocationSize(size)
           c == FreeChunk(size)
           out == Remove(next, prev, freeList, c)
           in == Insert(out.next, out.prev, chunkList, c)
<1>1. /\ phase = "open" /\ c # Null
      /\ freeList' = out.list /\ chunkList' = in.list /\ next' = in.next /\ prev' = in.prev
      /\ used' = [used EXCEPT ![c] = A] /\ current' = c /\ Handout(c, 0, size)
      /\ total' = total /\ snapshotCount' = snapshotCount /\ backed' = backed
      /\ snapshots' = snapshots /\ unlinked' = unlinked /\ exhausted' = exhausted /\ phase' = phase
  BY DEF BeginReclaimed, MayAllocate
<1>2. TypeOK /\ Owned
  BY <1>1 DEF ArenaInv
<1>3. c = Reclaimable(A)
  BY <1>1 DEF FreeChunk
<1>4. /\ Within(next, prev, chunkList, backed) /\ Within(next, prev, freeList, backed)
      /\ backed \in SUBSET Chunks /\ total \in [Chunks -> Nat]
  BY <1>2 DEF Owned, TypeOK
<1> HIDE DEF A, c
<1>5. c \in backed /\ total[c] >= A
  BY <1>1, <1>3, <1>4, ReclaimableFits DEF Within
<1> DEFINE n1 == out.next
           p1 == out.prev
           l1 == out.list
<1>6. n1 = Remove(next, prev, freeList, c).next /\ p1 = Remove(next, prev, freeList, c).prev
      /\ l1 = Remove(next, prev, freeList, c).list
  OBVIOUS
<1>7. next' = Insert(n1, p1, chunkList, c).next /\ prev' = Insert(n1, p1, chunkList, c).prev
      /\ chunkList' = Insert(n1, p1, chunkList, c).list /\ freeList' = l1
  BY <1>1
<1> HIDE DEF n1, p1, l1, in, out
<1>8. Within(n1, p1, l1, backed) /\ n1[c] = Null /\ l1 = [first |-> l1.first, last |-> l1.last]
  BY <1>4, <1>5, <1>6, RemoveWithin
<1>9. Within(n1, p1, chunkList, backed) /\ n1[c] \in backed \cup {Null}
  BY <1>4, <1>8 DEF Within
<1>10. Within(next', prev', chunkList', backed \cup {c})
       /\ chunkList' = [first |-> chunkList'.first, last |-> chunkList'.last]
  BY <1>4, <1>5, <1>7, <1>9, InsertWithin
<1>11. backed \cup {c} = backed /\ c \in Chunks
  BY <1>4, <1>5
<1>12. Within(next, prev, chunkList, backed)' /\ Within(next, prev, freeList, backed)'
  BY <1>1, <1>7, <1>8, <1>10, <1>11 DEF Within
<1>13. chunkList' \in Ends /\ freeList' \in Ends
  <2>1. /\ chunkList'.first \in Pointer /\ chunkList'.last \in Pointer
        /\ l1.first \in Pointer /\ l1.last \in Pointer
    BY <1>4, <1>8, <1>10, <1>11 DEF Within, Pointer
  <2> QED BY <2>1, <1>7, <1>8, <1>10 DEF Ends
<1>14. chunkList'.last = c
  BY <1>7 DEF Insert
<1>15. ASSUME NEW s, NEW f, Listed(s, f)
       PROVE  c \notin Members(s)
                /\ \E s2, f2 : Listed(s2, f2)' /\ Members(s2) = Members(s) \cup {c}
  <2>1. /\ Linked(next, prev, chunkList, s) /\ Linked(next, prev, freeList, f)
        /\ Members(s) \cap Members(f) = {} /\ Members(s) \cup Members(f) = backed
    BY <1>15 DEF Listed
  <2>2. freeList.last \in Members(f) \cup {Null} /\ Members(f) \in SUBSET Chunks
        /\ \A x \in Members(f) : prev[x] \in Members(f) \cup {Null}
    <3>1. /\ Len(f) \in Nat /\ Members(f) \subseteq Chunks
          /\ Len(f) = 0 => freeList.last = Null
          /\ Len(f) > 0 => freeList.last \in Members(f)
          /\ \A k \in 1..Len(f) : f[k] \in Members(f)
          /\ \A k \in 1..Len(f) : prev[f[k]] = IF k = 1 THEN Null ELSE f[k - 1]
      BY <2>1, LinkedFacts
    <3>2. ASSUME NEW k \in 1..Len(f) PROVE prev[f[k]] \in Members(f) \cup {Null}
      <4>1. k = 1 \/ k - 1 \in 1..Len(f)
        BY <3>1
      <4> QED BY <4>1, <3>1
    <3>3. \A x \in Members(f) : prev[x] \in Members(f) \cup {Null}
      BY <3>2 DEF Members
    <3> QED BY <3>1, <3>3
  <2>3. c \in Members(f)
    BY <2>2, <1>1, <1>3, <1>4, ReclaimableFits DEF Within
  <2>4. next \in Links /\ prev \in Links
    BY <1>4 DEF Within
  <2>5. /\ \E t : Linked(n1, p1, l1, t) /\ Members(t) = Members(f) \ {c}
        /\ n1[c] = Null
        /\ \A x \in Chunks : x \notin Members(f) => n1[x] = next[x] /\ p1[x] = prev[x]
    BY <2>1, <2>3, <2>4, <1>6, RemoveLinked
  <2>6. PICK t : Linked(n1, p1, l1, t) /\ Members(t) = Members(f) \ {c}
    BY <2>5
  <2>7. Members(s) \subseteq Chunks
    BY <2>1, LinkedFacts
  <2>8. Linked(n1, p1, chunkList, s)
    <3>1. \A x \in Members(s) : n1[x] = next[x] /\ p1[x] = prev[x]
      BY <2>1, <2>5, <2>7
    <3> QED BY <3>1, <2>1, LinkedFrame
  <2>9. c \notin Members(s) /\ n1 \in Links /\ p1 \in Links
    BY <2>1, <2>3, <1>8 DEF Within
  <2>10. /\ Linked(next', prev', chunkList', Append(s, c))
         /\ Members(Append(s, c)) = Members(s) \cup {c}
         /\ \A x \in Chunks : x \notin Members(s) \cup {c} => next'[x] = n1[x] /\ prev'[x] = p1[x]
    BY <2>5, <2>8, <2>9, <1>7, <1>11, InsertLinked
  <2>11. Linked(next', prev', l1, t)
    <3>1. \A x \in Members(t) : next'[x] = n1[x] /\ prev'[x] = p1[x]
      BY <2>1, <2>2, <2>6, <2>10
    <3> QED BY <3>1, <2>6, LinkedFrame
  <2>12. Members(Append(s, c)) \cap Members(t) = {} /\ Members(Append(s, c)) \cup Members(t) = backed
    BY <2>1, <2>3, <2>6, <2>9, <2>10
  <2>13. PICK s2 : s2 = Append(s, c)
    OBVIOUS
  <2>14. Listed(s2, t)'
    BY <2>10, <2>11, <2>12, <2>13, <1>1, <1>7 DEF Listed
  <2> QED BY <2>9, <2>10, <2>13, <2>14
<1>16. AllocationSize(size) <= total'[c] /\ used' = [used EXCEPT ![c] = AllocationSize(size)]
  <2>1. A \in Nat /\ total[c] \in Nat
    BY <1>4, <1>11, ArenaAssumption DEF A, AllocationSize
  <2> QED BY <2>1, <1>1, <1>5 DEF A
<1> QED BY <1>1, <1>4, <1>5, <1>11, <1>12, <1>13, <1>14, <1>15, <1>16, BeginKeepsInv

\* A chunk that the backend lends was in no list; its links are not initialised but
\* for the next, and the insertion sets the other.
LEMMA BeginNewKeepsInv ==
  ASSUME ArenaInv, NEW size \in Sizes, BeginNew(size)
  PROVE  ArenaInv'
<1> DEFINE A == AllocationSize(size)
           D == ChunkDataSize(size)
<1>1. /\ phase = "open" /\ freeList' = freeList
      /\ snapshotCount' = snapshotCount
      /\ snapshots' = snapshots /\ unlinked' = unlinked /\ exhausted' = exhausted /\ phase' = phase
  BY DEF BeginNew, MayAllocate
<1>2. TypeOK /\ Owned
  BY <1>1 DEF ArenaInv
<1>3. A \in Nat /\ D \in Nat /\ A <= D
  BY ArenaAssumption DEF AllocationSize, ChunkDataSize
<1> HIDE DEF A, D
<1>4. PICK c \in Chunks \ backed :
        LET in == Insert([next EXCEPT ![c] = Null], prev, chunkList, c)
        IN  /\ backed' = backed \cup {c}
            /\ total' = [total EXCEPT ![c] = D]
            /\ used' = [used EXCEPT ![c] = A]
            /\ chunkList' = in.list /\ next' = in.next /\ prev' = in.prev
            /\ current' = c
            /\ Handout(c, 0, size)
  BY DEF BeginNew, A, D
<1> DEFINE n1 == [next EXCEPT ![c] = Null]
<1>5. /\ backed' = backed \cup {c} /\ total' = [total EXCEPT ![c] = D]
      /\ used' = [used EXCEPT ![c] = A] /\ current' = c /\ Handout(c, 0, size)
      /\ next' = Insert(n1, prev, chunkList, c).next /\ prev' = Insert(n1, prev, chunkList, c).prev
      /\ chunkList' = Insert(n1, prev, chunkList, c).list
  BY <1>4
<1>6. /\ Within(next, prev, chunkList, backed) /\ Within(next, prev, freeList, backed)
      /\ backed \in SUBSET Chunks /\ total \in [Chunks -> Nat] /\ freeList \in Ends
      /\ next \in Links /\ prev \in Links
  BY <1>2 DEF Owned, TypeOK, Ends, Links
<1>7. n1 \in Links /\ n1[c] = Null /\ \A x \in Chunks : x # c => n1[x] = next[x]
  BY <1>6 DEF Links, Pointer
<1> HIDE DEF n1
<1>8. Within(n1, prev, chunkList, backed)
  BY <1>6, <1>7 DEF Within
<1>9. Within(next', prev', chunkList', backed \cup {c})
      /\ chunkList' = [first |-> chunkList'.first, last |-> chunkList'.last]
  BY <1>5, <1>6, <1>7, <1>8, InsertWithin
<1>10. Within(next, prev, chunkList, backed)' /\ Within(next, prev, freeList, backed)'
  BY <1>1, <1>5, <1>6, <1>9 DEF Within
<1>11. chunkList' \in Ends /\ freeList' \in Ends
  <2>1. chunkList'.first \in Pointer /\ chunkList'.last \in Pointer
    BY <1>6, <1>9 DEF Within, Pointer
  <2> QED BY <2>1, <1>1, <1>6, <1>9 DEF Ends
<1>12. chunkList'.last = c
  BY <1>5 DEF Insert
<1>13. /\ total' \in [Chunks -> Nat] /\ total'[c] = D
       /\ \A x \in Chunks : x # c => total'[x] = total[x]
       /\ \A x \in backed : total'[x] = total[x]
  BY <1>3, <1>5, <1>6
<1>14. ASSUME NEW s, NEW f, Listed(s, f)
       PROVE  c \notin Members(s)
                /\ \E s2, f2 : Listed(s2, f2)' /\ Members(s2) = Members(s) \cup {c}
  <2>1. /\ Linked(next, prev, chunkList, s) /\ Linked(next, prev, freeList, f)
        /\ Members(s) \cap Members(f) = {} /\ Members(s) \cup Members(f) = backed
    BY <1>14 DEF Listed
  <2>2. c \notin Members(s) /\ c \notin Members(f) /\ Members(s) \subseteq Chunks /\ Members(f) \subseteq Chunks
    BY <2>1, <1>6
  <2>3. Linked(n1, prev, chunkList, s)
    <3>1. \A x \in Members(s) : n1[x] = next[x] /\ prev[x] = prev[x]
      BY <2>2, <1>7
    <3> QED BY <3>1, <2>1, LinkedFrame
  <2>4. /\ Linked(next', prev', chunkList', Append(s, c))
        /\ Members(Append(s, c)) = Members(s) \cup {c}
        /\ \A x \in Chunks : x \notin Members(s) \cup {c} => next'[x] = n1[x] /\ prev'[x] = prev[x]
    BY <2>2, <2>3, <1>5, <1>6, <1>7, InsertLinked
  <2>5. Linked(next', prev', freeList, f)
    <3>1. \A x \in Members(f) : next'[x] = next[x] /\ prev'[x] = prev[x]
      BY <2>1, <2>2, <2>4, <1>7
    <3> QED BY <3>1, <2>1, LinkedFrame
  <2>6. Members(Append(s, c)) \cap Members(f) = {} /\ Members(Append(s, c)) \cup Members(f) = backed \cup {c}
    BY <2>1, <2>2, <2>4
  <2>7. Listed(Append(s, c), f)'
    BY <2>4, <2>5, <2>6, <1>1, <1>5 DEF Listed
  <2> QED BY <2>2, <2>4, <2>7
<1>15. AllocationSize(size) <= total'[c] /\ used' = [used EXCEPT ![c] = AllocationSize(size)]
  BY <1>3, <1>5, <1>13 DEF A
<1>16. c \in backed' /\ backed \subseteq backed' /\ backed' \subseteq Chunks
  BY <1>5, <1>6
<1>17. \A s, f : Listed(s, f) =>
         c \notin Members(s)
           /\ \E s2, f2 : Listed(s2, f2)' /\ Members(s2) = Members(s) \cup {c}
  BY <1>14
<1>18. /\ phase = "open" /\ c \in Chunks /\ current' = c /\ Handout(c, 0, size)
       /\ snapshotCount' = snapshotCount /\ snapshots' = snapshots /\ unlinked' = unlinked
       /\ exhausted' = exhausted /\ phase' = phase
  BY <1>1, <1>5, <1>6
<1> QED BY <1>10, <1>11, <1>12, <1>13, <1>15, <1>16, <1>17, <1>18, BeginKeepsInv

\* A refusal changes nothing but the current chunk (AmlArenaAllocate).
LEMMA BackendRefusesKeepsInv ==
  ASSUME ArenaInv, NEW size \in Sizes, BackendRefuses(size)
  PROVE  ArenaInv'
<1>1. /\ phase = "open" /\ current' = Null /\ exhausted' = TRUE
      /\ chunkList' = chunkList /\ freeList' = freeList /\ next' = next /\ prev' = prev
      /\ used' = used /\ total' = total /\ snapshotCount' = snapshotCount /\ backed' = backed
      /\ snapshots' = snapshots /\ live' = live /\ unlinked' = unlinked /\ phase' = phase
  BY DEF BackendRefuses, MayAllocate, listVars
<1>2. TypeOK'
  BY <1>1 DEF ArenaInv, TypeOK, Pointer
<1>3. Owned'
  BY <1>1 DEF ArenaInv, Owned, Within
<1>4. ASSUME ~unlinked' PROVE \E s, f : Listed(s, f)'
  <2>1. PICK s, f : Listed(s, f)
    BY <1>1, <1>4 DEF ArenaInv
  <2>2. Listed(s, f)'
    BY <2>1, <1>1 DEF Listed
  <2> QED BY <2>2
<1>5. KeptFits'
  BY <1>1 DEF ArenaInv, KeptFits
<1> QED BY <1>1, <1>2, <1>3, <1>4, <1>5 DEF ArenaInv

\* A snapshot records where the current chunk is; everything live is below it.
LEMMA SnapshotKeepsInv ==
  ASSUME ArenaInv, Snapshot
  PROVE  ArenaInv'
<1> DEFINE u == [index |-> snapshotCount, chunk |-> current,
                 used |-> IF current # Null THEN used[current] ELSE 0, kept |-> Len(live)]
           n == Len(snapshots)
<1>1. /\ phase = "open" /\ snapshots' = Append(snapshots, u) /\ snapshotCount' = snapshotCount + 1
      /\ chunkList' = chunkList /\ freeList' = freeList /\ next' = next /\ prev' = prev
      /\ used' = used /\ total' = total /\ current' = current /\ backed' = backed
      /\ live' = live /\ unlinked' = unlinked /\ exhausted' = exhausted /\ phase' = phase
  BY DEF Snapshot, listVars
<1>2. TypeOK /\ Owned /\ live \in Seq(Allocations) /\ snapshots \in Seq(SnapshotRecords) /\ KeptFits
  BY <1>1 DEF ArenaInv
<1>3. /\ u.chunk = current /\ u.kept = Len(live) /\ u.index = snapshotCount
      /\ (current # Null => u.used = used[current]) /\ (current = Null => u.used = 0)
      /\ u = [index |-> u.index, chunk |-> u.chunk, used |-> u.used, kept |-> u.kept]
  OBVIOUS
<1> HIDE DEF u
<1>4. /\ current \in Pointer /\ snapshotCount \in Nat /\ Len(live) \in Nat
      /\ (current # Null => current \in Chunks /\ used[current] \in Nat)
  BY <1>2 DEF TypeOK, Pointer
<1>5. u \in SnapshotRecords
  <2>1. u.index \in Nat /\ u.chunk \in Pointer /\ u.used \in Nat /\ u.kept \in Nat
    BY <1>3, <1>4
  <2> QED BY <2>1, <1>3 DEF SnapshotRecords
<1>6. /\ snapshots' \in Seq(SnapshotRecords) /\ n \in Nat
      /\ DOMAIN snapshots = 1..n /\ DOMAIN snapshots' = 1..(n + 1)
      /\ snapshots'[n + 1] = u /\ \A i \in 1..n : snapshots'[i] = snapshots[i]
  BY <1>1, <1>2, <1>5
<1> HIDE DEF n
<1>7. TypeOK'
  <2>1. \A i \in DOMAIN snapshots' :
          snapshots'[i] \in [index : Nat, chunk : Pointer, used : Nat, kept : Nat]
    <3>1. \A i \in DOMAIN snapshots' : snapshots'[i] \in SnapshotRecords
      BY <1>6
    <3> QED BY <3>1 DEF SnapshotRecords
  <2> QED BY <2>1, <1>1, <1>2 DEF TypeOK
<1>8. Owned'
  <2>1. ASSUME NEW i \in 1..(n + 1), snapshots'[i].chunk # Null
        PROVE  snapshots'[i].chunk \in backed /\ snapshots'[i].used <= total[snapshots'[i].chunk]
    <3>1. CASE i = n + 1
      <4>1. snapshots'[i].chunk = current /\ snapshots'[i].used = used[current] /\ current # Null
        BY <2>1, <3>1, <1>3, <1>6
      <4> QED BY <4>1, <1>2, <1>4 DEF Owned, TypeOK
    <3>2. CASE i \in 1..n
      BY <2>1, <3>2, <1>2, <1>6 DEF Owned
    <3> QED BY <3>1, <3>2, <1>6
  <2> QED BY <2>1, <1>1, <1>2, <1>6 DEF Owned, Within
<1>9. ASSUME ~unlinked'
      PROVE  \E s, f : Listed(s, f)' /\ (~exhausted' => LiveFits(s)' /\ SnapshotsFit(s)')
  <2>1. PICK s, f : Listed(s, f) /\ (~exhausted => LiveFits(s) /\ SnapshotsFit(s))
    BY <1>1, <1>9 DEF ArenaInv
  <2>2. Listed(s, f)'
    BY <2>1, <1>1 DEF Listed
  <2>3. ASSUME ~exhausted PROVE LiveFits(s)' /\ SnapshotsFit(s)'
    <3>1. /\ LiveFits(s) /\ current = chunkList.last
          /\ \A i \in 1..n : SnapshotFits(snapshots[i], s)
          /\ \A i, j \in 1..n : i < j => Follows(snapshots[i], snapshots[j])
      BY <2>1, <2>3, <1>6 DEF SnapshotsFit
    <3>2. \A i \in DOMAIN live : live[i].chunk \in Members(s) /\ live[i].to <= used[live[i].chunk]
      BY <3>1 DEF LiveFits
    \* Without a current chunk the active list is empty, and nothing is live.
    <3>3. current = Null => Members(s) = {}
      <4>1. Len(s) \in Nat /\ (Len(s) > 0 => chunkList.last # Null)
        BY <2>1, LinkedFacts DEF Listed
      <4>2. current = Null => Len(s) = 0
        BY <4>1, <3>1
      <4>3. Len(s) = 0 => 1..Len(s) = {}
        OBVIOUS
      <4> QED BY <4>2, <4>3 DEF Members
    <3>4. current = Null => Len(live) = 0
      BY <3>2, <3>3, <1>2
    <3>5. current # Null => current \in Members(s)
      <4>1. Len(s) \in Nat /\ (Len(s) = 0 => chunkList.last = Null)
            /\ (Len(s) > 0 => chunkList.last \in Members(s))
        BY <2>1, LinkedFacts DEF Listed
      <4> QED BY <4>1, <3>1
    <3>6. SnapshotFits(u, s)
      <4>2. u.chunk # Null => u.chunk \in Members(s) /\ u.used <= used[u.chunk]
        BY <3>5, <1>3, <1>4
      <4>3. u.chunk # Null => \A k \in 1..u.kept : live[k].chunk = u.chunk => live[k].to <= u.used
        BY <3>2, <1>2, <1>3
      <4>4. u.chunk = Null => u.kept = 0
        BY <3>4, <1>3
      <4> QED BY <4>2, <4>3, <4>4 DEF SnapshotFits
    <3>7. ASSUME NEW i \in 1..n PROVE Follows(snapshots[i], u)
      <4>1. SnapshotFits(snapshots[i], s)
        BY <3>1
      <4>3. snapshots[i].chunk # Null /\ snapshots[i].chunk = u.chunk => snapshots[i].used <= u.used
        BY <4>1, <1>3 DEF SnapshotFits
      <4>4. u.chunk = Null => snapshots[i].chunk = Null
        BY <4>1, <3>3, <1>3 DEF SnapshotFits
      <4> QED BY <4>3, <4>4 DEF Follows
    <3>8. ASSUME NEW i \in 1..(n + 1) PROVE SnapshotFits(snapshots'[i], s)
      BY <3>1, <3>6, <1>6
    <3>9. ASSUME NEW i \in 1..(n + 1), NEW j \in 1..(n + 1), i < j
          PROVE  Follows(snapshots'[i], snapshots'[j])
      <4>1. i \in 1..n
        BY <3>9, <1>6
      <4>2. CASE j = n + 1
        BY <4>1, <4>2, <3>7, <1>6
      <4>3. CASE j \in 1..n
        BY <4>1, <4>3, <3>1, <3>9, <1>6
      <4> QED BY <4>2, <4>3, <1>6
    <3>10. LiveFits(s)'
      BY <3>1, <1>1 DEF LiveFits
    <3>11. \A i \in DOMAIN snapshots' : SnapshotFits(snapshots[i], s)'
      BY <3>8, <1>1, <1>6 DEF SnapshotFits
    <3>12. SnapshotsFit(s)'
      BY <3>1, <3>9, <3>11, <1>1, <1>6 DEF SnapshotsFit, Follows
    <3> QED BY <3>10, <3>12
  <2> QED BY <2>2, <2>3, <1>1
<1>10. KeptFits'
  <2>1. \A i \in 1..(n + 1) : snapshots'[i].kept <= Len(live)
    BY <1>2, <1>3, <1>4, <1>6 DEF KeptFits
  <2>2. ASSUME NEW i \in 1..(n + 1), NEW j \in 1..(n + 1), i < j
        PROVE  snapshots'[i].kept <= snapshots'[j].kept
    <3>1. i \in 1..n
      BY <2>2, <1>6
    <3>2. CASE j = n + 1
      BY <3>1, <3>2, <1>2, <1>3, <1>6 DEF KeptFits
    <3>3. CASE j \in 1..n
      BY <3>1, <3>3, <2>2, <1>2, <1>6 DEF KeptFits
    <3> QED BY <3>2, <3>3, <1>6
  <2> QED BY <2>1, <2>2, <1>1, <1>6 DEF KeptFits
<1> QED BY <1>1, <1>2, <1>6, <1>7, <1>8, <1>9, <1>10 DEF ArenaInv

\* Forgetting the latest snapshot, whatever becomes of its number.
LEMMA ForgetKeepsInv ==
  ASSUME ArenaInv, phase = "open", snapshots # << >>, Finish, snapshotCount' \in Nat,
         UNCHANGED <<listVars, used, total, current, backed, live, unlinked, exhausted, phase>>
  PROVE  ArenaInv'
<1> DEFINE n == Len(snapshots)
<1>1. /\ chunkList' = chunkList /\ freeList' = freeList /\ next' = next /\ prev' = prev
      /\ used' = used /\ total' = total /\ current' = current /\ backed' = backed
      /\ live' = live /\ unlinked' = unlinked /\ exhausted' = exhausted /\ phase' = phase
  BY DEF listVars
<1>2. TypeOK /\ Owned /\ live \in Seq(Allocations) /\ snapshots \in Seq(SnapshotRecords) /\ KeptFits
  BY DEF ArenaInv
<1>3. /\ snapshots' \in Seq(SnapshotRecords) /\ n \in Nat /\ n > 0
      /\ DOMAIN snapshots = 1..n /\ DOMAIN snapshots' = 1..(n - 1)
      /\ \A i \in 1..(n - 1) : snapshots'[i] = snapshots[i] /\ i \in 1..n
  BY <1>2 DEF Finish
<1> HIDE DEF n
<1>4. TypeOK'
  <2>1. \A i \in DOMAIN snapshots' :
          snapshots'[i] \in [index : Nat, chunk : Pointer, used : Nat, kept : Nat]
    <3>1. \A i \in DOMAIN snapshots' : snapshots'[i] \in SnapshotRecords
      BY <1>3
    <3> QED BY <3>1 DEF SnapshotRecords
  <2> QED BY <2>1, <1>1, <1>2 DEF TypeOK
<1>5. Owned'
  <2>1. \A i \in 1..(n - 1) : snapshots'[i].chunk # Null =>
          snapshots'[i].chunk \in backed /\ snapshots'[i].used <= total[snapshots'[i].chunk]
    BY <1>2, <1>3 DEF Owned
  <2> QED BY <2>1, <1>1, <1>2, <1>3 DEF Owned, Within
<1>6. ASSUME ~unlinked'
      PROVE  \E s, f : Listed(s, f)' /\ (~exhausted' => LiveFits(s)' /\ SnapshotsFit(s)')
  <2>1. PICK s, f : Listed(s, f) /\ (~exhausted => LiveFits(s) /\ SnapshotsFit(s))
    BY <1>1, <1>6 DEF ArenaInv
  <2>2. Listed(s, f)'
    BY <2>1, <1>1 DEF Listed
  <2>3. ASSUME ~exhausted PROVE LiveFits(s)' /\ SnapshotsFit(s)'
    <3>1. LiveFits(s) /\ SnapshotsFit(s)
      BY <2>1, <2>3
    <3>2. LiveFits(s)'
      BY <3>1, <1>1 DEF LiveFits
    <3>3. \A i \in DOMAIN snapshots' : SnapshotFits(snapshots[i], s)'
      BY <3>1, <1>1, <1>3 DEF SnapshotsFit, SnapshotFits
    <3>4. \A i, j \in DOMAIN snapshots' : i < j => Follows(snapshots'[i], snapshots'[j])
      BY <3>1, <1>3 DEF SnapshotsFit
    <3>5. SnapshotsFit(s)'
      BY <3>1, <3>3, <3>4, <1>1 DEF SnapshotsFit, Follows
    <3> QED BY <3>2, <3>5
  <2> QED BY <2>2, <2>3, <1>1
<1>7. KeptFits'
  BY <1>1, <1>2, <1>3 DEF KeptFits
<1> QED BY <1>1, <1>2, <1>3, <1>4, <1>5, <1>6, <1>7 DEF ArenaInv

\* A commit, a call out of order and an early return forget the snapshot alone
\* (AmlArenaSnapshotCommit).
LEMMA CommitKeepsInv ==
  ASSUME ArenaInv, Commit \/ OutOfOrder \/ Abandon
  PROVE  ArenaInv'
<1>1. phase = "open" /\ snapshots # << >> /\ Finish
  BY DEF Commit, OutOfOrder, Abandon, Finishing
<1>2. snapshotCount' \in Nat
  <2>1. TypeOK /\ snapshots \in Seq(SnapshotRecords)
    BY DEF ArenaInv
  <2>2. Top \in SnapshotRecords
    BY <2>1, <1>1 DEF Top
  <2>3. Top.index \in Nat /\ snapshotCount \in Nat
    BY <2>1, <2>2 DEF SnapshotRecords, TypeOK
  <2>4. CASE Commit
    <3>1. Top.index = snapshotCount - 1 /\ snapshotCount' = snapshotCount - 1
      BY <2>4 DEF Commit, InOrder
    <3> QED BY <3>1, <2>3
  <2>5. CASE OutOfOrder \/ Abandon
    BY <2>3, <2>5 DEF OutOfOrder, Abandon
  <2> QED BY <2>4, <2>5
<1>3. UNCHANGED <<listVars, used, total, current, backed, live, unlinked, exhausted, phase>>
  BY DEF Commit, OutOfOrder, Abandon
<1> QED BY <1>1, <1>2, <1>3, ForgetKeepsInv

\* What a rollback leaves of the snapshots and the allocations (AmlArenaSnapshotRollback).
LEMMA RollbackTruncates ==
  ASSUME ArenaInv, Rollback
  PROVE  /\ phase = "open" /\ Len(snapshots) \in Nat /\ Len(snapshots) > 0
         /\ Top = snapshots[Len(snapshots)] /\ Top \in SnapshotRecords
         /\ snapshots' \in Seq(SnapshotRecords)
         /\ DOMAIN snapshots = 1..Len(snapshots) /\ DOMAIN snapshots' = 1..(Len(snapshots) - 1)
         /\ \A i \in 1..(Len(snapshots) - 1) : snapshots'[i] = snapshots[i] /\ i \in 1..Len(snapshots)
         /\ live' \in Seq(Allocations) /\ Len(live') = Top.kept /\ DOMAIN live' = 1..Top.kept
         /\ \A i \in 1..Top.kept : live'[i] = live[i] /\ i \in DOMAIN live
         /\ snapshotCount' \in Nat /\ KeptFits'
         /\ \A i \in DOMAIN live' : live'[i] \in [chunk : Chunks, from : Nat, to : Nat]
         /\ \A i \in DOMAIN snapshots' :
              snapshots'[i] \in [index : Nat, chunk : Pointer, used : Nat, kept : Nat]
<1> DEFINE n == Len(snapshots)
<1>1. /\ phase = "open" /\ snapshots # << >> /\ snapshots' = SubSeq(snapshots, 1, n - 1)
      /\ live' = SubSeq(live, 1, Top.kept) /\ Top.index = snapshotCount - 1
      /\ snapshotCount' = snapshotCount - 1
  BY DEF Rollback, Finishing, Finish, InOrder
<1>2. TypeOK /\ live \in Seq(Allocations) /\ snapshots \in Seq(SnapshotRecords) /\ KeptFits
  BY DEF ArenaInv
<1>3. /\ n \in Nat /\ n > 0 /\ Top = snapshots[n] /\ DOMAIN snapshots = 1..n
      /\ Top \in SnapshotRecords
  BY <1>1, <1>2 DEF Top
<1>4. /\ snapshots' \in Seq(SnapshotRecords) /\ DOMAIN snapshots' = 1..(n - 1)
      /\ \A i \in 1..(n - 1) : snapshots'[i] = snapshots[i] /\ i \in 1..n
  BY <1>1, <1>2, <1>3
<1> HIDE DEF n
<1>5. Top.kept \in Nat /\ Top.index \in Nat /\ Top.kept <= Len(live)
  BY <1>2, <1>3 DEF SnapshotRecords, KeptFits
<1>6. /\ live' \in Seq(Allocations) /\ Len(live') = Top.kept /\ DOMAIN live' = 1..Top.kept
      /\ \A i \in 1..Top.kept : live'[i] = live[i] /\ i \in DOMAIN live
  BY <1>1, <1>2, <1>5
<1>7. snapshotCount' \in Nat
  BY <1>1, <1>2, <1>5 DEF TypeOK
<1>8. KeptFits'
  <2>1. \A i \in 1..(n - 1) : snapshots[i].kept <= Top.kept
    BY <1>2, <1>3 DEF KeptFits
  <2>2. \A i, j \in 1..(n - 1) : i < j => snapshots[i].kept <= snapshots[j].kept
    BY <1>2, <1>3, <1>4 DEF KeptFits
  <2> QED BY <2>1, <2>2, <1>4, <1>6 DEF KeptFits
<1>9. \A i \in DOMAIN live' : live'[i] \in [chunk : Chunks, from : Nat, to : Nat]
  <2>1. \A i \in DOMAIN live' : live'[i] \in Allocations
    BY <1>6
  <2> QED BY <2>1 DEF Allocations
<1>10. \A i \in DOMAIN snapshots' :
         snapshots'[i] \in [index : Nat, chunk : Pointer, used : Nat, kept : Nat]
  <2>1. \A i \in 1..n : snapshots[i] \in SnapshotRecords
    BY <1>2, <1>3
  <2>2. \A i \in DOMAIN snapshots' : snapshots'[i] = snapshots[i] /\ i \in 1..n
    BY <1>4
  <2>3. \A i \in DOMAIN snapshots' : snapshots'[i] \in SnapshotRecords
    BY <2>1, <2>2
  <2> QED BY <2>3 DEF SnapshotRecords
<1> QED BY <1>1, <1>3, <1>4, <1>6, <1>7, <1>8, <1>9, <1>10 DEF n

\* A rollback to the empty arena: all chunks become free (AmlArenaReset).
LEMMA ResetKeepsInv ==
  ASSUME ArenaInv, Rollback, Top.chunk = Null, Reset, UNCHANGED <<used, unlinked>>
  PROVE  ArenaInv'
<1> DEFINE n == Len(snapshots)
           head == chunkList.first
<1>1. /\ phase = "open" /\ n \in Nat /\ n > 0 /\ Top = snapshots[n]
      /\ snapshots' \in Seq(SnapshotRecords)
      /\ DOMAIN snapshots = 1..n /\ DOMAIN snapshots' = 1..(n - 1)
      /\ \A i \in 1..(n - 1) : snapshots'[i] = snapshots[i] /\ i \in 1..n
      /\ live' \in Seq(Allocations) /\ Len(live') = Top.kept /\ DOMAIN live' = 1..Top.kept
      /\ snapshotCount' \in Nat /\ KeptFits'
      /\ \A i \in DOMAIN live' : live'[i] \in [chunk : Chunks, from : Nat, to : Nat]
      /\ \A i \in DOMAIN snapshots' :
           snapshots'[i] \in [index : Nat, chunk : Pointer, used : Nat, kept : Nat]
  BY RollbackTruncates
<1>2. TypeOK /\ Owned
  BY <1>1 DEF ArenaInv
<1>3. /\ current' = Null /\ total' = total /\ backed' = backed /\ exhausted' = exhausted
      /\ phase' = phase /\ used' = used /\ unlinked' = unlinked
  BY DEF Rollback
<1>4. /\ Within(next, prev, chunkList, backed) /\ Within(next, prev, freeList, backed)
      /\ next \in Links /\ prev \in Links /\ backed \in SUBSET Chunks
      /\ chunkList \in Ends /\ freeList \in Ends
  BY <1>2 DEF Owned, TypeOK, Links, Ends
<1> HIDE DEF n, head
<1>5. CASE head = Null
  <2>1. chunkList' = chunkList /\ freeList' = freeList /\ next' = next /\ prev' = prev
    BY <1>5 DEF Reset, listVars, head
  <2>2. TypeOK'
    BY <2>1, <1>1, <1>2, <1>3 DEF TypeOK, Pointer
  <2>3. Owned'
    <3>1. \A i \in 1..(n - 1) : snapshots'[i].chunk # Null =>
            snapshots'[i].chunk \in backed /\ snapshots'[i].used <= total[snapshots'[i].chunk]
      BY <1>1, <1>2 DEF Owned
    <3> QED BY <3>1, <2>1, <1>1, <1>3, <1>4 DEF Owned, Within
  <2>4. ASSUME ~unlinked'
        PROVE  \E s, f : Listed(s, f)' /\ (~exhausted' => LiveFits(s)' /\ SnapshotsFit(s)')
    <3>1. PICK s, f : Listed(s, f) /\ (~exhausted => LiveFits(s) /\ SnapshotsFit(s))
      BY <2>4, <1>1, <1>3 DEF ArenaInv
    <3>2. Listed(s, f)'
      BY <3>1, <2>1, <1>3 DEF Listed
    <3>3. chunkList.last = Null
      <4>1. Len(s) \in Nat /\ (Len(s) > 0 => chunkList.first # Null) /\ (Len(s) = 0 => chunkList.last = Null)
        BY <3>1, LinkedFacts DEF Listed
      <4> QED BY <4>1, <1>5 DEF head
    <3>4. ASSUME ~exhausted PROVE LiveFits(s)' /\ SnapshotsFit(s)'
      <4>1. SnapshotsFit(s)
        BY <3>1, <3>4
      <4>2. Top.kept = 0 /\ \A i \in 1..(n - 1) : snapshots[i].chunk = Null /\ snapshots[i].kept = 0
        <5>1. SnapshotFits(snapshots[n], s) /\ n \in 1..n
          BY <4>1, <1>1 DEF SnapshotsFit
        <5>2. ASSUME NEW i \in 1..(n - 1) PROVE snapshots[i].chunk = Null /\ snapshots[i].kept = 0
          <6>1. i \in 1..n /\ n \in 1..n /\ i < n
            BY <5>1, <1>1
          <6>2. i \in DOMAIN snapshots /\ n \in DOMAIN snapshots
            BY <6>1, <1>1
          <6>3. SnapshotFits(snapshots[i], s) /\ Follows(snapshots[i], snapshots[n])
            BY <4>1, <6>1, <6>2 DEF SnapshotsFit
          <6> QED BY <6>3, <1>1 DEF SnapshotFits, Follows
        <5> QED BY <5>1, <5>2, <1>1 DEF SnapshotFits
      <4>3. DOMAIN live' = {}
        BY <4>2, <1>1
      <4>4. \A i \in DOMAIN snapshots' : SnapshotFits(snapshots[i], s)'
        BY <4>2, <1>1 DEF SnapshotFits
      <4>5. \A i, j \in DOMAIN snapshots' : Follows(snapshots'[i], snapshots'[j])
        BY <4>2, <1>1 DEF Follows
      <4>6. SnapshotsFit(s)'
        BY <4>4, <4>5, <3>3, <2>1, <1>3 DEF SnapshotsFit, Follows
      <4> QED BY <4>3, <4>6 DEF LiveFits
    <3> QED BY <3>2, <3>4, <1>3
  <2> QED BY <2>2, <2>3, <2>4, <1>1, <1>3 DEF ArenaInv
<1>6. CASE head # Null
  <2>1. /\ prev' = [prev EXCEPT ![head] = freeList.last]
        /\ next' = IF freeList.last # Null THEN [next EXCEPT ![freeList.last] = head] ELSE next
        /\ freeList' = [first |-> IF freeList.first # Null THEN freeList.first ELSE head,
                        last  |-> chunkList.last]
        /\ chunkList' = Nowhere
    BY <1>6 DEF Reset, head
  <2>2. /\ head \in backed /\ head \in Chunks /\ freeList.last \in backed \cup {Null}
        /\ (freeList.last # Null => freeList.last \in Chunks)
        /\ freeList.last \in Pointer /\ head \in Pointer
        /\ freeList.first \in backed \cup {Null} /\ chunkList.last \in backed \cup {Null}
    BY <1>4, <1>6 DEF Within, Pointer, head
  <2>3. /\ next' \in Links /\ prev' \in Links
        /\ \A c \in Chunks : next'[c] = IF freeList.last # Null /\ c = freeList.last THEN head ELSE next[c]
        /\ \A c \in Chunks : prev'[c] = IF c = head THEN freeList.last ELSE prev[c]
    BY <2>1, <2>2, <1>4 DEF Links
  <2>4. /\ freeList'.first = (IF freeList.first # Null THEN freeList.first ELSE head)
        /\ freeList'.last = chunkList.last
        /\ chunkList'.first = Null /\ chunkList'.last = Null
        /\ chunkList' \in Ends /\ freeList' \in Ends
    <3>1. freeList'.first = (IF freeList.first # Null THEN freeList.first ELSE head)
          /\ freeList'.last = chunkList.last
          /\ freeList' = [first |-> freeList'.first, last |-> freeList'.last]
      BY <2>1
    <3>2. freeList'.first \in Pointer /\ freeList'.last \in Pointer
      BY <3>1, <2>2, <1>4 DEF Ends, Pointer
    <3>3. Nowhere \in Ends /\ Nowhere.first = Null /\ Nowhere.last = Null
      BY DEF Nowhere, Ends, Pointer
    <3> QED BY <3>1, <3>2, <3>3, <2>1 DEF Ends
  <2>5. TypeOK'
    <3>1. current' \in Pointer /\ next' \in [Chunks -> Pointer] /\ prev' \in [Chunks -> Pointer]
          /\ chunkList' \in [first : Pointer, last : Pointer] /\ freeList' \in [first : Pointer, last : Pointer]
      BY <2>3, <2>4, <1>3 DEF Links, Ends, Pointer
    <3> QED BY <3>1, <1>1, <1>2, <1>3 DEF TypeOK
  <2>6. Owned'
    <3>1. \A i \in 1..(n - 1) : snapshots'[i].chunk # Null =>
            snapshots'[i].chunk \in backed /\ snapshots'[i].used <= total[snapshots'[i].chunk]
      BY <1>1, <1>2 DEF Owned
    <3>2. \A c \in backed : next'[c] \in backed \cup {Null} /\ prev'[c] \in backed \cup {Null}
      BY <2>2, <2>3, <1>4 DEF Within
    <3>3. freeList'.first \in backed \cup {Null} /\ freeList'.last \in backed \cup {Null}
      BY <2>2, <2>4
    <3> QED BY <3>1, <3>2, <3>3, <2>3, <2>4, <1>1, <1>3 DEF Owned, Within
  <2>7. ASSUME ~unlinked'
        PROVE  \E s2, f2 : Listed(s2, f2)' /\ (~exhausted' => LiveFits(s2)' /\ SnapshotsFit(s2)')
    <3>1. PICK s, f : Listed(s, f) /\ (~exhausted => LiveFits(s) /\ SnapshotsFit(s))
      BY <2>7, <1>1, <1>3 DEF ArenaInv
    <3>2. /\ Linked(next, prev, chunkList, s) /\ Linked(next, prev, freeList, f)
          /\ Members(f) \cap Members(s) = {} /\ Members(f) \cup Members(s) = backed
      BY <3>1 DEF Listed
    <3>3. Len(s) > 0
      <4>1. Len(s) \in Nat /\ (Len(s) = 0 => chunkList.first = Null)
        BY <3>2, LinkedFacts
      <4> QED BY <4>1, <1>6 DEF head
    <3>4. PICK f2 : f2 = f \o s
      OBVIOUS
    <3>5. Linked(next', prev', freeList', f2) /\ Members(f2) = backed
      <4>1. Linked(next', prev', freeList', f \o s) /\ Members(f \o s) = Members(f) \cup Members(s)
        BY <3>2, <3>3, <2>3, <2>4, <1>4, JoinLinked DEF head
      <4> QED BY <4>1, <3>2, <3>4
    <3>6. Linked(next', prev', chunkList', << >>) /\ Members(<< >>) = {}
      BY <2>4, EmptyLinked
    <3>7. Listed(<< >>, f2)'
      BY <3>5, <3>6, <1>3 DEF Listed
    <3>8. ASSUME ~exhausted PROVE LiveFits(<< >>)' /\ SnapshotsFit(<< >>)'
      <4>1. SnapshotsFit(s)
        BY <3>1, <3>8
      <4>2. Top.kept = 0 /\ \A i \in 1..(n - 1) : snapshots[i].chunk = Null /\ snapshots[i].kept = 0
        <5>1. SnapshotFits(snapshots[n], s) /\ n \in 1..n
          BY <4>1, <1>1 DEF SnapshotsFit
        <5>2. ASSUME NEW i \in 1..(n - 1) PROVE snapshots[i].chunk = Null /\ snapshots[i].kept = 0
          <6>1. i \in 1..n /\ n \in 1..n /\ i < n
            BY <5>1, <1>1
          <6>2. i \in DOMAIN snapshots /\ n \in DOMAIN snapshots
            BY <6>1, <1>1
          <6>3. SnapshotFits(snapshots[i], s) /\ Follows(snapshots[i], snapshots[n])
            BY <4>1, <6>1, <6>2 DEF SnapshotsFit
          <6> QED BY <6>3, <1>1 DEF SnapshotFits, Follows
        <5> QED BY <5>1, <5>2, <1>1 DEF SnapshotFits
      <4>3. DOMAIN live' = {}
        BY <4>2, <1>1
      <4>4. \A i \in DOMAIN snapshots' : SnapshotFits(snapshots[i], << >>)'
        BY <4>2, <1>1 DEF SnapshotFits
      <4>5. \A i, j \in DOMAIN snapshots' : Follows(snapshots'[i], snapshots'[j])
        BY <4>2, <1>1 DEF Follows
      <4>6. SnapshotsFit(<< >>)'
        BY <4>4, <4>5, <2>4, <1>3 DEF SnapshotsFit, Follows
      <4> QED BY <4>3, <4>6 DEF LiveFits
    <3> QED BY <3>7, <3>8, <1>3
  <2> QED BY <2>5, <2>6, <2>7, <1>1, <1>3 DEF ArenaInv
<1> QED BY <1>5, <1>6

\* A rollback within the current chunk moves its allocation point back.
LEMMA RewindKeepsInv ==
  ASSUME ArenaInv, Rollback, Top.chunk # Null, next[Top.chunk] = Null,
         used' = [used EXCEPT ![Top.chunk] = Top.used], UNCHANGED <<listVars, unlinked>>
  PROVE  ArenaInv'
<1> DEFINE n == Len(snapshots)
           c == Top.chunk
<1>1. /\ phase = "open" /\ n \in Nat /\ n > 0 /\ Top = snapshots[n] /\ Top \in SnapshotRecords
      /\ snapshots' \in Seq(SnapshotRecords)
      /\ DOMAIN snapshots = 1..n /\ DOMAIN snapshots' = 1..(n - 1)
      /\ \A i \in 1..(n - 1) : snapshots'[i] = snapshots[i] /\ i \in 1..n
      /\ live' \in Seq(Allocations) /\ Len(live') = Top.kept /\ DOMAIN live' = 1..Top.kept
      /\ \A i \in 1..Top.kept : live'[i] = live[i] /\ i \in DOMAIN live
      /\ snapshotCount' \in Nat /\ KeptFits'
      /\ \A i \in DOMAIN live' : live'[i] \in [chunk : Chunks, from : Nat, to : Nat]
      /\ \A i \in DOMAIN snapshots' :
           snapshots'[i] \in [index : Nat, chunk : Pointer, used : Nat, kept : Nat]
  BY RollbackTruncates
<1>2. TypeOK /\ Owned
  BY <1>1 DEF ArenaInv
<1>3. /\ current' = c /\ total' = total /\ backed' = backed /\ exhausted' = exhausted
      /\ phase' = phase /\ unlinked' = unlinked
      /\ chunkList' = chunkList /\ freeList' = freeList /\ next' = next /\ prev' = prev
  BY DEF Rollback, listVars
<1>4. n \in 1..n /\ backed \subseteq Chunks
  BY <1>1, <1>2 DEF TypeOK
<1>5. c \in backed /\ Top.used <= total[c] /\ Top.used \in Nat /\ Top.kept \in Nat
  BY <1>1, <1>2, <1>4 DEF Owned, SnapshotRecords
<1> HIDE DEF n, c
<1>6. /\ c \in Chunks /\ used' \in [Chunks -> Nat] /\ used'[c] = Top.used
      /\ \A x \in Chunks : x # c => used'[x] = used[x]
  BY <1>2, <1>4, <1>5 DEF TypeOK, c
<1>7. TypeOK'
  <2>1. \A x \in Chunks : used'[x] <= total[x]
    BY <1>2, <1>5, <1>6 DEF TypeOK
  <2>2. current' \in Pointer
    BY <1>3, <1>6 DEF Pointer
  <2> QED BY <2>1, <2>2, <1>1, <1>2, <1>3, <1>6 DEF TypeOK
<1>8. Owned'
  <2>1. \A i \in 1..(n - 1) : snapshots'[i].chunk # Null =>
          snapshots'[i].chunk \in backed /\ snapshots'[i].used <= total[snapshots'[i].chunk]
    BY <1>1, <1>2 DEF Owned
  <2> QED BY <2>1, <1>1, <1>2, <1>3, <1>5 DEF Owned, Within
<1>9. ASSUME ~unlinked'
      PROVE  \E s, f : Listed(s, f)' /\ (~exhausted' => LiveFits(s)' /\ SnapshotsFit(s)')
  <2>1. PICK s, f : Listed(s, f) /\ (~exhausted => LiveFits(s) /\ SnapshotsFit(s))
    BY <1>9, <1>1, <1>3 DEF ArenaInv
  <2>2. Listed(s, f)'
    BY <2>1, <1>3 DEF Listed
  <2>3. ASSUME ~exhausted PROVE LiveFits(s)' /\ SnapshotsFit(s)'
    <3>1. LiveFits(s) /\ SnapshotsFit(s)
      BY <2>1, <2>3
    <3>2. SnapshotFits(Top, s) /\ c \in Members(s)
      BY <3>1, <1>1, <1>4 DEF SnapshotsFit, SnapshotFits, c
    \* The chunk has no successor, so it is the last of the active list.
    <3>3. c = chunkList.last
      <4>1. /\ Len(s) \in Nat /\ (Len(s) > 0 => chunkList.last = s[Len(s)])
            /\ \A k \in 1..Len(s) : s[k] # Null
            /\ \A k \in 1..Len(s) : next[s[k]] = IF k = Len(s) THEN Null ELSE s[k + 1]
        BY <2>1, LinkedFacts DEF Listed
      <4>2. PICK k \in 1..Len(s) : c = s[k]
        BY <3>2 DEF Members
      <4>3. next[c] = Null
        BY DEF c
      <4>4. k # Len(s) => k + 1 \in 1..Len(s)
        BY <4>1
      <4>5. k = Len(s)
        BY <4>1, <4>2, <4>3, <4>4
      <4> QED BY <4>1, <4>2, <4>5
    <3>4. ASSUME NEW i \in 1..Top.kept
          PROVE  live'[i].chunk \in Members(s) /\ live'[i].to <= used'[live'[i].chunk]
      <4>1. live[i].chunk \in Members(s) /\ live[i].to <= used[live[i].chunk]
            /\ live'[i] = live[i] /\ live'[i].chunk \in Chunks
        BY <3>1, <1>1 DEF LiveFits
      <4>2. CASE live[i].chunk = c
        BY <4>1, <4>2, <3>2, <1>6 DEF SnapshotFits, c
      <4>3. CASE live[i].chunk # c
        BY <4>1, <4>3, <1>6
      <4> QED BY <4>2, <4>3
    <3>5. LiveFits(s)'
      <4>1. \A i, j \in DOMAIN live' :
              i < j /\ live'[i].chunk = live'[j].chunk => live'[i].to <= live'[j].from
        BY <3>1, <1>1 DEF LiveFits
      <4> QED BY <4>1, <3>4, <1>1 DEF LiveFits
    <3>6. ASSUME NEW i \in 1..(n - 1) PROVE SnapshotFits(snapshots[i], s)'
      <4> DEFINE u == snapshots[i]
      <4>1. SnapshotFits(u, s) /\ Follows(u, Top) /\ u \in SnapshotRecords /\ snapshots'[i] = u
        <5>1. i \in 1..n /\ i < n
          BY <1>1
        <5>2. snapshots'[i] = snapshots[i] /\ snapshots'[i] \in SnapshotRecords
          BY <1>1
        <5> QED BY <5>1, <5>2, <3>1, <1>1, <1>4 DEF SnapshotsFit
      <4>2. u.kept \in Nat /\ u.kept <= Top.kept
        <5>1. (snapshots'[i]).kept <= Len(live')
          BY <1>1 DEF KeptFits
        <5> QED BY <5>1, <4>1, <1>1 DEF SnapshotRecords
      <4>3. \A k \in 1..u.kept : live'[k] = live[k]
        BY <4>2, <1>1, <1>5
      <4>4. u.chunk # Null => u.chunk \in Members(s) /\ u.chunk \in Chunks /\ u.used <= used[u.chunk]
        BY <4>1 DEF SnapshotFits, SnapshotRecords, Pointer
      <4>5. u.chunk # Null => u.used <= used'[u.chunk]
        BY <4>1, <4>4, <1>6 DEF Follows, c
      <4>6. u.chunk # Null => \A k \in 1..u.kept : live'[k].chunk = u.chunk => live'[k].to <= u.used
        BY <4>1, <4>3 DEF SnapshotFits
      <4>7. u.chunk = Null => u.kept = 0
        BY <4>1 DEF SnapshotFits
      <4>8. snapshots'[i] = u
        BY <4>1
      <4> HIDE DEF u
      <4> QED BY <4>4, <4>5, <4>6, <4>7, <4>8 DEF SnapshotFits
    <3>7. \A i, j \in 1..(n - 1) : i < j => Follows(snapshots'[i], snapshots'[j])
      BY <3>1, <1>1 DEF SnapshotsFit
    <3>8. SnapshotsFit(s)'
      BY <3>3, <3>6, <3>7, <1>1, <1>3 DEF SnapshotsFit, Follows
    <3> QED BY <3>5, <3>8
  <2> QED BY <2>2, <2>3, <1>3
<1> QED BY <1>1, <1>3, <1>7, <1>8, <1>9 DEF ArenaInv

\* A rollback that unlinks chunks at least invents none.
LEMMA TransplantKeepsInv ==
  ASSUME ArenaInv, Rollback, Top.chunk # Null, next[Top.chunk] # Null,
         Transplant(next[Top.chunk]), unlinked' = TRUE,
         used' = [used EXCEPT ![Top.chunk] = Top.used]
  PROVE  ArenaInv'
<1> DEFINE n == Len(snapshots)
           c == Top.chunk
           head == next[c]
           before == prev[head]
           n1 == IF before # Null THEN [next EXCEPT ![before] = Null] ELSE next
           p1 == IF before # Null THEN [prev EXCEPT ![head] = Null] ELSE prev
           last == IF chunkList.last # head THEN chunkList.last ELSE Null
           first == IF chunkList.first # head THEN chunkList.first ELSE Null
           tail == freeList.last
<1>1. /\ phase = "open" /\ n \in Nat /\ n > 0 /\ Top = snapshots[n] /\ Top \in SnapshotRecords
      /\ snapshots' \in Seq(SnapshotRecords)
      /\ DOMAIN snapshots = 1..n /\ DOMAIN snapshots' = 1..(n - 1)
      /\ \A i \in 1..(n - 1) : snapshots'[i] = snapshots[i] /\ i \in 1..n
      /\ live' \in Seq(Allocations)
      /\ snapshotCount' \in Nat /\ KeptFits'
      /\ \A i \in DOMAIN live' : live'[i] \in [chunk : Chunks, from : Nat, to : Nat]
      /\ \A i \in DOMAIN snapshots' :
           snapshots'[i] \in [index : Nat, chunk : Pointer, used : Nat, kept : Nat]
  BY RollbackTruncates
<1>2. TypeOK /\ Owned
  BY <1>1 DEF ArenaInv
<1>3. /\ current' = c /\ total' = total /\ backed' = backed /\ exhausted' = exhausted /\ phase' = phase
  BY DEF Rollback
<1>4. /\ chunkList' = [first |-> first, last |-> last]
      /\ prev' = IF tail # Null THEN [p1 EXCEPT ![head] = tail] ELSE p1
      /\ next' = IF tail # Null THEN [n1 EXCEPT ![tail] = head] ELSE n1
      /\ freeList' = [first |-> IF freeList.first # Null THEN freeList.first ELSE head, last |-> last]
  BY DEF Transplant
<1>5. n \in 1..n /\ backed \subseteq Chunks /\ Null \in Pointer /\ backed \subseteq Pointer
  BY <1>1, <1>2 DEF TypeOK, Pointer
<1>6. /\ Within(next, prev, chunkList, backed) /\ Within(next, prev, freeList, backed)
      /\ next \in [Chunks -> Pointer] /\ prev \in [Chunks -> Pointer]
  BY <1>2 DEF Owned, TypeOK
<1>7. c \in backed /\ Top.used <= total[c] /\ Top.used \in Nat
  BY <1>1, <1>2, <1>5 DEF Owned, SnapshotRecords
<1> HIDE DEF n, c
<1>8. head \in backed
  BY <1>6, <1>7 DEF Within, c
<1> HIDE DEF head
<1>9. before \in backed \cup {Null} /\ tail \in backed \cup {Null}
      /\ last \in backed \cup {Null} /\ first \in backed \cup {Null}
      /\ freeList.first \in backed \cup {Null}
  BY <1>6, <1>8 DEF Within
<1> HIDE DEF before, tail, last, first
<1>10. /\ n1 \in [Chunks -> Pointer] /\ p1 \in [Chunks -> Pointer]
       /\ \A x \in Chunks : n1[x] \in {next[x], Null} /\ p1[x] \in {prev[x], Null}
  BY <1>5, <1>6, <1>8, <1>9
<1> HIDE DEF n1, p1
<1>11. /\ next' \in [Chunks -> Pointer] /\ prev' \in [Chunks -> Pointer]
       /\ \A x \in Chunks : next'[x] \in {n1[x], head} /\ prev'[x] \in {p1[x]} \cup ({tail} \ {Null})
  BY <1>4, <1>5, <1>8, <1>9, <1>10
<1>12. \A x \in backed : next'[x] \in backed \cup {Null} /\ prev'[x] \in backed \cup {Null}
  <2> SUFFICES ASSUME NEW x \in backed
               PROVE  next'[x] \in backed \cup {Null} /\ prev'[x] \in backed \cup {Null}
    OBVIOUS
  <2>1. x \in Chunks /\ next[x] \in backed \cup {Null} /\ prev[x] \in backed \cup {Null}
    BY <1>5, <1>6 DEF Within
  <2>2. n1[x] \in backed \cup {Null} /\ p1[x] \in backed \cup {Null}
    BY <2>1, <1>10
  <2> QED BY <2>1, <2>2, <1>8, <1>9, <1>11
<1>13. /\ chunkList'.first = first /\ chunkList'.last = last /\ freeList'.last = last
       /\ freeList'.first = (IF freeList.first # Null THEN freeList.first ELSE head)
       /\ chunkList' = [first |-> chunkList'.first, last |-> chunkList'.last]
       /\ freeList' = [first |-> freeList'.first, last |-> freeList'.last]
  BY <1>4
<1>14. /\ chunkList'.first \in backed \cup {Null} /\ chunkList'.last \in backed \cup {Null}
       /\ freeList'.first \in backed \cup {Null} /\ freeList'.last \in backed \cup {Null}
  BY <1>8, <1>9, <1>13
<1>15. chunkList' \in [first : Pointer, last : Pointer] /\ freeList' \in [first : Pointer, last : Pointer]
  <2>1. /\ chunkList'.first \in Pointer /\ chunkList'.last \in Pointer
        /\ freeList'.first \in Pointer /\ freeList'.last \in Pointer
    BY <1>5, <1>14
  <2> QED BY <2>1, <1>13
<1>16. /\ used' \in [Chunks -> Nat] /\ used'[c] = Top.used
       /\ \A x \in Chunks : x # c => used'[x] = used[x]
  BY <1>2, <1>5, <1>7 DEF TypeOK, c
<1>17. TypeOK'
  <2>1. \A x \in Chunks : used'[x] <= total[x]
    BY <1>2, <1>7, <1>16 DEF TypeOK
  <2>2. current' \in Pointer
    BY <1>3, <1>5, <1>7
  <2> QED BY <2>1, <2>2, <1>1, <1>2, <1>3, <1>11, <1>15, <1>16 DEF TypeOK
<1>18. Owned'
  <2>1. \A i \in 1..(n - 1) : snapshots'[i].chunk # Null =>
          snapshots'[i].chunk \in backed /\ snapshots'[i].used <= total[snapshots'[i].chunk]
    BY <1>1, <1>2 DEF Owned
  <2> QED BY <2>1, <1>1, <1>3, <1>7, <1>11, <1>12, <1>14 DEF Owned, Within, Links
<1> QED BY <1>1, <1>3, <1>17, <1>18 DEF ArenaInv

\* A rollback, whichever way it ends, keeps the invariant (AmlArenaSnapshotRollback).
LEMMA RollbackKeepsInv ==
  ASSUME ArenaInv, Rollback
  PROVE  ArenaInv'
<1>1. CASE Top.chunk = Null
  <2>1. Reset /\ UNCHANGED <<used, unlinked>>
    BY <1>1 DEF Rollback
  <2> QED BY <1>1, <2>1, ResetKeepsInv
<1>2. CASE Top.chunk # Null
  <2>1. used' = [used EXCEPT ![Top.chunk] = Top.used]
    BY <1>2 DEF Rollback
  <2>2. CASE next[Top.chunk] = Null
    <3>1. UNCHANGED <<listVars, unlinked>>
      BY <1>2, <2>2 DEF Rollback
    <3> QED BY <1>2, <2>1, <2>2, <3>1, RewindKeepsInv
  <2>3. CASE next[Top.chunk] # Null
    <3>1. Transplant(next[Top.chunk]) /\ unlinked' = TRUE
      BY <1>2, <2>3 DEF Rollback
    <3> QED BY <1>2, <2>1, <2>3, <3>1, TransplantKeepsInv
  <2> QED BY <2>2, <2>3
<1> QED BY <1>1, <1>2

\* The release follows both lists, which hold every chunk, and comes to their ends.
LEMMA ReleaseKeepsInv ==
  ASSUME ArenaInv, Release
  PROVE  ArenaInv'
<1>1. /\ phase = "open" /\ chunkList' = Nowhere /\ freeList' = Nowhere /\ current' = Null
      /\ backed' = backed \ (Reach(next, chunkList.first) \cup Reach(next, freeList.first))
      /\ phase' = IF Endless(next, chunkList.first) \/ Endless(next, freeList.first)
                  THEN "looping" ELSE "released"
      /\ live' = << >> /\ snapshots' = << >>
      /\ next' = next /\ prev' = prev /\ used' = used /\ total' = total
      /\ snapshotCount' = snapshotCount /\ unlinked' = unlinked /\ exhausted' = exhausted
  BY DEF Release
<1>2. TypeOK
  BY DEF ArenaInv
<1>3. phase' \in {"looping", "released"} /\ backed' \subseteq Chunks
  BY <1>1, <1>2 DEF TypeOK
<1>4. Nowhere \in [first : Pointer, last : Pointer] /\ Null \in Pointer
  BY DEF Nowhere, Pointer
<1>5. DOMAIN live' = {} /\ DOMAIN snapshots' = {}
  BY <1>1
<1>6. TypeOK'
  BY <1>1, <1>2, <1>3, <1>4, <1>5 DEF TypeOK
<1>7. live' \in Seq(Allocations) /\ snapshots' \in Seq(SnapshotRecords) /\ KeptFits'
  BY <1>1, <1>5 DEF KeptFits
<1>8. ASSUME ~unlinked' PROVE backed' = {} /\ phase' = "released"
  <2>1. PICK s, f : Listed(s, f)
    BY <1>1, <1>8 DEF ArenaInv
  <2>2. next \in Links /\ prev \in Links
    BY <1>2 DEF TypeOK, Links
  <2>3. /\ ~Endless(next, chunkList.first) /\ Reach(next, chunkList.first) = Members(s)
        /\ ~Endless(next, freeList.first) /\ Reach(next, freeList.first) = Members(f)
    BY <2>1, <2>2, LinkedIsWell DEF Listed
  <2> QED BY <2>1, <2>3, <1>1 DEF Listed
<1>9. phase' # "open"
  BY <1>3
<1> QED BY <1>1, <1>6, <1>7, <1>8, <1>9 DEF ArenaInv

\* The arena is sound in all behaviours.
THEOREM ArenaIsSound == Spec => []ArenaInv
<1>1. Init => ArenaInv
  BY InitEstablishesInv
<1>2. ArenaInv /\ [Next]_vars => ArenaInv'
  <2> SUFFICES ASSUME ArenaInv, [Next]_vars PROVE ArenaInv'
    OBVIOUS
  <2>1. ASSUME NEW size \in Sizes,
               Bump(size) \/ BeginReclaimed(size) \/ BeginNew(size) \/ BackendRefuses(size)
        PROVE  ArenaInv'
    BY <2>1, BumpKeepsInv, BeginReclaimedKeepsInv, BeginNewKeepsInv, BackendRefusesKeepsInv
  <2>2. CASE Snapshot
    BY <2>2, SnapshotKeepsInv
  <2>3. CASE Commit \/ OutOfOrder \/ Abandon
    BY <2>3, CommitKeepsInv
  <2>4. CASE Rollback
    BY <2>4, RollbackKeepsInv
  <2>5. CASE Release
    BY <2>5, ReleaseKeepsInv
  <2>6. CASE UNCHANGED vars
    <3>1. /\ chunkList' = chunkList /\ freeList' = freeList /\ next' = next /\ prev' = prev
          /\ used' = used /\ total' = total /\ current' = current /\ snapshotCount' = snapshotCount
          /\ backed' = backed /\ snapshots' = snapshots /\ live' = live
          /\ unlinked' = unlinked /\ exhausted' = exhausted /\ phase' = phase
      BY <2>6 DEF vars, listVars
    <3>2. TypeOK' /\ KeptFits'
      BY <3>1 DEF ArenaInv, TypeOK, KeptFits
    <3>3. phase = "open" => Owned'
      BY <3>1 DEF ArenaInv, Owned, Within
    <3>4. ASSUME phase = "open", ~unlinked
          PROVE  \E s, f : Listed(s, f)' /\ (~exhausted => LiveFits(s)' /\ SnapshotsFit(s)')
      <4>1. PICK s, f : Listed(s, f) /\ (~exhausted => LiveFits(s) /\ SnapshotsFit(s))
        BY <3>4 DEF ArenaInv
      <4>2. Listed(s, f)'
        BY <4>1, <3>1 DEF Listed
      <4>3. ~exhausted => LiveFits(s)' /\ SnapshotsFit(s)'
        BY <4>1, <3>1 DEF LiveFits, SnapshotsFit, SnapshotFits, Follows
      <4> QED BY <4>2, <4>3
    <3> QED BY <3>1, <3>2, <3>3, <3>4 DEF ArenaInv
  <2> QED BY <2>1, <2>2, <2>3, <2>4, <2>5, <2>6 DEF Next, Allocate
<1> QED BY <1>1, <1>2, PTL DEF Spec

\* Until a rollback unlinks chunks and the backend refuses one, allocations that no
\* rollback has invalidated never share memory (AmlArenaAllocate).
THEOREM AllocationsAreAlwaysDisjointAtFirst == Spec => []AllocationsAreDisjointAtFirst
<1>1. ArenaInv => AllocationsAreDisjointAtFirst
  <2> SUFFICES ASSUME ArenaInv, ~unlinked, ~exhausted PROVE AllocationsAreDisjoint
    BY DEF AllocationsAreDisjointAtFirst
  <2>1. TypeOK /\ live \in Seq(Allocations)
    BY DEF ArenaInv
  <2>2. CASE phase # "open"
    <3>1. DOMAIN live = {}
      BY <2>2 DEF ArenaInv
    <3> QED BY <3>1 DEF AllocationsAreDisjoint
  <2>3. CASE phase = "open"
    <3>1. PICK s, f : Listed(s, f) /\ LiveFits(s)
      BY <2>3 DEF ArenaInv
    <3>2. \A i \in DOMAIN live :
            live[i].chunk \in Chunks /\ live[i].from \in Nat /\ live[i].to \in Nat
      BY <2>1 DEF TypeOK
    <3>3. ASSUME NEW i \in DOMAIN live
          PROVE  live[i].chunk \in backed /\ live[i].to <= total[live[i].chunk]
      <4>1. live[i].chunk \in Members(s) /\ live[i].to <= used[live[i].chunk]
        BY <3>1 DEF LiveFits
      <4>2. used[live[i].chunk] \in Nat /\ total[live[i].chunk] \in Nat
            /\ used[live[i].chunk] <= total[live[i].chunk]
        BY <3>2, <2>1 DEF TypeOK
      <4> QED BY <4>1, <4>2, <3>1, <3>2 DEF Listed
    <3>4. ASSUME NEW i \in DOMAIN live, NEW j \in DOMAIN live, i # j
          PROVE  ~Overlap(live[i], live[j])
      <4>1. i \in Nat /\ j \in Nat
        BY <2>1
      <4>2. CASE i < j
        BY <4>2, <3>1, <3>2 DEF LiveFits, Overlap
      <4>3. CASE j < i
        BY <4>3, <3>1, <3>2 DEF LiveFits, Overlap
      <4> QED BY <4>1, <4>2, <4>3, <3>4
    <3> QED BY <3>3, <3>4 DEF AllocationsAreDisjoint
  <2> QED BY <2>2, <2>3
<1> QED BY <1>1, ArenaIsSound, PTL

\* Until a rollback unlinks chunks: the two lists hold every chunk once, the release
\* gives them all back, and snapshots find what they refer to
\* (AmlArenaSnapshotRollback, AmlArenaRelease).
THEOREM ChunksAreAlwaysSoundAtFirst == Spec => []ChunksAreSoundAtFirst
<1>1. ArenaInv => ChunksAreSoundAtFirst
  <2> SUFFICES ASSUME ArenaInv PROVE ChunksAreSoundAtFirst
    OBVIOUS
  <2>1. TypeOK /\ next \in Links /\ prev \in Links
    BY DEF ArenaInv, TypeOK, Links
  <2>2. ChunksAreListedAtFirst
    <3> SUFFICES ASSUME ~unlinked, phase = "open"
                 PROVE  /\ WellLinked(chunkList) /\ WellLinked(freeList)
                        /\ Reach(next, chunkList.first) \cap Reach(next, freeList.first) = {}
                        /\ Reach(next, chunkList.first) \cup Reach(next, freeList.first) = backed
      BY DEF ChunksAreListedAtFirst, ChunksAreListed
    <3>1. PICK s, f : Listed(s, f)
      BY DEF ArenaInv
    <3>2. WellLinked(chunkList) /\ Reach(next, chunkList.first) = Members(s)
      BY <3>1, <2>1, LinkedIsWell DEF Listed, WellLinked
    <3>3. WellLinked(freeList) /\ Reach(next, freeList.first) = Members(f)
      BY <3>1, <2>1, LinkedIsWell DEF Listed, WellLinked
    <3> QED BY <3>1, <3>2, <3>3 DEF Listed
  <2>3. ReleaseFreesAllAtFirst
    BY DEF ArenaInv, ReleaseFreesAllAtFirst, ReleaseFreesAll
  <2>4. SnapshotsStayValid
    <3> SUFFICES ASSUME ~unlinked, ~exhausted, NEW i \in DOMAIN snapshots, snapshots[i].chunk # Null
                 PROVE  /\ snapshots[i].chunk \in Reach(next, chunkList.first)
                        /\ snapshots[i].used <= used[snapshots[i].chunk]
      BY DEF SnapshotsStayValid
    <3>1. phase = "open"
      <4>1. snapshots = << >> => DOMAIN snapshots = {}
        OBVIOUS
      <4> QED BY <4>1 DEF ArenaInv
    <3>2. PICK s, f : Listed(s, f) /\ SnapshotsFit(s)
      BY <3>1 DEF ArenaInv
    <3>3. Reach(next, chunkList.first) = Members(s)
      BY <3>2, <2>1, LinkedIsWell DEF Listed
    <3> QED BY <3>2, <3>3 DEF SnapshotsFit, SnapshotFits
  <2> QED BY <2>1, <2>2, <2>3, <2>4 DEF ChunksAreSoundAtFirst
<1> QED BY <1>1, ArenaIsSound, PTL
=============================================================================
