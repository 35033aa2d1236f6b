----------------------------- MODULE FieldsProofs ----------------------------
(***************************************************************************)
(* The global lock is held as often as an operation still releases it, and *)
(* from the selection of a cell to its access, and a completed read yields *)
(* the bits of the field, for any field units, data and lengths.           *)
(*                                                                         *)
(* An operation is a sequence of steps made once, when it begins. What the *)
(* steps promise is proved of the sequence: the depth to which the lock is *)
(* held after each of its prefixes, and for a read the number of bits that *)
(* have been read after each.                                              *)
(***************************************************************************)
EXTENDS Fields, Lemmas

-----------------------------------------------------------------------------
(* Steps, and how deep they hold the lock. *)

Widths == {FieldOf[f].acc * CharBit : f \in Names}

\* The words of a field: whole characters, with the bits of the field inside.
WordRecords ==
  {w \in [at : Nat, width : Nat, offset : Nat, count : Nat, i : Nat] :
     /\ w.width \in Widths /\ w.offset + w.count <= w.width
     /\ \E a, c \in Nat : w.at = a * CharBit /\ w.width = c * CharBit}

Plain == [do : {"lock", "unlock", "refuse", "bufferread"}]
Accesses == [do : {"read", "load"}, word : WordRecords]
Stores == [do : {"store"}, word : WordRecords, rule : {"preserve", "ones", "zeros"},
           data : Seq(Bits)]
BufferStores == [do : {"bufferwrite"}, data : Seq(Bits)]
Steps == Plain \cup Accesses \cup Stores \cup BufferStores

\* A word is read before it is written for the store that follows.
Paired(s) ==
  \A i \in 1..Len(s) : s[i].do = "load" =>
    i < Len(s) /\ s[i + 1].do = "store" /\ s[i + 1].word = s[i].word

Change(step) == IF step.do = "lock" THEN 1 ELSE IF step.do = "unlock" THEN -1 ELSE 0

\* h[i] is how often the lock is held when i of the steps are done.
Depths(h, s, top) ==
  /\ h \in [0..Len(s) -> 0..top]
  /\ \A i \in 1..Len(s) : h[i] = h[i - 1] + Change(s[i])

\* Wherever a prefix ends, the lock is held if the next access is to the window.
Shielded(s, h) ==
  \A j \in 0..Len(s), i \in 1..Len(s) :
    j < i /\ Opens(s[i]) /\ (\A k \in (j + 1)..(i - 1) : ForLock(s[k])) => h[j] >= 1

\* Steps that take the lock and release it again, at most so deep.
Runs(s, top, shield, h) ==
  Depths(h, s, top) /\ h[0] = 0 /\ h[Len(s)] = 0 /\ (shield => Shielded(s, h))
Programs(top, shield) ==
  {s \in Seq(Steps) : Paired(s) /\ \E h : Runs(s, top, shield, h)}

\* Nothing is a program.
LEMMA EmptyProgram ==
  ASSUME NEW top \in Nat, NEW shield \in BOOLEAN
  PROVE  <<>> \in Programs(top, shield)
<1> DEFINE h == [i \in 0..0 |-> 0]
<1>1. <<>> \in Seq(Steps) /\ Len(<<>>) = 0 /\ 1..0 = {}
  OBVIOUS
<1>2. h \in [0..0 -> 0..top] /\ h[0] = 0
  OBVIOUS
<1> HIDE DEF h
<1>3. Runs(<<>>, top, shield, h)
  BY <1>1, <1>2 DEF Runs, Depths, Shielded
<1>4. Paired(<<>>)
  BY <1>1 DEF Paired
<1> QED BY <1>1, <1>3, <1>4 DEF Programs

\* A program that goes less deep, or is shielded, is a program.
LEMMA ProgramWeaker ==
  ASSUME NEW a \in Nat, NEW b \in Nat, a <= b, NEW shield \in BOOLEAN, NEW s \in Programs(a, shield)
  PROVE  s \in Programs(b, shield) /\ s \in Programs(b, FALSE)
<1>1. PICK h : Runs(s, a, shield, h)
  BY DEF Programs
<1>2. Runs(s, b, shield, h) /\ Runs(s, b, FALSE, h)
  <2>1. h \in [0..Len(s) -> 0..b]
    BY <1>1 DEF Runs, Depths
  <2> QED BY <1>1, <2>1 DEF Runs, Depths
<1> QED BY <1>2 DEF Programs

\* A program that needs no shield may begin at a greater depth.
LEMMA PlainProgram ==
  ASSUME NEW a \in Nat, NEW b \in Nat, a <= b, NEW s \in Programs(a, FALSE)
  PROVE  s \in Programs(b, FALSE)
<1>1. PICK shield \in BOOLEAN : shield = FALSE
  OBVIOUS
<1>2. s \in Programs(a, shield)
  BY <1>1
<1>3. s \in Programs(b, shield)
  BY <1>2, ProgramWeaker
<1> QED BY <1>1, <1>3

\* The elements of a concatenation.
LEMMA Concatenated ==
  ASSUME NEW A, NEW s \in Seq(A), NEW t \in Seq(A)
  PROVE  /\ s \o t \in Seq(A) /\ Len(s \o t) = Len(s) + Len(t)
         /\ Len(s) \in Nat /\ Len(t) \in Nat
         /\ \A i \in 1..Len(s) : (s \o t)[i] = s[i]
         /\ \A i \in 1..Len(t) : (s \o t)[Len(s) + i] = t[i]
         /\ \A i \in 1..Len(s \o t) : i \in 1..Len(s) \/ \E k \in 1..Len(t) : i = Len(s) + k
<1>1. /\ s \o t \in Seq(A) /\ Len(s \o t) = Len(s) + Len(t)
      /\ Len(s) \in Nat /\ Len(t) \in Nat
      /\ \A i \in 1..(Len(s) + Len(t)) :
           (s \o t)[i] = IF i <= Len(s) THEN s[i] ELSE t[i - Len(s)]
  BY ConcatProperties
<1>2. ASSUME NEW i \in 1..Len(t) PROVE (s \o t)[Len(s) + i] = t[i]
  <2>1. Len(s) + i \in 1..(Len(s) + Len(t)) /\ ~(Len(s) + i <= Len(s)) /\ Len(s) + i - Len(s) = i
    BY <1>1
  <2> QED BY <1>1, <2>1
<1>3. ASSUME NEW i \in 1..Len(s \o t), i \notin 1..Len(s)
      PROVE  \E k \in 1..Len(t) : i = Len(s) + k
  <2>1. i - Len(s) \in 1..Len(t) /\ i = Len(s) + (i - Len(s))
    BY <1>1, <1>3
  <2> QED BY <2>1
<1> QED BY <1>1, <1>2, <1>3

\* One program after another.
LEMMA ProgramsConcatenate ==
  ASSUME NEW top \in Nat, NEW shield \in BOOLEAN,
         NEW s \in Programs(top, shield), NEW t \in Programs(top, shield)
  PROVE  s \o t \in Programs(top, shield)
<1> DEFINE u == s \o t
<1>1. s \in Seq(Steps) /\ t \in Seq(Steps) /\ Paired(s) /\ Paired(t)
  BY DEF Programs
<1>2. PICK g : Runs(s, top, shield, g)
  BY DEF Programs
<1>3. PICK h : Runs(t, top, shield, h)
  BY DEF Programs
<1> DEFINE d == [i \in 0..(Len(s) + Len(t)) |-> IF i <= Len(s) THEN g[i] ELSE h[i - Len(s)]]
<1>4. /\ u \in Seq(Steps) /\ Len(u) = Len(s) + Len(t) /\ Len(s) \in Nat /\ Len(t) \in Nat
      /\ \A i \in 1..Len(s) : u[i] = s[i]
      /\ \A i \in 1..Len(t) : u[Len(s) + i] = t[i]
      /\ \A i \in 1..Len(u) : i \in 1..Len(s) \/ \E k \in 1..Len(t) : i = Len(s) + k
  BY <1>1, Concatenated
<1>5. /\ g \in [0..Len(s) -> 0..top] /\ g[0] = 0 /\ g[Len(s)] = 0
      /\ \A i \in 1..Len(s) : g[i] = g[i - 1] + Change(s[i])
  BY <1>2 DEF Runs, Depths
<1>6. /\ h \in [0..Len(t) -> 0..top] /\ h[0] = 0 /\ h[Len(t)] = 0
      /\ \A i \in 1..Len(t) : h[i] = h[i - 1] + Change(t[i])
  BY <1>3 DEF Runs, Depths
<1> HIDE DEF u
<1>7. /\ d \in [0..Len(u) -> 0..top]
      /\ \A i \in 0..Len(s) : d[i] = g[i]
      /\ \A i \in 0..Len(t) : d[Len(s) + i] = h[i]
  <2>1. ASSUME NEW i \in 0..Len(u) PROVE d[i] \in 0..top
    <3>1. CASE i <= Len(s)
      <4>1. i \in 0..Len(s) /\ d[i] = g[i]
        BY <3>1, <1>4
      <4> QED BY <4>1, <1>5
    <3>2. CASE ~(i <= Len(s))
      <4>1. i - Len(s) \in 0..Len(t)
        BY <3>2, <1>4
      <4> QED BY <4>1, <3>2, <1>4, <1>6
    <3> QED BY <3>1, <3>2
  <2>2. \A i \in 0..Len(s) : d[i] = g[i]
    BY <1>4
  <2>3. ASSUME NEW i \in 0..Len(t) PROVE d[Len(s) + i] = h[i]
    <3>1. CASE i = 0
      BY <3>1, <1>4, <1>5, <1>6
    <3>2. CASE i # 0
      <4>1. Len(s) + i \in 0..(Len(s) + Len(t)) /\ ~(Len(s) + i <= Len(s)) /\ Len(s) + i - Len(s) = i
        BY <3>2, <1>4
      <4> QED BY <4>1
    <3> QED BY <3>1, <3>2
  <2> QED BY <2>1, <2>2, <2>3, <1>4
<1> HIDE DEF d
<1>8. ASSUME NEW i \in 1..Len(u) PROVE d[i] = d[i - 1] + Change(u[i])
  <2>1. CASE i \in 1..Len(s)
    <3>1. d[i] = g[i] /\ d[i - 1] = g[i - 1] /\ u[i] = s[i]
      BY <2>1, <1>4, <1>7
    <3> QED BY <3>1, <2>1, <1>5
  <2>2. ASSUME NEW k \in 1..Len(t), i = Len(s) + k PROVE d[i] = d[i - 1] + Change(u[i])
    <3>1. k - 1 \in 0..Len(t) /\ k \in 0..Len(t) /\ i - 1 = Len(s) + (k - 1)
      BY <2>2, <1>4
    <3>2. d[i] = h[k] /\ d[i - 1] = h[k - 1] /\ u[i] = t[k]
      BY <3>1, <2>2, <1>4, <1>7
    <3> QED BY <3>2, <1>6
  <2> QED BY <2>1, <2>2, <1>4
<1>9. d[0] = 0 /\ d[Len(u)] = 0
  <2>1. 0 \in 0..Len(s) /\ Len(t) \in 0..Len(t)
    BY <1>4
  <2> QED BY <2>1, <1>4, <1>5, <1>6, <1>7
<1>10. ASSUME shield PROVE Shielded(u, d)
  <2> SUFFICES ASSUME NEW j \in 0..Len(u), NEW i \in 1..Len(u), j < i, Opens(u[i]),
                      \A k \in (j + 1)..(i - 1) : ForLock(u[k])
               PROVE  d[j] >= 1
    BY DEF Shielded
  <2>1. Shielded(s, g) /\ Shielded(t, h)
    BY <1>2, <1>3, <1>10 DEF Runs
  <2>2. CASE i \in 1..Len(s)
    <3>1. j \in 0..Len(s) /\ d[j] = g[j] /\ u[i] = s[i]
      BY <2>2, <1>4, <1>7
    <3>2. \A k \in (j + 1)..(i - 1) : u[k] = s[k]
      BY <3>1, <2>2, <1>4, SMTT(60)
    <3>3. Opens(s[i]) /\ \A k \in (j + 1)..(i - 1) : ForLock(s[k])
      BY <3>1, <3>2
    <3> QED BY <3>1, <3>3, <2>1, <2>2 DEF Shielded
  <2>3. ASSUME NEW m \in 1..Len(t), i = Len(s) + m PROVE d[j] >= 1
    <3>1. u[i] = t[m]
      BY <2>3, <1>4
    <3>2. CASE j <= Len(s)
      <4>1. ASSUME NEW k \in 1..(m - 1) PROVE ForLock(t[k])
        <5>1. k \in 1..Len(t) /\ Len(s) + k \in (j + 1)..(i - 1) /\ u[Len(s) + k] = t[k]
          BY <3>2, <2>3, <1>4
        <5> QED BY <5>1
      <4>2. 0 \in 0..Len(t) /\ 0 < m /\ (0 + 1)..(m - 1) = 1..(m - 1)
        BY <1>4
      <4>3. h[0] >= 1
        BY <4>1, <4>2, <3>1, <2>1 DEF Shielded
      <4> QED BY <4>3, <1>6
    <3>3. CASE ~(j <= Len(s))
      <4>1. j \in Nat /\ j > Len(s) /\ j < Len(s) + m
        BY <3>3, <2>3, <1>4
      <4>2. j - Len(s) \in 0..Len(t) /\ j - Len(s) < m /\ j = Len(s) + (j - Len(s))
        BY <4>1, <1>4
      <4>3. PICK n \in 0..Len(t) : n < m /\ j = Len(s) + n
        BY <4>2
      <4>4. ASSUME NEW k \in (n + 1)..(m - 1) PROVE ForLock(t[k])
        <5>1. k \in 1..Len(t) /\ Len(s) + k \in (j + 1)..(i - 1) /\ u[Len(s) + k] = t[k]
          BY <4>3, <2>3, <1>4
        <5> QED BY <5>1
      <4>5. h[n] >= 1
        BY <4>3, <4>4, <3>1, <2>1 DEF Shielded
      <4> QED BY <4>3, <4>5, <1>7
    <3> QED BY <3>2, <3>3
  <2> QED BY <2>2, <2>3, <1>4
<1>11. Paired(u)
  <2> SUFFICES ASSUME NEW i \in 1..Len(u), u[i].do = "load"
               PROVE  i < Len(u) /\ u[i + 1].do = "store" /\ u[i + 1].word = u[i].word
    BY DEF Paired
  <2>1. CASE i \in 1..Len(s)
    <3>1. i < Len(s) /\ s[i + 1].do = "store" /\ s[i + 1].word = s[i].word
      BY <2>1, <1>1, <1>4 DEF Paired
    <3>2. i + 1 \in 1..Len(s)
      BY <3>1, <2>1, <1>4
    <3> QED BY <3>1, <3>2, <2>1, <1>4
  <2>2. ASSUME NEW k \in 1..Len(t), i = Len(s) + k
        PROVE  i < Len(u) /\ u[i + 1].do = "store" /\ u[i + 1].word = u[i].word
    <3>1. k < Len(t) /\ t[k + 1].do = "store" /\ t[k + 1].word = t[k].word
      BY <2>2, <1>1, <1>4 DEF Paired
    <3>2. k + 1 \in 1..Len(t) /\ i + 1 = Len(s) + (k + 1)
      BY <3>1, <2>2, <1>4
    <3>3. u[i] = t[k] /\ u[i + 1] = t[k + 1]
      BY <3>2, <2>2, <1>4
    <3> QED BY <3>1, <3>3, <2>2, <1>4
  <2> QED BY <2>1, <2>2, <1>4
<1>12. Runs(u, top, shield, d)
  BY <1>7, <1>8, <1>9, <1>10 DEF Runs, Depths
<1>13. u \in Programs(top, shield)
  BY <1>4, <1>11, <1>12 DEF Programs
<1> QED BY <1>13 DEF u

-----------------------------------------------------------------------------
(* Recursive definitions. *)

\* The values that begin with a and are continued by a step of the index.
Indexed(g, N, D, a, step) ==
  g \in [0..N -> D] /\ g[0] = a /\ \A i \in 1..N : g[i] = step[<<i, g[i - 1]>>]

\* There are such values.
LEMMA IndexedRecursion ==
  ASSUME NEW D, NEW a \in D, NEW N \in Nat, NEW step \in [(1..N) \X D -> D]
  PROVE  \E g : Indexed(g, N, D, a, step)
<1> DEFINE S == {n \in Nat : n <= N => \E g : Indexed(g, n, D, a, step)}
<1>1. 0 \in S
  <2> DEFINE g == [i \in 0..0 |-> a]
  <2>1. g \in [0..0 -> D] /\ g[0] = a /\ 1..0 = {}
    OBVIOUS
  <2>2. Indexed(g, 0, D, a, step)
    BY <2>1 DEF Indexed
  <2> QED BY <2>2
<1>2. ASSUME NEW n \in Nat, n \in S PROVE n + 1 \in S
  <2> SUFFICES ASSUME n + 1 <= N PROVE \E g : Indexed(g, n + 1, D, a, step)
    OBVIOUS
  <2>1. PICK g : g \in [0..n -> D] /\ g[0] = a /\ \A i \in 1..n : g[i] = step[<<i, g[i - 1]>>]
    BY <1>2 DEF Indexed
  <2> DEFINE h == [i \in 0..(n + 1) |-> IF i = n + 1 THEN step[<<n + 1, g[n]>>] ELSE g[i]]
  <2>2. n + 1 \in 1..N /\ g[n] \in D /\ step[<<n + 1, g[n]>>] \in D
    <3>1. n + 1 \in 1..N /\ n \in 0..n
      OBVIOUS
    <3>2. g[n] \in D
      BY <2>1, <3>1
    <3>3. <<n + 1, g[n]>> \in (1..N) \X D
      BY <3>1, <3>2
    <3> QED BY <3>1, <3>2, <3>3
  <2>3. h \in [0..(n + 1) -> D] /\ h[0] = a
    BY <2>1, <2>2
  <2>4. ASSUME NEW i \in 1..(n + 1) PROVE h[i] = step[<<i, h[i - 1]>>]
    <3>1. CASE i = n + 1
      <4>1. i \in 0..(n + 1) /\ i - 1 \in 0..(n + 1) /\ i - 1 = n /\ n # n + 1
        BY <3>1
      <4>2. h[i] = step[<<n + 1, g[n]>>] /\ h[i - 1] = g[n]
        BY <4>1, <3>1
      <4> QED BY <4>2, <3>1
    <3>2. CASE i \in 1..n
      <4>1. i \in 0..(n + 1) /\ i - 1 \in 0..(n + 1) /\ i # n + 1 /\ i - 1 # n + 1
        BY <3>2
      <4>2. h[i] = g[i] /\ h[i - 1] = g[i - 1]
        BY <4>1
      <4> QED BY <4>2, <3>2, <2>1
    <3> QED BY <3>1, <3>2
  <2> HIDE DEF h
  <2>5. Indexed(h, n + 1, D, a, step)
    BY <2>3, <2>4 DEF Indexed
  <2> QED BY <2>5
<1> HIDE DEF S
<1>3. N \in S
  BY <1>1, <1>2, SetInduction
<1> QED BY <1>3 DEF S

\* h[i] is the concatenation of the first i sequences.
Joined(h, S, ss) ==
  /\ h \in [1..Len(ss) -> S] /\ h[1] = ss[1]
  /\ \A x \in 2..Len(ss) : h[x] = h[x - 1] \o ss[x]

\* A sequence of sequences is concatenated from its beginning.
LEMMA FlattenedSteps ==
  ASSUME NEW A, NEW S \in SUBSET Seq(A), \A s, t \in S : s \o t \in S,
         NEW ss \in Seq(S), ss # <<>>
  PROVE  \E h : Joined(h, S, ss) /\ FlattenSeq(ss) = h[Len(ss)]
<1>1. PICK M \in Nat : Len(ss) = M + 1
  <2>1. Len(ss) \in Nat \ {0}
    BY EmptySeq, LenProperties
  <2>2. Len(ss) - 1 \in Nat /\ Len(ss) = Len(ss) - 1 + 1
    BY <2>1
  <2> QED BY <2>2
<1> DEFINE Follow(k) == k = [i \in 1..(M + 1) |-> IF i = 1 THEN ss[i] ELSE k[i - 1] \o ss[i]]
           h == CHOOSE k : Follow(k)
           rest == [x \in (1..M) \X S |-> x[2] \o ss[x[1] + 1]]
<1>2. \A i \in 1..(M + 1) : ss[i] \in S
  BY <1>1, ElementOfSeq
<1>3. FlattenSeq(ss) = h[M + 1]
  BY <1>1 DEF FlattenSeq
<1>4. rest \in [(1..M) \X S -> S] /\ \A i \in 1..M, s \in S : rest[<<i, s>>] = s \o ss[i + 1]
  <2>1. ASSUME NEW x \in (1..M) \X S PROVE x[2] \o ss[x[1] + 1] \in S
    <3>1. x[2] \in S /\ x[1] + 1 \in 1..(M + 1)
      OBVIOUS
    <3> QED BY <3>1, <1>2
  <2> QED BY <2>1
<1> HIDE DEF rest
<1>5. ss[1] \in S
  BY <1>2
<1>6. PICK g : /\ g \in [0..M -> S] /\ g[0] = ss[1]
               /\ \A i \in 1..M : g[i] = rest[<<i, g[i - 1]>>]
  <2>1. \E g : Indexed(g, M, S, ss[1], rest)
    BY <1>4, <1>5, IndexedRecursion
  <2> QED BY <2>1 DEF Indexed
<1> DEFINE k == [i \in 1..(M + 1) |-> g[i - 1]]
<1>7. \A i \in 1..(M + 1) : i - 1 \in 0..M /\ k[i] = g[i - 1]
  OBVIOUS
<1>8. k = [i \in 1..(M + 1) |-> IF i = 1 THEN ss[i] ELSE k[i - 1] \o ss[i]]
  <2>1. ASSUME NEW i \in 1..(M + 1), i # 1 PROVE k[i] = k[i - 1] \o ss[i]
    <3>1. i - 1 \in 1..M /\ i - 1 \in 1..(M + 1) /\ i - 1 - 1 \in 0..M /\ i - 1 + 1 = i
      BY <2>1
    <3>2. k[i] = g[i - 1] /\ k[i - 1] = g[i - 1 - 1] /\ g[i - 1 - 1] \in S
      BY <3>1, <1>6, <1>7
    <3>3. g[i - 1] = rest[<<i - 1, g[i - 1 - 1]>>]
      BY <3>1, <1>6
    <3>4. g[i - 1] = g[i - 1 - 1] \o ss[i - 1 + 1]
      BY <3>1, <3>2, <3>3, <1>4
    <3> QED BY <3>1, <3>2, <3>4
  <2>2. k[1] = ss[1]
    <3>1. 1 \in 1..(M + 1) /\ 1 - 1 = 0
      OBVIOUS
    <3> QED BY <3>1, <1>6, <1>7
  <2>3. \A i \in 1..(M + 1) : k[i] = IF i = 1 THEN ss[i] ELSE k[i - 1] \o ss[i]
    BY <2>1, <2>2
  <2>4. k = [i \in 1..(M + 1) |-> k[i]]
    OBVIOUS
  <2> HIDE DEF k
  <2> QED BY <2>3, <2>4
<1>9. Follow(k)
  BY <1>8
<1> HIDE DEF k
<1>10. Follow(h)
  BY <1>9
<1> HIDE DEF h
<1>11. /\ h[1] = ss[1]
       /\ \A i \in 1..(M + 1) : i # 1 => h[i] = h[i - 1] \o ss[i]
  <2>1. h = [i \in 1..(M + 1) |-> IF i = 1 THEN ss[i] ELSE h[i - 1] \o ss[i]]
    BY <1>10
  <2>2. \A i \in 1..(M + 1) : h[i] = IF i = 1 THEN ss[i] ELSE h[i - 1] \o ss[i]
    BY <2>1
  <2>3. 1 \in 1..(M + 1)
    OBVIOUS
  <2> QED BY <2>2, <2>3
<1>12. DOMAIN h = 1..(M + 1) /\ h = [x \in 1..(M + 1) |-> h[x]]
  BY <1>10
<1> HIDE DEF Follow
<1> DEFINE D == {n \in Nat : n + 1 \in 1..(M + 1) => h[n + 1] \in S}
<1>13. 0 \in D
  BY <1>5, <1>11
<1>14. ASSUME NEW n \in Nat, n \in D PROVE n + 1 \in D
  <2> SUFFICES ASSUME n + 1 + 1 \in 1..(M + 1) PROVE h[n + 1 + 1] \in S
    OBVIOUS
  <2>1. PICK i \in 1..(M + 1) : i = n + 1 + 1 /\ i # 1 /\ i - 1 = n + 1
    OBVIOUS
  <2>2. h[i] = h[i - 1] \o ss[i]
    BY ONLY <2>1, <1>11
  <2>3. i - 1 \in 1..(M + 1)
    BY <2>1
  <2>4. h[i - 1] \in S /\ ss[i] \in S
    BY <2>1, <2>3, <1>2, <1>14
  <2> QED BY <2>1, <2>2, <2>4
<1> HIDE DEF D
<1>15. ASSUME NEW x \in 1..(M + 1) PROVE h[x] \in S
  <2>1. PICK n \in Nat : n + 1 = x
    <3>1. x - 1 \in Nat /\ x - 1 + 1 = x
      OBVIOUS
    <3> QED BY <3>1
  <2>2. n \in D
    <3>1. PICK E : E = D /\ 0 \in E /\ \A y \in Nat : y \in E => y + 1 \in E
      BY <1>13, <1>14
    <3>2. n \in E
      BY <3>1, SetInduction
    <3> QED BY <3>1, <3>2
  <2> QED BY <2>1, <2>2 DEF D
<1>16. h \in [1..(M + 1) -> S]
  BY <1>15, <1>12
<1>17. \A x \in 2..(M + 1) : h[x] = h[x - 1] \o ss[x]
  <2>1. \A x \in 2..(M + 1) : x \in 1..(M + 1) /\ x # 1
    OBVIOUS
  <2> QED BY <2>1, <1>11
<1>18. Joined(h, S, ss)
  BY <1>1, <1>11, <1>16, <1>17 DEF Joined
<1> QED BY <1>1, <1>3, <1>18

\* What is closed under concatenation has the concatenation of a sequence of it.
LEMMA Flattened ==
  ASSUME NEW A, NEW S \in SUBSET Seq(A), \A s, t \in S : s \o t \in S,
         NEW ss \in Seq(S), ss # <<>>
  PROVE  FlattenSeq(ss) \in S
<1>1. PICK h : h \in [1..Len(ss) -> S] /\ FlattenSeq(ss) = h[Len(ss)]
  BY FlattenedSteps DEF Joined
<1>2. Len(ss) \in 1..Len(ss)
  BY EmptySeq, LenProperties
<1> QED BY <1>1, <1>2

\* Also if there is none.
LEMMA ProgramsFlatten ==
  ASSUME NEW top \in Nat, NEW shield \in BOOLEAN, NEW ss \in Seq(Programs(top, shield))
  PROVE  FlattenSeq(ss) \in Programs(top, shield)
<1>1. CASE ss = <<>>
  <2>1. FlattenSeq(ss) = <<>>
    BY <1>1, EmptySeq DEF FlattenSeq
  <2> QED BY <2>1, EmptyProgram
<1>2. CASE ss # <<>>
  <2>1. Programs(top, shield) \in SUBSET Seq(Steps)
    BY DEF Programs
  <2>2. \A s, t \in Programs(top, shield) : s \o t \in Programs(top, shield)
    BY ProgramsConcatenate
  <2> QED BY <1>2, <2>1, <2>2, Flattened
<1> QED BY <1>1, <1>2

-----------------------------------------------------------------------------
(* Programs without locks, and within one. *)

\* Steps of which none is a lock or needs another one after it.
LEMMA FlatProgram ==
  ASSUME NEW s \in Seq(Steps), \A i \in 1..Len(s) : ~ForLock(s[i]) /\ s[i].do # "load"
  PROVE  s \in Programs(0, FALSE)
<1> DEFINE h == [i \in 0..Len(s) |-> 0]
<1>1. \A i \in 1..Len(s) : Change(s[i]) = 0
  BY DEF Change, ForLock
<1>2. h \in [0..Len(s) -> 0..0] /\ \A i \in 0..Len(s) : h[i] = 0
  OBVIOUS
<1>3. \A i \in 1..Len(s) : i \in 0..Len(s) /\ i - 1 \in 0..Len(s)
  OBVIOUS
<1>4. Len(s) \in 0..Len(s) /\ 0 \in 0..Len(s)
  OBVIOUS
<1> HIDE DEF h
<1>5. Runs(s, 0, FALSE, h)
  BY <1>1, <1>2, <1>3, <1>4 DEF Runs, Depths
<1>6. Paired(s)
  BY DEF Paired
<1> QED BY <1>5, <1>6 DEF Programs

\* One such step.
LEMMA OneStep ==
  ASSUME NEW step \in Steps, ~ForLock(step), step.do # "load"
  PROVE  <<step>> \in Programs(0, FALSE)
<1>1. <<step>> \in Seq(Steps) /\ Len(<<step>>) = 1 /\ <<step>>[1] = step
  OBVIOUS
<1>2. \A i \in 1..1 : i = 1
  OBVIOUS
<1> QED BY <1>1, <1>2, FlatProgram

\* A word that is read for the store that follows.
LEMMA LoadAndStore ==
  ASSUME NEW s \in Seq(Steps), Len(s) = 2,
         s[1].do = "load", s[2].do = "store", s[1].word = s[2].word
  PROVE  s \in Programs(0, FALSE)
<1> DEFINE h == [i \in 0..2 |-> 0]
<1>1. h \in [0..2 -> 0..0] /\ \A i \in 0..2 : h[i] = 0
  OBVIOUS
<1> HIDE DEF h
<1>2. \A i \in 1..2 : (i = 1 \/ i = 2) /\ i - 1 \in 0..2 /\ i \in 0..2
  OBVIOUS
<1>3. \A i \in 1..2 : Change(s[i]) = 0
  BY <1>2 DEF Change
<1>4. Runs(s, 0, FALSE, h)
  BY <1>1, <1>2, <1>3 DEF Runs, Depths
<1>5. Paired(s)
  BY <1>2 DEF Paired
<1> QED BY <1>4, <1>5 DEF Programs

\* The first access is not to the window.
Covers(s) ==
  \E i \in 1..Len(s) : ~ForLock(s[i]) /\ \A k \in 1..i : ~Opens(s[k])

\* Within a lock, the depth is greater by one.
Deepened(h, g, s, u, deeper) ==
  /\ u \in Seq(Steps) /\ Len(u) = Len(s) + 2
  /\ u[1].do = "lock" /\ u[Len(s) + 2].do = "unlock" /\ \A i \in 1..Len(s) : u[i + 1] = s[i]
  /\ Depths(h, u, deeper) /\ h[0] = 0 /\ h[Len(s) + 2] = 0
  /\ \A i \in 0..Len(s) : h[i + 1] = g[i] + 1

\* Acquiring and releasing the lock around steps makes them one deeper.
LEMMA LockDeepens ==
  ASSUME NEW top \in Nat, NEW deeper \in Nat, deeper = top + 1,
         NEW s \in Seq(Steps), NEW g, Runs(s, top, FALSE, g), NEW r, r.lock
  PROVE  \E h : Deepened(h, g, s, Locked(r, s), deeper)
<1> DEFINE lock == [do |-> "lock"]
           unlock == [do |-> "unlock"]
           t == <<lock>> \o s
           u == t \o <<unlock>>
           n == Len(s)
<1>1. Locked(r, s) = u
  BY DEF Locked
<1>2. s \in Seq(Steps) /\ n \in Nat
  OBVIOUS
<1>4. /\ g \in [0..n -> 0..top] /\ g[0] = 0 /\ g[n] = 0
      /\ \A i \in 1..n : g[i] = g[i - 1] + Change(s[i])
  BY DEF Runs, Depths
<1>5. /\ <<lock>> \in Seq(Steps) /\ Len(<<lock>>) = 1 /\ <<lock>>[1] = lock
      /\ <<unlock>> \in Seq(Steps) /\ Len(<<unlock>>) = 1 /\ <<unlock>>[1] = unlock
  <2>1. lock \in Steps /\ unlock \in Steps
    BY DEF Steps, Plain
  <2> HIDE DEF lock, unlock
  <2> QED BY <2>1
<1>6. Change(lock) = 1 /\ Change(unlock) = -1
  BY DEF Change
<1>7. lock.do = "lock" /\ unlock.do = "unlock"
  OBVIOUS
<1> HIDE DEF lock, unlock
<1>8. t \in Seq(Steps) /\ Len(t) = n + 1 /\ t[1] = lock /\ \A i \in 1..n : t[i + 1] = s[i]
  <2>1. /\ t \in Seq(Steps) /\ Len(t) = 1 + n
        /\ \A i \in 1..1 : t[i] = <<lock>>[i]
        /\ \A i \in 1..n : t[1 + i] = s[i]
    BY <1>2, <1>5, Concatenated
  <2>2. \A i \in 1..n : 1 + i = i + 1
    BY <1>2
  <2> QED BY <2>1, <2>2, <1>2, <1>5
<1> HIDE DEF t
<1>9. /\ u \in Seq(Steps) /\ Len(u) = n + 2 /\ u[1] = lock /\ u[n + 2] = unlock
      /\ \A i \in 1..n : u[i + 1] = s[i]
  <2>1. /\ u \in Seq(Steps) /\ Len(u) = n + 1 + 1
        /\ \A i \in 1..(n + 1) : u[i] = t[i]
        /\ \A i \in 1..1 : u[n + 1 + i] = <<unlock>>[i]
    BY <1>2, <1>5, <1>8, Concatenated
  <2>2. u[n + 1 + 1] = unlock /\ n + 1 + 1 = n + 2
    BY <2>1, <1>2, <1>5
  <2>3. ASSUME NEW i \in 1..n PROVE u[i + 1] = s[i]
    <3>1. i + 1 \in 1..(n + 1)
      BY <1>2
    <3> QED BY <3>1, <2>1, <1>8
  <2>4. 1 \in 1..(n + 1)
    BY <1>2
  <2> QED BY <2>1, <2>2, <2>3, <2>4, <1>2, <1>8
<1> HIDE DEF u
<1>10. \A i \in 1..(n + 2) : i = 1 \/ i = n + 2 \/ \E k \in 1..n : i = k + 1
  <2>1. ASSUME NEW i \in 1..(n + 2), i # 1, i # n + 2 PROVE \E k \in 1..n : i = k + 1
    <3>1. i - 1 \in 1..n /\ i = i - 1 + 1
      BY <2>1, <1>2
    <3> QED BY <3>1
  <2> QED BY <2>1
<1> DEFINE h == [i \in 0..(n + 2) |-> IF i \in 1..(n + 1) THEN g[i - 1] + 1 ELSE 0]
<1>11. /\ h \in [0..(n + 2) -> 0..deeper] /\ h[0] = 0 /\ h[n + 2] = 0
       /\ \A i \in 0..n : h[i + 1] = g[i] + 1
  <2>1. ASSUME NEW i \in 0..(n + 2) PROVE h[i] \in 0..deeper
    <3>1. CASE i \in 1..(n + 1)
      <4>1. i - 1 \in 0..n
        BY <3>1, <1>2
      <4>2. g[i - 1] \in 0..top
        BY <4>1, <1>4
      <4> QED BY <3>1, <4>2
    <3> QED BY <3>1
  <2>2. ASSUME NEW i \in 0..n PROVE h[i + 1] = g[i] + 1
    <3>1. i + 1 \in 1..(n + 1) /\ i + 1 \in 0..(n + 2) /\ i + 1 - 1 = i
      BY <1>2
    <3> QED BY <3>1
  <2>3. n + 2 \in 0..(n + 2) /\ n + 2 \notin 1..(n + 1) /\ 0 \in 0..(n + 2) /\ 0 \notin 1..(n + 1)
    BY <1>2
  <2> QED BY <2>1, <2>2, <2>3
<1> HIDE DEF h
<1>12. ASSUME NEW i \in 1..(n + 2) PROVE h[i] = h[i - 1] + Change(u[i])
  <2>1. CASE i = 1
    <3>1. h[i] = g[0] + 1 /\ h[i - 1] = 0
      <4>1. 0 \in 0..n /\ i = 0 + 1 /\ i - 1 = 0
        BY <2>1, <1>2
      <4> QED BY <4>1, <1>11
    <3> QED BY <3>1, <2>1, <1>4, <1>6, <1>9
  <2>2. CASE i = n + 2
    <3>1. n \in 0..n /\ i - 1 = n + 1
      BY <2>2, <1>2
    <3>2. h[i - 1] = 0 + 1 /\ h[i] = 0
      BY <3>1, <2>2, <1>4, <1>11
    <3> QED BY <3>2, <2>2, <1>6, <1>9
  <2>3. ASSUME NEW k \in 1..n, i = k + 1 PROVE h[i] = h[i - 1] + Change(u[i])
    <3>1. k \in 0..n /\ k - 1 \in 0..n /\ i - 1 = k - 1 + 1
      BY <2>3, <1>2
    <3>2. h[i] = g[k] + 1 /\ h[i - 1] = g[k - 1] + 1 /\ u[i] = s[k]
      BY <3>1, <2>3, <1>9, <1>11
    <3>3. g[k] = g[k - 1] + Change(s[k]) /\ g[k - 1] \in 0..top
      BY <3>1, <1>4
    <3>4. Change(s[k]) \in {0, 1, -1}
      BY DEF Change
    <3> QED BY <3>2, <3>3, <3>4
  <2> QED BY <2>1, <2>2, <2>3, <1>10
<1>13. Deepened(h, g, s, u, deeper)
  BY <1>2, <1>7, <1>9, <1>11, <1>12 DEF Deepened, Depths
<1> QED BY <1>1, <1>13

\* The lock around a program shields it if its first access is not to the window.
LEMMA LockedProgram ==
  ASSUME NEW top \in Nat, NEW deeper \in Nat, deeper = top + 1, NEW shield \in BOOLEAN,
         NEW s \in Programs(top, FALSE), NEW r, shield => r.lock /\ Covers(s)
  PROVE  Locked(r, s) \in Programs(deeper, shield)
<1>1. CASE ~r.lock
  <2>1. Locked(r, s) = s /\ shield = FALSE
    BY <1>1 DEF Locked
  <2>2. top <= deeper
    OBVIOUS
  <2>3. s \in Programs(deeper, FALSE)
    BY <2>2, PlainProgram
  <2> QED BY <2>1, <2>3
<1>2. CASE r.lock
  <2> DEFINE n == Len(s)
  <2>2. s \in Seq(Steps) /\ Paired(s) /\ n \in Nat
    BY DEF Programs
  <2>3. PICK g : Runs(s, top, FALSE, g)
    BY DEF Programs
  <2>4. /\ g \in [0..n -> 0..top] /\ g[0] = 0 /\ g[n] = 0
        /\ \A i \in 1..n : g[i] = g[i - 1] + Change(s[i])
    BY <2>3 DEF Runs, Depths
  <2>5. PICK h : Deepened(h, g, s, Locked(r, s), deeper)
    BY <1>2, <2>2, <2>3, LockDeepens
  <2>6. PICK u : u = Locked(r, s)
    OBVIOUS
  <2>7. Deepened(h, g, s, u, deeper)
    BY <2>5, <2>6
  <2>8. /\ Depths(h, u, deeper) /\ h[0] = 0 /\ h[n + 2] = 0
        /\ \A i \in 0..n : h[i + 1] = g[i] + 1
    BY <2>7 DEF Deepened
  <2>9. /\ u \in Seq(Steps) /\ Len(u) = n + 2 /\ u[1].do = "lock" /\ u[n + 2].do = "unlock"
        /\ \A i \in 1..n : u[i + 1] = s[i]
    BY <2>7 DEF Deepened
  <2>10. \A i \in 1..(n + 2) : i = 1 \/ i = n + 2 \/ \E k \in 1..n : i = k + 1
    <3>1. ASSUME NEW i \in 1..(n + 2), i # 1, i # n + 2 PROVE \E k \in 1..n : i = k + 1
      <4>1. i - 1 \in 1..n /\ i = i - 1 + 1
        BY <3>1, <2>2
      <4> QED BY <4>1
    <3> QED BY <3>1
  <2>13. Paired(u)
    <3> SUFFICES ASSUME NEW i \in 1..(n + 2), u[i].do = "load"
                 PROVE  i < n + 2 /\ u[i + 1].do = "store" /\ u[i + 1].word = u[i].word
      BY <2>9 DEF Paired
    <3>1. i # 1 /\ i # n + 2
      BY <2>9
    <3>2. PICK k \in 1..n : i = k + 1
      BY <3>1, <2>10
    <3>3. u[i] = s[k]
      BY <3>2, <2>9
    <3>4. k < n /\ s[k + 1].do = "store" /\ s[k + 1].word = s[k].word
      BY <3>3, <2>2 DEF Paired
    <3>5. k + 1 \in 1..n /\ i + 1 = k + 1 + 1 /\ i < n + 2
      BY <3>2, <3>4, <2>2
    <3>6. u[i + 1] = s[k + 1]
      BY <3>5, <2>9
    <3> QED BY <3>3, <3>4, <3>5, <3>6
  <2>14. ASSUME shield PROVE Shielded(u, h)
    <3> SUFFICES ASSUME NEW j \in 0..(n + 2), NEW i \in 1..(n + 2), j < i, Opens(u[i]),
                        \A k \in (j + 1)..(i - 1) : ForLock(u[k])
                 PROVE  h[j] >= 1
      BY <2>9 DEF Shielded
    <3>1. i # 1 /\ i # n + 2
      BY <2>9 DEF Opens
    <3>2. PICK m \in 1..n : i = m + 1
      BY <3>1, <2>10
    <3>3. Opens(s[m])
      BY <3>2, <2>9
    <3>4. CASE j = 0
      <4>1. PICK q \in 1..n : ~ForLock(s[q]) /\ \A k \in 1..q : ~Opens(s[k])
        BY <2>14 DEF Covers
      <4>2. q < m
        BY <4>1, <3>3, <2>2
      <4>3. q + 1 \in (j + 1)..(i - 1) /\ u[q + 1] = s[q]
        BY <4>2, <3>2, <3>4, <2>2, <2>9
      <4> QED BY <4>1, <4>3
    <3>5. CASE j # 0
      <4>1. j - 1 \in 0..n /\ j = j - 1 + 1
        BY <3>2, <3>5, <2>2
      <4>2. h[j] = g[j - 1] + 1 /\ g[j - 1] \in 0..top
        BY <4>1, <2>4, <2>8
      <4> QED BY <4>2
    <3> QED BY <3>4, <3>5
  <2>15. Runs(u, deeper, shield, h)
    BY <2>8, <2>9, <2>14 DEF Runs
  <2>16. u \in Programs(deeper, shield)
    BY <2>9, <2>13, <2>15 DEF Programs
  <2> QED BY <2>6, <2>16
<1> QED BY <1>1, <1>2

-----------------------------------------------------------------------------
(* The steps of the accesses to field units. *)

\* What the assumptions say of a field unit.
LEMMA FieldRecord ==
  ASSUME NEW f \in Names
  PROVE  /\ FieldOf[f].kind \in {"field", "bank", "index", "buffer"}
         /\ FieldOf[f].off \in Nat /\ FieldOf[f].acc \in Nat \ {0} /\ FieldOf[f].lock \in BOOLEAN
         /\ FieldOf[f].len \in Nat \ {0} /\ FieldOf[f].rule \in {"preserve", "ones", "zeros"}
         /\ FieldOf[f].kind \in {"bank", "index"} =>
              FieldOf[f].select \in Names /\ FieldOf[FieldOf[f].select].kind = "field"
         /\ FieldOf[f].kind = "bank" => FieldOf[f].value \in Nat
         /\ FieldOf[f].kind = "index" =>
              FieldOf[f].data \in Names /\ FieldOf[FieldOf[f].data].kind = "field"
         /\ CharBit \in Nat \ {0} /\ IntChars \in Nat \ {0} /\ Chars \in Nat \ {0}
         /\ FieldOf[f].acc * CharBit \in Widths /\ FieldOf[f].acc * CharBit \in Nat \ {0}
<1>1. /\ CharBit \in Nat \ {0} /\ IntChars \in Nat \ {0} /\ Chars \in Nat \ {0}
      /\ FieldOf[f].acc \in Nat \ {0}
  BY FieldAssumption
<1>2. FieldOf[f].acc * CharBit \in Nat \ {0}
  BY <1>1
<1> QED BY <1>1, <1>2, FieldAssumption DEF Widths

\* Bits and words are listed by functions on 1..m.
LEMMA FunctionIsSequence ==
  ASSUME NEW S, NEW m \in Nat, NEW s \in [1..m -> S]
  PROVE  s \in Seq(S) /\ Len(s) = m
OBVIOUS

\* Division and multiplication.
LEMMA Quotient ==
  ASSUME NEW a \in Nat, NEW w \in Nat \ {0}
  PROVE  a \div w \in Nat /\ (a \div w) * w <= a /\ a < (a \div w) * w + w
OBVIOUS

\* A later bit is not in an earlier word.
LEMMA QuotientGrows ==
  ASSUME NEW a \in Nat, NEW b \in Nat, a <= b, NEW w \in Nat \ {0}
  PROVE  a \div w <= b \div w
OBVIOUS

\* A later word does not begin before an earlier one ends.
LEMMA ProductGrows ==
  ASSUME NEW a \in Nat, NEW b \in Nat, a <= b, NEW w \in Nat
  PROVE  a * w <= b * w /\ a * w \in Nat /\ (a + 1) * w = a * w + w
<1>1. b * w = a * w + (b - a) * w /\ (b - a) * w >= 0
  OBVIOUS
<1> QED BY <1>1

\* The words that hold the bits of a field; there is at least one.
LEMMA WordsAre ==
  ASSUME NEW f \in Names, NEW n \in Nat \ {0}
  PROVE  /\ Words(FieldOf[f], n) \in Seq(WordRecords)
         /\ Len(Words(FieldOf[f], n)) \in Nat \ {0}
<1> DEFINE r == FieldOf[f]
           w == r.acc * CharBit
           first == r.off \div w
           last == (r.off + n - 1) \div w
           word(k) == LET lo == Larger(r.off, k * w)
                          hi == Smaller(r.off + n, (k + 1) * w)
                      IN [at |-> k * w, width |-> w, offset |-> lo - k * w,
                          count |-> hi - lo, i |-> lo - r.off]
<1>1. r.off \in Nat /\ r.acc \in Nat \ {0} /\ CharBit \in Nat \ {0} /\ w \in Widths /\ w \in Nat \ {0}
  BY FieldRecord
<1>2. Words(r, n) = [j \in 1..(last - first + 1) |-> word(first + j - 1)]
  BY DEF Words
<1>3. PICK W \in Nat \ {0} : W = w
  BY <1>1
<1>4. PICK off \in Nat : off = r.off
  BY <1>1
<1>5. /\ first \in Nat /\ first * W <= off /\ off < first * W + W
  <2>1. off \div W \in Nat /\ (off \div W) * W <= off /\ off < (off \div W) * W + W
    BY Quotient
  <2> QED BY <2>1, <1>3, <1>4
<1>6. /\ last \in Nat /\ last * W <= off + n - 1 /\ first <= last
  <2>1. off + n - 1 \in Nat /\ off <= off + n - 1
    OBVIOUS
  <2>2. (off + n - 1) \div W \in Nat /\ ((off + n - 1) \div W) * W <= off + n - 1
    BY <2>1, Quotient
  <2>3. off \div W <= (off + n - 1) \div W
    BY <2>1, QuotientGrows
  <2> QED BY <2>2, <2>3, <1>3, <1>4
<1> HIDE DEF first, last
<1>7. ASSUME NEW k \in first..last PROVE word(k) \in WordRecords
  <2>1. k \in Nat /\ first <= k /\ k <= last
    BY <1>5, <1>6
  <2>2. k * W <= last * W /\ k * W \in Nat /\ (k + 1) * W = k * W + W /\ first * W <= k * W
        /\ last * W \in Nat /\ first * W \in Nat
    BY <2>1, <1>3, <1>5, <1>6, ProductGrows
  <2>3. PICK at \in Nat : at = k * W
    BY <2>2
  <2>4. at <= off + n - 1 /\ off < at + W
    BY <2>2, <2>3, <1>5, <1>6
  <2> DEFINE lo == Larger(off, at)
             hi == Smaller(off + n, at + W)
             rec == [at |-> at, width |-> W, offset |-> lo - at, count |-> hi - lo, i |-> lo - off]
  <2>5. word(k) = rec
    BY <2>2, <2>3, <1>3, <1>4
  <2>6. lo - at \in Nat /\ hi - lo \in Nat /\ lo - off \in Nat /\ lo - at + (hi - lo) <= W
    BY <2>4 DEF Larger, Smaller
  <2>7. at = (k * r.acc) * CharBit /\ k * r.acc \in Nat
    <3>1. PICK acc \in Nat : acc = r.acc
      BY <1>1
    <3>2. k * (acc * CharBit) = (k * acc) * CharBit /\ k * acc \in Nat
      BY <2>1, <1>1
    <3> QED BY <3>1, <3>2, <2>3, <1>3
  <2> HIDE DEF lo, hi
  <2>8. /\ rec \in [at : Nat, width : Nat, offset : Nat, count : Nat, i : Nat]
        /\ rec.at = at /\ rec.width = W /\ rec.offset = lo - at /\ rec.count = hi - lo
    BY <2>6
  <2> HIDE DEF rec
  <2>9. W \in Widths /\ W = r.acc * CharBit /\ r.acc \in Nat
    BY <1>1, <1>3
  <2>10. \E a, c \in Nat : rec.at = a * CharBit /\ rec.width = c * CharBit
    BY <2>7, <2>8, <2>9
  <2>11. rec \in WordRecords
    BY <2>6, <2>8, <2>9, <2>10 DEF WordRecords
  <2> QED BY <2>5, <2>11
<1>8. last - first + 1 \in Nat \ {0}
  BY <1>5, <1>6
<1>9. \A j \in 1..(last - first + 1) : first + j - 1 \in first..last
  BY <1>5, <1>6
<1> HIDE DEF word, r
<1>10. PICK m \in Nat \ {0} : m = last - first + 1
  BY <1>8
<1>11. Words(r, n) \in [1..m -> WordRecords]
  BY <1>2, <1>7, <1>9, <1>10
<1>12. Words(r, n) \in Seq(WordRecords) /\ Len(Words(r, n)) = m
  BY <1>11
<1> QED BY <1>12 DEF r

\* Accesses without the lock rule.
LEMMA FieldReadIs ==
  ASSUME NEW f \in Names, NEW n \in Nat \ {0}
  PROVE  FieldRead(FieldOf[f], n) \in Programs(0, FALSE)
<1> DEFINE r == FieldOf[f]
           words == Words(r, Smaller(r.len, n))
           steps == [j \in DOMAIN words |-> [do |-> "read", word |-> words[j]]]
           refuse == [do |-> "refuse"]
<1>1. CASE ~InRange(r)
  <2>1. refuse \in Steps /\ ~ForLock(refuse) /\ refuse.do # "load"
    BY DEF Steps, Plain, ForLock
  <2>2. <<refuse>> \in Programs(0, FALSE)
    BY <2>1, OneStep
  <2> QED BY <1>1, <2>2 DEF FieldRead, Refuse
<1>2. CASE InRange(r)
  <2>1. Smaller(r.len, n) \in Nat \ {0}
    BY FieldRecord DEF Smaller
  <2>2. words \in Seq(WordRecords)
    BY <2>1, WordsAre
  <2>3. FieldRead(r, n) = steps
    BY <1>2 DEF FieldRead
  <2> HIDE DEF words
  <2>4. PICK m \in Nat : words \in [1..m -> WordRecords] /\ DOMAIN words = 1..m
    <3>1. Len(words) \in Nat /\ words \in [1..Len(words) -> WordRecords] /\ DOMAIN words = 1..Len(words)
      BY <2>2, LenProperties
    <3> QED BY <3>1
  <2>5. ASSUME NEW j \in 1..m
        PROVE  steps[j] \in Steps /\ steps[j].do = "read"
    <3>1. steps[j] = [do |-> "read", word |-> words[j]] /\ words[j] \in WordRecords
      BY <2>4
    <3> QED BY <3>1 DEF Steps, Accesses
  <2>6. steps \in Seq(Steps) /\ Len(steps) = m
    <3>1. steps \in [1..m -> Steps]
      BY <2>4, <2>5
    <3> QED BY <3>1
  <2> HIDE DEF steps
  <2>7. \A j \in 1..m : ~ForLock(steps[j]) /\ steps[j].do # "load"
    BY <2>5 DEF ForLock
  <2> QED BY <2>3, <2>6, <2>7, FlatProgram
<1> QED BY <1>1, <1>2

\* The steps for one word of a store.
Writing(r, data, truncate, word) ==
  (IF NeedsLoad(r, word, truncate) THEN <<[do |-> "load", word |-> word]>> ELSE <<>>)
    \o <<[do |-> "store", word |-> word, rule |-> r.rule, data |-> data]>>

WritesOnly(s, word) == \A i \in 1..Len(s) : s[i].do \in {"load", "store"} /\ s[i].word = word

\* A word is written by at most one load and then its store.
LEMMA WritingIs ==
  ASSUME NEW f \in Names, NEW data \in Seq(Bits), NEW truncate \in BOOLEAN, NEW word \in WordRecords,
         NEW s, s = Writing(FieldOf[f], data, truncate, word)
  PROVE  s \in Programs(0, FALSE) /\ Len(s) \in Nat \ {0} /\ WritesOnly(s, word)
<1> DEFINE a == [do |-> "load", word |-> word]
           b == [do |-> "store", word |-> word, rule |-> FieldOf[f].rule, data |-> data]
<1>1. a \in Steps /\ a.do = "load" /\ a.word = word
  BY DEF Steps, Accesses
<1>2. b \in Steps /\ b.do = "store" /\ b.word = word
  BY FieldRecord DEF Steps, Stores
<1>3. s = (IF NeedsLoad(FieldOf[f], word, truncate) THEN <<a>> ELSE <<>>) \o <<b>>
  BY DEF Writing
<1> HIDE DEF a, b
<1> DEFINE Goal(u) == /\ u \in Programs(0, FALSE) /\ Len(u) \in Nat \ {0}
                      /\ \A i \in 1..Len(u) : u[i].do \in {"load", "store"} /\ u[i].word = word
<1>4. ASSUME NeedsLoad(FieldOf[f], word, truncate) PROVE Goal(s)
  <2>1. s = <<a>> \o <<b>>
    BY <1>3, <1>4
  <2>2. s \in Seq(Steps) /\ Len(s) = 2 /\ s[1] = a /\ s[2] = b
    <3>1. /\ <<a>> \in Seq(Steps) /\ Len(<<a>>) = 1 /\ <<a>>[1] = a
          /\ <<b>> \in Seq(Steps) /\ Len(<<b>>) = 1 /\ <<b>>[1] = b
      BY <1>1, <1>2
    <3>2. /\ s \in Seq(Steps) /\ Len(s) = 1 + 1
          /\ \A i \in 1..1 : s[i] = <<a>>[i]
          /\ \A i \in 1..1 : s[1 + i] = <<b>>[i]
      BY <2>1, <3>1, Concatenated
    <3> QED BY <3>1, <3>2
  <2>3. s \in Programs(0, FALSE)
    BY <2>2, <1>1, <1>2, LoadAndStore
  <2>4. \A i \in 1..Len(s) : s[i] = a \/ s[i] = b
    BY <2>2
  <2>5. \A i \in 1..Len(s) : s[i].do \in {"load", "store"} /\ s[i].word = word
    BY <2>4, <1>1, <1>2
  <2>6. Len(s) \in Nat \ {0}
    BY <2>2
  <2> QED BY ONLY <2>6, <2>3, <2>5
<1>5. ASSUME ~NeedsLoad(FieldOf[f], word, truncate) PROVE Goal(s)
  <2>1. s = <<>> \o <<b>>
    BY <1>3, <1>5
  <2>2. s = <<b>>
    BY <2>1
  <2>3. ~ForLock(b) /\ b.do # "load"
    BY <1>2 DEF ForLock
  <2>4. s \in Programs(0, FALSE)
    BY <2>2, <2>3, <1>2, OneStep
  <2>5. Len(s) = 1 /\ s[1] = b
    BY <2>2
  <2>6. \A i \in 1..Len(s) : s[i].do \in {"load", "store"} /\ s[i].word = word
    BY <2>5, <1>2
  <2>7. Len(s) \in Nat \ {0}
    BY <2>5
  <2> QED BY ONLY <2>4, <2>6, <2>7
<1>6. Goal(s)
  BY <1>4, <1>5
<1> QED BY <1>6 DEF WritesOnly

\* Sequences that are not empty, of accesses to the words of a set.
AccessesTo(V) ==
  {s \in Seq(Steps) : Len(s) > 0 /\ \A i \in 1..Len(s) :
     s[i].do = "refuse" \/ (s[i].do \in {"load", "store"} /\ s[i].word \in V)}

\* AmlFieldWrite takes no lock, and only its own words are read and written.
LEMMA FieldWriteIs ==
  ASSUME NEW f \in Names, NEW data \in Seq(Bits), NEW truncate \in BOOLEAN
  PROVE  /\ FieldWrite(FieldOf[f], data, truncate) \in Programs(0, FALSE)
         /\ FieldWrite(FieldOf[f], data, truncate)
              \in AccessesTo({Words(FieldOf[f], FieldOf[f].len)[j] :
                                j \in DOMAIN Words(FieldOf[f], FieldOf[f].len)})
<1> DEFINE r == FieldOf[f]
           words == Words(r, r.len)
           V == {words[j] : j \in DOMAIN words}
           Part(j) == Writing(r, data, truncate, words[j])
           parts == [j \in DOMAIN words |-> Part(j)]
           refuse == [do |-> "refuse"]
<1>1. CASE ~InRange(r)
  <2>1. refuse \in Steps /\ ~ForLock(refuse) /\ refuse.do = "refuse"
    BY DEF Steps, Plain, ForLock
  <2> HIDE DEF refuse
  <2>2. <<refuse>> \in Programs(0, FALSE)
    BY <2>1, OneStep
  <2>3. <<refuse>> \in Seq(Steps) /\ Len(<<refuse>>) = 1 /\ \A i \in 1..1 : <<refuse>>[i] = refuse
    BY <2>1
  <2> HIDE DEF V
  <2>4. <<refuse>> \in AccessesTo(V)
    BY <2>1, <2>3 DEF AccessesTo
  <2>5. FieldWrite(r, data, truncate) = <<refuse>>
    BY <1>1 DEF FieldWrite, Refuse, refuse
  <2> QED BY <2>2, <2>4, <2>5 DEF V
<1>2. CASE InRange(r)
  <2>1. words \in Seq(WordRecords) /\ Len(words) \in Nat \ {0}
    BY FieldRecord, WordsAre
  <2>2. FieldWrite(r, data, truncate) = FlattenSeq(parts)
    BY <1>2 DEF FieldWrite, Writing
  <2> HIDE DEF words
  <2>3. PICK m \in Nat \ {0} : words \in [1..m -> WordRecords] /\ DOMAIN words = 1..m
    <3>1. words \in [1..Len(words) -> WordRecords] /\ DOMAIN words = 1..Len(words)
      BY <2>1, LenProperties
    <3> QED BY <3>1, <2>1
  <2>4. ASSUME NEW j \in 1..m
        PROVE  Part(j) \in Programs(0, FALSE) /\ Part(j) \in AccessesTo(V)
    <3>1. words[j] \in WordRecords /\ words[j] \in V
      BY <2>3
    <3>2. /\ Part(j) \in Programs(0, FALSE) /\ Len(Part(j)) \in Nat \ {0}
          /\ \A i \in 1..Len(Part(j)) :
               Part(j)[i].do \in {"load", "store"} /\ Part(j)[i].word = words[j]
      <4>1. PICK s : s = Writing(FieldOf[f], data, truncate, words[j])
        OBVIOUS
      <4>2. s \in Programs(0, FALSE) /\ Len(s) \in Nat \ {0} /\ WritesOnly(s, words[j])
        BY <3>1, <4>1, WritingIs
      <4> QED BY <4>1, <4>2 DEF WritesOnly
    <3>3. Part(j) \in Seq(Steps)
      BY <3>2 DEF Programs
    <3> HIDE DEF Part, V
    <3>4. \A i \in 1..Len(Part(j)) : Part(j)[i].do \in {"load", "store"} /\ Part(j)[i].word \in V
      BY <3>1, <3>2
    <3>5. Len(Part(j)) > 0
      BY <3>2
    <3>6. Part(j) \in AccessesTo(V)
      BY <3>3, <3>4, <3>5 DEF AccessesTo
    <3> QED BY <3>2, <3>6
  <2> HIDE DEF Part
  <2>5. parts = [j \in 1..m |-> Part(j)]
    BY <2>3
  <2> HIDE DEF parts, V
  <2>6. parts \in Seq(Programs(0, FALSE)) /\ parts \in Seq(AccessesTo(V)) /\ Len(parts) = m
    <3>1. parts \in [1..m -> Programs(0, FALSE)] /\ parts \in [1..m -> AccessesTo(V)]
      BY <2>4, <2>5
    <3>2. parts \in Seq(Programs(0, FALSE))
      BY <3>1, FunctionIsSequence
    <3>3. parts \in Seq(AccessesTo(V))
      BY <3>1, FunctionIsSequence
    <3>4. Len(parts) = m
      BY <3>1, <3>2, LenProperties
    <3> QED BY <3>2, <3>3, <3>4
  <2>7. FlattenSeq(parts) \in Programs(0, FALSE)
    BY <2>6, ProgramsFlatten
  <2>8. FlattenSeq(parts) \in AccessesTo(V)
    <3>1. AccessesTo(V) \in SUBSET Seq(Steps)
      BY DEF AccessesTo
    <3>2. ASSUME NEW s \in AccessesTo(V), NEW t \in AccessesTo(V) PROVE s \o t \in AccessesTo(V)
      <4> DEFINE u == s \o t
      <4>1. s \in Seq(Steps) /\ t \in Seq(Steps) /\ Len(s) > 0
        BY DEF AccessesTo
      <4>2. /\ u \in Seq(Steps) /\ Len(u) = Len(s) + Len(t) /\ Len(s) \in Nat /\ Len(t) \in Nat
            /\ \A i \in 1..Len(s) : u[i] = s[i]
            /\ \A i \in 1..Len(t) : u[Len(s) + i] = t[i]
            /\ \A i \in 1..Len(u) : i \in 1..Len(s) \/ \E k \in 1..Len(t) : i = Len(s) + k
        BY <4>1, Concatenated
      <4> HIDE DEF u
      <4>3. Len(u) > 0
        BY <4>1, <4>2
      <4>4. \A i \in 1..Len(u) : (\E k \in 1..Len(s) : u[i] = s[k]) \/ (\E k \in 1..Len(t) : u[i] = t[k])
        BY <4>2
      <4>5. /\ \A k \in 1..Len(s) : s[k].do = "refuse" \/ (s[k].do \in {"load", "store"} /\ s[k].word \in V)
            /\ \A k \in 1..Len(t) : t[k].do = "refuse" \/ (t[k].do \in {"load", "store"} /\ t[k].word \in V)
        BY DEF AccessesTo
      <4>6. \A i \in 1..Len(u) : u[i].do = "refuse" \/ (u[i].do \in {"load", "store"} /\ u[i].word \in V)
        BY <4>4, <4>5
      <4>7. u \in AccessesTo(V)
        BY <4>2, <4>3, <4>6 DEF AccessesTo
      <4> QED BY <4>7 DEF u
    <3>3. parts # <<>>
      BY <2>6, EmptySeq
    <3> QED BY <3>1, <3>2, <3>3, <2>6, Flattened
  <2> QED BY <2>2, <2>7, <2>8 DEF V, words
<1> QED BY <1>1, <1>2

\* What begins with an access that is not to the window, does so within a lock.
LEMMA LockedCovers ==
  ASSUME NEW s \in Seq(Steps), Len(s) > 0, ~ForLock(s[1]), ~Opens(s[1]), NEW r
  PROVE  Locked(r, s) \in Seq(Steps) /\ Covers(Locked(r, s))
<1>1. CASE ~r.lock
  <2>1. Locked(r, s) = s
    BY <1>1 DEF Locked
  <2>2. 1 \in 1..Len(s) /\ \A k \in 1..1 : k = 1
    OBVIOUS
  <2> QED BY <2>1, <2>2 DEF Covers
<1>2. CASE r.lock
  <2> DEFINE lock == [do |-> "lock"]
             unlock == [do |-> "unlock"]
             t == <<lock>> \o s
             u == t \o <<unlock>>
  <2>1. Locked(r, s) = u
    BY <1>2 DEF Locked
  <2>2. lock \in Steps /\ unlock \in Steps /\ lock.do = "lock"
    BY DEF Steps, Plain
  <2> HIDE DEF lock, unlock
  <2>3. /\ <<lock>> \in Seq(Steps) /\ Len(<<lock>>) = 1 /\ <<lock>>[1] = lock
        /\ <<unlock>> \in Seq(Steps) /\ Len(<<unlock>>) = 1
    BY <2>2
  <2>4. /\ t \in Seq(Steps) /\ Len(t) = 1 + Len(s) /\ Len(s) \in Nat
        /\ \A i \in 1..1 : t[i] = <<lock>>[i]
        /\ \A i \in 1..Len(s) : t[1 + i] = s[i]
    BY <2>3, Concatenated
  <2>5. t[1] = lock /\ t[2] = s[1]
    <3>1. 1 \in 1..1 /\ 1 \in 1..Len(s) /\ 1 + 1 = 2
      OBVIOUS
    <3> QED BY <3>1, <2>3, <2>4
  <2> HIDE DEF t
  <2>6. /\ u \in Seq(Steps) /\ Len(u) = Len(t) + 1
        /\ \A i \in 1..Len(t) : u[i] = t[i]
    BY <2>3, <2>4, Concatenated
  <2>7. u[1] = lock /\ u[2] = s[1] /\ 2 \in 1..Len(u)
    BY <2>4, <2>5, <2>6
  <2> HIDE DEF u
  <2>8. \A k \in 1..2 : ~Opens(u[k])
    <3>1. \A k \in 1..2 : k = 1 \/ k = 2
      OBVIOUS
    <3>2. ~Opens(lock)
      BY <2>2 DEF Opens
    <3> QED BY <3>1, <3>2, <2>7
  <2>9. Covers(u)
    BY <2>7, <2>8 DEF Covers
  <2> QED BY <2>1, <2>6, <2>9
<1> QED BY <1>1, <1>2

\* What follows does not matter.
LEMMA CoversBefore ==
  ASSUME NEW s \in Seq(Steps), NEW t \in Seq(Steps), Covers(s)
  PROVE  Covers(s \o t)
<1> DEFINE u == s \o t
<1>1. /\ Len(u) = Len(s) + Len(t) /\ Len(s) \in Nat /\ Len(t) \in Nat
      /\ \A i \in 1..Len(s) : u[i] = s[i]
  BY Concatenated
<1> HIDE DEF u
<1>2. PICK i \in 1..Len(s) : ~ForLock(s[i]) /\ \A k \in 1..i : ~Opens(s[k])
  BY DEF Covers
<1>3. i \in 1..Len(u) /\ \A k \in 1..i : k \in 1..Len(s)
  BY <1>1
<1>4. ~ForLock(u[i]) /\ \A k \in 1..i : ~Opens(u[k])
  BY <1>1, <1>2, <1>3
<1>5. Covers(u)
  BY <1>3, <1>4 DEF Covers
<1> QED BY <1>5 DEF u

\* The bits of an integer.
LEMMA IntegerIs ==
  ASSUME NEW v \in Nat
  PROVE  Integer(v) \in Seq(Bits)
<1>1. IntChars * CharBit \in Nat
  <2>1. IntChars \in Nat /\ CharBit \in Nat
    BY FieldAssumption
  <2> QED BY <2>1
<1>2. PICK n \in Nat : n = IntChars * CharBit
  BY <1>1
<1>3. \A i \in 1..n : (v \div 2^(i - 1)) % 2 \in Bits
  BY DEF Bits
<1>4. Integer(v) = [i \in 1..n |-> (v \div 2^(i - 1)) % 2]
  BY <1>2 DEF Integer
<1>5. Integer(v) \in [1..n -> Bits]
  BY <1>3, <1>4
<1> QED BY <1>5, FunctionIsSequence

\* The register of a bank or an index field is not behind the window.
LEMMA SelectIs ==
  ASSUME NEW f \in Names, FieldOf[f].kind \in {"bank", "index"}, NEW v \in Nat
  PROVE  /\ Select(FieldOf[f].select, v) \in Programs(1, FALSE)
         /\ Covers(Select(FieldOf[f].select, v))
<1>1. PICK g \in Names : g = FieldOf[f].select
  BY FieldRecord
<1> DEFINE words == Words(FieldOf[g], FieldOf[g].len)
           s == FieldWrite(FieldOf[g], Integer(v), FALSE)
           V == {words[j] : j \in DOMAIN words}
<1>2. \A j \in DOMAIN words : ~ShowsWindow(words[j])
  BY <1>1, SelectAssumption
<1>3. \A word \in V : ~ShowsWindow(word)
  BY <1>2
<1>4. s \in Programs(0, FALSE) /\ s \in AccessesTo(V)
  <2>1. FALSE \in BOOLEAN
    OBVIOUS
  <2> QED BY <2>1, IntegerIs, FieldWriteIs
<1> HIDE DEF s, V
<1>5. s \in Seq(Steps) /\ Len(s) > 0 /\ ~ForLock(s[1]) /\ ~Opens(s[1])
  <2>1. /\ s \in Seq(Steps) /\ Len(s) > 0
        /\ \A i \in 1..Len(s) : s[i].do = "refuse" \/ (s[i].do \in {"load", "store"} /\ s[i].word \in V)
    BY <1>4 DEF AccessesTo
  <2>2. 1 \in 1..Len(s)
    BY <2>1
  <2>3. s[1].do = "refuse" \/ (s[1].do \in {"load", "store"} /\ s[1].word \in V)
    BY <2>1, <2>2
  <2> QED BY <2>1, <2>3, <1>3 DEF ForLock, Opens
<1>6. Covers(Locked(FieldOf[g], s))
  BY <1>5, LockedCovers
<1>7. Locked(FieldOf[g], s) \in Programs(1, FALSE)
  <2>1. PICK shield \in BOOLEAN : shield = FALSE
    OBVIOUS
  <2>2. Locked(FieldOf[g], s) \in Programs(1, shield)
    <3>1. PICK a \in Nat, b \in Nat : a = 0 /\ b = 1 /\ b = a + 1
      OBVIOUS
    <3>2. s \in Programs(a, FALSE)
      BY <3>1, <1>4
    <3>3. Locked(FieldOf[g], s) \in Programs(b, shield)
      BY <3>1, <3>2, <2>1, LockedProgram
    <3> QED BY <3>1, <3>3
  <2> QED BY <2>1, <2>2
<1>8. Select(g, v) = Locked(FieldOf[g], s)
  BY DEF Select, s
<1> QED BY <1>1, <1>6, <1>7, <1>8

\* A bank or an index field with the lock rule.
Windowed(f) == FieldOf[f].kind \in {"bank", "index"} /\ FieldOf[f].lock

\* The lock, the selection, and the access.
LEMMA SelectedIs ==
  ASSUME NEW f \in Names, FieldOf[f].kind \in {"bank", "index"}, NEW v \in Nat,
         NEW s \in Programs(1, FALSE)
  PROVE  Locked(FieldOf[f], Select(FieldOf[f].select, v) \o s) \in Programs(2, Windowed(f))
<1>1. PICK t : t = Select(FieldOf[f].select, v)
  OBVIOUS
<1>2. t \in Programs(1, FALSE) /\ Covers(t)
  BY <1>1, SelectIs
<1>3. t \in Seq(Steps) /\ s \in Seq(Steps)
  BY <1>2 DEF Programs
<1>4. t \o s \in Programs(1, FALSE)
  BY <1>2, ProgramsConcatenate
<1>5. Covers(t \o s)
  BY <1>2, <1>3, CoversBefore
<1>6. FieldOf[f].lock \in BOOLEAN /\ Windowed(f) \in BOOLEAN /\ (Windowed(f) => FieldOf[f].lock)
  BY FieldRecord DEF Windowed
<1>7. Locked(FieldOf[f], t \o s) \in Programs(2, Windowed(f))
  <2>1. PICK u \in Programs(1, FALSE) : u = t \o s /\ Covers(u)
    BY <1>4, <1>5
  <2>2. PICK shield \in BOOLEAN : shield = Windowed(f) /\ (shield => FieldOf[f].lock)
    BY <1>6
  <2>3. Locked(FieldOf[f], u) \in Programs(2, shield)
    <3>1. PICK a \in Nat, b \in Nat : a = 1 /\ b = 2 /\ b = a + 1
      OBVIOUS
    <3>2. u \in Programs(a, FALSE)
      BY <3>1, <2>1
    <3>3. Locked(FieldOf[f], u) \in Programs(b, shield)
      BY <3>1, <3>2, <2>1, <2>2, LockedProgram
    <3> QED BY <3>1, <3>3
  <2> QED BY <2>1, <2>2, <2>3
<1> QED BY <1>1, <1>7

\* A field without selection.
LEMMA PlainIs ==
  ASSUME NEW f \in Names, NEW s \in Programs(0, FALSE)
  PROVE  /\ s \in Programs(1, FALSE) /\ Locked(FieldOf[f], s) \in Programs(1, FALSE)
         /\ Locked(FieldOf[f], s) \in Programs(2, FALSE) /\ s \in Programs(2, FALSE)
<1>1. FieldOf[f].lock \in BOOLEAN
  BY FieldRecord
<1>2. PICK shield \in BOOLEAN : shield = FALSE
  OBVIOUS
<1>3. Locked(FieldOf[f], s) \in Programs(1, shield)
  <2>1. PICK a \in Nat, b \in Nat : a = 0 /\ b = 1 /\ b = a + 1
    OBVIOUS
  <2>2. s \in Programs(a, FALSE)
    BY <2>1
  <2>3. Locked(FieldOf[f], s) \in Programs(b, shield)
    BY <2>1, <2>2, <1>2, LockedProgram
  <2> QED BY <2>1, <2>3
<1>4. Locked(FieldOf[f], s) \in Programs(1, FALSE)
  BY <1>2, <1>3
<1>5. 0 <= 1 /\ 0 <= 2 /\ 1 <= 2
  OBVIOUS
<1> QED BY <1>4, <1>5, PlainProgram

\* AmlFieldUnitWrite takes the lock at most twice and gives it back as often.
LEMMA UnitWriteIs ==
  ASSUME NEW f \in Names, NEW data \in Seq(Bits), NEW truncate \in BOOLEAN
  PROVE  UnitWrite(f, data, truncate) \in Programs(2, Windowed(f))
<1> DEFINE r == FieldOf[f]
<1>1. r.kind \in {"field", "bank", "index", "buffer"}
  BY FieldRecord
<1>2. CASE r.kind = "field"
  <2>1. UnitWrite(f, data, truncate) = Locked(r, FieldWrite(r, data, truncate)) /\ Windowed(f) = FALSE
    BY <1>2 DEF UnitWrite, Windowed
  <2>2. FieldWrite(r, data, truncate) \in Programs(0, FALSE)
    BY FieldWriteIs
  <2> QED BY <2>1, <2>2, PlainIs
<1>3. CASE r.kind = "bank"
  <2>1. UnitWrite(f, data, truncate) = Locked(r, Select(r.select, r.value) \o FieldWrite(r, data, truncate))
    BY <1>3 DEF UnitWrite, BankWrite
  <2>2. FieldWrite(r, data, truncate) \in Programs(1, FALSE)
    BY FieldWriteIs, PlainIs
  <2>3. r.value \in Nat
    BY <1>3, FieldRecord
  <2> QED BY <1>3, <2>1, <2>2, <2>3, SelectedIs
<1>4. CASE r.kind = "index"
  <2>1. PICK d \in Names : d = r.data
    BY <1>4, FieldRecord
  <2>2. UnitWrite(f, data, truncate)
          = Locked(r, Select(r.select, r.off \div CharBit)
                        \o Locked(FieldOf[d], FieldWrite(FieldOf[d], data, truncate)))
    BY <1>4, <2>1 DEF UnitWrite, IndexWrite
  <2>3. Locked(FieldOf[d], FieldWrite(FieldOf[d], data, truncate)) \in Programs(1, FALSE)
    BY FieldWriteIs, PlainIs
  <2>4. r.off \div CharBit \in Nat
    BY FieldRecord, Quotient
  <2> QED BY <1>4, <2>2, <2>3, <2>4, SelectedIs
<1>5. CASE r.kind = "buffer"
  <2> DEFINE step == [do |-> "bufferwrite", data |-> data]
  <2>1. UnitWrite(f, data, truncate) = <<step>> /\ Windowed(f) = FALSE
    BY <1>5 DEF UnitWrite, Windowed
  <2>2. step \in Steps /\ ~ForLock(step) /\ step.do # "load"
    BY DEF Steps, BufferStores, ForLock
  <2> HIDE DEF step
  <2>3. <<step>> \in Programs(0, FALSE)
    BY <2>2, OneStep
  <2> QED BY <2>1, <2>3, PlainIs
<1> QED BY <1>1, <1>2, <1>3, <1>4, <1>5

\* AmlFieldUnitRead takes the lock at most twice and gives it back as often.
LEMMA UnitReadIs ==
  ASSUME NEW f \in Names, NEW n \in Nat \ {0}
  PROVE  UnitRead(f, n) \in Programs(2, Windowed(f))
<1> DEFINE r == FieldOf[f]
<1>1. r.kind \in {"field", "bank", "index", "buffer"}
  BY FieldRecord
<1>2. CASE r.kind = "field"
  <2>1. UnitRead(f, n) = Locked(r, FieldRead(r, n)) /\ Windowed(f) = FALSE
    BY <1>2 DEF UnitRead, Windowed
  <2>2. FieldRead(r, n) \in Programs(0, FALSE)
    BY FieldReadIs
  <2> QED BY <2>1, <2>2, PlainIs
<1>3. CASE r.kind = "bank"
  <2>1. UnitRead(f, n) = Locked(r, Select(r.select, r.value) \o FieldRead(r, n))
    BY <1>3 DEF UnitRead, BankRead
  <2>2. FieldRead(r, n) \in Programs(1, FALSE)
    BY FieldReadIs, PlainIs
  <2>3. r.value \in Nat
    BY <1>3, FieldRecord
  <2> QED BY <1>3, <2>1, <2>2, <2>3, SelectedIs
<1>4. CASE r.kind = "index"
  <2>1. PICK d \in Names : d = r.data
    BY <1>4, FieldRecord
  <2>2. UnitRead(f, n)
          = Locked(r, Select(r.select, r.off \div CharBit) \o Locked(FieldOf[d], FieldRead(FieldOf[d], n)))
    BY <1>4, <2>1 DEF UnitRead, IndexRead
  <2>3. Locked(FieldOf[d], FieldRead(FieldOf[d], n)) \in Programs(1, FALSE)
    BY FieldReadIs, PlainIs
  <2>4. r.off \div CharBit \in Nat
    BY FieldRecord, Quotient
  <2> QED BY <1>4, <2>2, <2>3, <2>4, SelectedIs
<1>5. CASE r.kind = "buffer"
  <2> DEFINE step == [do |-> "bufferread"]
  <2>1. UnitRead(f, n) = <<step>> /\ Windowed(f) = FALSE
    BY <1>5 DEF UnitRead, Windowed
  <2>2. step \in Steps /\ ~ForLock(step) /\ step.do # "load"
    BY DEF Steps, Plain, ForLock
  <2> HIDE DEF step
  <2>3. <<step>> \in Programs(0, FALSE)
    BY <2>2, OneStep
  <2> QED BY <2>1, <2>3, PlainIs
<1> QED BY <1>1, <1>2, <1>3, <1>4, <1>5

-----------------------------------------------------------------------------
(* Data. *)

\* Data that are too short are extended by zeros.
LEMMA BitAtIs ==
  ASSUME NEW data \in Seq(Bits), NEW i \in Nat
  PROVE  BitAt(data, i) \in Bits
<1>1. CASE i < Len(data)
  <2>1. i + 1 \in 1..Len(data)
    BY <1>1
  <2>2. data[i + 1] \in Bits
    BY <2>1, ElementOfSeq
  <2> QED BY <1>1, <2>2 DEF BitAt
<1>2. CASE ~(i < Len(data))
  BY <1>2 DEF BitAt, Bits
<1> QED BY <1>1, <1>2

\* A copy does not change the length.
LEMMA CopyBitsIs ==
  ASSUME NEW input \in Seq(Bits), NEW i \in Nat, NEW n \in Nat, NEW data \in Seq(Bits), NEW o \in Nat
  PROVE  CopyBits(input, i, n, data, o) \in Seq(Bits)
         /\ Len(CopyBits(input, i, n, data, o)) = Len(data)
<1> DEFINE Bit(p) == IF p - 1 \in o..(o + n - 1) THEN BitAt(input, i + p - 1 - o) ELSE data[p]
<1>1. Len(data) \in Nat /\ DOMAIN data = 1..Len(data) /\ \A p \in 1..Len(data) : data[p] \in Bits
  BY LenProperties, ElementOfSeq
<1>2. ASSUME NEW p \in 1..Len(data) PROVE Bit(p) \in Bits
  <2>1. CASE p - 1 \in o..(o + n - 1)
    <3>1. i + p - 1 - o \in Nat
      BY <2>1, <1>1
    <3> QED BY <2>1, <3>1, BitAtIs
  <2>2. CASE p - 1 \notin o..(o + n - 1)
    BY <2>2, <1>1
  <2> QED BY <2>1, <2>2
<1>3. CopyBits(input, i, n, data, o) = [p \in 1..Len(data) |-> Bit(p)]
  BY <1>1 DEF CopyBits
<1> HIDE DEF Bit
<1>4. CopyBits(input, i, n, data, o) \in [1..Len(data) -> Bits]
  BY <1>2, <1>3
<1> QED BY <1>1, <1>4, FunctionIsSequence

\* The temporary buffer is zeroed.
LEMMA ZerosIs ==
  ASSUME NEW n \in Nat
  PROVE  Zeros(n) \in Seq(Bits) /\ Len(Zeros(n)) = n
<1>1. Zeros(n) \in [1..n -> Bits]
  BY DEF Zeros, Bits
<1> QED BY <1>1, FunctionIsSequence

\* The pieces are not longer than they should be.
LEMMA CutIs ==
  ASSUME NEW data \in Seq(Bits), NEW n \in Nat \ {0}
  PROVE  /\ Cut(data, n) \in Seq(Seq(Bits))
         /\ \A j \in 1..Len(Cut(data, n)) : Len(Cut(data, n)[j]) <= n
<1> DEFINE m == (Len(data) + n - 1) \div n
           Piece(j) == SubSeq(data, (j - 1) * n + 1, Smaller(j * n, Len(data)))
<1>1. Len(data) \in Nat /\ Len(data) + n - 1 \in Nat
  OBVIOUS
<1>2. m \in Nat
  BY <1>1, Quotient
<1> HIDE DEF m
<1>3. Cut(data, n) = [j \in 1..m |-> Piece(j)]
  BY DEF Cut, m
<1>4. ASSUME NEW j \in 1..m PROVE Piece(j) \in Seq(Bits) /\ Len(Piece(j)) <= n
  <2>1. PICK k \in Nat : k = j - 1 /\ j = k + 1
    BY <1>2
  <2>2. k * n \in Nat /\ (k + 1) * n = k * n + n
    BY <2>1, ProductGrows
  <2>3. PICK a \in Nat : a = (j - 1) * n /\ j * n = a + n
    BY <2>1, <2>2
  <2>4. PICK b \in Nat : b = Smaller(j * n, Len(data)) /\ b <= a + n /\ b <= Len(data)
    BY <2>3, <1>1 DEF Smaller
  <2>5. \A i \in (a + 1)..b : data[i] \in Bits
    <3>1. \A i \in (a + 1)..b : i \in 1..Len(data)
      BY <2>4, <1>1
    <3> QED BY <3>1, ElementOfSeq
  <2>6. a + 1 \in Int /\ b \in Int
    OBVIOUS
  <2>7. /\ SubSeq(data, a + 1, b) \in Seq(Bits)
        /\ Len(SubSeq(data, a + 1, b)) = IF a + 1 <= b THEN b - (a + 1) + 1 ELSE 0
    BY <2>5, <2>6, SubSeqProperties
  <2>8. Piece(j) = SubSeq(data, a + 1, b)
    BY <2>3, <2>4
  <2> QED BY <2>4, <2>7, <2>8
<1> HIDE DEF Piece
<1>5. Cut(data, n) \in [1..m -> Seq(Bits)]
  BY <1>3, <1>4
<1>6. Cut(data, n) \in Seq(Seq(Bits)) /\ Len(Cut(data, n)) = m
  BY <1>2, <1>5, FunctionIsSequence
<1> QED BY <1>3, <1>4, <1>6

\* The characters for some bits hold them, and more for more.
LEMMA CharsForIs ==
  ASSUME NEW a \in Nat, NEW b \in Nat, a <= b
  PROVE  /\ CharsFor(a) * CharBit \in Nat /\ CharsFor(a) * CharBit <= CharsFor(b) * CharBit
         /\ CharsFor(a) \in Nat
<1>1. PICK c \in Nat \ {0} : c = CharBit
  BY FieldAssumption
<1>2. a + c - 1 \in Nat /\ b + c - 1 \in Nat /\ a + c - 1 <= b + c - 1
  OBVIOUS
<1>3. PICK x \in Nat : x = (a + c - 1) \div c
  BY <1>2, Quotient
<1>4. PICK y \in Nat : y = (b + c - 1) \div c
  BY <1>2, Quotient
<1>5. x <= y
  BY <1>2, <1>3, <1>4, QuotientGrows
<1>6. x * c <= y * c /\ x * c \in Nat
  BY <1>5, ProductGrows
<1>7. CharsFor(a) = x /\ CharsFor(b) = y
  BY <1>1, <1>3, <1>4 DEF CharsFor
<1> QED BY <1>1, <1>6, <1>7

\* The pieces that are written out of the temporary buffer are sequences of bits.
LEMMA ChunksAre ==
  ASSUME NEW data \in Seq(Bits), NEW n \in Nat \ {0}
  PROVE  Chunks(data, n) \in Seq(Seq(Bits))
<1> DEFINE pieces == Cut(data, n)
           m == Len(pieces)
           K == CharsFor(n) * CharBit
           D == {s \in Seq(Bits) : Len(s) = K}
           Next1(j, s) == CopyBits(data, (j - 1) * n, Len(pieces[j]), s, 0)
           Follow(k) == k = [j \in 0..m |-> IF j = 0 THEN Zeros(K) ELSE Next1(j, k[j - 1])]
           h == CHOOSE k : Follow(k)
           step == [x \in (1..m) \X D |-> Next1(x[1], x[2])]
           Chunk(j) == SubSeq(h[j], 1, CharsFor(Len(pieces[j])) * CharBit)
<1>1. /\ m \in Nat /\ DOMAIN pieces = 1..m
      /\ \A j \in 1..m : pieces[j] \in Seq(Bits) /\ Len(pieces[j]) \in Nat /\ Len(pieces[j]) <= n
  <2>1. pieces \in Seq(Seq(Bits)) /\ \A j \in 1..m : Len(pieces[j]) <= n
    BY CutIs
  <2>2. m \in Nat /\ DOMAIN pieces = 1..m /\ \A j \in 1..m : pieces[j] \in Seq(Bits)
    BY <2>1, LenProperties, ElementOfSeq
  <2> QED BY <2>1, <2>2, LenProperties
<1>2. K \in Nat
  BY CharsForIs
<1>3. Chunks(data, n) = [j \in 1..m |-> Chunk(j)]
  BY <1>1 DEF Chunks
<1> HIDE DEF K, m, pieces
<1>4. ASSUME NEW j \in 1..m, NEW s \in D PROVE Next1(j, s) \in D
  <2>1. PICK k \in Nat : k = j - 1
    BY <1>1
  <2>2. k * n \in Nat
    BY ProductGrows
  <2>3. PICK a \in Nat : a = (j - 1) * n
    BY <2>1, <2>2
  <2>4. PICK l \in Nat : l = Len(pieces[j])
    BY <1>1
  <2>5. s \in Seq(Bits) /\ Len(s) = K /\ 0 \in Nat
    OBVIOUS
  <2>6. CopyBits(data, a, l, s, 0) \in Seq(Bits) /\ Len(CopyBits(data, a, l, s, 0)) = Len(s)
    BY <2>5, CopyBitsIs
  <2> QED BY <2>3, <2>4, <2>5, <2>6
<1>5. Zeros(K) \in D
  BY <1>2, ZerosIs
<1>6. /\ step \in [(1..m) \X D -> D]
      /\ \A j \in 1..m, s \in D : step[<<j, s>>] = Next1(j, s)
  BY <1>4
<1> HIDE DEF D, Next1, step
<1>7. PICK g : g \in [0..m -> D] /\ g[0] = Zeros(K) /\ \A i \in 1..m : g[i] = step[<<i, g[i - 1]>>]
  <2>1. \E g : Indexed(g, m, D, Zeros(K), step)
    BY <1>1, <1>5, <1>6, IndexedRecursion
  <2> QED BY <2>1 DEF Indexed
<1>8. g = [j \in 0..m |-> IF j = 0 THEN Zeros(K) ELSE Next1(j, g[j - 1])]
  <2>1. ASSUME NEW j \in 0..m, j # 0 PROVE g[j] = Next1(j, g[j - 1])
    <3>1. j \in 1..m /\ j - 1 \in 0..m
      BY <2>1, <1>1
    <3>2. g[j - 1] \in D
      BY <3>1, <1>7
    <3> QED BY <3>1, <3>2, <1>6, <1>7
  <2>2. \A j \in 0..m : g[j] = IF j = 0 THEN Zeros(K) ELSE Next1(j, g[j - 1])
    BY <2>1, <1>7
  <2>3. g = [j \in 0..m |-> g[j]]
    BY <1>7
  <2> QED BY <2>2, <2>3
<1>9. Follow(h)
  BY <1>8
<1> HIDE DEF h
<1>10. h[0] = Zeros(K) /\ \A j \in 1..m : h[j] = Next1(j, h[j - 1])
  <2>1. h = [j \in 0..m |-> IF j = 0 THEN Zeros(K) ELSE Next1(j, h[j - 1])]
    BY <1>9
  <2>2. \A j \in 0..m : h[j] = IF j = 0 THEN Zeros(K) ELSE Next1(j, h[j - 1])
    BY <2>1
  <2>3. 0 \in 0..m /\ \A j \in 1..m : j \in 0..m /\ j # 0
    BY <1>1
  <2> QED BY <2>2, <2>3
<1> HIDE DEF Follow
<1> DEFINE S == {j \in Nat : j \in 0..m => h[j] \in D}
<1>11. 0 \in S
  BY <1>5, <1>10
<1>12. ASSUME NEW j \in Nat, j \in S PROVE j + 1 \in S
  <2> SUFFICES ASSUME j + 1 \in 0..m PROVE h[j + 1] \in D
    OBVIOUS
  <2>1. PICK i \in 1..m : i = j + 1 /\ i - 1 = j
    BY <1>1
  <2>2. h[i - 1] \in D
    <3>1. j \in 0..m
      BY <2>1, <1>1
    <3> QED BY <3>1, <2>1, <1>12
  <2>3. h[i] = Next1(i, h[i - 1])
    BY <1>10
  <2> QED BY <2>1, <2>2, <2>3, <1>4
<1> HIDE DEF S
<1>13. Nat \subseteq S
  BY <1>11, <1>12, SetInduction
<1>14. ASSUME NEW j \in 1..m PROVE Chunk(j) \in Seq(Bits)
  <2>1. h[j] \in D
    <3>1. j \in S /\ j \in 0..m
      BY <1>1, <1>13
    <3> QED BY <3>1 DEF S
  <2>2. PICK s \in Seq(Bits) : s = h[j] /\ Len(s) = K
    BY <2>1 DEF D
  <2>3. PICK l \in Nat : l = Len(pieces[j]) /\ l <= n
    BY <1>1
  <2>4. CharsFor(l) * CharBit \in Nat /\ CharsFor(l) * CharBit <= K
    BY <2>3, CharsForIs DEF K
  <2>5. PICK e \in Nat : e = CharsFor(l) * CharBit /\ e <= Len(s)
    BY <2>2, <2>4
  <2>6. \A i \in 1..e : s[i] \in Bits
    <3>1. \A i \in 1..e : i \in 1..Len(s)
      BY <2>5
    <3> QED BY <3>1, ElementOfSeq
  <2>7. 1 \in Int /\ e \in Int
    OBVIOUS
  <2>8. SubSeq(s, 1, e) \in Seq(Bits)
    BY <2>6, <2>7, SubSeqProperties
  <2> QED BY <2>2, <2>3, <2>5, <2>8
<1> HIDE DEF Chunk
<1>15. Chunks(data, n) \in [1..m -> Seq(Bits)]
  BY <1>3, <1>14
<1> QED BY <1>1, <1>15, FunctionIsSequence

-----------------------------------------------------------------------------
(* The device. *)

RegionBits == 0..((Chars + Cells) * CharBit - 1)
Memories == [region : [RegionBits -> Bits], buffer : Seq(Bits)]

\* The region and its cells are not empty.
LEMMA Lengths ==
  /\ Chars \in Nat \ {0} /\ Cells \in Nat \ {0} /\ CharBit \in Nat \ {0}
  /\ Chars * CharBit \in Nat \ {0} /\ (Chars + Cells) * CharBit \in Nat
  /\ Chars * CharBit <= (Chars + Cells) * CharBit
<1>1. Chars \in Nat \ {0} /\ Cells \in Nat \ {0} /\ CharBit \in Nat \ {0}
  BY FieldAssumption
<1>2. Chars * CharBit \in Nat \ {0}
  BY <1>1
<1>3. Chars + Cells \in Nat /\ Chars <= Chars + Cells
  BY <1>1
<1>4. Chars * CharBit <= (Chars + Cells) * CharBit /\ (Chars + Cells) * CharBit \in Nat
  BY <1>1, <1>3, ProductGrows
<1> QED BY <1>1, <1>2, <1>4

\* A bit is at a place inside its character.
LEMMA Remainder ==
  ASSUME NEW a \in Nat, NEW w \in Nat \ {0}
  PROVE  a % w \in Nat /\ a % w < w
OBVIOUS

\* Every bit of the region is stored somewhere.
LEMMA RegionBitIs ==
  ASSUME NEW m \in Memories, NEW p \in 0..(Chars * CharBit - 1)
  PROVE  RegionBit(m, p) \in Bits
<1>1. m.region \in [RegionBits -> Bits]
  BY DEF Memories
<1>2. 0 \in RegionBits
  BY Lengths DEF RegionBits
<1>3. m.region[0] \in Nat
  BY <1>1, <1>2 DEF Bits
<1>4. PICK b \in Nat : b = Selected(m) /\ b < Cells
  BY <1>3, Lengths, Remainder DEF Selected
<1>5. Place(m, p) \in RegionBits
  <2>1. CASE p \div CharBit = Window
    <3>1. p \in Nat
      BY Lengths
    <3>2. PICK d \in Nat : d = p % CharBit /\ d < CharBit
      BY <3>1, Lengths, Remainder
    <3>3. Chars + b \in Nat /\ Chars + b + 1 \in Nat /\ Chars + b + 1 <= Chars + Cells /\ Chars + Cells \in Nat
      BY <1>4, Lengths
    <3>4. (Chars + b) * CharBit \in Nat /\ (Chars + b + 1) * CharBit = (Chars + b) * CharBit + CharBit
      <4>1. Chars + b <= Chars + b /\ CharBit \in Nat
        BY <3>3, Lengths
      <4> QED BY <4>1, <3>3, ProductGrows
    <3>5. (Chars + b + 1) * CharBit <= (Chars + Cells) * CharBit
      <4>1. CharBit \in Nat
        BY Lengths
      <4> QED BY <4>1, <3>3, ProductGrows
    <3>6. PICK x \in Nat : x = (Chars + b) * CharBit
      BY <3>4
    <3>7. PICK y \in Nat : y = (Chars + Cells) * CharBit
      BY Lengths
    <3>8. x + CharBit <= y
      BY <3>4, <3>5, <3>6, <3>7
    <3>9. x + d \in 0..(y - 1)
      BY <3>2, <3>8, Lengths
    <3> QED BY <2>1, <3>2, <3>6, <3>7, <3>9, <1>4 DEF Place, RegionBits
  <2>2. CASE p \div CharBit # Window
    <3>1. Place(m, p) = p
      BY <2>2 DEF Place
    <3> QED BY <3>1, Lengths DEF RegionBits
  <2> QED BY <2>1, <2>2
<1> QED BY <1>1, <1>5 DEF RegionBit

\* The bits of a word that is inside the region.
LEMMA ValidWord ==
  ASSUME NEW word \in WordRecords, Valid(word), NEW j \in 1..word.width
  PROVE  word.at + j - 1 \in 0..(Chars * CharBit - 1)
<1>1. PICK a \in Nat, c \in Nat : word.at = a * CharBit /\ word.width = c * CharBit
  BY DEF WordRecords
<1>2. PICK w \in Nat \ {0} : w = CharBit
  BY Lengths
<1>3. a * w \in Nat /\ c * w \in Nat /\ (a * w) \div w = a /\ (c * w) \div w = c
  OBVIOUS
<1>4. a < Chars /\ c <= Chars - a
  BY <1>1, <1>2, <1>3 DEF Valid
<1>5. a + c \in Nat /\ a + c <= Chars /\ Chars \in Nat
  BY <1>4, Lengths
<1>6. (a + c) * w <= Chars * w /\ (a + c) * w = a * w + c * w
  <2>1. (a + c) * w <= Chars * w
    BY <1>5, ProductGrows
  <2>2. (a + c) * w = a * w + c * w
    OBVIOUS
  <2> QED BY <2>1, <2>2
<1>7. PICK x \in Nat, y \in Nat, z \in Nat : x = a * w /\ y = c * w /\ z = Chars * w
  <2>1. Chars * w \in Nat
    BY <1>5
  <2> QED BY <2>1, <1>3
<1>8. x + y <= z /\ word.at = x /\ word.width = y /\ Chars * CharBit = z
  BY <1>1, <1>2, <1>6, <1>7
<1>9. x + j - 1 \in 0..(z - 1)
  BY <1>8
<1> QED BY <1>8, <1>9

\* A write of bits keeps the memory's type, whatever its place.
LEMMA WrittenIs ==
  ASSUME NEW m \in Memories, NEW p, NEW n \in Nat, NEW bs \in [0..(n - 1) -> Bits]
  PROVE  Written(m, p, n, bs) \in Memories
<1> DEFINE at == [i \in 0..(n - 1) |-> Place(m, p + i)]
           Bit(q) == IF \E i \in 0..(n - 1) : at[i] = q
                     THEN bs[CHOOSE i \in 0..(n - 1) : at[i] = q] ELSE m.region[q]
           region == [q \in RegionBits |-> Bit(q)]
<1>1. m.region \in [RegionBits -> Bits] /\ DOMAIN m.region = RegionBits /\ m.buffer \in Seq(Bits)
  BY DEF Memories
<1>2. Written(m, p, n, bs) = [m EXCEPT !.region = region]
  BY <1>1 DEF Written
<1> HIDE DEF at
<1>3. ASSUME NEW q \in RegionBits PROVE Bit(q) \in Bits
  <2>1. CASE \E i \in 0..(n - 1) : at[i] = q
    <3>1. (CHOOSE i \in 0..(n - 1) : at[i] = q) \in 0..(n - 1)
      BY <2>1
    <3> QED BY <2>1, <3>1
  <2>2. CASE ~\E i \in 0..(n - 1) : at[i] = q
    BY <2>2, <1>1
  <2> QED BY <2>1, <2>2
<1> HIDE DEF Bit
<1>4. region \in [RegionBits -> Bits]
  BY <1>3
<1> HIDE DEF region
<1> QED BY <1>2, <1>4 DEF Memories

\* What is written to a word.
LEMMA NewWordIs ==
  ASSUME NEW step \in Stores, NEW word \in Seq(Bits), word = <<>> \/ Len(word) = step.word.width
  PROVE  step.word.width \in Nat /\ NewWord(step, word) \in [0..(step.word.width - 1) -> Bits]
<1>1. step.word \in WordRecords /\ step.data \in Seq(Bits)
  BY DEF Stores
<1>2. PICK w : w = step.word
  OBVIOUS
<1>3. w.width \in Nat /\ w.offset \in Nat /\ w.count \in Nat /\ w.i \in Nat
  BY <1>1, <1>2 DEF WordRecords
<1> DEFINE Bit(j) == IF j \in w.offset..(w.offset + w.count - 1) THEN BitAt(step.data, w.i + j - w.offset)
                     ELSE IF word # <<>> THEN word[j + 1] ELSE IF step.rule = "ones" THEN 1 ELSE 0
<1>4. NewWord(step, word) = [j \in 0..(w.width - 1) |-> Bit(j)]
  BY <1>2 DEF NewWord
<1>5. ASSUME NEW j \in 0..(w.width - 1) PROVE Bit(j) \in Bits
  <2>1. CASE j \in w.offset..(w.offset + w.count - 1)
    <3>1. w.i + j - w.offset \in Nat
      BY <2>1, <1>3
    <3> QED BY <2>1, <3>1, <1>1, BitAtIs
  <2>2. CASE j \notin w.offset..(w.offset + w.count - 1) /\ word # <<>>
    <3>1. j + 1 \in 1..Len(word)
      BY <2>2, <1>2, <1>3
    <3>2. word[j + 1] \in Bits
      BY <3>1, ElementOfSeq
    <3> QED BY <2>2, <3>2
  <2>3. CASE j \notin w.offset..(w.offset + w.count - 1) /\ word = <<>>
    BY <2>3 DEF Bits
  <2> QED BY <2>1, <2>2, <2>3
<1> HIDE DEF Bit
<1> QED BY <1>2, <1>3, <1>4, <1>5

-----------------------------------------------------------------------------
(* What remains of an operation. *)

\* Steps that are left when the lock is held a times.
Remaining(s, a, shield) ==
  /\ Paired(s)
  /\ \E h : Depths(h, s, 2) /\ h[0] = a /\ h[Len(s)] = 0 /\ (shield => Shielded(s, h))

\* At its beginning all of an operation is left, and the lock is not held.
LEMMA ProgramRemains ==
  ASSUME NEW shield \in BOOLEAN, NEW s \in Programs(2, shield)
  PROVE  s \in Seq(Steps) /\ Remaining(s, 0, shield)
BY DEF Programs, Runs, Remaining

\* The depth is the depth when a step has been taken.
LEMMA RemainingTail ==
  ASSUME NEW s \in Seq(Steps), s # <<>>, NEW a, NEW shield \in BOOLEAN, Remaining(s, a, shield)
  PROVE  /\ Tail(s) \in Seq(Steps) /\ Remaining(Tail(s), a + Change(Head(s)), shield)
         /\ a \in 0..2 /\ a + Change(Head(s)) \in 0..2 /\ Head(s) \in Steps /\ Head(s) = s[1]
         /\ Len(Tail(s)) < Len(s)
         /\ Head(s).do = "load" =>
              /\ Tail(s) # <<>> /\ Head(Tail(s)).do = "store"
              /\ Head(Tail(s)).word = Head(s).word
<1> DEFINE t == Tail(s)
           n == Len(s)
<1>1. PICK h : Depths(h, s, 2) /\ h[0] = a /\ h[n] = 0 /\ (shield => Shielded(s, h))
  BY DEF Remaining
<1>2. /\ n \in Nat \ {0} /\ t \in Seq(Steps) /\ Len(t) = n - 1 /\ Head(s) \in Steps
      /\ \A i \in 1..(n - 1) : t[i] = s[i + 1]
      /\ Head(s) = s[1]
  <2>1. n \in Nat \ {0}
    BY EmptySeq
  <2>2. t \in Seq(Steps) /\ Len(t) = n - 1 /\ \A i \in 1..Len(t) : t[i] = s[i + 1]
    BY HeadTailProperties
  <2>3. Head(s) \in Steps /\ Head(s) = s[1]
    BY HeadTailProperties DEF Head
  <2> QED BY <2>1, <2>2, <2>3
<1> DEFINE g == [i \in 0..(n - 1) |-> h[i + 1]]
<1>3. h \in [0..n -> 0..2] /\ \A i \in 1..n : h[i] = h[i - 1] + Change(s[i])
  BY <1>1 DEF Depths
<1> HIDE DEF t, n
<1>4. g \in [0..(n - 1) -> 0..2] /\ \A i \in 0..(n - 1) : g[i] = h[i + 1]
  <2>1. \A i \in 0..(n - 1) : i + 1 \in 0..n
    BY <1>2
  <2> QED BY <2>1, <1>3
<1> HIDE DEF g
<1>5. ASSUME NEW i \in 1..(n - 1) PROVE g[i] = g[i - 1] + Change(t[i])
  <2>1. i \in 0..(n - 1) /\ i - 1 \in 0..(n - 1) /\ i + 1 \in 1..n /\ i - 1 + 1 = i + 1 - 1
    BY <1>2
  <2>2. g[i] = h[i + 1] /\ g[i - 1] = h[i + 1 - 1] /\ t[i] = s[i + 1]
    BY <2>1, <1>2, <1>4
  <2> QED BY <2>1, <2>2, <1>3
<1>6. g[0] = a + Change(Head(s)) /\ g[n - 1] = 0 /\ a \in 0..2 /\ g[0] \in 0..2
  <2>1. 0 \in 0..(n - 1) /\ n - 1 \in 0..(n - 1) /\ 1 \in 1..n /\ 0 \in 0..n /\ n - 1 + 1 = n
    BY <1>2
  <2>2. g[0] = h[0 + 1] /\ g[n - 1] = h[n] /\ g[0] \in 0..2
    BY <2>1, <1>4
  <2>3. h[1] = h[1 - 1] + Change(s[1]) /\ h[0] \in 0..2
    BY <2>1, <1>3
  <2> QED BY <2>2, <2>3, <1>1, <1>2
<1>7. ASSUME shield PROVE Shielded(t, g)
  <2> SUFFICES ASSUME NEW j \in 0..(n - 1), NEW i \in 1..(n - 1), j < i, Opens(t[i]),
                      \A k \in (j + 1)..(i - 1) : ForLock(t[k])
               PROVE  g[j] >= 1
    BY <1>2 DEF Shielded
  <2>1. t[i] = s[i + 1] /\ g[j] = h[j + 1]
    BY <1>2, <1>4
  <2>2. j + 1 \in 0..n /\ i + 1 \in 1..n /\ j + 1 < i + 1
    BY <1>2
  <2>3. ASSUME NEW k \in (j + 1 + 1)..(i + 1 - 1) PROVE ForLock(s[k])
    <3>1. PICK l \in Int : l = k - 1 /\ k = l + 1
      OBVIOUS
    <3>2. l \in (j + 1)..(i - 1) /\ l \in 1..(n - 1)
      BY <3>1, <1>2
    <3>3. t[l] = s[k]
      BY <3>1, <3>2, <1>2
    <3> QED BY <3>2, <3>3
  <2>4. Shielded(s, h)
    BY <1>1, <1>7
  <2>5. h[j + 1] >= 1
    <3>1. PICK x \in 0..n, y \in 1..n : x = j + 1 /\ y = i + 1
      BY <2>2
    <3>2. x < y /\ Opens(s[y]) /\ \A k \in (x + 1)..(y - 1) : ForLock(s[k])
      BY <3>1, <2>1, <2>2, <2>3
    <3>3. h[x] >= 1
      BY <3>2, <2>4 DEF Shielded, n
    <3> QED BY <3>1, <3>3
  <2> QED BY <2>1, <2>5
<1>8. Paired(t)
  <2> SUFFICES ASSUME NEW i \in 1..(n - 1), t[i].do = "load"
               PROVE  i < n - 1 /\ t[i + 1].do = "store" /\ t[i + 1].word = t[i].word
    BY <1>2 DEF Paired
  <2>1. i + 1 \in 1..n /\ t[i] = s[i + 1]
    BY <1>2
  <2>2. i + 1 < n /\ s[i + 1 + 1].do = "store" /\ s[i + 1 + 1].word = s[i + 1].word
    BY <2>1 DEF Paired, Remaining, n
  <2>3. i + 1 \in 1..(n - 1)
    BY <2>2, <1>2
  <2>4. t[i + 1] = s[i + 1 + 1]
    BY <2>3, <1>2
  <2> QED BY <2>1, <2>2, <2>4, <1>2
<1>9. Head(s).do = "load" => t # <<>> /\ Head(t).do = "store" /\ Head(t).word = Head(s).word
  <2> SUFFICES ASSUME s[1].do = "load"
               PROVE  t # <<>> /\ Head(t).do = "store" /\ Head(t).word = s[1].word
    BY <1>2
  <2>1. 1 \in 1..n
    BY <1>2
  <2>2. 1 < n /\ s[1 + 1].do = "store" /\ s[1 + 1].word = s[1].word
    BY <2>1 DEF Paired, Remaining, n
  <2>3. 1 \in 1..(n - 1) /\ Len(t) # 0
    BY <2>2, <1>2
  <2>4. t # <<>> /\ t[1] = s[1 + 1]
    <3>1. Len(<<>>) = 0
      OBVIOUS
    <3> QED BY <3>1, <2>3, <1>2
  <2>5. Head(t) = t[1]
    BY <2>4, <1>2 DEF Head
  <2> QED BY <2>2, <2>4, <2>5
<1>10. Depths(g, t, 2)
  BY <1>2, <1>4, <1>5 DEF Depths
<1>11. Remaining(t, a + Change(Head(s)), shield)
  BY <1>2, <1>6, <1>7, <1>8, <1>10 DEF Remaining
<1>12. Len(t) < n
  BY <1>2
<1> QED BY <1>2, <1>6, <1>9, <1>11, <1>12 DEF t, n

\* After a failure, the locks that are held are released.
LEMMA RemainingOfFailure ==
  ASSUME NEW a \in 0..2, NEW shield \in BOOLEAN, NEW s, s = [i \in 1..a |-> [do |-> "unlock"]]
  PROVE  s \in Seq(Steps) /\ Remaining(s, a, shield)
<1> DEFINE unlock == [do |-> "unlock"]
<1>1. unlock \in Steps /\ unlock.do = "unlock"
  BY DEF Steps, Plain
<1>2. s = [i \in 1..a |-> unlock] /\ a \in Nat
  OBVIOUS
<1> HIDE DEF unlock
<1>3. s \in Seq(Steps) /\ Len(s) = a /\ \A i \in 1..a : s[i] = unlock
  <2>1. s \in [1..a -> Steps]
    BY <1>1, <1>2
  <2> QED BY <2>1, <1>2, FunctionIsSequence
<1> DEFINE h == [i \in 0..a |-> a - i]
<1>4. /\ h \in [0..a -> 0..2] /\ h[0] = a /\ h[a] = 0
      /\ \A i \in 1..a : h[i] = h[i - 1] + (-1)
  OBVIOUS
<1> HIDE DEF h
<1>5. Change(unlock) = -1 /\ ~Opens(unlock)
  BY <1>1 DEF Change, Opens
<1>6. \A i \in 1..a : h[i] = h[i - 1] + Change(s[i])
  BY <1>3, <1>4, <1>5
<1>7. Depths(h, s, 2)
  BY <1>3, <1>4, <1>6 DEF Depths
<1>8. Paired(s)
  BY <1>1, <1>3 DEF Paired
<1>9. Shielded(s, h)
  BY <1>3, <1>5 DEF Shielded
<1> QED BY <1>3, <1>4, <1>7, <1>8, <1>9 DEF Remaining

\* When nothing is left, nothing is held.
LEMMA NothingRemains ==
  ASSUME NEW a, NEW shield \in BOOLEAN, Remaining(<<>>, a, shield)
  PROVE  a = 0
<1>1. Len(<<>>) = 0
  OBVIOUS
<1> QED BY <1>1 DEF Remaining

-----------------------------------------------------------------------------
(* The invariant. *)

Operations ==
  [do : {"read", "write"}, field : Names, steps : Seq(Steps), exact : Seq(Seq(Bits)),
   word : Seq(Bits), got : Seq(Bits), wrote : BOOLEAN, ok : BOOLEAN]

\* The steps that are left release the lock, and a word that was read is for the next one.
OperationOK(o, h) ==
  /\ o \in Operations /\ Len(o.word) \in {0} \cup Widths
  /\ Remaining(o.steps, h, Windowed(o.field))
  /\ o.ok /\ o.word # <<>> =>
       /\ o.steps # <<>> /\ Head(o.steps).do = "store"
       /\ Len(o.word) = Head(o.steps).word.width

Causes == {"partial", "unlocked", "unpreserved", "stale"}

FieldsInv ==
  /\ mem \in Memories /\ taint \subseteq Causes
  /\ owner \in {"none", "evaluation", "firmware"} /\ held \in 0..2
  /\ owner = "evaluation" <=> held > 0
  /\ (op = NoOp /\ held = 0) \/ OperationOK(op, held)

\* An operation that is under way differs from no operation.
LEMMA OperationIsNotIdle ==
  ASSUME NEW o \in Operations
  PROVE  o # NoOp
<1>1. o.do \in {"read", "write"}
  BY DEF Operations
<1>2. NoOp.do = "none"
  BY DEF NoOp
<1> QED BY <1>1, <1>2

\* Every field is one of a bank or an index, or it is not.
LEMMA WindowedIs ==
  ASSUME NEW f \in Names
  PROVE  Windowed(f) \in BOOLEAN
BY DEF Windowed

\* What an assignment to one part of an operation leaves alone.
LEMMA StepsChange ==
  ASSUME NEW o \in Operations, NEW s \in Seq(Steps), NEW p, p = [o EXCEPT !.steps = s]
  PROVE  /\ p \in Operations /\ p.steps = s /\ p.field = o.field /\ p.word = o.word /\ p.ok = o.ok
         /\ p.do = o.do /\ p.got = o.got
BY DEF Operations

\* The word that was loaded changes alone.
LEMMA WordChange ==
  ASSUME NEW o \in Operations, NEW w \in Seq(Bits), NEW p, p = [o EXCEPT !.word = w]
  PROVE  /\ p \in Operations /\ p.steps = o.steps /\ p.field = o.field /\ p.word = w /\ p.ok = o.ok
         /\ p.do = o.do /\ p.got = o.got
BY DEF Operations

\* The bits that were read change alone.
LEMMA GotChange ==
  ASSUME NEW o \in Operations, NEW g \in Seq(Bits), NEW p, p = [o EXCEPT !.got = g]
  PROVE  /\ p \in Operations /\ p.steps = o.steps /\ p.field = o.field /\ p.word = o.word /\ p.ok = o.ok
         /\ p.do = o.do /\ p.got = g
BY DEF Operations

\* The note that something was written changes alone.
LEMMA WroteChange ==
  ASSUME NEW o \in Operations, NEW p, p = [o EXCEPT !.wrote = TRUE]
  PROVE  /\ p \in Operations /\ p.steps = o.steps /\ p.field = o.field /\ p.word = o.word /\ p.ok = o.ok
         /\ p.do = o.do /\ p.got = o.got
BY DEF Operations

\* The success of the operation changes alone.
LEMMA OkChange ==
  ASSUME NEW o \in Operations, NEW p, p = [o EXCEPT !.ok = FALSE]
  PROVE  /\ p \in Operations /\ p.steps = o.steps /\ p.field = o.field /\ p.word = o.word /\ p.ok = FALSE
         /\ p.do = o.do /\ p.got = o.got
BY DEF Operations

\* No operation is under way at first, and the global lock is free.
LEMMA InitHasInv ==
  ASSUME Init
  PROVE  FieldsInv
<1> DEFINE region == [p \in 0..((Chars + Cells) * CharBit - 1) |-> (p \div 2) % 2]
           buffer == [i \in 1..(2 * CharBit) |-> i % 2]
<1>1. /\ mem = [region |-> region, buffer |-> buffer]
      /\ owner = "none" /\ held = 0 /\ op = NoOp /\ taint = {}
  BY DEF Init
<1>2. region \in [RegionBits -> Bits]
  <2>1. \A p \in RegionBits : (p \div 2) % 2 \in Bits
    BY DEF RegionBits, Bits
  <2> QED BY <2>1 DEF RegionBits
<1>3. buffer \in Seq(Bits)
  <2>1. PICK n \in Nat : n = 2 * CharBit
    BY Lengths
  <2>2. \A i \in 1..n : i % 2 \in Bits
    BY DEF Bits
  <2>3. buffer \in [1..n -> Bits]
    BY <2>1, <2>2
  <2> QED BY <2>3, FunctionIsSequence
<1> HIDE DEF region, buffer
<1>4. mem \in Memories
  BY <1>1, <1>2, <1>3 DEF Memories
<1> QED BY <1>1, <1>4 DEF FieldsInv

\* An operation begins with a program.
LEMMA BeginKeepsInv ==
  ASSUME FieldsInv, NEW do \in {"read", "write"}, NEW f \in Names,
         NEW steps \in Programs(2, Windowed(f)), NEW exact \in Seq(Seq(Bits)),
         Begin(do, f, steps, exact), taint' \subseteq Causes
  PROVE  FieldsInv'
<1> DEFINE o == [do |-> do, field |-> f, steps |-> steps, exact |-> exact,
                 word |-> <<>>, got |-> <<>>, wrote |-> FALSE, ok |-> TRUE]
<1>1. op = NoOp /\ op' = o /\ UNCHANGED <<mem, owner, held>>
  BY DEF Begin, Idle
<1>2. held = 0
  BY <1>1, OperationIsNotIdle DEF FieldsInv, OperationOK
<1>3. steps \in Seq(Steps) /\ Remaining(steps, 0, Windowed(f))
  BY WindowedIs, ProgramRemains
<1>4. o \in Operations /\ o.word = <<>> /\ o.steps = steps /\ o.field = f
  <2>1. <<>> \in Seq(Bits)
    OBVIOUS
  <2> QED BY <2>1, <1>3 DEF Operations
<1> HIDE DEF o
<1>5. OperationOK(o, 0)
  <2>1. Len(<<>>) = 0
    OBVIOUS
  <2> QED BY <2>1, <1>3, <1>4 DEF OperationOK
<1> QED BY <1>1, <1>2, <1>5 DEF FieldsInv

\* The writes of several pieces, one after another.
LEMMA PiecesKeepInv ==
  ASSUME FieldsInv, NEW f \in Names, NEW pieces \in Seq(Seq(Bits)), NEW exact \in Seq(Seq(Bits)),
         WritePieces(f, pieces, exact)
  PROVE  FieldsInv'
<1> DEFINE parts == [j \in DOMAIN pieces |-> UnitWrite(f, pieces[j], TRUE)]
<1>1. PICK shield \in BOOLEAN : shield = Windowed(f)
  BY WindowedIs
<1>2. PICK m \in Nat : DOMAIN pieces = 1..m /\ \A j \in 1..m : pieces[j] \in Seq(Bits)
  BY LenProperties, ElementOfSeq
<1>3. \A j \in 1..m : UnitWrite(f, pieces[j], TRUE) \in Programs(2, shield)
  <2>1. PICK truncate \in BOOLEAN : truncate = TRUE
    OBVIOUS
  <2>2. \A j \in 1..m : UnitWrite(f, pieces[j], truncate) \in Programs(2, Windowed(f))
    BY <1>2, UnitWriteIs
  <2> QED BY <2>1, <2>2, <1>1
<1>4. parts \in [1..m -> Programs(2, shield)]
  BY <1>2, <1>3
<1>5. parts \in Seq(Programs(2, shield))
  BY <1>4, FunctionIsSequence
<1> HIDE DEF parts
<1>6. FlattenSeq(parts) \in Programs(2, shield)
  BY <1>5, ProgramsFlatten
<1>7. FlattenSeq(parts) \in Programs(2, Windowed(f))
  BY <1>1, <1>6
<1>8. Begin("write", f, FlattenSeq(parts), exact)
  BY DEF WritePieces, parts
<1>9. taint' \subseteq Causes
  BY DEF WritePieces, FieldsInv, Causes
<1> QED BY <1>7, <1>8, <1>9, BeginKeepsInv

\* AmlConvIntegerToFieldUnit begins a write.
LEMMA StoreIntegerKeepsInv ==
  ASSUME FieldsInv, NEW f \in Names, NEW data \in Stored, StoreInteger(f, data)
  PROVE  FieldsInv'
<1>1. data \in Seq(Bits)
  BY FieldAssumption
<1>2. UnitWrite(f, data, FALSE) \in Programs(2, Windowed(f))
  <2>1. PICK truncate \in BOOLEAN : truncate = FALSE
    OBVIOUS
  <2> QED BY <1>1, <2>1, UnitWriteIs
<1>3. Begin("write", f, UnitWrite(f, data, FALSE), <<data>>) /\ taint' = taint
  BY DEF StoreInteger
<1>4. <<data>> \in Seq(Seq(Bits)) /\ taint' \subseteq Causes
  BY <1>1, <1>3 DEF FieldsInv
<1> QED BY <1>2, <1>3, <1>4, BeginKeepsInv

\* AmlConvBufferToFieldUnit begins a write of one piece after the other.
LEMMA StoreBufferKeepsInv ==
  ASSUME FieldsInv, NEW f \in Names, NEW data \in Stored, StoreBuffer(f, data)
  PROVE  FieldsInv'
<1>1. data \in Seq(Bits)
  BY FieldAssumption
<1>2. PICK n \in Nat \ {0} : n = FieldOf[f].len
  BY FieldRecord
<1>3. <<data>> \in Seq(Seq(Bits)) /\ Chunks(data, n) \in Seq(Seq(Bits)) /\ Cut(data, n) \in Seq(Seq(Bits))
  BY <1>1, ChunksAre, CutIs
<1>4. WritePieces(f, <<data>>, <<data>>) \/ WritePieces(f, Chunks(data, n), Cut(data, n))
  BY <1>2 DEF StoreBuffer
<1> QED BY <1>3, <1>4, PiecesKeepInv

\* AmlConvStringToFieldUnit begins a write of one character after the other.
LEMMA StoreStringKeepsInv ==
  ASSUME FieldsInv, NEW f \in Names, NEW data \in Stored, StoreString(f, data)
  PROVE  FieldsInv'
<1>1. data \in Seq(Bits)
  BY FieldAssumption
<1>2. <<data>> \in Seq(Seq(Bits)) /\ Cut(data, CharBit) \in Seq(Seq(Bits))
  BY <1>1, Lengths, CutIs
<1>3. WritePieces(f, <<data>>, <<data>>) \/ WritePieces(f, Cut(data, CharBit), Cut(data, CharBit))
  BY DEF StoreString
<1> QED BY <1>2, <1>3, PiecesKeepInv

\* AmlConvFieldUnitStore begins a read.
LEMMA LoadKeepsInv ==
  ASSUME FieldsInv, NEW f \in Names, Load(f)
  PROVE  FieldsInv'
<1> DEFINE n == CharBit * Larger(CharsFor(FieldOf[f].len), IntChars)
<1>1. Begin("read", f, UnitRead(f, n), <<>>) /\ taint' = taint
  BY DEF Load, ResultBits
<1>2. n \in Nat \ {0}
  <2>1. PICK a \in Nat : a = CharsFor(FieldOf[f].len)
    <3>1. FieldOf[f].len \in Nat
      BY FieldRecord
    <3> QED BY <3>1, CharsForIs
  <2>2. Larger(a, IntChars) \in Nat \ {0}
    BY FieldAssumption DEF Larger
  <2>3. PICK b \in Nat \ {0} : b = Larger(CharsFor(FieldOf[f].len), IntChars)
    BY <2>1, <2>2
  <2>4. PICK c \in Nat \ {0} : c = CharBit
    BY Lengths
  <2>5. c * b \in Nat \ {0}
    OBVIOUS
  <2> QED BY <2>3, <2>4, <2>5
<1> HIDE DEF n
<1>3. UnitRead(f, n) \in Programs(2, Windowed(f))
  BY <1>2, UnitReadIs
<1>4. <<>> \in Seq(Seq(Bits)) /\ taint' \subseteq Causes
  BY <1>1 DEF FieldsInv
<1> QED BY <1>1, <1>3, <1>4, BeginKeepsInv

\* A store to the buffer leaves the region alone.
LEMMA StoreToBufferKeepsInv ==
  ASSUME FieldsInv, NEW data \in Stored, StoreToBuffer(data)
  PROVE  FieldsInv' /\ mem'.region = mem.region
<1>1. data \in Seq(Bits)
  BY FieldAssumption
<1>2. mem' = [mem EXCEPT !.buffer = data] /\ UNCHANGED <<owner, held, op, taint>>
  BY DEF StoreToBuffer
<1>3. mem' \in Memories /\ mem'.region = mem.region
  BY <1>1, <1>2 DEF FieldsInv, Memories
<1> QED BY <1>2, <1>3 DEF FieldsInv

-----------------------------------------------------------------------------
(* The steps. *)

\* A failure leaves nothing but the release of what is held.
LEMMA FailKeepsInv ==
  ASSUME FieldsInv, ~Idle, Fail
  PROVE  FieldsInv' /\ mem' = mem
<1>1. op \in Operations /\ held \in 0..2 /\ Len(op.word) \in {0} \cup Widths /\ op.field \in Names
  <2>1. OperationOK(op, held) /\ held \in 0..2
    BY DEF FieldsInv, Idle
  <2> QED BY <2>1 DEF OperationOK, Operations
<1>2. PICK s : s = [i \in 1..held |-> [do |-> "unlock"]]
  OBVIOUS
<1>3. s \in Seq(Steps) /\ Remaining(s, held, Windowed(op.field))
  BY <1>1, <1>2, WindowedIs, RemainingOfFailure
<1>4. PICK mid : mid = [op EXCEPT !.ok = FALSE]
  OBVIOUS
<1>5. op' = [mid EXCEPT !.steps = s]
  BY <1>2, <1>4 DEF Fail
<1>6. mid \in Operations /\ mid.field = op.field /\ mid.word = op.word /\ mid.ok = FALSE
  BY <1>1, <1>4, OkChange
<1>7. /\ op' \in Operations /\ op'.steps = s /\ op'.field = op.field /\ op'.word = op.word
      /\ op'.ok = FALSE
  BY <1>3, <1>5, <1>6, StepsChange
<1>8. OperationOK(op', held)
  BY <1>1, <1>3, <1>7 DEF OperationOK
<1>9. UNCHANGED <<mem, owner, held>> /\ taint' \subseteq Causes
  BY DEF Fail, FieldsInv, Causes
<1> QED BY <1>8, <1>9 DEF FieldsInv

\* The step that is next, and what is left when it has been taken.
LEMMA StepIs ==
  ASSUME FieldsInv, ~Idle, op.steps # <<>>
  PROVE  /\ op \in Operations /\ op.field \in Names /\ held \in 0..2
         /\ Len(op.word) \in {0} \cup Widths /\ op.word \in Seq(Bits)
         /\ Head(op.steps) \in Steps /\ Tail(op.steps) \in Seq(Steps)
         /\ held + Change(Head(op.steps)) \in 0..2
         /\ Remaining(Tail(op.steps), held + Change(Head(op.steps)), Windowed(op.field))
         /\ Head(op.steps).do = "load" =>
              /\ Tail(op.steps) # <<>> /\ Head(Tail(op.steps)).do = "store"
              /\ Head(Tail(op.steps)).word = Head(op.steps).word
         /\ op.ok /\ op.word # <<>> =>
              Head(op.steps).do = "store" /\ Len(op.word) = Head(op.steps).word.width
         /\ Len(Tail(op.steps)) < Len(op.steps)
<1>1. OperationOK(op, held) /\ held \in 0..2
  BY DEF FieldsInv, Idle
<1>2. op \in Operations /\ op.field \in Names /\ op.steps \in Seq(Steps) /\ op.word \in Seq(Bits)
  BY <1>1 DEF OperationOK, Operations
<1>3. PICK shield \in BOOLEAN : shield = Windowed(op.field)
  BY <1>2, WindowedIs
<1>4. PICK s \in Seq(Steps) : s = op.steps
  BY <1>2
<1>5. Remaining(s, held, shield)
  BY <1>1, <1>3, <1>4 DEF OperationOK
<1>6. /\ Tail(s) \in Seq(Steps) /\ Remaining(Tail(s), held + Change(Head(s)), shield)
      /\ held + Change(Head(s)) \in 0..2 /\ Head(s) \in Steps
      /\ Len(Tail(s)) < Len(s)
      /\ Head(s).do = "load" =>
           /\ Tail(s) # <<>> /\ Head(Tail(s)).do = "store"
           /\ Head(Tail(s)).word = Head(s).word
  BY <1>4, <1>5, RemainingTail
<1> QED BY <1>1, <1>2, <1>3, <1>4, <1>6 DEF OperationOK

\* The next step is taken, and an operation that differs in its data goes on.
LEMMA AdvanceKeepsOperation ==
  ASSUME FieldsInv, ~Idle, op.steps # <<>>, NEW o \in Operations,
         o.field = op.field, o.steps = op.steps, o.ok = op.ok,
         Len(o.word) \in {0} \cup Widths,
         o.ok /\ o.word # <<>> =>
           /\ Head(op.steps).do = "load" /\ Len(o.word) = Head(op.steps).word.width,
         Advance(o)
  PROVE  OperationOK(op', held + Change(Head(op.steps))) /\ op' # op
<1>1. PICK t \in Seq(Steps) : t = Tail(op.steps)
  BY StepIs
<1>2. op' = [o EXCEPT !.steps = t]
  BY <1>1 DEF Advance
<1>3. /\ op' \in Operations /\ op'.steps = t /\ op'.field = op.field /\ op'.word = o.word
      /\ op'.ok = o.ok
  BY <1>2, StepsChange
<1>4. Remaining(op'.steps, held + Change(Head(op.steps)), Windowed(op'.field))
  BY <1>1, <1>3, StepIs
<1>5. op'.ok /\ op'.word # <<>> =>
        /\ op'.steps # <<>> /\ Head(op'.steps).do = "store"
        /\ Len(op'.word) = Head(op'.steps).word.width
  BY <1>1, <1>3, StepIs
<1>6. op' # op
  <2>1. Len(t) < Len(op.steps) /\ Len(t) \in Nat /\ op.steps \in Seq(Steps)
    BY <1>1, StepIs DEF Operations
  <2>2. op'.steps # op.steps
    BY <2>1, <1>3
  <2> QED BY <2>2
<1> QED BY <1>3, <1>4, <1>5, <1>6 DEF OperationOK

\* The kinds of steps.
LEMMA StepKinds ==
  ASSUME NEW step \in Steps
  PROVE  /\ step.do \in {"read", "load", "store"} => step.word \in WordRecords
         /\ step.do = "store" => step \in Stores
         /\ step.do = "bufferwrite" => step.data \in Seq(Bits)
BY DEF Steps, Plain, Accesses, Stores, BufferStores

\* A step changes the device only if the operation goes on with it, or if the firmware
\* has the lock.
Orderly == mem'.region = mem.region \/ op' # op \/ owner = "firmware"

\* A region that refuses an access ends the operation but for the releases.
LEMMA RefusedKeepsInv ==
  ASSUME FieldsInv, Refused \/ AcquireFails
  PROVE  FieldsInv' /\ Orderly
<1>1. ~Idle /\ Fail
  BY DEF Refused, AcquireFails, At
<1> QED BY <1>1, FailKeepsInv DEF Orderly

\* AmlMutexAcquire deepens the hold by one, or fails and ends the operation.
LEMMA AcquireKeepsInv ==
  ASSUME FieldsInv, Acquire
  PROVE  FieldsInv' /\ Orderly
<1>1. /\ ~Idle /\ op.steps # <<>> /\ op.ok /\ Head(op.steps).do = "lock"
      /\ owner' = "evaluation" /\ held' = held + 1 /\ Advance(op) /\ UNCHANGED <<mem, taint>>
  BY DEF Acquire, At
<1>2. Change(Head(op.steps)) = 1
  BY <1>1 DEF Change
<1>3. OperationOK(op', held + Change(Head(op.steps)))
  BY <1>1, StepIs, AdvanceKeepsOperation
<1>4. held + 1 \in 0..2 /\ held \in 0..2
  BY <1>1, <1>2, StepIs
<1>5. OperationOK(op', held')
  BY <1>1, <1>2, <1>3
<1>6. held' \in 0..2 /\ held' > 0
  BY <1>1, <1>4
<1> QED BY <1>1, <1>5, <1>6 DEF FieldsInv, Orderly

\* AmlMutexRelease gives back one hold, and the lock with the last.
LEMMA ReleaseKeepsInv ==
  ASSUME FieldsInv, Release
  PROVE  FieldsInv' /\ Orderly
<1>1. /\ ~Idle /\ op.steps # <<>> /\ Head(op.steps).do = "unlock"
      /\ held' = held - 1 /\ owner' = (IF held = 1 THEN "none" ELSE owner)
      /\ Advance(op) /\ UNCHANGED <<mem, taint>>
  BY DEF Release
<1>2. Change(Head(op.steps)) = -1
  BY <1>1 DEF Change
<1>3. OperationOK(op', held + Change(Head(op.steps)))
  BY <1>1, StepIs, AdvanceKeepsOperation
<1>4. held + (-1) \in 0..2 /\ held \in 0..2
  BY <1>1, <1>2, StepIs
<1>5. held' = held + (-1)
  BY <1>1, <1>4
<1>6. OperationOK(op', held')
  BY <1>2, <1>3, <1>5
<1>7. held' \in 0..2 /\ owner = "evaluation" /\ (held' > 0 <=> held # 1)
  BY <1>4, <1>5 DEF FieldsInv
<1>8. owner' \in {"none", "evaluation"} /\ (owner' = "evaluation" <=> held' > 0)
  BY <1>1, <1>7
<1> QED BY <1>1, <1>6, <1>7, <1>8 DEF FieldsInv, Orderly

\* Steps that are no locks.
LEMMA UnlockedKeepsInv ==
  ASSUME FieldsInv, UNCHANGED <<owner, held, taint>>, mem' \in Memories,
         OperationOK(op', held + Change(Head(op.steps))) /\ op' # op,
         ~ForLock(Head(op.steps))
  PROVE  FieldsInv' /\ Orderly
<1>1. Change(Head(op.steps)) = 0
  BY DEF Change, ForLock
<1>2. held \in 0..2
  BY DEF FieldsInv
<1>3. OperationOK(op', held')
  BY <1>1, <1>2
<1> QED BY <1>3 DEF FieldsInv, Orderly

\* The bits of a word are appended to those that were read.
LEMMA Appended ==
  ASSUME NEW s \in Seq(Bits), NEW t \in Seq(Bits)
  PROVE  s \o t \in Seq(Bits)
  BY ConcatProperties

\* AmlOperationRegionRead for a word of the field writes nothing.
LEMMA ReadWordKeepsInv ==
  ASSUME FieldsInv, ReadWord
  PROVE  FieldsInv' /\ Orderly
<1> DEFINE bits == [j \in 1..Word.count |-> RegionBit(mem, Word.at + Word.offset + j - 1)]
<1>1. /\ ~Idle /\ op.steps # <<>> /\ op.ok /\ Head(op.steps).do = "read" /\ Valid(Word)
      /\ Advance([op EXCEPT !.got = @ \o bits]) /\ UNCHANGED <<mem, owner, held, taint>>
  BY DEF ReadWord, At
<1>2. op \in Operations /\ op.got \in Seq(Bits) /\ mem \in Memories
  BY <1>1, StepIs DEF Operations, FieldsInv
<1>3. Word \in WordRecords
  BY <1>1, StepIs, StepKinds DEF Word
<1>4. PICK w \in WordRecords : w = Word /\ Valid(w)
  BY <1>1, <1>3
<1>5. bits \in Seq(Bits)
  <2>1. /\ w.count \in Nat /\ w.offset \in Nat /\ w.width \in Nat /\ w.at \in Nat
        /\ w.offset + w.count <= w.width
    BY DEF WordRecords
  <2>2. ASSUME NEW j \in 1..w.count PROVE RegionBit(mem, w.at + w.offset + j - 1) \in Bits
    <3>1. PICK k \in 1..w.width : k = w.offset + j
      BY <2>1
    <3>2. w.at + k - 1 \in 0..(Chars * CharBit - 1)
      BY <1>4, ValidWord
    <3>3. w.at + w.offset + j - 1 = w.at + k - 1
      BY <2>1, <3>1
    <3> QED BY <3>2, <3>3, <1>2, RegionBitIs
  <2>3. bits \in [1..w.count -> Bits]
    BY <2>2, <1>4
  <2> QED BY <2>1, <2>3, FunctionIsSequence
<1> HIDE DEF bits
<1>6. PICK g \in Seq(Bits) : g = op.got \o bits
  BY <1>2, <1>5, Appended
<1>7. PICK o : o = [op EXCEPT !.got = g]
  OBVIOUS
<1>8. Advance(o)
  BY <1>1, <1>6, <1>7
<1>9. o \in Operations /\ o.steps = op.steps /\ o.field = op.field /\ o.word = op.word /\ o.ok = op.ok
  BY <1>2, <1>7, GotChange
<1>10. OperationOK(op', held + Change(Head(op.steps))) /\ op' # op
  BY <1>1, <1>8, <1>9, StepIs, AdvanceKeepsOperation
<1>11. ~ForLock(Head(op.steps)) /\ mem' \in Memories
  BY <1>1, <1>2 DEF ForLock
<1> QED BY <1>1, <1>10, <1>11, UnlockedKeepsInv

\* The read before a write is followed by its store.
LEMMA LoadWordKeepsInv ==
  ASSUME FieldsInv, LoadWord
  PROVE  FieldsInv' /\ Orderly
<1> DEFINE bits == [j \in 1..Word.width |-> RegionBit(mem, Word.at + j - 1)]
<1>1. /\ ~Idle /\ op.steps # <<>> /\ op.ok /\ Head(op.steps).do = "load" /\ Valid(Word)
      /\ Advance([op EXCEPT !.word = bits]) /\ UNCHANGED <<mem, owner, held, taint>>
  BY DEF LoadWord, At
<1>2. op \in Operations /\ mem \in Memories
  BY <1>1, StepIs DEF FieldsInv
<1>3. Word \in WordRecords /\ Word = Head(op.steps).word
  BY <1>1, StepIs, StepKinds DEF Word
<1>4. PICK w \in WordRecords : w = Word /\ Valid(w)
  BY <1>1, <1>3
<1>5. bits \in Seq(Bits) /\ Len(bits) = w.width /\ w.width \in Widths
  <2>1. w.width \in Nat /\ w.width \in Widths
    BY DEF WordRecords
  <2>2. ASSUME NEW j \in 1..w.width PROVE RegionBit(mem, w.at + j - 1) \in Bits
    <3>1. w.at + j - 1 \in 0..(Chars * CharBit - 1)
      BY <1>4, ValidWord
    <3> QED BY <3>1, <1>2, RegionBitIs
  <2>3. bits \in [1..w.width -> Bits]
    BY <2>2, <1>4
  <2> QED BY <2>1, <2>3, FunctionIsSequence
<1> HIDE DEF bits
<1>6. PICK o : o = [op EXCEPT !.word = bits]
  OBVIOUS
<1>7. Advance(o)
  BY <1>1, <1>6
<1>8. o \in Operations /\ o.steps = op.steps /\ o.field = op.field /\ o.word = bits /\ o.ok = op.ok
  BY <1>2, <1>5, <1>6, WordChange
<1>9. OperationOK(op', held + Change(Head(op.steps))) /\ op' # op
  BY <1>1, <1>3, <1>4, <1>5, <1>7, <1>8, AdvanceKeepsOperation
<1>10. ~ForLock(Head(op.steps)) /\ mem' \in Memories
  BY <1>1, <1>2 DEF ForLock
<1> QED BY <1>1, <1>9, <1>10, UnlockedKeepsInv

\* AmlOperationRegionWrite uses up the word that was loaded.
LEMMA StoreWordKeepsInv ==
  ASSUME FieldsInv, StoreWord
  PROVE  FieldsInv' /\ Orderly
<1>1. /\ ~Idle /\ op.steps # <<>> /\ op.ok /\ Head(op.steps).do = "store"
      /\ mem' = Written(mem, Word.at, Word.width, NewWord(Head(op.steps), op.word))
      /\ Advance([op EXCEPT !.word = <<>>, !.wrote = TRUE]) /\ UNCHANGED <<owner, held, taint>>
  BY DEF StoreWord, At
<1>2. op \in Operations /\ mem \in Memories /\ op.word \in Seq(Bits)
  BY <1>1, StepIs DEF FieldsInv
<1>3. PICK step \in Stores : step = Head(op.steps) /\ Word = step.word
  BY <1>1, StepIs, StepKinds DEF Word
<1>4. op.word = <<>> \/ Len(op.word) = step.word.width
  BY <1>1, <1>3, StepIs
<1>5. step.word.width \in Nat /\ NewWord(step, op.word) \in [0..(step.word.width - 1) -> Bits]
  BY <1>2, <1>4, NewWordIs
<1>6. mem' \in Memories
  BY <1>1, <1>2, <1>3, <1>5, WrittenIs
<1>7. PICK none \in Seq(Bits) : none = <<>> /\ Len(none) = 0
  <2>1. <<>> \in Seq(Bits) /\ Len(<<>>) = 0
    OBVIOUS
  <2> QED BY <2>1
<1>8. PICK mid : mid = [op EXCEPT !.word = none]
  OBVIOUS
<1>9. PICK o : o = [mid EXCEPT !.wrote = TRUE]
  OBVIOUS
<1>10. Advance(o)
  BY <1>1, <1>7, <1>8, <1>9
<1>11. <<>> \in Seq(Bits) /\ Len(<<>>) = 0
  OBVIOUS
<1>12. mid \in Operations /\ mid.steps = op.steps /\ mid.field = op.field /\ mid.word = none /\ mid.ok = op.ok
  BY <1>2, <1>8, WordChange
<1>13. o \in Operations /\ o.steps = op.steps /\ o.field = op.field /\ o.word = <<>> /\ o.ok = op.ok
  BY <1>7, <1>9, <1>12, WroteChange
<1>14. OperationOK(op', held + Change(Head(op.steps))) /\ op' # op
  BY <1>1, <1>10, <1>11, <1>13, AdvanceKeepsOperation
<1>15. ~ForLock(Head(op.steps))
  BY <1>1 DEF ForLock
<1> QED BY <1>1, <1>6, <1>14, <1>15, UnlockedKeepsInv

\* AmlBufferFieldRead, also of a buffer that has become too short.
LEMMA ReadBufferKeepsInv ==
  ASSUME FieldsInv, ReadBuffer
  PROVE  FieldsInv' /\ Orderly
<1>1. ~Idle /\ op.steps # <<>> /\ op.ok /\ Head(op.steps).do = "bufferread"
  BY DEF ReadBuffer, At
<1>2. op \in Operations /\ op.field \in Names /\ mem \in Memories /\ mem.buffer \in Seq(Bits)
  BY <1>1, StepIs DEF FieldsInv, Memories
<1>3. CASE Fail
  BY <1>1, <1>3, FailKeepsInv DEF Orderly
<1>4. CASE ~Fail
  <2> DEFINE r == FieldOf[op.field]
             g == CopyBits(mem.buffer, r.off, r.len, Zeros(r.len), 0)
  <2>1. Advance([op EXCEPT !.got = g]) /\ UNCHANGED <<mem, owner, held, taint>>
    BY <1>4 DEF ReadBuffer
  <2>2. g \in Seq(Bits)
    <3>1. r.off \in Nat /\ r.len \in Nat /\ 0 \in Nat
      BY <1>2, FieldRecord
    <3> QED BY <3>1, <1>2, ZerosIs, CopyBitsIs
  <2> HIDE DEF g
  <2>3. PICK o : o = [op EXCEPT !.got = g]
    OBVIOUS
  <2>4. o \in Operations /\ o.steps = op.steps /\ o.field = op.field /\ o.word = op.word /\ o.ok = op.ok
    BY <1>2, <2>2, <2>3, GotChange
  <2>5. OperationOK(op', held + Change(Head(op.steps))) /\ op' # op
    BY <1>1, <2>1, <2>3, <2>4, StepIs, AdvanceKeepsOperation
  <2>6. ~ForLock(Head(op.steps)) /\ mem' \in Memories
    BY <1>1, <1>2, <2>1 DEF ForLock
  <2> QED BY <2>1, <2>5, <2>6, UnlockedKeepsInv
<1> QED BY <1>3, <1>4

\* AmlBufferFieldWrite, also of a buffer that has become too short.
LEMMA WriteBufferKeepsInv ==
  ASSUME FieldsInv, WriteBuffer
  PROVE  FieldsInv' /\ Orderly
<1>1. ~Idle /\ op.steps # <<>> /\ op.ok /\ Head(op.steps).do = "bufferwrite"
  BY DEF WriteBuffer, At
<1>2. op \in Operations /\ op.field \in Names /\ mem \in Memories /\ mem.buffer \in Seq(Bits)
  BY <1>1, StepIs DEF FieldsInv, Memories
<1>3. CASE Fail
  BY <1>1, <1>3, FailKeepsInv DEF Orderly
<1>4. CASE ~Fail
  <2> DEFINE r == FieldOf[op.field]
             buffer == CopyBits(Head(op.steps).data, 0, r.len, mem.buffer, r.off)
  <2>1. /\ mem' = [mem EXCEPT !.buffer = buffer]
        /\ Advance([op EXCEPT !.wrote = TRUE]) /\ UNCHANGED <<owner, held, taint>>
    BY <1>4 DEF WriteBuffer
  <2>2. buffer \in Seq(Bits)
    <3>1. r.off \in Nat /\ r.len \in Nat /\ 0 \in Nat
      BY <1>2, FieldRecord
    <3>2. Head(op.steps).data \in Seq(Bits)
      BY <1>1, StepIs, StepKinds
    <3> QED BY <3>1, <3>2, <1>2, CopyBitsIs
  <2> HIDE DEF buffer
  <2>3. mem' \in Memories
    BY <1>2, <2>1, <2>2 DEF Memories
  <2>4. PICK o : o = [op EXCEPT !.wrote = TRUE]
    OBVIOUS
  <2>5. o \in Operations /\ o.steps = op.steps /\ o.field = op.field /\ o.word = op.word /\ o.ok = op.ok
    BY <1>2, <2>4, WroteChange
  <2>6. OperationOK(op', held + Change(Head(op.steps))) /\ op' # op
    BY <1>1, <2>1, <2>4, <2>5, StepIs, AdvanceKeepsOperation
  <2>7. ~ForLock(Head(op.steps))
    BY <1>1 DEF ForLock
  <2> QED BY <2>1, <2>3, <2>6, <2>7, UnlockedKeepsInv
<1> QED BY <1>3, <1>4

\* An operation that has ended holds nothing.
LEMMA FinishKeepsInv ==
  ASSUME FieldsInv, Finish
  PROVE  FieldsInv' /\ Orderly
<1>1. ~Idle /\ op.steps = <<>> /\ op' = NoOp /\ UNCHANGED <<mem, owner, held, taint>>
  BY DEF Finish
<1>2. OperationOK(op, held)
  BY <1>1 DEF FieldsInv, Idle
<1>3. op.field \in Names
  BY <1>2 DEF OperationOK, Operations
<1>4. Remaining(<<>>, held, Windowed(op.field))
  BY <1>1, <1>2 DEF OperationOK
<1>5. held = 0
  BY <1>3, <1>4, WindowedIs, NothingRemains
<1> QED BY <1>1, <1>5 DEF FieldsInv, Orderly

\* The firmware has the lock when the evaluation does not.
LEMMA FirmwareKeepsInv ==
  ASSUME FieldsInv, Firmware
  PROVE  FieldsInv' /\ Orderly
<1>1. CASE FirmwareAcquire
  <2>1. owner = "none" /\ owner' = "firmware" /\ UNCHANGED <<mem, held, op, taint>>
    BY <1>1 DEF FirmwareAcquire
  <2> QED BY <2>1 DEF FieldsInv, Orderly
<1>2. CASE FirmwareWrite
  <2>1. PICK k \in 0..(Chars - 1) : \E p \in {k * CharBit} :
          mem' = Written(mem, p, 1, [i \in {0} |-> 1 - RegionBit(mem, p)])
    BY <1>2 DEF FirmwareWrite
  <2>2. PICK p : p = k * CharBit /\ mem' = Written(mem, p, 1, [i \in {0} |-> 1 - RegionBit(mem, p)])
    BY <2>1
  <2>3. owner = "firmware" /\ UNCHANGED <<owner, held, op>> /\ taint' \subseteq Causes
    BY <1>2 DEF FirmwareWrite, FieldsInv, Causes
  <2>4. p \in 0..(Chars * CharBit - 1)
    <3>1. k \in Nat /\ k + 1 \in Nat /\ k + 1 <= Chars /\ Chars \in Nat
      BY Lengths
    <3>2. PICK w \in Nat \ {0} : w = CharBit
      BY Lengths
    <3>3. (k + 1) * w <= Chars * w
      BY <3>1, ProductGrows
    <3>4. (k + 1) * w = k * w + w /\ k * w \in Nat
      BY <3>1
    <3>5. PICK x \in Nat, z \in Nat : x = k * w /\ z = Chars * w
      BY <3>1, <3>4
    <3> QED BY <2>2, <3>2, <3>3, <3>4, <3>5
  <2>5. mem \in Memories
    BY DEF FieldsInv
  <2>6. RegionBit(mem, p) \in Bits
    BY <2>4, <2>5, RegionBitIs
  <2>7. PICK n \in Nat : n = 1 /\ 0..(n - 1) = {0}
    OBVIOUS
  <2>8. PICK bs : bs = [i \in {0} |-> 1 - RegionBit(mem, p)]
    OBVIOUS
  <2>9. bs \in [0..(n - 1) -> Bits]
    BY <2>6, <2>7, <2>8 DEF Bits
  <2>10. Written(mem, p, n, bs) \in Memories
    BY <2>5, <2>9, WrittenIs
  <2>11. mem' \in Memories
    BY <2>2, <2>7, <2>8, <2>10
  <2> QED BY <2>3, <2>11 DEF FieldsInv, Orderly
<1>3. CASE FirmwareRelease
  <2>1. owner = "firmware" /\ owner' = "none" /\ UNCHANGED <<mem, held, op, taint>>
    BY <1>3 DEF FirmwareRelease
  <2> QED BY <2>1 DEF FieldsInv, Orderly
<1> QED BY <1>1, <1>2, <1>3 DEF Firmware

\* Every step keeps the invariant, and none changes the device out of turn.
LEMMA NextKeepsInv ==
  ASSUME FieldsInv, [Next]_vars
  PROVE  FieldsInv' /\ Orderly
<1>1. CASE UNCHANGED vars
  BY <1>1 DEF vars, FieldsInv, Orderly
<1>2. ASSUME NEW f \in Names, NEW data \in Stored,
             StoreInteger(f, data) \/ StoreBuffer(f, data) \/ StoreString(f, data)
      PROVE  FieldsInv' /\ Orderly
  <2>1. FieldsInv'
    BY <1>2, StoreIntegerKeepsInv, StoreBufferKeepsInv, StoreStringKeepsInv
  <2>2. mem' = mem
    BY <1>2 DEF StoreInteger, StoreBuffer, StoreString, WritePieces, Begin
  <2> QED BY <2>1, <2>2 DEF Orderly
<1>3. ASSUME NEW f \in Names, Load(f) PROVE FieldsInv' /\ Orderly
  <2>1. mem' = mem
    BY <1>3 DEF Load, Begin
  <2> QED BY <2>1, <1>3, LoadKeepsInv DEF Orderly
<1>4. ASSUME NEW data \in Stored, StoreToBuffer(data) PROVE FieldsInv' /\ Orderly
  BY <1>4, StoreToBufferKeepsInv DEF Orderly
<1>5. CASE Step
  BY <1>5, RefusedKeepsInv, AcquireKeepsInv, ReleaseKeepsInv, ReadWordKeepsInv, LoadWordKeepsInv,
     StoreWordKeepsInv, ReadBufferKeepsInv, WriteBufferKeepsInv, FinishKeepsInv DEF Step
<1>6. CASE Firmware
  BY <1>6, FirmwareKeepsInv
<1> QED BY <1>1, <1>2, <1>3, <1>4, <1>5, <1>6 DEF Next

\* The memory and the operation have their types, and what is left of an operation gives
\* back the lock as often as it is held, with the select registers before the window.
THEOREM FieldsStaySound == Spec => []FieldsInv
<1>1. Init => FieldsInv
  BY InitHasInv
<1>2. FieldsInv /\ [Next]_vars => FieldsInv'
  BY NextKeepsInv
<1> QED BY <1>1, <1>2, PTL DEF Spec

-----------------------------------------------------------------------------
(* The lock is balanced. *)

\* The depth is the number of releases that are left, less that of the acquisitions.
LEMMA DepthIsCounted ==
  ASSUME NEW s \in Seq(Steps), NEW a, NEW shield \in BOOLEAN, Remaining(s, a, shield)
  PROVE  a = Cardinality({i \in DOMAIN s : s[i].do = "unlock"})
               - Cardinality({i \in DOMAIN s : s[i].do = "lock"})
<1> DEFINE n == Len(s)
           Up(k) == {i \in 1..k : s[i].do = "unlock"}
           Down(k) == {i \in 1..k : s[i].do = "lock"}
<1>1. PICK h : Depths(h, s, 2) /\ h[0] = a /\ h[n] = 0
  BY DEF Remaining
<1>2. n \in Nat /\ DOMAIN s = 1..n
  BY LenProperties
<1>3. h \in [0..n -> 0..2] /\ \A i \in 1..n : h[i] = h[i - 1] + Change(s[i])
  BY <1>1 DEF Depths
<1> HIDE DEF n
<1> DEFINE Counted(k) ==
             /\ IsFiniteSet(Up(k)) /\ IsFiniteSet(Down(k))
             /\ Cardinality(Up(k)) \in Nat /\ Cardinality(Down(k)) \in Nat
             /\ a = h[k] + Cardinality(Up(k)) - Cardinality(Down(k))
           S == {k \in Nat : k <= n => Counted(k)}
<1>4. 0 \in S
  <2>1. Up(0) = {} /\ Down(0) = {}
    OBVIOUS
  <2>2. IsFiniteSet({}) /\ Cardinality({}) = 0
    BY FS_EmptySet
  <2>3. h[0] \in 0..2
    BY <1>2, <1>3
  <2>4. Counted(0)
    <3>1. /\ IsFiniteSet(Up(0)) /\ IsFiniteSet(Down(0))
          /\ Cardinality(Up(0)) = 0 /\ Cardinality(Down(0)) = 0
      BY <2>1, <2>2
    <3>2. a = h[0] + 0 - 0
      BY <2>3, <1>1
    <3> HIDE DEF Up, Down
    <3> QED BY <3>1, <3>2
  <2> HIDE DEF Counted
  <2> QED BY <2>4
<1>5. ASSUME NEW k \in Nat, k \in S PROVE k + 1 \in S
  <2> DEFINE l == k + 1
  <2> SUFFICES ASSUME l <= n
               PROVE  Counted(l)
    OBVIOUS
  <2>1. Counted(k)
    <3>1. k <= n
      BY <1>2
    <3> HIDE DEF Counted
    <3> QED BY <3>1, <1>5
  <2>2. h[l] = h[k] + Change(s[l]) /\ h[k] \in 0..2
    <3>1. l \in 1..n /\ l - 1 = k /\ k \in 0..n
      BY <1>2
    <3> QED BY <3>1, <1>3
  <2>3. l \notin Up(k) /\ l \notin Down(k)
    OBVIOUS
  <2>4. \A i \in 1..l : i \in 1..k \/ i = l
    OBVIOUS
  <2>5. l \in 1..l /\ \A i \in 1..k : i \in 1..l
    OBVIOUS
  <2>6. CASE s[l].do = "unlock"
    <3>1. Up(l) = Up(k) \cup {l} /\ Down(l) = Down(k)
      BY <2>4, <2>5, <2>6
    <3>2. Change(s[l]) = -1
      BY <2>6 DEF Change
    <3> HIDE DEF Up, Down, l
    <3>3. IsFiniteSet(Up(l)) /\ Cardinality(Up(l)) = Cardinality(Up(k)) + 1
      BY <2>1, <2>3, <3>1, FS_AddElement
    <3>4. h[l] = h[k] - 1
      BY <2>2, <3>2
    <3>5. a = h[l] + Cardinality(Up(l)) - Cardinality(Down(l))
      <4>1. PICK u \in Nat, d \in Nat, x \in 0..2 :
              u = Cardinality(Up(k)) /\ d = Cardinality(Down(k)) /\ x = h[k]
        BY <2>1, <2>2
      <4>2. a = x + u - d
        BY <2>1, <4>1
      <4>3. Cardinality(Up(l)) = u + 1 /\ Cardinality(Down(l)) = d /\ h[l] = x - 1
        BY <3>1, <3>3, <3>4, <4>1
      <4>4. x + u - d = (x - 1) + (u + 1) - d
        OBVIOUS
      <4> QED BY <4>2, <4>3, <4>4
    <3> QED BY <2>1, <3>1, <3>3, <3>5
  <2>7. CASE s[l].do = "lock"
    <3>1. Up(l) = Up(k) /\ Down(l) = Down(k) \cup {l}
      BY <2>4, <2>5, <2>7
    <3>2. Change(s[l]) = 1
      BY <2>7 DEF Change
    <3> HIDE DEF Up, Down, l
    <3>3. IsFiniteSet(Down(l)) /\ Cardinality(Down(l)) = Cardinality(Down(k)) + 1
      BY <2>1, <2>3, <3>1, FS_AddElement
    <3>4. h[l] = h[k] + 1
      BY <2>2, <3>2
    <3>5. a = h[l] + Cardinality(Up(l)) - Cardinality(Down(l))
      <4>1. PICK u \in Nat, d \in Nat, x \in 0..2 :
              u = Cardinality(Up(k)) /\ d = Cardinality(Down(k)) /\ x = h[k]
        BY <2>1, <2>2
      <4>2. a = x + u - d
        BY <2>1, <4>1
      <4>3. Cardinality(Up(l)) = u /\ Cardinality(Down(l)) = d + 1 /\ h[l] = x + 1
        BY <3>1, <3>3, <3>4, <4>1
      <4>4. x + u - d = (x + 1) + u - (d + 1)
        OBVIOUS
      <4> QED BY <4>2, <4>3, <4>4
    <3> QED BY <2>1, <3>1, <3>3, <3>5
  <2>8. CASE s[l].do \notin {"lock", "unlock"}
    <3>1. Up(l) = Up(k) /\ Down(l) = Down(k)
      BY <2>4, <2>5, <2>8
    <3>2. Change(s[l]) = 0
      BY <2>8 DEF Change
    <3> HIDE DEF Up, Down, l
    <3> QED BY <2>1, <2>2, <3>1, <3>2
  <2> QED BY <2>6, <2>7, <2>8
<1> HIDE DEF S
<1>6. n \in S
  BY <1>2, <1>4, <1>5, SetInduction
<1>7. Counted(n)
  <2>1. n <= n
    BY <1>2
  <2> HIDE DEF Counted
  <2> QED BY <1>6, <2>1 DEF S
<1>8. a = Cardinality(Up(n)) - Cardinality(Down(n))
  <2> HIDE DEF Up, Down
  <2> QED BY <1>1, <1>7
<1> QED BY <1>2, <1>8

\* The lock is held as often as releases are left over acquisitions.
LEMMA InvImpliesBalanced ==
  ASSUME FieldsInv
  PROVE  LockIsBalanced
<1>1. /\ owner \in {"none", "evaluation", "firmware"} /\ held \in 0..2
      /\ (owner = "evaluation") = (held > 0)
  BY DEF FieldsInv
<1>2. ToSet(mem.buffer) \subseteq Bits /\ \A p \in DOMAIN mem.region : mem.region[p] \in Bits
  <2>1. mem.buffer \in Seq(Bits) /\ mem.region \in [RegionBits -> Bits]
    BY DEF FieldsInv, Memories
  <2>2. \A i \in DOMAIN mem.buffer : mem.buffer[i] \in Bits
    BY <2>1, LenProperties, ElementOfSeq
  <2> QED BY <2>1, <2>2 DEF ToSet
<1>3. taint \subseteq {"partial", "unlocked", "unpreserved", "stale"}
  BY DEF FieldsInv, Causes
<1>4. ASSUME ~Idle
      PROVE  /\ op.field \in Names
             /\ Len(op.word) \in {0} \cup {FieldOf[f].acc * CharBit : f \in Names}
             /\ held = Cardinality({i \in DOMAIN op.steps : op.steps[i].do = "unlock"})
                         - Cardinality({i \in DOMAIN op.steps : op.steps[i].do = "lock"})
  <2>1. OperationOK(op, held)
    BY <1>4 DEF FieldsInv, Idle
  <2>2. op.field \in Names /\ op.steps \in Seq(Steps)
    BY <2>1 DEF OperationOK, Operations
  <2>3. Len(op.word) \in {0} \cup {FieldOf[f].acc * CharBit : f \in Names}
    BY <2>1 DEF OperationOK, Widths
  <2>4. Remaining(op.steps, held, Windowed(op.field)) /\ Windowed(op.field) \in BOOLEAN
    BY <2>1, <2>2, WindowedIs DEF OperationOK
  <2> QED BY <2>2, <2>3, <2>4, DepthIsCounted
<1>5. Idle => held = 0
  BY OperationIsNotIdle DEF FieldsInv, OperationOK, Idle
<1>6. TypeOK
  BY <1>1, <1>2, <1>3, <1>4 DEF TypeOK
<1> QED BY <1>1, <1>4, <1>5, <1>6 DEF LockIsBalanced

\* The global lock is held between operations by nobody, and within one as often as it is
\* still to be released, whatever access is refused (AmlFieldUnitRead, AmlFieldUnitWrite).
THEOREM LockIsAlwaysBalanced == Spec => []LockIsBalanced
<1>1. FieldsInv => LockIsBalanced
  BY InvImpliesBalanced
<1> QED BY <1>1, FieldsStaySound, PTL

-----------------------------------------------------------------------------
(* The window stays. *)

\* A bank or an index field with the lock rule holds the lock when the window is next.
LEMMA WindowIsShielded ==
  ASSUME FieldsInv, OpensWindow
  PROVE  owner = "evaluation"
<1>1. OperationOK(op, held) /\ Windowed(op.field)
  BY DEF OpensWindow, FieldsInv, Idle, Windowed
<1>2. PICK h : /\ Depths(h, op.steps, 2) /\ h[0] = held /\ Shielded(op.steps, h)
  BY <1>1 DEF OperationOK, Remaining
<1>3. op.steps \in Seq(Steps)
  BY <1>1 DEF OperationOK, Operations
<1>4. PICK i \in 1..Len(op.steps) :
        Opens(op.steps[i]) /\ \A j \in 1..(i - 1) : ForLock(op.steps[j])
  BY <1>3, LenProperties DEF OpensWindow
<1>5. 0 \in 0..Len(op.steps) /\ 0 < i /\ (0 + 1)..(i - 1) = 1..(i - 1)
  BY <1>3, LenProperties
<1>6. h[0] >= 1
  BY <1>2, <1>4, <1>5 DEF Shielded
<1> QED BY <1>2, <1>6 DEF FieldsInv

\* Once a bank or an index field with the lock rule has selected its cell, nothing but the
\* operation moves the window until it has been accessed (AmlBankFieldRead and its like).
THEOREM WindowAlwaysStays == Spec => WindowStays
<1>1. ASSUME FieldsInv, [Next]_vars, OpensWindow, op' = op
      PROVE  Selected(mem') = Selected(mem)
  <2>1. Orderly /\ owner = "evaluation"
    BY <1>1, NextKeepsInv, WindowIsShielded
  <2>2. mem'.region = mem.region
    BY <2>1, <1>1 DEF Orderly
  <2> QED BY <2>2 DEF Selected
<1>2. FieldsInv /\ [Next]_vars =>
        [OpensWindow /\ op' = op => Selected(mem') = Selected(mem)]_vars
  BY <1>1
<1> QED BY <1>2, FieldsStaySound, PTL DEF Spec, WindowStays
-----------------------------------------------------------------------------
(* What a read does, step by step. *)

\* The field whose bits are read, and how many of them.
Target(f) == IF FieldOf[f].kind = "index" THEN FieldOf[FieldOf[f].data] ELSE FieldOf[f]
ReadBits(f) == Smaller(Target(f).len, ResultBits(f))

\* The select register of a bank or an index, its words and what is stored into it.
HasSelect(f) == FieldOf[f].kind \in {"bank", "index"}
Register(f) == FieldOf[FieldOf[f].select]
Value(f) ==
  Integer(IF FieldOf[f].kind = "bank" THEN FieldOf[f].value ELSE FieldOf[f].off \div CharBit)
SelectWords(f) ==
  IF HasSelect(f)
  THEN {Words(Register(f), Register(f).len)[j] : j \in 1..Len(Words(Register(f), Register(f).len))}
  ELSE {}

Refuses(s) == \E i \in 1..Len(s) : s[i].do = "refuse"

\* A store into the select register.
Selects(f, step) ==
  HasSelect(f) /\ step.word \in SelectWords(f) /\ step.rule = Register(f).rule /\ step.data = Value(f)

\* c[i] bits have been read when i of the steps are done: the register is selected
\* first, and the words follow each other.
Counts(f, s, c) ==
  /\ c \in [0..Len(s) -> Nat]
  /\ \A i \in 1..Len(s) :
       /\ s[i].do \in {"lock", "unlock", "read", "load", "store"}
       /\ s[i].do = "read" =>
            c[i] = c[i - 1] + s[i].word.count /\ s[i].word.at + s[i].word.offset = Target(f).off + c[i - 1]
       /\ s[i].do # "read" => c[i] = c[i - 1]
       /\ s[i].do = "store" => c[i] = 0 /\ Selects(f, s[i])
       /\ s[i].do = "load" => HasSelect(f) /\ Register(f).rule = "preserve"

\* Steps that read the bits from a to b, and store all the words of V.
StoresWord(s, w) == \E i \in 1..Len(s) : s[i].do = "store" /\ s[i].word = w
Reading(f, a, b, V) ==
  {s \in Seq(Steps) : \/ Refuses(s)
                      \/ /\ \E c : Counts(f, s, c) /\ c[0] = a /\ c[Len(s)] = b
                         /\ \A w \in V : StoresWord(s, w)}

\* One part after the other.
LEMMA ReadingConcatenates ==
  ASSUME NEW f \in Names, NEW a, NEW b, NEW d, NEW V, NEW W,
         NEW s \in Reading(f, a, b, V), NEW t \in Reading(f, b, d, W)
  PROVE  s \o t \in Reading(f, a, d, V \cup W)
<1> DEFINE u == s \o t
<1>1. s \in Seq(Steps) /\ t \in Seq(Steps)
  BY DEF Reading
<1>2. /\ u \in Seq(Steps) /\ Len(u) = Len(s) + Len(t) /\ Len(s) \in Nat /\ Len(t) \in Nat
      /\ \A i \in 1..Len(s) : u[i] = s[i]
      /\ \A i \in 1..Len(t) : u[Len(s) + i] = t[i]
      /\ \A i \in 1..Len(u) : i \in 1..Len(s) \/ \E k \in 1..Len(t) : i = Len(s) + k
  BY <1>1, Concatenated
<1> HIDE DEF u
<1>3. /\ \A i \in 1..Len(s) : i \in 1..Len(u)
      /\ \A i \in 1..Len(t) : Len(s) + i \in 1..Len(u)
  BY <1>2
<1>4. CASE Refuses(s) \/ Refuses(t)
  <2>1. Refuses(u)
    BY <1>2, <1>3, <1>4 DEF Refuses
  <2> QED BY <2>1, <1>2 DEF Reading, u
<1>5. CASE ~Refuses(s) /\ ~Refuses(t)
  <2>1. PICK g : Counts(f, s, g) /\ g[0] = a /\ g[Len(s)] = b
    BY <1>5 DEF Reading
  <2>2. PICK h : Counts(f, t, h) /\ h[0] = b /\ h[Len(t)] = d
    BY <1>5 DEF Reading
  <2>3. (\A w \in V : StoresWord(s, w)) /\ (\A w \in W : StoresWord(t, w))
    BY <1>5 DEF Reading
  <2>4. ASSUME NEW w \in V \cup W PROVE StoresWord(u, w)
    <3>1. CASE w \in V
      <4>1. PICK i \in 1..Len(s) : s[i].do = "store" /\ s[i].word = w
        BY <3>1, <2>3 DEF StoresWord
      <4>2. i \in 1..Len(u) /\ u[i] = s[i]
        BY <1>2, <1>3
      <4> QED BY <4>1, <4>2 DEF StoresWord
    <3>2. CASE w \in W
      <4>1. PICK i \in 1..Len(t) : t[i].do = "store" /\ t[i].word = w
        BY <3>2, <2>3 DEF StoresWord
      <4>2. Len(s) + i \in 1..Len(u) /\ u[Len(s) + i] = t[i]
        BY <1>2, <1>3
      <4> QED BY <4>1, <4>2 DEF StoresWord
    <3> QED BY <3>1, <3>2
  <2> DEFINE c == [i \in 0..(Len(s) + Len(t)) |-> IF i <= Len(s) THEN g[i] ELSE h[i - Len(s)]]
  <2>5. g \in [0..Len(s) -> Nat] /\ h \in [0..Len(t) -> Nat]
    BY <2>1, <2>2 DEF Counts
  <2>6. /\ c \in [0..Len(u) -> Nat]
        /\ \A i \in 0..Len(s) : c[i] = g[i]
        /\ \A i \in 0..Len(t) : c[Len(s) + i] = h[i]
    <3>1. ASSUME NEW i \in 0..Len(u) PROVE c[i] \in Nat
      <4>1. CASE i <= Len(s)
        <5>1. i \in 0..Len(s) /\ c[i] = g[i]
          BY <4>1, <1>2
        <5> QED BY <5>1, <2>5
      <4>2. CASE ~(i <= Len(s))
        <5>1. i - Len(s) \in 0..Len(t)
          BY <4>2, <1>2
        <5> QED BY <5>1, <4>2, <1>2, <2>5
      <4> QED BY <4>1, <4>2
    <3>2. \A i \in 0..Len(s) : c[i] = g[i]
      BY <1>2
    <3>3. ASSUME NEW i \in 0..Len(t) PROVE c[Len(s) + i] = h[i]
      <4>1. CASE i = 0
        BY <4>1, <1>2, <2>1, <2>2
      <4>2. CASE i # 0
        <5>1. Len(s) + i \in 0..(Len(s) + Len(t)) /\ ~(Len(s) + i <= Len(s)) /\ Len(s) + i - Len(s) = i
          BY <4>2, <1>2
        <5> QED BY <5>1
      <4> QED BY <4>1, <4>2
    <3> QED BY <3>1, <3>2, <3>3, <1>2
  <2> HIDE DEF c
  <2> DEFINE Fits(v, k, i) ==
        /\ v[i].do \in {"lock", "unlock", "read", "load", "store"}
        /\ v[i].do = "read" =>
             k[i] = k[i - 1] + v[i].word.count /\ v[i].word.at + v[i].word.offset = Target(f).off + k[i - 1]
        /\ v[i].do # "read" => k[i] = k[i - 1]
        /\ v[i].do = "store" => k[i] = 0 /\ Selects(f, v[i])
        /\ v[i].do = "load" => HasSelect(f) /\ Register(f).rule = "preserve"
  <2>7. (\A i \in 1..Len(s) : Fits(s, g, i)) /\ (\A i \in 1..Len(t) : Fits(t, h, i))
    BY <2>1, <2>2 DEF Counts
  <2>8. ASSUME NEW i \in 1..Len(u) PROVE Fits(u, c, i)
    <3>1. CASE i \in 1..Len(s)
      <4>1. c[i] = g[i] /\ c[i - 1] = g[i - 1] /\ u[i] = s[i]
        BY <3>1, <1>2, <2>6
      <4>2. Fits(s, g, i)
        BY <2>7, <3>1
      <4> QED BY <4>1, <4>2
    <3>2. ASSUME NEW k \in 1..Len(t), i = Len(s) + k PROVE Fits(u, c, i)
      <4>1. k - 1 \in 0..Len(t) /\ k \in 0..Len(t) /\ i - 1 = Len(s) + (k - 1)
        BY <3>2, <1>2
      <4>2. c[i] = h[k] /\ c[i - 1] = h[k - 1] /\ u[i] = t[k]
        BY <4>1, <3>2, <1>2, <2>6
      <4>3. Fits(t, h, k)
        BY <2>7
      <4> QED BY <4>2, <4>3
    <3> QED BY <3>1, <3>2, <1>2
  <2>9. Counts(f, u, c)
    BY <2>6, <2>8 DEF Counts
  <2>10. c[0] = a /\ c[Len(u)] = d
    <3>1. 0 \in 0..Len(s) /\ Len(t) \in 0..Len(t)
      BY <1>2
    <3> QED BY <3>1, <1>2, <2>1, <2>2, <2>6
  <2>11. u \in Reading(f, a, d, V \cup W)
    BY <1>2, <2>4, <2>9, <2>10 DEF Reading
  <2> QED BY <2>11 DEF u
<1> QED BY <1>4, <1>5

\* A sequence of one step.
LEMMA Single ==
  ASSUME NEW step \in Steps
  PROVE  <<step>> \in Seq(Steps) /\ Len(<<step>>) = 1 /\ <<step>>[1] = step
<1>1. <<step>> \in Seq(Steps)
  OBVIOUS
<1>2. Len(<<step>>) = 1
  OBVIOUS
<1>3. <<step>>[1] = step
  OBVIOUS
<1> QED BY <1>1, <1>2, <1>3

\* Steps for the lock alone read nothing.
LEMMA ReadingOne ==
  ASSUME NEW f \in Names, NEW a \in Nat, NEW step \in Steps, ForLock(step)
  PROVE  <<step>> \in Reading(f, a, a, {})
<1> DEFINE c == [i \in 0..1 |-> a]
           s == <<step>>
<1>1. s \in Seq(Steps) /\ Len(s) = 1 /\ s[1] = step
  BY Single
<1>2. c \in [0..1 -> Nat] /\ c[0] = a /\ c[1] = a
  OBVIOUS
<1> HIDE DEF c, s
<1>3. \A i \in 1..1 : i = 1 /\ i - 1 = 0
  OBVIOUS
<1>4. Counts(f, s, c)
  BY <1>1, <1>2, <1>3 DEF Counts, ForLock
<1>5. s \in Reading(f, a, a, {})
  BY <1>1, <1>2, <1>4 DEF Reading
<1> QED BY <1>5 DEF s

\* A part within a lock, or not.
LEMMA ReadingLocked ==
  ASSUME NEW f \in Names, NEW a \in Nat, NEW b \in Nat, NEW V, NEW s \in Reading(f, a, b, V), NEW r
  PROVE  Locked(r, s) \in Reading(f, a, b, V)
<1> DEFINE lock == [do |-> "lock"]
           unlock == [do |-> "unlock"]
<1>1. lock \in Steps /\ ForLock(lock) /\ unlock \in Steps /\ ForLock(unlock)
  BY DEF Steps, Plain, ForLock
<1>2. Locked(r, s) = IF r.lock THEN <<lock>> \o s \o <<unlock>> ELSE s
  BY DEF Locked
<1> HIDE DEF lock, unlock
<1>3. <<lock>> \in Reading(f, a, a, {}) /\ <<unlock>> \in Reading(f, b, b, {})
  BY <1>1, ReadingOne
<1>4. PICK E : E = {} /\ E \cup V = V /\ V \cup E = V
  <2>1. {} \cup V = V /\ V \cup {} = V
    OBVIOUS
  <2> QED BY <2>1
<1>5. <<lock>> \o s \in Reading(f, a, b, E \cup V)
  BY <1>3, <1>4, ReadingConcatenates
<1>6. <<lock>> \o s \in Reading(f, a, b, V)
  BY <1>4, <1>5
<1>7. <<lock>> \o s \o <<unlock>> \in Reading(f, a, b, V \cup E)
  BY <1>3, <1>4, <1>6, ReadingConcatenates
<1> QED BY <1>2, <1>4, <1>7

\* Each word begins where the one before ends.
Within(word, off, w, n) ==
  /\ word.offset = Larger(off, word.at) - word.at /\ word.i = Larger(off, word.at) - off
  /\ word.count = Smaller(off + n, word.at + w) - Larger(off, word.at)
InOrder(words, off, w, n) ==
  /\ words \in Seq(WordRecords) /\ Len(words) \in Nat \ {0}
  /\ Len(words) = (off + n - 1) \div w - off \div w + 1
  /\ words[1].i = 0
  /\ \A j \in 1..Len(words) :
       /\ words[j].at + words[j].offset = off + words[j].i
       /\ words[j].at = (off \div w + j - 1) * w /\ words[j].width = w
       /\ Within(words[j], off, w, n)
       /\ words[j].i + words[j].count = IF j = Len(words) THEN n ELSE words[j + 1].i

\* The words of the first n bits of a field are in order.
LEMMA WordsInOrder ==
  ASSUME NEW f \in Names, NEW n \in Nat \ {0}
  PROVE  InOrder(Words(FieldOf[f], n), FieldOf[f].off, FieldOf[f].acc * CharBit, n)
<1> DEFINE r == FieldOf[f]
           w == r.acc * CharBit
           words == Words(r, n)
           first == r.off \div w
           last == (r.off + n - 1) \div w
           word(k) == LET lo == Larger(r.off, k * w)
                          hi == Smaller(r.off + n, (k + 1) * w)
                      IN [at |-> k * w, width |-> w, offset |-> lo - k * w,
                          count |-> hi - lo, i |-> lo - r.off]
<1>1. r.off \in Nat /\ w \in Nat \ {0} /\ w = r.acc * CharBit
  BY FieldRecord
<1>2. words = [j \in 1..(last - first + 1) |-> word(first + j - 1)]
  BY DEF Words
<1>3. words \in Seq(WordRecords) /\ Len(words) \in Nat \ {0}
  BY WordsAre
<1> HIDE DEF w, words
<1>4. PICK off \in Nat : off = r.off
  BY <1>1
<1>5. first \in Nat /\ first * w <= off /\ off < first * w + w
  BY <1>1, <1>4, Quotient
<1>6. last \in Nat /\ last * w <= off + n - 1 /\ off + n - 1 < last * w + w /\ first <= last
  <2>1. off + n - 1 \in Nat /\ off <= off + n - 1
    OBVIOUS
  <2> QED BY <2>1, <1>1, <1>4, Quotient, QuotientGrows
<1>7. r.off \div w = first /\ (r.off + n - 1) \div w = last
  OBVIOUS
<1> HIDE DEF first, last
<1>8. PICK m \in Nat \ {0} : m = last - first + 1
  BY <1>5, <1>6
<1>9. Len(words) = m
  BY <1>2, <1>3, <1>8, LenProperties
<1> DEFINE At2(j) == (first + j - 1) * w
           Lo(j) == Larger(off, At2(j))
           Hi(j) == Smaller(off + n, At2(j) + w)
<1>10. ASSUME NEW j \in 1..m
       PROVE  /\ At2(j) \in Nat /\ At2(j) + w = (first + j) * w
              /\ At2(j) <= off + n - 1 /\ off < At2(j) + w
  <2>1. first + j - 1 \in Nat /\ first <= first + j - 1 /\ first + j - 1 <= last /\ (first + j - 1) + 1 = first + j
    BY <1>5, <1>6, <1>8
  <2>2. PICK k \in Nat : k = first + j - 1
    BY <2>1
  <2>3. k * w \in Nat /\ (k + 1) * w = k * w + w /\ k * w <= last * w
    BY <2>1, <2>2, <1>1, <1>6, ProductGrows
  <2>4. first * w <= k * w
    BY <2>1, <2>2, <1>1, <1>5, ProductGrows
  <2>5. first * w \in Nat /\ last * w \in Nat
    BY <1>1, <1>5, <1>6
  <2> QED BY <2>1, <2>2, <2>3, <2>4, <2>5, <1>1, <1>5, <1>6
<1>11. ASSUME NEW j \in 1..m
       PROVE  /\ words[j].at = At2(j) /\ words[j].width = w /\ words[j].offset = Lo(j) - At2(j)
              /\ words[j].count = Hi(j) - Lo(j) /\ words[j].i = Lo(j) - off
  <2>1. words[j] = word(first + j - 1)
    BY <1>2, <1>8
  <2>2. (first + j - 1 + 1) * w = At2(j) + w
    <3>1. first + j - 1 + 1 = first + j
      BY <1>5
    <3> QED BY <3>1, <1>10
  <2>3. word(first + j - 1) = [at |-> At2(j), width |-> w, offset |-> Lo(j) - At2(j),
                               count |-> Hi(j) - Lo(j), i |-> Lo(j) - off]
    BY <2>2, <1>4
  <2> HIDE DEF word, Lo, Hi, At2
  <2> QED BY <2>1, <2>3
<1> HIDE DEF word
<1>12. words[1].i = 0
  <2>1. 1 \in 1..m /\ At2(1) = first * w
    <3>1. first + 1 - 1 = first
      BY <1>5
    <3> QED BY <3>1, <1>8
  <2>2. Lo(1) = off
    BY <2>1, <1>5, <1>10 DEF Larger
  <2> QED BY <2>1, <2>2, <1>11
<1>13. ASSUME NEW j \in 1..m
       PROVE  words[j].at + words[j].offset = off + words[j].i
  <2>1. At2(j) \in Nat /\ Lo(j) \in Nat
    BY <1>10 DEF Larger
  <2> HIDE DEF At2, Lo
  <2> QED BY <2>1, <1>11
<1>14. ASSUME NEW j \in 1..m
       PROVE  words[j].i + words[j].count = IF j = m THEN n ELSE words[j + 1].i
  <2>1. At2(j) \in Nat /\ Lo(j) \in Nat /\ Hi(j) \in Nat
    BY <1>1, <1>10 DEF Larger, Smaller
  <2>2. words[j].i + words[j].count = Hi(j) - off
    <3> HIDE DEF At2, Lo, Hi
    <3> QED BY <2>1, <1>11
  <2>3. CASE j = m
    <3>1. first + j = last + 1
      BY <2>3, <1>5, <1>6, <1>8
    <3>2. At2(j) + w = (last + 1) * w
      BY <3>1, <1>10
    <3>3. (last + 1) * w = last * w + w /\ last * w \in Nat
      <4>1. PICK k \in Nat : k = last /\ k <= k
        BY <1>6
      <4>2. (k + 1) * w = k * w + w /\ k * w \in Nat
        BY <4>1, <1>1, ProductGrows
      <4> QED BY <4>1, <4>2
    <3>4. Hi(j) = off + n
      <4>1. off + n <= At2(j) + w
        BY <3>2, <3>3, <1>6, <1>1
      <4> HIDE DEF At2
      <4> QED BY <4>1, <2>1, <1>1 DEF Smaller
    <3> QED BY <2>2, <2>3, <3>4
  <2>4. CASE j # m
    <3>1. j + 1 \in 1..m /\ first + (j + 1) - 1 = first + j
      BY <2>4, <1>5
    <3>2. At2(j + 1) = At2(j) + w
      BY <3>1, <1>10
    <3>3. At2(j + 1) \in Nat /\ At2(j + 1) <= off + n - 1 /\ off < At2(j) + w
      BY <3>1, <1>10
    <3> HIDE DEF At2
    <3>4. Hi(j) = At2(j) + w /\ Lo(j + 1) = At2(j) + w
      BY <3>2, <3>3, <2>1, <1>1 DEF Smaller, Larger
    <3>5. words[j + 1].i = Lo(j + 1) - off
      BY <3>1, <1>11
    <3> HIDE DEF Hi, Lo
    <3> QED BY <2>2, <2>4, <3>4, <3>5
  <2> QED BY <2>3, <2>4
<1>15. \A j \in 1..m : words[j].at = (r.off \div w + j - 1) * w /\ words[j].width = w
  BY <1>7, <1>11
<1>16. \A j \in 1..m : Within(words[j], r.off, w, n)
  BY <1>4, <1>11 DEF Within
<1>17. Len(words) = (r.off + n - 1) \div w - r.off \div w + 1
  BY <1>7, <1>8, <1>9
<1> HIDE DEF At2, Lo, Hi
<1>18. InOrder(words, r.off, w, n)
  BY <1>3, <1>4, <1>9, <1>12, <1>13, <1>14, <1>15, <1>16, <1>17 DEF InOrder
<1> QED BY <1>18 DEF w, words

\* AmlFieldRead reads the bits in order, if the field is in its region.
LEMMA FieldReadReads ==
  ASSUME NEW f \in Names, NEW x \in Names, Target(f) = FieldOf[x], NEW n \in Nat \ {0},
         NEW b, b = Smaller(FieldOf[x].len, n)
  PROVE  FieldRead(FieldOf[x], n) \in Reading(f, 0, b, {})
<1> DEFINE r == FieldOf[x]
           words == Words(r, b)
           steps == [j \in DOMAIN words |-> [do |-> "read", word |-> words[j]]]
<1>1. FieldRead(r, n) \in Seq(Steps)
  BY FieldReadIs DEF Programs
<1>2. CASE ~InRange(r)
  <2>1. FieldRead(r, n) = <<[do |-> "refuse"]>>
    BY <1>2 DEF FieldRead, Refuse
  <2>2. Len(FieldRead(r, n)) = 1 /\ FieldRead(r, n)[1].do = "refuse"
    BY <2>1
  <2>3. 1 \in 1..1
    OBVIOUS
  <2>4. Refuses(FieldRead(r, n))
    BY <2>2, <2>3 DEF Refuses
  <2> QED BY <1>1, <2>4 DEF Reading
<1>3. CASE InRange(r)
  <2>1. b \in Nat \ {0}
    BY FieldRecord DEF Smaller
  <2>2. FieldRead(r, n) = steps
    BY <1>3 DEF FieldRead
  <2>3. /\ words \in Seq(WordRecords) /\ Len(words) \in Nat \ {0}
        /\ words[1].i = 0
        /\ \A j \in 1..Len(words) :
             /\ words[j].at + words[j].offset = r.off + words[j].i
             /\ words[j].i + words[j].count = IF j = Len(words) THEN b ELSE words[j + 1].i
    <3>1. InOrder(Words(r, b), r.off, r.acc * CharBit, b)
      BY ONLY <2>1, x \in Names, WordsInOrder
    <3>2. PICK w : w = r.acc * CharBit
      OBVIOUS
    <3> HIDE DEF words
    <3>3. InOrder(words, r.off, w, b)
      BY <3>1, <3>2 DEF words
    <3> QED BY <3>3 DEF InOrder
  <2> HIDE DEF words
  <2>4. PICK m \in Nat \ {0} : m = Len(words) /\ DOMAIN words = 1..m
    BY <2>3, LenProperties
  <2>5. \A j \in 1..m : words[j] \in WordRecords
    BY <2>3, <2>4, ElementOfSeq
  <2>6. \A j \in 1..m : words[j].i \in Nat /\ words[j].count \in Nat
    BY <2>5 DEF WordRecords
  <2>7. /\ steps = [j \in 1..m |-> [do |-> "read", word |-> words[j]]]
        /\ \A j \in 1..m : steps[j].do = "read" /\ steps[j].word = words[j]
    BY <2>4
  <2>8. Len(steps) = m
    BY <1>1, <2>2, <2>7, LenProperties
  <2> HIDE DEF steps
  <2> DEFINE c == [j \in 0..m |-> IF j = 0 THEN 0 ELSE words[j].i + words[j].count]
  <2>9. c \in [0..m -> Nat] /\ c[0] = 0 /\ c[m] = b
    <3>1. ASSUME NEW j \in 0..m PROVE (IF j = 0 THEN 0 ELSE words[j].i + words[j].count) \in Nat
      <4>1. CASE j = 0
        BY <4>1
      <4>2. CASE j # 0
        <5>1. j \in 1..m
          BY <4>2
        <5> QED BY <5>1, <4>2, <2>6
      <4> QED BY <4>1, <4>2
    <3>2. c \in [0..m -> Nat]
      BY <3>1
    <3>3. c[0] = 0
      OBVIOUS
    <3>4. m \in 1..m /\ m \in 0..m /\ m # 0
      OBVIOUS
    <3>5. c[m] = words[m].i + words[m].count
      BY <3>4
    <3> HIDE DEF c
    <3> QED BY <3>2, <3>3, <3>4, <3>5, <2>3, <2>4
  <2>10. ASSUME NEW j \in 1..m
         PROVE  c[j] = words[j].i + words[j].count /\ c[j - 1] = words[j].i
    <3>1. j \in 0..m /\ j # 0 /\ j - 1 \in 0..m
      OBVIOUS
    <3>2. c[j] = words[j].i + words[j].count
      BY <3>1
    <3>3. CASE j = 1
      BY <3>3, <2>3, <2>9
    <3>4. CASE j # 1
      <4>1. PICK k \in 1..m : k = j - 1 /\ k # m /\ k + 1 = j /\ k \in 0..m /\ k # 0
        BY <3>4
      <4>2. c[k] = words[k].i + words[k].count
        BY <4>1
      <4>3. words[k].i + words[k].count = words[j].i
        BY <4>1, <2>3, <2>4
      <4> QED BY <3>2, <4>1, <4>2, <4>3
    <3> QED BY <3>2, <3>3, <3>4
  <2> HIDE DEF c
  <2>11. ASSUME NEW j \in 1..Len(steps)
         PROVE  /\ steps[j].do = "read" /\ c[j] = c[j - 1] + steps[j].word.count
                /\ steps[j].word.at + steps[j].word.offset = Target(f).off + c[j - 1]
    BY <2>3, <2>4, <2>6, <2>7, <2>8, <2>10
  <2>12. Counts(f, steps, c)
    BY <2>8, <2>9, <2>11 DEF Counts
  <2>13. steps \in Reading(f, 0, b, {})
    BY <1>1, <2>2, <2>8, <2>9, <2>12 DEF Reading
  <2> QED BY <2>2, <2>13
<1> QED BY <1>2, <1>3

\* The parts of a concatenation are in it.
LEMMA FlattenedHas ==
  ASSUME NEW A, NEW ss \in Seq(Seq(A)), NEW j \in 1..Len(ss), NEW i \in 1..Len(ss[j])
  PROVE  \E k \in 1..Len(FlattenSeq(ss)) : FlattenSeq(ss)[k] = ss[j][i]
<1>1. PICK N \in Nat \ {0} : N = Len(ss) /\ ss # <<>>
  BY LenProperties, EmptySeq
<1>2. PICK h : /\ h \in [1..N -> Seq(A)] /\ FlattenSeq(ss) = h[N] /\ h[1] = ss[1]
               /\ \A x \in 2..N : h[x] = h[x - 1] \o ss[x]
  <2>1. PICK S \in SUBSET Seq(A) : S = Seq(A) /\ \A s, t \in S : s \o t \in S
    <3>1. \A s, t \in Seq(A) : s \o t \in Seq(A)
      BY Concatenated
    <3> QED BY <3>1
  <2>2. ss \in Seq(S)
    BY <2>1
  <2>3. \E h : Joined(h, S, ss) /\ FlattenSeq(ss) = h[Len(ss)]
    BY <2>1, <2>2, <1>1, FlattenedSteps
  <2> QED BY <2>1, <2>3, <1>1 DEF Joined
<1>3. \A x \in 1..N : ss[x] \in Seq(A)
  BY <1>1, ElementOfSeq
<1> DEFINE Has(x) == \E k \in 1..Len(h[x]) : h[x][k] = ss[j][i]
           D == {x \in Nat : j + x <= N => Has(j + x)}
<1>4. 0 \in D
  <2>1. Has(j)
    <3>1. CASE j = 1
      BY <3>1, <1>2
    <3>2. CASE j # 1
      <4>1. j \in 2..N /\ j - 1 \in 1..N /\ j \in 1..N
        BY <3>2, <1>1
      <4>2. h[j] = h[j - 1] \o ss[j] /\ h[j - 1] \in Seq(A) /\ ss[j] \in Seq(A)
        BY <4>1, <1>2, <1>3
      <4>3. PICK s \in Seq(A), t \in Seq(A) : s = h[j - 1] /\ t = ss[j] /\ h[j] = s \o t
        BY <4>2
      <4>4. /\ s \o t \in Seq(A) /\ Len(s \o t) = Len(s) + Len(t) /\ Len(s) \in Nat /\ Len(t) \in Nat
            /\ \A k \in 1..Len(t) : (s \o t)[Len(s) + k] = t[k]
        BY Concatenated
      <4>5. i \in 1..Len(t) /\ ss[j][i] = t[i]
        BY <4>3
      <4>6. PICK u : u = s \o t
        OBVIOUS
      <4>7. Len(s) + i \in 1..Len(u) /\ u[Len(s) + i] = t[i]
        BY <4>4, <4>5, <4>6
      <4> QED BY <4>3, <4>5, <4>6, <4>7
    <3> QED BY <3>1, <3>2
  <2>2. j + 0 = j
    BY <1>1
  <2> HIDE DEF Has
  <2> QED BY <2>1, <2>2
<1>5. ASSUME NEW x \in Nat, x \in D PROVE x + 1 \in D
  <2> SUFFICES ASSUME j + (x + 1) <= N PROVE Has(j + (x + 1))
    OBVIOUS
  <2>1. PICK y \in 2..N : y = j + (x + 1) /\ y - 1 = j + x /\ y - 1 \in 1..N /\ y \in 1..N
    BY <1>1
  <2>2. Has(y - 1)
    <3>1. j + x <= N
      BY <1>1
    <3> HIDE DEF Has
    <3> QED BY <3>1, <2>1, <1>5
  <2>3. h[y] = h[y - 1] \o ss[y] /\ h[y - 1] \in Seq(A) /\ ss[y] \in Seq(A)
    BY <2>1, <1>2, <1>3
  <2>4. PICK s \in Seq(A), t \in Seq(A) : s = h[y - 1] /\ t = ss[y] /\ h[y] = s \o t
    BY <2>3
  <2>5. PICK k \in 1..Len(s) : s[k] = ss[j][i]
    BY <2>2, <2>4
  <2>6. /\ s \o t \in Seq(A) /\ Len(s \o t) = Len(s) + Len(t) /\ Len(s) \in Nat /\ Len(t) \in Nat
        /\ \A z \in 1..Len(s) : (s \o t)[z] = s[z]
    BY Concatenated
  <2>7. PICK u : u = s \o t
    OBVIOUS
  <2>8. k \in 1..Len(u) /\ u[k] = s[k]
    BY <2>6, <2>7
  <2> QED BY <2>1, <2>4, <2>5, <2>7, <2>8
<1> HIDE DEF D
<1>6. \A x \in Nat : x \in D
  <2>1. PICK E : E = D /\ 0 \in E /\ \A x \in Nat : x \in E => x + 1 \in E
    BY <1>4, <1>5
  <2>2. \A x \in Nat : x \in E
    BY <2>1, SetInduction
  <2> QED BY <2>1, <2>2
<1>7. PICK x \in Nat : x = N - j /\ j + x = N /\ j + x <= N
  <2>1. j \in Nat /\ j <= N
    BY <1>1
  <2>2. N - j \in Nat /\ j + (N - j) = N /\ j + (N - j) <= N
    BY <2>1
  <2> QED BY <2>2
<1>8. Has(N)
  <2> HIDE DEF Has
  <2> QED BY <1>6, <1>7 DEF D
<1> QED BY <1>2, <1>8

\* A step that reads nothing.
Still(f, step) ==
  \/ ForLock(step)
  \/ step.do = "load" /\ HasSelect(f) /\ Register(f).rule = "preserve"
  \/ step.do = "store" /\ Selects(f, step)

\* Before the first word is read.
LEMMA ReadingStill ==
  ASSUME NEW f \in Names, NEW step \in Steps, Still(f, step), NEW V,
         \A w \in V : step.do = "store" /\ step.word = w
  PROVE  <<step>> \in Reading(f, 0, 0, V)
<1> DEFINE c == [i \in 0..1 |-> 0]
           s == <<step>>
<1>1. s \in Seq(Steps) /\ Len(s) = 1 /\ s[1] = step
  BY Single
<1>2. c \in [0..1 -> Nat] /\ c[0] = 0 /\ c[1] = 0
  OBVIOUS
<1> HIDE DEF c, s
<1>3. \A i \in 1..1 : i = 1 /\ i - 1 = 0
  OBVIOUS
<1>4. Counts(f, s, c)
  BY <1>1, <1>2, <1>3 DEF Counts, ForLock, Still
<1>5. 1 \in 1..1
  OBVIOUS
<1>6. \A w \in V : StoresWord(s, w)
  BY <1>1, <1>5 DEF StoresWord
<1>7. s \in Reading(f, 0, 0, V)
  BY <1>1, <1>2, <1>4, <1>6 DEF Reading
<1> QED BY <1>7 DEF s

\* What the register of a bank or an index is.
LEMMA RegisterIs ==
  ASSUME NEW f \in Names, HasSelect(f)
  PROVE  /\ FieldOf[f].select \in Names /\ Register(f) = FieldOf[FieldOf[f].select]
         /\ Value(f) \in Seq(Bits)
         /\ InOrder(Words(Register(f), Register(f).len), Register(f).off,
                    Register(f).acc * CharBit, Register(f).len)
         /\ Register(f).len \in Nat \ {0} /\ Register(f).off \in Nat
         /\ Register(f).acc * CharBit \in Nat \ {0} /\ Register(f).rule \in {"preserve", "ones", "zeros"}
<1>1. FieldOf[f].select \in Names
  BY FieldRecord DEF HasSelect
<1>2. PICK g \in Names : g = FieldOf[f].select /\ Register(f) = FieldOf[g]
  BY <1>1 DEF Register
<1>3. /\ FieldOf[g].len \in Nat \ {0} /\ FieldOf[g].off \in Nat
      /\ FieldOf[g].acc * CharBit \in Nat \ {0} /\ FieldOf[g].rule \in {"preserve", "ones", "zeros"}
  BY FieldRecord
<1>4. InOrder(Words(FieldOf[g], FieldOf[g].len), FieldOf[g].off, FieldOf[g].acc * CharBit, FieldOf[g].len)
  BY <1>3, WordsInOrder
<1>5. Value(f) \in Seq(Bits)
  <2>1. PICK v \in Nat : v = IF FieldOf[f].kind = "bank" THEN FieldOf[f].value ELSE FieldOf[f].off \div CharBit
    <3>1. FieldOf[f].kind = "bank" => FieldOf[f].value \in Nat
      BY FieldRecord
    <3>2. FieldOf[f].off \div CharBit \in Nat
      BY FieldRecord, Quotient
    <3> QED BY <3>1, <3>2
  <2> QED BY <2>1, IntegerIs DEF Value
<1> QED BY <1>1, <1>2, <1>3, <1>4, <1>5

\* The steps for one word of the register.
LEMMA WritingReads ==
  ASSUME NEW f \in Names, HasSelect(f), NEW w \in SelectWords(f), w \in WordRecords
  PROVE  Writing(Register(f), Value(f), FALSE, w) \in Reading(f, 0, 0, {w})
<1> DEFINE load == [do |-> "load", word |-> w]
           store == [do |-> "store", word |-> w, rule |-> Register(f).rule, data |-> Value(f)]
<1>1. Value(f) \in Seq(Bits) /\ Register(f).rule \in {"preserve", "ones", "zeros"}
  BY RegisterIs
<1>2. store \in Steps /\ store.do = "store" /\ store.word = w /\ Still(f, store)
  BY <1>1 DEF Steps, Stores, Still, Selects
<1>3. load \in Steps /\ load.do = "load" /\ (Register(f).rule = "preserve" => Still(f, load))
  BY DEF Steps, Accesses, Still
<1>4. NeedsLoad(Register(f), w, FALSE) => Register(f).rule = "preserve"
  BY DEF NeedsLoad
<1>5. Writing(Register(f), Value(f), FALSE, w) =
        (IF NeedsLoad(Register(f), w, FALSE) THEN <<load>> ELSE <<>>) \o <<store>>
  BY DEF Writing
<1> HIDE DEF load, store
<1>6. <<store>> \in Reading(f, 0, 0, {w})
  BY <1>2, ReadingStill
<1>7. <<store>> \in Seq(Steps)
  BY <1>2, Single
<1>8. <<>> \o <<store>> = <<store>>
  BY <1>7, ConcatEmptySeq
<1>9. ASSUME Register(f).rule = "preserve" PROVE <<load>> \o <<store>> \in Reading(f, 0, 0, {w})
  <2>1. PICK E : E = {} /\ E \cup {w} = {w}
    <3>1. {} \cup {w} = {w}
      OBVIOUS
    <3> QED BY <3>1
  <2>2. <<load>> \in Reading(f, 0, 0, E)
    BY <1>3, <1>9, <2>1, ReadingStill
  <2>3. <<load>> \o <<store>> \in Reading(f, 0, 0, E \cup {w})
    BY <2>2, <1>6, ReadingConcatenates
  <2> QED BY <2>1, <2>3
<1> QED BY <1>4, <1>5, <1>6, <1>8, <1>9

\* AmlFieldWrite stores every word of the register, if the register is in its region.
LEMMA RegisterWriteReads ==
  ASSUME NEW f \in Names, HasSelect(f)
  PROVE  FieldWrite(Register(f), Value(f), FALSE) \in Reading(f, 0, 0, SelectWords(f))
<1> DEFINE r == Register(f)
           F == FieldWrite(r, Value(f), FALSE)
           words == Words(r, r.len)
           ss == [j \in DOMAIN words |-> Writing(r, Value(f), FALSE, words[j])]
<1>1. CASE ~InRange(r)
  <2>1. F = <<[do |-> "refuse"]>>
    BY <1>1 DEF FieldWrite, Refuse
  <2>2. PICK step \in Steps : step = [do |-> "refuse"]
    BY DEF Steps, Plain
  <2> HIDE DEF F
  <2>3. F \in Seq(Steps) /\ Len(F) = 1 /\ F[1].do = "refuse" /\ 1 \in 1..1
    <3>1. <<step>> \in Seq(Steps) /\ Len(<<step>>) = 1 /\ <<step>>[1] = step
      BY Single
    <3>2. F = <<step>> /\ step.do = "refuse" /\ 1 \in 1..1
      BY <2>1, <2>2
    <3> QED BY <3>1, <3>2
  <2>4. Refuses(F)
    BY <2>3 DEF Refuses
  <2>5. F \in Reading(f, 0, 0, SelectWords(f))
    BY <2>3, <2>4 DEF Reading
  <2> QED BY <2>5 DEF F
<1>2. CASE InRange(r)
  <2>1. F = FlattenSeq(ss)
    BY <1>2 DEF FieldWrite, Writing
  <2>2. words \in Seq(WordRecords) /\ Len(words) \in Nat \ {0}
    BY RegisterIs DEF InOrder
  <2>3. SelectWords(f) = {words[j] : j \in 1..Len(words)}
    BY DEF SelectWords
  <2>4. PICK m \in Nat \ {0} : m = Len(words) /\ DOMAIN words = 1..m
    BY <2>2, LenProperties
  <2> HIDE DEF words, F
  <2>5. \A j \in 1..m : words[j] \in WordRecords /\ words[j] \in SelectWords(f)
    BY <2>2, <2>3, <2>4, ElementOfSeq
  <2>6. \A j \in 1..m : Writing(r, Value(f), FALSE, words[j]) \in Reading(f, 0, 0, {words[j]})
    BY <2>5, WritingReads
  <2>7. PICK E : E = {}
    OBVIOUS
  <2>8. ASSUME NEW j \in 1..m PROVE Writing(r, Value(f), FALSE, words[j]) \in Reading(f, 0, 0, E)
    <3>1. Writing(r, Value(f), FALSE, words[j]) \in Reading(f, 0, 0, {words[j]})
      BY <2>6
    <3> QED BY <3>1, <2>7 DEF Reading
  <2>9. ss \in [1..m -> Reading(f, 0, 0, E)] /\ \A j \in 1..m : ss[j] = Writing(r, Value(f), FALSE, words[j])
    BY <2>4, <2>8
  <2> HIDE DEF ss, r
  <2>10. ss \in Seq(Reading(f, 0, 0, E)) /\ Len(ss) = m
    BY <2>9, FunctionIsSequence
  <2>11. Reading(f, 0, 0, E) \in SUBSET Seq(Steps)
    BY DEF Reading
  <2>12. \A s, t \in Reading(f, 0, 0, E) : s \o t \in Reading(f, 0, 0, E)
    <3>1. \A s, t \in Reading(f, 0, 0, E) : s \o t \in Reading(f, 0, 0, E \cup E)
      BY ReadingConcatenates
    <3>2. E \cup E = E
      OBVIOUS
    <3> QED BY <3>1, <3>2
  <2>13. F \in Reading(f, 0, 0, E)
    <3>1. ss # <<>>
      BY <2>10, EmptySeq
    <3>2. PICK S : S = Reading(f, 0, 0, E)
      OBVIOUS
    <3>3. FlattenSeq(ss) \in S
      BY <3>1, <3>2, <2>10, <2>11, <2>12, Flattened
    <3> QED BY <3>2, <3>3, <2>1
  <2>14. ss \in Seq(Seq(Steps))
    <3>1. ss \in [1..m -> Seq(Steps)]
      BY <2>9, <2>11
    <3> QED BY <3>1, FunctionIsSequence
  <2>15. ASSUME Refuses(F) PROVE F \in Reading(f, 0, 0, SelectWords(f))
    BY <2>13, <2>15 DEF Reading
  <2>16. ASSUME ~Refuses(F) PROVE F \in Reading(f, 0, 0, SelectWords(f))
    <3>1. ASSUME NEW w \in SelectWords(f) PROVE StoresWord(F, w)
      <4>1. PICK j \in 1..m : w = words[j]
        BY <2>3, <2>4
      <4>2. ss[j] \in Reading(f, 0, 0, {w})
        BY <4>1, <2>6, <2>9
      <4>3. \A i \in 1..Len(ss[j]) : \E k \in 1..Len(F) : F[k] = ss[j][i]
        <5>1. PICK A : A = Steps
          OBVIOUS
        <5>2. ss \in Seq(Seq(A)) /\ j \in 1..Len(ss)
          BY <5>1, <2>10, <2>14
        <5>3. \A i \in 1..Len(ss[j]) : \E k \in 1..Len(FlattenSeq(ss)) : FlattenSeq(ss)[k] = ss[j][i]
          BY ONLY <5>2, FlattenedHas
        <5> QED BY <5>3, <2>1
      <4>4. ~Refuses(ss[j])
        BY <4>3, <2>16 DEF Refuses
      <4>5. StoresWord(ss[j], w)
        BY <4>2, <4>4 DEF Reading
      <4> QED BY <4>3, <4>5 DEF StoresWord
    <3>2. \E c : Counts(f, F, c) /\ c[0] = 0 /\ c[Len(F)] = 0
      BY <2>13, <2>16 DEF Reading
    <3>3. F \in Seq(Steps)
      BY <2>11, <2>13
    <3> QED BY <3>1, <3>2, <3>3 DEF Reading
  <2>17. F \in Reading(f, 0, 0, SelectWords(f))
    BY <2>15, <2>16
  <2> QED BY <2>17 DEF F, r
<1> QED BY <1>1, <1>2

\* A bank or an index is selected before it is read.
LEMMA SelectionReads ==
  ASSUME NEW f \in Names, HasSelect(f), NEW v,
         v = IF FieldOf[f].kind = "bank" THEN FieldOf[f].value ELSE FieldOf[f].off \div CharBit
  PROVE  Select(FieldOf[f].select, v) \in Reading(f, 0, 0, SelectWords(f))
<1>1. FieldWrite(Register(f), Value(f), FALSE) \in Reading(f, 0, 0, SelectWords(f))
  BY RegisterWriteReads
<1>2. Select(FieldOf[f].select, v) = Locked(Register(f), FieldWrite(Register(f), Value(f), FALSE))
  BY DEF Select, Register, Value
<1>3. PICK z \in Nat : z = 0
  OBVIOUS
<1>4. Locked(Register(f), FieldWrite(Register(f), Value(f), FALSE)) \in Reading(f, z, z, SelectWords(f))
  BY <1>1, <1>3, ReadingLocked
<1> QED BY <1>2, <1>3, <1>4

\* The result is not empty.
LEMMA ResultBitsIs ==
  ASSUME NEW f \in Names
  PROVE  ResultBits(f) \in Nat \ {0}
<1>1. PICK a \in Nat : a = CharsFor(FieldOf[f].len)
  <2>1. FieldOf[f].len \in Nat
    BY FieldRecord
  <2> QED BY <2>1, CharsForIs
<1>2. Larger(a, IntChars) \in Nat \ {0}
  BY FieldAssumption DEF Larger
<1>3. PICK b \in Nat \ {0} : b = Larger(CharsFor(FieldOf[f].len), IntChars)
  BY <1>1, <1>2
<1>4. PICK c \in Nat \ {0} : c = CharBit
  BY Lengths
<1>5. c * b \in Nat \ {0}
  OBVIOUS
<1> QED BY <1>3, <1>4, <1>5 DEF ResultBits

\* AmlFieldUnitRead reads the bits of the field once the register is selected.
LEMMA UnitReadReads ==
  ASSUME NEW f \in Names, FieldOf[f].kind # "buffer"
  PROVE  UnitRead(f, ResultBits(f)) \in Reading(f, 0, ReadBits(f), SelectWords(f))
<1> DEFINE n == ResultBits(f)
           r == FieldOf[f]
<1>1. n \in Nat \ {0}
  BY ResultBitsIs
<1>2. PICK x \in Names : Target(f) = FieldOf[x] /\ x = IF r.kind = "index" THEN r.data ELSE f
  BY FieldRecord DEF Target
<1>3. PICK b \in Nat : b = ReadBits(f) /\ b = Smaller(FieldOf[x].len, n)
  <2>1. FieldOf[x].len \in Nat
    BY FieldRecord
  <2> QED BY <2>1, <1>1, <1>2 DEF Smaller, ReadBits
<1>4. PICK z \in Nat : z = 0
  OBVIOUS
<1>5. PICK E : E = {} /\ SelectWords(f) \cup E = SelectWords(f)
  <2>1. SelectWords(f) \cup {} = SelectWords(f)
    OBVIOUS
  <2> QED BY <2>1
<1> HIDE DEF n
<1>6. FieldRead(FieldOf[x], n) \in Reading(f, z, b, E)
  BY <1>1, <1>2, <1>3, <1>4, <1>5, FieldReadReads
<1>7. CASE r.kind = "field"
  <2>1. Locked(r, FieldRead(FieldOf[x], n)) \in Reading(f, z, b, E)
    BY <1>6, ReadingLocked
  <2>2. UnitRead(f, n) = Locked(r, FieldRead(FieldOf[x], n))
    BY <1>2, <1>7 DEF UnitRead
  <2>3. SelectWords(f) = E
    BY <1>5, <1>7 DEF SelectWords, HasSelect
  <2> QED BY <2>1, <2>2, <2>3, <1>3, <1>4 DEF n
<1>8. CASE r.kind = "bank"
  <2>1. Select(r.select, r.value) \in Reading(f, z, z, SelectWords(f))
    BY <1>4, <1>8, SelectionReads DEF HasSelect
  <2>2. Select(r.select, r.value) \o FieldRead(FieldOf[x], n) \in Reading(f, z, b, SelectWords(f) \cup E)
    BY <2>1, <1>6, ReadingConcatenates
  <2>3. Select(r.select, r.value) \o FieldRead(FieldOf[x], n) \in Reading(f, z, b, SelectWords(f))
    BY <2>2, <1>5
  <2>4. Locked(r, Select(r.select, r.value) \o FieldRead(FieldOf[x], n)) \in Reading(f, z, b, SelectWords(f))
    BY <2>3, ReadingLocked
  <2>5. UnitRead(f, n) = Locked(r, Select(r.select, r.value) \o FieldRead(FieldOf[x], n))
    BY <1>2, <1>8 DEF UnitRead, BankRead
  <2> QED BY <2>4, <2>5, <1>3, <1>4 DEF n
<1>9. CASE r.kind = "index"
  <2> DEFINE inner == Locked(FieldOf[x], FieldRead(FieldOf[x], n))
  <2>1. Select(r.select, r.off \div CharBit) \in Reading(f, z, z, SelectWords(f))
    BY <1>4, <1>9, SelectionReads DEF HasSelect
  <2>2. inner \in Reading(f, z, b, E)
    BY <1>6, ReadingLocked
  <2>3. UnitRead(f, n) = Locked(r, Select(r.select, r.off \div CharBit) \o inner)
    BY <1>2, <1>9 DEF UnitRead, IndexRead
  <2> HIDE DEF inner
  <2>4. Select(r.select, r.off \div CharBit) \o inner \in Reading(f, z, b, SelectWords(f) \cup E)
    BY <2>1, <2>2, ReadingConcatenates
  <2>5. Select(r.select, r.off \div CharBit) \o inner \in Reading(f, z, b, SelectWords(f))
    BY <2>4, <1>5
  <2>6. Locked(r, Select(r.select, r.off \div CharBit) \o inner) \in Reading(f, z, b, SelectWords(f))
    BY <2>5, ReadingLocked
  <2> QED BY <2>3, <2>6, <1>3, <1>4 DEF n
<1> QED BY <1>7, <1>8, <1>9, FieldRecord

-----------------------------------------------------------------------------
(* The device while a bank or an index is read. *)

\* The bits of the register that a word holds are those of the value, and the others
\* follow the update rule, wherever the device has bits.
Settled(f, m, w) ==
  \A j \in 0..(w.width - 1) : w.at + j \in RegionBits =>
    IF j \in w.offset..(w.offset + w.count - 1)
    THEN m.region[w.at + j] = BitAt(Value(f), w.i + j - w.offset)
    ELSE Register(f).rule # "preserve" =>
           m.region[w.at + j] = IF Register(f).rule = "ones" THEN 1 ELSE 0

\* The bits from p to p + n - 1 change, and no others.
Puts(before, after, p, n, bs) ==
  /\ \A i \in 0..(n - 1) : p + i \in RegionBits => after.region[p + i] = bs[i]
  /\ \A q \in RegionBits : q \notin p..(p + n - 1) => after.region[q] = before.region[q]
Plainly(m, p, n) == \A i \in 0..(n - 1) : Place(m, p + i) = p + i

\* What is written where the window is not, is written where it says.
LEMMA WrittenInPlace ==
  ASSUME NEW m \in Memories, NEW p \in Nat, NEW n \in Nat, NEW bs, Plainly(m, p, n)
  PROVE  Puts(m, Written(m, p, n, bs), p, n, bs)
<1> DEFINE at == [i \in 0..(n - 1) |-> Place(m, p + i)]
           Bit(q) == IF \E i \in 0..(n - 1) : at[i] = q
                     THEN bs[CHOOSE i \in 0..(n - 1) : at[i] = q] ELSE m.region[q]
           region == [q \in RegionBits |-> Bit(q)]
<1>1. m.region \in [RegionBits -> Bits] /\ DOMAIN m.region = RegionBits
  BY DEF Memories
<1>2. Written(m, p, n, bs) = [m EXCEPT !.region = region]
  BY <1>1 DEF Written
<1>3. Written(m, p, n, bs).region = region
  <2> HIDE DEF region
  <2> QED BY <1>2 DEF Memories
<1>4. \A i \in 0..(n - 1) : at[i] = p + i
  BY DEF Plainly
<1> HIDE DEF at
<1>5. ASSUME NEW i \in 0..(n - 1) PROVE Bit(p + i) = bs[i]
  <2>1. PICK k : k = CHOOSE e \in 0..(n - 1) : at[e] = p + i
    OBVIOUS
  <2>2. k \in 0..(n - 1) /\ at[k] = p + i
    BY <2>1, <1>4
  <2>3. k = i
    BY <2>2, <1>4
  <2> QED BY <2>1, <2>3, <1>4
<1>6. ASSUME NEW q \in RegionBits, q \notin p..(p + n - 1) PROVE Bit(q) = m.region[q]
  <2>1. \A i \in 0..(n - 1) : p + i \in p..(p + n - 1)
    OBVIOUS
  <2> QED BY <2>1, <1>4, <1>6
<1>7. \A i \in 0..(n - 1) : p + i \in RegionBits => region[p + i] = Bit(p + i)
  OBVIOUS
<1>8. \A q \in RegionBits : region[q] = Bit(q)
  OBVIOUS
<1> HIDE DEF Bit, region
<1> QED BY <1>3, <1>5, <1>6, <1>7, <1>8 DEF Puts

\* What is already there is written without effect.
LEMMA WrittenSame ==
  ASSUME NEW m \in Memories, NEW p, NEW n, NEW bs,
         \A i \in 0..(n - 1) :
           Place(m, p + i) \in RegionBits => bs[i] = m.region[Place(m, p + i)]
  PROVE  Written(m, p, n, bs) = m
<1> DEFINE at == [i \in 0..(n - 1) |-> Place(m, p + i)]
           Bit(q) == IF \E i \in 0..(n - 1) : at[i] = q
                     THEN bs[CHOOSE i \in 0..(n - 1) : at[i] = q] ELSE m.region[q]
           region == [q \in RegionBits |-> Bit(q)]
<1>1. m.region \in [RegionBits -> Bits] /\ DOMAIN m.region = RegionBits
  BY DEF Memories
<1>2. Written(m, p, n, bs) = [m EXCEPT !.region = region]
  BY <1>1 DEF Written
<1>3. \A i \in 0..(n - 1) : at[i] \in RegionBits => bs[i] = m.region[at[i]]
  OBVIOUS
<1> HIDE DEF at
<1>4. ASSUME NEW q \in RegionBits PROVE Bit(q) = m.region[q]
  <2>1. CASE \E i \in 0..(n - 1) : at[i] = q
    <3>1. PICK k : k = CHOOSE e \in 0..(n - 1) : at[e] = q
      OBVIOUS
    <3>2. k \in 0..(n - 1) /\ at[k] = q
      BY <3>1, <2>1
    <3>3. Bit(q) = bs[k]
      BY <2>1, <3>1
    <3> QED BY <3>2, <3>3, <1>3
  <2>2. CASE ~\E i \in 0..(n - 1) : at[i] = q
    BY <2>2
  <2> QED BY <2>1, <2>2
<1> HIDE DEF Bit
<1>5. region = m.region
  BY <1>1, <1>4
<1> HIDE DEF region
<1> QED BY <1>2, <1>5 DEF Memories

\* The words of the register, none of which shows the window.
LEMMA SelectWord ==
  ASSUME NEW f \in Names, HasSelect(f), NEW w \in SelectWords(f)
  PROVE  /\ w \in WordRecords /\ ~ShowsWindow(w)
         /\ \E k \in 1..Len(Words(Register(f), Register(f).len)) :
              w = Words(Register(f), Register(f).len)[k]
<1>1. PICK k \in 1..Len(Words(Register(f), Register(f).len)) :
         w = Words(Register(f), Register(f).len)[k]
  BY DEF SelectWords
<1>2. Words(Register(f), Register(f).len) \in Seq(WordRecords)
  BY RegisterIs DEF InOrder
<1>3. w \in WordRecords
  BY <1>1, <1>2, ElementOfSeq
<1>4. DOMAIN Words(Register(f), Register(f).len) = 1..Len(Words(Register(f), Register(f).len))
  BY <1>2, LenProperties
<1>5. ~ShowsWindow(w)
  <2>1. Register(f) = FieldOf[FieldOf[f].select]
    BY DEF Register
  <2> QED BY <2>1, <1>1, <1>4, SelectAssumption DEF HasSelect
<1> QED BY <1>1, <1>3, <1>5

\* The words of the register are where they seem to be.
LEMMA SelectPlace ==
  ASSUME NEW f \in Names, HasSelect(f), NEW w \in SelectWords(f), NEW j \in 0..(w.width - 1), NEW m
  PROVE  Place(m, w.at + j) = w.at + j
<1>1. w \in WordRecords /\ ~ShowsWindow(w)
  BY SelectWord
<1>2. PICK a \in Nat, c \in Nat : w.at = a * CharBit /\ w.width = c * CharBit
  BY <1>1 DEF WordRecords
<1>3. PICK b \in Nat \ {0} : b = CharBit
  BY Lengths
<1>4. a * b \in Nat /\ c * b \in Nat /\ (a * b) \div b = a
  OBVIOUS
<1>5. (a + c) * b = a * b + c * b /\ ((a + c) * b) \div b = a + c
  OBVIOUS
<1>6. ~(a <= Window /\ Window < a + c)
  BY <1>1, <1>2, <1>3, <1>4, <1>5 DEF ShowsWindow
<1>7. PICK x \in Nat : x = a * b + j /\ a * b <= x /\ x < (a + c) * b
  <2>1. j \in Nat /\ j < c * b
    BY <1>2, <1>3, <1>4
  <2>2. PICK y \in Nat, z \in Nat : y = a * b /\ z = c * b
    BY <1>4
  <2>3. y + j \in Nat /\ y <= y + j /\ y + j < y + z
    BY <2>1, <2>2
  <2> QED BY <2>2, <2>3, <1>5
<1>8. PICK k \in Nat : k = x \div b /\ k * b <= x /\ x < k * b + b
  BY Quotient
<1>9. a <= k
  <2> SUFFICES ASSUME ~(a <= k) PROVE FALSE
    OBVIOUS
  <2>1. k + 1 <= a /\ k + 1 \in Nat
    OBVIOUS
  <2>2. (k + 1) * b <= a * b /\ (k + 1) * b = k * b + b
    BY <2>1, ProductGrows
  <2>3. PICK y \in Nat, z \in Nat : y = a * b /\ z = k * b
    BY <1>4
  <2> QED BY <2>2, <2>3, <1>7, <1>8
<1>10. k < a + c
  <2> SUFFICES ASSUME ~(k < a + c) PROVE FALSE
    OBVIOUS
  <2>1. a + c <= k /\ a + c \in Nat
    OBVIOUS
  <2>2. (a + c) * b <= k * b
    BY <2>1, ProductGrows
  <2>3. PICK y \in Nat, z \in Nat : y = (a + c) * b /\ z = k * b
    <3>1. (a + c) * b \in Nat /\ k * b \in Nat
      OBVIOUS
    <3> QED BY <3>1
  <2> QED BY <2>2, <2>3, <1>7, <1>8
<1>11. w.at + j = x /\ x \div CharBit # Window
  <2>1. Window \in Nat
    BY FieldAssumption
  <2> QED BY <2>1, <1>2, <1>3, <1>6, <1>7, <1>8, <1>9, <1>10
<1> QED BY <1>11 DEF Place

\* Different words of the register do not overlap.
LEMMA SelectWordsApart ==
  ASSUME NEW f \in Names, HasSelect(f), NEW v \in SelectWords(f), NEW w \in SelectWords(f), v # w
  PROVE  v.at + v.width <= w.at \/ w.at + w.width <= v.at
<1> DEFINE words == Words(Register(f), Register(f).len)
<1>1. PICK b \in Nat \ {0} : b = Register(f).acc * CharBit
  BY RegisterIs
<1>2. PICK first \in Nat : first = Register(f).off \div b
  <2>1. Register(f).off \in Nat
    BY RegisterIs
  <2> QED BY <2>1, Quotient
<1>3. /\ Len(words) \in Nat
      /\ \A j \in 1..Len(words) : words[j].at = (first + j - 1) * b /\ words[j].width = b
  <2>1. InOrder(words, Register(f).off, b, Register(f).len)
    BY <1>1, RegisterIs
  <2> HIDE DEF words
  <2> QED BY <2>1, <1>2 DEF InOrder
<1>4. PICK k \in 1..Len(words), l \in 1..Len(words) : v = words[k] /\ w = words[l]
  <2>1. \E k \in 1..Len(words) : v = words[k]
    BY SelectWord
  <2>2. \E l \in 1..Len(words) : w = words[l]
    BY SelectWord
  <2> QED BY <2>1, <2>2
<1> HIDE DEF words
<1>5. ASSUME NEW x \in 1..Len(words), NEW y \in 1..Len(words), x < y
      PROVE  (first + x - 1) * b + b <= (first + y - 1) * b
  <2>1. PICK p \in Nat, q \in Nat : p = first + x - 1 /\ q = first + y - 1 /\ p + 1 <= q
    <3>1. first + x - 1 \in Nat /\ first + y - 1 \in Nat /\ (first + x - 1) + 1 <= first + y - 1
      BY <1>3, <1>5
    <3> QED BY <3>1
  <2>2. p + 1 \in Nat
    OBVIOUS
  <2>3. (p + 1) * b <= q * b
    BY <2>1, <2>2, ProductGrows
  <2>4. (p + 1) * b = p * b + b
    <3>1. p <= p
      OBVIOUS
    <3> QED BY <3>1, ProductGrows
  <2> QED BY <2>1, <2>3, <2>4
<1>6. k # l
  BY <1>4
<1>7. k < l \/ l < k
  BY <1>3, <1>6
<1> QED BY <1>3, <1>4, <1>5, <1>7

\* A store settles its word and leaves the others as they are.
LEMMA StoreSettles ==
  ASSUME NEW f \in Names, HasSelect(f), NEW m \in Memories, NEW step \in Stores, Selects(f, step),
         Valid(step.word), NEW word \in Seq(Bits),
         word = <<>> \/ Len(word) = step.word.width,
         word # <<>> => Register(f).rule = "preserve",
         NEW n, n = Written(m, step.word.at, step.word.width, NewWord(step, word))
  PROVE  /\ Settled(f, n, step.word)
         /\ \A v \in SelectWords(f) : v # step.word /\ Settled(f, m, v) => Settled(f, n, v)
<1>1. PICK w : w = step.word
  OBVIOUS
<1>2. w \in SelectWords(f) /\ w \in WordRecords /\ Valid(w)
  BY <1>1, SelectWord DEF Selects
<1>3. w.at \in Nat /\ w.width \in Nat
  BY <1>2 DEF WordRecords
<1>4. PICK bs : bs = NewWord(step, word)
  OBVIOUS
<1>5. \A i \in 0..(w.width - 1) : Place(m, w.at + i) = w.at + i
  BY <1>2, SelectPlace
<1>6. n = Written(m, w.at, w.width, bs)
  BY <1>1, <1>4
<1>7. /\ \A i \in 0..(w.width - 1) : w.at + i \in RegionBits => n.region[w.at + i] = bs[i]
      /\ \A q \in RegionBits : q \notin w.at..(w.at + w.width - 1) => n.region[q] = m.region[q]
  <2>1. PICK p \in Nat, k \in Nat : p = w.at /\ k = w.width
    BY <1>3
  <2>2. Plainly(m, p, k)
    BY <1>5, <2>1 DEF Plainly
  <2>3. Puts(m, Written(m, p, k, bs), p, k, bs)
    BY <2>2, WrittenInPlace
  <2> QED BY <2>1, <2>3, <1>6 DEF Puts
<1>8. \A i \in 0..(w.width - 1) : w.at + i \in RegionBits
  <2>1. ASSUME NEW i \in 0..(w.width - 1) PROVE w.at + i \in RegionBits
    <3>1. i + 1 \in 1..w.width /\ w.at + (i + 1) - 1 = w.at + i
      BY <1>3
    <3>2. w.at + (i + 1) - 1 \in 0..(Chars * CharBit - 1)
      BY <3>1, <1>2, ValidWord
    <3>3. PICK x \in Nat, y \in Nat : x = Chars * CharBit /\ y = (Chars + Cells) * CharBit /\ x <= y
      BY Lengths
    <3> QED BY <3>1, <3>2, <3>3 DEF RegionBits
  <2> QED BY <2>1
<1>9. ASSUME NEW i \in 0..(w.width - 1)
      PROVE  IF i \in w.offset..(w.offset + w.count - 1)
             THEN bs[i] = BitAt(Value(f), w.i + i - w.offset)
             ELSE Register(f).rule # "preserve" => bs[i] = IF Register(f).rule = "ones" THEN 1 ELSE 0
  <2>1. step.data = Value(f) /\ step.rule = Register(f).rule
    BY DEF Selects
  <2>2. bs[i] = IF i \in w.offset..(w.offset + w.count - 1) THEN BitAt(step.data, w.i + i - w.offset)
                ELSE IF word # <<>> THEN word[i + 1] ELSE IF step.rule = "ones" THEN 1 ELSE 0
    BY <1>1, <1>4 DEF NewWord
  <2> QED BY <2>1, <2>2
<1>10. Settled(f, n, w)
  BY <1>7, <1>8, <1>9 DEF Settled
<1>11. ASSUME NEW v \in SelectWords(f), v # w, Settled(f, m, v) PROVE Settled(f, n, v)
  <2>1. v \in WordRecords /\ (v.at + v.width <= w.at \/ w.at + w.width <= v.at)
    BY <1>2, <1>11, SelectWord, SelectWordsApart
  <2>2. v.at \in Nat /\ v.width \in Nat
    BY <2>1 DEF WordRecords
  <2>3. ASSUME NEW j \in 0..(v.width - 1), v.at + j \in RegionBits
        PROVE  n.region[v.at + j] = m.region[v.at + j]
    <3>1. PICK a \in Nat, b \in Nat, c \in Nat, d \in Nat :
            a = v.at /\ b = v.width /\ c = w.at /\ d = w.width
      BY <2>2, <1>3
    <3>2. a + b <= c \/ c + d <= a
      BY <2>1, <3>1
    <3>3. a + j \notin c..(c + d - 1)
      <4>1. j \in 0..(b - 1)
        BY <3>1
      <4> QED BY ONLY <4>1, <3>2, a \in Nat, b \in Nat, c \in Nat, d \in Nat
    <3>4. v.at + j \notin w.at..(w.at + w.width - 1)
      BY <3>1, <3>3
    <3> QED BY <2>3, <3>4, <1>7
  <2> QED BY <2>3, <1>11 DEF Settled
<1> QED BY <1>1, <1>10, <1>11

\* A quotient is found by multiplication.
LEMMA QuotientIs ==
  ASSUME NEW a \in Nat, NEW w \in Nat \ {0}, NEW q \in Nat, q * w <= a, a < q * w + w
  PROVE  a \div w = q
<1>1. PICK p \in Nat : p = a \div w /\ p * w <= a /\ a < p * w + w
  BY Quotient
<1>2. ASSUME NEW x \in Nat, NEW y \in Nat, x < y, y * w <= a, a < x * w + w PROVE FALSE
  <2>1. x + 1 <= y /\ x + 1 \in Nat
    BY <1>2
  <2>2. (x + 1) * w <= y * w
    BY <2>1, ProductGrows
  <2>3. (x + 1) * w = x * w + w
    <3>1. x <= x
      OBVIOUS
    <3> QED BY <3>1, ProductGrows
  <2>4. PICK s \in Nat, t \in Nat : s = x * w /\ t = y * w
    <3>1. x * w \in Nat /\ y * w \in Nat
      OBVIOUS
    <3> QED BY <3>1
  <2> QED BY <2>2, <2>3, <2>4, <1>2
<1>3. ~(p < q) /\ ~(q < p)
  BY <1>1, <1>2
<1> QED BY <1>1, <1>3

\* A bit of the register's words is in one of them.
LEMMA SelectBit ==
  ASSUME NEW f \in Names, HasSelect(f),
         NEW W \in Nat \ {0}, W = Register(f).acc * CharBit,
         NEW lo, lo = W * (Register(f).off \div W),
         NEW hi, hi = W * ((Register(f).off + Register(f).len + W - 1) \div W)
  PROVE  lo \in Nat /\ \A i \in 0..(hi - lo - 1) :
           \E w \in SelectWords(f) : \E j \in 0..(w.width - 1) :
             /\ lo + i = w.at + j /\ w.at \in Nat /\ w.width = W
             /\ Within(w, Register(f).off, W, Register(f).len)
<1> DEFINE words == Words(Register(f), Register(f).len)
<1>1. PICK off \in Nat, n \in Nat \ {0} : off = Register(f).off /\ n = Register(f).len
  BY RegisterIs
<1>2. /\ Len(words) = (off + n - 1) \div W - off \div W + 1
      /\ \A j \in 1..Len(words) : /\ words[j].at = (off \div W + j - 1) * W /\ words[j].width = W
                                  /\ Within(words[j], off, W, n)
  <2>1. InOrder(words, off, W, n)
    BY <1>1, RegisterIs
  <2> HIDE DEF words
  <2> QED BY <2>1 DEF InOrder
<1>3. SelectWords(f) = {words[j] : j \in 1..Len(words)}
  BY DEF SelectWords
<1> HIDE DEF words
<1>4. PICK first \in Nat : first = off \div W /\ first * W <= off /\ off < first * W + W
  BY Quotient
<1>5. PICK e \in Nat : e = off + n - 1 /\ off <= e
  BY <1>1
<1>6. PICK last \in Nat : last = e \div W /\ last * W <= e /\ e < last * W + W
  BY Quotient
<1>7. first * W \in Nat /\ last * W \in Nat /\ (last + 1) * W = last * W + W
  <2>1. last <= last
    OBVIOUS
  <2> QED BY <2>1, ProductGrows
<1>8. lo = first * W
  <2>1. W * first = first * W
    OBVIOUS
  <2> QED BY <2>1, <1>1, <1>4
<1>9. hi = (last + 1) * W
  <2>1. PICK z \in Nat : z = Register(f).off + Register(f).len + W - 1 /\ z = e + W
    <3>1. off + n + W - 1 = (off + n - 1) + W /\ off + n + W - 1 \in Nat
      OBVIOUS
    <3> QED BY <3>1, <1>1, <1>5
  <2>2. last + 1 \in Nat /\ (last + 1) * W <= z /\ z < (last + 1) * W + W
    BY <2>1, <1>6, <1>7
  <2>3. z \div W = last + 1
    BY <2>2, QuotientIs
  <2>4. W * (last + 1) = (last + 1) * W
    OBVIOUS
  <2> QED BY <2>1, <2>3, <2>4
<1>10. ASSUME NEW i \in 0..(hi - lo - 1)
       PROVE  \E w \in SelectWords(f) : \E j \in 0..(w.width - 1) :
                /\ lo + i = w.at + j /\ w.at \in Nat /\ w.width = W /\ Within(w, off, W, n)
  <2>1. PICK x \in Nat : x = lo + i /\ first * W <= x /\ x < (last + 1) * W
    <3>1. PICK a \in Nat, b \in Nat : a = first * W /\ b = (last + 1) * W
      BY <1>7
    <3>2. i \in 0..(b - a - 1)
      BY <3>1, <1>8, <1>9
    <3>3. a + i \in Nat /\ a <= a + i /\ a + i < b
      BY <3>2
    <3> QED BY <3>1, <3>3, <1>8
  <2>2. PICK k \in Nat : k = x \div W /\ k * W <= x /\ x < k * W + W
    BY Quotient
  <2>3. first <= k
    <3>1. PICK a \in Nat : a = first * W /\ a <= x /\ a \div W = first
      <4>1. first * W <= first * W /\ first * W < first * W + W
        BY <1>7
      <4>2. (first * W) \div W = first
        BY <4>1, <1>7, QuotientIs
      <4> QED BY <4>2, <1>7, <2>1
    <3> QED BY <3>1, <2>2, QuotientGrows
  <2>4. k <= last
    <3> SUFFICES ASSUME ~(k <= last) PROVE FALSE
      OBVIOUS
    <3>1. last + 1 <= k /\ last + 1 \in Nat
      OBVIOUS
    <3>2. (last + 1) * W <= k * W
      BY <3>1, ProductGrows
    <3>3. PICK a \in Nat, b \in Nat : a = (last + 1) * W /\ b = k * W
      <4>1. (last + 1) * W \in Nat /\ k * W \in Nat
        OBVIOUS
      <4> QED BY <4>1
    <3> QED BY <3>2, <3>3, <2>1, <2>2, SMTT(60)
  <2>5. PICK y \in 1..Len(words) : first + y - 1 = k
    <3>1. Len(words) = last - first + 1
      BY <1>2, <1>4, <1>5, <1>6
    <3>2. k - first + 1 \in 1..(last - first + 1) /\ first + (k - first + 1) - 1 = k
      BY <2>3, <2>4
    <3> QED BY <3>1, <3>2
  <2>6. PICK w : w = words[y] /\ w \in SelectWords(f)
    BY <1>3
  <2>7. w.at = k * W /\ w.width = W /\ Within(w, off, W, n)
    BY <2>5, <2>6, <1>2, <1>4
  <2>8. PICK j \in 0..(W - 1) : x = k * W + j
    <3>1. PICK a \in Nat : a = k * W
      OBVIOUS
    <3>2. a <= x /\ x < a + W
      BY <3>1, <2>2
    <3>3. x - a \in 0..(W - 1) /\ x = a + (x - a)
      BY ONLY <3>2, a \in Nat, x \in Nat, W \in Nat \ {0}
    <3> QED BY <3>1, <3>3
  <2>9. k * W \in Nat
    OBVIOUS
  <2> QED BY <2>1, <2>6, <2>7, <2>8, <2>9
<1> QED BY <1>1, <1>7, <1>8, <1>10

\* When its register is settled, a bank or an index is selected already.
LEMMA SelectedStays ==
  ASSUME NEW f \in Names, NEW m \in Memories, \A w \in SelectWords(f) : Settled(f, m, w)
  PROVE  AfterSelect(f, m) = m
<1> DEFINE r == Register(f)
<1>1. CASE ~HasSelect(f)
  BY <1>1 DEF HasSelect, AfterSelect
<1>2. CASE HasSelect(f)
  <2>1. PICK off \in Nat, len \in Nat \ {0}, W \in Nat \ {0} :
          off = r.off /\ len = r.len /\ W = r.acc * CharBit
    BY <1>2, RegisterIs
  <2>2. PICK lo \in Nat : lo = W * (off \div W)
    <3>1. off \div W \in Nat
      BY Quotient
    <3> QED BY <3>1
  <2>3. PICK hi : hi = W * ((off + len + W - 1) \div W)
    OBVIOUS
  <2>4. \A i \in 0..(hi - lo - 1) :
          \E w \in SelectWords(f) : \E j \in 0..(w.width - 1) :
             /\ lo + i = w.at + j /\ w.at \in Nat /\ w.width = W /\ Within(w, off, W, len)
    BY <1>2, <2>1, <2>2, <2>3, SelectBit
  <2> DEFINE Bit(i) == IF lo + i \in off..(off + len - 1) THEN BitAt(Value(f), lo + i - off)
                       ELSE CASE r.rule = "preserve" -> RegionBit(m, lo + i)
                              [] r.rule = "ones" -> 1
                              [] r.rule = "zeros" -> 0
             bs == [i \in 0..(hi - lo - 1) |-> Bit(i)]
  <2>5. Exact(m, r, Value(f)) = Written(m, lo, hi - lo, bs)
    BY <2>1, <2>2, <2>3 DEF Exact
  <2>6. ASSUME NEW i \in 0..(hi - lo - 1), Place(m, lo + i) \in RegionBits
        PROVE  Bit(i) = m.region[Place(m, lo + i)]
    <3>0. PICK w \in SelectWords(f) : \E j \in 0..(w.width - 1) :
            /\ lo + i = w.at + j /\ w.at \in Nat /\ w.width = W /\ Within(w, off, W, len)
      BY <2>4
    <3>1. PICK j \in 0..(w.width - 1) :
            /\ lo + i = w.at + j /\ w.at \in Nat /\ w.width = W /\ Within(w, off, W, len)
      BY <3>0
    <3>2. Place(m, lo + i) = lo + i /\ RegionBit(m, lo + i) = m.region[lo + i]
      BY <3>1, <1>2, SelectPlace DEF RegionBit
    <3>3. IF j \in w.offset..(w.offset + w.count - 1)
          THEN m.region[lo + i] = BitAt(Value(f), w.i + j - w.offset)
          ELSE r.rule # "preserve" => m.region[lo + i] = IF r.rule = "ones" THEN 1 ELSE 0
      BY <3>1, <3>2, <2>6 DEF Settled
    <3>4. PICK a \in Nat : a = w.at /\ lo + i = a + j /\ j \in 0..(W - 1)
      BY <3>1
    <3>5. PICK b \in Nat, c \in Nat : b = Larger(off, a) /\ c = Smaller(off + len, a + W)
      BY DEF Larger, Smaller
    <3>6. w.offset = b - a /\ w.i = b - off /\ w.count = c - b
      BY <3>1, <3>4, <3>5 DEF Within
    <3>7. w.i + j - w.offset = lo + i - off
      <4>1. w.i + j - w.offset = b - off + j - (b - a)
        BY <3>6
      <4>2. b - off + j - (b - a) = a + j - off
        BY <3>4, <3>5
      <4> QED BY <4>1, <4>2, <3>4
    <3>8. (j \in w.offset..(w.offset + w.count - 1)) <=> (lo + i \in off..(off + len - 1))
      <4>1. w.offset + w.count - 1 = c - a - 1
        BY <3>6, <3>4
      <4>2. (j \in (b - a)..(c - a - 1)) <=> (a + j \in off..(off + len - 1))
        BY <3>4, <3>5 DEF Larger, Smaller
      <4> QED BY <4>1, <4>2, <3>4, <3>6
    <3>9. r.rule \in {"preserve", "ones", "zeros"}
      BY <1>2, RegisterIs
    <3> QED BY <3>2, <3>3, <3>7, <3>8, <3>9
  <2> HIDE DEF Bit
  <2>7. \A i \in 0..(hi - lo - 1) :
           Place(m, lo + i) \in RegionBits => bs[i] = m.region[Place(m, lo + i)]
    BY <2>6
  <2> HIDE DEF bs
  <2>8. PICK n : n = hi - lo
    OBVIOUS
  <2>9. Written(m, lo, n, bs) = m
    <3>1. \A i \in 0..(n - 1) : Place(m, lo + i) \in RegionBits => bs[i] = m.region[Place(m, lo + i)]
      BY <2>7, <2>8
    <3> QED BY <3>1, WrittenSame
  <2>10. AfterSelect(f, m) = Exact(m, r, Value(f))
    BY <1>2 DEF AfterSelect, HasSelect, Value, Register
  <2> QED BY <2>5, <2>8, <2>9, <2>10
<1> QED BY <1>1, <1>2

-----------------------------------------------------------------------------
(* The invariant of a read. *)

\* What remains of a read reads the bits that are not there yet, and stores the words of
\* the register that are not settled.
Awaits(f, s, got, word, m) ==
  \/ Refuses(s)
  \/ /\ \E c : /\ Counts(f, s, c) /\ c[Len(s)] = ReadBits(f)
               /\ got = [j \in 1..c[0] |-> RegionBit(m, Target(f).off + j - 1)]
     /\ \A w \in SelectWords(f) : StoresWord(s, w) \/ Settled(f, m, w)
     /\ word # <<>> => HasSelect(f) /\ Register(f).rule = "preserve"

\* The lock is held from the first of the steps to the last.
Guards(s, a) ==
  \E h : Depths(h, s, 2) /\ h[0] = a /\ h[Len(s)] = 0 /\ \A i \in 1..(Len(s) - 1) : h[i] >= 1

Fresh(o) == o.steps = UnitRead(o.field, ResultBits(o.field)) /\ o.got = <<>> /\ o.word = <<>>

Guarded(o, a) == Guards(o.steps, a) /\ (a >= 1 \/ o.steps = <<>> \/ Fresh(o))

BufferRead(o, m) ==
  \/ Fresh(o)
  \/ o.steps = <<>> /\ o.got = [j \in 1..FieldOf[o.field].len |-> m.buffer[FieldOf[o.field].off + j]]

ReadInv ==
  ~Idle /\ op.do = "read" /\ op.ok /\ taint = {} =>
    IF FieldOf[op.field].kind = "buffer" THEN BufferRead(op, mem)
    ELSE /\ Awaits(op.field, op.steps, op.got, op.word, mem)
         /\ FieldOf[op.field].lock => Guarded(op, held)

\* The rest of a sequence.
LEMMA TailIs ==
  ASSUME NEW s \in Seq(Steps), s # <<>>
  PROVE  /\ Len(s) \in Nat \ {0} /\ Tail(s) \in Seq(Steps) /\ Len(Tail(s)) = Len(s) - 1
         /\ Head(s) = s[1] /\ Head(s) \in Steps
         /\ \A i \in 1..(Len(s) - 1) : Tail(s)[i] = s[i + 1]
<1>1. Len(s) \in Nat \ {0}
  BY EmptySeq
<1>2. Tail(s) \in Seq(Steps) /\ Len(Tail(s)) = Len(s) - 1 /\ \A i \in 1..Len(Tail(s)) : Tail(s)[i] = s[i + 1]
  BY HeadTailProperties
<1>3. Head(s) \in Steps /\ Head(s) = s[1]
  BY HeadTailProperties DEF Head
<1> QED BY <1>1, <1>2, <1>3

\* One step, and the others.
LEMMA TailHas ==
  ASSUME NEW s \in Seq(Steps), s # <<>>
  PROVE  /\ Refuses(s) => s[1].do = "refuse" \/ Refuses(Tail(s))
         /\ \A w : StoresWord(s, w) => (s[1].do = "store" /\ s[1].word = w) \/ StoresWord(Tail(s), w)
<1>1. PICK n \in Nat \ {0}, t \in Seq(Steps) : n = Len(s) /\ t = Tail(s) /\ Len(t) = n - 1
                                /\ \A i \in 1..(n - 1) : t[i] = s[i + 1]
  BY TailIs
<1>2. ASSUME NEW i \in 1..n, i # 1 PROVE \E k \in 1..Len(t) : t[k] = s[i]
  <2>1. PICK k \in 1..(n - 1) : i = k + 1
    <3>1. i - 1 \in 1..(n - 1) /\ i = i - 1 + 1
      BY <1>2
    <3> QED BY <3>1
  <2> QED BY <2>1, <1>1
<1>3. ASSUME Refuses(s), s[1].do # "refuse" PROVE Refuses(t)
  <2>1. PICK i \in 1..n : s[i].do = "refuse"
    BY <1>1, <1>3 DEF Refuses
  <2>2. i # 1
    BY <2>1, <1>3
  <2> QED BY <2>1, <2>2, <1>2 DEF Refuses
<1>4. ASSUME NEW w, StoresWord(s, w), ~(s[1].do = "store" /\ s[1].word = w) PROVE StoresWord(t, w)
  <2>1. PICK i \in 1..n : s[i].do = "store" /\ s[i].word = w
    BY <1>1, <1>4 DEF StoresWord
  <2>2. i # 1
    BY <2>1, <1>4
  <2> QED BY <2>1, <2>2, <1>2 DEF StoresWord
<1> QED BY <1>1, <1>3, <1>4

\* The counts of the others.
LEMMA TailCounts ==
  ASSUME NEW f \in Names, NEW s \in Seq(Steps), s # <<>>, NEW c, Counts(f, s, c)
  PROVE  /\ \E d : Counts(f, Tail(s), d) /\ d[0] = c[1] /\ d[Len(Tail(s))] = c[Len(s)]
         /\ c[0] \in Nat /\ c[1] \in Nat
         /\ s[1].do \in {"lock", "unlock", "read", "load", "store"}
         /\ s[1].do = "read" =>
              c[1] = c[0] + s[1].word.count /\ s[1].word.at + s[1].word.offset = Target(f).off + c[0]
         /\ s[1].do # "read" => c[1] = c[0]
         /\ s[1].do = "store" => c[0] = 0 /\ Selects(f, s[1])
         /\ s[1].do = "load" => HasSelect(f) /\ Register(f).rule = "preserve"
<1>1. PICK n \in Nat \ {0}, t \in Seq(Steps) : n = Len(s) /\ t = Tail(s) /\ Len(t) = n - 1
                                /\ \A i \in 1..(n - 1) : t[i] = s[i + 1]
  BY TailIs
<1> DEFINE Fits(v, k, i) ==
      /\ v[i].do \in {"lock", "unlock", "read", "load", "store"}
      /\ v[i].do = "read" =>
           k[i] = k[i - 1] + v[i].word.count /\ v[i].word.at + v[i].word.offset = Target(f).off + k[i - 1]
      /\ v[i].do # "read" => k[i] = k[i - 1]
      /\ v[i].do = "store" => k[i] = 0 /\ Selects(f, v[i])
      /\ v[i].do = "load" => HasSelect(f) /\ Register(f).rule = "preserve"
    d == [i \in 0..(n - 1) |-> c[i + 1]]
<1>2. c \in [0..n -> Nat] /\ \A i \in 1..n : Fits(s, c, i)
  BY <1>1 DEF Counts
<1>3. d \in [0..(n - 1) -> Nat] /\ \A i \in 0..(n - 1) : d[i] = c[i + 1]
  <2>1. \A i \in 0..(n - 1) : i + 1 \in 0..n
    OBVIOUS
  <2> QED BY <2>1, <1>2
<1> HIDE DEF d
<1>4. ASSUME NEW i \in 1..(n - 1) PROVE Fits(t, d, i)
  <2>1. i \in 0..(n - 1) /\ i - 1 \in 0..(n - 1) /\ i + 1 \in 1..n /\ i - 1 + 1 = i + 1 - 1
    OBVIOUS
  <2>2. d[i] = c[i + 1] /\ d[i - 1] = c[i + 1 - 1] /\ t[i] = s[i + 1]
    BY <2>1, <1>1, <1>3
  <2>3. Fits(s, c, i + 1)
    BY <2>1, <1>2
  <2> QED BY <2>2, <2>3
<1>5. Counts(f, t, d)
  BY <1>1, <1>3, <1>4 DEF Counts
<1>6. d[0] = c[1] /\ d[n - 1] = c[n] /\ c[0] \in Nat /\ c[1] \in Nat
  <2>1. 0 \in 0..(n - 1) /\ n - 1 \in 0..(n - 1) /\ 0 \in 0..n /\ 1 \in 0..n /\ n - 1 + 1 = n /\ 0 + 1 = 1
    OBVIOUS
  <2>2. d[0] = c[0 + 1] /\ d[n - 1] = c[n - 1 + 1]
    BY ONLY <2>1, <1>3
  <2>3. c \in [0..n -> Nat]
    BY <1>2
  <2> QED BY ONLY <2>1, <2>2, <2>3
<1>7. Fits(s, c, 1)
  <2>1. 1 \in 1..n
    OBVIOUS
  <2> QED BY <2>1, <1>2
<1>8. 1 - 1 = 0
  OBVIOUS
<1> QED BY <1>1, <1>5, <1>6, <1>7, <1>8

\* The lock is held while steps remain.
LEMMA GuardsTail ==
  ASSUME NEW s \in Seq(Steps), s # <<>>, NEW a, Guards(s, a)
  PROVE  /\ Guards(Tail(s), a + Change(Head(s)))
         /\ a + Change(Head(s)) >= 1 \/ Tail(s) = <<>>
<1>1. PICK n \in Nat \ {0}, t \in Seq(Steps) :
        /\ n = Len(s) /\ t = Tail(s) /\ Len(t) = n - 1
        /\ \A i \in 1..(n - 1) : t[i] = s[i + 1]
  BY TailIs
<1>2. PICK h : Depths(h, s, 2) /\ h[0] = a /\ h[n] = 0 /\ \A i \in 1..(n - 1) : h[i] >= 1
  BY <1>1 DEF Guards
<1>3. h \in [0..n -> 0..2] /\ \A i \in 1..n : h[i] = h[i - 1] + Change(s[i])
  BY <1>1, <1>2 DEF Depths
<1> DEFINE g == [i \in 0..(n - 1) |-> h[i + 1]]
<1>4. g \in [0..(n - 1) -> 0..2] /\ \A i \in 0..(n - 1) : g[i] = h[i + 1]
  <2>1. \A i \in 0..(n - 1) : i + 1 \in 0..n
    OBVIOUS
  <2> QED BY <2>1, <1>3
<1> HIDE DEF g
<1>5. ASSUME NEW i \in 1..(n - 1) PROVE g[i] = g[i - 1] + Change(t[i])
  <2>1. i \in 0..(n - 1) /\ i - 1 \in 0..(n - 1) /\ i + 1 \in 1..n /\ i - 1 + 1 = i + 1 - 1
    OBVIOUS
  <2>2. g[i] = h[i + 1] /\ g[i - 1] = h[i + 1 - 1] /\ t[i] = s[i + 1]
    BY <2>1, <1>1, <1>4
  <2> QED BY <2>1, <2>2, <1>3
<1>6. g[0] = a + Change(Head(s)) /\ g[n - 1] = 0 /\ g[0] = h[1]
  <2>1. 0 \in 0..(n - 1) /\ n - 1 \in 0..(n - 1) /\ 1 \in 1..n /\ n - 1 + 1 = n /\ 0 + 1 = 1 /\ 1 - 1 = 0
    OBVIOUS
  <2>2. g[0] = h[1] /\ g[n - 1] = h[n]
    BY <2>1, <1>4
  <2>3. h[1] = h[0] + Change(s[1])
    BY <2>1, <1>3
  <2>4. Head(s) = s[1]
    BY TailIs
  <2> QED BY <2>2, <2>3, <2>4, <1>2
<1>7. ASSUME NEW i \in 1..(n - 1 - 1) PROVE g[i] >= 1
  <2>1. i \in 0..(n - 1) /\ i + 1 \in 1..(n - 1)
    OBVIOUS
  <2> QED BY <2>1, <1>2, <1>4
<1>8. Guards(t, a + Change(Head(s)))
  <2>1. Depths(g, t, 2)
    BY <1>1, <1>4, <1>5 DEF Depths
  <2> QED BY <2>1, <1>1, <1>6, <1>7 DEF Guards
<1>9. a + Change(Head(s)) >= 1 \/ t = <<>>
  <2>1. CASE n = 1
    <3>1. Len(t) = 0
      BY <2>1, <1>1
    <3> QED BY <3>1, EmptySeq
  <2>2. CASE n # 1
    <3>1. 1 \in 1..(n - 1)
      BY <2>2
    <3> QED BY <3>1, <1>2, <1>6
  <2> QED BY <2>1, <2>2
<1> QED BY <1>1, <1>8, <1>9

\* The lock around a program is held from its first step to its last.
LEMMA LockGuards ==
  ASSUME NEW s \in Programs(1, FALSE), NEW r, r.lock
  PROVE  Guards(Locked(r, s), 0)
<1>1. PICK top \in Nat, deeper \in Nat : top = 1 /\ deeper = 2 /\ deeper = top + 1
  OBVIOUS
<1>2. PICK g : s \in Seq(Steps) /\ Runs(s, top, FALSE, g)
  BY <1>1 DEF Programs
<1>3. PICK h : Deepened(h, g, s, Locked(r, s), deeper)
  BY <1>1, <1>2, LockDeepens
<1>4. PICK n \in Nat : n = Len(s)
  BY <1>2, LenProperties
<1>5. g \in [0..n -> 0..top]
  BY <1>2, <1>4 DEF Runs, Depths
<1>6. /\ Len(Locked(r, s)) = n + 2 /\ Depths(h, Locked(r, s), 2) /\ h[0] = 0 /\ h[n + 2] = 0
      /\ \A i \in 0..n : h[i + 1] = g[i] + 1
  BY <1>1, <1>3, <1>4 DEF Deepened
<1>7. ASSUME NEW i \in 1..(n + 2 - 1) PROVE h[i] >= 1
  <2>1. PICK k \in 0..n : i = k + 1
    <3>1. i - 1 \in 0..n /\ i = i - 1 + 1
      OBVIOUS
    <3> QED BY <3>1
  <2>2. h[i] = g[k] + 1 /\ g[k] \in 0..top
    BY <2>1, <1>5, <1>6
  <2> QED BY <2>2, <1>1
<1> QED BY <1>6, <1>7 DEF Guards

\* A field with the lock rule holds the lock for all of a read.
LEMMA UnitReadGuards ==
  ASSUME NEW f \in Names, FieldOf[f].kind # "buffer", FieldOf[f].lock, NEW n \in Nat \ {0}
  PROVE  Guards(UnitRead(f, n), 0)
<1> DEFINE r == FieldOf[f]
<1>1. CASE r.kind = "field"
  <2>1. UnitRead(f, n) = Locked(r, FieldRead(r, n))
    BY <1>1 DEF UnitRead
  <2>2. FieldRead(r, n) \in Programs(1, FALSE)
    BY FieldReadIs, PlainIs
  <2> QED BY <2>1, <2>2, LockGuards
<1>2. CASE r.kind = "bank"
  <2>1. UnitRead(f, n) = Locked(r, Select(r.select, r.value) \o FieldRead(r, n))
    BY <1>2 DEF UnitRead, BankRead
  <2>2. FieldRead(r, n) \in Programs(1, FALSE)
    BY FieldReadIs, PlainIs
  <2>3. r.value \in Nat
    BY <1>2, FieldRecord
  <2>4. Select(r.select, r.value) \in Programs(1, FALSE)
    BY <1>2, <2>3, SelectIs
  <2>5. Select(r.select, r.value) \o FieldRead(r, n) \in Programs(1, FALSE)
    <3>1. PICK shield \in BOOLEAN, top \in Nat : shield = FALSE /\ top = 1
      OBVIOUS
    <3> QED BY <3>1, <2>2, <2>4, ProgramsConcatenate
  <2> QED BY <2>1, <2>5, LockGuards
<1>3. CASE r.kind = "index"
  <2>1. PICK d \in Names : d = r.data
    BY <1>3, FieldRecord
  <2>2. PICK inner : inner = Locked(FieldOf[d], FieldRead(FieldOf[d], n)) /\ inner \in Programs(1, FALSE)
    BY FieldReadIs, PlainIs
  <2>3. PICK v \in Nat : v = r.off \div CharBit
    BY FieldRecord, Quotient
  <2>4. UnitRead(f, n) = Locked(r, Select(r.select, v) \o inner)
    BY <1>3, <2>1, <2>2, <2>3 DEF UnitRead, IndexRead
  <2>5. Select(r.select, v) \in Programs(1, FALSE)
    BY <1>3, SelectIs
  <2>6. Select(r.select, v) \o inner \in Programs(1, FALSE)
    <3>1. PICK shield \in BOOLEAN, top \in Nat : shield = FALSE /\ top = 1
      OBVIOUS
    <3> QED BY <3>1, <2>2, <2>5, ProgramsConcatenate
  <2> QED BY <2>4, <2>6, LockGuards
<1> QED BY <1>1, <1>2, <1>3, FieldRecord

\* At first all is left to do.
LEMMA UnitReadAwaits ==
  ASSUME NEW f \in Names, FieldOf[f].kind # "buffer", NEW m
  PROVE  Awaits(f, UnitRead(f, ResultBits(f)), <<>>, <<>>, m)
<1>1. PICK s \in Reading(f, 0, ReadBits(f), SelectWords(f)) : s = UnitRead(f, ResultBits(f))
  BY UnitReadReads
<1>2. CASE Refuses(s)
  BY <1>1, <1>2 DEF Awaits
<1>3. CASE ~Refuses(s)
  <2>1. PICK c : Counts(f, s, c) /\ c[0] = 0 /\ c[Len(s)] = ReadBits(f)
    BY <1>3 DEF Reading
  <2>2. \A w \in SelectWords(f) : StoresWord(s, w)
    BY <1>3 DEF Reading
  <2>3. <<>> = [j \in 1..c[0] |-> RegionBit(m, Target(f).off + j - 1)]
    <3>1. 1..c[0] = {}
      BY <2>1
    <3> QED BY <3>1
  <2> QED BY <1>1, <2>1, <2>2, <2>3 DEF Awaits
<1> QED BY <1>2, <1>3

\* A step for the lock, or one that a read without failure does not have.
LEMMA AwaitsStill ==
  ASSUME NEW f \in Names, NEW s \in Seq(Steps), s # <<>>, NEW got, NEW word, NEW m,
         Awaits(f, s, got, word, m), Head(s).do \notin {"refuse", "read", "load", "store"}
  PROVE  Awaits(f, Tail(s), got, word, m)
<1>1. Head(s) = s[1]
  BY TailIs
<1>2. CASE Refuses(s)
  BY <1>1, <1>2, TailHas DEF Awaits
<1>3. CASE ~Refuses(s)
  <2>1. PICK c : /\ Counts(f, s, c) /\ c[Len(s)] = ReadBits(f)
                 /\ got = [j \in 1..c[0] |-> RegionBit(m, Target(f).off + j - 1)]
    BY <1>3 DEF Awaits
  <2>2. PICK d : Counts(f, Tail(s), d) /\ d[0] = c[1] /\ d[Len(Tail(s))] = c[Len(s)]
    BY <2>1, TailCounts
  <2>3. c[1] = c[0]
    BY <1>1, <2>1, TailCounts
  <2>4. \A w \in SelectWords(f) : StoresWord(Tail(s), w) \/ Settled(f, m, w)
    BY <1>1, <1>3, TailHas DEF Awaits
  <2>5. word # <<>> => HasSelect(f) /\ Register(f).rule = "preserve"
    BY <1>3 DEF Awaits
  <2> QED BY <2>1, <2>2, <2>3, <2>4, <2>5 DEF Awaits
<1> QED BY <1>2, <1>3

\* The bits of the next word are those that follow.
LEMMA BitsFollow ==
  ASSUME NEW m, NEW o \in Nat, NEW a \in Nat, NEW n \in Nat, NEW p, p = o + a
  PROVE  [j \in 1..a |-> RegionBit(m, o + j - 1)] \o [j \in 1..n |-> RegionBit(m, p + j - 1)]
           = [j \in 1..(a + n) |-> RegionBit(m, o + j - 1)]
<1> DEFINE S == {RegionBit(m, q) : q \in Int}
           s == [j \in 1..a |-> RegionBit(m, o + j - 1)]
           t == [j \in 1..n |-> RegionBit(m, p + j - 1)]
           u == [j \in 1..(a + n) |-> RegionBit(m, o + j - 1)]
<1>1. /\ \A j \in 1..a : o + j - 1 \in Int
      /\ \A j \in 1..n : p + j - 1 \in Int
      /\ \A j \in 1..(a + n) : o + j - 1 \in Int
  OBVIOUS
<1>2. s \in [1..a -> S] /\ t \in [1..n -> S] /\ u \in [1..(a + n) -> S]
  BY <1>1
<1>3. /\ \A j \in 1..a : s[j] = RegionBit(m, o + j - 1)
      /\ \A j \in 1..n : t[j] = RegionBit(m, p + j - 1)
      /\ \A j \in 1..(a + n) : u[j] = RegionBit(m, o + j - 1)
  OBVIOUS
<1> HIDE DEF S, s, t, u
<1>4. s \in Seq(S) /\ Len(s) = a /\ t \in Seq(S) /\ Len(t) = n
  BY <1>2, FunctionIsSequence
<1>5. /\ s \o t \in Seq(S) /\ Len(s \o t) = a + n
      /\ \A i \in 1..a : (s \o t)[i] = s[i]
      /\ \A i \in 1..n : (s \o t)[a + i] = t[i]
  <2>1. /\ s \o t \in Seq(S) /\ Len(s \o t) = Len(s) + Len(t)
        /\ Len(s) \in Nat /\ Len(t) \in Nat
        /\ \A i \in 1..Len(s) : (s \o t)[i] = s[i]
        /\ \A i \in 1..Len(t) : (s \o t)[Len(s) + i] = t[i]
        /\ \A i \in 1..Len(s \o t) : i \in 1..Len(s) \/ \E k \in 1..Len(t) : i = Len(s) + k
    <3>1. s \in Seq(S) /\ t \in Seq(S)
      BY <1>4
    <3> QED BY ONLY <3>1, Concatenated
  <2> QED BY <2>1, <1>4
<1>6. PICK v : v = s \o t
  OBVIOUS
<1>7. v \in [1..(a + n) -> S]
  BY <1>5, <1>6, LenProperties
<1>8. ASSUME NEW i \in 1..(a + n) PROVE v[i] = u[i]
  <2>1. CASE i <= a
    <3>1. i \in 1..a
      BY <2>1
    <3> QED BY <3>1, <1>3, <1>5, <1>6
  <2>2. CASE ~(i <= a)
    <3>1. PICK k \in 1..n : i = a + k
      <4>1. i - a \in 1..n /\ i = a + (i - a)
        BY <2>2
      <4> QED BY <4>1
    <3>2. v[i] = RegionBit(m, p + k - 1)
      BY <3>1, <1>3, <1>5, <1>6
    <3>3. p + k - 1 = o + i - 1
      BY <3>1
    <3> QED BY <3>2, <3>3, <1>3
  <2> QED BY <2>1, <2>2
<1>9. v = u
  BY <1>2, <1>7, <1>8
<1> QED BY <1>6, <1>9 DEF s, t, u

\* AmlOperationRegionRead appends the bits of the word.
LEMMA AwaitsRead ==
  ASSUME NEW f \in Names, NEW s \in Seq(Steps), s # <<>>, NEW got, NEW word, NEW m,
         Awaits(f, s, got, word, m), Head(s).do = "read", NEW w, w = Head(s).word, w \in WordRecords
  PROVE  Awaits(f, Tail(s), got \o [j \in 1..w.count |-> RegionBit(m, w.at + w.offset + j - 1)], word, m)
<1>1. Head(s) = s[1] /\ s[1].do = "read" /\ s[1].word = w
  BY TailIs
<1>2. CASE Refuses(s)
  BY <1>1, <1>2, TailHas DEF Awaits
<1>3. CASE ~Refuses(s)
  <2>1. PICK c : /\ Counts(f, s, c) /\ c[Len(s)] = ReadBits(f)
                 /\ got = [j \in 1..c[0] |-> RegionBit(m, Target(f).off + j - 1)]
    BY <1>3 DEF Awaits
  <2>2. PICK d : Counts(f, Tail(s), d) /\ d[0] = c[1] /\ d[Len(Tail(s))] = c[Len(s)]
    BY <2>1, TailCounts
  <2>3. c[0] \in Nat /\ c[1] = c[0] + w.count /\ w.at + w.offset = Target(f).off + c[0]
    BY <1>1, <2>1, TailCounts
  <2>4. PICK a \in Nat, n \in Nat, o \in Nat, p \in Nat :
           a = c[0] /\ n = w.count /\ o = Target(f).off /\ p = w.at + w.offset /\ p = o + a
    <3>1. w.count \in Nat
      BY DEF WordRecords
    <3>2. Target(f).off \in Nat
      BY FieldRecord DEF Target
    <3> QED BY <3>1, <3>2, <2>3
  <2>5. PICK g : g = got \o [j \in 1..n |-> RegionBit(m, p + j - 1)]
    OBVIOUS
  <2>6. g = [j \in 1..(a + n) |-> RegionBit(m, o + j - 1)]
    <3>1. got = [j \in 1..a |-> RegionBit(m, o + j - 1)]
      BY <2>1, <2>4
    <3>2. p = o + a
      BY <2>4
    <3>3. [j \in 1..a |-> RegionBit(m, o + j - 1)] \o [j \in 1..n |-> RegionBit(m, p + j - 1)]
            = [j \in 1..(a + n) |-> RegionBit(m, o + j - 1)]
      BY ONLY <3>2, o \in Nat, a \in Nat, n \in Nat, BitsFollow
    <3> QED BY <3>1, <3>3, <2>5
  <2>7. g = [j \in 1..d[0] |-> RegionBit(m, Target(f).off + j - 1)]
    BY <2>2, <2>3, <2>4, <2>6
  <2>8. \A v \in SelectWords(f) : StoresWord(Tail(s), v) \/ Settled(f, m, v)
    BY <1>1, <1>3, TailHas DEF Awaits
  <2>9. word # <<>> => HasSelect(f) /\ Register(f).rule = "preserve"
    BY <1>3 DEF Awaits
  <2>10. Awaits(f, Tail(s), g, word, m)
    BY <2>1, <2>2, <2>7, <2>8, <2>9 DEF Awaits
  <2> QED BY <2>4, <2>5, <2>10
<1> QED BY <1>2, <1>3

\* The register is read only if its other bits are preserved.
LEMMA AwaitsLoad ==
  ASSUME NEW f \in Names, NEW s \in Seq(Steps), s # <<>>, NEW got, NEW word, NEW m,
         Awaits(f, s, got, word, m), Head(s).do = "load", NEW loaded
  PROVE  Awaits(f, Tail(s), got, loaded, m)
<1>1. Head(s) = s[1]
  BY TailIs
<1>2. CASE Refuses(s)
  BY <1>1, <1>2, TailHas DEF Awaits
<1>3. CASE ~Refuses(s)
  <2>1. PICK c : /\ Counts(f, s, c) /\ c[Len(s)] = ReadBits(f)
                 /\ got = [j \in 1..c[0] |-> RegionBit(m, Target(f).off + j - 1)]
    BY <1>3 DEF Awaits
  <2>2. PICK d : Counts(f, Tail(s), d) /\ d[0] = c[1] /\ d[Len(Tail(s))] = c[Len(s)]
    BY <2>1, TailCounts
  <2>3. c[1] = c[0] /\ HasSelect(f) /\ Register(f).rule = "preserve"
    BY <1>1, <2>1, TailCounts
  <2>4. \A w \in SelectWords(f) : StoresWord(Tail(s), w) \/ Settled(f, m, w)
    BY <1>1, <1>3, TailHas DEF Awaits
  <2> QED BY <2>1, <2>2, <2>3, <2>4 DEF Awaits
<1> QED BY <1>2, <1>3

\* AmlOperationRegionWrite settles a word of the register, before anything is read.
LEMMA AwaitsStore ==
  ASSUME NEW f \in Names, NEW s \in Seq(Steps), s # <<>>, NEW got, NEW word \in Seq(Bits), NEW m \in Memories,
         Awaits(f, s, got, word, m), NEW step \in Stores, step = Head(s), step.do = "store",
         Valid(step.word), word = <<>> \/ Len(word) = step.word.width,
         NEW n, n = Written(m, step.word.at, step.word.width, NewWord(step, word))
  PROVE  Awaits(f, Tail(s), got, <<>>, n)
<1>1. step = s[1]
  BY TailIs
<1>2. CASE Refuses(s)
  BY <1>1, <1>2, TailHas DEF Awaits
<1>3. CASE ~Refuses(s)
  <2>1. PICK c : /\ Counts(f, s, c) /\ c[Len(s)] = ReadBits(f)
                 /\ got = [j \in 1..c[0] |-> RegionBit(m, Target(f).off + j - 1)]
    BY <1>3 DEF Awaits
  <2>2. PICK d : Counts(f, Tail(s), d) /\ d[0] = c[1] /\ d[Len(Tail(s))] = c[Len(s)]
    BY <2>1, TailCounts
  <2>3. c[1] = c[0] /\ c[0] = 0 /\ Selects(f, step)
    BY <1>1, <2>1, TailCounts
  <2>4. word # <<>> => Register(f).rule = "preserve"
    BY <1>3 DEF Awaits
  <2>5. HasSelect(f) /\ step.word \in SelectWords(f)
    BY <2>3 DEF Selects
  <2>6. /\ Settled(f, n, step.word)
        /\ \A v \in SelectWords(f) : v # step.word /\ Settled(f, m, v) => Settled(f, n, v)
    BY <2>3, <2>4, <2>5, StoreSettles
  <2>7. \A v \in SelectWords(f) : StoresWord(Tail(s), v) \/ Settled(f, n, v)
    <3>1. ASSUME NEW v \in SelectWords(f) PROVE StoresWord(Tail(s), v) \/ Settled(f, n, v)
      <4>1. StoresWord(s, v) \/ Settled(f, m, v)
        BY <1>3 DEF Awaits
      <4>2. StoresWord(s, v) => v = step.word \/ StoresWord(Tail(s), v)
        BY <1>1, TailHas
      <4> QED BY <4>1, <4>2, <2>6
    <3> QED BY <3>1
  <2>8. got = [j \in 1..d[0] |-> RegionBit(n, Target(f).off + j - 1)]
    <3>1. 1..c[0] = {} /\ 1..d[0] = {}
      BY <2>2, <2>3
    <3> QED BY <3>1, <2>1
  <2> QED BY <2>1, <2>2, <2>7, <2>8 DEF Awaits
<1> QED BY <1>2, <1>3

\* When nothing is left, the bits are those of the field, and the register is selected.
LEMMA AwaitsNothing ==
  ASSUME NEW f \in Names, NEW got, NEW word, NEW m \in Memories, Awaits(f, <<>>, got, word, m)
  PROVE  got = [j \in 1..ReadBits(f) |-> RegionBit(AfterSelect(f, m), Target(f).off + j - 1)]
<1>1. Len(<<>>) = 0 /\ 1..0 = {}
  OBVIOUS
<1>2. ~Refuses(<<>>) /\ \A w : ~StoresWord(<<>>, w)
  BY <1>1 DEF Refuses, StoresWord
<1>3. PICK c : /\ c[0] = ReadBits(f)
               /\ got = [j \in 1..c[0] |-> RegionBit(m, Target(f).off + j - 1)]
  BY <1>1, <1>2 DEF Awaits
<1>4. \A w \in SelectWords(f) : Settled(f, m, w)
  BY <1>2 DEF Awaits
<1>5. AfterSelect(f, m) = m
  BY <1>4, SelectedStays
<1> QED BY <1>3, <1>5

\* The next step of an operation.
LEMMA AdvanceIs ==
  ASSUME NEW o \in Operations, o.steps \in Seq(Steps), o.steps # <<>>, Advance(o)
  PROVE  /\ op'.steps = Tail(o.steps) /\ op'.field = o.field /\ op'.word = o.word /\ op'.ok = o.ok
         /\ op'.do = o.do /\ op'.got = o.got
<1>1. PICK t \in Seq(Steps) : t = Tail(o.steps)
  BY TailIs
<1>2. op' = [o EXCEPT !.steps = t]
  BY <1>1 DEF Advance
<1> QED BY <1>1, <1>2, StepsChange

\* The lock stays held while steps are left.
LEMMA GuardedNext ==
  ASSUME NEW s \in Seq(Steps), s # <<>>, NEW a, Guards(s, a),
         NEW o, o.steps = Tail(s), NEW b, b = a + Change(Head(s))
  PROVE  Guarded(o, b)
BY GuardsTail DEF Guarded

\* An operation goes on with its next step.
LEMMA ReadGoesOn ==
  ASSUME FieldsInv, ReadInv, ~Idle, op.ok, op.steps # <<>>, taint' = taint,
         op'.steps = Tail(op.steps), op'.field = op.field, op'.do = op.do,
         held' = held + Change(Head(op.steps)),
         BufferRead(op, mem) /\ FieldOf[op.field].kind = "buffer" => BufferRead(op', mem'),
         Awaits(op.field, op.steps, op.got, op.word, mem)
           => Awaits(op.field, Tail(op.steps), op'.got, op'.word, mem')
  PROVE  ReadInv'
<1> SUFFICES ASSUME op'.do = "read", taint' = {}
             PROVE  IF FieldOf[op'.field].kind = "buffer" THEN BufferRead(op', mem')
                    ELSE /\ Awaits(op'.field, op'.steps, op'.got, op'.word, mem')
                         /\ FieldOf[op'.field].lock => Guarded(op', held')
  BY DEF ReadInv
<1>1. IF FieldOf[op.field].kind = "buffer" THEN BufferRead(op, mem)
      ELSE /\ Awaits(op.field, op.steps, op.got, op.word, mem)
           /\ FieldOf[op.field].lock => Guarded(op, held)
  BY DEF ReadInv
<1>2. CASE FieldOf[op.field].kind = "buffer"
  BY <1>1, <1>2
<1>3. CASE FieldOf[op.field].kind # "buffer"
  <2>1. Awaits(op'.field, op'.steps, op'.got, op'.word, mem')
    BY <1>1, <1>3
  <2>2. ASSUME FieldOf[op.field].lock PROVE Guarded(op', held')
    <3>1. Guards(op.steps, held)
      BY <1>1, <1>3, <2>2 DEF Guarded
    <3>2. op.steps \in Seq(Steps)
      BY StepIs DEF Operations
    <3> QED BY <3>1, <3>2, GuardedNext
  <2> QED BY <1>3, <2>1, <2>2
<1> QED BY <1>2, <1>3

\* A read of a buffer field is a single step.
LEMMA BufferStep ==
  ASSUME BufferRead(op, mem), FieldOf[op.field].kind = "buffer", op.steps # <<>>
  PROVE  Head(op.steps).do = "bufferread" /\ Tail(op.steps) = <<>> /\ Fresh(op)
<1>1. op.steps = UnitRead(op.field, ResultBits(op.field)) /\ Fresh(op)
  BY DEF BufferRead, Fresh
<1>2. UnitRead(op.field, ResultBits(op.field)) = <<[do |-> "bufferread"]>>
  BY DEF UnitRead
<1>3. PICK step \in Steps : step = [do |-> "bufferread"]
  BY DEF Steps, Plain
<1>4. op.steps = <<step>>
  BY <1>1, <1>2, <1>3
<1>5. <<step>> \in Seq(Steps) /\ Len(<<step>>) = 1 /\ <<step>>[1] = step
  BY Single
<1>6. PICK s \in Seq(Steps) : s = op.steps /\ s # <<>> /\ Len(s) = 1 /\ s[1] = step
  BY <1>4, <1>5
<1>7. Head(s) = step /\ Tail(s) \in Seq(Steps) /\ Len(Tail(s)) = 0
  BY <1>6, TailIs
<1>8. Tail(s) = <<>>
  BY <1>7, EmptySeq
<1> QED BY <1>1, <1>3, <1>6, <1>7, <1>8

\* After a failure there is no result.
LEMMA FailKeepsRead ==
  ASSUME FieldsInv, ~Idle, Fail
  PROVE  ReadInv'
<1>1. op \in Operations
  BY DEF FieldsInv, OperationOK, Idle
<1>2. op'.ok = FALSE
  BY <1>1 DEF Fail, Operations
<1> QED BY <1>2 DEF ReadInv

\* The lock is taken and given back.
LEMMA LockKeepsRead ==
  ASSUME FieldsInv, ReadInv, Acquire \/ Release
  PROVE  ReadInv'
<1>1. /\ ~Idle /\ op.steps # <<>> /\ Head(op.steps).do \in {"lock", "unlock"}
      /\ Advance(op) /\ UNCHANGED <<mem, taint>>
  BY DEF Acquire, Release, At
<1>2. op \in Operations /\ op.field \in Names /\ op.steps \in Seq(Steps) /\ held \in 0..2
  BY <1>1, StepIs DEF Operations
<1>3. /\ op'.steps = Tail(op.steps) /\ op'.field = op.field /\ op'.word = op.word /\ op'.ok = op.ok
      /\ op'.do = op.do /\ op'.got = op.got
  BY <1>1, <1>2, AdvanceIs
<1>4. CASE ~op.ok
  BY <1>3, <1>4 DEF ReadInv
<1>5. CASE op.ok
  <2>1. held' = held + Change(Head(op.steps))
    <3>1. CASE Acquire
      BY <3>1, <1>2 DEF Acquire, At, Change
    <3>2. CASE Release
      <4>1. Head(op.steps).do = "unlock" /\ held' = held - 1
        BY <3>2 DEF Release
      <4>2. Change(Head(op.steps)) = -1
        BY <4>1 DEF Change
      <4> QED BY <4>1, <4>2, <1>2
    <3> QED BY <3>1, <3>2
  <2>2. BufferRead(op, mem) /\ FieldOf[op.field].kind = "buffer" => BufferRead(op', mem')
    BY <1>1, BufferStep
  <2>3. Awaits(op.field, op.steps, op.got, op.word, mem)
          => Awaits(op.field, Tail(op.steps), op'.got, op'.word, mem')
    BY <1>1, <1>2, <1>3, AwaitsStill
  <2> QED BY <1>1, <1>3, <1>5, <2>1, <2>2, <2>3, ReadGoesOn
<1> QED BY <1>4, <1>5

\* A word is read.
LEMMA ReadWordKeepsRead ==
  ASSUME FieldsInv, ReadInv, ReadWord
  PROVE  ReadInv'
<1> DEFINE bits == [j \in 1..Word.count |-> RegionBit(mem, Word.at + Word.offset + j - 1)]
<1>1. /\ ~Idle /\ op.steps # <<>> /\ op.ok /\ Head(op.steps).do = "read" /\ Valid(Word)
      /\ Advance([op EXCEPT !.got = @ \o bits]) /\ UNCHANGED <<mem, held, taint>>
  BY DEF ReadWord, At
<1>2. op \in Operations /\ op.field \in Names /\ op.steps \in Seq(Steps) /\ held \in 0..2 /\ op.got \in Seq(Bits)
  BY <1>1, StepIs DEF Operations
<1>3. FieldsInv'
  BY ReadWordKeepsInv
<1>4. PICK w \in WordRecords : w = Word /\ w = Head(op.steps).word
  BY <1>1, StepIs, StepKinds DEF Word
<1>5. PICK g : g = op.got \o bits
  OBVIOUS
<1>6. PICK o : o = [op EXCEPT !.got = g]
  OBVIOUS
<1>7. Advance(o)
  BY <1>1, <1>5, <1>6
<1>8. op' = [o EXCEPT !.steps = Tail(o.steps)]
  BY <1>7 DEF Advance
<1>9. /\ op'.steps = Tail(op.steps) /\ op'.field = op.field /\ op'.word = op.word
      /\ op'.do = op.do /\ op'.got = g
  BY <1>2, <1>6, <1>8 DEF Operations
<1>10. held' = held + Change(Head(op.steps))
  BY <1>1, <1>2 DEF Change
<1>11. BufferRead(op, mem) /\ FieldOf[op.field].kind = "buffer" => BufferRead(op', mem')
  BY <1>1, BufferStep
<1>12. Awaits(op.field, op.steps, op.got, op.word, mem)
          => Awaits(op.field, Tail(op.steps), op'.got, op'.word, mem')
  <2> SUFFICES ASSUME Awaits(op.field, op.steps, op.got, op.word, mem)
               PROVE  Awaits(op.field, Tail(op.steps), g, op.word, mem)
    BY <1>1, <1>9
  <2>1. Awaits(op.field, Tail(op.steps),
               op.got \o [j \in 1..w.count |-> RegionBit(mem, w.at + w.offset + j - 1)], op.word, mem)
    BY <1>1, <1>2, <1>4, AwaitsRead
  <2> QED BY <2>1, <1>4, <1>5
<1> QED BY <1>1, <1>9, <1>10, <1>11, <1>12, ReadGoesOn

\* A word of the register is read.
LEMMA LoadWordKeepsRead ==
  ASSUME FieldsInv, ReadInv, LoadWord
  PROVE  ReadInv'
<1> DEFINE bits == [j \in 1..Word.width |-> RegionBit(mem, Word.at + j - 1)]
<1>1. /\ ~Idle /\ op.steps # <<>> /\ op.ok /\ Head(op.steps).do = "load"
      /\ Advance([op EXCEPT !.word = bits]) /\ UNCHANGED <<mem, held, taint>>
  BY DEF LoadWord, At
<1> HIDE DEF bits
<1>2. op \in Operations /\ op.field \in Names /\ op.steps \in Seq(Steps) /\ held \in 0..2
  BY <1>1, StepIs DEF Operations
<1>3. PICK o : o = [op EXCEPT !.word = bits]
  OBVIOUS
<1>4. op' = [o EXCEPT !.steps = Tail(o.steps)]
  BY <1>1, <1>3 DEF Advance
<1>5. op'.steps = Tail(op.steps) /\ op'.field = op.field /\ op'.do = op.do /\ op'.got = op.got
  BY <1>2, <1>3, <1>4 DEF Operations
<1>6. held' = held + Change(Head(op.steps))
  BY <1>1, <1>2 DEF Change
<1>7. BufferRead(op, mem) /\ FieldOf[op.field].kind = "buffer" => BufferRead(op', mem')
  BY <1>1, BufferStep
<1>8. Awaits(op.field, op.steps, op.got, op.word, mem)
         => Awaits(op.field, Tail(op.steps), op'.got, op'.word, mem')
  <2> SUFFICES ASSUME Awaits(op.field, op.steps, op.got, op.word, mem)
               PROVE  Awaits(op.field, Tail(op.steps), op.got, op'.word, mem)
    BY <1>1, <1>5
  <2> QED BY <1>1, <1>2, AwaitsLoad
<1> QED BY <1>1, <1>5, <1>6, <1>7, <1>8, ReadGoesOn

\* A word of the register is written.
LEMMA StoreWordKeepsRead ==
  ASSUME FieldsInv, ReadInv, StoreWord
  PROVE  ReadInv'
<1>1. /\ ~Idle /\ op.steps # <<>> /\ op.ok /\ Head(op.steps).do = "store" /\ Valid(Word)
      /\ mem' = Written(mem, Word.at, Word.width, NewWord(Head(op.steps), op.word))
      /\ Advance([op EXCEPT !.word = <<>>, !.wrote = TRUE]) /\ UNCHANGED <<held, taint>>
  BY DEF StoreWord, At
<1>2. /\ op \in Operations /\ op.field \in Names /\ op.steps \in Seq(Steps) /\ held \in 0..2
      /\ mem \in Memories /\ op.word \in Seq(Bits)
  BY <1>1, StepIs DEF Operations, FieldsInv
<1>3. PICK step \in Stores : step = Head(op.steps) /\ Word = step.word /\ step.do = "store"
  BY <1>1, StepIs, StepKinds DEF Word
<1>4. op.word = <<>> \/ Len(op.word) = step.word.width
  BY <1>1, <1>3, StepIs
<1>5. PICK mid : mid = [op EXCEPT !.word = <<>>]
  OBVIOUS
<1>6. PICK o : o = [mid EXCEPT !.wrote = TRUE]
  OBVIOUS
<1>7. op' = [o EXCEPT !.steps = Tail(o.steps)]
  BY <1>1, <1>5, <1>6 DEF Advance
<1>8. /\ mid.steps = op.steps /\ mid.field = op.field /\ mid.do = op.do /\ mid.got = op.got /\ mid.word = <<>>
      /\ DOMAIN mid = DOMAIN op
  BY <1>2, <1>5 DEF Operations
<1>9. /\ o.steps = op.steps /\ o.field = op.field /\ o.do = op.do /\ o.got = op.got /\ o.word = <<>>
      /\ DOMAIN o = DOMAIN op
  BY <1>8, <1>6
<1>10. "steps" \in DOMAIN o
  BY <1>2, <1>9 DEF Operations
<1>11. /\ op'.steps = Tail(op.steps) /\ op'.field = op.field /\ op'.do = op.do /\ op'.got = op.got
       /\ op'.word = <<>>
  BY <1>7, <1>9, <1>10
<1>12. held' = held + Change(Head(op.steps))
  BY <1>1, <1>2 DEF Change
<1>13. BufferRead(op, mem) /\ FieldOf[op.field].kind = "buffer" => BufferRead(op', mem')
  BY <1>1, BufferStep
<1>14. Awaits(op.field, op.steps, op.got, op.word, mem)
         => Awaits(op.field, Tail(op.steps), op'.got, op'.word, mem')
  <2> SUFFICES ASSUME Awaits(op.field, op.steps, op.got, op.word, mem)
               PROVE  Awaits(op.field, Tail(op.steps), op.got, <<>>, mem')
    BY <1>11
  <2>1. mem' = Written(mem, step.word.at, step.word.width, NewWord(step, op.word)) /\ Valid(step.word)
    BY <1>1, <1>3
  <2> QED BY <2>1, <1>1, <1>2, <1>3, <1>4, AwaitsStore
<1> QED BY <1>1, <1>11, <1>12, <1>13, <1>14, ReadGoesOn

\* A read that has an access to a buffer among its steps is one of a buffer field, or
\* it is refused.
LEMMA OnlyRefused ==
  ASSUME NEW f \in Names, NEW s \in Seq(Steps), s # <<>>, NEW got, NEW word, NEW m,
         Awaits(f, s, got, word, m), Head(s).do \in {"bufferread", "bufferwrite"}, NEW g, NEW w, NEW n
  PROVE  Awaits(f, Tail(s), g, w, n)
<1>1. Head(s) = s[1]
  BY TailIs
<1>2. CASE Refuses(s)
  BY <1>1, <1>2, TailHas DEF Awaits
<1>3. CASE ~Refuses(s)
  <2>1. PICK c : Counts(f, s, c)
    BY <1>3 DEF Awaits
  <2>2. s[1].do \in {"lock", "unlock", "read", "load", "store"}
    BY <2>1, TailCounts
  <2> QED BY <2>2, <1>1
<1> QED BY <1>2, <1>3

\* AmlBufferFieldRead yields the bits of the field.
LEMMA ReadBufferKeepsRead ==
  ASSUME FieldsInv, ReadInv, ReadBuffer
  PROVE  ReadInv'
<1>1. ~Idle /\ op.steps # <<>> /\ op.ok /\ Head(op.steps).do = "bufferread"
  BY DEF ReadBuffer, At
<1>2. /\ op \in Operations /\ op.field \in Names /\ op.steps \in Seq(Steps) /\ held \in 0..2
      /\ mem.buffer \in Seq(Bits)
  BY <1>1, StepIs DEF Operations, FieldsInv, Memories
<1>3. CASE Fail
  BY <1>1, <1>3, FailKeepsRead
<1>4. CASE ~Fail
  <2> DEFINE r == FieldOf[op.field]
             g == CopyBits(mem.buffer, r.off, r.len, Zeros(r.len), 0)
  <2>1. Inside(r) /\ Advance([op EXCEPT !.got = g]) /\ UNCHANGED <<mem, held, taint>>
    BY <1>4 DEF ReadBuffer
  <2>2. r.off \in Nat /\ r.len \in Nat \ {0} /\ Len(mem.buffer) \in Nat /\ r.off + r.len <= Len(mem.buffer)
    BY <1>2, <2>1, FieldRecord, LenProperties DEF Inside
  <2>3. g = [j \in 1..r.len |-> mem.buffer[r.off + j]]
    <3>1. g = [p \in 1..r.len |->
                 IF p - 1 \in 0..(0 + r.len - 1) THEN BitAt(mem.buffer, r.off + p - 1 - 0) ELSE Zeros(r.len)[p]]
      BY DEF CopyBits, Zeros
    <3>2. ASSUME NEW p \in 1..r.len
          PROVE  p - 1 \in 0..(0 + r.len - 1) /\ BitAt(mem.buffer, r.off + p - 1 - 0) = mem.buffer[r.off + p]
      <4>1. p - 1 \in 0..(0 + r.len - 1) /\ r.off + p - 1 - 0 < Len(mem.buffer)
        BY <2>2
      <4>2. r.off + p - 1 - 0 + 1 = r.off + p
        BY <2>2
      <4> QED BY <4>1, <4>2 DEF BitAt
    <3> HIDE DEF g
    <3> QED BY <3>1, <3>2
  <2> HIDE DEF g
  <2>4. PICK o : o = [op EXCEPT !.got = g]
    OBVIOUS
  <2>5. op' = [o EXCEPT !.steps = Tail(o.steps)]
    BY <2>1, <2>4 DEF Advance
  <2>6. /\ op'.steps = Tail(op.steps) /\ op'.field = op.field /\ op'.word = op.word
        /\ op'.do = op.do /\ op'.got = g
    BY <1>2, <2>4, <2>5 DEF Operations
  <2>7. held' = held + Change(Head(op.steps))
    BY <1>1, <1>2, <2>1 DEF Change
  <2>8. BufferRead(op, mem) /\ FieldOf[op.field].kind = "buffer" => BufferRead(op', mem')
    <3> SUFFICES ASSUME BufferRead(op, mem), FieldOf[op.field].kind = "buffer"
                 PROVE  BufferRead(op', mem')
      OBVIOUS
    <3>1. op'.steps = <<>>
      BY <1>1, <2>6, BufferStep
    <3>2. mem' = mem
      BY <2>1
    <3> QED BY <3>1, <3>2, <2>3, <2>6 DEF BufferRead
  <2>9. Awaits(op.field, op.steps, op.got, op.word, mem)
           => Awaits(op.field, Tail(op.steps), op'.got, op'.word, mem')
    BY <1>1, <1>2, OnlyRefused
  <2>10. taint' = taint
    BY <2>1
  <2> QED BY <1>1, <2>6, <2>7, <2>8, <2>9, <2>10, ReadGoesOn
<1> QED BY <1>3, <1>4

\* A read writes no buffer.
LEMMA WriteBufferKeepsRead ==
  ASSUME FieldsInv, ReadInv, WriteBuffer
  PROVE  ReadInv'
<1>1. ~Idle /\ op.steps # <<>> /\ op.ok /\ Head(op.steps).do = "bufferwrite"
  BY DEF WriteBuffer, At
<1>2. op \in Operations /\ op.field \in Names /\ op.steps \in Seq(Steps) /\ held \in 0..2
  BY <1>1, StepIs DEF Operations
<1>3. CASE Fail
  BY <1>1, <1>3, FailKeepsRead
<1>4. CASE ~Fail
  <2>1. Advance([op EXCEPT !.wrote = TRUE]) /\ UNCHANGED <<held, taint>>
    BY <1>4 DEF WriteBuffer
  <2>2. PICK o : o = [op EXCEPT !.wrote = TRUE]
    OBVIOUS
  <2>3. op' = [o EXCEPT !.steps = Tail(o.steps)]
    BY <2>1, <2>2 DEF Advance
  <2>4. op'.steps = Tail(op.steps) /\ op'.field = op.field /\ op'.do = op.do
    BY <1>2, <2>2, <2>3 DEF Operations
  <2>5. held' = held + Change(Head(op.steps))
    BY <1>1, <1>2, <2>1 DEF Change
  <2>6. BufferRead(op, mem) /\ FieldOf[op.field].kind = "buffer" => BufferRead(op', mem')
    BY <1>1, BufferStep
  <2>7. Awaits(op.field, op.steps, op.got, op.word, mem)
           => Awaits(op.field, Tail(op.steps), op'.got, op'.word, mem')
    BY <1>1, <1>2, OnlyRefused
  <2>8. taint' = taint
    BY <2>1
  <2> QED BY <1>1, <2>4, <2>5, <2>6, <2>7, <2>8, ReadGoesOn
<1> QED BY <1>3, <1>4

\* All is left to do when a read begins, and the lock is not held.
LEMMA LoadBeginsRead ==
  ASSUME FieldsInv, NEW f \in Names, Load(f)
  PROVE  ReadInv'
<1>1. /\ op' = [do |-> "read", field |-> f, steps |-> UnitRead(f, ResultBits(f)), exact |-> <<>>,
                word |-> <<>>, got |-> <<>>, wrote |-> FALSE, ok |-> TRUE]
      /\ UNCHANGED <<mem, held>> /\ Idle
  BY DEF Load, Begin
<1>2. held = 0
  BY <1>1, OperationIsNotIdle DEF FieldsInv, OperationOK, Idle
<1>3. /\ op'.field = f /\ op'.steps = UnitRead(f, ResultBits(f)) /\ op'.word = <<>> /\ op'.got = <<>>
  BY <1>1
<1>4. Fresh(op')
  BY <1>3 DEF Fresh
<1>5. CASE FieldOf[f].kind = "buffer"
  BY <1>3, <1>4, <1>5 DEF ReadInv, BufferRead
<1>6. CASE FieldOf[f].kind # "buffer"
  <2>1. Awaits(f, op'.steps, op'.got, op'.word, mem')
    BY <1>3, <1>6, UnitReadAwaits
  <2>2. ASSUME FieldOf[f].lock PROVE Guarded(op', held')
    <3>1. Guards(UnitRead(f, ResultBits(f)), 0)
      BY <1>6, <2>2, ResultBitsIs, UnitReadGuards
    <3>2. held' = 0
      BY <1>1, <1>2
    <3> QED BY <3>1, <3>2, <1>3, <1>4 DEF Guarded
  <2> QED BY <2>1, <2>2, <1>3, <1>6 DEF ReadInv
<1> QED BY <1>5, <1>6

\* The firmware is in the way of a read without the lock, or comes before it.
LEMMA FirmwareKeepsRead ==
  ASSUME FieldsInv, ReadInv, Firmware
  PROVE  ReadInv'
<1>1. CASE FirmwareAcquire \/ FirmwareRelease
  <2>1. UNCHANGED <<mem, held, op, taint>>
    BY <1>1 DEF FirmwareAcquire, FirmwareRelease
  <2> QED BY <2>1 DEF ReadInv, Idle
<1>2. CASE FirmwareWrite
  <2>1. /\ owner = "firmware" /\ UNCHANGED <<held, op>> /\ ~(~Idle /\ op.steps = <<>>)
        /\ taint' = IF Idle THEN taint ELSE IF FieldOf[op.field].lock THEN taint ELSE taint \cup {"unlocked"}
    BY <1>2 DEF FirmwareWrite
  <2> SUFFICES ASSUME ~Idle, op.do = "read", op.ok, taint' = {}
               PROVE  IF FieldOf[op.field].kind = "buffer" THEN BufferRead(op, mem')
                      ELSE /\ Awaits(op.field, op.steps, op.got, op.word, mem')
                           /\ FieldOf[op.field].lock => Guarded(op, held)
    BY <2>1 DEF ReadInv, Idle
  <2>2. FieldOf[op.field].lock /\ taint = {}
    BY <2>1
  <2>3. IF FieldOf[op.field].kind = "buffer" THEN BufferRead(op, mem)
        ELSE /\ Awaits(op.field, op.steps, op.got, op.word, mem)
             /\ FieldOf[op.field].lock => Guarded(op, held)
    BY <2>2 DEF ReadInv
  <2>4. held = 0 /\ op.steps # <<>>
    BY <2>1 DEF FieldsInv
  <2>5. op.field \in Names
    BY <2>4, StepIs
  <2>6. CASE FieldOf[op.field].kind = "buffer"
    BY <2>3, <2>4, <2>6 DEF BufferRead
  <2>7. CASE FieldOf[op.field].kind # "buffer"
    <3>1. Guarded(op, held)
      BY <2>2, <2>3, <2>7
    <3>2. Fresh(op)
      BY <3>1, <2>4 DEF Guarded
    <3>3. Awaits(op.field, op.steps, op.got, op.word, mem')
      BY <3>2, <2>5, <2>7, UnitReadAwaits DEF Fresh
    <3> QED BY <3>1, <3>3, <2>7
  <2> QED BY <2>6, <2>7
<1> QED BY <1>1, <1>2 DEF Firmware

\* Every step keeps the invariant of reads.
LEMMA NextKeepsRead ==
  ASSUME FieldsInv, ReadInv, [Next]_vars
  PROVE  ReadInv'
<1>1. CASE UNCHANGED vars
  BY <1>1 DEF vars, ReadInv, Idle
<1>2. ASSUME NEW f \in Names, NEW data \in Stored,
             StoreInteger(f, data) \/ StoreBuffer(f, data) \/ StoreString(f, data)
      PROVE  ReadInv'
  <2>1. \A steps, exact : Begin("write", f, steps, exact) => op'.do = "write"
    BY DEF Begin
  <2>2. \A pieces, exact : WritePieces(f, pieces, exact) => op'.do = "write"
    BY <2>1 DEF WritePieces
  <2> SUFFICES op'.do = "write"
    BY DEF ReadInv
  <2>3. CASE StoreInteger(f, data)
    BY <2>1, <2>3 DEF StoreInteger
  <2>4. CASE StoreBuffer(f, data)
    <3>1. \/ WritePieces(f, <<data>>, <<data>>)
          \/ WritePieces(f, Chunks(data, FieldOf[f].len), Cut(data, FieldOf[f].len))
      BY <2>4 DEF StoreBuffer
    <3> QED BY <2>2, <3>1
  <2>5. CASE StoreString(f, data)
    BY <2>2, <2>5 DEF StoreString
  <2> QED BY <1>2, <2>3, <2>4, <2>5
<1>3. ASSUME NEW f \in Names, Load(f) PROVE ReadInv'
  BY <1>3, LoadBeginsRead
<1>4. ASSUME NEW data \in Stored, StoreToBuffer(data) PROVE ReadInv'
  BY <1>4 DEF StoreToBuffer, ReadInv, Idle
<1>5. CASE Refused \/ AcquireFails
  <2>1. ~Idle /\ Fail
    BY <1>5 DEF Refused, AcquireFails, At
  <2> QED BY <2>1, FailKeepsRead
<1>6. CASE Finish
  BY <1>6 DEF Finish, ReadInv, Idle
<1>7. CASE Step
  BY <1>5, <1>6, <1>7, LockKeepsRead, ReadWordKeepsRead, LoadWordKeepsRead, StoreWordKeepsRead,
     ReadBufferKeepsRead, WriteBufferKeepsRead DEF Step
<1>8. CASE Firmware
  BY <1>8, FirmwareKeepsRead
<1> QED BY <1>1, <1>2, <1>3, <1>4, <1>7, <1>8 DEF Next

\* The result of a load has room for the field.
LEMMA ResultHolds ==
  ASSUME NEW f \in Names
  PROVE  Smaller(FieldOf[f].len, ResultBits(f)) = FieldOf[f].len
<1>1. PICK n \in Nat \ {0} : n = FieldOf[f].len
  BY FieldRecord
<1>2. PICK b \in Nat \ {0} : b = CharBit
  BY Lengths
<1>3. PICK q \in Nat : q = (n + b - 1) \div b /\ n + b - 1 < q * b + b
  <2>1. n + b - 1 \in Nat
    OBVIOUS
  <2> QED BY <2>1, Quotient
<1>4. n <= q * b
  <2>1. PICK x \in Nat : x = q * b
    OBVIOUS
  <2> QED BY <2>1, <1>3
<1>5. CharsFor(FieldOf[f].len) = q
  BY <1>1, <1>2, <1>3 DEF CharsFor
<1>6. PICK l \in Nat : l = Larger(q, IntChars) /\ q <= l
  <2>1. IntChars \in Nat
    BY FieldRecord
  <2> QED BY <2>1 DEF Larger
<1>7. q * b <= l * b /\ l * b \in Nat /\ b * l = l * b
  BY <1>6, ProductGrows
<1>8. PICK x \in Nat, y \in Nat : x = q * b /\ y = l * b /\ n <= x /\ x <= y
  <2>1. q * b \in Nat
    OBVIOUS
  <2> QED BY <2>1, <1>4, <1>7
<1>9. ResultBits(f) = y
  BY <1>2, <1>5, <1>6, <1>7, <1>8 DEF ResultBits
<1> QED BY <1>1, <1>8, <1>9 DEF Smaller

\* What is read when nothing is left to read.
LEMMA InvImpliesExactReads ==
  ASSUME FieldsInv, ReadInv
  PROVE  ReadsAreExact
<1> SUFFICES ASSUME Reads
             PROVE  op.got = [j \in 1..Smaller(Target(op.field).len, ResultBits(op.field)) |->
                       IF FieldOf[op.field].kind = "buffer" THEN mem.buffer[FieldOf[op.field].off + j]
                       ELSE RegionBit(AfterSelect(op.field, mem), Target(op.field).off + j - 1)]
  BY DEF ReadsAreExact, Target
<1>1. ~Idle /\ op.do = "read" /\ op.ok /\ op.steps = <<>> /\ taint = {}
  BY DEF Reads
<1>2. op.field \in Names /\ mem \in Memories
  BY <1>1 DEF FieldsInv, OperationOK, Operations, Idle
<1>3. CASE FieldOf[op.field].kind = "buffer"
  <2>1. BufferRead(op, mem)
    BY <1>1, <1>3 DEF ReadInv
  <2>2. ~Fresh(op)
    <3>1. UnitRead(op.field, ResultBits(op.field)) = <<[do |-> "bufferread"]>>
      BY <1>3 DEF UnitRead
    <3>2. <<[do |-> "bufferread"]>> # <<>>
      OBVIOUS
    <3> QED BY <3>1, <3>2, <1>1 DEF Fresh
  <2>3. op.got = [j \in 1..FieldOf[op.field].len |-> mem.buffer[FieldOf[op.field].off + j]]
    BY <2>1, <2>2 DEF BufferRead
  <2>4. /\ Target(op.field) = FieldOf[op.field]
        /\ Smaller(FieldOf[op.field].len, ResultBits(op.field)) = FieldOf[op.field].len
    BY <1>2, <1>3, ResultHolds DEF Target
  <2> QED BY <2>3, <2>4, <1>3
<1>4. CASE FieldOf[op.field].kind # "buffer"
  <2>1. Awaits(op.field, <<>>, op.got, op.word, mem)
    BY <1>1, <1>4 DEF ReadInv
  <2>2. op.got = [j \in 1..ReadBits(op.field) |->
                      RegionBit(AfterSelect(op.field, mem), Target(op.field).off + j - 1)]
    BY <2>1, <1>2, AwaitsNothing
  <2> QED BY <2>2, <1>4 DEF ReadBits
<1> QED BY <1>3, <1>4

\* A read that nothing disturbed yields the bits of the field as they are when it ends, of
\* all its words and of the cell that was selected (AmlFieldRead, AmlBankFieldRead,
\* AmlIndexFieldRead).
THEOREM ReadsAreAlwaysExact == Spec => []ReadsAreExact
<1>1. Init => ReadInv
  BY DEF Init, ReadInv, Idle
<1>2. FieldsInv /\ ReadInv /\ [Next]_vars => ReadInv'
  BY NextKeepsRead
<1>3. FieldsInv /\ ReadInv => ReadsAreExact
  BY InvImpliesExactReads
<1> QED BY <1>1, <1>2, <1>3, FieldsStaySound, PTL DEF Spec
===============================================================================
