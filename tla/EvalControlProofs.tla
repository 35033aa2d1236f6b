-------------------------- MODULE EvalControlProofs --------------------------
(***************************************************************************)
(* The evaluator for every recursion limit, every loop limit and code of   *)
(* every length: what the C stack holds determines what AML_STATE must     *)
(* hold, in every state that evaluation, interruption and failure lead to. *)
(*                                                                         *)
(* Context(fs, n) is the AML_STATE that belongs to the first n calls of    *)
(* the stack fs.  The invariant says how far the actual one may be from    *)
(* it, and that every call that will restore a snapshot finds the context  *)
(* of the calls below it there.                                            *)
(***************************************************************************)
EXTENDS EvalControl, Lemmas

-----------------------------------------------------------------------------
(* What the innermost frames of a stack mean. *)

KindsIn(fs, n, kinds) == {i \in 1..n : fs[i].kind \in kinds}
CallsIn(fs, n) == KindsIn(fs, n, {"method", "table"})
ScopesIn(fs, n) == KindsIn(fs, n, {"method", "table", "scope"})
ListsIn(fs, n) == KindsIn(fs, n, {"list"})
CountedIn(fs, n) == KindsIn(fs, n, {"list", "arg"})
TablesIn(fs, n) == KindsIn(fs, n, {"table"})
TableIn(fs, n) == Innermost(TablesIn(fs, n))
LoopsIn(fs, n) == {i \in KindsIn(fs, n, {"while"}) : fs[i].body /\ i > TableIn(fs, n)}
OuterCallsIn(fs, n) == {i \in CallsIn(fs, n) : i <= TableIn(fs, n)}

Context(fs, n) ==
  [pass   |-> IF TableIn(fs, n) = 0 \/ fs[TableIn(fs, n)].full THEN "full"
              ELSE "namespace",
   level  |-> 1 + Cardinality(CallsIn(fs, n)),
   start  |-> IF TableIn(fs, n) = 0 THEN 0 ELSE 1 + Cardinality(OuterCallsIn(fs, n)),
   loops  |-> Cardinality(LoopsIn(fs, n)),
   event  |-> "none",
   ns     |-> Cardinality(ScopesIn(fs, n)),
   data   |-> Innermost(CallsIn(fs, n)),
   window |-> Innermost(ListsIn(fs, n))]

\* The snapshot of the call in frame i: a method's scope is pushed before it.
Snapshot(fs, i) ==
  IF fs[i].kind = "method" THEN [Context(fs, i - 1) EXCEPT !.level = @ + 1]
  ELSE Context(fs, i - 1)

-----------------------------------------------------------------------------
(* The invariant. *)

ListFrame == [kind : {"list"}, left : Nat, depth : 0..MaxDepth, window : Nat]
ArgFrame == [kind : {"arg"}, left : Nat, depth : 0..MaxDepth, returns : BOOLEAN]
WhileFrame == [kind : {"while"}, i : Nat, body : BOOLEAN, event : {"none"}]
ScopeFrame == [kind : {"scope"}]
MethodFrame == [kind : {"method"}, level : Nat, event : {"none"}]
TableFrame == [kind : {"table"}, full : BOOLEAN, level : Nat, tolerant : BOOLEAN]
Frame == ListFrame \cup ArgFrame \cup WhileFrame \cup ScopeFrame \cup MethodFrame
           \cup TableFrame

\* What a frame of the stack can be above.
Above(f, below) ==
  CASE f.kind = "list" -> below.kind # "arg" /\ (below.kind = "while" => below.body)
    [] f.kind = "arg" -> IF f.returns THEN below.kind = "list"
                         ELSE below.kind \in {"list", "arg", "while"}
    [] f.kind \in {"while", "scope"} -> below.kind = "list"
    [] f.kind \in {"method", "table"} -> below.kind \in {"list", "arg"}

\* The stack: calls of the host at the bottom, and each frame has saved what it
\* will restore.
StackOK(fs) ==
  /\ fs \in Seq(Frame)
  /\ fs # <<>> => fs[1].kind \in {"method", "table"}
  /\ \A i \in 2..Len(fs) : Above(fs[i], fs[i - 1])
  /\ \A i \in 1..Len(fs) :
       /\ fs[i].kind \in {"list", "arg"} =>
            Cardinality(CountedIn(fs, i - 1)) <= fs[i].depth
       /\ fs[i].kind = "list" => fs[i].window = Innermost(ListsIn(fs, i - 1))
       /\ fs[i].kind = "method" => fs[i].level = Context(fs, i).level

TypesOK ==
  /\ ok \in BOOLEAN
  /\ eval \in EvalState
  /\ snapshots \in Seq(EvalState)
  /\ depth \in 0..MaxDepth
  /\ panic \in BOOLEAN
  /\ leaks \in 0..MaxLeaks

\* What AML_STATE should be now.
Here(fs) == Context(fs, Len(fs))

\* Also while an error is on its way out.
ScopesOK(fs, e) ==
  LET c == Here(fs)
  IN  /\ e.level = c.level
      /\ e.start = c.start
      /\ e.ns >= c.ns
      /\ fs = <<>> => e = c

\* While no error is on its way out.
ContextOK(fs, e) ==
  LET c == Here(fs)
  IN  /\ e.loops = c.loops
      /\ e.ns = c.ns
      /\ e.window = c.window
      /\ e.pass = c.pass
      /\ fs # <<>> /\ fs[Len(fs)].kind # "method" => e.data = c.data

EventOK(fs, e) ==
  /\ e.event \in {"break", "continue"} => LoopsIn(fs, Len(fs)) # {}
  /\ e.event = "return" => CallsIn(fs, Len(fs)) # {}
  /\ e.event # "none" =>
       /\ fs # <<>>
       /\ fs[Len(fs)].kind # "arg"
       /\ fs[Len(fs)].kind = "while" => fs[Len(fs)].body

\* Every call finds its snapshot, when k were left behind before all of them.
Aligned(fs, n, ss, k) ==
  /\ Len(ss) = k + Context(fs, n).level
  /\ \A i \in CallsIn(fs, n) : ss[k + Context(fs, i).level] = Snapshot(fs, i)

\* A snapshot that a failed call has left is on top, and the error is on its way
\* to the call that will find it in place of its own.
Stray ==
  /\ ~ok /\ frames # <<>> /\ leaks > 0 /\ snapshots # <<>>
  /\ snapshots[Len(snapshots)].level > eval.level

EvalInv ==
  /\ TypesOK
  /\ StackOK(frames)
  /\ Cardinality(CountedIn(frames, Len(frames))) <= depth
  /\ panic => leaks > 0
  /\ ~panic =>
       /\ ScopesOK(frames, eval)
       /\ ok => ContextOK(frames, eval) /\ EventOK(frames, eval)
       /\ Aligned(frames, Len(frames), snapshots, leaks) \/ Stray

-----------------------------------------------------------------------------
(* Lemmas about contexts. *)

\* Adding the next frame to a set of frames.
LEMMA NextKinds ==
  ASSUME NEW fs, NEW n \in Nat, NEW kinds
  PROVE  /\ fs[n + 1].kind \in kinds =>
              KindsIn(fs, n + 1, kinds) = KindsIn(fs, n, kinds) \cup {n + 1}
         /\ fs[n + 1].kind \notin kinds => KindsIn(fs, n + 1, kinds) = KindsIn(fs, n, kinds)
<1>1. 1..(n + 1) = (1..n) \cup {n + 1}
  OBVIOUS
<1> QED BY <1>1 DEF KindsIn

\* Sets of frames are finite, and counting goes frame by frame.
LEMMA CountKinds ==
  ASSUME NEW fs, NEW n \in Nat, NEW kinds
  PROVE  /\ IsFiniteSet(KindsIn(fs, n, kinds))
         /\ Cardinality(KindsIn(fs, n, kinds)) \in Nat
         /\ n + 1 \notin KindsIn(fs, n, kinds)
         /\ fs[n + 1].kind \in kinds =>
              Cardinality(KindsIn(fs, n + 1, kinds)) = Cardinality(KindsIn(fs, n, kinds)) + 1
         /\ fs[n + 1].kind \notin kinds =>
              Cardinality(KindsIn(fs, n + 1, kinds)) = Cardinality(KindsIn(fs, n, kinds))
<1>1. IsFiniteSet(1..n)
  BY FS_Interval
<1>2. KindsIn(fs, n, kinds) \in SUBSET (1..n)
  BY DEF KindsIn
<1>3. IsFiniteSet(KindsIn(fs, n, kinds))
  BY <1>1, <1>2, FS_Subset
<1>4. n + 1 \notin KindsIn(fs, n, kinds)
  BY <1>2
<1>5. Cardinality(KindsIn(fs, n, kinds)) \in Nat
  BY <1>3, FS_CardinalityType
<1>6. Cardinality(KindsIn(fs, n, kinds) \cup {n + 1})
        = Cardinality(KindsIn(fs, n, kinds)) + 1
  BY <1>3, <1>4, FS_AddElement
<1> QED BY <1>3, <1>4, <1>5, <1>6, NextKinds

\* The innermost of a set of frames.
LEMMA InnermostIs ==
  ASSUME NEW n \in Nat, NEW S \in SUBSET (1..n)
  PROVE  /\ Innermost(S) \in 0..n
         /\ S # {} => Innermost(S) \in S
         /\ S = {} => Innermost(S) = 0
         /\ Innermost(S \cup {n + 1}) = n + 1
<1>1. S = {} => Innermost(S) = 0
  BY DEF Innermost
<1>2. S # {} => Innermost(S) \in S
  <2> SUFFICES ASSUME S # {} PROVE Innermost(S) \in S
    OBVIOUS
  <2>1. \E i \in S : \A j \in S : j <= i
    BY GreatestElement
  <2> QED BY <2>1 DEF Innermost
<1>3. Innermost(S \cup {n + 1}) = n + 1
  <2> DEFINE T == S \cup {n + 1}
  <2>1. /\ n + 1 \in T
        /\ \A j \in T : j <= n + 1
        /\ \A i \in T : (\A j \in T : j <= i) => i = n + 1
    OBVIOUS
  <2>2. Innermost(T) = CHOOSE i \in T : \A j \in T : j <= i
    BY <2>1 DEF Innermost
  <2> HIDE DEF T
  <2>3. Innermost(T) = n + 1
    BY <2>1, <2>2
  <2> QED BY <2>3 DEF T
<1>4. Innermost(S) \in 0..n
  <2>1. CASE S = {}
    BY <1>1, <2>1
  <2>2. CASE S # {}
    <3>1. Innermost(S) \in 1..n
      BY <1>2, <2>2
    <3> QED BY <3>1
  <2> QED BY <2>1, <2>2
<1> QED BY <1>1, <1>2, <1>3, <1>4

\* The frames that a table is in the middle of.
LEMMA TableIs ==
  ASSUME NEW fs, NEW n \in Nat
  PROVE  /\ TableIn(fs, n) \in 0..n
         /\ TableIn(fs, n) # 0 => fs[TableIn(fs, n)].kind = "table"
         /\ fs[n + 1].kind = "table" => TableIn(fs, n + 1) = n + 1
         /\ fs[n + 1].kind # "table" => TableIn(fs, n + 1) = TableIn(fs, n)
<1>1. TablesIn(fs, n) \in SUBSET (1..n)
  BY DEF TablesIn, KindsIn
<1>2. \A i \in TablesIn(fs, n) : fs[i].kind = "table"
  BY DEF TablesIn, KindsIn
<1>3. /\ TableIn(fs, n) \in 0..n
      /\ TablesIn(fs, n) # {} => TableIn(fs, n) \in TablesIn(fs, n)
      /\ TablesIn(fs, n) = {} => TableIn(fs, n) = 0
      /\ Innermost(TablesIn(fs, n) \cup {n + 1}) = n + 1
  BY <1>1, InnermostIs DEF TableIn
<1>4. /\ fs[n + 1].kind = "table" => TablesIn(fs, n + 1) = TablesIn(fs, n) \cup {n + 1}
      /\ fs[n + 1].kind # "table" => TablesIn(fs, n + 1) = TablesIn(fs, n)
  BY NextKinds DEF TablesIn
<1> QED BY <1>2, <1>3, <1>4 DEF TableIn

\* The loops and the outer calls once there is another frame.
LEMMA NextLoops ==
  ASSUME NEW fs, NEW n \in Nat
  PROVE  /\ IsFiniteSet(LoopsIn(fs, n)) /\ Cardinality(LoopsIn(fs, n)) \in Nat
         /\ fs[n + 1].kind = "table" => LoopsIn(fs, n + 1) = {}
         /\ fs[n + 1].kind \notin {"table", "while"} => LoopsIn(fs, n + 1) = LoopsIn(fs, n)
         /\ fs[n + 1].kind = "while" /\ ~fs[n + 1].body => LoopsIn(fs, n + 1) = LoopsIn(fs, n)
         /\ fs[n + 1].kind = "while" /\ fs[n + 1].body =>
              /\ LoopsIn(fs, n + 1) = LoopsIn(fs, n) \cup {n + 1}
              /\ Cardinality(LoopsIn(fs, n + 1)) = Cardinality(LoopsIn(fs, n)) + 1
<1> DEFINE W(m) == KindsIn(fs, m, {"while"})
<1>1. /\ IsFiniteSet(W(n)) /\ W(n) \in SUBSET (1..n)
      /\ fs[n + 1].kind = "while" => W(n + 1) = W(n) \cup {n + 1}
      /\ fs[n + 1].kind # "while" => W(n + 1) = W(n)
  <2>1. W(n) \in SUBSET (1..n)
    BY DEF KindsIn
  <2>2. IsFiniteSet(W(n))
    BY CountKinds
  <2>3. /\ fs[n + 1].kind = "while" => W(n + 1) = W(n) \cup {n + 1}
        /\ fs[n + 1].kind # "while" => W(n + 1) = W(n)
    BY NextKinds
  <2> QED BY <2>1, <2>2, <2>3
<1>2. /\ TableIn(fs, n) \in 0..n
      /\ fs[n + 1].kind = "table" => TableIn(fs, n + 1) = n + 1
      /\ fs[n + 1].kind # "table" => TableIn(fs, n + 1) = TableIn(fs, n)
  BY TableIs
<1>3. /\ LoopsIn(fs, n) = {i \in W(n) : fs[i].body /\ i > TableIn(fs, n)}
      /\ LoopsIn(fs, n + 1) = {i \in W(n + 1) : fs[i].body /\ i > TableIn(fs, n + 1)}
  BY DEF LoopsIn
<1> HIDE DEF W
<1>4. LoopsIn(fs, n) \in SUBSET W(n)
  BY <1>3
<1>5. IsFiniteSet(LoopsIn(fs, n)) /\ Cardinality(LoopsIn(fs, n)) \in Nat
  BY <1>1, <1>4, FS_Subset, FS_CardinalityType
<1>6. fs[n + 1].kind = "table" => LoopsIn(fs, n + 1) = {}
  BY <1>1, <1>2, <1>3
<1>7. fs[n + 1].kind \notin {"table", "while"} => LoopsIn(fs, n + 1) = LoopsIn(fs, n)
  BY <1>1, <1>2, <1>3
<1>8. fs[n + 1].kind = "while" /\ ~fs[n + 1].body => LoopsIn(fs, n + 1) = LoopsIn(fs, n)
  BY <1>1, <1>2, <1>3
<1>9. ASSUME fs[n + 1].kind = "while" /\ fs[n + 1].body
      PROVE  /\ LoopsIn(fs, n + 1) = LoopsIn(fs, n) \cup {n + 1}
             /\ Cardinality(LoopsIn(fs, n + 1)) = Cardinality(LoopsIn(fs, n)) + 1
  <2>1. LoopsIn(fs, n + 1) = LoopsIn(fs, n) \cup {n + 1}
    BY <1>1, <1>2, <1>3, <1>9
  <2>2. n + 1 \notin LoopsIn(fs, n)
    BY <1>1, <1>4
  <2> QED BY <1>5, <2>1, <2>2, FS_AddElement
<1> QED BY <1>5, <1>6, <1>7, <1>8, <1>9

\* The same for the calls outside of the innermost table.
LEMMA NextOuterCalls ==
  ASSUME NEW fs, NEW n \in Nat
  PROVE  /\ Cardinality(OuterCallsIn(fs, n)) \in Nat
         /\ Cardinality(OuterCallsIn(fs, n)) <= Cardinality(CallsIn(fs, n))
         /\ fs[n + 1].kind = "table" => OuterCallsIn(fs, n + 1) = CallsIn(fs, n + 1)
         /\ fs[n + 1].kind # "table" => OuterCallsIn(fs, n + 1) = OuterCallsIn(fs, n)
<1> DEFINE C(m) == CallsIn(fs, m)
<1>1. /\ IsFiniteSet(C(n)) /\ C(n) \in SUBSET (1..n) /\ C(n + 1) \in SUBSET (1..(n + 1))
      /\ C(n + 1) = C(n) \cup {n + 1} \/ C(n + 1) = C(n)
  <2>1. C(n) \in SUBSET (1..n) /\ C(n + 1) \in SUBSET (1..(n + 1))
    BY DEF CallsIn, KindsIn
  <2>2. IsFiniteSet(C(n))
    BY CountKinds DEF CallsIn
  <2>3. C(n + 1) = C(n) \cup {n + 1} \/ C(n + 1) = C(n)
    BY NextKinds DEF CallsIn
  <2> QED BY <2>1, <2>2, <2>3
<1>2. /\ TableIn(fs, n) \in 0..n
      /\ fs[n + 1].kind = "table" => TableIn(fs, n + 1) = n + 1
      /\ fs[n + 1].kind # "table" => TableIn(fs, n + 1) = TableIn(fs, n)
  BY TableIs
<1>3. /\ OuterCallsIn(fs, n) = {i \in C(n) : i <= TableIn(fs, n)}
      /\ OuterCallsIn(fs, n + 1) = {i \in C(n + 1) : i <= TableIn(fs, n + 1)}
  BY DEF OuterCallsIn
<1> HIDE DEF C
<1>4. OuterCallsIn(fs, n) \in SUBSET C(n)
  BY <1>3
<1>5. /\ Cardinality(OuterCallsIn(fs, n)) \in Nat
      /\ Cardinality(OuterCallsIn(fs, n)) <= Cardinality(C(n))
  BY <1>1, <1>4, FS_Subset, FS_CardinalityType
<1>6. fs[n + 1].kind = "table" => OuterCallsIn(fs, n + 1) = C(n + 1)
  BY <1>1, <1>2, <1>3
<1>7. fs[n + 1].kind # "table" => OuterCallsIn(fs, n + 1) = OuterCallsIn(fs, n)
  BY <1>1, <1>2, <1>3
<1> QED BY <1>5, <1>6, <1>7 DEF C

\* Frames of the same shape mean the same.
SameShape(f, g) ==
  /\ f.kind = g.kind
  /\ f.kind = "while" => f.body = g.body
  /\ f.kind = "table" => f.full = g.full

\* Stacks of the same shape have the same sets and contexts.
LEMMA Agree ==
  ASSUME NEW fs, NEW gs, NEW n \in Nat, \A i \in 1..n : SameShape(fs[i], gs[i])
  PROVE  \A m \in 0..n :
           /\ \A kinds : KindsIn(gs, m, kinds) = KindsIn(fs, m, kinds)
           /\ Context(gs, m) = Context(fs, m)
<1> SUFFICES ASSUME NEW m \in 0..n
             PROVE  /\ \A kinds : KindsIn(gs, m, kinds) = KindsIn(fs, m, kinds)
                    /\ Context(gs, m) = Context(fs, m)
  OBVIOUS
<1>1. ASSUME NEW kinds PROVE KindsIn(gs, m, kinds) = KindsIn(fs, m, kinds)
  <2>1. \A i \in 1..m : i \in 1..n
    OBVIOUS
  <2> QED BY <2>1 DEF KindsIn, SameShape
<1>2. TableIn(gs, m) = TableIn(fs, m)
  BY <1>1 DEF TableIn, TablesIn
<1>3. LoopsIn(gs, m) = LoopsIn(fs, m)
  <2>1. \A i \in KindsIn(fs, m, {"while"}) : i \in 1..n /\ fs[i].kind = "while"
    BY DEF KindsIn
  <2> QED BY <1>1, <1>2, <2>1 DEF LoopsIn, SameShape
<1>4. OuterCallsIn(gs, m) = OuterCallsIn(fs, m)
  BY <1>1, <1>2 DEF OuterCallsIn, CallsIn
<1>5. TableIn(fs, m) # 0 => gs[TableIn(fs, m)].full = fs[TableIn(fs, m)].full
  BY TableIs DEF SameShape
<1> QED BY <1>1, <1>2, <1>3, <1>4, <1>5 DEF Context, CallsIn, ScopesIn, ListsIn

\* The context of no call, and of one call more.
LEMMA ContextIs ==
  ASSUME NEW fs, NEW n \in Nat
  PROVE  /\ Context(fs, 0) = [pass |-> "full", level |-> 1, start |-> 0, loops |-> 0,
                              event |-> "none", ns |-> 0, data |-> 0, window |-> 0]
         /\ Context(fs, n).level \in Nat /\ Context(fs, n).level > 0
         /\ Context(fs, n).start \in Nat /\ Context(fs, n).start <= Context(fs, n).level
         /\ Context(fs, n).loops \in Nat /\ Context(fs, n).ns \in Nat
         /\ Context(fs, n).data \in 0..n /\ Context(fs, n).window \in 0..n
         /\ Context(fs, n) \in EvalState /\ Context(fs, n).event = "none"
<1>1. Context(fs, 0) = [pass |-> "full", level |-> 1, start |-> 0, loops |-> 0,
                        event |-> "none", ns |-> 0, data |-> 0, window |-> 0]
  <2>1. \A kinds : KindsIn(fs, 0, kinds) = {}
    <3>1. 1..0 = {}
      OBVIOUS
    <3> QED BY <3>1 DEF KindsIn
  <2>2. Innermost({}) = 0 /\ Cardinality({}) = 0
    BY FS_EmptySet DEF Innermost
  <2>3. TableIn(fs, 0) = 0 /\ LoopsIn(fs, 0) = {}
    BY <2>1, <2>2 DEF TableIn, TablesIn, LoopsIn
  <2> QED BY <2>1, <2>2, <2>3 DEF Context, CallsIn, ScopesIn, ListsIn
<1>2. /\ Cardinality(CallsIn(fs, n)) \in Nat /\ Cardinality(ScopesIn(fs, n)) \in Nat
      /\ Cardinality(LoopsIn(fs, n)) \in Nat /\ Cardinality(OuterCallsIn(fs, n)) \in Nat
      /\ Cardinality(OuterCallsIn(fs, n)) <= Cardinality(CallsIn(fs, n))
  BY CountKinds, NextLoops, NextOuterCalls DEF CallsIn, ScopesIn
<1>3. Innermost(CallsIn(fs, n)) \in 0..n /\ Innermost(ListsIn(fs, n)) \in 0..n
  <2>1. CallsIn(fs, n) \in SUBSET (1..n) /\ ListsIn(fs, n) \in SUBSET (1..n)
    BY DEF CallsIn, ListsIn, KindsIn
  <2> QED BY <2>1, InnermostIs
<1> QED BY <1>1, <1>2, <1>3 DEF Context, EvalState, Events

\* How the context changes with one frame more.
LEMMA NextContext ==
  ASSUME NEW fs, NEW n \in Nat
  PROVE  /\ fs[n + 1].kind = "list" =>
              Context(fs, n + 1) = [Context(fs, n) EXCEPT !.window = n + 1]
         /\ fs[n + 1].kind = "arg" => Context(fs, n + 1) = Context(fs, n)
         /\ fs[n + 1].kind = "while" /\ ~fs[n + 1].body =>
              Context(fs, n + 1) = Context(fs, n)
         /\ fs[n + 1].kind = "while" /\ fs[n + 1].body =>
              Context(fs, n + 1) = [Context(fs, n) EXCEPT !.loops = @ + 1]
         /\ fs[n + 1].kind = "scope" =>
              Context(fs, n + 1) = [Context(fs, n) EXCEPT !.ns = @ + 1]
         /\ fs[n + 1].kind = "method" =>
              Context(fs, n + 1) =
                [pass |-> Context(fs, n).pass, level |-> Context(fs, n).level + 1,
                 start |-> Context(fs, n).start, loops |-> Context(fs, n).loops,
                 event |-> "none", ns |-> Context(fs, n).ns + 1,
                 data |-> n + 1, window |-> Context(fs, n).window]
         /\ fs[n + 1].kind = "table" =>
              Context(fs, n + 1) =
                [pass |-> IF fs[n + 1].full THEN "full" ELSE "namespace",
                 level |-> Context(fs, n).level + 1,
                 start |-> Context(fs, n).level + 1, loops |-> 0,
                 event |-> "none", ns |-> Context(fs, n).ns + 1,
                 data |-> n + 1, window |-> Context(fs, n).window]
<1> DEFINE k == fs[n + 1].kind
<1>1. /\ k = "table" => TableIn(fs, n + 1) = n + 1
      /\ k # "table" => TableIn(fs, n + 1) = TableIn(fs, n)
  BY TableIs
<1>2. /\ k \in {"method", "table"} =>
           /\ Cardinality(CallsIn(fs, n + 1)) = Cardinality(CallsIn(fs, n)) + 1
           /\ Innermost(CallsIn(fs, n + 1)) = n + 1
      /\ k \notin {"method", "table"} => CallsIn(fs, n + 1) = CallsIn(fs, n)
      /\ Cardinality(CallsIn(fs, n)) \in Nat
  <2>1. CallsIn(fs, n) \in SUBSET (1..n)
    BY DEF CallsIn, KindsIn
  <2>2. k \in {"method", "table"} => CallsIn(fs, n + 1) = CallsIn(fs, n) \cup {n + 1}
    BY NextKinds DEF CallsIn
  <2>3. Innermost(CallsIn(fs, n) \cup {n + 1}) = n + 1
    BY <2>1, InnermostIs
  <2>4. /\ k \in {"method", "table"} =>
             Cardinality(CallsIn(fs, n + 1)) = Cardinality(CallsIn(fs, n)) + 1
        /\ Cardinality(CallsIn(fs, n)) \in Nat
    BY CountKinds DEF CallsIn
  <2>5. k \notin {"method", "table"} => CallsIn(fs, n + 1) = CallsIn(fs, n)
    BY NextKinds DEF CallsIn
  <2> HIDE DEF k
  <2> QED BY <2>2, <2>3, <2>4, <2>5
<1>3. /\ k = "list" => Innermost(ListsIn(fs, n + 1)) = n + 1
      /\ k # "list" => ListsIn(fs, n + 1) = ListsIn(fs, n)
  <2>1. ListsIn(fs, n) \in SUBSET (1..n)
    BY DEF ListsIn, KindsIn
  <2>2. /\ k = "list" => ListsIn(fs, n + 1) = ListsIn(fs, n) \cup {n + 1}
        /\ k # "list" => ListsIn(fs, n + 1) = ListsIn(fs, n)
    BY NextKinds DEF ListsIn
  <2> HIDE DEF k
  <2> QED BY <2>1, <2>2, InnermostIs
<1>4. /\ k \in {"method", "table", "scope"} =>
           Cardinality(ScopesIn(fs, n + 1)) = Cardinality(ScopesIn(fs, n)) + 1
      /\ k \notin {"method", "table", "scope"} => ScopesIn(fs, n + 1) = ScopesIn(fs, n)
  BY CountKinds, NextKinds DEF ScopesIn
<1>5. /\ k = "table" => LoopsIn(fs, n + 1) = {}
      /\ k \notin {"table", "while"} => LoopsIn(fs, n + 1) = LoopsIn(fs, n)
      /\ k = "while" /\ ~fs[n + 1].body => LoopsIn(fs, n + 1) = LoopsIn(fs, n)
      /\ k = "while" /\ fs[n + 1].body =>
           Cardinality(LoopsIn(fs, n + 1)) = Cardinality(LoopsIn(fs, n)) + 1
      /\ Cardinality({}) = 0
  BY NextLoops, FS_EmptySet
<1>6. /\ k = "table" => OuterCallsIn(fs, n + 1) = CallsIn(fs, n + 1)
      /\ k # "table" => OuterCallsIn(fs, n + 1) = OuterCallsIn(fs, n)
  BY NextOuterCalls
<1> HIDE DEF k
<1>7. k = "list" => Context(fs, n + 1) = [Context(fs, n) EXCEPT !.window = n + 1]
  BY <1>1, <1>2, <1>3, <1>4, <1>5, <1>6 DEF Context
<1>8. k = "arg" => Context(fs, n + 1) = Context(fs, n)
  BY <1>1, <1>2, <1>3, <1>4, <1>5, <1>6 DEF Context
<1>9. k = "while" /\ ~fs[n + 1].body => Context(fs, n + 1) = Context(fs, n)
  BY <1>1, <1>2, <1>3, <1>4, <1>5, <1>6 DEF Context
<1>10. k = "while" /\ fs[n + 1].body =>
         Context(fs, n + 1) = [Context(fs, n) EXCEPT !.loops = @ + 1]
  BY <1>1, <1>2, <1>3, <1>4, <1>5, <1>6 DEF Context
<1>11. k = "scope" => Context(fs, n + 1) = [Context(fs, n) EXCEPT !.ns = @ + 1]
  BY <1>1, <1>2, <1>3, <1>4, <1>5, <1>6 DEF Context
<1>12. ASSUME k = "method"
       PROVE  Context(fs, n + 1) =
                [pass |-> Context(fs, n).pass, level |-> Context(fs, n).level + 1,
                 start |-> Context(fs, n).start, loops |-> Context(fs, n).loops,
                 event |-> "none", ns |-> Context(fs, n).ns + 1,
                 data |-> n + 1, window |-> Context(fs, n).window]
  <2>1. /\ TableIn(fs, n + 1) = TableIn(fs, n)
        /\ LoopsIn(fs, n + 1) = LoopsIn(fs, n)
        /\ OuterCallsIn(fs, n + 1) = OuterCallsIn(fs, n)
        /\ ListsIn(fs, n + 1) = ListsIn(fs, n)
    BY <1>1, <1>3, <1>5, <1>6, <1>12
  <2>2. /\ 1 + Cardinality(CallsIn(fs, n + 1)) = Context(fs, n).level + 1
        /\ Innermost(CallsIn(fs, n + 1)) = n + 1
        /\ Cardinality(ScopesIn(fs, n + 1)) = Context(fs, n).ns + 1
    BY <1>2, <1>4, <1>12 DEF Context
  <2> QED BY <2>1, <2>2 DEF Context
<1>13. ASSUME k = "table"
       PROVE  Context(fs, n + 1) =
                [pass |-> IF fs[n + 1].full THEN "full" ELSE "namespace",
                 level |-> Context(fs, n).level + 1,
                 start |-> Context(fs, n).level + 1, loops |-> 0,
                 event |-> "none", ns |-> Context(fs, n).ns + 1,
                 data |-> n + 1, window |-> Context(fs, n).window]
  <2>1. /\ TableIn(fs, n + 1) = n + 1 /\ n + 1 # 0
        /\ Cardinality(LoopsIn(fs, n + 1)) = 0
        /\ ListsIn(fs, n + 1) = ListsIn(fs, n)
    BY <1>1, <1>3, <1>5, <1>13
  <2>2. /\ 1 + Cardinality(CallsIn(fs, n + 1)) = Context(fs, n).level + 1
        /\ 1 + Cardinality(OuterCallsIn(fs, n + 1)) = Context(fs, n).level + 1
        /\ Innermost(CallsIn(fs, n + 1)) = n + 1
        /\ Cardinality(ScopesIn(fs, n + 1)) = Context(fs, n).ns + 1
    BY <1>2, <1>4, <1>6, <1>13 DEF Context
  <2> QED BY <2>1, <2>2 DEF Context
<1> QED BY <1>7, <1>8, <1>9, <1>10, <1>11, <1>12, <1>13 DEF k

\* The context of a method, part by part.
LEMMA NextMethod ==
  ASSUME NEW fs, NEW n \in Nat, fs[n + 1].kind = "method"
  PROVE  /\ Context(fs, n + 1).pass = Context(fs, n).pass
         /\ Context(fs, n + 1).level = Context(fs, n).level + 1
         /\ Context(fs, n + 1).start = Context(fs, n).start
         /\ Context(fs, n + 1).loops = Context(fs, n).loops
         /\ Context(fs, n + 1).ns = Context(fs, n).ns + 1
         /\ Context(fs, n + 1).data = n + 1
         /\ Context(fs, n + 1).window = Context(fs, n).window
<1>1. Context(fs, n + 1) =
           [pass |-> Context(fs, n).pass, level |-> Context(fs, n).level + 1,
            start |-> Context(fs, n).start, loops |-> Context(fs, n).loops,
            event |-> "none", ns |-> Context(fs, n).ns + 1,
            data |-> n + 1, window |-> Context(fs, n).window]
  BY NextContext
<1> QED BY <1>1

\* The context of a table, part by part.
LEMMA NextTable ==
  ASSUME NEW fs, NEW n \in Nat, fs[n + 1].kind = "table"
  PROVE  /\ Context(fs, n + 1).pass = IF fs[n + 1].full THEN "full" ELSE "namespace"
         /\ Context(fs, n + 1).level = Context(fs, n).level + 1
         /\ Context(fs, n + 1).start = Context(fs, n).level + 1
         /\ Context(fs, n + 1).loops = 0
         /\ Context(fs, n + 1).ns = Context(fs, n).ns + 1
         /\ Context(fs, n + 1).data = n + 1
         /\ Context(fs, n + 1).window = Context(fs, n).window
<1>1. Context(fs, n + 1) =
           [pass |-> IF fs[n + 1].full THEN "full" ELSE "namespace",
            level |-> Context(fs, n).level + 1,
            start |-> Context(fs, n).level + 1, loops |-> 0,
            event |-> "none", ns |-> Context(fs, n).ns + 1,
            data |-> n + 1, window |-> Context(fs, n).window]
  BY NextContext
<1> QED BY <1>1

\* The context of a frame that is no call, part by part.
LEMMA NextPlain ==
  ASSUME NEW fs, NEW n \in Nat, fs[n + 1].kind \in {"list", "arg", "while", "scope"}
  PROVE  /\ Context(fs, n + 1).pass = Context(fs, n).pass
         /\ Context(fs, n + 1).level = Context(fs, n).level
         /\ Context(fs, n + 1).start = Context(fs, n).start
         /\ Context(fs, n + 1).loops =
              IF fs[n + 1].kind = "while" /\ fs[n + 1].body THEN Context(fs, n).loops + 1
              ELSE Context(fs, n).loops
         /\ Context(fs, n + 1).ns =
              IF fs[n + 1].kind = "scope" THEN Context(fs, n).ns + 1 ELSE Context(fs, n).ns
         /\ Context(fs, n + 1).data = Context(fs, n).data
         /\ Context(fs, n + 1).window =
              IF fs[n + 1].kind = "list" THEN n + 1 ELSE Context(fs, n).window
<1> DEFINE c == Context(fs, n)
<1>1. c \in EvalState
  BY ContextIs
<1>2. /\ fs[n + 1].kind = "list" => Context(fs, n + 1) = [c EXCEPT !.window = n + 1]
      /\ fs[n + 1].kind = "arg" => Context(fs, n + 1) = c
      /\ fs[n + 1].kind = "while" /\ ~fs[n + 1].body => Context(fs, n + 1) = c
      /\ fs[n + 1].kind = "while" /\ fs[n + 1].body =>
           Context(fs, n + 1) = [c EXCEPT !.loops = @ + 1]
      /\ fs[n + 1].kind = "scope" => Context(fs, n + 1) = [c EXCEPT !.ns = @ + 1]
  <2>1. fs[n + 1].kind = "list" =>
          Context(fs, n + 1) = [Context(fs, n) EXCEPT !.window = n + 1]
    BY NextContext
  <2>0. n \in Nat
    OBVIOUS
  <2>2. /\ fs[n + 1].kind = "arg" => Context(fs, n + 1) = Context(fs, n)
        /\ fs[n + 1].kind = "while" /\ ~fs[n + 1].body => Context(fs, n + 1) = Context(fs, n)
    BY NextContext
  <2>3. fs[n + 1].kind = "while" /\ fs[n + 1].body =>
          Context(fs, n + 1) = [Context(fs, n) EXCEPT !.loops = @ + 1]
    BY ONLY <2>0, NextContext, ZenonT(60)
  <2>4. fs[n + 1].kind = "scope" => Context(fs, n + 1) = [Context(fs, n) EXCEPT !.ns = @ + 1]
    BY ONLY <2>0, NextContext, ZenonT(60)
  <2> QED BY <2>1, <2>2, <2>3, <2>4
<1> HIDE DEF c
<1>3. CASE fs[n + 1].kind = "list"
  BY <1>1, <1>2, <1>3 DEF EvalState, c
<1>4. CASE fs[n + 1].kind = "arg"
  BY <1>1, <1>2, <1>4 DEF EvalState, c
<1>5. CASE fs[n + 1].kind = "while" /\ ~fs[n + 1].body
  BY <1>1, <1>2, <1>5 DEF EvalState, c
<1>6. CASE fs[n + 1].kind = "while" /\ fs[n + 1].body
  BY <1>1, <1>2, <1>6 DEF EvalState, c
<1>7. CASE fs[n + 1].kind = "scope"
  BY <1>1, <1>2, <1>7 DEF EvalState, c
<1> QED BY <1>3, <1>4, <1>5, <1>6, <1>7

-----------------------------------------------------------------------------
(* Lemmas about stacks. *)

Shaped(fs, gs, n) == \A i \in 1..n : SameShape(fs[i], gs[i])

\* What follows from the shape of the first n frames.
LEMMA ShapedIs ==
  ASSUME NEW fs, NEW gs, NEW n \in Nat, Shaped(fs, gs, n)
  PROVE  /\ \A m \in 0..n :
              /\ Context(gs, m) = Context(fs, m)
              /\ CallsIn(gs, m) = CallsIn(fs, m)
              /\ ListsIn(gs, m) = ListsIn(fs, m)
              /\ CountedIn(gs, m) = CountedIn(fs, m)
              /\ LoopsIn(gs, m) = LoopsIn(fs, m)
         /\ \A i \in 1..n : Snapshot(gs, i) = Snapshot(fs, i)
<1>1. \A m \in 0..n : /\ \A kinds : KindsIn(gs, m, kinds) = KindsIn(fs, m, kinds)
                      /\ Context(gs, m) = Context(fs, m)
  BY Agree DEF Shaped
<1>2. ASSUME NEW m \in 0..n PROVE LoopsIn(gs, m) = LoopsIn(fs, m)
  <2>1. KindsIn(gs, m, {"while"}) = KindsIn(fs, m, {"while"})
    BY <1>1
  <2>2. TableIn(gs, m) = TableIn(fs, m)
    BY <1>1 DEF TableIn, TablesIn
  <2>3. \A i \in KindsIn(fs, m, {"while"}) : i \in 1..n /\ fs[i].kind = "while"
    BY DEF KindsIn
  <2> QED BY <2>1, <2>2, <2>3 DEF LoopsIn, Shaped, SameShape
<1>3. ASSUME NEW i \in 1..n PROVE Snapshot(gs, i) = Snapshot(fs, i)
  <2>1. Context(gs, i - 1) = Context(fs, i - 1)
    BY <1>1
  <2> QED BY <2>1 DEF Snapshot, Shaped, SameShape
<1> QED BY <1>1, <1>2, <1>3 DEF CallsIn, ListsIn, CountedIn

\* A call is never above the level of the calls in it.
LEMMA LevelsGrow ==
  ASSUME NEW fs, NEW n \in Nat, NEW i \in CallsIn(fs, n)
  PROVE  /\ i \in 1..n
         /\ Context(fs, i).level \in Nat
         /\ Context(fs, i).level > 0
         /\ Context(fs, i).level <= Context(fs, n).level
<1>1. i \in 1..n
  BY DEF CallsIn, KindsIn
<1>2. CallsIn(fs, i) \subseteq CallsIn(fs, n)
  BY <1>1 DEF CallsIn, KindsIn
<1>3. Cardinality(CallsIn(fs, i)) <= Cardinality(CallsIn(fs, n))
  <2>1. IsFiniteSet(CallsIn(fs, n))
    BY CountKinds DEF CallsIn
  <2> QED BY <1>2, <2>1, FS_Subset
<1>4. Cardinality(CallsIn(fs, i)) \in Nat /\ Cardinality(CallsIn(fs, n)) \in Nat
  <2>1. i \in Nat
    BY <1>1
  <2> QED BY <2>1, CountKinds DEF CallsIn
<1> QED BY <1>1, <1>3, <1>4 DEF Context

\* The snapshots serve a stack of the same shape, and one frame more or less.
LEMMA AlignedShape ==
  ASSUME NEW fs, NEW gs, NEW n \in Nat, NEW ss, NEW k, Shaped(fs, gs, n)
  PROVE  Aligned(fs, n, ss, k) => Aligned(gs, n, ss, k)
<1>1. \A i \in CallsIn(fs, n) : i \in 1..n
  BY DEF CallsIn, KindsIn
<1> QED BY <1>1, ShapedIs DEF Aligned

\* A frame that is no call needs no snapshot.
LEMMA AlignedFrame ==
  ASSUME NEW fs, NEW n \in Nat, NEW ss, NEW k,
         fs[n + 1].kind \notin {"method", "table"}
  PROVE  Aligned(fs, n, ss, k) <=> Aligned(fs, n + 1, ss, k)
<1>1. CallsIn(fs, n + 1) = CallsIn(fs, n)
  BY NextKinds DEF CallsIn
<1>2. Context(fs, n + 1).level = Context(fs, n).level
  BY <1>1 DEF Context
<1> QED BY <1>1, <1>2 DEF Aligned

\* A call adds its snapshot, and its end takes it.
LEMMA AlignedCall ==
  ASSUME NEW fs, NEW n \in Nat, NEW ss \in Seq(EvalState), NEW k \in Nat,
         fs[n + 1].kind \in {"method", "table"}
  PROVE  /\ Aligned(fs, n, ss, k) => Aligned(fs, n + 1, Append(ss, Snapshot(fs, n + 1)), k)
         /\ Aligned(fs, n + 1, ss, k) =>
              /\ Len(ss) > 0 /\ ss[Len(ss)] = Snapshot(fs, n + 1)
              /\ Aligned(fs, n, SubSeq(ss, 1, Len(ss) - 1), k)
<1>1. CallsIn(fs, n + 1) = CallsIn(fs, n) \cup {n + 1}
  BY NextKinds DEF CallsIn
<1>2. /\ Context(fs, n).level \in Nat /\ Context(fs, n).level > 0
      /\ Context(fs, n + 1).level = Context(fs, n).level + 1
  <2>1. Context(fs, n).level \in Nat /\ Context(fs, n).level > 0
    BY ContextIs
  <2>2. fs[n + 1].kind = "method" => Context(fs, n + 1).level = Context(fs, n).level + 1
    BY NextMethod
  <2>3. fs[n + 1].kind = "table" => Context(fs, n + 1).level = Context(fs, n).level + 1
    BY NextTable
  <2> QED BY <2>1, <2>2, <2>3
<1>3. ASSUME Aligned(fs, n, ss, k)
      PROVE  Aligned(fs, n + 1, Append(ss, Snapshot(fs, n + 1)), k)
  <2> DEFINE tt == Append(ss, Snapshot(fs, n + 1))
  <2>1. /\ Len(tt) = Len(ss) + 1 /\ tt[Len(ss) + 1] = Snapshot(fs, n + 1)
        /\ \A j \in 1..Len(ss) : tt[j] = ss[j]
    OBVIOUS
  <2> HIDE DEF tt
  <2>2. Len(ss) = k + Context(fs, n).level
    BY <1>3 DEF Aligned
  <2>3. tt[k + Context(fs, n + 1).level] = Snapshot(fs, n + 1)
    <3>1. k + (Context(fs, n).level + 1) = Len(ss) + 1
      BY <1>2, <2>2
    <3> QED BY <1>2, <2>1, <3>1
  <2>4. ASSUME NEW i \in CallsIn(fs, n)
        PROVE  tt[k + Context(fs, i).level] = Snapshot(fs, i)
    <3>1. k + Context(fs, i).level \in 1..Len(ss)
      BY <1>2, <2>2, LevelsGrow
    <3> QED BY <1>3, <2>1, <3>1 DEF Aligned
  <2>5. Aligned(fs, n + 1, tt, k)
    BY <1>1, <1>2, <2>1, <2>2, <2>3, <2>4, SMTT(60) DEF Aligned
  <2> QED BY <2>5 DEF tt
<1>4. ASSUME Aligned(fs, n + 1, ss, k)
      PROVE  /\ Len(ss) > 0 /\ ss[Len(ss)] = Snapshot(fs, n + 1)
             /\ Aligned(fs, n, SubSeq(ss, 1, Len(ss) - 1), k)
  <2> DEFINE tt == SubSeq(ss, 1, Len(ss) - 1)
  <2>1. /\ Len(ss) = k + Context(fs, n).level + 1
        /\ ss[Len(ss)] = Snapshot(fs, n + 1)
        /\ \A i \in CallsIn(fs, n) : ss[k + Context(fs, i).level] = Snapshot(fs, i)
    <3>1. /\ Len(ss) = k + Context(fs, n + 1).level
          /\ \A i \in CallsIn(fs, n + 1) : ss[k + Context(fs, i).level] = Snapshot(fs, i)
      BY <1>4 DEF Aligned
    <3>2. Len(ss) = k + Context(fs, n).level + 1
      BY <1>2, <3>1
    <3>3. ss[Len(ss)] = Snapshot(fs, n + 1)
      BY <1>1, <3>1
    <3>4. \A i \in CallsIn(fs, n) : ss[k + Context(fs, i).level] = Snapshot(fs, i)
      BY <1>1, <3>1
    <3> QED BY <3>2, <3>3, <3>4
  <2>2. Len(tt) = Len(ss) - 1 /\ \A j \in 1..(Len(ss) - 1) : tt[j] = ss[j]
    BY <1>2, <2>1
  <2> HIDE DEF tt
  <2>3. ASSUME NEW i \in CallsIn(fs, n)
        PROVE  tt[k + Context(fs, i).level] = Snapshot(fs, i)
    <3>1. k + Context(fs, i).level \in 1..(Len(ss) - 1)
      BY <1>2, <2>1, LevelsGrow
    <3> QED BY <2>1, <2>2, <3>1
  <2>4. Aligned(fs, n, tt, k)
    BY <1>2, <2>1, <2>2, <2>3 DEF Aligned
  <2> QED BY <1>2, <2>1, <2>4 DEF tt
<1> QED BY <1>3, <1>4

\* What the stack is worth without its innermost frame.
LEMMA StackPops ==
  ASSUME NEW fs, StackOK(fs), fs # <<>>
  PROVE  LET n == Len(fs) - 1
             gs == SubSeq(fs, 1, Len(fs) - 1)
         IN  /\ n \in Nat /\ Len(fs) = n + 1 /\ Len(gs) = n
             /\ StackOK(gs) /\ Shaped(fs, gs, n)
             /\ \A i \in 1..n : gs[i] = fs[i]
             /\ gs # <<>> <=> n > 0
             /\ fs[n + 1] \in Frame
             /\ n > 0 => fs[n] \in Frame /\ Above(fs[n + 1], fs[n])
             /\ n = 0 => fs[n + 1].kind \in {"method", "table"}
<1> DEFINE n == Len(fs) - 1
           gs == SubSeq(fs, 1, Len(fs) - 1)
<1>1. fs \in Seq(Frame)
  BY DEF StackOK
<1>2. n \in Nat /\ Len(fs) = n + 1
  BY <1>1
<1>3. gs \in Seq(Frame) /\ Len(gs) = n /\ \A i \in 1..n : gs[i] = fs[i]
  BY <1>1, <1>2
<1> HIDE DEF gs
<1>4. gs # <<>> <=> n > 0
  BY <1>2, <1>3, EmptySeq
<1> HIDE DEF n
<1>5. Shaped(fs, gs, n)
  BY <1>3 DEF Shaped, SameShape
<1>6. \A m \in 0..n : /\ CountedIn(gs, m) = CountedIn(fs, m)
                      /\ ListsIn(gs, m) = ListsIn(fs, m)
                      /\ Context(gs, m) = Context(fs, m)
  BY <1>2, <1>5, ShapedIs
<1>7. gs # <<>> => gs[1].kind \in {"method", "table"}
  BY <1>1, <1>2, <1>3, <1>4 DEF StackOK
<1>8. \A i \in 2..Len(gs) : Above(gs[i], gs[i - 1])
  <2> SUFFICES ASSUME NEW i \in 2..n PROVE Above(gs[i], gs[i - 1])
    BY <1>3
  <2>1. i \in 2..Len(fs) /\ i \in 1..n /\ i - 1 \in 1..n
    BY <1>2
  <2> QED BY <1>3, <2>1 DEF StackOK
<1>9. ASSUME NEW i \in 1..Len(gs)
      PROVE  /\ gs[i].kind \in {"list", "arg"} =>
                  Cardinality(CountedIn(gs, i - 1)) <= gs[i].depth
             /\ gs[i].kind = "list" => gs[i].window = Innermost(ListsIn(gs, i - 1))
             /\ gs[i].kind = "method" => gs[i].level = Context(gs, i).level
  <2>1. i \in 1..Len(fs) /\ i \in 1..n /\ i - 1 \in 0..n /\ i \in 0..n
    BY <1>2, <1>3
  <2>2. /\ CountedIn(gs, i - 1) = CountedIn(fs, i - 1)
        /\ ListsIn(gs, i - 1) = ListsIn(fs, i - 1)
        /\ Context(gs, i) = Context(fs, i)
    BY <1>6, <2>1
  <2> QED BY <1>3, <2>1, <2>2 DEF StackOK
<1>10. StackOK(gs)
  BY <1>3, <1>7, <1>8, <1>9 DEF StackOK
<1>11. fs[n + 1] \in Frame /\ (n > 0 => fs[n] \in Frame)
  BY <1>1, <1>2
<1>12. n > 0 => Above(fs[n + 1], fs[n])
  <2> SUFFICES ASSUME n > 0 PROVE Above(fs[n + 1], fs[n])
    OBVIOUS
  <2>1. n + 1 \in 2..Len(fs) /\ (n + 1) - 1 = n
    BY <1>2
  <2> QED BY <2>1 DEF StackOK
<1>13. n = 0 => fs[n + 1].kind \in {"method", "table"}
  BY <1>2 DEF StackOK
<1> QED BY <1>2, <1>3, <1>4, <1>5, <1>10, <1>11, <1>12, <1>13 DEF n, gs

\* What a frame must be to be put on the stack.
Fits(fs, f) ==
  /\ f \in Frame
  /\ IF fs = <<>> THEN f.kind \in {"method", "table"} ELSE Above(f, fs[Len(fs)])
  /\ f.kind \in {"list", "arg"} => Cardinality(CountedIn(fs, Len(fs))) <= f.depth
  /\ f.kind = "list" => f.window = Context(fs, Len(fs)).window
  /\ f.kind = "method" => f.level = Context(fs, Len(fs)).level + 1

\* A frame that fits may be put on the stack.
LEMMA StackGrows ==
  ASSUME NEW fs, StackOK(fs), NEW f, Fits(fs, f)
  PROVE  LET n == Len(fs)
             gs == Append(fs, f)
         IN  /\ n \in Nat /\ Len(gs) = n + 1 /\ gs # <<>> /\ gs[n + 1] = f
             /\ StackOK(gs) /\ Shaped(fs, gs, n)
             /\ \A i \in 1..n : gs[i] = fs[i]
<1> DEFINE n == Len(fs)
           gs == Append(fs, f)
<1>1. fs \in Seq(Frame) /\ f \in Frame /\ n \in Nat
  BY DEF StackOK, Fits
<1>2. /\ gs \in Seq(Frame) /\ Len(gs) = n + 1 /\ gs # <<>> /\ gs[n + 1] = f
      /\ \A i \in 1..n : gs[i] = fs[i]
  BY <1>1
<1>3. fs = <<>> <=> n = 0
  BY <1>1
<1> HIDE DEF n, gs
<1>4. Shaped(fs, gs, n)
  BY <1>2 DEF Shaped, SameShape
<1>5. \A m \in 0..n : /\ CountedIn(gs, m) = CountedIn(fs, m)
                      /\ ListsIn(gs, m) = ListsIn(fs, m)
                      /\ Context(gs, m) = Context(fs, m)
  BY <1>1, <1>4, ShapedIs
<1>6. gs[1].kind \in {"method", "table"}
  <2>1. CASE n = 0
    BY <1>2, <1>3, <2>1 DEF Fits
  <2>2. CASE n > 0
    <3>1. gs[1] = fs[1] /\ fs # <<>>
      BY <1>1, <1>2, <1>3, <2>2
    <3> QED BY <3>1 DEF StackOK
  <2> QED BY <1>1, <2>1, <2>2
<1>7. \A i \in 2..Len(gs) : Above(gs[i], gs[i - 1])
  <2> SUFFICES ASSUME NEW i \in 2..(n + 1) PROVE Above(gs[i], gs[i - 1])
    BY <1>2
  <2>1. CASE i = n + 1
    <3>1. n \in 1..n /\ fs # <<>> /\ gs[i] = f /\ gs[i - 1] = fs[n]
      BY <1>1, <1>2, <1>3, <2>1
    <3> QED BY <3>1 DEF Fits, n
  <2>2. CASE i # n + 1
    <3>1. i \in 2..Len(fs) /\ i \in 1..n /\ i - 1 \in 1..n
      BY <1>1, <2>2 DEF n
    <3> QED BY <1>2, <3>1 DEF StackOK
  <2> QED BY <2>1, <2>2
<1>8. ASSUME NEW i \in 1..Len(gs)
      PROVE  /\ gs[i].kind \in {"list", "arg"} =>
                  Cardinality(CountedIn(gs, i - 1)) <= gs[i].depth
             /\ gs[i].kind = "list" => gs[i].window = Innermost(ListsIn(gs, i - 1))
             /\ gs[i].kind = "method" => gs[i].level = Context(gs, i).level
  <2>1. CASE i = n + 1
    <3>1. i - 1 = n /\ n \in 0..n /\ gs[i] = f
      BY <1>1, <1>2, <2>1
    <3>2. /\ CountedIn(gs, i - 1) = CountedIn(fs, n)
          /\ ListsIn(gs, i - 1) = ListsIn(fs, n)
          /\ Context(gs, n) = Context(fs, n)
      BY <1>5, <3>1
    <3>3. Context(fs, n).window = Innermost(ListsIn(fs, n))
      BY DEF Context
    <3>4. f.kind = "method" => Context(gs, i).level = Context(fs, n).level + 1
      BY <1>1, <1>2, <2>1, <3>2, NextMethod
    <3> QED BY <3>1, <3>2, <3>3, <3>4 DEF Fits, n
  <2>2. CASE i # n + 1
    <3>1. i \in 1..Len(fs) /\ i \in 1..n /\ i - 1 \in 0..n /\ i \in 0..n
      BY <1>1, <1>2, <2>2 DEF n
    <3>2. /\ CountedIn(gs, i - 1) = CountedIn(fs, i - 1)
          /\ ListsIn(gs, i - 1) = ListsIn(fs, i - 1)
          /\ Context(gs, i) = Context(fs, i)
      BY <1>5, <3>1
    <3> QED BY <1>2, <3>1, <3>2 DEF StackOK
  <2> QED BY <2>1, <2>2
<1>9. StackOK(gs)
  BY <1>2, <1>6, <1>7, <1>8 DEF StackOK
<1> QED BY <1>1, <1>2, <1>4, <1>9 DEF n, gs

\* The innermost list or operand has one term less to evaluate.
LEMMA StackConsumes ==
  ASSUME NEW fs, StackOK(fs), fs # <<>>, fs[Len(fs)].kind \in {"list", "arg"},
         fs[Len(fs)].left > 0
  PROVE  LET n == Len(fs)
             gs == [fs EXCEPT ![n].left = @ - 1]
         IN  /\ n \in Nat /\ n > 0 /\ Len(gs) = n /\ gs # <<>>
             /\ StackOK(gs) /\ Shaped(fs, gs, n)
             /\ gs[n].kind = fs[n].kind
<1> DEFINE n == Len(fs)
           g == [fs[n] EXCEPT !.left = @ - 1]
           gs == [fs EXCEPT ![n] = g]
<1>1. fs \in Seq(Frame) /\ n \in Nat /\ n > 0 /\ fs[n] \in Frame
  BY DEF StackOK
<1>2. fs[n] \in ListFrame \/ fs[n] \in ArgFrame
  BY <1>1 DEF Frame, ListFrame, ArgFrame, WhileFrame, ScopeFrame, MethodFrame, TableFrame
<1>3. g \in Frame
  <2>1. CASE fs[n] \in ListFrame
    BY <2>1 DEF ListFrame, Frame
  <2>2. CASE fs[n] \in ArgFrame
    BY <2>2 DEF ArgFrame, Frame
  <2> QED BY <1>2, <2>1, <2>2
<1>4. /\ g.kind = fs[n].kind /\ g.depth = fs[n].depth
      /\ g.kind = "list" => g.window = fs[n].window
      /\ g.kind = "arg" => g.returns = fs[n].returns
  <2>1. CASE fs[n] \in ListFrame
    BY <2>1 DEF ListFrame
  <2>2. CASE fs[n] \in ArgFrame
    BY <2>2 DEF ArgFrame
  <2> QED BY <1>2, <2>1, <2>2
<1> HIDE DEF g
<1>5. /\ gs \in Seq(Frame) /\ Len(gs) = n /\ gs # <<>>
      /\ \A i \in 1..n : gs[i] = IF i = n THEN g ELSE fs[i]
  BY <1>1, <1>3, ExceptSeq
<1> HIDE DEF gs
<1>6. \A i \in 1..n : /\ gs[i].kind = fs[i].kind
                      /\ gs[i].kind \in {"list", "arg"} => gs[i].depth = fs[i].depth
                      /\ gs[i].kind = "list" => gs[i].window = fs[i].window
                      /\ gs[i].kind = "arg" => gs[i].returns = fs[i].returns
                      /\ gs[i].kind \notin {"list", "arg"} => gs[i] = fs[i]
  BY <1>4, <1>5
<1>7. Shaped(fs, gs, n)
  BY <1>6 DEF Shaped, SameShape
<1>8. \A m \in 0..n : /\ CountedIn(gs, m) = CountedIn(fs, m)
                      /\ ListsIn(gs, m) = ListsIn(fs, m)
                      /\ Context(gs, m) = Context(fs, m)
  BY <1>1, <1>7, ShapedIs
<1>9. gs[1].kind \in {"method", "table"}
  BY <1>1, <1>6 DEF StackOK
<1>10. ASSUME NEW i \in 2..Len(gs) PROVE Above(gs[i], gs[i - 1])
  <2>1. i \in 2..Len(fs) /\ i \in 1..n /\ i - 1 \in 1..n
    BY <1>1, <1>5
  <2>2. Above(fs[i], fs[i - 1])
    BY <2>1 DEF StackOK
  <2> QED BY <1>6, <2>1, <2>2 DEF Above
<1>11. ASSUME NEW i \in 1..Len(gs)
       PROVE  /\ gs[i].kind \in {"list", "arg"} =>
                   Cardinality(CountedIn(gs, i - 1)) <= gs[i].depth
              /\ gs[i].kind = "list" => gs[i].window = Innermost(ListsIn(gs, i - 1))
              /\ gs[i].kind = "method" => gs[i].level = Context(gs, i).level
  <2>1. i \in 1..Len(fs) /\ i \in 1..n /\ i - 1 \in 0..n /\ i \in 0..n
    BY <1>1, <1>5
  <2>2. /\ CountedIn(gs, i - 1) = CountedIn(fs, i - 1)
        /\ ListsIn(gs, i - 1) = ListsIn(fs, i - 1)
        /\ Context(gs, i) = Context(fs, i)
    BY <1>8, <2>1
  <2> QED BY <1>6, <2>1, <2>2 DEF StackOK
<1>12. StackOK(gs)
  BY <1>5, <1>9, <1>10, <1>11 DEF StackOK
<1>13. gs[n].kind = fs[n].kind
  BY <1>1, <1>6
<1>14. gs = [fs EXCEPT ![n].left = @ - 1]
  BY DEF gs, g
<1> QED BY <1>1, <1>5, <1>7, <1>12, <1>13, <1>14 DEF n

-----------------------------------------------------------------------------
(* What a frame more on the stack means: gs is fs with the frame f on top. *)

Extends(fs, gs, f) ==
  /\ Len(fs) \in Nat
  /\ Len(gs) = Len(fs) + 1
  /\ gs[Len(gs)] = f
  /\ f.kind \in {"list", "arg", "while", "scope", "method", "table"}
  /\ Shaped(fs, gs, Len(fs))

\* The kinds of frames.
LEMMA FrameKinds ==
  ASSUME NEW f \in Frame
  PROVE  f.kind \in {"list", "arg", "while", "scope", "method", "table"}
BY DEF Frame, ListFrame, ArgFrame, WhileFrame, ScopeFrame, MethodFrame, TableFrame

\* What AML_STATE should be is of its type.
LEMMA HereIs ==
  ASSUME NEW fs, Len(fs) \in Nat
  PROVE  /\ Here(fs) \in EvalState /\ Here(fs).event = "none"
         /\ Here(fs).level > 0 /\ Here(fs).start <= Here(fs).level
BY ContextIs DEF Here

\* What AML_STATE should be once f is on top.
LEMMA ExtendedContext ==
  ASSUME NEW fs, NEW gs, NEW f, Extends(fs, gs, f)
  PROVE  /\ Here(gs).pass = IF f.kind = "table" THEN IF f.full THEN "full" ELSE "namespace"
                            ELSE Here(fs).pass
         /\ Here(gs).level = IF f.kind \in {"method", "table"} THEN Here(fs).level + 1
                             ELSE Here(fs).level
         /\ Here(gs).start = IF f.kind = "table" THEN Here(fs).level + 1 ELSE Here(fs).start
         /\ Here(gs).loops = IF f.kind = "table" THEN 0
                             ELSE IF f.kind = "while" /\ f.body THEN Here(fs).loops + 1
                             ELSE Here(fs).loops
         /\ Here(gs).ns = IF f.kind \in {"scope", "method", "table"} THEN Here(fs).ns + 1
                          ELSE Here(fs).ns
         /\ Here(gs).data = IF f.kind \in {"method", "table"} THEN Len(gs) ELSE Here(fs).data
         /\ Here(gs).window = IF f.kind = "list" THEN Len(gs) ELSE Here(fs).window
<1> DEFINE n == Len(fs)
<1>1. n \in Nat /\ Len(gs) = n + 1 /\ gs[n + 1] = f
  BY DEF Extends
<1>2. Context(gs, n) = Here(fs)
  <2>1. n \in 0..n
    BY <1>1
  <2> QED BY <1>1, <2>1, ShapedIs DEF Extends, Here
<1>3. Here(gs) = Context(gs, n + 1)
  BY <1>1 DEF Here
<1> HIDE DEF n
<1>4. CASE f.kind = "method"
  BY <1>1, <1>2, <1>3, <1>4, NextMethod
<1>5. CASE f.kind = "table"
  BY <1>1, <1>2, <1>3, <1>5, NextTable
<1>6. CASE f.kind \in {"list", "arg", "while", "scope"}
  BY <1>1, <1>2, <1>3, <1>6, NextPlain
<1> QED BY <1>4, <1>5, <1>6 DEF Extends

\* The loops, calls and counted frames once f is on top.
LEMMA ExtendedSets ==
  ASSUME NEW fs, NEW gs, NEW f, Extends(fs, gs, f)
  PROVE  /\ f.kind \notin {"table", "while"} => LoopsIn(gs, Len(gs)) = LoopsIn(fs, Len(fs))
         /\ f.kind = "while" /\ ~f.body => LoopsIn(gs, Len(gs)) = LoopsIn(fs, Len(fs))
         /\ f.kind = "while" /\ f.body => LoopsIn(gs, Len(gs)) # {}
         /\ f.kind \notin {"method", "table"} =>
              CallsIn(gs, Len(gs)) = CallsIn(fs, Len(fs))
         /\ f.kind \in {"method", "table"} => CallsIn(gs, Len(gs)) # {}
         /\ Cardinality(CountedIn(fs, Len(fs))) \in Nat
         /\ f.kind \in {"list", "arg"} =>
              Cardinality(CountedIn(gs, Len(gs))) = Cardinality(CountedIn(fs, Len(fs))) + 1
         /\ f.kind \notin {"list", "arg"} =>
              Cardinality(CountedIn(gs, Len(gs))) = Cardinality(CountedIn(fs, Len(fs)))
<1> DEFINE n == Len(fs)
<1>1. n \in Nat /\ Len(gs) = n + 1 /\ gs[n + 1] = f
  BY DEF Extends
<1>2. /\ LoopsIn(gs, n) = LoopsIn(fs, n) /\ CallsIn(gs, n) = CallsIn(fs, n)
      /\ CountedIn(gs, n) = CountedIn(fs, n)
  <2>1. n \in 0..n
    BY <1>1
  <2> QED BY <1>1, <2>1, ShapedIs DEF Extends
<1> HIDE DEF n
<1>3. /\ f.kind \notin {"table", "while"} => LoopsIn(gs, n + 1) = LoopsIn(gs, n)
      /\ f.kind = "while" /\ ~f.body => LoopsIn(gs, n + 1) = LoopsIn(gs, n)
      /\ f.kind = "while" /\ f.body => LoopsIn(gs, n + 1) # {}
  BY <1>1, NextLoops
<1>4. /\ f.kind \notin {"method", "table"} => CallsIn(gs, n + 1) = CallsIn(gs, n)
      /\ f.kind \in {"method", "table"} => CallsIn(gs, n + 1) # {}
  <2>1. /\ f.kind \notin {"method", "table"} => CallsIn(gs, n + 1) = CallsIn(gs, n)
        /\ f.kind \in {"method", "table"} => CallsIn(gs, n + 1) = CallsIn(gs, n) \cup {n + 1}
    BY <1>1, NextKinds DEF CallsIn
  <2> QED BY <2>1
<1>5. /\ Cardinality(CountedIn(gs, n)) \in Nat
      /\ f.kind \in {"list", "arg"} =>
           Cardinality(CountedIn(gs, n + 1)) = Cardinality(CountedIn(gs, n)) + 1
      /\ f.kind \notin {"list", "arg"} =>
           Cardinality(CountedIn(gs, n + 1)) = Cardinality(CountedIn(gs, n))
  BY <1>1, CountKinds DEF CountedIn
<1> QED BY <1>1, <1>2, <1>3, <1>4, <1>5 DEF n

\* The snapshots once f is on top.
LEMMA ExtendedSnapshots ==
  ASSUME NEW fs, NEW gs, NEW f, Extends(fs, gs, f), NEW ss \in Seq(EvalState), NEW k \in Nat
  PROVE  /\ f.kind \notin {"method", "table"} =>
              (Aligned(fs, Len(fs), ss, k) <=> Aligned(gs, Len(gs), ss, k))
         /\ f.kind \in {"method", "table"} =>
              /\ Snapshot(gs, Len(gs)) =
                   IF f.kind = "method" THEN [Here(fs) EXCEPT !.level = @ + 1] ELSE Here(fs)
              /\ Aligned(fs, Len(fs), ss, k) =>
                   Aligned(gs, Len(gs), Append(ss, Snapshot(gs, Len(gs))), k)
              /\ Aligned(gs, Len(gs), ss, k) =>
                   /\ Len(ss) > 0 /\ ss[Len(ss)] = Snapshot(gs, Len(gs))
                   /\ Aligned(fs, Len(fs), SubSeq(ss, 1, Len(ss) - 1), k)
<1> DEFINE n == Len(fs)
<1>1. n \in Nat /\ Len(gs) = n + 1 /\ gs[n + 1] = f /\ Shaped(fs, gs, n)
  BY DEF Extends
<1> HIDE DEF n
<1>2. Shaped(gs, fs, n)
  BY <1>1 DEF Shaped, SameShape
<1>3. \A tt : Aligned(fs, n, tt, k) <=> Aligned(gs, n, tt, k)
  BY <1>1, <1>2, AlignedShape
<1>4. f.kind \notin {"method", "table"} =>
        (Aligned(gs, n, ss, k) <=> Aligned(gs, n + 1, ss, k))
  BY <1>1, AlignedFrame
<1>5. f.kind \in {"method", "table"} =>
        /\ Aligned(gs, n, ss, k) => Aligned(gs, n + 1, Append(ss, Snapshot(gs, n + 1)), k)
        /\ Aligned(gs, n + 1, ss, k) =>
             /\ Len(ss) > 0 /\ ss[Len(ss)] = Snapshot(gs, n + 1)
             /\ Aligned(gs, n, SubSeq(ss, 1, Len(ss) - 1), k)
  BY <1>1, AlignedCall
<1>6. Snapshot(gs, n + 1) =
        IF f.kind = "method" THEN [Here(fs) EXCEPT !.level = @ + 1] ELSE Here(fs)
  <2>1. n \in 0..n /\ (n + 1) - 1 = n
    BY <1>1
  <2>2. Context(gs, n) = Context(fs, n)
    BY <1>1, <2>1, ShapedIs
  <2> QED BY <1>1, <2>1, <2>2 DEF Snapshot, Here, n
<1> QED BY <1>1, <1>3, <1>4, <1>5, <1>6 DEF n

\* A stack of the same shape means the same.
LEMMA ShapedHere ==
  ASSUME NEW fs, NEW gs, Len(fs) \in Nat, Len(gs) = Len(fs), Shaped(fs, gs, Len(fs))
  PROVE  /\ Here(gs) = Here(fs)
         /\ LoopsIn(gs, Len(gs)) = LoopsIn(fs, Len(fs))
         /\ CallsIn(gs, Len(gs)) = CallsIn(fs, Len(fs))
         /\ CountedIn(gs, Len(gs)) = CountedIn(fs, Len(fs))
         /\ \A ss, k : Aligned(fs, Len(fs), ss, k) => Aligned(gs, Len(gs), ss, k)
<1>1. Len(fs) \in 0..Len(fs)
  OBVIOUS
<1> QED BY <1>1, ShapedIs, AlignedShape DEF Here

\* Appending a frame that fits puts it on top.
LEMMA GrownExtends ==
  ASSUME NEW fs, StackOK(fs), NEW f, Fits(fs, f)
  PROVE  /\ Extends(fs, Append(fs, f), f) /\ StackOK(Append(fs, f)) /\ Append(fs, f) # <<>>
         /\ Len(Append(fs, f)) = Len(fs) + 1 /\ Append(fs, f)[Len(fs) + 1] = f
BY StackGrows, FrameKinds DEF Extends, Fits

\* Taking the last frame off is the reverse.
LEMMA PoppedExtends ==
  ASSUME NEW fs, StackOK(fs), fs # <<>>
  PROVE  /\ Extends(SubSeq(fs, 1, Len(fs) - 1), fs, fs[Len(fs)])
         /\ StackOK(SubSeq(fs, 1, Len(fs) - 1))
<1> DEFINE n == Len(fs) - 1
           gs == SubSeq(fs, 1, Len(fs) - 1)
<1>1. /\ n \in Nat /\ Len(fs) = n + 1 /\ Len(gs) = n /\ StackOK(gs)
      /\ \A i \in 1..n : gs[i] = fs[i]
      /\ fs[n + 1] \in Frame
  BY StackPops
<1> HIDE DEF n, gs
<1>2. Shaped(gs, fs, n)
  BY <1>1 DEF Shaped, SameShape
<1>3. Extends(gs, fs, fs[Len(fs)])
  BY <1>1, <1>2, FrameKinds DEF Extends
<1> QED BY <1>1, <1>3 DEF gs

-----------------------------------------------------------------------------
(* The steps.  Fine is what holds of a state that no error has damaged. *)

Fine(fs, e, ss, k, o, d) ==
  /\ StackOK(fs)
  /\ Cardinality(CountedIn(fs, Len(fs))) <= d
  /\ ScopesOK(fs, e)
  /\ o => ContextOK(fs, e) /\ EventOK(fs, e)
  /\ Aligned(fs, Len(fs), ss, k)

\* Without an error the invariant says that the state is fine.
LEMMA FineNow ==
  ASSUME EvalInv, ~panic, ok
  PROVE  Fine(frames, eval, snapshots, leaks, TRUE, depth)
BY DEF EvalInv, Fine, Stray

\* The invariant holds of a state that is fine.
LEMMA FineNext ==
  ASSUME TypesOK', ~panic', Fine(frames', eval', snapshots', leaks', ok', depth')
  PROVE  EvalInv'
BY DEF EvalInv, Fine

\* The kind of a frame tells its type.
LEMMA FrameTypes ==
  ASSUME NEW f \in Frame
  PROVE  /\ f.kind = "list" => f \in ListFrame
         /\ f.kind = "arg" => f \in ArgFrame
         /\ f.kind = "while" => f \in WhileFrame
         /\ f.kind = "scope" => f \in ScopeFrame
         /\ f.kind = "method" => f \in MethodFrame
         /\ f.kind = "table" => f \in TableFrame
BY DEF Frame, ListFrame, ArgFrame, WhileFrame, ScopeFrame, MethodFrame, TableFrame

\* Stacks are sequences of frames.
LEMMA StackLen ==
  ASSUME NEW fs, StackOK(fs)
  PROVE  /\ Len(fs) \in Nat /\ fs \in Seq(Frame)
         /\ fs # <<>> => Len(fs) > 0 /\ fs[Len(fs)] \in Frame
         /\ fs = <<>> => Len(fs) = 0
<1>1. fs \in Seq(Frame)
  BY DEF StackOK
<1>2. fs # <<>> => Len(fs) \in Nat \ {0}
  BY <1>1, EmptySeq
<1> QED BY <1>1, <1>2

\* A list starts on a stack that is fine, in the code that e says.
LEMMA ListStarts ==
  ASSUME NEW fs, NEW e \in EvalState, EnterList(fs, e), EvalAssumption,
         depth \in 0..MaxDepth, StackOK(fs), fs # <<>>, fs[Len(fs)].kind # "arg",
         fs[Len(fs)].kind = "while" => fs[Len(fs)].body,
         Cardinality(CountedIn(fs, Len(fs))) <= depth,
         ScopesOK(fs, e), ContextOK(fs, e), e.data = Here(fs).data, EventOK(fs, e),
         NEW ss \in Seq(EvalState), NEW k \in Nat, Aligned(fs, Len(fs), ss, k)
  PROVE  /\ depth' \in 0..MaxDepth /\ eval' \in EvalState /\ ok' \in BOOLEAN
         /\ Fine(frames', eval', ss, k, ok', depth')
<1> DEFINE f == [kind |-> "list", left |-> MaxTerms, depth |-> depth, window |-> e.window]
           gs == Append(fs, f)
<1>1. CASE depth < MaxDepth /\ frames' = gs /\ eval' = [e EXCEPT !.window = Len(fs) + 1]
           /\ depth' = depth + 1 /\ ok' = TRUE
  <2>1. Len(fs) \in Nat
    BY StackLen
  <2>2. e.window = Here(fs).window /\ e.window \in Nat
    BY DEF ContextOK, EvalState
  <2>3. f \in ListFrame /\ f.kind = "list"
    BY <2>2 DEF ListFrame, EvalAssumption
  <2>4. Fits(fs, f)
    BY <2>2, <2>3 DEF Fits, Frame, Above, Here
  <2> HIDE DEF f
  <2>5. Extends(fs, gs, f) /\ StackOK(gs) /\ gs # <<>> /\ Len(gs) = Len(fs) + 1
    BY <2>4, GrownExtends
  <2> HIDE DEF gs
  <2>6. Aligned(gs, Len(gs), ss, k)
    BY <2>3, <2>5, ExtendedSnapshots
  <2>7. Cardinality(CountedIn(gs, Len(gs))) <= depth + 1
    BY <2>3, <2>5, ExtendedSets
  <2>8. /\ Here(gs).pass = Here(fs).pass /\ Here(gs).level = Here(fs).level
        /\ Here(gs).start = Here(fs).start /\ Here(gs).loops = Here(fs).loops
        /\ Here(gs).ns = Here(fs).ns /\ Here(gs).data = Here(fs).data
        /\ Here(gs).window = Len(gs)
    BY <2>3, <2>5, ExtendedContext
  <2>9. /\ eval' \in EvalState /\ eval'.window = Len(gs) /\ eval'.event = e.event
        /\ eval'.pass = e.pass /\ eval'.level = e.level /\ eval'.start = e.start
        /\ eval'.loops = e.loops /\ eval'.ns = e.ns /\ eval'.data = e.data
    <3>1. eval' = [e EXCEPT !.window = Len(gs)] /\ Len(gs) \in Nat
      BY <1>1, <2>1, <2>5
    <3> QED BY <3>1 DEF EvalState
  <2>10. ScopesOK(gs, eval')
    BY <2>5, <2>8, <2>9 DEF ScopesOK
  <2>11. ContextOK(gs, eval')
    BY <2>8, <2>9 DEF ContextOK
  <2>12. LoopsIn(gs, Len(gs)) = LoopsIn(fs, Len(fs)) /\ CallsIn(gs, Len(gs)) = CallsIn(fs, Len(fs))
    BY <2>3, <2>5, ExtendedSets
  <2>13. EventOK(gs, eval')
    <3>1. gs[Len(gs)] = f
      BY <2>5 DEF Extends
    <3> QED BY <2>3, <2>5, <2>9, <2>12, <3>1 DEF EventOK
  <2> QED BY <1>1, <2>5, <2>6, <2>7, <2>9, <2>10, <2>11, <2>13 DEF Fine
<1>2. CASE frames' = fs /\ eval' = e /\ ok' = FALSE /\ UNCHANGED depth
  BY <1>2 DEF Fine
<1> QED BY <1>1, <1>2 DEF EnterList

\* The same of an operand.
LEMMA OperandStarts ==
  ASSUME NEW fs, NEW e \in EvalState, NEW returns \in BOOLEAN, EnterArg(fs, returns),
         EvalAssumption, depth \in 0..MaxDepth, StackOK(fs), fs # <<>>,
         IF returns THEN fs[Len(fs)].kind = "list"
         ELSE fs[Len(fs)].kind \in {"list", "arg", "while"},
         Cardinality(CountedIn(fs, Len(fs))) <= depth,
         ScopesOK(fs, e), ContextOK(fs, e), e.event = "none",
         NEW ss \in Seq(EvalState), NEW k \in Nat, Aligned(fs, Len(fs), ss, k)
  PROVE  /\ depth' \in 0..MaxDepth /\ ok' \in BOOLEAN
         /\ Fine(frames', e, ss, k, ok', depth')
<1> DEFINE f == [kind |-> "arg", left |-> 1, depth |-> depth, returns |-> returns]
           gs == Append(fs, f)
<1>1. CASE depth < MaxDepth /\ frames' = gs /\ depth' = depth + 1 /\ ok' = TRUE
  <2>1. Len(fs) \in Nat
    BY StackLen
  <2>2. f \in ArgFrame /\ f.kind = "arg" /\ f.returns = returns
    BY DEF ArgFrame, EvalAssumption
  <2>3. Fits(fs, f)
    BY <2>2 DEF Fits, Frame, Above
  <2> HIDE DEF f
  <2>4. Extends(fs, gs, f) /\ StackOK(gs) /\ gs # <<>> /\ Len(gs) = Len(fs) + 1
    BY <2>3, GrownExtends
  <2> HIDE DEF gs
  <2>5. Aligned(gs, Len(gs), ss, k)
    BY <2>2, <2>4, ExtendedSnapshots
  <2>6. Cardinality(CountedIn(gs, Len(gs))) <= depth + 1
    BY <2>2, <2>4, ExtendedSets
  <2>7. /\ Here(gs).pass = Here(fs).pass /\ Here(gs).level = Here(fs).level
        /\ Here(gs).start = Here(fs).start /\ Here(gs).loops = Here(fs).loops
        /\ Here(gs).ns = Here(fs).ns /\ Here(gs).data = Here(fs).data
        /\ Here(gs).window = Here(fs).window
    BY <2>2, <2>4, ExtendedContext
  <2>8. fs[Len(fs)].kind # "method"
    OBVIOUS
  <2>9. ScopesOK(gs, e)
    BY <2>4, <2>7 DEF ScopesOK
  <2>10. ContextOK(gs, e) /\ EventOK(gs, e)
    BY <2>7, <2>8 DEF ContextOK, EventOK
  <2> QED BY <1>1, <2>4, <2>5, <2>6, <2>9, <2>10 DEF Fine
<1>2. CASE frames' = fs /\ ok' = FALSE /\ UNCHANGED depth
  BY <1>2 DEF Fine
<1> QED BY <1>1, <1>2 DEF EnterArg

\* A term of the innermost list or operand begins.
LEMMA ConsumedFine ==
  ASSUME EvalInv, Ready
  PROVE  /\ Fine(Consumed, eval, snapshots, leaks, TRUE, depth)
         /\ Consumed # <<>> /\ Consumed[Len(Consumed)].kind = Top.kind
         /\ StackOK(Consumed) /\ Cardinality(CountedIn(Consumed, Len(Consumed))) <= depth
         /\ ScopesOK(Consumed, eval) /\ ContextOK(Consumed, eval)
         /\ eval.data = Here(Consumed).data
         /\ Aligned(Consumed, Len(Consumed), snapshots, leaks)
         /\ LoopsIn(Consumed, Len(Consumed)) = LoopsIn(frames, Len(frames))
<1>1. ~panic /\ ok /\ frames # <<>> /\ eval.event = "none" /\ Top.left > 0
      /\ Top.kind \in {"list", "arg"}
  BY DEF Ready
<1>2. Fine(frames, eval, snapshots, leaks, TRUE, depth)
  BY <1>1, FineNow
<1>3. /\ Len(frames) \in Nat /\ Len(Consumed) = Len(frames) /\ Consumed # <<>>
      /\ StackOK(Consumed) /\ Shaped(frames, Consumed, Len(frames))
      /\ Consumed[Len(frames)].kind = Top.kind
  BY <1>1, <1>2, StackConsumes DEF Fine, Consumed, Top
<1> DEFINE gs == Consumed
<1>4. /\ Here(gs) = Here(frames)
      /\ LoopsIn(gs, Len(gs)) = LoopsIn(frames, Len(frames))
      /\ CountedIn(gs, Len(gs)) = CountedIn(frames, Len(frames))
      /\ Aligned(frames, Len(frames), snapshots, leaks)
           => Aligned(gs, Len(gs), snapshots, leaks)
  BY <1>3, ShapedHere
<1> HIDE DEF gs
<1>5. ScopesOK(gs, eval) /\ ContextOK(gs, eval) /\ eval.data = Here(gs).data
  BY <1>1, <1>2, <1>3, <1>4 DEF Fine, ScopesOK, ContextOK, gs, Top
<1>6. EventOK(gs, eval)
  BY <1>1 DEF EventOK
<1> QED BY <1>2, <1>3, <1>4, <1>5, <1>6 DEF Fine, gs

\* Now the actions, one by one.  Plain: only the frame's own count changes.
LEMMA StepPlain ==
  ASSUME EvalInv, Plain PROVE EvalInv'
<1>1. Fine(Consumed, eval, snapshots, leaks, TRUE, depth)
  BY ConsumedFine DEF Plain
<1>2. TypesOK' /\ ~panic'
  BY DEF EvalInv, TypesOK, Plain, Ready
<1>3. Fine(frames', eval', snapshots', leaks', ok', depth')
  BY <1>1 DEF Plain, Ready, Fine
<1> QED BY <1>2, <1>3, FineNext

\* TermFails: nothing changes but ok.
LEMMA StepTermFails ==
  ASSUME EvalInv, TermFails PROVE EvalInv'
<1>1. Fine(frames, eval, snapshots, leaks, TRUE, depth)
  BY FineNow DEF TermFails
<1>2. TypesOK' /\ ~panic'
  BY DEF EvalInv, TypesOK, TermFails
<1>3. Fine(frames', eval', snapshots', leaks', ok', depth')
  BY <1>1 DEF TermFails, Fine
<1> QED BY <1>2, <1>3, FineNext

\* If: its branch is a list in the same context.
LEMMA StepIf ==
  ASSUME EvalInv, If, EvalAssumption PROVE EvalInv'
<1> DEFINE gs == Consumed
<1>1. EnterList(gs, eval) /\ Ready /\ ~panic /\ eval.event = "none"
  BY DEF If, Ready
<1>2. /\ StackOK(gs) /\ gs # <<>> /\ gs[Len(gs)].kind = "list"
      /\ Cardinality(CountedIn(gs, Len(gs))) <= depth
      /\ ScopesOK(gs, eval) /\ ContextOK(gs, eval) /\ eval.data = Here(gs).data
      /\ Aligned(gs, Len(gs), snapshots, leaks)
  BY <1>1, ConsumedFine DEF If
<1>3. eval \in EvalState /\ snapshots \in Seq(EvalState) /\ leaks \in Nat
      /\ depth \in 0..MaxDepth
  BY DEF EvalInv, TypesOK
<1> HIDE DEF gs
<1>4. /\ depth' \in 0..MaxDepth /\ eval' \in EvalState /\ ok' \in BOOLEAN
      /\ Fine(frames', eval', snapshots, leaks, ok', depth')
  <2>1. EventOK(gs, eval)
    BY <1>1 DEF EventOK
  <2> QED BY <1>1, <1>2, <1>3, <2>1, ListStarts
<1>5. TypesOK' /\ ~panic'
  BY <1>1, <1>4 DEF EvalInv, TypesOK, If
<1>6. Fine(frames', eval', snapshots', leaks', ok', depth')
  BY <1>4 DEF If
<1> QED BY <1>5, <1>6, FineNext

\* Operand: an operand in the same context.
LEMMA StepOperand ==
  ASSUME EvalInv, Operand, EvalAssumption PROVE EvalInv'
<1> DEFINE gs == Consumed
<1>1. EnterArg(gs, FALSE) /\ Ready /\ ~panic /\ eval.event = "none"
      /\ Top.kind \in {"list", "arg"}
  BY DEF Operand, Ready
<1>2. /\ StackOK(gs) /\ gs # <<>> /\ gs[Len(gs)].kind \in {"list", "arg", "while"}
      /\ Cardinality(CountedIn(gs, Len(gs))) <= depth
      /\ ScopesOK(gs, eval) /\ ContextOK(gs, eval)
      /\ Aligned(gs, Len(gs), snapshots, leaks)
  BY <1>1, ConsumedFine
<1>3. eval \in EvalState /\ snapshots \in Seq(EvalState) /\ leaks \in Nat
      /\ depth \in 0..MaxDepth
  BY DEF EvalInv, TypesOK
<1> HIDE DEF gs
<1>4. /\ depth' \in 0..MaxDepth /\ ok' \in BOOLEAN
      /\ Fine(frames', eval, snapshots, leaks, ok', depth')
  BY <1>1, <1>2, <1>3, OperandStarts
<1>5. TypesOK' /\ ~panic'
  BY <1>1, <1>4 DEF EvalInv, TypesOK, Operand
<1>6. Fine(frames', eval', snapshots', leaks', ok', depth')
  BY <1>4 DEF Operand
<1> QED BY <1>5, <1>6, FineNext

\* Return: refused at the top level, or its operand starts.
LEMMA StepReturn ==
  ASSUME EvalInv, Return, EvalAssumption PROVE EvalInv'
<1> DEFINE gs == Consumed
<1>1. Ready /\ ~panic /\ ok /\ eval.event = "none" /\ Top.kind = "list"
      /\ UNCHANGED <<eval, snapshots, panic, leaks>>
  BY DEF Return, Statement, Ready
<1>2. CASE frames' = frames /\ ok' = FALSE /\ UNCHANGED depth
  <2>1. Fine(frames, eval, snapshots, leaks, TRUE, depth)
    BY <1>1, FineNow
  <2>2. TypesOK' /\ ~panic'
    BY <1>1, <1>2 DEF EvalInv, TypesOK
  <2>3. Fine(frames', eval', snapshots', leaks', ok', depth')
    BY <1>1, <1>2, <2>1 DEF Fine
  <2> QED BY <2>2, <2>3, FineNext
<1>3. CASE EnterArg(gs, TRUE)
  <2>1. /\ StackOK(gs) /\ gs # <<>> /\ gs[Len(gs)].kind = "list"
        /\ Cardinality(CountedIn(gs, Len(gs))) <= depth
        /\ ScopesOK(gs, eval) /\ ContextOK(gs, eval)
        /\ Aligned(gs, Len(gs), snapshots, leaks)
    BY <1>1, ConsumedFine
  <2>2. eval \in EvalState /\ snapshots \in Seq(EvalState) /\ leaks \in Nat
        /\ depth \in 0..MaxDepth
    BY DEF EvalInv, TypesOK
  <2> HIDE DEF gs
  <2>3. /\ depth' \in 0..MaxDepth /\ ok' \in BOOLEAN
        /\ Fine(frames', eval, snapshots, leaks, ok', depth')
    BY <1>1, <1>3, <2>1, <2>2, OperandStarts
  <2>4. TypesOK' /\ ~panic'
    BY <1>1, <2>3 DEF EvalInv, TypesOK
  <2>5. Fine(frames', eval', snapshots', leaks', ok', depth')
    BY <1>1, <2>3
  <2> QED BY <2>4, <2>5, FineNext
<1> QED BY <1>2, <1>3 DEF Return

\* Break and Continue: the event finds a loop, because the loop level counts them.
LEMMA StepInterrupt ==
  ASSUME EvalInv, NEW event \in {"break", "continue"}, Interrupt(event) PROVE EvalInv'
<1> DEFINE gs == Consumed
<1>1. Ready /\ ~panic /\ ok /\ eval.event = "none" /\ Top.kind = "list"
      /\ frames' = gs /\ UNCHANGED <<ok, snapshots, depth, panic, leaks>>
  BY DEF Interrupt, Statement, Ready
<1>2. /\ Fine(gs, eval, snapshots, leaks, TRUE, depth) /\ gs # <<>>
      /\ gs[Len(gs)].kind = "list"
  BY <1>1, ConsumedFine
<1> HIDE DEF gs
<1>3. eval.loops = Here(gs).loops
  BY <1>2 DEF Fine, ContextOK
<1>4. eval.loops # 0 => LoopsIn(gs, Len(gs)) # {}
  BY <1>3, FS_EmptySet DEF Here, Context
<1>5. eval' \in EvalState
  BY DEF EvalInv, TypesOK, EvalState, Events, Interrupt
<1>6. TypesOK' /\ ~panic'
  BY <1>1, <1>5 DEF EvalInv, TypesOK
<1>7. CASE eval.loops = 0
  BY <1>1, <1>2, <1>6, <1>7, FineNext DEF Interrupt, Fine
<1>8. CASE eval.loops # 0
  <2>1. eval \in EvalState /\ eval' = [eval EXCEPT !.event = event]
    BY <1>8 DEF EvalInv, TypesOK, Interrupt
  <2>2. /\ eval'.event = event /\ eval'.pass = eval.pass /\ eval'.level = eval.level
        /\ eval'.start = eval.start /\ eval'.loops = eval.loops /\ eval'.ns = eval.ns
        /\ eval'.data = eval.data /\ eval'.window = eval.window
    BY <2>1 DEF EvalState
  <2>3. ScopesOK(gs, eval') /\ ContextOK(gs, eval') /\ EventOK(gs, eval')
    BY <1>2, <1>4, <1>8, <2>2 DEF Fine, ScopesOK, ContextOK, EventOK
  <2>4. Fine(frames', eval', snapshots', leaks', ok', depth')
    BY <1>1, <1>2, <2>3 DEF Fine
  <2> QED BY <1>6, <2>4, FineNext
<1> QED BY <1>7, <1>8

\* The innermost frame ends.
LEMMA BelowIs ==
  ASSUME EvalInv, frames # <<>>
  PROVE  /\ Extends(Below, frames, Top) /\ StackOK(Below) /\ Top \in Frame
         /\ Len(frames) = Len(Below) + 1
         /\ Cardinality(CountedIn(Below, Len(Below))) <= depth
         /\ Top.kind \in {"list", "arg"} =>
              Cardinality(CountedIn(Below, Len(Below))) <= Top.depth
         /\ Top.kind = "list" => Top.window = Here(Below).window
         /\ Top.kind \notin {"method", "table"} =>
              Below # <<>> /\ Above(Top, Below[Len(Below)])
         /\ Below = <<>> => Len(Below) = 0
<1> DEFINE n == Len(frames) - 1
           gs == Below
<1>1. StackOK(frames) /\ Cardinality(CountedIn(frames, Len(frames))) <= depth
      /\ depth \in Nat
  BY DEF EvalInv, TypesOK
<1>2. /\ n \in Nat /\ Len(frames) = n + 1 /\ Len(gs) = n /\ StackOK(gs)
      /\ Shaped(frames, gs, n)
      /\ \A i \in 1..n : gs[i] = frames[i]
      /\ (gs # <<>> <=> n > 0)
      /\ frames[n + 1] \in Frame
      /\ n > 0 => Above(frames[n + 1], frames[n])
      /\ n = 0 => frames[n + 1].kind \in {"method", "table"}
  BY <1>1, StackPops DEF Below
<1>3. Extends(gs, frames, Top)
  BY <1>1, PoppedExtends DEF Below, Top
<1> HIDE DEF n, gs
<1>4. Top = frames[n + 1]
  BY <1>2 DEF Top
<1>5. Cardinality(CountedIn(gs, Len(gs))) <= depth
  BY <1>1, <1>3, ExtendedSets DEF Extends
<1>6. /\ CountedIn(gs, Len(gs)) = CountedIn(frames, n)
      /\ Here(gs).window = Innermost(ListsIn(frames, n))
  <2>1. n \in 0..n
    BY <1>2
  <2>2. CountedIn(gs, n) = CountedIn(frames, n) /\ Context(gs, n) = Context(frames, n)
    BY <1>2, <2>1, ShapedIs
  <2>3. Context(frames, n).window = Innermost(ListsIn(frames, n))
    BY DEF Context
  <2> QED BY <1>2, <2>2, <2>3 DEF Here
<1>7. /\ Top.kind \in {"list", "arg"} => Cardinality(CountedIn(gs, Len(gs))) <= Top.depth
      /\ Top.kind = "list" => Top.window = Here(gs).window
  <2>1. n + 1 \in 1..Len(frames) /\ (n + 1) - 1 = n
    BY <1>2
  <2> QED BY <1>1, <1>4, <1>6, <2>1 DEF StackOK
<1>8. Top.kind \notin {"method", "table"} => gs # <<>> /\ Above(Top, gs[Len(gs)])
  <2> SUFFICES ASSUME Top.kind \notin {"method", "table"}
               PROVE  gs # <<>> /\ Above(Top, gs[Len(gs)])
    OBVIOUS
  <2>1. n > 0
    BY <1>2, <1>4
  <2> QED BY <1>2, <1>4, <2>1
<1> QED BY <1>2, <1>3, <1>4, <1>5, <1>7, <1>8 DEF gs

\* There is a call at the bottom of every stack.
LEMMA CallAtBottom ==
  ASSUME NEW fs, StackOK(fs), fs # <<>>
  PROVE  CallsIn(fs, Len(fs)) # {}
<1>1. 1 \in 1..Len(fs)
  BY StackLen
<1> QED BY <1>1 DEF StackOK, CallsIn, KindsIn

\* An error passes a frame that restores nothing.
LEMMA ErrorPasses ==
  ASSUME EvalInv, frames # <<>>, ~panic, Top.kind \notin {"method", "table"},
         frames' = Below, ok' = FALSE, UNCHANGED <<eval, snapshots, panic, leaks>>,
         depth' \in 0..MaxDepth, Cardinality(CountedIn(Below, Len(Below))) <= depth'
  PROVE  EvalInv'
<1> DEFINE gs == Below
<1>1. /\ Extends(gs, frames, Top) /\ StackOK(gs) /\ gs # <<>>
  BY BelowIs
<1>2. /\ Here(gs).level = Here(frames).level /\ Here(gs).start = Here(frames).start
      /\ Here(gs).ns <= Here(frames).ns
      /\ Here(gs).ns \in Nat /\ Here(frames).ns \in Nat
  <2>1. Here(gs) \in EvalState /\ Here(frames) \in EvalState
    BY <1>1, HereIs DEF Extends
  <2>2. Here(gs).ns \in Nat /\ Here(frames).ns \in Nat
    BY <2>1 DEF EvalState
  <2> QED BY <1>1, <2>2, ExtendedContext
<1>3. ScopesOK(frames, eval) /\ eval \in EvalState /\ snapshots \in Seq(EvalState)
      /\ leaks \in Nat
  BY DEF EvalInv, TypesOK
<1>4. eval.ns \in Nat
  BY <1>3 DEF EvalState
<1>5. ScopesOK(gs, eval)
  BY <1>1, <1>2, <1>3, <1>4 DEF ScopesOK
<1>6. TypesOK'
  BY DEF EvalInv, TypesOK
<1>7. Aligned(frames, Len(frames), snapshots, leaks)
        => Aligned(gs, Len(gs), snapshots, leaks)
  BY <1>1, <1>3, ExtendedSnapshots
<1>8. Aligned(frames, Len(frames), snapshots, leaks) \/ Stray
  BY DEF EvalInv
<1>9. Aligned(gs, Len(gs), snapshots, leaks) \/ Stray'
  BY <1>1, <1>7, <1>8 DEF Stray
<1> QED BY <1>1, <1>5, <1>6, <1>9 DEF EvalInv

\* ListFails: the error passes.
LEMMA StepListFails ==
  ASSUME EvalInv, ListFails PROVE EvalInv'
<1>1. Cardinality(CountedIn(Below, Len(Below))) <= depth
  BY BelowIs DEF ListFails, OnTop
<1>2. depth' \in 0..MaxDepth
  BY DEF EvalInv, TypesOK, ListFails
<1>3. ok' = FALSE
  BY DEF EvalInv, TypesOK, ListFails
<1> QED BY <1>1, <1>2, <1>3, ErrorPasses DEF ListFails, OnTop

\* ListEnds: window and depth are those of the frame below.
LEMMA StepListEnds ==
  ASSUME EvalInv, ListEnds PROVE EvalInv'
<1> DEFINE gs == Below
<1>1. frames # <<>> /\ ~panic /\ Top.kind = "list" /\ ok /\ frames' = gs
      /\ depth' = Top.depth /\ eval' = [eval EXCEPT !.window = Top.window]
      /\ UNCHANGED <<ok, snapshots, panic, leaks>>
  BY DEF ListEnds, OnTop
<1>2. /\ Extends(gs, frames, Top) /\ StackOK(gs) /\ gs # <<>> /\ Top \in ListFrame
      /\ Cardinality(CountedIn(gs, Len(gs))) <= Top.depth
      /\ Top.window = Here(gs).window
      /\ gs[Len(gs)].kind # "arg" /\ (gs[Len(gs)].kind = "while" => gs[Len(gs)].body)
  BY <1>1, BelowIs, FrameTypes DEF Above
<1>3. Top.depth \in 0..MaxDepth /\ Top.window \in Nat
  BY <1>2 DEF ListFrame
<1>4. Fine(frames, eval, snapshots, leaks, TRUE, depth) /\ eval \in EvalState
      /\ snapshots \in Seq(EvalState) /\ leaks \in Nat
  <2>1. eval \in EvalState /\ snapshots \in Seq(EvalState) /\ leaks \in Nat
    BY DEF EvalInv, TypesOK
  <2> QED BY <1>1, <2>1, FineNow
<1> HIDE DEF gs
<1>5. /\ eval' \in EvalState /\ eval'.window = Top.window /\ eval'.event = eval.event
      /\ eval'.pass = eval.pass /\ eval'.level = eval.level /\ eval'.start = eval.start
      /\ eval'.loops = eval.loops /\ eval'.ns = eval.ns /\ eval'.data = eval.data
  BY <1>1, <1>3, <1>4 DEF EvalState
<1>6. /\ Here(gs).pass = Here(frames).pass /\ Here(gs).level = Here(frames).level
      /\ Here(gs).start = Here(frames).start /\ Here(gs).loops = Here(frames).loops
      /\ Here(gs).ns = Here(frames).ns /\ Here(gs).data = Here(frames).data
  BY <1>1, <1>2, ExtendedContext
<1>7. /\ LoopsIn(gs, Len(gs)) = LoopsIn(frames, Len(frames))
      /\ CallsIn(gs, Len(gs)) = CallsIn(frames, Len(frames))
  BY <1>1, <1>2, ExtendedSets
<1>8. Aligned(gs, Len(gs), snapshots, leaks)
  BY <1>1, <1>2, <1>4, ExtendedSnapshots DEF Fine
<1>9. ScopesOK(gs, eval')
  BY <1>2, <1>4, <1>5, <1>6 DEF Fine, ScopesOK
<1>10. ContextOK(gs, eval')
  BY <1>1, <1>2, <1>4, <1>5, <1>6 DEF Fine, ContextOK, Top
<1>11. EventOK(gs, eval')
  BY <1>2, <1>4, <1>5, <1>7 DEF Fine, EventOK
<1>12. TypesOK' /\ ~panic'
  BY <1>1, <1>3, <1>5 DEF EvalInv, TypesOK
<1>13. Fine(frames', eval', snapshots', leaks', ok', depth')
  BY <1>1, <1>2, <1>8, <1>9, <1>10, <1>11 DEF Fine
<1> QED BY <1>12, <1>13, FineNext

\* ArgEnds: the operand of a Return sets the event, within a call.
LEMMA StepArgEnds ==
  ASSUME EvalInv, ArgEnds PROVE EvalInv'
<1> DEFINE gs == Below
<1>1. frames # <<>> /\ ~panic /\ Top.kind = "arg" /\ frames' = gs
      /\ depth' = Top.depth
      /\ UNCHANGED <<ok, snapshots, panic, leaks>>
  BY DEF ArgEnds, OnTop
<1>9. /\ ok /\ Top.returns => eval' = [eval EXCEPT !.event = "return"]
      /\ ~(ok /\ Top.returns) => eval' = eval
  BY DEF ArgEnds
<1>2. /\ Extends(gs, frames, Top) /\ StackOK(gs) /\ gs # <<>> /\ Top \in ArgFrame
      /\ Cardinality(CountedIn(gs, Len(gs))) <= Top.depth
      /\ Above(Top, gs[Len(gs)])
  BY <1>1, BelowIs, FrameTypes
<1>3. Top.depth \in 0..MaxDepth /\ Top.returns \in BOOLEAN
  BY <1>2 DEF ArgFrame
<1>4. eval \in EvalState /\ snapshots \in Seq(EvalState) /\ leaks \in Nat /\ ok \in BOOLEAN
  BY DEF EvalInv, TypesOK
<1>5. CASE ~ok
  <2>1. ok' = FALSE /\ depth' \in 0..MaxDepth
    BY <1>1, <1>3, <1>4, <1>5
  <2>2. UNCHANGED <<eval, snapshots, panic, leaks>>
    BY <1>9, <1>1, <1>5
  <2> QED BY <1>1, <1>2, <2>1, <2>2, ErrorPasses
<1>6. CASE ok
  <2>1. Fine(frames, eval, snapshots, leaks, TRUE, depth)
    BY <1>1, <1>6, FineNow
  <2>2. eval.event = "none"
    BY <1>1, <2>1 DEF Fine, EventOK, Top
  <2>3. gs[Len(gs)].kind \in {"list", "arg", "while"}
        /\ (Top.returns => gs[Len(gs)].kind = "list")
    BY <1>1, <1>2 DEF Above
  <2> HIDE DEF gs
  <2>4. /\ eval' \in EvalState /\ eval'.window = eval.window
        /\ eval'.event \in {"none", "return"} /\ (~Top.returns => eval'.event = "none")
        /\ eval'.pass = eval.pass /\ eval'.level = eval.level /\ eval'.start = eval.start
        /\ eval'.loops = eval.loops /\ eval'.ns = eval.ns /\ eval'.data = eval.data
    <3>1. CASE Top.returns
      BY <1>9, <1>4, <1>6, <3>1 DEF EvalState, Events
    <3>2. CASE ~Top.returns
      BY <1>9, <1>4, <2>2, <3>2 DEF EvalState
    <3> QED BY <3>1, <3>2
  <2>5. /\ Here(gs).pass = Here(frames).pass /\ Here(gs).level = Here(frames).level
        /\ Here(gs).start = Here(frames).start /\ Here(gs).loops = Here(frames).loops
        /\ Here(gs).ns = Here(frames).ns /\ Here(gs).data = Here(frames).data
        /\ Here(gs).window = Here(frames).window
    BY <1>1, <1>2, ExtendedContext
  <2>6. CallsIn(gs, Len(gs)) # {}
    BY <1>2, CallAtBottom
  <2>7. Aligned(gs, Len(gs), snapshots, leaks)
    BY <1>1, <1>2, <1>4, <2>1, ExtendedSnapshots DEF Fine
  <2>8. ScopesOK(gs, eval')
    BY <1>2, <2>1, <2>4, <2>5 DEF Fine, ScopesOK
  <2>9. ContextOK(gs, eval')
    BY <1>1, <1>2, <2>1, <2>4, <2>5 DEF Fine, ContextOK, Top
  <2>10. EventOK(gs, eval')
    BY <1>2, <2>3, <2>4, <2>6 DEF EventOK
  <2>11. TypesOK' /\ ~panic'
    BY <1>1, <1>3, <2>4 DEF EvalInv, TypesOK
  <2>12. Fine(frames', eval', snapshots', leaks', ok', depth')
    BY <1>1, <1>2, <2>7, <2>8, <2>9, <2>10 DEF Fine
  <2> QED BY <2>11, <2>12, FineNext
<1> QED BY <1>4, <1>5, <1>6

\* While: a loop whose body does not run, and its first predicate.
LEMMA StepWhile ==
  ASSUME EvalInv, While, EvalAssumption PROVE EvalInv'
<1> DEFINE gs == Consumed
           f == [kind |-> "while", i |-> 0, body |-> FALSE, event |-> "none"]
           hs == Append(gs, f)
<1>1. Ready /\ ~panic /\ ok /\ eval.event = "none" /\ Top.kind = "list"
      /\ EnterArg(hs, FALSE) /\ UNCHANGED <<eval, snapshots, panic, leaks>>
  BY DEF While, Statement, Ready
<1>2. /\ StackOK(gs) /\ gs # <<>> /\ gs[Len(gs)].kind = "list"
      /\ Cardinality(CountedIn(gs, Len(gs))) <= depth
      /\ ScopesOK(gs, eval) /\ ContextOK(gs, eval) /\ eval.data = Here(gs).data
      /\ Aligned(gs, Len(gs), snapshots, leaks)
  BY <1>1, ConsumedFine
<1>3. eval \in EvalState /\ snapshots \in Seq(EvalState) /\ leaks \in Nat
      /\ depth \in 0..MaxDepth
  BY DEF EvalInv, TypesOK
<1>4. f \in WhileFrame /\ f.kind = "while" /\ f.body = FALSE
  BY DEF WhileFrame
<1> HIDE DEF gs, f
<1>5. Fits(gs, f)
  BY <1>2, <1>4 DEF Fits, Frame, Above
<1>6. /\ Extends(gs, hs, f) /\ StackOK(hs) /\ hs # <<>>
      /\ Len(hs) = Len(gs) + 1 /\ hs[Len(gs) + 1] = f
  BY <1>2, <1>5, GrownExtends
<1> HIDE DEF hs
<1>7. /\ Here(hs).pass = Here(gs).pass /\ Here(hs).level = Here(gs).level
      /\ Here(hs).start = Here(gs).start /\ Here(hs).loops = Here(gs).loops
      /\ Here(hs).ns = Here(gs).ns /\ Here(hs).data = Here(gs).data
      /\ Here(hs).window = Here(gs).window
  BY <1>4, <1>6, ExtendedContext
<1>8. ScopesOK(hs, eval) /\ ContextOK(hs, eval)
  BY <1>2, <1>6, <1>7 DEF ScopesOK, ContextOK
<1>9. Cardinality(CountedIn(hs, Len(hs))) <= depth
  BY <1>2, <1>4, <1>6, ExtendedSets
<1>10. Aligned(hs, Len(hs), snapshots, leaks)
  BY <1>2, <1>3, <1>4, <1>6, ExtendedSnapshots
<1>11. hs[Len(hs)].kind = "while"
  BY <1>4, <1>6
<1>12. /\ depth' \in 0..MaxDepth /\ ok' \in BOOLEAN
       /\ Fine(frames', eval, snapshots, leaks, ok', depth')
  BY <1>1, <1>3, <1>6, <1>8, <1>9, <1>10, <1>11, OperandStarts
<1>13. TypesOK' /\ ~panic'
  BY <1>1, <1>12 DEF EvalInv, TypesOK
<1>14. Fine(frames', eval', snapshots', leaks', ok', depth')
  BY <1>1, <1>12
<1> QED BY <1>13, <1>14, FineNext

\* The innermost frame is a loop, and the frame f takes its place.
LEMMA LoopFrame ==
  ASSUME EvalInv, frames # <<>>, Top.kind = "while", NEW f \in WhileFrame
  PROVE  LET gs == Below
             hs == Append(Below, f)
         IN  /\ Extends(gs, frames, Top) /\ StackOK(gs) /\ gs # <<>> /\ Top \in WhileFrame
             /\ gs[Len(gs)].kind = "list"
             /\ Cardinality(CountedIn(gs, Len(gs))) <= depth
             /\ Extends(gs, hs, f) /\ StackOK(hs) /\ hs # <<>> /\ hs[Len(hs)] = f
<1> DEFINE gs == Below
<1>1. /\ Extends(gs, frames, Top) /\ StackOK(gs) /\ gs # <<>> /\ Top \in WhileFrame
      /\ gs[Len(gs)].kind = "list"
      /\ Cardinality(CountedIn(gs, Len(gs))) <= depth
  BY BelowIs, FrameTypes DEF Above
<1> HIDE DEF gs
<1>2. Fits(gs, f)
  BY <1>1 DEF Fits, Above, Frame, WhileFrame
<1>3. /\ Extends(gs, Append(gs, f), f) /\ StackOK(Append(gs, f)) /\ Append(gs, f) # <<>>
      /\ Len(Append(gs, f)) = Len(gs) + 1 /\ Append(gs, f)[Len(gs) + 1] = f
  BY <1>1, <1>2, GrownExtends
<1> QED BY <1>1, <1>3 DEF gs

\* Iterate: the body runs, and the loop level counts it.
LEMMA StepIterate ==
  ASSUME EvalInv, Iterate, EvalAssumption PROVE EvalInv'
<1> DEFINE gs == Below
           f == [Top EXCEPT !.body = TRUE, !.event = eval.event]
           hs == Append(gs, f)
           e == [eval EXCEPT !.loops = @ + 1, !.event = "none"]
<1>1. frames # <<>> /\ ~panic /\ Top.kind = "while" /\ ok /\ ~Top.body
      /\ EnterList(hs, e) /\ UNCHANGED <<snapshots, panic, leaks>>
  BY DEF Iterate, OnTop
<1>2. Fine(frames, eval, snapshots, leaks, TRUE, depth)
  BY <1>1, FineNow
<1>3. eval \in EvalState /\ snapshots \in Seq(EvalState) /\ leaks \in Nat
      /\ depth \in 0..MaxDepth
  BY DEF EvalInv, TypesOK
<1>4. eval.event = "none"
  BY <1>1, <1>2 DEF Fine, EventOK, Top
<1>5. Top \in WhileFrame
  BY <1>1, BelowIs, FrameTypes
<1>6. f \in WhileFrame /\ f.kind = "while" /\ f.body = TRUE
  BY <1>4, <1>5 DEF WhileFrame
<1> HIDE DEF f
<1>7. /\ Extends(gs, frames, Top) /\ StackOK(gs) /\ gs # <<>>
      /\ Cardinality(CountedIn(gs, Len(gs))) <= depth
      /\ Extends(gs, hs, f) /\ StackOK(hs) /\ hs # <<>> /\ hs[Len(hs)] = f
  BY <1>1, <1>6, LoopFrame
<1> HIDE DEF gs, hs
<1>8. /\ Here(gs).pass = Here(frames).pass /\ Here(gs).level = Here(frames).level
      /\ Here(gs).start = Here(frames).start /\ Here(gs).loops = Here(frames).loops
      /\ Here(gs).ns = Here(frames).ns /\ Here(gs).data = Here(frames).data
      /\ Here(gs).window = Here(frames).window
  BY <1>1, <1>7, ExtendedContext
<1>9. /\ Here(hs).pass = Here(gs).pass /\ Here(hs).level = Here(gs).level
      /\ Here(hs).start = Here(gs).start /\ Here(hs).loops = Here(gs).loops + 1
      /\ Here(hs).ns = Here(gs).ns /\ Here(hs).data = Here(gs).data
      /\ Here(hs).window = Here(gs).window
  BY <1>6, <1>7, ExtendedContext
<1>10. /\ e \in EvalState /\ e.window = eval.window /\ e.event = "none"
       /\ e.pass = eval.pass /\ e.level = eval.level /\ e.start = eval.start
       /\ e.loops = eval.loops + 1 /\ e.ns = eval.ns /\ e.data = eval.data
  <2> DEFINE d == [eval EXCEPT !.loops = @ + 1]
  <2>1. d \in EvalState
    <3>1. eval.loops + 1 \in Nat
      BY <1>3 DEF EvalState
    <3>2. \A l \in Nat : [eval EXCEPT !.loops = l] \in EvalState
      BY <1>3 DEF EvalState
    <3> QED BY <3>1, <3>2
  <2>2. /\ d.window = eval.window /\ d.event = eval.event
        /\ d.pass = eval.pass /\ d.level = eval.level /\ d.start = eval.start
        /\ d.loops = eval.loops + 1 /\ d.ns = eval.ns /\ d.data = eval.data
    BY <1>3 DEF EvalState
  <2>3. e = [d EXCEPT !.event = "none"]
    OBVIOUS
  <2> HIDE DEF d, e
  <2> QED BY <2>1, <2>2, <2>3 DEF EvalState, Events
<1> HIDE DEF e
<1>11. ScopesOK(hs, e) /\ ContextOK(hs, e) /\ e.data = Here(hs).data
  BY <1>1, <1>2, <1>7, <1>8, <1>9, <1>10 DEF Fine, ScopesOK, ContextOK, Top
<1>12. Cardinality(CountedIn(hs, Len(hs))) <= depth
  BY <1>6, <1>7, ExtendedSets
<1>13. Aligned(hs, Len(hs), snapshots, leaks)
  <2>1. Aligned(gs, Len(gs), snapshots, leaks)
    BY <1>1, <1>2, <1>3, <1>7, ExtendedSnapshots DEF Fine
  <2> QED BY <1>3, <1>6, <1>7, <2>1, ExtendedSnapshots
<1>14. hs[Len(hs)].kind # "arg" /\ hs[Len(hs)].body
  BY <1>6, <1>7
<1>15. /\ depth' \in 0..MaxDepth /\ eval' \in EvalState /\ ok' \in BOOLEAN
       /\ Fine(frames', eval', snapshots, leaks, ok', depth')
  <2>1. EventOK(hs, e)
    BY <1>10 DEF EventOK
  <2> QED BY <1>1, <1>3, <1>7, <1>10, <1>11, <1>12, <1>13, <1>14, <2>1, ListStarts
<1>16. TypesOK' /\ ~panic'
  BY <1>1, <1>15 DEF EvalInv, TypesOK
<1>17. Fine(frames', eval', snapshots', leaks', ok', depth')
  BY <1>1, <1>15
<1> QED BY <1>16, <1>17, FineNext

\* LoopEnds: no body runs, or the error passes.
LEMMA StepLoopEnds ==
  ASSUME EvalInv, LoopEnds PROVE EvalInv'
<1> DEFINE gs == Below
<1>1. frames # <<>> /\ ~panic /\ Top.kind = "while" /\ frames' = gs
      /\ (~Top.body \/ ~ok) /\ UNCHANGED <<eval, snapshots, depth, panic, leaks>>
  BY DEF LoopEnds, OnTop
<1>2. eval \in EvalState /\ snapshots \in Seq(EvalState) /\ leaks \in Nat
      /\ depth \in 0..MaxDepth /\ ok \in BOOLEAN
  BY DEF EvalInv, TypesOK
<1>3. ok' \in BOOLEAN /\ (ok' => ok)
  BY <1>2 DEF LoopEnds
<1>4. /\ Extends(gs, frames, Top) /\ StackOK(gs) /\ gs # <<>> /\ Top \in WhileFrame
      /\ gs[Len(gs)].kind = "list"
      /\ Cardinality(CountedIn(gs, Len(gs))) <= depth
  BY <1>1, BelowIs, FrameTypes DEF Above
<1>5. CASE ~ok'
  BY <1>1, <1>2, <1>3, <1>4, <1>5, ErrorPasses
<1>6. CASE ok'
  <2>1. ok /\ ~Top.body /\ Fine(frames, eval, snapshots, leaks, TRUE, depth)
    BY <1>1, <1>3, <1>6, FineNow
  <2> HIDE DEF gs
  <2>2. eval.event = "none"
    BY <1>1, <2>1 DEF Fine, EventOK, Top
  <2>3. /\ Here(gs).pass = Here(frames).pass /\ Here(gs).level = Here(frames).level
        /\ Here(gs).start = Here(frames).start /\ Here(gs).loops = Here(frames).loops
        /\ Here(gs).ns = Here(frames).ns /\ Here(gs).data = Here(frames).data
        /\ Here(gs).window = Here(frames).window
    BY <1>1, <1>4, <2>1, ExtendedContext
  <2>4. Aligned(gs, Len(gs), snapshots, leaks)
    BY <1>1, <1>2, <1>4, <2>1, ExtendedSnapshots DEF Fine
  <2>5. ScopesOK(gs, eval) /\ ContextOK(gs, eval)
    BY <1>1, <1>4, <2>1, <2>3 DEF Fine, ScopesOK, ContextOK, Top
  <2>6. EventOK(gs, eval)
    BY <2>2 DEF EventOK
  <2>7. TypesOK' /\ ~panic'
    BY <1>1, <1>3 DEF EvalInv, TypesOK
  <2>8. Fine(frames', eval', snapshots', leaks', ok', depth')
    BY <1>1, <1>4, <2>4, <2>5, <2>6 DEF Fine
  <2> QED BY <2>7, <2>8, FineNext
<1> QED BY <1>3, <1>5, <1>6

\* IterationEnds: the loop level counts one less, and a break ends here.
LEMMA StepIterationEnds ==
  ASSUME EvalInv, IterationEnds, EvalAssumption PROVE EvalInv'
<1> DEFINE gs == Below
           f == [Top EXCEPT !.body = FALSE, !.i = @ + 1]
           hs == Append(gs, f)
<1>1. frames # <<>> /\ ~panic /\ Top.kind = "while" /\ ok /\ Top.body
      /\ UNCHANGED <<snapshots, panic, leaks>>
  BY DEF IterationEnds, OnTop
<1>2. /\ eval' = [eval EXCEPT !.loops = @ - 1,
                    !.event = IF @ = "return" THEN @ ELSE Top.event]
      /\ eval.event \in {"break", "return"} =>
           frames' = gs /\ UNCHANGED <<ok, depth>>
      /\ eval.event \notin {"break", "return"} => EnterArg(hs, FALSE)
  BY DEF IterationEnds
<1>3. Fine(frames, eval, snapshots, leaks, TRUE, depth)
  BY <1>1, FineNow
<1>4. eval \in EvalState /\ snapshots \in Seq(EvalState) /\ leaks \in Nat
      /\ depth \in 0..MaxDepth
  BY DEF EvalInv, TypesOK
<1>5. Top \in WhileFrame /\ Top.event = "none"
  BY <1>1, BelowIs, FrameTypes DEF WhileFrame
<1>6. f \in WhileFrame /\ f.kind = "while" /\ f.body = FALSE
  <2> DEFINE g == [Top EXCEPT !.body = FALSE]
  <2>1. g \in WhileFrame /\ g.body = FALSE /\ g.i = Top.i
    BY <1>5 DEF WhileFrame
  <2>2. f = [g EXCEPT !.i = Top.i + 1] /\ Top.i + 1 \in Nat
    BY <1>5 DEF WhileFrame
  <2> HIDE DEF g, f
  <2> QED BY <2>1, <2>2 DEF WhileFrame
<1> HIDE DEF f
<1>7. /\ Extends(gs, frames, Top) /\ StackOK(gs) /\ gs # <<>>
      /\ gs[Len(gs)].kind = "list"
      /\ Cardinality(CountedIn(gs, Len(gs))) <= depth
      /\ Extends(gs, hs, f) /\ StackOK(hs) /\ hs # <<>> /\ hs[Len(hs)] = f
  BY <1>1, <1>6, LoopFrame
<1> HIDE DEF gs, hs
<1>8. /\ Here(gs).pass = Here(frames).pass /\ Here(gs).level = Here(frames).level
      /\ Here(gs).start = Here(frames).start /\ Here(frames).loops = Here(gs).loops + 1
      /\ Here(gs).ns = Here(frames).ns /\ Here(gs).data = Here(frames).data
      /\ Here(gs).window = Here(frames).window
  BY <1>1, <1>7, ExtendedContext
<1>9. /\ Here(hs).pass = Here(gs).pass /\ Here(hs).level = Here(gs).level
      /\ Here(hs).start = Here(gs).start /\ Here(hs).loops = Here(gs).loops
      /\ Here(hs).ns = Here(gs).ns /\ Here(hs).data = Here(gs).data
      /\ Here(hs).window = Here(gs).window
  BY <1>6, <1>7, ExtendedContext
<1>10. Here(gs).loops \in Nat
  BY <1>7, HereIs DEF Extends, EvalState
<1>11. eval.loops = Here(gs).loops + 1
  BY <1>3, <1>8 DEF Fine, ContextOK
<1>12. /\ eval' \in EvalState /\ eval'.window = eval.window
       /\ eval'.event = IF eval.event = "return" THEN "return" ELSE "none"
       /\ eval'.pass = eval.pass /\ eval'.level = eval.level /\ eval'.start = eval.start
       /\ eval'.loops = Here(gs).loops /\ eval'.ns = eval.ns /\ eval'.data = eval.data
  <2> DEFINE d == [eval EXCEPT !.loops = @ - 1]
             v == IF eval.event = "return" THEN "return" ELSE "none"
  <2>1. d \in EvalState
    <3>1. eval.loops - 1 \in Nat
      BY <1>10, <1>11
    <3>2. \A l \in Nat : [eval EXCEPT !.loops = l] \in EvalState
      BY <1>4 DEF EvalState
    <3> QED BY <3>1, <3>2
  <2>2. /\ d.window = eval.window /\ d.event = eval.event
        /\ d.pass = eval.pass /\ d.level = eval.level /\ d.start = eval.start
        /\ d.loops = Here(gs).loops /\ d.ns = eval.ns /\ d.data = eval.data
    BY <1>4, <1>10, <1>11, SMTT(60) DEF EvalState
  <2>3. eval' = [d EXCEPT !.event = IF @ = "return" THEN @ ELSE "none"]
    BY <1>2, <1>5
  <2> HIDE DEF d
  <2>4. eval' = [d EXCEPT !.event = v]
    BY <2>2, <2>3
  <2>5. v \in Events
    BY DEF Events
  <2> HIDE DEF v
  <2>6. /\ eval' \in EvalState /\ eval'.window = d.window /\ eval'.event = v
        /\ eval'.pass = d.pass /\ eval'.level = d.level /\ eval'.start = d.start
        /\ eval'.loops = d.loops /\ eval'.ns = d.ns /\ eval'.data = d.data
    BY <2>1, <2>4, <2>5 DEF EvalState
  <2> QED BY <2>2, <2>6 DEF v
<1>13. Aligned(gs, Len(gs), snapshots, leaks)
  BY <1>1, <1>3, <1>4, <1>7, ExtendedSnapshots DEF Fine
<1>14. ScopesOK(gs, eval') /\ ContextOK(gs, eval')
  BY <1>1, <1>3, <1>7, <1>8, <1>12 DEF Fine, ScopesOK, ContextOK, Top
<1>15. CASE eval.event \in {"break", "return"}
  <2>1. CallsIn(gs, Len(gs)) # {}
    BY <1>7, CallAtBottom
  <2>2. EventOK(gs, eval')
    BY <1>7, <1>12, <2>1 DEF EventOK
  <2>3. TypesOK' /\ ~panic'
    BY <1>1, <1>2, <1>12, <1>15 DEF EvalInv, TypesOK
  <2>4. Fine(frames', eval', snapshots', leaks', ok', depth')
    BY <1>1, <1>2, <1>7, <1>13, <1>14, <1>15, <2>2 DEF Fine
  <2> QED BY <2>3, <2>4, FineNext
<1>16. CASE eval.event \notin {"break", "return"}
  <2>1. EnterArg(hs, FALSE) /\ eval'.event = "none"
    BY <1>2, <1>12, <1>16
  <2>2. ScopesOK(hs, eval') /\ ContextOK(hs, eval')
    BY <1>6, <1>7, <1>9, <1>14 DEF ScopesOK, ContextOK
  <2>3. Cardinality(CountedIn(hs, Len(hs))) <= depth
    BY <1>6, <1>7, ExtendedSets
  <2>4. Aligned(hs, Len(hs), snapshots, leaks)
    BY <1>4, <1>6, <1>7, <1>13, ExtendedSnapshots
  <2>5. hs[Len(hs)].kind = "while"
    BY <1>6, <1>7
  <2>6. /\ depth' \in 0..MaxDepth /\ ok' \in BOOLEAN
        /\ Fine(frames', eval', snapshots, leaks, ok', depth')
    BY <1>4, <1>7, <1>12, <2>1, <2>2, <2>3, <2>4, <2>5, OperandStarts
  <2>7. TypesOK' /\ ~panic'
    BY <1>1, <1>12, <2>6 DEF EvalInv, TypesOK
  <2>8. Fine(frames', eval', snapshots', leaks', ok', depth')
    BY <1>1, <2>6
  <2> QED BY <2>7, <2>8, FineNext
<1> QED BY <1>15, <1>16

\* Scope: one namespace scope more.
LEMMA StepScope ==
  ASSUME EvalInv, Scope, EvalAssumption PROVE EvalInv'
<1> DEFINE gs == Consumed
           f == [kind |-> "scope"]
           hs == Append(gs, f)
           e == [eval EXCEPT !.ns = @ + 1]
<1>1. Ready /\ ~panic /\ ok /\ eval.event = "none" /\ Top.kind = "list"
      /\ EnterList(hs, e) /\ UNCHANGED <<snapshots, panic, leaks>>
  BY DEF Scope, Ready
<1>2. /\ StackOK(gs) /\ gs # <<>> /\ gs[Len(gs)].kind = "list"
      /\ Cardinality(CountedIn(gs, Len(gs))) <= depth
      /\ ScopesOK(gs, eval) /\ ContextOK(gs, eval) /\ eval.data = Here(gs).data
      /\ Aligned(gs, Len(gs), snapshots, leaks)
  BY <1>1, ConsumedFine
<1>3. eval \in EvalState /\ snapshots \in Seq(EvalState) /\ leaks \in Nat
      /\ depth \in 0..MaxDepth
  BY DEF EvalInv, TypesOK
<1>4. f \in ScopeFrame /\ f.kind = "scope"
  BY DEF ScopeFrame
<1> HIDE DEF gs, f
<1>5. Fits(gs, f)
  BY <1>2, <1>4 DEF Fits, Frame, Above
<1>6. /\ Extends(gs, hs, f) /\ StackOK(hs) /\ hs # <<>>
      /\ Len(hs) = Len(gs) + 1 /\ hs[Len(gs) + 1] = f
  BY <1>2, <1>5, GrownExtends
<1> HIDE DEF hs
<1>7. /\ Here(hs).pass = Here(gs).pass /\ Here(hs).level = Here(gs).level
      /\ Here(hs).start = Here(gs).start /\ Here(hs).loops = Here(gs).loops
      /\ Here(hs).ns = Here(gs).ns + 1 /\ Here(hs).data = Here(gs).data
      /\ Here(hs).window = Here(gs).window
  BY <1>4, <1>6, ExtendedContext
<1>8. /\ e \in EvalState /\ e.window = eval.window /\ e.event = "none"
      /\ e.pass = eval.pass /\ e.level = eval.level /\ e.start = eval.start
      /\ e.loops = eval.loops /\ e.ns = eval.ns + 1 /\ e.data = eval.data
  <2> DEFINE n == eval.ns + 1
  <2>1. n \in Nat
    BY <1>3 DEF EvalState
  <2>2. e = [eval EXCEPT !.ns = n]
    OBVIOUS
  <2> HIDE DEF n, e
  <2>3. /\ e \in EvalState /\ e.window = eval.window /\ e.event = eval.event
        /\ e.pass = eval.pass /\ e.level = eval.level /\ e.start = eval.start
        /\ e.loops = eval.loops /\ e.ns = n /\ e.data = eval.data
    BY <1>3, <2>1, <2>2 DEF EvalState
  <2> QED BY <1>1, <2>3 DEF n
<1> HIDE DEF e
<1>9. Here(gs).ns = eval.ns
  BY <1>2 DEF ContextOK
<1>10. eval.ns \in Nat
  BY <1>3 DEF EvalState
<1>11. ScopesOK(hs, e) /\ ContextOK(hs, e) /\ e.data = Here(hs).data
  BY <1>2, <1>6, <1>7, <1>8, <1>9, <1>10 DEF ScopesOK, ContextOK
<1>12. Cardinality(CountedIn(hs, Len(hs))) <= depth
  BY <1>2, <1>4, <1>6, ExtendedSets
<1>13. Aligned(hs, Len(hs), snapshots, leaks)
  BY <1>2, <1>3, <1>4, <1>6, ExtendedSnapshots
<1>14. hs[Len(hs)].kind = "scope"
  BY <1>4, <1>6
<1>15. /\ depth' \in 0..MaxDepth /\ eval' \in EvalState /\ ok' \in BOOLEAN
       /\ Fine(frames', eval', snapshots, leaks, ok', depth')
  <2>1. EventOK(hs, e)
    BY <1>8 DEF EventOK
  <2> QED BY <1>1, <1>3, <1>6, <1>8, <1>11, <1>12, <1>13, <1>14, <2>1, ListStarts
<1>16. TypesOK' /\ ~panic'
  BY <1>1, <1>15 DEF EvalInv, TypesOK
<1>17. Fine(frames', eval', snapshots', leaks', ok', depth')
  BY <1>1, <1>15
<1> QED BY <1>16, <1>17, FineNext

\* ScopeEnds: one less, unless an error passes.
LEMMA StepScopeEnds ==
  ASSUME EvalInv, ScopeEnds PROVE EvalInv'
<1> DEFINE gs == Below
<1>1. frames # <<>> /\ ~panic /\ Top.kind = "scope" /\ frames' = gs
      /\ UNCHANGED <<ok, snapshots, depth, panic, leaks>>
  BY DEF ScopeEnds, OnTop
<1>2. /\ ok => eval' = [eval EXCEPT !.ns = @ - 1]
      /\ ~ok => eval' = eval
  BY DEF ScopeEnds
<1>3. /\ Extends(gs, frames, Top) /\ StackOK(gs) /\ gs # <<>>
      /\ gs[Len(gs)].kind = "list"
      /\ Cardinality(CountedIn(gs, Len(gs))) <= depth
  BY <1>1, BelowIs DEF Above
<1>4. eval \in EvalState /\ snapshots \in Seq(EvalState) /\ leaks \in Nat /\ ok \in BOOLEAN
      /\ depth \in 0..MaxDepth
  BY DEF EvalInv, TypesOK
<1>5. CASE ~ok
  BY <1>1, <1>2, <1>3, <1>4, <1>5, ErrorPasses
<1>6. CASE ok
  <2>1. Fine(frames, eval, snapshots, leaks, TRUE, depth)
    BY <1>1, <1>6, FineNow
  <2> HIDE DEF gs
  <2>2. /\ Here(gs).pass = Here(frames).pass /\ Here(gs).level = Here(frames).level
        /\ Here(gs).start = Here(frames).start /\ Here(gs).loops = Here(frames).loops
        /\ Here(frames).ns = Here(gs).ns + 1 /\ Here(gs).data = Here(frames).data
        /\ Here(gs).window = Here(frames).window
        /\ LoopsIn(gs, Len(gs)) = LoopsIn(frames, Len(frames))
    BY <1>1, <1>3, ExtendedContext, ExtendedSets
  <2>3. Here(gs).ns \in Nat
    BY <1>3, HereIs DEF Extends, EvalState
  <2>4. eval.ns = Here(gs).ns + 1
    BY <2>1, <2>2 DEF Fine, ContextOK
  <2>5. /\ eval' \in EvalState /\ eval'.window = eval.window /\ eval'.event = eval.event
        /\ eval'.pass = eval.pass /\ eval'.level = eval.level /\ eval'.start = eval.start
        /\ eval'.loops = eval.loops /\ eval'.ns = Here(gs).ns /\ eval'.data = eval.data
    <3> DEFINE n == eval.ns - 1
    <3>1. n = Here(gs).ns /\ n \in Nat
      BY <2>3, <2>4
    <3>2. eval' = [eval EXCEPT !.ns = n]
      BY <1>2, <1>6
    <3> HIDE DEF n
    <3> QED BY <1>4, <3>1, <3>2 DEF EvalState
  <2>6. Aligned(gs, Len(gs), snapshots, leaks)
    BY <1>1, <1>3, <1>4, <2>1, ExtendedSnapshots DEF Fine
  <2>7. ScopesOK(gs, eval') /\ ContextOK(gs, eval')
    BY <1>1, <1>3, <2>1, <2>2, <2>3, <2>5 DEF Fine, ScopesOK, ContextOK, Top
  <2>8. CallsIn(gs, Len(gs)) # {}
    BY <1>3, CallAtBottom
  <2>9. EventOK(gs, eval')
    BY <1>3, <2>1, <2>2, <2>5, <2>8 DEF Fine, EventOK
  <2>10. TypesOK' /\ ~panic'
    BY <1>1, <2>5 DEF EvalInv, TypesOK
  <2>11. Fine(frames', eval', snapshots', leaks', ok', depth')
    BY <1>1, <1>3, <2>6, <2>7, <2>9 DEF Fine
  <2> QED BY <2>10, <2>11, FineNext
<1> QED BY <1>4, <1>5, <1>6

-----------------------------------------------------------------------------
(* Calls and tables. *)

\* Where the code may call, AML_STATE is what the stack says.
LEMMA EvalIsHere ==
  ASSUME NEW fs, Len(fs) \in Nat, NEW e \in EvalState, ScopesOK(fs, e), ContextOK(fs, e),
         e.data = Here(fs).data, e.event = "none"
  PROVE  e = Here(fs)
<1>1. Here(fs) \in EvalState /\ Here(fs).event = "none"
  BY HereIs
<1>2. /\ e.pass = Here(fs).pass /\ e.level = Here(fs).level /\ e.start = Here(fs).start
      /\ e.loops = Here(fs).loops /\ e.event = Here(fs).event /\ e.ns = Here(fs).ns
      /\ e.data = Here(fs).data /\ e.window = Here(fs).window
  BY <1>1 DEF ScopesOK, ContextOK
<1> HIDE DEF Here
<1> QED BY <1>1, <1>2 DEF EvalState

\* What can call: the host, or the innermost list or operand.
CanCall(fs) ==
  /\ StackOK(fs)
  /\ fs # <<>> => fs[Len(fs)].kind \in {"list", "arg"}
  /\ Cardinality(CountedIn(fs, Len(fs))) <= depth
  /\ eval = Here(fs)
  /\ Aligned(fs, Len(fs), snapshots, leaks)

\* A state that the stack determines is fine.
LEMMA HereIsFine ==
  ASSUME NEW fs, Len(fs) \in Nat
  PROVE  ScopesOK(fs, Here(fs)) /\ ContextOK(fs, Here(fs)) /\ EventOK(fs, Here(fs))
<1>1. Here(fs) \in EvalState /\ Here(fs).event = "none"
  BY HereIs
<1>2. Here(fs).ns \in Nat
  BY <1>1 DEF EvalState
<1> QED BY <1>1, <1>2 DEF ScopesOK, ContextOK, EventOK

\* A method is invoked: the snapshot holds the context below the call.
LEMMA StepInvoke ==
  ASSUME EvalInv, EvalAssumption, ~panic, UNCHANGED panic, NEW fs, CanCall(fs), Invoke(fs)
  PROVE  EvalInv'
<1> DEFINE pushed == [eval EXCEPT !.level = @ + 1]
           entered == [pushed EXCEPT !.ns = @ + 1]
           f == [kind |-> "method", level |-> pushed.level, event |-> eval.event]
           gs == Append(fs, f)
           e == [entered EXCEPT !.data = Len(gs)]
<1>1. /\ eval \in EvalState /\ snapshots \in Seq(EvalState) /\ leaks \in Nat
      /\ depth \in 0..MaxDepth
  BY DEF EvalInv, TypesOK
<1>2. /\ StackOK(fs) /\ Cardinality(CountedIn(fs, Len(fs))) <= depth /\ eval = Here(fs)
      /\ fs # <<>> => fs[Len(fs)].kind \in {"list", "arg"}
      /\ Aligned(fs, Len(fs), snapshots, leaks) /\ Len(fs) \in Nat
  BY StackLen DEF CanCall
<1>3. eval.event = "none" /\ eval.level \in Nat /\ eval.ns \in Nat
  BY <1>1, <1>2, HereIs DEF EvalState
<1>4. /\ pushed \in EvalState /\ pushed.window = eval.window /\ pushed.event = "none"
      /\ pushed.pass = eval.pass /\ pushed.level = eval.level + 1
      /\ pushed.start = eval.start /\ pushed.loops = eval.loops /\ pushed.ns = eval.ns
      /\ pushed.data = eval.data
  <2> DEFINE l == eval.level + 1
  <2>1. l \in Nat /\ pushed = [eval EXCEPT !.level = l]
    BY <1>3
  <2> HIDE DEF l, pushed
  <2>2. /\ pushed \in EvalState /\ pushed.window = eval.window /\ pushed.event = eval.event
        /\ pushed.pass = eval.pass /\ pushed.level = l
        /\ pushed.start = eval.start /\ pushed.loops = eval.loops /\ pushed.ns = eval.ns
        /\ pushed.data = eval.data
    BY <1>1, <2>1 DEF EvalState
  <2> QED BY <1>3, <2>2 DEF l
<1>5. /\ entered \in EvalState /\ entered.window = eval.window /\ entered.event = "none"
      /\ entered.pass = eval.pass /\ entered.level = eval.level + 1
      /\ entered.start = eval.start /\ entered.loops = eval.loops
      /\ entered.ns = eval.ns + 1 /\ entered.data = eval.data
  <2> DEFINE n == eval.ns + 1
  <2> HIDE DEF pushed
  <2>1. n \in Nat /\ entered = [pushed EXCEPT !.ns = n]
    BY <1>3, <1>4
  <2> HIDE DEF n, entered
  <2>2. /\ entered \in EvalState /\ entered.window = pushed.window
        /\ entered.event = pushed.event
        /\ entered.pass = pushed.pass /\ entered.level = pushed.level
        /\ entered.start = pushed.start /\ entered.loops = pushed.loops /\ entered.ns = n
        /\ entered.data = pushed.data
    BY <1>4, <2>1 DEF EvalState
  <2> QED BY <1>4, <2>2 DEF n
<1>6. f \in MethodFrame /\ f.kind = "method" /\ f.level = Here(fs).level + 1
  BY <1>2, <1>3, <1>4 DEF MethodFrame, EvalState
<1> HIDE DEF f
<1>7. Fits(fs, f)
  BY <1>2, <1>6 DEF Fits, Frame, Above, Here
<1>8. /\ Extends(fs, gs, f) /\ StackOK(gs) /\ gs # <<>>
      /\ Len(gs) = Len(fs) + 1 /\ gs[Len(gs)] = f
  BY <1>2, <1>7, GrownExtends
<1>9. Len(gs) \in Nat
  BY <1>2, <1>8
<1> HIDE DEF gs
<1>10. /\ e \in EvalState /\ e.window = eval.window /\ e.event = "none"
       /\ e.pass = eval.pass /\ e.level = eval.level + 1
       /\ e.start = eval.start /\ e.loops = eval.loops
       /\ e.ns = eval.ns + 1 /\ e.data = Len(gs)
  <2> HIDE DEF entered
  <2> QED BY <1>5, <1>9 DEF EvalState
<1> HIDE DEF e
<1>11. /\ Here(gs).pass = eval.pass /\ Here(gs).level = eval.level + 1
       /\ Here(gs).start = eval.start /\ Here(gs).loops = eval.loops
       /\ Here(gs).ns = eval.ns + 1 /\ Here(gs).data = Len(gs)
       /\ Here(gs).window = eval.window
  BY <1>2, <1>6, <1>8, ExtendedContext
<1>12. Aligned(gs, Len(gs), Append(snapshots, pushed), leaks)
  <2>1. Snapshot(gs, Len(gs)) = pushed
    BY <1>1, <1>2, <1>6, <1>8, ExtendedSnapshots
  <2> HIDE DEF pushed
  <2> QED BY <1>1, <1>2, <1>6, <1>8, <2>1, ExtendedSnapshots
<1>13. Append(snapshots, pushed) \in Seq(EvalState)
  BY <1>1, <1>4
<1>14. /\ Cardinality(CountedIn(gs, Len(gs))) <= depth
       /\ gs[Len(gs)].kind = "method"
  BY <1>2, <1>6, <1>8, ExtendedSets
<1> HIDE DEF pushed, entered
<1>15. ScopesOK(fs, eval) /\ ContextOK(fs, eval) /\ EventOK(fs, eval)
  BY <1>2, HereIsFine
<1>16. CASE frames' = fs /\ ok' = FALSE /\ UNCHANGED <<eval, snapshots, depth, leaks>>
  <2>1. TypesOK' /\ ~panic'
    BY <1>16 DEF EvalInv, TypesOK
  <2>2. Fine(frames', eval', snapshots', leaks', ok', depth')
    BY <1>2, <1>15, <1>16 DEF Fine
  <2> QED BY <2>1, <2>2, FineNext
<1>17. CASE leaks < MaxLeaks /\ leaks' = leaks + 1 /\ snapshots' = Append(snapshots, pushed)
            /\ frames' = fs /\ ok' = FALSE /\ UNCHANGED <<eval, depth>>
  <2>1. /\ Len(snapshots') = Len(snapshots) + 1 /\ snapshots' # <<>>
        /\ snapshots'[Len(snapshots')] = pushed
    BY <1>1, <1>4, <1>17
  <2>2. Aligned(fs, Len(fs), snapshots', leaks') \/ Stray'
    <3>1. CASE fs = <<>>
      <4>1. Len(fs) = 0 /\ 1..0 = {}
        BY <3>1
      <4>2. CallsIn(fs, Len(fs)) = {}
        BY <4>1 DEF CallsIn, KindsIn
      <4>3. Len(snapshots) = leaks + Context(fs, Len(fs)).level
        BY <1>2 DEF Aligned
      <4>4. Context(fs, Len(fs)).level \in Nat
        BY <1>2, <1>3 DEF Here
      <4>5. Len(snapshots') = leaks' + Context(fs, Len(fs)).level
        BY <1>1, <1>17, <2>1, <4>3, <4>4
      <4> QED BY <4>2, <4>5 DEF Aligned
    <3>2. CASE fs # <<>>
      BY <1>1, <1>3, <1>4, <1>17, <2>1, <3>2 DEF Stray
    <3> QED BY <3>1, <3>2
  <2>3. leaks' \in 0..MaxLeaks
    BY <1>1, <1>17 DEF EvalAssumption
  <2>4. TypesOK' /\ ~panic'
    BY <1>13, <1>17, <2>3 DEF EvalInv, TypesOK
  <2> QED BY <1>2, <1>15, <1>17, <2>2, <2>4 DEF EvalInv
<1>18. CASE frames' = gs /\ eval' = entered /\ ok' \in BOOLEAN
            /\ snapshots' = Append(snapshots, pushed) /\ UNCHANGED <<depth, leaks>>
  <2>1. ScopesOK(gs, entered) /\ ContextOK(gs, entered) /\ EventOK(gs, entered)
    BY <1>3, <1>5, <1>8, <1>11, <1>14 DEF ScopesOK, ContextOK, EventOK
  <2>2. TypesOK' /\ ~panic'
    BY <1>5, <1>13, <1>18 DEF EvalInv, TypesOK
  <2>3. Fine(frames', eval', snapshots', leaks', ok', depth')
    BY <1>8, <1>12, <1>14, <1>18, <2>1 DEF Fine
  <2> QED BY <2>2, <2>3, FineNext
<1>19. CASE EnterList(gs, e) /\ snapshots' = Append(snapshots, pushed) /\ UNCHANGED leaks
  <2>1. ScopesOK(gs, e) /\ ContextOK(gs, e) /\ e.data = Here(gs).data
    BY <1>3, <1>8, <1>10, <1>11 DEF ScopesOK, ContextOK
  <2>2. /\ depth' \in 0..MaxDepth /\ eval' \in EvalState /\ ok' \in BOOLEAN
        /\ Fine(frames', eval', snapshots', leaks, ok', depth')
    <3>1. EventOK(gs, e)
      BY <1>10 DEF EventOK
    <3> QED BY <1>1, <1>8, <1>10, <1>12, <1>13, <1>14, <1>19, <2>1, <3>1, ListStarts
  <2>3. TypesOK' /\ ~panic'
    BY <1>13, <1>19, <2>2 DEF EvalInv, TypesOK
  <2>4. Fine(frames', eval', snapshots', leaks', ok', depth')
    BY <1>19, <2>2
  <2> QED BY <2>3, <2>4, FineNext
<1> QED BY <1>16, <1>17, <1>18, <1>19 DEF Invoke, f, gs, e, pushed, entered

\* A term that may be evaluated may call.
LEMMA CodeCanCall ==
  ASSUME EvalInv, Ready
  PROVE  CanCall(Consumed)
<1>1. /\ StackOK(Consumed) /\ Consumed[Len(Consumed)].kind = Top.kind
      /\ Cardinality(CountedIn(Consumed, Len(Consumed))) <= depth
      /\ ScopesOK(Consumed, eval) /\ ContextOK(Consumed, eval)
      /\ eval.data = Here(Consumed).data
      /\ Aligned(Consumed, Len(Consumed), snapshots, leaks)
  BY ConsumedFine
<1>2. Top.kind \in {"list", "arg"} /\ eval.event = "none"
  BY DEF Ready
<1>3. eval \in EvalState
  BY DEF EvalInv, TypesOK
<1>4. Len(Consumed) \in Nat
  BY <1>1, StackLen
<1> HIDE DEF Consumed
<1>5. eval = Here(Consumed)
  BY <1>1, <1>2, <1>3, <1>4, EvalIsHere
<1> QED BY <1>1, <1>2, <1>5 DEF CanCall

\* The host may call when nothing runs.
LEMMA HostCanCall ==
  ASSUME EvalInv, frames = <<>>, ~panic
  PROVE  CanCall(<<>>)
<1>1. StackOK(frames) /\ ScopesOK(frames, eval)
      /\ Cardinality(CountedIn(frames, Len(frames))) <= depth
  BY DEF EvalInv
<1>2. Aligned(frames, Len(frames), snapshots, leaks)
  BY DEF EvalInv, Stray
<1>3. eval = Here(frames)
  BY <1>1 DEF ScopesOK
<1>4. CanCall(frames)
  BY <1>1, <1>2, <1>3 DEF CanCall
<1> QED BY <1>4

\* Call: from byte code.
LEMMA StepCall ==
  ASSUME EvalInv, Call, EvalAssumption PROVE EvalInv'
<1>1. Ready /\ ~panic /\ UNCHANGED panic /\ Invoke(Consumed)
  BY DEF Call, Ready
<1> QED BY <1>1, CodeCanCall, StepInvoke

\* A table is entered: its context starts afresh, the snapshot holds the old one.
LEMMA TableStarts ==
  ASSUME EvalInv, EvalAssumption, ~panic, UNCHANGED <<panic, leaks>>, NEW fs, CanCall(fs),
         NEW tolerant \in BOOLEAN, EnterTable(fs, tolerant)
  PROVE  EvalInv'
<1> DEFINE l == eval.level + 1
           f == [kind |-> "table", full |-> FALSE, level |-> l, tolerant |-> tolerant]
           gs == Append(fs, f)
           e == [eval EXCEPT !.pass = "namespace", !.level = l, !.start = l, !.loops = 0,
                   !.event = "none", !.ns = @ + 1, !.data = Len(fs) + 1]
<1>1. /\ eval \in EvalState /\ snapshots \in Seq(EvalState) /\ leaks \in Nat
      /\ depth \in 0..MaxDepth
  BY DEF EvalInv, TypesOK
<1>2. /\ StackOK(fs) /\ Cardinality(CountedIn(fs, Len(fs))) <= depth /\ eval = Here(fs)
      /\ fs # <<>> => fs[Len(fs)].kind \in {"list", "arg"}
      /\ Aligned(fs, Len(fs), snapshots, leaks) /\ Len(fs) \in Nat
  BY StackLen DEF CanCall
<1>3. eval.level \in Nat /\ eval.ns \in Nat /\ l \in Nat
  BY <1>1 DEF EvalState
<1>4. CASE frames' = fs /\ ok' = tolerant /\ UNCHANGED <<eval, snapshots, depth>>
  <2>1. TypesOK' /\ ~panic'
    BY <1>4 DEF EvalInv, TypesOK
  <2>2. Fine(frames', eval', snapshots', leaks', ok', depth')
    BY <1>2, <1>4, HereIsFine DEF Fine
  <2> QED BY <2>1, <2>2, FineNext
<1>5. CASE snapshots' = Append(snapshots, eval) /\ EnterList(gs, e)
  <2>1. f \in TableFrame /\ f.kind = "table" /\ f.full = FALSE
    BY <1>3 DEF TableFrame
  <2>2. e \in EvalState
        /\ e.pass = "namespace" /\ e.level = l /\ e.start = l /\ e.loops = 0
        /\ e.event = "none" /\ e.ns = eval.ns + 1 /\ e.data = Len(fs) + 1
        /\ e.window = eval.window
    <3> DEFINE n == eval.ns + 1
               d == Len(fs) + 1
               g == [eval EXCEPT !.pass = "namespace", !.level = l, !.start = l,
                       !.loops = 0, !.event = "none", !.ns = n, !.data = d]
    <3>1. e = g
      OBVIOUS
    <3>2. n \in Nat /\ d \in Nat /\ 0 \in Nat /\ "none" \in Events
      BY <1>2, <1>3 DEF Events
    <3> HIDE DEF n, d, l
    <3>3. g \in EvalState
          /\ g.pass = "namespace" /\ g.level = l /\ g.start = l /\ g.loops = 0
          /\ g.event = "none" /\ g.ns = n /\ g.data = d /\ g.window = eval.window
      BY <1>1, <1>3, <3>2 DEF EvalState
    <3> HIDE DEF g
    <3> QED BY <3>1, <3>3 DEF n, d
  <2> HIDE DEF f, e
  <2>3. Fits(fs, f)
    BY <1>2, <2>1 DEF Fits, Frame, Above
  <2>4. /\ Extends(fs, gs, f) /\ StackOK(gs) /\ gs # <<>>
        /\ Len(gs) = Len(fs) + 1 /\ gs[Len(gs)] = f
    BY <1>2, <2>3, GrownExtends
  <2> HIDE DEF gs
  <2>5. /\ Here(gs).pass = "namespace" /\ Here(gs).level = l /\ Here(gs).start = l
        /\ Here(gs).loops = 0 /\ Here(gs).ns = eval.ns + 1 /\ Here(gs).data = Len(gs)
        /\ Here(gs).window = eval.window
    BY <1>2, <2>1, <2>4, ExtendedContext
  <2>6. Aligned(gs, Len(gs), Append(snapshots, eval), leaks)
    <3>1. Snapshot(gs, Len(gs)) = eval
      BY <1>1, <1>2, <2>1, <2>4, ExtendedSnapshots
    <3> QED BY <1>1, <1>2, <2>1, <2>4, <3>1, ExtendedSnapshots
  <2>7. Append(snapshots, eval) \in Seq(EvalState)
    BY <1>1
  <2>8. /\ Cardinality(CountedIn(gs, Len(gs))) <= depth
        /\ gs[Len(gs)].kind = "table"
    BY <1>2, <2>1, <2>4, ExtendedSets
  <2>9. ScopesOK(gs, e) /\ ContextOK(gs, e) /\ e.data = Here(gs).data
    BY <1>3, <2>2, <2>4, <2>5 DEF ScopesOK, ContextOK
  <2>10. /\ depth' \in 0..MaxDepth /\ eval' \in EvalState /\ ok' \in BOOLEAN
         /\ Fine(frames', eval', snapshots', leaks, ok', depth')
    <3>1. EventOK(gs, e)
      BY <2>2 DEF EventOK
    <3> QED BY <1>1, <1>5, <2>2, <2>4, <2>6, <2>7, <2>8, <2>9, <3>1, ListStarts
  <2>11. TypesOK' /\ ~panic'
    BY <1>5, <2>7, <2>10 DEF EvalInv, TypesOK
  <2>12. Fine(frames', eval', snapshots', leaks', ok', depth')
    BY <2>10
  <2> QED BY <2>11, <2>12, FineNext
<1> QED BY <1>4, <1>5 DEF EnterTable

\* Load: from byte code.
LEMMA StepLoad ==
  ASSUME EvalInv, Load, EvalAssumption PROVE EvalInv'
<1>1. Ready /\ ~panic /\ UNCHANGED <<panic, leaks>>
  BY DEF Load, Ready
<1>2. PICK tolerant \in BOOLEAN : EnterTable(Consumed, tolerant)
  BY DEF Load
<1> QED BY <1>1, <1>2, CodeCanCall, TableStarts

\* HostEnters: from the host.
LEMMA StepHostEnters ==
  ASSUME EvalInv, HostEnters, EvalAssumption PROVE EvalInv'
<1>1. frames = <<>> /\ ~panic /\ UNCHANGED panic
  BY DEF HostEnters
<1>2. CanCall(<<>>)
  BY <1>1, HostCanCall
<1>3. CASE Invoke(<<>>)
  BY <1>1, <1>2, <1>3, StepInvoke
<1>4. CASE EnterTable(<<>>, FALSE) /\ UNCHANGED leaks
  BY <1>1, <1>2, <1>4, TableStarts
<1> QED BY <1>3, <1>4 DEF HostEnters

\* A sequence is its front and its last element.
LEMMA FrontAndLast ==
  ASSUME NEW S, NEW ss \in Seq(S), Len(ss) > 0
  PROVE  ss = Append(SubSeq(ss, 1, Len(ss) - 1), ss[Len(ss)])
<1> DEFINE tt == SubSeq(ss, 1, Len(ss) - 1)
<1>1. Len(ss) \in Nat
  OBVIOUS
<1>2. tt \in Seq(S) /\ Len(tt) = Len(ss) - 1 /\ \A i \in 1..(Len(ss) - 1) : tt[i] = ss[i]
  BY <1>1
<1>3. ss[Len(ss)] \in S
  BY <1>1
<1> HIDE DEF tt
<1>4. /\ Append(tt, ss[Len(ss)]) \in Seq(S) /\ Len(Append(tt, ss[Len(ss)])) = Len(ss)
      /\ \A i \in 1..Len(ss) : Append(tt, ss[Len(ss)])[i] = ss[i]
  BY <1>1, <1>2, <1>3
<1>5. ss = Append(tt, ss[Len(ss)])
  BY <1>4, SeqEqual
<1> QED BY <1>5 DEF tt

\* The stack below a table or a method, and the snapshot that its end will find.
LEMMA BelowCall ==
  ASSUME EvalInv, frames # <<>>, ~panic, Top.kind \in {"method", "table"}
  PROVE  /\ Extends(Below, frames, Top) /\ StackOK(Below) /\ Len(Below) \in Nat
         /\ Cardinality(CountedIn(Below, Len(Below))) <= depth
         /\ Below # <<>> => Below[Len(Below)].kind \in {"list", "arg"}
         /\ Here(frames).level = Here(Below).level + 1
         /\ Here(frames).ns = Here(Below).ns + 1
         /\ Here(frames).start =
              IF Top.kind = "table" THEN Here(Below).level + 1 ELSE Here(Below).start
         /\ Aligned(frames, Len(frames), snapshots, leaks) =>
              /\ Len(snapshots) > 0
              /\ snapshots[Len(snapshots)] =
                   IF Top.kind = "method" THEN [Here(Below) EXCEPT !.level = @ + 1]
                   ELSE Here(Below)
              /\ Aligned(Below, Len(Below), SubSeq(snapshots, 1, Len(snapshots) - 1), leaks)
<1>1. snapshots \in Seq(EvalState) /\ leaks \in Nat
  BY DEF EvalInv, TypesOK
<1>2. Extends(Below, frames, Top) /\ StackOK(Below) /\ Len(Below) \in Nat
      /\ Cardinality(CountedIn(Below, Len(Below))) <= depth
  BY BelowIs, StackLen
<1>3. Below # <<>> => Below[Len(Below)].kind \in {"list", "arg"}
  <2> SUFFICES ASSUME Below # <<>> PROVE Below[Len(Below)].kind \in {"list", "arg"}
    OBVIOUS
  <2> DEFINE n == Len(frames) - 1
  <2>1. StackOK(frames)
    BY DEF EvalInv
  <2>2. /\ n \in Nat /\ Len(frames) = n + 1 /\ Len(Below) = n
        /\ \A i \in 1..n : Below[i] = frames[i]
        /\ (Below # <<>> <=> n > 0)
        /\ n > 0 => Above(frames[n + 1], frames[n])
    BY <2>1, StackPops DEF Below
  <2> HIDE DEF n
  <2>3. Above(Top, Below[n])
    BY <2>2 DEF Top
  <2> QED BY <2>2, <2>3 DEF Above
<1>4. /\ Here(frames).level = Here(Below).level + 1
      /\ Here(frames).ns = Here(Below).ns + 1
      /\ Here(frames).start =
           IF Top.kind = "table" THEN Here(Below).level + 1 ELSE Here(Below).start
  BY <1>2, ExtendedContext
<1>5. ASSUME Aligned(frames, Len(frames), snapshots, leaks)
      PROVE  /\ Len(snapshots) > 0
             /\ snapshots[Len(snapshots)] =
                  IF Top.kind = "method" THEN [Here(Below) EXCEPT !.level = @ + 1]
                  ELSE Here(Below)
             /\ Aligned(Below, Len(Below), SubSeq(snapshots, 1, Len(snapshots) - 1), leaks)
  BY <1>1, <1>2, <1>5, ExtendedSnapshots
<1> QED BY <1>2, <1>3, <1>4, <1>5

\* FullPass: the same table, in its other pass.
LEMMA StepFullPass ==
  ASSUME EvalInv, FullPass, EvalAssumption PROVE EvalInv'
<1> DEFINE gs == Below
           f == [Top EXCEPT !.full = TRUE]
           hs == Append(gs, f)
           e == [eval EXCEPT !.pass = "full"]
<1>1. frames # <<>> /\ ~panic /\ Top.kind = "table" /\ ok /\ ~Top.full
      /\ EnterList(hs, e) /\ UNCHANGED <<snapshots, panic, leaks>>
  BY DEF FullPass, OnTop
<1>2. Fine(frames, eval, snapshots, leaks, TRUE, depth)
  BY <1>1, FineNow
<1>3. eval \in EvalState /\ snapshots \in Seq(EvalState) /\ leaks \in Nat
      /\ depth \in 0..MaxDepth
  BY DEF EvalInv, TypesOK
<1>4. Top \in TableFrame
  BY <1>1, BelowIs, FrameTypes
<1>5. f \in TableFrame /\ f.kind = "table" /\ f.full = TRUE
  BY <1>4 DEF TableFrame
<1> HIDE DEF f
<1>6. /\ Extends(gs, frames, Top) /\ StackOK(gs) /\ Len(gs) \in Nat
      /\ Cardinality(CountedIn(gs, Len(gs))) <= depth
      /\ gs # <<>> => gs[Len(gs)].kind \in {"list", "arg"}
      /\ Len(snapshots) > 0 /\ snapshots[Len(snapshots)] = Here(gs)
      /\ Aligned(gs, Len(gs), SubSeq(snapshots, 1, Len(snapshots) - 1), leaks)
  BY <1>1, <1>2, BelowCall DEF Fine
<1>7. Len(frames) = Len(gs) + 1
  BY <1>1, BelowIs
<1> HIDE DEF gs
<1>8. Fits(gs, f)
  BY <1>5, <1>6 DEF Fits, Above, Frame
<1>9. /\ Extends(gs, hs, f) /\ StackOK(hs) /\ hs # <<>>
      /\ Len(hs) = Len(gs) + 1 /\ hs[Len(gs) + 1] = f
  BY <1>6, <1>8, GrownExtends
<1> HIDE DEF hs
<1>10. /\ Here(hs).pass = "full" /\ Here(hs).level = Here(frames).level
       /\ Here(hs).start = Here(frames).start /\ Here(hs).loops = Here(frames).loops
       /\ Here(hs).ns = Here(frames).ns /\ Here(hs).data = Here(frames).data
       /\ Here(hs).window = Here(frames).window
  <2>1. /\ Here(hs).pass = "full" /\ Here(hs).level = Here(gs).level + 1
        /\ Here(hs).start = Here(gs).level + 1 /\ Here(hs).loops = 0
        /\ Here(hs).ns = Here(gs).ns + 1 /\ Here(hs).data = Len(hs)
        /\ Here(hs).window = Here(gs).window
    BY <1>5, <1>9, ExtendedContext
  <2>2. /\ Here(frames).level = Here(gs).level + 1
        /\ Here(frames).start = Here(gs).level + 1 /\ Here(frames).loops = 0
        /\ Here(frames).ns = Here(gs).ns + 1 /\ Here(frames).data = Len(frames)
        /\ Here(frames).window = Here(gs).window
    BY <1>1, <1>6, ExtendedContext
  <2> QED BY <1>7, <1>9, <2>1, <2>2
<1>11. /\ e \in EvalState /\ e.window = eval.window /\ e.event = eval.event
       /\ e.pass = "full" /\ e.level = eval.level /\ e.start = eval.start
       /\ e.loops = eval.loops /\ e.ns = eval.ns /\ e.data = eval.data
  BY <1>3 DEF EvalState
<1> HIDE DEF e
<1>12. Here(frames).loops = 0
  BY <1>1, <1>6, ExtendedContext
<1>13. Aligned(hs, Len(hs), snapshots, leaks)
  <2> DEFINE tt == SubSeq(snapshots, 1, Len(snapshots) - 1)
  <2>1. tt \in Seq(EvalState)
    BY <1>3, <1>6
  <2>2. snapshots = Append(tt, Here(gs))
    BY <1>3, <1>6, FrontAndLast
  <2>3. Aligned(gs, Len(gs), tt, leaks)
    BY <1>6
  <2> HIDE DEF tt
  <2>4. Snapshot(hs, Len(hs)) = Here(gs)
    BY <1>3, <1>5, <1>9, ExtendedSnapshots
  <2>5. Aligned(hs, Len(hs), Append(tt, Here(gs)), leaks)
    BY <1>3, <1>5, <1>9, <2>1, <2>3, <2>4, ExtendedSnapshots
  <2> QED BY <2>2, <2>5
<1>14. hs[Len(hs)].kind = "table" /\ Cardinality(CountedIn(hs, Len(hs))) <= depth
  BY <1>5, <1>6, <1>9, ExtendedSets
<1>15. ScopesOK(hs, e) /\ ContextOK(hs, e) /\ e.data = Here(hs).data
  BY <1>1, <1>2, <1>9, <1>10, <1>11, <1>14 DEF Fine, ScopesOK, ContextOK, Top
<1>16. EventOK(hs, e)
  <2>1. LoopsIn(frames, Len(frames)) = {}
    <3>1. Cardinality(LoopsIn(frames, Len(frames))) = 0
      BY <1>12 DEF Here, Context
    <3>2. IsFiniteSet(LoopsIn(frames, Len(frames)))
      <4>1. Len(frames) \in Nat
        BY <1>6, <1>7
      <4> QED BY <4>1, NextLoops
    <3> QED BY <3>1, <3>2, FS_EmptySet
  <2>2. CallsIn(hs, Len(hs)) # {}
    BY <1>9, CallAtBottom
  <2> QED BY <1>2, <1>9, <1>11, <1>14, <2>1, <2>2 DEF Fine, EventOK
<1>17. /\ depth' \in 0..MaxDepth /\ eval' \in EvalState /\ ok' \in BOOLEAN
       /\ Fine(frames', eval', snapshots, leaks, ok', depth')
  BY <1>1, <1>3, <1>9, <1>11, <1>13, <1>14, <1>15, <1>16, ListStarts
<1>18. TypesOK' /\ ~panic'
  BY <1>1, <1>17 DEF EvalInv, TypesOK
<1>19. Fine(frames', eval', snapshots', leaks', ok', depth')
  BY <1>1, <1>17
<1> QED BY <1>18, <1>19, FineNext

\* TableEnds: the snapshot is the context below, or a stray one is detected.
LEMMA StepTableEnds ==
  ASSUME EvalInv, TableEnds, EvalAssumption PROVE EvalInv'
<1> DEFINE gs == Below
           tt == SubSeq(snapshots, 1, Len(snapshots) - 1)
<1>1. frames # <<>> /\ ~panic /\ Top.kind = "table" /\ frames' = gs
      /\ snapshots' = tt /\ panic' = Unrestorable(eval) /\ eval' = Saved
      /\ ok' = (ok \/ Top.tolerant) /\ UNCHANGED <<depth, leaks>>
  BY DEF TableEnds, OnTop, Commit
<1>2. /\ eval \in EvalState /\ snapshots \in Seq(EvalState) /\ leaks \in 0..MaxLeaks
      /\ leaks \in Nat /\ depth \in 0..MaxDepth /\ ok \in BOOLEAN
      /\ ScopesOK(frames, eval)
      /\ Aligned(frames, Len(frames), snapshots, leaks) \/ Stray
  BY <1>1 DEF EvalInv, TypesOK
<1>3. Top \in TableFrame /\ Top.tolerant \in BOOLEAN
  BY <1>1, BelowIs, FrameTypes DEF TableFrame
<1>4. /\ Extends(gs, frames, Top) /\ StackOK(gs) /\ Len(gs) \in Nat
      /\ Cardinality(CountedIn(gs, Len(gs))) <= depth
      /\ Here(frames).level = Here(gs).level + 1 /\ Here(frames).ns = Here(gs).ns + 1
      /\ Here(frames).start = Here(gs).level + 1
      /\ Aligned(frames, Len(frames), snapshots, leaks) =>
           /\ Len(snapshots) > 0 /\ snapshots[Len(snapshots)] = Here(gs)
           /\ Aligned(gs, Len(gs), tt, leaks)
  BY <1>1, BelowCall
<1>5. snapshots # <<>>
  <2>1. Len(<<>>) = 0
    BY EmptySeq
  <2> QED BY <1>2, <1>4, <2>1 DEF Stray
<1>6. Len(snapshots) \in Nat \ {0} /\ Saved \in EvalState /\ tt \in Seq(EvalState)
  <2>1. Len(snapshots) \in Nat \ {0}
    BY <1>2, <1>5, EmptySeq
  <2> QED BY <1>2, <2>1 DEF Saved
<1>7. panic' \in BOOLEAN
  BY <1>1 DEF Unrestorable
<1>8. ok' \in BOOLEAN
  BY <1>1
<1> HIDE DEF tt
<1>9. TypesOK'
  BY <1>1, <1>2, <1>6, <1>7, <1>8 DEF TypesOK
<1>10. CASE Aligned(frames, Len(frames), snapshots, leaks)
  <2>1. Saved = Here(gs)
    BY <1>4, <1>10 DEF Saved
  <2>2. /\ Here(gs) \in EvalState /\ Here(gs).start <= Here(gs).level
        /\ ScopesOK(gs, Here(gs)) /\ ContextOK(gs, Here(gs)) /\ EventOK(gs, Here(gs))
    BY <1>4, HereIs, HereIsFine
  <2>3. Here(gs).level \in Nat /\ Here(gs).start \in Nat /\ Here(gs).ns \in Nat
        /\ eval.ns \in Nat
    BY <1>2, <2>2 DEF EvalState
  <2>4. eval.level = Here(frames).level /\ eval.start = Here(frames).start
        /\ eval.ns >= Here(frames).ns
    BY <1>2 DEF ScopesOK
  <2>5. ~Unrestorable(eval)
    BY <1>4, <2>1, <2>2, <2>3, <2>4 DEF Unrestorable
  <2>6. ~panic'
    BY <1>1, <2>5
  <2>7. Fine(frames', eval', snapshots', leaks', ok', depth')
    BY <1>1, <1>4, <1>10, <2>1, <2>2 DEF Fine
  <2> QED BY <1>9, <2>6, <2>7, FineNext
<1>11. CASE Stray
  <2>1. Saved.level > eval.level /\ leaks > 0
    BY <1>11 DEF Stray, Saved
  <2>2. Unrestorable(eval)
    BY <1>2, <1>6, <2>1 DEF Unrestorable, EvalState
  <2>3. panic' /\ leaks' > 0
    BY <1>1, <2>1, <2>2
  <2> HIDE DEF gs
  <2> QED BY <1>1, <1>4, <1>9, <2>3 DEF EvalInv
<1> QED BY <1>2, <1>10, <1>11

\* MethodReturns: likewise, and the method's own scope is popped.
LEMMA StepMethodReturns ==
  ASSUME EvalInv, MethodReturns, EvalAssumption PROVE EvalInv'
<1> DEFINE gs == Below
           tt == SubSeq(snapshots, 1, Len(snapshots) - 1)
           popped == [eval EXCEPT !.ns = IF @ = 0 THEN 0 ELSE @ - 1]
           misplaced == Saved.event \notin {"none", "return"}
           v == IF misplaced THEN Saved.event ELSE Top.event
           l == IF Saved.level > Saved.start THEN Saved.level - 1 ELSE Saved.level
<1>1. frames # <<>> /\ ~panic /\ Top.kind = "method" /\ frames' = gs
      /\ snapshots' = tt
      /\ panic' = (Unrestorable(popped) \/ Saved.level # Top.level)
      /\ UNCHANGED <<depth, leaks>>
  BY DEF MethodReturns, OnTop
<1>2. ok' = (ok /\ eval.ns > 0 /\ ~misplaced /\ Saved.level > Saved.start)
  BY DEF MethodReturns
<1>3. eval' = [Saved EXCEPT !.event = v, !.level = l]
  BY DEF MethodReturns
<1>4. /\ eval \in EvalState /\ snapshots \in Seq(EvalState) /\ leaks \in 0..MaxLeaks
      /\ leaks \in Nat /\ depth \in 0..MaxDepth /\ ok \in BOOLEAN
      /\ ScopesOK(frames, eval)
      /\ Aligned(frames, Len(frames), snapshots, leaks) \/ Stray
  BY <1>1 DEF EvalInv, TypesOK
<1>5. Top \in MethodFrame /\ Top.event = "none"
  BY <1>1, BelowIs, FrameTypes DEF MethodFrame
<1>6. Top.level = Here(frames).level
  <2>1. StackOK(frames)
    BY DEF EvalInv
  <2>2. Len(frames) \in 1..Len(frames)
    BY <1>1, <2>1, StackLen
  <2> QED BY <1>1, <2>1, <2>2 DEF StackOK, Top, Here
<1>7. /\ Extends(gs, frames, Top) /\ StackOK(gs) /\ Len(gs) \in Nat
      /\ Cardinality(CountedIn(gs, Len(gs))) <= depth
      /\ Here(frames).level = Here(gs).level + 1 /\ Here(frames).ns = Here(gs).ns + 1
      /\ Here(frames).start = Here(gs).start
      /\ Aligned(frames, Len(frames), snapshots, leaks) =>
           /\ Len(snapshots) > 0
           /\ snapshots[Len(snapshots)] = [Here(gs) EXCEPT !.level = @ + 1]
           /\ Aligned(gs, Len(gs), tt, leaks)
  BY <1>1, BelowCall
<1>8. snapshots # <<>>
  <2>1. Len(<<>>) = 0
    BY EmptySeq
  <2> QED BY <1>4, <1>7, <2>1 DEF Stray
<1>9. Len(snapshots) \in Nat \ {0} /\ Saved \in EvalState /\ tt \in Seq(EvalState)
  <2>1. Len(snapshots) \in Nat \ {0}
    BY <1>4, <1>8, EmptySeq
  <2> QED BY <1>4, <2>1 DEF Saved
<1>10. l \in Nat /\ v \in Events
  BY <1>5, <1>9 DEF EvalState, Events
<1>11. popped.level = eval.level /\ popped.start = eval.start
       /\ popped.ns = IF eval.ns = 0 THEN 0 ELSE eval.ns - 1
  BY <1>4 DEF EvalState
<1> HIDE DEF popped
<1>12. /\ eval' \in EvalState /\ eval'.event = v /\ eval'.level = l
       /\ eval'.pass = Saved.pass /\ eval'.start = Saved.start
       /\ eval'.loops = Saved.loops /\ eval'.ns = Saved.ns
       /\ eval'.data = Saved.data /\ eval'.window = Saved.window
  <2> HIDE DEF l, v
  <2> QED BY <1>3, <1>9, <1>10 DEF EvalState
<1>13. panic' \in BOOLEAN
  BY <1>1 DEF Unrestorable
<1>14. ok' \in BOOLEAN
  BY <1>2
<1> HIDE DEF tt
<1>15. TypesOK'
  BY <1>1, <1>4, <1>9, <1>12, <1>13, <1>14 DEF TypesOK
<1>16. CASE Aligned(frames, Len(frames), snapshots, leaks)
  <2>1. /\ Here(gs) \in EvalState /\ Here(gs).start <= Here(gs).level
        /\ Here(gs).event = "none" /\ Here(gs).level \in Nat /\ Here(gs).start \in Nat
        /\ Here(gs).ns \in Nat
    BY <1>7, HereIs DEF EvalState
  <2>2. /\ Saved.level = Here(gs).level + 1 /\ Saved.start = Here(gs).start
        /\ Saved.pass = Here(gs).pass /\ Saved.loops = Here(gs).loops
        /\ Saved.event = Here(gs).event /\ Saved.ns = Here(gs).ns
        /\ Saved.data = Here(gs).data /\ Saved.window = Here(gs).window
    <3>1. Saved = [Here(gs) EXCEPT !.level = @ + 1]
      BY <1>7, <1>16 DEF Saved
    <3> HIDE DEF gs
    <3> QED BY <2>1, <3>1 DEF EvalState
  <2>3. l = Here(gs).level /\ v = "none"
    BY <1>5, <2>1, <2>2
  <2> HIDE DEF l, v
  <2>4. eval' = Here(gs)
    <3> HIDE DEF gs
    <3> QED BY <1>12, <2>1, <2>2, <2>3 DEF EvalState
  <2>5. eval.level = Here(frames).level /\ eval.start = Here(frames).start
        /\ eval.ns >= Here(frames).ns /\ eval.ns \in Nat
    BY <1>4 DEF ScopesOK, EvalState
  <2>6. popped.ns >= Here(gs).ns
    BY <1>7, <1>11, <2>1, <2>5
  <2>7. ~Unrestorable(popped) /\ Saved.level = Top.level
    <3>1. popped.level = Saved.level /\ Saved.level = Top.level
      BY <1>6, <1>7, <1>11, <2>2, <2>5
    <3>2. popped.start = Saved.start
      BY <1>7, <1>11, <2>2, <2>5
    <3>3. popped.ns >= Saved.ns
      BY <2>2, <2>6
    <3>4. Saved.level \in Nat /\ Saved.start \in Nat /\ Saved.ns \in Nat
      BY <1>9 DEF EvalState
    <3>5. popped.ns \in Nat
      BY <1>11, <2>5
    <3> HIDE DEF gs
    <3> QED BY <3>1, <3>2, <3>3, <3>4, <3>5 DEF Unrestorable
  <2>8. ~panic'
    BY <1>1, <2>7
  <2>9. ScopesOK(gs, Here(gs)) /\ ContextOK(gs, Here(gs)) /\ EventOK(gs, Here(gs))
    BY <1>7, HereIsFine
  <2>10. Fine(frames', eval', snapshots', leaks', ok', depth')
    BY <1>1, <1>7, <1>16, <2>4, <2>9 DEF Fine
  <2> QED BY <1>15, <2>8, <2>10, FineNext
<1>17. CASE Stray
  <2>1. Saved.level > eval.level /\ leaks > 0
    BY <1>17 DEF Stray, Saved
  <2>2. Saved.level # Top.level
    <3>1. eval.level = Top.level
      BY <1>4, <1>6 DEF ScopesOK
    <3>2. eval.level \in Nat /\ Saved.level \in Nat
      BY <1>4, <1>9 DEF EvalState
    <3> QED BY <2>1, <3>1, <3>2
  <2>3. panic' /\ leaks' > 0
    BY <1>1, <2>1, <2>2
  <2> HIDE DEF gs
  <2> QED BY <1>1, <1>7, <1>15, <2>3 DEF EvalInv
<1> QED BY <1>4, <1>16, <1>17

-----------------------------------------------------------------------------
(* The theorems. *)

\* The invariant holds at first.
LEMMA EvalInit == EvalAssumption /\ Init => EvalInv
<1> SUFFICES ASSUME EvalAssumption, Init PROVE EvalInv
  OBVIOUS
<1> DEFINE c == [pass |-> "full", level |-> 1, start |-> 0, loops |-> 0,
                 event |-> "none", ns |-> 0, data |-> 0, window |-> 0]
<1>1. frames = <<>> /\ Len(frames) = 0 /\ eval = c /\ ok = TRUE /\ depth = 0
      /\ panic = FALSE /\ leaks = 0 /\ snapshots = <<[eval EXCEPT !.level = 0]>>
  BY DEF Init
<1>2. c \in EvalState /\ [c EXCEPT !.level = 0] \in EvalState
  BY DEF EvalState, Events
<1>3. Here(frames) = c
  BY <1>1, ContextIs DEF Here
<1>4. 1..0 = {}
  OBVIOUS
<1>5. CallsIn(frames, 0) = {} /\ CountedIn(frames, 0) = {}
  BY <1>4 DEF CallsIn, CountedIn, KindsIn
<1>6. TypesOK
  <2>1. snapshots \in Seq(EvalState)
    BY <1>1, <1>2
  <2>2. depth \in 0..MaxDepth /\ leaks \in 0..MaxLeaks
    BY <1>1 DEF EvalAssumption
  <2>3. eval \in EvalState
    BY <1>1, <1>2
  <2> QED BY <1>1, <2>1, <2>2, <2>3 DEF TypesOK
<1>7. StackOK(frames)
  <2>1. frames \in Seq(Frame)
    BY <1>1
  <2> QED BY <1>1, <1>4, <2>1 DEF StackOK
<1>8. ScopesOK(frames, eval) /\ ContextOK(frames, eval) /\ EventOK(frames, eval)
  BY <1>1, <1>3, HereIsFine
<1>9. Aligned(frames, Len(frames), snapshots, leaks)
  <2>1. Len(snapshots) = 1 /\ Context(frames, Len(frames)).level = 1
    BY <1>1, <1>3 DEF Here
  <2> QED BY <1>1, <1>5, <2>1 DEF Aligned
<1>10. Cardinality(CountedIn(frames, Len(frames))) <= depth
  <2>1. Cardinality({}) = 0
    BY FS_EmptySet
  <2>2. CountedIn(frames, Len(frames)) = {}
    <3>1. Len(frames) = 0
      BY <1>1
    <3> QED BY <1>5, <3>1
  <2>3. Cardinality(CountedIn(frames, Len(frames))) = 0
    BY <2>1, <2>2
  <2> QED BY <1>1, <2>3
<1> QED BY <1>1, <1>6, <1>7, <1>8, <1>9, <1>10 DEF EvalInv

\* Every step preserves it.
LEMMA EvalStep == EvalAssumption /\ EvalInv /\ [Next]_vars => EvalInv'
<1> SUFFICES ASSUME EvalAssumption, EvalInv, [Next]_vars PROVE EvalInv'
  OBVIOUS
<1>1. CASE HostEnters
  BY <1>1, StepHostEnters
<1>2. CASE Plain \/ TermFails \/ ListEnds \/ ListFails \/ If \/ Operand \/ ArgEnds
  BY <1>2, StepPlain, StepTermFails, StepListEnds, StepListFails, StepIf, StepOperand,
     StepArgEnds
<1>3. CASE Interrupt("break") \/ Interrupt("continue") \/ Return
  BY <1>3, StepInterrupt, StepReturn
<1>4. CASE While \/ Iterate \/ LoopEnds \/ IterationEnds
  BY <1>4, StepWhile, StepIterate, StepLoopEnds, StepIterationEnds
<1>5. CASE Scope \/ ScopeEnds
  BY <1>5, StepScope, StepScopeEnds
<1>6. CASE Call \/ MethodReturns \/ Load \/ FullPass \/ TableEnds
  BY <1>6, StepCall, StepMethodReturns, StepLoad, StepFullPass, StepTableEnds
<1>7. CASE UNCHANGED vars
  <2>1. UNCHANGED <<frames, ok, eval, snapshots, depth, panic, leaks>>
    BY <1>7 DEF vars
  <2> QED BY <2>1 DEF EvalInv, TypesOK, Stray
<1> QED BY <1>1, <1>2, <1>3, <1>4, <1>5, <1>6, <1>7 DEF Next, Step

\* The invariant holds of every execution.
THEOREM EvalControlIsSound == Spec => []EvalInv
<1>1. EvalInv /\ [Next]_vars => EvalInv'
  BY EvalStep, EvalAssumption
<1>2. Init => EvalInv
  BY EvalInit, EvalAssumption
<1> QED BY <1>1, <1>2, PTL DEF Spec

\* The sets of frames that the module speaks of are those of the invariant.
LEMMA FramesNow ==
  ASSUME EvalInv
  PROVE  /\ Len(frames) \in Nat /\ DOMAIN frames = 1..Len(frames)
         /\ \A kind : Frames(kind) = KindsIn(frames, Len(frames), {kind})
         /\ Calls = CallsIn(frames, Len(frames))
         /\ LastTable = TableIn(frames, Len(frames))
         /\ Loops = LoopsIn(frames, Len(frames))
         /\ Calls \cup Frames("scope") = ScopesIn(frames, Len(frames))
         /\ Frames("list") \cup Frames("arg") = CountedIn(frames, Len(frames))
         /\ Frames("list") = ListsIn(frames, Len(frames))
<1>1. frames \in Seq(Frame) /\ Len(frames) \in Nat
  BY StackLen DEF EvalInv
<1>2. DOMAIN frames = 1..Len(frames)
  BY <1>1
<1>3. ASSUME NEW kind PROVE Frames(kind) = KindsIn(frames, Len(frames), {kind})
  BY <1>2 DEF Frames, KindsIn
<1>4. Calls = CallsIn(frames, Len(frames))
  BY <1>2 DEF Calls, Frames, CallsIn, KindsIn
<1>5. LastTable = TableIn(frames, Len(frames))
  BY <1>3 DEF LastTable, TableIn, TablesIn
<1>6. Loops = LoopsIn(frames, Len(frames))
  BY <1>3, <1>5 DEF Loops, LoopsIn
<1>7. /\ Calls \cup Frames("scope") = ScopesIn(frames, Len(frames))
      /\ Frames("list") \cup Frames("arg") = CountedIn(frames, Len(frames))
      /\ Frames("list") = ListsIn(frames, Len(frames))
  BY <1>2 DEF Calls, Frames, ScopesIn, CountedIn, ListsIn, KindsIn
<1> QED BY <1>1, <1>2, <1>3, <1>4, <1>5, <1>6, <1>7

\* No snapshot finds its scopes popped, at any recursion limit and in any nesting.
THEOREM SnapshotsAlwaysHold == Spec => []SnapshotsHoldScopes
<1>1. EvalInv => SnapshotsHoldScopes
  <2> SUFFICES ASSUME EvalInv, leaks = 0 PROVE ~panic
    BY DEF SnapshotsHoldScopes
  <2> QED BY DEF EvalInv
<1> QED BY <1>1, EvalControlIsSound, PTL

\* The limit of the recursion depth bounds the C stack, after errors too.
THEOREM DepthAlwaysCovers == Spec => []DepthCoversStack
<1>1. EvalInv => DepthCoversStack
  BY FramesNow DEF EvalInv, DepthCoversStack
<1> QED BY <1>1, EvalControlIsSound, PTL

\* Nothing of a call of the host is left in the state for the next one.
THEOREM IdleIsAlwaysClean == Spec => []IdleIsClean
<1>1. EvalInv => IdleIsClean
  <2> SUFFICES ASSUME EvalInv, frames = <<>>, leaks = 0, ~panic
               PROVE  /\ eval = [pass |-> "full", level |-> 1, start |-> 0, loops |-> 0,
                                 event |-> "none", ns |-> 0, data |-> 0, window |-> 0]
                      /\ Len(snapshots) = 1
    BY DEF IdleIsClean
  <2>1. ScopesOK(frames, eval) /\ Aligned(frames, Len(frames), snapshots, leaks)
    BY DEF EvalInv, Stray
  <2>2. eval = Context(frames, 0) /\ Len(frames) = 0
    BY <2>1 DEF ScopesOK, Here
  <2>3. eval = [pass |-> "full", level |-> 1, start |-> 0, loops |-> 0,
                event |-> "none", ns |-> 0, data |-> 0, window |-> 0]
    BY <2>2, ContextIs
  <2>4. Context(frames, Len(frames)).level = 1
    BY <2>2, <2>3
  <2> QED BY <2>1, <2>3, <2>4 DEF Aligned
<1> QED BY <1>1, EvalControlIsSound, PTL

\* What the evaluator shares between its levels is what the C stack says.
THEOREM StateAlwaysMatches == Spec => []StateMatchesFrames
<1>1. EvalInv => TypeOK
  <2> SUFFICES ASSUME EvalInv PROVE TypeOK
    OBVIOUS
  <2>1. frames \in Seq(Frame) /\ snapshots \in Seq(EvalState)
    BY DEF EvalInv, StackOK, TypesOK
  <2>2. \A i \in DOMAIN frames : frames[i] \in Frame
    BY <2>1
  <2>3. \A i \in DOMAIN snapshots : snapshots[i] \in EvalState
    BY <2>1
  <2> QED BY <2>2, <2>3, FrameKinds DEF EvalInv, TypesOK, TypeOK
<1>2. EvalInv /\ panic => ScopesMatchFrames /\ ContextMatchesFrames /\ InterruptionsAreTaken
  BY DEF EvalInv, ScopesMatchFrames, ContextMatchesFrames, InterruptionsAreTaken
<1>3. ASSUME EvalInv, ~panic, leaks = 0
      PROVE  ScopesMatchFrames /\ ContextMatchesFrames /\ InterruptionsAreTaken
  <2> DEFINE n == Len(frames)
  <2>1. /\ ScopesOK(frames, eval) /\ Aligned(frames, n, snapshots, leaks)
        /\ ok => ContextOK(frames, eval) /\ EventOK(frames, eval)
    BY <1>3 DEF EvalInv, Stray
  <2>2. /\ Calls = CallsIn(frames, n) /\ LastTable = TableIn(frames, n)
        /\ Loops = LoopsIn(frames, n) /\ Frames("list") = ListsIn(frames, n)
        /\ Calls \cup Frames("scope") = ScopesIn(frames, n)
    BY <1>3, FramesNow
  <2>3. /\ Here(frames).pass = IF LastTable = 0 \/ frames[LastTable].full THEN "full"
                               ELSE "namespace"
        /\ Here(frames).level = 1 + Cardinality(Calls)
        /\ Here(frames).start =
             IF LastTable = 0 THEN 0
             ELSE 1 + Cardinality({i \in Calls : i <= LastTable})
        /\ Here(frames).loops = Cardinality(Loops)
        /\ Here(frames).ns = Cardinality(Calls \cup Frames("scope"))
        /\ Here(frames).data = Innermost(Calls)
        /\ Here(frames).window = Innermost(Frames("list"))
    BY <2>2 DEF Here, Context, OuterCallsIn
  <2>4. ScopesMatchFrames
    <3>1. Len(snapshots) = leaks + Here(frames).level
      BY <2>1 DEF Aligned, Here
    <3>2. Here(frames).level \in Nat
      BY <1>3, FramesNow, HereIs DEF EvalState
    <3>3. Len(snapshots) = Here(frames).level
      BY <1>3, <3>1, <3>2
    <3> QED BY <2>1, <2>3, <3>3 DEF ScopesMatchFrames, ScopesOK
  <2>5. ContextMatchesFrames
    BY <2>1, <2>3 DEF ContextMatchesFrames, ContextOK, Top
  <2>6. InterruptionsAreTaken
    BY <2>1, <2>2 DEF InterruptionsAreTaken, EventOK, Top
  <2> QED BY <2>4, <2>5, <2>6
<1>4. EvalInv /\ leaks # 0
        => ScopesMatchFrames /\ ContextMatchesFrames /\ InterruptionsAreTaken
  BY DEF ScopesMatchFrames, ContextMatchesFrames, InterruptionsAreTaken
<1>5. EvalInv => StateMatchesFrames
  BY <1>1, <1>2, <1>3, <1>4 DEF StateMatchesFrames, EvalInv
<1> QED BY <1>5, EvalControlIsSound, PTL

=============================================================================
