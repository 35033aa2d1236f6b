------------------------------- MODULE Objects -------------------------------
(***************************************************************************)
(* Reference counting. A cell is an object, a buffer (a string is one, too) *)
(* or a package on the heap. A store holds the cells, what the nodes of the *)
(* namespace point to, and the resources of the host (mutexes, events,      *)
(* mapped regions) that the cells stand for. There are no variables here:   *)
(* an operator maps a store to the store after the call.                    *)
(***************************************************************************)
EXTENDS Integers, FiniteSets, SequencesExt

CONSTANTS Cells,  \* addresses on the heap
          Names,  \* the absolute paths of namespace nodes
          Nil     \* the object of a node without one; it is not counted

ASSUME CellsAssumption == IsFiniteSet(Cells) /\ Nil \notin Cells \cup Names

Fields == {"field", "bank", "index", "bufferfield"}  \* AmlObjectIsFieldUnit
OnHost == {"mutex", "event", "region"}

NoNode == [in |-> FALSE, object |-> Nil, pre |-> FALSE]
EmptyStore == [cells |-> [c \in {} |-> <<>>], nodes |-> [n \in Names |-> NoNode],
               opened |-> 0, misfreed |-> FALSE, dangled |-> FALSE, lost |-> FALSE]

Live(s) == DOMAIN s.cells
HasRoom(s, n) == Cardinality(Cells \ Live(s)) >= n
Fresh(s) == CHOOSE c \in Cells : c \notin Live(s)
TypeOf(s, c) == IF c \in Live(s) THEN s.cells[c].type ELSE "nil"
OfType(s, types) == {c \in Live(s) : s.cells[c].type \in types}
RefsOf(s, c) == IF c \in Live(s) THEN s.cells[c].refs ELSE <<>>

\* A new cell with one reference; the references it holds were counted before.
Create(s, type, refs) ==
  [s EXCEPT !.cells = [c \in Live(s) \cup {Fresh(s)} |->
     IF c \in Live(s) THEN s.cells[c]
     ELSE [type |-> type, count |-> 1, refs |-> refs, node |-> Nil, open |-> FALSE]]]

Reference(s, c) ==
  IF c = Nil THEN s
  ELSE IF c \notin Live(s) THEN [s EXCEPT !.dangled = TRUE]
  ELSE [s EXCEPT !.cells[c].count = @ + 1]

ReferenceAll(s, refs) == FoldLeft(Reference, s, refs)

NewBuffer(s) == Create(s, "buffer", <<>>)

\* A copy of data shares what the data refers to.
Duplicate(s, c) == Reference(s, c)

\* A package whose only element refers to c.
NewPackage(s, c) == Create(Duplicate(s, c), "package", <<c>>)

\* The resource of the host that a mutex, an event or a region stands for.
Open(s, c) == [s EXCEPT !.cells[c].open = TRUE, !.opened = @ + 1]

\* Mutant: a mapped region stays mapped.
Close_Mutexes(s, c) ==
  IF s.cells[c].type \notin {"mutex", "event"} THEN s
  ELSE IF s.cells[c].open THEN [s EXCEPT !.opened = @ - 1]
  ELSE [s EXCEPT !.misfreed = TRUE]

\* A mutex or an event that has none yet is given back all the same.
Close(s, c) ==
  IF s.cells[c].type \notin OnHost THEN s
  ELSE IF s.cells[c].open THEN [s EXCEPT !.opened = @ - 1]
  ELSE IF s.cells[c].type = "region" THEN s
  ELSE [s EXCEPT !.misfreed = TRUE]

\* AmlObjectFree, AmlBufferDataRelease and AmlPackageDataRelease, for a cell
\* without references: it is taken from its node. What it held is released
\* next, except for the strings of a data region, which are lost.
Freed(s, c) ==
  LET n == s.cells[c].node
      closed == Close(s, c)
  IN [closed EXCEPT !.cells = [d \in Live(s) \ {c} |-> s.cells[d]],
                    !.nodes = IF n = Nil THEN @ ELSE [@ EXCEPT ![n].object = Nil],
                    !.lost = @ \/ s.cells[c].type = "dataregion"]

\* Mutant: only the first of several references is released.
Held_FirstOnly(s, c) ==
  LET refs == IF s.cells[c].type = "dataregion" THEN <<>> ELSE s.cells[c].refs
  IN IF Len(refs) > 1 THEN <<refs[1]>> ELSE refs

Held(s, c) == IF s.cells[c].type = "dataregion" THEN <<>> ELSE s.cells[c].refs

ReleaseStep(acc) ==
  LET c == Head(acc.todo)
      rest == Tail(acc.todo)
  IN IF c = Nil THEN [acc EXCEPT !.todo = rest]
     ELSE IF c \notin Live(acc.s) THEN [s |-> [acc.s EXCEPT !.dangled = TRUE], todo |-> rest]
     ELSE IF acc.s.cells[c].count > 1
     THEN [s |-> [acc.s EXCEPT !.cells[c].count = @ - 1], todo |-> rest]
     ELSE [s |-> Freed(acc.s, c), todo |-> Held(acc.s, c) \o rest]

ReleaseOnce(acc, i) == IF acc.todo = <<>> THEN acc ELSE ReleaseStep(acc)

\* AmlObjectRelease and the releases that follow from it, which are no more
\* than there are references.
AllRefs(s) == SumFunction([c \in Cells |-> Len(RefsOf(s, c))])
ReleaseAll(s, refs) ==
  FoldLeft(ReleaseOnce, [s |-> s, todo |-> refs],
           [i \in 1..(AllRefs(s) + Len(refs)) |-> i]).s

Release(s, c) == ReleaseAll(s, <<c>>)
=============================================================================
