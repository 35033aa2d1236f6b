----------------------------- MODULE NamedObjects -----------------------------
(***************************************************************************)
(* The declarations of the byte code: what each one allocates, references, *)
(* links and gives back, wherever it may fail; the two passes over a table, *)
(* of which the second finds what the first declared; and the release of   *)
(* the nodes of a method call while the evaluator still refers to what     *)
(* they named.                                                             *)
(*                                                                         *)
(* A failed declaration ends the evaluation up to the host, which may go   *)
(* on with other byte code. Any allocation may fail, and the one of a node  *)
(* must if its path exists; byte code that fails to decode is a failure    *)
(* before or between these steps. A failure that changes nothing is left   *)
(* out, and one that leaves something behind is recorded.                  *)
(***************************************************************************)
EXTENDS Objects

CONSTANT MaxHeld  \* bound: references that the evaluator holds elsewhere

VARIABLES
  store,   \* see Objects
  pass,    \* AML_PASS_TYPE of the table that is loaded
  fields,  \* the field list that is evaluated, NoFields between
  held,    \* objects that locals, arguments and results refer to
  failed   \* history: a failed declaration has left something behind

vars == <<store, pass, fields, held, failed>>

NoFields == [kind |-> "none", refs |-> <<>>, conn |-> Nil]
Idle == fields = NoFields

Node(n) == store.nodes[n]
ObjectOf(n) == Node(n).object
IsNamed(n, types) == Node(n).in /\ TypeOf(store, ObjectOf(n)) \in types

\* AmlNamespaceCreateNode and the two assignments that tie node and object.
NewNode(s, n) == [s EXCEPT !.nodes[n] = [in |-> TRUE, object |-> Nil, pre |-> FALSE]]
Link(s, n, c) == [s EXCEPT !.nodes[n].object = c, !.cells[c].node = n]
PreParsed(s, n) == [s EXCEPT !.nodes[n].pre = pass = "namespace"]

Done(s) == store' = s /\ UNCHANGED <<pass, fields, held, failed>>
\* Bound: one failure that leaves something behind.
Fail(s) == ~failed /\ store' = s /\ failed' = TRUE /\ UNCHANGED <<pass, fields, held>>

-----------------------------------------------------------------------------
(* Declarations. *)

\* The object is released if there is no node for it.
ObjectThenNode(s, n, c) ==
  \/ Done(Release(s, c))
  \/ ~Node(n).in /\ Done(Link(NewNode(s, n), n, c))

\* Data in the byte code: an integer, a buffer, a package whose only element is
\* a name that stands for a reference or for a buffer. A package that fails
\* is freed without its elements.
Values(s) ==
  {[s |-> s, c |-> Nil]}
    \cup {[s |-> NewBuffer(s), c |-> Fresh(s)]}
    \cup {[s |-> NewPackage(s, c), c |-> Fresh(s)] :
            c \in OfType(s, {"buffer", "device", "mutex", "method"})}

LostElement(s) == {Duplicate(s, c) : c \in OfType(s, {"buffer", "device", "mutex", "method"})}

\* AmlEvalName: nothing is released on failure.
DeclareName(n) ==
  /\ Idle /\ pass = "full" /\ HasRoom(store, 2)
  /\ \/ \E s \in {store} \cup LostElement(store) : Fail(Create(s, "name", <<>>))
     \/ \E v \in Values(store) :
          LET made == Create(v.s, "name", <<v.c>>)
          IN \/ Fail(made)
             \/ ~Node(n).in /\ Done(Link(NewNode(made, n), n, Fresh(v.s)))

\* AmlEvalCreateBufferField: the buffer is lost if what follows it fails.
DeclareBufferField(n) ==
  /\ Idle /\ pass = "full" /\ HasRoom(store, 2)
  /\ \E b \in {[s |-> NewBuffer(store), c |-> Fresh(store)]}
              \cup {[s |-> Duplicate(store, c), c |-> c] : c \in OfType(store, {"buffer"})} :
       \/ Fail(b.s)
       \/ ObjectThenNode(Create(b.s, "bufferfield", <<b.c>>), n, Fresh(b.s))

\* What the namespace pass has declared is taken for this declaration.
Reusable(n, type) == Node(n).pre /\ IsNamed(n, {type})

\* AmlEvalDevice and its like: the node first; it stays if the object fails.
DeclareBody(n, type) ==
  /\ Idle /\ HasRoom(store, 1)
  /\ \/ Reusable(n, type) /\ Done(store)
     \/ /\ ~Reusable(n, type) /\ ~Node(n).in
        /\ LET s == NewNode(store, n)
           IN \/ Fail(s)
              \/ Done(PreParsed(Link(Create(s, type, <<>>), n, Fresh(s)), n))

DeclareDevice(n) == DeclareBody(n, "device")
DeclareProcessor(n) == DeclareBody(n, "processor")
DeclarePowerRes(n) == DeclareBody(n, "powerres")
DeclareThermalZone(n) == DeclareBody(n, "thermalzone")

\* AmlEvalAlias: only the full pass takes over what was declared.
DeclareAlias(n) ==
  /\ Idle /\ HasRoom(store, 1)
  /\ \/ pass = "full" /\ Reusable(n, "alias") /\ Done(store)
     \/ /\ ~Node(n).in
        /\ LET s == NewNode(store, n)
           IN \/ Fail(s)
              \/ Done(PreParsed(Link(Create(s, "alias", <<>>), n, Fresh(s)), n))

\* Mutant: a method may be declared over what its path names.
DeclareMethod_Again(n) ==
  /\ Idle /\ HasRoom(store, 1)
  /\ LET s == Create(store, "method", <<>>)
     IN Done(PreParsed(Link(NewNode(s, n), n, Fresh(store)), n))

\* AmlEvalMethod: the object first.
DeclareMethod(n) ==
  /\ Idle /\ HasRoom(store, 1)
  /\ \/ Reusable(n, "method") /\ Done(store)
     \/ /\ ~Reusable(n, "method")
        /\ LET s == Create(store, "method", <<>>)
           IN \/ Done(Release(s, Fresh(store)))
              \/ /\ ~Node(n).in
                 /\ Done(PreParsed(Link(NewNode(s, n), n, Fresh(store)), n))

\* AmlEvalOpRegion: the node first. The region is mapped when it is accessed.
DeclareRegion(n) ==
  /\ Idle /\ pass = "full" /\ HasRoom(store, 1) /\ ~Node(n).in
  /\ LET s == NewNode(store, n)
     IN Fail(s) \/ Done(Link(Create(s, "region", <<>>), n, Fresh(s)))

MapRegion(c) ==
  /\ Idle /\ c \in OfType(store, {"region"}) /\ ~store.cells[c].open
  /\ Done(Open(store, c))

\* The Mutex and Event cases: object, node, host. The object is released when
\* one of the others fails, which gives the host back what it never gave.
DeclareOnHost(n, type) ==
  /\ Idle /\ pass = "full" /\ HasRoom(store, 1)
  /\ LET c == Fresh(store)
         s == Create(store, type, <<>>)
     IN \/ Fail(Release(s, c))
        \/ ~Node(n).in /\ Fail(Release(NewNode(s, n), c))
        \/ ~Node(n).in /\ Done(Link(Open(NewNode(s, n), c), n, c))

DeclareMutex(n) == DeclareOnHost(n, "mutex")
DeclareEvent(n) == DeclareOnHost(n, "event")

\* The DataRegion case, with one string for the three: the object holds it.
DeclareDataRegion(n) ==
  /\ Idle /\ pass = "full" /\ HasRoom(store, 2)
  /\ LET s == NewBuffer(store)
         made == Create(s, "dataregion", <<Fresh(store)>>)
     IN ObjectThenNode(made, n, Fresh(s))

-----------------------------------------------------------------------------
(* Field lists. *)

\* The objects that every field of the list will refer to.
BeginFields(kind, refs) ==
  /\ Idle /\ pass = "full"
  /\ fields' = [kind |-> kind, refs |-> refs, conn |-> Nil]
  /\ UNCHANGED <<store, pass, held, failed>>

FieldList(n) == IsNamed(n, {"region"}) /\ BeginFields("field", <<ObjectOf(n)>>)
BankFieldList(n, b) ==
  /\ IsNamed(n, {"region"}) /\ IsNamed(b, Fields)
  /\ BeginFields("bank", <<ObjectOf(n), ObjectOf(b)>>)
IndexFieldList(i, d) ==
  /\ IsNamed(i, Fields) /\ IsNamed(d, Fields)
  /\ BeginFields("index", <<ObjectOf(i), ObjectOf(d)>>)

\* A list that fails: the connection is not released.
ListFails(s) ==
  /\ fields.conn # Nil => ~failed
  /\ store' = s /\ fields' = NoFields
  /\ failed' = (failed \/ fields.conn # Nil)
  /\ UNCHANGED <<pass, held>>

\* A connection replaces the one before it: a buffer of its own, or one that
\* has a name.
Connection ==
  /\ ~Idle
  /\ \/ \E c \in OfType(store, {"buffer"}) :
          /\ store' = Release(Duplicate(store, c), fields.conn)
          /\ fields' = [fields EXCEPT !.conn = c]
     \/ /\ HasRoom(store, 1)
        /\ store' = Release(NewBuffer(store), fields.conn)
        /\ fields' = [fields EXCEPT !.conn = Fresh(store)]
  /\ UNCHANGED <<pass, held, failed>>

\* Mutant: the objects that the element refers to are not counted.
NamedElement_Uncounted(n) ==
  /\ ~Idle /\ HasRoom(store, 1) /\ ~Node(n).in
  /\ LET s == Create(store, fields.kind, fields.refs \o <<fields.conn>>)
     IN store' = Link(NewNode(s, n), n, Fresh(store))
  /\ UNCHANGED <<pass, fields, held, failed>>

\* A named element: the object and its references, then the node.
NamedElement(n) ==
  /\ ~Idle /\ HasRoom(store, 1)
  /\ LET refs == fields.refs \o <<fields.conn>>
         s == ReferenceAll(Create(store, fields.kind, refs), refs)
         c == Fresh(store)
     IN \/ ListFails(Release(s, c))
        \/ /\ ~Node(n).in
           /\ store' = Link(NewNode(s, n), n, c)
           /\ UNCHANGED <<pass, fields, held, failed>>

BrokenElement == ~Idle /\ ListFails(store)

EndFields ==
  /\ ~Idle
  /\ store' = Release(store, fields.conn)
  /\ fields' = NoFields
  /\ UNCHANGED <<pass, held, failed>>

-----------------------------------------------------------------------------
(* The rest of the evaluator. *)

\* AmlResolveSimpleName, and the end of what it was for.
Resolve(n) ==
  /\ Idle /\ Node(n).in /\ ObjectOf(n) \notin held \cup {Nil} /\ Cardinality(held) < MaxHeld
  /\ store' = Reference(store, ObjectOf(n))
  /\ held' = held \cup {ObjectOf(n)}
  /\ UNCHANGED <<pass, fields, failed>>

Drop(c) ==
  /\ Idle /\ c \in held
  /\ store' = Release(store, c)
  /\ held' = held \ {c}
  /\ UNCHANGED <<pass, fields, failed>>

\* AmlNamespaceReleaseNode, for the nodes of a call that is over: the object
\* is cut off from the node before it is released.
ReleaseNode(n) ==
  /\ Idle /\ pass = "full" /\ Node(n).in /\ ~Node(n).pre
  /\ LET c == ObjectOf(n)
         cut == IF c = Nil THEN store ELSE [store EXCEPT !.cells[c].node = Nil]
     IN Done([Release(cut, c) EXCEPT !.nodes[n] = NoNode])

\* AmlEvalLoadedTableCodeInternal: the namespace pass, then the full pass.
NextPass ==
  /\ Idle
  /\ pass' = IF pass = "full" THEN "namespace" ELSE "full"
  /\ UNCHANGED <<store, fields, held, failed>>

Init ==
  /\ store = EmptyStore /\ pass = "namespace" /\ fields = NoFields
  /\ held = {} /\ failed = FALSE

Next ==
  \/ \E n \in Names :
       \/ DeclareName(n) \/ DeclareBufferField(n) \/ DeclareDevice(n)
       \/ DeclareProcessor(n) \/ DeclarePowerRes(n) \/ DeclareThermalZone(n)
       \/ DeclareAlias(n) \/ DeclareMethod(n) \/ DeclareRegion(n)
       \/ DeclareMutex(n) \/ DeclareEvent(n) \/ DeclareDataRegion(n)
       \/ FieldList(n) \/ NamedElement(n) \/ Resolve(n) \/ ReleaseNode(n)
       \/ \E m \in Names : BankFieldList(n, m) \/ IndexFieldList(n, m)
  \/ \E c \in Cells : MapRegion(c) \/ Drop(c)
  \/ Connection \/ BrokenElement \/ EndFields \/ NextPass

Spec == Init /\ [][Next]_vars

-----------------------------------------------------------------------------
\* The cells, the nodes and the evaluator's references are what they should be.
TypeOK ==
  /\ Live(store) \subseteq Cells
  /\ \A c \in Live(store) :
       /\ store.cells[c].count \in Nat \ {0}
       /\ ToSet(store.cells[c].refs) \subseteq Cells \cup {Nil}
       /\ store.cells[c].node \in Names \cup {Nil}
       /\ store.cells[c].open => store.cells[c].type \in OnHost
  /\ store.nodes \in [Names -> [in : BOOLEAN, object : Cells \cup {Nil}, pre : BOOLEAN]]
  /\ {store.misfreed, store.dangled, store.lost, failed} \subseteq BOOLEAN
  /\ pass \in {"namespace", "full"} /\ held \subseteq Cells
  /\ fields.kind \in {"none", "field", "bank", "index"}

\* Who refers to a cell: nodes, other cells, the evaluator, a field list.
Times(c, refs) == Cardinality({i \in DOMAIN refs : refs[i] = c})
Holders(c) ==
  Cardinality({n \in Names : ObjectOf(n) = c})
    + SumFunction([d \in Cells |-> Times(c, RefsOf(store, d))])
    + (IF c \in held THEN 1 ELSE 0) + (IF c = fields.conn THEN 1 ELSE 0)

\* Whatever is declared, fails or is released, in any order: no object, buffer
\* or package is freed that something still refers to, and none is counted
\* below the references to it.
NothingDangles ==
  /\ ~store.dangled
  /\ \A n \in Names : ObjectOf(n) \in Live(store) \cup {Nil}
  /\ \A c \in Live(store) :
       /\ ToSet(store.cells[c].refs) \subseteq Live(store) \cup {Nil}
       /\ store.cells[c].count >= Holders(c)
  /\ held \cup {fields.conn} \cup ToSet(fields.refs) \subseteq Live(store) \cup {Nil}

\* Until a failure leaves something behind or a data region is freed, every
\* cell has exactly as many references as there are holders.
NothingLeaksAtFirst ==
  ~failed /\ ~store.lost => \A c \in Live(store) : store.cells[c].count = Holders(c)

\* A node points to an object exactly if the object knows the node, so that an
\* object that goes takes itself from its node and from no other.
NodesMatchObjects ==
  /\ \A n \in Names : ObjectOf(n) # Nil => store.cells[ObjectOf(n)].node = n
  /\ \A c \in Live(store) : store.cells[c].node # Nil => ObjectOf(store.cells[c].node) = c

\* A path that exists has its object, until a declaration has failed between
\* the two.
NodesHaveObjectsAtFirst == ~failed => \A n \in Names : Node(n).in => ObjectOf(n) # Nil

\* Nothing that can still be reached has been freed, through nodes, elements or the
\* evaluator's own references, and what should be reached is.
ReferencesAreSound ==
  TypeOK /\ NothingDangles /\ NodesMatchObjects /\ NodesHaveObjectsAtFirst

\* The mutexes, events and mappings that the host has open are those of the
\* objects that exist.
HostIsBalanced ==
  /\ store.opened = Cardinality({c \in Live(store) : store.cells[c].open})
  /\ ~failed => ~store.misfreed

\* A name is declared once: as long as its node exists, neither pass, nor a
\* later table, nor a failure replaces or removes its object.
DeclarationsAreFinal ==
  [][\A n \in Names : ObjectOf(n) # Nil /\ store'.nodes[n].in
       => store'.nodes[n].object = ObjectOf(n)]_vars
=============================================================================
