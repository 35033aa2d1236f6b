------------------------------ MODULE Namespace ------------------------------
(***************************************************************************)
(* The ACPI namespace: the nodes and the table of their absolute paths,    *)
(* the stack of scopes that relative names refer to, the nodes a method    *)
(* call creates and destroys, aliases, and the tree that is built when the *)
(* initial load is complete.                                               *)
(*                                                                         *)
(* A node and a scope are known by their addresses. Scopes come from an    *)
(* arena that is rolled back by each pop, so a scope's address is its      *)
(* level, and a level that is popped keeps its last contents (heads) until *)
(* it is pushed again. Hash values are taken to differ for different       *)
(* paths.                                                                  *)
(***************************************************************************)
EXTENDS Integers, FiniteSets, SequencesExt

CONSTANTS Nodes,        \* addresses of namespace nodes
          RootNode,     \* the node of the predefined namespace \
          TreeRoot,     \* the root of the tree, which is no node
          Null,
          NameStrings,  \* bound: the names that the byte code uses
          AliasNames,   \* bound: those of them that aliases stand for
          MaxLevel,     \* bound: nesting of scopes
          MaxPath       \* bound: segments of an absolute path

ASSUME NamespaceAssumption ==
  /\ IsFiniteSet(Nodes) /\ RootNode \in Nodes /\ Null \notin Nodes /\ TreeRoot \notin Nodes \cup {Null}
  /\ MaxLevel \in Nat \ {0} /\ MaxPath \in Nat /\ AliasNames \subseteq NameStrings
  /\ \A s \in NameStrings :
       /\ s.root \in BOOLEAN /\ s.up \in Nat /\ s.segs \in Seq(ToSet(s.segs))
       /\ s.root => s.up = 0

VARIABLES
  nodes,    \* the allocated nodes, a function on their addresses
  order,    \* the list from InOrderNodeHead
  tree,     \* the tree entries: IsPresent, Parent, ChildFirst and so on
  built,    \* the initial load is complete
  scopes,   \* the stack of namespace scopes
  heads,    \* TempNodeHead in the memory of each level
  recursed, \* history: a method was called while it was running
  inner,    \* history: a node was released that had children in the tree
  late      \* history: a node was created after one below it, in the tree

vars == <<nodes, order, tree, built, scopes, heads, recursed, inner, late>>

Level == Len(scopes)
Live == DOMAIN nodes
Here == scopes[Level].path

-----------------------------------------------------------------------------
(* Names and the search. *)

NoPath == <<"none">>

\* The absolute path of a name in a scope, without search.
Absolute(scope, name) ==
  IF name.root THEN name.segs
  ELSE IF name.up > Len(scope) THEN NoPath
  ELSE SubSeq(scope, 1, Len(scope) - name.up) \o name.segs

\* The node of an absolute path: the table has at most one.
At(path) ==
  IF \E n \in Live : nodes[n].path = path
  THEN CHOOSE n \in Live : nodes[n].path = path
  ELSE Null

IsRelative(name) == ~name.root /\ name.up = 0 /\ Len(name.segs) = 1

\* A name of one segment is looked up in the scope and then in its ancestors,
\* from the nearest to the root; a name to be created only in the scope.
SearchRelativeName(scope, name, creation) ==
  LET try(i) == At(SubSeq(scope, 1, Len(scope) - i) \o name.segs)
      tries == IF creation THEN {0} ELSE 0..Len(scope)
      hits == {i \in tries : try(i) # Null}
  IN IF hits = {} THEN Null
     ELSE try(CHOOSE i \in hits : \A j \in hits : i <= j)

SearchPrefixedName(scope, name) ==
  LET path == Absolute(scope, name)
  IN IF path = NoPath \/ (Len(name.segs) = 0 /\ ~name.root /\ name.up = 0)
     THEN Null ELSE At(path)

Find(scope, name, creation) ==
  IF IsRelative(name) THEN SearchRelativeName(scope, name, creation)
  ELSE SearchPrefixedName(scope, name)

\* The destination of an alias is searched in the scope of whoever uses it,
\* again and again: Endless stands for a search that does not return.
Endless == "endless"

Resolve(n) ==
  LET hops == Cardinality(Nodes) + 1
      follow[k \in 0..hops] ==
        [m \in Nodes \cup {Null} |->
           IF m = Null THEN Null
           ELSE IF nodes[m].kind # "alias" THEN m
           ELSE IF k = 0 THEN Endless
           ELSE follow[k - 1][Find(Here, nodes[m].dest, FALSE)]]
  IN follow[hops][n]

Search(name) == Resolve(Find(Here, name, FALSE))

Prefix(path, n) == SubSeq(path, 1, n)
Front1(path) == Prefix(path, Len(path) - 1)

-----------------------------------------------------------------------------
(* The tree: an entry per node, and one for TreeRoot. *)

Entries == Nodes \cup {TreeRoot}
NoEntry == [in |-> FALSE, parent |-> Null, first |-> Null, last |-> Null,
            next |-> Null, prev |-> Null]

InTree(n) == tree[n].in

\* AmlNamespaceTreeLinkChildNode: c becomes the last child of p.
TreeLink(t, p, c) ==
  LET last == t[p].last
      below == [t EXCEPT ![c].next = Null, ![c].prev = last, ![c].parent = p,
                         ![c].in = TRUE]
      added == [below EXCEPT ![p].last = c, ![p].first = IF @ = Null THEN c ELSE @]
  IN IF last = Null THEN added ELSE [added EXCEPT ![last].next = c]

\* The entries from c on, by Next.
Siblings(t, c) ==
  LET walk[k \in 0..Cardinality(Nodes)] ==
        [n \in Nodes \cup {Null} |->
           IF k = 0 \/ n = Null THEN <<>> ELSE <<n>> \o walk[k - 1][t[n].next]]
  IN walk[Cardinality(Nodes)][c]

Children(t, p) == Siblings(t, t[p].first)

\* One level of the path of a node that is being inserted: acc.last is the
\* nearest ancestor so far.
InsertLevel(acc, path) ==
  LET found == Resolve(At(path))
  IN IF found = Null THEN acc
     ELSE IF acc.tree[found].in THEN [acc EXCEPT !.last = found]
     ELSE [tree |-> TreeLink(acc.tree, acc.last, found), last |-> found]

\* AmlNamespaceTreeInsertNode.
TreeInsertNode(t, n) ==
  LET path == nodes[n].path
      levels == [k \in 1..(Len(path) + 1) |-> Prefix(path, k - 1)]
  IN IF t[n].in THEN t
     ELSE FoldLeft(InsertLevel, [tree |-> t, last |-> TreeRoot], levels).tree

\* AmlNamespaceTreeUnlinkNode, in the order of its assignments: from the
\* siblings, the children to the parent's list, from the parent.
UnlinkSiblings(t, n) ==
  LET e == t[n]
      ahead == IF e.next = Null THEN t ELSE [t EXCEPT ![e.next].prev = e.prev]
  IN IF e.prev = Null THEN ahead ELSE [ahead EXCEPT ![e.prev].next = e.next]

TransplantChildren(t, n) ==
  LET e == t[n]
      moved == [m \in Entries |->
                  IF m \in ToSet(Children(t, n))
                  THEN [t[m] EXCEPT !.parent = e.parent] ELSE t[m]]
      end == moved[e.parent].last
      joined == IF end = Null THEN moved
                ELSE [moved EXCEPT ![end].next = e.first, ![e.first].prev = end]
  IN IF e.first = Null THEN t
     ELSE [joined EXCEPT ![e.parent].last = e.last,
                         ![e.parent].first = IF @ = Null THEN e.first ELSE @]

\* Mutant: the parent's last child is left alone.
UnlinkParent_FirstOnly(t, n) ==
  [t EXCEPT ![t[n].parent].first = IF @ = n THEN t[n].next ELSE @]

UnlinkParent(t, n) ==
  LET p == t[n].parent
  IN [t EXCEPT ![p].first = IF @ = n THEN t[n].next ELSE @,
               ![p].last = IF @ = n THEN t[n].prev ELSE @]

TreeUnlink(t, n) ==
  IF ~t[n].in THEN t
  ELSE [UnlinkParent(TransplantChildren(UnlinkSiblings(t, n), n), n)
          EXCEPT ![n] = NoEntry]

-----------------------------------------------------------------------------
(* Creation. *)

\* The innermost call of a method that is under way, 0 if there is none.
CallOf(m) ==
  LET calls == {l \in 1..Level : scopes[l].call = m}
  IN IF calls = {} THEN 0 ELSE CHOOSE l \in calls : \A k \in calls : k <= l

\* For the properties: the call that a node created below parent belongs to.
OwnerBelow(parent) ==
  IF parent = Null THEN 0
  ELSE IF nodes[parent].kind = "method" THEN CallOf(parent)
  ELSE nodes[parent].owner

ParentOf(path) == IF path = <<>> THEN Null ELSE Resolve(At(Front1(path)))

\* Mutants: the temporary scope is that of the innermost call, not the
\* parent's; the temporary scope is not taken over from the parent.
NewNode_CurrentCall(path, parent, kind, dest) ==
  LET calls == {l \in 1..Level : scopes[l].call # Null}
      temp == IF calls = {} THEN 0 ELSE CHOOSE l \in calls : \A k \in calls : k <= l
  IN [path |-> path, kind |-> kind, dest |-> dest, temp |-> temp,
      flagged |-> kind = "method" \/ (parent # Null /\ nodes[parent].flagged),
      next |-> IF temp = 0 THEN Null ELSE heads[temp],
      owner |-> OwnerBelow(parent)]

NewNode_NotTemporary(path, parent, kind, dest) ==
  [path |-> path, kind |-> kind, dest |-> dest, temp |-> 0,
   flagged |-> kind = "method" \/ (parent # Null /\ nodes[parent].flagged),
   next |-> Null, owner |-> OwnerBelow(parent)]

NewNode(path, parent, kind, dest) ==
  LET temp == IF parent = Null THEN 0 ELSE nodes[parent].temp
  IN [path |-> path, kind |-> kind, dest |-> dest, temp |-> temp,
      flagged |-> kind = "method" \/ (parent # Null /\ nodes[parent].flagged),
      next |-> IF temp = 0 THEN Null ELSE heads[temp],
      owner |-> OwnerBelow(parent)]

\* The temporary lists once n is in the one of its scope.
Headed(n, temp) == IF temp = 0 THEN heads ELSE [heads EXCEPT ![temp] = n]

\* AmlNamespaceCreateNode: the node joins the table, the list of evaluation
\* order, the list of its parent's temporary scope and, if its parent has, the
\* tree. A path that exists is refused, and changes nothing but the heap.
CreateNode(n, name, kind, dest) ==
  LET path == Absolute(Here, name)
      parent == ParentOf(path)
      made == NewNode(path, parent, kind, dest)
      linked == parent # Null /\ InTree(parent)
  IN /\ n \notin Live
     /\ path # NoPath /\ Len(path) <= MaxPath /\ At(path) = Null
     /\ parent # Endless
     /\ nodes' = [m \in Live \cup {n} |-> IF m = n THEN made ELSE nodes[m]]
     /\ order' = Append(order, n)
     /\ tree' = IF linked THEN TreeLink(tree, parent, n) ELSE tree
     /\ late' = (late \/ \E m \in Live : InTree(m) /\ IsStrictPrefix(path, nodes[m].path))
     /\ UNCHANGED <<built, recursed, inner>>

NoDest == [root |-> TRUE, up |-> 0, segs |-> <<>>]

DeclareKind(n, name, kind, dest) ==
  /\ CreateNode(n, name, kind, dest)
  /\ heads' = Headed(n, nodes'[n].temp)
  /\ UNCHANGED scopes

\* A method's node is flagged, so that what is created below it is temporary.
DeclareName(n, name) == DeclareKind(n, name, "name", NoDest)
DeclareMethod(n, name) == DeclareKind(n, name, "method", NoDest)
DeclareAlias(n, name) == \E dest \in AliasNames : DeclareKind(n, name, "alias", dest)

-----------------------------------------------------------------------------
(* Scopes. *)

\* AmlNamespacePushScope: the scope at its level. Unless it is switched to, a
\* scope is temporary if the parent of its path is.
Pushed(path, flagged, call) ==
  /\ Level < MaxLevel
  /\ scopes' = Append(scopes, [path |-> path, flagged |-> flagged, call |-> call])

Inherits(path) ==
  ParentOf(path) \notin {Null, Endless} /\ nodes[ParentOf(path)].flagged

\* AmlEvalDevice and its like: the node, and a scope for the body.
DeclareDevice(n, name) ==
  LET path == Absolute(Here, name)
  IN /\ CreateNode(n, name, "scope", NoDest)
     /\ Pushed(path, Inherits(path), Null)
     /\ heads' = [Headed(n, nodes'[n].temp) EXCEPT ![Level + 1] = Null]

\* AmlEvalScope: of the nodes, only those with a body can be a scope again.
OpenScope(name) ==
  LET n == Search(name)
  IN /\ n \notin {Null, Endless} /\ nodes[n].kind = "scope"
     /\ Pushed(nodes[n].path, FALSE, Null)
     /\ heads' = [heads EXCEPT ![Level + 1] = Null]
     /\ UNCHANGED <<nodes, order, tree, built, recursed, inner, late>>

\* Mutant: the list of a scope that is pushed is not cleared.
Call_StaleList(m) ==
  /\ m \in Live /\ nodes[m].kind = "method"
  /\ Pushed(nodes[m].path, TRUE, m)
  /\ nodes' = [nodes EXCEPT ![m].temp = Level + 1]
  /\ recursed' = (recursed \/ CallOf(m) # 0)
  /\ UNCHANGED <<order, tree, built, heads, inner, late>>

\* The scope of AmlMethodInvoke: nodes below the method are its scope's.
Call(m) ==
  /\ m \in Live /\ nodes[m].kind = "method"
  /\ Pushed(nodes[m].path, TRUE, m)
  /\ heads' = [heads EXCEPT ![Level + 1] = Null]
  /\ nodes' = [nodes EXCEPT ![m].temp = Level + 1]
  /\ recursed' = (recursed \/ CallOf(m) # 0)
  /\ UNCHANGED <<order, tree, built, inner, late>>

\* The nodes of a temporary list, in the order of their release.
Chain(first) ==
  LET follow[k \in 0..Cardinality(Nodes)] ==
        [n \in Nodes \cup {Null} |->
           IF k = 0 \/ n = Null THEN <<>>
           ELSE IF n \notin Live THEN <<n>>
           ELSE <<n>> \o follow[k - 1][nodes[n].next]]
  IN follow[Cardinality(Nodes)][first]

TempList(l) == IF scopes[l].flagged THEN Chain(heads[l]) ELSE <<>>

\* AmlNamespaceReleaseNode: out of the table and of the list of evaluation
\* order, which is cut when its head is released.
Unlisted(gone) ==
  IF order # <<>> /\ Head(order) \in gone THEN <<>>
  ELSE FoldLeft(LAMBDA kept, n : IF n \in gone THEN kept ELSE Append(kept, n), <<>>, order)

\* AmlNamespacePopScope. The memory of the level keeps its list.
PopScope ==
  LET list == TempList(Level)
      gone == ToSet(list)
  IN /\ Level > 1
     /\ scopes' = Front(scopes)
     /\ nodes' = [n \in Live \ gone |-> nodes[n]]
     /\ order' = Unlisted(gone)
     /\ tree' = FoldLeft(TreeUnlink, tree, list)
     /\ inner' = (inner \/ \E i \in DOMAIN list :
                   ~(ToSet(Children(tree, list[i])) \subseteq ToSet(Prefix(list, i))))
     /\ UNCHANGED <<built, heads, recursed, late>>

\* AmlNamespaceTreeBuild, by AmlCompleteInitialLoad.
TreeBuild ==
  /\ ~built /\ Level = 1
  /\ \A n \in Live : \A k \in 0..Len(nodes[n].path) :
       Resolve(At(Prefix(nodes[n].path, k))) # Endless
  /\ built' = TRUE
  /\ tree' = FoldLeft(TreeInsertNode, [tree EXCEPT ![TreeRoot].in = TRUE], order)
  /\ UNCHANGED <<nodes, order, scopes, heads, recursed, inner, late>>

-----------------------------------------------------------------------------
\* AmlNamespaceStateInitialize and the node of \.
Init ==
  /\ nodes = [n \in {RootNode} |->
               [path |-> <<>>, kind |-> "scope", dest |-> NoDest, temp |-> 0,
                flagged |-> FALSE, next |-> Null, owner |-> 0]]
  /\ order = <<RootNode>>
  /\ tree = [e \in Entries |-> NoEntry]
  /\ built = FALSE
  /\ scopes = <<[path |-> <<>>, flagged |-> FALSE, call |-> Null]>>
  /\ heads = [l \in 1..MaxLevel |-> Null]
  /\ recursed = FALSE /\ inner = FALSE /\ late = FALSE

Next ==
  \/ \E n \in Nodes, name \in NameStrings :
       DeclareName(n, name) \/ DeclareMethod(n, name) \/ DeclareAlias(n, name)
         \/ DeclareDevice(n, name)
  \/ \E name \in NameStrings : OpenScope(name)
  \/ \E m \in Nodes : Call(m)
  \/ PopScope
  \/ TreeBuild

Spec == Init /\ [][Next]_vars

-----------------------------------------------------------------------------
\* The nodes, the lists, the tree and the scopes hold what they should.
TypeOK ==
  /\ Live \subseteq Nodes /\ RootNode \in Live
  /\ \A n \in Live :
       /\ nodes[n].kind \in {"scope", "method", "name", "alias"}
       /\ nodes[n].temp \in 0..MaxLevel /\ nodes[n].owner \in 0..MaxLevel
       /\ nodes[n].flagged \in BOOLEAN /\ nodes[n].next \in Nodes \cup {Null}
       /\ Len(nodes[n].path) <= MaxPath
  /\ ToSet(order) \subseteq Nodes
  /\ tree \in [Entries -> [in : BOOLEAN, parent : Entries \cup {Null},
                           first : Nodes \cup {Null}, last : Nodes \cup {Null},
                           next : Nodes \cup {Null}, prev : Nodes \cup {Null}]]
  /\ {built, recursed, inner, late} \subseteq BOOLEAN
  /\ Level \in 1..MaxLevel
  /\ \A l \in 1..Level : scopes[l].call \in Nodes \cup {Null}
  /\ heads \in [1..MaxLevel -> Nodes \cup {Null}]

\* The table and the list of evaluation order agree: the list has every node
\* once, and no two nodes have one path.
IndexesAgree ==
  /\ ToSet(order) = Live /\ IsInjective(order)
  /\ \A m, n \in Live : nodes[m].path = nodes[n].path => m = n

\* A traversal of the tree meets every entry that is present, once, and as a
\* child of its parent; nothing that was released is in the tree.
TreeIsSound ==
  /\ \A n \in Nodes : InTree(n) => n \in Live
  /\ \A p \in Entries :
       /\ IsInjective(Children(tree, p))
       /\ ToSet(Children(tree, p)) = {n \in Live : InTree(n) /\ tree[n].parent = p}

\* As long as no node was released before its children.
TreeIsSoundAtFirst == ~inner => TreeIsSound

\* The temporary nodes of the scopes that are open: a pop releases nodes that
\* exist, each once, and no other scope's.
ReleasesAreSound ==
  \A l \in 1..Level :
    LET list == TempList(l)
    IN /\ ToSet(list) \subseteq Live /\ IsInjective(list)
       /\ \A k \in 1..Level : k # l => ToSet(list) \cap ToSet(TempList(k)) = {}

\* Every way to reach a node leads to a node that exists, and to each once: the table,
\* the list of evaluation order, and the lists that the scopes will release.
IndexesAreSound == TypeOK /\ IndexesAgree /\ ReleasesAreSound

\* A node that a call of a method created below the method is gone when the
\* call is over.
TemporaryNodesEnd == \A n \in Live : nodes[n].owner <= Level

\* As long as no method has been called while it was running.
TemporaryNodesEndAtFirst == ~recursed => TemporaryNodesEnd

\* A node that is not below a method is never released, whatever is called and
\* whichever scopes the calls open on the way.
PermanentNodesStay ==
  [][\A n \in Live : ~nodes[n].flagged => n \in DOMAIN nodes']_vars

\* The parent of a node by its path (the second half of AmlNamespaceParentNode).
ScanParent(n) ==
  LET path == nodes[n].path
      found == {i \in 0..(Len(path) - 1) : At(Prefix(path, i)) # Null}
  IN IF found = {} THEN Null
     ELSE Resolve(At(Prefix(path, CHOOSE i \in found : \A j \in found : j <= i)))

\* The tree, where a node is in it, and the table name the same parent.
ParentsAgree ==
  \A n \in Live : InTree(n) =>
    tree[n].parent = IF n = RootNode THEN TreeRoot ELSE ScanParent(n)

NoAliases == \A n \in Live : nodes[n].kind # "alias"

\* As long as there is no alias, and parents come before their children once
\* the tree is there.
ParentsAgreeAtFirst == NoAliases /\ ~late => ParentsAgree

\* The tree is the one that the paths describe, whatever is created, linked and
\* released, with the two exceptions above.
TreeAgreesAtFirst == TreeIsSoundAtFirst /\ ParentsAgreeAtFirst
=============================================================================
