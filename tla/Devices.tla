------------------------------- MODULE Devices -------------------------------
(***************************************************************************)
(* Tables, devices and region spaces: what the library calls of the byte   *)
(* code of its own accord. When the initial load is complete, and again    *)
(* after every table that is loaded later, it walks the tree of nodes to   *)
(* tell each _REG method which region spaces have a handler, and to ask    *)
(* each device for its status and call its _INI method.                    *)
(*                                                                         *)
(* Everything runs on one thread, but it nests: a method that a walk calls *)
(* may load a table, which starts walks of its own over a tree that grows; *)
(* and the host is called back for each device that is initialised, and    *)
(* may register a handler there. The variable stack holds the calls that   *)
(* are in progress.                                                        *)
(***************************************************************************)
EXTENDS Integers, FiniteSets, SequencesExt

CONSTANTS Nodes,            \* the nodes that the tables declare
          TreeRoot,         \* the root of the tree, which is no node
          Null,
          Tables,
          Declares,         \* the nodes of each table, in their order
          Parent,           \* the parent of each node
          Kind,             \* "device", "_INI" or "_REG"
          RootInitializers, \* the nodes of \_INI and \_SB._INI
          Spaces,           \* the types of region spaces, in their order
          Quiet,            \* those of them that _REG is not called for
          Statuses,         \* the outcomes of _STA
          StartDepth,       \* TreeMaxDepth of a new state
          Breaks,           \* bound: nodes that a failing namespace pass creates
          MaxRegistrations  \* bound: registrations of handlers

Entries == Nodes \cup {TreeRoot}
Devices == {n \in Nodes : Kind[n] = "device"}
SpaceTypes == ToSet(Spaces)

ASSUME DevicesAssumption ==
  /\ TreeRoot \notin Nodes /\ Null \notin Entries
  /\ Kind \in [Nodes -> {"device", "_INI", "_REG"}]
  \* The parents of a node lead to the root; of the kinds, only devices have children.
  /\ Parent \in [Nodes -> Devices \cup {TreeRoot}]
  /\ \A S \in SUBSET Nodes : S # {} => \E n \in S : Parent[n] \notin S
  \* A node has one method of a name.
  /\ \A m, n \in Nodes :
       Kind[m] = Kind[n] /\ Parent[m] = Parent[n] /\ m # n => Kind[n] = "device"
  \* A node is what one declaration creates.
  /\ \A t \in Tables : Declares[t] \in Seq(Nodes) /\ IsInjective(Declares[t])
  /\ \A n \in Nodes : \E t \in Tables : n \in ToSet(Declares[t])
  /\ \A t, u \in Tables : t # u => ToSet(Declares[t]) \cap ToSet(Declares[u]) = {}
  /\ RootInitializers \in Seq({n \in Nodes : Kind[n] = "_INI"})
  /\ Spaces \in Seq(SpaceTypes) /\ IsInjective(Spaces)
  /\ Quiet \subseteq SpaceTypes /\ StartDepth \in Nat /\ MaxRegistrations \in Nat
  \* the bits PRESENT and FUNCTIONING: both, the second, the first, none
  /\ Statuses \subseteq {"ready", "absent", "broken", "gone", "error"}

VARIABLES
  created,   \* the nodes, in the order of their creation
  tables,    \* the state of each table
  complete,  \* IsInitialLoadComplete, and the tree is built
  handlers,  \* RegionSpaceHandlers: EnableState and BroadcastPending
  inited,    \* IsInitializedDevice
  stack,     \* the calls in progress
  registrations,
  told,      \* history: what each _REG method was last told of each space
  asked,     \* history: how the last _STA of each device came out
  announced, \* history: calls of AmlHostOnDeviceInitialized
  reentered, \* history: devices during whose initialisation a table was loaded
  unsure,    \* history: spaces registered in silence or during a broadcast
  wanted     \* history: devices were to be initialised

vars == <<created, tables, complete, handlers, inited, stack, registrations,
          told, asked, announced, reentered, unsure, wanted>>
history == <<told, asked, announced, reentered, unsure, wanted>>

Live == ToSet(created)

TableOf(n) == CHOOSE t \in Tables : n \in ToSet(Declares[t])

-----------------------------------------------------------------------------
(* The tree. Nodes are linked behind their older siblings and never leave. *)

Place(n) == CHOOSE i \in DOMAIN created : created[i] = n
First(places) == IF places = {} THEN Null ELSE created[Min(places)]

Kids(n) == {i \in DOMAIN created : Parent[created[i]] = n}
ChildFirst(n) == First(Kids(n))
Sibling(n) == First({i \in Kids(Parent[n]) : i > Place(n)})

Method(n, kind) ==
  IF \E m \in Live : Parent[m] = n /\ Kind[m] = kind
  THEN CHOOSE m \in Live : Parent[m] = n /\ Kind[m] = kind
  ELSE Null

Depth[n \in Entries] == IF n = TreeRoot THEN 1 ELSE Depth[Parent[n]] + 1

TreeMaxDepth == Max({StartDepth} \cup {Depth[n] : n \in Live})

-----------------------------------------------------------------------------
(* The stack of calls. *)

Idle == stack = <<>>
Top == stack[Len(stack)]
Running(op) == ~Idle /\ Top.op = op
At(op, pc) == Running(op) /\ Top.pc = pc

Call(f) == stack' = Append(stack, f)
Continue(f) == stack' = Append(Front(stack), f)
ContinueAndCall(f, g) == stack' = Front(stack) \o <<f, g>>
Return == stack' = Front(stack)

\* A frame of the visit stack, with the status that the visit came to.
Visit(n) == [node |-> n, next |-> ChildFirst(n), status |-> "none"]

DeviceWalk == [op |-> "devices", pc |-> "go", walk |-> <<Visit(TreeRoot)>>]
Broadcast(s, enable) ==
  [op |-> "broadcast", pc |-> "go", walk |-> <<Visit(TreeRoot)>>, space |-> s, enable |-> enable]
InitializeDevices == [op |-> "devices", pc |-> "roots", walk |-> <<>>, i |-> 1]
Load(t, by) == [op |-> "load", pc |-> "names", table |-> t, by |-> by, i |-> 1]
Invoke(m, why) == [op |-> "method", node |-> m, why |-> why, loaded |-> FALSE]

Ini(f) == f.op = "method" /\ f.why = "_INI"
InitializedBy(f, d) == (Ini(f) /\ Parent[f.node] = d) \/ (f.op = "host" /\ f.node = d)
Broadcasting(s) == \E i \in DOMAIN stack : stack[i].op = "broadcast" /\ stack[i].space = s

TypeOK ==
  /\ IsInjective(created) /\ Live \subseteq Nodes
  /\ tables \in [Tables -> {"new", "running", "loaded", "failed", "freed"}]
  /\ complete \in BOOLEAN /\ wanted \in BOOLEAN
  /\ handlers \in [SpaceTypes -> [enable : BOOLEAN, pending : BOOLEAN]]
  /\ inited \in [Nodes -> BOOLEAN]
  /\ registrations \in 0..MaxRegistrations
  /\ told \in [Nodes -> [SpaceTypes -> BOOLEAN]]
  /\ asked \in [Devices -> {"never", "answered", "cut"}]
  /\ announced \in [Devices -> Nat]
  /\ reentered \subseteq Devices /\ unsure \subseteq SpaceTypes
  /\ \A i \in DOMAIN stack :
       /\ stack[i].op \in {"load", "complete", "broadcast", "devices", "method", "host"}
       /\ i > 1 => stack[i].op # "complete"
       /\ stack[i].op \in {"broadcast", "devices"} => complete

Init ==
  /\ created = <<>> /\ stack = <<>>
  /\ tables = [t \in Tables |-> "new"]
  /\ complete = FALSE /\ wanted = FALSE
  /\ handlers = [s \in SpaceTypes |-> [enable |-> FALSE, pending |-> FALSE]]
  /\ inited = [n \in Nodes |-> FALSE]
  /\ registrations = 0
  /\ told = [n \in Nodes |-> [s \in SpaceTypes |-> FALSE]]
  /\ asked = [d \in Devices |-> "never"]
  /\ announced = [d \in Devices |-> 0]
  /\ reentered = {} /\ unsure = {}

-----------------------------------------------------------------------------
(* Loading a table. One whose names exist already is refused at its first  *)
(* name and changes nothing, so each table is loaded once.                 *)

HostLoads(t) ==
  /\ Idle /\ tables[t] = "new"
  /\ Call(Load(t, "host"))
  /\ tables' = [tables EXCEPT ![t] = "running"]
  /\ UNCHANGED <<created, complete, handlers, inited, registrations, history>>

\* The table whose code is in freed memory when the load has failed. Snapshots
\* keep no items in this build: the nodes of the table stay.
LoadFails(f) ==
  tables' = [tables EXCEPT ![f.table] = IF f.by = "host" THEN "failed" ELSE "freed"]

\* The namespace pass: it ends at a node whose parent does not exist, and may
\* end before any other, as when its name is taken.
NamespacePass ==
  /\ At("load", "names")
  /\ LET names == Declares[Top.table]
         known(k) == \A i \in 1..k :
           Parent[names[i]] \in Live \cup {TreeRoot} \cup {names[j] : j \in 1..i - 1}
         furthest == Max({k \in 0..Len(names) : known(k)})
     IN \E k \in (Breaks \cap 0..furthest) \cup {furthest} :
          /\ created' = created \o SubSeq(names, 1, k)
          /\ IF k = Len(names)
             THEN Continue([Top EXCEPT !.pc = "full"]) /\ UNCHANGED tables
             ELSE Return /\ LoadFails(Top)
  /\ UNCHANGED <<complete, handlers, inited, registrations, history>>

\* The full pass runs the code between the declarations.
FullPassLoads(t) ==
  /\ At("load", "full") /\ tables[t] = "new"
  /\ Call(Load(t, "code"))
  /\ tables' = [tables EXCEPT ![t] = "running"]
  /\ UNCHANGED <<created, complete, handlers, inited, registrations, history>>

FullPassEnds ==
  /\ At("load", "full")
  /\ \/ Return /\ LoadFails(Top)
     \/ /\ tables' = [tables EXCEPT ![Top.table] = "loaded"]
        /\ IF complete THEN Continue([Top EXCEPT !.pc = "regs"]) ELSE Return
  /\ UNCHANGED <<created, complete, handlers, inited, registrations, history>>

\* The handlers from the i-th on that a loop over them stops at.
Stops(i, flag) == {j \in i..Len(Spaces) : handlers[Spaces[j]][flag]}

\* A loop over the handlers calls the broadcast, which ignores some types.
BroadcastNext(stops, pc) ==
  LET j == Min(stops)
      s == Spaces[j]
      f == [Top EXCEPT !.pc = pc, !.i = j + 1]
  IN IF s \in Quiet THEN Continue(f)
     ELSE ContinueAndCall(f, Broadcast(s, handlers[s].enable))

LoadedCodeRegs_Pending ==
  /\ At("load", "regs")
  /\ LET stops == Stops(Top.i, "pending")
     IN IF stops # {} THEN BroadcastNext(stops, "regs") /\ UNCHANGED wanted
        ELSE /\ stack' = Append(Front(stack), InitializeDevices)
             /\ wanted' = TRUE
  /\ UNCHANGED <<created, tables, complete, handlers, inited, registrations,
                 told, asked, announced, reentered, unsure>>

\* After the initial load, every handler that there is is broadcast again,
\* and all devices of the tree are looked at again.
LoadedCodeRegs ==
  /\ At("load", "regs")
  /\ LET stops == Stops(Top.i, "enable")
     IN IF stops # {} THEN BroadcastNext(stops, "regs") /\ UNCHANGED wanted
        ELSE /\ stack' = Append(Front(stack), InitializeDevices)
             /\ wanted' = TRUE
  /\ UNCHANGED <<created, tables, complete, handlers, inited, registrations,
                 told, asked, announced, reentered, unsure>>

-----------------------------------------------------------------------------
(* The end of the initial load. *)

CompleteInitialLoad(initialize) ==
  /\ Idle /\ ~complete
  /\ complete' = TRUE
  /\ wanted' = initialize
  /\ Call([op |-> "complete", pc |-> "regs", i |-> 1, initialize |-> initialize])
  /\ UNCHANGED <<created, tables, handlers, inited, registrations,
                 told, asked, announced, reentered, unsure>>

\* The registration is marked as broadcast when its walk is over.
CompleteRegs ==
  /\ At("complete", "regs")
  /\ LET stops == Stops(Top.i, "pending")
     IN IF stops # {} THEN BroadcastNext(stops, "clear")
        ELSE stack' = IF Top.initialize THEN Append(Front(stack), InitializeDevices)
                      ELSE Front(stack)
  /\ UNCHANGED <<created, tables, complete, handlers, inited, registrations, history>>

CompleteClears ==
  /\ At("complete", "clear")
  /\ handlers' = [handlers EXCEPT ![Spaces[Top.i - 1]].pending = FALSE]
  /\ Continue([Top EXCEPT !.pc = "regs"])
  /\ UNCHANGED <<created, tables, complete, inited, registrations, history>>

-----------------------------------------------------------------------------
(* Registering a handler: by the host when nothing runs, or in its         *)
(* callback for a device. Before the tree is built, the broadcast fails    *)
(* and the registration stays pending, also when it was not to be          *)
(* deferred.                                                               *)

RegisterHandler_NotPending(s, enable, call) ==
  /\ Idle \/ Running("host")
  /\ registrations < MaxRegistrations
  /\ registrations' = registrations + 1
  /\ handlers' = [handlers EXCEPT ![s] = [enable |-> enable, pending |-> ~call]]
  /\ unsure' = IF Broadcasting(s) \/ (complete /\ ~call) THEN unsure \cup {s}
               ELSE unsure \ {s}
  /\ IF call /\ complete /\ s \notin Quiet THEN Call(Broadcast(s, enable)) ELSE UNCHANGED stack
  /\ UNCHANGED <<created, tables, complete, inited, told, asked, announced, reentered, wanted>>

RegisterHandler(s, enable, call) ==
  /\ Idle \/ Running("host")
  /\ registrations < MaxRegistrations
  /\ registrations' = registrations + 1
  /\ handlers' = [handlers EXCEPT ![s] = [enable |-> enable, pending |-> ~call \/ ~complete]]
  /\ unsure' = IF Broadcasting(s) \/ (complete /\ ~call) THEN unsure \cup {s}
               ELSE unsure \ {s}
  /\ IF call /\ complete /\ s \notin Quiet THEN Call(Broadcast(s, enable)) ELSE UNCHANGED stack
  /\ UNCHANGED <<created, tables, complete, inited, told, asked, announced, reentered, wanted>>

-----------------------------------------------------------------------------
(* The walks: depth first, on a stack of visits that is allocated for the  *)
(* greatest depth at their start. A visit is the first one to its node     *)
(* while its next child is the first child. Both walks do nothing at nodes *)
(* that are no devices.                                                    *)

Here == Last(Top.walk)
Walking(pc) == (Running("broadcast") \/ Running("devices")) /\ Top.pc = pc

IsFirstVisit(v) == v.node # TreeRoot /\ v.next = ChildFirst(v.node)

WithWalk(walk) ==
  [Top EXCEPT !.walk = walk, !.pc = IF IsFirstVisit(Last(walk)) THEN "visit" ELSE "go"]

SkipChildren(v) == v.status \in {"broken", "gone"}

NextDevice_Behind(v) ==
  IF v.next = Null THEN Null
  ELSE First({i \in Kids(v.node) : i > Place(v.next) /\ Kind[created[i]] = "device"})

\* The next device from the next child on: at the methods before it nothing
\* happens, and they have no children.
NextDevice(v) ==
  IF v.next = Null THEN Null
  ELSE First({i \in Kids(v.node) : i >= Place(v.next) /\ Kind[created[i]] = "device"})

WalkOn ==
  /\ Walking("go")
  /\ LET up == Front(Top.walk)
         d == NextDevice(Here)
     IN IF d = Null \/ SkipChildren(Here)
        THEN IF up = <<>> THEN Return ELSE Continue([Top EXCEPT !.walk = up])
        ELSE IF Len(Top.walk) >= TreeMaxDepth THEN Return
        ELSE Continue(WithWalk(up \o <<[Here EXCEPT !.next = Sibling(d)], Visit(d)>>))
  /\ UNCHANGED <<created, tables, complete, handlers, inited, registrations, history>>

\* The result of a _REG method is ignored, and so is that it was called before.
BroadcastVisits ==
  /\ Walking("visit") /\ Top.op = "broadcast"
  /\ LET reg == Method(Here.node, "_REG")
         on == [Top EXCEPT !.pc = "go"]
     IN IF reg = Null THEN Continue(on) /\ UNCHANGED told
        ELSE /\ ContinueAndCall(on, Invoke(reg, "_REG"))
             /\ told' = [told EXCEPT ![reg][Top.space] = Top.enable]
  /\ UNCHANGED <<created, tables, complete, handlers, inited, registrations,
                 asked, announced, reentered, unsure, wanted>>

\* The root initialisers are called once, before the first walk.
RootInitializer ==
  /\ At("devices", "roots")
  /\ LET todo == {i \in Top.i..Len(RootInitializers) :
                     RootInitializers[i] \in Live /\ ~inited[RootInitializers[i]]}
     IN IF todo = {} THEN Continue(DeviceWalk)
        ELSE ContinueAndCall([Top EXCEPT !.i = Min(todo) + 1],
                             Invoke(RootInitializers[Min(todo)], "root"))
  /\ UNCHANGED <<created, tables, complete, handlers, inited, registrations, history>>

\* The children of a device are skipped when its status says that it does not
\* function; an error in _STA or _INI skips nothing, and a device that is
\* initialised is not asked again.
VisitedWith(status) ==
  [Top EXCEPT !.pc = "go", !.walk = Append(Front(@), [Here EXCEPT !.status = status])]

InitializeDevice(status) ==
  /\ At("devices", "visit")
  /\ LET d == Here.node
         ini == Method(d, "_INI")
     IN IF inited[d]
        THEN Continue([Top EXCEPT !.pc = "go"]) /\ UNCHANGED asked
        ELSE /\ asked' = [asked EXCEPT ![d] = IF SkipChildren([status |-> status])
                                              THEN "cut" ELSE "answered"]
             /\ IF status = "ready" /\ ini # Null
                THEN ContinueAndCall(VisitedWith(status), Invoke(ini, "_INI"))
                ELSE Continue(VisitedWith(status))
  /\ UNCHANGED <<created, tables, complete, handlers, inited, registrations,
                 told, announced, reentered, unsure, wanted>>

-----------------------------------------------------------------------------
(* The methods that the walks call. Their code does what it likes; it may  *)
(* load a table. The tables' own calls of methods are part of the passes.  *)

MethodLoads(t) ==
  /\ Running("method") /\ ~Top.loaded /\ tables[t] = "new"
  /\ ContinueAndCall([Top EXCEPT !.loaded = TRUE], Load(t, "code"))
  /\ tables' = [tables EXCEPT ![t] = "running"]
  /\ reentered' = reentered \cup {d \in Devices : \E i \in DOMAIN stack : InitializedBy(stack[i], d)}
  /\ UNCHANGED <<created, complete, handlers, inited, registrations,
                 told, asked, announced, unsure, wanted>>

MethodFails ==
  /\ Running("method")
  /\ Return
  /\ inited' = [inited EXCEPT ![Top.node] = @ \/ Top.why = "root"]
  /\ UNCHANGED <<created, tables, complete, handlers, registrations, history>>

\* A device is announced to the host and then marked as initialised.
MethodEnds ==
  /\ Running("method")
  /\ IF Top.why = "_INI"
     THEN /\ Continue([op |-> "host", node |-> Parent[Top.node]])
          /\ announced' = [announced EXCEPT ![Parent[Top.node]] = @ + 1]
     ELSE Return /\ UNCHANGED announced
  /\ inited' = [inited EXCEPT ![Top.node] = @ \/ Top.why = "root"]
  /\ UNCHANGED <<created, tables, complete, handlers, registrations,
                 told, asked, reentered, unsure, wanted>>

HostReturns_Unmarked ==
  /\ Running("host")
  /\ Return
  /\ UNCHANGED <<created, tables, complete, handlers, inited, registrations, history>>

HostReturns ==
  /\ Running("host")
  /\ Return
  /\ inited' = [inited EXCEPT ![Top.node] = TRUE]
  /\ UNCHANGED <<created, tables, complete, handlers, registrations, history>>

-----------------------------------------------------------------------------
(* The specification.                                                      *)

Library ==
  \/ NamespacePass \/ FullPassEnds \/ LoadedCodeRegs
  \/ CompleteRegs \/ CompleteClears
  \/ WalkOn \/ BroadcastVisits \/ RootInitializer
  \/ \E status \in Statuses : InitializeDevice(status)
  \/ MethodFails \/ MethodEnds \/ HostReturns
  \/ \E t \in Tables : FullPassLoads(t) \/ MethodLoads(t)

Next ==
  \/ Library
  \/ \E t \in Tables : HostLoads(t)
  \/ \E initialize \in BOOLEAN : CompleteInitialLoad(initialize)
  \/ \E s \in SpaceTypes, enable, call \in BOOLEAN : RegisterHandler(s, enable, call)

Spec == Init /\ [][Next]_vars

-----------------------------------------------------------------------------
(* The properties. *)

IsTold(n, s) == s \in Quiet \cup unsure \/ told[n][s] = handlers[s].enable

\* When no call is in progress, each device's _REG method of a table that was loaded
\* has last been told what is true of each region space; except for the ones
\* that were registered without calls of _REG after the initial load, or while
\* a broadcast of the same space was under way (AmlBroadcastRegionSpaceState-
\* Update, and its three callers).
EveryoneIsTold ==
  Idle /\ complete =>
    \A n \in Live, s \in SpaceTypes :
      Kind[n] = "_REG" /\ Parent[n] \in Devices /\ tables[TableOf(n)] = "loaded" => IsTold(n, s)

\* While the _INI method of a device runs, the _REG method that was declared with
\* the device has been told of every handler: the broadcasts come before the
\* initialisation in all orders of loads and registrations. A table that failed
\* leaves its devices behind, and a walk that was under way then comes to them
\* without a broadcast.
ToldBeforeInit ==
  \A i \in DOMAIN stack : Ini(stack[i]) =>
    LET d == Parent[stack[i].node]
        reg == Method(d, "_REG")
    IN reg # Null /\ TableOf(reg) = TableOf(d)
         /\ tables[TableOf(reg)] \in {"running", "loaded"} =>
         \A s \in SpaceTypes : IsTold(reg, s) \/ Broadcasting(s)

\* An _INI method runs only for a device that was found present and
\* functioning, and no walk is below a device that it found not to function.
OnlyWorkingDevices ==
  \A i \in DOMAIN stack : stack[i].op = "devices" =>
    LET w == stack[i].walk
    IN /\ \A j \in 1..Len(w) - 1 : w[j].status \notin {"broken", "gone"}
       /\ i < Len(stack) /\ Ini(stack[i + 1]) =>
            w[Len(w)].status = "ready" /\ Parent[stack[i + 1].node] = w[Len(w)].node

\* The host hears of a device once, unless a table is loaded by its _INI, or by
\* a _REG method that the host's callback leads to: that load walks over the
\* device, which is marked only after the callback, and calls its _INI again.
AnnouncedOnce == \A d \in Devices : announced[d] > 1 => d \in reentered

\* Devices are initialised where _STA allows it and once.
InitializedOnce == TypeOK /\ OnlyWorkingDevices /\ AnnouncedOnce

\* A walk passes over no device: when devices were to be initialised and no
\* call is in progress, each device of a loaded table has been initialised or
\* asked, or it is below one that answered that it does not function.
Above[n \in Entries] == IF n = TreeRoot THEN {} ELSE {Parent[n]} \cup Above[Parent[n]]

NobodyIsForgotten ==
  Idle /\ wanted =>
    \A d \in Devices \cap Live : tables[TableOf(d)] = "loaded" =>
      \/ inited[d] \/ asked[d] # "never"
      \/ \E a \in Above[d] \cap Devices : ~inited[a] /\ asked[a] = "cut"

\* No method is called whose code is in memory that was freed.
MethodsHaveCode ==
  \A i \in DOMAIN stack : stack[i].op = "method" =>
    tables[TableOf(stack[i].node)] # "freed"
==============================================================================
