------------------------------- MODULE Arena -------------------------------
(***************************************************************************)
(* The arena allocator (aml_arena.c): memory is cut linearly from chunks   *)
(* in a doubly linked active list; snapshots of the allocation point nest, *)
(* and rolling one back gives the chunks begun after it to a free list     *)
(* from which later chunks are taken before the backend is asked.          *)
(*                                                                         *)
(* Sizes are in units of AML_ARENA_MIN_ALIGNMENT.  The state is the heap   *)
(* of chunk headers, pointer by pointer, since what can go wrong is in the *)
(* pointers; the contents of the chunks are left out.                      *)
(***************************************************************************)
EXTENDS Integers, Sequences, FiniteSets

CONSTANTS Chunks,        \* addresses the backend may return
          Null,          \* the NULL pointer
          BaseChunkSize, \* data size of an ordinary chunk
          Sizes,         \* bound: data sizes that are asked for
          MaxSnapshots,  \* bound: snapshots outstanding at a time
          MaxLive        \* bound: allocations that no rollback has invalidated

ASSUME ArenaAssumption ==
  /\ IsFiniteSet(Chunks) /\ Null \notin Chunks
  /\ BaseChunkSize \in Nat /\ Sizes \subseteq Nat
  /\ MaxSnapshots \in Nat /\ MaxLive \in Nat

VARIABLES
  chunkList,     \* Arena->ChunkList, [first, last]
  freeList,      \* Arena->ChunkFreeList, [first, last]
  next, prev,    \* links of the chunk headers
  used, total,   \* UsedSize and TotalSize of the chunk headers
  current,       \* Arena->CurrentChunk
  snapshotCount, \* Arena->SnapshotCount
  backed,        \* chunks the backend has lent to the arena
  snapshots,     \* snapshots the callers still have to finish, oldest first
  live,          \* allocations not yet invalidated by a rollback, in order
  unlinked,      \* history: a rollback has cut chunks off the active list
  exhausted,     \* history: the backend has refused a chunk
  phase          \* "open", "released", or "looping" in AmlArenaRelease

listVars == <<chunkList, freeList, next, prev>>
vars == <<chunkList, freeList, next, prev, used, total, current,
          snapshotCount, backed, snapshots, live, unlinked, exhausted, phase>>

Nowhere == [first |-> Null, last |-> Null]

Init ==
  /\ chunkList = Nowhere /\ freeList = Nowhere
  /\ next = [c \in Chunks |-> Null] /\ prev = [c \in Chunks |-> Null]
  /\ used = [c \in Chunks |-> 0] /\ total = [c \in Chunks |-> 0]
  /\ current = Null /\ snapshotCount = 0
  /\ backed = {} /\ snapshots = <<>> /\ live = <<>>
  /\ unlinked = FALSE /\ exhausted = FALSE /\ phase = "open"

\* What the program can reach from a list's head and from a list's tail.
Along(link, from) ==
  LET nth[k \in 0..Cardinality(Chunks)] ==
        IF k = 0 THEN from
        ELSE IF nth[k - 1] = Null THEN Null ELSE link[nth[k - 1]]
  IN  nth
Reach(link, from) ==
  {Along(link, from)[k] : k \in 0..Cardinality(Chunks)} \ {Null}
Endless(link, from) == Along(link, from)[Cardinality(Chunks)] # Null

-----------------------------------------------------------------------------
(* The chunk lists.  An operator yields the links and the list it leaves. *)

Insert(n, p, list, e) ==
  [next |-> IF list.last # Null THEN [n EXCEPT ![list.last] = e] ELSE n,
   prev |-> [p EXCEPT ![e] = list.last],
   list |-> [first |-> IF list.first = Null THEN e ELSE list.first,
             last  |-> e]]

Remove(n, p, list, e) ==
  LET n1 == IF p[e] # Null THEN [n EXCEPT ![p[e]] = n[e]] ELSE n
      p1 == IF n[e] # Null THEN [p EXCEPT ![n[e]] = p[e]] ELSE p
  IN  [next |-> [n1 EXCEPT ![e] = Null],
       prev |-> [p1 EXCEPT ![e] = Null],
       list |-> [first |-> IF list.first = e THEN n1[e] ELSE list.first,
                 last  |-> IF list.last = e THEN p1[e] ELSE list.last]]

\* AmlArenaTryReclaimFreeChunk: the first chunk from the tail that is large
\* enough.
Reclaimable(size) ==
  LET nth == Along(prev, freeList.last)
      stop == {k \in DOMAIN nth : nth[k] = Null \/ total[nth[k]] >= size}
  IN  IF stop = {} THEN Null ELSE nth[CHOOSE k \in stop : \A j \in stop : k <= j]

-----------------------------------------------------------------------------
(* AmlArenaAllocate *)

\* The alignment of the allocation's base may cost up to one unit.
AllocationSize(size) == size + 1

Fits(size) ==
  current # Null /\ total[current] - used[current] >= AllocationSize(size)

MayAllocate == phase = "open" /\ Len(live) < MaxLive

Handout(c, from, size) ==
  live' = Append(live, [chunk |-> c, from |-> from,
                        to |-> from + AllocationSize(size)])

Bump(size) ==
  /\ MayAllocate /\ Fits(size)
  /\ used' = [used EXCEPT ![current] = @ + AllocationSize(size)]
  /\ Handout(current, used[current], size)
  /\ UNCHANGED <<listVars, total, current, snapshotCount, backed, snapshots,
                 unlinked, exhausted, phase>>

ChunkDataSize(size) ==
  IF AllocationSize(size) > BaseChunkSize THEN AllocationSize(size)
  ELSE BaseChunkSize

\* A chunk that exceeds the base chunk size is never looked for.
FreeChunk(size) ==
  IF ChunkDataSize(size) <= BaseChunkSize THEN Reclaimable(AllocationSize(size))
  ELSE Null

\* AmlArenaCreateChunk with a chunk of the free list.
BeginReclaimed(size) ==
  LET c == FreeChunk(size)
      out == Remove(next, prev, freeList, c)
      in == Insert(out.next, out.prev, chunkList, c)
  IN  /\ MayAllocate /\ ~Fits(size) /\ c # Null
      /\ freeList' = out.list /\ chunkList' = in.list
      /\ next' = in.next /\ prev' = in.prev
      /\ used' = [used EXCEPT ![c] = AllocationSize(size)]
      /\ current' = c
      /\ Handout(c, 0, size)
      /\ UNCHANGED <<total, snapshotCount, backed, snapshots, unlinked,
                     exhausted, phase>>

\* AmlArenaBackendAllocateNewChunk.
BeginNew(size) ==
  /\ MayAllocate /\ ~Fits(size) /\ FreeChunk(size) = Null
  /\ \E c \in Chunks \ backed :
       LET in == Insert([next EXCEPT ![c] = Null], prev, chunkList, c)
       IN  /\ backed' = backed \cup {c}
           /\ total' = [total EXCEPT ![c] = ChunkDataSize(size)]
           /\ used' = [used EXCEPT ![c] = AllocationSize(size)]
           /\ chunkList' = in.list /\ next' = in.next /\ prev' = in.prev
           /\ current' = c
           /\ Handout(c, 0, size)
  /\ UNCHANGED <<freeList, snapshotCount, snapshots, unlinked, exhausted,
                 phase>>

\* The backend has no memory: AmlArenaAllocate assigns the NULL it returns to
\* CurrentChunk.
BackendRefuses(size) ==
  /\ MayAllocate /\ ~Fits(size) /\ FreeChunk(size) = Null
  /\ current' = Null /\ exhausted' = TRUE
  /\ UNCHANGED <<listVars, used, total, snapshotCount, backed, snapshots,
                 live, unlinked, phase>>

-----------------------------------------------------------------------------
(* Snapshots.  The callers finish their snapshots last in, first out; some  *)
(* return early and leave one unfinished. *)

\* The allocation point inside the chunk is not recorded.
Snapshot_NoUsed ==
  /\ phase = "open" /\ snapshotCount < MaxSnapshots
  /\ snapshots' = Append(snapshots, [index |-> snapshotCount,
       chunk |-> current, used |-> 0, kept |-> Len(live)])
  /\ snapshotCount' = snapshotCount + 1
  /\ UNCHANGED <<listVars, used, total, current, backed, live, unlinked,
                 exhausted, phase>>

Snapshot ==
  /\ phase = "open" /\ snapshotCount < MaxSnapshots
  /\ snapshots' = Append(snapshots,
       [index |-> snapshotCount, chunk |-> current,
        used  |-> IF current # Null THEN used[current] ELSE 0,
        kept  |-> Len(live)])
  /\ snapshotCount' = snapshotCount + 1
  /\ UNCHANGED <<listVars, used, total, current, backed, live, unlinked,
                 exhausted, phase>>

Top == snapshots[Len(snapshots)]
InOrder == Top.index = snapshotCount - 1
Finish == snapshots' = SubSeq(snapshots, 1, Len(snapshots) - 1)
Finishing == phase = "open" /\ snapshots # <<>>

Commit ==
  /\ Finishing /\ InOrder /\ Finish
  /\ snapshotCount' = snapshotCount - 1
  /\ UNCHANGED <<listVars, used, total, current, backed, live, unlinked,
                 exhausted, phase>>

\* Commit or rollback of a snapshot that is not the latest: no effect.
OutOfOrder ==
  /\ Finishing /\ ~InOrder /\ Finish
  /\ UNCHANGED <<listVars, used, total, current, snapshotCount, backed, live,
                 unlinked, exhausted, phase>>

\* An early return between a snapshot and its rollback.
Abandon ==
  /\ Finishing /\ Finish
  /\ UNCHANGED <<listVars, used, total, current, snapshotCount, backed, live,
                 unlinked, exhausted, phase>>

\* AmlArenaReset: all active chunks go to the tail of the free list.
Reset ==
  LET head == chunkList.first
  IN  IF head # Null
      THEN /\ prev' = [prev EXCEPT ![head] = freeList.last]
           /\ next' = IF freeList.last # Null
                      THEN [next EXCEPT ![freeList.last] = head] ELSE next
           /\ freeList' = [first |-> IF freeList.first # Null
                                     THEN freeList.first ELSE head,
                           last  |-> chunkList.last]
           /\ chunkList' = Nowhere
      ELSE UNCHANGED listVars

\* Unlinks the chunks that follow the snapshot's, and moves them to the free
\* list, whose tail becomes what the active list's tail now is.
Transplant(head) ==
  LET before == prev[head]
      n1 == IF before # Null THEN [next EXCEPT ![before] = Null] ELSE next
      p1 == IF before # Null THEN [prev EXCEPT ![head] = Null] ELSE prev
      last == IF chunkList.last # head THEN chunkList.last ELSE Null
  IN  /\ chunkList' = [first |-> IF chunkList.first # head
                                 THEN chunkList.first ELSE Null,
                       last  |-> last]
      /\ prev' = IF freeList.last # Null
                 THEN [p1 EXCEPT ![head] = freeList.last] ELSE p1
      /\ next' = IF freeList.last # Null
                 THEN [n1 EXCEPT ![freeList.last] = head] ELSE n1
      /\ freeList' = [first |-> IF freeList.first # Null
                                THEN freeList.first ELSE head,
                      last  |-> last]

Rollback ==
  /\ Finishing /\ InOrder /\ Finish
  /\ \/ Top.chunk = Null /\ Reset /\ UNCHANGED <<used, unlinked>>
     \/ /\ Top.chunk # Null
        /\ IF next[Top.chunk] # Null
           THEN Transplant(next[Top.chunk]) /\ unlinked' = TRUE
           ELSE UNCHANGED <<listVars, unlinked>>
        /\ used' = [used EXCEPT ![Top.chunk] = Top.used]
  /\ current' = Top.chunk
  /\ snapshotCount' = snapshotCount - 1
  /\ live' = SubSeq(live, 1, Top.kept)
  /\ UNCHANGED <<total, backed, exhausted, phase>>

-----------------------------------------------------------------------------
(* AmlArenaRelease, after which the arena is not used again. *)

\* Only the active list is freed.
Release_ActiveOnly ==
  /\ phase = "open"
  /\ backed' = backed \ Reach(next, chunkList.first)
  /\ phase' = "released"
  /\ chunkList' = Nowhere /\ freeList' = Nowhere /\ current' = Null
  /\ live' = <<>> /\ snapshots' = <<>>
  /\ UNCHANGED <<next, prev, used, total, snapshotCount, unlinked, exhausted>>

Release ==
  /\ phase = "open"
  /\ backed' = backed \ (Reach(next, chunkList.first)
                           \cup Reach(next, freeList.first))
  /\ phase' = IF \/ Endless(next, chunkList.first)
                 \/ Endless(next, freeList.first)
              THEN "looping" ELSE "released"
  /\ chunkList' = Nowhere /\ freeList' = Nowhere /\ current' = Null
  /\ live' = <<>> /\ snapshots' = <<>>
  /\ UNCHANGED <<next, prev, used, total, snapshotCount, unlinked, exhausted>>

-----------------------------------------------------------------------------
Allocate ==
  \E size \in Sizes :
    Bump(size) \/ BeginReclaimed(size) \/ BeginNew(size) \/ BackendRefuses(size)

Next ==
  \/ Allocate
  \/ Snapshot \/ Commit \/ OutOfOrder \/ Abandon \/ Rollback
  \/ Release

Spec == Init /\ [][Next]_vars

-----------------------------------------------------------------------------
Pointer == Chunks \cup {Null}

\* The lists hold chunks, each chunk's bump position stays within its size, and
\* the ghosts record what the callers were told.
TypeOK ==
  /\ chunkList \in [first : Pointer, last : Pointer]
  /\ freeList \in [first : Pointer, last : Pointer]
  /\ next \in [Chunks -> Pointer] /\ prev \in [Chunks -> Pointer]
  /\ used \in [Chunks -> Nat] /\ total \in [Chunks -> Nat]
  /\ \A c \in Chunks : used[c] <= total[c]
  /\ current \in Pointer /\ snapshotCount \in Nat
  /\ backed \subseteq Chunks
  /\ \A i \in DOMAIN snapshots :
       snapshots[i] \in [index : Nat, chunk : Pointer, used : Nat, kept : Nat]
  /\ \A i \in DOMAIN live : live[i] \in [chunk : Chunks, from : Nat, to : Nat]
  /\ unlinked \in BOOLEAN /\ exhausted \in BOOLEAN
  /\ phase \in {"open", "released", "looping"}

Overlap(a, b) == a.chunk = b.chunk /\ a.from < b.to /\ b.from < a.to

\* Two allocations that no rollback has invalidated never share memory, and
\* the memory is the arena's.
AllocationsAreDisjoint ==
  /\ \A i, j \in DOMAIN live : i # j => ~Overlap(live[i], live[j])
  /\ \A i \in DOMAIN live :
       live[i].chunk \in backed /\ live[i].to <= total[live[i].chunk]

\* As long as no rollback has had to unlink chunks and the backend has not
\* refused one; then each of the two exceptions alone.
AllocationsAreDisjointAtFirst == ~unlinked /\ ~exhausted => AllocationsAreDisjoint
\* The same while the backend refuses nothing, whatever a rollback unlinks.
AllocationsSurviveUnlinking == ~exhausted => AllocationsAreDisjoint
\* The same while no rollback unlinks, whatever the backend refuses.
AllocationsSurviveRefusal == ~unlinked => AllocationsAreDisjoint

\* A list reads the same from its head and from its tail.
WellLinked(list) ==
  /\ ~Endless(next, list.first) /\ ~Endless(prev, list.last)
  /\ Reach(next, list.first) = Reach(prev, list.last)
  /\ \A c \in Reach(next, list.first) :
       next[c] # Null => prev[next[c]] = c

\* Every chunk the backend has lent is in exactly one of the two lists.
ChunksAreListed ==
  phase = "open" =>
    /\ WellLinked(chunkList) /\ WellLinked(freeList)
    /\ Reach(next, chunkList.first) \cap Reach(next, freeList.first) = {}
    /\ Reach(next, chunkList.first) \cup Reach(next, freeList.first) = backed

\* As long as no rollback has had to unlink chunks.
ChunksAreListedAtFirst == ~unlinked => ChunksAreListed

\* Releasing the arena gives every chunk back to the backend.
ReleaseFreesAll == phase # "open" => backed = {} /\ phase = "released"

\* As long as no rollback has had to unlink chunks.
ReleaseFreesAllAtFirst == ~unlinked => ReleaseFreesAll

\* What an outstanding snapshot will return to is still there: its chunk is
\* active, and has not been emptied below the snapshot's allocation point.
SnapshotsStayValid ==
  ~unlinked /\ ~exhausted =>
    \A i \in DOMAIN snapshots :
      snapshots[i].chunk # Null =>
        /\ snapshots[i].chunk \in Reach(next, chunkList.first)
        /\ snapshots[i].used <= used[snapshots[i].chunk]

\* Until a rollback unlinks chunks: the lists hold every chunk once, the release gives
\* them all back, and outstanding snapshots find what they refer to.
ChunksAreSoundAtFirst ==
  TypeOK /\ ChunksAreListedAtFirst /\ ReleaseFreesAllAtFirst /\ SnapshotsStayValid

\* Every snapshot is committed or rolled back in the end: a program without
\* snapshots to finish has left none behind.
SnapshotsAreFinished == phase = "open" /\ snapshots = <<>> => snapshotCount = 0
=============================================================================
