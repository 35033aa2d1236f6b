-------------------------------- MODULE Heap --------------------------------
(***************************************************************************)
(* The binned heap (aml_heap.c): a freed block goes to the head of the bin *)
(* of its size, a power of two, and an allocation pops the head of its bin *)
(* before it takes a new block from the arena.  The arena never moves or   *)
(* takes back a block; it may be out of memory.                            *)
(***************************************************************************)
EXTENDS Integers, FiniteSets

CONSTANTS Blocks,  \* addresses of blocks the arena may hand out
          Null,    \* the NULL pointer
          MaxBin,  \* bound: the largest bin that is used
          Sizes    \* bound: sizes that are asked for

\* What the blocks of a bin hold: Size, once the bin is known.
BinSize[i \in 0..MaxBin] == IF i = 0 THEN 1 ELSE 2 * BinSize[i - 1]

ASSUME HeapAssumption ==
  /\ IsFiniteSet(Blocks) /\ Null \notin Blocks
  /\ MaxBin \in Nat \ {0}
  /\ Sizes \subseteq 0..BinSize[MaxBin]

VARIABLES
  bins,     \* Heap->Bins, the head of each bin
  next,     \* Next of the block headers
  dataSize, \* DataSize of the block headers
  asked,    \* for a block in use, the size that was asked for
  inUse,    \* blocks the program has and will free
  freed     \* blocks the program has freed and not got back

heapVars == <<bins, next, dataSize, asked, inUse, freed>>

HeapInit ==
  /\ bins = [i \in 0..MaxBin |-> Null]
  /\ next = [b \in Blocks |-> Null]
  /\ dataSize = [b \in Blocks |-> 0]
  /\ asked = [b \in Blocks |-> 0]
  /\ inUse = {} /\ freed = {}

Used == inUse \cup freed

\* Truncates where the code rounds up.
BinIndexForSize_Down(size) ==
  IF size \in {0, 1} THEN size
  ELSE CHOOSE i \in 0..MaxBin :
         BinSize[i] <= size /\ \A j \in 0..MaxBin : BinSize[j] <= size => j <= i

\* The tightest power of two that holds the size, but 1 is held by 2.
BinIndexForSize(size) ==
  IF size \in {0, 1} THEN size
  ELSE CHOOSE i \in 0..MaxBin :
         BinSize[i] >= size /\ \A j \in 0..MaxBin : BinSize[j] >= size => i <= j

-----------------------------------------------------------------------------
(* AmlHeapAllocate.  The link of the popped block is cleared before it is   *)
(* read, so the bin is left empty.                                          *)

\* The bin's head is not advanced.
Reuse_NoPop(size) ==
  LET bin == BinIndexForSize(size)
      b == bins[bin]
  IN  /\ b # Null
      /\ next' = [next EXCEPT ![b] = Null]
      /\ asked' = [asked EXCEPT ![b] = size]
      /\ inUse' = inUse \cup {b} /\ freed' = freed \ {b}
      /\ UNCHANGED <<bins, dataSize>>

Reuse(size) ==
  LET bin == BinIndexForSize(size)
      b == bins[bin]
  IN  /\ b # Null
      /\ next' = [next EXCEPT ![b] = Null]
      /\ bins' = [bins EXCEPT ![bin] = next'[b]]
      /\ asked' = [asked EXCEPT ![b] = size]
      /\ inUse' = inUse \cup {b} /\ freed' = freed \ {b}
      /\ UNCHANGED dataSize

Take(size) ==
  /\ bins[BinIndexForSize(size)] = Null
  /\ \E b \in Blocks \ Used :
       /\ next' = [next EXCEPT ![b] = Null]
       /\ dataSize' = [dataSize EXCEPT ![b] = BinSize[BinIndexForSize(size)]]
       /\ asked' = [asked EXCEPT ![b] = size]
       /\ inUse' = inUse \cup {b}
  /\ UNCHANGED <<bins, freed>>

\* AmlHeapFree
Free(b) ==
  LET bin == BinIndexForSize(dataSize[b])
  IN  /\ b \in inUse
      /\ next' = [next EXCEPT ![b] = bins[bin]]
      /\ bins' = [bins EXCEPT ![bin] = b]
      /\ inUse' = inUse \ {b} /\ freed' = freed \cup {b}
      /\ UNCHANGED <<dataSize, asked>>

HeapNext ==
  \/ \E size \in Sizes : Reuse(size) \/ Take(size)
  \/ \E b \in Blocks : Free(b)

HeapSpec == HeapInit /\ [][HeapNext]_heapVars

-----------------------------------------------------------------------------
\* The blocks of a bin: its head, and what the links lead to.
Chain(bin) ==
  LET nth[k \in 0..Cardinality(Blocks)] ==
        IF k = 0 THEN bins[bin]
        ELSE IF nth[k - 1] = Null THEN Null ELSE next[nth[k - 1]]
  IN  nth
Binned(bin) == {Chain(bin)[k] : k \in 0..Cardinality(Blocks)} \ {Null}

\* The variables keep their types, and a block has the size of a bin.
HeapTypeOK ==
  /\ bins \in [0..MaxBin -> Blocks \cup {Null}]
  /\ next \in [Blocks -> Blocks \cup {Null}]
  /\ dataSize \in [Blocks -> Nat] /\ asked \in [Blocks -> Nat]
  /\ inUse \subseteq Blocks /\ freed \subseteq Blocks
  /\ inUse \cap freed = {}
  /\ \A b \in Used : \E i \in 0..MaxBin : dataSize[b] = BinSize[i]

\* A freed block is handed out by one bin, once: the links of a bin end, and lead to
\* blocks that the program does not use and that no other bin leads to.
BinsAreDisjoint ==
  /\ HeapTypeOK
  /\ \A i \in 0..MaxBin :
       /\ Chain(i)[Cardinality(Blocks)] = Null
       /\ Binned(i) \subseteq freed
       /\ \A j \in 0..MaxBin : j # i => Binned(i) \cap Binned(j) = {}

\* What the arena adds for the alignment of a block and never needs in full.
Slack == 1

\* Writing the bytes that were asked for never leaves the arena's allocation.
RequestsStayInside == \A b \in inUse : asked[b] <= dataSize[b] + Slack

\* A block is at least as large as what was asked for.
BlocksAreLargeEnough == \A b \in inUse : asked[b] <= dataSize[b]

\* A freed block can be found again by an allocation of its size.
FreedBlocksAreBinned == freed = UNION {Binned(i) : i \in 0..MaxBin}
=============================================================================
