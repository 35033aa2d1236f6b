CONSTANTS
  Chunks = {c1, c2, c3}
  Null = Null
  BaseChunkSize = 4
  Sizes = {1, 4}
  MaxSnapshots = 2
  MaxLive = 3
SPECIFICATION Spec
SYMMETRY Addresses
INVARIANTS AllocationsAreDisjointAtFirst ChunksAreSoundAtFirst
CHECK_DEADLOCK FALSE
