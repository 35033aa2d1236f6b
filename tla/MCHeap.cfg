CONSTANTS
  Blocks = {b1, b2, b3, b4}
  Null = Null
  MaxBin = 3
  Sizes = {0, 1, 2, 3, 5, 8}
SPECIFICATION HeapSpec
SYMMETRY Addresses
INVARIANTS BinsAreDisjoint RequestsStayInside
CHECK_DEADLOCK FALSE
