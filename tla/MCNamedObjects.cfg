CONSTANTS
  Cells = {c1, c2, c3}
  Names = {n1, n2, n3}
  Nil = nil
  MaxHeld = 1
SPECIFICATION Spec
SYMMETRY Paths
INVARIANTS ReferencesAreSound NothingLeaksAtFirst HostIsBalanced
PROPERTIES DeclarationsAreFinal
CHECK_DEADLOCK FALSE
