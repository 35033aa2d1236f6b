CONSTANTS
  a = a
  b = b
  Nodes = {n0, n1, n2, n3}
  RootNode = n0
  TreeRoot = root
  Null = null
  NameStrings <- MCNames
  AliasNames <- MCAliases
  MaxLevel = 3
  MaxPath = 3
SPECIFICATION Spec
SYMMETRY Addresses
INVARIANTS IndexesAreSound TreeAgreesAtFirst TemporaryNodesEndAtFirst
PROPERTIES PermanentNodesStay
CHECK_DEADLOCK FALSE
