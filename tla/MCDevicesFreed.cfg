SPECIFICATION Spec
CONSTANTS
  Tables <- MCTables
  Nodes <- MCNodes
  Declares <- Names
  Parent <- MCParent
  Kind <- MCKind
  RootInitializers <- MCRootInitializers
  Spaces <- MCSpaces
  TreeRoot = "top"
  Null = "null"
  Quiet = {"memory"}
  Statuses = {"ready", "absent", "broken"}
  StartDepth = 3
  Breaks = {2}
  MaxRegistrations = 2
INVARIANT MethodsHaveCode
CHECK_DEADLOCK FALSE
