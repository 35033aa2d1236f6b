CONSTANTS
  NibbleBits = 2
  WordBytes = 2
  HalfBytes = 1
  DecRadix = 3
  OctRadix = 2
  NamedValues <- MCNamed
  LocalValues <- MCLocal
  Package <- MCPackage
  Sources <- MCSources
  Results <- MCResults
  MaxOps = 2
SPECIFICATION Spec
INVARIANTS TerminatorsFit  OperatorsAgree
  
CHECK_DEADLOCK FALSE
