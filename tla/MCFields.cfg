CONSTANTS
  CharBit = 2
  IntChars = 2
  Chars = 5
  Window = 1
  Cells = 2
  FieldOf <- FieldTable
  Stored <- Data
  MaxOps = 2
  MaxFirmwareWrites = 2
SPECIFICATION Spec
INVARIANTS StoresAreExactAtFirst ReadsAreExact 
 
CHECK_DEADLOCK FALSE
