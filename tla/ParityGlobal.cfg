\* An initialiser that overflows an int, folded and evaluated.
CONSTANTS
  Radix = 4
  Word = 4
  DataBase = 4
  HeapBase = 40
  HeapSize = 44
  StackBase = 84
  MemSize = 200
  ValueStackMax = 20
  CallStackMax = 5
  NativeMaxArgs = 6
  Compiled = {}
  Programs <- MCPairs
SPECIFICATION ParitySpec
INVARIANTS
  SameOutcome
\* The second build's stop is the end.
CHECK_DEADLOCK FALSE
