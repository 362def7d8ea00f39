\* Programs that free what malloc returned, once or twice, and store in it.
CONSTANTS
  HeapBase = 2
  HeapSize = 13
  Word = 1
  Radix = 32
  WordMod = 32
  Requests <- MCRequests
  WildPointers <- MCWildPointers
  Stored <- MCStored
SPECIFICATION Spec
INVARIANTS
  TypeOK
  ListIsBlocks
PROPERTIES
  ProgramDataKept
  ImplementsHeap
\* A refused free ends the program.
CHECK_DEADLOCK FALSE
