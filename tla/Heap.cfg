\* Every order of malloc, free, double free and wild free on a 20-unit arena.
CONSTANTS
  HeapBase = 2
  HeapSize = 20
  HdrSize = 3
  MinTail = 2
  WordMod = 32
  Requests <- MCRequests
  WildPointers <- MCWildPointers
SPECIFICATION Spec
INVARIANTS
  TypeOK
  Tiled
  FreeListExact
  NullMeansFull
PROPERTIES
  LiveBlocksUntouched
  KeepsPromise
\* A refused free ends the program.
CHECK_DEADLOCK FALSE
