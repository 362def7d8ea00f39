\* Requests of 2^32 bytes and more, which the native narrows to uint32_t.
CONSTANTS
  HeapBase = 2
  HeapSize = 20
  HdrSize = 3
  MinTail = 2
  WordMod = 32
  Requests <- MCLongRequests
  WildPointers <- MCWildPointers
SPECIFICATION Spec
INVARIANT EnoughOrNull
CHECK_DEADLOCK FALSE
