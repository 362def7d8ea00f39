\* A void function leaves an operand its caller never asked for.
CONSTANTS
  Radix = 4
  Word = 4
  DataBase = 4
  HeapBase = 40
  HeapSize = 44
  StackBase = 84
  MemSize = 200
  ValueStackMax = 20
  CallStackMax = 5
  NativeMaxArgs = 6
  Compiled <- MCCompiled
  Programs <- MCVoid
SPECIFICATION Spec
INVARIANTS
  CallsBalanced
\* A program that has halted or been stopped takes no more steps.
CHECK_DEADLOCK FALSE
