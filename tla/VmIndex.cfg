\* The index of a pointer is a char, and its scaling meets an int.
CONSTANTS
  Radix = 4
  Word = 4
  DataBase = 4
  HeapBase = 40
  HeapSize = 44
  StackBase = 84
  MemSize = 200
  ValueStackMax = 20
  CallStackMax = 5
  NativeMaxArgs = 6
  Compiled <- MCCompiled
  Programs <- MCIndex
SPECIFICATION Spec
INVARIANTS
  TagsAgree
\* A program that has halted or been stopped takes no more steps.
CHECK_DEADLOCK FALSE
