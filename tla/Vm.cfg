\* Compiled programs of every statement and expression form, and every
\* three-instruction bytecode over pushes, jumps, calls and returns.
CONSTANTS
  Radix = 4
  Word = 4
  DataBase = 4
  HeapBase = 40
  HeapSize = 44
  StackBase = 84
  MemSize = 200
  ValueStackMax = 20
  CallStackMax = 5
  NativeMaxArgs = 6
  Programs <- MCPrograms
  Compiled <- MCCompiled
  Shapes <- MCShapes
SPECIFICATION Spec
INVARIANTS
  TypeOK
  FramesTile
  CallsBalanced
  TagsAgree
  AccessesInsideFrames
  ResultOutsideFrame
  NoInternalFault
  CompiledVerified
PROPERTIES
  Halts
\* A stopped program takes no more steps, nor a return outside every call.
CHECK_DEADLOCK FALSE
