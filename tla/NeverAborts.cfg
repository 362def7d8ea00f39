\* Lengths of arrays, which are evaluated while they are parsed.
CONSTANTS
  Radix = 4
  Word = 4
  DataBase = 4
  HeapBase = 40
  HeapSize = 44
  StackBase = 84
  MemSize = 200
  MaxDepth = 4
  MaxParams = 2
  MaxFields = 2
  MaxStructs = 2
  MaxNesting = 3
  Literals <- MCLiterals
  Canonical <- MCCanonical
  ParserFor <- ParserOf
  AtEnd <- AtEof
  TopDecl <- MCTopDecl
  ProgramOf <- Parsed
  Checked <- MCChecked
  Built <- MCBuilt
  Grammars <- MCGrammars
  Projects <- MCLengths
SPECIFICATION Spec
INVARIANTS
  NeverAborts
