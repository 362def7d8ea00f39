\* Every project of MCFrontEnd, from the text to the bytecode.
CONSTANTS
  Radix = 4
  Word = 4
  DataBase = 4
  HeapBase = 40
  HeapSize = 44
  StackBase = 84
  MemSize = 200
  MaxDepth = 4
  MaxParams = 2
  MaxFields = 2
  MaxStructs = 2
  MaxNesting = 3
  Literals <- MCLiterals
  Canonical <- MCCanonical
  ParserFor <- ParserOf
  AtEnd <- AtEof
  TopDecl <- MCTopDecl
  ProgramOf <- Parsed
  Checked <- MCChecked
  Built <- MCBuilt
  Grammars <- MCGrammars
  Projects <- MCProjects
SPECIFICATION Spec
INVARIANTS
  TypeOK
  AcceptsTheGrammar
  FullyTyped
  JumpsHaveTargets
  NestingComesBack
  CodeStaysInside
  EndsAsReported
  OpenOnce
  SourceMapExact
  ExpandedAsWritten
PROPERTIES
  TurnsAdvance
  Finishes
