\* Every text of MCLexer, looked at and taken in every order.
CONSTANTS
  Letters <- MCLetters
  Keywords <- MCKeywords
  MaxIdent = 4
  MaxString = 3
  MaxNumber = 6
  IntMax = 99
  LongMax = 999
  Texts <- MCTexts
  Scan <- ScanToken
SPECIFICATION Spec
INVARIANTS
  TypeOK
  LongestMatch
  NeverStuck
  ErrorsOnce
PROPERTIES
  InOrder
