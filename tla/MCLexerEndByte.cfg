SPECIFICATION Spec
CHECK_DEADLOCK FALSE
CONSTANTS
  Base = 2
  Width = 2
  Source <- MCSource
  Keyword <- MCKeyword
  Function <- MCFunction
  UidLexer = TRUE
  SignedChar = TRUE
  Alphabet <- MCAlphabet
INVARIANTS
  WholeSourceIsRead
