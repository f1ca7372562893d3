CONSTANTS
  a = a
  b = b
  v = v
  w = w
  nil = nil
  Name = {a}
  Spelled = {a}
  Value = {v}
  None = None
  Fallbacks <- NoFallback
  MaxDepth = 2
  File = {f, g}
  HashFile = {}
  Opaque = TRUE
  RootedCopy = TRUE
  Chop <- SameName
  MaxStmts = 3
  MaxFiles = 3
SPECIFICATION FairSpec
INVARIANTS
  NoRecursiveInclude
  OneClauseRuns
PROPERTIES
  FileStackMatches
  EveryParseReturns
