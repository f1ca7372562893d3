CONSTANTS
  a = a
  b = b
  v = v
  w = w
  nil = nil
  Name = {a, b}
  Spelled = {a, b}
  Value = {v, w}
  None = None
  Fallbacks <- NoFallback
  MaxDepth = 3
  File = {f}
  HashFile = {}
  Opaque = FALSE
  RootedCopy = FALSE
  Chop <- SameName
  MaxStmts = 2
  MaxFiles = 2
SPECIFICATION FilledSpec
INVARIANTS
  AssertionsHold
  SeparateCopyIsExact
CHECK_DEADLOCK FALSE
