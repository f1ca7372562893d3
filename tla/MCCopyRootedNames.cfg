CONSTANTS
  a = a
  b = b
  v = v
  w = w
  nil = nil
  Name = {a, b, nil}
  Spelled = {a, b}
  Value = {v, w}
  None = None
  Fallbacks <- NoFallback
  MaxDepth = 3
  File = {f}
  HashFile = {}
  Opaque = FALSE
  RootedCopy = TRUE
  Chop <- ChopToEmpty
  MaxStmts = 2
  MaxFiles = 2
SPECIFICATION FilledSpec
INVARIANTS
  CopyArrives
CHECK_DEADLOCK FALSE
