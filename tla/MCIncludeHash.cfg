CONSTANTS
  a = a
  b = b
  v = v
  w = w
  nil = nil
  Name = {a}
  Spelled = {a}
  Value = {v}
  None = None
  Fallbacks <- NoFallback
  MaxDepth = 1
  File = {f}
  HashFile = {f}
  Opaque = FALSE
  RootedCopy = FALSE
  Chop <- SameName
  MaxStmts = 2
  MaxFiles = 2
SPECIFICATION Spec
INVARIANTS
  NoRecursiveInclude
