CONSTANTS
  a = a
  b = b
  v = v
  w = w
  nil = nil
  Name = {a, b}
  Spelled = {a, b}
  Value = {v}
  None = None
  Fallbacks <- NoFallback
  MaxDepth = 2
  File = {f}
  HashFile = {}
  Opaque = FALSE
  RootedCopy = FALSE
  Chop <- SameName
  MaxStmts = 2
  MaxFiles = 2
SPECIFICATION Spec
INVARIANTS
  TypeOK
  ScopesLive
  ScopesNest
PROPERTIES
  ParseRestoresScope
  KindIsKept
  OnlyBelowCurrScope
  ImplementsStore
SYMMETRY NamesAlike
