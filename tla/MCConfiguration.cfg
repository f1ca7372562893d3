CONSTANTS
  a = a
  b = b
  v = v
  w = w
  Name = {a, b}
  Value = {v, w}
  None = None
  Fallbacks <- MCFallbacks
  MaxDepth = 2
SPECIFICATION ConfigSpec
INVARIANTS
  InnermostIsFound
PROPERTIES
  RefusedCallChangesNothing
