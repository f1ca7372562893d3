SPECIFICATION Spec
CONSTANTS
  Object = {o1, o2, o3}
  None = None
  Default = Default
SYMMETRY Symmetry
INVARIANTS
  DestroyedOnce
  NoDanglingPointer
  NothingElseIsForgotten
  OwnedSecurityAnswers
PROPERTIES
  ExceptionChangesNothing
