CONSTANTS
  Typedefs <- MCTypedefs
  Rules <- MCRules
  Entries <- MCEntries
  Defaults <- MCDefaults
  OutOfRange <- MCOutOfRange
SPECIFICATION Spec
INVARIANTS
  AssertionsHold
  AcceptedIsFound
  RangeIsOrder
  TableIsTuples
  TypedefMeansBase
PROPERTIES
  AbsentGivesDefault
