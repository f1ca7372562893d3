CONSTANTS
  Typedefs <- MCTypedefs
  Rules <- MicrosecondRules
  Entries <- MCEntries
  Defaults <- MCDefaults
  OutOfRange <- MCOutOfRange
SPECIFICATION Spec
INVARIANTS
  OfferedUnitsAreAccepted
