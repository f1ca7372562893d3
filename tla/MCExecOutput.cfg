SPECIFICATION Spec
CHECK_DEADLOCK FALSE
CONSTANTS
  Alphabet <- MCAlphabet
  Target <- MCTarget
  Line <- MCLine
  Test <- MCTest
  Clause <- MCClause
  Command <- MCCommand
  Start <- MCStart
  Fallback <- MCFallback
  Kept <- MCKept
  Env <- MCEnv
  Files <- MCFiles
  Installed <- MCInstalled
  Letters <- MCLetters
  OsType <- MCOsType
  ConfigFile <- MCConfigFile
INVARIANT ExecGivesOutput
