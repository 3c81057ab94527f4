SPECIFICATION Spec
CONSTANTS
  IntMax = 99999
  Texts <- MCTexts
  MaxLogFiles = 1000
  Files <- MCFiles
INVARIANTS
  TypeOK
  RunsAsConfigured
  TellsEveryError
  LoggerDownAtExit
CHECK_DEADLOCK FALSE
