SPECIFICATION Spec
CONSTANTS
  IntMax = 99999
  Texts <- MCTexts
  MaxLogFiles = 1000
  Files <- MCFiles
INVARIANTS
  DefaultsFillIn
CHECK_DEADLOCK FALSE
