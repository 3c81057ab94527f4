SPECIFICATION Spec
CONSTANTS
  Symbols <- MCSymbols
  Configs <- MCConfigs
  Targets <- PlainTargets
  Disks <- MCDisks
  Index <- MCIndex
  MaxChanges = 0
  NoRoute = NoRoute
  Folded <- MCFolded
INVARIANTS
  MissingIsNotFound
CHECK_DEADLOCK FALSE
