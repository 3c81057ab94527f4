SPECIFICATION Spec
CONSTANTS
  Symbols <- MCSymbols
  Configs <- MCConfigs
  Targets <- MCTargets
  Disks <- MCDisks
  Index <- MCIndex
  MaxChanges = 2
  NoRoute = NoRoute
  Folded <- MCFolded
INVARIANTS
  TypeOK
  LongestPrefixServes
  ServedFromRoot
  ServesWhatIsThere
  TypedByName
CHECK_DEADLOCK FALSE
