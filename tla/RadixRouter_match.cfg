SPECIFICATION Spec
CONSTANTS
  Methods = {get, post}
  Patterns <- MCPatterns
  Handlers = {h}
  Temporaries = {}
  Targets <- MCTargets
  MaxRoutes = 3
  NoCall = NoCall
SYMMETRY Symmetry
INVARIANTS
  MatchIsBest
  SpecialsTakeSegments
  RadixTree
  Compressed
CHECK_DEADLOCK FALSE
