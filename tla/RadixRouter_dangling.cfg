SPECIFICATION Spec
CONSTANTS
  Methods = {get}
  Patterns <- FewPatterns
  Handlers = {h, tmp}
  Temporaries = {tmp}
  Targets <- FewTargets
  MaxRoutes = 2
  NoCall = NoCall
INVARIANTS
  MatchedHandlerAlive
CHECK_DEADLOCK FALSE
