SPECIFICATION FairSpec
CONSTANTS
  Methods = {get}
  Patterns <- AllPatterns
  Handlers = {h1, h2}
  Temporaries = {}
  Targets <- FewTargets
  MaxRoutes = 2
  NoCall = NoCall
INVARIANTS
  TypeOK
PROPERTIES
  AddReturns
  ImplementsRouteSet
CHECK_DEADLOCK FALSE
