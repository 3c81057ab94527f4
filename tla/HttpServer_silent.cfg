SPECIFICATION FairSpec
CONSTANTS
  Conns = {c1}
  Targets = {page}
  Routed = {page}
  Outcomes = {"ok"}
  ClientHeaders <- KeptHeader
  MaxRequests = 1
  MaxFailures = 0
  Malformed = Malformed
  NoRequest = NoRequest
  NoMessage = NoMessage
PROPERTIES
  EveryReadEnds
CHECK_DEADLOCK FALSE
