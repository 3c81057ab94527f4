SPECIFICATION FairSpec
CONSTANTS
  Conns = {c1, c2}
  Targets = {page}
  Routed = {page}
  Outcomes = {"ok"}
  ClientHeaders <- EitherWay
  MaxRequests = 1
  MaxFailures = 2
  Malformed = Malformed
  NoRequest = NoRequest
  NoMessage = NoMessage
INVARIANTS
  TypeOK
  OneOperationPerSession
  AcceptorArmed
PROPERTIES
  WriteEnds
  IdleEnds
  BacklogDrains
  SignalEnds
CHECK_DEADLOCK FALSE
