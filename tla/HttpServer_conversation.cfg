SPECIFICATION Spec
CONSTANTS
  Conns = {c1}
  Targets = {page, nowhere}
  Routed = {page}
  Outcomes = {"ok", "forbidden", "throws", "dies"}
  ClientHeaders <- FourHeaders
  MaxRequests = 3
  MaxFailures = 1
  Malformed = Malformed
  NoRequest = NoRequest
  NoMessage = NoMessage
INVARIANTS
  AnswersFollowRequests
  NothingReadAfterClose
  DeadlineAfterFirstRequest
PROPERTIES
  ImplementsConversation
CHECK_DEADLOCK FALSE
