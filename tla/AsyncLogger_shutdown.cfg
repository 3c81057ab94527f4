SPECIFICATION FairSpec
CONSTANTS
  Capacity = 3
  Sinks = {"file", "console"}
  MaxMessages = 7
  MaxFailures = 2
INVARIANTS
  TypeOK
  EveryMessageAccounted
  WrittenInOrder
  SinksIndependent
  NewestAreWritten
  AllFlushedWhenDown
PROPERTIES
  ShutdownEnds
CHECK_DEADLOCK FALSE
