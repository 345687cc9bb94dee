SPECIFICATION FairSpec
CONSTANTS
  Requests = {r1, r2}
  StreamIDs = {s1}
  None = None
  HighPriority = {r2}
  Allowed <- AnyStream
  Supported <- AnyStream
  MaxWaiting = 1
  ThrottleBatch = 2
  MaxObjects = 2
PROPERTY EveryRequestAnswered
CHECK_DEADLOCK FALSE
