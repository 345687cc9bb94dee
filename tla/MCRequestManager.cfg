SPECIFICATION Spec
CONSTANTS
  Requests = {r1, r2, r3}
  StreamIDs = {s1}
  None = None
  HighPriority = {r2}
  Allowed <- AnyStream
  Supported <- AnyStream
  MaxWaiting = 1
  ThrottleBatch = 2
  MaxObjects = 2
INVARIANT OneRequestPerStream
INVARIANT NoLostRequest
PROPERTY LateAnswerFreesNothing
CHECK_DEADLOCK FALSE
