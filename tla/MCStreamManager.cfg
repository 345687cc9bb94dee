SPECIFICATION PartSpec
CONSTANTS
  c1 = c1
  c2 = c2
  c3 = c3
  p1 = p1
  p2 = p2
INVARIANT SetIsOpenStreams
PROPERTY ClosedIsReset
PROPERTY Discovers
CHECK_DEADLOCK FALSE
