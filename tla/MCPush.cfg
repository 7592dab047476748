SPECIFICATION FairSpec
CONSTANTS
  SourceType = "rtmp"
  Operators = {o1}
  MaxRequests = 1
  MaxStreams = 2
  Consumers = {"rec"}
INVARIANTS
  SettledWhenGone
PROPERTIES
  ReturnsUnlessHeldUp
CHECK_DEADLOCK FALSE
