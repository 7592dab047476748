SPECIFICATION FairSpec
CONSTANTS
  SourceType = "rtmp"
  Operators = {o1}
  MaxRequests = 1
  MaxStreams = 2
  Consumers = {"rec"}
PROPERTIES
  ConsumersStop
CHECK_DEADLOCK FALSE
