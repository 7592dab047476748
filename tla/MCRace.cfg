SPECIFICATION Spec
CONSTANTS
  SourceType = "pull"
  Operators = {o1, o2}
  MaxRequests = 2
  MaxStreams = 2
  Consumers = {"hls"}
INVARIANTS
  NoOrphan
CHECK_DEADLOCK FALSE
