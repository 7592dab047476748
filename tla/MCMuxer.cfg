SPECIFICATION Spec
CONSTANTS
  SourceType = "rtmp"
  Operators = {}
  MaxRequests = 0
  MaxStreams = 2
  Consumers = {"hls"}
INVARIANTS
  LiveHasMuxer
CHECK_DEADLOCK FALSE
