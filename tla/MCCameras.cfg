SPECIFICATION FairSpec
CONSTANTS
  SourceType = "pull"
  Operators = {o1, o2}
  MaxRequests = 2
  MaxStreams = 2
  Consumers = {"hls"}
INVARIANTS
  TypeOK
  StoppedIsGoneUnlessRaced
  OneSourceUnlessRaced
PROPERTIES
  SettlesUnlessRaced
CHECK_DEADLOCK FALSE
