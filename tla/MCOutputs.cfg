SPECIFICATION OutputsSpec
CONSTANTS
  MaxVisits = 2
  MaxStreams = 2
  MaxDeaths = 1
  Watchers = {w1, w2}
  Sids = {i1, i2}
  Players = {p1, p2}
  MaxSessions = 1
  MaxMade = 2
  CanFail = TRUE
  Clients = {c1, c2}
  MaxLives = 2
  MaxServers = 2
  MaxPubs = 4
INVARIANTS
  OutputsTypeOK
  TranscoderSound
  SharedOutputsSound
PROPERTIES
  OutputsSettle
CHECK_DEADLOCK FALSE
