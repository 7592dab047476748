SPECIFICATION WorkersSpec
CONSTANTS
  MaxRuns = 2
  NameGrain = 2
  MaxSeconds = 2
  MaxFilmed = 2
  MaxDiskFaults = 1
  NTracks = 2
  Clips = {{1}, {2}}
  Alike = {{1, 2}}
  Operators = {o1}
  MaxOps = 2
  MaxBusy = 2
  MaxPersons = 3
  Keep = 1
  Recordings = {r1, r2}
  NFaces = 2
  BatchSize = 1
  MaxAttempts = 2
  MaxTroubles = 2
  Attachments = 2
  Cooldown = 2
  MaxFrames = 4
  MaxWriteFaults = 1
INVARIANTS
  WorkersTypeOK
  IdentityConsistent
  AnalysedOnce
  SegmentsFiled
  EventsSound
PROPERTIES
  AnchorsUnlessStale
  WorkersSettle
CHECK_DEADLOCK FALSE
