SPECIFICATION FairSpec
CONSTANTS
  Readers = {r1, r2}
  BufSize = 2
  MaxUnits = 4
INVARIANTS
  TypeOK
  NoPanic
  NothingUnaccounted
PROPERTIES
  CallsEnd
  ImplementsFeed
CHECK_DEADLOCK FALSE
