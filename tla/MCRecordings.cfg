SPECIFICATION FairSpec
CONSTANTS
  N = 2
  BatchSize = 1
  Faults = {"remove", "db"}
  MaxCrashes = 1
INVARIANTS
  TypeOK
  KeyNamesObject
  ListedClipPlayable
PROPERTIES
  OpenClipUntouched
  OnlyBackedUpDeleted
  EveryClipHandled
CHECK_DEADLOCK FALSE
