SPECIFICATION Spec
CONSTANTS
  N = 2
  BatchSize = 1
  Faults = {"stat"}
  MaxCrashes = 0
PROPERTIES
  OnlyBackedUpDeleted
CHECK_DEADLOCK FALSE
