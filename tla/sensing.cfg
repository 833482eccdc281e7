CONSTANTS
  SlotCount = 3
  Sinks = 2
  Depth = 1
  RecorderRuns = TRUE
  MaxWrites = 5
  MaxCrashes = 1
SPECIFICATION MCSpec
CHECK_DEADLOCK FALSE
INVARIANTS
  PoolInv
  CopyIsTheFrame
  TagsInv
  MapInv
PROPERTIES
  RefusedOnlyWhenHeld
  TagsHoldStill
  KnownAreRecognised
