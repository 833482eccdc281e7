SPECIFICATION CaptureSpec
CONSTANTS
  Backends = {"klt", "svo"}
  QueueDepth = 1
  PoolSlots = 3
  FrameGaps = {3}
  WallSteps <- MCSteps
  MaxDt = 5
  NodeStopsOnDisarm = TRUE
  MaxTaken = 3
  MaxSteps = 1
  MaxNotes = 4
  Owners = {o1, o2}
  MaxStarts = 3
  MaxPublished = 2
  Period = 2
  OvPeriod = 2
  PoolGaps = {1, 3}
  TapeStopsOnDisarm = TRUE
  MaxRecorded = 2
  MaxShots = 1
  MaxFlights = 2
CHECK_DEADLOCK FALSE
INVARIANTS
  CaptureInv
PROPERTIES
  FlowCountsOnce
  EndsWhenTold
  ReadersFollow
