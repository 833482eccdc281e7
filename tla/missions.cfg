CONSTANTS
  Pattern = "serpentine"
  NLanes = 2
  Rows = 2
  Petals = 1
  Clusters = {1, 2}
  ClusterSpot <- MCClusterSpot
  Anchor <- MCLaunchLine
  MaxDips = 2
  FieldPolygon <- MCLaneField
  FenceRadius = 0
  TimeoutOn = FALSE
  SilenceOn = FALSE
  ResetStormCount = 2
  CounterMod = 4
  DumpRetryLimit = 2
  NoSpot = NoSpot
  NoCluster = NoCluster
  NoSetpoint = NoSetpoint
  NoCounter = NoCounter
  Spots <- MCLaneSpots
  HomeSpots <- MCLaneHome
  MaxResets = 0
  MaxUpsets = 1
  MaxRestarts = 1
  Schedule <- MCSchedule
  ToHomeTime = 2
  ClimbDrift = {0, 1}
  FrameShifts = {1}
  MaxFrameResets = 1
  MaxGusts = 1
  MaxCommands = 2
  MaxSurprises = 2
SPECIFICATION MCSpec
INVARIANTS
  CoverageInv
  CommandStaysInside
  MissionsInv
PROPERTIES
  DipsAreSpentOnce
  ImplementsLifecycle
  PetalsAreFlown
  ArmsOnlyWhenReleased
  MissionsEnd
CHECK_DEADLOCK FALSE
