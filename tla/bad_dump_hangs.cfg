CONSTANTS
  Pattern = "serpentine"
  NLanes = 1
  Rows = 1
  Petals = 1
  Clusters = {1}
  ClusterSpot <- MCClusterSpot
  Anchor <- MCPad
  MaxDips = 0
  FieldPolygon <- MCNoPolygon
  FenceRadius = 0
  TimeoutOn = FALSE
  SilenceOn = FALSE
  ResetStormCount = 1
  CounterMod = 4
  DumpRetryLimit = 3
  NoSpot = NoSpot
  NoCluster = NoCluster
  NoSetpoint = NoSetpoint
  NoCounter = NoCounter
  NoEngine = NoEngine
  AnchorGuard = FALSE
  DumpReplies <- MCHostRefuses
  Spots <- MCLaneSpots
  MaxGusts = 0
  MaxResets = 0
  MaxUpsets = 0
  MaxRestarts = 0
SPECIFICATION FairSpec
PROPERTIES
  SurveyEnds
