CONSTANTS
  Pattern = "serpentine"
  NLanes = 1
  Rows = 1
  Petals = 1
  Clusters = {1}
  ClusterSpot <- MCClusterSpot
  Anchor <- MCPad
  MaxDips = 1
  FieldPolygon <- MCNoPolygon
  FenceRadius = 1
  TimeoutOn = TRUE
  SilenceOn = TRUE
  ResetStormCount = 1
  CounterMod = 4
  DumpRetryLimit = 3
  NoSpot = NoSpot
  NoCluster = NoCluster
  NoSetpoint = NoSetpoint
  NoCounter = NoCounter
  NoEngine = NoEngine
  AnchorGuard = TRUE
  DumpReplies <- MCHostAcks
  Spots <- MCWideSpots
  MaxGusts = 1
  MaxResets = 1
  MaxUpsets = 0
  MaxRestarts = 0
SPECIFICATION FairSpec
PROPERTIES
  StreamsWhileOffboard
  HandoffIsFinal
  SurveyEnds
