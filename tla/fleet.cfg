CONSTANTS
  d1 = d1
  d2 = d2
  d3 = d3
  m1 = m1
  m2 = m2
  Drones = {d1, d2, d3}
  Modes = {m1, m2}
  Commanders = {d1}
  NoMode = NoMode
  Repeats = 2
  QueueDepth = 8
  MaxCommands = 2
  MaxLost = 1
  MaxFailures = 0
  MaxDrops = 0
  MaxReinits = 1
  MaxLocal = 0
SPECIFICATION MCSpec
PROPERTIES
  NoStaleRequeueOfOne
  FleetSettles
CHECK_DEADLOCK FALSE
