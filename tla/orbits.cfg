SPECIFICATION MCSpec
CONSTANTS
  Fleet = {0, 1, 2}
  Spiral = 1
  Revolution = 2
  Peel = 1
  Blend = 1
  Slot = 2
  Shifts <- MCShifts
  Offsets <- MCOffsets
  MaxResets <- MCResets
  MaxLost <- MCLost
  MaxBegins <- MCBegins
  MaxEnds <- MCEnds
  MaxUpsets <- MCUpsets
INVARIANTS
  OrbitsInv
PROPERTIES
  PeelsOnAWholeRevolution
  FlightsGoOn
CHECK_DEADLOCK FALSE
