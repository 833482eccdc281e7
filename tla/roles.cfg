SPECIFICATION MCSpec
CONSTANTS
  d1 = d1
  d2 = d2
  d3 = d3
  Drones = {d1, d2, d3}
  MaxFound <- MCFound
  Batch = 1
  Mortal = {d3}
  MaxBeats <- MCBeats
  MaxOrders = 1
INVARIANTS
  RolesInv
PROPERTIES
  EndsWithTheLast
  RolesEnd
CHECK_DEADLOCK FALSE
