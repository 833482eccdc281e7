SPECIFICATION MCSpec
CONSTANTS
  ClosePeriod = 1
  FarPeriod = 2
  CloseExpiry = 2
  MaxBackoff = 3
  Nodes = {1, 2, 3}
  Direct = {1, 3}
  DupWindow = 1
  ModeRepeats = 1
  ModeInterval = 1
  MaxTime = 2
  MaxPolls = 2
  MaxFaults = 1
INVARIANTS
  RangingInv
PROPERTIES
  AttemptsAreSpaced
  ExchangesEnd
CHECK_DEADLOCK FALSE
