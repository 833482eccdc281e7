SPECIFICATION MCSpec
CONSTANTS
  p1 = p1
  p2 = p2
  Peers = {p1, p2}
  Slots = 3
  Capacity = 1
  BeforeControl = 2
  BeforeDiagnostic = 2
  MaxExchanges <- MCExchanges
  MaxControl = 2
  MaxDiagnostics = 1
  MaxUnplugs = 1
  MaxConfigurations = 1
INVARIANTS
  RadioInv
  FramingInv
PROPERTIES
  ExchangesArrive
CHECK_DEADLOCK FALSE
