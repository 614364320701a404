SPECIFICATION NatSpec
CONSTANTS
  NatAddrs = {a1}
  NonNatAddrs = {a2}
  Ports = {p1}
  Wans = {w1, w2}
  NoWan = NoWan
  MaxEntries = 2
  MaxTemp = 1
  MaxIface = 2
  StoreRules <- SmallRules
  Requests = {4, 15}
  NoRule = NoRule
  Top = 65535
CHECK_DEADLOCK FALSE
INVARIANTS HwMatchesCache OnlyOpenConnections TempWaits ChainsSound
PROPERTIES ImplementsStore
