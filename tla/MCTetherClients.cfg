SPECIFICATION AllSpec
CONSTANTS
  Macs = {m1, m2}
  V4Addrs = {a1, a2}
  V6Addrs = {x1, x2}
  None = None
  MaxClients = 2
  MaxV6 = 2
  MaxWifiV6 = 1
  MaxCopies = 1
  Kinds = {"lan", "wlan", "sta"}
  NMacs = {m1, m2, m3}
  Devices = {d1, d2}
  NAddrs = {a1, a2}
  MaxNeighbors = 2
  Nil = Nil
SYMMETRY Symmetry
INVARIANTS TableCounts RulesReachClients NeighborsKept
