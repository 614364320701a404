CONSTANTS
  Ifaces = {"wlan", "eth", "usb"}
  Macs = {"m1", "m2"}
  Wlans = {"wlan"}
  L2 <- L2Headers
  Parent <- VlanParents
  MaxClients = 2
  MaxIfaces = 3
  MaxCached = 1
  Sessions = {"t"}
  Hosts = {"h", "i"}
  None = None
  Gone = Gone
  Setups <- Chosen
SPECIFICATION Spec
CONSTRAINT OneOddity
INVARIANTS RulesOfTheLists ListsOfTheNetwork RoutesFollowTheMode TunnelServed
