SPECIFICATION AllSpec
CONSTANTS
  Interfaces = {"lan", "wlan"}
  MaxAccessPoints = 1
  FamilySets = {{"v4"}, {"v6"}}
  UlRules = 2
  MaxUlRules = 2
  MaxDftV6 = 2
  MaxInstances = 2
  MaxTroubled = 1
  HalfRouting = {{"v4"}}
  Tethers = {i1, i2, i3}
  Subnets = {s1, s2, s3}
  MaxSubnets = 2
  NoSubnet = NoSubnet
CHECK_DEADLOCK FALSE
INVARIANTS UplinkFollowsWan RulesAccounted SubnetsAgree
PROPERTY WanUpReachesLan
