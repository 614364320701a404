SPECIFICATION AllSpec
CONSTANTS
  Modems = {"m0", "m1"}
  Embms = "embms"
  Sta = "sta"
  Modes = {"router", "bridge"}
  Files <- SmallFiles
  Setups <- Small
  MaxRules = 64
  MaxExt = 2
  None = None
CONSTRAINT OneOddity
CHECK_DEADLOCK FALSE
INVARIANTS TableExact ModemTold StationTable
