SPECIFICATION Spec
CONSTANTS
  Wans = {"rmnet", "wlan"}
  Sta = {"wlan"}
  Downs = {"usb"}
  Setups <- Small
  MaxCache = 2
  MaxExt = 1
  None = None
CHECK_DEADLOCK FALSE
INVARIANTS RoutesOfGateway AsAsked
PROPERTY Signals
