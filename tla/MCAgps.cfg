SPECIFICATION AllSpec
CONSTANTS
  Handles = {h1, h2, h3}
  MaxInFlight = 4
  MaxDrop = 2
  EsHandles = {h1, h2}
  OneHandle = {h1}
  MaxRetries = 2
  MaxQueue = 2
  MaxTimers = 1
CHECK_DEADLOCK FALSE
INVARIANTS ConnectionsOwned
PROPERTIES AllAnswered ImplementsService
