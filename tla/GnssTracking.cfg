SPECIFICATION FairSpec
CONSTANTS
  Clients = {c1, c2}
  Intervals = {1, 2}
  Modes = {m1}
  Off = Off
  BadOptions = BadOptions
  MaxSessions = 2
  QueueBound = 1
  MaxFail = 1
  MaxCrash = 1
CHECK_DEADLOCK FALSE
INVARIANTS EngineServesFastest OrphanOnlyAfterFailedStop
PROPERTIES EngineRecovers
