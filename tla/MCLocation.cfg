SPECIFICATION AllSpec
CONSTANTS
  MaxReq = 2
  QueueBound = 1
  ApiSetups <- SmallSetups
  NoClient = NoClient
  MaxFences = 3
  GpsConf <- SmallGpsConf
  Configs <- SmallConfigs
  Compared = {"lppe"}
  Ignored = {"version"}
  NoLock = "none"
CHECK_DEADLOCK FALSE
INVARIANTS AnswersOwn TrackingStops SessionsAgree ClientLeaves FencesRemovable
INVARIANTS ControlSettles SettledOnce
PROPERTIES EventuallySettled
