SPECIFICATION AllSpec
CONSTANTS
  MaxMsg = 3
  Timers = {t1, t2}
  Delays = {1, 2}
  None = None
  MaxTime = 3
  MaxStarts = 3
  Devices = {none, speaker, handset, last}
  Routing <- SpeakerInStereo
  CallDevices = {handset, last}
  NoDevice = none
  Reverse = speaker
  Last = last
  MaxCalls = 3
  MaxFail = 2
CHECK_DEADLOCK FALSE
INVARIANTS ExactlyOnceInOrder DelegateLifetime NoUpdateLost
PROPERTIES EverythingServed
