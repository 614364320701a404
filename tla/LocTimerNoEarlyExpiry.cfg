SPECIFICATION Spec
CONSTANTS
  Timers = {t1, t2}
  Delays = {1, 2}
  None = None
  MaxTime = 4
  MaxStarts = 3
INVARIANT NoEarlyExpiry
CHECK_DEADLOCK FALSE
