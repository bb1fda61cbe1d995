CONSTANTS
  Waiters = {w1, w2}
  TimedWaiters = {w2}
  None = None
SPECIFICATION FairSpec
PROPERTIES DocBlockForStop
