CONSTANTS
  Waiters = {w1, w2}
  TimedWaiters = {w2}
  None = None
SPECIFICATION FairSpec
INVARIANTS NoLostWakeup MetadataBeforeRecords NoUseAfterStop
PROPERTIES StopReachesWaiters DestroyCompletes
