SPECIFICATION AloneSpec
CONSTANTS
  Mss = 2
  SndBuf = 2
  SndQueueLen = 2
  MaxRtx = 1
  Lengths = {1, 2}
  Window = 2
  MaxBytes = 3
  NetCap = 1
INVARIANTS QueuesCoverTheStream CountersAreExact SomethingIsDue ClosedWhenSentArrived
CHECK_DEADLOCK FALSE
PROPERTY WrittenIsDelivered
