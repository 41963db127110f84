SPECIFICATION Spec
CONSTANTS
  Mss = 2
  SndBuf = 2
  SndQueueLen = 2
  MaxRtx = 1
  Lengths = {1, 2}
  Window = 2
  MaxBytes = 3
  NetCap = 1
INVARIANT CountedMeansQueued
CHECK_DEADLOCK FALSE
