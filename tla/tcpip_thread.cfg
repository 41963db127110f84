SPECIFICATION FairSpec
CONSTANTS
  TcpTimer = TcpTimer
  IpTimer = IpTimer
  ArpTimer = ArpTimer
  Interval <- MCInterval
  MsPerSec = 6
  TicksPerSec = 2
  WordMod = 64
  MaxTicks = 63
  TimeoutPool = 3
INVARIANTS TimersArmed LateByTicksOnly
PROPERTIES CountsDown AllGoOff
