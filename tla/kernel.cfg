SPECIFICATION FairSpec
CONSTANTS
  Tasks = {1, 2}
  Idle = 3
  sem = sem
  queue = queue
  Device = Device
  Tick = Tick
  None = None
  Timeout = Timeout
  Events = {sem, queue}
  Handlers = {Device}
  Capacity <- MCCapacity
  Content <- MCContent
  Level <- MCLevel
  Timeouts = {0, 2}
  Delays = {1}
INVARIANTS ListsAgree NothingKeptFromWaiters HighestRuns
PROPERTIES Exchanges ComesBack
