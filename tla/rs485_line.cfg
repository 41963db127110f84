SPECIFICATION LineSpec
CONSTANTS
  Ports = {"RS232", "RS485"}
  Line = "RS485"
  Direct = "RS232"
  TimerOut = 3
  ByteTime <- BoardByteTime
  WireTime <- BoardWireTime
  Prio <- BoardPrio
  Tick = 5
  SilenceCap = 4
  LengthCap = 1
  SemMax = 2
  MaxSegment = 2
INVARIANTS ClosedPromptly NoByteCut InterruptedFramePosted BackByDeadline
PROPERTIES LineIsReleased
