SPECIFICATION PacedSpec
CONSTANTS
  UsartOutranks <- Rs232Outranks
  FrameLengths = {1, 2, 3}
  MaxBytes = 6
  CounterMod = 4
  BufSize = 5
  NumClients = 2
PROPERTIES RelaysFrames
