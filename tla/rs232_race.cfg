SPECIFICATION Spec
CONSTANTS
  UsartOutranks <- Rs232Outranks
  FrameLengths = {1}
  MaxBytes = 3
  CounterMod = 4
  BufSize = 5
  NumClients = 1
PROPERTIES LengthIsLengthReceived
