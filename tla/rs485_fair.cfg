SPECIFICATION FairSpec
CONSTANTS
  UsartOutranks <- Rs485Outranks
  FrameLengths = {1, 2}
  MaxBytes = 3
  CounterMod = 3
  BufSize = 4
  NumClients = 1
PROPERTIES BytesAreCollected
INVARIANTS TypeOK NoStrandedBytes NoStaleBytes
