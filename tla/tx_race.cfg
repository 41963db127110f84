SPECIFICATION Spec
CONSTANTS
  RxDescs = 3
  TxDescs = 2
  PbufPool = 3
  InpktPool = 2
  MboxSize = 3
  Sizes = {1, 2}
  NumThreads = 2
PROPERTIES SentAsGiven
