SPECIFICATION AloneSpec
CONSTANTS
  RxDescs = 3
  TxDescs = 2
  PbufPool = 3
  InpktPool = 3
  MboxSize = 2
  Sizes = {1, 2}
  NumThreads = 2
INVARIANTS RingInOrder NoLeak AtMostOneUnnoticed
PROPERTIES SentAsGiven
