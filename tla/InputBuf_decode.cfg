CONSTANTS
  BufSize = 4
  MaxBufSize = 8
  Symbols = {"D", "EOM", "B2"}
  MaxSyms = 5
SPECIFICATION IbufFairSpec
INVARIANTS StreamIntact DecodersAgree
PROPERTY EveryMessageHandled
CHECK_DEADLOCK FALSE
