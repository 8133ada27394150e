CONSTANTS
  BufSize = 4
  MaxBufSize = 8
  Symbols = {"D", "EOM", "B2"}
  MaxSyms = 5
SPECIFICATION IbufSpec
INVARIANT LongMessageAlone
CHECK_DEADLOCK FALSE
