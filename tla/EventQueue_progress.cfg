CONSTANTS
  c1 = c1
  b1 = b1
  b2 = b2
  n1 = n1
  n2 = n2
  Callbacks = {c1}
  BgThreads = {b1}
  EventBuf = {}
  CntLimit = 2
  Delays = {1}
  MaxQueue = 2
  MaxCalls = 1
  MaxLag = 1
  MaxSerial = 0
  ExitHandler = ExitHandler
  Dispatcher = Dispatcher
  Heap = Heap
  None = None
SPECIFICATION FairSpec
PROPERTIES NothingStarved CancelReturns
CHECK_DEADLOCK FALSE
