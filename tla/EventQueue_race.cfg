CONSTANTS
  c1 = c1
  b1 = b1
  b2 = b2
  n1 = n1
  n2 = n2
  Callbacks = {c1}
  BgThreads = {b1, b2}
  EventBuf = {n1, n2}
  CntLimit = 2
  Delays = {1}
  MaxQueue = 2
  MaxCalls = 1
  MaxLag = 0
  MaxSerial = 3
  ExitHandler = ExitHandler
  Dispatcher = Dispatcher
  Heap = Heap
  None = None
SPECIFICATION Spec
INVARIANTS NoLostWakeup TimerQueueSorted NothingLost FifoPerThread ExitDrainsImmediate
SYMMETRY NodeSymmetry
CHECK_DEADLOCK FALSE
