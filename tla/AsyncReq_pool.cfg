CONSTANTS
  w1 = w1
  w2 = w2
  w3 = w3
  r1 = r1
  Objs = {"async", "channel"}
  NoObj = NoObj
  Workers = {w1, w2, w3}
  Reqs = {r1}
  ChanReq = ChanReq
  TimerReq = TimerReq
  NoReq = NoReq
  ShutdownReq = ShutdownReq
  MaxIdle = 1
  MaxPosts = 2
SPECIFICATION FairSpec
INVARIANT PoolExact
PROPERTY ShutdownCompletes
CHECK_DEADLOCK FALSE
