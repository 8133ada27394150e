SPECIFICATION FairSpec
CONSTANTS
  t1 = t1
  t2 = t2
  t3 = t3
  p1 = p1
  p2 = p2
  ThreadSeq <- ThreeThreads
  ProcOf <- OneAndTwo
  Initial = {t1, t3}
  AllStop = TRUE
  StopAllMax = 2
  StopTries = 1
  MaxSkips = 2
  Stimuli = {"command", "kernel"}
  MaxStimuli = 2
  MaxFaults = 1
  MaxTotal = 3
INVARIANTS SafeWhenStopped CountersExact
PROPERTIES SafeEventsRun StopResolved
CHECK_DEADLOCK FALSE
