SPECIFICATION FairSpec
CONSTANTS
  t1 = t1
  t2 = t2
  t3 = t3
  p1 = p1
  p2 = p2
  ThreadSeq <- TwoThreads
  ProcOf <- OneProcess
  Initial = {t1, t2}
  AllStop = FALSE
  StopAllMax = 2
  StopTries = 1
  MaxSkips = 2
  Stimuli = {"breakpoint", "kernel"}
  MaxStimuli = 2
  MaxFaults = 1
  MaxTotal = 2
INVARIANTS TrapRecognised NoMissedBreakpoint CountersExact
PROPERTIES ReplantCompletes
CHECK_DEADLOCK FALSE
