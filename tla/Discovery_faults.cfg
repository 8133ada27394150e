SPECIFICATION DiscFairSpec
CONSTANTS
  a1 = a1
  a2 = a2
  a3 = a3
  AgentSeq <- ThreeAgents
  Default = default
  None = none
  RETENTION = 4
  MaxStarts = 3
  MaxFaults = 1
INVARIANTS SlavesHonest GoneIsForgotten
PROPERTIES  MasterReturns
CHECK_DEADLOCK FALSE
