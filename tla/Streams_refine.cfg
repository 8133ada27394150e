CONSTANTS
  c1 = c1
  c2 = c2
  Owner = Owner
  Channels = {c1, c2}
  Size = 2
  OwnerBuf = 1
  ReadSizes = {1}
  WriteSizes = {1, 3}
  MaxBytes = 4
  MaxConnects = 2
  MaxParked = 2
SPECIFICATION FairSpec
INVARIANTS RefCountExact CommandsServed
PROPERTIES StreamImplemented WritesAnswered
CHECK_DEADLOCK FALSE
