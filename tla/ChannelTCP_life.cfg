CONSTANTS
  Data = {"x", "EOM", "EOS"}
  ObufSize = 8
  MaxAccepted = 0
  None = None
  MaxLocks = 1
  MaxMsgs = 2
  MaxWrites = 3
SPECIFICATION FairSpec
INVARIANTS RequestStable OutputDelivered LockAccounting DeletedIsUnused
PROPERTIES ClosedIsDeleted WrittenIsSent
CHECK_DEADLOCK FALSE
