CONSTANTS
  x1 = x1
  x2 = x2
  r1 = r1
  Clients = {x1, x2, r1}
  Redirects = {r1}
  NoClient = NoClient
  TokenMod = 4
  HashSize = 2
SPECIFICATION FairSpec
INVARIANTS CalledOnce ReplyFindsItsCommand
PROPERTY EveryHandlerCalled
CHECK_DEADLOCK FALSE
