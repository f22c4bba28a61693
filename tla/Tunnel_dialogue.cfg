SPECIFICATION FairSpec
CONSTANTS
  Proxy = {p1, p2, p3}
  Pub = {x1, x2, x3}
  Loc = {l1, l2, l3}
  None = None
  PubChunks = 1
  LocChunks = 2
  Env = "dialogue"
  Closers = {x1}
CHECK_DEADLOCK FALSE
INVARIANTS
  FreeIsQuiet
PROPERTIES
  RelaysLikeTcp
  SessionsComplete
  ProxyReturns
