SPECIFICATION Spec
CONSTANTS
  Proxy = {p1}
  Pub = {x1}
  Loc = {l1}
  None = None
  PubChunks = 2
  LocChunks = 2
  Env = "banner"
  Closers = {}
CHECK_DEADLOCK FALSE
PROPERTIES
  RelaysLikeTcp
