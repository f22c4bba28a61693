SPECIFICATION Spec
CONSTANTS
  Proxy = {p1, p2}
  Pub = {x1, x2}
  Loc = {l1, l2}
  None = None
  PubChunks = 1
  LocChunks = 0
  Env = "any"
  Closers = {}
SYMMETRY Symmetry
CHECK_DEADLOCK FALSE
INVARIANTS
  TypeOK
  ClaimFindsPublic
  NoSharedEnd
