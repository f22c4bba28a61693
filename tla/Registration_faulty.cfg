SPECIFICATION FairSpec
CONSTANTS
  Client = {k1, k2}
  Pub = {x1, x2, x3}
  Proxy = {p1, p2, p3}
  CtlId = {i1, i2}
  TunId = {t1}
  None = None
  Losable = {k2}
  Early = {k2}
  Racy = {k2}
CHECK_DEADLOCK FALSE
INVARIANTS
  TypeOK
  OwnTunnel
  ParkedAreAwaited
  DownByLossOrRace
PROPERTIES
  Registers
  Served
