SPECIFICATION FairSpec
CONSTANTS
  N = 1
  Port = {a1, a2}
  Conn = {c1, c2}
  None = None
  MaxMsg = 0
  MaxFail = 0
  Failing = {}
  Dirty = {}
  Overtaken = {}
CHECK_DEADLOCK FALSE
PROPERTIES
  PublicAccepted
