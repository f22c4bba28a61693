SPECIFICATION FairSpec
CONSTANTS
  N = 2
  Port = {a1}
  Conn = {c1, c2}
  None = None
  MaxMsg = 2
  MaxFail = 1
  Failing = {"ctl"}
  Dirty = {2}
  Overtaken = {c1}
CHECK_DEADLOCK FALSE
INVARIANTS
  TypeOK
  LoopBeforeUse
  NoneOverlooked
PROPERTIES
  StartCompletes
  Accepted
  PublicAccepted
  HandedOverIsRead
