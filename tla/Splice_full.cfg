SPECIFICATION FairSpec
CONSTANTS
  Total = 9
  Length = 2
  PipeCap = 3
  SockCap = 3
  CountMod = 8
CHECK_DEADLOCK FALSE
INVARIANTS
  TypeOK
  EofAfterForwarded
PROPERTIES
  EndsUnlessStuck
