SPECIFICATION FairSpec
CONSTANTS
  Loop = loop
  Sender = {}
  None = None
  OutCapacity = 2
  MaxSend = 4
  MaxIn = 5
CHECK_DEADLOCK FALSE
INVARIANTS
  TypeOK
  ClosedAfterDrained
  ArmedAsleep
PROPERTIES
  InputIsRead
  OutputIsWritten
  CloseIsNoticed
