SPECIFICATION FairSpec
CONSTANTS
  Loop = loop
  Sender = {s1}
  None = None
  OutCapacity = 2
  MaxSend = 1
  MaxIn = 1
CHECK_DEADLOCK FALSE
PROPERTIES
  OutputIsWritten
