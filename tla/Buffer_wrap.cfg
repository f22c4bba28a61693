SPECIFICATION FairSpec
CONSTANTS
  b1 = b1
  b2 = b2
  junk = junk
  Byte <- MCByte2
  Junk = junk
  InitCapacity = 1
  MaxCapacity = 6
  DoubleBorder = 4
  MaxLen = 2
  SizeMod = 65536
  WriteMayFail = FALSE
INVARIANTS
  TypeOK
PROPERTIES
  Fifo
