SPECIFICATION FairSpec
CONSTANTS
  b1 = b1
  b2 = b2
  junk = junk
  Byte <- MCByte1
  Junk = junk
  InitCapacity = 8
  MaxCapacity = 9
  DoubleBorder = 4
  MaxLen = 2
  SizeMod = 65536
  WriteMayFail = TRUE
INVARIANTS
  TypeOK
  GrowthInBounds
PROPERTIES
  GrowthTerminates
