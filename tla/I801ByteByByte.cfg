SPECIFICATION FairSpec
CONSTANT I2C_SMBUS_BLOCK_MAX = 4
INVARIANTS
  IInv
  ReadIsWhole
  WriteIsWhole
  LastByteInTime
  QuietAfterWake
PROPERTY
  EveryCallReturns
