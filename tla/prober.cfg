SPECIFICATION FairSpec
CONSTANTS
  Timeout = 2
  BlobTimeout = 3
  MaxBlob = 2
  Lengths <- Units
CHECK_DEADLOCK FALSE
INVARIANTS TypeOK ServingIsOk OkIsEarned BlameFits RequestsBounded TransferKeepsTime
PROPERTIES BacksOff Returns
