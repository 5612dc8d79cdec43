SPECIFICATION Spec
CONSTANTS
  Timeout = 2
  BlobTimeout = 3
  MaxBlob = 2
  Lengths <- Units
CHECK_DEADLOCK FALSE
INVARIANT OkMeansWholeSample
