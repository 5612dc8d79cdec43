SPECIFICATION Spec
CONSTANTS
  None = None
  Ids = {i1}
  Requests = {r1}
  TTL = 2
  MaxTime = 4
INVARIANT UseKeepsCookie
