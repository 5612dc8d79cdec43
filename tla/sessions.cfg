SPECIFICATION FairSpec
CONSTANTS
  None = None
  Ids = {i1, i2}
  Requests = {r1, r2}
  TTL = 2
  MaxTime = 3
INVARIANTS TypeOK IdleSessionsEnd UseKeepsSession
PROPERTIES RevokedStaysRevoked ExpiredRowsGo
