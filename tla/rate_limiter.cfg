CONSTANTS
  Client = {c1, c2}
  Limit = 1
  WindowSec = 1
  CountMax = 2
  TicksPerSec = 2
  MaxTime = 6
  MaxRequests = 5
  MaxWaiting = 2
SPECIFICATION Spec
INVARIANTS
  TypeOK
  VerdictsFromOwnRequests
  RateLimitEnforced
PROPERTIES
  NoExpiredEntryStays
