SPECIFICATION Spec
CONSTANTS
  MaxRequests = 2
  MaxLost = 3
  MaxFaults = 1
  Retries = 2
  RetryTicks = 3
  CacheTicks = 9
  CacheEntries = 1
  MaxBusy = 1
  MaxWork = 1
  MaxLate = 1
INVARIANTS TypeOK AtMostOnce
PROPERTIES GivenUpWhenLost
