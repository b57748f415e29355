\* Two notifications sent at the same time.
CONSTANTS
  Items = {i1, i2}
  Tasks = {t1, t2}
  MaxAttempts = 2
  MaxMessages = 1
  MaxRequests = 0
  MaxCrashes = 0
  NoItem = NoItem
SPECIFICATION Spec
INVARIANT WithinRateLimit
CHECK_DEADLOCK FALSE
