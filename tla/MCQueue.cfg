\* One notification, two tasks, three requests of the operator and a restart.
CONSTANTS
  Items = {i1}
  Tasks = {t1, t2}
  MaxAttempts = 2
  MaxMessages = 1
  MaxRequests = 3
  MaxCrashes = 1
  NoItem = NoItem
SPECIFICATION FairSpec
INVARIANTS AcknowledgedOnce SendingAttended
PROPERTY QueueDrains
CHECK_DEADLOCK FALSE
