\* One notification cancelled while it is sent.
CONSTANTS
  Items = {i1}
  Tasks = {t1}
  MaxAttempts = 2
  MaxMessages = 1
  MaxRequests = 1
  MaxCrashes = 0
  NoItem = NoItem
SPECIFICATION Spec
PROPERTY CancelIsFinal
CHECK_DEADLOCK FALSE
