\* Two messages with the same text.
CONSTANTS
  Messages = {m1, m2}
  ContentOf <- SameText
  FallbackScan = TRUE
  MaxDeliveries = 1
  MaxFaults = 0
  MaxSwitches = 0
  NoMessage = NoMessage
SPECIFICATION Spec
INVARIANT RemovedIsStored
CHECK_DEADLOCK FALSE
