\* One message whose row cannot be inserted.
CONSTANTS
  Messages = {m1}
  ContentOf <- OwnText
  FallbackScan = TRUE
  MaxDeliveries = 2
  MaxFaults = 1
  MaxSwitches = 0
  NoMessage = NoMessage
SPECIFICATION Spec
INVARIANT RemovedIsStored
CHECK_DEADLOCK FALSE
