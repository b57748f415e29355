\* One message over three transports, with failing statements and restarts.
CONSTANTS
  Messages = {m1}
  ContentOf <- OwnText
  FallbackScan = TRUE
  MaxDeliveries = 3
  MaxFaults = 2
  MaxSwitches = 2
  NoMessage = NoMessage
SPECIFICATION FairSpec
INVARIANT StoredOnce
CHECK_DEADLOCK FALSE
PROPERTY CopiesLeave
