\* A message in two parts and one in one part to the same recipient.  The unit of
\* time is 150 s, so that a part that takes a unit is late.
CONSTANTS
  Sends = {"long", "short"}
  Total <- MCTotal
  References = 3
  Early = 0
  Late = 0
  Doubt = 2
  MaxPartTime = 0
  MaxTime = 1
  MaxFaults = 1
  NoSend = "none"
SPECIFICATION FairSpec
INVARIANT DeliveredIsTrue
PROPERTY ReportsCorrelate
CHECK_DEADLOCK FALSE
