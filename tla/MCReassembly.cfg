\* Parts that come twice and in any order, over VoWiFi.
CONSTANTS
  Messages <- MCMessages
  From <- MCFrom
  Ref <- MCRef
  Total <- MCTotal
  Day <- MCDay
  Leg = "vowifi"
  MaxCopies = 2
SPECIFICATION Spec
INVARIANTS WholeMessages NothingHeldBack
CHECK_DEADLOCK FALSE
