\* The same parts over cellular.
CONSTANTS
  Messages <- MCMessages
  From <- MCFrom
  Ref <- MCRef
  Total <- MCTotal
  Day <- MCDay
  Leg = "cellular"
  MaxCopies = 1
SPECIFICATION Spec
INVARIANT WholeMessages
CHECK_DEADLOCK FALSE
