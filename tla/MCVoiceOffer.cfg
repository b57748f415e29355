\* A call without an offer for cellular is moved to it: TLC finds it.
CONSTANTS
  Calls = {a}
  Offers = {{"vowifi", "cellular"}, {"vowifi"}}
  Layers = {{"vowifi"}}
  MaxChanges = 1
  MaxLags = 1
SPECIFICATION Spec
INVARIANT OfferedLegsOnly
CHECK_DEADLOCK FALSE
