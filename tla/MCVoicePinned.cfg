\* A refused re-INVITE makes the router forget a confirmed call: TLC finds it.
CONSTANTS
  Calls = {a}
  Offers = {{"vowifi", "cellular"}, {"vowifi"}}
  Layers = {{"vowifi"}}
  MaxChanges = 1
  MaxLags = 1
SPECIFICATION Spec
INVARIANT ConfirmedStaysPinned
CHECK_DEADLOCK FALSE
