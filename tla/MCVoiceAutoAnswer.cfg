\* Permissions of an old mode written last: TLC finds the automatic answer.
CONSTANTS
  Calls = {a}
  Offers = {{"vowifi", "cellular"}, {"vowifi"}}
  Layers = {{"vowifi"}}
  MaxChanges = 1
  MaxLags = 1
SPECIFICATION Spec
PROPERTY NoCostlyAutoAnswer
CHECK_DEADLOCK FALSE
