\* One call, one lost link or changed policy, one message lost to an overrun.
CONSTANTS
  Calls = {a}
  Offers = {{"vowifi", "cellular"}, {"vowifi"}}
  Layers = {{"vowifi"}}
  MaxChanges = 1
  MaxLags = 1
SPECIFICATION FairSpec
INVARIANT TypeOK
INVARIANT OneLeg
INVARIANT NoOrphan
PROPERTY CostRatchet
PROPERTY CancelWins
PROPERTY AdmissionSettles
CHECK_DEADLOCK FALSE
