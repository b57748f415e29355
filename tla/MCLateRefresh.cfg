\* A lease may expire while the answer that renews it is on its way.
SPECIFICATION Spec
CONSTANTS
  MaxChanges = 0
  Kinds <- AllKinds
  Preferences = {"concurrent"}
  Spoofing = {FALSE}
  Offers = {TRUE}
  Compliant = TRUE
  LossyNetwork = TRUE
INVARIANTS
  NoGhostBinding
