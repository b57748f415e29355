\* Two legs registering concurrently, whatever the registrar answers.
SPECIFICATION Spec
CONSTANTS
  MaxChanges = 0
  Kinds <- AllKinds
  Preferences = {"concurrent"}
  Spoofing = {FALSE}
  Offers = {TRUE, FALSE}
  Compliant = FALSE
  LossyNetwork = TRUE
INVARIANTS
  SecondFlowNegotiated
PROPERTIES
  FailedStaysFailed
