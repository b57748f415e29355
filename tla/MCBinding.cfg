\* Two legs registering concurrently with a registrar that honours Require.
SPECIFICATION Spec
CONSTANTS
  MaxChanges = 0
  Kinds <- AllKinds
  Preferences = {"concurrent"}
  Spoofing = {FALSE}
  Offers = {TRUE, FALSE}
  Compliant = TRUE
  LossyNetwork = TRUE
INVARIANTS
  GhostOnlyByOverlap
  SecondFlowNegotiated
PROPERTIES
  FailedStaysFailed
