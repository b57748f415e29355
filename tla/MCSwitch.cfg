\* One leg at a time: access switches, stops, resets, calls and observations, and
\* that each of them ends.
SPECIFICATION FairSpec
CONSTANTS
  MaxChanges = 2
  Kinds <- AllKinds
  Preferences = {"wlan_preferred"}
  Spoofing = {FALSE}
  Offers = {FALSE}
  Compliant = TRUE
  LossyNetwork = FALSE
INVARIANTS
  TypeOK
  DrainBeforeTeardown
  EarlyCallSurvives
  ObservationExclusive
  SpoofedStaysOffCellular
PROPERTIES
  TransitionTerminates
  DeferredSwitchApplied
  ClosedLineReopens
  SpoofedLeavesCellular
