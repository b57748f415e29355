\* A call starts while a deferred VoWiFi rebuild is under way.
SPECIFICATION Spec
CONSTANTS
  MaxChanges = 2
  Kinds <- AllKinds
  Preferences = {"wlan_preferred"}
  Spoofing = {FALSE}
  Offers = {FALSE}
  Compliant = TRUE
  LossyNetwork = TRUE
INVARIANTS
  RebuildDefersForCall
