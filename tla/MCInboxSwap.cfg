\* Two cards, exchanged once.
CONSTANTS
  Pdus = {"a", "e"}
  Messages = {"x", "z"}
  MessageOf <- MCMessageOf
  PartOf <- MCPartOf
  TotalOf <- MCTotalOf
  CardOf <- MCCardOf
  Cards = {"card1", "card2"}
  Slots = {1}
  Services = {"1"}
  Dedupe = TRUE
  QueueLimit = 2
  InboxLimit = 2
  MaxDeliveries = 2
  MaxFaults = 1
  MaxSwaps = 1
  NoCard = "nocard"
  NoPdu = "nopdu"
SPECIFICATION Spec
PROPERTY AcknowledgedIsDurable
CHECK_DEADLOCK FALSE
