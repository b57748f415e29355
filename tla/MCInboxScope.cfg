\* Two cards, exchanged once, without faults.
CONSTANTS
  Pdus = {"a", "e"}
  Messages = {"x", "z"}
  MessageOf <- MCMessageOf
  PartOf <- MCPartOf
  TotalOf <- MCTotalOf
  CardOf <- MCCardOf
  Cards = {"card1", "card2"}
  Slots = {1}
  Services = {"1"}
  Dedupe = TRUE
  QueueLimit = 2
  InboxLimit = 2
  MaxDeliveries = 1
  MaxFaults = 0
  MaxSwaps = 1
  NoCard = "nocard"
  NoPdu = "nopdu"
SPECIFICATION Spec
INVARIANT RightScope
CHECK_DEADLOCK FALSE
