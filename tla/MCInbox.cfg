\* One message in two encodings, delivered twice, and an inbox with room for one.
CONSTANTS
  Pdus = {"a", "b"}
  Messages = {"x"}
  MessageOf <- MCMessageOf
  PartOf <- MCPartOf
  TotalOf <- MCTotalOf
  CardOf <- MCCardOf
  Cards = {"card1"}
  Slots = {1}
  Services = {"0", "1"}
  Dedupe = TRUE
  QueueLimit = 2
  InboxLimit = 1
  MaxDeliveries = 2
  MaxFaults = 1
  MaxSwaps = 0
  NoCard = "nocard"
  NoPdu = "nopdu"
SPECIFICATION FairSpec
INVARIANT ShownOnce
PROPERTY ImplementsMailbox
CHECK_DEADLOCK FALSE
PROPERTY ReleasedIsShown
