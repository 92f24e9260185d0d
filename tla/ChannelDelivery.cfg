SPECIFICATION DeliverySpec
CONSTANTS
  Deliveries <- TwoDeliveries
  MaxSends = 2
  SendLease = 1
  Backoff = 1
  Ambiguous = FALSE
  MaxLag = 1
  Deaths <- EarlyDeaths
INVARIANTS OneAtATime ArrivalsInOrder
PROPERTIES SentInTurn Drains
