SPECIFICATION Spec
CONSTANTS
  meeting = meeting
  call = call
  ann = ann
  h1 = h1
  h2 = h2
  h3 = h3
  d1 = d1
  Sessions <- MCSessions
  Streams <- MCStreams
  Calls <- MCCalls
  Uid <- MCUid
  Cost <- MCCost
  Tokens <- MCTokens
  Requests <- ThreeRequests
  Dialers <- OneDialer
  Window = 2
  ClaimDeadline = 1
  UidInFlight = 1
  GlobalInFlight = 1
  UidBudget = 2
  GlobalBudget = 2
SYMMETRY Symmetric
INVARIANTS ClaimedByItsRow
PROPERTIES RelayedOnce PlacedOnce
