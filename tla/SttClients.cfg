SPECIFICATION ClientsSpec
CONSTANTS
  morning = morning
  noon = noon
  guest = guest
  ann = ann
  bob = bob
  t1 = t1
  t2 = t2
  t3 = t3
  Sessions <- MCSessions
  Uid <- MCUid
  Cost <- MCCost
  Tokens <- ThreeTokens
  Window = 3
  ClaimDeadline = 2
  UidInFlight = 1
  GlobalInFlight = 2
  UidBudget = 2
  GlobalBudget = 2
INVARIANTS CoveredWithinLimits BudgetRemembered
PROPERTIES GrantedOnce UnclaimedIsFreed
