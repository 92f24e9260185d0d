SPECIFICATION MCPersistent
CONSTANTS
  r1 = r1
  r2 = r2
  ann = ann
  a1 = a1
  a2 = a2
  t1 = t1
  t2 = t2
  words = words
  Sessions <- TwoRequests
  Uid <- MCUid
  Cost <- MCCost
  Tokens <- TwoTokens
  Window = 3
  ClaimDeadline = 1
  UidInFlight = 1
  GlobalInFlight = 2
  UidBudget = 2
  GlobalBudget = 2
  Attempts <- TwoAttempts
  Audio <- OneAudio
  StaleWindow = 2
PROPERTIES PromiseKept NotWedged
