SPECIFICATION Spec
CONSTANTS
  chat = chat
  digest = digest
  ann = ann
  Requests <- MCRequests
  Uid <- MCUid
  Window = 2
  Stale = 1
  MaxSweeps = 1
  MaxStops = 1
  Estimates <- OneOrTwo
  Usages <- NoneOrMuch
  UidInFlight = 1
  GlobalInFlight = 1
  UidBudget = 2
  GlobalBudget = 2
INVARIANTS WorkingWithinLimits SettledHoldsNothing
PROPERTIES SpentWithinBudget AllSettled
