SPECIFICATION Spec
CONSTANTS
  laptop = laptop
  studio = studio
  cron = cron
  Messages <- TwoMessages
  Desktops <- TwoDesktops
  Passes <- OnePass
  MaxAttempts = 2
  Lease = 2
  FallbackLease = 1
  ClaimDelay = 1
  ItemsPerRun = 2
  CallTime = 1
INVARIANTS LastClaimantAnswers DesktopsTakeTurns
PROPERTIES AnsweredOnce InboxEmpties
