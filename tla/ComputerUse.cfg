SPECIFICATION Spec
CONSTANTS
  brief = brief
  own = own
  Cards <- OneCard
  Chats <- TwoChats
  Proposals <- TwoActions
  Decisions <- TwoDecisions
  NoProposal = NoProposal
  Nobody = Nobody
  Backlog = 1
  MaxExtras = 2
  PendingCapacity = 2
  TerminalCapacity = 1
CHECK_DEADLOCK FALSE
INVARIANTS OneEffectPerCard RecordTellsTheTruth
PROPERTIES SettledIsFinal DispatchedSettles
