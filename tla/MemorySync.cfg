SPECIFICATION Spec
CONSTANTS
  phone = phone
  mac = mac
  x = x
  y = y
  h1 = h1
  h2 = h2
  Devices <- MCDevices
  Sources <- MCSources
  Local <- MCLocal
  Handlers <- TwoHandlers
  LogPage = 2
  Mirror = mac
  PageSize = 2
  PullSize = 2
  MaxFaults = 1
INVARIANTS RecordsReplayTheLog DeletedIsGone AcknowledgedIsKept MirrorSkipsNothing
PROPERTIES MirrorCatchesUp
