SPECIFICATION FairSpec
CONSTANTS
  MaxPending = 2
  MaxRestarts = 1
  MaxActs = 3
  MaxFrames = 4
PROPERTIES SegmentsAreWhole LossIsRecovered
CHECK_DEADLOCK FALSE
