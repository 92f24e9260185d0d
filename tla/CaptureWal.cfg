SPECIFICATION Spec
CONSTANTS
  range = range
  Sources <- MCSources
  RangeLength <- MCRangeLength
  RangeStart <- MCRangeStart
  MaxBytes = 2
  MaxAge = 1
  MaxSegmentBytes = 2
  Faults = TRUE
  MaxSequence = 3
  MaxMinted = 2
  MaxLive = 2
  MaxNow = 2
INVARIANTS SequenceOrder WrittenFramesSurvive
PROPERTIES SealedNeverChanges EvictionIsOrderly
