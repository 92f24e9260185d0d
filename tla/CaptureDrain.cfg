SPECIFICATION LivingSpec
CONSTANTS
  range = range
  Sources <- MCSources
  RangeLength <- MCRangeLength
  RangeStart <- MCRangeStart
  MaxBytes = 2
  MaxAge = 9
  MaxSegmentBytes = 2
  Faults = FALSE
  MaxSequence = 3
  MaxMinted = 2
  MaxLive = 2
  MaxNow = 0
  MaxAttempts = 2
  Silent <- NoFrames
PROPERTIES LiveAudioArrivesInOrder UploadedMeansTranscribed PassEnds LogDrains
