CONSTANTS
  MAX_DEVICE_NUMBER = 3
  INT_BITS = 32
  COMPLETE_EVENT_MASK <- Mask
  HASH_TABLE_SIZE = 3
  QUEUE_LENGTH = 2
  FILE_SIZE_THRESHOLD = 1
  Streams <- ManyStreams
  Announcements <- SomeRuns
  MaxFailures = 1
  MaxSignals = 2
SPECIFICATION FairSpec
INVARIANTS TypeOK QuietMeansWhole BitWordVouches NothingLeaks FilesAreApart
PROPERTY SavedInTheEnd
CHECK_DEADLOCK FALSE
