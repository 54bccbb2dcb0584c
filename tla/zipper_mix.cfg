CONSTANTS
  MAX_DEVICE_NUMBER = 3
  INT_BITS = 32
  COMPLETE_EVENT_MASK <- Mask
  HASH_TABLE_SIZE = 3
  QUEUE_LENGTH = 2
  FILE_SIZE_THRESHOLD = 1
  Streams <- ManyStreams
  Announcements <- NoRuns
  MaxFailures = 1
  MaxSignals = 1
SPECIFICATION Spec
INVARIANT SavedIsComplete
CHECK_DEADLOCK FALSE
