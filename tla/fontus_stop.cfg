CONSTANTS
  BUFFER_SIZE = 24
  CERES = FALSE
  HEADER_WORDS = 2
  NUM_CHANNELS = 2
  CHANNEL_ORDER <- Unchanged
  MAGIC <- FontusMagic
  EVENT_BUFFER_WORDS = 8
  NUM_EVENTS = 2
  COMMANDS <- Queries
  Wires <- StopFontusWires
  ChunkSizes <- FewWords
  MaxCommands = 1
  MaxSignals = 2
SPECIFICATION FairSpec
VIEW View
INVARIANT StopsAtLimit
PROPERTIES DeliversPrefix StopsWhenTold
CHECK_DEADLOCK FALSE
