CONSTANTS
  BUFFER_SIZE = 16
  CERES = TRUE
  HEADER_WORDS = 2
  NUM_CHANNELS = 2
  CHANNEL_ORDER <- Swapped
  MAGIC <- CeresMagic
  EVENT_BUFFER_WORDS = 12
  NUM_EVENTS = 0
  COMMANDS <- ResetOnly
  Wires <- LookalikeCeresWires
  ChunkSizes <- AnyBytes
  MaxCommands = 1
  MaxSignals = 1
SPECIFICATION Spec
VIEW View
INVARIANTS TypeOK RingFifo HeaderLag 
CHECK_DEADLOCK FALSE
