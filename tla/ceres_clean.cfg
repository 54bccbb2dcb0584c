CONSTANTS
  BUFFER_SIZE = 24
  CERES = TRUE
  HEADER_WORDS = 2
  NUM_CHANNELS = 2
  CHANNEL_ORDER <- Swapped
  MAGIC <- CeresMagic
  EVENT_BUFFER_WORDS = 16
  NUM_EVENTS = 0
  COMMANDS <- NoCommands
  Wires <- CleanCeresWires
  ChunkSizes <- WholeWords
  MaxCommands = 0
  MaxSignals = 0
SPECIFICATION FairSpec
VIEW View
PROPERTY DeliversStream
