CONSTANTS
  BUFFER_SIZE = 100
  CERES = TRUE
  HEADER_WORDS = 2
  NUM_CHANNELS = 2
  CHANNEL_ORDER <- Swapped
  MAGIC <- CeresMagic
  EVENT_BUFFER_WORDS = 10
  NUM_EVENTS = 0
  COMMANDS <- NoCommands
  Wires <- NoisyCeresWires
  ChunkSizes <- FewWords
  MaxCommands = 0
  MaxSignals = 0
SPECIFICATION FairSpec
VIEW View
INVARIANT WaveformsAreOneEvent
 
