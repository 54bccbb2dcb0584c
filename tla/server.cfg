CONSTANTS
  LLONG_MAX = 127
  PROTO_REPLY_CHUNK_BYTES = 3
  REPLY_BLOCK_HEADER = 1
  PROTO_IOBUF_LEN = 8
  PROTO_INLINE_MAX_SIZE = 8
  PROTO_MBULK_BIG_ARG = 6
  MaxMultibulk = 3
  proto_max_bulk_len = 6
  client_max_querybuf_len = 30
  Commands <- TheCommands
  setsize = 4
  Fd = {0, 1, 2, 3}
  NoData = "nobody"
  Peer = {"p", "r"}
  Rude = {"r"}
  SocketRoom = 3
  MAX_ACCEPTS_PER_CALL = 1
  Configurations <- AllConfigurations
SPECIFICATION FairSpec
INVARIANTS RepliesInOrder RepliesAreOnTheirWay NoDangling EveryoneIsHeard 
PROPERTIES EveryoneIsAnswered TheGoneAreFreed
CHECK_DEADLOCK FALSE
