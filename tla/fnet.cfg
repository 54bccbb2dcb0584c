CONSTANTS
  MAX_ATTEMPTS = 2
  MAX_ATTEMPT_TCP_CONNECT = 1
  CONNECT_RETRIES = 1
  Addr = {1, 2}
  SAFE_READ_ADDRESS = 1
  RESET_TCP = 3
  Used = {2}
  Dead = {3}
  Data = {0, 1}
  Garbage = 9
  Keys = {6}
  ArmNumbers = {15}
  Registers <- OneBoard
  ChannelUse <- SomeUse
  Configurations <- AllConfigurations
SPECIFICATION FairSpec
INVARIANTS AnswerIsMine ExactlyOnce
PROPERTIES AtLeastOnce WriteTakesEffect DoubleReadIsRight CallsEnd
CHECK_DEADLOCK FALSE
