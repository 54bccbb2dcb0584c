CONSTANTS
  Device = {1, 31}
  p1 = p1
  p2 = p2
  p3 = p3
  Peer = {p1, p2, p3}
  Nobody = Nobody
  Addr = {1, 2, 3}
  MaxDeaths = 1
  Configurations <- SoundConfigurations
SPECIFICATION FairSpec
INVARIANTS AnswersAreOnesOwn BooksAreRight NoDangling
PROPERTIES EveryoneIsAnswered ShutdownEndsBuilders
CHECK_DEADLOCK FALSE
