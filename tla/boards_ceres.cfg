CONSTANTS
  Kind = "CERES"
  Server = "ceres_server"
  Run <- RunCommand
  PowerUp <- CeresPowerUp
  Clients = {"c1", "c2"}
  NUM_XEMS = 2
  SessionNames <- CeresSessionNames
  Sessions <- CeresSessions
  MaxCommands = 3
  MaxTroubles = 1
  Outcomes = {"twice", "lost", "unheard", "unsent"}
  Moods <- AllMoods
SPECIFICATION Spec
INVARIANTS
  RepliesAreWhole
  OnlyChosenBoards
  ResetsOnlyWhatIsAsked
PROPERTY SettingsHold
CHECK_DEADLOCK FALSE
