CONSTANTS
  Kind = "FONTUS"
  Server = "kintex_client_server"
  Run <- RunCommand
  PowerUp <- FontusPowerUp
  Clients = {"c1"}
  NUM_XEMS = 1
  SessionNames <- FontusSessionNames
  Sessions <- FontusSessions
  MaxCommands = 2
  MaxTroubles = 1
  Outcomes = {"twice", "lost", "unheard", "unsent"}
  Moods <- AllMoods
SPECIFICATION Spec
INVARIANTS
  SyncIsReleased
PROPERTY SettingsHold
CHECK_DEADLOCK FALSE
