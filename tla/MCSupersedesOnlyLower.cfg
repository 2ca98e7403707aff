CONSTANTS
  pgn = pgn
  fen = fen
  Games = {pgn}
  PgnMoves = 1
  Book = {}
  LastSlot <- MCLastSlot
  Theory <- MCTheory
  Configs <- MCConfigs
  SettingsSpace <- Refining
  Faults = FALSE
  MaxCalls = 3
SPECIFICATION MCSpec
CHECK_DEADLOCK FALSE
PROPERTY
  SupersedesOnlyLower
