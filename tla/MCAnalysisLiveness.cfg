CONSTANTS
  pgn = pgn
  fen = fen
  Games = {pgn}
  PgnMoves = 2
  Book = {0}
  LastSlot <- MCLastSlot
  Theory <- MCTheory
  Configs <- MCConfigs
  SettingsSpace <- Refining
  Faults = FALSE
  MaxCalls = 2
SPECIFICATION MCFairSpec
CHECK_DEADLOCK FALSE
PROPERTIES
  KeepsLedger
  CallsReturn
  CancelledJobsEnd
  WorkersEnd
