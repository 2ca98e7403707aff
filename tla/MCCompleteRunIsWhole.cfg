CONSTANTS
  pgn = pgn
  fen = fen
  Games = {pgn}
  PgnMoves = 1
  Book = {}
  LastSlot <- MCLastSlot
  Theory <- MCTheory
  Configs <- MCConfigs
  SettingsSpace <- PreparingOnly
  Faults = FALSE
  MaxCalls = 7
SPECIFICATION MCSpec
CHECK_DEADLOCK FALSE
INVARIANT
  CompleteRunIsWhole
