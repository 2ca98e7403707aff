CONSTANTS
  pgn = pgn
  fen = fen
  Games = {pgn}
  PgnMoves = 2
  Book = {0}
  LastSlot <- MCLastSlot
  Theory <- MCTheory
  Configs <- MCConfigs
  SettingsSpace <- PreparingOnly
  Faults = TRUE
  MaxCalls = 0
SPECIFICATION MCInUseSpec
CHECK_DEADLOCK FALSE
INVARIANTS
  CompleteRunIsWhole
  ProgressIsBacked
  WorkerTrustsRows
