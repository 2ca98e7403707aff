SPECIFICATION FairSpec
CONSTANTS
    root = root
    reply = reply
    mate = mate
    Positions <- MCPositions
    LegalMoves <- MCLegalMoves
    MaxDepth = 2
    MaxMultiPv = 2
    MaxTime = 1
    None = none
    Moves <- MCMoves
    Settings <- MCSettings
    MaxCalls = 3
INVARIANTS
    TypeOK
    RememberedIsFinished
    ClassifiedFromOwnResults
    PausedOnlyIfCancelled
    MainLineAlone
PROPERTIES
    CancelledEnds
    CallsReturn
CHECK_DEADLOCK FALSE
