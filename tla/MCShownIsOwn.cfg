SPECIFICATION Spec
CONSTANTS
    root = root
    reply = reply
    mate = mate
    Positions <- MCPositions
    LegalMoves <- MCLegalMoves
    MaxDepth = 2
    MaxMultiPv = 2
    MaxTime = 1
    None = none
    Moves <- MCMoves
    Settings <- MCSettings
    MaxCalls = 3
INVARIANT ShownIsOwn
CHECK_DEADLOCK FALSE
