SPECIFICATION Spec
CONSTANTS
    local = local
    online = online
    g1 = g1
    g2 = g2
    g3 = g3
    pgn = pgn
    me = me
    they = they
    reply = reply
    bare = bare
    early = early
    late = late
    m1 = m1
    m2 = m2
    k1 = k1
    k2 = k2
    other = other
    LocalProfiles = {local}
    OnlineProfiles = {online}
    Games <- MCGames
    Contents = {pgn, reply, bare}
    Files = {pgn, bare}
    Fens = {bare}
    Remotes <- MCRemotes
    Months = {m1, m2}
    Collections = {k1, k2}
    Names = {downloads, other}
    Downloads = downloads
    Versions = {v1}
    MaxRank = 1
    None = none
    Content <- MCContent
    Account <- MCAccount
    Archive <- MCArchive
    Ended <- MCEnded
    FirstProfiles = {online}
    Player <- MCPlayer
    Facts <- MCFacts
    Outcome <- MCOutcome
    NameOrder <- MCNameOrder
    MaxFamilies = 1
    OpeningMax = 1
    MiddleMax = 2
    MaxCalls = 3
SYMMETRY Interchangeable
INVARIANTS
    TypeOK
    FavoritesFollowOwner
    CollectionsSound
    CachedMonthIsStored
    StatisticsAgree
PROPERTIES
    MergeLosesNothing
    KeptGamesStay
CHECK_DEADLOCK FALSE
