SPECIFICATION Spec
CONSTANTS
    c1 = c1
    l1 = l1
    chessCom = chessCom
    lichess = lichess
    Providers <- MCProviders
    Lichess <- MCLichess
    Callers <- MCJobs
    None = 0
    BackoffStep = 1
    BackoffCap = 2
    LichessMinimum = 2
    RetryAfters = {0}
    MaxClock = 1
    Profiles <- MCProfiles
    NoProfile = noProfile
    ProviderOf <- MCProviderOf
    Known <- MCKnown
    Perfs = 1
    ReportMonths = 1
    MaxCalls = 2
INVARIANT
    ResultDelivered
CHECK_DEADLOCK FALSE
