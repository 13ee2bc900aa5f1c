SPECIFICATION AdminSpec
CONSTANTS
    Admins = {a1, a2, a3}
    ReadMayFail = TRUE
    GridSizes = {4, 6, 8}
    HouseEdges = {0, 1, 5, 100, 250}
    BetCents = {0, 1, 100, 333}
    DefaultHouseEdge = 1
    Callers = {r1, r2}
    Users = {u1, u2}
    Games = {g1}
    MaxBet = 2
    MaxAttempts = 2
    MaxCalls = 2
    KeyRequests = {q1, q2}
    MaxKeys = 2
    MaxKeyCalls = 4
    BotNames = {n1, n2}
    BotAdmins = {a1, a2}
    MaxAmount = 2
    DefaultMaxBet = 1
    MaxBotCalls = 2
    Chains = {c1, c2}
    Seeds = {s1, s2}
    ChainRequests = {q1, q2}
    TotalRounds = 2
    MaxBatch = 1
    MaxChainCalls = 3
    Checks = {b1}
    EligAdmins = {e1, e2}
    Moderators = {m1, m2}
    MaxModCalls = 2
    MaxFaults = 1
    Filters = {"all", "banned"}
    PageCount = 2
    Fetches = {f1, f2}
    Ranges = {"day", "week"}
    MaxSeq = 4
    HourLen = 2
    DayHours = 2
    WeekDays = 3
    YearLen = 12
    MonthStarts = {0, 4, 12, 16}
    MonthCount = 2
    HourlyUpTo = 8
    DailyUpTo = 11
    MaxRange = 15
    Opening = 14
    Closing = 19
    MaxBets = 2
    Moments = {1, 4, 11, 14}
    RestrictRequests = {q1, q2}
    Limits = {l1}
    MaxRestrictCalls = 3
    MaxRestrictFaults = 1
    ConfigRequests = {q1, q2}
    MaxSetting = 2
    MaxConfigCalls = 2
    MaxConfigFaults = 1
    Updates = {q1, q2}
    MaxUploads = 2
    MaxCaseCalls = 3
    MaxCaseFaults = 1
    Whole = 12
    Tolerance = 1
    AllWeights = 20
    MaxItems = 4
INVARIANTS
    MultiplierIsFair
    SetOnlyIfUnchanged CancelRefundsLobby
    PublishedBotsSane PublishedListIsRows
    RoundsVerify
    StaleOnlyByRace
    MirrorsAgreeWhenQuiet RequestsFinish
    OverviewSettles
    ChartShowsWindow
    CopyIsRow
    CoverIsThere
    WeightsFair
PROPERTIES
    PauseDrains RunningBanStands LoneChangeClamps
    BanBitesInTheEnd ListCatchesUp
    HashStaysSound OtherSettingsKept
CHECK_DEADLOCK FALSE
