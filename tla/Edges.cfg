\* The battery's towers, ...
CONSTANTS
    SettleTime = 1
    ReaderCache = 2
    Window = 3
    ReadTime = 1
    Attempts = 2
\* ... the prices ...
CONSTANTS
    PriceAskers = {p1, p2}
    CacheTtl = 3
    RetryTtl = 1
    OutageGrace = 4
    OutageMinFailures = 2
    PostTime = 1
    PriceEnd = 10
\* ... and the sun.
CONSTANTS
    SunAskers = {s1, s2}
    DayLength = 4
    RefreshTimes = {1, 3}
    DailyBudget = 2
    SunEnd = 5
SPECIFICATION MCSpec
INVARIANTS ClusterFollows ReadsAreRecent FreshLookIsRight NoPhantomOutage
PROPERTIES PollsSpaced OneForecastPerRefresh
CHECK_DEADLOCK FALSE
