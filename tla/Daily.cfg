\* The notification loop ...
CONSTANTS
    Start = 1
    PerDay = 3
    Evening = {1}
    Late = {2}
    Sundays = {0}
    Threshold = 1
    Stable = 1
    RestoreLimit = 2
    MaxTick = 3
    MaxFaults = 1
    MaxCrashes = 1
    MaxFound = 1
\* ... and the books.
CONSTANTS
    DayTicks = 2
    Lookback = 2
    Retention = 3
    LastTick = 7
    MaxTroubles = 1
    MaxBoots = 1
    MaxViews = 1
SPECIFICATION MCSpec
INVARIANTS ForecastOnRecord GapsAreTold ToldOnce BooksComplete
PROPERTIES DaysKept
CHECK_DEADLOCK FALSE
