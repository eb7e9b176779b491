CONSTANTS
    Tasks = {t1, t2}
    Threads = {a1, a2}
    MaxPosts = 2
    MaxTroubles = 1
    MaxEvents = 2
SPECIFICATION MCSpec
INVARIANTS OverrideIsPlanned CancelIsFinal
SYMMETRY Interchangeable
CHECK_DEADLOCK FALSE
