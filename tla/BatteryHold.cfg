CONSTANTS
    SettleTime = 1
    ReaderCache = 1
    Window = 2
    ReadTime = 1
    Attempts = 2
SPECIFICATION BSpec
INVARIANT UnconfirmedChargeRetried
CHECK_DEADLOCK FALSE
