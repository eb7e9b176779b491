\* control_state and cache against two history writes that are cancelled up to twice.
SPECIFICATION FairSpec
CONSTANTS
    t1 = t1
    t2 = t2
    history = history
    Threads = {save, cache}
    Critical = {save}
    Stores = {history}
    Tasks = {t1, t2}
    StoreOf <- OneStore
    Attempts = 3
    MaxCancels = 2
INVARIANTS GateHasAnOwner
PROPERTIES CriticalAhead CriticalWriteEnds
CHECK_DEADLOCK FALSE
