\* One tick and one operator override; a cycle needs two tickets at most.
SPECIFICATION FairSpec
CONSTANTS
    MaxGeneration = 4
    MaxTicks = 1
    Overrides = {o1}
    Mode = {"auto", "charge"}
    Outcome = {"applied", "unconfirmed"}
INVARIANT CycleConsistent
PROPERTIES NewestWins SlotsFreed
CHECK_DEADLOCK FALSE
