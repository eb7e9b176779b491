\* A restart request and a stop around one periodic tick and one operator override.
SPECIFICATION MCSpec
CONSTANTS
    MaxGeneration = 3
    MaxTicks = 1
    Overrides = {o1}
    Mode = {"auto", "charge"}
    Outcome = {"applied", "unconfirmed"}
    Restarts = {r1}
INVARIANT RestartConsistent
PROPERTIES RestartNeverWedges StopIsFinal
CHECK_DEADLOCK FALSE
