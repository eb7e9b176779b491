SPECIFICATION Spec
CONSTANTS
    Mode = {"auto", "charge", "idle"}
    MinDwell = 2
    LocalDate <- TwoDays
    RoutineCap = 1
    CommitmentCap = 1
    MaxTime = 3
    MaxCount = 2
    MaxFaults = 2
INVARIANTS DailyCapsHold UnknownRemembered
PROPERTY AutomaticCommandsDwell
CHECK_DEADLOCK FALSE
