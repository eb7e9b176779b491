SPECIFICATION SRSpec
CONSTANTS
    MaxGeneration = 3
    MaxTicks = 1
    Overrides = {}
    Mode = {"auto", "charge"}
    Outcome = {"gated", "applied", "recovered", "unrecovered", "unconfirmed"}
    Restarts = {r1}
INVARIANT StopLeavesNoForcedMode
CHECK_DEADLOCK FALSE
