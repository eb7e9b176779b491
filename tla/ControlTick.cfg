SPECIFICATION Spec
CONSTANTS
    EndCycles = 3
    IntentCycles = 2
    MaxCommands = 2
PROPERTIES OperatorActs UnsafeActs CarNeverFed CommitmentActs
CHECK_DEADLOCK FALSE
