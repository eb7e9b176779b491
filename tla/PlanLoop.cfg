CONSTANTS
    Midnight = 4
    EveningStart = {3}
    EveningPeak = {3}
    PeakHorizon = 4
    Usable = 100
    Floor = 10
    Margin = 5
    ChargeAC = 50
    OutAC = 40
    EtaNum = 4
    EtaDen = 5
    Wear = 1
    Fee = 1
    SavingsAC = 4
    Buffer = 10
    ChargeSlots = 2
    DischargeSlots = 3
    ConfNum = 4
    ConfDen = 5
    Deg = 1
    Tax = 2
    Scenarios <- MCScenarios
    Surprise = 8
    MaxSurprises = 1
    MaxOutages = 1
    MaxBlind = 1
SPECIFICATION Spec
CHECK_DEADLOCK FALSE
INVARIANTS PlansValidate CapIsReal CyclesHold EnergyIsThere BoughtForAPeak HonestPromise ResidentServed
