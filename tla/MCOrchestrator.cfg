SPECIFICATION Spec
CONSTANTS
    Slots <- TwoSlots
    Rules <- MixedRules
    Total = 40
    TargetWeight <- HalfEach
    MinWeight <- Lowest
    MaxWeight <- Highest
    MoveWeight = 5
    DustFloor = 2
    Ceiling = 9
    BudgetWindow = 3
    CadenceBudget = 2
    Threshold = 3
    RearmLevel = 1
    SettleSeqs <- OneWait
    MoveCost = 9
    Horizon = 4
    MaxReverseLock = 6
    Readings <- MixedReadings
    MaxTick = 6
CHECK_DEADLOCK FALSE
INVARIANTS WeightsInBand TurnoverInBudget LegsHoldBudget NeverIntoCondemned ReversalsWait
