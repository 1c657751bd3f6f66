SPECIFICATION LossSpec
CONSTANTS
    Unset = Unset
    Opening = 100
    Results = {100, 98, 0}
    Amounts = {10}
    Risks = {2}
    Flatten = TRUE
    DayLength = 2
    MaxAge = 2
    MaxNow = 3
    MaxTransfers = 1
    MaxLossFaults = 1
INVARIANT TransfersAreNotProfit
CHECK_DEADLOCK FALSE
