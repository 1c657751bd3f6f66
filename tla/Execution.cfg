SPECIFICATION ExecutionSpec
CONSTANTS
    Cid = {c1}
    LimitCid = {}
    Foreign = {f1}
    Inputs = {"operator", "drift"}
    NoCid = NoCid
    NoReport = NoReport
    MaxEntries = 1
    MaxBlocks = 2
    MaxRequests = 0
    MaxCrashes = 1
    Caller = {"c1", "c2"}
    Symbol = {"x", "y", "z"}
    Run = {"r0", "r1", "r2"}
    Request <- Requests
    Legacy = "r0"
    Reserve = 8
    FillRisk = {8}
    Limit = 16
    None = None
    Process = {"p", "q"}
    Slot = {"r1", "r2", "r3"}
    Invalid = {"r3"}
    Old = "old"
    Nobody = Nobody
    MaxDeaths = 1
    MaxElsewhere = 1
    Unset = Unset
    Opening = 100
    Results = {100, 20}
    Amounts = {20}
    Risks = {2}
    Flatten = TRUE
    DayLength = 2
    MaxAge = 2
    MaxNow = 3
    MaxTransfers = 1
    MaxLossFaults = 1
    Ids = {"i1", "i2"}
    Max429 = 1
    MaxOps = 3
    TradeId = {"t1", "t2"}
    DedupSeconds = 1
    HourlyCap = 2
    Hour = 2
    QueueMax = 1
    Grace = 0
    MaxClock = 2
    MaxOffers = 2
    MaxAlertCrashes = 1
    Units = 4
    TTL = 2
    Week = 4
    BanFrom = 3
    MaxTime = 5
    MaxFaults = 2
    MaxClears = 1
INVARIANTS
    RiskLimitsKept
    PlansKept
    BrokerTold
    ScaledByThirds
PROPERTIES
    DriftClearIsForThisBlock
    StopOnlyTightens
CHECK_DEADLOCK FALSE
