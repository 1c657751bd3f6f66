SPECIFICATION ObservationSpec
CONSTANTS
    Symbol = {eur, xau}
    MaxSlot = 2
    Flat = Flat
    eur = eur
    xau = xau
    None = None
    Writer = {"w1", "w2"}
    MaxStart = 2
    MaxIngests = 2
    MaxWindow = 2
    MaxReviews = 1
    MaxForeign = 1
    Nobody = Nobody
    Budget = 2
    MaxTake = 1
    Retries = 1
    FailedAfter = 3
    MaxCycles = 2
    MaxOdd = 3
    MaxRestarts = 1
    Session = {"s1"}
    Trade = {"t1"}
    Ttl = 2
    FailureTtl = 1
    StaleMax = 2
    Deadline = 1
    Interval = 1
    Backoff = 2
    FailuresBeforeBackoff = 2
    MaxClock = 2
    MaxStarts = 1
    Event = {"e1"}
    High = {"e1"}
    Source = {"BLS", "BEA"}
    Modes = {"fxmacrodata", "official_hybrid", "finnhub"}
    CacheFor = 4
    Active = 2
    Recent = 4
    RetryRate = 2
    RetryOther = 1
    MaxLag = 1
    MaxTime = 8
    MaxFailures = 1
    MaxMacroRestarts = 1
INVARIANTS
    LedgerSound
    EvidenceComplete
    ReviewKept
    ActiveWindowHeld
    StatusHonest
    DemoReadsHonest
    NoLookAhead
PROPERTY
    ReviewedAndSealed
CHECK_DEADLOCK FALSE
