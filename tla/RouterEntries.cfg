SPECIFICATION Spec
CONSTANTS
    Cid = {c1, c2}
    LimitCid = {}
    Foreign = {}
    Inputs = {"reversal", "operator", "breakeven", "manual", "sweeps", "drift"}
    NoCid = NoCid
    NoReport = NoReport
    MaxEntries = 2
    MaxBlocks = 2
    MaxRequests = 1
    MaxCrashes = 1
SYMMETRY Symmetry
INVARIANTS
    PostedAtMostOnce
    IntentBeforeExposure
    SingleExposure
    RejectedMeansNothingThere
PROPERTIES
    ManualServed
    NothingStacked
