SPECIFICATION Spec
CONSTANTS
    Cid = {c1, c2}
    LimitCid = {}
    Foreign = {}
    Inputs = {}
    NoCid = NoCid
    NoReport = NoReport
    MaxEntries = 2
    MaxBlocks = 1
    MaxRequests = 1
    MaxCrashes = 0
SYMMETRY Symmetry
INVARIANTS
    ClosedAtBrokerMeansClosed
