SPECIFICATION Spec
CONSTANTS
    Cid = {c1, c2}
    LimitCid = {}
    Foreign = {}
    Inputs = {"breakeven", "emergency", "flatten"}
    NoCid = NoCid
    NoReport = NoReport
    MaxEntries = 2
    MaxBlocks = 1
    MaxRequests = 2
    MaxCrashes = 1
SYMMETRY Symmetry
INVARIANTS
    TypeOK
    RowsAgree
PROPERTIES
    FlattenServed
