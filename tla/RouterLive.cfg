SPECIFICATION FairSpec
CONSTANTS
    Cid = {c1, l1}
    LimitCid = {l1}
    Foreign = {}
    Inputs = {"operator", "flatten", "manual"}
    NoCid = NoCid
    NoReport = NoReport
    MaxEntries = 1
    MaxBlocks = 1
    MaxRequests = 1
    MaxCrashes = 1
INVARIANTS
    ClosedMeansClosed
PROPERTIES
    LostAnswerSettled
    FlattenCompletes
