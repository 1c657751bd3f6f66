SPECIFICATION SignalsSpec
CONSTANTS
    Lives = 2
    Runs = 1
    Writes = 2
    MaxClock = 2
    MaxSignals = 2
    Sites = 2
    Event = {"d1"}
    Summary = {"d1"}
    Worker = {"w1", "w2"}
    Own = "w1"
    MaxQueue = 1
    MaxTries = 2
    MaxClaims = 2
    MaxFaults = 2
INVARIANTS
    HaltKept
    AlertsAccounted
PROPERTIES
    HaltObeyed
    AlertsServed
CHECK_DEADLOCK FALSE
