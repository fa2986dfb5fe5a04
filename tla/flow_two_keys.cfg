CONSTANTS
    Requests = {r1, r2}
    Keys = {k1, k2}
    Methods = {"GET"}
    Classes = {"public", "private"}
    TTL = 0
    MaxEntries = 1
    MaxBytes = 9
    MaxTime = 1
    MaxVersion = 1
    NoEntry = NoEntry
    NoRequest = NoRequest
    PurgeSets <- MCPurgeSets
SPECIFICATION FairSpec
INVARIANTS
    FetchOnlyWhenAbsent
    PurgeHoldsUnlessRaced
PROPERTIES
    EveryRequestAnswered
