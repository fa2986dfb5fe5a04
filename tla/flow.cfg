CONSTANTS
    Requests = {r1, r2, r3}
    Keys = {k1}
    Methods = {"GET"}
    Classes = {"public", "private"}
    TTL = 0
    MaxEntries = 1
    MaxBytes = 9
    MaxTime = 1
    MaxVersion = 1
    NoEntry = NoEntry
    NoRequest = NoRequest
    PurgeSets <- MCPurgeSets
SYMMETRY Symmetry
SPECIFICATION Spec
INVARIANTS
    OneFetchPerKey
    OnlyStorableCached
    MonotonicReads
