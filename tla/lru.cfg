CONSTANTS
    k1 = k1
    k2 = k2
    k3 = k3
    pa = pa
    pb = pb
    Keys = {k1, k2, k3}
    Paths = {pa, pb}
    PathPrefixes = {"root", "dir"}
    PathOf <- MCPathOf
    PrefixesOf <- MCPrefixesOf
    Sizes = {0, 1, 3}
    TTLs = {0}
    MaxEntries = 2
    MaxBytes = 2
    MaxTime = 1
    MaxOps = 4
    NoEntry = NoEntry
SPECIFICATION FairSpec
INVARIANTS
    ListMatchesMap
    SizeAccounted
    EntriesBounded
    BytesBounded
    LRUOrder
PROPERTIES
    EvictsOldest
    ImplementsCacheStore
    LockReleased
