CONSTANTS
    Requests = {r1, r2, r3}
    Clients <- MCClients
    Paths <- MCPaths
    Rules <- MCRules
    MaxInt = 127
    CleanupInterval = 1
    MaxTime = 2
SYMMETRY Symmetry
SPECIFICATION Spec
INVARIANTS
    NeverOverThrottled
    GrantsAreBounded
