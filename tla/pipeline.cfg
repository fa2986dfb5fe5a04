CONSTANTS
    WAFConfigs <- MCWAFConfigs
    Requests <- MCRequests
    Responses = {2, 3}
    SecurityConfigs <- MCSecurityConfigs
    NoConfig = NoConfig
    None = None
SPECIFICATION Spec
INVARIANTS
    BodyIntact
    ResponseIntact
    BlocksUnlessOvertaken
    BlocksForCause
    BlockHasItsStatus
