CONSTANTS
    Limit = 2048
    Second = 4
    None = None
    Configs <- MCConfigs
    RuleLists <- MCRuleLists
    Requests <- MCRequests
    Responses <- MCResponses
SPECIFICATION Spec
INVARIANTS
    ForbiddenNotStored
    StatedTTLApplies
    TTLOfDecidingRule
    TTLPositive
