CONSTANTS
    RuleCodes = {42, 103, 204, 403}
    InfoCodes = {103}
    OriginCodes = {200, 304}
    MaxUnits = 3
    MaxInfo = 2
    MaxRequestBody = 1
    Peer = "peer"
    Forwarded <- MCForwarded
SPECIFICATION Spec
CHECK_DEADLOCK FALSE
INVARIANTS
    EveryRequestLogged
    LoggedIsSent
    CutIsMarked
    OwnRequestIDFirst
    NoSpoofedAddress
