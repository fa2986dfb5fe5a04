CONSTANTS
    Alphabet = {"/", ".", "|", "%", "p", "e", "GET", "host", "a", "b"}
    MaxEntries = 2
    AuthToken <- MCAuthToken
    Requests <- MCRequests
    PurgeTexts <- MCPurgeTexts
    PurgePrefixes <- MCPurgePrefixes
    Credentials <- MCCredentials
SPECIFICATION Spec
INVARIANTS
    OwnAnswer
    OrderMakesNoDifference
    NoDotSegments
    EncodingAcceptable
PROPERTIES
    PurgeIsExact
