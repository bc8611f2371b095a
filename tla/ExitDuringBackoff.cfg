CONSTANTS
    r1 = r1
    r2 = r2
    Requests <- OneRequest
    Documents = 0
    ReconnectTimeout = "none"
    Messaging = TRUE
    EarlyRequests = FALSE
    OverlappingRequests = FALSE
    DialTimeouts = FALSE
    MaxLinks = 2
    MaxId = 2
    MaxInbox = 1
SPECIFICATION FairSpec
PROPERTIES ExitEnds
