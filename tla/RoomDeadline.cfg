CONSTANTS
    r1 = r1
    r2 = r2
    Requests <- OneRequest
    Documents = 1
    ReconnectTimeout = "finite"
    Messaging = TRUE
    EarlyRequests = TRUE
    OverlappingRequests = FALSE
    DialTimeouts = TRUE
    MaxLinks = 3
    MaxId = 4
    MaxInbox = 1
SPECIFICATION FairSpec
PROPERTIES NoHungRequest LinkDeathNoticed OutageEnds ExitEndsOffline
