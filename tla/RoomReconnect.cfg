CONSTANTS
    r1 = r1
    r2 = r2
    Requests <- TwoRequests
    Documents = 1
    ReconnectTimeout = "none"
    Messaging = TRUE
    EarlyRequests = FALSE
    OverlappingRequests = FALSE
    DialTimeouts = TRUE
    MaxLinks = 3
    MaxId = 4
    MaxInbox = 2
SPECIFICATION ReconnectSpec
INVARIANTS TypeOK StaleLinksSilent ResponseMatchesRequest PendingOnCurrentLink NoSecondDial
PROPERTIES OverForGood ImplementsSession LinksKeepPromise
