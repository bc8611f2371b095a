SPECIFICATION StreamsSpec
CONSTANTS
    Feeds = {"none", "free", "source", "download", "read", "held"}
    UnexpectedContent = FALSE
    MaxItems = 2
    MaxFeed = 2
    MaxEpochs = 2
    MaxMessages = 2
    Losses = {"initiator", "responder"}
CHECK_DEADLOCK FALSE
INVARIANTS CallIsHonest ClosedWhole
PROPERTIES CallEnds NobodyWaits
