CONSTANTS
    ChunkSize = 2
    Lengths <- ShortAndLong
    Budget <- TwoOneWay
SPECIFICATION FairSpec
PROPERTIES ImplementsLink EverythingArrives ClosedIsDone LeavingEndsBoth
