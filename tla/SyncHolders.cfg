SPECIFICATION FairSpec
CONSTANTS
    Users = {u1, u2}
    Room = room
    LocalEdits = {}
    PeerEdits = {}
    Objects = {o1, o2, o3}
    Streams = {s1, s2, s3}
    MaxOpens = 3
    MaxLosses = 1
    None = None
CHECK_DEADLOCK FALSE
INVARIANTS HeldAsCounted
PROPERTIES CallsReturn
