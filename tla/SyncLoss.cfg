SPECIFICATION Spec
CONSTANTS
    Users = {u1, u2}
    Room = room
    LocalEdits = {e1}
    PeerEdits = {p1}
    Objects = {o1, o2}
    Streams = {s1, s2, s3}
    MaxOpens = 2
    MaxLosses = 1
    None = None
SYMMETRY Symmetry
CHECK_DEADLOCK FALSE
INVARIANTS Restored
