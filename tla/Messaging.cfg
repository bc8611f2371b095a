CONSTANTS
    p1 = p1
    Peers <- OnePeer
    Messages <- TwoMessages
    o1 = o1
    o2 = o2
    o3 = o3
    o4 = o4
    Objects <- FourObjects
    None = None
    Gone = Gone
    Plain = Plain
    MaxTraffic = 2
SPECIFICATION Spec
INVARIANTS NobodyForgotten WishFulfilled RosterAgrees
PROPERTIES SentInOrder
CHECK_DEADLOCK FALSE
