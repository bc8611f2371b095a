SPECIFICATION Spec
CONSTANTS
    MaxText = 5
    MaxChildren = 0
CHECK_DEADLOCK FALSE
INVARIANTS TextAgrees
