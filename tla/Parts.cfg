SPECIFICATION PartsSpec
CONSTANTS
    a = a
    b = b
    Dots = Dots
    Segments = {a, b}
    RulePaths <- AFewRulePaths
    RuleActions <- AFewActions
    AskedPaths <- ShortPaths
    MaxRules = 2
    Entries = {1, 2, 3}
    PageSize = 2
    Tasks = {t1, t2}
    Files = {1, 2}
    Calls = {c1, c2}
    Paths = {p1}
    MaxBatches = 2
    Bytes = {0, 1}
    MaxChunks = 2
    MaxFaults = 2
    MaxText = 3
    MaxChildren = 2
CHECK_DEADLOCK FALSE
INVARIANTS SubtreeMeansAll ListingReachable RestTellsAll FilesTold StoppedIsEmpty QueriesClosed TransferredWhole CopyAgrees
PROPERTIES AgentsEnd StopEnds
