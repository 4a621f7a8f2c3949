SPECIFICATION Spec
CONSTANTS
    Names = {n1, n2}
    Versions = {v1}
    Nodes = {x1, x2}
    Callers = {c1, c2}
    Loops = {l1}
    NoEntry = NoEntry
    Failed = Failed
    NoFlight = NoFlight
    Pending = Pending
    ListKey = ListKey
    NotFoundIsError = TRUE
    NilWatcher = FALSE
    Asked = {n1, n2}
    Stoppable = FALSE
    MaxChanges = 2
    MaxFaults = 0
CHECK_DEADLOCK FALSE
SYMMETRY CacherSymmetry
INVARIANTS NoPhantom SafetyInv
