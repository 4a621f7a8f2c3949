SPECIFICATION FairSpec
CONSTANTS
    Names = {n1}
    Versions = {v1}
    Nodes = {x1}
    Callers = {c1}
    Loops = {l1, l2}
    NoEntry = NoEntry
    Failed = Failed
    NoFlight = NoFlight
    Pending = Pending
    ListKey = ListKey
    NotFoundIsError = FALSE
    NilWatcher = TRUE
    Asked = {n1, ListKey}
    Stoppable = TRUE
    MaxChanges = 1
    MaxFaults = 1
CHECK_DEADLOCK FALSE
PROPERTIES CacheConverges  StopCompletes
