SPECIFICATION Spec
CONSTANTS
    k1 = k1
    k2 = k2
    s1 = s1
    s2 = s2
    own = own
    far = far
    clash = clash
    p1 = p1
    p2 = p2
    Servers <- MCServers
    SvcOf <- MCSvcOf
    NodeOf <- MCNodeOf
    Services <- MCServices
    Nodes <- MCNodes
    AddrOf <- MCAddrOf
    HttpNodes <- MCNodes
    Paths <- MCPaths
    Endpoints <- MCEndpoints
    LocalPaths = {p1}
    LateMount = FALSE
    NoEntry = NoEntry
    MaxChanges = 1
    MaxRegisters = 2
CHECK_DEADLOCK FALSE
INVARIANTS KnownWhenVisible NoSelfProxy
 
