\* The registries of etcd, consul and memory, the life of the HTTP broker, and
\* the routing tree with the pure functions
SPECIFICATION Spec
CONSTANTS
    EtcdNodes = {"n"}
    Leases = {1, 2, 3}
    MaxNode = 2
    MaxEps = 2
    MaxContent = 3
    MaxFaults = 3
    MemoryNodes = {"a", "b", "c"}
    Watchers = {"w"}
    MaxSends = 2
    Callers = {"c1", "c2"}
    Topics = {"t"}
    Handlers = {1}
    NoRoute = NoRoute
    Magic = 8
    MaxMessageLength = 14
CHECK_DEADLOCK FALSE
PROPERTIES   CallsEnd
INVARIANTS TreeRight FunctionsRight
