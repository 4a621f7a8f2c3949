\* The components that do not interact, one at a time
SPECIFICATION Spec
CONSTANTS
    TwoNodes = {"a", "b"}
    Faults = 2
    Versions = {1, 2}
    Cap = 2
    MaxChanges = 3
    Queue = {"a"}
    InboxSize = 2
    Batch = 1
    Subscribers = {"s1", "s2", "s3"}
    Publishers = {"p1", "p2"}
    Closers = {"c"}
    MaxSent = 3
    MaxWrites = 1
    ReadLimit = 3
    ControlLimit = 4
    Loggers = {"p", "q"}
    MaxLines = 1
    Objects = {o1, o2}
    Capacity = 1
    MaxModes = 2
    Targets = {"a", "b"}
    RetryCounts = {0, 1, 2, 3}
    Policies = {"onError", "always", "custom"}
    Hooks = 2
    Stoppers = {"s"}
    Gates = {"g", "h"}
    Backends = {"b"}
    MaxDepth = 2
    MaxHops = 4
    Files = {"f", "g"}
    Embedded = {"g"}
    Openers = {"o1", "o2"}
    MaxWritten = 3
CHECK_DEADLOCK FALSE
INVARIANTS ViewsExact  ConnectionKept LinesAccounted OutcomesReported 
PROPERTY MdnsPromise
