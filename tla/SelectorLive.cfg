SPECIFICATION FairSpec
CONSTANTS
    n1 = n1
    n2 = n2
    Services = {s1}
    Nodes <- MCOneNode
    Providers <- MCOneProvider
    Clients = {c1, c2}
    NoHealth = NoHealth
    NoNode = NoNode
    BreakerFailures = 2
    BreakerCooldown = 1
    BreakerMaxCooldown = 1
    DefaultCooldown = 2
    PurgeInterval = 1
    EntryTTL = 1
    Retries = 1
    Wrap = 1
    MaxTrips = 2
    MaxOutages = 2
    MaxResets = 1
    MaxInits = 1
INVARIANT SomeNodeToTry
PROPERTY RecoveredIsSelectable
