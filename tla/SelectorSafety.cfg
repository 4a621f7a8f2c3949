SPECIFICATION Spec
CONSTANTS
    n1 = n1
    n2 = n2
    Services = {s1}
    Nodes <- MCNodes
    Providers <- MCProviders
    Clients = {c1, c2}
    NoHealth = NoHealth
    NoNode = NoNode
    BreakerFailures = 2
    BreakerCooldown = 1
    BreakerMaxCooldown = 2
    DefaultCooldown = 2
    PurgeInterval = 2
    EntryTTL = 2
    Retries = 2
    Wrap = 2
    MaxTrips = 3
    MaxOutages = 1
    MaxResets = 0
    MaxInits = 0
SYMMETRY ClientSymmetry
INVARIANTS  TripNotLost
