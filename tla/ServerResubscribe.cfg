SPECIFICATION Spec
CONSTANTS
    Own = own
    Groups = {g1}
    Topics = {t1}
    Addrs = {a1, a2}
    Home = a1
    NoAddr = NoAddr
    Stoppers = {s1, s2}
    MaxStarts = 1
    MaxMoves = 0
    MaxSick = 1
    MaxFaults = 0
CHECK_DEADLOCK FALSE
INVARIANT Resubscribed
