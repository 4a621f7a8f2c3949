SPECIFICATION FairSpec
CONSTANTS
    Own = own
    Groups = {g1}
    Topics = {t1}
    Addrs = {a1, a2}
    Home = a1
    NoAddr = NoAddr
    Stoppers = {s1, s2}
    MaxStarts = 2
    MaxMoves = 1
    MaxSick = 1
    MaxFaults = 2
CHECK_DEADLOCK FALSE
INVARIANTS ServerInv StoppedIsGone
PROPERTIES AddressCorrected StopReturns
