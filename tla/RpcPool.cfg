SPECIFICATION FairSpec
CONSTANTS
    Calls = {c1, c2}
    Conns = {k1, k2}
    Msgs = {m1, m2}
    Size = 1
    NoConn = NoConn
    NoMsg = NoMsg
    NoReq = NoReq
    MaxCalls = 2
    MaxFaults = 1
    MaxCloses = 1
CHECK_DEADLOCK FALSE
INVARIANTS NoCrossTalk NoConnLeak MessageNotShared
PROPERTY CallsReturn
