SPECIFICATION Spec
CONSTANTS
    Requests = {q1, q2}
    Ctxs = {c1, c2}
    Rsps = {r1, r2}
    Insts = {i1, i2}
    Discoverers = {d1, d2}
    GlobalMids <- MCGlobal
    RouteMids <- MCRoute
    Does <- MCDoes
    CtrlMids <- MCCtrl
    Filtered = {"skip"}
    MaxInitPanics = 1
    MaxRoutes = 2
    None = None
CHECK_DEADLOCK FALSE
SYMMETRY DispatchSymmetry
INVARIANTS OneHolder ChainRuns OwnData ResultNotLost
