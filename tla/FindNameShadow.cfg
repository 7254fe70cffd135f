SPECIFICATION Spec
CONSTANTS
    Ids = {i1, i2}
    Names = {n1, i1}
    NoId = NoId
    NoName = NoName
    Pids = {v1}
    NoPid = NoPid
    Procs = {p1}
    NoProc = NoProc
    Kinds <- StartRemove
    MaxRequests = 3
    MaxFaults = 0
    Policies = {"pending"}
    i1 = i1
    i2 = i2
    n1 = n1
    p1 = p1
    v1 = v1
INVARIANT OperationHoldsLock
CHECK_DEADLOCK FALSE
