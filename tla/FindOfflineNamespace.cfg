SPECIFICATION Spec
CONSTANTS
    Ids = {i1}
    Names = {n1}
    NoId = NoId
    NoName = NoName
    Pids = {v1}
    NoPid = NoPid
    Procs = {p1}
    NoProc = NoProc
    Kinds <- CreateReconcile
    Policies = {"offline"}
    MaxRequests = 1
    MaxFaults = 1
    i1 = i1
    n1 = n1
    p1 = p1
    v1 = v1
INVARIANT EveryResourceHasOwner
CHECK_DEADLOCK FALSE
