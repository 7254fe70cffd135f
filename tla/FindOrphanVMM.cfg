SPECIFICATION Spec
CONSTANTS
    Ids = {i1}
    Names = {n1}
    NoId = NoId
    NoName = NoName
    Pids = {v1}
    NoPid = NoPid
    Procs = {p1}
    NoProc = NoProc
    Kinds <- StartRemove
    MaxRequests = 3
    MaxFaults = 2
    Policies = {"pending"}
    i1 = i1
    n1 = n1
    p1 = p1
    v1 = v1
INVARIANT VmmHasOwner
CHECK_DEADLOCK FALSE
