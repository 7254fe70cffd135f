SPECIFICATION Spec
CONSTANTS
    Ids = {i1}
    Names = {n1}
    NoId = NoId
    NoName = NoName
    Pids = {v1, v2}
    NoPid = NoPid
    Procs = {p1, p2}
    NoProc = NoProc
    Kinds <- StartStatus
    MaxRequests = 5
    MaxFaults = 0
    Policies = {"pending"}
    i1 = i1
    n1 = n1
    p1 = p1
    p2 = p2
    v1 = v1
    v2 = v2
INVARIANT StampIsLaunchGeneration
CHECK_DEADLOCK FALSE
