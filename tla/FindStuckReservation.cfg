SPECIFICATION FairSpec
CONSTANTS
    Ids = {i1}
    Names = {n1}
    NoId = NoId
    NoName = NoName
    Pids = {v1}
    NoPid = NoPid
    Procs = {p1}
    NoProc = NoProc
    Kinds <- CreateReconcile
    Policies = {"named"}
    MaxRequests = 1
    MaxFaults = 1
    i1 = i1
    n1 = n1
    p1 = p1
    v1 = v1
PROPERTY TransitionsSettle
CHECK_DEADLOCK FALSE
