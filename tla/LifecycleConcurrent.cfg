SPECIFICATION Spec
CONSTANTS
    Ids = {i1, i2}
    Names = {n1}
    NoId = NoId
    NoName = NoName
    Pids = {v1, v2}
    NoPid = NoPid
    Procs = {p1, p2}
    NoProc = NoProc
    Kinds <- AllKinds
    MaxRequests = 4
    MaxFaults = 2
    Policies = {"offline", "named", "pending"}
    i1 = i1
    i2 = i2
    n1 = n1
    p1 = p1
    p2 = p2
    v1 = v1
    v2 = v2
SYMMETRY Symmetry
INVARIANT StoppedMeansAbsent
INVARIANT LockProtectsWork
INVARIANT NameIndexConsistent
INVARIANT ResourcesHaveOwner
PROPERTY ImplementsContract
CHECK_DEADLOCK FALSE
