SPECIFICATION Spec
CONSTANTS
    Procs = {p1, p2}
    Ids = {s1}
    MaxRequests = 3
    MaxFaults = 0
INVARIANT RestoredDiskIsWhole
CHECK_DEADLOCK FALSE
