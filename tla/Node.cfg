SPECIFICATION MCSpec
CONSTANTS
    Threads = {t1, t2}
    Paths = {1, 2, 3}
    Transient = {3}
    Inodes = {1, 2, 3}
    None = None
    MaxFaults = 1
    Requests = {"q", "r"}
    VMs = {"v"}
    MaxOperations = 1
    MaxStarts = 2
    DaemonFaults = 1
CHECK_DEADLOCK FALSE
INVARIANT OneOwner
INVARIANT NoWaitCycle
INVARIANT NoWorkAfterClose
PROPERTY ServesThenDrains
