SPECIFICATION MCSpec
CONSTANTS
    Procs = {p1, p2}
    Manifests = {"m1", "m2"}
    Names = {n1, n2}
    Layers = {"a", "b"}
    LayersOf <- MCLayersOf
    Conversions = {c1, c2}
    Sandboxes = {sandbox}
    Snapshots = {snapshot}
    None = None
    Cached = Cached
    Rotten = Rotten
    MaxRequests = 3
    MaxFaults = 1
    Operations = {p1, p2}
    SnapIds = {n1, n2}
    SnapRequests = 4
    SnapFaults = 2
    Actors = {p1, p2}
    Used = {n1, n2}
    Limit = 1
    MaxTime = 3
    AccessFaults = 1
    Tenants = {p1, p2}
    Taps = {n1, n2}
    TapAddresses = {c1, c2}
    PoolSize = 1
    MaxEpoch = 2
    TapFaults = 2
    Clones = {p1, p2}
    Source = source
    MaxGen = 5
    CloneFaults = 2
SYMMETRY Symmetry
CHECK_DEADLOCK FALSE
INVARIANT ImagesStayUsable
INVARIANT CapturesAreDurable
INVARIANT PausedHasOwner
INVARIANT AccessIsKept
INVARIANT LeasesAreExclusive
INVARIANT CloneIsIsolated
INVARIANT TransferIsFaithful
INVARIANT PolicyIsMet
INVARIANT BootIsVisible
PROPERTY GuardedFilesStable
PROPERTY LeasedFilesStay
PROPERTY EvictionIsFenced
