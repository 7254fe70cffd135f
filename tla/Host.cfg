SPECIFICATION MCSpec
CONSTANTS
    None = None
    Disks = {cow, data}
    MaxRestores = 2
    MaxFaults = 4
    LstatFails = FALSE
    NetworkFaults = 3
    GuestFaults = 3
    ServicesFaults = 3
    Writers = {1, 2, 3}
    MaxUpdates = 2
    Nics = {0, 1}
    Bridged = {x, y}
    Addresses = {1, 2}
    MaxNICs = 3
    Names = {a, b}
    Resources = {r, s}
    Jobs = {1, 2}
    Pids = {7}
    Callers = {caller}
    Observers = {observer}
    MaxRunning = 1
    MaxRetained = 1
    MaxFrames = 1
    MaxOutput = 2
    Chunks = 1
    Room = 1
    MaxBoots = 2
    MaxSize = 2
    HeadSize = 1
    Requests = {q1, q2}
    Snapshots = {snapshot}
    Timeouts = {1, 2}
    MaxTime = 3
    Uploads = {u1, u2}
    MaxChunks = 2
    ListIds = {1, 2, 3}
    ListTimes = {1, 2}
    MaxChanges = 2
INVARIANT UsesAgreedSet
INVARIANT NoDiskLost
INVARIANT UpdatesAreSerial
INVARIANT JournalCoversHost
 
INVARIANT ResizeIsRepairable
INVARIANT ReportsAreTrue
INVARIANT ProcessesAreContained
INVARIANT ObserverMissesNothing
INVARIANT NothingTruncated
 
INVARIANT UploadsAreWhole
INVARIANT PagesDoNotShift
PROPERTY CommittedNeverUndone
