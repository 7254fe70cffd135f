------------------------------ MODULE Services ------------------------------
(***************************************************************************)
(* What clients rely on through failures of the node: the metadata store,  *)
(* the leases and the listing of the E2B adapter, and guest files.         *)
(* The components share no state: the initial state chooses the one that   *)
(* moves, and the others rest.                                             *)
(***************************************************************************)
EXTENDS Focus

CONSTANTS
    ServicesFaults,             \* bound on the failures of each component
    Writers, MaxUpdates,        \* processes that use the metadata store, updates
    Requests, Snapshots, Timeouts, MaxTime,     \* of the leases
    ListIds, ListTimes, MaxChanges, \* of the listing
    Uploads, MaxChunks          \* of guest files

ASSUME ServicesAssumption == MaxChunks \in Nat /\ MaxTime \in Nat

\* Numbers stand for the order of the identifiers and of the creation times.
ASSUME ListAssumption == ListIds \subseteq Nat /\ ListTimes \subseteq Nat

VARIABLES
    metaDb, metaGuard, metaWriter, metaTx, metaOk, metaUnsure, metaFaults,
    e2bLease, e2bSandbox, e2bSnaps, e2bIssued, e2bTimer, e2bLock, e2bOp, e2bUp, e2bStray,
    e2bNow, e2bFaults,
    pageRecord, pageLease, pageQuery, pageCursor, pageListed, pagePage, pageAnswered, pageAt,
    pageMoved, pageChanges,
    fileTotal, filePath, fileTemp, fileClient, fileSent, fileGot, fileEnded, fileOpen,
    fileServer, fileReply, fileResult, fileCommitted, fileReader

Meta == INSTANCE Metadata WITH
    Procs <- Writers, MaxUpdates <- MaxUpdates, MaxFaults <- ServicesFaults, db <- metaDb, guard <- metaGuard,
    writer <- metaWriter, tx <- metaTx, ok <- metaOk, unsure <- metaUnsure, faults <- metaFaults
metaVars ==
    <<metaDb, metaGuard, metaWriter, metaTx, metaOk, metaUnsure, metaFaults>>
MetaRests ==
    /\ metaDb = 0 /\ metaGuard = 0 /\ metaWriter = 0 /\ metaTx = 0 /\ metaOk = 0 /\ metaUnsure = 0
    /\ metaFaults = 0

Lease == INSTANCE E2BLease WITH
    Procs <- Requests, Snapshots <- Snapshots, Timeouts <- Timeouts, MaxTime <- MaxTime,
    MaxFaults <- ServicesFaults,
    lease <- e2bLease, sandbox <- e2bSandbox, snaps <- e2bSnaps, issued <- e2bIssued,
    timer <- e2bTimer, lock <- e2bLock, op <- e2bOp, up <- e2bUp, stray <- e2bStray,
    now <- e2bNow, faults <- e2bFaults
e2bVars ==
    <<e2bLease, e2bSandbox, e2bSnaps, e2bIssued, e2bTimer, e2bLock, e2bOp, e2bUp, e2bStray,
      e2bNow, e2bFaults>>
LeaseRests ==
    /\ e2bLease = 0 /\ e2bSandbox = 0 /\ e2bSnaps = 0 /\ e2bIssued = 0 /\ e2bTimer = 0
    /\ e2bLock = 0 /\ e2bOp = 0 /\ e2bUp = 0 /\ e2bStray = 0 /\ e2bNow = 0 /\ e2bFaults = 0

Pages == INSTANCE SandboxList WITH
    Ids <- ListIds, Times <- ListTimes, MaxChanges <- MaxChanges, record <- pageRecord, lease <- pageLease,
    query <- pageQuery, cursor <- pageCursor, listed <- pageListed, page <- pagePage,
    answered <- pageAnswered, at <- pageAt, moved <- pageMoved, changes <- pageChanges
pageVars ==
    <<pageRecord, pageLease, pageQuery, pageCursor, pageListed, pagePage, pageAnswered, pageAt,
      pageMoved, pageChanges>>
PagesRest ==
    /\ pageRecord = 0 /\ pageLease = 0 /\ pageQuery = 0 /\ pageCursor = 0 /\ pageListed = 0
    /\ pagePage = 0 /\ pageAnswered = 0 /\ pageAt = 0 /\ pageMoved = 0 /\ pageChanges = 0

GuestFiles == INSTANCE FileTransfer WITH
    Uploads <- Uploads, MaxChunks <- MaxChunks, total <- fileTotal, file <- filePath, temp <- fileTemp,
    client <- fileClient, sent <- fileSent, got <- fileGot, ended <- fileEnded,
    open <- fileOpen, server <- fileServer, reply <- fileReply, result <- fileResult,
    committed <- fileCommitted, reader <- fileReader
fileVars ==
    <<fileTotal, filePath, fileTemp, fileClient, fileSent, fileGot, fileEnded, fileOpen,
      fileServer, fileReply, fileResult, fileCommitted, fileReader>>
FilesRest ==
    /\ fileTotal = 0 /\ filePath = 0 /\ fileTemp = 0 /\ fileClient = 0 /\ fileSent = 0
    /\ fileGot = 0 /\ fileEnded = 0 /\ fileOpen = 0 /\ fileServer = 0 /\ fileReply = 0
    /\ fileResult = 0 /\ fileCommitted = 0 /\ fileReader = 0

servicesVars == <<focus, metaVars, e2bVars, pageVars, fileVars>>
-----------------------------------------------------------------------------
ServicesInit ==
    /\ IF focus = "metadata" THEN Meta!Init ELSE MetaRests
    /\ IF focus = "lease" THEN Lease!Init ELSE LeaseRests
    /\ IF focus = "pages" THEN Pages!Init ELSE PagesRest
    /\ IF focus = "files" THEN GuestFiles!Init ELSE FilesRest

MetaStep ==
    /\ focus = "metadata" /\ Meta!Next
    /\ UNCHANGED <<focus, e2bVars, pageVars, fileVars>>
LeaseStep ==
    /\ focus = "lease" /\ Lease!Next
    /\ UNCHANGED <<focus, metaVars, pageVars, fileVars>>
PagesStep ==
    /\ focus = "pages" /\ Pages!Next
    /\ UNCHANGED <<focus, metaVars, e2bVars, fileVars>>
FilesStep ==
    /\ focus = "files" /\ GuestFiles!Next
    /\ UNCHANGED <<focus, metaVars, e2bVars, pageVars>>

ServicesNext == MetaStep \/ LeaseStep \/ PagesStep \/ FilesStep

ServicesSpec == ServicesInit /\ [][ServicesNext]_servicesVars
-----------------------------------------------------------------------------
(* The properties of the components, by the names that the run lists.      *)

\* Committed updates form one sequence, each from the last, applied once
\* (Store.Update).
UpdatesAreSerial == focus = "metadata" => Meta!UpdatesAreSerial

\* A lease is not ended before its deadline, its end stays scheduled, and a
\* paused one keeps its snapshot (api/e2b).
LeaseIsKept == focus = "lease" => Lease!LeaseIsKept

\* A walk over the pages of the listing shows each sandbox that stays as it is
\* once, although others come and go (listSandboxes).
PagesDoNotShift == focus = "pages" => Pages!PagesDoNotShift

\* The path in the guest always names a whole file, and a successful upload is
\* there (writeGuestFile).
UploadsAreWhole == focus = "files" => GuestFiles!UploadsAreWhole
=============================================================================
