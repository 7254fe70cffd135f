-------------------------------- MODULE Stores --------------------------------
(***************************************************************************)
(* What the node keeps beside its images: snapshots and their usage times. *)
(* The components share no state: the initial state chooses the one that   *)
(* moves, and the other rests.                                             *)
(***************************************************************************)
EXTENDS Focus

CONSTANTS
    Operations, SnapIds,        \* operations on snapshots, and their identities
    SnapRequests, SnapFaults,
    Actors, Used, Limit,        \* users of snapshots, the snapshots, the buffer's size
    MaxTime, AccessFaults

VARIABLES
    snapRec, snapStage, snapDir, snapIssued, snapWriter, snapReaders, snapScratch, snapSandbox,
    snapGuest, snapDisk, snapSandboxLock, snapOp, snapUnresumed, snapRequests, snapFaults,
    accState, accDurable, accPending, accGeneration, accFlush, accLease, accLock, accAct,
    accTouched, accNow, accFaults

Snap == INSTANCE Snapshots WITH
    Procs <- Operations, Ids <- SnapIds, MaxRequests <- SnapRequests,
    MaxFaults <- SnapFaults, rec <- snapRec,
    stage <- snapStage, dir <- snapDir, issued <- snapIssued, writer <- snapWriter,
    readers <- snapReaders, scratch <- snapScratch, sandbox <- snapSandbox, guest <- snapGuest,
    disk <- snapDisk, sandboxLock <- snapSandboxLock, op <- snapOp, unresumed <- snapUnresumed,
    requests <- snapRequests, faults <- snapFaults
snapVars ==
    <<snapRec, snapStage, snapDir, snapIssued, snapWriter, snapReaders, snapScratch,
      snapSandbox, snapGuest, snapDisk, snapSandboxLock, snapOp, snapUnresumed, snapRequests,
      snapFaults>>
SnapRests ==
    /\ snapRec = 0 /\ snapStage = 0 /\ snapDir = 0 /\ snapIssued = 0 /\ snapWriter = 0
    /\ snapReaders = 0 /\ snapScratch = 0 /\ snapSandbox = 0 /\ snapGuest = 0 /\ snapDisk = 0
    /\ snapSandboxLock = 0 /\ snapOp = 0 /\ snapUnresumed = 0 /\ snapRequests = 0
    /\ snapFaults = 0

Access == INSTANCE AccessBuffer WITH
    Actors <- Actors, Snapshots <- Used, Limit <- Limit, MaxTime <- MaxTime,
    MaxFaults <- AccessFaults,
    state <- accState, durable <- accDurable, pending <- accPending,
    generation <- accGeneration, flush <- accFlush, lease <- accLease, lock <- accLock,
    act <- accAct, touched <- accTouched, now <- accNow, faults <- accFaults
accVars ==
    <<accState, accDurable, accPending, accGeneration, accFlush, accLease, accLock, accAct,
      accTouched, accNow, accFaults>>
AccessRests ==
    /\ accState = 0 /\ accDurable = 0 /\ accPending = 0 /\ accGeneration = 0 /\ accFlush = 0
    /\ accLease = 0 /\ accLock = 0 /\ accAct = 0 /\ accTouched = 0 /\ accNow = 0
    /\ accFaults = 0

storesVars == <<focus, snapVars, accVars>>
-----------------------------------------------------------------------------
StoresInit ==
    /\ IF focus = "snapshots" THEN Snap!Init ELSE SnapRests
    /\ IF focus = "access" THEN Access!Init ELSE AccessRests

SnapshotsStep ==
    /\ focus = "snapshots" /\ Snap!Next
    /\ UNCHANGED <<focus, accVars>>
AccessStep ==
    /\ focus = "access" /\ Access!Next
    /\ UNCHANGED <<focus, snapVars>>

StoresNext == SnapshotsStep \/ AccessStep

StoresSpec == StoresInit /\ [][StoresNext]_storesVars
-----------------------------------------------------------------------------
(* The properties of the components, by the names that the run lists.       *)

\* A Ready snapshot has its published files, whatever failed or died (capture).
CapturesAreDurable == focus = "snapshots" => Snap!CapturesAreDurable

\* No file of a snapshot changes while a restore, clone or export reads it.
LeasedFilesStay == [][focus = "snapshots" => Snap!LeasedFilesStep]_snapVars

\* A guest paused by a capture has someone who resumes it or stops it, unless
\* that operation died or its request failed (Driver.Snapshot and Hibernate).
PausedHasOwner == focus = "snapshots" => Snap!PausedHasOwner

\* No recorded use of a snapshot is lost between buffer and database
\* (AccessBuffer), except with the process.
AccessIsKept == focus = "access" => Access!AccessIsKept

\* A snapshot is evicted only if it was not used since it was chosen
\* (evictSnapshot).
EvictionIsFenced == [][focus = "access" => Access!FencedStep]_accVars
=============================================================================
