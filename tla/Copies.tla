------------------------------- MODULE Copies -------------------------------
(***************************************************************************)
(* The clones made of a snapshot beside the node's other stores: the       *)
(* initial state chooses the component that moves.                         *)
(***************************************************************************)
EXTENDS Focus

CONSTANTS
    Clones, Source,             \* clones, and the captured sandbox
    MaxGen, CloneFaults

VARIABLES
    clSnap, clReaders, clStaged, clImage, clRec, clLock, clDisk, clPrivate, clConfig, clVm, clOp,
    clFaults

Cloning == INSTANCE Clone WITH
    Clones <- Clones, Source <- Source, MaxGen <- MaxGen, MaxFaults <- CloneFaults,
    snap <- clSnap,
    readers <- clReaders, staged <- clStaged, image <- clImage, rec <- clRec, lock <- clLock,
    disk <- clDisk, private <- clPrivate, config <- clConfig, vm <- clVm, op <- clOp,
    faults <- clFaults
clVars ==
    <<clSnap, clReaders, clStaged, clImage, clRec, clLock, clDisk, clPrivate, clConfig, clVm,
      clOp, clFaults>>
CloningRests ==
    /\ clSnap = 0 /\ clReaders = 0 /\ clStaged = 0 /\ clImage = 0 /\ clRec = 0 /\ clLock = 0
    /\ clDisk = 0 /\ clPrivate = 0 /\ clConfig = 0 /\ clVm = 0 /\ clOp = 0 /\ clFaults = 0

copiesVars == <<focus, clVars>>
-----------------------------------------------------------------------------
CopiesInit == IF focus = "clone" THEN Cloning!Init ELSE CloningRests

CloneStep == focus = "clone" /\ Cloning!Next /\ UNCHANGED focus

CopiesSpec == CopiesInit /\ [][CloneStep]_copiesVars
-----------------------------------------------------------------------------
\* A guest that runs as a clone uses the disk and the TAPs of its own sandbox
\* (Driver.Clone, Start and reconciliation of what a clone left).
CloneIsIsolated == focus = "clone" => Cloning!CloneIsIsolated
=============================================================================
