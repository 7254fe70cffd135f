------------------------------- MODULE Guest -------------------------------
(***************************************************************************)
(* What changes on a running VM: the live resizing of NICs, attached       *)
(* devices, and the processes of the agent in the guest.  The components   *)
(* share no state: the initial state chooses the one that moves, and the   *)
(* others rest.                                                            *)
(***************************************************************************)
EXTENDS Focus

CONSTANTS
    MaxNICs,                    \* slots of a sandbox whose NICs are resized
    Names, Resources,           \* of attached devices
    Jobs, Pids, Callers, Observers,     \* of the guest agent
    MaxRunning, MaxRetained, MaxFrames, MaxOutput,
    GuestFaults               \* bound on the failures of each component

ASSUME GuestAssumption == MaxNICs \in Nat /\ MaxFrames \in Nat \ {0}

VARIABLES
    nicNics, nicAlloc, nicLive, nicListed, nicLate, nicVm, nicOp, nicFaults,
    devListed, devTree, devAsked, devVm, devOp, devFaults,
    agTable, agJob, agGate, agForeign, agCaller, agObs, agClosed, agClose

Nic == INSTANCE NicResize WITH
    MaxNICs <- MaxNICs, MaxFaults <- GuestFaults, nics <- nicNics, alloc <- nicAlloc, live <- nicLive,
    listed <- nicListed, late <- nicLate, vm <- nicVm, op <- nicOp, faults <- nicFaults
nicVars ==
    <<nicNics, nicAlloc, nicLive, nicListed, nicLate, nicVm, nicOp, nicFaults>>
NicRests ==
    /\ nicNics = 0 /\ nicAlloc = 0 /\ nicLive = 0 /\ nicListed = 0 /\ nicLate = 0 /\ nicVm = 0
    /\ nicOp = 0 /\ nicFaults = 0

Devices == INSTANCE Devices WITH
    Names <- Names, Resources <- Resources, MaxFaults <- GuestFaults, listed <- devListed,
    tree <- devTree, asked <- devAsked, vm <- devVm, op <- devOp, faults <- devFaults
devVars ==
    <<devListed, devTree, devAsked, devVm, devOp, devFaults>>
DevicesRests ==
    /\ devListed = 0 /\ devTree = 0 /\ devAsked = 0 /\ devVm = 0 /\ devOp = 0 /\ devFaults = 0

Agent == INSTANCE AgentProcesses WITH
    Jobs <- Jobs, Pids <- Pids, Callers <- Callers, Observers <- Observers,
    MaxRunning <- MaxRunning, MaxRetained <- MaxRetained, MaxFrames <- MaxFrames,
    MaxOutput <- MaxOutput, table <- agTable, job <- agJob,
    gate <- agGate, foreign <- agForeign, caller <- agCaller, obs <- agObs, closed <- agClosed,
    close <- agClose
agVars ==
    <<agTable, agJob, agGate, agForeign, agCaller, agObs, agClosed, agClose>>
AgentRests ==
    /\ agTable = 0 /\ agJob = 0 /\ agGate = 0 /\ agForeign = 0 /\ agCaller = 0 /\ agObs = 0
    /\ agClosed = 0 /\ agClose = 0

guestVars == <<focus, nicVars, devVars, agVars>>
-----------------------------------------------------------------------------
GuestInit ==
    /\ IF focus = "nics" THEN Nic!Init ELSE NicRests
    /\ IF focus = "devices" THEN Devices!Init ELSE DevicesRests
    /\ IF focus = "agent" THEN Agent!Init ELSE AgentRests

NicStep ==
    /\ focus = "nics" /\ Nic!Next
    /\ UNCHANGED <<focus, devVars, agVars>>
DevicesStep ==
    /\ focus = "devices" /\ Devices!Next
    /\ UNCHANGED <<focus, nicVars, agVars>>
AgentStep ==
    /\ focus = "agent" /\ Agent!Next
    /\ UNCHANGED <<focus, nicVars, devVars>>

GuestNext == NicStep \/ DevicesStep \/ AgentStep

GuestSpec == GuestInit /\ [][GuestNext]_guestVars
-----------------------------------------------------------------------------
(* The properties of the components, by the names that the run lists.      *)

\* After a failed NIC resize a later pass finds everything that is left over
\* (reconcileNICs).
ResizeIsRepairable == focus = "nics" => Nic!ResizeIsRepairable

\* What attach and detach report holds in the VM (sandbox_devices.go).
ReportsAreTrue == focus = "devices" => Devices!ReportsAreTrue

\* No signal reaches a foreign process, the table keeps its bounds, and the
\* agent leaves no job behind (agent/processes.go).
ProcessesAreContained == focus = "agent" => Agent!ProcessesAreContained

\* An observer sees every frame or is told of the gap (managedProcess.output).
ObserverMissesNothing == focus = "agent" => Agent!ObserverMissesNothing
=============================================================================
