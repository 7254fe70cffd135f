--------------------------------- MODULE Node ---------------------------------
(***************************************************************************)
(* The node's file locks and its daemon.  They share no state: the initial *)
(* state chooses the component that moves, and the other rests.            *)
(***************************************************************************)
EXTENDS FileLock, Focus

CONSTANTS
    Requests, VMs,              \* calls to the daemon, and supervised processes
    MaxOperations,              \* heavy operations at a time
    MaxStarts, DaemonFaults     \* bounds on launches and on failures

ASSUME RequestsAssumption == IsFiniteSet(Requests)

VARIABLES
    nodePhase, nodeStore, nodeClosing, nodeCancelled, nodeSlots, nodeWaiting, nodeReq, nodeSup,
    nodeFlush, nodeVm, nodeWatch, nodeHint, nodeFaults

Daemon == INSTANCE Daemon WITH
    Requests <- Requests, VMs <- VMs, MaxOperations <- MaxOperations, MaxStarts <- MaxStarts,
    MaxFaults <- DaemonFaults,
    phase <- nodePhase, store <- nodeStore, closing <- nodeClosing, cancelled <- nodeCancelled,
    slots <- nodeSlots, waiting <- nodeWaiting, req <- nodeReq, sup <- nodeSup,
    flush <- nodeFlush, vm <- nodeVm, watch <- nodeWatch, hint <- nodeHint, faults <- nodeFaults
daemonVars ==
    <<nodePhase, nodeStore, nodeClosing, nodeCancelled, nodeSlots, nodeWaiting, nodeReq,
      nodeSup, nodeFlush, nodeVm, nodeWatch, nodeHint, nodeFaults>>

nodeVars == <<focus, vars, daemonVars>>
-----------------------------------------------------------------------------
NodeInit ==
    /\ focus \in {"locks", "daemon"}
    /\ Init /\ Daemon!Init

LockStep == focus = "locks" /\ Next /\ UNCHANGED <<focus, daemonVars>>
DaemonStep == focus = "daemon" /\ Daemon!Next /\ UNCHANGED <<focus, vars>>

NodeNext == LockStep \/ DaemonStep

NodeSpec == NodeInit /\ [][NodeNext]_nodeVars
-----------------------------------------------------------------------------
(* The properties of the daemon, by the names that the run lists.           *)

\* No request, pass or flush works on a closed store (Run).
NoWorkAfterClose == Daemon!NoWorkAfterClose

\* An exit is noticed while the daemon serves, and a shutdown ends (Supervise,
\* Run).
ServesThenDrains == Daemon!ServesThenDrains
=============================================================================
