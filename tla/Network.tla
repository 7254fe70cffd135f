------------------------------ MODULE Network ------------------------------
(***************************************************************************)
(* What a sandbox is attached to: the CNI and the bridge provider.         *)
(* The components share no state: the initial state chooses the one that   *)
(* moves, and the other rests.                                             *)
(***************************************************************************)
EXTENDS Focus

CONSTANTS
    NetworkFaults,              \* bound on the failures of each component
    Nics,                       \* NIC slots of the CNI provider
    Bridged, Addresses          \* sandboxes and addresses of the bridge provider

VARIABLES
    cniRecord, cniNamespace, cniAttached, cniTaps, cniOp, cniFaults,
    brLease, brOwners, brNic, brTap, brVm, brLock, brOp, brFaults

Cni == INSTANCE Cni WITH
    Nics <- Nics, MaxFaults <- NetworkFaults, record <- cniRecord, namespace <- cniNamespace,
    attached <- cniAttached, taps <- cniTaps, op <- cniOp, faults <- cniFaults
cniVars ==
    <<cniRecord, cniNamespace, cniAttached, cniTaps, cniOp, cniFaults>>
CniRests ==
    /\ cniRecord = 0 /\ cniNamespace = 0 /\ cniAttached = 0 /\ cniTaps = 0 /\ cniOp = 0
    /\ cniFaults = 0

Bridge == INSTANCE Bridge WITH
    Sandboxes <- Bridged, Addresses <- Addresses, MaxFaults <- NetworkFaults, lease <- brLease,
    owners <- brOwners, nic <- brNic, tap <- brTap, vm <- brVm, lock <- brLock, op <- brOp,
    faults <- brFaults
brVars ==
    <<brLease, brOwners, brNic, brTap, brVm, brLock, brOp, brFaults>>
BridgeRests ==
    /\ brLease = 0 /\ brOwners = 0 /\ brNic = 0 /\ brTap = 0 /\ brVm = 0 /\ brLock = 0 /\ brOp = 0
    /\ brFaults = 0

networkVars == <<focus, cniVars, brVars>>
-----------------------------------------------------------------------------
NetworkInit ==
    /\ IF focus = "cni" THEN Cni!Init ELSE CniRests
    /\ IF focus = "bridge" THEN Bridge!Init ELSE BridgeRests

CniStep ==
    /\ focus = "cni" /\ Cni!Next
    /\ UNCHANGED <<focus, brVars>>
BridgeStep ==
    /\ focus = "bridge" /\ Bridge!Next
    /\ UNCHANGED <<focus, cniVars>>

NetworkNext == CniStep \/ BridgeStep

NetworkSpec == NetworkInit /\ [][NetworkNext]_networkVars
-----------------------------------------------------------------------------
(* The properties of the components, by the names that the run lists.      *)

\* The record covers what the CNI provider left on the host (cni/lifecycle.go).
JournalCoversHost == focus = "cni" => Cni!JournalCoversHost

\* A recorded address is leased to its sandbox alone (bridge_linux.go).
RecordedAddressIsLeased == focus = "bridge" => Bridge!RecordedAddressIsLeased
=============================================================================
