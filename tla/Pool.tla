-------------------------------- MODULE Pool --------------------------------
(***************************************************************************)
(* The TAP pool and its leases beside the node's other stores: the initial *)
(* state chooses the component that moves.                                 *)
(***************************************************************************)
EXTENDS Focus

CONSTANTS
    Tenants, Taps, TapAddresses,    \* sandboxes, devices and addresses of the TAP pool
    PoolSize, MaxEpoch, TapFaults

VARIABLES
    tapAddress, tapIndex, tapDev, tapHolder, tapTrack, tapEntry, tapRemembered, tapScan,
    tapWork, tapOp, tapUp, tapFaults

Tap == INSTANCE TapPool WITH
    Sandboxes <- Tenants, Taps <- Taps, Addresses <- TapAddresses, PoolSize <- PoolSize,
    MaxEpoch <- MaxEpoch, MaxFaults <- TapFaults, address <- tapAddress, index <- tapIndex, dev <- tapDev,
    holder <- tapHolder, track <- tapTrack, entry <- tapEntry, remembered <- tapRemembered,
    scan <- tapScan, work <- tapWork, op <- tapOp, up <- tapUp, faults <- tapFaults
tapVars ==
    <<tapAddress, tapIndex, tapDev, tapHolder, tapTrack, tapEntry, tapRemembered, tapScan,
      tapWork, tapOp, tapUp, tapFaults>>
TapRests ==
    /\ tapAddress = 0 /\ tapIndex = 0 /\ tapDev = 0 /\ tapHolder = 0 /\ tapTrack = 0 /\ tapEntry = 0
    /\ tapRemembered = 0 /\ tapScan = 0 /\ tapWork = 0 /\ tapOp = 0 /\ tapUp = 0
    /\ tapFaults = 0

poolVars == <<focus, tapVars>>
-----------------------------------------------------------------------------
PoolInit == IF focus = "tap" THEN Tap!Init ELSE TapRests

TapStep == focus = "tap" /\ Tap!Next /\ UNCHANGED focus

PoolSpec == PoolInit /\ [][TapStep]_poolVars
-----------------------------------------------------------------------------
\* Address, TAP and pool entry agree on one owner, and a device comes clean
\* from the pool (network/tap).
LeasesAreExclusive == focus = "tap" => Tap!LeasesAreExclusive
=============================================================================
