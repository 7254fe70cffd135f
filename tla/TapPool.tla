------------------------------- MODULE TapPool -------------------------------
(***************************************************************************)
(* Pooled TAP devices and address leases of the eBPF network provider      *)
(* (network/tap).  Ownership lives in three places that change one at a    *)
(* time: an address file and its hard link under the sandbox, the kernel   *)
(* device with the epoch in its alias, and the pool's entries in memory.   *)
(* Operations of one sandbox are serialised by its lock; operations of     *)
(* different sandboxes, the refill worker, the collector's scan and a      *)
(* dying daemon interleave.  One slot and one queue shape are modelled.    *)
(***************************************************************************)
EXTENDS Naturals, FiniteSets

CONSTANTS Sandboxes, Taps, Addresses,
    PoolSize,       \* idle devices kept
    MaxEpoch,       \* bound on reuses of one device
    MaxFaults       \* bound on failed steps, crashes and reboots

VARIABLES
    address,        \* durable: address files
    index,          \* durable: the sandbox's hard link to its address file
    dev,            \* kernel: devices by name
    holder,         \* kernel: VMs that hold a queue of the device
    track,          \* kernel: sandboxes with tracked connections, per address
    entry,          \* memory: pool entries by name
    remembered,     \* memory: leaseRecovery.byID, a hint
    scan,           \* memory: what the collector's directory scan read
    work,           \* memory: entries the refill worker has picked to clean
    op,             \* memory: the running operation of each sandbox
    up, faults

memory == <<entry, remembered, scan, work, op>>
kernel == <<dev, holder, track>>
files == <<address, index>>
vars == <<memory, kernel, files, up, faults>>

Epochs == 0..MaxEpoch
NoLease == [state |-> "free", sb |-> {}, tap |-> {}, epoch |-> 0]
NoDevice == [there |-> FALSE, alias |-> 0, endpoint |-> {}, routes |-> {}]
NoEntry == [phase |-> "none", epoch |-> 0, owner |-> {}, prepared |-> FALSE]
Idle == [step |-> "idle", at |-> {}, tap |-> {}, epoch |-> 0, borrowed |-> FALSE]

\* Every variable has its type; a lease names one sandbox and one device.
TypeOK ==
    /\ address \in [Addresses -> [state: {"free", "active", "cooling", "expired"},
                                  sb: SUBSET Sandboxes, tap: SUBSET Taps, epoch: Epochs]]
    /\ index \in [Sandboxes -> SUBSET Addresses]
    /\ dev \in [Taps -> [there: BOOLEAN, alias: Epochs,
                         endpoint: SUBSET Addresses, routes: SUBSET Addresses]]
    /\ holder \in [Taps -> SUBSET Sandboxes]
    /\ track \in [Addresses -> SUBSET Sandboxes]
    /\ entry \in [Taps -> [phase: {"none", "Preparing", "Ready", "Reserved", "Active", "Cleaning"},
                           epoch: Epochs, owner: SUBSET Sandboxes, prepared: BOOLEAN]]
    /\ remembered \in [Sandboxes -> SUBSET Addresses]
    /\ scan \in [Sandboxes -> SUBSET Addresses]
    /\ work \subseteq Taps
    /\ up \in BOOLEAN /\ faults \in 0..MaxFaults

Init ==
    /\ address = [a \in Addresses |-> NoLease]
    /\ index = [s \in Sandboxes |-> {}]
    /\ dev = [t \in Taps |-> NoDevice]
    /\ holder = [t \in Taps |-> {}]
    /\ track = [a \in Addresses |-> {}]
    /\ entry = [t \in Taps |-> NoEntry]
    /\ remembered = [s \in Sandboxes |-> {}]
    /\ scan = [s \in Sandboxes |-> {}]
    /\ work = {}
    /\ op = [s \in Sandboxes |-> Idle]
    /\ up = TRUE
    /\ faults = 0

Fault == faults < MaxFaults /\ faults' = faults + 1
At(s, step) == up /\ op[s].step = step
Goto(s, step) == op' = [op EXCEPT ![s].step = step]
Return(s) == op' = [op EXCEPT ![s] = Idle]

Active(s, a) == address[a].state = "active" /\ address[a].sb = {s}
ActiveOf(s) == {a \in Addresses : Active(s, a)}
IdleCount == Cardinality({t \in Taps : entry[t].phase = "Ready"})
Fresh(t) == entry[t].phase = "none" /\ ~dev[t].there
Device(e) == [there |-> TRUE, alias |-> e, endpoint |-> {}, routes |-> {}]
poolFailure(t) == [entry EXCEPT ![t].phase = "Cleaning", ![t].owner = {}]

\* adoptPooledLease: the entry of a lease is created, or must already be its own.
Adoptable(t, s, e) == entry[t].phase = "none" \/ (entry[t].owner = {s} /\ entry[t].epoch = e)
adoptPooledLease(t, s, e) ==
    IF entry[t].phase # "none" THEN entry[t]
    ELSE [phase |-> "Active", epoch |-> e, owner |-> {s}, prepared |-> FALSE]

\* leases(id): the index, and hints that are still true of the address files.
leases(s) == index[s] \cup {a \in remembered[s] : Active(s, a)}

Take(s, a, step) ==
    op' = [op EXCEPT ![s] = [step |-> step, at |-> {a}, tap |-> address[a].tap,
                             epoch |-> address[a].epoch, borrowed |-> FALSE]]
-----------------------------------------------------------------------------
\* Add and Recover of one NIC: reserveWith, allocateLease, ensurePooledTAP.

AddIndexed(s) ==
    /\ At(s, "idle")
    /\ \E a \in index[s] : Active(s, a) /\ Take(s, a, "ensure")
    /\ UNCHANGED <<entry, remembered, scan, work, kernel, files, up, faults>>

\* An address-first publication without an index keeps its device.
AddRemembered(s) ==
    /\ At(s, "idle") /\ index[s] = {}
    /\ \E a \in remembered[s] : Active(s, a) /\ Take(s, a, "link")
    /\ UNCHANGED <<entry, remembered, scan, work, kernel, files, up, faults>>

Borrowed(s, t) ==
    op' = [op EXCEPT ![s] = [step |-> "publish", at |-> {}, tap |-> {t},
                             epoch |-> entry[t].epoch + 1, borrowed |-> TRUE]]

MayBorrow(s) == At(s, "idle") /\ leases(s) = {}

BorrowReady(s, t) ==
    /\ MayBorrow(s) /\ entry[t].phase = "Ready" /\ entry[t].epoch < MaxEpoch
    /\ entry' = [entry EXCEPT ![t].phase = "Reserved", ![t].epoch = @ + 1, ![t].owner = {s}]
    /\ Borrowed(s, t)
    /\ UNCHANGED <<remembered, scan, work, kernel, files, up, faults>>

BorrowNew(s, t) ==
    /\ MayBorrow(s) /\ IdleCount = 0 /\ Fresh(t)
    /\ entry' = [entry EXCEPT ![t] = [phase |-> "Reserved", epoch |-> 1, owner |-> {s},
                                      prepared |-> TRUE]]
    /\ dev' = [dev EXCEPT ![t] = Device(0)]
    /\ Borrowed(s, t)
    /\ UNCHANGED <<remembered, scan, work, holder, track, files, up, faults>>

\* The new device was created, a later part of its preparation failed.
BorrowFailed(s, t) ==
    /\ MayBorrow(s) /\ IdleCount = 0 /\ Fresh(t) /\ Fault
    /\ entry' = [entry EXCEPT ![t] = [NoEntry EXCEPT !.phase = "Cleaning"]]
    /\ dev' = [dev EXCEPT ![t] = Device(0)]
    /\ UNCHANGED <<remembered, scan, work, op, holder, track, files, up>>

\* publishLease by exclusive link, or reclaimAddress under the address's lock.
publishLease(s, a) ==
    /\ At(s, "publish") /\ address[a].state \in {"free", "expired"}
    /\ address' = [address EXCEPT ![a] = [state |-> "active", sb |-> {s},
                                          tap |-> op[s].tap, epoch |-> op[s].epoch]]

Publish(s, a) ==
    /\ publishLease(s, a)
    /\ op' = [op EXCEPT ![s].step = "link", ![s].at = {a}]
    /\ UNCHANGED <<entry, remembered, scan, work, kernel, index, up, faults>>

\* The link exists but syncing it failed: the reservation is remembered.
PublishUnsynced(s, a) ==
    /\ publishLease(s, a) /\ Fault /\ Return(s)
    /\ remembered' = [remembered EXCEPT ![s] = @ \cup {a}]
    /\ UNCHANGED <<entry, scan, work, kernel, index, up>>

\* Nothing was published, or the pool is exhausted: the device goes to maintenance.
PublishFailed(s) ==
    /\ At(s, "publish") /\ Return(s)
    /\ IF \E a \in Addresses : address[a].state \in {"free", "expired"}
       THEN Fault ELSE UNCHANGED faults
    /\ \E t \in op[s].tap : entry' = poolFailure(t)
    /\ UNCHANGED <<remembered, scan, work, kernel, files, up>>

LinkIndex(s) ==
    /\ At(s, "link")
    /\ index' = [index EXCEPT ![s] = op[s].at]
    /\ Goto(s, "ensure")
    /\ UNCHANGED <<entry, remembered, scan, work, kernel, address, up, faults>>

LinkFailed(s) ==
    /\ At(s, "link") /\ Fault /\ Return(s)
    /\ remembered' = [remembered EXCEPT ![s] = @ \cup op[s].at]
    /\ UNCHANGED <<entry, scan, work, kernel, files, up>>

\* preparePoolLink if this daemon has not prepared the device, then the alias.
EnsureLink(s) ==
    /\ At(s, "ensure")
    /\ \E t \in op[s].tap :
        LET e == op[s].epoch
            here == IF dev[t].there THEN dev[t] ELSE Device(e)
            own == adoptPooledLease(t, s, e)
            busy == here.alias > e \/ (here.alias # e /\ holder[t] # {})
        IN IF ~Adoptable(t, s, e) \/ busy
           THEN /\ Return(s)
                /\ entry' = IF Adoptable(t, s, e) THEN [entry EXCEPT ![t] = own] ELSE entry
                /\ UNCHANGED dev
           ELSE /\ dev' = [dev EXCEPT ![t] =
                    [here EXCEPT !.alias = e,
                                 !.endpoint = IF own.prepared THEN @ ELSE {}]]
                /\ entry' = [entry EXCEPT ![t] = [own EXCEPT !.prepared = TRUE]]
                /\ Goto(s, "enable")
    /\ UNCHANGED <<remembered, scan, work, holder, track, files, up, faults>>

\* publishEndpoint: a disabled endpoint and the host route, then packet permission.
publishEndpoint(s) ==
    /\ At(s, "enable") /\ Return(s)
    /\ \E t \in op[s].tap, a \in op[s].at :
        IF \E other \in Taps \ {t} : a \in dev[other].routes
        THEN dev' = [dev EXCEPT ![t].endpoint = {}] /\ UNCHANGED entry
        ELSE /\ dev' = [dev EXCEPT ![t].routes = @ \cup {a}, ![t].endpoint = {a}]
             /\ entry' = [entry EXCEPT ![t].phase = "Active"]
    /\ UNCHANGED <<remembered, scan, work, holder, track, files, up, faults>>

EnsureFailed(s) ==
    /\ At(s, "ensure") /\ Fault /\ Return(s)
    /\ UNCHANGED <<entry, remembered, scan, work, kernel, files, up>>

EndpointFailed(s) ==
    /\ At(s, "enable") /\ Fault /\ Return(s)
    /\ \E t \in op[s].tap, routed \in SUBSET op[s].at :
        dev' = [dev EXCEPT ![t].endpoint = {}, ![t].routes = @ \cup routed]
    /\ UNCHANGED <<entry, remembered, scan, work, holder, track, files, up>>
-----------------------------------------------------------------------------
\* Remove and Delete: releasePooledTAP, retireLease, markPoolReady.

DeleteBegin(s) ==
    /\ At(s, "idle")
    /\ \E a \in leases(s) : Active(s, a) /\ Take(s, a, "clean")
    /\ remembered' = [remembered EXCEPT ![s] = {a \in @ : Active(s, a)} \ index[s]]
    /\ UNCHANGED <<entry, scan, work, kernel, files, up, faults>>

\* cleanPoolLink removes packet permission first and then asks who holds a queue.
DeleteClean(s) ==
    /\ At(s, "clean")
    /\ \E t \in op[s].tap :
        LET own == adoptPooledLease(t, s, op[s].epoch)
            refused == ~Adoptable(t, s, op[s].epoch)
            newer == dev[t].there /\ dev[t].alias > own.epoch
        IN /\ entry' = IF refused THEN entry
                       ELSE [entry EXCEPT ![t] = [own EXCEPT !.phase = "Cleaning"]]
           /\ dev' = IF refused \/ newer \/ ~dev[t].there THEN dev
                     ELSE [dev EXCEPT ![t].endpoint = {}]
           /\ IF refused \/ newer \/ holder[t] # {} THEN Return(s) ELSE Goto(s, "flows")
    /\ UNCHANGED <<remembered, scan, work, holder, track, files, up, faults>>

\* A mutant: the tracked connections of the device's addresses are kept.
CleanLinkOnly(t, host) ==
    /\ track' = track
    /\ dev' = IF ~dev[t].there THEN dev
              ELSE [dev EXCEPT ![t].routes = {}, ![t].alias = entry[t].epoch]

\* Tracked connections of every routed address and of the lease's own are cleared.
CleanLink(t, host) ==
    /\ track' = [a \in Addresses |-> IF a \in dev[t].routes \cup host THEN {} ELSE track[a]]
    /\ dev' = IF ~dev[t].there THEN dev
              ELSE [dev EXCEPT ![t].routes = {}, ![t].alias = entry[t].epoch]

DeleteFlows(s) ==
    /\ At(s, "flows") /\ Goto(s, "unindex")
    /\ \E t \in op[s].tap : CleanLink(t, op[s].at)
    /\ UNCHANGED <<entry, remembered, scan, work, holder, files, up, faults>>

RemoveIndex(s) ==
    /\ At(s, "unindex") /\ Goto(s, "retire")
    /\ remembered' = [remembered EXCEPT ![s] = @ \cup op[s].at]
    /\ index' = [index EXCEPT ![s] = {}]
    /\ UNCHANGED <<entry, scan, work, kernel, address, up, faults>>

retireAddress(s) ==
    /\ At(s, "retire")
    /\ \E a \in op[s].at :
        IF address[a] = [state |-> "active", sb |-> {s}, tap |-> op[s].tap, epoch |-> op[s].epoch]
        THEN /\ address' = [address EXCEPT ![a].state = "cooling"]
             /\ remembered' = [remembered EXCEPT ![s] = @ \ {a}]
             /\ Goto(s, "ready")
        ELSE Return(s) /\ UNCHANGED <<address, remembered>>
    /\ UNCHANGED <<entry, scan, work, kernel, index, up, faults>>

DeleteFailed(s) ==
    /\ up /\ op[s].step \in {"flows", "unindex", "retire"} /\ Fault /\ Return(s)
    /\ UNCHANGED <<entry, remembered, scan, work, kernel, files, up>>

\* Keep the idle device while the pool has room, otherwise trim it.  A device
\* that readyPoolLink had to prepare again exists now.
markPoolReady(t) ==
    IF IdleCount < PoolSize
    THEN /\ entry' = [entry EXCEPT ![t] = [phase |-> "Ready", epoch |-> @.epoch,
                                           owner |-> {}, prepared |-> TRUE]]
         /\ dev' = [dev EXCEPT ![t] = IF dev[t].there THEN @ ELSE Device(entry[t].epoch)]
    ELSE /\ entry' = [entry EXCEPT ![t] = NoEntry]
         /\ dev' = [dev EXCEPT ![t] = NoDevice]

DeleteReady(s) ==
    /\ At(s, "ready") /\ Return(s)
    /\ \E t \in op[s].tap :
        IF dev[t].there \/ ~entry[t].prepared THEN markPoolReady(t)
        ELSE /\ entry' = poolFailure(t)
             /\ UNCHANGED dev
    /\ UNCHANGED <<remembered, scan, work, holder, track, files, up, faults>>

ReadyFailed(s) ==
    /\ At(s, "ready") /\ Fault /\ Return(s)
    /\ \E t \in op[s].tap : entry' = poolFailure(t)
    /\ UNCHANGED <<remembered, scan, work, kernel, files, up>>
-----------------------------------------------------------------------------
\* The alias says that the device serves this very lease.
ownedLink(t, a) == dev[t].there /\ dev[t].alias = address[a].epoch

\* Quiesce and Unquiesce of a sandbox: permission of the indexed, owned device.
setEnabled(s, enabled) ==
    /\ At(s, "idle")
    /\ \E a \in index[s] : \E t \in address[a].tap :
        /\ ownedLink(t, a)
        /\ dev' = [dev EXCEPT ![t].endpoint = IF enabled THEN {a} ELSE {}]
    /\ UNCHANGED <<memory, holder, track, files, up, faults>>

\* maintainPool picks all unowned failures, then cleans them one by one.
MaintainPick ==
    /\ up /\ work = {}
    /\ LET idle == {t \in Taps : entry[t].phase = "Cleaning" /\ entry[t].owner = {}}
       IN /\ idle # {}
          /\ work' = idle
          /\ entry' = [t \in Taps |-> IF t \in idle THEN [entry[t] EXCEPT !.phase = "Preparing"]
                                      ELSE entry[t]]
    /\ UNCHANGED <<remembered, scan, op, kernel, files, up, faults>>

MaintainClean(t) ==
    /\ up /\ t \in work
    /\ work' = work \ {t}
    /\ CASE ~dev[t].there -> /\ entry' = [entry EXCEPT ![t] = NoEntry]
                             /\ UNCHANGED <<dev, track>>
         [] dev[t].there /\ (dev[t].alias > entry[t].epoch \/ holder[t] # {}) ->
                /\ entry' = poolFailure(t)
                /\ dev' = IF dev[t].alias > entry[t].epoch THEN dev
                          ELSE [dev EXCEPT ![t].endpoint = {}]
                /\ UNCHANGED track
         [] OTHER -> \E kept \in {IdleCount < PoolSize} :
                /\ track' = [a \in Addresses |-> IF a \in dev[t].routes THEN {} ELSE track[a]]
                /\ dev' = [dev EXCEPT ![t] = IF kept THEN Device(entry[t].epoch) ELSE NoDevice]
                /\ entry' = [entry EXCEPT ![t] = IF kept
                        THEN [@ EXCEPT !.phase = "Ready", !.owner = {}, !.prepared = TRUE]
                        ELSE NoEntry]
    /\ UNCHANGED <<remembered, scan, op, holder, files, up, faults>>

\* A pass that starts with at most half of the pool goes on until it is full.
Refill(t) ==
    /\ up /\ work = {} /\ Fresh(t)
    /\ IdleCount < PoolSize
    /\ ~\E f \in Taps : entry[f].phase = "Cleaning" /\ entry[f].owner = {}
    /\ dev' = [dev EXCEPT ![t] = Device(0)]
    /\ entry' = [entry EXCEPT ![t] = [NoEntry EXCEPT !.phase = "Ready", !.prepared = TRUE]]
    /\ UNCHANGED <<remembered, scan, work, op, holder, track, files, up, faults>>

\* OwnedIDs: the collector reads the directory and records hints afterwards.
scanLeases ==
    /\ up /\ scan' = [s \in Sandboxes |-> ActiveOf(s)]
    /\ scan' # scan
    /\ UNCHANGED <<entry, remembered, work, op, kernel, files, up, faults>>

rememberLeases ==
    /\ up /\ \E s \in Sandboxes : scan[s] # {}
    /\ remembered' = [s \in Sandboxes |-> remembered[s] \cup scan[s]]
    /\ scan' = [s \in Sandboxes |-> {}]
    /\ UNCHANGED <<entry, work, op, kernel, files, up, faults>>

\* RecoverLeases and StartPool, before the daemon serves requests.
StartPool ==
    /\ ~up /\ up' = TRUE
    /\ remembered' = [s \in Sandboxes |-> ActiveOf(s)]
    /\ entry' = [t \in Taps |->
         LET owned == {a \in Addresses : address[a].state = "active" /\ address[a].tap = {t}}
         IN IF owned # {}
            THEN LET a == CHOOSE x \in owned : TRUE
                 IN [phase |-> "Active", epoch |-> address[a].epoch,
                     owner |-> address[a].sb, prepared |-> FALSE]
            ELSE IF dev[t].there
                 THEN [NoEntry EXCEPT !.phase = "Cleaning", !.epoch = dev[t].alias]
                 ELSE NoEntry]
    /\ UNCHANGED <<scan, work, op, kernel, files, faults>>
-----------------------------------------------------------------------------
\* The environment: time, VMs, the daemon's death and the host's reboot.

Expire(a) ==
    /\ address[a].state = "cooling"
    /\ address' = [address EXCEPT ![a].state = "expired"]
    /\ UNCHANGED <<memory, kernel, index, up, faults>>

\* A start under the sandbox lock opens the device by name once Add succeeded.
Launch(s) ==
    /\ At(s, "idle")
    /\ \E a \in index[s] : \E t \in address[a].tap :
        /\ entry[t].phase = "Active" /\ dev[t].endpoint = {a} /\ holder[t] = {}
        /\ holder' = [holder EXCEPT ![t] = {s}]
    /\ UNCHANGED <<memory, dev, track, files, up, faults>>

Exit(s) ==
    /\ \E t \in Taps : s \in holder[t]
    /\ holder' = [t \in Taps |-> holder[t] \ {s}]
    /\ UNCHANGED <<memory, dev, track, files, up, faults>>

Traffic(s) ==
    /\ \E t \in Taps : s \in holder[t] /\ \E a \in dev[t].endpoint :
        /\ s \notin track[a]
        /\ track' = [track EXCEPT ![a] = @ \cup {s}]
    /\ UNCHANGED <<memory, dev, holder, files, up, faults>>

LoseMemory ==
    /\ up' = FALSE
    /\ entry' = [t \in Taps |-> NoEntry]
    /\ remembered' = [s \in Sandboxes |-> {}]
    /\ scan' = [s \in Sandboxes |-> {}]
    /\ work' = {}
    /\ op' = [s \in Sandboxes |-> Idle]

Crash == up /\ Fault /\ LoseMemory /\ UNCHANGED <<kernel, files>>

Reboot ==
    /\ Fault /\ LoseMemory
    /\ dev' = [t \in Taps |-> NoDevice]
    /\ holder' = [t \in Taps |-> {}]
    /\ track' = [a \in Addresses |-> {}]
    /\ UNCHANGED files

AddStep(s) ==
    \/ AddIndexed(s) \/ AddRemembered(s) \/ PublishFailed(s) \/ LinkIndex(s) \/ LinkFailed(s)
    \/ EnsureLink(s) \/ publishEndpoint(s) \/ EnsureFailed(s) \/ EndpointFailed(s)
    \/ \E t \in Taps : BorrowReady(s, t) \/ BorrowNew(s, t) \/ BorrowFailed(s, t)
    \/ \E a \in Addresses : Publish(s, a) \/ PublishUnsynced(s, a)

DeleteStep(s) ==
    \/ DeleteBegin(s) \/ DeleteClean(s) \/ DeleteFlows(s) \/ RemoveIndex(s) \/ retireAddress(s)
    \/ DeleteFailed(s) \/ DeleteReady(s) \/ ReadyFailed(s)

Next ==
    \/ \E s \in Sandboxes : \/ AddStep(s) \/ DeleteStep(s)
                            \/ \E enabled \in BOOLEAN : setEnabled(s, enabled)
                            \/ Launch(s) \/ Exit(s) \/ Traffic(s)
    \/ MaintainPick \/ scanLeases \/ rememberLeases \/ StartPool \/ Crash \/ Reboot
    \/ \E t \in Taps : MaintainClean(t) \/ Refill(t)
    \/ \E a \in Addresses : Expire(a)

Spec == Init /\ [][Next]_vars
-----------------------------------------------------------------------------
(* A device belongs to at most one sandbox: two active address files never *)
(* bind the same device, and a device the pool keeps for lending or is     *)
(* preparing is bound by none.                                             *)
OneLeasePerDevice ==
    \A t \in Taps :
        LET bound == {a \in Addresses : address[a].state = "active" /\ address[a].tap = {t}}
        IN /\ \A a, b \in bound : a = b
           /\ entry[t].phase \in {"Ready", "Preparing"} => bound = {}

(* A VM is only connected through a lease of its own: the device whose     *)
(* queue it holds has packet permission for an address only if the active  *)
(* address file gives that address and that device to this sandbox.        *)
PermissionIsLeased ==
    \A t \in Taps : \A a \in dev[t].endpoint :
        /\ address[a].state = "active" /\ address[a].tap = {t}
        /\ holder[t] \subseteq address[a].sb

(* Connections tracked for an address belong to the sandbox that leases    *)
(* it now: an address is never handed on with its predecessor's flows.     *)
FlowsStayWithOwner ==
    \A a \in Addresses : address[a].state = "active" => track[a] \subseteq address[a].sb

(* A device, its packet permission and the connections tracked for its     *)
(* address belong to one sandbox at a time, through every crash, scan and  *)
(* failed step.                                                            *)
LeasesAreExclusive == OneLeasePerDevice /\ PermissionIsLeased /\ FlowsStayWithOwner
=============================================================================
