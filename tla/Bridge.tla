-------------------------------- MODULE Bridge --------------------------------
(***************************************************************************)
(* Address leases and TAPs of the bridge provider (network/bridge).  An    *)
(* address file is created exclusively and then written; allocation holds  *)
(* the bridge's lock but release does not; several sandboxes work at the   *)
(* same time, each under its own sandbox lock.  One NIC per sandbox.       *)
(***************************************************************************)
EXTENDS Naturals, FiniteSets

CONSTANTS Sandboxes, Addresses,
          MaxFaults     \* bound on failed steps, crashes and reboots

VARIABLES
    lease,      \* durable: address files; "empty" is created but not written
    owners,     \* durable: owner markers
    nic,        \* durable: address in the sandbox's record after a completed Add
    tap,        \* kernel: TAPs on the bridge
    vm,         \* sandboxes whose VM runs with that address
    lock,       \* holder of the bridge's lease lock
    op, faults

vars == <<lease, owners, nic, tap, vm, lock, op, faults>>

Free == [state |-> "free", owner |-> {}]
Idle == [step |-> "idle", at |-> {}, todo |-> {}, failed |-> FALSE]

TypeOK ==
    /\ lease \in [Addresses -> [state: {"free", "empty", "owned"}, owner: SUBSET Sandboxes]]
    /\ owners \subseteq Sandboxes /\ tap \subseteq Sandboxes /\ vm \subseteq Sandboxes
    /\ nic \in [Sandboxes -> SUBSET Addresses]
    /\ lock \subseteq Sandboxes
    /\ \A s \in Sandboxes : op[s].at \subseteq Addresses /\ op[s].todo \subseteq Addresses
    /\ faults \in 0..MaxFaults

Init ==
    /\ lease = [a \in Addresses |-> Free]
    /\ owners = {} /\ tap = {} /\ vm = {} /\ lock = {}
    /\ nic = [s \in Sandboxes |-> {}]
    /\ op = [s \in Sandboxes |-> Idle]
    /\ faults = 0

Fault == faults < MaxFaults /\ faults' = faults + 1
At(s, step) == op[s].step = step
Goto(s, step) == op' = [op EXCEPT ![s].step = step]
Return(s) == op' = [op EXCEPT ![s] = Idle]
-----------------------------------------------------------------------------
\* Add and Recover: reserveAddresses, then addOne.

claimOwner(s) ==
    /\ At(s, "idle") /\ s \notin vm
    /\ owners' = owners \cup {s}
    /\ Goto(s, "lock")
    /\ UNCHANGED <<lease, nic, tap, vm, lock, faults>>

lockLeases(s) ==
    /\ At(s, "lock") /\ lock = {}
    /\ lock' = {s} /\ Goto(s, "claim")
    /\ UNCHANGED <<lease, owners, nic, tap, vm, faults>>

\* A recorded address is claimed again; otherwise a file that is not there yet
\* is created.  Files may vanish while the candidates are tried in order.
claimLease(s, a) ==
    /\ At(s, "claim") /\ nic[s] \in {{}, {a}}
    /\ \/ /\ lease[a] = Free
          /\ lease' = [lease EXCEPT ![a].state = "empty"]
          /\ op' = [op EXCEPT ![s].step = "write", ![s].at = {a}]
       \/ /\ nic[s] = {a} /\ lease[a].owner = {s}
          /\ op' = [op EXCEPT ![s].step = "unlock", ![s].at = {a}]
          /\ UNCHANGED lease
    /\ UNCHANGED <<owners, nic, tap, vm, lock, faults>>

\* The subnet is used up, or the recorded address is another's now.
ClaimRefused(s) ==
    /\ At(s, "claim") /\ lock' = {} /\ Return(s)
    /\ IF nic[s] = {} THEN \A a \in Addresses : lease[a] # Free
       ELSE \A a \in nic[s] : lease[a] # Free /\ lease[a].owner # {s}
    /\ UNCHANGED <<lease, owners, nic, tap, vm, faults>>

WriteLease(s) ==
    /\ At(s, "write") /\ Goto(s, "unlock")
    /\ lease' = [a \in Addresses |-> IF a \in op[s].at THEN [state |-> "owned", owner |-> {s}]
                                     ELSE lease[a]]
    /\ UNCHANGED <<owners, nic, tap, vm, lock, faults>>

\* The write fails, or only the sync after it.
WriteFailed(s) ==
    /\ At(s, "write") /\ Fault /\ lock' = {} /\ Return(s)
    /\ \/ UNCHANGED lease
       \/ lease' = [a \in Addresses |-> IF a \in op[s].at THEN [state |-> "owned", owner |-> {s}]
                                        ELSE lease[a]]
    /\ UNCHANGED <<owners, nic, tap, vm>>

UnlockLeases(s) ==
    /\ At(s, "unlock") /\ lock' = {} /\ Goto(s, "tap")
    /\ UNCHANGED <<lease, owners, nic, tap, vm, faults>>

addOne(s) ==
    /\ At(s, "tap") /\ Return(s)
    /\ tap' = tap \cup {s}
    /\ nic' = [nic EXCEPT ![s] = op[s].at]
    /\ UNCHANGED <<lease, owners, vm, lock, faults>>

addOneFailed(s) ==
    /\ At(s, "tap") /\ Fault /\ Return(s)
    /\ tap' = tap \ {s}
    /\ UNCHANGED <<lease, owners, nic, vm, lock>>
-----------------------------------------------------------------------------
\* Delete and Remove: the VM is gone, the TAP goes, then the leases and the marker.

DeleteTap(s) ==
    /\ At(s, "idle") /\ s \notin vm
    /\ nic' = [nic EXCEPT ![s] = {}]
    /\ \/ /\ tap' = tap \ {s}
          /\ op' = [op EXCEPT ![s].step = "scan"]
          /\ UNCHANGED faults
       \/ /\ s \in tap /\ Fault
          /\ op' = [op EXCEPT ![s].step = "scan", ![s].failed = TRUE]
          /\ UNCHANGED tap
    /\ UNCHANGED <<lease, owners, vm, lock>>

\* The directory is listed once; every listed file is read.
releaseLeases(s) ==
    /\ At(s, "scan")
    /\ op' = [op EXCEPT ![s].step = "release", ![s].todo = {a \in Addresses : lease[a] # Free}]
    /\ UNCHANGED <<lease, owners, nic, tap, vm, lock, faults>>

\* A mutant: the lease file is removed whoever owns it now.
ReleaseAnyLease(s, a) ==
    /\ At(s, "release") /\ a \in op[s].todo
    /\ lease' = [lease EXCEPT ![a] = Free]
    /\ op' = [op EXCEPT ![s].todo = @ \ {a}]
    /\ UNCHANGED <<owners, nic, tap, vm, lock, faults>>

\* A file of another sandbox that vanished meanwhile fails this Delete.
ReleaseLease(s, a) ==
    /\ At(s, "release") /\ a \in op[s].todo
    /\ lease' = IF lease[a].owner = {s} THEN [lease EXCEPT ![a] = Free] ELSE lease
    /\ op' = [op EXCEPT ![s].todo = @ \ {a}, ![s].failed = @ \/ lease[a] = Free]
    /\ UNCHANGED <<owners, nic, tap, vm, lock, faults>>

ReleaseFailed(s, a) ==
    /\ At(s, "release") /\ a \in op[s].todo /\ Fault
    /\ op' = [op EXCEPT ![s].todo = @ \ {a}, ![s].failed = TRUE]
    /\ UNCHANGED <<lease, owners, nic, tap, vm, lock>>

\* Remove of a slot keeps the owner marker, Delete does not, whatever failed.
Remove(s) ==
    /\ At(s, "release") /\ op[s].todo = {} /\ Return(s)
    /\ UNCHANGED <<lease, owners, nic, tap, vm, lock, faults>>

releaseOwner(s) ==
    /\ At(s, "release") /\ op[s].todo = {} /\ Return(s)
    /\ owners' = owners \ {s}
    /\ UNCHANGED <<lease, nic, tap, vm, lock, faults>>
-----------------------------------------------------------------------------
Launch(s) ==
    /\ At(s, "idle") /\ nic[s] # {} /\ s \in tap /\ s \notin vm
    /\ vm' = vm \cup {s}
    /\ UNCHANGED <<lease, owners, nic, tap, lock, op, faults>>

Exit(s) == s \in vm /\ vm' = vm \ {s} /\ UNCHANGED <<lease, owners, nic, tap, lock, op, faults>>

Crash(s) ==
    /\ ~At(s, "idle") /\ Fault /\ Return(s)
    /\ lock' = lock \ {s}
    /\ UNCHANGED <<lease, owners, nic, tap, vm>>

Reboot ==
    /\ Fault /\ tap # {}
    /\ tap' = {} /\ vm' = {} /\ lock' = {}
    /\ op' = [s \in Sandboxes |-> Idle]
    /\ UNCHANGED <<lease, owners, nic>>

Next ==
    \/ \E s \in Sandboxes :
        \/ claimOwner(s) \/ lockLeases(s) \/ ClaimRefused(s) \/ WriteLease(s) \/ WriteFailed(s)
        \/ UnlockLeases(s) \/ addOne(s) \/ addOneFailed(s) \/ DeleteTap(s) \/ releaseLeases(s)
        \/ Remove(s) \/ releaseOwner(s) \/ Launch(s) \/ Exit(s) \/ Crash(s)
        \/ \E a \in Addresses : claimLease(s, a) \/ ReleaseLease(s, a) \/ ReleaseFailed(s, a)
    \/ Reboot

Spec == Init /\ [][Next]_vars
-----------------------------------------------------------------------------
(* The address in a sandbox's record, and so the one its VM uses, stays    *)
(* leased to it: no other sandbox records it, although leases are released *)
(* without the lock and an address file may be left half made.             *)
RecordedAddressIsLeased ==
    \A s \in Sandboxes : \A a \in nic[s] :
        /\ lease[a] = [state |-> "owned", owner |-> {s}]
        /\ \A r \in Sandboxes \ {s} : a \notin nic[r]
=============================================================================
