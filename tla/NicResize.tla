------------------------------ MODULE NicResize ------------------------------
(***************************************************************************)
(* Live change of a running sandbox's NIC count (core/sandbox_network.go)  *)
(* with the VMM's hotplug calls (vmm/cloudhypervisor/network.go).  A NIC   *)
(* exists in three places, the provider, the VMM and the record, that are  *)
(* changed one after the other under the sandbox lock.  A call may fail    *)
(* without or after its effect, the operation may die, the VM may exit and *)
(* be started again.  Slots are numbered from 0.                           *)
(***************************************************************************)
EXTENDS Naturals

CONSTANTS MaxNICs, MaxFaults

VARIABLES
    nics,       \* record: number of committed NICs
    alloc,      \* provider: allocated slots
    live,       \* VMM: slots in the device tree
    listed,     \* VMM: slots in the configuration that vm.info reports
    late,       \* VMM: slots whose ejection was requested and not waited for to the end
    vm,         \* the VM runs
    op, faults

vars == <<nics, alloc, live, listed, late, vm, op, faults>>
world == <<nics, alloc, live, listed, late, vm>>

Slots(n) == {i \in 0..(MaxNICs - 1) : i < n}
Idle == [step |-> "idle", target |-> 0, seen |-> {}, held |-> {}, n |-> 0, slipped |-> {}]

TypeOK ==
    /\ nics \in 0..MaxNICs
    /\ alloc \subseteq Slots(MaxNICs) /\ live \subseteq Slots(MaxNICs)
    /\ late \subseteq Slots(MaxNICs) /\ listed \subseteq live
    /\ vm \in BOOLEAN /\ faults \in 0..MaxFaults
    /\ op.target \in 0..MaxNICs /\ op.seen \subseteq Slots(MaxNICs)

Init ==
    /\ nics \in 0..MaxNICs /\ alloc = Slots(nics) /\ live = Slots(nics) /\ listed = live /\ late = {}
    /\ vm = TRUE /\ op = Idle /\ faults = 0

Fault == faults < MaxFaults /\ faults' = faults + 1
At(step) == op.step = step
Goto(step) == op' = [op EXCEPT !.step = step]
Return == op' = Idle

\* RemoveNIC: the device leaves the tree, or the wait for the guest is given
\* up; vm.info may stop listing the device before the guest ejects it.
RemoveNIC(i) == vm /\ live' = live \ {i} /\ listed' = listed \ {i} /\ late' = late \ {i}
RemoveNICFailed(i) ==
    /\ Fault
    /\ \/ /\ vm /\ late' = late \cup ({i} \cap live)
          /\ listed' \in {listed, listed \ {i}}
       \/ UNCHANGED <<late, listed>>
-----------------------------------------------------------------------------
\* NetResize and reconcileNICs: sweep what an interrupted resize left behind.

Begin(target) ==
    /\ At("idle") /\ vm
    /\ op' = [Idle EXCEPT !.step = "sweepLive", !.target = target, !.seen = listed, !.held = alloc, !.n = nics]
    /\ UNCHANGED <<world, faults>>

SweepLive(i) ==
    /\ At("sweepLive") /\ i \in op.seen /\ i >= nics
    /\ RemoveNIC(i)
    /\ op' = [op EXCEPT !.seen = @ \ {i}]
    /\ UNCHANGED <<nics, alloc, vm, faults>>

SweepLiveFailed(i) ==
    /\ At("sweepLive") /\ i \in op.seen /\ i >= nics
    /\ RemoveNICFailed(i) /\ Return
    /\ UNCHANGED <<nics, alloc, live, vm>>

\* An exited VM fails the next call to it.
VMGone ==
    /\ ~vm /\ op.step \in {"sweepLive", "configure", "unconfigure", "eject", "undo"}
    /\ Return
    /\ UNCHANGED <<world, faults>>

\* A mutant: leftover allocations are forgotten instead of released.
SweepNothing ==
    /\ At("sweepLive") /\ \A i \in op.seen : i < nics
    /\ op.held \ Slots(nics) # {}
    /\ op' = [op EXCEPT !.held = @ \cap Slots(nics)]
    /\ UNCHANGED <<world, faults>>

SweepAlloc ==
    /\ At("sweepLive") /\ \A i \in op.seen : i < nics
    /\ op.held \ Slots(nics) # {}
    /\ \E i \in op.held \ Slots(nics) :
        /\ alloc' = alloc \ {i}
        /\ op' = [op EXCEPT !.held = @ \ {i}]
    /\ UNCHANGED <<nics, live, listed, late, vm, faults>>

SweepAllocFailed ==
    /\ At("sweepLive") /\ \A i \in op.seen : i < nics
    /\ \E i \in op.held \ Slots(nics) : alloc' \in {alloc, alloc \ {i}}
    /\ Fault /\ Return
    /\ UNCHANGED <<nics, live, listed, late, vm>>

\* A committed NIC below the target that the VMM does not have stops the resize.
Reconciled ==
    /\ At("sweepLive") /\ \A i \in op.seen \cup op.held : i < nics
    /\ IF \E i \in Slots(op.target) \cap Slots(nics) : i \notin op.seen
       THEN Return ELSE Goto("loop")
    /\ UNCHANGED <<world, faults>>

Loop ==
    /\ At("loop")
    /\ op' = [op EXCEPT !.n = nics,
                        !.step = CASE nics < op.target -> "allocate"
                                   [] nics > op.target -> "unconfigure"
                                   [] OTHER -> "done"]
    /\ UNCHANGED <<world, faults>>

Done == At("done") /\ Return /\ UNCHANGED <<world, faults>>
-----------------------------------------------------------------------------
\* addLiveNIC of slot op.n.

Allocate ==
    /\ At("allocate") /\ Goto("plug")
    /\ alloc' = alloc \cup {op.n}
    /\ UNCHANGED <<nics, live, listed, late, vm, faults>>

AllocateFailed ==
    /\ At("allocate") /\ Fault /\ Return
    /\ \E part \in SUBSET {op.n} : alloc' = alloc \cup part
    /\ UNCHANGED <<nics, live, listed, late, vm>>

AddNIC ==
    /\ At("plug") /\ vm /\ Goto("configure")
    /\ op.n \notin live
    /\ live' = live \cup {op.n} /\ listed' = listed \cup {op.n}
    /\ UNCHANGED <<nics, alloc, late, vm, faults>>

\* The reply was lost or the VMM refused a slot it still ejects: vm.info is
\* asked, and the slot released if it is not listed.
AddNICFailed ==
    /\ At("plug") /\ vm
    /\ \/ Fault \/ (op.n \in live /\ UNCHANGED faults)
    /\ \E took \in SUBSET ({op.n} \ live) :
        /\ live' = live \cup took /\ listed' = listed \cup took
        /\ IF op.n \in listed' THEN Goto("configure") /\ UNCHANGED alloc
           ELSE Return /\ alloc' \in {alloc, alloc \ {op.n}}
    /\ UNCHANGED <<nics, late, vm>>

\* The question fails as well: the slot is released although the VMM may use it.
AddNICUnknown ==
    /\ At("plug") /\ vm /\ Fault /\ Return
    /\ \E took \in SUBSET ({op.n} \ live) : live' = live \cup took /\ listed' = listed \cup took
    /\ alloc' = alloc \ {op.n}
    /\ UNCHANGED <<nics, late, vm>>

AddNICGone ==
    /\ At("plug") /\ ~vm /\ Return
    /\ alloc' = alloc \ {op.n}
    /\ UNCHANGED <<nics, live, listed, late, vm, faults>>

Configure == At("configure") /\ vm /\ Goto("commit") /\ UNCHANGED <<world, faults>>
ConfigureFailed == At("configure") /\ Fault /\ Goto("undo") /\ UNCHANGED world

CommitAdd ==
    /\ At("commit") /\ Goto("loop")
    /\ nics' = nics + 1
    /\ UNCHANGED <<alloc, live, listed, late, vm, faults>>

\* The transaction reports an error; reading the record back decides, and a
\* failure to read it back counts as not committed.
CommitAddFailed ==
    /\ At("commit") /\ Fault
    /\ \E written, readable \in BOOLEAN :
        /\ nics' = IF written THEN nics + 1 ELSE nics
        /\ Goto(IF written /\ readable THEN "loop" ELSE "undo")
    /\ UNCHANGED <<alloc, live, listed, late, vm>>

rollbackAddedNIC ==
    /\ At("undo") /\ RemoveNIC(op.n) /\ Return
    /\ alloc' = alloc \ {op.n}
    /\ UNCHANGED <<nics, vm, faults>>

\* The ejection fails, or only the release after it.
rollbackFailed ==
    /\ At("undo") /\ Return
    /\ \/ RemoveNICFailed(op.n) /\ UNCHANGED live
       \/ RemoveNIC(op.n) /\ Fault
    /\ UNCHANGED <<nics, alloc, vm>>
-----------------------------------------------------------------------------
\* removeLiveNIC of slot op.n - 1.

Unconfigure ==
    /\ At("unconfigure") /\ vm /\ Goto("eject")
    /\ UNCHANGED <<world, faults>>

UnconfigureFailed == At("unconfigure") /\ Fault /\ Return /\ UNCHANGED world

Eject ==
    /\ At("eject") /\ op.n - 1 \in listed /\ RemoveNIC(op.n - 1) /\ Goto("release")
    /\ UNCHANGED <<nics, alloc, vm, faults>>

NotListed ==
    /\ At("eject") /\ vm /\ op.n - 1 \notin listed /\ Goto("release")
    /\ UNCHANGED <<world, faults>>

EjectFailed ==
    /\ At("eject") /\ op.n - 1 \in listed /\ RemoveNICFailed(op.n - 1) /\ Return
    /\ UNCHANGED <<nics, alloc, live, vm>>

Release ==
    /\ At("release") /\ Goto("drop")
    /\ alloc' = alloc \ {op.n - 1}
    /\ UNCHANGED <<nics, live, listed, late, vm, faults>>

ReleaseFailed ==
    /\ At("release") /\ Fault /\ Return
    /\ alloc' \in {alloc, alloc \ {op.n - 1}}
    /\ UNCHANGED <<nics, live, listed, late, vm>>

CommitRemove ==
    /\ At("drop") /\ Goto("loop")
    /\ nics' = nics - 1
    /\ UNCHANGED <<alloc, live, listed, late, vm, faults>>

CommitRemoveFailed ==
    /\ At("drop") /\ Fault
    /\ \E written, readable \in BOOLEAN :
        /\ nics' = IF written THEN nics - 1 ELSE nics
        /\ IF written /\ readable THEN Goto("loop") ELSE Return
    /\ UNCHANGED <<alloc, live, listed, late, vm>>
-----------------------------------------------------------------------------
Crash == ~At("idle") /\ Fault /\ Return /\ UNCHANGED world

\* The guest ejects a device long after the request was given up.
EjectLate(i) ==
    /\ vm /\ i \in late \cap live
    /\ live' = live \ {i} /\ listed' = listed \ {i} /\ late' = late \ {i}
    /\ op' = [op EXCEPT !.slipped = IF At("idle") THEN {} ELSE @ \cup {i}]
    /\ UNCHANGED <<nics, alloc, vm, faults>>

VMExit == vm /\ vm' = FALSE /\ live' = {} /\ listed' = {} /\ late' = {} /\ UNCHANGED <<nics, alloc, op, faults>>

\* The provider recovers the recorded NICs, with or without a fresh start.
VMStart ==
    /\ ~vm /\ At("idle")
    /\ vm' = TRUE /\ live' = Slots(nics) /\ listed' = Slots(nics)
    /\ \E kept \in {alloc, {}} : alloc' = kept \cup Slots(nics)
    /\ UNCHANGED <<nics, late, op, faults>>

Next ==
    \/ \E n \in 0..MaxNICs : Begin(n)
    \/ \E i \in Slots(MaxNICs) : SweepLive(i) \/ SweepLiveFailed(i) \/ EjectLate(i)
    \/ VMGone \/ SweepAlloc \/ SweepAllocFailed \/ Reconciled \/ Loop \/ Done
    \/ Allocate \/ AllocateFailed \/ AddNIC \/ AddNICFailed \/ AddNICUnknown \/ AddNICGone
    \/ Configure \/ ConfigureFailed \/ CommitAdd \/ CommitAddFailed
    \/ rollbackAddedNIC \/ rollbackFailed
    \/ Unconfigure \/ UnconfigureFailed \/ Eject \/ NotListed \/ EjectFailed \/ Release \/ ReleaseFailed
    \/ CommitRemove \/ CommitRemoveFailed \/ Crash \/ VMExit \/ VMStart

Spec == Init /\ [][Next]_vars
-----------------------------------------------------------------------------
(* A resize that reports success has brought the three places together,    *)
(* whatever earlier resizes left behind: the record has the target count,  *)
(* the provider exactly these slots, and so has the VM, but for a slot     *)
(* whose ejection an earlier call gave up waiting for and the guest still  *)
(* has to do or did while this resize ran.                                 *)
ResizeConverges ==
    At("done") =>
        /\ nics = op.target
        /\ alloc = Slots(op.target)
        /\ vm => /\ Slots(op.target) \subseteq live \cup op.slipped
                 /\ live \subseteq Slots(op.target) \cup late
                 /\ listed \subseteq Slots(op.target)

(* An interrupted resize leaves at most one slot in doubt: below the last  *)
(* committed NIC everything is allocated, and beyond the next one nothing. *)
OneSlotInDoubt ==
    /\ Slots(IF nics = 0 THEN 0 ELSE nics - 1) \subseteq alloc
    /\ alloc \cup listed \subseteq Slots(nics + 1)

(* Success means agreement, and on the way only the last slot is in doubt, *)
(* so the next resize can repair it.                                       *)
ResizeIsRepairable == ResizeConverges /\ OneSlotInDoubt
=============================================================================
