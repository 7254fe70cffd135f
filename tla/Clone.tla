-------------------------------- MODULE Clone ---------------------------------
(***************************************************************************)
(* Clones of one snapshot (core/clone.go and the driver's Clone and        *)
(* restore).  Each clone is one process that builds one new sandbox.  The  *)
(* other operations on that sandbox hold its lock from beginning to end,   *)
(* so here they are single steps; SandboxLifecycle takes them apart.       *)
(***************************************************************************)
EXTENDS Naturals

CONSTANTS Clones, Source,   \* the new sandboxes, and the captured one
          MaxGen,           \* bound on a record's generation
          MaxFaults         \* bound on failed steps, lost replies and crashes

VARIABLES
    snap,       \* the snapshot is ready, or removed with its files
    readers,    \* holders of the snapshot's shared lease
    staged,     \* clones with a private copy of an exported directory
    image,      \* the snapshot's image is in the store
    rec,        \* durable: the sandbox record, by state and generation
    lock,       \* sandboxes that their clone has locked
    disk,       \* durable: sandboxes with a writable disk and network
    private,    \* durable: the clone's copy of the native state
    config,     \* its config.json: TAPs and writable disk
    vm,         \* the VMM process and the guest in it
    op, faults

vars == <<snap, readers, staged, image, rec, lock, disk, private, config, vm, op, faults>>

NoRecord == [state |-> "none", gen |-> 0]
NoVM == [state |-> "none", taps |-> {}, disk |-> Source, stale |-> FALSE, limited |-> FALSE]
Tap(c) == <<c, "net">>          \* allocated with the sandbox
TemporaryTap(c) == <<c, "rt">>  \* opened by the restored NIC until it is swapped
Captured == [taps |-> {Tap(Source)}, disk |-> Source]

Init ==
    /\ snap = "ready" /\ readers = {} /\ staged = {} /\ image \in BOOLEAN
    /\ rec = [c \in Clones |-> NoRecord]
    /\ lock = {} /\ disk = {}
    /\ private = [c \in Clones |-> "none"]
    /\ config = [c \in Clones |-> Captured]
    /\ vm = [c \in Clones |-> NoVM]
    /\ op = [c \in Clones |-> [step |-> "idle", gen |-> 0, preserve |-> FALSE]]
    /\ faults = 0

sandboxVars == <<rec, lock, disk, private, config, vm>>

At(c, step) == op[c].step = step
Goto(c, step) == op' = [op EXCEPT ![c].step = step]
Fault == faults < MaxFaults /\ faults' = faults + 1
Commit(c, state) == rec' = [rec EXCEPT ![c] = [state |-> state, gen |-> @.gen + 1]]
Forget(c) == rec' = [rec EXCEPT ![c].state = "none"] /\ disk' = disk \ {c}

Startable == {"created", "stopped", "error"}
Removable == {"creating", "created", "stopped", "error"}

\* The deferred releases run whatever the outcome.
Return(c) ==
    /\ Goto(c, "done")
    /\ readers' = readers \ {c} /\ staged' = staged \ {c}
-----------------------------------------------------------------------------
\* The source: a leased snapshot, or a private stage of an exported directory.

SourceReadable(c) == c \in staged \/ snap = "ready"

resolve(c) ==
    /\ At(c, "idle") /\ snap = "ready"
    /\ Goto(c, "lease")
    /\ UNCHANGED <<snap, readers, staged, image, sandboxVars, faults>>

lease(c) ==
    /\ At(c, "lease")
    /\ IF snap = "ready" THEN readers' = readers \cup {c} /\ Goto(c, "check") /\ UNCHANGED staged
       ELSE Return(c)
    /\ UNCHANGED <<snap, image, sandboxVars, faults>>

StageDirectory(c) ==
    /\ At(c, "idle")
    /\ Goto(c, "check")
    /\ staged' = staged \cup {c}
    /\ UNCHANGED <<snap, readers, image, sandboxVars, faults>>

\* The options, the captured disks and then the VMM's own files are checked
\* before anything is created.
CheckCapture(c) ==
    /\ At(c, "check")
    /\ \/ SourceReadable(c) /\ Goto(c, "validate") /\ UNCHANGED <<readers, staged, faults>>
       \/ Fault /\ Return(c)
    /\ UNCHANGED <<snap, image, sandboxVars>>

ValidateRestore(c) ==
    /\ At(c, "validate")
    /\ \/ SourceReadable(c) /\ Goto(c, "image") /\ UNCHANGED <<readers, staged, faults>>
       \/ Fault /\ Return(c)
    /\ UNCHANGED <<snap, image, sandboxVars>>

\* With Pull, a missing image is imported and must have the captured digest.
ensureCloneImage(c) ==
    /\ At(c, "image")
    /\ \/ image' \in {image, TRUE} /\ Goto(c, "reserve") /\ UNCHANGED <<readers, staged, faults>>
       \/ Fault /\ Return(c) /\ UNCHANGED image
    /\ UNCHANGED <<snap, sandboxVars>>
-----------------------------------------------------------------------------
\* createFromSnapshot: the identity, its network and its private disks.

createFromSnapshot(c) ==
    /\ At(c, "reserve")
    /\ IF image
       THEN /\ rec' = [rec EXCEPT ![c] = [state |-> "creating", gen |-> 1]]
            /\ lock' = lock \cup {c} /\ Goto(c, "disk") /\ UNCHANGED <<readers, staged>>
       ELSE Return(c) /\ UNCHANGED <<rec, lock>>
    /\ UNCHANGED <<snap, image, disk, private, config, vm, faults>>

CloneDisk(c) ==
    /\ At(c, "disk") /\ SourceReadable(c)
    /\ disk' = disk \cup {c}
    /\ Commit(c, "created") /\ lock' = lock \ {c}
    /\ op' = [op EXCEPT ![c].step = "lock", ![c].gen = rec[c].gen + 1]
    /\ UNCHANGED <<snap, readers, staged, image, private, config, vm, faults>>

\* Compensation gives everything back, or retains an Error record as owner.
compensate(c) ==
    /\ At(c, "disk") /\ Fault
    /\ Forget(c) \/ (Commit(c, "error") /\ disk' = disk \cup {c})
    /\ lock' = lock \ {c} /\ Return(c)
    /\ UNCHANGED <<snap, image, private, config, vm>>

\* The new sandbox was visible and unlocked meanwhile.
LockClone(c) ==
    /\ At(c, "lock") /\ c \notin lock
    /\ lock' = lock \cup {c} /\ Goto(c, "begin")
    /\ UNCHANGED <<snap, readers, staged, image, rec, disk, private, config, vm, faults>>

BeginStart(c) ==
    /\ At(c, "begin")
    /\ IF rec[c] = [state |-> "created", gen |-> op[c].gen]
       THEN /\ Commit(c, "starting")
            /\ \/ /\ op' = [op EXCEPT ![c].step = "network", ![c].gen = @ + 1]
                  /\ UNCHANGED <<lock, faults>>
               \/ Fault /\ Goto(c, "cleanup") /\ lock' = lock \ {c}
       ELSE Goto(c, "cleanup") /\ lock' = lock \ {c} /\ UNCHANGED <<rec, faults>>
    /\ UNCHANGED <<snap, readers, staged, image, disk, private, config, vm>>

\* The lock was released first, so Remove takes it and decides by the state it finds.
cleanupCreated(c) ==
    /\ At(c, "cleanup") /\ c \notin lock /\ Return(c)
    /\ IF rec[c].state \in Removable THEN Forget(c) ELSE UNCHANGED <<rec, disk>>
    /\ UNCHANGED <<snap, image, lock, private, config, vm, faults>>

recoverNetwork(c) ==
    /\ At(c, "network")
    /\ \/ c \in disk /\ Goto(c, "prepare") /\ UNCHANGED faults
       \/ Fault /\ Goto(c, "fail")
    /\ UNCHANGED <<snap, readers, staged, image, sandboxVars>>

\* What a VM of the sandbox is bound to.
launchPlan(c) == [taps |-> {Tap(c)}, disk |-> c]

PrepareLaunch(c) ==
    /\ At(c, "prepare")
    /\ \/ image /\ Goto(c, "stage") /\ UNCHANGED faults
       \/ Fault /\ Goto(c, "fail")
    /\ UNCHANGED <<snap, readers, staged, image, sandboxVars>>
-----------------------------------------------------------------------------
\* Driver.Clone: private state, rebound configuration, then restore.

\* Memory is linked; across file systems the link is symbolic.
copyNativeState(c) ==
    /\ At(c, "stage")
    /\ \/ /\ private[c] = "none" /\ SourceReadable(c)
          /\ \E k \in {"linked", "symlink"} : private' = [private EXCEPT ![c] = k]
          /\ Goto(c, "patch") /\ UNCHANGED faults
       \/ private[c] # "none" /\ Goto(c, "fail") /\ UNCHANGED <<private, faults>>
       \/ Fault /\ Goto(c, "fail") /\ private' = [private EXCEPT ![c] = "partial"]
    /\ UNCHANGED <<snap, readers, staged, image, rec, lock, disk, config, vm>>

\* A mutant: the restored NICs of every clone open the same temporary TAP.
PatchSharedTap(c, preserve) == [taps |-> {TemporaryTap(Source)}, disk |-> launchPlan(c).disk]

\* With the captured MACs a NIC is kept and only its TAP changes; otherwise it
\* opens a temporary TAP of this clone.
patchCloneConfig(c, preserve) ==
    [taps |-> IF preserve THEN launchPlan(c).taps ELSE {TemporaryTap(c)}, disk |-> launchPlan(c).disk]

WriteConfig(c) ==
    /\ At(c, "patch")
    /\ \/ /\ \E preserve \in BOOLEAN :
                /\ config' = [config EXCEPT ![c] = patchCloneConfig(c, preserve)]
                /\ op' = [op EXCEPT ![c].step = "exec", ![c].preserve = preserve]
          /\ UNCHANGED faults
       \/ Fault /\ Goto(c, "fail") /\ UNCHANGED config
    /\ UNCHANGED <<snap, readers, staged, image, rec, lock, disk, private, vm>>

\* The API-only process starts in a scope without a CPU limit.
PrepareRestore == [NoVM EXCEPT !.state = "api"]

restore(c) ==
    /\ At(c, "exec")
    /\ \/ vm' = [vm EXCEPT ![c] = PrepareRestore] /\ Goto(c, "load") /\ UNCHANGED faults
       \/ Fault /\ Goto(c, "fail") /\ UNCHANGED vm
    /\ UNCHANGED <<snap, readers, staged, image, rec, lock, disk, private, config>>

\* One request to the VMM: it is answered, or it fails with or without effect.
Ask(c, step, effect, next) ==
    /\ At(c, step) /\ vm[c].state # "none"
    /\ \/ vm' = [vm EXCEPT ![c] = effect] /\ Goto(c, next) /\ UNCHANGED faults
       \/ Fault /\ Goto(c, "abort") /\ (UNCHANGED vm \/ vm' = [vm EXCEPT ![c] = effect])
    /\ UNCHANGED <<snap, readers, staged, image, rec, lock, disk, private, config>>

restoreVM(c) ==
    /\ private[c] = "linked" \/ SourceReadable(c)
    /\ Ask(c, "load", [vm[c] EXCEPT !.state = "paused", !.taps = config[c].taps,
                                    !.disk = config[c].disk, !.stale = ~op[c].preserve], "swap")

\* The captured NICs are asked to go while the guest is paused.  Whether the
\* device leaves at once is up to the VMM and the guest.
swapCloneNets(c) ==
    \E left \in SUBSET config[c].taps :
        Ask(c, "swap", IF op[c].preserve THEN vm[c] ELSE [vm[c] EXCEPT !.stale = FALSE, !.taps = left], "add")

AddNets(c) == Ask(c, "add", [vm[c] EXCEPT !.taps = @ \cup launchPlan(c).taps], "disks")
addCloneDataDisks(c) == Ask(c, "disks", vm[c], "limit")
ApplyLimit(c) == Ask(c, "limit", [vm[c] EXCEPT !.limited = TRUE], "resume")
Resume(c) == Ask(c, "resume", [vm[c] EXCEPT !.state = "running"], "ready")

WaitReady(c) ==
    /\ At(c, "ready") /\ vm[c].state = "running"
    /\ Goto(c, "configure") \/ Goto(c, "commit")
    /\ UNCHANGED <<snap, readers, staged, image, sandboxVars, faults>>

\* The process has gone while a request or the readiness was awaited.
ProcessGone(c) ==
    /\ op[c].step \in {"load", "swap", "add", "disks", "limit", "resume", "ready"}
    /\ vm[c].state = "none" /\ Goto(c, "abort")
    /\ UNCHANGED <<snap, readers, staged, image, sandboxVars, faults>>

Cleared(c) == vm' = [vm EXCEPT ![c] = NoVM] /\ private' = [private EXCEPT ![c] = "none"]

\* Abort ends the process and then clears its files; either may fail.
Abort(c) ==
    \/ Cleared(c) /\ UNCHANGED faults
    \/ Fault /\ UNCHANGED private /\ (UNCHANGED vm \/ vm' = [vm EXCEPT ![c] = NoVM])

restoreFailed(c) ==
    /\ At(c, "abort") /\ Abort(c) /\ Goto(c, "fail")
    /\ UNCHANGED <<snap, readers, staged, image, rec, lock, disk, config>>
-----------------------------------------------------------------------------
\* Back in the core: guest configuration, the commit, and failStart.

configureCloneGuest(c) ==
    /\ At(c, "configure")
    /\ \/ vm[c].state = "running" /\ Goto(c, "commit") /\ UNCHANGED faults
       \/ vm[c].state = "none" /\ Goto(c, "fail") /\ UNCHANGED faults
       \/ Fault /\ Goto(c, "fail")
    /\ UNCHANGED <<snap, readers, staged, image, sandboxVars>>

MarkRunning(c) ==
    /\ At(c, "commit")
    /\ \/ /\ rec[c] = [state |-> "starting", gen |-> op[c].gen]
          /\ Commit(c, "running") /\ Return(c) /\ lock' = lock \ {c} /\ UNCHANGED faults
       \/ Fault /\ Goto(c, "fail") /\ UNCHANGED <<rec, lock, readers, staged>>
    /\ UNCHANGED <<snap, image, disk, private, config, vm>>

failStart(c) ==
    /\ At(c, "fail")
    /\ \/ Abort(c) /\ Commit(c, "error")
       \/ Fault /\ UNCHANGED <<rec, vm, private>>
       \/ Fault /\ UNCHANGED rec /\ Cleared(c)
    /\ lock' = lock \ {c} /\ Return(c)
    /\ UNCHANGED <<snap, image, disk, config>>

Crash(c) ==
    /\ op[c].step \notin {"idle", "done"} /\ Fault
    /\ Goto(c, "done")
    /\ readers' = readers \ {c} /\ lock' = lock \ {c}
    /\ UNCHANGED <<snap, staged, image, rec, disk, private, config, vm>>
-----------------------------------------------------------------------------
\* Other operations, each under the sandbox's lock or the snapshot's.

Booted(c) ==
    [state |-> "running", taps |-> launchPlan(c).taps, disk |-> launchPlan(c).disk, stale |-> FALSE, limited |-> TRUE]

Free(c) == c \notin lock /\ rec[c].gen < MaxGen

\* An interrupted start is begun already.
Start(c) ==
    /\ Free(c) /\ rec[c].state \in Startable \cup {"starting"} /\ vm[c].state = "none" /\ c \in disk
    /\ rec' = [rec EXCEPT ![c] = [state |-> "running", gen |-> @.gen + IF @.state = "starting" THEN 1 ELSE 2]]
    /\ vm' = [vm EXCEPT ![c] = Booted(c)]
    /\ private' = [private EXCEPT ![c] = "none"]
    /\ UNCHANGED <<snap, readers, staged, image, lock, disk, config, op, faults>>

ObservedRunning(c) == vm[c].state = "running"

\* Start of an interrupted clone: adopt a running VM, abort any other.
recoverStart(c) ==
    /\ Free(c) /\ rec[c].state = "starting" /\ vm[c].state # "none"
    /\ IF ObservedRunning(c) THEN Commit(c, "running") /\ UNCHANGED <<vm, private>>
       ELSE Commit(c, "error") /\ Cleared(c)
    /\ UNCHANGED <<snap, readers, staged, image, lock, disk, config, op, faults>>

Reconcile(c) ==
    /\ Free(c)
    /\ \/ rec[c].state = "creating" /\ Forget(c) /\ UNCHANGED private
       \/ rec[c].state = "starting" /\ ObservedRunning(c) /\ Commit(c, "running") /\ UNCHANGED <<disk, private>>
       \/ /\ rec[c].state \in {"starting", "running"} /\ vm[c].state = "none"
          /\ Commit(c, "stopped") /\ private' = [private EXCEPT ![c] = "none"] /\ UNCHANGED disk
    /\ UNCHANGED <<snap, readers, staged, image, lock, config, vm, op, faults>>

Stop(c) ==
    /\ Free(c) /\ rec[c].state = "running"
    /\ rec' = [rec EXCEPT ![c] = [state |-> "stopped", gen |-> @.gen + 2]]
    /\ Cleared(c)
    /\ UNCHANGED <<snap, readers, staged, image, lock, disk, config, op, faults>>

Remove(c) ==
    /\ Free(c) /\ rec[c].state \in Removable /\ Forget(c)
    /\ UNCHANGED <<snap, readers, staged, image, lock, private, config, vm, op, faults>>

CollectOrphan(c) ==
    /\ c \notin lock /\ rec[c].state = "none" /\ vm[c].state = "none" /\ private[c] # "none"
    /\ private' = [private EXCEPT ![c] = "none"] /\ disk' = disk \ {c}
    /\ UNCHANGED <<snap, readers, staged, image, rec, lock, config, vm, op, faults>>

RemoveSnapshot ==
    /\ snap = "ready" /\ readers = {} /\ snap' = "removed"
    /\ UNCHANGED <<readers, staged, image, sandboxVars, op, faults>>

RemoveImage ==
    /\ image /\ snap = "removed" /\ (\A c \in Clones : rec[c].state = "none") /\ image' = FALSE
    /\ UNCHANGED <<snap, readers, staged, sandboxVars, op, faults>>

Exit(c) ==
    /\ vm[c].state # "none" /\ vm' = [vm EXCEPT ![c] = NoVM]
    /\ UNCHANGED <<snap, readers, staged, image, rec, lock, disk, private, config, op, faults>>

Next ==
    \/ \E c \in Clones :
        \/ resolve(c) \/ lease(c) \/ StageDirectory(c) \/ CheckCapture(c) \/ ValidateRestore(c) \/ ensureCloneImage(c)
        \/ createFromSnapshot(c) \/ CloneDisk(c) \/ compensate(c) \/ LockClone(c) \/ BeginStart(c)
        \/ cleanupCreated(c) \/ recoverNetwork(c) \/ PrepareLaunch(c) \/ copyNativeState(c) \/ WriteConfig(c)
        \/ restore(c) \/ restoreVM(c) \/ swapCloneNets(c) \/ AddNets(c) \/ addCloneDataDisks(c)
        \/ ApplyLimit(c) \/ Resume(c) \/ WaitReady(c) \/ ProcessGone(c) \/ restoreFailed(c)
        \/ configureCloneGuest(c) \/ MarkRunning(c) \/ failStart(c) \/ Crash(c)
        \/ Start(c) \/ recoverStart(c) \/ Reconcile(c) \/ Stop(c) \/ Remove(c)
        \/ CollectOrphan(c) \/ Exit(c)
    \/ RemoveSnapshot \/ RemoveImage

Spec == Init /\ [][Next]_vars
-----------------------------------------------------------------------------
(* "before guest memory can send traffic with the source MAC or IP", "The  *)
(* runtime CPU ceiling is mandatory before the first resumed instruction": *)
(* a guest that executes writes to its own disk, reaches only TAPs of its  *)
(* own, has its new NIC and no captured one that nobody asked to go, and   *)
(* is limited.  A record that says running has such a guest or none: no    *)
(* recovery adopts a clone that was interrupted half built.  And until the *)
(* VMM has loaded the memory, its source is there.                         *)
CloneIsIsolated ==
    \A c \in Clones :
        /\ vm[c].state = "running" =>
            /\ Tap(c) \in vm[c].taps /\ vm[c].taps \subseteq {Tap(c), TemporaryTap(c)}
            /\ vm[c].disk = c /\ ~vm[c].stale /\ vm[c].limited
        /\ rec[c].state = "running" => vm[c].state \in {"none", "running"}
        /\ op[c].step \in {"disk", "stage", "patch", "exec", "load"} => SourceReadable(c)
=============================================================================
