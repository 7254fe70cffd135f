--------------------------- MODULE SandboxLifecycle ---------------------------
(***************************************************************************)
(* The sandbox lifecycle: create, start, stop, remove, snapshot restore,    *)
(* status, the reconciliation pass and the orphan collector                 *)
(* (internal/core/sandbox_runtime.go, sandbox_storage.go, sandbox_lock.go,  *)
(* sandbox_reconcile.go, sandbox_status.go, gc.go, snapshot.go), run by     *)
(* several daemon goroutines and CLI processes over one catalog, one set of *)
(* VMM processes and one set of host resources.                             *)
(*                                                                          *)
(* Every step that leaves a durable trace (a catalog transaction, an exec,  *)
(* a signal, a file or device change) is a step of its own, so a crash of   *)
(* the operating process, a crash of the host, a VMM exit or a step of      *)
(* another operation can fall between any two of them.                      *)
(***************************************************************************)
EXTENDS VmmDriver

CONSTANTS
    Procs, NoProc,   \* operations in flight at one time
    Kinds,           \* the operations this instance exercises
    Policies,        \* the network policies that creations ask for
    MaxRequests,     \* how many user operations are issued
    MaxFaults        \* how many failures, crashes and reboots occur

ASSUME NoProcAssumption == NoProc \notin Procs
ASSUME PoliciesAssumption == Policies \subseteq {"offline", "named", "pending"}
ASSUME BoundsAssumption == MaxRequests \in Nat /\ MaxFaults \in Nat

VARIABLES
    lock,      \* the per-sandbox operation flock and its holder
    op,        \* what each operation is doing, and its copy of the record
    disk,      \* does the sandbox own a complete writable disk set?
    net,       \* host network resources of the sandbox
    issued,    \* IDs newID has drawn: random, so never drawn again
    requests, faults

hostVars == <<disk, net>>
budgetVars == <<issued, requests, faults>>
vars == <<rec, names, setup, vm, pfile, lock, op, disk, net, issued, requests, faults>>

OpKinds == {"create", "start", "stop", "remove", "restore", "status",
            "reconcile", "gc"}

\* Steps taken while holding the operation lock of the sandbox operated on.
LockedSteps ==
    {"locked", "startCleanup", "markLost", "validate", "beginStart",
     "recoverNetwork", "replaceDisks", "exec", "persist", "awaitReady",
     "commitRunning", "commitObserved", "failCleanup", "failCommit",
     "beginStop", "stopVMM", "stopCleanup", "commitStopped",
     "release", "finalize", "createNetwork", "createDisk", "commitCreated",
     "compensate", "forget", "markError"}

UnlockedSteps == {"idle", "lock", "restoreDecide", "relock",
                  "statusRead", "statusWrite"}

Op == [at : LockedSteps \cup UnlockedSteps, kind : OpKinds \cup {"none"},
       id : Ids \cup {NoId}, st : States, gen : Nat, pid : Pids \cup {NoPid},
       held : BOOLEAN]

\* held: Create has a network setup in memory that no record shows yet.
Idle == [at |-> "idle", kind |-> "none", id |-> NoId, st |-> "none",
         gen |-> 0, pid |-> NoPid, held |-> FALSE]

\* An operation in flight has a target.
OperationTypeOK ==
    /\ op \in [Procs -> Op]
    /\ \A p \in Procs : op[p].at # "idle" => op[p].id \in Ids
    /\ lock \in [Ids -> Procs \cup {NoProc}]

\* Every variable keeps its type through every handler.
TypeOK ==
    /\ CatalogTypeOK
    /\ SetupTypeOK
    /\ DriverTypeOK
    /\ OperationTypeOK
    /\ disk \in [Ids -> BOOLEAN]
    /\ net \in [Ids -> {"none", "up", "down"}]
    /\ issued \in SUBSET Ids
    /\ requests \in Nat
    /\ faults \in Nat

Init ==
    /\ CatalogInit
    /\ DriverInit
    /\ lock = [i \in Ids |-> NoProc]
    /\ op = [p \in Procs |-> Idle]
    /\ disk = [i \in Ids |-> FALSE]
    /\ net = [i \in Ids |-> "none"]
    /\ issued = {}
    /\ requests = 0
    /\ faults = 0

-----------------------------------------------------------------------------
(* Vocabulary of the steps.                                                  *)

At(p, step) == op[p].at = step
AtOf(p, step, kinds) == op[p].at = step /\ op[p].kind \in kinds
Target(p) == op[p].id

\* The environment denies one call: an I/O, database, API or timeout error.
Fault == faults < MaxFaults /\ faults' = faults + 1 /\ UNCHANGED <<issued, requests>>
NoFault == UNCHANGED budgetVars

\* A catalog transaction fails: the store is unavailable, the fence differs, or
\* the record would not be valid in its new state.
Refused(p, from, to) ==
    /\ \/ Fault
       \/ NoFault /\ ~(Fenced(op[p].id, op[p].gen, from) /\ Valid(setup[op[p].id], to))
    /\ UNCHANGED catalogVars

ReleaseLock(p) == lock' = [i \in Ids |-> IF lock[i] = p THEN NoProc ELSE lock[i]]

Become(p, o) == op' = [op EXCEPT ![p] = o]

\* The operation returns to its caller; the deferred unlock runs.
Return(p) == Become(p, Idle) /\ ReleaseLock(p)

Goto(p, step) == Become(p, [op[p] EXCEPT !.at = step]) /\ UNCHANGED lock
GotoWith(p, step, v) ==
    Become(p, [op[p] EXCEPT !.at = step, !.pid = v]) /\ UNCHANGED lock

GotoHolding(p, step, h) ==
    Become(p, [op[p] EXCEPT !.at = step, !.held = h]) /\ UNCHANGED lock

\* A mutant: continue with the record as it was before the transaction.
GotoWithStaleCopy(p, step) == Goto(p, step)

\* Continue with the record the transaction just returned.
GotoCommitted(p, step) ==
    /\ Become(p, [op[p] EXCEPT !.at = step, !.st = rec'[op[p].id].state,
                               !.gen = rec'[op[p].id].gen])
    /\ UNCHANGED lock

\* Stop as a step of restore hands back to restore, any other stop returns.
StopReturns(p) ==
    IF op[p].kind = "restore"
    THEN Become(p, [op[p] EXCEPT !.at = "relock", !.pid = NoPid]) /\ ReleaseLock(p)
    ELSE Return(p)

\* stopProcessGeneration: the Starting generation that process.json carries.
ProcessGeneration(st, g) ==
    CASE st = "starting" -> g
      [] st \in {"running", "error"} -> g - 1
      [] st = "stopping" -> g - 2
      [] OTHER -> g

\* networkProvider: a record without NICs and without a setup has no provider.
HasNetwork(p) == op[p].held \/ setup[op[p].id] \in {"pending", "published"}

\* The network of a sandbox once its provider has deleted it, if it has one.
Released(p) == IF HasNetwork(p) THEN [net EXCEPT ![op[p].id] = "none"] ELSE net

\* Only a stored setup is quiesced or recovered; without NICs it may be empty.
Quiesced(i) ==
    [net EXCEPT ![i] = IF @ = "none" \/ setup[i] # "published" THEN @ ELSE "down"]
Recovered(i) ==
    [net EXCEPT ![i] = IF @ = "none" \/ setup[i] # "published" THEN @ ELSE "up"]

Request == requests < MaxRequests /\ requests' = requests + 1 /\ UNCHANGED <<issued, faults>>

-----------------------------------------------------------------------------
(* Issuing an operation, and the two-resolve lock protocol.                  *)

\* First resolve: only selects the ID whose lock to wait for.
Issue(p) ==
    /\ At(p, "idle")
    /\ Request
    /\ \E k \in {"start", "stop", "remove"} \cap Kinds, ref \in Names \cup Ids :
        /\ Resolve(ref) # NoId
        /\ Become(p, [Idle EXCEPT !.at = "lock", !.kind = k,
                                                !.id = Resolve(ref)])
    /\ UNCHANGED <<catalogVars, driverVars, lock, hostVars>>

\* Second resolve, under the lock, by the ID's string form.
AcquireLock(p) ==
    /\ At(p, "lock")
    /\ lock[Target(p)] = NoProc
    /\ LET i == Resolve(Target(p)) IN
        IF i = NoId
        THEN Return(p)
        ELSE /\ lock' = [lock EXCEPT ![Target(p)] = p]
             /\ Become(p, [op[p] EXCEPT !.at = "locked", !.id = i,
                                        !.st = rec[i].state, !.gen = rec[i].gen])
    /\ NoFault
    /\ UNCHANGED <<catalogVars, driverVars, hostVars>>

-----------------------------------------------------------------------------
(* Create: reserve, network, disk, commit; compensation on any failure.      *)

\* newID, the lock of the fresh ID, and the reservation under the image guard.
IssueCreate(p) ==
    /\ At(p, "idle") /\ "create" \in Kinds
    /\ requests < MaxRequests
    /\ \E i \in Ids \ issued, n \in Names, s \in Policies :
        /\ lock[i] = NoProc
        /\ Reserve(i, n, s)
        /\ lock' = [lock EXCEPT ![i] = p]
        /\ Become(p, [Idle EXCEPT !.at = "createNetwork", !.kind = "create",
                                        !.id = i, !.st = "creating", !.gen = 1])
        /\ issued' = issued \cup {i}
    /\ requests' = requests + 1
    /\ UNCHANGED <<driverVars, hostVars, faults>>

\* With NICs, Prepare and Add.  Without, a provider that can hotplug still
\* prepares a namespace, a bridge a setup without one; any other does nothing.
CreateNetwork(p) ==
    /\ At(p, "createNetwork")
    /\ \/ /\ NoFault
          /\ net' = [net EXCEPT ![Target(p)] = "up"]
          /\ GotoHolding(p, "createDisk", TRUE)
       \/ /\ NoFault /\ setup[Target(p)] \in {"offline", "named"}
          /\ \E h \in BOOLEAN : GotoHolding(p, "createDisk", h)
          /\ UNCHANGED net
       \/ /\ Fault
          /\ net' \in {net, [net EXCEPT ![Target(p)] = "up"]}
          /\ Goto(p, "compensate")
    /\ UNCHANGED <<catalogVars, driverVars, disk>>

CreateDisk(p) ==
    /\ At(p, "createDisk")
    /\ \/ /\ NoFault
          /\ disk' = [disk EXCEPT ![Target(p)] = TRUE]
          /\ Goto(p, "commitCreated")
       \/ /\ Fault
          /\ disk' \in {disk, [disk EXCEPT ![Target(p)] = TRUE]}
          /\ Goto(p, "compensate")
    /\ UNCHANGED <<catalogVars, driverVars, net>>

\* A setup in memory makes the record valid; a network name without one does not.
CommitCreated(p) ==
    /\ At(p, "commitCreated")
    /\ \/ /\ NoFault
          /\ MarkCreated(Target(p), op[p].gen,
                         IF op[p].held THEN "published" ELSE setup[Target(p)])
          /\ Return(p)
       \/ /\ Refused(p, {"creating"}, IF op[p].held THEN "none" ELSE "created")
          /\ Goto(p, "compensate")
    /\ UNCHANGED <<driverVars, hostVars>>

\* A mutant: the reservation is forgotten although cleanup failed.
CompensateAndForget(p) ==
    /\ At(p, "compensate")
    /\ \/ NoFault
       \/ Fault
    /\ disk' \in {disk, [disk EXCEPT ![Target(p)] = FALSE]}
    /\ net' = Released(p)
    /\ Goto(p, "forget")
    /\ UNCHANGED <<catalogVars, driverVars>>

\* Disk and network removal are both attempted; one failure retains the owner.
\* The network goes only if the record in memory has one.
Compensate(p) ==
    /\ At(p, "compensate")
    /\ \/ /\ NoFault
          /\ disk' = [disk EXCEPT ![Target(p)] = FALSE]
          /\ net' = Released(p)
          /\ Goto(p, "forget")
       \/ /\ Fault
          /\ disk' \in {disk, [disk EXCEPT ![Target(p)] = FALSE]}
          /\ net' \in {net, Released(p)}
          /\ Goto(p, "markError")
    /\ UNCHANGED <<catalogVars, driverVars>>

ForgetReservation(p) ==
    /\ At(p, "forget")
    /\ \/ /\ NoFault
          /\ Forget(Target(p), op[p].gen)
          /\ Return(p)
       \/ /\ Refused(p, {"creating"}, "none")
          /\ Goto(p, "markError")
    /\ UNCHANGED <<driverVars, hostVars>>

RetainError(p) ==
    /\ At(p, "markError")
    /\ \/ NoFault /\ MarkError(Target(p), op[p].gen)
       \/ Refused(p, {"creating"}, "error")
    /\ Return(p)
    /\ UNCHANGED <<driverVars, hostVars>>

-----------------------------------------------------------------------------
(* Start.                                                                    *)

\* A mutant: a residual VMM of an Error record does not stop the launch.
StartDecisionOverResidual(p, out, v) ==
    CASE out = "absent" -> Goto(p, "startCleanup")
      [] out = "found" /\ op[p].st = "starting" ->
            GotoWith(p, IF vm[v].ready THEN "commitObserved" ELSE "awaitReady", v)
      [] out = "found" /\ op[p].st = "error" -> Goto(p, "validate")
      [] OTHER -> Return(p)

\* Running with a live VMM is already done, and a live VMM behind any other
\* settled state is a conflict: both return.
StartDecision(p, out, v) ==
    CASE out = "absent" -> Goto(p, "startCleanup")
      [] out = "found" /\ op[p].st = "starting" ->
            GotoWith(p, IF vm[v].ready THEN "commitObserved" ELSE "awaitReady", v)
      [] OTHER -> Return(p)

\* recoverStart: what does the host run for this record?
RecoverStart(p) ==
    /\ AtOf(p, "locked", {"start"})
    /\ \/ /\ op[p].st \in {"creating", "stopping", "deleting"}
          /\ NoFault
          /\ Return(p)
          /\ UNCHANGED driverVars
       \/ /\ op[p].st \in Startable \cup {"starting", "running"}
          /\ NoFault
          /\ \E out \in {"absent", "found", "error"}, v \in Pids \cup {NoPid} :
              /\ Locate(Target(p),
                        IF op[p].st = "running" THEN op[p].gen - 1 ELSE op[p].gen, out, v)
              /\ StartDecision(p, out, v)
       \/ /\ Fault
          /\ Return(p)
          /\ UNCHANGED driverVars
    /\ UNCHANGED <<catalogVars, hostVars>>

StartCleanup(p) ==
    /\ At(p, "startCleanup")
    /\ \/ /\ NoFault
          /\ Cleanup(Target(p))
          /\ Goto(p, IF op[p].st = "running" THEN "markLost" ELSE "validate")
       \/ /\ \/ Fault
             \/ NoFault /\ ~Absent(Target(p))
          /\ Return(p)
          /\ UNCHANGED pfile
    /\ UNCHANGED <<catalogVars, vm, hostVars>>

\* A Running record whose VMM is gone passes through Stopped before a relaunch.
MarkLost(p) ==
    /\ At(p, "markLost")
    /\ \/ /\ NoFault
          /\ net' = Quiesced(Target(p))
          /\ MarkStopped(Target(p), op[p].gen, "running")
          /\ GotoCommitted(p, "validate")
       \/ /\ Refused(p, {"running"}, "stopped")
          /\ net' \in {net, Quiesced(Target(p))}
          /\ Return(p)
    /\ UNCHANGED <<driverVars, disk>>

\* Disk recovery, host preflight, image and disk checks.  A failure here is
\* recorded (failStart) only when the record already is Starting.
Validate(p) ==
    /\ At(p, "validate")
    /\ \/ /\ NoFault /\ disk[Target(p)]
          /\ Goto(p, "beginStart")
       \/ /\ \/ Fault
             \/ NoFault /\ ~disk[Target(p)]
          /\ IF op[p].st = "starting" THEN Goto(p, "failCleanup") ELSE Return(p)
    /\ UNCHANGED <<catalogVars, driverVars, hostVars>>

CommitStarting(p) ==
    /\ At(p, "beginStart")
    /\ \/ /\ NoFault
          /\ BeginStart(Target(p), op[p].gen)
          /\ GotoCommitted(p, "recoverNetwork")
       \/ /\ Refused(p, Startable \cup {"starting"}, "starting")
          /\ Return(p)
    /\ UNCHANGED <<driverVars, hostVars>>

\* NICs without a stored setup: "sandbox network creation is incomplete".
RecoverNetwork(p) ==
    /\ At(p, "recoverNetwork")
    /\ \/ /\ NoFault /\ setup[Target(p)] # "pending"
          /\ net' = Recovered(Target(p))
          /\ Goto(p, IF op[p].kind = "restore" THEN "replaceDisks" ELSE "exec")
       \/ /\ NoFault /\ setup[Target(p)] = "pending"
          /\ Goto(p, "failCleanup")
          /\ UNCHANGED net
       \/ /\ Fault
          /\ Goto(p, "failCleanup")
          /\ net' \in {net, Recovered(Target(p))}
    /\ UNCHANGED <<catalogVars, driverVars, disk>>

\* A process identity nobody holds: PID, start ticks and boot ID never recur.
Fresh(v) ==
    /\ vm[v].id = NoId
    /\ \A i \in Ids : pfile[i].pid # v
    /\ \A q \in Procs : op[q].pid # v

ExecVMM(p) ==
    /\ At(p, "exec")
    /\ \/ /\ NoFault
          /\ \E v \in Pids : /\ Fresh(v)
                             /\ Exec(Target(p), op[p].gen, v)
                             /\ GotoWith(p, "persist", v)
       \/ /\ Fault
          /\ Goto(p, "failCleanup")
          /\ UNCHANGED vm
    /\ UNCHANGED <<catalogVars, pfile, hostVars>>

\* captureProcess, then WriteProcess.  A failed capture kills the child
\* directly; a failed write may leave either no file or the complete one.
PersistIdentity(p) ==
    /\ At(p, "persist")
    /\ \/ /\ NoFault
          /\ WriteProcess(Target(p), op[p].pid, op[p].gen)
          /\ Goto(p, "awaitReady")
          /\ UNCHANGED vm
       \/ /\ Fault
          /\ Terminate(op[p].pid)
          /\ GotoWith(p, "failCleanup", NoPid)
          /\ UNCHANGED pfile
       \/ /\ Fault
          /\ \/ WriteProcess(Target(p), op[p].pid, op[p].gen)
             \/ UNCHANGED pfile
          /\ Goto(p, "failCleanup")
          /\ UNCHANGED vm
    /\ UNCHANGED <<catalogVars, hostVars>>

\* WaitReady polls Observe until the exact process reports Running.
AwaitReady(p) ==
    /\ At(p, "awaitReady")
    /\ \/ /\ NoFault
          /\ \E out \in {"absent", "found", "error"}, v \in Pids \cup {NoPid} :
              /\ Locate(Target(p), op[p].gen, out, v)
              /\ out = "found" => vm[v].ready
              /\ Goto(p, IF v = op[p].pid THEN "commitRunning" ELSE "failCleanup")
       \/ /\ Fault
          /\ Goto(p, "failCleanup")
          /\ UNCHANGED driverVars
    /\ UNCHANGED <<catalogVars, hostVars>>

\* A process this call launched or waited for is aborted when the commit fails;
\* one that was merely observed running is left to the next pass.
CommitRunning(p) ==
    /\ op[p].at \in {"commitRunning", "commitObserved"}
    /\ \/ /\ NoFault
          /\ MarkRunning(Target(p), op[p].gen)
          /\ Return(p)
       \/ /\ Refused(p, {"starting"}, "running")
          /\ IF At(p, "commitRunning") THEN Goto(p, "failCleanup") ELSE Return(p)
    /\ UNCHANGED <<driverVars, hostVars>>

\* failStart, host side: Abort the known process, or Cleanup without one, then
\* quiesce the network; none of the results stops the next step.  A failing
\* Launch aborts the same process once more before: that attempt is this one.
FailCleanup(p) ==
    /\ At(p, "failCleanup")
    /\ \/ /\ NoFault /\ op[p].pid # NoPid
          /\ Terminate(op[p].pid)
          /\ IF Live(Target(p)) \subseteq {op[p].pid}
             THEN pfile' = [pfile EXCEPT ![Target(p)] = NoFile]
             ELSE UNCHANGED pfile
       \/ /\ Fault /\ op[p].pid # NoPid
          /\ vm' \in {vm, [vm EXCEPT ![op[p].pid] = NoVm]}
          /\ UNCHANGED pfile
       \/ /\ NoFault /\ op[p].pid = NoPid
          /\ Cleanup(Target(p))
          /\ UNCHANGED vm
       \/ /\ op[p].pid = NoPid
          /\ \/ Fault
             \/ NoFault /\ ~Absent(Target(p))
          /\ UNCHANGED driverVars
    /\ net' \in {net, Quiesced(Target(p))}
    /\ Goto(p, "failCommit")
    /\ UNCHANGED <<catalogVars, disk>>

FailCommit(p) ==
    /\ At(p, "failCommit")
    /\ \/ NoFault /\ MarkStartError(Target(p), op[p].gen)
       \/ Refused(p, {"starting"}, "error")
    /\ Return(p)
    /\ UNCHANGED <<driverVars, hostVars>>

-----------------------------------------------------------------------------
(* Stop, also run by restore.                                                *)

\* A mutant: a Stopping record is taken to be as good as Stopped.
StopDecisionTrustsStopping(p, out, v) ==
    CASE out = "absent" -> Goto(p, "stopCleanup")
      [] out = "found" /\ op[p].st = "stopping" -> Goto(p, "commitStopped")
      [] out = "found" -> GotoWith(p, IF op[p].st = "running" THEN "beginStop" ELSE "stopVMM", v)
      [] OTHER -> Return(p)

StopDecision(p, out, v) ==
    CASE out = "absent" -> Goto(p, "stopCleanup")
      [] out = "found" -> GotoWith(p, IF op[p].st = "running" THEN "beginStop" ELSE "stopVMM", v)
      [] OTHER -> Return(p)

InspectStop(p) ==
    /\ AtOf(p, "locked", {"stop", "restore"})
    /\ \/ /\ op[p].st \in {"creating", "deleting"}
          /\ NoFault
          /\ Return(p)
          /\ UNCHANGED driverVars
       \/ /\ op[p].st \in {"created", "stopped"}
          /\ NoFault
          /\ Goto(p, "stopCleanup")
          /\ UNCHANGED driverVars
       \/ /\ op[p].st \in MayOwnVMM \cup {"error"}
          /\ NoFault
          /\ \E out \in {"absent", "found", "error"}, v \in Pids \cup {NoPid} :
              /\ Locate(Target(p), ProcessGeneration(op[p].st, op[p].gen), out, v)
              /\ StopDecision(p, out, v)
       \/ /\ Fault
          /\ Return(p)
          /\ UNCHANGED driverVars
    /\ UNCHANGED <<catalogVars, hostVars>>

CommitStopping(p) ==
    /\ At(p, "beginStop")
    /\ \/ /\ NoFault
          /\ BeginStop(Target(p), op[p].gen)
          /\ GotoCommitted(p, "stopVMM")
       \/ /\ Refused(p, {"running", "stopping"}, "stopping")
          /\ Return(p)
    /\ UNCHANGED <<driverVars, hostVars>>

\* Guest shutdown, TERM, KILL: returns once the identity is gone, or fails.
StopVMM(p) ==
    /\ At(p, "stopVMM")
    /\ \/ /\ NoFault
          /\ Terminate(op[p].pid)
          /\ Goto(p, "stopCleanup")
       \/ /\ Fault
          /\ Return(p)
          /\ UNCHANGED vm
    /\ UNCHANGED <<catalogVars, pfile, hostVars>>

\* Runtime cleanup, then the network.  Only a record that may own a VMM still
\* has a transition to commit; Error keeps its diagnostic.
StopCleanup(p) ==
    /\ At(p, "stopCleanup")
    /\ \/ /\ NoFault
          /\ Cleanup(Target(p))
          /\ net' = Quiesced(Target(p))
          /\ IF op[p].st \in MayOwnVMM THEN Goto(p, "commitStopped") ELSE StopReturns(p)
       \/ /\ NoFault /\ ~Absent(Target(p))
          /\ Return(p)
          /\ UNCHANGED <<pfile, net>>
       \/ /\ Fault
          /\ \/ Cleanup(Target(p))
             \/ UNCHANGED pfile
          /\ Return(p)
          /\ UNCHANGED net
    /\ UNCHANGED <<catalogVars, vm, disk>>

CommitStopped(p) ==
    /\ At(p, "commitStopped")
    /\ \/ /\ NoFault
          /\ MarkStopped(Target(p), op[p].gen, op[p].st)
          /\ StopReturns(p)
       \/ /\ Refused(p, {op[p].st}, "stopped")
          /\ Return(p)
    /\ UNCHANGED <<driverVars, hostVars>>

-----------------------------------------------------------------------------
(* Remove.                                                                   *)

CommitDeleting(p) ==
    /\ AtOf(p, "locked", {"remove"})
    /\ \/ /\ NoFault
          /\ BeginDelete(Target(p), op[p].gen)
          /\ GotoCommitted(p, "release")
       \/ /\ Refused(p, Removable \cup {"deleting"}, "deleting")
          /\ Return(p)
    /\ UNCHANGED <<driverVars, hostVars>>

\* Disk, then the network if the record has one, then logs; the first failure
\* returns.
ReleaseResources(p) ==
    /\ At(p, "release")
    /\ \/ /\ NoFault
          /\ disk' = [disk EXCEPT ![Target(p)] = FALSE]
          /\ net' = Released(p)
          /\ Goto(p, "finalize")
       \/ /\ Fault
          /\ \/ UNCHANGED hostVars
             \/ disk' = [disk EXCEPT ![Target(p)] = FALSE] /\ UNCHANGED net
             \/ disk' = [disk EXCEPT ![Target(p)] = FALSE] /\ net' = Released(p)
          /\ Return(p)
    /\ UNCHANGED <<catalogVars, driverVars>>

CommitDeleted(p) ==
    /\ At(p, "finalize")
    /\ \/ NoFault /\ FinalizeDelete(Target(p), op[p].gen)
       \/ Refused(p, {"deleting"}, "none")
    /\ Return(p)
    /\ UNCHANGED <<driverVars, hostVars>>

-----------------------------------------------------------------------------
(* Restore a snapshot into an existing sandbox.                              *)

\* The record resolved here, before any lock, decides whether to stop first.
IssueRestore(p) ==
    /\ At(p, "idle") /\ "restore" \in Kinds
    /\ Request
    /\ \E ref \in Names \cup Ids :
        /\ Resolve(ref) # NoId
        /\ Become(p, [Idle EXCEPT !.at = "restoreDecide", !.kind = "restore",
                        !.id = Resolve(ref), !.st = rec[Resolve(ref)].state])
    /\ UNCHANGED <<catalogVars, driverVars, lock, hostVars>>

RestoreDecide(p) ==
    /\ At(p, "restoreDecide")
    /\ \/ op[p].st \in MayOwnVMM \cup {"error"} /\ Goto(p, "lock")
       \/ op[p].st = "stopped" /\ Goto(p, "relock")
       \/ op[p].st \in {"creating", "created", "deleting"} /\ Return(p)
    /\ NoFault
    /\ UNCHANGED <<catalogVars, driverVars, hostVars>>

\* Lock again and resolve again; Stopped or Error goes on without looking for
\* a process.
RestoreRelock(p) ==
    /\ At(p, "relock")
    /\ lock[Target(p)] = NoProc
    /\ LET i == Resolve(Target(p))
           restorable == i # NoId /\ rec[i].state \in {"stopped", "error"}
       IN
        \/ /\ NoFault /\ restorable
           /\ lock' = [lock EXCEPT ![Target(p)] = p]
           /\ Become(p, [op[p] EXCEPT !.at = "beginStart", !.id = i,
                                      !.st = rec[i].state, !.gen = rec[i].gen])
        \/ /\ \/ Fault
              \/ NoFault /\ ~restorable
           /\ Return(p)
    /\ UNCHANGED <<catalogVars, driverVars, hostVars>>

ReplaceDisks(p) ==
    /\ At(p, "replaceDisks")
    /\ \/ NoFault /\ disk[Target(p)] /\ Goto(p, "exec")
       \/ /\ \/ Fault
             \/ NoFault /\ ~disk[Target(p)]
          /\ Goto(p, "failCleanup")
    /\ UNCHANGED <<catalogVars, driverVars, hostVars>>

-----------------------------------------------------------------------------
(* Status reads the catalog and the host without any lock.                   *)

IssueStatus(p) ==
    /\ At(p, "idle") /\ "status" \in Kinds
    /\ Request
    /\ \E i \in Ids :
        /\ rec[i].state \in MayOwnVMM
        /\ Become(p, [Idle EXCEPT !.at = "statusRead", !.kind = "status", !.id = i,
                                        !.st = rec[i].state, !.gen = rec[i].gen])
    /\ UNCHANGED <<catalogVars, driverVars, lock, hostVars>>

\* Locate: process.json missing and one process in the scope.
StatusRead(p) ==
    /\ At(p, "statusRead")
    /\ \/ /\ pfile[Target(p)] = NoFile
          /\ \E v \in Pids : Live(Target(p)) = {v} /\ GotoWith(p, "statusWrite", v)
       \/ /\ \/ pfile[Target(p)] # NoFile
             \/ \A v \in Pids : Live(Target(p)) # {v}
          /\ Return(p)
    /\ NoFault
    /\ UNCHANGED <<catalogVars, driverVars, hostVars>>

\* recoverProcess persists what it found under the generation Status read.
StatusWrite(p) ==
    /\ At(p, "statusWrite")
    /\ WriteProcess(Target(p), op[p].pid, ProcessGeneration(op[p].st, op[p].gen))
    /\ Return(p)
    /\ NoFault
    /\ UNCHANGED <<catalogVars, vm, hostVars>>

-----------------------------------------------------------------------------
(* Reconciliation and orphan collection.                                     *)

\* A busy lock is skipped; the record is resolved again under the lock.
IssueReconcile(p, i) ==
    /\ At(p, "idle") /\ "reconcile" \in Kinds
    /\ lock[i] = NoProc
    /\ Resolve(i) # NoId
    /\ lock' = [lock EXCEPT ![i] = p]
    /\ Become(p, [Idle EXCEPT !.at = "locked", !.kind = "reconcile",
                    !.id = Resolve(i), !.st = rec[Resolve(i)].state,
                    !.gen = rec[Resolve(i)].gen])
    /\ NoFault
    /\ UNCHANGED <<catalogVars, driverVars, hostVars>>

\* The lock is given up and Remove runs as an operation of its own.
ContinueAsRemove(p) ==
    /\ Become(p, [Idle EXCEPT !.at = "lock", !.kind = "remove", !.id = op[p].id])
    /\ ReleaseLock(p)

\* Two mutants: an unfinished stop is left alone; Running is stopped as well.
ReconcileLeavesStopping(p, out, v) ==
    CASE out = "found" /\ op[p].st = "starting" /\ vm[v].ready -> GotoWith(p, "commitObserved", v)
      [] out = "absent" -> Goto(p, "stopCleanup")
      [] OTHER -> Return(p)

ReconcileStopsRunning(p, out, v) ==
    CASE out = "found" /\ op[p].st = "starting" /\ vm[v].ready -> GotoWith(p, "commitObserved", v)
      [] out = "found" /\ op[p].st \in {"running", "stopping"} -> GotoWith(p, "stopVMM", v)
      [] out = "absent" -> Goto(p, "stopCleanup")
      [] OTHER -> Return(p)

ReconcileDecision(p, out, v) ==
    CASE out = "found" /\ op[p].st = "starting" /\ vm[v].ready -> GotoWith(p, "commitObserved", v)
      [] out = "found" /\ op[p].st = "stopping" -> GotoWith(p, "stopVMM", v)
      [] out = "absent" -> Goto(p, "stopCleanup")
      [] OTHER -> Return(p)

Reconcile(p) ==
    /\ AtOf(p, "locked", {"reconcile"})
    /\ \/ /\ op[p].st = "creating"
          /\ NoFault
          /\ BeginDelete(Target(p), op[p].gen)
          /\ ContinueAsRemove(p)
          /\ UNCHANGED driverVars
       \/ /\ op[p].st = "deleting"
          /\ NoFault
          /\ ContinueAsRemove(p)
          /\ UNCHANGED <<catalogVars, driverVars>>
       \/ /\ op[p].st \in MayOwnVMM
          /\ NoFault
          /\ \E out \in {"absent", "found", "error"}, v \in Pids \cup {NoPid} :
              /\ Locate(Target(p), ProcessGeneration(op[p].st, op[p].gen), out, v)
              /\ ReconcileDecision(p, out, v)
          /\ UNCHANGED catalogVars
       \/ /\ op[p].st \in Startable
          /\ NoFault
          /\ Return(p)
          /\ UNCHANGED <<catalogVars, driverVars>>
       \/ /\ Refused(p, States \ {"none"},
                     IF op[p].st = "creating" THEN "deleting" ELSE "none")
          /\ Return(p)
          /\ UNCHANGED driverVars
    /\ UNCHANGED hostVars

\* A mutant: the collector trusts its directory scan and does not resolve.
CollectUnresolved(p, i) ==
    /\ At(p, "idle") /\ "gc" \in Kinds
    /\ i \in issued
    /\ lock[i] = NoProc
    /\ Cleanup(i)
    /\ net' = [net EXCEPT ![i] = "none"]
    /\ disk' = [disk EXCEPT ![i] = FALSE]
    /\ NoFault
    /\ UNCHANGED <<catalogVars, vm, lock, op>>

\* collectOrphanSandbox: artifacts of an ID the catalog does not know, never
\* while a process of that ID lives; runtime, network, disk, first failure ends it.
CollectOrphan(p, i) ==
    /\ At(p, "idle") /\ "gc" \in Kinds
    /\ i \in issued
    /\ lock[i] = NoProc
    /\ Resolve(i) = NoId
    /\ pfile[i] # NoFile \/ disk[i] \/ net[i] # "none"
    /\ \/ /\ NoFault
          /\ Cleanup(i)
          /\ net' = [net EXCEPT ![i] = "none"]
          /\ disk' = [disk EXCEPT ![i] = FALSE]
       \/ /\ Fault
          /\ Cleanup(i)
          /\ net' \in {net, [net EXCEPT ![i] = "none"]}
          /\ UNCHANGED disk
    /\ UNCHANGED <<catalogVars, vm, lock, op>>

-----------------------------------------------------------------------------
(* The host: VMMs boot and exit, operating processes and the host crash.     *)

VmReady(v) ==
    /\ BecomeReady(v)
    /\ UNCHANGED <<catalogVars, pfile, lock, op, hostVars, budgetVars>>

VmExit(v) ==
    /\ vm[v].id # NoId
    /\ Terminate(v)
    /\ UNCHANGED <<catalogVars, pfile, lock, op, hostVars, budgetVars>>

\* The kernel drops the flock of a dead process; its VMMs are detached.
Crash(p) ==
    /\ ~At(p, "idle")
    /\ Fault
    /\ Return(p)
    /\ UNCHANGED <<catalogVars, driverVars, hostVars>>

\* Runtime state may or may not survive the boot, depending on the run root.
HostReboot ==
    /\ "reboot" \in Kinds
    /\ Fault
    /\ vm' = [v \in Pids |-> NoVm]
    /\ pfile' \in {pfile, [i \in Ids |-> NoFile]}
    /\ lock' = [i \in Ids |-> NoProc]
    /\ op' = [p \in Procs |-> Idle]
    /\ net' = [i \in Ids |-> IF net[i] = "none" THEN "none" ELSE "down"]
    /\ UNCHANGED <<catalogVars, disk>>

Issues(p) ==
    \/ Issue(p) \/ IssueCreate(p) \/ IssueRestore(p) \/ IssueStatus(p)
    \/ \E i \in Ids : IssueReconcile(p, i) \/ CollectOrphan(p, i)

Steps(p) ==
    \/ AcquireLock(p)
    \/ CreateNetwork(p) \/ CreateDisk(p) \/ CommitCreated(p)
    \/ Compensate(p) \/ ForgetReservation(p) \/ RetainError(p)
    \/ RecoverStart(p) \/ StartCleanup(p) \/ MarkLost(p) \/ Validate(p)
    \/ CommitStarting(p) \/ RecoverNetwork(p) \/ ExecVMM(p)
    \/ PersistIdentity(p) \/ AwaitReady(p) \/ CommitRunning(p)
    \/ FailCleanup(p) \/ FailCommit(p)
    \/ InspectStop(p) \/ CommitStopping(p) \/ StopVMM(p) \/ StopCleanup(p)
    \/ CommitStopped(p)
    \/ CommitDeleting(p) \/ ReleaseResources(p) \/ CommitDeleted(p)
    \/ RestoreDecide(p) \/ RestoreRelock(p) \/ ReplaceDisks(p)
    \/ StatusRead(p) \/ StatusWrite(p)
    \/ Reconcile(p)

Next ==
    \/ \E p \in Procs : Issues(p) \/ Steps(p) \/ Crash(p)
    \/ \E v \in Pids : VmReady(v) \/ VmExit(v)
    \/ HostReboot

Spec == Init /\ [][Next]_vars

\* Operations run to completion, a booting VMM gets ready or exits, and the
\* supervisor's ticker reconciles every sandbox over and over.
Fairness ==
    /\ \A p \in Procs : WF_vars(Steps(p))
    /\ \A v \in Pids : WF_vars(VmReady(v))
    /\ \A i \in Ids : SF_vars(\E p \in Procs : IssueReconcile(p, i))

FairSpec == Spec /\ Fairness

-----------------------------------------------------------------------------
(* Safety.                                                                   *)

\* Stop "commits Stopped only after process absence and cleanup are proven":
\* no interleaving of stop, start, reconcile, crash and exit leaves a VMM
\* running behind a record that says nothing runs.
StoppedMeansAbsent ==
    \A i \in Ids : rec[i].state \in {"creating", "created", "stopped"} => Absent(i)

\* Two VMMs never share the writable disks of one sandbox.
OneVMM ==
    \A i \in Ids : \A v, w \in Live(i) : v = w

\* A VMM behind a Starting, Running, Stopping or Error record was launched by
\* exactly the Starting generation which that record's generation implies.
LaunchFence ==
    \A v \in Pids :
        LET r == rec[vm[v].id] IN
        vm[v].id \in Ids /\ r.state \in MayOwnVMM \cup {"error"}
            => vm[v].gen = ProcessGeneration(r.state, r.gen)

\* Whatever start, stop, reconciliation, crash and exit do to each other, a
\* sandbox has at most one VMM, and it is the one its record's generation names.
OneFencedVMM == OneVMM /\ LaunchFence

\* Whatever crashed in between, the VMM of a Starting, Running or Stopping
\* record can be located by the next stop or reconciliation: it is alone in
\* its scope and process.json is missing or names it and its generation.
ManagedVMMIsLocatable ==
    \A i \in Ids :
        rec[i].state \in MayOwnVMM /\ ~Absent(i) =>
            \E v \in Pids :
                Located(i, ProcessGeneration(rec[i].state, rec[i].gen), "found", v)

\* The two-resolve protocol: an operation past its lock step holds the lock of
\* the very sandbox it works on.
OperationHoldsLock ==
    \A p \in Procs : op[p].at \in LockedSteps => lock[op[p].id] = p

\* Under that lock the operation's copy of the record stays the stored one, so
\* the generation fence never refuses a transaction of a lock holder.
CopyIsCurrent ==
    \A p \in Procs : op[p].at \in LockedSteps =>
        rec[op[p].id].state = op[p].st /\ rec[op[p].id].gen = op[p].gen

\* The states of the record for which each step under the lock was written.
StatesAt(step) ==
    CASE step = "locked" -> States \ {"none"}
      [] step \in {"createNetwork", "createDisk", "commitCreated", "compensate",
                   "forget", "markError"} -> {"creating"}
      [] step = "startCleanup" -> Startable \cup {"starting", "running"}
      [] step \in {"validate", "beginStart"} -> Startable \cup {"starting"}
      [] step \in {"markLost", "beginStop"} -> {"running"}
      [] step = "stopVMM" -> {"starting", "stopping", "error"}
      [] step = "stopCleanup" -> Startable \cup MayOwnVMM
      [] step = "commitStopped" -> MayOwnVMM
      [] step \in {"release", "finalize"} -> {"deleting"}
      [] OTHER -> {"starting"}

\* No step runs on a record in a state its handler was not written for: a
\* launch only on Starting, a kill never on Running, a release only on Deleting.
StepMatchesState ==
    \A p \in Procs : op[p].at \in LockedSteps => op[p].st \in StatesAt(op[p].at)

\* The absence that cleanup proved still holds when Stopped is committed.
AbsenceProvenHolds ==
    \A p \in Procs : op[p].at \in {"markLost", "commitStopped"} => Absent(op[p].id)

\* All that the sandbox lock is taken for: between its lock step and its last
\* transaction an operation works on the record it locked, in a state its
\* handler was written for, and nothing it established is undone under it.
LockProtectsWork ==
    /\ OperationHoldsLock
    /\ CopyIsCurrent
    /\ StepMatchesState
    /\ AbsenceProvenHolds

\* The name index and the records point at each other.
NameIndexConsistent ==
    /\ \A i \in Ids : Exists(i) => names[rec[i].name] = i
    /\ \A n \in Names : names[n] # NoId => rec[names[n]].name = n

\* No disk outlives its record, and no network whose NICs or setup the record
\* shows: the reservation precedes the first allocation, and the record goes
\* only after the last release, through any compensation, crash and retry.
ResourcesHaveOwner ==
    \A i \in Ids :
        disk[i] \/ (net[i] # "none" /\ setup[i] \in {"pending", "published"}) => Exists(i)

\* Neither compensation, removal nor the collector takes the disk from a
\* record a client can still start or that may own a VMM.
UsableHasDisk ==
    \A i \in Ids :
        rec[i].state \in {"created", "stopped"} \cup MayOwnVMM => disk[i]

\* An operation ends a VMM only under a committed intent: never while the
\* record says Running.  Reconciliation in particular stops no Running VM.
KillNeedsIntent ==
    [][\A v \in Pids, p \in Procs :
        /\ vm[v].id # NoId /\ vm'[v].id = NoId
        /\ op'[p] # op[p] /\ op'[p] # Idle
        => rec[vm[v].id].state \in {"starting", "stopping", "error"}]_vars

\* The lifecycle implements the contract its clients rely on.
Contract == INSTANCE SandboxContract WITH
    Sandboxes <- Ids,
    state <- [i \in Ids |-> rec[i].state],
    gen <- [i \in Ids |-> rec[i].gen],
    on <- [i \in Ids |-> ~Absent(i)]

ImplementsContract == Contract!ContractSpec

\* What makes the lock, the copy and the meaning of Stopped inductive: a record
\* or a VMM exists only under an ID that newID has drawn.
OnlyIssuedIds ==
    \A i \in Ids : i \notin issued => ~Exists(i) /\ Absent(i)

LifecycleInv ==
    /\ TypeOK
    /\ OperationHoldsLock
    /\ CopyIsCurrent
    /\ StepMatchesState
    /\ AbsenceProvenHolds
    /\ OnlyIssuedIds
    /\ StoppedMeansAbsent

-----------------------------------------------------------------------------
(* Liveness.                                                                 *)

\* Interrupted work does not stay interrupted: once failures cease, the
\* reconciliation pass drives every transitional record to a settled one.
TransitionsSettle ==
    \A i \in Ids :
        rec[i].state \in {"creating", "starting", "stopping", "deleting"}
            ~> rec[i].state \notin {"creating", "starting", "stopping", "deleting"}

\* A removal that was committed ends with the name free again.
DeletionCompletes ==
    \A i \in Ids : rec[i].state = "deleting" ~> rec[i].state = "none"

\* What a crash or a failure interrupted is finished or given up, and a
\* removal is only ever finished.
InterruptedWorkSettles == TransitionsSettle /\ DeletionCompletes

-----------------------------------------------------------------------------
(* Promises of the comments that the code does not keep in every run.        *)

\* "retains an Error record so the next start or removal has an explicit
\* owner": every VMM on the host belongs to a record.
VmmHasOwner ==
    \A v \in Pids : vm[v].id # NoId => Exists(vm[v].id)

\* "Generation is the Starting catalog generation that launched the process":
\* process.json of a Running sandbox carries its VMM's launch generation.
StampIsLaunchGeneration ==
    \A i \in Ids : rec[i].state = "running" =>
        \A v \in Live(i) : pfile[i].pid = v => pfile[i].gen = vm[v].gen

\* compensate "removes every potentially owned resource before forgetting the
\* Creating reservation": no host resource is left without a record.
EveryResourceHasOwner ==
    \A i \in Ids : disk[i] \/ net[i] # "none" => Exists(i)

=============================================================================
