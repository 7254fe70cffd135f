---------------------------- MODULE SandboxProofs ----------------------------
(***************************************************************************)
(* The sandbox lifecycle for any number of sandboxes, operations, faults   *)
(* and crashes.  First type correctness, the lock protocol, the currency   *)
(* of an operation's copy of its record, the meaning of Stopped, and the   *)
(* lifecycle as an implementation of SandboxContract.  Then who owns what: *)
(* names and records point at each other, every disk and network has a     *)
(* record, a usable record has its disk, and a VMM is fenced and found.    *)
(***************************************************************************)
EXTENDS SandboxLifecycle, TLAPS

USE Zenon    \* unless a leaf names another prover

-----------------------------------------------------------------------------
(* Type correctness of the sandbox lifecycle: first what the vocabulary of  *)
(* the steps does to the types, then each variable over all the steps of an *)
(* operation, then issuing, crashes and the host, then the theorem.         *)

\* A reference resolves to a stored sandbox or to nothing.
LEMMA ResolveType ==
    ASSUME CatalogTypeOK, NEW ref, Resolve(ref) # NoId
    PROVE  Resolve(ref) \in Ids /\ rec[Resolve(ref)] \in Record
BY DEF CatalogTypeOK, Resolve

\* The generation a process must carry is an integer, whatever the state.
LEMMA GenerationType ==
    ASSUME NEW st \in States, NEW g \in Nat
    PROVE  ProcessGeneration(st, g) \in Int
BY SMTT(30) DEF ProcessGeneration, States

\* An idle slot is a well-formed operation.
LEMMA IdleType == Idle \in Op /\ Idle.at = "idle"
BY DEF Idle, Op, LockedSteps, UnlockedSteps, OpKinds, States

\* Replacing one operation by a well-formed one touches no other.
LEMMA BecomeType ==
    ASSUME OperationTypeOK, NEW p \in Procs, NEW o \in Op,
           o.at # "idle" => o.id \in Ids, Become(p, o)
    PROVE  /\ op' \in [Procs -> Op]
           /\ \A q \in Procs : op'[q].at # "idle" => op'[q].id \in Ids
           /\ op'[p] = o
           /\ \A q \in Procs : q # p => op'[q] = op[q]
BY DEF OperationTypeOK, Become

\* The deferred unlock keeps the lock table well formed.
LEMMA ReleaseType ==
    ASSUME OperationTypeOK, NEW p \in Procs, ReleaseLock(p)
    PROVE  lock' \in [Ids -> Procs \cup {NoProc}]
BY DEF OperationTypeOK, ReleaseLock

\* Return frees the slot and its locks.
LEMMA ReturnType ==
    ASSUME OperationTypeOK, NEW p \in Procs, Return(p)
    PROVE  OperationTypeOK'
BY IdleType, BecomeType, ReleaseType DEF OperationTypeOK, Return

\* Going to another step keeps the target.
LEMMA GotoType ==
    ASSUME OperationTypeOK, NEW p \in Procs, op[p].at # "idle",
           NEW step \in LockedSteps \cup UnlockedSteps, Goto(p, step)
    PROVE  OperationTypeOK'
<1>1. [op[p] EXCEPT !.at = step] \in Op /\ [op[p] EXCEPT !.at = step].id \in Ids
  BY DEF OperationTypeOK, Op
<1> QED
  BY <1>1, BecomeType DEF OperationTypeOK, Goto

\* So does going there with a process identity.
LEMMA GotoWithType ==
    ASSUME OperationTypeOK, NEW p \in Procs, op[p].at # "idle",
           NEW step \in LockedSteps \cup UnlockedSteps,
           NEW v \in Pids \cup {NoPid}, GotoWith(p, step, v)
    PROVE  OperationTypeOK'
<1>1. /\ [op[p] EXCEPT !.at = step, !.pid = v] \in Op
      /\ [op[p] EXCEPT !.at = step, !.pid = v].id \in Ids
  BY DEF OperationTypeOK, Op
<1> QED
  BY <1>1, BecomeType DEF OperationTypeOK, GotoWith

\* So does going there with or without a network setup in memory.
LEMMA GotoHoldingType ==
    ASSUME OperationTypeOK, NEW p \in Procs, op[p].at # "idle",
           NEW step \in LockedSteps \cup UnlockedSteps,
           NEW h \in BOOLEAN, GotoHolding(p, step, h)
    PROVE  OperationTypeOK'
<1>1. /\ [op[p] EXCEPT !.at = step, !.held = h] \in Op
      /\ [op[p] EXCEPT !.at = step, !.held = h].id \in Ids
  BY DEF OperationTypeOK, Op
<1> QED
  BY <1>1, BecomeType DEF OperationTypeOK, GotoHolding

\* So does continuing with the record the transaction returned.
LEMMA GotoCommittedType ==
    ASSUME OperationTypeOK, CatalogTypeOK', NEW p \in Procs, op[p].at # "idle",
           NEW step \in LockedSteps \cup UnlockedSteps, GotoCommitted(p, step)
    PROVE  OperationTypeOK'
<1> DEFINE o == [op[p] EXCEPT !.at = step, !.st = rec'[op[p].id].state,
                              !.gen = rec'[op[p].id].gen]
<1>1. op[p] \in Op /\ op[p].id \in Ids
  BY DEF OperationTypeOK
<1>2. rec'[op[p].id] \in Record
  BY <1>1 DEF CatalogTypeOK
<1>3. o \in Op /\ o.id \in Ids
  BY <1>1, <1>2 DEF Op, Record
<1>4. Become(p, o) /\ lock' = lock
  BY DEF GotoCommitted
<1> QED
  BY <1>3, <1>4, BecomeType DEF OperationTypeOK

\* Stop hands back to restore or returns; both are well formed.
LEMMA StopReturnsType ==
    ASSUME OperationTypeOK, NEW p \in Procs, op[p].at # "idle", StopReturns(p)
    PROVE  OperationTypeOK'
<1> DEFINE o == [op[p] EXCEPT !.at = "relock", !.pid = NoPid]
<1>1. o \in Op /\ o.id \in Ids
  BY DEF OperationTypeOK, Op, UnlockedSteps
<1>2. CASE op[p].kind = "restore"
  BY <1>1, <1>2, BecomeType, ReleaseType DEF OperationTypeOK, StopReturns
<1>3. CASE op[p].kind # "restore"
  BY <1>3, ReturnType DEF StopReturns
<1> QED
  BY <1>2, <1>3

\* transition: state and generation move, the record stays a record.
LEMMA AdvanceType ==
    ASSUME CatalogTypeOK, NEW i \in Ids, NEW to \in States, Advance(i, to)
    PROVE  CatalogTypeOK'
<1>1. [state |-> to, gen |-> rec[i].gen + 1, name |-> rec[i].name] \in Record
  BY SMTT(30) DEF CatalogTypeOK, Record
<1> QED
  BY <1>1 DEF CatalogTypeOK, Advance

\* deleteRecord leaves an absent row and a free name.
LEMMA DeleteType ==
    ASSUME CatalogTypeOK, NEW i \in Ids, DeleteRecord(i)
    PROVE  CatalogTypeOK'
<1>1. NoRecord \in Record
  BY DEF NoRecord, Record, States
<1> QED
  BY <1>1 DEF CatalogTypeOK, DeleteRecord

\* Reserve writes a Creating record of generation 1 and binds its name.
LEMMA ReserveType ==
    ASSUME CatalogTypeOK, NEW i \in Ids, NEW n \in Names, NEW s, Reserve(i, n, s)
    PROVE  CatalogTypeOK'
<1>1. [state |-> "creating", gen |-> 1, name |-> n] \in Record
  BY DEF Record, States
<1> QED
  BY <1>1 DEF CatalogTypeOK, Reserve

\* WriteProcess stores an identity with its generation.
LEMMA WriteProcessType ==
    ASSUME DriverTypeOK, NEW i, NEW v \in Pids \cup {NoPid}, NEW g \in Int,
           WriteProcess(i, v, g)
    PROVE  pfile' \in [Ids -> ProcessFile]
<1>1. [pid |-> v, gen |-> g] \in ProcessFile
  BY DEF ProcessFile
<1> QED
  BY <1>1 DEF DriverTypeOK, WriteProcess

\* Locate rewrites process.json at most with what it found.
LEMMA LocateType ==
    ASSUME DriverTypeOK, NEW i, NEW g \in Int, NEW out, NEW v \in Pids \cup {NoPid},
           Locate(i, g, out, v)
    PROVE  DriverTypeOK'
BY WriteProcessType DEF DriverTypeOK, Locate

\* Cleanup drops process.json.
LEMMA CleanupType ==
    ASSUME DriverTypeOK, NEW i, Cleanup(i)
    PROVE  pfile' \in [Ids -> ProcessFile]
<1>1. NoFile \in ProcessFile
  BY SMTT(30) DEF NoFile, ProcessFile
<1> QED
  BY <1>1 DEF DriverTypeOK, Cleanup

\* A terminated identity names no VMM.
LEMMA TerminateType ==
    ASSUME DriverTypeOK, NEW v
    PROVE  [vm EXCEPT ![v] = NoVm] \in [Pids -> Vm]
<1>1. NoVm \in Vm
  BY DEF NoVm, Vm
<1> QED
  BY <1>1 DEF DriverTypeOK

\* A launched VMM carries its sandbox and its generation.
LEMMA ExecType ==
    ASSUME DriverTypeOK, NEW i \in Ids, NEW g \in Nat, NEW v, Exec(i, g, v)
    PROVE  vm' \in [Pids -> Vm]
<1>1. [id |-> i, gen |-> g, ready |-> FALSE] \in Vm
  BY DEF Vm
<1> QED
  BY <1>1 DEF DriverTypeOK, Exec

\* A VMM that becomes ready stays the same VMM.
LEMMA ReadyType ==
    ASSUME DriverTypeOK, NEW v \in Pids, BecomeReady(v)
    PROVE  vm' \in [Pids -> Vm]
<1>1. [id |-> vm[v].id, gen |-> vm[v].gen, ready |-> TRUE] \in Vm
  BY DEF DriverTypeOK, Vm
<1> QED
  BY <1>1 DEF DriverTypeOK, BecomeReady

\* Reconciliation that continues as Remove waits for the lock again.
LEMMA ContinueType ==
    ASSUME OperationTypeOK, NEW p \in Procs, op[p].at # "idle", ContinueAsRemove(p)
    PROVE  OperationTypeOK'
<1> DEFINE o == [Idle EXCEPT !.at = "lock", !.kind = "remove", !.id = op[p].id]
<1>1. o \in Op /\ o.id \in Ids
  BY DEF OperationTypeOK, Idle, Op, UnlockedSteps, OpKinds, States
<1> QED
  BY <1>1, BecomeType, ReleaseType DEF OperationTypeOK, ContinueAsRemove

\* The second resolve: the operation continues on the record it finds.
LEMMA LockedOnType ==
    ASSUME OperationTypeOK, CatalogTypeOK, NEW p \in Procs, op[p].at # "idle",
           NEW i \in Ids, NEW step \in LockedSteps,
           lock' = [lock EXCEPT ![op[p].id] = p],
           Become(p, [op[p] EXCEPT !.at = step, !.id = i,
                                   !.st = rec[i].state, !.gen = rec[i].gen])
    PROVE  OperationTypeOK'
<1> DEFINE o == [op[p] EXCEPT !.at = step, !.id = i, !.st = rec[i].state, !.gen = rec[i].gen]
<1>1. op[p] \in Op /\ rec[i] \in Record
  BY DEF OperationTypeOK, CatalogTypeOK
<1>2. o \in Op /\ o.id \in Ids
  BY <1>1 DEF Op, Record
<1> QED
  BY <1>2, BecomeType DEF OperationTypeOK

\* A step leaves the catalog alone or commits one transaction on its target.
LEMMA StepsCatalogType ==
    ASSUME TypeOK, NEW p \in Procs, Steps(p)
    PROVE  CatalogTypeOK'
<1>a. op[p].at # "idle" => op[p].id \in Ids
  BY DEF TypeOK, OperationTypeOK
<1>1. CASE \/ AcquireLock(p) \/ CreateNetwork(p) \/ CreateDisk(p) \/ Compensate(p)
              \/ RecoverStart(p) \/ StartCleanup(p) \/ Validate(p) \/ RecoverNetwork(p)
              \/ ExecVMM(p) \/ PersistIdentity(p) \/ AwaitReady(p) \/ FailCleanup(p)
              \/ InspectStop(p) \/ StopVMM(p) \/ StopCleanup(p) \/ ReleaseResources(p)
              \/ RestoreDecide(p) \/ RestoreRelock(p) \/ ReplaceDisks(p) \/ StatusRead(p)
              \/ StatusWrite(p)
  BY <1>1
  DEF AcquireLock, CreateNetwork, CreateDisk, Compensate, RecoverStart,
      StartCleanup, Validate, RecoverNetwork, ExecVMM, PersistIdentity,
      AwaitReady, FailCleanup, InspectStop, StopVMM, StopCleanup,
      ReleaseResources, RestoreDecide, RestoreRelock, ReplaceDisks,
      StatusRead, StatusWrite, TypeOK, CatalogTypeOK, catalogVars
<1>2. CASE \/ CommitCreated(p) \/ RetainError(p) \/ CommitRunning(p) \/ FailCommit(p)
  BY <1>2, <1>a, AdvanceType, DeleteType
  DEF CommitCreated, RetainError, CommitRunning, FailCommit, TypeOK,
      CatalogTypeOK, catalogVars, At, AtOf, Target, Refused, States,
      MarkCreated, MarkError, MarkRunning, MarkStartError, Move
<1>3. CASE \/ MarkLost(p) \/ CommitStopped(p)
  BY <1>3, <1>a, AdvanceType, DeleteType
  DEF MarkLost, CommitStopped, TypeOK, CatalogTypeOK, catalogVars, At, AtOf,
      Target, Refused, States, MarkStopped, Move
<1>4. CASE \/ ForgetReservation(p) \/ CommitDeleted(p)
  BY <1>4, <1>a, AdvanceType, DeleteType
  DEF ForgetReservation, CommitDeleted, TypeOK, CatalogTypeOK, catalogVars,
      At, AtOf, Target, Refused, States, Forget, FinalizeDelete
<1>5. CASE \/ CommitStarting(p) \/ CommitStopping(p)
  BY <1>5, <1>a, AdvanceType, DeleteType
  DEF CommitStarting, CommitStopping, TypeOK, CatalogTypeOK, catalogVars, At,
      AtOf, Target, Refused, States, BeginStart, BeginStop, Move
<1>6. CASE \/ CommitDeleting(p) \/ Reconcile(p)
  BY <1>6, <1>a, AdvanceType, DeleteType
  DEF CommitDeleting, Reconcile, TypeOK, CatalogTypeOK, catalogVars, At, AtOf,
      Target, Refused, States, BeginDelete, Move
<1> QED
  BY <1>1, <1>2, <1>3, <1>4, <1>5, <1>6 DEF Steps

\* MarkCreated stores a setup; no other step changes one.
LEMMA StepsSetupType ==
    ASSUME TypeOK, NEW p \in Procs, Steps(p)
    PROVE  SetupTypeOK'
<1>a. op[p].at # "idle" => op[p].id \in Ids
  BY DEF TypeOK, OperationTypeOK
<1>1. CASE \/ AcquireLock(p) \/ CreateNetwork(p) \/ CreateDisk(p) \/ Compensate(p)
              \/ RecoverStart(p) \/ StartCleanup(p) \/ Validate(p) \/ RecoverNetwork(p)
              \/ ExecVMM(p) \/ PersistIdentity(p) \/ AwaitReady(p) \/ FailCleanup(p)
              \/ InspectStop(p) \/ StopVMM(p) \/ StopCleanup(p) \/ ReleaseResources(p)
              \/ RestoreDecide(p) \/ RestoreRelock(p) \/ ReplaceDisks(p) \/ StatusRead(p)
              \/ StatusWrite(p)
  BY <1>1
  DEF AcquireLock, CreateNetwork, CreateDisk, Compensate, RecoverStart,
      StartCleanup, Validate, RecoverNetwork, ExecVMM, PersistIdentity,
      AwaitReady, FailCleanup, InspectStop, StopVMM, StopCleanup,
      ReleaseResources, RestoreDecide, RestoreRelock, ReplaceDisks,
      StatusRead, StatusWrite, TypeOK, SetupTypeOK, catalogVars
<1>2. CASE \/ RetainError(p) \/ CommitRunning(p) \/ FailCommit(p) \/ MarkLost(p)
              \/ CommitStopped(p) \/ ForgetReservation(p) \/ CommitDeleted(p)
  BY <1>2
  DEF RetainError, CommitRunning, FailCommit, MarkLost, CommitStopped,
      ForgetReservation, CommitDeleted, Refused, MarkError, MarkRunning,
      MarkStartError, MarkStopped, Forget, FinalizeDelete, DeleteRecord,
      TypeOK, SetupTypeOK, catalogVars, Move
<1>3. CASE \/ CommitStarting(p) \/ CommitStopping(p) \/ CommitDeleting(p) \/ Reconcile(p)
  BY <1>3
  DEF CommitStarting, CommitStopping, CommitDeleting, Reconcile, Refused,
      BeginStart, BeginStop, BeginDelete, TypeOK, SetupTypeOK, catalogVars, Move
<1>4. CASE CommitCreated(p)
  BY <1>4, <1>a
  DEF CommitCreated, MarkCreated, Refused, At, Target, Setups, TypeOK,
      SetupTypeOK, catalogVars
<1> QED
  BY <1>1, <1>2, <1>3, <1>4 DEF Steps

\* Whatever a step does to processes and process.json keeps their types.
LEMMA StepsDriverType ==
    ASSUME TypeOK, NEW p \in Procs, Steps(p)
    PROVE  DriverTypeOK'
<1>a. /\ op[p].at # "idle" => op[p].id \in Ids
      /\ op[p].gen \in Nat /\ op[p].gen \in Int /\ op[p].gen - 1 \in Int /\ op[p].st \in States
      /\ op[p].pid \in Pids \cup {NoPid}
  BY SMTT(30) DEF TypeOK, OperationTypeOK, Op
<1>b. vm \in [Pids -> Vm] /\ pfile \in [Ids -> ProcessFile]
  BY DEF TypeOK, DriverTypeOK
<1>c. ASSUME NEW g \in Int, NEW out, NEW v \in Pids \cup {NoPid}, Locate(Target(p), g, out, v)
      PROVE  DriverTypeOK'
  BY <1>c, LocateType DEF TypeOK
<1>1. CASE \/ AcquireLock(p) \/ CreateNetwork(p) \/ CreateDisk(p) \/ CommitCreated(p)
              \/ Compensate(p) \/ ForgetReservation(p) \/ RetainError(p) \/ MarkLost(p)
              \/ Validate(p) \/ CommitStarting(p) \/ RecoverNetwork(p) \/ CommitRunning(p)
              \/ FailCommit(p) \/ CommitStopping(p) \/ CommitStopped(p) \/ CommitDeleting(p)
              \/ ReleaseResources(p) \/ CommitDeleted(p) \/ RestoreDecide(p) \/ RestoreRelock(p)
              \/ ReplaceDisks(p) \/ StatusRead(p)
  BY <1>1
  DEF AcquireLock, CreateNetwork, CreateDisk, CommitCreated, Compensate,
      ForgetReservation, RetainError, MarkLost, Validate, CommitStarting,
      RecoverNetwork, CommitRunning, FailCommit, CommitStopping,
      CommitStopped, CommitDeleting, ReleaseResources, CommitDeleted,
      RestoreDecide, RestoreRelock, ReplaceDisks, StatusRead, TypeOK,
      DriverTypeOK, driverVars
<1>2. CASE \/ StartCleanup(p) \/ StopCleanup(p)
  BY <1>2, CleanupType
  DEF StartCleanup, StopCleanup, TypeOK, DriverTypeOK, driverVars, At, Target
<1>3. CASE ExecVMM(p)
  BY <1>3, <1>a, ExecType
  DEF ExecVMM, TypeOK, DriverTypeOK, driverVars, At, Target
<1>4. CASE PersistIdentity(p)
  BY <1>4, <1>a, WriteProcessType, TerminateType, <1>b
  DEF PersistIdentity, TypeOK, DriverTypeOK, driverVars, At, Target, Terminate
<1>5. CASE StatusWrite(p)
  BY <1>5, <1>a, WriteProcessType, GenerationType
  DEF StatusWrite, TypeOK, DriverTypeOK, driverVars, At, Target
<1>6. CASE StopVMM(p)
  BY SMTT(30), <1>6, TerminateType
  DEF StopVMM, TypeOK, DriverTypeOK, driverVars, At, Target, Terminate
<1>7. CASE FailCleanup(p)
  <2>1. vm' \in {vm, [vm EXCEPT ![op[p].pid] = NoVm]}
    BY <1>7 DEF FailCleanup, driverVars, Terminate
  <2>2. vm' \in [Pids -> Vm]
    BY SMTT(30), <2>1, <1>b, TerminateType DEF TypeOK
  <2>3. pfile' \in {pfile, [pfile EXCEPT ![Target(p)] = NoFile]}
    BY <1>7 DEF FailCleanup, driverVars, Cleanup
  <2>4. NoFile \in ProcessFile
    BY SMTT(30) DEF NoFile, ProcessFile
  <2>5. pfile' \in [Ids -> ProcessFile]
    BY <2>3, <2>4, <1>b
  <2> QED
    BY <2>2, <2>5 DEF DriverTypeOK
<1>8. CASE RecoverStart(p)
  BY <1>8, <1>a, <1>c
  DEF RecoverStart, TypeOK, DriverTypeOK, driverVars
<1>9. CASE AwaitReady(p)
  BY <1>9, <1>a, <1>c
  DEF AwaitReady, TypeOK, DriverTypeOK, driverVars
<1>10. CASE InspectStop(p)
  BY <1>10, <1>a, LocateType, GenerationType
  DEF InspectStop, TypeOK, DriverTypeOK, driverVars, At, Target
<1>11. CASE Reconcile(p)
  BY <1>11, <1>a, LocateType, GenerationType
  DEF Reconcile, TypeOK, DriverTypeOK, driverVars, At, Target
<1> QED
  BY <1>1, <1>2, <1>3, <1>4, <1>5, <1>6, <1>7, <1>8, <1>9, <1>10, <1>11 DEF Steps

\* Every step spends one fault or none.
LEMMA StepsFault ==
    ASSUME TypeOK, NEW p \in Procs, Steps(p)
    PROVE  Fault \/ NoFault
<1>1. CASE \/ AcquireLock(p) \/ CreateNetwork(p) \/ CreateDisk(p) \/ CommitCreated(p)
              \/ Compensate(p) \/ ForgetReservation(p) \/ RetainError(p) \/ RecoverStart(p)
              \/ StartCleanup(p) \/ MarkLost(p) \/ Validate(p) \/ CommitStarting(p)
              \/ RecoverNetwork(p) \/ ExecVMM(p) \/ PersistIdentity(p) \/ AwaitReady(p)
              \/ CommitRunning(p) \/ FailCleanup(p) \/ FailCommit(p) \/ InspectStop(p)
              \/ CommitStopping(p) \/ StopVMM(p) \/ StopCleanup(p) \/ CommitStopped(p)
              \/ CommitDeleting(p) \/ ReleaseResources(p) \/ CommitDeleted(p) \/ RestoreDecide(p)
              \/ RestoreRelock(p) \/ ReplaceDisks(p) \/ StatusRead(p) \/ StatusWrite(p)
              \/ Reconcile(p)
  BY <1>1
  DEF AcquireLock, CreateNetwork, CreateDisk, CommitCreated, Compensate,
      ForgetReservation, RetainError, RecoverStart, StartCleanup, MarkLost,
      Validate, CommitStarting, RecoverNetwork, ExecVMM, PersistIdentity,
      AwaitReady, CommitRunning, FailCleanup, FailCommit, InspectStop,
      CommitStopping, StopVMM, StopCleanup, CommitStopped, CommitDeleting,
      ReleaseResources, CommitDeleted, RestoreDecide, RestoreRelock,
      ReplaceDisks, StatusRead, StatusWrite, Reconcile, Refused
<1> QED
  BY <1>1 DEF Steps

\* Disks keep their type.
LEMMA StepsDiskType ==
    ASSUME TypeOK, NEW p \in Procs, Steps(p)
    PROVE  disk' \in [Ids -> BOOLEAN]
<1>1. CASE \/ AcquireLock(p) \/ CreateNetwork(p) \/ CommitCreated(p) \/ ForgetReservation(p)
              \/ RetainError(p) \/ RecoverStart(p) \/ StartCleanup(p) \/ MarkLost(p)
              \/ Validate(p) \/ CommitStarting(p) \/ RecoverNetwork(p) \/ ExecVMM(p)
              \/ PersistIdentity(p) \/ AwaitReady(p) \/ CommitRunning(p) \/ FailCleanup(p)
              \/ FailCommit(p) \/ InspectStop(p) \/ CommitStopping(p) \/ StopVMM(p)
              \/ StopCleanup(p) \/ CommitStopped(p) \/ CommitDeleting(p) \/ CommitDeleted(p)
              \/ RestoreDecide(p) \/ RestoreRelock(p) \/ ReplaceDisks(p) \/ StatusRead(p)
              \/ StatusWrite(p) \/ Reconcile(p)
  BY <1>1
  DEF AcquireLock, CreateNetwork, CommitCreated, ForgetReservation,
      RetainError, RecoverStart, StartCleanup, MarkLost, Validate,
      CommitStarting, RecoverNetwork, ExecVMM, PersistIdentity, AwaitReady,
      CommitRunning, FailCleanup, FailCommit, InspectStop, CommitStopping,
      StopVMM, StopCleanup, CommitStopped, CommitDeleting, CommitDeleted,
      RestoreDecide, RestoreRelock, ReplaceDisks, StatusRead, StatusWrite,
      Reconcile, TypeOK, hostVars
<1>2. CASE \/ CreateDisk(p) \/ Compensate(p) \/ ReleaseResources(p)
  BY <1>2
  DEF CreateDisk, Compensate, ReleaseResources, TypeOK, hostVars
<1> QED
  BY <1>1, <1>2 DEF Steps

\* Networks keep their type.
LEMMA StepsNetType ==
    ASSUME TypeOK, NEW p \in Procs, Steps(p)
    PROVE  net' \in [Ids -> {"none", "up", "down"}]
<1>1. CASE \/ AcquireLock(p) \/ CreateDisk(p) \/ CommitCreated(p) \/ ForgetReservation(p)
              \/ RetainError(p) \/ RecoverStart(p) \/ StartCleanup(p) \/ Validate(p)
              \/ CommitStarting(p) \/ ExecVMM(p) \/ PersistIdentity(p) \/ AwaitReady(p)
              \/ CommitRunning(p) \/ FailCommit(p) \/ InspectStop(p) \/ CommitStopping(p)
              \/ StopVMM(p) \/ CommitStopped(p) \/ CommitDeleting(p) \/ CommitDeleted(p)
              \/ RestoreDecide(p) \/ RestoreRelock(p) \/ ReplaceDisks(p) \/ StatusRead(p)
              \/ StatusWrite(p) \/ Reconcile(p)
  BY <1>1
  DEF AcquireLock, CreateDisk, CommitCreated, ForgetReservation, RetainError,
      RecoverStart, StartCleanup, Validate, CommitStarting, ExecVMM,
      PersistIdentity, AwaitReady, CommitRunning, FailCommit, InspectStop,
      CommitStopping, StopVMM, CommitStopped, CommitDeleting, CommitDeleted,
      RestoreDecide, RestoreRelock, ReplaceDisks, StatusRead, StatusWrite,
      Reconcile, TypeOK, hostVars
<1>2. CASE \/ CreateNetwork(p) \/ Compensate(p) \/ RecoverNetwork(p) \/ ReleaseResources(p)
  BY <1>2
  DEF CreateNetwork, Compensate, RecoverNetwork, ReleaseResources, TypeOK,
      hostVars, Released, Recovered
<1>3. CASE \/ MarkLost(p) \/ FailCleanup(p) \/ StopCleanup(p)
  BY <1>3
  DEF MarkLost, FailCleanup, StopCleanup, TypeOK, hostVars, Quiesced
<1> QED
  BY <1>1, <1>2, <1>3 DEF Steps

\* A step moves its own operation on, or ends it.
LEMMA StepsOperationType ==
    ASSUME TypeOK, NEW p \in Procs, Steps(p)
    PROVE  OperationTypeOK'
<1>a. op[p].at # "idle" => op[p] \in Op /\ op[p].id \in Ids /\ op[p].pid \in Pids \cup {NoPid}
  BY DEF TypeOK, OperationTypeOK, Op
<1>b. LockedSteps \cup UnlockedSteps =
        {"locked", "startCleanup", "markLost", "validate", "beginStart",
         "recoverNetwork", "replaceDisks", "exec", "persist", "awaitReady",
         "commitRunning", "commitObserved", "failCleanup", "failCommit",
         "beginStop", "stopVMM", "stopCleanup", "commitStopped",
         "release", "finalize", "createNetwork", "createDisk", "commitCreated",
         "compensate", "forget", "markError", "idle", "lock", "restoreDecide",
         "relock", "statusRead", "statusWrite"}
  BY SMTT(30) DEF LockedSteps, UnlockedSteps
<1>c. OperationTypeOK /\ CatalogTypeOK
  BY DEF TypeOK
<1>d. ASSUME Resolve(Target(p)) # NoId
      PROVE  Resolve(Target(p)) \in Ids
  BY <1>c, <1>d, ResolveType
<1>e. "locked" \in LockedSteps /\ "beginStart" \in LockedSteps
  BY DEF LockedSteps
<1>0. CASE CreateNetwork(p)
  <2>1. op[p].at # "idle" /\ {"createDisk", "compensate"} \subseteq LockedSteps \cup UnlockedSteps
    BY <1>0, <1>b DEF CreateNetwork, At
  <2>2. Goto(p, "compensate") \/ \E h \in BOOLEAN : GotoHolding(p, "createDisk", h)
    BY <1>0 DEF CreateNetwork
  <2>3. CASE Goto(p, "compensate")
    BY <1>c, <2>1, <2>3, GotoType
  <2>4. ASSUME NEW h \in BOOLEAN, GotoHolding(p, "createDisk", h)
        PROVE  OperationTypeOK'
    BY <1>c, <2>1, <2>4, GotoHoldingType
  <2> QED BY <2>2, <2>3, <2>4
<1>1. CASE \/ CreateDisk(p) \/ CommitCreated(p) \/ Compensate(p)
  BY <1>1, <1>b, ReturnType, GotoType
  DEF CreateDisk, CommitCreated, Compensate, TypeOK, At, AtOf, Target
<1>2. CASE \/ ForgetReservation(p) \/ RetainError(p) \/ StartCleanup(p) \/ Validate(p)
  BY <1>2, <1>b, ReturnType, GotoType
  DEF ForgetReservation, RetainError, StartCleanup, Validate, TypeOK, At,
      AtOf, Target
<1>3. CASE \/ RecoverNetwork(p) \/ AwaitReady(p) \/ CommitRunning(p) \/ FailCleanup(p)
              \/ FailCommit(p)
  BY <1>3, <1>b, ReturnType, GotoType
  DEF RecoverNetwork, AwaitReady, CommitRunning, FailCleanup, FailCommit,
      TypeOK, At, AtOf, Target
<1>4. CASE \/ StopVMM(p) \/ ReleaseResources(p) \/ CommitDeleted(p) \/ RestoreDecide(p)
              \/ ReplaceDisks(p) \/ StatusWrite(p)
  BY <1>4, <1>b, ReturnType, GotoType
  DEF StopVMM, ReleaseResources, CommitDeleted, RestoreDecide, ReplaceDisks,
      StatusWrite, TypeOK, At, AtOf, Target
<1>5. CASE \/ ExecVMM(p) \/ PersistIdentity(p) \/ StatusRead(p)
  BY <1>5, <1>b, ReturnType, GotoType, GotoWithType
  DEF ExecVMM, PersistIdentity, StatusRead, TypeOK, At, AtOf, Target
<1>6. CASE \/ RecoverStart(p) \/ InspectStop(p)
  BY <1>6, <1>b, ReturnType, GotoType, GotoWithType
  DEF RecoverStart, InspectStop, TypeOK, At, AtOf, Target, StartDecision,
      StopDecision
<1>7. CASE \/ MarkLost(p) \/ CommitStarting(p) \/ CommitStopping(p) \/ CommitDeleting(p)
  BY <1>7, <1>b, ReturnType, GotoCommittedType, StepsCatalogType
  DEF MarkLost, CommitStarting, CommitStopping, CommitDeleting, TypeOK, At,
      AtOf, Target
<1>8. CASE \/ StopCleanup(p) \/ CommitStopped(p)
  BY <1>8, <1>b, ReturnType, GotoType, StopReturnsType
  DEF StopCleanup, CommitStopped, TypeOK, At, AtOf, Target
<1>9. CASE Reconcile(p)
  BY <1>9, <1>b, ReturnType, GotoType, GotoWithType, ContinueType
  DEF Reconcile, TypeOK, At, AtOf, Target, ReconcileDecision
<1>10. CASE AcquireLock(p)
  BY <1>10, <1>c, <1>d, <1>e, ReturnType, LockedOnType
  DEF AcquireLock, At, Target
<1>11. CASE RestoreRelock(p)
  BY <1>11, <1>c, <1>d, <1>e, ReturnType, LockedOnType
  DEF RestoreRelock, At, Target
<1> QED
  BY <1>0, <1>1, <1>2, <1>3, <1>4, <1>5, <1>6, <1>7, <1>8, <1>9, <1>10, <1>11 DEF Steps

\* A step spends one fault or none.
LEMMA FaultType ==
    ASSUME TypeOK, Fault \/ NoFault
    PROVE  issued' \in SUBSET Ids /\ requests' \in Nat /\ faults' \in Nat
BY SMTT(30) DEF TypeOK, Fault, NoFault, budgetVars

\* One step of an operation, whatever it found and whatever failed.
LEMMA StepsType ==
    ASSUME TypeOK, NEW p \in Procs, Steps(p)
    PROVE  TypeOK'
BY StepsCatalogType, StepsSetupType, StepsDriverType, StepsOperationType, StepsDiskType,
   StepsNetType, StepsFault, FaultType
DEF TypeOK

\* An idle slot takes up an operation, with or without the lock.
LEMMA TakeUpType ==
    ASSUME OperationTypeOK, NEW p \in Procs, NEW o \in Op, o.id \in Ids, Become(p, o),
           \/ lock' = lock
           \/ \E i \in Ids : lock' = [lock EXCEPT ![i] = p]
    PROVE  OperationTypeOK'
<1>1. lock' \in [Ids -> Procs \cup {NoProc}]
  BY DEF OperationTypeOK
<1> QED
  BY <1>1, BecomeType DEF OperationTypeOK

\* Taking up an operation, and collecting an orphan, keep the types.
LEMMA IssuesType ==
    ASSUME TypeOK, NEW p \in Procs, Issues(p)
    PROVE  TypeOK'
<1>a. ASSUME NEW ref, Resolve(ref) # NoId
      PROVE  /\ Resolve(ref) \in Ids
             /\ rec[Resolve(ref)].state \in States /\ rec[Resolve(ref)].gen \in Nat
  BY <1>a, ResolveType DEF TypeOK, Record
<1>b. /\ {"lock", "createNetwork", "restoreDecide", "statusRead", "locked"}
            \subseteq LockedSteps \cup UnlockedSteps
      /\ {"start", "stop", "remove", "create", "restore", "status", "reconcile"}
            \subseteq OpKinds
      /\ "none" \in States /\ "creating" \in States
  BY DEF LockedSteps, UnlockedSteps, OpKinds, States
<1>1. CASE Issue(p)
  <2>1. PICK k \in {"start", "stop", "remove"}, ref \in Ids \cup Names :
            /\ Resolve(ref) # NoId
            /\ Become(p, [Idle EXCEPT !.at = "lock", !.kind = k, !.id = Resolve(ref)])
    BY <1>1 DEF Issue
  <2> DEFINE o == [Idle EXCEPT !.at = "lock", !.kind = k, !.id = Resolve(ref)]
  <2>2. o \in Op /\ o.id \in Ids
    BY <1>a, <1>b, <2>1 DEF Idle, Op
  <2>3. OperationTypeOK'
    BY <1>1, <2>1, <2>2, TakeUpType DEF Issue, TypeOK
  <2> QED
    BY SMTT(30), <1>1, <2>3
    DEF Issue, Request, TypeOK, CatalogTypeOK, SetupTypeOK, catalogVars, DriverTypeOK, driverVars, hostVars
<1>2. CASE IssueCreate(p)
  <2>1. PICK i \in Ids, n \in Names, s \in Policies :
            /\ Reserve(i, n, s) /\ lock' = [lock EXCEPT ![i] = p]
            /\ Become(p, [Idle EXCEPT !.at = "createNetwork", !.kind = "create",
                                      !.id = i, !.st = "creating", !.gen = 1])
            /\ issued' = issued \cup {i}
    BY <1>2 DEF IssueCreate
  <2> DEFINE o == [Idle EXCEPT !.at = "createNetwork", !.kind = "create",
                               !.id = i, !.st = "creating", !.gen = 1]
  <2>2. o \in Op /\ o.id \in Ids
    BY <1>b DEF Idle, Op
  <2>3. OperationTypeOK'
    BY <2>1, <2>2, TakeUpType DEF TypeOK
  <2>4. CatalogTypeOK' /\ SetupTypeOK'
    BY <2>1, ReserveType, PoliciesAssumption DEF TypeOK, SetupTypeOK, Setups, Reserve
  <2> QED
    BY SMTT(30), <1>2, <2>1, <2>3, <2>4 DEF IssueCreate, TypeOK, DriverTypeOK, driverVars, hostVars
<1>3. CASE IssueRestore(p)
  <2>1. PICK ref \in Ids \cup Names :
            /\ Resolve(ref) # NoId
            /\ Become(p, [Idle EXCEPT !.at = "restoreDecide", !.kind = "restore",
                            !.id = Resolve(ref), !.st = rec[Resolve(ref)].state])
    BY <1>3 DEF IssueRestore
  <2> DEFINE o == [Idle EXCEPT !.at = "restoreDecide", !.kind = "restore",
                               !.id = Resolve(ref), !.st = rec[Resolve(ref)].state]
  <2>2. o \in Op /\ o.id \in Ids
    BY <1>a, <1>b, <2>1 DEF Idle, Op
  <2>3. OperationTypeOK'
    BY <1>3, <2>1, <2>2, TakeUpType DEF IssueRestore, TypeOK
  <2> QED
    BY SMTT(30), <1>3, <2>3
    DEF IssueRestore, Request, TypeOK, CatalogTypeOK, SetupTypeOK, catalogVars, DriverTypeOK, driverVars,
        hostVars
<1>4. CASE IssueStatus(p)
  <2>1. PICK i \in Ids :
            Become(p, [Idle EXCEPT !.at = "statusRead", !.kind = "status", !.id = i,
                                   !.st = rec[i].state, !.gen = rec[i].gen])
    BY <1>4 DEF IssueStatus
  <2> DEFINE o == [Idle EXCEPT !.at = "statusRead", !.kind = "status", !.id = i,
                               !.st = rec[i].state, !.gen = rec[i].gen]
  <2>2. rec[i].state \in States /\ rec[i].gen \in Nat
    BY DEF TypeOK, CatalogTypeOK, Record
  <2>3. o \in Op /\ o.id \in Ids
    BY <1>b, <2>2 DEF Idle, Op
  <2>4. OperationTypeOK'
    BY <1>4, <2>1, <2>3, TakeUpType DEF IssueStatus, TypeOK
  <2> QED
    BY SMTT(30), <1>4, <2>4
    DEF IssueStatus, Request, TypeOK, CatalogTypeOK, SetupTypeOK, catalogVars, DriverTypeOK, driverVars,
        hostVars
<1>5. ASSUME NEW i \in Ids, IssueReconcile(p, i)
      PROVE  TypeOK'
  <2> DEFINE j == Resolve(i)
             o == [Idle EXCEPT !.at = "locked", !.kind = "reconcile", !.id = j,
                               !.st = rec[j].state, !.gen = rec[j].gen]
  <2>1. Become(p, o) /\ lock' = [lock EXCEPT ![i] = p] /\ j # NoId
    BY <1>5 DEF IssueReconcile
  <2>2. o \in Op /\ o.id \in Ids
    BY <1>a, <1>b, <2>1 DEF Idle, Op
  <2>3. OperationTypeOK'
    BY <2>1, <2>2, TakeUpType DEF TypeOK
  <2> QED
    BY <1>5, <2>3, FaultType
    DEF IssueReconcile, TypeOK, CatalogTypeOK, SetupTypeOK, catalogVars, DriverTypeOK, driverVars, hostVars
<1>6. ASSUME NEW i \in Ids, CollectOrphan(p, i)
      PROVE  TypeOK'
  BY <1>6, CleanupType, FaultType
  DEF CollectOrphan, TypeOK, CatalogTypeOK, SetupTypeOK, catalogVars, DriverTypeOK, OperationTypeOK
<1> QED
  BY <1>1, <1>2, <1>3, <1>4, <1>5, <1>6 DEF Issues

\* Crashes of operations and of the host, and the VMMs' own life.
LEMMA EnvironmentType ==
    ASSUME TypeOK,
           \/ \E p \in Procs : Crash(p)
           \/ \E v \in Pids : VmReady(v) \/ VmExit(v)
           \/ HostReboot
    PROVE  TypeOK'
<1>1. ASSUME NEW p \in Procs, Crash(p)
      PROVE  TypeOK'
  BY <1>1, ReturnType, FaultType
  DEF Crash, TypeOK, CatalogTypeOK, SetupTypeOK, catalogVars, DriverTypeOK, driverVars, hostVars
<1>2. ASSUME NEW v \in Pids, VmReady(v) \/ VmExit(v)
      PROVE  TypeOK'
  BY <1>2, ReadyType, TerminateType
  DEF VmReady, VmExit, Terminate, TypeOK, CatalogTypeOK, SetupTypeOK, catalogVars, DriverTypeOK,
      OperationTypeOK, hostVars, budgetVars
<1>3. CASE HostReboot
  <2>1. OperationTypeOK'
    BY <1>3, IdleType DEF HostReboot, OperationTypeOK
  <2>2. DriverTypeOK'
    BY SMTT(30), <1>3 DEF HostReboot, TypeOK, DriverTypeOK, NoVm, Vm, NoFile, ProcessFile
  <2> QED
    BY <1>3, <2>1, <2>2, FaultType DEF HostReboot, TypeOK, CatalogTypeOK, SetupTypeOK, catalogVars
<1> QED
  BY <1>1, <1>2, <1>3

\* The empty host is well typed.
LEMMA InitType == Init => TypeOK
<1>1. ASSUME Init
      PROVE  OperationTypeOK
  BY <1>1, IdleType DEF Init, OperationTypeOK
<1>2. ASSUME Init
      PROVE  CatalogTypeOK /\ SetupTypeOK /\ DriverTypeOK
  BY SMTT(30), <1>2
  DEF Init, CatalogInit, DriverInit, CatalogTypeOK, SetupTypeOK, Setups, DriverTypeOK,
      NoRecord, Record, States, NoVm, Vm, NoFile, ProcessFile
<1> QED
  BY SMTT(30), <1>1, <1>2 DEF Init, TypeOK

\* Every step of the system keeps the types.
LEMMA NextType ==
    ASSUME TypeOK, [Next]_vars
    PROVE  TypeOK'
<1>1. CASE Next
  BY <1>1, StepsType, IssuesType, EnvironmentType DEF Next
<1>2. CASE UNCHANGED vars
  BY <1>2
  DEF vars, TypeOK, CatalogTypeOK, SetupTypeOK, DriverTypeOK, OperationTypeOK
<1> QED
  BY <1>1, <1>2

\* Every handler, every failure of a handler and every crash keeps every
\* variable in its type, for any number of sandboxes, operations and faults.
THEOREM TypeCorrect == Spec => []TypeOK
<1>1. TypeOK /\ [Next]_vars => TypeOK'
  BY NextType
<1> QED
  BY <1>1, InitType, PTL DEF Spec

-----------------------------------------------------------------------------
(* The lock protocol, the currency of an operation's copy of its record and *)
(* the meaning of Stopped, for any number of sandboxes, operations, faults  *)
(* and crashes.  The three are proved together: none is inductive alone.    *)
(* A step of one operation is split into its frame (what it leaves alone    *)
(* for everybody else) and its own part (where it goes and what it knows    *)
(* there).                                                                  *)

\* Everybody else keeps their operation, and locks move only to and from p.
OthersKeep(p) ==
    /\ \A q \in Procs : q # p => op'[q] = op[q]
    /\ \A i \in Ids : lock'[i] # lock[i] =>
            lock[i] = p \/ (lock[i] = NoProc /\ lock'[i] = p)

\* The operation goes on under its lock with the copy it has.
GoesOn(p, step) ==
    /\ op'[p].at = step /\ op'[p].id = op[p].id
    /\ op'[p].st = op[p].st /\ op'[p].gen = op[p].gen
    /\ lock' = lock

\* Return leaves the others alone and the slot idle.
LEMMA ReturnEffect ==
    ASSUME OperationTypeOK, NEW p \in Procs, Return(p)
    PROVE  OthersKeep(p) /\ op'[p].at = "idle"
BY IdleType, BecomeType DEF OperationTypeOK, OthersKeep, Return, ReleaseLock

\* Goto keeps target, copy and locks.
LEMMA GotoEffect ==
    ASSUME OperationTypeOK, NEW p \in Procs, op[p].at # "idle",
           NEW step \in LockedSteps \cup UnlockedSteps, Goto(p, step)
    PROVE  OthersKeep(p) /\ GoesOn(p, step)
<1> DEFINE o == [op[p] EXCEPT !.at = step]
<1>1. o \in Op /\ o.id \in Ids /\ o.at = step
      /\ o.id = op[p].id /\ o.st = op[p].st /\ o.gen = op[p].gen
  BY DEF OperationTypeOK, Op
<1> QED
  BY <1>1, BecomeType DEF Goto, OthersKeep, GoesOn

\* GotoWith keeps target, copy and locks.
LEMMA GotoWithEffect ==
    ASSUME OperationTypeOK, NEW p \in Procs, op[p].at # "idle",
           NEW step \in LockedSteps \cup UnlockedSteps,
           NEW v \in Pids \cup {NoPid}, GotoWith(p, step, v)
    PROVE  OthersKeep(p) /\ GoesOn(p, step)
<1> DEFINE o == [op[p] EXCEPT !.at = step, !.pid = v]
<1>1. o \in Op /\ o.id \in Ids /\ o.at = step
      /\ o.id = op[p].id /\ o.st = op[p].st /\ o.gen = op[p].gen
  BY DEF OperationTypeOK, Op
<1> QED
  BY <1>1, BecomeType DEF GotoWith, OthersKeep, GoesOn

\* GotoHolding keeps target, copy and locks.
LEMMA GotoHoldingEffect ==
    ASSUME OperationTypeOK, NEW p \in Procs, op[p].at # "idle",
           NEW step \in LockedSteps \cup UnlockedSteps,
           NEW h \in BOOLEAN, GotoHolding(p, step, h)
    PROVE  OthersKeep(p) /\ GoesOn(p, step)
<1> DEFINE o == [op[p] EXCEPT !.at = step, !.held = h]
<1>1. o \in Op /\ o.id \in Ids /\ o.at = step
      /\ o.id = op[p].id /\ o.st = op[p].st /\ o.gen = op[p].gen
  BY DEF OperationTypeOK, Op
<1> QED
  BY <1>1, BecomeType DEF GotoHolding, OthersKeep, GoesOn

\* GotoCommitted takes over the committed record as its copy.
LEMMA GotoCommittedEffect ==
    ASSUME OperationTypeOK, CatalogTypeOK', NEW p \in Procs, op[p].at # "idle",
           NEW step \in LockedSteps \cup UnlockedSteps, GotoCommitted(p, step)
    PROVE  /\ OthersKeep(p) /\ lock' = lock
           /\ op'[p].at = step /\ op'[p].id = op[p].id
           /\ op'[p].st = rec'[op[p].id].state /\ op'[p].gen = rec'[op[p].id].gen
<1> DEFINE o == [op[p] EXCEPT !.at = step, !.st = rec'[op[p].id].state,
                              !.gen = rec'[op[p].id].gen]
<1>1. op[p] \in Op /\ op[p].id \in Ids
  BY DEF OperationTypeOK
<1>2. rec'[op[p].id] \in Record
  BY <1>1 DEF CatalogTypeOK
<1>3. o \in Op /\ o.id \in Ids /\ o.at = step /\ o.id = op[p].id
      /\ o.st = rec'[op[p].id].state /\ o.gen = rec'[op[p].id].gen
  BY <1>1, <1>2 DEF Op, Record
<1>4. Become(p, o) /\ lock' = lock
  BY DEF GotoCommitted
<1> QED
  BY <1>3, <1>4, BecomeType DEF OthersKeep

\* After StopReturns the operation stands at no locked step.
LEMMA StopReturnsEffect ==
    ASSUME OperationTypeOK, NEW p \in Procs, op[p].at # "idle", StopReturns(p)
    PROVE  OthersKeep(p) /\ op'[p].at \notin LockedSteps
<1> DEFINE o == [op[p] EXCEPT !.at = "relock", !.pid = NoPid]
<1>1. o \in Op /\ o.id \in Ids /\ o.at = "relock"
  BY DEF OperationTypeOK, Op, UnlockedSteps
<1>2. CASE op[p].kind = "restore"
  <2>1. Become(p, o) /\ ReleaseLock(p)
    BY <1>2 DEF StopReturns
  <2>2. op'[p] = o /\ \A q \in Procs : q # p => op'[q] = op[q]
    BY <1>1, <2>1, BecomeType
  <2>3. \A i \in Ids : lock'[i] # lock[i] => lock[i] = p
    BY <2>1 DEF ReleaseLock
  <2>4. "relock" \notin LockedSteps
    BY DEF LockedSteps
  <2> QED BY <1>1, <2>2, <2>3, <2>4 DEF OthersKeep
<1>3. CASE op[p].kind # "restore"
  BY <1>3, ReturnEffect DEF StopReturns, LockedSteps
<1> QED
  BY <1>2, <1>3

\* Neither does it after ContinueAsRemove.
LEMMA ContinueEffect ==
    ASSUME OperationTypeOK, NEW p \in Procs, op[p].at # "idle", ContinueAsRemove(p)
    PROVE  OthersKeep(p) /\ op'[p].at \notin LockedSteps
<1> DEFINE o == [Idle EXCEPT !.at = "lock", !.kind = "remove", !.id = op[p].id]
<1>1. o \in Op /\ o.id \in Ids /\ o.at = "lock"
  BY DEF OperationTypeOK, Idle, Op, UnlockedSteps, OpKinds, States
<1> QED
  BY <1>1, BecomeType
  DEF OperationTypeOK, ContinueAsRemove, ReleaseLock, OthersKeep, LockedSteps

\* Names that are not IDs make the second resolve return its own argument.
LEMMA SecondResolve ==
    ASSUME Names \cap Ids = {}, NEW i \in Ids, Resolve(i) # NoId
    PROVE  Resolve(i) = i /\ rec[i].state # "none"
BY DEF Resolve

\* Taking a free lock gives it to p, with a fresh copy of the record.
LEMMA LockedOnEffect ==
    ASSUME OperationTypeOK, CatalogTypeOK, NEW p \in Procs, op[p].at # "idle",
           NEW step \in LockedSteps, lock[op[p].id] = NoProc,
           lock' = [lock EXCEPT ![op[p].id] = p],
           Become(p, [op[p] EXCEPT !.at = step, !.id = op[p].id,
                            !.st = rec[op[p].id].state, !.gen = rec[op[p].id].gen])
    PROVE  /\ OthersKeep(p)
           /\ op'[p].at = step /\ op'[p].id = op[p].id /\ lock'[op[p].id] = p
           /\ op'[p].st = rec[op[p].id].state /\ op'[p].gen = rec[op[p].id].gen
<1> DEFINE i == op[p].id
           o == [op[p] EXCEPT !.at = step, !.id = i, !.st = rec[i].state, !.gen = rec[i].gen]
<1>1. op[p] \in Op /\ i \in Ids /\ rec[i] \in Record
  BY DEF OperationTypeOK, CatalogTypeOK
<1>2. o \in Op /\ o.id \in Ids /\ o.at = step /\ o.id = i
      /\ o.st = rec[i].state /\ o.gen = rec[i].gen
  BY <1>1 DEF Op, Record
<1> QED
  BY <1>1, <1>2, BecomeType DEF OperationTypeOK, OthersKeep

\* A step changes only its own operation, and only locks it takes or gives up.
LEMMA StepsOthersKeep ==
    ASSUME TypeOK, Names \cap Ids = {}, NEW p \in Procs, Steps(p)
    PROVE  OthersKeep(p)
<1>b. LockedSteps \cup UnlockedSteps =
        {"locked", "startCleanup", "markLost", "validate", "beginStart",
         "recoverNetwork", "replaceDisks", "exec", "persist", "awaitReady",
         "commitRunning", "commitObserved", "failCleanup", "failCommit",
         "beginStop", "stopVMM", "stopCleanup", "commitStopped",
         "release", "finalize", "createNetwork", "createDisk", "commitCreated",
         "compensate", "forget", "markError", "idle", "lock", "restoreDecide",
         "relock", "statusRead", "statusWrite"}
  BY SMTT(30) DEF LockedSteps, UnlockedSteps
<1>c. OperationTypeOK /\ CatalogTypeOK
  BY DEF TypeOK
<1>d. ASSUME op[p].at # "idle", Resolve(op[p].id) # NoId
      PROVE  Resolve(op[p].id) = op[p].id
  BY <1>c, <1>d, SecondResolve DEF OperationTypeOK
<1>e. "locked" \in LockedSteps /\ "beginStart" \in LockedSteps
  BY DEF LockedSteps
<1>f. op[p].at # "idle" => op[p].id \in Ids
  BY <1>c DEF OperationTypeOK
<1>0. CASE CreateNetwork(p)
  <2>1. op[p].at # "idle" /\ {"createDisk", "compensate"} \subseteq LockedSteps \cup UnlockedSteps
    BY <1>0, <1>b DEF CreateNetwork, At
  <2>2. Goto(p, "compensate") \/ \E h \in BOOLEAN : GotoHolding(p, "createDisk", h)
    BY <1>0 DEF CreateNetwork
  <2>3. CASE Goto(p, "compensate")
    BY <1>c, <2>1, <2>3, GotoEffect
  <2>4. ASSUME NEW h \in BOOLEAN, GotoHolding(p, "createDisk", h)
        PROVE  OthersKeep(p)
    BY <1>c, <2>1, <2>4, GotoHoldingEffect
  <2> QED BY <2>2, <2>3, <2>4
<1>1. CASE \/ CreateDisk(p) \/ CommitCreated(p) \/ Compensate(p)
  BY <1>1, <1>b, ReturnEffect, GotoEffect
  DEF CreateDisk, CommitCreated, Compensate, TypeOK, At, AtOf, Target
<1>2. CASE \/ ForgetReservation(p) \/ RetainError(p) \/ StartCleanup(p) \/ Validate(p)
  BY <1>2, <1>b, ReturnEffect, GotoEffect
  DEF ForgetReservation, RetainError, StartCleanup, Validate, TypeOK, At,
      AtOf, Target
<1>3. CASE \/ RecoverNetwork(p) \/ AwaitReady(p) \/ CommitRunning(p) \/ FailCleanup(p)
              \/ FailCommit(p)
  BY <1>3, <1>b, ReturnEffect, GotoEffect
  DEF RecoverNetwork, AwaitReady, CommitRunning, FailCleanup, FailCommit,
      TypeOK, At, AtOf, Target
<1>4. CASE \/ StopVMM(p) \/ ReleaseResources(p) \/ CommitDeleted(p) \/ RestoreDecide(p)
              \/ ReplaceDisks(p) \/ StatusWrite(p)
  BY <1>4, <1>b, ReturnEffect, GotoEffect
  DEF StopVMM, ReleaseResources, CommitDeleted, RestoreDecide, ReplaceDisks,
      StatusWrite, TypeOK, At, AtOf, Target
<1>5. CASE \/ ExecVMM(p) \/ PersistIdentity(p) \/ StatusRead(p)
  BY <1>5, <1>b, ReturnEffect, GotoEffect, GotoWithEffect
  DEF ExecVMM, PersistIdentity, StatusRead, TypeOK, At, AtOf, Target
<1>6. CASE \/ RecoverStart(p) \/ InspectStop(p)
  BY <1>6, <1>b, ReturnEffect, GotoEffect, GotoWithEffect
  DEF RecoverStart, InspectStop, TypeOK, At, AtOf, Target, StartDecision,
      StopDecision
<1>7. CASE \/ MarkLost(p) \/ CommitStarting(p) \/ CommitStopping(p) \/ CommitDeleting(p)
  BY <1>7, <1>b, ReturnEffect, GotoCommittedEffect, StepsCatalogType
  DEF MarkLost, CommitStarting, CommitStopping, CommitDeleting, TypeOK, At,
      AtOf, Target
<1>8. CASE \/ StopCleanup(p) \/ CommitStopped(p)
  BY <1>8, <1>b, ReturnEffect, GotoEffect, StopReturnsEffect
  DEF StopCleanup, CommitStopped, TypeOK, At, AtOf, Target
<1>9. CASE Reconcile(p)
  BY <1>9, <1>b, ReturnEffect, GotoEffect, GotoWithEffect, ContinueEffect
  DEF Reconcile, TypeOK, At, AtOf, Target, ReconcileDecision
<1>10. CASE AcquireLock(p)
  BY <1>10, <1>c, <1>d, <1>e, <1>f, ReturnEffect, LockedOnEffect
  DEF AcquireLock, At, Target
<1>11. CASE RestoreRelock(p)
  BY <1>11, <1>c, <1>d, <1>e, <1>f, ReturnEffect, LockedOnEffect
  DEF RestoreRelock, At, Target
<1> QED
  BY <1>0, <1>1, <1>2, <1>3, <1>4, <1>5, <1>6, <1>7, <1>8, <1>9, <1>10, <1>11 DEF Steps

\* A step changes no record but its target's, and that only under the lock.
LEMMA StepsChangeOwnRecord ==
    ASSUME TypeOK, NEW p \in Procs, Steps(p)
    PROVE  \A i \in Ids : rec'[i] # rec[i] => op[p].at \in LockedSteps /\ i = op[p].id
<1>a. op[p].at # "idle" => op[p].id \in Ids
  BY DEF TypeOK, OperationTypeOK
<1>b. ASSUME NEW i \in Ids, NEW to, Advance(i, to)
      PROVE  \A j \in Ids : j # i => rec'[j] = rec[j]
  BY <1>b DEF TypeOK, CatalogTypeOK, Advance
<1>c. ASSUME NEW i \in Ids, DeleteRecord(i)
      PROVE  \A j \in Ids : j # i => rec'[j] = rec[j]
  BY <1>c DEF TypeOK, CatalogTypeOK, DeleteRecord
<1>1. CASE \/ AcquireLock(p) \/ CreateNetwork(p) \/ CreateDisk(p) \/ Compensate(p)
              \/ RecoverStart(p) \/ StartCleanup(p) \/ Validate(p) \/ RecoverNetwork(p)
              \/ ExecVMM(p) \/ PersistIdentity(p) \/ AwaitReady(p) \/ FailCleanup(p)
              \/ InspectStop(p) \/ StopVMM(p) \/ StopCleanup(p) \/ ReleaseResources(p)
              \/ RestoreDecide(p) \/ RestoreRelock(p) \/ ReplaceDisks(p) \/ StatusRead(p)
              \/ StatusWrite(p)
  BY <1>1
  DEF AcquireLock, CreateNetwork, CreateDisk, Compensate, RecoverStart,
      StartCleanup, Validate, RecoverNetwork, ExecVMM, PersistIdentity,
      AwaitReady, FailCleanup, InspectStop, StopVMM, StopCleanup,
      ReleaseResources, RestoreDecide, RestoreRelock, ReplaceDisks,
      StatusRead, StatusWrite, catalogVars
<1>2. CASE \/ CommitCreated(p) \/ RetainError(p) \/ CommitRunning(p) \/ FailCommit(p)
  BY <1>2, <1>a, <1>b
  DEF CommitCreated, RetainError, CommitRunning, FailCommit, TypeOK,
      catalogVars, At, AtOf, Target, Refused, MarkCreated, MarkError,
      MarkRunning, MarkStartError, LockedSteps, Move
<1>3. CASE \/ MarkLost(p) \/ CommitStopped(p)
  BY <1>3, <1>a, <1>b
  DEF MarkLost, CommitStopped, TypeOK, catalogVars, At, AtOf, Target, Refused,
      MarkStopped, LockedSteps, Move
<1>4. CASE \/ ForgetReservation(p) \/ CommitDeleted(p)
  BY <1>4, <1>a, <1>c
  DEF ForgetReservation, CommitDeleted, TypeOK, catalogVars, At, AtOf, Target,
      Refused, Forget, FinalizeDelete, LockedSteps
<1>5. CASE \/ CommitStarting(p) \/ CommitStopping(p)
  BY <1>5, <1>a, <1>b
  DEF CommitStarting, CommitStopping, TypeOK, catalogVars, At, AtOf, Target,
      Refused, BeginStart, BeginStop, LockedSteps, Move
<1>6. CASE \/ CommitDeleting(p) \/ Reconcile(p)
  BY <1>6, <1>a, <1>b
  DEF CommitDeleting, Reconcile, TypeOK, catalogVars, At, AtOf, Target,
      Refused, BeginDelete, LockedSteps, Move
<1> QED
  BY <1>1, <1>2, <1>3, <1>4, <1>5, <1>6 DEF Steps

\* Only exec makes a VMM appear, and only in the scope of its target.
LEMMA StepsLaunchOwn ==
    ASSUME TypeOK, NEW p \in Procs, Steps(p)
    PROVE  \A i \in Ids : Absent(i) => Absent(i)' \/ (op[p].at = "exec" /\ i = op[p].id)
<1>a. ASSUME NEW v, vm' = vm \/ vm' = [vm EXCEPT ![v] = NoVm], NEW i \in Ids, Absent(i)
      PROVE  Absent(i)'
  BY SMTT(30), <1>a, NoIdAssumption DEF TypeOK, DriverTypeOK, Absent, Live, NoVm
<1>1. CASE \/ AcquireLock(p) \/ CreateNetwork(p) \/ CreateDisk(p) \/ CommitCreated(p)
              \/ Compensate(p) \/ ForgetReservation(p) \/ RetainError(p) \/ RecoverStart(p)
              \/ StartCleanup(p) \/ MarkLost(p) \/ Validate(p) \/ CommitStarting(p)
              \/ RecoverNetwork(p) \/ AwaitReady(p) \/ CommitRunning(p) \/ FailCommit(p)
              \/ InspectStop(p) \/ CommitStopping(p) \/ StopCleanup(p) \/ CommitStopped(p)
              \/ CommitDeleting(p) \/ ReleaseResources(p) \/ CommitDeleted(p) \/ RestoreDecide(p)
              \/ RestoreRelock(p) \/ ReplaceDisks(p) \/ StatusRead(p) \/ StatusWrite(p)
              \/ Reconcile(p)
  BY <1>1
  DEF AcquireLock, CreateNetwork, CreateDisk, CommitCreated, Compensate,
      ForgetReservation, RetainError, RecoverStart, StartCleanup, MarkLost,
      Validate, CommitStarting, RecoverNetwork, AwaitReady, CommitRunning,
      FailCommit, InspectStop, CommitStopping, StopCleanup, CommitStopped,
      CommitDeleting, ReleaseResources, CommitDeleted, RestoreDecide,
      RestoreRelock, ReplaceDisks, StatusRead, StatusWrite, Reconcile,
      driverVars, Locate, Absent, Live
<1>2. CASE ExecVMM(p)
  BY SMTT(30), <1>2, NoIdAssumption
  DEF ExecVMM, At, Target, Exec, Absent, Live, TypeOK, DriverTypeOK
<1>3. CASE \/ PersistIdentity(p) \/ FailCleanup(p) \/ StopVMM(p)
  BY <1>3, <1>a, NoIdAssumption
  DEF PersistIdentity, FailCleanup, StopVMM, driverVars, Terminate
<1> QED
  BY <1>1, <1>2, <1>3 DEF Steps

\* What an operation may rely on wherever it stands.
OwnFacts(p) ==
    op[p].at \in LockedSteps =>
        /\ lock[op[p].id] = p
        /\ rec[op[p].id].state = op[p].st /\ rec[op[p].id].gen = op[p].gen
        /\ op[p].st \in StatesAt(op[p].at)
        /\ op[p].at \in {"markLost", "commitStopped"} => Absent(op[p].id)

\* An operation that goes on without touching its record keeps its facts.
LEMMA GoesOnFacts ==
    ASSUME NEW p \in Procs, OwnFacts(p), NEW step, op[p].at \in LockedSteps,
           GoesOn(p, step), UNCHANGED rec, op[p].st \in StatesAt(step),
           step \notin {"markLost", "commitStopped"}
    PROVE  OwnFacts(p)'
BY DEF OwnFacts, GoesOn

\* So does one that continues with the record its transaction returned.
LEMMA CommittedFacts ==
    ASSUME NEW p \in Procs, OwnFacts(p), NEW step, op[p].at \in LockedSteps,
           lock' = lock, op'[p].at = step, op'[p].id = op[p].id,
           op'[p].st = rec'[op[p].id].state, op'[p].gen = rec'[op[p].id].gen,
           rec'[op[p].id].state \in StatesAt(step),
           step \notin {"markLost", "commitStopped"}
    PROVE  OwnFacts(p)'
BY DEF OwnFacts

\* Outside the locked steps nothing is claimed.
LEMMA ReturnedFacts ==
    ASSUME NEW p \in Procs, op'[p].at \notin LockedSteps
    PROVE  OwnFacts(p)'
BY DEF OwnFacts

\* After each of its steps an operation has the facts of the step it reached.
LEMMA StepsOwnFacts ==
    ASSUME NEW p \in Procs, TypeOK, Names \cap Ids = {}, OwnFacts(p), Steps(p)
    PROVE  OwnFacts(p)'
<1>a. /\ op[p].at \in LockedSteps => op[p].st \in StatesAt(op[p].at)
      /\ "idle" \notin LockedSteps
      /\ OperationTypeOK
  BY DEF OwnFacts, LockedSteps, TypeOK
<1>b. LockedSteps =
        {"locked", "startCleanup", "markLost", "validate", "beginStart",
         "recoverNetwork", "replaceDisks", "exec", "persist", "awaitReady",
         "commitRunning", "commitObserved", "failCleanup", "failCommit",
         "beginStop", "stopVMM", "stopCleanup", "commitStopped",
         "release", "finalize", "createNetwork", "createDisk", "commitCreated",
         "compensate", "forget", "markError"}
  BY DEF LockedSteps
<1>c. ASSUME Return(p)
      PROVE  OwnFacts(p)'
  BY <1>a, <1>c, ReturnEffect, ReturnedFacts
<1>d. ASSUME NEW step \in LockedSteps, op[p].at \in LockedSteps, Goto(p, step),
             UNCHANGED catalogVars, op[p].st \in StatesAt(step),
             step \notin {"markLost", "commitStopped"}
      PROVE  OwnFacts(p)'
  BY <1>a, <1>d, GotoEffect, GoesOnFacts DEF catalogVars
<1>e. ASSUME NEW step \in LockedSteps, op[p].at \in LockedSteps,
             NEW v \in Pids \cup {NoPid}, GotoWith(p, step, v),
             UNCHANGED catalogVars, op[p].st \in StatesAt(step),
             step \notin {"markLost", "commitStopped"}
      PROVE  OwnFacts(p)'
  BY <1>a, <1>e, GotoWithEffect, GoesOnFacts DEF catalogVars
<1>h. ASSUME NEW step \in LockedSteps, op[p].at \in LockedSteps,
             NEW h \in BOOLEAN, GotoHolding(p, step, h),
             UNCHANGED catalogVars, op[p].st \in StatesAt(step),
             step \notin {"markLost", "commitStopped"}
      PROVE  OwnFacts(p)'
  BY <1>a, <1>h, GotoHoldingEffect, GoesOnFacts DEF catalogVars
<1>f. ASSUME NEW step \in LockedSteps, op[p].at \in LockedSteps, GotoCommitted(p, step),
             rec'[op[p].id].state \in StatesAt(step),
             step \notin {"markLost", "commitStopped"}
      PROVE  OwnFacts(p)'
  BY <1>a, <1>f, GotoCommittedEffect, CommittedFacts, StepsCatalogType
<1>1. CASE \/ CreateNetwork(p) \/ CreateDisk(p) \/ CommitCreated(p) \/ Compensate(p)
  <2>1. CASE CreateNetwork(p)
    <3>1. /\ op[p].at \in LockedSteps /\ {"createDisk", "compensate"} \subseteq LockedSteps
          /\ op[p].st \in StatesAt("createDisk") /\ op[p].st \in StatesAt("compensate")
          /\ UNCHANGED catalogVars
      BY SMTT(30), <2>1, <1>a, <1>b DEF CreateNetwork, At, StatesAt
    <3>2. Goto(p, "compensate") \/ \E h \in BOOLEAN : GotoHolding(p, "createDisk", h)
      BY <2>1 DEF CreateNetwork
    <3>3. CASE Goto(p, "compensate")
      BY SMTT(30), <1>d, <3>1, <3>3
    <3>4. ASSUME NEW h \in BOOLEAN, GotoHolding(p, "createDisk", h)
          PROVE  OwnFacts(p)'
      BY <1>h, <3>1, <3>4
    <3> QED BY <3>2, <3>3, <3>4
  <2>2. CASE CreateDisk(p)
    BY SMTT(30), <2>2, <1>a, <1>b, <1>c, <1>d DEF CreateDisk, At, AtOf, Target, StatesAt, Refused
  <2>3. CASE CommitCreated(p)
    BY SMTT(30), <2>3, <1>a, <1>b, <1>c, <1>d DEF CommitCreated, At, AtOf, Target, StatesAt, Refused
  <2>4. CASE Compensate(p)
    BY SMTT(30), <2>4, <1>a, <1>b, <1>c, <1>d DEF Compensate, At, AtOf, Target, StatesAt, Refused
  <2> QED BY <1>1, <2>1, <2>2, <2>3, <2>4
<1>2. CASE \/ ForgetReservation(p) \/ RetainError(p) \/ Validate(p)
  <2>1. CASE ForgetReservation(p)
    BY SMTT(30), <2>1, <1>a, <1>b, <1>c, <1>d DEF ForgetReservation, At, AtOf, Target, StatesAt, Refused
  <2>2. CASE RetainError(p)
    BY <2>2, <1>a, <1>b, <1>c, <1>d DEF RetainError, At, AtOf, Target, StatesAt, Refused
  <2>3. CASE Validate(p)
    BY SMTT(30), <2>3, <1>a, <1>b, <1>c, <1>d DEF Validate, At, Target, StatesAt, Startable
  <2> QED BY <1>2, <2>1, <2>2, <2>3
<1>3. CASE StartCleanup(p)
  <2>1. CASE Return(p)
    BY <1>c, <2>1
  <2>2. CASE Goto(p, "validate") /\ op[p].st # "running"
    BY SMTT(30), <1>3, <1>a, <1>b, <1>d, <2>2 DEF StartCleanup, At, StatesAt, Startable
  <2>3. CASE Goto(p, "markLost") /\ op[p].st = "running" /\ Cleanup(Target(p))
    <3>1. GoesOn(p, "markLost")
      BY <1>3, <1>a, <1>b, <2>3, GotoEffect DEF StartCleanup, At
    <3>2. Absent(op[p].id)'
      BY <1>3, <2>3, <3>1 DEF StartCleanup, Cleanup, Target, Absent, Live, GoesOn
    <3> QED
      BY <1>3, <1>b, <2>3, <3>1, <3>2
      DEF StartCleanup, At, catalogVars, OwnFacts, GoesOn, StatesAt
  <2> QED
    BY <1>3, <2>1, <2>2, <2>3 DEF StartCleanup
<1>4. CASE \/ RecoverNetwork(p) \/ AwaitReady(p) \/ CommitRunning(p) \/ FailCleanup(p)
              \/ FailCommit(p)
  <2>1. CASE RecoverNetwork(p)
    BY SMTT(30), <2>1, <1>a, <1>b, <1>c, <1>d DEF RecoverNetwork, At, AtOf, Target, StatesAt, Refused
  <2>2. CASE AwaitReady(p)
    BY SMTT(30), <2>2, <1>a, <1>b, <1>c, <1>d DEF AwaitReady, At, AtOf, Target, StatesAt, Refused
  <2>3. CASE CommitRunning(p)
    <3>1. op[p].at \in LockedSteps /\ op[p].st \in StatesAt("failCleanup")
      BY <2>3, <1>a, <1>b DEF CommitRunning, StatesAt
    <3>2. Return(p) \/ (Goto(p, "failCleanup") /\ UNCHANGED catalogVars)
      BY <2>3 DEF CommitRunning, Refused
    <3> QED BY <1>b, <1>c, <1>d, <3>1, <3>2
  <2>4. CASE FailCleanup(p)
    BY SMTT(30), <2>4, <1>a, <1>b, <1>c, <1>d DEF FailCleanup, At, Target, StatesAt
  <2>5. CASE FailCommit(p)
    BY <2>5, <1>a, <1>b, <1>c, <1>d DEF FailCommit, At, AtOf, Target, StatesAt, Refused
  <2> QED BY <1>4, <2>1, <2>2, <2>3, <2>4, <2>5
<1>5. CASE \/ StopVMM(p) \/ ReleaseResources(p) \/ CommitDeleted(p) \/ ReplaceDisks(p)
              \/ StatusWrite(p)
  <2>1. CASE StopVMM(p)
    BY SMTT(30), <2>1, <1>a, <1>b, <1>c, <1>d DEF StopVMM, At, Target, StatesAt,
      Startable, MayOwnVMM
  <2>2. CASE ReleaseResources(p)
    BY SMTT(30), <2>2, <1>a, <1>b, <1>c, <1>d DEF ReleaseResources, At, AtOf, Target, StatesAt
  <2>3. CASE CommitDeleted(p)
    BY <2>3, <1>a, <1>b, <1>c, <1>d DEF CommitDeleted, At, AtOf, Target, StatesAt
  <2>4. CASE ReplaceDisks(p)
    BY SMTT(30), <2>4, <1>a, <1>b, <1>c, <1>d DEF ReplaceDisks, At, AtOf, Target, StatesAt
  <2>5. CASE StatusWrite(p)
    BY <2>5, <1>a, <1>b, <1>c, <1>d DEF StatusWrite, At, AtOf, Target, StatesAt
  <2> QED BY <1>5, <2>1, <2>2, <2>3, <2>4, <2>5
<1>6. CASE RestoreDecide(p)
  <2>1. \/ Return(p)
        \/ Goto(p, "lock")
        \/ Goto(p, "relock")
    BY <1>6 DEF RestoreDecide
  <2>2. {"lock", "relock"} \subseteq UnlockedSteps /\ "lock" \notin LockedSteps
        /\ "relock" \notin LockedSteps
    BY DEF UnlockedSteps, LockedSteps
  <2>3. ASSUME NEW step \in {"lock", "relock"}, Goto(p, step)
        PROVE  OwnFacts(p)'
    BY <1>6, <1>a, <2>2, <2>3, GotoEffect, ReturnedFacts DEF RestoreDecide, At, GoesOn
  <2> QED
    BY <1>c, <2>1, <2>3
<1>7. CASE ExecVMM(p)
  BY SMTT(30), <1>7, <1>a, <1>b, <1>d, <1>e
  DEF ExecVMM, At, StatesAt
<1>8. CASE PersistIdentity(p)
  BY SMTT(30), <1>8, <1>a, <1>b, <1>d, <1>e
  DEF PersistIdentity, At, StatesAt
<1>9. CASE StatusRead(p)
  <2>1. \/ Return(p)
        \/ \E v \in Pids : GotoWith(p, "statusWrite", v)
    BY <1>9 DEF StatusRead
  <2>2. "statusWrite" \in UnlockedSteps /\ "statusWrite" \notin LockedSteps
    BY DEF UnlockedSteps, LockedSteps
  <2>3. ASSUME NEW v \in Pids, GotoWith(p, "statusWrite", v)
        PROVE  OwnFacts(p)'
    BY <1>9, <1>a, <2>2, <2>3, GotoWithEffect, ReturnedFacts DEF StatusRead, At, GoesOn
  <2> QED
    BY <1>c, <2>1, <2>3
<1>10. CASE RecoverStart(p)
  BY SMTT(30), <1>10, <1>a, <1>b, <1>c, <1>d, <1>e
  DEF RecoverStart, At, AtOf, Target, StartDecision, StatesAt, Startable
<1>11. CASE InspectStop(p)
  BY SMTT(30), <1>11, <1>a, <1>b, <1>c, <1>d, <1>e
  DEF InspectStop, At, AtOf, Target, StopDecision, StatesAt, Startable,
      MayOwnVMM
<1>12. CASE MarkLost(p)
  <2>1. CASE Return(p)
    BY <1>c, <2>1
  <2>2. CASE GotoCommitted(p, "validate") /\ MarkStopped(Target(p), op[p].gen, "running")
    <3>1. rec'[op[p].id].state \in StatesAt("validate")
      BY <1>12, <1>a, <1>b, <2>2 DEF MarkLost, At, AtOf, MarkStopped, Startable, Advance, TypeOK, OperationTypeOK,
         CatalogTypeOK, catalogVars, Fenced, StatesAt, Target, Move
    <3> QED
      BY <1>12, <1>b, <1>f, <2>2, <3>1 DEF MarkLost, At, AtOf
  <2> QED
    BY <1>12, <2>1, <2>2 DEF MarkLost
<1>13. CASE CommitStarting(p)
  <2>1. CASE Return(p)
    BY <1>c, <2>1
  <2>2. CASE GotoCommitted(p, "recoverNetwork") /\ BeginStart(Target(p), op[p].gen)
    <3>1. rec'[op[p].id].state \in StatesAt("recoverNetwork")
      BY SMTT(30), <1>13, <1>a, <1>b, <2>2 DEF CommitStarting, At, AtOf, BeginStart, Advance, TypeOK, OperationTypeOK,
         CatalogTypeOK, catalogVars, Fenced, StatesAt, Target, Move
    <3> QED
      BY <1>13, <1>b, <1>f, <2>2, <3>1 DEF CommitStarting, At, AtOf
  <2> QED
    BY <1>13, <2>1, <2>2 DEF CommitStarting
<1>14. CASE CommitStopping(p)
  <2>1. CASE Return(p)
    BY <1>c, <2>1
  <2>2. CASE GotoCommitted(p, "stopVMM") /\ BeginStop(Target(p), op[p].gen)
    <3>1. rec'[op[p].id].state \in StatesAt("stopVMM")
      BY SMTT(30), <1>14, <1>a, <1>b, <2>2 DEF CommitStopping, At, AtOf, BeginStop, Advance, TypeOK, OperationTypeOK,
         CatalogTypeOK, catalogVars, Fenced, StatesAt, Target, Move
    <3> QED
      BY <1>14, <1>b, <1>f, <2>2, <3>1 DEF CommitStopping, At, AtOf
  <2> QED
    BY <1>14, <2>1, <2>2 DEF CommitStopping
<1>15. CASE CommitDeleting(p)
  <2>1. CASE Return(p)
    BY <1>c, <2>1
  <2>2. CASE GotoCommitted(p, "release") /\ BeginDelete(Target(p), op[p].gen)
    <3>1. rec'[op[p].id].state \in StatesAt("release")
      BY SMTT(30), <1>15, <1>a, <1>b, <2>2 DEF CommitDeleting, At, AtOf, BeginDelete, Advance, TypeOK, OperationTypeOK,
         CatalogTypeOK, catalogVars, Fenced, StatesAt, Target, Move
    <3> QED
      BY <1>15, <1>b, <1>f, <2>2, <3>1 DEF CommitDeleting, At, AtOf
  <2> QED
    BY <1>15, <2>1, <2>2 DEF CommitDeleting
<1>16. CASE StopCleanup(p)
  <2>1. CASE Return(p) \/ StopReturns(p)
    BY <1>16, <1>a, <1>b, <1>c, <2>1, StopReturnsEffect, ReturnedFacts DEF StopCleanup, At
  <2>2. CASE Goto(p, "commitStopped") /\ op[p].st \in MayOwnVMM /\ Cleanup(Target(p))
    <3>1. GoesOn(p, "commitStopped")
      BY <1>16, <1>a, <1>b, <2>2, GotoEffect DEF StopCleanup, At
    <3>2. Absent(op[p].id)'
      BY <1>16, <2>2, <3>1 DEF StopCleanup, Cleanup, Target, Absent, Live, GoesOn
    <3> QED
      BY <1>16, <1>b, <2>2, <3>1, <3>2
      DEF StopCleanup, At, catalogVars, OwnFacts, GoesOn, StatesAt
  <2> QED
    BY <1>16, <2>1, <2>2 DEF StopCleanup
<1>17. CASE CommitStopped(p)
  BY <1>17, <1>a, <1>b, <1>c, StopReturnsEffect, ReturnedFacts DEF CommitStopped, At
<1>18. CASE Reconcile(p)
  BY SMTT(30), <1>18, <1>a, <1>b, <1>c, <1>d, <1>e, ContinueEffect, ReturnedFacts
  DEF Reconcile, At, AtOf, Target, ReconcileDecision, StatesAt, MayOwnVMM
<1>19. CASE AcquireLock(p)
  <2>1. CASE Return(p)
    BY <1>c, <2>1
  <2>2. CASE ~Return(p)
    <3> DEFINE i == op[p].id
    <3>1. i \in Ids /\ op[p].at # "idle" /\ "locked" \in LockedSteps
      BY <1>19, <1>a, <1>b DEF AcquireLock, At, OperationTypeOK
    <3>2. Resolve(i) # NoId
      BY <1>19, <2>2 DEF AcquireLock, Target
    <3>3. Resolve(i) = i /\ rec[i].state # "none"
      BY <3>1, <3>2, SecondResolve
    <3>4. /\ op'[p].at = "locked" /\ op'[p].id = i /\ lock'[i] = p
          /\ op'[p].st = rec[i].state /\ op'[p].gen = rec[i].gen
      BY <1>19, <1>a, <2>2, <3>1, <3>2, <3>3, LockedOnEffect DEF AcquireLock, Target, TypeOK
    <3>5. rec[i].state \in StatesAt("locked")
      BY <1>19, <2>2, <3>1, <3>2, <3>3 DEF AcquireLock, Target, StatesAt, TypeOK, CatalogTypeOK, Record
    <3> QED
      BY <1>19, <3>4, <3>5 DEF AcquireLock, OwnFacts, catalogVars
  <2> QED
    BY <2>1, <2>2
<1>20. CASE RestoreRelock(p)
  <2>1. CASE Return(p)
    BY <1>c, <2>1
  <2>2. CASE ~Return(p)
    <3> DEFINE i == op[p].id
    <3>1. i \in Ids /\ op[p].at # "idle" /\ "beginStart" \in LockedSteps
      BY <1>20, <1>a, <1>b DEF RestoreRelock, At, OperationTypeOK
    <3>2. Resolve(i) # NoId
      BY <1>20, <2>2 DEF RestoreRelock, Target
    <3>3. Resolve(i) = i /\ rec[i].state # "none"
      BY <3>1, <3>2, SecondResolve
    <3>4. /\ op'[p].at = "beginStart" /\ op'[p].id = i /\ lock'[i] = p
          /\ op'[p].st = rec[i].state /\ op'[p].gen = rec[i].gen
      <4>1. /\ lock[i] = NoProc /\ lock' = [lock EXCEPT ![i] = p]
            /\ Become(p, [op[p] EXCEPT !.at = "beginStart", !.id = i,
                             !.st = rec[i].state, !.gen = rec[i].gen])
        BY <1>20, <2>2, <3>2, <3>3 DEF RestoreRelock, Target
      <4> QED BY <1>a, <3>1, <4>1, LockedOnEffect DEF TypeOK
    <3>5. rec[i].state \in StatesAt("beginStart")
      BY <1>20, <2>2, <3>1, <3>2, <3>3
      DEF RestoreRelock, Target, StatesAt, TypeOK, CatalogTypeOK, Record, Startable
    <3> QED
      BY <1>20, <3>4, <3>5 DEF RestoreRelock, OwnFacts, catalogVars
  <2> QED
    BY <2>1, <2>2
<1> QED
  BY <1>1, <1>2, <1>3, <1>4, <1>5, <1>6, <1>7, <1>8, <1>9, <1>10, <1>11,
     <1>12, <1>13, <1>14, <1>15, <1>16, <1>17, <1>18, <1>19, <1>20 DEF Steps

\* The states whose record promises that nothing executes.
Off == {"creating", "created", "stopped"}

\* A record becomes Created or Stopped only when nothing executes.
LEMMA StepsPublishOff ==
    ASSUME NEW p \in Procs, TypeOK, OwnFacts(p), StoppedMeansAbsent, Steps(p)
    PROVE  \A i \in Ids : rec'[i].state \in Off /\ rec'[i] # rec[i] => Absent(i)'
<1>a. op[p].at # "idle" => op[p].id \in Ids
  BY DEF TypeOK, OperationTypeOK
<1>b. ASSUME NEW i \in Ids, NEW to \in States \ Off, Advance(i, to)
      PROVE  \A j \in Ids : rec'[j].state \in Off => rec'[j] = rec[j]
  BY <1>b DEF TypeOK, CatalogTypeOK, Advance
<1>c. ASSUME NEW i \in Ids, DeleteRecord(i)
      PROVE  \A j \in Ids : rec'[j].state \in Off => rec'[j] = rec[j]
  BY <1>c DEF TypeOK, CatalogTypeOK, DeleteRecord, NoRecord, Off
<1>d. {"error", "running", "starting", "stopping", "deleting"} \subseteq States \ Off
  BY DEF States, Off
<1>e. ASSUME UNCHANGED driverVars, NEW i \in Ids, Absent(i)
      PROVE  Absent(i)'
  BY <1>e DEF driverVars, Absent, Live
<1>1. CASE \/ AcquireLock(p) \/ CreateNetwork(p) \/ CreateDisk(p) \/ Compensate(p)
              \/ RecoverStart(p) \/ StartCleanup(p) \/ Validate(p) \/ RecoverNetwork(p)
              \/ ExecVMM(p) \/ PersistIdentity(p) \/ AwaitReady(p) \/ FailCleanup(p)
              \/ InspectStop(p) \/ StopVMM(p) \/ StopCleanup(p) \/ ReleaseResources(p)
              \/ RestoreDecide(p) \/ RestoreRelock(p) \/ ReplaceDisks(p) \/ StatusRead(p)
              \/ StatusWrite(p)
  BY <1>1
  DEF AcquireLock, CreateNetwork, CreateDisk, Compensate, RecoverStart,
      StartCleanup, Validate, RecoverNetwork, ExecVMM, PersistIdentity,
      AwaitReady, FailCleanup, InspectStop, StopVMM, StopCleanup,
      ReleaseResources, RestoreDecide, RestoreRelock, ReplaceDisks,
      StatusRead, StatusWrite, catalogVars
<1>2. CASE \/ RetainError(p) \/ CommitRunning(p) \/ FailCommit(p)
  BY <1>2, <1>a, <1>b, <1>d
  DEF RetainError, CommitRunning, FailCommit, catalogVars, At, AtOf, Target,
      Refused, MarkError, MarkRunning, MarkStartError, Move
<1>3. CASE CommitCreated(p)
  <2>1. \A i \in Ids : rec'[i] # rec[i] =>
            i = op[p].id /\ rec[i].state = "creating" /\ UNCHANGED driverVars
    BY <1>3, <1>a, StepsChangeOwnRecord
    DEF CommitCreated, MarkCreated, Fenced, Refused, catalogVars, Target
  <2> QED
    BY <1>e, <2>1 DEF StoppedMeansAbsent
<1>4. CASE MarkLost(p)
  <2>1. \A i \in Ids : rec'[i] # rec[i] => i = op[p].id
    BY StepsChangeOwnRecord
  <2>2. Absent(op[p].id) /\ op[p].id \in Ids /\ UNCHANGED driverVars
    BY <1>4, <1>a DEF MarkLost, At, OwnFacts, LockedSteps
  <2> QED
    BY <1>e, <2>1, <2>2
<1>5. CASE CommitStopped(p)
  <2>1. \A i \in Ids : rec'[i] # rec[i] => i = op[p].id
    BY StepsChangeOwnRecord
  <2>2. Absent(op[p].id) /\ op[p].id \in Ids /\ UNCHANGED driverVars
    BY <1>5, <1>a DEF CommitStopped, At, OwnFacts, LockedSteps
  <2> QED
    BY <1>e, <2>1, <2>2
<1>6. CASE \/ ForgetReservation(p) \/ CommitDeleted(p)
  BY <1>6, <1>a, <1>c
  DEF ForgetReservation, CommitDeleted, catalogVars, At, AtOf, Target,
      Refused, Forget, FinalizeDelete
<1>7. CASE \/ CommitStarting(p) \/ CommitStopping(p)
  BY <1>7, <1>a, <1>b, <1>d
  DEF CommitStarting, CommitStopping, catalogVars, At, AtOf, Target, Refused,
      BeginStart, BeginStop, Move
<1>8. CASE \/ CommitDeleting(p) \/ Reconcile(p)
  BY <1>8, <1>a, <1>b, <1>d
  DEF CommitDeleting, Reconcile, catalogVars, At, AtOf, Target, Refused,
      BeginDelete, Move
<1> QED
  BY <1>1, <1>2, <1>3, <1>4, <1>5, <1>6, <1>7, <1>8 DEF Steps

\* The invariant, operation by operation.
LEMMA InvFacts ==
    LifecycleInv <=>
        /\ TypeOK /\ OnlyIssuedIds /\ StoppedMeansAbsent
        /\ \A p \in Procs : OwnFacts(p)
<1>1. {"markLost", "commitStopped"} \subseteq LockedSteps
  BY DEF LockedSteps
<1> QED
  BY <1>1
  DEF LifecycleInv, OwnFacts, OperationHoldsLock, CopyIsCurrent, StepMatchesState,
      AbsenceProvenHolds

\* The same of the next state.
LEMMA InvFactsPrime ==
    LifecycleInv' <=>
        /\ TypeOK' /\ OnlyIssuedIds' /\ StoppedMeansAbsent'
        /\ \A p \in Procs : OwnFacts(p)'
<1>1. {"markLost", "commitStopped"} \subseteq LockedSteps
  BY DEF LockedSteps
<1> QED
  BY <1>1
  DEF LifecycleInv, OwnFacts, OperationHoldsLock, CopyIsCurrent, StepMatchesState,
      AbsenceProvenHolds

\* A step with a proper frame and good facts of its own keeps the invariant.
LEMMA FramedStep ==
    ASSUME LifecycleInv, TypeOK', NEW p \in Procs, OthersKeep(p), OwnFacts(p)',
           \A i \in Ids : rec'[i] # rec[i] =>
                \/ op[p].at \in LockedSteps /\ i = op[p].id
                \/ lock[i] = NoProc /\ i \in issued',
           \A i \in Ids : Absent(i) => Absent(i)' \/ (op[p].at = "exec" /\ i = op[p].id),
           \A i \in Ids : rec'[i].state \in Off /\ rec'[i] # rec[i] => Absent(i)',
           issued \subseteq issued'
    PROVE  LifecycleInv'
<1>1. /\ TypeOK /\ OnlyIssuedIds /\ StoppedMeansAbsent
      /\ \A q \in Procs : OwnFacts(q)
  BY InvFacts
<1>2. "exec" \in LockedSteps /\ StatesAt("exec") = {"starting"} /\ "idle" \notin LockedSteps
  BY DEF LockedSteps, StatesAt
<1>3. ASSUME NEW q \in Procs, q # p
      PROVE  OwnFacts(q)'
  <2>1. CASE op[q].at \in LockedSteps
    <3>1. PICK i \in Ids : i = op[q].id /\ op'[q] = op[q] /\ lock[i] = q
      BY SMTT(30), <1>1, <1>2, <1>3, <2>1 DEF OthersKeep, OwnFacts, TypeOK, OperationTypeOK
    <3>2. ~(op[p].at \in LockedSteps /\ i = op[p].id)
      BY <1>1, <1>3, <3>1 DEF OwnFacts
    <3>3. lock'[i] = q /\ rec'[i] = rec[i]
      BY <1>3, <3>1, <3>2, NoProcAssumption DEF OthersKeep
    <3>4. op[q].at \in {"markLost", "commitStopped"} => Absent(i)'
      BY <1>1, <1>2, <2>1, <3>1, <3>2 DEF OwnFacts
    <3>5. rec[i].state = op[q].st /\ rec[i].gen = op[q].gen /\ op[q].st \in StatesAt(op[q].at)
      BY <1>1, <2>1, <3>1 DEF OwnFacts
    <3>6. op'[q].at \in {"markLost", "commitStopped"} => Absent(op[q].id)'
      BY <3>1, <3>4 DEF Absent, Live
    <3>7. op'[q].id = i
      BY <3>1
    <3> QED
      BY <3>1, <3>3, <3>5, <3>6, <3>7 DEF OwnFacts
  <2>2. CASE op[q].at \notin LockedSteps
    BY <1>3, <2>2 DEF OthersKeep, OwnFacts
  <2> QED
    BY <2>1, <2>2
<1>4. OnlyIssuedIds'
  <2>1. ASSUME op[p].at \in LockedSteps
        PROVE  op[p].id \in Ids /\ rec[op[p].id].state # "none"
    BY SMTT(30), <1>1, <1>2, <2>1
    DEF OwnFacts, StatesAt, TypeOK, OperationTypeOK, Startable, MayOwnVMM, States
  <2>2. ASSUME op[p].at \in LockedSteps
        PROVE  op[p].id \in issued'
    BY <1>1, <2>1, <2>2 DEF OnlyIssuedIds, Exists
  <2>3. ASSUME NEW i \in Ids, i \notin issued'
        PROVE  rec'[i] = rec[i] /\ Absent(i)' /\ rec[i].state = "none"
    BY <1>1, <1>2, <2>2, <2>3 DEF OnlyIssuedIds, Exists
  <2> QED
    BY <2>3 DEF OnlyIssuedIds, Exists
<1>5. StoppedMeansAbsent'
  <2>1. ASSUME NEW i \in Ids, rec'[i].state \in Off
        PROVE  Absent(i)'
    <3>1. CASE rec'[i] # rec[i]
      BY <2>1, <3>1
    <3>2. CASE rec'[i] = rec[i]
      <4>1. Absent(i)
        BY <1>1, <2>1, <3>2 DEF StoppedMeansAbsent, Off
      <4>2. ~(op[p].at = "exec" /\ i = op[p].id)
        <5> SUFFICES ASSUME op[p].at = "exec", i = op[p].id PROVE FALSE
          OBVIOUS
        <5>1. rec[i].state = "starting"
          BY <1>1, <1>2 DEF OwnFacts
        <5> QED
          BY <2>1, <3>2, <5>1 DEF Off
      <4> QED
        BY <4>1, <4>2
    <3> QED
      BY <3>1, <3>2
  <2> QED
    BY <2>1 DEF StoppedMeansAbsent, Off
<1> QED
  BY <1>3, <1>4, <1>5, InvFactsPrime

\* A step of an operation keeps the invariant.
LEMMA StepsKeepInv ==
    ASSUME LifecycleInv, Names \cap Ids = {}, NEW p \in Procs, Steps(p)
    PROVE  LifecycleInv'
<1>1. TypeOK /\ StoppedMeansAbsent /\ OwnFacts(p)
  BY InvFacts
<1>2. TypeOK' /\ OthersKeep(p) /\ OwnFacts(p)'
  BY <1>1, StepsType, StepsOthersKeep, StepsOwnFacts
<1>3. issued' = issued
  BY <1>1, StepsFault DEF Fault, NoFault, budgetVars
<1> QED
  BY <1>1, <1>2, <1>3, StepsChangeOwnRecord, StepsLaunchOwn, StepsPublishOff, FramedStep

\* Taking up an operation keeps the invariant.
LEMMA IssuesKeepInv ==
    ASSUME LifecycleInv, Names \cap Ids = {}, NEW p \in Procs, Issues(p)
    PROVE  LifecycleInv'
<1>a. TypeOK /\ TypeOK' /\ OperationTypeOK /\ OnlyIssuedIds
  BY InvFacts, IssuesType DEF TypeOK
<1>b. ASSUME NEW o \in Op, o.id \in Ids, Become(p, o), UNCHANGED lock,
             o.at \notin LockedSteps, UNCHANGED catalogVars, UNCHANGED driverVars,
             issued' = issued
      PROVE  LifecycleInv'
  <2>1. OthersKeep(p) /\ OwnFacts(p)'
    BY <1>a, <1>b, BecomeType DEF OthersKeep, OwnFacts
  <2>2. \A i \in Ids : rec'[i] = rec[i] /\ (Absent(i) => Absent(i)')
    BY <1>b DEF catalogVars, driverVars, Absent, Live
  <2> QED
    BY <1>a, <1>b, <2>1, <2>2, FramedStep
<1>c. ASSUME NEW ref, Resolve(ref) # NoId
      PROVE  /\ Resolve(ref) \in Ids
             /\ rec[Resolve(ref)].state \in States /\ rec[Resolve(ref)].gen \in Nat
  BY <1>a, <1>c, ResolveType DEF TypeOK, Record
<1>d. /\ {"lock", "restoreDecide", "statusRead"} \subseteq UnlockedSteps
      /\ {"locked", "createNetwork"} \subseteq LockedSteps
      /\ "lock" \notin LockedSteps /\ "restoreDecide" \notin LockedSteps
      /\ "statusRead" \notin LockedSteps
      /\ {"start", "stop", "remove", "create", "restore", "status", "reconcile"}
            \subseteq OpKinds
      /\ "none" \in States /\ "creating" \in States
  BY DEF LockedSteps, UnlockedSteps, OpKinds, States
<1>1. CASE Issue(p)
  <2>1. PICK k \in {"start", "stop", "remove"}, ref \in Ids \cup Names :
            /\ Resolve(ref) # NoId
            /\ Become(p, [Idle EXCEPT !.at = "lock", !.kind = k, !.id = Resolve(ref)])
    BY <1>1 DEF Issue
  <2> DEFINE o == [Idle EXCEPT !.at = "lock", !.kind = k, !.id = Resolve(ref)]
  <2>2. o \in Op /\ o.id \in Ids /\ o.at = "lock"
    BY <1>c, <1>d, <2>1 DEF Idle, Op
  <2> QED
    BY <1>1, <1>b, <1>d, <2>1, <2>2 DEF Issue, Request
<1>2. CASE IssueRestore(p)
  <2>1. PICK ref \in Ids \cup Names :
            /\ Resolve(ref) # NoId
            /\ Become(p, [Idle EXCEPT !.at = "restoreDecide", !.kind = "restore",
                            !.id = Resolve(ref), !.st = rec[Resolve(ref)].state])
    BY <1>2 DEF IssueRestore
  <2> DEFINE o == [Idle EXCEPT !.at = "restoreDecide", !.kind = "restore",
                               !.id = Resolve(ref), !.st = rec[Resolve(ref)].state]
  <2>2. o \in Op /\ o.id \in Ids /\ o.at = "restoreDecide"
    BY <1>c, <1>d, <2>1 DEF Idle, Op
  <2> QED
    BY <1>2, <1>b, <1>d, <2>1, <2>2 DEF IssueRestore, Request
<1>3. CASE IssueStatus(p)
  <2>1. PICK i \in Ids :
            Become(p, [Idle EXCEPT !.at = "statusRead", !.kind = "status", !.id = i,
                                   !.st = rec[i].state, !.gen = rec[i].gen])
    BY <1>3 DEF IssueStatus
  <2> DEFINE o == [Idle EXCEPT !.at = "statusRead", !.kind = "status", !.id = i,
                               !.st = rec[i].state, !.gen = rec[i].gen]
  <2>2. rec[i].state \in States /\ rec[i].gen \in Nat
    BY <1>a DEF TypeOK, CatalogTypeOK, Record
  <2>3. o \in Op /\ o.id \in Ids /\ o.at = "statusRead"
    BY <1>d, <2>2 DEF Idle, Op
  <2> QED
    BY <1>3, <1>b, <1>d, <2>1, <2>3 DEF IssueStatus, Request
<1>4. CASE IssueCreate(p)
  <2>1. PICK i \in Ids \ issued, n \in Names, s \in Policies :
            /\ lock[i] = NoProc /\ Reserve(i, n, s) /\ lock' = [lock EXCEPT ![i] = p]
            /\ Become(p, [Idle EXCEPT !.at = "createNetwork", !.kind = "create",
                                      !.id = i, !.st = "creating", !.gen = 1])
            /\ issued' = issued \cup {i}
    BY <1>4 DEF IssueCreate
  <2> DEFINE o == [Idle EXCEPT !.at = "createNetwork", !.kind = "create",
                               !.id = i, !.st = "creating", !.gen = 1]
  <2>2. o \in Op /\ o.id = i /\ o.at = "createNetwork" /\ o.st = "creating" /\ o.gen = 1
    BY <1>d DEF Idle, Op
  <2>3. /\ op'[p] = o
        /\ \A q \in Procs : q # p => op'[q] = op[q]
    BY <1>a, <2>1, <2>2, BecomeType
  <2>4. OthersKeep(p) /\ op'[p] = o
    BY <1>a, <2>1, <2>3 DEF OthersKeep, OperationTypeOK
  <2>5. /\ rec'[i].state = "creating" /\ rec'[i].gen = 1
        /\ \A j \in Ids : j # i => rec'[j] = rec[j]
    BY <1>a, <2>1 DEF Reserve, TypeOK, CatalogTypeOK
  <2>6. /\ Absent(i)
        /\ \A j \in Ids : Absent(j) => Absent(j)'
    BY <1>4, <1>a, <2>1 DEF OnlyIssuedIds, IssueCreate, driverVars, Absent, Live
  <2>7. lock'[i] = p
    BY <1>a, <2>1 DEF OperationTypeOK
  <2>8. OwnFacts(p)'
    BY <2>2, <2>4, <2>5, <2>7 DEF OwnFacts, StatesAt
  <2> QED
    BY <1>a, <2>1, <2>4, <2>5, <2>6, <2>8, FramedStep
<1>5. ASSUME NEW i \in Ids, IssueReconcile(p, i)
      PROVE  LifecycleInv'
  <2>1. Resolve(i) = i /\ rec[i].state # "none"
    BY <1>5, SecondResolve DEF IssueReconcile
  <2> DEFINE o == [Idle EXCEPT !.at = "locked", !.kind = "reconcile", !.id = i,
                               !.st = rec[i].state, !.gen = rec[i].gen]
  <2>2. Become(p, o) /\ lock' = [lock EXCEPT ![i] = p] /\ lock[i] = NoProc
    BY <1>5, <2>1 DEF IssueReconcile
  <2>3. rec[i].state \in States /\ rec[i].gen \in Nat
    BY <1>a DEF TypeOK, CatalogTypeOK, Record
  <2>4. /\ o \in Op /\ o.id = i /\ o.at = "locked"
        /\ o.st = rec[i].state /\ o.gen = rec[i].gen
    BY <1>d, <2>3 DEF Idle, Op
  <2>5. OthersKeep(p) /\ op'[p] = o /\ lock'[i] = p
    <3>1. op'[p] = o /\ \A q \in Procs : q # p => op'[q] = op[q]
      BY <1>a, <1>5, <2>2, <2>4, BecomeType
    <3>2. lock'[i] = p /\ \A j \in Ids \ {i} : lock'[j] = lock[j]
      BY <1>a, <2>2 DEF OperationTypeOK
    <3> QED BY <2>2, <3>1, <3>2 DEF OthersKeep
  <2>6. /\ rec' = rec /\ issued' = issued
        /\ \A j \in Ids : Absent(j) => Absent(j)'
    BY <1>5 DEF IssueReconcile, NoFault, budgetVars, catalogVars, driverVars, Absent, Live
  <2>7. OwnFacts(p)'
    BY <2>1, <2>3, <2>4, <2>5, <2>6 DEF OwnFacts, StatesAt
  <2> QED
    BY <1>a, <2>5, <2>6, <2>7, FramedStep
<1>6. ASSUME NEW i \in Ids, CollectOrphan(p, i)
      PROVE  LifecycleInv'
  <2>1. OwnFacts(p)
    BY InvFacts
  <2>2. UNCHANGED <<rec, vm, lock, op, issued>>
    BY <1>6 DEF CollectOrphan, Fault, NoFault, budgetVars, catalogVars
  <2>3. OthersKeep(p) /\ OwnFacts(p)'
    BY <2>1, <2>2 DEF OthersKeep, OwnFacts, Absent, Live
  <2>4. \A j \in Ids : Absent(j) => Absent(j)'
    BY <2>2 DEF Absent, Live
  <2> QED
    BY <1>a, <2>2, <2>3, <2>4, FramedStep
<1> QED
  BY <1>1, <1>2, <1>3, <1>4, <1>5, <1>6 DEF Issues

\* Crashes release locks and forget copies, VMMs only disappear by themselves.
LEMMA EnvironmentKeepsInv ==
    ASSUME LifecycleInv,
           \/ \E p \in Procs : Crash(p)
           \/ \E v \in Pids : VmReady(v) \/ VmExit(v)
           \/ HostReboot
    PROVE  LifecycleInv'
<1>a. TypeOK /\ TypeOK'
  BY InvFacts, EnvironmentType
<1>1. ASSUME NEW p \in Procs, Crash(p)
      PROVE  LifecycleInv'
  <2>1. OthersKeep(p) /\ op'[p].at = "idle"
    BY <1>a, <1>1, ReturnEffect DEF Crash, TypeOK
  <2>2. OwnFacts(p)'
    BY <2>1, ReturnedFacts DEF LockedSteps
  <2>3. /\ rec' = rec /\ issued' = issued
        /\ \A j \in Ids : Absent(j) => Absent(j)'
    BY <1>1 DEF Crash, Fault, catalogVars, driverVars, Absent, Live
  <2> QED
    BY <1>a, <2>1, <2>2, <2>3, FramedStep
<1>2. ASSUME NEW v \in Pids, VmReady(v) \/ VmExit(v)
      PROVE  LifecycleInv'
  <2>1. /\ UNCHANGED <<rec, lock, op, issued>>
        /\ \A j \in Ids : Absent(j) => Absent(j)'
    <3>1. UNCHANGED <<rec, lock, op, issued>>
      BY <1>2 DEF VmReady, VmExit, catalogVars, budgetVars
    <3>2. \A w \in Pids : vm'[w].id = vm[w].id \/ vm'[w].id = NoId
      BY SMTT(30), <1>a, <1>2
      DEF VmReady, VmExit, BecomeReady, Terminate, NoVm, TypeOK, DriverTypeOK, Vm
    <3> QED
      BY <3>1, <3>2, NoIdAssumption DEF Absent, Live
  <2>2. \A p \in Procs : OwnFacts(p) => OwnFacts(p)'
    <3> SUFFICES ASSUME NEW p \in Procs, OwnFacts(p)
                 PROVE  OwnFacts(p)'
      OBVIOUS
    <3>1. op[p].at \in LockedSteps => op[p].id \in Ids
      BY <1>a DEF TypeOK, OperationTypeOK, LockedSteps
    <3>2. op'[p].at \in {"markLost", "commitStopped"} => Absent(op[p].id)'
      BY <2>1, <3>1 DEF OwnFacts, LockedSteps
    <3> QED
      BY <2>1, <3>1, <3>2 DEF OwnFacts
  <2> QED
    BY <1>a, <2>1, <2>2, InvFacts, InvFactsPrime DEF OnlyIssuedIds, StoppedMeansAbsent, Exists
<1>3. CASE HostReboot
  <2>1. \A i \in Ids : Absent(i)'
    BY <1>3, NoIdAssumption DEF HostReboot, Absent, Live, NoVm
  <2>2. \A p \in Procs : OwnFacts(p)'
    BY <1>3 DEF HostReboot, OwnFacts, Idle, LockedSteps
  <2>3. rec' = rec /\ issued' = issued
    BY <1>3 DEF HostReboot, Fault, catalogVars
  <2> QED
    BY <1>a, <2>1, <2>2, <2>3, InvFacts, InvFactsPrime
    DEF OnlyIssuedIds, StoppedMeansAbsent, Exists
<1> QED
  BY <1>1, <1>2, <1>3

\* The invariant holds on the empty host.
LEMMA InitInv == Init => LifecycleInv
<1> SUFFICES ASSUME Init
             PROVE  LifecycleInv
  OBVIOUS
<1>1. TypeOK
  BY InitType
<1>2. \A i \in Ids : Absent(i) /\ rec[i].state = "none"
  BY NoIdAssumption DEF Init, CatalogInit, DriverInit, NoRecord, NoVm, Absent, Live
<1>3. \A p \in Procs : op[p].at \notin LockedSteps
  BY DEF Init, Idle, LockedSteps
<1> QED
  BY <1>1, <1>2, <1>3, InvFacts DEF OwnFacts, OnlyIssuedIds, StoppedMeansAbsent, Exists

\* Every step of the system keeps the invariant.
LEMMA NextKeepsInv ==
    ASSUME LifecycleInv, Names \cap Ids = {}, [Next]_vars
    PROVE  LifecycleInv'
<1>1. CASE Next
  BY <1>1, StepsKeepInv, IssuesKeepInv, EnvironmentKeepsInv DEF Next
<1>2. CASE UNCHANGED vars
  <2>1. TypeOK'
    BY <1>2, NextType, InvFacts
  <2>2. \A p \in Procs : OwnFacts(p) => OwnFacts(p)'
    BY <1>2 DEF vars, OwnFacts, Absent, Live
  <2> QED
    BY <1>2, <2>1, <2>2, InvFacts, InvFactsPrime
    DEF vars, OnlyIssuedIds, StoppedMeansAbsent, Exists, Absent, Live
<1> QED
  BY <1>1, <1>2

\* With names that are never IDs, the invariant holds in every run.
THEOREM LifecycleInvariant ==
    ASSUME Names \cap Ids = {}
    PROVE  Spec => []LifecycleInv
<1>1. LifecycleInv /\ [Next]_vars => LifecycleInv'
  BY NextKeepsInv
<1> QED
  BY <1>1, InitInv, PTL DEF Spec

\* The two-resolve protocol of sandbox_lock.go: past its lock step an operation
\* holds the lock of the sandbox it works on, its copy of the record is the
\* stored one and in a state its handler expects, and an absence it proved lasts.
THEOREM LockedOperationsAreCurrent ==
    ASSUME Names \cap Ids = {}
    PROVE  Spec => []LockProtectsWork
<1>1. LifecycleInv => LockProtectsWork
  BY DEF LifecycleInv, LockProtectsWork
<1> QED
  BY <1>1, LifecycleInvariant, PTL

\* A record that says Creating, Created or Stopped has no VMM on the host.
THEOREM StoppedIsStopped ==
    ASSUME Names \cap Ids = {}
    PROVE  Spec => []StoppedMeansAbsent
<1>1. LifecycleInv => StoppedMeansAbsent
  BY DEF LifecycleInv
<1> QED
  BY <1>1, LifecycleInvariant, PTL

-----------------------------------------------------------------------------
(* The lifecycle implements SandboxContract: every step of an operation, of *)
(* a crash or of the host is one step of the contract or none.              *)

\* The mapped variables.
PubState == [i \in Ids |-> rec[i].state]
PubGen == [i \in Ids |-> rec[i].gen]
Executes == [i \in Ids |-> ~Absent(i)]

\* The published view changes at i and nowhere else.
PublishedAt(i, to, g) ==
    /\ PubState' = [PubState EXCEPT ![i] = to]
    /\ PubGen' = [PubGen EXCEPT ![i] = g]
    /\ Executes' = Executes

\* Nothing is published and no VMM appears.
Quiet ==
    /\ PubState' = PubState /\ PubGen' = PubGen
    /\ \A i \in Ids : Executes'[i] => Executes[i]

\* The contract lets a client see this change of state.
Edge(from, to) == <<from, to>> \in Contract!Graph

\* Publishing nothing while VMMs at most disappear is PowerOff or a stutter.
LEMMA QuietStep ==
    ASSUME Quiet
    PROVE  Contract!ContractNext
BY DEF Quiet, PubState, PubGen, Executes, Contract!ContractNext, Contract!PowerOff

\* A change along an edge of the graph is a publication.
LEMMA PublishStep ==
    ASSUME NEW i \in Ids, NEW to, Edge(PubState[i], to), to \in Off => ~Executes[i],
           PublishedAt(i, to, PubGen[i] + 1)
    PROVE  Contract!ContractNext
BY DEF Edge, PublishedAt, PubState, PubGen, Executes, Off, Contract!Off,
       Contract!ContractNext, Contract!Publish, Contract!Graph

\* Losing a Creating or Deleting record is a disappearance.
LEMMA DisappearStep ==
    ASSUME NEW i \in Ids, PubState[i] \in {"creating", "deleting"},
           PublishedAt(i, "none", 0)
    PROVE  Contract!ContractNext
BY DEF PublishedAt, PubState, PubGen, Executes, Contract!ContractNext, Contract!Disappear

\* A reservation of an unused ID is an appearance.
LEMMA AppearStep ==
    ASSUME NEW i \in Ids, PubState[i] = "none", ~Executes[i],
           PublishedAt(i, "creating", 1)
    PROVE  Contract!ContractNext
BY DEF PublishedAt, PubState, PubGen, Executes, Contract!ContractNext, Contract!Appear

\* A launch under a Starting record is PowerOn.
LEMMA PowerOnStep ==
    ASSUME NEW i \in Ids, PubState[i] = "starting", PubState' = PubState, PubGen' = PubGen,
           Executes' = [Executes EXCEPT ![i] = TRUE]
    PROVE  Contract!ContractNext
BY DEF PubState, PubGen, Executes, Contract!ContractNext, Contract!PowerOn

\* transition: a fenced change of one record is a publication.
LEMMA AdvanceStep ==
    ASSUME TypeOK, NEW i \in Ids, NEW to, Advance(i, to), UNCHANGED vm,
           Edge(rec[i].state, to), to \in Off => Absent(i)
    PROVE  Contract!ContractNext
<1>1. PublishedAt(i, to, PubGen[i] + 1)
  BY DEF TypeOK, CatalogTypeOK, Advance, PublishedAt, PubState, PubGen, Executes, Absent, Live
<1> QED
  BY <1>1, PublishStep DEF PubState, Executes

\* deleteRecord: the sandbox disappears from its client.
LEMMA DeleteStep ==
    ASSUME TypeOK, NEW i \in Ids, DeleteRecord(i), UNCHANGED vm,
           rec[i].state \in {"creating", "deleting"}
    PROVE  Contract!ContractNext
<1>1. PublishedAt(i, "none", 0)
  BY DEF TypeOK, CatalogTypeOK, DeleteRecord, NoRecord, PublishedAt, PubState, PubGen,
         Executes, Absent, Live
<1> QED
  BY <1>1, DisappearStep DEF PubState

\* A step that leaves the records alone and launches nothing.
LEMMA SilentStep ==
    ASSUME UNCHANGED rec, \A i \in Ids : Absent(i) => Absent(i)'
    PROVE  Contract!ContractNext
BY QuietStep DEF Quiet, PubState, PubGen, Executes

\* Each step of an operation is one step of the contract or none.
LEMMA StepsRefine ==
    ASSUME NEW p \in Procs, TypeOK, OwnFacts(p), StoppedMeansAbsent, Steps(p)
    PROVE  Contract!ContractNext
<1>a. op[p].at # "idle" => op[p].id \in Ids
  BY DEF TypeOK, OperationTypeOK
<1>b. ASSUME UNCHANGED catalogVars, UNCHANGED driverVars
      PROVE  Contract!ContractNext
  BY <1>b, SilentStep DEF catalogVars, driverVars, Absent, Live
<1>c. ASSUME UNCHANGED catalogVars, op[p].at # "exec"
      PROVE  Contract!ContractNext
  BY <1>c, SilentStep, StepsLaunchOwn DEF catalogVars
<1>1. CASE \/ AcquireLock(p) \/ CreateNetwork(p) \/ CreateDisk(p) \/ Compensate(p)
              \/ RecoverStart(p) \/ StartCleanup(p) \/ Validate(p) \/ RecoverNetwork(p)
              \/ PersistIdentity(p) \/ AwaitReady(p) \/ FailCleanup(p) \/ InspectStop(p)
              \/ StopVMM(p) \/ StopCleanup(p) \/ ReleaseResources(p) \/ RestoreDecide(p)
              \/ RestoreRelock(p) \/ ReplaceDisks(p) \/ StatusRead(p) \/ StatusWrite(p)
  BY <1>1, <1>c
  DEF AcquireLock, CreateNetwork, CreateDisk, Compensate, RecoverStart,
      StartCleanup, Validate, RecoverNetwork, PersistIdentity, AwaitReady,
      FailCleanup, InspectStop, StopVMM, StopCleanup, ReleaseResources,
      RestoreDecide, RestoreRelock, ReplaceDisks, StatusRead, StatusWrite, At,
      AtOf
<1>2. CASE ExecVMM(p)
  <2>1. rec[op[p].id].state = "starting" /\ op[p].id \in Ids
    BY <1>2, <1>a DEF ExecVMM, At, OwnFacts, StatesAt, LockedSteps
  <2>2. CASE vm' = vm
    BY <1>2, <2>2, SilentStep DEF ExecVMM, catalogVars, Absent, Live
  <2>3. ASSUME NEW v \in Pids, Exec(op[p].id, op[p].gen, v)
        PROVE  Contract!ContractNext
    <3>1. \A w \in Pids : vm'[w].id = IF w = v THEN op[p].id ELSE vm[w].id
      BY <2>3 DEF Exec, TypeOK, DriverTypeOK
    <3>2. vm[v].id = NoId
      BY <2>3 DEF Exec
    <3>3. \A i \in Ids : Absent(i)' <=> Absent(i) /\ i # op[p].id
      BY <2>1, <3>1, <3>2, NoIdAssumption DEF Absent, Live
    <3>4. Executes' = [Executes EXCEPT ![op[p].id] = TRUE]
      BY <2>1, <3>3 DEF Executes
    <3>5. PubState' = PubState /\ PubGen' = PubGen /\ PubState[op[p].id] = "starting"
      BY <1>2, <2>1 DEF ExecVMM, catalogVars, PubState, PubGen
    <3> QED
      BY <2>1, <3>4, <3>5, PowerOnStep
  <2> QED
    BY <1>2, <2>2, <2>3 DEF ExecVMM, Target
<1>3. CASE \/ RetainError(p) \/ CommitRunning(p) \/ FailCommit(p)
  BY <1>3, <1>a, <1>b, AdvanceStep
  DEF RetainError, CommitRunning, FailCommit, At, Target, Refused, driverVars,
      Fenced, Edge, Contract!Graph, Off, MarkError, MarkRunning,
      MarkStartError, Move
<1>4. CASE CommitCreated(p)
  BY <1>4, <1>a, <1>b, AdvanceStep
  DEF CommitCreated, At, Target, Refused, driverVars, Fenced, Edge,
      Contract!Graph, Off, MarkCreated, StoppedMeansAbsent
<1>5. CASE MarkLost(p)
  BY <1>5, <1>a, <1>c, AdvanceStep
  DEF MarkLost, At, Target, Refused, driverVars, Fenced, Edge, Contract!Graph,
      Off, MarkStopped, OwnFacts, LockedSteps, Move
<1>6. CASE CommitStopped(p)
  BY <1>6, <1>a, <1>b, AdvanceStep
  DEF CommitStopped, At, Target, Refused, driverVars, Fenced, Edge,
      Contract!Graph, Off, MarkStopped, MayOwnVMM, OwnFacts, LockedSteps, Move
<1>7. CASE \/ ForgetReservation(p) \/ CommitDeleted(p)
  BY <1>7, <1>a, <1>b, DeleteStep
  DEF ForgetReservation, CommitDeleted, At, Target, Refused, driverVars,
      Fenced, Forget, FinalizeDelete
<1>8. CASE \/ CommitStarting(p) \/ CommitStopping(p)
  BY <1>8, <1>a, <1>b, AdvanceStep
  DEF CommitStarting, CommitStopping, At, Target, Refused, driverVars, Fenced,
      Edge, Contract!Graph, Off, BeginStart, BeginStop, Startable, Move
<1>9. CASE CommitDeleting(p)
  BY <1>9, <1>a, <1>b, AdvanceStep
  DEF CommitDeleting, At, Target, Refused, driverVars, Fenced, Edge,
      Contract!Graph, Off, AtOf, BeginDelete, Removable, Move
<1>10. CASE Reconcile(p)
  BY <1>10, <1>a, <1>c, AdvanceStep
  DEF Reconcile, At, Target, Refused, driverVars, Fenced, Edge,
      Contract!Graph, Off, AtOf, BeginDelete, Removable, Move
<1> QED
  BY <1>1, <1>2, <1>3, <1>4, <1>5, <1>6, <1>7, <1>8, <1>9, <1>10 DEF Steps

\* Issuing publishes at most a new reservation.
LEMMA IssuesRefine ==
    ASSUME LifecycleInv, NEW p \in Procs, Issues(p)
    PROVE  Contract!ContractNext
<1>a. TypeOK /\ OnlyIssuedIds
  BY DEF LifecycleInv
<1>1. CASE Issue(p) \/ IssueRestore(p) \/ IssueStatus(p)
  BY <1>1, SilentStep DEF Issue, IssueRestore, IssueStatus, catalogVars, driverVars, Absent, Live
<1>2. CASE IssueCreate(p)
  <2>1. PICK i \in Ids \ issued, n \in Names, s \in Policies : Reserve(i, n, s)
    BY <1>2 DEF IssueCreate
  <2>2. PublishedAt(i, "creating", 1)
    <3>1. /\ rec'[i].state = "creating" /\ rec'[i].gen = 1
          /\ \A j \in Ids : j # i => rec'[j] = rec[j]
      BY <1>a, <2>1 DEF Reserve, TypeOK, CatalogTypeOK
    <3>2. Executes' = Executes
      BY <1>2 DEF IssueCreate, driverVars, Executes, Absent, Live
    <3> QED
      BY <3>1, <3>2 DEF PublishedAt, PubState, PubGen
  <2>3. PubState[i] = "none" /\ ~Executes[i]
    BY <1>a, <2>1 DEF OnlyIssuedIds, Exists, PubState, Executes
  <2> QED
    BY <2>2, <2>3, AppearStep
<1>3. ASSUME NEW i \in Ids, IssueReconcile(p, i) \/ CollectOrphan(p, i)
      PROVE  Contract!ContractNext
  BY <1>3, SilentStep
  DEF IssueReconcile, CollectOrphan, catalogVars, driverVars, Absent, Live
<1> QED
  BY <1>1, <1>2, <1>3 DEF Issues

\* Crashes and the VMMs' own life publish nothing.
LEMMA EnvironmentRefines ==
    ASSUME TypeOK,
           \/ \E p \in Procs : Crash(p)
           \/ \E v \in Pids : VmReady(v) \/ VmExit(v)
           \/ HostReboot
    PROVE  Contract!ContractNext
<1>1. ASSUME NEW p \in Procs, Crash(p)
      PROVE  Contract!ContractNext
  BY <1>1, SilentStep DEF Crash, catalogVars, driverVars, Absent, Live
<1>2. ASSUME NEW v \in Pids, VmReady(v) \/ VmExit(v)
      PROVE  Contract!ContractNext
  <2>1. \A w \in Pids : vm'[w].id = vm[w].id \/ vm'[w].id = NoId
    BY SMTT(30), <1>2 DEF VmReady, VmExit, BecomeReady, Terminate, NoVm, TypeOK, DriverTypeOK, Vm
  <2>2. \A i \in Ids : Absent(i) => Absent(i)'
    BY <2>1, NoIdAssumption DEF Absent, Live
  <2> QED
    BY <1>2, <2>2, SilentStep DEF VmReady, VmExit, catalogVars
<1>3. CASE HostReboot
  <2>1. \A i \in Ids : Absent(i)'
    BY <1>3, NoIdAssumption DEF HostReboot, Absent, Live, NoVm
  <2> QED
    BY <1>3, <2>1, SilentStep DEF HostReboot, catalogVars
<1> QED
  BY <1>1, <1>2, <1>3

\* The empty host is the contract's initial state.
LEMMA InitRefines == Init => Contract!ContractInit
<1> SUFFICES ASSUME Init
             PROVE  Contract!ContractInit
  OBVIOUS
<1>1. \A i \in Ids : rec[i].state = "none" /\ rec[i].gen = 0
  BY DEF Init, CatalogInit, NoRecord
<1>2. \A i \in Ids : Absent(i)
  BY NoIdAssumption DEF Init, DriverInit, NoVm, Absent, Live
<1> QED
  BY <1>1, <1>2 DEF Contract!ContractInit

\* Every step of the lifecycle, failed and crashed ones included, is a step of
\* the contract: states move along its graph, generations by one, a VM starts
\* to execute only inside Starting and Created or Stopped is published only
\* when nothing executes.
THEOREM LifecycleImplementsContract ==
    ASSUME Names \cap Ids = {}
    PROVE  Spec => ImplementsContract
<1>1. LifecycleInv /\ [Next]_vars => [Contract!ContractNext]_(Contract!contractVars)
  <2> SUFFICES ASSUME LifecycleInv, [Next]_vars
               PROVE  [Contract!ContractNext]_(Contract!contractVars)
    OBVIOUS
  <2>1. CASE Next
    <3>1. TypeOK /\ StoppedMeansAbsent /\ \A p \in Procs : OwnFacts(p)
      BY InvFacts
    <3> QED
      BY <2>1, <3>1, StepsRefine, IssuesRefine, EnvironmentRefines DEF Next
  <2>2. CASE UNCHANGED vars
    BY <2>2 DEF vars, Contract!contractVars, Absent, Live
  <2> QED
    BY <2>1, <2>2
<1> QED
  BY <1>1, InitRefines, LifecycleInvariant, PTL DEF Spec, ImplementsContract, Contract!ContractSpec

-----------------------------------------------------------------------------
(* Who owns what. *)

\* NameIndexConsistent made inductive: a stored name is one, and a name row
\* never points at an absent record.
NamesInv ==
    /\ \A i \in Ids : Exists(i) => rec[i].name \in Names /\ names[rec[i].name] = i
    /\ \A n \in Names : names[n] # NoId =>
            names[n] \in Ids /\ Exists(names[n]) /\ rec[names[n]].name = n

\* A transition keeps the name.
LEMMA AdvanceKeepsNames ==
    ASSUME CatalogTypeOK, NamesInv, NEW i \in Ids, Exists(i),
           NEW to \in States \ {"none"}, Advance(i, to)
    PROVE  NamesInv'
<1>1. /\ names' = names
      /\ \A j \in Ids : rec'[j].name = rec[j].name /\ (Exists(j)' <=> Exists(j))
  BY DEF CatalogTypeOK, Advance, Exists
<1> QED
  BY <1>1 DEF NamesInv, Exists

\* The record and its name row go together.
LEMMA DeleteKeepsNames ==
    ASSUME CatalogTypeOK, NamesInv, NEW i \in Ids, Exists(i), DeleteRecord(i)
    PROVE  NamesInv'
<1>1. /\ \A j \in Ids : j # i => rec'[j] = rec[j]
      /\ ~Exists(i)'
      /\ \A n \in Names : names'[n] = IF n = rec[i].name THEN NoId ELSE names[n]
  BY DEF CatalogTypeOK, DeleteRecord, Exists, NoRecord
<1> QED
  BY SMTT(30), <1>1, NoIdAssumption DEF NamesInv, Exists

\* A reservation takes a free name for an ID without a record.
LEMMA ReserveKeepsNames ==
    ASSUME CatalogTypeOK, NamesInv, NEW i \in Ids, NEW n \in Names, NEW s, Reserve(i, n, s)
    PROVE  NamesInv'
<1>1. /\ \A j \in Ids : j # i => rec'[j] = rec[j]
      /\ rec'[i].name = n /\ Exists(i)' /\ ~Exists(i) /\ names[n] = NoId
      /\ \A m \in Names : names'[m] = IF m = n THEN i ELSE names[m]
  BY DEF CatalogTypeOK, Reserve, Exists
<1> QED
  BY SMTT(30), <1>1, NoIdAssumption DEF NamesInv, Exists

LEMMA UnchangedKeepsNames ==
    ASSUME NamesInv, UNCHANGED catalogVars
    PROVE  NamesInv'
BY DEF NamesInv, catalogVars, Exists

\* A step leaves the catalog alone or commits one transaction on its target.
LEMMA StepsKeepNames ==
    ASSUME TypeOK, NamesInv, NEW p \in Procs, Steps(p)
    PROVE  NamesInv'
<1>a. op[p].at # "idle" => op[p].id \in Ids
  BY DEF TypeOK, OperationTypeOK
<1>b. CatalogTypeOK
  BY DEF TypeOK
<1>c. ASSUME op[p].id \in Ids, NEW from, "none" \notin from, NEW g, Fenced(op[p].id, g, from),
             NEW to \in States \ {"none"}, Advance(op[p].id, to)
      PROVE  NamesInv'
  BY <1>b, <1>c, AdvanceKeepsNames DEF Fenced, Exists
<1>d. ASSUME op[p].id \in Ids, NEW from, "none" \notin from, NEW g, Fenced(op[p].id, g, from),
             DeleteRecord(op[p].id)
      PROVE  NamesInv'
  BY <1>b, <1>d, DeleteKeepsNames DEF Fenced, Exists
<1>e. {"created", "error", "running", "starting", "stopping", "stopped", "deleting"}
        \subseteq States \ {"none"}
  BY DEF States
<1>1. CASE UNCHANGED catalogVars
  BY <1>1, UnchangedKeepsNames
<1>2. CASE \/ CommitCreated(p) \/ RetainError(p)
  <2>1. op[p].id \in Ids
    BY <1>2, <1>a DEF CommitCreated, RetainError, At
  <2>2. \/ UNCHANGED catalogVars
        \/ Fenced(op[p].id, op[p].gen, {"creating"}) /\ Advance(op[p].id, "created")
        \/ Fenced(op[p].id, op[p].gen, {"creating"}) /\ Advance(op[p].id, "error")
    BY <1>2 DEF CommitCreated, RetainError, MarkCreated, MarkError, Refused, Target,
      Move
  <2> QED
    BY <1>1, <1>c, <1>e, <2>1, <2>2
<1>3. CASE \/ CommitRunning(p) \/ FailCommit(p)
  <2>1. op[p].id \in Ids
    BY <1>3, <1>a DEF CommitRunning, FailCommit, At
  <2>2. \/ UNCHANGED catalogVars
        \/ Fenced(op[p].id, op[p].gen, {"starting"}) /\ Advance(op[p].id, "running")
        \/ Fenced(op[p].id, op[p].gen, {"starting"}) /\ Advance(op[p].id, "error")
    BY <1>3 DEF CommitRunning, FailCommit, MarkRunning, MarkStartError, Refused, Target,
      Move
  <2> QED
    BY <1>1, <1>c, <1>e, <2>1, <2>2
<1>4. CASE \/ MarkLost(p) \/ CommitStopped(p)
  <2>1. op[p].id \in Ids
    BY <1>4, <1>a DEF MarkLost, CommitStopped, At
  <2>2. \/ UNCHANGED catalogVars
        \/ \E from \in MayOwnVMM : Fenced(op[p].id, op[p].gen, {from}) /\ Advance(op[p].id, "stopped")
    BY <1>4 DEF MarkLost, CommitStopped, MarkStopped, Refused, Target, Move
  <2>3. \A from \in MayOwnVMM : "none" \notin {from}
    BY DEF MayOwnVMM
  <2> QED
    BY <1>1, <1>c, <1>e, <2>1, <2>2, <2>3
<1>5. CASE \/ ForgetReservation(p) \/ CommitDeleted(p)
  <2>1. op[p].id \in Ids
    BY <1>5, <1>a DEF ForgetReservation, CommitDeleted, At
  <2>2. \/ UNCHANGED catalogVars
        \/ Fenced(op[p].id, op[p].gen, {"creating"}) /\ DeleteRecord(op[p].id)
        \/ Fenced(op[p].id, op[p].gen, {"deleting"}) /\ DeleteRecord(op[p].id)
    BY <1>5 DEF ForgetReservation, CommitDeleted, Forget, FinalizeDelete, Refused, Target
  <2> QED
    BY <1>1, <1>d, <2>1, <2>2
<1>6. CASE \/ CommitStarting(p) \/ CommitStopping(p) \/ CommitDeleting(p) \/ Reconcile(p)
  <2>1. op[p].id \in Ids
    BY <1>6, <1>a DEF CommitStarting, CommitStopping, CommitDeleting, Reconcile, At, AtOf
  <2>2. \/ UNCHANGED catalogVars
        \/ Fenced(op[p].id, op[p].gen, Startable) /\ Advance(op[p].id, "starting")
        \/ Fenced(op[p].id, op[p].gen, {"running"}) /\ Advance(op[p].id, "stopping")
        \/ Fenced(op[p].id, op[p].gen, Removable) /\ Advance(op[p].id, "deleting")
    BY <1>6
    DEF CommitStarting, CommitStopping, CommitDeleting, Reconcile, BeginStart, BeginStop,
        BeginDelete, Refused, Target, Move
  <2>3. "none" \notin Startable /\ "none" \notin Removable
    BY DEF Startable, Removable
  <2> QED
    BY <1>1, <1>c, <1>e, <2>1, <2>2, <2>3
<1>7. CASE \/ AcquireLock(p) \/ CreateNetwork(p) \/ CreateDisk(p) \/ Compensate(p)
              \/ RecoverStart(p) \/ StartCleanup(p) \/ Validate(p) \/ RecoverNetwork(p)
              \/ ExecVMM(p) \/ PersistIdentity(p) \/ AwaitReady(p) \/ FailCleanup(p)
              \/ InspectStop(p) \/ StopVMM(p) \/ StopCleanup(p) \/ ReleaseResources(p)
              \/ RestoreDecide(p) \/ RestoreRelock(p) \/ ReplaceDisks(p) \/ StatusRead(p)
              \/ StatusWrite(p)
  BY <1>1, <1>7
  DEF AcquireLock, CreateNetwork, CreateDisk, Compensate, RecoverStart,
      StartCleanup, Validate, RecoverNetwork, ExecVMM, PersistIdentity,
      AwaitReady, FailCleanup, InspectStop, StopVMM, StopCleanup,
      ReleaseResources, RestoreDecide, RestoreRelock, ReplaceDisks,
      StatusRead, StatusWrite
<1> QED
  BY <1>2, <1>3, <1>4, <1>5, <1>6, <1>7 DEF Steps
LEMMA IssuesKeepNames ==
    ASSUME TypeOK, NamesInv, NEW p \in Procs, Issues(p)
    PROVE  NamesInv'
<1>1. CASE IssueCreate(p)
  BY <1>1, ReserveKeepsNames DEF IssueCreate, TypeOK
<1>2. CASE \/ Issue(p) \/ IssueRestore(p) \/ IssueStatus(p)
           \/ \E i \in Ids : IssueReconcile(p, i) \/ CollectOrphan(p, i)
  BY <1>2, UnchangedKeepsNames
  DEF Issue, IssueRestore, IssueStatus, IssueReconcile, CollectOrphan
<1> QED
  BY <1>1, <1>2 DEF Issues

\* The sandbox catalog (Reserve, deleteRecord): whatever operations reserve,
\* forget and delete concurrently, a record is found under its name and a name
\* never leads to another record or to none.
THEOREM NamesAreConsistent == Spec => []NameIndexConsistent
<1>1. Init => NamesInv
  BY SMTT(30), NoIdAssumption DEF Init, CatalogInit, NoRecord, NamesInv, Exists
<1>2. TypeOK /\ NamesInv /\ [Next]_vars => NamesInv'
  <2> SUFFICES ASSUME TypeOK, NamesInv, [Next]_vars
               PROVE  NamesInv'
    OBVIOUS
  <2>1. CASE \E p \in Procs : Issues(p) \/ Steps(p)
    BY <2>1, IssuesKeepNames, StepsKeepNames
  <2>2. CASE \/ \E p \in Procs : Crash(p)
             \/ \E v \in Pids : VmReady(v) \/ VmExit(v)
             \/ HostReboot
             \/ UNCHANGED vars
    BY <2>2, UnchangedKeepsNames DEF Crash, VmReady, VmExit, HostReboot, vars, catalogVars
  <2> QED
    BY <2>1, <2>2 DEF Next
<1>3. NamesInv => NameIndexConsistent
  BY DEF NamesInv, NameIndexConsistent
<1> QED
  BY <1>1, <1>2, <1>3, TypeCorrect, PTL DEF Spec

-----------------------------------------------------------------------------
(* Where an operation goes, and for whom it works.                           *)

LEMMA ReturnMoves ==
    ASSUME TypeOK, NEW p \in Procs, Return(p)
    PROVE  op'[p].at = "idle" /\ op'[p].kind = "none"
BY DEF TypeOK, OperationTypeOK, Return, Become, Idle

LEMMA GotoMoves ==
    ASSUME TypeOK, NEW p \in Procs, NEW step, NEW v,
           Goto(p, step) \/ GotoWith(p, step, v) \/ GotoCommitted(p, step)
    PROVE  op'[p].at = step /\ op'[p].kind = op[p].kind
<1>0. op \in [Procs -> Op]
  BY DEF TypeOK, OperationTypeOK
<1>1. CASE Goto(p, step)
  BY <1>0, <1>1 DEF Op, Goto, Become
<1>2. CASE GotoWith(p, step, v)
  BY <1>0, <1>2 DEF Op, GotoWith, Become
<1>3. CASE GotoCommitted(p, step)
  BY SMTT(30), <1>0, <1>3 DEF Op, GotoCommitted, Become
<1> QED
  BY <1>1, <1>2, <1>3

LEMMA GotoHoldingMoves ==
    ASSUME TypeOK, NEW p \in Procs, NEW step, NEW h, GotoHolding(p, step, h)
    PROVE  op'[p].at = step /\ op'[p].kind = op[p].kind /\ op'[p].pid = op[p].pid
BY SMTT(30) DEF TypeOK, OperationTypeOK, Op, GotoHolding, Become

LEMMA StopReturnsMoves ==
    ASSUME TypeOK, NEW p \in Procs, StopReturns(p)
    PROVE  \/ op'[p].at = "idle" /\ op'[p].kind = "none"
           \/ op'[p].at = "relock" /\ op'[p].kind = "restore" /\ op[p].kind = "restore"
BY ZenonT(30), ReturnMoves DEF TypeOK, OperationTypeOK, Op, StopReturns, Become

LEMMA ContinueMoves ==
    ASSUME TypeOK, NEW p \in Procs, ContinueAsRemove(p)
    PROVE  op'[p].at = "lock" /\ op'[p].kind = "remove"
BY DEF TypeOK, OperationTypeOK, ContinueAsRemove, Become, Idle

\* The steps at which a disk or a release is taken for granted are reached from
\* one handler each, and restore's and status's steps only by restore and status.
Reached(p) ==
    /\ op'[p].at = "forget" => Compensate(p)
    /\ op'[p].at = "finalize" => ReleaseResources(p)
    /\ op'[p].at = "commitCreated" => CreateDisk(p)
    /\ op'[p].at = "beginStart" => Validate(p) \/ op[p].at = "relock"
    /\ op'[p].at \in {"validate", "markLost"} => StartCleanup(p) \/ MarkLost(p)
    /\ op'[p].at = "recoverNetwork" => CommitStarting(p)
    /\ op'[p].at = "exec" => RecoverNetwork(p) \/ op[p].at = "replaceDisks"
    /\ op'[p].at = "persist" => ExecVMM(p)
    /\ op'[p].at \in {"restoreDecide", "relock", "replaceDisks"} =>
            op[p].kind = "restore" \/ op[p].at \in {"restoreDecide", "relock", "replaceDisks"}
    /\ op'[p].kind = "restore" => op[p].kind = "restore"
    /\ op'[p].at \in {"statusRead", "statusWrite"} => op[p].at = "statusRead"

LEMMA StepsReach ==
    ASSUME TypeOK, NEW p \in Procs, Steps(p)
    PROVE  Reached(p)
<1> DEFINE Watched == {"forget", "finalize", "commitCreated", "beginStart", "validate", "markLost",
                       "recoverNetwork", "exec", "persist", "restoreDecide", "relock",
                       "replaceDisks", "statusRead", "statusWrite"}
<1>a. ASSUME op'[p].at \notin Watched, op'[p].kind \in {op[p].kind, "none", "remove"}
      PROVE  Reached(p)
  BY <1>a DEF Reached
<1>b. ASSUME Return(p) PROVE Reached(p)
  BY <1>b, ReturnMoves DEF Reached
<1>c. ASSUME NEW step, step \notin Watched, NEW v,
             Goto(p, step) \/ GotoWith(p, step, v) \/ GotoCommitted(p, step)
      PROVE  Reached(p)
  BY <1>a, <1>c, GotoMoves
<1>d. ASSUME StopReturns(p) PROVE Reached(p)
  BY <1>d, StopReturnsMoves DEF Reached
<1>e. ASSUME ContinueAsRemove(p) PROVE Reached(p)
  BY <1>e, ContinueMoves DEF Reached
<1> HIDE DEF Watched
<1>f. ASSUME NEW step, Goto(p, step)
      PROVE  op'[p].at = step /\ op'[p].kind = op[p].kind
  BY <1>f, GotoMoves
<1>1. CASE Compensate(p) \/ ReleaseResources(p) \/ CreateDisk(p) \/ Validate(p)
  <2>1. CASE Compensate(p)
    <3>1. op'[p].at \in {"forget", "markError"} /\ op'[p].kind = op[p].kind
      BY <1>f, <2>1 DEF Compensate
    <3> QED
      BY <2>1, <3>1 DEF Reached
  <2>2. CASE ReleaseResources(p)
    <3>1. Return(p) \/ (op'[p].at = "finalize" /\ op'[p].kind = op[p].kind)
      BY <1>f, <2>2 DEF ReleaseResources
    <3> QED
      BY <1>b, <2>2, <3>1 DEF Reached
  <2>3. CASE CreateDisk(p)
    <3>1. op'[p].at \in {"commitCreated", "compensate"} /\ op'[p].kind = op[p].kind
      BY <1>f, <2>3 DEF CreateDisk
    <3> QED
      BY <2>3, <3>1 DEF Reached
  <2>4. CASE Validate(p)
    <3>1. \/ Return(p)
          \/ op'[p].at \in {"beginStart", "failCleanup"} /\ op'[p].kind = op[p].kind
      BY <1>f, <2>4 DEF Validate
    <3> QED
      BY <1>b, <2>4, <3>1 DEF Reached
  <2> QED
    BY <1>1, <2>1, <2>2, <2>3, <2>4
<1>2. CASE RestoreDecide(p) \/ RestoreRelock(p)
  <2>1. op[p].at \in {"restoreDecide", "relock"}
    BY <1>2 DEF RestoreDecide, RestoreRelock, At
  <2>2. CASE RestoreDecide(p)
    <3>1. Return(p) \/ (op'[p].at \in {"lock", "relock"} /\ op'[p].kind = op[p].kind)
      BY <1>f, <2>2 DEF RestoreDecide
    <3> QED
      BY <1>b, <2>1, <3>1 DEF Reached
  <2>3. CASE RestoreRelock(p)
    <3>1. \/ Return(p)
          \/ \E i : Become(p, [op[p] EXCEPT !.at = "beginStart", !.id = i,
                                           !.st = rec[i].state, !.gen = rec[i].gen])
      BY <2>3 DEF RestoreRelock
    <3>2. \/ Return(p)
          \/ op'[p].at = "beginStart" /\ op'[p].kind = op[p].kind
      BY ZenonT(30), <3>1 DEF Become, TypeOK, OperationTypeOK, Op
    <3>3. op[p].at = "relock"
      BY <2>3 DEF RestoreRelock, At
    <3> QED
      BY <1>b, <3>2, <3>3 DEF Reached
  <2> QED
    BY <1>2, <2>2, <2>3
<1>3. CASE AcquireLock(p)
  <2>1. \/ Return(p)
        \/ \E i : Become(p, [op[p] EXCEPT !.at = "locked", !.id = i,
                                         !.st = rec[i].state, !.gen = rec[i].gen])
    BY <1>3 DEF AcquireLock
  <2>2. \/ Return(p)
        \/ op'[p].at = "locked" /\ op'[p].kind = op[p].kind
    BY ZenonT(30), <2>1 DEF Become, TypeOK, OperationTypeOK, Op
  <2> QED
    BY <1>a, <1>b, <2>2 DEF Watched
<1>4. CASE \/ CommitCreated(p) \/ ForgetReservation(p) \/ RetainError(p)
  BY <1>4, <1>b, <1>c
  DEF CommitCreated, ForgetReservation, RetainError, Watched
<1>5. CASE \/ PersistIdentity(p) \/ AwaitReady(p) \/ CommitRunning(p) \/ FailCleanup(p)
           \/ FailCommit(p)
  BY <1>5, <1>b, <1>c
  DEF PersistIdentity, AwaitReady, CommitRunning, FailCleanup, FailCommit, Watched
<1>6. CASE \/ RecoverStart(p) \/ InspectStop(p)
  BY <1>6, <1>b, <1>c DEF RecoverStart, InspectStop, StartDecision, StopDecision, Watched
<1>7. CASE \/ CommitStopping(p) \/ StopVMM(p) \/ StopCleanup(p) \/ CommitStopped(p)
           \/ CommitDeleting(p) \/ CommitDeleted(p)
  BY <1>7, <1>b, <1>c, <1>d
  DEF CommitStopping, StopVMM, StopCleanup, CommitStopped, CommitDeleting, CommitDeleted, Watched
<1>8. CASE StatusWrite(p) \/ Reconcile(p)
  BY <1>8, <1>b, <1>c, <1>e DEF StatusWrite, Reconcile, ReconcileDecision, Watched
<1>9. CASE StartCleanup(p) \/ MarkLost(p)
  <2>1. \/ Return(p)
        \/ op'[p].at \in {"validate", "markLost"} /\ op'[p].kind = op[p].kind
    BY <1>9, GotoMoves DEF StartCleanup, MarkLost
  <2> QED
    BY <1>9, <1>b, <2>1 DEF Reached
<1>10. CASE CommitStarting(p)
  <2>1. Return(p) \/ (op'[p].at = "recoverNetwork" /\ op'[p].kind = op[p].kind)
    BY <1>10, GotoMoves DEF CommitStarting
  <2> QED
    BY <1>10, <1>b, <2>1 DEF Reached
<1>11. CASE RecoverNetwork(p)
  <2>1. /\ op'[p].at \in {"replaceDisks", "exec", "failCleanup"} /\ op'[p].kind = op[p].kind
        /\ op'[p].at = "replaceDisks" => op[p].kind = "restore"
    BY SMTT(30), <1>11, <1>f DEF RecoverNetwork
  <2> QED
    BY <1>11, <2>1 DEF Reached
<1>12. CASE ReplaceDisks(p)
  <2>1. /\ op'[p].at \in {"exec", "failCleanup"} /\ op'[p].kind = op[p].kind
        /\ op[p].at = "replaceDisks"
    BY <1>12, <1>f DEF ReplaceDisks, At
  <2> QED
    BY <2>1 DEF Reached
<1>13. CASE ExecVMM(p)
  <2>1. op'[p].at \in {"persist", "failCleanup"} /\ op'[p].kind = op[p].kind
    BY <1>13, <1>f, GotoMoves DEF ExecVMM
  <2> QED
    BY <1>13, <2>1 DEF Reached
<1>14. CASE StatusRead(p)
  <2>1. /\ op[p].at = "statusRead"
        /\ Return(p) \/ (op'[p].at = "statusWrite" /\ op'[p].kind = op[p].kind)
    BY <1>14, GotoMoves DEF StatusRead, At
  <2> QED
    BY <1>b, <2>1 DEF Reached
<1>15. CASE CreateNetwork(p)
  <2>1. Goto(p, "compensate") \/ \E h \in BOOLEAN : GotoHolding(p, "createDisk", h)
    BY <1>15 DEF CreateNetwork
  <2>2. op'[p].at \in {"compensate", "createDisk"} /\ op'[p].kind = op[p].kind
    BY <1>f, <2>1, GotoHoldingMoves
  <2> QED
    BY <1>a, <2>2 DEF Watched
<1> QED
  BY <1>1, <1>2, <1>3, <1>4, <1>5, <1>6, <1>7, <1>8, <1>9, <1>10, <1>11, <1>12, <1>13, <1>14,
     <1>15
  DEF Steps
-----------------------------------------------------------------------------
(* Disks and networks.                                                       *)

\* What a step has established about the resources of its target.
Bare(i) == ~disk[i] /\ (net[i] = "none" \/ setup[i] \notin {"pending", "published"})
Emptied(p) ==
    op[p].at \in {"forget", "finalize"} => Bare(op[p].id)
Prepared(p) ==
    op[p].at \in {"commitCreated", "beginStart"} => disk[op[p].id]
NoRestore(p) ==
    op[p].kind # "restore" /\ op[p].at \notin {"restoreDecide", "relock", "replaceDisks"}

Usable == {"created", "stopped"} \cup MayOwnVMM

\* A step works on the disk and network of its target, and under its lock.
LEMMA StepsHostOwn ==
    ASSUME TypeOK, NEW p \in Procs, Steps(p)
    PROVE  \A i \in Ids : disk'[i] # disk[i] \/ net'[i] # net[i] =>
                op[p].at \in LockedSteps /\ i = op[p].id
<1>1. CASE UNCHANGED hostVars
  BY <1>1 DEF hostVars
<1>2. CASE \/ CreateNetwork(p) \/ RecoverNetwork(p) \/ MarkLost(p) \/ FailCleanup(p)
           \/ StopCleanup(p)
  BY <1>2
  DEF CreateNetwork, RecoverNetwork, MarkLost, FailCleanup, StopCleanup, Quiesced, Recovered,
      TypeOK, At, Target, LockedSteps
<1>3. CASE CreateDisk(p)
  <2>1. /\ disk' = disk \/ disk' = [disk EXCEPT ![op[p].id] = TRUE]
        /\ net' = net /\ op[p].at \in LockedSteps
    BY <1>3 DEF CreateDisk, At, Target, LockedSteps
  <2> QED
    BY <2>1 DEF TypeOK
<1>4. CASE \/ Compensate(p) \/ ReleaseResources(p)
  <2>1. /\ disk' = disk \/ disk' = [disk EXCEPT ![op[p].id] = FALSE]
        /\ net' = net \/ net' = [net EXCEPT ![op[p].id] = "none"]
        /\ op[p].at \in LockedSteps
    BY <1>4 DEF Compensate, ReleaseResources, Released, At, Target, LockedSteps, hostVars
  <2> QED
    BY <2>1 DEF TypeOK
<1> QED
  BY <1>1, <1>2, <1>3, <1>4
  DEF Steps, AcquireLock, CommitCreated, ForgetReservation, RetainError, RecoverStart,
      StartCleanup, Validate, CommitStarting, ExecVMM, PersistIdentity, AwaitReady,
      CommitRunning, FailCommit, InspectStop, CommitStopping, StopVMM, CommitStopped,
      CommitDeleting, CommitDeleted, RestoreDecide, RestoreRelock, ReplaceDisks, StatusRead,
      StatusWrite, Reconcile

\* A step stores the network setup of its target, and only under its lock.
LEMMA StepsSetupOwn ==
    ASSUME TypeOK, NEW p \in Procs, Steps(p)
    PROVE  \A i \in Ids : setup'[i] # setup[i] => op[p].at = "commitCreated" /\ i = op[p].id
<1>1. CASE UNCHANGED setup
  BY <1>1
<1>2. CASE CommitCreated(p)
  <2>1. op[p].at = "commitCreated"
        /\ (UNCHANGED setup \/ \E s : setup' = [setup EXCEPT ![op[p].id] = s])
    BY <1>2 DEF CommitCreated, MarkCreated, Refused, At, Target, catalogVars
  <2> QED
    BY <2>1 DEF TypeOK, SetupTypeOK
<1>3. CASE \/ RetainError(p) \/ CommitRunning(p) \/ FailCommit(p) \/ MarkLost(p)
           \/ CommitStopped(p) \/ ForgetReservation(p) \/ CommitDeleted(p)
           \/ CommitStarting(p) \/ CommitStopping(p) \/ CommitDeleting(p) \/ Reconcile(p)
  BY <1>1, <1>3
  DEF RetainError, CommitRunning, FailCommit, MarkLost, CommitStopped, ForgetReservation,
      CommitDeleted, CommitStarting, CommitStopping, CommitDeleting, Reconcile, Refused,
      MarkError, MarkRunning, MarkStartError, MarkStopped, Forget, FinalizeDelete,
      DeleteRecord, BeginStart, BeginStop, BeginDelete, Move, catalogVars
<1>4. CASE \/ AcquireLock(p) \/ CreateNetwork(p) \/ CreateDisk(p) \/ Compensate(p)
              \/ RecoverStart(p) \/ StartCleanup(p) \/ Validate(p) \/ RecoverNetwork(p)
              \/ ExecVMM(p) \/ PersistIdentity(p) \/ AwaitReady(p) \/ FailCleanup(p)
              \/ InspectStop(p) \/ StopVMM(p) \/ StopCleanup(p) \/ ReleaseResources(p)
              \/ RestoreDecide(p) \/ RestoreRelock(p) \/ ReplaceDisks(p) \/ StatusRead(p)
              \/ StatusWrite(p)
  BY <1>1, <1>4
  DEF AcquireLock, CreateNetwork, CreateDisk, Compensate, RecoverStart,
      StartCleanup, Validate, RecoverNetwork, ExecVMM, PersistIdentity,
      AwaitReady, FailCleanup, InspectStop, StopVMM, StopCleanup,
      ReleaseResources, RestoreDecide, RestoreRelock, ReplaceDisks,
      StatusRead, StatusWrite, catalogVars
<1> QED
  BY <1>2, <1>3, <1>4 DEF Steps

\* A step takes a disk only while it compensates a creation or releases a deletion.
LEMMA StepsDiskLost ==
    ASSUME TypeOK, NEW p \in Procs, Steps(p), NEW i \in Ids, disk[i], ~disk'[i]
    PROVE  i = op[p].id /\ op[p].at \in {"compensate", "release"} /\ UNCHANGED rec
<1>1. i = op[p].id
  BY StepsHostOwn
<1>2. CASE \/ Compensate(p) \/ ReleaseResources(p)
  BY <1>1, <1>2 DEF Compensate, ReleaseResources, At, catalogVars
<1>3. CASE CreateDisk(p)
  BY <1>3 DEF CreateDisk, TypeOK, Target
<1>4. CASE UNCHANGED disk
  BY <1>4
<1> QED
  BY ZenonT(30), <1>2, <1>3, <1>4
  DEF Steps, AcquireLock, CommitCreated, ForgetReservation, RetainError, RecoverStart,
      StartCleanup, Validate, CommitStarting, ExecVMM, PersistIdentity, AwaitReady,
      CommitRunning, FailCommit, InspectStop, CommitStopping, StopVMM, CommitStopped,
      CommitDeleting, CommitDeleted, RestoreDecide, RestoreRelock, ReplaceDisks, StatusRead,
      StatusWrite, Reconcile, CreateNetwork, RecoverNetwork, MarkLost, FailCleanup, StopCleanup,
      hostVars

\* The actions that commit a transition, and how it changes the target's record.
Commits(p) ==
    \/ CommitCreated(p) \/ RetainError(p) \/ CommitRunning(p) \/ FailCommit(p) \/ MarkLost(p)
    \/ CommitStopped(p) \/ ForgetReservation(p) \/ CommitDeleted(p) \/ CommitStarting(p)
    \/ CommitStopping(p) \/ CommitDeleting(p) \/ Reconcile(p)

LEMMA StepsWithoutCommit ==
    ASSUME NEW p \in Procs, Steps(p), ~Commits(p)
    PROVE  UNCHANGED rec
BY DEF Steps, Commits, AcquireLock, CreateNetwork, CreateDisk, Compensate, RecoverStart,
      StartCleanup, Validate, RecoverNetwork, ExecVMM, PersistIdentity,
      AwaitReady, FailCleanup, InspectStop, StopVMM, StopCleanup,
      ReleaseResources, RestoreDecide, RestoreRelock, ReplaceDisks,
      StatusRead, StatusWrite, catalogVars

\* A record goes only by a forgotten reservation or a finished deletion.
LEMMA StepsDelete ==
    ASSUME TypeOK, NEW p \in Procs, Steps(p), NEW i \in Ids, Exists(i), ~Exists(i)'
    PROVE  i = op[p].id /\ op[p].at \in {"forget", "finalize"} /\ UNCHANGED hostVars
<1>1. i = op[p].id /\ op[p].id \in Ids
  BY StepsChangeOwnRecord DEF Exists
<1>a. ASSUME NEW to \in States \ {"none"}, Advance(i, to)
      PROVE  FALSE
  BY <1>a DEF Advance, Exists, TypeOK, CatalogTypeOK
<1>b. {"created", "error", "running", "starting", "stopping", "stopped", "deleting"}
        \subseteq States \ {"none"}
  BY DEF States
<1>c. ~UNCHANGED catalogVars
  BY DEF catalogVars, Exists
<1>2. CASE ForgetReservation(p) \/ CommitDeleted(p)
  BY <1>1, <1>2 DEF ForgetReservation, CommitDeleted, At
<1>3. CASE CommitCreated(p) \/ RetainError(p) \/ CommitRunning(p) \/ FailCommit(p)
  BY <1>1, <1>3, <1>a, <1>b, <1>c
  DEF CommitCreated, RetainError, CommitRunning, FailCommit, MarkCreated, MarkError, MarkRunning,
      MarkStartError, Refused, Target, Move
<1>4. CASE MarkLost(p) \/ CommitStopped(p)
  BY <1>1, <1>4, <1>a, <1>b, <1>c DEF MarkLost, CommitStopped, MarkStopped, Refused, Target,
      Move
<1>5. CASE CommitStarting(p) \/ CommitStopping(p) \/ CommitDeleting(p) \/ Reconcile(p)
  BY <1>1, <1>5, <1>a, <1>b, <1>c
  DEF CommitStarting, CommitStopping, CommitDeleting, Reconcile, BeginStart, BeginStop,
      BeginDelete, Refused, Target, Move
<1> QED
  BY <1>2, <1>3, <1>4, <1>5, StepsWithoutCommit DEF Commits, Exists

\* A record becomes usable when it was created or when its start begins.
LEMMA StepsUsable ==
    ASSUME TypeOK, NEW p \in Procs, Steps(p), NEW i \in Ids,
           rec[i].state \notin Usable, rec'[i].state \in Usable
    PROVE  i = op[p].id /\ op[p].at \in {"commitCreated", "beginStart"} /\ UNCHANGED disk
<1>1. i = op[p].id /\ op[p].id \in Ids
  BY StepsChangeOwnRecord
<1>a. ASSUME NEW to, Advance(i, to)
      PROVE  to \in Usable
  BY <1>a DEF Advance, TypeOK, CatalogTypeOK
<1>b. ~UNCHANGED catalogVars
  BY DEF catalogVars
<1>c. ~DeleteRecord(i)
  BY SMTT(30) DEF DeleteRecord, NoRecord, Usable, MayOwnVMM, TypeOK, CatalogTypeOK
<1>d. /\ "error" \notin Usable /\ "deleting" \notin Usable
      /\ {"starting", "running", "stopping", "stopped"} \subseteq Usable /\ MayOwnVMM \subseteq Usable
  BY DEF Usable, MayOwnVMM
<1>2. CASE CommitCreated(p) \/ CommitStarting(p)
  BY <1>1, <1>2 DEF CommitCreated, CommitStarting, At, hostVars
<1>3. CASE ForgetReservation(p) \/ CommitDeleted(p)
  BY <1>1, <1>3, <1>b, <1>c
  DEF ForgetReservation, CommitDeleted, Forget, FinalizeDelete, Refused, Target
<1>4. CASE RetainError(p) \/ CommitRunning(p) \/ FailCommit(p)
  BY <1>1, <1>4, <1>a, <1>b, <1>d
  DEF RetainError, CommitRunning, FailCommit, MarkError, MarkRunning, MarkStartError, Fenced,
      Refused, Target, Move
<1>5. CASE MarkLost(p) \/ CommitStopped(p)
  BY <1>1, <1>5, <1>a, <1>b, <1>d
  DEF MarkLost, CommitStopped, MarkStopped, Fenced, Refused, Target, Move
<1>6. CASE CommitStopping(p) \/ CommitDeleting(p) \/ Reconcile(p)
  BY <1>1, <1>6, <1>a, <1>b, <1>d
  DEF CommitStopping, CommitDeleting, Reconcile, BeginStop, BeginDelete, Fenced, Refused, Target,
      Move
<1> QED
  BY <1>2, <1>3, <1>4, <1>5, <1>6, StepsWithoutCommit DEF Commits
\* A locked operation has a record, and no other operation works on it.
LEMMA LockedFacts ==
    ASSUME LifecycleInv, NEW p \in Procs, op[p].at \in LockedSteps
    PROVE  /\ op[p].id \in Ids /\ Exists(op[p].id)
           /\ rec[op[p].id].state \in StatesAt(op[p].at)
           /\ \A q \in Procs : q # p /\ op[q].at \in LockedSteps => op[q].id # op[p].id
<1>1. TypeOK /\ \A q \in Procs : OwnFacts(q)
  BY InvFacts
<1>2. op[p].id \in Ids /\ rec[op[p].id].state \in StatesAt(op[p].at)
  BY <1>1 DEF OwnFacts, TypeOK, OperationTypeOK, LockedSteps
<1>3. "none" \notin StatesAt(op[p].at)
  BY DEF StatesAt, Startable, MayOwnVMM, States
<1> QED
  BY <1>1, <1>2, <1>3 DEF OwnFacts, Exists

\* Compensate and ReleaseResources go on only when everything is gone, CreateDisk
\* and Validate only with a disk.
LEMMA StepsEstablish ==
    ASSUME TypeOK, NEW p \in Procs, Steps(p)
    PROVE  Emptied(p)' /\ (NoRestore(p) => Prepared(p)')
<1>a. Reached(p) /\ (op[p].at # "idle" => op[p].id \in Ids)
  BY StepsReach DEF TypeOK, OperationTypeOK
<1>b. ASSUME NEW step, Goto(p, step)
      PROVE  op'[p].at = step /\ op'[p].id = op[p].id
  BY <1>b DEF Goto, Become, TypeOK, OperationTypeOK, Op
<1>c. ASSUME NEW i \in Ids, i = op[p].id, disk' = [disk EXCEPT ![i] = FALSE],
             net' = Released(p), UNCHANGED setup
      PROVE  Bare(i)'
  <2>1. CASE HasNetwork(p)
    BY <1>c, <2>1 DEF Released, Bare, TypeOK
  <2>2. CASE ~HasNetwork(p)
    BY <1>c, <2>2 DEF Released, Bare, HasNetwork, TypeOK
  <2> QED
    BY <2>1, <2>2
<1>1. ASSUME op'[p].at = "forget"
      PROVE  Emptied(p)'
  <2>1. Compensate(p) /\ op[p].id \in Ids
    BY <1>a, <1>1 DEF Reached, Compensate, At
  <2>2. /\ disk' = [disk EXCEPT ![op[p].id] = FALSE] /\ net' = Released(p)
        /\ op'[p].id = op[p].id /\ UNCHANGED setup
    BY <1>b, <1>1, <2>1 DEF Compensate, Target, catalogVars
  <2> QED
    BY <1>c, <2>1, <2>2 DEF Emptied
<1>2. ASSUME op'[p].at = "finalize"
      PROVE  Emptied(p)'
  <2>1. ReleaseResources(p) /\ op[p].id \in Ids
    BY <1>a, <1>2 DEF Reached, ReleaseResources, At
  <2>2. ~Return(p)
    BY <1>2, ReturnMoves
  <2>3. /\ disk' = [disk EXCEPT ![op[p].id] = FALSE] /\ net' = Released(p)
        /\ op'[p].id = op[p].id /\ UNCHANGED setup
    BY <1>b, <2>1, <2>2 DEF ReleaseResources, Target, catalogVars
  <2> QED
    BY <1>c, <2>1, <2>3 DEF Emptied
<1>3. ASSUME op'[p].at = "commitCreated"
      PROVE  Prepared(p)'
  <2>1. CreateDisk(p) /\ op[p].id \in Ids
    BY <1>a, <1>3 DEF Reached, CreateDisk, At
  <2>2. disk' = [disk EXCEPT ![op[p].id] = TRUE] /\ op'[p].id = op[p].id
    BY <1>b, <1>3, <2>1 DEF CreateDisk, Target
  <2> QED
    BY <2>1, <2>2 DEF Prepared, TypeOK
<1>4. ASSUME op'[p].at = "beginStart", NoRestore(p)
      PROVE  Prepared(p)'
  <2>1. Validate(p)
    BY <1>a, <1>4 DEF Reached, NoRestore
  <2>2. ~Return(p)
    BY <1>4, ReturnMoves
  <2>3. disk[op[p].id] /\ UNCHANGED disk /\ op'[p].id = op[p].id
    BY SMTT(30), <1>b, <1>4, <2>1, <2>2 DEF Validate, Target, hostVars
  <2> QED
    BY <2>3 DEF Prepared
<1> QED
  BY <1>1, <1>2, <1>3, <1>4 DEF Emptied, Prepared

\* What others have established about their own targets stays.
LEMMA StepsKeepOthers ==
    ASSUME LifecycleInv, Names \cap Ids = {}, NEW p \in Procs, Steps(p), NEW q \in Procs, q # p
    PROVE  /\ Emptied(q) => Emptied(q)'
           /\ Prepared(q) => Prepared(q)'
           /\ NoRestore(q) => NoRestore(q)'
<1>1. TypeOK /\ op'[q] = op[q]
  BY InvFacts, StepsOthersKeep DEF OthersKeep
<1>2. ASSUME op[q].at \in LockedSteps
      PROVE  disk'[op[q].id] = disk[op[q].id] /\ net'[op[q].id] = net[op[q].id]
  BY <1>1, <1>2, LockedFacts, StepsHostOwn
<1>3. {"forget", "finalize", "commitCreated", "beginStart"} \subseteq LockedSteps
  BY DEF LockedSteps
<1>a. ASSUME op[q].at \in LockedSteps
      PROVE  setup'[op[q].id] = setup[op[q].id]
  <2>1. "commitCreated" \in LockedSteps
    BY DEF LockedSteps
  <2> QED
    BY <1>1, <1>a, <2>1, LockedFacts, StepsSetupOwn
<1>4. Emptied(q) => Emptied(q)'
  BY <1>1, <1>2, <1>3, <1>a DEF Emptied, Bare
<1>5. Prepared(q) => Prepared(q)'
  BY <1>1, <1>2, <1>3 DEF Prepared
<1> QED
  BY <1>1, <1>4, <1>5 DEF NoRestore

OwnerInv == ResourcesHaveOwner /\ \A p \in Procs : Emptied(p)
DiskInv == UsableHasDisk /\ \A p \in Procs : Prepared(p) /\ NoRestore(p)

LEMMA StepsKeepOwner ==
    ASSUME LifecycleInv, Names \cap Ids = {}, OwnerInv, NEW p \in Procs, Steps(p)
    PROVE  OwnerInv'
<1>a. TypeOK
  BY InvFacts
<1>1. \A q \in Procs : Emptied(q)'
  BY <1>a, StepsEstablish, StepsKeepOthers DEF OwnerInv
<1>2. ASSUME NEW i \in Ids, ~Exists(i)'
      PROVE  Bare(i)'
  <2>1. CASE Exists(i)
    <3>1. i = op[p].id /\ op[p].at \in {"forget", "finalize"} /\ UNCHANGED hostVars
      BY <1>2, <1>a, <2>1, StepsDelete
    <3>2. setup'[i] = setup[i]
      BY <1>a, <3>1, StepsSetupOwn
    <3> QED
      BY <3>1, <3>2 DEF OwnerInv, Emptied, Bare, hostVars
  <2>2. CASE ~Exists(i)
    <3>1. Bare(i)
      BY <2>2 DEF OwnerInv, ResourcesHaveOwner, Bare
    <3>2. disk'[i] = disk[i] /\ net'[i] = net[i]
      BY SMTT(30), <1>a, <2>2, StepsHostOwn, LockedFacts
    <3>3. "commitCreated" \in LockedSteps
      BY DEF LockedSteps
    <3>4. setup'[i] = setup[i]
      BY <1>a, <2>2, <3>3, StepsSetupOwn, LockedFacts
    <3> QED
      BY <3>1, <3>2, <3>4 DEF Bare
  <2> QED
    BY <2>1, <2>2
<1>3. ResourcesHaveOwner'
  BY <1>2 DEF ResourcesHaveOwner, Exists, Bare
<1> QED
  BY <1>1, <1>3 DEF OwnerInv

LEMMA StepsKeepDisk ==
    ASSUME LifecycleInv, Names \cap Ids = {}, DiskInv, NEW p \in Procs, Steps(p)
    PROVE  DiskInv'
<1>a. TypeOK
  BY InvFacts
<1>1. \A q \in Procs : Prepared(q)'
  BY <1>a, StepsEstablish, StepsKeepOthers DEF DiskInv
<1>2. NoRestore(p)'
  BY <1>a, StepsReach DEF DiskInv, NoRestore, Reached
<1>3. \A q \in Procs : NoRestore(q)'
  BY <1>2, StepsKeepOthers DEF DiskInv
<1>4. ASSUME NEW i \in Ids, rec'[i].state \in Usable
      PROVE  disk'[i]
  <2>1. CASE rec[i].state \in Usable
    <3>1. disk[i]
      BY <2>1 DEF DiskInv, UsableHasDisk, Usable
    <3>2. ASSUME ~disk'[i]
          PROVE  FALSE
      <4>1. i = op[p].id /\ op[p].at \in {"compensate", "release"}
        BY <1>a, <3>1, <3>2, StepsDiskLost
      <4>2. rec[i].state \in {"creating", "deleting"}
        BY <4>1, LockedFacts DEF LockedSteps, StatesAt
      <4> QED
        BY <2>1, <4>2 DEF Usable, MayOwnVMM
    <3> QED
      BY <3>2
  <2>2. CASE rec[i].state \notin Usable
    <3>1. i = op[p].id /\ op[p].at \in {"commitCreated", "beginStart"} /\ UNCHANGED disk
      BY <1>4, <1>a, <2>2, StepsUsable
    <3> QED
      BY <3>1 DEF DiskInv, Prepared
  <2> QED
    BY <2>1, <2>2
<1>5. UsableHasDisk'
  BY <1>4 DEF UsableHasDisk, Usable
<1> QED
  BY <1>1, <1>3, <1>5 DEF DiskInv
\* Taking up an operation moves only the operation itself, to a first step.
LEMMA IssuesMove ==
    ASSUME TypeOK, NEW p \in Procs, Issues(p)
    PROVE  /\ \A q \in Procs : q # p => op'[q] = op[q]
           /\ op' = op \/ op'[p].pid = NoPid
           /\ \/ op' = op
              \/ /\ op'[p].at \in {"lock", "createNetwork", "statusRead", "locked"}
                 /\ op'[p].kind # "restore" /\ (op'[p].at = "statusRead" => "status" \in Kinds)
              \/ op'[p].at = "restoreDecide" /\ "restore" \in Kinds
<1>1. CASE Issue(p)
  <2>1. PICK k \in {"start", "stop", "remove"}, ref \in Ids \cup Names :
            Become(p, [Idle EXCEPT !.at = "lock", !.kind = k, !.id = Resolve(ref)])
    BY <1>1 DEF Issue
  <2> QED
    BY <2>1 DEF Become, Idle, TypeOK, OperationTypeOK
<1>2. CASE IssueCreate(p)
  <2>1. PICK i \in Ids : Become(p, [Idle EXCEPT !.at = "createNetwork", !.kind = "create",
                                        !.id = i, !.st = "creating", !.gen = 1])
    BY <1>2 DEF IssueCreate
  <2> QED
    BY <2>1 DEF Become, Idle, TypeOK, OperationTypeOK
<1>3. CASE IssueRestore(p)
  <2>1. PICK ref \in Ids \cup Names :
            Become(p, [Idle EXCEPT !.at = "restoreDecide", !.kind = "restore",
                            !.id = Resolve(ref), !.st = rec[Resolve(ref)].state])
    BY <1>3 DEF IssueRestore
  <2>2. "restore" \in Kinds
    BY <1>3 DEF IssueRestore
  <2> QED
    BY <2>1, <2>2 DEF Become, Idle, TypeOK, OperationTypeOK
<1>4. CASE IssueStatus(p)
  <2>1. PICK i \in Ids :
            Become(p, [Idle EXCEPT !.at = "statusRead", !.kind = "status", !.id = i,
                                   !.st = rec[i].state, !.gen = rec[i].gen])
    BY <1>4 DEF IssueStatus
  <2>2. "status" \in Kinds
    BY <1>4 DEF IssueStatus
  <2> QED
    BY <2>1, <2>2 DEF Become, Idle, TypeOK, OperationTypeOK
<1>5. ASSUME NEW i \in Ids, IssueReconcile(p, i) PROVE
           /\ \A q \in Procs : q # p => op'[q] = op[q]
           /\ op'[p].at = "locked" /\ op'[p].kind = "reconcile" /\ op'[p].pid = NoPid
  BY <1>5 DEF IssueReconcile, Become, Idle, TypeOK, OperationTypeOK
<1>6. ASSUME NEW i \in Ids, CollectOrphan(p, i) PROVE op' = op
  BY <1>6 DEF CollectOrphan
<1> QED
  BY <1>1, <1>2, <1>3, <1>4, <1>5, <1>6 DEF Issues

\* It changes no resource of a record, and no record that a client can use.
LEMMA IssuesHost ==
    ASSUME TypeOK, Names \cap Ids = {}, NEW p \in Procs, Issues(p), NEW j \in Ids
    PROVE  /\ Exists(j) => disk'[j] = disk[j] /\ net'[j] = net[j] /\ Exists(j)'
           /\ disk'[j] => disk[j]
           /\ net'[j] # "none" => net[j] # "none"
           /\ Exists(j) \/ ~Exists(j)' => setup'[j] = setup[j]
           /\ rec'[j].state \in Usable => rec[j].state \in Usable
<1>1. CASE IssueCreate(p)
  <2>1. PICK i \in Ids, n \in Names, s \in Policies : Reserve(i, n, s)
    BY <1>1 DEF IssueCreate
  <2>2. UNCHANGED <<disk, net>>
    BY <1>1 DEF IssueCreate, hostVars
  <2> QED
    BY <2>1, <2>2 DEF Reserve, Exists, Usable, MayOwnVMM, TypeOK, CatalogTypeOK, SetupTypeOK
<1>2. ASSUME NEW i \in Ids, CollectOrphan(p, i)
      PROVE  /\ Exists(j) => disk'[j] = disk[j] /\ net'[j] = net[j] /\ Exists(j)'
             /\ disk'[j] => disk[j]
             /\ net'[j] # "none" => net[j] # "none"
             /\ setup'[j] = setup[j]
             /\ rec'[j].state \in Usable => rec[j].state \in Usable
  <2>1. ~Exists(i) /\ UNCHANGED <<rec, setup>>
    BY <1>2, NoIdAssumption DEF CollectOrphan, Resolve, Exists, catalogVars
  <2>2. /\ disk' = disk \/ disk' = [disk EXCEPT ![i] = FALSE]
        /\ net' = net \/ net' = [net EXCEPT ![i] = "none"]
    BY <1>2 DEF CollectOrphan
  <2>3. (disk'[j] => disk[j]) /\ (j # i => disk'[j] = disk[j])
    BY <2>2 DEF TypeOK
  <2>4. (net'[j] # "none" => net[j] # "none") /\ (j # i => net'[j] = net[j])
    BY <2>2 DEF TypeOK
  <2> QED
    BY <2>1, <2>3, <2>4 DEF Exists
<1>3. CASE \/ Issue(p) \/ IssueRestore(p) \/ IssueStatus(p) \/ \E i \in Ids : IssueReconcile(p, i)
  BY <1>3 DEF Issue, IssueRestore, IssueStatus, IssueReconcile, catalogVars, hostVars, Exists
<1> QED
  BY <1>1, <1>2, <1>3 DEF Issues

LEMMA IssuesKeepOwner ==
    ASSUME LifecycleInv, Names \cap Ids = {}, OwnerInv, NEW p \in Procs, Issues(p)
    PROVE  OwnerInv'
<1>a. TypeOK
  BY InvFacts
<1>1. ResourcesHaveOwner'
  <2>1. ASSUME NEW j \in Ids, ~Exists(j)'
        PROVE  Bare(j)'
    <3>1. ~Exists(j) /\ setup'[j] = setup[j] /\ (disk'[j] => disk[j])
          /\ (net'[j] # "none" => net[j] # "none")
      BY <1>a, <2>1, IssuesHost
    <3> QED
      BY <3>1 DEF OwnerInv, ResourcesHaveOwner, Bare
  <2> QED
    BY <2>1 DEF ResourcesHaveOwner, Exists, Bare
<1>2. ASSUME NEW q \in Procs, op'[q] = op[q]
      PROVE  Emptied(q)'
  <2>1. op[q].at \in {"forget", "finalize"} => op[q].id \in Ids /\ Exists(op[q].id)
    BY LockedFacts DEF LockedSteps
  <2> QED
    BY <1>2, <1>a, <2>1, IssuesHost DEF OwnerInv, Emptied, Bare
<1>3. op' # op => Emptied(p)'
  BY <1>a, IssuesMove DEF Emptied
<1> QED
  BY <1>a, <1>1, <1>2, <1>3, IssuesMove DEF OwnerInv

LEMMA IssuesKeepDisk ==
    ASSUME LifecycleInv, Names \cap Ids = {}, "restore" \notin Kinds, DiskInv,
           NEW p \in Procs, Issues(p)
    PROVE  DiskInv'
<1>a. TypeOK
  BY InvFacts
<1>b. \A j \in Ids : rec[j].state \in Usable => Exists(j)
  BY DEF Usable, MayOwnVMM, Exists
<1>1. UsableHasDisk'
  BY <1>a, <1>b, IssuesHost DEF DiskInv, UsableHasDisk, Usable
<1>2. ASSUME NEW q \in Procs, op'[q] = op[q]
      PROVE  Prepared(q)' /\ NoRestore(q)'
  <2>1. op[q].at \in {"commitCreated", "beginStart"} => op[q].id \in Ids /\ Exists(op[q].id)
    BY LockedFacts DEF LockedSteps
  <2>2. Prepared(q)'
    BY <1>2, <1>a, <2>1, IssuesHost DEF DiskInv, Prepared
  <2> QED
    BY <1>2, <2>2 DEF DiskInv, NoRestore
<1>3. op' # op => Prepared(p)' /\ NoRestore(p)'
  BY <1>a, IssuesMove DEF Prepared, NoRestore
<1> QED
  BY <1>a, <1>1, <1>2, <1>3, IssuesMove DEF DiskInv

\* A crash ends operations and lowers networks, and takes neither disk nor record.
LEMMA EnvironmentKeepsHost ==
    ASSUME TypeOK,
           \/ \E p \in Procs : Crash(p)
           \/ \E v \in Pids : VmReady(v) \/ VmExit(v)
           \/ HostReboot
           \/ UNCHANGED vars
    PROVE  (OwnerInv => OwnerInv') /\ (DiskInv => DiskInv')
<1>1. /\ UNCHANGED <<rec, setup, disk>>
      /\ \A i \in Ids : (net'[i] = "none") <=> (net[i] = "none")
      /\ \A q \in Procs : op'[q] = op[q] \/ (op'[q].at = "idle" /\ op'[q].kind = "none")
  <2>1. CASE \E p \in Procs : Crash(p)
    BY SMTT(30), <2>1 DEF Crash, Return, Become, Idle, TypeOK, OperationTypeOK, catalogVars, hostVars
  <2>2. CASE \E v \in Pids : VmReady(v) \/ VmExit(v)
    BY <2>2 DEF VmReady, VmExit, catalogVars, hostVars
  <2>3. CASE HostReboot
    BY <2>3 DEF HostReboot, Idle, catalogVars
  <2>4. CASE UNCHANGED vars
    BY <2>4 DEF vars
  <2> QED
    BY <2>1, <2>2, <2>3, <2>4
<1>2. \A q \in Procs : op[q].at # "idle" => op[q].id \in Ids
  BY DEF TypeOK, OperationTypeOK
<1>3. OwnerInv => OwnerInv'
  BY <1>1, <1>2 DEF OwnerInv, ResourcesHaveOwner, Emptied, Bare, Exists
<1>4. DiskInv => DiskInv'
  BY <1>1, <1>2 DEF DiskInv, UsableHasDisk, Prepared, NoRestore
<1> QED
  BY <1>3, <1>4

\* The sandbox service reserves before it allocates and forgets after it
\* releases: no disk outlives its record, and no network whose NICs or setup
\* the record shows, whichever step failed.
THEOREM ResourcesAreOwned ==
    ASSUME Names \cap Ids = {}
    PROVE  Spec => []ResourcesHaveOwner
<1>1. Init => OwnerInv
  BY SMTT(30) DEF Init, Idle, OwnerInv, ResourcesHaveOwner, Emptied
<1>2. LifecycleInv /\ OwnerInv /\ [Next]_vars => OwnerInv'
  BY StepsKeepOwner, IssuesKeepOwner, EnvironmentKeepsHost, InvFacts DEF Next
<1>3. OwnerInv => ResourcesHaveOwner
  BY DEF OwnerInv
<1> QED
  BY <1>1, <1>2, <1>3, LifecycleInvariant, PTL DEF Spec

\* Without restore, which starts an Error record before it looks at the disk,
\* neither compensation, removal nor the collector takes the disk of a record
\* that can be started or may own a VMM.
THEOREM UsableRecordsHaveDisks ==
    ASSUME Names \cap Ids = {}, "restore" \notin Kinds
    PROVE  Spec => []UsableHasDisk
<1>1. Init => DiskInv
  BY SMTT(30) DEF Init, CatalogInit, NoRecord, Idle, DiskInv, UsableHasDisk, Prepared, NoRestore, MayOwnVMM
<1>2. LifecycleInv /\ DiskInv /\ [Next]_vars => DiskInv'
  BY StepsKeepDisk, IssuesKeepDisk, EnvironmentKeepsHost, InvFacts DEF Next
<1>3. DiskInv => UsableHasDisk
  BY DEF DiskInv
<1> QED
  BY <1>1, <1>2, <1>3, LifecycleInvariant, PTL DEF Spec
-----------------------------------------------------------------------------
(* Whom an operation may end.                                                *)

\* A process that dies drops its operation and nobody else's.
LEMMA CrashDrops ==
    ASSUME TypeOK, NEW p \in Procs, Crash(p), NEW q \in Procs
    PROVE  op'[q] = op[q] \/ op'[q] = Idle
<1>1. op \in [Procs -> Op]
  BY DEF TypeOK, OperationTypeOK
<1>2. op' = [op EXCEPT ![p] = Idle]
  BY DEF Crash, Return, Become
<1> QED
  BY <1>1, <1>2

\* The process identity an operation holds is of its own sandbox, or dead.
PidOwned(p) == op[p].pid # NoPid => vm[op[p].pid].id \in {NoId, op[p].id}

\* A VMM ends at the three steps that kill, and appears under a fresh identity.
LEMMA StepsVm ==
    ASSUME TypeOK, NEW p \in Procs, Steps(p), NEW v \in Pids
    PROVE  \/ vm'[v] = vm[v]
           \/ /\ vm'[v].id = NoId /\ v = op[p].pid
              /\ op[p].at \in {"persist", "failCleanup", "stopVMM"}
           \/ vm'[v].id = op[p].id /\ Fresh(v) /\ ExecVMM(p)
<1>a. ASSUME NEW w, vm' = [vm EXCEPT ![w] = NoVm]
      PROVE  vm'[v] = vm[v] \/ (vm'[v].id = NoId /\ v = w)
  BY <1>a DEF NoVm, TypeOK, DriverTypeOK
<1>1. CASE UNCHANGED vm
  BY <1>1
<1>2. CASE ExecVMM(p)
  <2>1. UNCHANGED vm \/ \E w \in Pids : Fresh(w) /\ Exec(op[p].id, op[p].gen, w)
    BY <1>2 DEF ExecVMM, Target
  <2>2. ASSUME NEW w \in Pids, Fresh(w), Exec(op[p].id, op[p].gen, w)
        PROVE  vm'[v] = vm[v] \/ (vm'[v].id = op[p].id /\ Fresh(v))
    <3>1. vm' = [vm EXCEPT ![w] = [id |-> op[p].id, gen |-> op[p].gen, ready |-> FALSE]]
      BY <2>2 DEF Exec
    <3>2. vm \in [Pids -> Vm]
      BY DEF TypeOK, DriverTypeOK
    <3>3. CASE v = w
      BY <2>2, <3>1, <3>2, <3>3
    <3>4. CASE v # w
      BY <3>1, <3>2, <3>4
    <3> QED
      BY <3>3, <3>4
  <2> QED
    BY <1>1, <1>2, <2>1, <2>2
<1>3. CASE PersistIdentity(p) \/ FailCleanup(p) \/ StopVMM(p)
  <2>1. op[p].at \in {"persist", "failCleanup", "stopVMM"}
    BY <1>3 DEF PersistIdentity, FailCleanup, StopVMM, At
  <2>2. PersistIdentity(p) => vm' = vm \/ vm' = [vm EXCEPT ![op[p].pid] = NoVm]
    BY DEF PersistIdentity, Terminate
  <2>3. FailCleanup(p) => vm' = vm \/ vm' = [vm EXCEPT ![op[p].pid] = NoVm]
    BY DEF FailCleanup, Terminate, driverVars
  <2>4. StopVMM(p) => vm' = vm \/ vm' = [vm EXCEPT ![op[p].pid] = NoVm]
    BY DEF StopVMM, Terminate
  <2>5. CASE vm' = vm
    BY <2>5
  <2>6. CASE vm' = [vm EXCEPT ![op[p].pid] = NoVm]
    BY <2>1, <2>6, <1>a
  <2> QED
    BY <1>3, <2>2, <2>3, <2>4, <2>5, <2>6
<1> QED
  BY <1>1, <1>2, <1>3
  DEF Steps, AcquireLock, CreateNetwork, CreateDisk, CommitCreated, Compensate,
      ForgetReservation, RetainError, RecoverStart, StartCleanup, MarkLost, Validate,
      CommitStarting, RecoverNetwork, AwaitReady, CommitRunning, FailCommit, InspectStop,
      CommitStopping, StopCleanup, CommitStopped, CommitDeleting, ReleaseResources,
      CommitDeleted, RestoreDecide, RestoreRelock, ReplaceDisks, StatusRead, StatusWrite,
      Reconcile, Locate, driverVars

\* An operation keeps its identity, drops it, or takes one it found or started.
Held(p) ==
    \/ op'[p].pid = NoPid
    \/ op'[p].pid = op[p].pid /\ op'[p].id = op[p].id
    \/ op'[p].pid \in Pids /\ vm'[op'[p].pid].id = op'[p].id

LEMMA StepsPid ==
    ASSUME TypeOK, Names \cap Ids = {}, NEW p \in Procs, Steps(p)
    PROVE  Held(p)
<1>0. op \in [Procs -> Op]
  BY DEF TypeOK, OperationTypeOK
<1>a. ASSUME Return(p) PROVE Held(p)
  BY <1>0, <1>a DEF Return, Become, Idle, Held
<1>b. ASSUME NEW step, Goto(p, step) \/ GotoCommitted(p, step) PROVE Held(p)
  <2>1. CASE Goto(p, step)
    BY SMTT(30), <1>0, <2>1 DEF Goto, Become, Held, Op
  <2>2. CASE GotoCommitted(p, step)
    BY SMTT(30), <1>0, <2>2 DEF GotoCommitted, Become, Held, Op
  <2> QED
    BY <1>b, <2>1, <2>2
<1>c. ASSUME NEW step, NEW v, GotoWith(p, step, v),
             v = NoPid \/ (v \in Pids /\ vm'[v].id = op[p].id)
      PROVE  Held(p)
  BY <1>0, <1>c DEF GotoWith, Become, Held, Op
<1>d. ASSUME StopReturns(p) \/ ContinueAsRemove(p) PROVE Held(p)
  <2>1. CASE Become(p, [op[p] EXCEPT !.at = "relock", !.pid = NoPid])
    BY <1>0, <2>1 DEF Become, Held, Op
  <2>2. CASE ContinueAsRemove(p)
    BY <1>0, <2>2 DEF ContinueAsRemove, Become, Idle, Held
  <2> QED
    BY <1>a, <1>d, <2>1, <2>2 DEF StopReturns
<1>e. ASSUME NEW g, NEW out, NEW v, Locate(op[p].id, g, out, v)
      PROVE  v = NoPid \/ (v \in Pids /\ vm'[v].id = op[p].id)
  BY <1>e DEF Locate, Located, Live
<1>1. CASE AcquireLock(p) \/ RestoreRelock(p)
  <2>1. op[p].id \in Ids
    BY <1>1 DEF AcquireLock, RestoreRelock, At, TypeOK, OperationTypeOK
  <2>2. Resolve(op[p].id) # NoId => Resolve(op[p].id) = op[p].id
    BY <2>1, SecondResolve
  <2>3. \/ Return(p)
        \/ \E step : Become(p, [op[p] EXCEPT !.at = step, !.id = op[p].id,
                                    !.st = rec[op[p].id].state, !.gen = rec[op[p].id].gen])
    BY <1>1, <2>2 DEF AcquireLock, RestoreRelock, Target
  <2>4. ASSUME NEW step, Become(p, [op[p] EXCEPT !.at = step, !.id = op[p].id,
                                    !.st = rec[op[p].id].state, !.gen = rec[op[p].id].gen])
        PROVE  Held(p)
    BY <1>0, <2>4 DEF Become, Held, Op
  <2> QED
    BY <1>a, <2>3, <2>4
<1>2. CASE ExecVMM(p)
  <2>1. \/ Goto(p, "failCleanup")
        \/ \E v \in Pids : GotoWith(p, "persist", v) /\ Exec(op[p].id, op[p].gen, v)
    BY <1>2 DEF ExecVMM, Target
  <2>2. \A v \in Pids : Exec(op[p].id, op[p].gen, v) => vm'[v].id = op[p].id
    BY SMTT(30) DEF Exec, TypeOK, DriverTypeOK
  <2> QED
    BY <1>b, <1>c, <2>1, <2>2
<1>3. CASE PersistIdentity(p)
  BY <1>3, <1>b, <1>c DEF PersistIdentity
<1>4. CASE RecoverStart(p)
  BY <1>4, <1>a, <1>b, <1>c, <1>e DEF RecoverStart, StartDecision, Target
<1>5. CASE InspectStop(p)
  BY <1>5, <1>a, <1>b, <1>c, <1>e DEF InspectStop, StopDecision, Target
<1>6. CASE Reconcile(p)
  BY <1>6, <1>a, <1>b, <1>c, <1>d, <1>e DEF Reconcile, ReconcileDecision, Target
<1>7. CASE StatusRead(p)
  <2>1. Return(p) \/ \E v \in Pids : Live(op[p].id) = {v} /\ GotoWith(p, "statusWrite", v) /\ vm' = vm
    BY <1>7 DEF StatusRead, driverVars, Target
  <2> QED
    BY <1>a, <1>c, <2>1 DEF Live
<1>8. CASE \/ CreateDisk(p) \/ CommitCreated(p) \/ Compensate(p)
           \/ ForgetReservation(p) \/ RetainError(p) \/ StartCleanup(p) \/ MarkLost(p)
           \/ Validate(p) \/ CommitStarting(p) \/ RecoverNetwork(p) \/ AwaitReady(p)
  BY <1>8, <1>a, <1>b
  DEF CreateDisk, CommitCreated, Compensate, ForgetReservation, RetainError,
      StartCleanup, MarkLost, Validate, CommitStarting, RecoverNetwork, AwaitReady
<1>9. CASE \/ CommitRunning(p) \/ FailCleanup(p) \/ FailCommit(p) \/ CommitStopping(p)
           \/ StopVMM(p) \/ StopCleanup(p) \/ CommitStopped(p) \/ CommitDeleting(p)
           \/ ReleaseResources(p) \/ CommitDeleted(p) \/ RestoreDecide(p) \/ ReplaceDisks(p)
           \/ StatusWrite(p)
  BY <1>9, <1>a, <1>b, <1>d
  DEF CommitRunning, FailCleanup, FailCommit, CommitStopping, StopVMM, StopCleanup,
      CommitStopped, CommitDeleting, ReleaseResources, CommitDeleted, RestoreDecide,
      ReplaceDisks, StatusWrite
<1>10. CASE CreateNetwork(p)
  <2>1. Goto(p, "compensate") \/ \E h \in BOOLEAN : GotoHolding(p, "createDisk", h)
    BY <1>10 DEF CreateNetwork
  <2>2. ASSUME NEW h, GotoHolding(p, "createDisk", h)
        PROVE  Held(p)
    BY SMTT(30), <1>0, <2>2 DEF GotoHolding, Become, Held, Op
  <2> QED
    BY <1>b, <2>1, <2>2
<1> QED
  BY <1>1, <1>2, <1>3, <1>4, <1>5, <1>6, <1>7, <1>8, <1>9, <1>10 DEF Steps

LEMMA StepsKeepPids ==
    ASSUME LifecycleInv, Names \cap Ids = {}, \A q \in Procs : PidOwned(q),
           NEW p \in Procs, Steps(p)
    PROVE  \A q \in Procs : PidOwned(q)'
<1>a. TypeOK /\ OthersKeep(p) /\ Held(p)
  BY InvFacts, StepsOthersKeep, StepsPid
<1>1. ASSUME NEW q \in Procs, op[q].pid # NoPid
      PROVE  vm'[op[q].pid].id \in {NoId, op[q].id}
  <2>1. op[q].pid \in Pids /\ ~Fresh(op[q].pid)
    BY <1>a, <1>1 DEF TypeOK, OperationTypeOK, Op, Fresh
  <2> QED
    BY <1>a, <1>1, <2>1, StepsVm DEF PidOwned
<1>2. \A q \in Procs : q # p => PidOwned(q)'
  BY <1>a, <1>1 DEF OthersKeep, PidOwned
<1>3. PidOwned(p)'
  BY <1>a, <1>1 DEF Held, PidOwned
<1> QED
  BY <1>2, <1>3

\* Nobody else starts a VMM.
LEMMA OthersKeepPids ==
    ASSUME TypeOK, \A q \in Procs : PidOwned(q),
           \/ \E p \in Procs : Issues(p) \/ Crash(p)
           \/ \E v \in Pids : VmReady(v) \/ VmExit(v)
           \/ HostReboot
           \/ UNCHANGED vars
    PROVE  \A q \in Procs : PidOwned(q)'
<1>1. \A v \in Pids : vm'[v].id \in {NoId, vm[v].id}
  <2>1. CASE \E p \in Procs : Issues(p) \/ Crash(p)
    BY <2>1
    DEF Issues, Issue, IssueCreate, IssueRestore, IssueStatus, IssueReconcile, CollectOrphan,
        Crash, driverVars
  <2>2. CASE \E v \in Pids : VmReady(v) \/ VmExit(v)
    BY SMTT(30), <2>2 DEF VmReady, VmExit, BecomeReady, Terminate, NoVm, TypeOK, DriverTypeOK
  <2>3. CASE HostReboot \/ UNCHANGED vars
    BY SMTT(30), <2>3 DEF HostReboot, NoVm, vars
  <2> QED
    BY <2>1, <2>2, <2>3
<1>2. \A q \in Procs : op'[q] = op[q] \/ op'[q].pid = NoPid
  <2>1. ASSUME NEW p \in Procs, Issues(p)
        PROVE  \A q \in Procs : op'[q] = op[q] \/ op'[q].pid = NoPid
    BY <2>1, IssuesMove
  <2>2. CASE \E p \in Procs : Crash(p)
    BY SMTT(30), <2>2, CrashDrops DEF Idle
  <2>3. CASE (\E v \in Pids : VmReady(v) \/ VmExit(v)) \/ HostReboot \/ UNCHANGED vars
    BY SMTT(30), <2>3 DEF VmReady, VmExit, HostReboot, Idle, vars
  <2> QED
    BY <2>1, <2>2, <2>3
<1>3. \A q \in Procs : op[q].pid # NoPid => op[q].pid \in Pids
  BY DEF TypeOK, OperationTypeOK, Op
<1> QED
  BY SMTT(30), <1>1, <1>2, <1>3 DEF PidOwned

\* Stop, failStart and reconciliation signal only the process they identified,
\* and only under a committed Starting, Stopping or Error: no operation ends a
\* VMM whose record says Running.
THEOREM KillsAreIntended ==
    ASSUME Names \cap Ids = {}
    PROVE  Spec => KillNeedsIntent
<1> DEFINE Pids_ == \A q \in Procs : PidOwned(q)
           Intended == \A v \in Pids, p \in Procs :
                /\ vm[v].id # NoId /\ vm'[v].id = NoId
                /\ op'[p] # op[p] /\ op'[p] # Idle
                => rec[vm[v].id].state \in {"starting", "stopping", "error"}
<1>1. Init => Pids_
  BY SMTT(30) DEF Init, Idle, PidOwned
<1>2. LifecycleInv /\ Pids_ /\ [Next]_vars => Pids_'
  BY StepsKeepPids, OthersKeepPids, InvFacts DEF Next
<1>3. LifecycleInv /\ Pids_ /\ [Next]_vars => [Intended]_vars
  <2> SUFFICES ASSUME LifecycleInv, Pids_, Next, NEW v \in Pids, NEW p \in Procs,
                      vm[v].id # NoId, vm'[v].id = NoId, op'[p] # op[p], op'[p] # Idle
               PROVE  rec[vm[v].id].state \in {"starting", "stopping", "error"}
    OBVIOUS
  <2>a. TypeOK
    BY InvFacts
  <2>1. ASSUME NEW q \in Procs, Steps(q)
        PROVE  rec[vm[v].id].state \in {"starting", "stopping", "error"}
    <3>1. q = p
      BY ZenonT(30), <2>1, <2>a, StepsOthersKeep DEF OthersKeep
    <3>2. \/ v = op[p].pid /\ op[p].at \in {"persist", "failCleanup", "stopVMM"}
          \/ op[p].id = NoId
      BY <2>1, <2>a, <3>1, StepsVm
    <3>3. op[p].id # NoId
      BY SMTT(30), <2>1, <2>a, <3>1, <3>2, StepsVm, NoIdAssumption DEF TypeOK, OperationTypeOK, Fresh
    <3>4. vm[v].id = op[p].id
      BY <2>a, <3>2, <3>3, NoPidAssumption DEF PidOwned
    <3>5. rec[op[p].id].state \in StatesAt(op[p].at)
      BY <3>2, <3>3, LockedFacts DEF LockedSteps
    <3> QED
      BY <3>2, <3>3, <3>4, <3>5 DEF StatesAt
  <2>2. ASSUME NEW q \in Procs, Issues(q) \/ Crash(q)
        PROVE  FALSE
    BY <2>2
    DEF Issues, Issue, IssueCreate, IssueRestore, IssueStatus, IssueReconcile, CollectOrphan,
        Crash, driverVars
  <2>3. ASSUME NEW w \in Pids, VmReady(w) \/ VmExit(w)
        PROVE  FALSE
    BY <2>3 DEF VmReady, VmExit
  <2>4. ASSUME HostReboot
        PROVE  FALSE
    BY <2>4 DEF HostReboot
  <2> QED
    BY <2>1, <2>2, <2>3, <2>4 DEF Next
<1> QED
  BY <1>1, <1>2, <1>3, LifecycleInvariant, PTL DEF Spec, KillNeedsIntent
-----------------------------------------------------------------------------
(* One VMM of the right generation.                                          *)

\* On the way to exec the scope of the sandbox is empty.
Vacant(p) ==
    op[p].at \in {"markLost", "validate", "beginStart", "recoverNetwork", "exec"} =>
        Absent(op[p].id)

\* How a step may change a record behind which a VMM can stand.
LEMMA StepsRecordMove ==
    ASSUME TypeOK, NEW p \in Procs, Steps(p), NEW i \in Ids, rec'[i] # rec[i],
           rec'[i].state \in MayOwnVMM \cup {"error"}
    PROVE  /\ i = op[p].id /\ rec'[i].gen = rec[i].gen + 1
           /\ \/ rec[i].state = "creating" /\ rec'[i].state = "error"
              \/ rec[i].state = "starting" /\ rec'[i].state \in {"running", "error"}
              \/ rec[i].state = "running" /\ rec'[i].state = "stopping"
              \/ op[p].at = "beginStart" /\ rec'[i].state = "starting"
<1>1. i = op[p].id
  BY StepsChangeOwnRecord
<1>a. ASSUME NEW to, Advance(i, to)
      PROVE  rec'[i].state = to /\ rec'[i].gen = rec[i].gen + 1
  BY <1>a DEF Advance, TypeOK, CatalogTypeOK
<1>b. ~UNCHANGED catalogVars
  BY DEF catalogVars
<1>c. ~DeleteRecord(i)
  BY SMTT(30) DEF DeleteRecord, NoRecord, MayOwnVMM, TypeOK, CatalogTypeOK
<1>d. "created" \notin MayOwnVMM /\ "stopped" \notin MayOwnVMM /\ "deleting" \notin MayOwnVMM
  BY DEF MayOwnVMM
<1>2. CASE CommitCreated(p) \/ RetainError(p)
  BY <1>1, <1>2, <1>a, <1>b, <1>d
  DEF CommitCreated, RetainError, MarkCreated, MarkError, Fenced, Refused, Target, Move
<1>3. CASE CommitRunning(p) \/ FailCommit(p)
  BY <1>1, <1>3, <1>a, <1>b
  DEF CommitRunning, FailCommit, MarkRunning, MarkStartError, Fenced, Refused, Target,
      Move
<1>4. CASE MarkLost(p) \/ CommitStopped(p)
  BY <1>1, <1>4, <1>a, <1>b, <1>d DEF MarkLost, CommitStopped, MarkStopped, Refused, Target,
      Move
<1>5. CASE ForgetReservation(p) \/ CommitDeleted(p)
  BY <1>1, <1>5, <1>b, <1>c
  DEF ForgetReservation, CommitDeleted, Forget, FinalizeDelete, Refused, Target
<1>6. CASE CommitStarting(p)
  BY <1>1, <1>6, <1>a, <1>b DEF CommitStarting, BeginStart, Refused, At, Target, Move
<1>7. CASE CommitStopping(p)
  <2>1. Fenced(i, op[p].gen, {"running"}) /\ Advance(i, "stopping")
    BY <1>1, <1>7, <1>b DEF CommitStopping, BeginStop, Refused, Target, Move
  <2> QED
    BY <1>1, <1>a, <2>1 DEF Fenced
<1>8. CASE CommitDeleting(p) \/ Reconcile(p)
  <2>1. Advance(i, "deleting")
    BY <1>1, <1>8, <1>b DEF CommitDeleting, Reconcile, BeginDelete, Refused, Target,
      Move
  <2> QED
    BY SMTT(30), <1>a, <1>d, <2>1
<1> QED
  BY <1>2, <1>3, <1>4, <1>5, <1>6, <1>7, <1>8, StepsWithoutCommit DEF Commits

\* Where a VMM stands, a transition keeps the generation it was launched by.
LEMMA StepsKeepGeneration ==
    ASSUME LifecycleInv, NEW p \in Procs, Steps(p), Vacant(p), NEW i \in Ids, ~Absent(i),
           rec'[i].state \in MayOwnVMM \cup {"error"}
    PROVE  /\ rec[i].state \in MayOwnVMM \cup {"error"}
           /\ rec'[i].state \in MayOwnVMM => rec[i].state \in MayOwnVMM
           /\ ProcessGeneration(rec'[i].state, rec'[i].gen)
                = ProcessGeneration(rec[i].state, rec[i].gen)
<1>a. TypeOK /\ StoppedMeansAbsent
  BY InvFacts
<1>1. CASE rec'[i] = rec[i]
  BY <1>1
<1>2. CASE rec'[i] # rec[i]
  <2>1. /\ rec'[i].gen = rec[i].gen + 1 /\ rec[i].gen \in Nat
        /\ \/ rec[i].state = "starting" /\ rec'[i].state \in {"running", "error"}
           \/ rec[i].state = "running" /\ rec'[i].state = "stopping"
    BY <1>2, <1>a, StepsRecordMove DEF Vacant, StoppedMeansAbsent, TypeOK, CatalogTypeOK, Record
  <2> QED
    BY SMTT(30), <2>1 DEF MayOwnVMM, ProcessGeneration
<1> QED
  BY <1>1, <1>2

\* Cleanup proves the absence, and the steps that follow start nothing.
LEMMA StepsVacate ==
    ASSUME TypeOK, NEW p \in Procs, Steps(p), Vacant(p), NoRestore(p)
    PROVE  Vacant(p)'
<1>a. Reached(p)
  BY StepsReach
<1>b. ASSUME NEW step, Goto(p, step) \/ GotoCommitted(p, step)
      PROVE  op'[p].at = step /\ op'[p].id = op[p].id
  <2>1. op \in [Procs -> Op]
    BY DEF TypeOK, OperationTypeOK
  <2>2. CASE Goto(p, step)
    BY <2>1, <2>2 DEF Goto, Become, Op
  <2>3. CASE GotoCommitted(p, step)
    BY <2>1, <2>3 DEF GotoCommitted, Become, Op
  <2> QED
    BY <1>b, <2>2, <2>3
<1>c. ASSUME Absent(op[p].id), vm' = vm, op'[p].id = op[p].id
      PROVE  Vacant(p)'
  BY <1>c DEF Vacant, Absent, Live
<1>d. ASSUME op'[p].at = "idle"
      PROVE  Vacant(p)'
  BY <1>d DEF Vacant
<1>1. CASE StartCleanup(p)
  <2>1. Return(p) \/ (Absent(op[p].id) /\ vm' = vm /\ op'[p].id = op[p].id)
    BY <1>1, <1>b DEF StartCleanup, Cleanup, Target
  <2> QED
    BY <1>c, <1>d, <2>1, ReturnMoves
<1>2. CASE MarkLost(p)
  <2>1. Return(p) \/ (Absent(op[p].id) /\ vm' = vm /\ op'[p].id = op[p].id)
    BY <1>2, <1>b DEF MarkLost, At, Vacant, driverVars
  <2> QED
    BY <1>c, <1>d, <2>1, ReturnMoves
<1>3. CASE Validate(p)
  <2>1. Return(p) \/ (Absent(op[p].id) /\ vm' = vm /\ op'[p].id = op[p].id)
    BY <1>3, <1>b DEF Validate, At, Vacant, driverVars
  <2> QED
    BY <1>c, <1>d, <2>1, ReturnMoves
<1>4. CASE CommitStarting(p)
  <2>1. Return(p) \/ (Absent(op[p].id) /\ vm' = vm /\ op'[p].id = op[p].id)
    BY <1>4, <1>b DEF CommitStarting, At, Vacant, driverVars
  <2> QED
    BY <1>c, <1>d, <2>1, ReturnMoves
<1>5. CASE RecoverNetwork(p)
  <2>1. Absent(op[p].id) /\ vm' = vm /\ op'[p].id = op[p].id
    BY <1>5, <1>b DEF RecoverNetwork, At, Vacant, driverVars
  <2> QED
    BY <1>c, <2>1
<1>6. CASE op'[p].at \notin {"markLost", "validate", "beginStart", "recoverNetwork", "exec"}
  BY <1>6 DEF Vacant
<1> QED
  BY <1>a, <1>1, <1>2, <1>3, <1>4, <1>5, <1>6 DEF Reached, NoRestore

\* What one operation knows of its sandbox, the steps of others leave alone.
LEMMA StepsKeepVacant ==
    ASSUME LifecycleInv, Names \cap Ids = {}, NEW p \in Procs, Steps(p),
           NEW q \in Procs, q # p, Vacant(q)
    PROVE  Vacant(q)'
<1>1. TypeOK /\ op'[q] = op[q] /\ "exec" \in LockedSteps
  BY InvFacts, StepsOthersKeep DEF OthersKeep, LockedSteps
<1>2. ASSUME op[q].at \in {"markLost", "validate", "beginStart", "recoverNetwork", "exec"}
      PROVE  Absent(op[q].id)'
  <2>1. op[q].at \in LockedSteps /\ op[q].id \in Ids /\ Absent(op[q].id)
    BY <1>2, LockedFacts DEF LockedSteps, Vacant
  <2>2. ~(op[p].at = "exec" /\ op[q].id = op[p].id)
    BY <1>1, <2>1, LockedFacts
  <2> QED
    BY <1>1, <2>1, <2>2, StepsLaunchOwn
<1> QED
  BY <1>1, <1>2 DEF Vacant, Absent, Live

FenceInv == OneFencedVMM /\ \A p \in Procs : Vacant(p) /\ NoRestore(p)

LEMMA StepsKeepFence ==
    ASSUME LifecycleInv, Names \cap Ids = {}, FenceInv, NEW p \in Procs, Steps(p)
    PROVE  FenceInv'
<1>a. TypeOK /\ Vacant(p) /\ NoRestore(p)
  BY InvFacts DEF FenceInv
<1>1. \A q \in Procs : Vacant(q)'
  BY <1>a, StepsVacate, StepsKeepVacant DEF FenceInv
<1>2. \A q \in Procs : NoRestore(q)'
  <2>1. NoRestore(p)'
    BY <1>a, StepsReach DEF NoRestore, Reached
  <2> QED
    BY <2>1, StepsKeepOthers DEF FenceInv
<1>3. CASE ExecVMM(p)
  <2>1. /\ op[p].at = "exec" /\ op[p].id \in Ids /\ Absent(op[p].id) /\ UNCHANGED rec
        /\ rec[op[p].id].state = "starting" /\ rec[op[p].id].gen = op[p].gen
    BY <1>3, <1>a, LockedFacts, InvFacts
    DEF ExecVMM, At, Vacant, LockedSteps, StatesAt, catalogVars, OwnFacts
  <2>2. ASSUME UNCHANGED vm
        PROVE  OneFencedVMM'
    <3>1. OneVMM'
      BY <2>2 DEF FenceInv, OneFencedVMM, OneVMM, Live
    <3>2. LaunchFence'
      BY <2>1, <2>2 DEF FenceInv, OneFencedVMM, LaunchFence
    <3> QED
      BY <3>1, <3>2 DEF OneFencedVMM
  <2>3. ASSUME NEW v \in Pids, Exec(op[p].id, op[p].gen, v)
        PROVE  OneFencedVMM'
    <3>1. /\ vm'[v].id = op[p].id /\ vm'[v].gen = op[p].gen
          /\ \A w \in Pids : w # v => vm'[w] = vm[w] /\ vm[w].id # op[p].id
      BY <1>a, <2>1, <2>3 DEF Exec, Absent, Live, TypeOK, DriverTypeOK
    <3>2. OneVMM'
      <4> SUFFICES ASSUME NEW i \in Ids, NEW u \in Live(i)', NEW w \in Live(i)'
                   PROVE  u = w
        BY DEF OneVMM
      <4>1. u \in Pids /\ w \in Pids /\ vm'[u].id = i /\ vm'[w].id = i
        BY DEF Live
      <4>2. CASE i = op[p].id
        BY <3>1, <4>1, <4>2
      <4>3. CASE i # op[p].id
        <5>1. u \in Live(i) /\ w \in Live(i)
          BY <3>1, <4>1, <4>3 DEF Live
        <5> QED
          BY <5>1 DEF FenceInv, OneFencedVMM, OneVMM
      <4> QED
        BY <4>2, <4>3
    <3>3. LaunchFence'
      BY SMTT(30), <2>1, <3>1 DEF FenceInv, OneFencedVMM, LaunchFence, ProcessGeneration
    <3> QED
      BY <3>2, <3>3 DEF OneFencedVMM
  <2> QED
    BY <1>1, <1>2, <1>3, <2>2, <2>3 DEF ExecVMM, Target, FenceInv
<1>4. CASE ~ExecVMM(p)
  <2>1. \A v \in Pids : vm'[v] = vm[v] \/ vm'[v].id = NoId
    BY <1>4, <1>a, StepsVm
  <2>2. OneVMM'
    BY <2>1, NoIdAssumption DEF FenceInv, OneFencedVMM, OneVMM, Live
  <2>3. ASSUME NEW v \in Pids, vm'[v].id \in Ids, rec'[vm'[v].id].state \in MayOwnVMM \cup {"error"}
        PROVE  vm'[v].gen = ProcessGeneration(rec'[vm'[v].id].state, rec'[vm'[v].id].gen)
    <3>1. PICK i \in Ids : i = vm'[v].id /\ vm'[v] = vm[v] /\ ~Absent(i)
      BY <2>1, <2>3, NoIdAssumption DEF Absent, Live
    <3>2. /\ rec[i].state \in MayOwnVMM \cup {"error"}
          /\ ProcessGeneration(rec'[i].state, rec'[i].gen) = ProcessGeneration(rec[i].state, rec[i].gen)
      BY <1>a, <2>3, <3>1, StepsKeepGeneration
    <3> QED
      BY <3>1, <3>2 DEF FenceInv, OneFencedVMM, LaunchFence
  <2>4. LaunchFence'
    BY <2>3 DEF LaunchFence, ProcessGeneration
  <2> QED
    BY <1>1, <1>2, <2>2, <2>4 DEF FenceInv, OneFencedVMM
<1> QED
  BY <1>3, <1>4

\* All that is not a step of an operation starts no VMM, keeps the generation of
\* the ones there are, and moves no record to a state that may own one.
LEMMA OthersKeepVm ==
    ASSUME TypeOK,
           \/ \E p \in Procs : Issues(p) \/ Crash(p)
           \/ \E v \in Pids : VmReady(v) \/ VmExit(v)
           \/ HostReboot
           \/ UNCHANGED vars
    PROVE  /\ \A v \in Pids : \/ vm'[v].id = NoId
                              \/ vm'[v].id = vm[v].id /\ vm'[v].gen = vm[v].gen
           /\ \A i \in Ids : rec'[i].state \in MayOwnVMM \cup {"error"} => rec'[i] = rec[i]
<1>1. CASE \E p \in Procs : IssueCreate(p)
  <2>1. PICK i \in Ids, n \in Names, s \in Policies : Reserve(i, n, s)
    BY <1>1 DEF IssueCreate
  <2>2. UNCHANGED vm
    BY <1>1 DEF IssueCreate, driverVars
  <2>3. rec' = [rec EXCEPT ![i] = [state |-> "creating", gen |-> 1, name |-> n]]
    BY <2>1 DEF Reserve
  <2>4. rec \in [Ids -> Record]
    BY DEF TypeOK, CatalogTypeOK
  <2>5. rec'[i].state = "creating" /\ \A j \in Ids \ {i} : rec'[j] = rec[j]
    BY <2>3, <2>4
  <2> QED
    BY <2>2, <2>5 DEF MayOwnVMM
<1>2. CASE \E p \in Procs :
              \/ Issue(p) \/ IssueRestore(p) \/ IssueStatus(p) \/ Crash(p)
              \/ \E i \in Ids : IssueReconcile(p, i) \/ CollectOrphan(p, i)
  <2>1. ASSUME NEW p \in Procs, Issue(p) \/ IssueRestore(p) \/ IssueStatus(p) \/ Crash(p)
        PROVE  UNCHANGED <<rec, vm>>
    BY <2>1 DEF Issue, IssueRestore, IssueStatus, Crash, driverVars, catalogVars
  <2>2. ASSUME NEW p \in Procs, NEW i \in Ids, IssueReconcile(p, i) \/ CollectOrphan(p, i)
        PROVE  UNCHANGED <<rec, vm>>
    BY <2>2 DEF IssueReconcile, CollectOrphan, driverVars, catalogVars
  <2> QED
    BY <1>2, <2>1, <2>2
<1>3. CASE \E v \in Pids : VmReady(v) \/ VmExit(v)
  BY SMTT(30), <1>3 DEF VmReady, VmExit, BecomeReady, Terminate, NoVm, TypeOK, DriverTypeOK, catalogVars
<1>4. CASE HostReboot \/ UNCHANGED vars
  BY SMTT(30), <1>4 DEF HostReboot, NoVm, vars, catalogVars
<1> QED
  BY <1>1, <1>2, <1>3, <1>4 DEF Issues

\* An operation stays where it is, ends, or is taken up.
LEMMA OthersMove ==
    ASSUME TypeOK,
           \/ \E p \in Procs : Issues(p) \/ Crash(p)
           \/ \E v \in Pids : VmReady(v) \/ VmExit(v)
           \/ HostReboot
           \/ UNCHANGED vars,
           NEW q \in Procs
    PROVE  \/ op'[q] = op[q]
           \/ /\ op'[q].at \in {"idle", "lock", "createNetwork", "statusRead", "locked"}
              /\ op'[q].kind # "restore" /\ (op'[q].at = "statusRead" => "status" \in Kinds)
           \/ op'[q].at = "restoreDecide" /\ "restore" \in Kinds
<1>1. CASE \E p \in Procs : Issues(p)
  BY <1>1, IssuesMove
<1>2. CASE \E p \in Procs : Crash(p)
  BY SMTT(30), <1>2, CrashDrops DEF Idle
<1>3. CASE (\E v \in Pids : VmReady(v) \/ VmExit(v)) \/ HostReboot \/ UNCHANGED vars
  BY SMTT(30), <1>3 DEF VmReady, VmExit, HostReboot, Idle, vars
<1> QED
  BY <1>1, <1>2, <1>3

\* Where no VMM appears, a sandbox that had at most one still has.
LEMMA OneVMMStays ==
    ASSUME OneVMM, \A i \in Ids : \A v \in Pids : vm'[v].id = i => vm[v].id = i
    PROVE  OneVMM'
<1> SUFFICES ASSUME NEW i \in Ids, NEW v \in Live(i)', NEW w \in Live(i)'
             PROVE  v = w
  BY DEF OneVMM
<1>1. v \in Live(i) /\ w \in Live(i)
  BY DEF Live
<1> QED
  BY <1>1 DEF OneVMM

\* A VMM seen after such a step was there before it, and is the only one.
LEMMA SurvivorIsKnown ==
    ASSUME OneVMM, NEW i \in Ids, ~Absent(i)',
           \A v \in Pids : vm'[v].id = i => vm[v].id = i
    PROVE  ~Absent(i) /\ \A v \in Live(i) : vm'[v].id = i
<1>1. PICK w \in Live(i)' : TRUE
  BY DEF Absent
<1>2. w \in Live(i) /\ vm'[w].id = i
  BY <1>1 DEF Live
<1>3. \A v \in Live(i) : v = w
  BY <1>2 DEF OneVMM
<1> QED
  BY <1>2, <1>3 DEF Absent

LEMMA OthersKeepFence ==
    ASSUME LifecycleInv, FenceInv, "restore" \notin Kinds,
           \/ \E p \in Procs : Issues(p) \/ Crash(p)
           \/ \E v \in Pids : VmReady(v) \/ VmExit(v)
           \/ HostReboot
           \/ UNCHANGED vars
    PROVE  FenceInv'
<1>a. TypeOK
  BY InvFacts
<1>b. /\ \A v \in Pids : \/ vm'[v].id = NoId
                         \/ vm'[v].id = vm[v].id /\ vm'[v].gen = vm[v].gen
      /\ \A i \in Ids : rec'[i].state \in MayOwnVMM \cup {"error"} => rec'[i] = rec[i]
  BY <1>a, OthersKeepVm
<1>1. OneVMM'
  <2>1. OneVMM
    BY DEF FenceInv, OneFencedVMM
  <2>2. \A i \in Ids : \A v \in Pids : vm'[v].id = i => vm[v].id = i
    BY <1>b, NoIdAssumption
  <2> QED
    BY <2>1, <2>2, OneVMMStays
<1>2. LaunchFence'
  <2>1. ASSUME NEW v \in Pids, vm'[v].id \in Ids, rec'[vm'[v].id].state \in MayOwnVMM \cup {"error"}
        PROVE  vm'[v].gen = ProcessGeneration(rec'[vm'[v].id].state, rec'[vm'[v].id].gen)
    BY SMTT(30), <1>b, <2>1, NoIdAssumption DEF FenceInv, OneFencedVMM, LaunchFence
  <2> QED
    BY <2>1 DEF LaunchFence, ProcessGeneration
<1>3. ASSUME NEW q \in Procs
      PROVE  Vacant(q)' /\ NoRestore(q)'
  <2>1. CASE op'[q] = op[q]
    <3>1. op[q].at \in {"markLost", "validate", "beginStart", "recoverNetwork", "exec"}
            => op[q].id \in Ids
      BY <1>a DEF TypeOK, OperationTypeOK
    <3>2. Vacant(q)'
      BY SMTT(30), <1>b, <2>1, <3>1, NoIdAssumption DEF FenceInv, Vacant, Absent, Live
    <3> QED
      BY <2>1, <3>2 DEF FenceInv, NoRestore
  <2>2. CASE op'[q].at \in {"idle", "lock", "createNetwork", "statusRead", "locked"}
             /\ op'[q].kind # "restore"
    BY <2>2 DEF Vacant, NoRestore
  <2> QED
    BY <1>a, <2>1, <2>2, OthersMove
<1> QED
  BY <1>1, <1>2, <1>3 DEF FenceInv, OneFencedVMM

\* Without restore, the fence makes every step of the system keep one VMM.
LEMMA FenceHolds ==
    ASSUME Names \cap Ids = {}, "restore" \notin Kinds
    PROVE  Spec => []FenceInv
<1>1. Init => FenceInv
  <2> SUFFICES ASSUME Init PROVE FenceInv
    OBVIOUS
  <2>1. \A v \in Pids : vm[v].id = NoId
    BY DEF Init, DriverInit, NoVm
  <2>2. \A i \in Ids : Live(i) = {}
    BY <2>1, NoIdAssumption DEF Live
  <2>3. OneVMM
    BY <2>2 DEF OneVMM
  <2>4. LaunchFence
    BY <2>1, NoIdAssumption DEF LaunchFence
  <2>5. \A p \in Procs : op[p].at = "idle" /\ op[p].kind # "restore"
    BY DEF Init, Idle
  <2>6. \A p \in Procs : Vacant(p) /\ NoRestore(p)
    BY <2>5 DEF Vacant, NoRestore
  <2> QED
    BY <2>3, <2>4, <2>6 DEF FenceInv, OneFencedVMM
<1>2. LifecycleInv /\ FenceInv /\ [Next]_vars => FenceInv'
  BY StepsKeepFence, OthersKeepFence DEF Next
<1> QED
  BY <1>1, <1>2, LifecycleInvariant, PTL DEF Spec

\* Without restore, which goes on from an Error record without looking for a
\* process, a sandbox never has two VMMs, and the one it has is of the Starting
\* generation that its record implies (sandbox_runtime.go).
THEOREM OneVMMIsFenced ==
    ASSUME Names \cap Ids = {}, "restore" \notin Kinds
    PROVE  Spec => []OneFencedVMM
<1>1. FenceInv => OneFencedVMM
  BY DEF FenceInv
<1> QED
  BY <1>1, FenceHolds, PTL
-----------------------------------------------------------------------------
(* Finding the VMM again.                                                    *)

\* process.json, where there is one, names a live VMM under the generation that
\* the record implies.
Filed(i) ==
    \/ pfile[i] = NoFile
    \/ pfile[i].pid \in Live(i) /\ pfile[i].gen = ProcessGeneration(rec[i].state, rec[i].gen)

\* What a launch relies on: no old process.json before, no other process after.
Unfiled(p) ==
    /\ op[p].at \in {"markLost", "validate", "beginStart", "recoverNetwork", "exec"} =>
            pfile[op[p].id] = NoFile
    /\ op[p].at = "persist" => Live(op[p].id) \subseteq {op[p].pid}

NoStatus(p) == op[p].at \notin {"statusRead", "statusWrite"}

FileInv ==
    /\ \A i \in Ids : rec[i].state \in MayOwnVMM /\ ~Absent(i) => Filed(i)
    /\ \A p \in Procs : Unfiled(p) /\ NoStatus(p)

\* process.json changes under the lock only: it goes, it is the launched process,
\* or it is a process that Locate found.
LEMMA StepsFile ==
    ASSUME LifecycleInv, NEW p \in Procs, Steps(p), NoStatus(p),
           NEW i \in Ids, pfile'[i] # pfile[i]
    PROVE  /\ i = op[p].id /\ op[p].at \in LockedSteps
           /\ \/ pfile'[i] = NoFile
              \/ /\ op[p].at = "persist" /\ vm' = vm
                 /\ pfile'[i] = [pid |-> op[p].pid, gen |-> op[p].gen]
              \/ /\ vm' = vm /\ pfile'[i].pid \in Live(i)
                 /\ op[p].st \in MayOwnVMM =>
                        pfile'[i].gen = ProcessGeneration(op[p].st, op[p].gen)
<1>a. TypeOK /\ OwnFacts(p)
  BY InvFacts
<1>b. pfile \in [Ids -> ProcessFile]
  BY <1>a DEF TypeOK, DriverTypeOK
<1>c. ASSUME NEW g, NEW out, NEW v, Locate(op[p].id, g, out, v)
      PROVE  /\ i = op[p].id /\ vm' = vm
             /\ pfile'[i].pid \in Live(i) /\ pfile'[i].gen = g
  <2>1. out = "found" /\ pfile' = [pfile EXCEPT ![op[p].id] = [pid |-> v, gen |-> g]] /\ vm' = vm
    BY <1>c DEF Locate, WriteProcess
  <2>2. v \in Live(op[p].id)
    BY <1>c, <2>1 DEF Locate, Located
  <2> QED
    BY <1>b, <2>1, <2>2
<1>d. ASSUME NEW f, pfile' = [pfile EXCEPT ![op[p].id] = f]
      PROVE  i = op[p].id /\ pfile'[i] = f
  BY <1>b, <1>d
<1>e. ~UNCHANGED pfile /\ ~UNCHANGED driverVars
  BY DEF driverVars
<1>1. CASE RecoverStart(p)
  <2>1. PICK out \in {"absent", "found", "error"}, v \in Pids \cup {NoPid} :
            Locate(op[p].id, IF op[p].st = "running" THEN op[p].gen - 1 ELSE op[p].gen, out, v)
    BY <1>1, <1>e DEF RecoverStart, Target
  <2>2. op[p].at = "locked" /\ op[p].st \in Startable \cup {"starting", "running"}
    BY <1>1, <1>e DEF RecoverStart, AtOf, At
  <2>3. op[p].st \in MayOwnVMM =>
            (IF op[p].st = "running" THEN op[p].gen - 1 ELSE op[p].gen)
                = ProcessGeneration(op[p].st, op[p].gen)
    BY <2>2 DEF MayOwnVMM, ProcessGeneration, Startable
  <2> QED
    BY <1>c, <2>1, <2>2, <2>3 DEF LockedSteps
<1>2. CASE InspectStop(p) \/ Reconcile(p)
  <2>1. PICK out \in {"absent", "found", "error"}, v \in Pids \cup {NoPid} :
            Locate(op[p].id, ProcessGeneration(op[p].st, op[p].gen), out, v)
    BY <1>2, <1>e DEF InspectStop, Reconcile, Target
  <2>2. op[p].at = "locked"
    BY <1>2 DEF InspectStop, Reconcile, AtOf, At
  <2> QED
    BY <1>c, <2>1, <2>2 DEF LockedSteps
<1>3. CASE AwaitReady(p)
  <2>1. PICK out \in {"absent", "found", "error"}, v \in Pids \cup {NoPid} :
            Locate(op[p].id, op[p].gen, out, v)
    BY <1>3, <1>e DEF AwaitReady, Target
  <2>2. op[p].at = "awaitReady" /\ op[p].st = "starting"
    BY <1>3, <1>a DEF AwaitReady, At, OwnFacts, LockedSteps, StatesAt
  <2>3. op[p].gen = ProcessGeneration(op[p].st, op[p].gen)
    BY <2>2 DEF ProcessGeneration
  <2> QED
    BY <1>c, <2>1, <2>2, <2>3 DEF LockedSteps
<1>4. CASE PersistIdentity(p)
  <2>1. /\ op[p].at = "persist" /\ vm' = vm
        /\ pfile' = [pfile EXCEPT ![op[p].id] = [pid |-> op[p].pid, gen |-> op[p].gen]]
    BY <1>4, <1>e DEF PersistIdentity, At, WriteProcess, Target
  <2> QED
    BY <1>d, <2>1 DEF LockedSteps
<1>5. CASE StartCleanup(p) \/ StopCleanup(p) \/ FailCleanup(p)
  <2>1. /\ op[p].at \in {"startCleanup", "stopCleanup", "failCleanup"}
        /\ pfile' = [pfile EXCEPT ![op[p].id] = NoFile]
    BY <1>5, <1>e DEF StartCleanup, StopCleanup, FailCleanup, At, Cleanup, Target
  <2> QED
    BY <1>d, <2>1 DEF LockedSteps
<1>6. ~StatusWrite(p)
  BY DEF StatusWrite, At, NoStatus
<1>7. ~(\/ AcquireLock(p) \/ CreateNetwork(p) \/ CreateDisk(p) \/ CommitCreated(p)
        \/ Compensate(p) \/ ForgetReservation(p) \/ RetainError(p) \/ MarkLost(p)
        \/ Validate(p) \/ CommitStarting(p) \/ RecoverNetwork(p) \/ ExecVMM(p))
  BY <1>e
  DEF AcquireLock, CreateNetwork, CreateDisk, CommitCreated, Compensate, ForgetReservation,
      RetainError, MarkLost, Validate, CommitStarting, RecoverNetwork, ExecVMM, driverVars
<1>8. ~(\/ CommitRunning(p) \/ FailCommit(p) \/ CommitStopping(p) \/ StopVMM(p)
        \/ CommitStopped(p) \/ CommitDeleting(p) \/ ReleaseResources(p) \/ CommitDeleted(p)
        \/ RestoreDecide(p) \/ RestoreRelock(p) \/ ReplaceDisks(p) \/ StatusRead(p))
  BY <1>e
  DEF CommitRunning, FailCommit, CommitStopping, StopVMM, CommitStopped, CommitDeleting,
      ReleaseResources, CommitDeleted, RestoreDecide, RestoreRelock, ReplaceDisks, StatusRead,
      driverVars
<1> QED
  BY ZenonT(30), <1>1, <1>2, <1>3, <1>4, <1>5, <1>6, <1>7, <1>8 DEF Steps
\* Cleanup drops process.json before a launch, and a launch starts one process.
LEMMA StepsUnfile ==
    ASSUME LifecycleInv, NEW p \in Procs, Steps(p), Vacant(p), Unfiled(p), NoRestore(p)
    PROVE  Unfiled(p)'
<1>a. TypeOK /\ Reached(p) /\ (op[p].at # "idle" => op[p].id \in Ids)
  BY InvFacts, StepsReach DEF TypeOK, OperationTypeOK
<1>b. /\ op \in [Procs -> Op] /\ vm \in [Pids -> Vm] /\ pfile \in [Ids -> ProcessFile]
  BY <1>a DEF TypeOK, OperationTypeOK, DriverTypeOK
<1>c. ASSUME NEW step, Goto(p, step) \/ GotoCommitted(p, step)
      PROVE  op'[p].id = op[p].id
  <2>1. CASE Goto(p, step)
    BY <1>b, <2>1 DEF Goto, Become, Op
  <2>2. CASE GotoCommitted(p, step)
    BY <1>b, <2>2 DEF GotoCommitted, Become, Op
  <2> QED
    BY <1>c, <2>1, <2>2
<1>1. ASSUME op'[p].at \in {"markLost", "validate", "beginStart", "recoverNetwork", "exec"}
      PROVE  pfile'[op'[p].id] = NoFile
  <2>a. ~Return(p)
    BY <1>1, <1>a, ReturnMoves
  <2>1. CASE StartCleanup(p)
    <3>1. op[p].id \in Ids /\ op'[p].id = op[p].id /\ Cleanup(op[p].id)
      BY <1>a, <1>c, <2>a, <2>1 DEF StartCleanup, At, Target
    <3> QED
      BY <1>b, <3>1 DEF Cleanup
  <2>2. CASE MarkLost(p) \/ Validate(p)
    <3>1. /\ op[p].at \in {"markLost", "validate"}
          /\ UNCHANGED pfile /\ op'[p].id = op[p].id
      BY <1>c, <2>a, <2>2 DEF MarkLost, Validate, At, driverVars
    <3> QED
      BY <3>1 DEF Unfiled
  <2>3. CASE CommitStarting(p) \/ RecoverNetwork(p)
    <3>1. /\ op[p].at \in {"beginStart", "recoverNetwork"}
          /\ UNCHANGED pfile /\ op'[p].id = op[p].id
      BY <1>c, <2>a, <2>3 DEF CommitStarting, RecoverNetwork, At, driverVars
    <3> QED
      BY <3>1 DEF Unfiled
  <2> QED
    BY <1>a, <1>1, <2>1, <2>2, <2>3 DEF Reached, NoRestore
<1>2. ASSUME op'[p].at = "persist"
      PROVE  \A w \in Pids : vm'[w].id = op'[p].id => w = op'[p].pid
  <2>1. ExecVMM(p) /\ op[p].at = "exec" /\ Absent(op[p].id)
    BY <1>2, <1>a DEF Reached, ExecVMM, At, Vacant
  <2>2. ASSUME Goto(p, "failCleanup")
        PROVE  FALSE
    BY <1>2, <1>b, <2>2 DEF Goto, Become, Op
  <2>3. PICK v \in Pids : Exec(op[p].id, op[p].gen, v) /\ GotoWith(p, "persist", v)
    BY <2>1, <2>2 DEF ExecVMM, Target
  <2>4. op'[p].id = op[p].id /\ op'[p].pid = v
    BY <1>b, <2>3 DEF GotoWith, Become, Op
  <2>5. \A w \in Pids : w # v => vm'[w].id # op[p].id
    BY <1>b, <2>1, <2>3 DEF Exec, Absent, Live
  <2> QED
    BY <2>4, <2>5
<1> QED
  BY <1>1, <1>2 DEF Unfiled, Live

LEMMA StepsKeepUnfiled ==
    ASSUME LifecycleInv, Names \cap Ids = {}, NEW p \in Procs, Steps(p), NoStatus(p),
           NEW q \in Procs, q # p, Unfiled(q)
    PROVE  Unfiled(q)'
<1>1. TypeOK /\ op'[q] = op[q]
  BY InvFacts, StepsOthersKeep DEF OthersKeep
<1>2. ASSUME op[q].at \in {"markLost", "validate", "beginStart", "recoverNetwork", "exec"}
      PROVE  pfile'[op[q].id] = NoFile
  <2>1. op[q].at \in LockedSteps /\ op[q].id \in Ids /\ pfile[op[q].id] = NoFile
    BY <1>2, LockedFacts DEF LockedSteps, Unfiled
  <2>2. ASSUME pfile'[op[q].id] # pfile[op[q].id]
        PROVE  op[p].id = op[q].id /\ op[p].at \in LockedSteps
    <3>1. PICK i \in Ids : i = op[q].id /\ pfile'[i] # pfile[i]
      BY <2>1, <2>2
    <3>2. i = op[p].id /\ op[p].at \in LockedSteps
      BY <3>1, StepsFile
    <3> QED
      BY <3>1, <3>2
  <2> QED
    BY <2>1, <2>2, LockedFacts
<1>3. ASSUME op[q].at = "persist"
      PROVE  Live(op[q].id)' \subseteq {op[q].pid}
  <2>1. op[q].at \in LockedSteps /\ op[q].id \in Ids /\ Live(op[q].id) \subseteq {op[q].pid}
    BY <1>3, LockedFacts DEF LockedSteps, Unfiled
  <2>2. ASSUME ExecVMM(p)
        PROVE  op[p].id # op[q].id
    BY <2>1, <2>2, LockedFacts DEF ExecVMM, At, LockedSteps
  <2>3. \A v \in Pids : vm'[v].id = op[q].id => vm[v].id = op[q].id
    BY <1>1, <2>1, <2>2, StepsVm, NoIdAssumption
  <2> QED
    BY <1>1, <2>1, <2>3 DEF Live
<1> QED
  BY <1>1, <1>2, <1>3 DEF Unfiled
\* One step and process.json: what it names stays, or is written as it should be.
LEMMA StepsKeepFile ==
    ASSUME LifecycleInv, Names \cap Ids = {}, FenceInv, FileInv, NEW p \in Procs, Steps(p)
    PROVE  FileInv'
<1>a. TypeOK /\ OwnFacts(p) /\ Vacant(p) /\ NoRestore(p) /\ Unfiled(p) /\ NoStatus(p) /\ OneVMM
  BY InvFacts DEF FenceInv, FileInv, OneFencedVMM
<1>1. \A q \in Procs : Unfiled(q)'
  BY <1>a, StepsUnfile, StepsKeepUnfiled DEF FileInv
<1>2. \A q \in Procs : NoStatus(q)'
  <2>1. NoStatus(p)'
    BY <1>a, StepsReach DEF NoStatus, Reached
  <2>2. \A q \in Procs : q # p => op'[q] = op[q]
    BY <1>a, StepsOthersKeep DEF OthersKeep
  <2> QED
    BY <2>1, <2>2 DEF FileInv, NoStatus
<1>3. ASSUME NEW i \in Ids, rec'[i].state \in MayOwnVMM, ~Absent(i)'
      PROVE  Filed(i)'
  <2>1. CASE ExecVMM(p) /\ i = op[p].id
    <3>1. op[p].at = "exec" /\ UNCHANGED pfile
      BY <2>1 DEF ExecVMM, At
    <3> QED
      BY <1>a, <2>1, <3>1 DEF Unfiled, Filed
  <2>2. CASE ~(ExecVMM(p) /\ i = op[p].id)
    <3>1. \A v \in Pids : vm'[v].id = i => vm[v].id = i
      BY <1>a, <2>2, StepsVm, NoIdAssumption
    <3>2. ~Absent(i) /\ \A v \in Live(i) : vm'[v].id = i
      BY <1>3, <1>a, <3>1, SurvivorIsKnown
    <3>3. /\ rec[i].state \in MayOwnVMM
          /\ ProcessGeneration(rec'[i].state, rec'[i].gen) = ProcessGeneration(rec[i].state, rec[i].gen)
      BY <1>3, <1>a, <3>2, StepsKeepGeneration
    <3>4. Filed(i)
      BY <3>2, <3>3 DEF FileInv
    <3>5. CASE pfile'[i] = pfile[i]
      BY <3>2, <3>3, <3>4, <3>5 DEF Filed, Live
    <3>6. CASE pfile'[i] # pfile[i]
      <4>a. i = op[p].id /\ op[p].at \in LockedSteps
        BY <1>a, <3>6, StepsFile
      <4>1. /\ i = op[p].id /\ op[p].at \in LockedSteps
            /\ rec[i].state = op[p].st /\ rec[i].gen = op[p].gen
            /\ op[p].st \in StatesAt(op[p].at)
        BY <1>a, <4>a DEF OwnFacts
      <4>2. CASE pfile'[i] = NoFile
        BY <4>2 DEF Filed
      <4>3. CASE op[p].at = "persist" /\ pfile'[i] = [pid |-> op[p].pid, gen |-> op[p].gen]
        <5>1. op[p].st = "starting" /\ op[p].pid \in Live(i)
          BY <1>a, <3>2, <4>1, <4>3 DEF StatesAt, Unfiled, Absent
        <5>2. pfile'[i].gen = ProcessGeneration(rec[i].state, rec[i].gen)
          BY SMTT(30), <4>1, <4>3, <5>1 DEF ProcessGeneration
        <5>3. pfile'[i].pid \in Live(i)'
          BY SMTT(30), <3>2, <4>3, <5>1 DEF Live
        <5> QED
          BY <3>3, <5>2, <5>3 DEF Filed
      <4>4. CASE pfile'[i].pid \in Live(i) /\ pfile'[i].gen = ProcessGeneration(op[p].st, op[p].gen)
        BY <3>2, <3>3, <4>1, <4>4 DEF Filed, Live
      <4> QED
        BY <1>a, <3>3, <3>6, <4>1, <4>2, <4>3, <4>4, StepsFile
    <3> QED
      BY <3>5, <3>6
  <2> QED
    BY <2>1, <2>2
<1> QED
  BY <1>1, <1>2, <1>3 DEF FileInv

\* Outside the operations, process.json only goes, and only of an absent VMM.
LEMMA OthersFile ==
    ASSUME TypeOK, NEW i \in Ids,
           \/ \E p \in Procs : Issues(p) \/ Crash(p)
           \/ \E v \in Pids : VmReady(v) \/ VmExit(v)
           \/ HostReboot
           \/ UNCHANGED vars
    PROVE  pfile'[i] = pfile[i] \/ pfile'[i] = NoFile
<1>1. ASSUME NEW p \in Procs,
             \/ Issue(p) \/ IssueCreate(p) \/ IssueRestore(p) \/ IssueStatus(p) \/ Crash(p)
      PROVE  UNCHANGED pfile
  BY <1>1 DEF Issue, IssueCreate, IssueRestore, IssueStatus, Crash, driverVars
<1>2. ASSUME NEW p \in Procs, NEW j \in Ids, IssueReconcile(p, j)
      PROVE  UNCHANGED pfile
  BY <1>2 DEF IssueReconcile, driverVars
<1>3. ASSUME NEW p \in Procs, NEW j \in Ids, CollectOrphan(p, j)
      PROVE  pfile'[i] = pfile[i] \/ pfile'[i] = NoFile
  BY <1>3 DEF CollectOrphan, Cleanup, TypeOK, DriverTypeOK
<1>4. CASE (\E v \in Pids : VmReady(v) \/ VmExit(v)) \/ HostReboot \/ UNCHANGED vars
  BY <1>4 DEF VmReady, VmExit, HostReboot, vars
<1> QED
  BY <1>1, <1>2, <1>3, <1>4 DEF Issues
LEMMA OthersKeepFile ==
    ASSUME LifecycleInv, FenceInv, FileInv, "restore" \notin Kinds, "status" \notin Kinds,
           \/ \E p \in Procs : Issues(p) \/ Crash(p)
           \/ \E v \in Pids : VmReady(v) \/ VmExit(v)
           \/ HostReboot
           \/ UNCHANGED vars
    PROVE  FileInv'
<1>a. TypeOK /\ OneVMM
  BY InvFacts DEF FenceInv, OneFencedVMM
<1>b. /\ \A v \in Pids : \/ vm'[v].id = NoId
                         \/ vm'[v].id = vm[v].id /\ vm'[v].gen = vm[v].gen
      /\ \A i \in Ids : rec'[i].state \in MayOwnVMM \cup {"error"} => rec'[i] = rec[i]
  BY <1>a, OthersKeepVm
<1>c. \A i \in Ids : pfile'[i] = pfile[i] \/ pfile'[i] = NoFile
  BY <1>a, OthersFile
<1>1. ASSUME NEW i \in Ids, rec'[i].state \in MayOwnVMM, ~Absent(i)'
      PROVE  Filed(i)'
  <2>1. rec'[i] = rec[i] /\ ~Absent(i) /\ \A v \in Live(i) : vm'[v].id = i
    <3>1. rec'[i] = rec[i]
      BY <1>1, <1>b
    <3>2. \A v \in Pids : vm'[v].id = i => vm[v].id = i
      BY <1>b, NoIdAssumption
    <3> QED
      BY <1>1, <1>a, <3>1, <3>2, SurvivorIsKnown
  <2>2. Filed(i)
    BY <1>1, <2>1 DEF FileInv
  <2> QED
    BY <1>c, <2>1, <2>2 DEF Filed, Live
<1>2. ASSUME NEW q \in Procs
      PROVE  Unfiled(q)' /\ NoStatus(q)'
  <2>1. CASE op'[q] = op[q]
    <3>1. op[q].at # "idle" => op[q].id \in Ids
      BY <1>a DEF TypeOK, OperationTypeOK
    <3>2. Unfiled(q) /\ NoStatus(q)
      BY DEF FileInv
    <3>3. ASSUME op[q].at \in {"markLost", "validate", "beginStart", "recoverNetwork", "exec"}
          PROVE  pfile'[op[q].id] = NoFile
      BY <1>c, <3>1, <3>2, <3>3 DEF Unfiled
    <3>4. ASSUME op[q].at = "persist", NEW w \in Pids, vm'[w].id = op[q].id
          PROVE  w = op[q].pid
      BY <1>b, <3>1, <3>2, <3>4, NoIdAssumption DEF Unfiled, Live
    <3> QED
      BY <2>1, <3>2, <3>3, <3>4 DEF Unfiled, NoStatus, Live
  <2>2. CASE op'[q].at \in {"idle", "lock", "createNetwork", "locked"}
    BY <2>2 DEF Unfiled, NoStatus
  <2> QED
    BY <1>a, <2>1, <2>2, OthersMove
<1> QED
  BY <1>1, <1>2 DEF FileInv

\* Without restore and without status, which rewrites process.json outside the
\* lock, Locate finds the VMM behind every record that may own one: no VMM that
\* start, stop or reconciliation must find is ever out of their sight
\* (driver.go, process_linux.go).
THEOREM VMMsAreLocatable ==
    ASSUME Names \cap Ids = {}, "restore" \notin Kinds, "status" \notin Kinds
    PROVE  Spec => []ManagedVMMIsLocatable
<1>1. Init => FileInv
  <2>1. ASSUME Init
        PROVE  /\ \A i \in Ids : pfile[i] = NoFile
               /\ \A p \in Procs : op[p].at = "idle"
    BY <2>1 DEF Init, DriverInit, Idle
  <2> QED
    BY <2>1 DEF FileInv, Filed, Unfiled, NoStatus
<1>2. LifecycleInv /\ FenceInv /\ FileInv /\ [Next]_vars => FileInv'
  BY StepsKeepFile, OthersKeepFile DEF Next
<1>3. FenceInv /\ FileInv => ManagedVMMIsLocatable
  <2>1. ASSUME FenceInv, FileInv, NEW i \in Ids, rec[i].state \in MayOwnVMM, ~Absent(i)
        PROVE  \E v \in Pids :
                   Located(i, ProcessGeneration(rec[i].state, rec[i].gen), "found", v)
    <3>1. PICK v \in Pids : Live(i) = {v}
      BY SMTT(30), <2>1 DEF FenceInv, OneFencedVMM, OneVMM, Absent, Live
    <3>2. Filed(i)
      BY <2>1 DEF FileInv
    <3> QED
      BY <3>1, <3>2 DEF Filed, Located
  <2> QED
    BY <2>1 DEF ManagedVMMIsLocatable
<1> QED
  BY <1>1, <1>2, <1>3, FenceHolds, LifecycleInvariant, PTL DEF Spec
=============================================================================
