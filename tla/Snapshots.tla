------------------------------ MODULE Snapshots ------------------------------
(***************************************************************************)
(* Captures of one sandbox: save, hibernate, archive import, restore,      *)
(* clone and export, removal, eviction and collection                      *)
(* (core/snapshot.go, core/snapshot_archive.go, core/clone.go,             *)
(* core/gc.go, core/gc_snapshot_policy.go, snapshot/catalog, snapshot,     *)
(* vmm/cloudhypervisor/snapshot.go).                                       *)
(*                                                                         *)
(* A capture is a catalog record, a staging directory and a published      *)
(* directory, which are changed by separate steps under a flock per        *)
(* capture.  The sandbox is its record's state, its lock and its guest,    *)
(* where "Stopped" stands for the records Stopped and Error;               *)
(* SandboxLifecycle opens up its start and stop.                           *)
(***************************************************************************)
EXTENDS Naturals, FiniteSets

CONSTANTS
    Procs,          \* operations in flight
    Ids,            \* snapshot identities, drawn at random and never twice
    MaxRequests,    \* bound on the operations that users issue
    MaxFaults       \* bound on failing steps, lost replies and crashes

VARIABLES
    rec,            \* catalog record of each identity
    stage,          \* its staging directory
    dir,            \* its published directory
    issued,         \* identities drawn so far
    writer,         \* holder of the exclusive lock of each identity
    readers,        \* holders of its shared lock
    scratch,        \* the file at the restore staging path of each identity
    sandbox,        \* state of the sandbox record
    guest,          \* the virtual machine of the sandbox
    disk,           \* whether the sandbox's writable disk is complete
    sandboxLock,    \* holder of the sandbox lock
    op,             \* kind, step and identity of each operation, and whether a restore
                    \* found the sandbox stopped when it resolved it
    unresumed,      \* a pause was left behind by a crash or a lost reply
    requests, faults

files == <<stage, dir, scratch, disk>>
locks == <<writer, readers, sandboxLock>>
machine == <<sandbox, guest, unresumed>>
vars == <<rec, files, issued, locks, machine, op, requests, faults>>

Contents == {"none", "partial", "whole"}
Idle == [kind |-> "idle", step |-> "idle", id |-> {}, off |-> FALSE]
Kinds == {"save", "hibernate", "import", "restore", "read", "remove", "collect", "evict"}
NoScratch == [by |-> {}, whole |-> FALSE]

TypeOK ==
    /\ rec \in [Ids -> {"none", "pending", "ready", "deleting"}]
    /\ stage \in [Ids -> Contents]
    /\ dir \in [Ids -> Contents]
    /\ issued \subseteq Ids
    /\ writer \in [Ids -> SUBSET Procs]
    /\ readers \in [Ids -> SUBSET Procs]
    /\ scratch \in [Ids -> [by : SUBSET Procs, whole : BOOLEAN]]
    /\ sandbox \in {"Running", "Stopping", "Stopped"}
    /\ guest \in {"running", "paused", "off"}
    /\ disk \in BOOLEAN
    /\ sandboxLock \in SUBSET Procs
    /\ \A p \in Procs : op[p].kind \in Kinds \cup {"idle"} /\ op[p].id \subseteq Ids
    /\ unresumed \in BOOLEAN
    /\ requests \in 0..MaxRequests
    /\ faults \in 0..MaxFaults

Init ==
    /\ rec = [s \in Ids |-> "none"]
    /\ stage = [s \in Ids |-> "none"]
    /\ dir = [s \in Ids |-> "none"]
    /\ issued = {}
    /\ writer = [s \in Ids |-> {}]
    /\ readers = [s \in Ids |-> {}]
    /\ scratch = [s \in Ids |-> NoScratch]
    /\ sandbox = "Running"
    /\ guest = "running"
    /\ disk = TRUE
    /\ sandboxLock = {}
    /\ op = [p \in Procs |-> Idle]
    /\ unresumed = FALSE
    /\ requests = 0
    /\ faults = 0

-----------------------------------------------------------------------------
(* Steps of an operation *)

At(p, kinds, s, step) == op[p].kind \in kinds /\ op[p].step = step /\ op[p].id = {s}

Goto(p, step) == op' = [op EXCEPT ![p].step = step]

\* An operation that a user issues; the collector's are not counted.
Begin(p, kind, step, s) ==
    /\ op[p] = Idle
    /\ requests < MaxRequests
    /\ requests' = requests + 1
    /\ op' = [op EXCEPT ![p] = [kind |-> kind, step |-> step, id |-> s,
                                        off |-> sandbox = "Stopped" /\ kind = "restore"]]

Fault == faults < MaxFaults /\ faults' = faults + 1

\* The deferred calls of an operation release every lock it holds.
Unlock(p) ==
    /\ writer' = [s \in Ids |-> writer[s] \ {p}]
    /\ readers' = [s \in Ids |-> readers[s] \ {p}]
    /\ sandboxLock' = sandboxLock \ {p}

Return(p) == Unlock(p) /\ op' = [op EXCEPT ![p] = Idle]

Lock(p, s) ==
    /\ writer[s] = {} /\ readers[s] = {}
    /\ writer' = [writer EXCEPT ![s] = {p}]

RLock(p, s) ==
    /\ writer[s] = {}
    /\ readers' = [readers EXCEPT ![s] = @ \cup {p}]

Resolvable(s) == rec[s] = "ready"

Set(f, s, v) == [f EXCEPT ![s] = v]

-----------------------------------------------------------------------------
(* Save and hibernate: capture *)

CaptureBegin(p, kind) ==
    /\ Begin(p, kind, "lock", {})
    /\ UNCHANGED <<rec, files, issued, locks, machine, faults>>

\* The sandbox lock, the state check, Observe, and a fresh identity's lock.
CaptureLock(p, s) ==
    /\ op[p].kind \in {"save", "hibernate"} /\ op[p].step = "lock"
    /\ sandboxLock = {}
    /\ sandbox = "Running" /\ guest = "running"
    /\ s \notin issued
    /\ issued' = issued \cup {s}
    /\ sandboxLock' = {p}
    /\ Lock(p, s)
    /\ op' = [op EXCEPT ![p].step = "reserve", ![p].id = {s}]
    /\ UNCHANGED <<rec, files, readers, machine, requests, faults>>

\* The state check or the observation fails.
CaptureRefused(p) ==
    /\ op[p].kind \in {"save", "hibernate"} /\ op[p].step = "lock"
    /\ sandboxLock = {}
    /\ sandbox # "Running" \/ guest # "running"
    /\ Return(p)
    /\ UNCHANGED <<rec, files, issued, machine, requests, faults>>

Reserve(p, s) ==
    /\ rec[s] = "none"
    /\ rec' = Set(rec, s, "pending")
    /\ \/ At(p, {"save", "hibernate"}, s, "reserve") /\ Goto(p, "stage")
       \/ At(p, {"import"}, s, "reserve") /\ Goto(p, "publish")
    /\ UNCHANGED <<files, issued, locks, machine, requests, faults>>

\* The name is taken: a capture has nothing to undo, an import has its stage.
ReserveFailed(p, s) ==
    /\ Fault
    /\ \/ At(p, {"save", "hibernate"}, s, "reserve") /\ Return(p)
       \/ At(p, {"import"}, s, "reserve") /\ Goto(p, "unstage") /\ UNCHANGED locks
    /\ UNCHANGED <<rec, files, issued, machine, requests>>

\* PrepareStage creates the empty directory that the capture or the archive fills.
PrepareStage(p, s) ==
    /\ stage' = Set(stage, s, "partial")
    /\ \/ At(p, {"save", "hibernate"}, s, "stage") /\ Goto(p, "pause")
       \/ At(p, {"import"}, s, "stage") /\ Goto(p, "fill")
    /\ UNCHANGED <<rec, dir, scratch, disk, issued, locks, machine, requests, faults>>

\* The directory cannot be created: the reservation is given back.
PrepareStageFailed(p, s) ==
    /\ At(p, {"save", "hibernate"}, s, "stage")
    /\ Fault
    /\ Goto(p, "forget")
    /\ UNCHANGED <<rec, files, issued, locks, machine, requests>>

\* pauseForCapture; the guest may have exited since it was observed.
Pause(p, s) ==
    /\ At(p, {"save", "hibernate"}, s, "pause")
    /\ guest = "running"
    /\ guest' = "paused"
    /\ Goto(p, "fill")
    /\ UNCHANGED <<rec, files, issued, locks, sandbox, unresumed, requests, faults>>

\* The pause takes effect but its reply is lost: pauseForCapture returns before
\* the deferred resume is installed.
PauseReplyLost(p, s) ==
    /\ At(p, {"save", "hibernate"}, s, "pause")
    /\ guest = "running"
    /\ Fault
    /\ guest' = "paused"
    /\ unresumed' = TRUE
    /\ Goto(p, "forget")
    /\ UNCHANGED <<rec, files, issued, locks, sandbox, requests>>

PauseFailed(p, s) ==
    /\ At(p, {"save", "hibernate"}, s, "pause")
    /\ guest # "running"
    /\ Goto(p, "forget")
    /\ UNCHANGED <<rec, files, issued, locks, machine, requests, faults>>

\* A mutant: the record is committed before its files are published.
FillAndCommit(p, s) ==
    /\ At(p, {"save", "hibernate", "import"}, s, "fill")
    /\ op[p].kind = "import" \/ guest = "paused"
    /\ stage' = Set(stage, s, "whole")
    /\ Goto(p, IF op[p].kind = "import" THEN "reserve" ELSE "commit")
    /\ UNCHANGED <<rec, dir, scratch, disk, issued, locks, machine, requests, faults>>

\* capturePaused or ReadArchive with its validation.
Fill(p, s) ==
    /\ At(p, {"save", "hibernate", "import"}, s, "fill")
    /\ op[p].kind = "import" \/ guest = "paused"
    /\ stage' = Set(stage, s, "whole")
    /\ Goto(p, CASE op[p].kind = "save" -> "resume"
                 [] op[p].kind = "hibernate" -> "publish"
                 [] op[p].kind = "import" -> "reserve")
    /\ UNCHANGED <<rec, dir, scratch, disk, issued, locks, machine, requests, faults>>

\* A failed capture resumes the guest, a failed archive is dropped.
FillFailed(p, s) ==
    /\ \/ At(p, {"save", "hibernate"}, s, "fill") /\ Goto(p, "resumeFailed")
       \/ At(p, {"import"}, s, "fill") /\ Goto(p, "unstage")
    /\ Fault
    /\ UNCHANGED <<rec, files, issued, locks, machine, requests>>

\* The guest went away while it was captured.
FillInterrupted(p, s) ==
    /\ At(p, {"save", "hibernate"}, s, "fill")
    /\ guest = "off"
    /\ Goto(p, "resumeFailed")
    /\ UNCHANGED <<rec, files, issued, locks, machine, requests, faults>>

\* The deferred vm.resume; it fails if the guest has gone.  After a save the
\* capture is published only when the resume succeeded.
Resume(p, s) ==
    /\ \E from \in {"resume", "resumeFailed", "resumeKeep"} :
        /\ At(p, {"save", "hibernate"}, s, from)
        /\ IF from = "resumeKeep" THEN Return(p)
           ELSE Goto(p, IF from = "resume" /\ guest = "paused" THEN "publish" ELSE "forget")
                /\ UNCHANGED locks
    /\ guest' = IF guest = "paused" THEN "running" ELSE guest
    /\ UNCHANGED <<rec, files, issued, sandbox, unresumed, requests, faults>>

\* A mutant: a request to resume that failed counts as done.
ResumeIgnored(p, s) ==
    /\ \E from \in {"resume", "resumeFailed", "resumeKeep"} :
        /\ At(p, {"save", "hibernate"}, s, from)
        /\ IF from = "resumeKeep" THEN Return(p) ELSE Goto(p, "publish") /\ UNCHANGED locks
    /\ guest = "paused"
    /\ Fault
    /\ UNCHANGED <<rec, files, issued, machine, requests>>

\* The resume request fails and the guest stays paused.
ResumeLost(p, s) ==
    /\ \E from \in {"resume", "resumeFailed", "resumeKeep"} :
        /\ At(p, {"save", "hibernate"}, s, from)
        /\ IF from = "resumeKeep" THEN Return(p) ELSE Goto(p, "forget") /\ UNCHANGED locks
    /\ guest = "paused"
    /\ Fault
    /\ unresumed' = TRUE
    /\ UNCHANGED <<rec, files, issued, sandbox, guest, requests>>

-----------------------------------------------------------------------------
(* Save, hibernate and import: persist *)

\* Where a failure of persist leads: a hibernation resumes its guest first.
PersistFailed(p) == IF op[p].kind = "hibernate" THEN "resumeFailed" ELSE "forget"

\* PublishDir renames the staged directory to a name that must be absent.
Publish(p, s) ==
    /\ At(p, {"save", "hibernate", "import"}, s, "publish")
    /\ dir[s] = "none"
    /\ dir' = Set(dir, s, stage[s])
    /\ stage' = Set(stage, s, "none")
    /\ Goto(p, "commit")
    /\ UNCHANGED <<rec, scratch, disk, issued, locks, machine, requests, faults>>

\* Publication fails before or after the rename.
PublishFailed(p, s) ==
    /\ At(p, {"save", "hibernate", "import"}, s, "publish")
    /\ Fault
    /\ \/ UNCHANGED <<stage, dir>>
       \/ dir' = Set(dir, s, stage[s]) /\ stage' = Set(stage, s, "none")
    /\ Goto(p, PersistFailed(p))
    /\ UNCHANGED <<rec, scratch, disk, issued, locks, machine, requests>>

Commit(p, s) ==
    /\ At(p, {"save", "hibernate", "import"}, s, "commit")
    /\ rec[s] = "pending"
    /\ rec' = Set(rec, s, "ready")
    /\ IF op[p].kind = "hibernate" THEN Goto(p, "beginStop") /\ UNCHANGED locks
                                   ELSE Return(p)
    /\ UNCHANGED <<files, issued, machine, requests, faults>>

\* Commit reports an error, after or without having taken effect.
CommitFailed(p, s) ==
    /\ At(p, {"save", "hibernate", "import"}, s, "commit")
    /\ Fault
    /\ rec' \in {rec, Set(rec, s, "ready")}
    /\ Goto(p, PersistFailed(p))
    /\ UNCHANGED <<files, issued, locks, machine, requests>>

\* The compensation: Forget refuses a record that is ready, and then the files stay.
Forget(p, s) ==
    /\ At(p, {"save", "hibernate", "import"}, s, "forget")
    /\ IF rec[s] = "pending"
       THEN rec' = Set(rec, s, "none") /\ Goto(p, "unstage") /\ UNCHANGED locks
       ELSE Return(p) /\ UNCHANGED rec
    /\ UNCHANGED <<files, issued, machine, requests, faults>>

ForgetFailed(p, s) ==
    /\ At(p, {"save", "hibernate", "import"}, s, "forget")
    /\ Fault
    /\ Return(p)
    /\ UNCHANGED <<rec, files, issued, machine, requests>>

\* RemoveStage and Remove.
Unstage(p, s) ==
    /\ At(p, {"save", "hibernate", "import"}, s, "unstage")
    /\ stage' = Set(stage, s, "none")
    /\ dir' = Set(dir, s, "none")
    /\ Return(p)
    /\ UNCHANGED <<rec, scratch, disk, issued, machine, requests, faults>>

\* Hibernate: the Stopping record is committed inside persist, while the guest
\* is still paused.
HibernateBeginStop(p, s) ==
    /\ At(p, {"hibernate"}, s, "beginStop")
    /\ \/ sandbox' = "Stopping" /\ Goto(p, "stop") /\ UNCHANGED faults
       \/ Fault /\ Goto(p, "resumeKeep") /\ UNCHANGED sandbox
    /\ UNCHANGED <<rec, files, issued, locks, guest, unresumed, requests>>

HibernateStop(p, s) ==
    /\ At(p, {"hibernate"}, s, "stop")
    /\ guest' = "off"
    /\ Goto(p, "markStopped")
    /\ UNCHANGED <<rec, files, issued, locks, sandbox, unresumed, requests, faults>>

\* Cleanup, quiesceNetwork and MarkStopped, or a failure of Stop or of one of
\* them, which leaves a Stopping record to reconciliation.
HibernateEnd(p, s) ==
    /\ \/ At(p, {"hibernate"}, s, "markStopped") /\ sandbox' = "Stopped" /\ UNCHANGED faults
       \/ At(p, {"hibernate"}, s, "markStopped") /\ Fault /\ UNCHANGED sandbox
       \/ At(p, {"hibernate"}, s, "stop") /\ Fault /\ UNCHANGED sandbox
    /\ Return(p)
    /\ unresumed' = (unresumed \/ guest = "paused")
    /\ UNCHANGED <<rec, files, issued, guest, requests>>

-----------------------------------------------------------------------------
(* Archive import *)

ImportBegin(p, s) ==
    /\ s \notin issued
    /\ Begin(p, "import", "stage", {s})
    /\ issued' = issued \cup {s}
    /\ Lock(p, s)
    /\ UNCHANGED <<rec, files, readers, sandboxLock, machine, faults>>

-----------------------------------------------------------------------------
(* Restore, and the other readers: clone and the two exports *)

ReadBegin(p, kind, s) ==
    /\ Resolvable(s)
    /\ Begin(p, kind, "rlock", {s})
    /\ UNCHANGED <<rec, files, issued, locks, machine, faults>>

ReadLock(p, s) ==
    /\ At(p, {"restore", "read"}, s, "rlock")
    /\ RLock(p, s)
    /\ Goto(p, "validate")
    /\ UNCHANGED <<rec, files, issued, writer, sandboxLock, machine, requests, faults>>

\* Clone and export resolve again under the lock, restore does not; all of them
\* check that every file of the capture is there.
Validate(p, s) ==
    /\ At(p, {"restore", "read"}, s, "validate")
    /\ IF dir[s] = "whole" /\ (op[p].kind = "restore" \/ Resolvable(s))
       THEN Goto(p, IF op[p].kind = "restore" THEN "clean" ELSE "use") /\ UNCHANGED locks
       ELSE Return(p)
    /\ UNCHANGED <<rec, files, issued, machine, requests, faults>>

\* Clone and export read the files of the capture, then Touch.
Use(p, s) ==
    /\ At(p, {"read"}, s, "use")
    /\ Return(p)
    /\ UNCHANGED <<rec, files, issued, machine, requests, faults>>

\* Restore removes what an earlier attempt left at its staging path.
RestoreClean(p, s) ==
    /\ At(p, {"restore"}, s, "clean")
    /\ scratch' = Set(scratch, s, NoScratch)
    /\ Goto(p, "create")
    /\ UNCHANGED <<rec, stage, dir, disk, issued, locks, machine, requests, faults>>

\* CloneFile creates the file exclusively, ...
RestoreCreate(p, s) ==
    /\ At(p, {"restore"}, s, "create")
    /\ IF scratch[s].by = {}
       THEN /\ scratch' = Set(scratch, s, [by |-> {p}, whole |-> FALSE])
            /\ Goto(p, "copy") /\ UNCHANGED locks
       ELSE Return(p) /\ scratch' = Set(scratch, s, NoScratch)
    /\ UNCHANGED <<rec, stage, dir, disk, issued, machine, requests, faults>>

\* ... and fills the file it has open, wherever that has been renamed to.
RestoreCopy(p, s) ==
    /\ At(p, {"restore"}, s, "copy")
    /\ scratch' = IF scratch[s].by = {p} THEN Set(scratch, s, [by |-> {p}, whole |-> TRUE])
                                        ELSE scratch
    /\ Goto(p, "stop")
    /\ UNCHANGED <<rec, stage, dir, disk, issued, locks, machine, requests, faults>>

\* The copy fails; the deferred call removes the staging path.
RestoreCopyFailed(p, s) ==
    /\ At(p, {"restore"}, s, "copy")
    /\ Fault
    /\ scratch' = Set(scratch, s, NoScratch)
    /\ Return(p)
    /\ UNCHANGED <<rec, stage, dir, disk, issued, machine, requests>>

\* The stop of the old virtual machine, an operation of its own under the lock,
\* which is left out if the record was Stopped when the restore resolved it (and
\* is made if it was Error).
RestoreSkipStop(p, s) ==
    /\ At(p, {"restore"}, s, "stop")
    /\ op[p].off
    /\ Goto(p, "lock")
    /\ UNCHANGED <<rec, files, issued, locks, machine, requests, faults>>

RestoreStop(p, s) ==
    /\ At(p, {"restore"}, s, "stop")
    /\ sandboxLock = {}
    /\ sandbox' = "Stopped"
    /\ guest' = "off"
    /\ unresumed' = FALSE
    /\ Goto(p, "lock")
    /\ UNCHANGED <<rec, files, issued, locks, requests, faults>>

\* The sandbox lock and the second resolve, which requires a stopped sandbox.
RestoreLock(p, s) ==
    /\ At(p, {"restore"}, s, "lock")
    /\ sandboxLock = {}
    /\ IF sandbox = "Stopped"
       THEN sandboxLock' = {p} /\ Goto(p, "replace") /\ UNCHANGED <<writer, readers, scratch>>
       ELSE Return(p) /\ scratch' = Set(scratch, s, NoScratch)
    /\ UNCHANGED <<rec, stage, dir, disk, issued, machine, requests, faults>>

\* replaceWritableSet moves what is at the staging path over the live disk; the
\* journal (DiskReplace) puts the old disk back if nothing is there, and failStart
\* records Error.
RestoreReplace(p, s) ==
    /\ At(p, {"restore"}, s, "replace")
    /\ IF scratch[s].by = {}
       THEN Return(p) /\ UNCHANGED <<scratch, disk>>
       ELSE /\ disk' = scratch[s].whole
            /\ scratch' = Set(scratch, s, NoScratch)
            /\ Goto(p, "launch") /\ UNCHANGED locks
    /\ UNCHANGED <<rec, stage, dir, issued, machine, requests, faults>>

\* Restore of the native state, MarkRunning, Touch and the deferred calls; or
\* failStart, which aborts the virtual machine.
RestoreLaunch(p, s) ==
    /\ At(p, {"restore"}, s, "launch")
    /\ \/ sandbox' = "Running" /\ guest' = "running" /\ UNCHANGED faults
       \/ Fault /\ UNCHANGED <<sandbox, guest>>
    /\ scratch' = Set(scratch, s, NoScratch)
    /\ Return(p)
    /\ UNCHANGED <<rec, stage, dir, disk, issued, unresumed, requests>>

-----------------------------------------------------------------------------
(* Removal, collection and eviction *)

\* Remove records its intent without the lock.
RemoveBegin(p, s) ==
    /\ rec[s] \in {"ready", "deleting"}
    /\ Begin(p, "remove", "lock", {s})
    /\ rec' = Set(rec, s, "deleting")
    /\ UNCHANGED <<files, issued, locks, machine, faults>>

\* A mutant: the removal does not wait for the leases of restores and clones.
RemoveUnlocked(p, s) ==
    /\ At(p, {"remove"}, s, "lock") /\ writer[s] = {}
    /\ writer' = Set(writer, s, {p})
    /\ Goto(p, "remove")
    /\ UNCHANGED <<rec, files, issued, readers, sandboxLock, machine, requests, faults>>

RemoveLock(p, s) ==
    /\ At(p, {"remove"}, s, "lock")
    /\ Lock(p, s)
    /\ Goto(p, "remove")
    /\ UNCHANGED <<rec, files, issued, readers, sandboxLock, machine, requests, faults>>

\* RemoveAll deletes file by file and may fail half way.
RemoveFiles(p, s) ==
    /\ At(p, {"remove"}, s, "remove")
    /\ \/ dir' = Set(dir, s, "none") /\ Goto(p, "finalize") /\ UNCHANGED <<locks, faults>>
       \/ /\ Fault /\ dir[s] # "none"
          /\ dir' = Set(dir, s, "partial")
          /\ Return(p)
    /\ UNCHANGED <<rec, stage, scratch, disk, issued, machine, requests>>

\* FinalizeDelete; another remover may have finished the same deletion.
FinalizeDelete(p, s) ==
    /\ At(p, {"remove"}, s, "finalize")
    /\ rec' = IF rec[s] = "deleting" THEN Set(rec, s, "none") ELSE rec
    /\ Return(p)
    /\ UNCHANGED <<files, issued, machine, requests, faults>>

\* The identities to look at: those with a record or an artifact of any kind.
Discovered == {s \in Ids : rec[s] # "none" \/ stage[s] # "none" \/ dir[s] # "none"
                             \/ scratch[s].by # {}}

removeRestoreStages(s) == scratch' = Set(scratch, s, NoScratch)

\* collectSnapshot takes the lock without waiting.
CollectBegin(p, s) ==
    /\ op[p] = Idle
    /\ s \in Discovered
    /\ Lock(p, s)
    /\ op' = [op EXCEPT ![p] = [Idle EXCEPT !.kind = "collect", !.step = "check", !.id = {s}]]
    /\ UNCHANGED <<rec, files, issued, readers, sandboxLock, machine, requests, faults>>

\* The record is read and stale restore stages are removed.  A tombstone, or a
\* ready record without its directory, goes to Remove after the unlock.
CollectCheck(p, s) ==
    /\ At(p, {"collect"}, s, "check")
    /\ removeRestoreStages(s)
    /\ CASE rec[s] = "deleting" \/ (rec[s] = "ready" /\ dir[s] = "none") ->
              /\ Unlock(p)
              /\ op' = [op EXCEPT ![p] = [op[p] EXCEPT !.step = "delete"]]
              /\ UNCHANGED stage
         [] rec[s] = "ready" /\ dir[s] # "none" ->
              stage' = Set(stage, s, "none") /\ Return(p)
         [] OTHER -> stage' = Set(stage, s, "none") /\ Goto(p, "orphan") /\ UNCHANGED locks
    /\ UNCHANGED <<rec, dir, disk, issued, machine, requests, faults>>

CollectOrphan(p, s) ==
    /\ At(p, {"collect"}, s, "orphan")
    /\ dir' = Set(dir, s, "none")
    /\ Goto(p, "forget")
    /\ UNCHANGED <<rec, stage, scratch, disk, issued, locks, machine, requests, faults>>

CollectForget(p, s) ==
    /\ At(p, {"collect"}, s, "forget")
    /\ rec' = IF rec[s] = "pending" THEN Set(rec, s, "none") ELSE rec
    /\ Return(p)
    /\ UNCHANGED <<files, issued, machine, requests, faults>>

\* Remove as called by the collector and by eviction, by identity.
CollectDelete(p, s) ==
    /\ At(p, {"collect", "evict"}, s, "delete")
    /\ IF rec[s] \in {"ready", "deleting"}
       THEN /\ rec' = Set(rec, s, "deleting")
            /\ op' = [op EXCEPT ![p] = [op[p] EXCEPT !.kind = "remove", !.step = "lock"]]
       ELSE op' = [op EXCEPT ![p] = Idle] /\ UNCHANGED rec
    /\ UNCHANGED <<files, issued, locks, machine, requests, faults>>

\* evictSnapshot: the lock is tried, the record resolved and marked under it.
Evict(p, s) ==
    /\ Resolvable(s)
    /\ writer[s] = {} /\ readers[s] = {}
    /\ Begin(p, "evict", "delete", {s})
    /\ rec' = Set(rec, s, "deleting")
    /\ UNCHANGED <<files, issued, locks, machine, faults>>

-----------------------------------------------------------------------------
(* The sandbox between captures, and crashes *)

\* Start, stop and reconciliation of the sandbox, each under its lock.
SandboxStart ==
    /\ sandboxLock = {} /\ sandbox = "Stopped" /\ requests < MaxRequests
    /\ requests' = requests + 1
    /\ sandbox' = "Running" /\ guest' = "running"
    /\ UNCHANGED <<rec, files, issued, locks, op, unresumed, faults>>

SandboxStop ==
    /\ sandboxLock = {}
    /\ \/ sandbox = "Stopping" /\ UNCHANGED requests
       \/ sandbox = "Running" /\ requests < MaxRequests /\ requests' = requests + 1
    /\ sandbox' = "Stopped" /\ guest' = "off" /\ unresumed' = FALSE
    /\ UNCHANGED <<rec, files, issued, locks, op, faults>>

\* The guest shuts down or its VMM dies.
GuestExit ==
    /\ guest # "off"
    /\ Fault
    /\ guest' = "off" /\ unresumed' = FALSE
    /\ UNCHANGED <<rec, files, issued, locks, op, sandbox, requests>>

\* The process of an operation dies; the kernel releases its locks.  What it was
\* writing or removing stays as it is.
Crash(p) ==
    /\ op[p] # Idle
    /\ Fault
    /\ Return(p)
    /\ unresumed' = (unresumed \/ (guest = "paused" /\ op[p].kind \in {"save", "hibernate"}
                                   /\ op[p].step \notin {"lock", "reserve", "stage", "pause"}))
    /\ dir' = [s \in Ids |-> IF At(p, {"remove"}, s, "remove") /\ dir[s] # "none"
                             THEN "partial" ELSE dir[s]]
    /\ UNCHANGED <<rec, stage, scratch, disk, issued, sandbox, guest, requests>>

Next ==
    \/ \E p \in Procs, s \in Ids :
        \/ CaptureLock(p, s) \/ Reserve(p, s) \/ ReserveFailed(p, s)
        \/ PrepareStage(p, s) \/ PrepareStageFailed(p, s)
        \/ Pause(p, s) \/ PauseReplyLost(p, s) \/ PauseFailed(p, s)
        \/ Fill(p, s) \/ FillFailed(p, s) \/ FillInterrupted(p, s)
        \/ Resume(p, s) \/ ResumeLost(p, s)
        \/ Publish(p, s) \/ PublishFailed(p, s) \/ Commit(p, s) \/ CommitFailed(p, s)
        \/ Forget(p, s) \/ ForgetFailed(p, s) \/ Unstage(p, s)
        \/ HibernateBeginStop(p, s) \/ HibernateStop(p, s) \/ HibernateEnd(p, s)
        \/ ImportBegin(p, s)
        \/ \E kind \in {"restore", "read"} : ReadBegin(p, kind, s)
        \/ ReadLock(p, s) \/ Validate(p, s) \/ Use(p, s)
        \/ RestoreClean(p, s) \/ RestoreCreate(p, s) \/ RestoreCopy(p, s)
        \/ RestoreCopyFailed(p, s) \/ RestoreSkipStop(p, s) \/ RestoreStop(p, s)
        \/ RestoreLock(p, s) \/ RestoreReplace(p, s) \/ RestoreLaunch(p, s)
        \/ RemoveBegin(p, s) \/ RemoveLock(p, s) \/ RemoveFiles(p, s) \/ FinalizeDelete(p, s)
        \/ CollectBegin(p, s) \/ CollectCheck(p, s) \/ CollectOrphan(p, s)
        \/ CollectForget(p, s) \/ CollectDelete(p, s) \/ Evict(p, s)
    \/ \E p \in Procs :
        \/ \E kind \in {"save", "hibernate"} : CaptureBegin(p, kind)
        \/ CaptureRefused(p)
        \/ Crash(p)
    \/ SandboxStart \/ SandboxStop \/ GuestExit

Spec == Init /\ [][Next]_vars

-----------------------------------------------------------------------------
(* Properties *)

\* A capture that Resolve offers has its complete published directory, through
\* uncertain commits, compensation, collection and crashes.
ReadyIsWhole == \A s \in Ids : rec[s] = "ready" => dir[s] = "whole"

\* While a reader works with the files of a capture, or an operation of another
\* process is between its own check and its use, they do not change: a remover
\* marks the record at once but waits for the lock.
LeasedFilesStep ==
    \A p \in Procs, s \in Ids :
        (op[p].kind \in {"restore", "read"} /\ op[p].id = {s} /\ op'[p].kind = op[p].kind
            /\ op[p].step \notin {"rlock", "validate"})
          => dir'[s] = dir[s] /\ dir[s] = "whole"

LeasedFilesStay == [][LeasedFilesStep]_vars

\* Hibernation gives up the guest only for a capture that is durable: from the
\* Stopping record on, the capture is committed and complete.
HibernateIsDurable ==
    \A p \in Procs, s \in Ids :
        (op[p].kind = "hibernate" /\ op[p].id = {s} /\ op[p].step \in {"stop", "markStopped"})
            => rec[s] \in {"ready", "deleting"} /\ dir[s] = "whole"

\* Records only promise files that are there, and a guest is only given up for
\* such a record.
CapturesAreDurable == ReadyIsWhole /\ HibernateIsDurable

\* A paused guest has an operation that will resume or stop it, unless that
\* operation died or a pause or resume request failed.
PausedHasOwner ==
    (guest = "paused" /\ ~unresumed) =>
        \E p \in Procs :
            /\ op[p].kind \in {"save", "hibernate"}
            /\ op[p].step \in {"fill", "resume", "resumeFailed", "resumeKeep"}
                 \/ (op[p].kind = "hibernate" /\ op[p].step \in {"publish", "commit", "beginStop", "stop"})

\* Restore launches the virtual machine on a complete copy of the captured disk.
RestoredDiskIsWhole == \A p \in Procs : op[p].kind = "restore" /\ op[p].step = "launch" => disk
=============================================================================
