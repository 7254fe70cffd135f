----------------------------- MODULE DiskReplace ------------------------------
(***************************************************************************)
(* The journal that replaces the writable disks of a sandbox as one set     *)
(* (internal/core/disk_replace.go).  Old disks move into a backup directory,*)
(* staged ones take their place, and a marker file separates a replacement  *)
(* to undo from one to complete.  Start and restore both recover the        *)
(* journal first.  Each file operation is a step; it may fail before or     *)
(* after it took effect, and the process or the host may stop between any   *)
(* two.  Renames are synced by storage.Publish and taken as durable even    *)
(* when it reports a failed sync; a removal is durable only once the        *)
(* directory is synced, so a power loss may bring the file back.            *)
(***************************************************************************)
EXTENDS Integers

CONSTANTS
    None,          \* no file
    Disks,         \* the writable disks: the COW disk and the data disks
    MaxRestores,   \* how many replacements are attempted
    MaxFaults,     \* how many failures, crashes and power losses occur
    LstatFails     \* may the check for the published marker itself fail?

ASSUME NoneAssumption == None \notin Nat
ASSUME DiskBoundsAssumption == MaxRestores \in Nat /\ MaxFaults \in Nat
ASSUME LstatAssumption == LstatFails \in BOOLEAN

VARIABLES
    pc,          \* the step the lock holder is at
    mode,        \* what discardCommittedBackups returns to
    live,        \* the version at each disk's path
    backup,      \* the version under each disk's name in the backup directory
    gone,        \* backups removed but not yet synced
    dir,         \* does the backup directory exist?
    tmp,         \* does the staged marker exist?
    marker,      \* does the commit marker exist?
    markerGone,  \* marker removed but not yet synced
    cur,         \* disks the current loop still has to visit
    failed,      \* has a step of the rollback failed?
    attempt,     \* the version staged last
    agreed,      \* history: the version of the last committed set
    faults

files == <<live, backup, gone, dir, tmp, marker, markerGone>>
vars == <<pc, mode, live, backup, gone, dir, tmp, marker, markerGone, cur, failed,
          attempt, agreed, faults>>

Version == Nat \cup {None}

NoFiles == [d \in Disks |-> None]

Steps == {"idle", "ready", "use", "backup", "publish", "mark", "commit", "rollback",
          "undo", "check", "discard", "sync", "unmark", "syncMarker", "rmdir"}

NoBackups == \A d \in Disks : backup[d] = None

ControlTypeOK ==
    /\ pc \in Steps
    /\ mode \in {"replace", "recover"}
    /\ cur \in SUBSET Disks
    /\ attempt \in Nat /\ agreed \in Nat /\ faults \in Nat

FilesTypeOK ==
    /\ live \in [Disks -> Version]
    /\ backup \in [Disks -> Version]
    /\ gone \in [Disks -> Version]

FlagsTypeOK ==
    /\ dir \in BOOLEAN /\ tmp \in BOOLEAN /\ marker \in BOOLEAN
    /\ markerGone \in BOOLEAN /\ failed \in BOOLEAN

\* Every variable keeps its type, and the journal's files live in its directory.
TypeOK ==
    /\ ControlTypeOK
    /\ FilesTypeOK
    /\ FlagsTypeOK
    /\ ~dir => NoBackups /\ ~tmp /\ ~marker

Init ==
    /\ pc = "idle" /\ mode = "recover"
    /\ live = [d \in Disks |-> 0]
    /\ backup = NoFiles /\ gone = NoFiles
    /\ dir = FALSE /\ tmp = FALSE /\ marker = FALSE /\ markerGone = FALSE
    /\ cur = {} /\ failed = FALSE
    /\ attempt = 0 /\ agreed = 0 /\ faults = 0

-----------------------------------------------------------------------------
Fault == faults < MaxFaults /\ faults' = faults + 1
NoFault == UNCHANGED faults

Goto(step) == pc' = step /\ UNCHANGED <<mode, cur, failed, attempt>>
Held == UNCHANGED <<mode, attempt, agreed>>

\* A synced directory makes every earlier removal durable (journal order).
Synced == gone' = NoFiles /\ markerGone' = FALSE

BackedUp == {d \in Disks : backup[d] # None}

\* storage.Publish between a disk's path and its backup: rename, then sync.
MoveOut(d) ==
    /\ backup' = [backup EXCEPT ![d] = live[d]]
    /\ live' = [live EXCEPT ![d] = None]
    /\ Synced
    /\ UNCHANGED <<dir, tmp, marker>>

MoveBack(d) ==
    /\ live' = [live EXCEPT ![d] = backup[d]]
    /\ backup' = [backup EXCEPT ![d] = None]
    /\ Synced
    /\ UNCHANGED <<dir, tmp, marker>>

MoveIn(d) ==
    /\ live' = [live EXCEPT ![d] = attempt]
    /\ Synced
    /\ UNCHANGED <<backup, dir, tmp, marker>>

Rollback == pc' = "rollback" /\ cur' = {d \in Disks : backup'[d] # None} /\ failed' = FALSE

-----------------------------------------------------------------------------
(* recoverWritableSet, the first thing start and restore do with the disks.  *)

\* A mutant: the marker is not looked for.
RecoverUnmarked ==
    /\ pc = "idle"
    /\ pc' = IF dir THEN "undo" ELSE "ready"
    /\ mode' = "recover"
    /\ UNCHANGED <<files, cur, failed, attempt, agreed, faults>>

RecoverWritableSet ==
    /\ pc = "idle"
    /\ pc' = CASE ~dir -> "ready" [] dir /\ marker -> "discard" [] dir /\ ~marker -> "undo"
    /\ mode' = "recover"
    /\ UNCHANGED <<files, cur, failed, attempt, agreed, faults>>

\* A mutant: the backups are thrown away although nothing was committed.
UndoByDiscarding ==
    /\ pc = "undo"
    /\ backup' = NoFiles
    /\ Goto("check")
    /\ NoFault
    /\ UNCHANGED <<live, gone, dir, tmp, marker, markerGone, agreed>>

\* An uncommitted set: the staged marker goes, the old disks come back.
Undo ==
    /\ pc = "undo"
    /\ \/ /\ NoFault /\ tmp
          /\ tmp' = FALSE
          /\ Goto("undo")
          /\ UNCHANGED <<live, backup, gone, dir, marker, markerGone>>
       \/ /\ NoFault /\ ~tmp
          /\ \E d \in BackedUp : MoveBack(d)
          /\ Goto("undo")
       \/ /\ NoFault /\ ~tmp /\ NoBackups
          /\ Goto("check")
          /\ UNCHANGED files
       \/ /\ Fault
          /\ \/ UNCHANGED files
             \/ ~tmp /\ \E d \in BackedUp : MoveBack(d)
          /\ Goto("idle")
    /\ UNCHANGED agreed

Check ==
    /\ pc = "check"
    /\ \/ NoFault /\ (\A d \in Disks : live[d] # None) /\ Goto("rmdir")
       \/ NoFault /\ (\E d \in Disks : live[d] = None) /\ Goto("idle")
       \/ Fault /\ Goto("idle")
    /\ UNCHANGED <<files, agreed>>

-----------------------------------------------------------------------------
(* replaceWritableSet.                                                       *)

\* os.Mkdir refuses a directory that a failed recovery left behind.
ReplaceWritableSet ==
    /\ pc = "ready"
    /\ attempt < MaxRestores
    /\ attempt' = attempt + 1
    /\ mode' = "replace"
    /\ \/ NoFault /\ ~dir /\ dir' = TRUE /\ pc' = "backup" /\ cur' = Disks
       \/ (Fault \/ (NoFault /\ dir)) /\ pc' = "idle" /\ UNCHANGED <<dir, cur>>
    /\ UNCHANGED <<live, backup, gone, tmp, marker, markerGone, failed, agreed>>

\* One disk after the other: out of the way, then replaced.
BackUp ==
    /\ pc = "backup"
    /\ \/ /\ cur = {}
          /\ NoFault
          /\ Goto("mark")
          /\ UNCHANGED <<files, agreed>>
       \/ \E d \in cur :
          /\ \/ NoFault /\ MoveOut(d) /\ pc' = "publish" /\ cur' = cur /\ UNCHANGED failed
             \/ Fault /\ (MoveOut(d) \/ UNCHANGED files) /\ Rollback
          /\ Held

Publish ==
    /\ pc = "publish"
    /\ \E d \in cur :
        /\ live[d] = None
        /\ \/ NoFault /\ MoveIn(d) /\ pc' = "backup" /\ cur' = cur \ {d} /\ UNCHANGED failed
           \/ Fault /\ (MoveIn(d) \/ UNCHANGED files) /\ Rollback
    /\ Held

Mark ==
    /\ pc = "mark"
    /\ UNCHANGED <<live, backup, gone, dir, marker, markerGone, agreed>>
    /\ \/ NoFault /\ tmp' = TRUE /\ Goto("commit")
       \/ Fault /\ tmp' \in BOOLEAN /\ Rollback /\ UNCHANGED <<mode, attempt>>

\* The marker is renamed into place.  A sync failure after that is no reason to
\* roll back; a rename that did not happen is.
Commit ==
    /\ pc = "commit"
    /\ Synced
    /\ UNCHANGED <<live, backup, dir>>
    /\ \/ /\ NoFault
          /\ marker' = TRUE /\ tmp' = FALSE /\ agreed' = attempt
          /\ Goto("discard")
       \/ /\ Fault
          /\ marker' = TRUE /\ tmp' = FALSE /\ agreed' = attempt
          /\ \/ Goto("idle")
             \/ LstatFails /\ Rollback /\ UNCHANGED <<mode, attempt>>
       \/ /\ Fault
          /\ tmp' \in BOOLEAN
          /\ Rollback
          /\ UNCHANGED <<marker, agreed, mode, attempt>>

\* rollback: every old disk is tried; the directory goes only when all are back.
RollbackDisk ==
    /\ pc = "rollback"
    /\ \E d \in cur :
        /\ \/ NoFault /\ MoveBack(d) /\ UNCHANGED failed
           \/ Fault /\ (MoveBack(d) \/ UNCHANGED files) /\ failed' = TRUE
        /\ cur' = cur \ {d}
    /\ UNCHANGED pc
    /\ Held

RollbackDone ==
    /\ pc = "rollback" /\ cur = {}
    /\ \/ /\ NoFault /\ ~failed /\ ~tmp /\ ~marker
          /\ dir' = FALSE
       \/ /\ \/ Fault
             \/ NoFault /\ (failed \/ tmp \/ marker)
          /\ UNCHANGED dir
    /\ Goto("idle")
    /\ UNCHANGED <<live, backup, gone, tmp, marker, markerGone, agreed>>

-----------------------------------------------------------------------------
(* discardCommittedBackups: the marker goes last, between two syncs.         *)

Discard ==
    /\ pc = "discard"
    /\ \/ /\ NoFault
          /\ \E d \in BackedUp :
              /\ gone' = [gone EXCEPT ![d] = backup[d]]
              /\ backup' = [backup EXCEPT ![d] = None]
          /\ Goto("discard")
          /\ UNCHANGED tmp
       \/ /\ NoFault /\ tmp
          /\ tmp' = FALSE
          /\ Goto("discard")
          /\ UNCHANGED <<gone, backup>>
       \/ /\ NoFault /\ NoBackups /\ ~tmp
          /\ Goto("sync")
          /\ UNCHANGED <<gone, backup, tmp>>
       \/ /\ Fault
          /\ Goto("idle")
          /\ UNCHANGED <<gone, backup, tmp>>
    /\ UNCHANGED <<live, dir, marker, markerGone, agreed>>

\* A mutant: the removals are not synced before the marker goes.
SyncNothing ==
    /\ pc = "sync"
    /\ NoFault
    /\ Goto("unmark")
    /\ UNCHANGED <<files, agreed>>

SyncBackups ==
    /\ pc = "sync"
    /\ \/ NoFault /\ Synced /\ Goto("unmark")
       \/ Fault /\ (Synced \/ UNCHANGED <<gone, markerGone>>) /\ Goto("idle")
    /\ UNCHANGED <<live, backup, dir, tmp, marker, agreed>>

Unmark ==
    /\ pc = "unmark"
    /\ \/ NoFault /\ marker' = FALSE /\ markerGone' = TRUE /\ Goto("syncMarker")
       \/ Fault /\ UNCHANGED <<marker, markerGone>> /\ Goto("idle")
    /\ UNCHANGED <<live, backup, gone, dir, tmp, agreed>>

SyncMarker ==
    /\ pc = "syncMarker"
    /\ \/ NoFault /\ Synced /\ Goto("rmdir")
       \/ Fault /\ (Synced \/ UNCHANGED <<gone, markerGone>>) /\ Goto("idle")
    /\ UNCHANGED <<live, backup, dir, tmp, marker, agreed>>

RemoveDir ==
    /\ pc = "rmdir"
    /\ \/ /\ NoFault
          /\ dir' = FALSE
          /\ Goto(IF mode = "recover" THEN "ready" ELSE "use")
       \/ Fault /\ UNCHANGED dir /\ Goto("idle")
    /\ UNCHANGED <<live, backup, gone, tmp, marker, markerGone, agreed>>

-----------------------------------------------------------------------------
(* The caller, and what stops it.                                            *)

\* Start goes on to launch the VMM over the disks.
Launch == pc = "ready" /\ Goto("use") /\ UNCHANGED <<files, agreed, faults>>

\* The operation ends: the VMM has stopped, or start gave up before launching.
Done == pc \in {"use", "ready"} /\ Goto("idle") /\ UNCHANGED <<files, agreed, faults>>

Crash == pc # "idle" /\ Fault /\ Goto("idle") /\ UNCHANGED <<files, agreed>>

\* Removals not yet synced may or may not have reached the disk.
PowerLoss ==
    /\ Fault
    /\ Goto("idle")
    /\ \E back \in SUBSET {d \in Disks : gone[d] # None}, m \in BOOLEAN :
        /\ m => markerGone
        /\ backup' = [d \in Disks |-> IF d \in back THEN gone[d] ELSE backup[d]]
        /\ marker' = (marker \/ m)
        /\ dir' = (dir \/ back # {} \/ m)
    /\ Synced
    /\ UNCHANGED <<live, tmp, agreed>>

Next ==
    \/ RecoverWritableSet \/ Undo \/ Check
    \/ ReplaceWritableSet \/ BackUp \/ Publish \/ Mark \/ Commit
    \/ RollbackDisk \/ RollbackDone
    \/ Discard \/ SyncBackups \/ Unmark \/ SyncMarker \/ RemoveDir
    \/ Launch \/ Done \/ Crash \/ PowerLoss

Spec == Init /\ [][Next]_vars

-----------------------------------------------------------------------------
\* A VMM runs only over the whole last committed set: after any sequence of
\* failures the old disks are all back or the new ones are all in place.
UsesAgreedSet == pc = "use" => \A d \in Disks : live[d] = agreed

\* No step of replacement, rollback or recovery removes the only copy of a disk.
NoDiskLost == \A d \in Disks : live[d] # None \/ backup[d] # None

\* While the marker stands no disk is touched: discarding the backups of a
\* committed set never turns into a partial rollback.
CommittedNeverUndone == [][marker => live' = live]_vars

\* "The marker separates an unfinished transaction (roll back on recovery) from a
\* complete one": a VMM never runs over a mixture of old and new disks.
NeverMixed == pc = "use" => \A d, e \in Disks : live[d] = live[e]

-----------------------------------------------------------------------------
(* What makes them inductive.                                                *)

\* With the marker the live disks are the agreed set; without it each agreed
\* disk is the backup if there is one, and the live disk otherwise.
JournalHoldsSet ==
    \A d \in Disks :
        /\ marker \/ backup[d] = None => live[d] = agreed
        /\ ~marker /\ backup[d] # None => backup[d] = agreed

\* What a power loss may bring back cannot change which set that is.
ReappearingIsHarmless ==
    /\ \A d \in Disks : gone[d] # None => marker
    /\ markerGone => ~marker /\ NoBackups

\* A replaced disk has its backup, a disk still to be replaced has none.
ReplacementProgress ==
    /\ pc \in {"backup", "publish", "mark", "commit"} =>
        /\ dir /\ ~marker
        /\ \A d \in Disks \ cur : live[d] = attempt /\ backup[d] # None
    /\ pc = "backup" => \A d \in cur : backup[d] = None
    /\ pc = "publish" => \E c \in cur : backup[c] # None /\ \A d \in cur \ {c} : backup[d] = None
    /\ pc \in {"mark", "commit"} => cur = {}

RollbackProgress ==
    pc = "rollback" =>
        /\ dir /\ ~marker
        /\ \A d \in cur : backup[d] # None
        /\ ~failed => \A d \in Disks \ cur : backup[d] = None

RecoveryProgress ==
    /\ pc \in {"undo", "check", "discard", "sync", "unmark", "syncMarker", "rmdir"} => dir
    /\ pc \in {"undo", "check", "syncMarker", "rmdir"} => ~marker
    /\ pc \in {"discard", "sync", "unmark"} => marker
    /\ pc \in {"check", "sync", "unmark", "syncMarker", "rmdir"} => NoBackups /\ ~tmp
    /\ pc = "unmark" => \A d \in Disks : gone[d] = None
    /\ pc \in {"ready", "use"} => ~dir

JournalInv ==
    /\ TypeOK
    /\ JournalHoldsSet
    /\ ReappearingIsHarmless
    /\ ReplacementProgress
    /\ RollbackProgress
    /\ RecoveryProgress

=============================================================================
