----------------------------- MODULE HostProofs -----------------------------
(***************************************************************************)
(* What belongs to one sandbox: its disks, replaced behind a journal, its  *)
(* NICs and devices, and the processes that the agent runs in its guest,   *)
(* for every set of disks, slots, devices, jobs and observers and every    *)
(* number of changes, failures, crashes and power losses.                  *)
(***************************************************************************)
EXTENDS DiskReplace, Guest, TLAPS

USE Zenon    \* unless a leaf names another prover

-----------------------------------------------------------------------------
(* DiskReplace: the journal. *)

\* A published marker is recognised as such (FindMarkerLstat shows the need).
LstatWorks == LstatFails = FALSE

DirHoldsFiles == ~dir => NoBackups /\ ~tmp /\ ~marker

\* The first journal is empty and holds the first set.
LEMMA InitJournal == Init => JournalInv
<1> SUFFICES ASSUME Init PROVE JournalInv
  OBVIOUS
<1> USE DEF Init, NoFiles, NoBackups
<1>1. ControlTypeOK
  BY DEF ControlTypeOK, Steps
<1>2. FilesTypeOK
  BY DEF FilesTypeOK, Version
<1>3. FlagsTypeOK
  BY DEF FlagsTypeOK
<1>4. DirHoldsFiles
  BY DEF DirHoldsFiles
<1>5. JournalHoldsSet
  BY DEF JournalHoldsSet
<1>6. ReappearingIsHarmless
  BY DEF ReappearingIsHarmless
<1>7. ReplacementProgress
  BY DEF ReplacementProgress
<1>8. RollbackProgress
  BY DEF RollbackProgress
<1>9. RecoveryProgress
  BY DEF RecoveryProgress
<1> QED BY <1>1, <1>2, <1>3, <1>4, <1>5, <1>6, <1>7, <1>8, <1>9 DEF JournalInv, TypeOK,
    DirHoldsFiles

\* After a sync a power loss brings nothing back.
LEMMA SyncedIsHarmless == ASSUME Synced PROVE ReappearingIsHarmless'
BY DEF Synced, NoFiles, ReappearingIsHarmless

\* Steps that leave the journal's directory alone leave that as it was.
LEMMA UnchangedIsHarmless ==
    ASSUME ReappearingIsHarmless, UNCHANGED <<backup, gone, marker, markerGone>>
    PROVE  ReappearingIsHarmless'
BY DEF ReappearingIsHarmless, NoBackups

\* RecoverWritableSet keeps the journal's invariant.
LEMMA RecoverWritableSetKeeps == ASSUME LstatWorks, JournalInv, RecoverWritableSet PROVE JournalInv'
<1> USE NoneAssumption DEF JournalInv, TypeOK, Fault, NoFault, Goto, files
<1>1. ControlTypeOK'
  BY DEF RecoverWritableSet, ControlTypeOK, Steps
<1>2. FilesTypeOK'
  BY DEF RecoverWritableSet, FilesTypeOK
<1>3. FlagsTypeOK'
  BY DEF RecoverWritableSet, FlagsTypeOK
<1>4. DirHoldsFiles'
  BY DEF RecoverWritableSet, DirHoldsFiles, NoBackups
<1>5. JournalHoldsSet'
  BY DEF RecoverWritableSet, JournalHoldsSet
<1>6. ReappearingIsHarmless'
  BY DEF RecoverWritableSet, ReappearingIsHarmless, NoBackups
<1>7. ReplacementProgress'
  BY DEF RecoverWritableSet, ReplacementProgress
<1>8. RollbackProgress'
  BY DEF RecoverWritableSet, RollbackProgress
<1>9. RecoveryProgress'
  BY DEF RecoverWritableSet, RecoveryProgress
<1> QED BY <1>1, <1>2, <1>3, <1>4, <1>5, <1>6, <1>7, <1>8, <1>9 DEF JournalInv, TypeOK,
    DirHoldsFiles

\* Undo keeps the journal's invariant.
LEMMA UndoKeeps == ASSUME LstatWorks, JournalInv, Undo PROVE JournalInv'
<1> USE NoneAssumption DEF JournalInv, TypeOK, Fault, NoFault, Goto, files
<1>1. ControlTypeOK'
  BY SMTT(30) DEF Undo, ControlTypeOK, Steps
<1>2. FilesTypeOK'
  BY DEF Undo, MoveBack, Synced, FilesTypeOK, Version, NoFiles
<1>3. FlagsTypeOK'
  BY DEF Undo, MoveBack, Synced, FlagsTypeOK
<1>4. DirHoldsFiles'
  BY DEF Undo, MoveBack, BackedUp, DirHoldsFiles, NoBackups
<1>5. JournalHoldsSet'
  BY DEF Undo, MoveBack, BackedUp, JournalHoldsSet, NoBackups, RecoveryProgress,
      FilesTypeOK
<1>6. ReappearingIsHarmless'
  <2>1. Synced \/ UNCHANGED <<backup, gone, marker, markerGone>>
    BY DEF Undo, MoveBack
  <2> QED BY <2>1, SyncedIsHarmless, UnchangedIsHarmless
<1>7. ReplacementProgress'
  BY DEF Undo, ReplacementProgress
<1>8. RollbackProgress'
  BY DEF Undo, RollbackProgress
<1>9. RecoveryProgress'
  <2>kept. dir' = dir /\ marker' = marker
    BY DEF Undo, MoveBack
  <2>held. dir /\ ~marker
    BY DEF Undo, RecoveryProgress
  <2>1. dir' /\ ~marker'
    BY <2>kept, <2>held
  <2>2. pc' \in {"undo", "check", "idle"}
    BY DEF Undo
  <2>3. pc' = "check" => NoBackups' /\ ~tmp'
    BY DEF Undo, NoBackups
  <2> QED BY <2>1, <2>2, <2>3 DEF RecoveryProgress
<1> QED BY <1>1, <1>2, <1>3, <1>4, <1>5, <1>6, <1>7, <1>8, <1>9 DEF JournalInv, TypeOK,
    DirHoldsFiles

\* Check keeps the journal's invariant.
LEMMA CheckKeeps == ASSUME LstatWorks, JournalInv, Check PROVE JournalInv'
<1> USE NoneAssumption DEF JournalInv, TypeOK, Fault, NoFault, Goto, files
<1>1. ControlTypeOK'
  BY SMTT(30) DEF Check, ControlTypeOK, Steps
<1>2. FilesTypeOK'
  BY DEF Check, FilesTypeOK
<1>3. FlagsTypeOK'
  BY DEF Check, FlagsTypeOK
<1>4. DirHoldsFiles'
  BY DEF Check, DirHoldsFiles, NoBackups
<1>5. JournalHoldsSet'
  BY DEF Check, JournalHoldsSet
<1>6. ReappearingIsHarmless'
  BY DEF Check, ReappearingIsHarmless, NoBackups
<1>7. ReplacementProgress'
  BY DEF Check, ReplacementProgress
<1>8. RollbackProgress'
  BY DEF Check, RollbackProgress
<1>9. RecoveryProgress'
  BY DEF Check, RecoveryProgress, NoBackups
<1> QED BY <1>1, <1>2, <1>3, <1>4, <1>5, <1>6, <1>7, <1>8, <1>9 DEF JournalInv, TypeOK,
    DirHoldsFiles

\* ReplaceWritableSet keeps the journal's invariant.
LEMMA ReplaceWritableSetKeeps == ASSUME LstatWorks, JournalInv, ReplaceWritableSet PROVE JournalInv'
<1> USE NoneAssumption DEF JournalInv, TypeOK, Fault, NoFault, Goto, files
<1>1. ControlTypeOK'
  BY SMTT(30) DEF ReplaceWritableSet, ControlTypeOK, Steps
<1>2. FilesTypeOK'
  BY DEF ReplaceWritableSet, FilesTypeOK
<1>3. FlagsTypeOK'
  BY DEF ReplaceWritableSet, FlagsTypeOK
<1>4. DirHoldsFiles'
  BY SMTT(30) DEF ReplaceWritableSet, DirHoldsFiles, NoBackups
<1>5. JournalHoldsSet'
  BY DEF ReplaceWritableSet, JournalHoldsSet
<1>6. ReappearingIsHarmless'
  BY DEF ReplaceWritableSet, ReappearingIsHarmless, NoBackups
<1>7. ReplacementProgress'
  BY DEF ReplaceWritableSet, ReplacementProgress, NoBackups
<1>8. RollbackProgress'
  BY DEF ReplaceWritableSet, RollbackProgress
<1>9. RecoveryProgress'
  BY DEF ReplaceWritableSet, RecoveryProgress
<1> QED BY <1>1, <1>2, <1>3, <1>4, <1>5, <1>6, <1>7, <1>8, <1>9 DEF JournalInv, TypeOK,
    DirHoldsFiles

\* BackUp keeps the journal's invariant.
LEMMA BackUpKeeps == ASSUME LstatWorks, JournalInv, BackUp PROVE JournalInv'
<1> USE NoneAssumption DEF JournalInv, TypeOK, Fault, NoFault, Goto, files
<1>1. ControlTypeOK'
  BY SMTT(30) DEF BackUp, Rollback, Held, ControlTypeOK, Steps
<1>2. FilesTypeOK'
  BY DEF BackUp, MoveOut, Synced, FilesTypeOK, Version, NoFiles
<1>3. FlagsTypeOK'
  BY DEF BackUp, MoveOut, Synced, Rollback, FlagsTypeOK
<1>4. DirHoldsFiles'
  BY DEF BackUp, MoveOut, DirHoldsFiles, ReplacementProgress
<1>5. JournalHoldsSet'
  <2>1. agreed' = agreed /\ (UNCHANGED files \/ \E d \in cur : MoveOut(d))
    BY DEF BackUp, Held
  <2>2. CASE UNCHANGED files
    BY <2>1, <2>2 DEF JournalHoldsSet
  <2>3. ASSUME NEW d \in cur, MoveOut(d) PROVE JournalHoldsSet'
    <3>1. d \in Disks /\ backup[d] = None /\ ~marker
      BY <2>3 DEF BackUp, ReplacementProgress, ControlTypeOK
    <3>2. live[d] = agreed
      BY <3>1 DEF JournalHoldsSet
    <3>3. ~marker'
      BY <2>3, <3>1 DEF MoveOut
    <3>4. backup'[d] = agreed' /\ agreed \in Nat
      BY <2>1, <2>3, <3>1, <3>2 DEF MoveOut, FilesTypeOK, ControlTypeOK
    <3>5. \A e \in Disks \ {d} : backup'[e] = backup[e] /\ live'[e] = live[e]
      BY <2>3 DEF MoveOut, FilesTypeOK
    <3> QED BY <2>1, <3>1, <3>3, <3>4, <3>5 DEF JournalHoldsSet
  <2> QED BY <2>1, <2>2, <2>3
<1>6. ReappearingIsHarmless'
  <2>1. Synced \/ UNCHANGED <<backup, gone, marker, markerGone>>
    BY DEF BackUp, MoveOut
  <2> QED BY <2>1, SyncedIsHarmless, UnchangedIsHarmless
<1>7. ReplacementProgress'
  <2>1. CASE cur = {} /\ UNCHANGED files /\ Goto("mark") /\ pc = "backup"
    BY <2>1 DEF ReplacementProgress
  <2>2. ASSUME NEW d \in cur, MoveOut(d), pc' = "publish", cur' = cur, Held, pc = "backup"
        PROVE  ReplacementProgress'
    <3>1. backup[d] = None /\ live[d] = agreed /\ agreed \in Nat /\ d \in Disks /\ ~marker /\ dir
      BY <2>2 DEF ReplacementProgress, JournalHoldsSet, ControlTypeOK
    <3>2. backup'[d] # None
      BY <2>2, <3>1 DEF MoveOut, FilesTypeOK
    <3>3. \A e \in Disks \ {d} : backup'[e] = backup[e] /\ live'[e] = live[e]
      BY <2>2 DEF MoveOut, FilesTypeOK
    <3>4. dir' /\ ~marker'
      BY <2>2, <3>1 DEF MoveOut
    <3>5. \A e \in cur \ {d} : backup'[e] = None
      BY <2>2, <3>3 DEF ReplacementProgress, ControlTypeOK
    <3>6. \A e \in Disks \ cur : live'[e] = attempt /\ backup'[e] # None
      BY <2>2, <3>3 DEF ReplacementProgress
    <3> QED BY <2>2, <3>2, <3>4, <3>5, <3>6 DEF ReplacementProgress, Held
  <2>3. CASE Rollback
    BY <2>3 DEF Rollback, ReplacementProgress
  <2> QED BY <2>1, <2>2, <2>3 DEF BackUp
<1>8. RollbackProgress'
  BY DEF BackUp, MoveOut, Rollback, RollbackProgress, ReplacementProgress
<1>9. RecoveryProgress'
  BY DEF BackUp, Rollback, RecoveryProgress
<1> QED BY <1>1, <1>2, <1>3, <1>4, <1>5, <1>6, <1>7, <1>8, <1>9 DEF JournalInv, TypeOK,
    DirHoldsFiles

\* Publish keeps the journal's invariant.
LEMMA PublishKeeps == ASSUME LstatWorks, JournalInv, Publish PROVE JournalInv'
<1> USE NoneAssumption DEF JournalInv, TypeOK, Fault, NoFault, Goto, files
<1>1. ControlTypeOK'
  BY SMTT(30) DEF Publish, Rollback, Held, ControlTypeOK, Steps
<1>2. FilesTypeOK'
  BY SMTT(30) DEF Publish, MoveIn, Synced, FilesTypeOK, ControlTypeOK, Version, NoFiles
<1>3. FlagsTypeOK'
  BY DEF Publish, MoveIn, Synced, Rollback, FlagsTypeOK
<1>4. DirHoldsFiles'
  <2>kept. dir' = dir
    BY DEF Publish, MoveIn
  <2>held. dir
    BY DEF Publish, ReplacementProgress
  <2>1. dir'
    BY <2>kept, <2>held
  <2> QED BY <2>1 DEF DirHoldsFiles
<1>5. JournalHoldsSet'
  BY SMTT(30) DEF Publish, MoveIn, Held, JournalHoldsSet, FilesTypeOK, ControlTypeOK
<1>6. ReappearingIsHarmless'
  <2>1. Synced \/ UNCHANGED <<backup, gone, marker, markerGone>>
    BY DEF Publish, MoveIn
  <2> QED BY <2>1, SyncedIsHarmless, UnchangedIsHarmless
<1>7. ReplacementProgress'
  <2>1. PICK d \in cur : /\ live[d] = None
                         /\ \/ MoveIn(d) /\ pc' = "backup" /\ cur' = cur \ {d}
                            \/ Rollback
    BY DEF Publish
  <2>2. CASE Rollback
    BY <2>2 DEF Rollback, ReplacementProgress
  <2>3. CASE MoveIn(d) /\ pc' = "backup" /\ cur' = cur \ {d}
    <3>1. d \in Disks /\ agreed \in Nat /\ cur \subseteq Disks /\ ~marker /\ dir /\ attempt' = attempt
      BY DEF Publish, ReplacementProgress, ControlTypeOK, Held
    <3>2. backup[d] # None
      BY <2>1, <3>1 DEF JournalHoldsSet
    <3>3. \A e \in cur \ {d} : backup[e] = None
      BY <2>1, <3>2 DEF Publish, ReplacementProgress
    <3>4. \A e \in Disks \ cur : live[e] = attempt /\ backup[e] # None
      BY DEF Publish, ReplacementProgress
    <3>5. /\ backup' = backup /\ dir' = dir /\ marker' = marker
          /\ live'[d] = attempt
          /\ \A e \in Disks \ {d} : live'[e] = live[e]
      BY <2>3, <3>1 DEF MoveIn, FilesTypeOK
    <3>6. \A e \in Disks \ cur' : live'[e] = attempt' /\ backup'[e] # None
      BY <2>1, <2>3, <3>1, <3>2, <3>4, <3>5
    <3>7. \A e \in cur' : backup'[e] = None
      BY <2>3, <3>3, <3>5
    <3> QED BY <2>3, <3>1, <3>5, <3>6, <3>7 DEF ReplacementProgress
  <2> QED BY <2>1, <2>2, <2>3
<1>8. RollbackProgress'
  <2>1. pc' = "backup" \/ Rollback
    BY DEF Publish
  <2>kept. dir' = dir /\ marker' = marker
    BY DEF Publish, MoveIn
  <2>held. dir /\ ~marker
    BY DEF Publish, ReplacementProgress
  <2>2. dir' /\ ~marker'
    BY <2>kept, <2>held
  <2> QED BY <2>1, <2>2 DEF Rollback, RollbackProgress
<1>9. RecoveryProgress'
  BY DEF Publish, Rollback, RecoveryProgress
<1> QED BY <1>1, <1>2, <1>3, <1>4, <1>5, <1>6, <1>7, <1>8, <1>9 DEF JournalInv, TypeOK,
    DirHoldsFiles

\* Mark keeps the journal's invariant.
LEMMA MarkKeeps == ASSUME LstatWorks, JournalInv, Mark PROVE JournalInv'
<1> USE NoneAssumption DEF JournalInv, TypeOK, Fault, NoFault, Goto, files
<1>1. ControlTypeOK'
  BY SMTT(30) DEF Mark, Rollback, ControlTypeOK, Steps
<1>2. FilesTypeOK'
  BY DEF Mark, FilesTypeOK
<1>3. FlagsTypeOK'
  BY DEF Mark, Rollback, FlagsTypeOK
<1>4. DirHoldsFiles'
  BY DEF Mark, DirHoldsFiles, ReplacementProgress
<1>5. JournalHoldsSet'
  BY DEF Mark, JournalHoldsSet
<1>6. ReappearingIsHarmless'
  BY DEF Mark, ReappearingIsHarmless, NoBackups
<1>7. ReplacementProgress'
  BY DEF Mark, Rollback, ReplacementProgress
<1>8. RollbackProgress'
  BY DEF Mark, Rollback, RollbackProgress, ReplacementProgress
<1>9. RecoveryProgress'
  BY DEF Mark, Rollback, RecoveryProgress
<1> QED BY <1>1, <1>2, <1>3, <1>4, <1>5, <1>6, <1>7, <1>8, <1>9 DEF JournalInv, TypeOK,
    DirHoldsFiles

\* Commit keeps the journal's invariant.
LEMMA CommitKeeps == ASSUME LstatWorks, JournalInv, Commit PROVE JournalInv'
<1> USE NoneAssumption DEF JournalInv, TypeOK, Fault, NoFault, Goto, files
<1>1. ControlTypeOK'
  BY SMTT(30) DEF Commit, Rollback, ControlTypeOK, Steps
<1>2. FilesTypeOK'
  BY DEF Commit, Synced, FilesTypeOK, Version, NoFiles
<1>3. FlagsTypeOK'
  BY DEF Commit, Rollback, Synced, FlagsTypeOK
<1>4. DirHoldsFiles'
  BY DEF Commit, DirHoldsFiles, ReplacementProgress
<1>5. JournalHoldsSet'
  BY DEF Commit, JournalHoldsSet, ReplacementProgress
<1>6. ReappearingIsHarmless'
  BY DEF Commit, Synced, ReappearingIsHarmless, NoFiles
<1>7. ReplacementProgress'
  BY DEF Commit, Rollback, ReplacementProgress
<1>8. RollbackProgress'
  BY DEF Commit, Rollback, RollbackProgress, ReplacementProgress, LstatWorks
<1>9. RecoveryProgress'
  BY DEF Commit, Rollback, RecoveryProgress, ReplacementProgress
<1> QED BY <1>1, <1>2, <1>3, <1>4, <1>5, <1>6, <1>7, <1>8, <1>9 DEF JournalInv, TypeOK,
    DirHoldsFiles

\* RollbackDisk keeps the journal's invariant.
LEMMA RollbackDiskKeeps == ASSUME LstatWorks, JournalInv, RollbackDisk PROVE JournalInv'
<1> USE NoneAssumption DEF JournalInv, TypeOK, Fault, NoFault, Goto, files
<1>1. ControlTypeOK'
  BY SMTT(30) DEF RollbackDisk, Held, ControlTypeOK
<1>2. FilesTypeOK'
  BY SMTT(30) DEF RollbackDisk, MoveBack, Synced, FilesTypeOK, Version, NoFiles
<1>3. FlagsTypeOK'
  BY DEF RollbackDisk, MoveBack, Synced, FlagsTypeOK
<1>4. DirHoldsFiles'
  <2>kept. dir' = dir
    BY DEF RollbackDisk, MoveBack
  <2>held. dir
    BY DEF RollbackDisk, RollbackProgress
  <2>1. dir'
    BY <2>kept, <2>held
  <2> QED BY <2>1 DEF DirHoldsFiles
<1>5. JournalHoldsSet'
  <2>1. PICK d \in cur : MoveBack(d) \/ UNCHANGED files
    BY DEF RollbackDisk
  <2>2. d \in Disks /\ ~marker /\ backup[d] # None /\ agreed' = agreed
    BY DEF RollbackDisk, RollbackProgress, ControlTypeOK, Held
  <2>3. CASE UNCHANGED files
    BY <2>2, <2>3 DEF JournalHoldsSet
  <2>4. CASE MoveBack(d)
    BY <2>2, <2>4 DEF MoveBack, JournalHoldsSet, FilesTypeOK
  <2> QED BY <2>1, <2>3, <2>4
<1>6. ReappearingIsHarmless'
  <2>1. Synced \/ UNCHANGED <<backup, gone, marker, markerGone>>
    BY DEF RollbackDisk, MoveBack
  <2> QED BY <2>1, SyncedIsHarmless, UnchangedIsHarmless
<1>7. ReplacementProgress'
  BY DEF RollbackDisk, ReplacementProgress
<1>8. RollbackProgress'
  <2>1. PICK d \in cur : /\ \/ MoveBack(d) /\ failed' = failed
                            \/ (MoveBack(d) \/ UNCHANGED files) /\ failed' = TRUE
                         /\ cur' = cur \ {d}
    BY DEF RollbackDisk
  <2>2. /\ d \in Disks /\ cur \subseteq Disks /\ dir /\ ~marker
        /\ \A e \in cur : backup[e] # None
        /\ ~failed => \A e \in Disks \ cur : backup[e] = None
    BY DEF RollbackDisk, RollbackProgress, ControlTypeOK
  <2>kept. dir' = dir /\ marker' = marker
    BY <2>1 DEF MoveBack
  <2>3. dir' /\ ~marker'
    BY <2>kept, <2>2
  <2>4. \A e \in Disks \ {d} : backup'[e] = backup[e]
    BY <2>1 DEF MoveBack, FilesTypeOK
  <2>5. \A e \in cur' : backup'[e] # None
    BY <2>1, <2>2, <2>4
  <2>6. ASSUME ~failed' PROVE \A e \in Disks \ cur' : backup'[e] = None
    <3>1. MoveBack(d) /\ ~failed
      BY SMTT(30), <2>1, <2>6
    <3>2. backup'[d] = None
      BY <3>1, <2>2 DEF MoveBack, FilesTypeOK
    <3> QED BY <2>1, <2>2, <2>4, <3>1, <3>2
  <2> QED BY <2>3, <2>5, <2>6 DEF RollbackProgress
<1>9. RecoveryProgress'
  BY DEF RollbackDisk, RecoveryProgress
<1> QED BY <1>1, <1>2, <1>3, <1>4, <1>5, <1>6, <1>7, <1>8, <1>9 DEF JournalInv, TypeOK,
    DirHoldsFiles

\* RollbackDone keeps the journal's invariant.
LEMMA RollbackDoneKeeps == ASSUME LstatWorks, JournalInv, RollbackDone PROVE JournalInv'
<1> USE NoneAssumption DEF JournalInv, TypeOK, Fault, NoFault, Goto, files
<1>1. ControlTypeOK'
  BY SMTT(30) DEF RollbackDone, ControlTypeOK, Steps
<1>2. FilesTypeOK'
  BY DEF RollbackDone, FilesTypeOK
<1>3. FlagsTypeOK'
  BY DEF RollbackDone, FlagsTypeOK
<1>4. DirHoldsFiles'
  BY DEF RollbackDone, DirHoldsFiles, NoBackups, RollbackProgress
<1>5. JournalHoldsSet'
  BY DEF RollbackDone, JournalHoldsSet
<1>6. ReappearingIsHarmless'
  BY DEF RollbackDone, ReappearingIsHarmless, NoBackups
<1>7. ReplacementProgress'
  BY DEF RollbackDone, ReplacementProgress
<1>8. RollbackProgress'
  BY DEF RollbackDone, RollbackProgress
<1>9. RecoveryProgress'
  BY DEF RollbackDone, RecoveryProgress
<1> QED BY <1>1, <1>2, <1>3, <1>4, <1>5, <1>6, <1>7, <1>8, <1>9 DEF JournalInv, TypeOK,
    DirHoldsFiles

\* Discard keeps the journal's invariant.
LEMMA DiscardKeeps == ASSUME LstatWorks, JournalInv, Discard PROVE JournalInv'
<1> USE NoneAssumption DEF JournalInv, TypeOK, Fault, NoFault, Goto, files
<1>1. ControlTypeOK'
  BY SMTT(30) DEF Discard, ControlTypeOK, Steps
<1>2. FilesTypeOK'
  BY DEF Discard, FilesTypeOK, Version
<1>3. FlagsTypeOK'
  BY DEF Discard, FlagsTypeOK
<1>4. DirHoldsFiles'
  BY DEF Discard, BackedUp, DirHoldsFiles, NoBackups
<1>5. JournalHoldsSet'
  BY DEF Discard, JournalHoldsSet, RecoveryProgress
<1>6. ReappearingIsHarmless'
  BY DEF Discard, ReappearingIsHarmless, RecoveryProgress
<1>7. ReplacementProgress'
  BY DEF Discard, ReplacementProgress
<1>8. RollbackProgress'
  BY DEF Discard, RollbackProgress
<1>9. RecoveryProgress'
  BY SMTT(30) DEF Discard, RecoveryProgress, NoBackups
<1> QED BY <1>1, <1>2, <1>3, <1>4, <1>5, <1>6, <1>7, <1>8, <1>9 DEF JournalInv, TypeOK,
    DirHoldsFiles

\* SyncBackups keeps the journal's invariant.
LEMMA SyncBackupsKeeps == ASSUME LstatWorks, JournalInv, SyncBackups PROVE JournalInv'
<1> USE NoneAssumption DEF JournalInv, TypeOK, Fault, NoFault, Goto, files
<1>1. ControlTypeOK'
  BY SMTT(30) DEF SyncBackups, ControlTypeOK, Steps
<1>2. FilesTypeOK'
  BY DEF SyncBackups, Synced, FilesTypeOK, Version, NoFiles
<1>3. FlagsTypeOK'
  BY DEF SyncBackups, Synced, FlagsTypeOK
<1>4. DirHoldsFiles'
  BY DEF SyncBackups, DirHoldsFiles, NoBackups
<1>5. JournalHoldsSet'
  BY DEF SyncBackups, JournalHoldsSet
<1>6. ReappearingIsHarmless'
  BY SMTT(30) DEF SyncBackups, Synced, ReappearingIsHarmless, NoBackups, NoFiles
<1>7. ReplacementProgress'
  BY DEF SyncBackups, ReplacementProgress
<1>8. RollbackProgress'
  BY DEF SyncBackups, RollbackProgress
<1>9. RecoveryProgress'
  BY DEF SyncBackups, Synced, RecoveryProgress, NoBackups, NoFiles
<1> QED BY <1>1, <1>2, <1>3, <1>4, <1>5, <1>6, <1>7, <1>8, <1>9 DEF JournalInv, TypeOK,
    DirHoldsFiles

\* Unmark keeps the journal's invariant.
LEMMA UnmarkKeeps == ASSUME LstatWorks, JournalInv, Unmark PROVE JournalInv'
<1> USE NoneAssumption DEF JournalInv, TypeOK, Fault, NoFault, Goto, files
<1>1. ControlTypeOK'
  BY SMTT(30) DEF Unmark, ControlTypeOK, Steps
<1>2. FilesTypeOK'
  BY DEF Unmark, FilesTypeOK
<1>3. FlagsTypeOK'
  BY DEF Unmark, FlagsTypeOK
<1>4. DirHoldsFiles'
  BY DEF Unmark, DirHoldsFiles, NoBackups
<1>5. JournalHoldsSet'
  BY DEF Unmark, JournalHoldsSet, NoBackups, RecoveryProgress
<1>6. ReappearingIsHarmless'
  <2>1. CASE marker' = FALSE /\ markerGone' = TRUE /\ pc' = "syncMarker"
    BY <2>1 DEF Unmark, ReappearingIsHarmless, RecoveryProgress, NoBackups
  <2>2. CASE UNCHANGED <<backup, gone, marker, markerGone>>
    BY <2>2, UnchangedIsHarmless
  <2> QED BY <2>1, <2>2 DEF Unmark
<1>7. ReplacementProgress'
  BY DEF Unmark, ReplacementProgress
<1>8. RollbackProgress'
  BY DEF Unmark, RollbackProgress
<1>9. RecoveryProgress'
  BY DEF Unmark, RecoveryProgress, NoBackups
<1> QED BY <1>1, <1>2, <1>3, <1>4, <1>5, <1>6, <1>7, <1>8, <1>9 DEF JournalInv, TypeOK,
    DirHoldsFiles

\* SyncMarker keeps the journal's invariant.
LEMMA SyncMarkerKeeps == ASSUME LstatWorks, JournalInv, SyncMarker PROVE JournalInv'
<1> USE NoneAssumption DEF JournalInv, TypeOK, Fault, NoFault, Goto, files
<1>1. ControlTypeOK'
  BY SMTT(30) DEF SyncMarker, ControlTypeOK, Steps
<1>2. FilesTypeOK'
  BY DEF SyncMarker, Synced, FilesTypeOK, Version, NoFiles
<1>3. FlagsTypeOK'
  BY DEF SyncMarker, Synced, FlagsTypeOK
<1>4. DirHoldsFiles'
  BY DEF SyncMarker, DirHoldsFiles, NoBackups
<1>5. JournalHoldsSet'
  BY DEF SyncMarker, JournalHoldsSet
<1>6. ReappearingIsHarmless'
  BY SMTT(30) DEF SyncMarker, Synced, ReappearingIsHarmless, NoBackups, NoFiles
<1>7. ReplacementProgress'
  BY DEF SyncMarker, ReplacementProgress
<1>8. RollbackProgress'
  BY DEF SyncMarker, RollbackProgress
<1>9. RecoveryProgress'
  BY DEF SyncMarker, RecoveryProgress, NoBackups
<1> QED BY <1>1, <1>2, <1>3, <1>4, <1>5, <1>6, <1>7, <1>8, <1>9 DEF JournalInv, TypeOK,
    DirHoldsFiles

\* RemoveDir keeps the journal's invariant.
LEMMA RemoveDirKeeps == ASSUME LstatWorks, JournalInv, RemoveDir PROVE JournalInv'
<1> USE NoneAssumption DEF JournalInv, TypeOK, Fault, NoFault, Goto, files
<1>1. ControlTypeOK'
  BY SMTT(30) DEF RemoveDir, ControlTypeOK, Steps
<1>2. FilesTypeOK'
  BY DEF RemoveDir, FilesTypeOK
<1>3. FlagsTypeOK'
  BY DEF RemoveDir, FlagsTypeOK
<1>4. DirHoldsFiles'
  BY DEF RemoveDir, DirHoldsFiles, NoBackups, RecoveryProgress
<1>5. JournalHoldsSet'
  BY DEF RemoveDir, JournalHoldsSet
<1>6. ReappearingIsHarmless'
  BY DEF RemoveDir, ReappearingIsHarmless, NoBackups
<1>7. ReplacementProgress'
  BY DEF RemoveDir, ReplacementProgress
<1>8. RollbackProgress'
  BY DEF RemoveDir, RollbackProgress
<1>9. RecoveryProgress'
  BY DEF RemoveDir, RecoveryProgress
<1> QED BY <1>1, <1>2, <1>3, <1>4, <1>5, <1>6, <1>7, <1>8, <1>9 DEF JournalInv, TypeOK,
    DirHoldsFiles

\* Launch keeps the journal's invariant.
LEMMA LaunchKeeps == ASSUME LstatWorks, JournalInv, Launch PROVE JournalInv'
<1> USE NoneAssumption DEF JournalInv, TypeOK, Fault, NoFault, Goto, files
<1>1. ControlTypeOK'
  BY DEF Launch, ControlTypeOK, Steps
<1>2. FilesTypeOK'
  BY DEF Launch, FilesTypeOK
<1>3. FlagsTypeOK'
  BY DEF Launch, FlagsTypeOK
<1>4. DirHoldsFiles'
  BY DEF Launch, DirHoldsFiles, NoBackups
<1>5. JournalHoldsSet'
  BY DEF Launch, JournalHoldsSet
<1>6. ReappearingIsHarmless'
  BY DEF Launch, ReappearingIsHarmless, NoBackups
<1>7. ReplacementProgress'
  BY DEF Launch, ReplacementProgress
<1>8. RollbackProgress'
  BY DEF Launch, RollbackProgress
<1>9. RecoveryProgress'
  BY DEF Launch, RecoveryProgress
<1> QED BY <1>1, <1>2, <1>3, <1>4, <1>5, <1>6, <1>7, <1>8, <1>9 DEF JournalInv, TypeOK,
    DirHoldsFiles

\* Done keeps the journal's invariant.
LEMMA DoneKeeps == ASSUME LstatWorks, JournalInv, Done PROVE JournalInv'
<1> USE NoneAssumption DEF JournalInv, TypeOK, Fault, NoFault, Goto, files
<1>1. ControlTypeOK'
  BY DEF Done, ControlTypeOK, Steps
<1>2. FilesTypeOK'
  BY DEF Done, FilesTypeOK
<1>3. FlagsTypeOK'
  BY DEF Done, FlagsTypeOK
<1>4. DirHoldsFiles'
  BY DEF Done, DirHoldsFiles, NoBackups
<1>5. JournalHoldsSet'
  BY DEF Done, JournalHoldsSet
<1>6. ReappearingIsHarmless'
  BY DEF Done, ReappearingIsHarmless, NoBackups
<1>7. ReplacementProgress'
  BY DEF Done, ReplacementProgress
<1>8. RollbackProgress'
  BY DEF Done, RollbackProgress
<1>9. RecoveryProgress'
  BY DEF Done, RecoveryProgress
<1> QED BY <1>1, <1>2, <1>3, <1>4, <1>5, <1>6, <1>7, <1>8, <1>9 DEF JournalInv, TypeOK,
    DirHoldsFiles

\* Crash keeps the journal's invariant.
LEMMA CrashKeeps == ASSUME LstatWorks, JournalInv, Crash PROVE JournalInv'
<1> USE NoneAssumption DEF JournalInv, TypeOK, Fault, NoFault, Goto, files
<1>1. ControlTypeOK'
  BY SMTT(30) DEF Crash, ControlTypeOK, Steps
<1>2. FilesTypeOK'
  BY DEF Crash, FilesTypeOK
<1>3. FlagsTypeOK'
  BY DEF Crash, FlagsTypeOK
<1>4. DirHoldsFiles'
  BY DEF Crash, DirHoldsFiles, NoBackups
<1>5. JournalHoldsSet'
  BY DEF Crash, JournalHoldsSet
<1>6. ReappearingIsHarmless'
  BY DEF Crash, ReappearingIsHarmless, NoBackups
<1>7. ReplacementProgress'
  BY DEF Crash, ReplacementProgress
<1>8. RollbackProgress'
  BY DEF Crash, RollbackProgress
<1>9. RecoveryProgress'
  BY DEF Crash, RecoveryProgress
<1> QED BY <1>1, <1>2, <1>3, <1>4, <1>5, <1>6, <1>7, <1>8, <1>9 DEF JournalInv, TypeOK,
    DirHoldsFiles

\* PowerLoss keeps the journal's invariant.
LEMMA PowerLossKeeps == ASSUME LstatWorks, JournalInv, PowerLoss PROVE JournalInv'
<1> USE NoneAssumption DEF JournalInv, TypeOK, Fault, NoFault, Goto, files
<1>1. ControlTypeOK'
  BY SMTT(30) DEF PowerLoss, ControlTypeOK, Steps
<1>2. FilesTypeOK'
  BY DEF PowerLoss, Synced, FilesTypeOK, Version, NoFiles
<1>3. FlagsTypeOK'
  BY DEF PowerLoss, Synced, FlagsTypeOK
<1>4. DirHoldsFiles'
  BY DEF PowerLoss, DirHoldsFiles, NoBackups
<1>5. JournalHoldsSet'
  BY DEF PowerLoss, JournalHoldsSet, ReappearingIsHarmless, NoBackups
<1>6. ReappearingIsHarmless'
  BY DEF PowerLoss, Synced, ReappearingIsHarmless, NoFiles
<1>7. ReplacementProgress'
  BY DEF PowerLoss, ReplacementProgress
<1>8. RollbackProgress'
  BY DEF PowerLoss, RollbackProgress
<1>9. RecoveryProgress'
  BY DEF PowerLoss, RecoveryProgress
<1> QED BY <1>1, <1>2, <1>3, <1>4, <1>5, <1>6, <1>7, <1>8, <1>9 DEF JournalInv, TypeOK,
    DirHoldsFiles

\* Every step keeps the journal's invariant.
LEMMA NextJournal == ASSUME LstatWorks, JournalInv, [Next]_vars PROVE JournalInv'
<1>1. CASE UNCHANGED vars
  BY SMTT(30), <1>1 DEF vars, JournalInv, TypeOK, ControlTypeOK, FilesTypeOK, FlagsTypeOK,
      NoBackups, JournalHoldsSet, ReappearingIsHarmless,
              ReplacementProgress, RollbackProgress, RecoveryProgress
<1>2. CASE Next
  BY <1>2, RecoverWritableSetKeeps, UndoKeeps, CheckKeeps, ReplaceWritableSetKeeps,
      BackUpKeeps, PublishKeeps, MarkKeeps, CommitKeeps, RollbackDiskKeeps,
      RollbackDoneKeeps, DiscardKeeps, SyncBackupsKeeps, UnmarkKeeps, SyncMarkerKeeps,
      RemoveDirKeeps, LaunchKeeps, DoneKeeps, CrashKeeps, PowerLossKeeps DEF Next
<1> QED BY <1>1, <1>2

\* The journal always holds one agreed set, whatever has failed so far.
THEOREM JournalInvariant == ASSUME LstatWorks PROVE Spec => []JournalInv
<1>1. Init => JournalInv
  BY InitJournal
<1>2. JournalInv /\ [Next]_vars => JournalInv'
  BY NextJournal
<1> QED BY <1>1, <1>2, PTL DEF Spec

\* A VMM runs only over the whole last committed set of disks.
THEOREM DisksAreOneSet == ASSUME LstatWorks PROVE Spec => []UsesAgreedSet
<1>1. JournalInv => UsesAgreedSet
  BY DEF JournalInv, TypeOK, NoBackups, JournalHoldsSet, RecoveryProgress, UsesAgreedSet
<1> QED BY <1>1, JournalInvariant, PTL

\* At every moment each disk exists at its path or in the backup directory.
THEOREM DisksSurvive == ASSUME LstatWorks PROVE Spec => []NoDiskLost
<1>1. JournalInv => NoDiskLost
  BY NoneAssumption DEF JournalInv, TypeOK, ControlTypeOK, JournalHoldsSet, NoDiskLost
<1> QED BY <1>1, JournalInvariant, PTL

\* No step touches a disk while the commit marker stands.
THEOREM CommitIsFinal == ASSUME LstatWorks PROVE Spec => CommittedNeverUndone
<1>1. JournalInv /\ [Next]_vars => [marker => live' = live]_vars
  BY DEF JournalInv, ReplacementProgress, RollbackProgress, RecoveryProgress, Next, vars,
      files,
         RecoverWritableSet, Undo, Check, ReplaceWritableSet, BackUp, Publish, Mark, Commit,
         RollbackDisk, RollbackDone, Discard, SyncBackups, Unmark, SyncMarker, RemoveDir,
         Launch, Done, Crash, PowerLoss
<1> QED BY <1>1, JournalInvariant, PTL DEF Spec, CommittedNeverUndone

-----------------------------------------------------------------------------
(* NicResize: at each step of a resize, which slots the provider has, the   *)
(* VMM lists and the guest uses, relative to the committed count.          *)

NicSteps == {"idle", "sweepLive", "loop", "done", "allocate", "plug", "configure", "commit", "undo",
             "unconfigure", "eject", "release", "drop"}
AllSlots == Nic!Slots(MaxNICs)

NicOps == [step : NicSteps, target : 0..MaxNICs, seen : SUBSET AllSlots, held : SUBSET AllSlots,
           n : 0..MaxNICs, slipped : SUBSET AllSlots]

NicTypes ==
    /\ nicNics \in 0..MaxNICs /\ nicAlloc \subseteq AllSlots /\ nicLive \subseteq AllSlots
    /\ nicLate \subseteq AllSlots /\ nicListed \subseteq nicLive
    /\ nicOp \in NicOps

\* What the VM has and does not list was asked to go; what is listed of the
\* committed slots is allocated.
NicDoubt ==
    /\ Nic!OneSlotInDoubt
    /\ nicLive \subseteq nicListed \cup nicLate
    /\ Nic!Slots(nicNics) \cap nicListed \subseteq nicAlloc

\* The guest has the slots below n, but for those ejected late meanwhile.
Serves(n) == nicVm => Nic!Slots(n) \subseteq nicLive \cup nicOp.slipped

\* The sweep has seen what exceeds the record.
NicSweeps ==
    /\ nicListed \subseteq nicOp.seen \cup Nic!Slots(nicNics)
    /\ nicAlloc \subseteq nicOp.held \cup Nic!Slots(nicNics)
    /\ Nic!Slots(nicNics) \cap nicOp.seen \subseteq nicAlloc
    /\ nicVm => Nic!Slots(nicNics) \cap nicOp.seen \subseteq nicLive \cup nicOp.slipped

\* Nothing exceeds the record, and if it has to grow, nothing is missing.
NicAgrees ==
    /\ nicAlloc \cup nicListed \subseteq Nic!Slots(nicNics)
    /\ nicNics <= nicOp.target => nicAlloc = Nic!Slots(nicNics) /\ Serves(nicNics)
    /\ nicNics > nicOp.target => Serves(nicOp.target)

\* One slot more than the record has is allocated.
NicGrows ==
    /\ nicOp.n = nicNics /\ nicNics < nicOp.target
    /\ nicAlloc = Nic!Slots(nicNics + 1) /\ nicListed \subseteq nicAlloc
    /\ Serves(nicNics)

NicAt ==
    /\ nicOp.step = "sweepLive" => NicSweeps
    /\ nicOp.step \in {"loop", "done", "allocate", "unconfigure", "eject", "release"} => NicAgrees
    /\ nicOp.step = "done" => nicNics = nicOp.target
    /\ nicOp.step = "allocate" => nicOp.n = nicNics /\ nicNics < nicOp.target
    /\ nicOp.step \in {"plug", "configure", "commit"} => NicGrows
    /\ nicOp.step \in {"configure", "commit"} => Serves(nicNics + 1)
    /\ nicOp.step = "undo" =>
        /\ nicOp.n < MaxNICs /\ nicNics \in {nicOp.n, nicOp.n + 1}
        /\ nicAlloc = Nic!Slots(nicOp.n + 1) /\ nicListed \subseteq nicAlloc
    /\ nicOp.step \in {"unconfigure", "eject", "release", "drop"} => nicOp.n = nicNics /\ nicNics > nicOp.target
    /\ nicOp.step = "release" => nicNics - 1 \notin nicListed
    /\ nicOp.step = "drop" =>
        /\ nicAlloc = Nic!Slots(nicNics - 1) /\ nicListed \subseteq nicAlloc
        /\ Serves(nicOp.target)

NicInv == NicTypes /\ NicDoubt /\ NicAt

LEMMA SlotsBelow ==
    ASSUME NEW n \in Int, NEW i
    PROVE  i \in Nic!Slots(n) <=> i \in Int /\ 0 <= i /\ i < n /\ i < MaxNICs
  BY SMTT(30), GuestAssumption DEF Nic!Slots

LEMMA NicRepairable == NicInv => Nic!ResizeIsRepairable
<1> SUFFICES ASSUME NicInv, nicOp.step = "done"
             PROVE  /\ nicNics = nicOp.target /\ nicAlloc = Nic!Slots(nicOp.target)
                    /\ nicVm => /\ Nic!Slots(nicOp.target) \subseteq nicLive \cup nicOp.slipped
                                /\ nicLive \subseteq Nic!Slots(nicOp.target) \cup nicLate
                                /\ nicListed \subseteq Nic!Slots(nicOp.target)
  BY DEF NicInv, NicDoubt, Nic!ResizeIsRepairable, Nic!ResizeConverges, Nic!At
<1>1. nicNics = nicOp.target /\ NicAgrees
  BY DEF NicInv, NicAt
<1>2. nicNics <= nicOp.target
  BY SMTT(30), <1>1 DEF NicInv, NicTypes
<1>3. nicAlloc = Nic!Slots(nicNics) /\ Serves(nicNics) /\ nicListed \subseteq Nic!Slots(nicNics)
  BY <1>1, <1>2 DEF NicAgrees
<1>4. nicLive \subseteq nicListed \cup nicLate
  BY DEF NicInv, NicDoubt
<1> QED
  BY <1>1, <1>3, <1>4 DEF Serves

LEMMA NicInitially == Nic!Init => NicInv
<1> SUFFICES ASSUME Nic!Init
             PROVE  NicInv
  OBVIOUS
<1>1. /\ nicNics \in 0..MaxNICs /\ nicAlloc = Nic!Slots(nicNics) /\ nicLive = Nic!Slots(nicNics)
      /\ nicListed = nicLive /\ nicLate = {} /\ nicOp = Nic!Idle
  BY DEF Nic!Init
<1>2. NicTypes
  BY SMTT(30), <1>1, GuestAssumption, SlotsBelow DEF NicTypes, NicOps, AllSlots, NicSteps, Nic!Idle
<1>3. NicDoubt
  BY SMTT(30), <1>1, GuestAssumption DEF NicDoubt, Nic!OneSlotInDoubt, Nic!Slots
<1>4. NicAt
  BY <1>1 DEF NicAt, Nic!Idle
<1> QED
  BY <1>2, <1>3, <1>4 DEF NicInv

LEMMA NicGoto ==
    ASSUME NicTypes, NEW step \in NicSteps, Nic!Goto(step)
    PROVE  /\ nicOp' \in NicOps /\ nicOp'.step = step /\ nicOp'.target = nicOp.target /\ nicOp'.n = nicOp.n
           /\ nicOp'.slipped = nicOp.slipped /\ nicOp'.seen = nicOp.seen /\ nicOp'.held = nicOp.held
  BY DEF NicTypes, NicOps, Nic!Goto

\* A resize that ends has only to leave what a later one repairs.
LEMMA NicEnds ==
    ASSUME NicInv, Nic!Return, UNCHANGED nicNics, NicDoubt',
           nicAlloc' \subseteq AllSlots /\ nicLive' \subseteq AllSlots /\ nicLate' \subseteq AllSlots,
           nicListed' \subseteq nicLive'
    PROVE  NicInv'
<1>1. nicOp' = Nic!Idle /\ nicOp'.step = "idle"
  BY DEF Nic!Return, Nic!Idle
<1>2. Nic!Idle \in NicOps
  BY SMTT(30), GuestAssumption DEF Nic!Idle, NicOps, NicSteps
<1>3. NicTypes'
  BY <1>1, <1>2 DEF NicInv, NicTypes, NicOps
<1>4. NicAt'
  BY <1>1 DEF NicAt
<1> QED
  BY <1>3, <1>4 DEF NicInv

\* RemoveNIC leaves the doubt where it was.
LEMMA NicRemoved ==
    ASSUME NicInv, NEW i, Nic!RemoveNIC(i)
    PROVE  /\ nicLive' = nicLive \ {i} /\ nicListed' = nicListed \ {i} /\ nicLate' = nicLate \ {i}
           /\ nicLive' \subseteq AllSlots /\ nicLate' \subseteq AllSlots /\ nicListed' \subseteq nicLive'
           /\ nicLive' \subseteq nicListed' \cup nicLate'
  BY DEF NicInv, NicTypes, NicDoubt, Nic!RemoveNIC

LEMMA NicRemoveFailed ==
    ASSUME NicInv, NEW i, Nic!RemoveNICFailed(i), UNCHANGED nicLive
    PROVE  /\ nicListed' \subseteq nicListed /\ nicLate' \subseteq AllSlots /\ nicListed' \subseteq nicLive'
           /\ nicLive' \subseteq nicListed' \cup nicLate'
  BY DEF NicInv, NicTypes, NicDoubt, Nic!RemoveNICFailed

\* Listing fewer devices and releasing slots beyond the record raises no doubt.
LEMMA NicDoubtKept ==
    ASSUME NicInv, UNCHANGED nicNics, nicListed' \subseteq nicListed,
           nicLive' \subseteq nicListed' \cup nicLate', nicAlloc' \subseteq nicAlloc,
           \A i \in nicAlloc \ nicAlloc' : i \notin Nic!Slots(nicNics)
    PROVE  NicDoubt'
<1>1. Nic!Slots(nicNics)' = Nic!Slots(nicNics) /\ Nic!Slots(nicNics + 1)' = Nic!Slots(nicNics + 1)
  BY DEF Nic!Slots
<1>2. /\ nicAlloc \cup nicListed \subseteq Nic!Slots(nicNics + 1)
      /\ Nic!Slots(IF nicNics = 0 THEN 0 ELSE nicNics - 1) \subseteq nicAlloc
      /\ Nic!Slots(nicNics) \cap nicListed \subseteq nicAlloc
  BY DEF NicInv, NicDoubt, Nic!OneSlotInDoubt
<1>3. Nic!Slots(IF nicNics = 0 THEN 0 ELSE nicNics - 1) \subseteq Nic!Slots(nicNics)
  BY SMTT(30) DEF Nic!Slots, NicInv, NicTypes
<1>4. Nic!OneSlotInDoubt'
  BY <1>2, <1>3 DEF Nic!OneSlotInDoubt, Nic!Slots
<1> QED
  BY <1>1, <1>2, <1>4 DEF NicDoubt

\* The doubt, slot by slot.
LEMMA NicDoubtHolds ==
    ASSUME nicNics' \in 0..MaxNICs, nicLive' \subseteq nicListed' \cup nicLate',
           \A i \in AllSlots : i + 1 < nicNics' => i \in nicAlloc',
           \A i \in nicAlloc' \cup nicListed' : i \in AllSlots /\ i <= nicNics',
           \A i \in nicListed' : i < nicNics' => i \in nicAlloc'
    PROVE  NicDoubt'
<1>1. Nic!Slots(IF nicNics = 0 THEN 0 ELSE nicNics - 1)' \subseteq nicAlloc'
  BY SMTT(30), GuestAssumption DEF Nic!Slots, AllSlots
<1>2. (nicAlloc \cup nicListed)' \subseteq Nic!Slots(nicNics + 1)'
  BY SMTT(30), GuestAssumption DEF Nic!Slots, AllSlots
<1>3. Nic!Slots(nicNics)' \cap nicListed' \subseteq nicAlloc'
  BY DEF Nic!Slots
<1> QED
  BY <1>1, <1>2, <1>3 DEF NicDoubt, Nic!OneSlotInDoubt

\* The operation goes on and the world stays.
LEMMA NicGoesOn ==
    ASSUME NicInv, UNCHANGED Nic!world, nicOp' \in NicOps, NicAt'
    PROVE  NicInv'
<1>1. UNCHANGED <<nicNics, nicAlloc, nicLive, nicListed, nicLate, nicVm>>
  BY DEF Nic!world
<1>2. NicTypes'
  BY <1>1 DEF NicInv, NicTypes
<1>3. NicDoubt'
  BY <1>1 DEF NicInv, NicDoubt, Nic!OneSlotInDoubt
<1> QED
  BY <1>2, <1>3 DEF NicInv

LEMMA NicStops ==
    ASSUME NicInv, UNCHANGED Nic!world, Nic!Return
    PROVE  NicInv'
<1>1. UNCHANGED <<nicNics, nicAlloc, nicLive, nicListed, nicLate, nicVm>>
  BY DEF Nic!world
<1>2. NicDoubt'
  BY <1>1 DEF NicInv, NicDoubt, Nic!OneSlotInDoubt
<1> QED
  BY <1>1, <1>2, NicEnds DEF NicInv, NicTypes

LEMMA NicBegin ==
    ASSUME NicInv, NEW target \in 0..MaxNICs, Nic!Begin(target)
    PROVE  NicInv'
<1>1. /\ UNCHANGED Nic!world /\ UNCHANGED <<nicNics, nicAlloc, nicLive, nicListed, nicLate, nicVm>>
      /\ nicOp' = [Nic!Idle EXCEPT !.step = "sweepLive", !.target = target, !.seen = nicListed,
                                   !.held = nicAlloc, !.n = nicNics]
  BY DEF Nic!Begin, Nic!world
<1>2. /\ nicOp'.step = "sweepLive" /\ nicOp'.seen = nicListed /\ nicOp'.held = nicAlloc /\ nicOp' \in NicOps
  BY <1>1 DEF Nic!Idle, NicOps, NicSteps, NicInv, NicTypes
<1>3. NicSweeps'
  BY <1>1, <1>2 DEF NicSweeps, NicInv, NicDoubt, NicTypes
<1> QED
  BY <1>1, <1>2, <1>3, NicGoesOn DEF NicAt

LEMMA NicSweepLive ==
    ASSUME NicInv, NEW i \in AllSlots, Nic!SweepLive(i)
    PROVE  NicInv'
<1>1. /\ nicOp.step = "sweepLive" /\ i \in nicOp.seen /\ i >= nicNics /\ Nic!RemoveNIC(i)
      /\ nicOp' = [nicOp EXCEPT !.seen = @ \ {i}] /\ UNCHANGED <<nicNics, nicAlloc, nicVm>>
  BY DEF Nic!SweepLive, Nic!At
<1>2. /\ nicOp' \in NicOps /\ nicOp'.step = "sweepLive" /\ nicOp'.seen = nicOp.seen \ {i}
      /\ nicOp'.held = nicOp.held /\ nicOp'.slipped = nicOp.slipped
  BY <1>1 DEF NicInv, NicTypes, NicOps
<1>3. i \notin Nic!Slots(nicNics) /\ NicSweeps
  BY SMTT(30), <1>1 DEF Nic!Slots, NicInv, NicAt, NicTypes
<1>4. NicTypes'
  BY <1>1, <1>2, NicRemoved DEF NicInv, NicTypes
<1>5. NicDoubt'
  BY <1>1, NicRemoved, NicDoubtKept
<1>6. NicSweeps'
  BY SMTT(30), <1>1, <1>2, <1>3, NicRemoved DEF NicSweeps
<1> QED
  BY <1>2, <1>4, <1>5, <1>6 DEF NicInv, NicAt

\* A request to the VMM that failed ends the resize.
LEMMA NicSweepLiveFailed ==
    ASSUME NicInv, NEW i, Nic!RemoveNICFailed(i), Nic!Return, UNCHANGED <<nicNics, nicAlloc, nicLive, nicVm>>
    PROVE  NicInv'
<1>1. NicDoubt'
  BY NicRemoveFailed, NicDoubtKept
<1> QED
  BY <1>1, NicRemoveFailed, NicEnds DEF NicInv, NicTypes

LEMMA NicSweepAlloc ==
    ASSUME NicInv, Nic!SweepAlloc
    PROVE  NicInv'
<1>1. /\ nicOp.step = "sweepLive" /\ UNCHANGED <<nicNics, nicLive, nicListed, nicLate, nicVm>>
  BY DEF Nic!SweepAlloc, Nic!At
<1>2. PICK i \in nicOp.held \ Nic!Slots(nicNics) :
        nicAlloc' = nicAlloc \ {i} /\ nicOp' = [nicOp EXCEPT !.held = @ \ {i}]
  BY DEF Nic!SweepAlloc
<1>3. /\ nicOp' \in NicOps /\ nicOp'.step = "sweepLive" /\ nicOp'.seen = nicOp.seen
      /\ nicOp'.held = nicOp.held \ {i} /\ nicOp'.slipped = nicOp.slipped
  BY <1>1, <1>2 DEF NicInv, NicTypes, NicOps
<1>4. NicTypes'
  BY <1>1, <1>2, <1>3 DEF NicInv, NicTypes
<1>5. NicDoubt'
  BY <1>1, <1>2, NicDoubtKept DEF NicInv, NicDoubt
<1>6. NicSweeps
  BY <1>1 DEF NicInv, NicAt
<1>7. NicSweeps'
  BY <1>1, <1>2, <1>3, <1>6 DEF NicSweeps
<1> QED
  BY <1>3, <1>4, <1>5, <1>7 DEF NicInv, NicAt

LEMMA NicSweepAllocFailed ==
    ASSUME NicInv, Nic!SweepAllocFailed
    PROVE  NicInv'
<1>1. /\ Nic!Return /\ UNCHANGED <<nicNics, nicLive, nicListed, nicLate, nicVm>>
  BY DEF Nic!SweepAllocFailed
<1>2. PICK i \in nicOp.held \ Nic!Slots(nicNics) : nicAlloc' \in {nicAlloc, nicAlloc \ {i}}
  BY DEF Nic!SweepAllocFailed
<1>3. NicDoubt'
  BY <1>1, <1>2, NicDoubtKept DEF NicInv, NicDoubt
<1> QED
  BY <1>1, <1>2, <1>3, NicEnds DEF NicInv, NicTypes

\* The VMM lists every committed slot below the target, so each is allocated.
LEMMA NicReconciled ==
    ASSUME NicInv, Nic!Reconciled
    PROVE  NicInv'
<1>1. /\ nicOp.step = "sweepLive" /\ UNCHANGED Nic!world
      /\ \A i \in nicOp.seen \cup nicOp.held : i < nicNics
  BY DEF Nic!Reconciled, Nic!At
<1>2. CASE Nic!Return
  BY <1>1, <1>2, NicStops
<1>3. CASE Nic!Goto("loop") /\ Nic!Slots(nicOp.target) \cap Nic!Slots(nicNics) \subseteq nicOp.seen
  <2>1. /\ nicOp' \in NicOps /\ nicOp'.step = "loop" /\ nicOp'.target = nicOp.target
        /\ nicOp'.slipped = nicOp.slipped
    BY <1>3, NicGoto DEF NicInv, NicSteps
  <2>2. UNCHANGED <<nicNics, nicAlloc, nicLive, nicListed, nicLate, nicVm>>
    BY <1>1 DEF Nic!world
  <2>3. NicSweeps /\ nicNics \in 0..MaxNICs /\ nicOp.target \in 0..MaxNICs
    BY <1>1 DEF NicInv, NicAt, NicTypes, NicOps
  <2>4. nicOp.seen \cup nicOp.held \subseteq Nic!Slots(nicNics)
    BY <1>1 DEF NicInv, NicTypes, NicOps, AllSlots, Nic!Slots
  <2>5. nicAlloc \cup nicListed \subseteq Nic!Slots(nicNics)
    BY <2>3, <2>4 DEF NicSweeps
  <2>6. ASSUME nicNics <= nicOp.target
        PROVE  nicAlloc = Nic!Slots(nicNics) /\ Serves(nicNics)
    <3>1. Nic!Slots(nicNics) \subseteq nicOp.seen
      BY SMTT(30), <1>3, <2>3, <2>6 DEF Nic!Slots
    <3> QED
      BY <2>3, <2>5, <3>1 DEF NicSweeps, Serves
  <2>7. ASSUME nicNics > nicOp.target
        PROVE  Serves(nicOp.target)
    <3>1. Nic!Slots(nicOp.target) \subseteq nicOp.seen \cap Nic!Slots(nicNics)
      BY SMTT(30), <1>3, <2>3, <2>7 DEF Nic!Slots
    <3> QED
      BY <2>3, <3>1 DEF NicSweeps, Serves
  <2>8. NicAgrees'
    BY <2>1, <2>2, <2>5, <2>6, <2>7 DEF NicAgrees, Serves
  <2> QED
    BY <1>1, <2>1, <2>8, NicGoesOn DEF NicAt
<1> QED
  BY <1>2, <1>3 DEF Nic!Reconciled

LEMMA NicLoop ==
    ASSUME NicInv, Nic!Loop
    PROVE  NicInv'
<1>1. /\ nicOp.step = "loop" /\ UNCHANGED Nic!world /\ nicNics \in 0..MaxNICs /\ nicOp.target \in 0..MaxNICs
      /\ UNCHANGED <<nicNics, nicAlloc, nicLive, nicListed, nicLate, nicVm>>
  BY DEF Nic!Loop, Nic!At, Nic!world, NicInv, NicTypes, NicOps
<1>2. PICK step \in {"allocate", "unconfigure", "done"} :
        /\ nicOp' = [nicOp EXCEPT !.n = nicNics, !.step = step]
        /\ step = "allocate" => nicNics < nicOp.target
        /\ step = "unconfigure" => nicNics > nicOp.target
        /\ step = "done" => nicNics = nicOp.target
  <2> DEFINE next == CASE nicNics < nicOp.target -> "allocate"
                       [] nicNics > nicOp.target -> "unconfigure"
                       [] OTHER -> "done"
  <2>1. nicOp' = [nicOp EXCEPT !.n = nicNics, !.step = next]
    BY DEF Nic!Loop
  <2>2. \/ nicNics < nicOp.target /\ next = "allocate"
        \/ nicNics > nicOp.target /\ next = "unconfigure"
        \/ nicNics = nicOp.target /\ next = "done"
    BY SMTT(30), <1>1
  <2> HIDE DEF next
  <2> QED
    BY <2>1, <2>2
<1>3. /\ nicOp' \in NicOps /\ nicOp'.step = step /\ nicOp'.n = nicNics /\ nicOp'.target = nicOp.target
      /\ nicOp'.slipped = nicOp.slipped
  BY <1>1, <1>2 DEF NicInv, NicTypes, NicOps, NicSteps
<1>4. NicAgrees'
  BY <1>1, <1>3 DEF NicInv, NicAt, NicAgrees, Serves
<1>5. NicAt'
  BY <1>1, <1>2, <1>3, <1>4 DEF NicAt
<1> QED
  BY <1>1, <1>3, <1>5, NicGoesOn

LEMMA NicAllocate ==
    ASSUME NicInv, Nic!Allocate
    PROVE  NicInv'
<1>1. /\ nicOp.step = "allocate" /\ Nic!Goto("plug") /\ nicAlloc' = nicAlloc \cup {nicOp.n}
      /\ UNCHANGED <<nicNics, nicLive, nicListed, nicLate, nicVm>>
  BY DEF Nic!Allocate, Nic!At
<1>2. /\ nicOp' \in NicOps /\ nicOp'.step = "plug" /\ nicOp'.target = nicOp.target /\ nicOp'.n = nicOp.n
      /\ nicOp'.slipped = nicOp.slipped
  BY <1>1, NicGoto DEF NicInv, NicSteps
<1>3. /\ nicOp.n = nicNics /\ nicNics < nicOp.target /\ nicAlloc = Nic!Slots(nicNics) /\ Serves(nicNics)
      /\ nicListed \subseteq Nic!Slots(nicNics) /\ nicNics \in 0..MaxNICs /\ nicOp.target \in 0..MaxNICs
  BY SMTT(30), <1>1 DEF NicInv, NicAt, NicAgrees, NicTypes, NicOps
<1>4. nicAlloc' = Nic!Slots(nicNics + 1) /\ nicNics \in AllSlots
  BY SMTT(30), <1>1, <1>3, GuestAssumption DEF Nic!Slots, AllSlots
<1>5. NicTypes'
  BY <1>1, <1>2, <1>3, <1>4 DEF NicInv, NicTypes
<1>6. NicDoubt'
  BY <1>1, <1>3, <1>4 DEF NicInv, NicDoubt, Nic!OneSlotInDoubt, Nic!Slots
<1>7. NicGrows'
  BY <1>1, <1>2, <1>3, <1>4 DEF NicGrows, Serves, Nic!Slots
<1> QED
  BY <1>2, <1>5, <1>6, <1>7 DEF NicInv, NicAt

LEMMA NicAllocateFailed ==
    ASSUME NicInv, Nic!AllocateFailed
    PROVE  NicInv'
<1>1. /\ nicOp.step = "allocate" /\ Nic!Return /\ nicAlloc' \in {nicAlloc, nicAlloc \cup {nicOp.n}}
      /\ UNCHANGED <<nicNics, nicLive, nicListed, nicLate, nicVm>>
  BY DEF Nic!AllocateFailed, Nic!At
<1>2. /\ nicOp.n = nicNics /\ nicNics < nicOp.target /\ nicAlloc = Nic!Slots(nicNics)
      /\ nicListed \subseteq Nic!Slots(nicNics) /\ nicNics \in 0..MaxNICs /\ nicOp.target \in 0..MaxNICs
  BY SMTT(30), <1>1 DEF NicInv, NicAt, NicAgrees, NicTypes, NicOps
<1>3. nicNics \in AllSlots
  BY SMTT(30), <1>2, GuestAssumption DEF Nic!Slots, AllSlots
<1>4. NicDoubt'
  <2>1. /\ \A i \in AllSlots : i < nicNics => i \in nicAlloc
        /\ \A i \in nicAlloc \cup nicListed : i \in AllSlots /\ i < nicNics
    BY <1>2 DEF Nic!Slots, AllSlots, NicInv, NicTypes
  <2>2. \A i \in AllSlots : i \in Int
    BY SMTT(30) DEF Nic!Slots, AllSlots
  <2> QED
    <3>1. nicLive' \subseteq nicListed' \cup nicLate'
      BY <1>1 DEF NicInv, NicDoubt
    <3>2. nicAlloc \subseteq nicAlloc' /\ nicAlloc' \subseteq nicAlloc \cup {nicNics}
      BY <1>1, <1>2
    <3>3. \A i \in AllSlots : i + 1 < nicNics => i \in nicAlloc'
      BY SMTT(30), <1>2, <2>1, <2>2, <3>2
    <3>4. \A i \in nicAlloc' \cup nicListed' : i \in AllSlots /\ i <= nicNics
      <4> SUFFICES ASSUME NEW i \in nicAlloc' \cup nicListed'
                   PROVE  i \in AllSlots /\ i <= nicNics
        OBVIOUS
      <4>1. i \in nicAlloc \cup nicListed \/ i = nicNics
        BY <1>1, <3>2
      <4>2. nicNics \in Int /\ nicNics \in AllSlots
        BY <1>3, <2>2
      <4>3. i \in AllSlots /\ i \in Int
        BY <2>1, <2>2, <4>1, <4>2
      <4> QED
        BY SMTT(30), <2>1, <4>1, <4>2, <4>3
    <3>5. \A i \in nicListed' : i < nicNics => i \in nicAlloc'
      BY <1>1, <2>1, <3>2
    <3> QED
      BY <1>1, <1>2, <3>1, <3>3, <3>4, <3>5, NicDoubtHolds
<1> QED
  BY <1>1, <1>2, <1>3, <1>4, NicEnds DEF NicInv, NicTypes

\* What the steps of addLiveNIC after the allocation know.
LEMMA NicGrowing ==
    ASSUME NicInv, nicOp.step \in {"plug", "configure", "commit"}
    PROVE  /\ nicOp.n = nicNics /\ nicNics < nicOp.target /\ nicNics \in 0..MaxNICs
           /\ nicOp.target \in 0..MaxNICs /\ nicNics \in AllSlots
           /\ nicAlloc = Nic!Slots(nicNics + 1) /\ nicListed \subseteq nicAlloc /\ Serves(nicNics)
<1>1. /\ nicOp.n = nicNics /\ nicNics < nicOp.target /\ nicNics \in 0..MaxNICs
      /\ nicOp.target \in 0..MaxNICs
      /\ nicAlloc = Nic!Slots(nicNics + 1) /\ nicListed \subseteq nicAlloc /\ Serves(nicNics)
  BY DEF NicInv, NicAt, NicGrows, NicTypes, NicOps
<1>2. nicNics \in AllSlots
  BY SMTT(30), <1>1, GuestAssumption DEF Nic!Slots, AllSlots
<1> QED
  BY <1>1, <1>2

\* The new device appears in the VM and its configuration.
LEMMA NicPlugged ==
    ASSUME NicInv, nicOp.step = "plug", Nic!Goto("configure"), nicNics \in nicListed',
           NEW took \in SUBSET {nicNics}, nicLive' = nicLive \cup took, nicListed' = nicListed \cup took,
           UNCHANGED <<nicNics, nicAlloc, nicLate, nicVm>>
    PROVE  NicInv'
<1>1. /\ nicOp' \in NicOps /\ nicOp'.step = "configure" /\ nicOp'.target = nicOp.target /\ nicOp'.n = nicOp.n
      /\ nicOp'.slipped = nicOp.slipped
  BY NicGoto DEF NicInv, NicSteps
<1>2. /\ nicOp.n = nicNics /\ nicNics < nicOp.target /\ nicNics \in 0..MaxNICs
      /\ nicOp.target \in 0..MaxNICs /\ nicNics \in AllSlots
      /\ nicAlloc = Nic!Slots(nicNics + 1) /\ nicListed \subseteq nicAlloc /\ Serves(nicNics)
  BY NicGrowing
<1>3. NicTypes'
  BY <1>1, <1>2 DEF NicInv, NicTypes
<1>4. nicNics \in nicAlloc
  BY SMTT(30), <1>2 DEF Nic!Slots, AllSlots
<1>5. NicDoubt'
  <2>1. nicLive' \subseteq nicListed' \cup nicLate' /\ nicListed' \subseteq nicAlloc'
    BY <1>2, <1>4 DEF NicInv, NicDoubt
  <2>2. /\ \A i \in AllSlots : i < nicNics => i \in nicAlloc
        /\ \A i \in nicAlloc : i \in AllSlots /\ i <= nicNics
    BY SMTT(30), <1>2, GuestAssumption DEF Nic!Slots, AllSlots
  <2>3. \A i \in AllSlots : i \in Int
    BY SMTT(30) DEF Nic!Slots, AllSlots
  <2> QED
    BY SMTT(30), <1>2, <2>1, <2>2, <2>3, NicDoubtHolds
<1>6. NicGrows'
  BY <1>1, <1>2, <1>4 DEF NicGrows, Serves
<1>7. Serves(nicNics + 1)'
  <2>1. Nic!Slots(nicNics + 1) \subseteq Nic!Slots(nicNics) \cup {nicNics}
    BY SMTT(30), <1>2 DEF Nic!Slots
  <2>2. nicNics \in nicLive'
    BY <1>3 DEF NicTypes
  <2>3. nicVm => Nic!Slots(nicNics + 1) \subseteq nicLive' \cup nicOp'.slipped
    BY <1>1, <1>2, <2>1, <2>2 DEF Serves
  <2> QED
    BY <2>3 DEF Serves, Nic!Slots
<1> QED
  BY <1>1, <1>3, <1>5, <1>6, <1>7 DEF NicInv, NicAt

\* The add is given up: the slot beyond the record may stay or go.
LEMMA NicPlugGivenUp ==
    ASSUME NicInv, nicOp.step = "plug", Nic!Return,
           NEW took \in SUBSET {nicNics}, nicLive' = nicLive \cup took, nicListed' = nicListed \cup took,
           nicAlloc' \in {nicAlloc, nicAlloc \ {nicNics}}, UNCHANGED <<nicNics, nicLate>>
    PROVE  NicInv'
<1>1. /\ nicNics \in 0..MaxNICs /\ nicNics \in AllSlots
      /\ nicAlloc = Nic!Slots(nicNics + 1) /\ nicListed \subseteq nicAlloc
  BY NicGrowing
<1>2. nicAlloc' \subseteq AllSlots /\ nicLive' \subseteq AllSlots /\ nicLate' \subseteq AllSlots /\ nicListed' \subseteq nicLive'
  BY <1>1 DEF NicInv, NicTypes
<1>3. NicDoubt'
  <2>1. nicLive' \subseteq nicListed' \cup nicLate'
    BY DEF NicInv, NicDoubt
  <2>2. nicListed' \subseteq Nic!Slots(nicNics + 1)
    BY SMTT(30), <1>1 DEF Nic!Slots, AllSlots
  <2>3. Nic!Slots(nicNics) \subseteq nicAlloc'
    BY SMTT(30), <1>1 DEF Nic!Slots
  <2> QED
    BY SMTT(30), <1>1, <2>1, <2>2, <2>3 DEF NicDoubt, Nic!OneSlotInDoubt, Nic!Slots
<1> QED
  BY <1>2, <1>3, NicEnds

LEMMA NicAddNIC ==
    ASSUME NicInv, Nic!AddNIC \/ Nic!AddNICFailed \/ Nic!AddNICUnknown \/ Nic!AddNICGone
    PROVE  NicInv'
<1>1. nicOp.step = "plug" /\ UNCHANGED <<nicNics, nicLate, nicVm>>
  BY DEF Nic!AddNIC, Nic!AddNICFailed, Nic!AddNICUnknown, Nic!AddNICGone, Nic!At
<1>2. nicOp.n = nicNics
  BY <1>1, NicGrowing
<1>3. CASE Nic!AddNIC
  <2>1. /\ Nic!Goto("configure") /\ UNCHANGED nicAlloc
        /\ nicLive' = nicLive \cup {nicNics} /\ nicListed' = nicListed \cup {nicNics}
    BY <1>2, <1>3 DEF Nic!AddNIC
  <2> QED
    BY <1>1, <2>1, NicPlugged
<1>4. CASE Nic!AddNICFailed
  <2>1. PICK took \in SUBSET {nicNics} :
          /\ nicLive' = nicLive \cup took /\ nicListed' = nicListed \cup took
          /\ \/ nicNics \in nicListed' /\ Nic!Goto("configure") /\ UNCHANGED nicAlloc
             \/ Nic!Return /\ nicAlloc' \in {nicAlloc, nicAlloc \ {nicNics}}
    BY <1>2, <1>4 DEF Nic!AddNICFailed
  <2> QED
    BY <1>1, <2>1, NicPlugged, NicPlugGivenUp
<1>5. CASE Nic!AddNICUnknown
  <2>1. PICK took \in SUBSET {nicNics} :
          nicLive' = nicLive \cup took /\ nicListed' = nicListed \cup took
    BY <1>2, <1>5 DEF Nic!AddNICUnknown
  <2>2. Nic!Return /\ nicAlloc' \in {nicAlloc, nicAlloc \ {nicNics}}
    BY <1>2, <1>5 DEF Nic!AddNICUnknown
  <2> QED
    BY <1>1, <2>1, <2>2, NicPlugGivenUp
<1>6. CASE Nic!AddNICGone
  <2>1. /\ Nic!Return /\ nicAlloc' \in {nicAlloc, nicAlloc \ {nicNics}}
        /\ nicLive' = nicLive \cup {} /\ nicListed' = nicListed \cup {}
    BY <1>2, <1>6 DEF Nic!AddNICGone
  <2> QED
    BY <1>1, <2>1, NicPlugGivenUp
<1> QED
  BY <1>3, <1>4, <1>5, <1>6

LEMMA NicConfigure ==
    ASSUME NicInv, Nic!Configure \/ Nic!ConfigureFailed
    PROVE  NicInv'
<1>1. /\ nicOp.step = "configure" /\ UNCHANGED Nic!world
      /\ UNCHANGED <<nicNics, nicAlloc, nicLive, nicListed, nicLate, nicVm>>
  BY DEF Nic!Configure, Nic!ConfigureFailed, Nic!At, Nic!world
<1>2. PICK step \in {"commit", "undo"} : Nic!Goto(step)
  BY DEF Nic!Configure, Nic!ConfigureFailed
<1>3. /\ nicOp' \in NicOps /\ nicOp'.step = step /\ nicOp'.target = nicOp.target /\ nicOp'.n = nicOp.n
      /\ nicOp'.slipped = nicOp.slipped
  BY <1>2, NicGoto DEF NicInv, NicSteps
<1>4. /\ nicOp.n = nicNics /\ nicNics < nicOp.target /\ nicNics \in 0..MaxNICs
      /\ nicOp.target \in 0..MaxNICs /\ nicAlloc = Nic!Slots(nicNics + 1) /\ nicListed \subseteq nicAlloc
  BY <1>1, NicGrowing
<1>5. NicGrows /\ Serves(nicNics + 1)
  BY <1>1 DEF NicInv, NicAt
<1>6. NicGrows' /\ Serves(nicNics + 1)'
  BY <1>1, <1>3, <1>5 DEF NicGrows, Serves
<1>7. nicOp.n < MaxNICs
  BY SMTT(30), <1>4, GuestAssumption
<1>8. NicAt'
  BY <1>1, <1>2, <1>3, <1>4, <1>6, <1>7 DEF NicAt, Nic!Slots
<1> QED
  BY <1>1, <1>3, <1>8, NicGoesOn

\* The record takes the slot that provider and VM have.
LEMMA NicCommitted ==
    ASSUME NicInv, nicOp.step = "commit", nicNics' = nicNics + 1,
           UNCHANGED <<nicAlloc, nicLive, nicListed, nicLate, nicVm>>,
           NEW step \in {"loop", "undo"}, Nic!Goto(step)
    PROVE  NicInv'
<1>1. /\ nicOp' \in NicOps /\ nicOp'.step = step /\ nicOp'.target = nicOp.target /\ nicOp'.n = nicOp.n
      /\ nicOp'.slipped = nicOp.slipped
  BY NicGoto DEF NicInv, NicSteps
<1>2. /\ nicOp.n = nicNics /\ nicNics < nicOp.target /\ nicNics \in 0..MaxNICs
      /\ nicOp.target \in 0..MaxNICs /\ nicAlloc = Nic!Slots(nicNics + 1) /\ nicListed \subseteq nicAlloc
  BY NicGrowing
<1>3. nicNics + 1 \in 0..MaxNICs /\ nicOp.n < MaxNICs
  BY SMTT(30), <1>2, GuestAssumption
<1>4. NicTypes'
  BY <1>1, <1>3 DEF NicInv, NicTypes
<1>5. NicDoubt'
  <2>1. /\ \A i \in AllSlots : i < nicNics + 1 => i \in nicAlloc
        /\ \A i \in nicAlloc : i \in AllSlots /\ i < nicNics + 1 /\ i \in Int
    BY SMTT(30), <1>2, GuestAssumption DEF Nic!Slots, AllSlots
  <2>2. nicLive' \subseteq nicListed' \cup nicLate'
    BY DEF NicInv, NicDoubt
  <2>3. \A i \in AllSlots : i + 1 < nicNics' => i \in nicAlloc'
    <3>1. \A i \in AllSlots : i \in Int
      BY SMTT(30) DEF Nic!Slots, AllSlots
    <3> QED
      BY SMTT(30), <1>2, <2>1, <3>1
  <2>4. \A i \in nicAlloc' \cup nicListed' : i \in AllSlots /\ i <= nicNics'
    BY SMTT(30), <1>2, <2>1
  <2> QED
    BY <1>2, <1>3, <2>2, <2>3, <2>4, NicDoubtHolds
<1>6. Serves(nicNics + 1)
  BY DEF NicInv, NicAt
<1>7. NicAgrees'
  <2>1. nicAlloc' = Nic!Slots(nicNics)' /\ nicListed' \subseteq Nic!Slots(nicNics)'
    BY <1>2 DEF Nic!Slots
  <2>2. Serves(nicNics)'
    BY <1>1, <1>6 DEF Serves, Nic!Slots
  <2> QED
    BY SMTT(30), <1>1, <1>2, <2>1, <2>2 DEF NicAgrees
<1>8. NicAt'
  BY <1>1, <1>2, <1>3, <1>7 DEF NicAt, Nic!Slots
<1> QED
  BY <1>4, <1>5, <1>8 DEF NicInv

LEMMA NicCommitAdd ==
    ASSUME NicInv, Nic!CommitAdd \/ Nic!CommitAddFailed
    PROVE  NicInv'
<1>1. /\ nicOp.step = "commit" /\ UNCHANGED <<nicAlloc, nicLive, nicListed, nicLate, nicVm>>
  BY DEF Nic!CommitAdd, Nic!CommitAddFailed, Nic!At
<1>2. \/ nicNics' = nicNics + 1 /\ (Nic!Goto("loop") \/ Nic!Goto("undo"))
      \/ nicNics' = nicNics /\ Nic!Goto("undo")
  BY DEF Nic!CommitAdd, Nic!CommitAddFailed
<1>3. CASE nicNics' = nicNics /\ Nic!Goto("undo")
  <2>1. /\ nicOp' \in NicOps /\ nicOp'.step = "undo" /\ nicOp'.n = nicOp.n
    BY <1>3, NicGoto DEF NicInv, NicSteps
  <2>2. /\ nicOp.n = nicNics /\ nicNics < nicOp.target /\ nicNics \in 0..MaxNICs
        /\ nicOp.target \in 0..MaxNICs /\ nicAlloc = Nic!Slots(nicNics + 1) /\ nicListed \subseteq nicAlloc
    BY <1>1, NicGrowing
  <2>3. nicOp.n < MaxNICs
    BY SMTT(30), <2>2, GuestAssumption
  <2>4. NicAt'
    BY <1>1, <1>3, <2>1, <2>2, <2>3 DEF NicAt, Nic!Slots
  <2> QED
    BY <1>1, <1>3, <2>1, <2>4, NicGoesOn DEF Nic!world
<1> QED
  BY <1>1, <1>2, <1>3, NicCommitted

\* A slot whose commit is in doubt is ejected before it is released.
LEMMA NicRollback ==
    ASSUME NicInv, Nic!rollbackAddedNIC \/ Nic!rollbackFailed
    PROVE  NicInv'
<1>1. nicOp.step = "undo" /\ Nic!Return /\ UNCHANGED <<nicNics, nicVm>>
  BY DEF Nic!rollbackAddedNIC, Nic!rollbackFailed, Nic!At
<1>2. /\ nicOp.n < MaxNICs /\ nicNics \in {nicOp.n, nicOp.n + 1} /\ nicNics \in 0..MaxNICs
      /\ nicAlloc = Nic!Slots(nicOp.n + 1) /\ nicListed \subseteq nicAlloc /\ nicOp.n \in 0..MaxNICs
  BY <1>1 DEF NicInv, NicAt, NicTypes, NicOps
<1>3. CASE Nic!RemoveNICFailed(nicOp.n) /\ UNCHANGED <<nicLive, nicAlloc>>
  BY <1>1, <1>3, NicSweepLiveFailed
<1>4. CASE Nic!RemoveNIC(nicOp.n) /\ nicAlloc' \in {nicAlloc, nicAlloc \ {nicOp.n}}
  <2>1. /\ \A i \in AllSlots : i < nicOp.n + 1 => i \in nicAlloc
        /\ \A i \in nicAlloc : i \in AllSlots /\ i < nicOp.n + 1 /\ i \in Int
        /\ \A i \in AllSlots : i \in Int
    BY SMTT(30), <1>2, GuestAssumption DEF Nic!Slots, AllSlots
  <2>2. /\ nicListed' = nicListed \ {nicOp.n} /\ nicLive' \subseteq nicListed' \cup nicLate'
        /\ nicLive' \subseteq AllSlots /\ nicLate' \subseteq AllSlots /\ nicListed' \subseteq nicLive'
    BY <1>4, NicRemoved
  <2>3. \A i \in AllSlots : i + 1 < nicNics' => i \in nicAlloc'
    BY SMTT(30), <1>1, <1>2, <1>4, <2>1
  <2>4. \A i \in nicAlloc' \cup nicListed' : i \in AllSlots /\ i <= nicNics'
    BY SMTT(30), <1>1, <1>2, <1>4, <2>1, <2>2
  <2>5. \A i \in nicListed' : i < nicNics' => i \in nicAlloc'
    BY <1>2, <1>4, <2>2
  <2>6. NicDoubt'
    BY <1>1, <1>2, <2>2, <2>3, <2>4, <2>5, NicDoubtHolds
  <2>7. nicAlloc' \subseteq AllSlots
    BY <1>4 DEF NicInv, NicTypes
  <2> QED
    BY <1>1, <2>2, <2>6, <2>7, NicEnds
<1> QED
  BY <1>3, <1>4 DEF Nic!rollbackAddedNIC, Nic!rollbackFailed
-----------------------------------------------------------------------------

\* What the steps of removeLiveNIC know.
LEMMA NicShrinking ==
    ASSUME NicInv, nicOp.step \in {"unconfigure", "eject", "release"}
    PROVE  /\ nicOp.n = nicNics /\ nicNics > nicOp.target /\ nicNics \in 1..MaxNICs
           /\ nicOp.target \in 0..MaxNICs /\ nicNics - 1 \in AllSlots
           /\ \A i \in AllSlots : i + 1 < nicNics => i \in nicAlloc
           /\ \A i \in nicAlloc \cup nicListed : i \in AllSlots /\ i < nicNics
           /\ (\A i \in AllSlots : i \in Int)
           /\ Serves(nicOp.target) /\ NicAgrees
<1>1. /\ nicOp.n = nicNics /\ nicNics > nicOp.target /\ nicNics \in 0..MaxNICs /\ nicOp.target \in 0..MaxNICs
      /\ NicAgrees
  BY DEF NicInv, NicAt, NicTypes, NicOps
<1>2. nicNics \in 1..MaxNICs /\ nicNics - 1 \in AllSlots
  BY SMTT(30), <1>1, GuestAssumption DEF AllSlots, Nic!Slots
<1>3. \A i \in AllSlots : i + 1 < nicNics => i \in nicAlloc
  <2>1. Nic!Slots(nicNics - 1) \subseteq nicAlloc
    BY SMTT(30), <1>2 DEF NicInv, NicDoubt, Nic!OneSlotInDoubt
  <2> QED
    BY SMTT(30), <1>1, <2>1, GuestAssumption DEF AllSlots, Nic!Slots
<1>4. \A i \in nicAlloc \cup nicListed : i \in AllSlots /\ i < nicNics
  BY SMTT(30), <1>1, GuestAssumption DEF NicAgrees, AllSlots, Nic!Slots
<1>5. \A i \in AllSlots : i \in Int
  BY SMTT(30) DEF AllSlots, Nic!Slots
<1> QED
  BY <1>1, <1>2, <1>3, <1>4, <1>5 DEF NicAgrees

LEMMA NicUnconfigure ==
    ASSUME NicInv, Nic!Unconfigure
    PROVE  NicInv'
<1>1. /\ nicOp.step = "unconfigure" /\ UNCHANGED Nic!world /\ Nic!Goto("eject")
      /\ UNCHANGED <<nicNics, nicAlloc, nicLive, nicListed, nicLate, nicVm>>
  BY DEF Nic!Unconfigure, Nic!At, Nic!world
<1>2. /\ nicOp' \in NicOps /\ nicOp'.step = "eject" /\ nicOp'.target = nicOp.target /\ nicOp'.n = nicOp.n
      /\ nicOp'.slipped = nicOp.slipped
  BY <1>1, NicGoto DEF NicInv, NicSteps
<1>3. NicAgrees /\ nicOp.n = nicNics /\ nicNics > nicOp.target
  BY <1>1, NicShrinking
<1>4. NicAgrees'
  BY <1>1, <1>2, <1>3 DEF NicAgrees, Serves
<1> QED
  BY <1>1, <1>2, <1>3, <1>4, NicGoesOn DEF NicAt

\* The device above the target leaves the VM, or is not listed any more.
LEMMA NicEject ==
    ASSUME NicInv, Nic!Eject \/ Nic!NotListed
    PROVE  NicInv'
<1>1. nicOp.step = "eject" /\ Nic!Goto("release") /\ UNCHANGED <<nicNics, nicAlloc, nicVm>>
  BY DEF Nic!Eject, Nic!NotListed, Nic!At, Nic!world
<1>2. /\ nicOp' \in NicOps /\ nicOp'.step = "release" /\ nicOp'.target = nicOp.target /\ nicOp'.n = nicOp.n
      /\ nicOp'.slipped = nicOp.slipped
  BY <1>1, NicGoto DEF NicInv, NicSteps
<1>3. /\ nicOp.n = nicNics /\ nicNics > nicOp.target /\ nicNics \in 1..MaxNICs /\ nicOp.target \in 0..MaxNICs
      /\ Serves(nicOp.target) /\ NicAgrees
  BY <1>1, NicShrinking
<1>4. /\ nicListed' = nicListed \ {nicNics - 1} /\ nicLive \ {nicNics - 1} \subseteq nicLive'
      /\ nicLive' \subseteq AllSlots /\ nicLate' \subseteq AllSlots /\ nicListed' \subseteq nicLive'
      /\ nicLive' \subseteq nicListed' \cup nicLate'
  <2>1. CASE Nic!Eject
    <3>1. Nic!RemoveNIC(nicNics - 1)
      BY <1>3, <2>1 DEF Nic!Eject
    <3> QED
      BY <3>1, NicRemoved
  <2>2. CASE Nic!NotListed
    <3>1. nicNics - 1 \notin nicListed /\ UNCHANGED <<nicLive, nicListed, nicLate>>
      BY <1>3, <2>2 DEF Nic!NotListed, Nic!world
    <3> QED
      BY <3>1 DEF NicInv, NicTypes, NicDoubt
  <2> QED
    BY <2>1, <2>2
<1>5. NicTypes'
  BY <1>1, <1>2, <1>4 DEF NicInv, NicTypes
<1>6. NicDoubt'
  BY <1>1, <1>4, NicDoubtKept
<1>7. Serves(nicOp.target)'
  <2>1. nicNics - 1 \notin Nic!Slots(nicOp.target)
    BY SMTT(30), <1>3 DEF Nic!Slots
  <2>2. nicVm => Nic!Slots(nicOp.target) \subseteq nicLive' \cup nicOp'.slipped
    BY <1>2, <1>3, <1>4, <2>1 DEF Serves
  <2> QED
    BY <1>1, <1>2, <2>2 DEF Serves
<1>8. NicAgrees'
  BY SMTT(30), <1>1, <1>2, <1>3, <1>4, <1>7 DEF NicAgrees
<1> QED
  BY <1>1, <1>2, <1>3, <1>4, <1>5, <1>6, <1>8 DEF NicInv, NicAt

LEMMA NicRelease ==
    ASSUME NicInv, Nic!Release \/ Nic!ReleaseFailed
    PROVE  NicInv'
<1>1. nicOp.step = "release" /\ UNCHANGED <<nicNics, nicLive, nicListed, nicLate, nicVm>>
  BY DEF Nic!Release, Nic!ReleaseFailed, Nic!At
<1>2. /\ nicOp.n = nicNics /\ nicNics > nicOp.target /\ nicNics \in 1..MaxNICs
      /\ nicOp.target \in 0..MaxNICs /\ nicNics - 1 \in AllSlots
      /\ \A i \in AllSlots : i + 1 < nicNics => i \in nicAlloc
      /\ \A i \in nicAlloc \cup nicListed : i \in AllSlots /\ i < nicNics
      /\ (\A i \in AllSlots : i \in Int)
      /\ Serves(nicOp.target)
  BY <1>1, NicShrinking
<1>3. nicNics - 1 \notin nicListed
  BY <1>1 DEF NicInv, NicAt
<1>4. nicAlloc' \in {nicAlloc, nicAlloc \ {nicNics - 1}}
  BY <1>2 DEF Nic!Release, Nic!ReleaseFailed
<1>5. NicDoubt'
  <2>1. nicLive' \subseteq nicListed' \cup nicLate' /\ nicNics \in 0..MaxNICs
    BY SMTT(30), <1>1, <1>2 DEF NicInv, NicDoubt
  <2>2. \A i \in AllSlots : i + 1 < nicNics => i \in nicAlloc'
    BY SMTT(30), <1>2, <1>4
  <2>3. \A i \in nicAlloc' \cup nicListed' : i \in AllSlots /\ i <= nicNics
    BY SMTT(30), <1>1, <1>2, <1>4
  <2>4. \A i \in nicListed' : i < nicNics => i \in nicAlloc
    BY <1>1, <1>2 DEF NicInv, NicDoubt, Nic!Slots, AllSlots
  <2>5. \A i \in nicListed' : i < nicNics => i \in nicAlloc'
    BY <1>1, <1>3, <1>4, <2>4
  <2> QED
    BY <1>1, <2>1, <2>2, <2>3, <2>5, NicDoubtHolds
<1>6. nicAlloc' \subseteq AllSlots
  BY <1>4 DEF NicInv, NicTypes
<1>7. CASE Nic!ReleaseFailed
  BY <1>1, <1>5, <1>6, <1>7, NicEnds DEF Nic!ReleaseFailed, NicInv, NicTypes
<1>8. CASE Nic!Release
  <2>1. Nic!Goto("drop") /\ nicAlloc' = nicAlloc \ {nicNics - 1}
    BY <1>2, <1>8 DEF Nic!Release
  <2>2. /\ nicOp' \in NicOps /\ nicOp'.step = "drop" /\ nicOp'.target = nicOp.target /\ nicOp'.n = nicOp.n
        /\ nicOp'.slipped = nicOp.slipped
    BY <2>1, NicGoto DEF NicInv, NicSteps
  <2>3. NicTypes'
    BY <1>1, <1>6, <2>2 DEF NicInv, NicTypes
  <2>4. nicAlloc' = Nic!Slots(nicNics - 1)
    BY SMTT(30), <1>2, <2>1, GuestAssumption DEF Nic!Slots, AllSlots
  <2>5. nicListed' \subseteq Nic!Slots(nicNics - 1)
    BY SMTT(30), <1>1, <1>2, <1>3, GuestAssumption DEF Nic!Slots, AllSlots
  <2>6. nicAlloc' = Nic!Slots(nicNics - 1)' /\ nicListed' \subseteq nicAlloc' /\ Serves(nicOp.target)'
    BY <1>1, <1>2, <2>2, <2>4, <2>5 DEF Serves
  <2>7. NicAt'
    BY <1>1, <1>2, <2>2, <2>6 DEF NicAt
  <2> QED
    BY <1>5, <2>3, <2>7 DEF NicInv
<1> QED
  BY <1>7, <1>8

\* The record drops the slot that provider and VM have dropped.
LEMMA NicDropped ==
    ASSUME NicInv, nicOp.step = "drop"
    PROVE  /\ nicOp.n = nicNics /\ nicNics > nicOp.target /\ nicNics - 1 \in 0..MaxNICs
           /\ nicOp.target \in 0..MaxNICs /\ nicOp.target <= nicNics - 1
           /\ \A i \in AllSlots : i < nicNics - 1 => i \in nicAlloc
           /\ \A i \in nicAlloc \cup nicListed : i \in AllSlots /\ i < nicNics - 1
           /\ (\A i \in AllSlots : i \in Int)
           /\ nicAlloc = Nic!Slots(nicNics - 1) /\ nicListed \subseteq nicAlloc /\ Serves(nicOp.target)
<1>1. /\ nicOp.n = nicNics /\ nicNics > nicOp.target /\ nicNics \in 0..MaxNICs /\ nicOp.target \in 0..MaxNICs
      /\ nicAlloc = Nic!Slots(nicNics - 1) /\ nicListed \subseteq nicAlloc /\ Serves(nicOp.target)
  BY DEF NicInv, NicAt, NicTypes, NicOps
<1>2. nicNics - 1 \in 0..MaxNICs /\ nicOp.target <= nicNics - 1
  BY SMTT(30), <1>1, GuestAssumption
<1>3. \A i \in AllSlots : i \in Int
  BY SMTT(30) DEF AllSlots, Nic!Slots
<1>4. \A i \in AllSlots : i < nicNics - 1 => i \in nicAlloc
  BY <1>1, GuestAssumption DEF AllSlots, Nic!Slots
<1>5. \A i \in nicAlloc \cup nicListed : i \in AllSlots /\ i < nicNics - 1
  BY SMTT(30), <1>1, GuestAssumption DEF AllSlots, Nic!Slots
<1> QED
  BY <1>1, <1>2, <1>3, <1>4, <1>5

LEMMA NicCommitRemove ==
    ASSUME NicInv, Nic!CommitRemove \/ Nic!CommitRemoveFailed
    PROVE  NicInv'
<1>1. nicOp.step = "drop" /\ UNCHANGED <<nicAlloc, nicLive, nicListed, nicLate, nicVm>>
  BY DEF Nic!CommitRemove, Nic!CommitRemoveFailed, Nic!At
<1>2. \/ nicNics' = nicNics /\ Nic!Return
      \/ nicNics' = nicNics - 1 /\ (Nic!Return \/ Nic!Goto("loop"))
  BY DEF Nic!CommitRemove, Nic!CommitRemoveFailed
<1>3. /\ nicOp.n = nicNics /\ nicNics > nicOp.target /\ nicNics - 1 \in 0..MaxNICs
      /\ nicOp.target \in 0..MaxNICs /\ nicOp.target <= nicNics - 1
      /\ \A i \in AllSlots : i < nicNics - 1 => i \in nicAlloc
      /\ \A i \in nicAlloc \cup nicListed : i \in AllSlots /\ i < nicNics - 1
      /\ (\A i \in AllSlots : i \in Int)
      /\ nicAlloc = Nic!Slots(nicNics - 1) /\ nicListed \subseteq nicAlloc /\ Serves(nicOp.target)
  BY <1>1, NicDropped
<1>4. CASE nicNics' = nicNics /\ Nic!Return
  BY <1>1, <1>4, NicStops DEF Nic!world
<1>5. CASE nicNics' = nicNics - 1
  <2>1. NicDoubt'
    <3>1. nicLive' \subseteq nicListed' \cup nicLate'
      BY <1>1 DEF NicInv, NicDoubt
    <3>2. \A i \in AllSlots : i + 1 < nicNics' => i \in nicAlloc'
      BY SMTT(30), <1>1, <1>3, <1>5
    <3>3. \A i \in nicAlloc' \cup nicListed' : i \in AllSlots /\ i <= nicNics'
      BY SMTT(30), <1>1, <1>3, <1>5
    <3>4. \A i \in nicListed' : i < nicNics' => i \in nicAlloc'
      BY <1>1, <1>3
    <3> QED
      BY <1>3, <1>5, <3>1, <3>2, <3>3, <3>4, NicDoubtHolds
  <2>2. /\ nicOp' \in NicOps
        /\ \/ nicOp'.step = "idle"
           \/ nicOp'.step = "loop" /\ nicOp'.target = nicOp.target /\ nicOp'.slipped = nicOp.slipped
    <3>1. CASE Nic!Return
      <4>1. Nic!Idle \in NicOps /\ Nic!Idle.step = "idle"
        BY SMTT(30), GuestAssumption DEF Nic!Idle, NicOps, NicSteps
      <4> QED
        BY <3>1, <4>1 DEF Nic!Return
    <3>2. CASE Nic!Goto("loop")
      BY <3>2, NicGoto DEF NicInv, NicSteps
    <3> QED
      BY <1>2, <1>3, <1>5, <3>1, <3>2
  <2>3. NicTypes'
    BY <1>1, <1>3, <1>5, <2>2 DEF NicInv, NicTypes
  <2>4. ASSUME nicOp'.step = "loop"
        PROVE  NicAgrees'
    <3>1. nicAlloc' = Nic!Slots(nicNics)' /\ nicListed' \subseteq nicAlloc' /\ nicOp'.target <= nicNics'
      BY <1>1, <1>3, <1>5, <2>2, <2>4
    <3>2. Serves(nicOp.target)'
      BY <1>1, <1>3, <2>2, <2>4 DEF Serves
    <3>3. nicNics' <= nicOp'.target => nicNics' = nicOp'.target
      BY SMTT(30), <1>3, <1>5, <2>2, <2>4
    <3> QED
      BY <3>1, <3>2, <3>3 DEF NicAgrees
  <2>5. NicAt'
    BY <2>2, <2>4 DEF NicAt
  <2> QED
    BY <2>1, <2>3, <2>5 DEF NicInv
<1> QED
  BY <1>2, <1>4, <1>5

\* A device that goes late counts as slipped while a resize runs.
LEMMA NicEjectLate ==
    ASSUME NicInv, NEW i \in AllSlots, Nic!EjectLate(i)
    PROVE  NicInv'
<1>1. /\ Nic!RemoveNIC(i) /\ UNCHANGED <<nicNics, nicAlloc, nicVm>>
      /\ nicOp' = [nicOp EXCEPT !.slipped = IF Nic!At("idle") THEN {} ELSE @ \cup {i}]
  BY DEF Nic!EjectLate, Nic!RemoveNIC
<1>2. /\ nicOp' \in NicOps /\ nicOp'.step = nicOp.step /\ nicOp'.target = nicOp.target /\ nicOp'.n = nicOp.n
      /\ nicOp'.seen = nicOp.seen /\ nicOp'.held = nicOp.held
      /\ nicOp.step # "idle" => nicOp'.slipped = nicOp.slipped \cup {i}
  BY <1>1 DEF NicInv, NicTypes, NicOps, Nic!At
<1>3. nicLive' = nicLive \ {i} /\ nicListed' = nicListed \ {i}
  BY <1>1, NicRemoved
<1>4. NicTypes'
  BY <1>1, <1>2, NicRemoved DEF NicInv, NicTypes
<1>5. NicDoubt'
  BY <1>1, NicRemoved, NicDoubtKept
<1>6. nicOp.step # "idle" => nicLive \cup nicOp.slipped \subseteq nicLive' \cup nicOp'.slipped
  BY <1>2, <1>3
<1>7. ASSUME nicOp.step # "idle", NEW n, Serves(n)
      PROVE  nicVm' => Nic!Slots(n) \subseteq nicLive' \cup nicOp'.slipped
  BY <1>1, <1>6, <1>7 DEF Serves
<1>8. NicAt
  BY DEF NicInv
<1>9. nicOp.step = "sweepLive" => NicSweeps'
  BY <1>1, <1>2, <1>3, <1>6, <1>8 DEF NicAt, NicSweeps
<1>10. nicOp.step # "idle" => /\ Serves(nicNics) => Serves(nicNics)'
                              /\ Serves(nicNics + 1) => Serves(nicNics + 1)'
                              /\ Serves(nicOp.target) => Serves(nicOp.target)'
  BY <1>1, <1>2, <1>7 DEF Serves
<1>11. NicAgrees /\ nicOp.step # "idle" => NicAgrees'
  BY <1>1, <1>2, <1>3, <1>10 DEF NicAgrees
<1>12. NicGrows /\ nicOp.step # "idle" => NicGrows'
  BY <1>1, <1>2, <1>3, <1>10 DEF NicGrows
<1>13. NicAt'
  BY SMTT(30), <1>1, <1>2, <1>3, <1>8, <1>9, <1>10, <1>11, <1>12 DEF NicAt
<1> QED
  BY <1>4, <1>5, <1>13 DEF NicInv

LEMMA NicVMExit ==
    ASSUME NicInv, Nic!VMExit
    PROVE  NicInv'
<1>1. /\ nicVm' = FALSE /\ nicLive' = {} /\ nicListed' = {} /\ nicLate' = {}
      /\ UNCHANGED <<nicNics, nicAlloc, nicOp>>
  BY DEF Nic!VMExit
<1>2. NicTypes'
  BY <1>1 DEF NicInv, NicTypes
<1>3. NicDoubt'
  BY <1>1, NicDoubtKept
<1>4. NicAt
  BY DEF NicInv
<1>5. NicSweeps => NicSweeps'
  BY <1>1 DEF NicSweeps
<1>6. (NicAgrees => NicAgrees') /\ (NicGrows => NicGrows')
  BY <1>1 DEF NicAgrees, NicGrows, Serves
<1>7. NicAt'
  BY <1>1, <1>4, <1>5, <1>6 DEF NicAt, Serves
<1> QED
  BY <1>2, <1>3, <1>7 DEF NicInv

\* A start recovers the recorded slots, so nothing is in doubt.
LEMMA NicVMStart ==
    ASSUME NicInv, Nic!VMStart
    PROVE  NicInv'
<1>1. /\ nicOp.step = "idle" /\ nicLive' = Nic!Slots(nicNics) /\ nicListed' = Nic!Slots(nicNics)
      /\ UNCHANGED <<nicNics, nicLate, nicOp>>
  BY DEF Nic!VMStart, Nic!At
<1>2. Nic!Slots(nicNics) \subseteq nicAlloc' /\ nicAlloc' \subseteq nicAlloc \cup Nic!Slots(nicNics)
  BY DEF Nic!VMStart
<1>3. /\ nicNics \in 0..MaxNICs /\ Nic!Slots(nicNics) \subseteq AllSlots
      /\ \A i \in AllSlots : i \in Int /\ (i < nicNics => i \in Nic!Slots(nicNics))
      /\ \A i \in Nic!Slots(nicNics) : i <= nicNics
  BY SMTT(30), GuestAssumption DEF NicInv, NicTypes, AllSlots, Nic!Slots
<1>4. \A i \in nicAlloc : i \in AllSlots /\ i <= nicNics
  <2>1. nicAlloc \subseteq Nic!Slots(nicNics + 1)
    BY DEF NicInv, NicDoubt, Nic!OneSlotInDoubt
  <2> QED
    BY SMTT(30), <1>3, <2>1, GuestAssumption DEF Nic!Slots, AllSlots
<1>5. NicDoubt'
  <2>1. \A i \in AllSlots : i + 1 < nicNics => i \in nicAlloc'
    BY SMTT(30), <1>2, <1>3
  <2>2. \A i \in nicAlloc' \cup nicListed' : i \in AllSlots /\ i <= nicNics
    BY <1>1, <1>2, <1>3, <1>4
  <2> QED
    BY <1>1, <1>2, <1>3, <2>1, <2>2, NicDoubtHolds
<1>6. NicTypes'
  BY <1>1, <1>2, <1>3 DEF NicInv, NicTypes
<1>7. NicAt'
  BY <1>1 DEF NicAt
<1> QED
  BY <1>5, <1>6, <1>7 DEF NicInv

LEMMA NicNext ==
    ASSUME NicInv, Nic!Next
    PROVE  NicInv'
<1>1. ASSUME NEW i \in AllSlots, Nic!SweepLiveFailed(i)
      PROVE  NicInv'
  BY <1>1, NicSweepLiveFailed DEF Nic!SweepLiveFailed
<1>2. ASSUME Nic!EjectFailed
      PROVE  NicInv'
  BY <1>2, NicSweepLiveFailed DEF Nic!EjectFailed
<1>3. ASSUME Nic!VMGone \/ Nic!Done \/ Nic!UnconfigureFailed \/ Nic!Crash
      PROVE  NicInv'
  BY <1>3, NicStops DEF Nic!VMGone, Nic!Done, Nic!UnconfigureFailed, Nic!Crash
<1>4. CASE \E n \in 0..MaxNICs : Nic!Begin(n)
  BY <1>4, NicBegin
<1>5. CASE \E i \in Nic!Slots(MaxNICs) : Nic!SweepLive(i) \/ Nic!SweepLiveFailed(i) \/ Nic!EjectLate(i)
  BY <1>1, <1>5, NicSweepLive, NicEjectLate DEF AllSlots
<1>6. CASE \/ Nic!SweepAlloc \/ Nic!SweepAllocFailed \/ Nic!Reconciled \/ Nic!Loop
           \/ Nic!Allocate \/ Nic!AllocateFailed \/ Nic!AddNIC \/ Nic!AddNICFailed \/ Nic!AddNICUnknown
           \/ Nic!AddNICGone \/ Nic!Configure \/ Nic!ConfigureFailed
  BY <1>6, NicSweepAlloc, NicSweepAllocFailed, NicReconciled, NicLoop, NicAllocate, NicAllocateFailed,
     NicAddNIC, NicConfigure
<1>7. CASE \/ Nic!CommitAdd \/ Nic!CommitAddFailed \/ Nic!rollbackAddedNIC \/ Nic!rollbackFailed
           \/ Nic!Unconfigure \/ Nic!Eject \/ Nic!NotListed \/ Nic!Release \/ Nic!ReleaseFailed
           \/ Nic!CommitRemove \/ Nic!CommitRemoveFailed \/ Nic!VMExit \/ Nic!VMStart
  BY <1>7, NicCommitAdd, NicRollback, NicUnconfigure, NicEject, NicRelease, NicCommitRemove, NicVMExit,
     NicVMStart
<1> QED
  BY <1>2, <1>3, <1>4, <1>5, <1>6, <1>7 DEF Nic!Next

\* A successful resize leaves record, provider and VM in agreement, and any
\* other leaves at most one slot in doubt, for any number of slots and failures
\* (core/sandbox_network.go).
THEOREM ResizesAreRepairable == GuestSpec => []ResizeIsRepairable
<1> DEFINE Inv == focus = "nics" => NicInv
<1>1. GuestInit => Inv
  BY NicInitially DEF GuestInit
<1>2. Inv /\ [GuestNext]_guestVars => Inv'
  <2> SUFFICES ASSUME Inv, [GuestNext]_guestVars, focus' = "nics"
               PROVE  NicInv'
    OBVIOUS
  <2>1. CASE NicStep
    BY <2>1, NicNext DEF NicStep
  <2>2. CASE DevicesStep \/ AgentStep
    BY <2>2 DEF DevicesStep, AgentStep
  <2>3. CASE UNCHANGED guestVars
    <3>1. UNCHANGED <<focus, nicNics, nicAlloc, nicLive, nicListed, nicLate, nicVm, nicOp>>
      BY <2>3 DEF guestVars, nicVars
    <3>2. NicInv /\ UNCHANGED Nic!world /\ nicOp' \in NicOps
      BY ZenonT(30), <3>1 DEF Nic!world, NicInv, NicTypes
    <3>3. NicAt'
      BY ZenonT(30), <3>1, <3>2 DEF NicInv, NicAt, NicSweeps, NicAgrees, NicGrows, Serves
    <3> QED
      BY <3>2, <3>3, NicGoesOn
  <2> QED
    BY <2>1, <2>2, <2>3 DEF GuestNext
<1>3. Inv => ResizeIsRepairable
  BY NicRepairable DEF ResizeIsRepairable
<1> QED
  BY <1>1, <1>2, <1>3, PTL DEF GuestSpec

-----------------------------------------------------------------------------
(* Devices: an attach looks before it asks, and what it found cannot become *)
(* false, because configuration and device tree only shrink in between.    *)

DeviceOps ==
    [step : {"idle", "look", "request", "poll", "ok", "error"}, call : {"none", "attach", "detach"},
     name : SUBSET Names, resource : SUBSET Resources]

DeviceTypes ==
    /\ devListed \in [Names -> SUBSET Resources] /\ devTree \subseteq Names /\ devAsked \subseteq devTree
    /\ devOp \in DeviceOps /\ \A m, n \in devOp.name : m = n

DeviceUse == \A m, n \in Names : m # n => devListed[m] \cap devListed[n] = {}

\* What an attach knows before its request and once it succeeded.
DeviceAttach ==
    devOp.call = "attach" =>
        /\ devOp.step # "poll"
        /\ devOp.step \in {"look", "request"} => devOp.resource # {}
        /\ devOp.step = "request" => /\ \A n \in devOp.name : devListed[n] = {}
                                     /\ \A m \in Names : devListed[m] \cap devOp.resource = {}
        /\ devOp.step = "ok" /\ devVm =>
            \A n \in devOp.name : n \in devTree \ devAsked /\ devListed[n] = devOp.resource

DeviceDetach == devOp.call = "detach" /\ devOp.step = "ok" => devOp.name \cap devTree = {}

DeviceInv == DeviceTypes /\ DeviceUse /\ DeviceAttach /\ DeviceDetach

LEMMA DeviceReports == DeviceInv => Devices!ReportsAreTrue
  BY DEF DeviceInv, DeviceUse, DeviceAttach, DeviceDetach, Devices!ReportsAreTrue

LEMMA DeviceInitially == Devices!Init => DeviceInv
  BY SMTT(30) DEF Devices!Init, Devices!NoDevices, Devices!Idle, DeviceInv, DeviceTypes, DeviceUse, DeviceAttach,
         DeviceDetach, DeviceOps

LEMMA DeviceGoto ==
    ASSUME DeviceInv, NEW step \in {"request", "poll", "ok", "error"}, Devices!Goto(step)
    PROVE  /\ devOp' \in DeviceOps /\ devOp'.step = step /\ devOp'.call = devOp.call
           /\ devOp'.name = devOp.name /\ devOp'.resource = devOp.resource
  BY DEF DeviceInv, DeviceTypes, DeviceOps, Devices!Goto

\* A call starts, or one that ended returns.
LEMMA DeviceCalls ==
    ASSUME DeviceInv, NEW n \in Names,
           Devices!Return \/ Devices!Detach(n) \/ \E r \in Resources : Devices!Attach(n, r)
    PROVE  DeviceInv'
<1>1. UNCHANGED <<devListed, devTree, devAsked, devVm>>
  BY DEF Devices!Return, Devices!Detach, Devices!Attach
<1>2. /\ devOp' \in DeviceOps /\ (\A k, m \in devOp'.name : k = m) /\ devOp'.step \in {"idle", "look"}
      /\ devOp'.call = "attach" => devOp'.resource # {}
  BY SMTT(30) DEF Devices!Return, Devices!Detach, Devices!Attach, Devices!Idle, Devices!Call, DeviceOps
<1> QED
  BY <1>1, <1>2 DEF DeviceInv, DeviceTypes, DeviceUse, DeviceAttach, DeviceDetach

LEMMA DeviceLook ==
    ASSUME DeviceInv, NEW n \in Names, Devices!Look(n)
    PROVE  DeviceInv'
<1>1. /\ UNCHANGED <<devListed, devTree, devAsked, devVm>> /\ devOp.step = "look" /\ n \in devOp.name
      /\ \/ Devices!Goto("error")
         \/ /\ Devices!Goto("request")
            /\ devOp.call = "attach" =>
                devListed[n] = {} /\ \A m \in Names : devListed[m] \cap devOp.resource = {}
  BY DEF Devices!Look
<1>2. devOp.name = {n}
  BY <1>1 DEF DeviceInv, DeviceTypes
<1>3. /\ devOp' \in DeviceOps /\ devOp'.call = devOp.call /\ devOp'.name = {n}
      /\ devOp'.resource = devOp.resource
      /\ \/ devOp'.step = "error"
         \/ /\ devOp'.step = "request"
            /\ devOp.call = "attach" =>
                devListed[n] = {} /\ \A m \in Names : devListed[m] \cap devOp.resource = {}
  BY <1>1, <1>2, DeviceGoto
<1>4. devOp.call = "attach" => devOp.resource # {}
  BY <1>1 DEF DeviceInv, DeviceAttach
<1> QED
  BY <1>1, <1>3, <1>4 DEF DeviceInv, DeviceTypes, DeviceUse, DeviceAttach, DeviceDetach

\* The device of an attach appears in tree and configuration.
LEMMA DeviceTaken ==
    ASSUME DeviceInv, NEW n \in Names, devOp.step = "request", devOp.call = "attach", n \in devOp.name,
           n \notin devTree, devListed' = [devListed EXCEPT ![n] = devOp.resource],
           devTree' = devTree \cup {n}, UNCHANGED <<devAsked, devVm>>,
           NEW step \in {"ok", "error"}, Devices!Goto(step)
    PROVE  DeviceInv'
<1>1. devOp.name = {n} /\ devOp \in DeviceOps /\ devListed \in [Names -> SUBSET Resources]
  BY DEF DeviceInv, DeviceTypes
<1>2. /\ devOp' \in DeviceOps /\ devOp'.call = "attach" /\ devOp'.name = {n}
      /\ devOp'.resource = devOp.resource /\ devOp'.step \in {"ok", "error"}
  BY <1>1, DeviceGoto
<1>3. devListed' \in [Names -> SUBSET Resources] /\ devListed'[n] = devOp.resource
      /\ \A m \in Names \ {n} : devListed'[m] = devListed[m]
  BY <1>1 DEF DeviceOps
<1>4. \A m \in Names : devListed[m] \cap devOp.resource = {}
  BY DEF DeviceInv, DeviceAttach
<1>5. DeviceTypes'
  BY <1>2, <1>3 DEF DeviceInv, DeviceTypes
<1>6. DeviceUse'
  BY <1>3, <1>4 DEF DeviceInv, DeviceUse
<1>7. DeviceAttach' /\ DeviceDetach'
  BY SMTT(30), <1>2, <1>3 DEF DeviceInv, DeviceTypes, DeviceAttach, DeviceDetach
<1> QED
  BY <1>5, <1>6, <1>7 DEF DeviceInv

LEMMA DeviceAdd ==
    ASSUME DeviceInv, NEW n \in Names, Devices!Add(n) \/ Devices!AddFailed(n)
    PROVE  DeviceInv'
<1>1. CASE Devices!Add(n)
  BY <1>1, DeviceTaken DEF Devices!Add
<1>2. CASE Devices!AddFailed(n)
  <2>1. /\ devOp.step = "request" /\ devOp.call = "attach" /\ n \in devOp.name
        /\ UNCHANGED <<devAsked, devVm>>
    BY <1>2 DEF Devices!AddFailed
  <2>2. PICK took, readable \in BOOLEAN :
            /\ took => devVm /\ n \notin devTree
            /\ devListed' = IF took THEN [devListed EXCEPT ![n] = devOp.resource] ELSE devListed
            /\ devTree' = IF took THEN devTree \cup {n} ELSE devTree
            /\ Devices!Goto(IF readable /\ devVm /\ devListed'[n] = devOp.resource THEN "ok" ELSE "error")
    BY <1>2 DEF Devices!AddFailed
  <2>3. CASE took
    <3>1. /\ n \notin devTree /\ devTree' = devTree \cup {n}
          /\ devListed' = [devListed EXCEPT ![n] = devOp.resource]
      BY <2>2, <2>3
    <3>2. Devices!Goto("ok") \/ Devices!Goto("error")
      BY <2>2
    <3> QED
      BY <2>1, <3>1, <3>2, DeviceTaken
  <2>4. CASE ~took
    <3>1. UNCHANGED <<devListed, devTree>>
      BY <2>2, <2>4
    <3>2. devListed[n] = {} /\ devOp.resource # {}
      BY <2>1 DEF DeviceInv, DeviceAttach
    <3>3. Devices!Goto("error")
      BY <2>2, <3>1, <3>2
    <3>4. /\ devOp' \in DeviceOps /\ devOp'.step = "error" /\ devOp'.name = devOp.name
      BY <3>3, DeviceGoto
    <3> QED
      BY SMTT(30), <2>1, <3>1, <3>4 DEF DeviceInv, DeviceTypes, DeviceUse, DeviceAttach, DeviceDetach
  <2> QED
    BY <2>3, <2>4
<1> QED
  BY <1>1, <1>2

\* The configuration loses a device, or not.
LEMMA DeviceUnlisted ==
    ASSUME DeviceInv, NEW n \in Names, devListed' \in {devListed, [devListed EXCEPT ![n] = {}]}
    PROVE  /\ devListed' \in [Names -> SUBSET Resources]
           /\ \A m \in Names : devListed'[m] \subseteq devListed[m]
           /\ DeviceUse'
<1>1. devListed \in [Names -> SUBSET Resources]
  BY DEF DeviceInv, DeviceTypes
<1>2. devListed' \in [Names -> SUBSET Resources] /\ \A m \in Names : devListed'[m] \subseteq devListed[m]
  BY <1>1
<1>3. DeviceUse'
  BY <1>2 DEF DeviceInv, DeviceUse
<1> QED
  BY <1>2, <1>3

LEMMA DeviceRequest ==
    ASSUME DeviceInv, NEW n \in Names, Devices!Request(n) \/ Devices!RequestFailed(n)
    PROVE  DeviceInv'
<1>1. /\ devOp.step = "request" /\ devOp.call = "detach" /\ n \in devOp.name /\ UNCHANGED <<devTree, devVm>>
      /\ devListed' \in {devListed, [devListed EXCEPT ![n] = {}]}
      /\ devAsked' \in {devAsked, devAsked \cup ({n} \cap devTree)}
  BY DEF Devices!Request, Devices!RequestFailed
<1>2. Devices!Goto("poll") \/ Devices!Goto("error") \/ (Devices!Goto("ok") /\ n \notin devTree)
  BY DEF Devices!Request, Devices!RequestFailed
<1>3. /\ devOp' \in DeviceOps /\ devOp'.call = "detach" /\ devOp'.name = devOp.name
      /\ devOp'.step \in {"poll", "error"} \/ (devOp'.step = "ok" /\ n \notin devTree)
  BY <1>1, <1>2, DeviceGoto
<1>4. devOp.name = {n}
  BY <1>1 DEF DeviceInv, DeviceTypes
<1>5. DeviceTypes'
  BY <1>1, <1>3, DeviceUnlisted DEF DeviceInv, DeviceTypes
<1>6. DeviceAttach' /\ DeviceDetach'
  BY <1>1, <1>3, <1>4 DEF DeviceAttach, DeviceDetach
<1> QED
  BY <1>1, <1>5, <1>6, DeviceUnlisted DEF DeviceInv

LEMMA DevicePoll ==
    ASSUME DeviceInv, NEW n \in Names, Devices!Poll(n) \/ Devices!PollFailed
    PROVE  DeviceInv'
<1>1. /\ devOp.step = "poll" /\ UNCHANGED <<devListed, devTree, devAsked, devVm>>
      /\ Devices!Goto("error") \/ (Devices!Goto("ok") /\ n \in devOp.name /\ n \notin devTree)
  BY DEF Devices!Poll, Devices!PollFailed
<1>2. /\ devOp' \in DeviceOps /\ devOp'.name = devOp.name /\ devOp'.call = devOp.call
      /\ devOp'.step = "error" \/ (devOp'.step = "ok" /\ n \in devOp.name /\ n \notin devTree)
  BY <1>1, DeviceGoto
<1>3. n \in devOp.name => devOp.name = {n}
  BY DEF DeviceInv, DeviceTypes
<1>4. DeviceDetach'
  BY <1>1, <1>2, <1>3 DEF DeviceDetach
<1>5. DeviceAttach'
  BY <1>1, <1>2 DEF DeviceInv, DeviceAttach
<1> QED
  BY <1>1, <1>2, <1>4, <1>5 DEF DeviceInv, DeviceTypes, DeviceUse

\* The device that goes was asked to go, so no attach counts on it.
LEMMA DeviceEject ==
    ASSUME DeviceInv, NEW n \in Names, Devices!Eject(n)
    PROVE  DeviceInv'
<1>1. /\ n \in devAsked /\ devTree' = devTree \ {n} /\ devAsked' = devAsked \ {n}
      /\ devListed' = [devListed EXCEPT ![n] = {}] /\ UNCHANGED <<devVm, devOp>>
  BY DEF Devices!Eject
<1>2. devListed' \in [Names -> SUBSET Resources] /\ \A m \in Names \ {n} : devListed'[m] = devListed[m]
  BY <1>1 DEF DeviceInv, DeviceTypes
<1>3. devListed'[n] = {}
  BY <1>1 DEF DeviceInv, DeviceTypes
<1>4. DeviceTypes' /\ DeviceUse'
  BY <1>1, <1>2, <1>3 DEF DeviceInv, DeviceTypes, DeviceUse
<1>5. DeviceDetach'
  BY <1>1 DEF DeviceInv, DeviceDetach
<1>6. devOp.name \subseteq Names
  BY DEF DeviceInv, DeviceTypes, DeviceOps
<1>7. DeviceAttach'
  BY SMTT(30), <1>1, <1>2, <1>3, <1>6 DEF DeviceInv, DeviceAttach
<1> QED
  BY <1>4, <1>5, <1>7 DEF DeviceInv

LEMMA DeviceRuns ==
    ASSUME DeviceInv, Devices!VMExit \/ Devices!VMStart
    PROVE  DeviceInv'
<1>1. CASE Devices!VMExit
  <2>1. /\ devVm' = FALSE /\ devListed' = [n \in Names |-> {}] /\ devTree' = {} /\ devAsked' = {}
        /\ UNCHANGED devOp
    BY <1>1 DEF Devices!VMExit, Devices!NoDevices
  <2>2. DeviceTypes' /\ DeviceUse' /\ DeviceDetach'
    BY <2>1 DEF DeviceInv, DeviceTypes, DeviceUse, DeviceDetach
  <2>3. devOp.name \subseteq Names
    BY DEF DeviceInv, DeviceTypes, DeviceOps
  <2>4. DeviceAttach'
    BY <2>1, <2>3 DEF DeviceInv, DeviceAttach
  <2> QED
    BY <2>2, <2>4 DEF DeviceInv
<1>2. CASE Devices!VMStart
  BY <1>2 DEF Devices!VMStart, DeviceInv, DeviceTypes, DeviceUse, DeviceAttach, DeviceDetach
<1> QED
  BY <1>1, <1>2

LEMMA DeviceNext ==
    ASSUME DeviceInv, Devices!Next
    PROVE  DeviceInv'
<1>1. ASSUME NEW n \in Names,
             \/ Devices!Detach(n) \/ Devices!Look(n) \/ Devices!Add(n) \/ Devices!AddFailed(n)
             \/ Devices!Request(n) \/ Devices!RequestFailed(n) \/ Devices!Poll(n) \/ Devices!Eject(n)
             \/ \E r \in Resources : Devices!Attach(n, r)
      PROVE  DeviceInv'
  BY <1>1, DeviceCalls, DeviceLook, DeviceAdd, DeviceRequest, DevicePoll, DeviceEject
<1>2. ASSUME Devices!PollFailed \/ Devices!Return
      PROVE  DeviceInv'
  <2>1. CASE Devices!Return
    <3>1. devOp' \in DeviceOps /\ devOp'.name = {} /\ devOp'.step = "idle" /\ devOp'.call = "none"
      BY <2>1 DEF Devices!Return, Devices!Idle, DeviceOps
    <3> QED
      BY <2>1, <3>1 DEF Devices!Return, DeviceInv, DeviceTypes, DeviceUse, DeviceAttach, DeviceDetach
  <2>2. CASE Devices!PollFailed
    <3>1. UNCHANGED <<devListed, devTree, devAsked, devVm>> /\ Devices!Goto("error")
      BY <2>2 DEF Devices!PollFailed
    <3>2. devOp' \in DeviceOps /\ devOp'.name = devOp.name /\ devOp'.step = "error"
      BY <3>1, DeviceGoto
    <3> QED
      BY <3>1, <3>2 DEF DeviceInv, DeviceTypes, DeviceUse, DeviceAttach, DeviceDetach
  <2> QED
    BY <1>2, <2>1, <2>2
<1> QED
  BY <1>1, <1>2, DeviceRuns DEF Devices!Next

\* What attach and detach report holds in the VM, whatever replies were lost
\* and however late a guest ejects a device (sandbox_devices.go, devices.go).
THEOREM DeviceReportsAreTrue == GuestSpec => []ReportsAreTrue
<1> DEFINE Inv == focus = "devices" => DeviceInv
<1>1. GuestInit => Inv
  BY DeviceInitially DEF GuestInit
<1>2. Inv /\ [GuestNext]_guestVars => Inv'
  <2> SUFFICES ASSUME Inv, [GuestNext]_guestVars, focus' = "devices"
               PROVE  DeviceInv'
    OBVIOUS
  <2>1. CASE DevicesStep
    BY <2>1, DeviceNext DEF DevicesStep
  <2>2. CASE NicStep \/ AgentStep
    BY <2>2 DEF NicStep, AgentStep
  <2>3. CASE UNCHANGED guestVars
    <3>1. UNCHANGED <<focus, devListed, devTree, devAsked, devVm, devOp>>
      BY <2>3 DEF guestVars, devVars
    <3> QED
      BY <3>1 DEF DeviceInv, DeviceTypes, DeviceUse, DeviceAttach, DeviceDetach
  <2> QED
    BY <2>1, <2>2, <2>3 DEF GuestNext
<1>3. Inv => ReportsAreTrue
  BY DeviceReports DEF ReportsAreTrue
<1> QED
  BY <1>1, <1>2, <1>3, PTL DEF GuestSpec

-----------------------------------------------------------------------------

(* The guest agent.  Whoever signals a job holds its gate, so the job is not *)
(* reaped meanwhile; an observer's batch ends with the newest frame unless   *)
(* the version has moved on since.                                           *)

AgStates == {"new", "running", "zombie", "held", "reaped", "finished"}
AgJobs == [state : AgStates, pid : Pids \cup {0}, exited : BOOLEAN, running : BOOLEAN,
           low : Nat, cursor : Nat, version : Nat]
AgStreams == [step : {"idle", "send", "wait", "done"}, job : SUBSET Jobs, attach : BOOLEAN, after : Nat,
              seen : SUBSET Nat, gaps : SUBSET Nat, batch : SUBSET Nat, alive : BOOLEAN, armed : Nat]

AgTypes ==
    /\ agTable \subseteq Jobs /\ agJob \in [Jobs -> AgJobs] /\ DOMAIN agGate = Jobs
    /\ agGate = [j \in Jobs |-> agGate[j]]
    /\ agCaller \in [Callers -> [step : {"idle", "gate", "kill"}, job : SUBSET Jobs]]
    /\ agObs \in [Observers -> AgStreams] /\ agClosed \in BOOLEAN
    /\ agClose \in [step : {"idle", "kill", "done"}, jobs : SUBSET Jobs]

AgJobFine(j) ==
    /\ ~agJob[j].exited => agJob[j].state \in {"new", "running", "zombie"}
    /\ agJob[j].running <=> agJob[j].state \notin {"new", "finished"}
    /\ agJob[j].running => j \in agTable
    /\ j \in agTable => agJob[j].state # "new"
    /\ agJob[j].state \in {"running", "zombie", "held"} => agJob[j].pid \notin agForeign
    /\ agJob[j].low >= 1 /\ (agJob[j].low <= agJob[j].cursor \/ (agJob[j].cursor = 0 /\ agJob[j].low = 1))

AgCallerFine(c) ==
    \A j \in agCaller[c].job :
        /\ agCaller[c].job = {j} /\ agJob[j].state # "new"
        /\ agCaller[c].step = "kill" => agGate[j] = {c} /\ agJob[j].state \in {"running", "zombie"}

\* The batch of stream s: the frames after s.after that the ring kept, up to c.
AgBatch(s, c) ==
    /\ \A n \in s.batch : s.after < n /\ n <= c /\ \A m \in Nat : n <= m /\ m <= c => m \in s.batch
    /\ s.after < c => c \in s.batch
\* What stream s knows of job r when it has been served up to frame c.
AgKnows(s, r, c) ==
    /\ s.after <= c /\ c <= r.cursor /\ s.armed <= r.version
    /\ s.armed = r.version => c = r.cursor /\ (s.alive <=> r.running)
    /\ ~s.alive => c = r.cursor /\ ~r.running

AgStream(s, r) ==
    /\ s.seen \cup s.gaps = 1..s.after /\ s.after <= r.cursor
    /\ s.step = "send" => \E c \in Nat : AgBatch(s, c) /\ AgKnows(s, r, c)
    /\ s.step = "wait" => s.alive /\ AgKnows(s, r, s.after)
    /\ s.step = "done" /\ s.attach => s.after = r.cursor /\ ~r.running
AgObsFine(o) ==
    /\ agObs[o].step # "idle" => agObs[o].job # {}
    /\ \A j \in agObs[o].job :
        agObs[o].job = {j} /\ agJob[j].state # "new" /\ AgStream(agObs[o], agJob[j])

AgCloseFine ==
    /\ agClose.step # "idle" => agClosed
    /\ agClose.step = "done" => \A j \in Jobs : agJob[j].state \in {"new", "finished"}

AgInv ==
    /\ AgTypes /\ AgCloseFine
    /\ \A j \in Jobs : AgJobFine(j)
    /\ \A c \in Callers : AgCallerFine(c)
    /\ \A o \in Observers : AgObsFine(o)
-----------------------------------------------------------------------------
LEMMA AgInit == Agent!Init => AgInv
<1> SUFFICES ASSUME Agent!Init PROVE AgInv
  OBVIOUS
<1> USE DEF Agent!Init
<1>1. Agent!NoJob \in AgJobs /\ Agent!Resting \in [step : {"idle", "gate", "kill"}, job : SUBSET Jobs]
      /\ Agent!Absent \in AgStreams
  BY DEF Agent!NoJob, Agent!Resting, Agent!Absent, AgJobs, AgStates, AgStreams
<1>2. AgTypes
  BY <1>1 DEF AgTypes
<1>3. \A j \in Jobs : AgJobFine(j)
  BY SMTT(30) DEF AgJobFine, Agent!NoJob
<1>4. \A c \in Callers : AgCallerFine(c)
  BY DEF AgCallerFine, Agent!Resting
<1>5. \A o \in Observers : AgObsFine(o)
  BY DEF AgObsFine, Agent!Absent
<1>6. AgCloseFine
  BY DEF AgCloseFine
<1> QED
  BY <1>2, <1>3, <1>4, <1>5, <1>6 DEF AgInv

\* A job of state s never runs again once it has ended.
AgForward(r, q) ==
    /\ q.state # "new" /\ q.cursor >= r.cursor
    /\ ~r.running => q.cursor = r.cursor /\ ~q.running
    /\ \/ q.version = r.version /\ q.cursor = r.cursor /\ q.running = r.running
       \/ q.version > r.version

LEMMA AgStreamStays ==
    ASSUME NEW s \in AgStreams, NEW r \in AgJobs, NEW q \in AgJobs, AgStream(s, r), AgForward(r, q)
    PROVE  AgStream(s, q)
<1> USE DEF AgStreams, AgJobs
<1>1. ASSUME NEW c \in Nat, AgKnows(s, r, c) PROVE AgKnows(s, q, c)
  BY SMTT(30), <1>1 DEF AgKnows, AgForward
<1>2. s.step = "send" => \E c \in Nat : AgBatch(s, c) /\ AgKnows(s, q, c)
  BY <1>1 DEF AgStream
<1>3. s.step = "wait" => s.alive /\ AgKnows(s, q, s.after)
  BY <1>1 DEF AgStream
<1>4. s.after <= q.cursor /\ (s.step = "done" /\ s.attach => s.after = q.cursor /\ ~q.running)
  BY SMTT(30) DEF AgStream, AgForward
<1> QED
  BY <1>2, <1>3, <1>4 DEF AgStream

\* Job j advances, and nothing but jobs and the table changes.
LEMMA AgJobMoves ==
    ASSUME AgInv, NEW j \in Jobs, NEW q \in AgJobs, agJob' = [agJob EXCEPT ![j] = q],
           agJob[j].state # "new", AgForward(agJob[j], q), agObs' = agObs
    PROVE  /\ agJob' \in [Jobs -> AgJobs] /\ agJob'[j] = q /\ \A k \in Jobs \ {j} : agJob'[k] = agJob[k]
           /\ \A o \in Observers : AgObsFine(o)'
<1>1. agJob' \in [Jobs -> AgJobs] /\ agJob'[j] = q /\ \A k \in Jobs \ {j} : agJob'[k] = agJob[k]
  BY DEF AgInv, AgTypes
<1>2. ASSUME NEW o \in Observers, NEW k \in agObs[o].job
      PROVE  agObs[o].job = {k} /\ agJob'[k].state # "new" /\ AgStream(agObs[o], agJob'[k])
  <2>1. agObs[o] \in AgStreams /\ k \in Jobs /\ agJob[k] \in AgJobs
    BY DEF AgInv, AgTypes, AgStreams
  <2>2. agObs[o].job = {k} /\ agJob[k].state # "new" /\ AgStream(agObs[o], agJob[k])
    BY DEF AgInv, AgObsFine
  <2>3. CASE k = j
    BY <1>1, <2>1, <2>2, <2>3, AgStreamStays DEF AgForward
  <2> QED
    BY <1>1, <2>1, <2>2, <2>3
<1>3. \A o \in Observers : agObs[o].step # "idle" => agObs[o].job # {}
  BY DEF AgInv, AgObsFine
<1> QED
  BY <1>1, <1>2, <1>3 DEF AgObsFine

\* Job r becomes q, both of a command that is not over.
AgNewJob(r, q) ==
    /\ r.state \notin {"new", "finished"} /\ AgForward(r, q)
    /\ ~q.exited => q.state \in {"running", "zombie"}
    /\ q.running <=> q.state # "finished"
    /\ q.state \in {"running", "zombie", "held"} => r.state \in {"running", "zombie", "held"} /\ q.pid = r.pid
    /\ q.low >= 1 /\ (q.low <= q.cursor \/ (q.cursor = 0 /\ q.low = 1))
\* A caller may let go of a gate, or keep it.
AgNewCalls(j, q) ==
    /\ UNCHANGED <<agTable, agForeign, agObs, agClosed>>
    /\ agGate' = [k \in Jobs |-> agGate'[k]]
    /\ agCaller' \in [Callers -> [step : {"idle", "gate", "kill"}, job : SUBSET Jobs]]
    /\ agClose' \in [step : {"idle", "kill", "done"}, jobs : SUBSET Jobs] /\ agClose'.step = agClose.step
    /\ \A c \in Callers : \A k \in agCaller'[c].job :
        /\ agCaller'[c] = agCaller[c]
        /\ agCaller[c].step = "kill" => agGate'[k] = {c} /\ (k = j => q.state \in {"running", "zombie"})

LEMMA AgJobStep ==
    ASSUME AgInv, NEW j \in Jobs, NEW q \in AgJobs, agJob' = [agJob EXCEPT ![j] = q],
           AgNewJob(agJob[j], q), AgNewCalls(j, q)
    PROVE  AgInv'
<1> USE DEF AgNewJob, AgNewCalls
<1>1. /\ agJob' \in [Jobs -> AgJobs] /\ agJob'[j] = q /\ \A k \in Jobs \ {j} : agJob'[k] = agJob[k]
      /\ \A o \in Observers : AgObsFine(o)'
  BY AgJobMoves
<1>2. AgTypes'
  BY <1>1 DEF AgInv, AgTypes
<1>3. ASSUME NEW k \in Jobs PROVE AgJobFine(k)'
  <2>0. AgJobFine(k)
    BY DEF AgInv
  <2>1. CASE k = j
    BY <1>1, <2>0, <2>1 DEF AgJobFine, AgForward
  <2>2. CASE k # j
    BY <1>1, <2>0, <2>2 DEF AgJobFine
  <2> QED
    BY <2>1, <2>2
<1>4. ASSUME NEW c \in Callers PROVE AgCallerFine(c)'
  <2> SUFFICES ASSUME NEW k \in agCaller'[c].job
               PROVE  /\ agCaller'[c].job = {k} /\ agJob'[k].state # "new"
                      /\ agCaller'[c].step = "kill" => agGate'[k] = {c} /\ agJob'[k].state \in {"running", "zombie"}
    BY DEF AgCallerFine
  <2>1. k \in Jobs
    OBVIOUS
  <2>2. /\ agCaller[c].job = {k} /\ agJob[k].state # "new"
        /\ agCaller[c].step = "kill" => agJob[k].state \in {"running", "zombie"}
    BY DEF AgInv, AgCallerFine
  <2> QED
    BY SMTT(30), <1>1, <2>1, <2>2 DEF AgForward
<1>5. AgCloseFine'
  BY DEF AgInv, AgCloseFine
<1> QED
  BY <1>1, <1>2, <1>3, <1>4, <1>5 DEF AgInv

\* The jobs and the streams stay.
LEMMA AgCallStep ==
    ASSUME AgInv, UNCHANGED <<agTable, agJob, agForeign, agObs>>,
           agGate' = [k \in Jobs |-> agGate'[k]],
           agCaller' \in [Callers -> [step : {"idle", "gate", "kill"}, job : SUBSET Jobs]],
           agClosed' \in BOOLEAN, agClose' \in [step : {"idle", "kill", "done"}, jobs : SUBSET Jobs],
           AgCloseFine', \A c \in Callers : AgCallerFine(c)'
    PROVE  AgInv'
<1>1. AgTypes'
  BY DEF AgInv, AgTypes
<1>2. \A j \in Jobs : AgJobFine(j)'
  BY DEF AgInv, AgJobFine
<1>3. \A o \in Observers : AgObsFine(o)'
  BY DEF AgInv, AgObsFine
<1> QED
  BY <1>1, <1>2, <1>3 DEF AgInv

\* One stream moves, and nothing else.
LEMMA AgObsStep ==
    ASSUME AgInv, NEW o \in Observers, NEW s \in AgStreams, agObs' = [agObs EXCEPT ![o] = s],
           UNCHANGED <<agTable, agJob, agGate, agForeign, agCaller, agClosed, agClose>>,
           s.step # "idle" => s.job # {},
           \A j \in s.job : s.job = {j} /\ agJob[j].state # "new" /\ AgStream(s, agJob[j])
    PROVE  AgInv'
<1>1. AgTypes'
  BY DEF AgInv, AgTypes
<1>2. (\A j \in Jobs : AgJobFine(j)') /\ (\A c \in Callers : AgCallerFine(c)') /\ AgCloseFine'
  BY DEF AgInv, AgJobFine, AgCallerFine, AgCloseFine
<1>3. ASSUME NEW p \in Observers PROVE AgObsFine(p)'
  <2>1. agObs'[p] = IF p = o THEN s ELSE agObs[p]
    BY DEF AgInv, AgTypes
  <2> QED
    BY ZenonT(30), <2>1 DEF AgInv, AgObsFine
<1> QED
  BY <1>1, <1>2, <1>3 DEF AgInv
-----------------------------------------------------------------------------
\* Exit, waitManagedProcess, Reap, append and finish.
LEMMA AgCommand ==
    ASSUME AgInv, NEW j \in Jobs,
           \/ Agent!Exit(j) \/ Agent!waitManagedProcess(j) \/ Agent!Reap(j)
           \/ Agent!append(j) \/ Agent!finish(j)
    PROVE  AgInv'
<1>1. /\ agJob \in [Jobs -> AgJobs] /\ agJob[j] \in AgJobs /\ AgJobFine(j) /\ agGate = [k \in Jobs |-> agGate[k]]
      /\ agCaller \in [Callers -> [step : {"idle", "gate", "kill"}, job : SUBSET Jobs]]
      /\ agClose \in [step : {"idle", "kill", "done"}, jobs : SUBSET Jobs]
  BY DEF AgInv, AgTypes
<1>2. \A c \in Callers : \A k \in agCaller[c].job :
        agCaller[c].step = "kill" => agGate[k] = {c} /\ agJob[k].state \in {"running", "zombie"}
  BY DEF AgInv, AgCallerFine
<1>3. ASSUME NEW state \in {"zombie", "reaped"}, agJob' = [agJob EXCEPT ![j].state = state],
             agJob[j].state = IF state = "zombie" THEN "running" ELSE "held",
             UNCHANGED <<agTable, agGate, agForeign, agCaller, agObs, agClosed, agClose>>
      PROVE  AgInv'
  <2> DEFINE q == [agJob[j] EXCEPT !.state = state]
  <2>1. q \in AgJobs /\ agJob' = [agJob EXCEPT ![j] = q]
    BY <1>1, <1>3 DEF AgJobs, AgStates
  <2>2. /\ q.state = state /\ q.exited = agJob[j].exited /\ q.running = agJob[j].running /\ q.pid = agJob[j].pid
        /\ q.low = agJob[j].low /\ q.cursor = agJob[j].cursor /\ q.version = agJob[j].version
    BY <1>1 DEF AgJobs
  <2>3. AgForward(agJob[j], q)
    BY SMTT(30), <1>1, <1>3, <2>2 DEF AgForward, AgJobs
  <2>4. \A c \in Callers : \A k \in agCaller[c].job :
        agCaller[c].step = "kill" => agGate[k] = {c} /\ (k = j => state \in {"running", "zombie"})
    BY <1>2, <1>3
  <2> HIDE DEF q
  <2>5. AgNewJob(agJob[j], q)
    BY <1>1, <1>3, <2>2, <2>3 DEF AgJobFine, AgNewJob
  <2>6. AgNewCalls(j, q)
    BY <1>1, <1>3, <2>2, <2>4 DEF AgNewCalls
  <2> QED
    BY <2>1, <2>5, <2>6, AgJobStep
<1>4. CASE Agent!Exit(j) \/ Agent!Reap(j)
  BY <1>3, <1>4 DEF Agent!Exit, Agent!Reap
<1>5. CASE Agent!waitManagedProcess(j)
  <2> DEFINE q == [agJob[j] EXCEPT !.state = "held", !.exited = TRUE]
  <2>0. /\ agJob[j].state = "zombie" /\ agGate[j] = {} /\ agGate' = [agGate EXCEPT ![j] = {Agent!Waiter(j)}]
        /\ agJob' = [agJob EXCEPT ![j].state = "held", ![j].exited = TRUE]
        /\ UNCHANGED <<agTable, agForeign, agCaller, agObs, agClosed, agClose>>
    BY <1>5 DEF Agent!waitManagedProcess
  <2>1. q \in AgJobs /\ agJob' = [agJob EXCEPT ![j] = q]
    BY <1>1, <2>0 DEF AgJobs, AgStates
  <2>2. /\ q.state = "held" /\ q.exited /\ q.running = agJob[j].running /\ q.pid = agJob[j].pid
        /\ q.low = agJob[j].low /\ q.cursor = agJob[j].cursor /\ q.version = agJob[j].version
    BY <1>1 DEF AgJobs
  <2>3. AgForward(agJob[j], q)
    BY SMTT(30), <1>1, <2>0, <2>2 DEF AgForward, AgJobs
  <2>4. \A c \in Callers : \A k \in agCaller[c].job :
        agCaller[c].step = "kill" => k # j /\ agGate'[k] = {c}
    <3>1. \A c \in Callers : agCaller[c].job \subseteq Jobs
      BY <1>1
    <3>2. \A k \in Jobs \ {j} : agGate'[k] = agGate[k]
      BY <1>1, <2>0
    <3>3. agGate[j] = {}
      BY <2>0
    <3> QED
      BY ZenonT(30), <1>2, <3>1, <3>2, <3>3
  <2>6. agGate' = [k \in Jobs |-> agGate'[k]]
    BY <1>1, <2>0
  <2> HIDE DEF q
  <2>5. AgNewJob(agJob[j], q)
    BY <1>1, <2>0, <2>2, <2>3 DEF AgJobFine, AgNewJob
  <2>7. AgNewCalls(j, q)
    BY <1>1, <2>0, <2>4, <2>6 DEF AgNewCalls
  <2> QED
    BY <2>1, <2>5, <2>7, AgJobStep
<1>6. CASE Agent!append(j)
  <2> DEFINE c == agJob[j].cursor + 1
             low == IF c - agJob[j].low >= MaxFrames THEN agJob[j].low + 1 ELSE agJob[j].low
             q == [agJob[j] EXCEPT !.cursor = c, !.version = @ + 1, !.low = low]
  <2>0. /\ agJob[j].state \in {"running", "zombie", "held"}
        /\ agJob' = [agJob EXCEPT ![j].cursor = c, ![j].version = @ + 1,
                                  ![j].low = IF c - @ >= MaxFrames THEN @ + 1 ELSE @]
        /\ UNCHANGED <<agTable, agGate, agForeign, agCaller, agObs, agClosed, agClose>>
    BY <1>6 DEF Agent!append
  <2>1. q \in AgJobs /\ agJob' = [agJob EXCEPT ![j] = q]
    BY SMTT(30), <1>1, <2>0 DEF AgJobs
  <2>2. /\ q.state = agJob[j].state /\ q.exited = agJob[j].exited /\ q.running = agJob[j].running
        /\ q.pid = agJob[j].pid /\ q.low = low /\ q.cursor = c /\ q.version = agJob[j].version + 1
    BY <1>1 DEF AgJobs
  <2>3. low >= 1 /\ low <= c
    BY SMTT(30), <1>1, GuestAssumption DEF AgJobs, AgJobFine
  <2> HIDE DEF q, low
  <2>4. agJob[j].running /\ agJob[j].version \in Nat /\ agJob[j].cursor \in Nat
    BY <1>1, <2>0 DEF AgJobFine, AgJobs
  <2>5. AgForward(agJob[j], q)
    BY SMTT(30), <2>0, <2>2, <2>4 DEF AgForward
  <2>6. \A d \in Callers : \A k \in agCaller[d].job :
        agCaller[d].step = "kill" => agGate[k] = {d} /\ (k = j => q.state \in {"running", "zombie"})
    BY <1>2, <2>2
  <2>7. AgNewJob(agJob[j], q)
    BY <1>1, <2>0, <2>2, <2>3, <2>5 DEF AgJobFine, AgNewJob
  <2>8. AgNewCalls(j, q)
    BY <1>1, <2>0, <2>6 DEF AgNewCalls
  <2> QED
    BY <2>1, <2>7, <2>8, AgJobStep
<1>7. CASE Agent!finish(j)
  <2> DEFINE q == [agJob[j] EXCEPT !.state = "finished", !.running = FALSE, !.version = @ + 1]
  <2>0. /\ agJob[j].state = "reaped"
        /\ agJob' = [agJob EXCEPT ![j].state = "finished", ![j].running = FALSE, ![j].version = @ + 1]
        /\ UNCHANGED <<agTable, agGate, agForeign, agCaller, agObs, agClosed, agClose>>
    BY <1>7 DEF Agent!finish
  <2>1. q \in AgJobs /\ agJob' = [agJob EXCEPT ![j] = q]
    BY SMTT(30), <1>1, <2>0 DEF AgJobs, AgStates
  <2>2. /\ q.state = "finished" /\ q.exited = agJob[j].exited /\ q.running = FALSE
        /\ q.low = agJob[j].low /\ q.cursor = agJob[j].cursor /\ q.version = agJob[j].version + 1
    BY <1>1 DEF AgJobs
  <2> HIDE DEF q
  <2>4. agJob[j].version \in Nat /\ agJob[j].cursor \in Nat
    BY <1>1 DEF AgJobs
  <2>5. AgForward(agJob[j], q)
    BY SMTT(30), <2>2, <2>4 DEF AgForward
  <2>6. \A d \in Callers : \A k \in agCaller[d].job : agCaller[d].step = "kill" => agGate[k] = {d} /\ k # j
    BY <1>2, <2>0
  <2>7. AgNewJob(agJob[j], q)
    BY <1>1, <2>0, <2>2, <2>5 DEF AgJobFine, AgNewJob
  <2>8. AgNewCalls(j, q)
    BY <1>1, <2>0, <2>6 DEF AgNewCalls
  <2> QED
    BY <2>1, <2>7, <2>8, AgJobStep
<1> QED
  BY <1>4, <1>5, <1>6, <1>7

LEMMA AgSpawn == ASSUME AgInv, NEW j \in Jobs, NEW pid \in Pids, Agent!spawn(j, pid) PROVE AgInv'
<1> DEFINE q == [Agent!NoJob EXCEPT !.state = "running", !.running = TRUE, !.pid = pid]
<1>1. /\ agJob[j].state = "new" /\ pid \notin Agent!Used /\ ~agClosed /\ agJob' = [agJob EXCEPT ![j] = q]
      /\ UNCHANGED <<agGate, agForeign, agCaller, agObs, agClosed, agClose>>
  BY DEF Agent!spawn
<1>2. PICK keep \in SUBSET agTable : Agent!admit(keep) /\ agTable' = keep \cup {j}
  BY DEF Agent!spawn
<1>3. \A k \in agTable : agJob[k].running => k \in agTable'
  BY <1>2 DEF Agent!admit
<1>4. /\ q \in AgJobs /\ q.state = "running" /\ q.running /\ ~q.exited /\ q.pid = pid /\ q.low = 1 /\ q.cursor = 0
  BY DEF Agent!NoJob, AgJobs, AgStates
<1> HIDE DEF q
<1>5. agJob' \in [Jobs -> AgJobs] /\ agJob'[j] = q /\ \A k \in Jobs \ {j} : agJob'[k] = agJob[k]
  BY <1>1, <1>4 DEF AgInv, AgTypes
<1>6. AgTypes'
  BY SMTT(30), <1>1, <1>2, <1>5 DEF AgInv, AgTypes
<1>7. ASSUME NEW k \in Jobs PROVE AgJobFine(k)'
  <2>0. AgJobFine(k)
    BY DEF AgInv
  <2>1. CASE k = j
    <3>1. pid \notin agForeign /\ j \in agTable'
      BY <1>1, <1>2 DEF Agent!Used
    <3> QED
      BY SMTT(30), <1>1, <1>4, <1>5, <2>1, <3>1 DEF AgJobFine
  <2>2. CASE k # j
    <3>1. k \in agTable' => k \in agTable
      BY <1>2, <2>2
    <3> QED
      BY <1>1, <1>3, <1>5, <2>0, <2>2, <3>1 DEF AgJobFine
  <2> QED
    BY <2>1, <2>2
<1>8. ASSUME NEW c \in Callers PROVE AgCallerFine(c)'
  <2>1. \A k \in agCaller[c].job : k \in Jobs /\ k # j
    BY SMTT(30), <1>1 DEF AgInv, AgTypes, AgCallerFine
  <2> QED
    BY <1>1, <1>5, <2>1 DEF AgInv, AgCallerFine
<1>9. ASSUME NEW o \in Observers PROVE AgObsFine(o)'
  <2>1. \A k \in agObs[o].job : k \in Jobs /\ k # j
    BY <1>1 DEF AgInv, AgTypes, AgStreams, AgObsFine
  <2> QED
    BY <1>1, <1>5, <2>1 DEF AgInv, AgObsFine
<1>10. AgCloseFine'
  BY <1>1 DEF AgInv, AgCloseFine, AgTypes
<1> QED
  BY <1>6, <1>7, <1>8, <1>9, <1>10 DEF AgInv

LEMMA AgRecycle == ASSUME AgInv, NEW pid \in Pids, Agent!Recycle(pid) PROVE AgInv'
<1>1. UNCHANGED <<agTable, agJob, agGate, agCaller, agObs, agClosed, agClose>>
  BY DEF Agent!Recycle
<1>2. \A j \in Jobs : agJob[j].state \in {"running", "zombie", "held"} /\ agJob[j].pid \notin agForeign
        => agJob[j].pid \notin agForeign'
  BY DEF Agent!Recycle, Agent!Used
<1>3. \A j \in Jobs : AgJobFine(j)'
  BY <1>1, <1>2 DEF AgInv, AgJobFine
<1>4. AgTypes' /\ AgCloseFine' /\ (\A c \in Callers : AgCallerFine(c)')
  BY ZenonT(30), <1>1 DEF AgInv, AgTypes, AgCloseFine, AgCallerFine
<1>5. \A o \in Observers : AgObsFine(o)'
  BY <1>1 DEF AgInv, AgObsFine
<1> QED
  BY <1>3, <1>4, <1>5 DEF AgInv

\* The gate, without a change of the job.
LEMMA AgSignal ==
    ASSUME AgInv, NEW j \in Jobs,
           Agent!Ungate(j) \/ \E c \in Callers : Agent!lookup(c, j) \/ Agent!signal(c, j)
    PROVE  AgInv'
<1> DEFINE Calls == [step : {"idle", "gate", "kill"}, job : SUBSET Jobs]
<1>1. /\ agCaller \in [Callers -> Calls] /\ agGate = [k \in Jobs |-> agGate[k]] /\ AgCloseFine /\ agClosed \in BOOLEAN
      /\ agClose \in [step : {"idle", "kill", "done"}, jobs : SUBSET Jobs]
      /\ \A c \in Callers : agCaller[c].job \subseteq Jobs
  BY DEF AgInv, AgTypes
<1>2. \A c \in Callers : \A k \in agCaller[c].job :
        /\ agCaller[c].job = {k} /\ agJob[k].state # "new"
        /\ agCaller[c].step = "kill" => agGate[k] = {c} /\ agJob[k].state \in {"running", "zombie"}
  BY DEF AgInv, AgCallerFine
<1>3. UNCHANGED <<agTable, agJob, agForeign, agObs, agClosed, agClose>>
  BY DEF Agent!Ungate, Agent!lookup, Agent!signal
<1>4. AgCloseFine' /\ agClosed' \in BOOLEAN /\ agClose' \in [step : {"idle", "kill", "done"}, jobs : SUBSET Jobs]
  BY <1>1, <1>3 DEF AgCloseFine
<1>5. CASE Agent!Ungate(j)
  <2>1. /\ agJob[j].state = "reaped" /\ agGate' = [agGate EXCEPT ![j] = {}] /\ agCaller' = agCaller
    BY <1>5 DEF Agent!Ungate
  <2>2. agGate' = [k \in Jobs |-> agGate'[k]] /\ \A k \in Jobs \ {j} : agGate'[k] = agGate[k]
    BY <1>1, <2>1
  <2>3. ASSUME NEW c \in Callers PROVE AgCallerFine(c)'
    BY <1>1, <1>2, <1>3, <2>1, <2>2 DEF AgCallerFine
  <2> QED
    BY <1>1, <1>3, <1>4, <2>1, <2>2, <2>3, AgCallStep
<1>6. ASSUME NEW c \in Callers, Agent!lookup(c, j) PROVE AgInv'
  <2>1. /\ j \in agTable /\ agGate' = agGate /\ agCaller' = [agCaller EXCEPT ![c] = [step |-> "gate", job |-> {j}]]
    BY <1>6 DEF Agent!lookup
  <2>2. agCaller' \in [Callers -> Calls] /\ \A d \in Callers \ {c} : agCaller'[d] = agCaller[d]
    BY <1>1, <2>1
  <2>3. agCaller'[c].step = "gate" /\ agCaller'[c].job = {j} /\ agJob[j].state # "new"
    BY <1>1, <2>1 DEF AgInv, AgJobFine
  <2>4. ASSUME NEW d \in Callers PROVE AgCallerFine(d)'
    BY ZenonT(30), <1>2, <1>3, <2>1, <2>2, <2>3 DEF AgCallerFine
  <2> QED
    BY <1>1, <1>3, <1>4, <2>1, <2>2, <2>4, AgCallStep
<1>7. ASSUME NEW c \in Callers, Agent!signal(c, j) PROVE AgInv'
  <2>0. /\ agCaller[c].job = {j} /\ agGate[j] = {} /\ agJob[j].state # "new"
        /\ (~agJob[j].exited => agJob[j].state \in {"running", "zombie"})
    BY <1>2, <1>7 DEF Agent!signal, AgInv, AgJobFine
  <2>1. CASE agJob[j].exited
    <3>1. agCaller' = [agCaller EXCEPT ![c] = Agent!Resting] /\ agGate' = agGate
      BY <1>7, <2>1 DEF Agent!signal
    <3>2. agCaller' \in [Callers -> Calls] /\ agCaller'[c].job = {} /\ \A d \in Callers \ {c} : agCaller'[d] = agCaller[d]
      BY <1>1, <3>1 DEF Agent!Resting
    <3>3. ASSUME NEW d \in Callers PROVE AgCallerFine(d)'
      BY ZenonT(30), <1>2, <1>3, <3>1, <3>2 DEF AgCallerFine
    <3> QED
      BY <1>1, <1>3, <1>4, <3>1, <3>2, <3>3, AgCallStep
  <2>2. CASE ~agJob[j].exited
    <3>1. agCaller' = [agCaller EXCEPT ![c].step = "kill"] /\ agGate' = [agGate EXCEPT ![j] = {c}]
      BY <1>7, <2>2 DEF Agent!signal
    <3>2. agCaller' \in [Callers -> Calls] /\ agCaller'[c].job = {j} /\ \A d \in Callers \ {c} : agCaller'[d] = agCaller[d]
      BY ZenonT(30), <1>1, <2>0, <3>1
    <3>3. /\ agGate' = [k \in Jobs |-> agGate'[k]] /\ agGate'[j] = {c}
          /\ \A k \in Jobs \ {j} : agGate'[k] = agGate[k]
      BY <1>1, <3>1
    <3>4. \A d \in Callers : \A k \in agCaller[d].job : agCaller[d].step = "kill" => k \in Jobs \ {j}
      BY SMTT(30), <1>1, <1>2, <2>0
    <3>5. ASSUME NEW d \in Callers PROVE AgCallerFine(d)'
      <4>1. CASE d = c
        BY ZenonT(30), <1>3, <2>0, <2>2, <3>2, <3>3, <4>1 DEF AgCallerFine
      <4>2. CASE d # c
        BY SMTT(30), <1>2, <1>3, <3>2, <3>3, <3>4, <4>2 DEF AgCallerFine
      <4> QED
        BY <4>1, <4>2
    <3> QED
      BY <1>1, <1>3, <1>4, <3>2, <3>3, <3>5, AgCallStep
  <2> QED
    BY <2>1, <2>2
<1> QED
  BY <1>5, <1>6, <1>7

\* A running command becomes a zombie, by its own exit or by a signal.
LEMMA AgKilled ==
    ASSUME AgInv, NEW j \in Jobs, agJob' = [agJob EXCEPT ![j].state = "zombie"], agJob[j].state = "running",
           AgNewCalls(j, [state |-> "zombie"])
    PROVE  AgInv'
<1> DEFINE q == [agJob[j] EXCEPT !.state = "zombie"]
<1>0. agJob \in [Jobs -> AgJobs] /\ agJob[j] \in AgJobs /\ AgJobFine(j)
  BY DEF AgInv, AgTypes
<1>1. q \in AgJobs /\ agJob' = [agJob EXCEPT ![j] = q]
  BY <1>0 DEF AgJobs, AgStates
<1>2. /\ q.state = "zombie" /\ q.exited = agJob[j].exited /\ q.running = agJob[j].running /\ q.pid = agJob[j].pid
      /\ q.low = agJob[j].low /\ q.cursor = agJob[j].cursor /\ q.version = agJob[j].version
  BY <1>0 DEF AgJobs
<1> HIDE DEF q
<1>3. AgForward(agJob[j], q)
  BY SMTT(30), <1>0, <1>2 DEF AgForward, AgJobs
<1>4. AgNewJob(agJob[j], q)
  BY <1>0, <1>2, <1>3 DEF AgJobFine, AgNewJob
<1>5. AgNewCalls(j, q)
  BY <1>2 DEF AgNewCalls
<1> QED
  BY <1>1, <1>4, <1>5, AgJobStep

LEMMA AgHit ==
    ASSUME NEW j \in Jobs, agJob \in [Jobs -> AgJobs],
           agJob' = [agJob EXCEPT ![j].state = IF @ = "running" THEN "zombie" ELSE @]
    PROVE  agJob' = agJob \/ (agJob[j].state = "running" /\ agJob' = [agJob EXCEPT ![j].state = "zombie"])
BY DEF AgJobs

LEMMA AgKill ==
    ASSUME AgInv, NEW j \in Jobs, NEW c \in Callers, Agent!signalManagedProcess(c, j)
    PROVE  AgInv'
<1> DEFINE Calls == [step : {"idle", "gate", "kill"}, job : SUBSET Jobs]
<1>1. /\ agCaller \in [Callers -> Calls] /\ agGate = [k \in Jobs |-> agGate[k]] /\ AgCloseFine /\ agClosed \in BOOLEAN
      /\ agClose \in [step : {"idle", "kill", "done"}, jobs : SUBSET Jobs] /\ agJob \in [Jobs -> AgJobs]
      /\ \A d \in Callers : agCaller[d].job \subseteq Jobs
  BY DEF AgInv, AgTypes
<1>2. \A d \in Callers : \A k \in agCaller[d].job :
        /\ agCaller[d].job = {k} /\ agJob[k].state # "new"
        /\ agCaller[d].step = "kill" => agGate[k] = {d} /\ agJob[k].state \in {"running", "zombie"}
  BY DEF AgInv, AgCallerFine
<1>3. /\ agCaller[c].step = "kill" /\ j \in agCaller[c].job /\ agGate' = [agGate EXCEPT ![j] = {}]
      /\ agCaller' = [agCaller EXCEPT ![c] = Agent!Resting]
      /\ UNCHANGED <<agTable, agForeign, agObs, agClosed, agClose>>
  BY DEF Agent!signalManagedProcess
<1>4. agCaller' \in [Callers -> Calls] /\ agCaller'[c].job = {} /\ \A d \in Callers \ {c} : agCaller'[d] = agCaller[d]
  BY <1>1, <1>3 DEF Agent!Resting
<1>5. agGate' = [k \in Jobs |-> agGate'[k]] /\ \A k \in Jobs \ {j} : agGate'[k] = agGate[k]
  BY <1>1, <1>3
<1>6. \A d \in Callers \ {c} : \A k \in agCaller[d].job : agCaller[d].step = "kill" => k \in Jobs \ {j}
  <2>1. agGate[j] = {c}
    BY <1>2, <1>3
  <2> SUFFICES ASSUME NEW d \in Callers \ {c}, NEW k \in agCaller[d].job, agCaller[d].step = "kill"
               PROVE  k \in Jobs \ {j}
    OBVIOUS
  <2>2. agGate[k] = {d} /\ k \in Jobs
    BY <1>1, <1>2
  <2> QED
    BY <2>1, <2>2
<1>7. \A d \in Callers : \A k \in agCaller'[d].job :
        /\ agCaller'[d] = agCaller[d]
        /\ agCaller[d].step = "kill" => agGate'[k] = {d} /\ k # j
  BY <1>2, <1>4, <1>5, <1>6
<1>8. CASE agJob' = agJob
  <2>1. \A d \in Callers : AgCallerFine(d)'
    BY SMTT(30), <1>2, <1>7, <1>8 DEF AgCallerFine
  <2>2. AgCloseFine' /\ agClosed' \in BOOLEAN /\ agClose' \in [step : {"idle", "kill", "done"}, jobs : SUBSET Jobs]
    BY <1>1, <1>3, <1>8 DEF AgCloseFine
  <2> QED
    BY ZenonT(30), <1>3, <1>4, <1>5, <1>8, <2>1, <2>2, AgCallStep
<1>9. CASE agJob[j].state = "running" /\ agJob' = [agJob EXCEPT ![j].state = "zombie"]
  <2>1. AgNewCalls(j, [state |-> "zombie"])
    BY <1>1, <1>3, <1>4, <1>5, <1>7 DEF AgNewCalls
  <2> QED
    BY <1>9, <2>1, AgKilled
<1>10. agJob' = agJob \/ (agJob[j].state = "running" /\ agJob' = [agJob EXCEPT ![j].state = "zombie"])
  BY <1>1, AgHit DEF Agent!signalManagedProcess
<1> QED
  BY <1>8, <1>9, <1>10

LEMMA AgClose ==
    ASSUME AgInv, Agent!closeBegin \/ Agent!closeWait \/ \E j \in Jobs : Agent!closeKill(j)
    PROVE  AgInv'
<1>1. /\ AgCloseFine /\ agClosed \in BOOLEAN /\ agTable \subseteq Jobs /\ agJob \in [Jobs -> AgJobs]
      /\ agClose \in [step : {"idle", "kill", "done"}, jobs : SUBSET Jobs]
      /\ agCaller \in [Callers -> [step : {"idle", "gate", "kill"}, job : SUBSET Jobs]]
      /\ agGate = [k \in Jobs |-> agGate[k]]
  BY DEF AgInv, AgTypes
<1>2. UNCHANGED <<agTable, agGate, agForeign, agCaller, agObs>>
  BY DEF Agent!closeBegin, Agent!closeWait, Agent!closeKill
<1>3. agJob' = agJob => \A c \in Callers : AgCallerFine(c)'
  BY <1>2 DEF AgInv, AgCallerFine
<1>4. CASE Agent!closeBegin \/ Agent!closeWait
  <2>1. /\ AgCloseFine' /\ agClosed' \in BOOLEAN /\ agJob' = agJob
        /\ agClose' \in [step : {"idle", "kill", "done"}, jobs : SUBSET Jobs]
    <3>1. CASE Agent!closeBegin
      BY <1>1, <3>1 DEF Agent!closeBegin, AgCloseFine
    <3>2. CASE Agent!closeWait
      BY <1>1, <3>2 DEF Agent!closeWait, AgCloseFine
    <3> QED
      BY <1>4, <3>1, <3>2
  <2> QED
    BY <1>1, <1>2, <1>3, <2>1, AgCallStep
<1>5. ASSUME NEW j \in Jobs, Agent!closeKill(j) PROVE AgInv'
  <2>1. /\ agClose' \in [step : {"idle", "kill", "done"}, jobs : SUBSET Jobs] /\ agClose'.step = agClose.step
        /\ agClosed' = agClosed /\ agClose.step = "kill"
    BY <1>1, <1>5 DEF Agent!closeKill
  <2>2. agJob' = agJob \/ (agJob[j].state = "running" /\ agJob' = [agJob EXCEPT ![j].state = "zombie"])
    BY <1>1, <1>5, AgHit DEF Agent!closeKill
  <2>3. CASE agJob' = agJob
    <3>1. AgCloseFine'
      BY <1>1, <2>1 DEF AgCloseFine
    <3> QED
      BY <1>1, <1>2, <1>3, <2>1, <2>3, <3>1, AgCallStep
  <2>4. CASE agJob[j].state = "running" /\ agJob' = [agJob EXCEPT ![j].state = "zombie"]
    <3>1. AgNewCalls(j, [state |-> "zombie"])
      BY <1>1, <1>2, <2>1 DEF AgNewCalls, AgInv, AgCallerFine
    <3> QED
      BY <2>4, <3>1, AgKilled
  <2> QED
    BY <2>2, <2>3, <2>4
<1> QED
  BY <1>4, <1>5
-----------------------------------------------------------------------------
LEMMA AgOutputTypes ==
    ASSUME NEW j \in Jobs, NEW after \in Nat, agJob[j] \in AgJobs
    PROVE  /\ Agent!output(j, after).batch \in SUBSET Nat /\ Agent!output(j, after).alive \in BOOLEAN
           /\ Agent!output(j, after).armed \in Nat
<1>1. /\ agJob[j].low \in Nat /\ agJob[j].cursor \in Nat /\ agJob[j].version \in Nat
      /\ agJob[j].running \in BOOLEAN
  BY DEF AgJobs
<1>2. agJob[j].low..agJob[j].cursor \subseteq Nat
  BY ONLY SMTT(30), <1>1
<1> QED
  BY <1>1, <1>2 DEF Agent!output

\* output gives the newest frames that the ring kept.
LEMMA AgOutput ==
    ASSUME NEW j \in Jobs, NEW after \in Nat, NEW s \in AgStreams, agJob[j] \in AgJobs, AgJobFine(j),
           after <= agJob[j].cursor, s.after = after, s.batch = Agent!output(j, after).batch,
           s.alive = Agent!output(j, after).alive, s.armed = Agent!output(j, after).armed
    PROVE  AgBatch(s, agJob[j].cursor) /\ AgKnows(s, agJob[j], agJob[j].cursor)
<1>1. /\ s.batch = {n \in agJob[j].low..agJob[j].cursor : n > after} /\ s.alive = agJob[j].running
      /\ s.armed = agJob[j].version
  BY DEF Agent!output
<1>2. agJob[j].low \in Nat /\ agJob[j].cursor \in Nat /\ agJob[j].version \in Nat
  BY DEF AgJobs
<1> QED
  BY SMTT(30), <1>1, <1>2 DEF AgJobFine, AgBatch, AgKnows

LEMMA AgFollow ==
    ASSUME AgInv, NEW j \in Jobs, NEW o \in Observers,
           Agent!Changed(o, j) \/ \E attach \in BOOLEAN, after \in 0..MaxOutput : Agent!streamProcess(o, j, attach, after)
    PROVE  AgInv'
<1>1. agJob[j] \in AgJobs /\ AgJobFine(j) /\ agObs \in [Observers -> AgStreams] /\ agObs[o] \in AgStreams
  BY DEF AgInv, AgTypes
<1>2. agJob[j].low \in Nat /\ agJob[j].cursor \in Nat /\ agJob[j].version \in Nat /\ agJob[j].running \in BOOLEAN
  BY <1>1 DEF AgJobs
<1>3. UNCHANGED <<agTable, agJob, agGate, agForeign, agCaller, agClosed, agClose>>
  BY DEF Agent!Changed, Agent!streamProcess
<1>4. ASSUME NEW attach \in BOOLEAN, NEW after \in 0..MaxOutput, Agent!streamProcess(o, j, attach, after)
      PROVE  AgInv'
  <2> DEFINE got == Agent!output(j, after)
             s == [step |-> "send", job |-> {j}, attach |-> attach, after |-> after, seen |-> 1..after,
                   gaps |-> {}, batch |-> got.batch, alive |-> got.alive, armed |-> got.armed]
  <2>1. j \in agTable /\ after \in 0..agJob[j].cursor /\ agObs' = [agObs EXCEPT ![o] = s]
    BY ZenonT(30), <1>4 DEF Agent!streamProcess
  <2>2. after \in Nat /\ after <= agJob[j].cursor
    BY SMTT(30), <1>2, <2>1
  <2>a. got.batch \in SUBSET Nat /\ got.alive \in BOOLEAN /\ got.armed \in Nat
    BY <1>1, <2>2, AgOutputTypes
  <2>b. 1..after \in SUBSET Nat
    BY ONLY SMTT(30), <2>2
  <2> HIDE DEF got
  <2>3. s \in AgStreams
    BY <2>2, <2>a, <2>b DEF AgStreams
  <2> USE DEF got
  <2>4. /\ s.step = "send" /\ s.job = {j} /\ s.after = after /\ s.seen = 1..after /\ s.gaps = {}
        /\ s.batch = got.batch /\ s.alive = got.alive /\ s.armed = got.armed
    OBVIOUS
  <2> HIDE DEF s
  <2>5. AgBatch(s, agJob[j].cursor) /\ AgKnows(s, agJob[j], agJob[j].cursor)
    BY <1>1, <2>2, <2>3, <2>4, AgOutput
  <2>6. AgStream(s, agJob[j]) /\ agJob[j].state # "new"
    BY <1>1, <1>2, <2>1, <2>2, <2>4, <2>5 DEF AgStream, AgJobFine
  <2> QED
    BY <1>3, <2>1, <2>3, <2>4, <2>6, AgObsStep
<1>5. CASE Agent!Changed(o, j)
  <2> DEFINE got == Agent!output(j, agObs[o].after)
             s == [agObs[o] EXCEPT !.step = "send", !.batch = got.batch, !.alive = got.alive, !.armed = got.armed]
  <2>0. agObs[o].step = "wait" /\ j \in agObs[o].job
        /\ agObs' = [agObs EXCEPT ![o].step = "send", ![o].batch = got.batch, ![o].alive = got.alive, ![o].armed = got.armed]
    BY <1>5 DEF Agent!Changed
  <2>1. agObs[o].after \in Nat /\ agObs[o].job = {j} /\ agJob[j].state # "new" /\ AgStream(agObs[o], agJob[j])
    BY <1>1, <2>0 DEF AgInv, AgObsFine, AgStreams
  <2>2. got.batch \in SUBSET Nat /\ got.alive \in BOOLEAN /\ got.armed \in Nat
    BY <1>1, <2>1, AgOutputTypes
  <2> HIDE DEF got
  <2>3. s \in AgStreams /\ agObs' = [agObs EXCEPT ![o] = s]
    BY <1>1, <2>0, <2>2 DEF AgStreams
  <2>4. /\ s.step = "send" /\ s.job = {j} /\ s.after = agObs[o].after /\ s.seen = agObs[o].seen
        /\ s.gaps = agObs[o].gaps /\ s.batch = got.batch /\ s.alive = got.alive /\ s.armed = got.armed
    BY <1>1, <2>1 DEF AgStreams
  <2> HIDE DEF s
  <2>5. s.after <= agJob[j].cursor /\ s.seen \cup s.gaps = 1..s.after
    BY <2>1, <2>4 DEF AgStream
  <2>6. AgBatch(s, agJob[j].cursor) /\ AgKnows(s, agJob[j], agJob[j].cursor)
    BY <1>1, <2>1, <2>3, <2>4, <2>5, AgOutput DEF got
  <2>7. AgStream(s, agJob[j])
    BY <1>2, <2>4, <2>5, <2>6 DEF AgStream
  <2> QED
    BY <1>3, <2>1, <2>3, <2>4, <2>7, AgObsStep
<1> QED
  BY <1>4, <1>5

LEMMA AgSend ==
    ASSUME AgInv, NEW o \in Observers, Agent!Send(o) \/ Agent!Detach(o)
    PROVE  AgInv'
<1>1. agObs \in [Observers -> AgStreams] /\ agObs[o] \in AgStreams
  BY DEF AgInv, AgTypes
<1>2. UNCHANGED <<agTable, agJob, agGate, agForeign, agCaller, agClosed, agClose>>
  BY DEF Agent!Send, Agent!Detach
<1>3. CASE Agent!Detach(o)
  <2>1. Agent!Absent \in AgStreams /\ Agent!Absent.job = {} /\ Agent!Absent.step = "idle"
    BY DEF Agent!Absent, AgStreams
  <2> QED
    BY <1>2, <1>3, <2>1, AgObsStep DEF Agent!Detach
<1>4. CASE Agent!Send(o)
  <2> DEFINE old == agObs[o]
             last == IF old.batch = {} THEN old.after ELSE CHOOSE n \in old.batch : \A m \in old.batch : m <= n
             gap == IF old.batch = {} THEN old.gaps
                    ELSE old.gaps \cup {n \in (old.after + 1)..last : \A m \in old.batch : n < m}
             step == IF ~old.attach \/ ~old.alive THEN "done" ELSE "wait"
             s == [old EXCEPT !.after = last, !.seen = @ \cup old.batch, !.batch = {}, !.gaps = gap, !.step = step]
  <2>0. /\ old.step = "send"
        /\ agObs' = [agObs EXCEPT ![o].after = last, ![o].seen = @ \cup old.batch, ![o].batch = {},
                                  ![o].gaps = IF old.batch = {} THEN @ ELSE @ \cup {n \in (old.after + 1)..last : \A m \in old.batch : n < m},
                                  ![o].step = IF ~old.attach \/ ~old.alive THEN "done" ELSE "wait"]
    BY <1>4 DEF Agent!Send
  <2>1. /\ old.after \in Nat /\ old.seen \subseteq Nat /\ old.gaps \subseteq Nat /\ old.batch \subseteq Nat
        /\ old.job \subseteq Jobs /\ old.attach \in BOOLEAN /\ old.alive \in BOOLEAN /\ old.armed \in Nat
    BY <1>1 DEF AgStreams
  <2>a. agObs' = [agObs EXCEPT ![o].after = last, ![o].seen = old.seen \cup old.batch, ![o].batch = {},
                              ![o].gaps = gap, ![o].step = step]
    BY <1>1, <2>0 DEF AgStreams
  <2>2. agObs' = [agObs EXCEPT ![o] = s]
    <3> HIDE DEF last, gap, step
    <3> QED
      BY <1>1, <2>a DEF AgStreams
  <2>3. /\ s.step = step /\ s.job = old.job /\ s.attach = old.attach /\ s.after = last
        /\ s.seen = old.seen \cup old.batch /\ s.gaps = gap /\ s.batch = {} /\ s.alive = old.alive /\ s.armed = old.armed
    BY <1>1 DEF AgStreams
  <2>4. PICK j \in old.job : old.job = {j} /\ agJob[j].state # "new" /\ AgStream(old, agJob[j])
    BY <2>0 DEF AgInv, AgObsFine
  <2>5. PICK c \in Nat : AgBatch(old, c) /\ AgKnows(old, agJob[j], c)
    BY <2>0, <2>4 DEF AgStream
  <2>6. last = c
    <3>1. CASE old.batch = {}
      BY SMTT(30), <2>1, <2>5, <3>1 DEF AgBatch, AgKnows
    <3>2. CASE old.batch # {}
      <4>1. c \in old.batch /\ \A m \in old.batch : m \in Nat /\ m <= c
        BY SMTT(30), <2>1, <2>5, <3>2 DEF AgBatch
      <4>2. last \in old.batch /\ \A m \in old.batch : m <= last
        BY <3>2, <4>1
      <4> QED
        BY SMTT(30), <4>1, <4>2
    <3> QED
      BY ZenonT(30), <3>1, <3>2
  <2> HIDE DEF last
  <2>7. old.seen \cup old.batch \cup gap = 1..c
    <3>1. old.seen \cup old.gaps = 1..old.after /\ old.after <= c
      BY ZenonT(30), <2>4, <2>5 DEF AgStream, AgKnows
    <3>2. CASE old.batch = {}
      BY SMTT(30), <2>1, <2>5, <3>1, <3>2 DEF AgBatch
    <3>3. CASE old.batch # {}
      <4>1. \A n \in (old.after + 1)..c : n \in old.batch \/ \A m \in old.batch : n < m
        BY SMTT(30), <2>1, <2>5 DEF AgBatch
      <4>2. \A n \in old.batch : n \in 1..c
        BY SMTT(30), <2>1, <2>5 DEF AgBatch
      <4>3. gap = old.gaps \cup {n \in (old.after + 1)..c : \A m \in old.batch : n < m}
        BY <2>6, <3>3
      <4>4. 1..c = (1..old.after) \cup ((old.after + 1)..c)
        BY SMTT(30), <2>1, <3>1
      <4> HIDE DEF gap
      <4> QED
        BY ZenonT(30), <2>1, <3>1, <4>1, <4>2, <4>3, <4>4
    <3> QED
      BY <3>2, <3>3
  <2>8. gap \subseteq Nat /\ step \in {"idle", "send", "wait", "done"} /\ step # "idle"
    BY SMTT(30), <2>1, <2>6
  <2>9. s \in AgStreams
    BY ZenonT(30), <1>1, <2>1, <2>6, <2>8 DEF AgStreams
  <2> HIDE DEF gap, s
  <2>10. AgStream(s, agJob[j])
    <3>1. s.seen \cup s.gaps = 1..s.after
      BY <2>3, <2>6, <2>7
    <3>2. agJob[j].cursor \in Nat /\ agJob[j].version \in Nat /\ agJob[j].running \in BOOLEAN
      BY <2>1, <2>4 DEF AgInv, AgTypes, AgJobs
    <3>3. AgKnows(old, agJob[j], c) /\ s.after = c /\ s.alive = old.alive /\ s.armed = old.armed
      BY <2>3, <2>5, <2>6
    <3>4. s.after <= agJob[j].cursor /\ AgKnows(s, agJob[j], s.after)
      <4>1. c <= c
        BY ONLY SMTT(30), c \in Nat
      <4> QED
        BY <3>3, <4>1 DEF AgKnows
    <3>5. /\ s.step = "done" /\ s.attach => ~s.alive
          /\ s.step = "wait" => s.alive
          /\ s.step # "send"
      BY <2>1, <2>3
    <3> QED
      BY <3>1, <3>3, <3>4, <3>5 DEF AgStream, AgKnows
  <2> QED
    BY <1>2, <2>2, <2>3, <2>4, <2>8, <2>9, <2>10, AgObsStep
<1> QED
  BY <1>3, <1>4

LEMMA AgNext == AgInv /\ Agent!Next => AgInv'
BY AgSpawn, AgCommand, AgSignal, AgKill, AgClose, AgFollow, AgRecycle, AgSend DEF Agent!Next

LEMMA AgStutter == AgInv /\ UNCHANGED agVars => AgInv'
<1> SUFFICES ASSUME AgInv, UNCHANGED agVars PROVE AgInv'
  OBVIOUS
<1>1. UNCHANGED <<agTable, agJob, agGate, agForeign, agCaller, agObs, agClosed, agClose>>
  BY DEF agVars
<1>2. AgTypes' /\ AgCloseFine' /\ (\A c \in Callers : AgCallerFine(c)')
  BY ZenonT(30), <1>1 DEF AgInv, AgTypes, AgCloseFine, AgCallerFine
<1>3. (\A j \in Jobs : AgJobFine(j)')
  BY <1>1 DEF AgInv, AgJobFine
<1>4. \A o \in Observers : AgObsFine(o)'
  BY <1>1 DEF AgInv, AgObsFine
<1> QED
  BY <1>2, <1>3, <1>4 DEF AgInv

LEMMA AgContains == AgInv => Agent!ProcessesAreContained /\ Agent!ObserverMissesNothing
<1> SUFFICES ASSUME AgInv PROVE Agent!ProcessesAreContained /\ Agent!ObserverMissesNothing
  OBVIOUS
<1>1. Agent!SignalsStayHome
  BY DEF AgInv, AgCallerFine, AgJobFine, Agent!SignalsStayHome
<1>2. Agent!ClosedMeansEnded
  BY DEF AgInv, AgJobFine, AgCloseFine, Agent!ClosedMeansEnded
<1>3. ASSUME NEW o \in Observers, NEW j \in agObs[o].job
      PROVE  /\ agObs[o].seen \cup agObs[o].gaps = 1..agObs[o].after
             /\ agObs[o].step = "wait" /\ agObs[o].armed = agJob[j].version
                    => agObs[o].after = agJob[j].cursor /\ agJob[j].running
             /\ agObs[o].step = "done" /\ agObs[o].attach => agObs[o].after = agJob[j].cursor /\ ~agJob[j].running
  <2>1. AgStream(agObs[o], agJob[j])
    BY DEF AgInv, AgObsFine
  <2> QED
    BY <2>1 DEF AgStream, AgKnows
<1>4. Agent!ObserverMissesNothing
  BY <1>3 DEF Agent!ObserverMissesNothing
<1> QED
  BY <1>1, <1>2, <1>4 DEF Agent!ProcessesAreContained

LEMMA AgAlways == GuestSpec => [](focus = "agent" => AgInv)
<1> DEFINE Inv == focus = "agent" => AgInv
<1>1. GuestInit => Inv
  BY AgInit DEF GuestInit
<1>2. Inv /\ [GuestNext]_guestVars => Inv'
  <2> SUFFICES ASSUME Inv, [GuestNext]_guestVars, focus' = "agent"
               PROVE  AgInv'
    OBVIOUS
  <2>1. CASE AgentStep
    BY <2>1, AgNext DEF AgentStep
  <2>2. CASE NicStep \/ DevicesStep
    BY <2>2 DEF NicStep, DevicesStep
  <2>3. CASE UNCHANGED guestVars
    BY <2>3, AgStutter DEF guestVars
  <2> QED
    BY <2>1, <2>2, <2>3 DEF GuestNext
<1> QED
  BY <1>1, <1>2, PTL DEF GuestSpec

\* A signal of the agent reaches only the process group of the job it names,
\* running jobs stay in the table, and none survives close (signal,
\* waitManagedProcess, admit and close of the process manager).
THEOREM AgentProcessesAreContained == GuestSpec => []ProcessesAreContained
<1>1. (focus = "agent" => AgInv) => ProcessesAreContained
  BY AgContains DEF ProcessesAreContained
<1> QED
  BY <1>1, AgAlways, PTL

\* An observer of a job has had or been told to have missed each frame before
\* its cursor, does not sleep on one, and ends with the last one (output and
\* streamProcess).
THEOREM ObserversMissNothing == GuestSpec => []ObserverMissesNothing
<1>1. (focus = "agent" => AgInv) => ObserverMissesNothing
  BY AgContains DEF ObserverMissesNothing
<1> QED
  BY <1>1, AgAlways, PTL
=============================================================================
