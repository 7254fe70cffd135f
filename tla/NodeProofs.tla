----------------------------- MODULE NodeProofs -----------------------------
(***************************************************************************)
(* The node's file locks and its daemon, for any number of threads, paths, *)
(* inodes, requests, failures and crashes.                                 *)
(*                                                                         *)
(* OneOwner is not inductive: it holds because whoever owns a path holds   *)
(* the kernel lock of the very inode the path names.  NoWaitCycle holds    *)
(* because an inode belongs to one path and a thread waits for a path      *)
(* above all those it owns.  NoWorkAfterClose holds because admission is   *)
(* closed before the group of handlers is awaited.                         *)
(***************************************************************************)
EXTENDS Node, FiniteSetTheorems, TLAPS

USE Zenon    \* unless a leaf names another prover

(* The path whose kernel lock a thread has beyond those it owns.            *)
Extra(t) ==
    IF pc[t] = "bound" THEN NextPath(todo[t]) ELSE IF pc[t] = "close" THEN todo[t] ELSE {}

(* Kernel locks on one inode are compatible.                                *)
KernelExclusion ==
    \A t, u \in Threads : \A p, q \in Paths :
        t # u /\ p \in locked[t] /\ q \in locked[u] /\ fd[t][p] = fd[u][q] => ~Conflict(t, u)

(* An owned path names the inode its owner has open; the name of a          *)
(* persistent lock never changes once it exists.                            *)
NamedByPath ==
    \A t \in Threads, p \in Paths :
        /\ p \in owned[t] => file[p] = fd[t][p]
        /\ p \notin Transient /\ fd[t][p] # None => file[p] = fd[t][p]

(* What a thread knows at its step.                                         *)
ThreadFacts(t) ==
    /\ owned[t] \subseteq locked[t]
    /\ locked[t] \subseteq owned[t] \cup Extra(t)
    /\ todo[t] \cap owned[t] = {}
    /\ \A p \in locked[t] : fd[t][p] # None
    /\ pc[t] \in {"flock", "bound"} => \A p \in NextPath(todo[t]) : fd[t][p] # None
    /\ pc[t] = "bound" => NextPath(todo[t]) \subseteq locked[t]
    /\ pc[t] = "close" => \E p \in Paths : todo[t] = {p}
    /\ pc[t] = "idle" => owned[t] = {}
    /\ \A p \in Transient : p \in todo[t] \cup owned[t] => ~mode[t].shared

LockInv ==
    /\ TypeOK
    /\ KernelExclusion
    /\ NamedByPath
    /\ \A t \in Threads : ThreadFacts(t)

-----------------------------------------------------------------------------
(* Facts shared by the steps *)

(* Set.acquire and Set.Unlock work on one path at a time.                   *)
LEMMA PathIsUnique ==
    \A S \in SUBSET Paths : /\ \A p, q \in NextPath(S) : p = q
                            /\ \A p, q \in LastPath(S) : p = q
                            /\ NextPath(S) \subseteq S /\ LastPath(S) \subseteq S
BY SMTT(30), PathsAssumption DEF NextPath, LastPath

(* A step that grants no kernel lock keeps those there are compatible.      *)
LEMMA ExclusionKept ==
    ASSUME KernelExclusion,
           \A u \in Threads : \A p \in Paths : p \in locked'[u] =>
               p \in locked[u] /\ fd'[u][p] = fd[u][p] /\ mode'[u] = mode[u]
    PROVE  KernelExclusion'
BY SMTT(30) DEF KernelExclusion, Conflict

(* A step of one thread changes nothing that another thread knows.          *)
LEMMA OthersKeep ==
    ASSUME NEW u \in Threads, ThreadFacts(u),
           fd'[u] = fd[u], locked'[u] = locked[u], owned'[u] = owned[u],
           pc'[u] = pc[u], todo'[u] = todo[u], mode'[u] = mode[u]
    PROVE  ThreadFacts(u)'
BY DEF ThreadFacts, Extra, NextPath

LEMMA InitInv == Init => LockInv
BY SMTT(30), PathsAssumption, NoneAssumption, FaultsAssumption
DEF Init, LockInv, TypeOK, KernelExclusion, NamedByPath, ThreadFacts, Extra, NextPath,
    Modes, NoMode, Steps

-----------------------------------------------------------------------------
(* One lemma per step *)

(* A request starts with nothing locked, and asks for transient locks       *)
(* exclusively.                                                             *)
LEMMA RequestKeeps ==
    ASSUME LockInv, NEW t \in Threads, Request(t)
    PROVE  LockInv'
<1> USE DEF LockInv
<1>1. TypeOK'
  BY SMTT(30) DEF Request, TypeOK, Goto, Steps
<1>2. locked[t] = {} /\ owned[t] = {}
  BY DEF Request, ThreadFacts, Extra
<1>3. KernelExclusion'
  BY <1>2, ExclusionKept DEF Request, TypeOK
<1>4. NamedByPath'
  BY DEF Request, NamedByPath
<1>5. ThreadFacts(t)'
  BY SMTT(30), <1>2 DEF Request, ThreadFacts, Extra, Goto, TypeOK, Modes
<1>6. \A u \in Threads \ {t} : ThreadFacts(u)'
  BY OthersKeep DEF Request, Goto, TypeOK
<1> QED
  BY <1>1, <1>3, <1>4, <1>5, <1>6

LEMMA TakeTokenKeeps ==
    ASSUME LockInv, NEW t \in Threads, TakeToken(t)
    PROVE  LockInv'
<1> USE DEF LockInv
<1>1. TypeOK'
  BY SMTT(30) DEF TakeToken, TypeOK, Goto, Steps
<1>2. KernelExclusion' /\ NamedByPath'
  BY ExclusionKept DEF TakeToken, NamedByPath
<1>3. ThreadFacts(t)'
  BY SMTT(30) DEF TakeToken, ThreadFacts, Extra, Goto, TypeOK, NextPath
<1>4. \A u \in Threads \ {t} : ThreadFacts(u)'
  BY OthersKeep DEF TakeToken, Goto, TypeOK
<1> QED
  BY <1>1, <1>2, <1>3, <1>4

(* A file is created only where the path names none, so nobody has the      *)
(* path open as a persistent lock or owns it.                               *)
LEMMA OpenKeeps ==
    ASSUME LockInv, NEW t \in Threads, Open(t)
    PROVE  LockInv'
<1> USE DEF LockInv
<1>1. PICK p \in NextPath(todo[t]) :
          /\ \/ file[p] # None /\ UNCHANGED file
             \/ file[p] = None /\ \E i \in Inodes : Unused(i) /\ file' = [file EXCEPT ![p] = i]
          /\ fd' = [fd EXCEPT ![t][p] = file'[p]]
  BY DEF Open
<1>2. p \in todo[t] /\ p \in Paths
  BY PathIsUnique DEF TypeOK
<1>3. /\ file' \in [Paths -> Inodes \cup {None}] /\ file'[p] \in Inodes
      /\ \A q \in Paths : q # p \/ file[p] # None => file'[q] = file[q]
  BY SMTT(30), <1>1, <1>2, NoneAssumption DEF TypeOK
<1>4. p \notin locked[t] /\ p \notin owned[t]
  BY <1>2 DEF Open, ThreadFacts, Extra
<1>5. TypeOK'
  BY <1>1, <1>2, <1>3 DEF Open, TypeOK, Goto, Steps
<1>6. \A u \in Threads, q \in Paths : u # t \/ q # p => fd'[u][q] = fd[u][q]
  BY <1>1, <1>2 DEF TypeOK
<1>7. KernelExclusion'
  BY <1>4, <1>6, ExclusionKept DEF Open
<1>8. NamedByPath'
  <2> SUFFICES ASSUME NEW u \in Threads, NEW q \in Paths
               PROVE  /\ q \in owned'[u] => file'[q] = fd'[u][q]
                      /\ q \notin Transient /\ fd'[u][q] # None => file'[q] = fd'[u][q]
    BY DEF NamedByPath
  <2>1. CASE u = t /\ q = p
    BY <2>1, <1>1, <1>2 DEF TypeOK
  <2>2. CASE u # t \/ q # p
    <3>1. fd'[u][q] = fd[u][q] /\ owned'[u] = owned[u]
      BY <2>2, <1>6 DEF Open
    <3>2. q \in owned[u] => fd[u][q] # None
      BY DEF ThreadFacts
    <3>3. CASE file[q] = None
      BY <3>1, <3>2, <3>3 DEF NamedByPath
    <3>4. CASE file[q] # None
      BY <3>1, <3>4, <1>3 DEF NamedByPath
    <3> QED
      BY <3>3, <3>4
  <2> QED
    BY <2>1, <2>2
<1>9. ThreadFacts(t)'
  <2>1. \A q \in locked[t] : fd'[t][q] = fd[t][q]
    BY <1>4, <1>6 DEF TypeOK
  <2>2. \A q \in NextPath(todo[t]) : q = p
    BY PathIsUnique DEF TypeOK
  <2>3. fd'[t][p] # None
    BY <1>1, <1>2, <1>3, NoneAssumption DEF TypeOK
  <2>4. locked' = locked /\ owned' = owned /\ todo' = todo /\ mode' = mode /\ pc[t] = "open"
        /\ pc'[t] = "flock"
    BY DEF Open, Goto, TypeOK
  <2> QED
    BY <2>1, <2>2, <2>3, <2>4 DEF ThreadFacts, Extra, NextPath
<1>10. \A u \in Threads \ {t} : ThreadFacts(u)'
  <2> SUFFICES ASSUME NEW u \in Threads \ {t} PROVE ThreadFacts(u)'
    OBVIOUS
  <2>1. fd'[u] = fd[u] /\ pc'[u] = pc[u]
    BY <1>1, <1>2 DEF TypeOK, Open, Goto
  <2> QED
    BY <2>1, OthersKeep DEF Open
<1> QED
  BY <1>5, <1>7, <1>8, <1>9, <1>10

(* The only step that grants a kernel lock.                                 *)
LEMMA FlockKeeps ==
    ASSUME LockInv, NEW t \in Threads, Flock(t)
    PROVE  LockInv'
<1> USE DEF LockInv
<1>1. PICK p \in NextPath(todo[t]) :
          Grantable(t, p) /\ locked' = [locked EXCEPT ![t] = @ \cup {p}]
  BY DEF Flock
<1>2. p \in todo[t] /\ p \in Paths
  BY PathIsUnique DEF TypeOK
<1>3. TypeOK'
  BY <1>1, <1>2 DEF Flock, TypeOK, Goto, Steps
<1>4. locked'[t] = locked[t] \cup {p} /\ \A u \in Threads \ {t} : locked'[u] = locked[u]
  BY <1>1 DEF TypeOK
<1>5. KernelExclusion'
  BY SMTT(30), <1>1, <1>2, <1>4 DEF KernelExclusion, Grantable, Conflict, Flock
<1>6. NamedByPath'
  BY DEF Flock, NamedByPath
<1>7. ThreadFacts(t)'
  <2>1. pc[t] = "flock" /\ pc'[t] = "bound"
    BY DEF Flock, Goto, TypeOK
  <2>2. NextPath(todo[t]) = {p} /\ fd[t][p] # None
    BY SMTT(30), <2>1, PathIsUnique DEF ThreadFacts, TypeOK
  <2>3. Extra(t)' = {p} /\ Extra(t) = {} /\ NextPath(todo[t])' = {p}
    BY <2>1, <2>2 DEF Extra, Flock
  <2> QED
    BY <1>2, <1>4, <2>1, <2>2, <2>3 DEF Flock, ThreadFacts
<1>8. \A u \in Threads \ {t} : ThreadFacts(u)'
  BY <1>4, OthersKeep DEF Flock, Goto, TypeOK
<1> QED
  BY <1>3, <1>5, <1>6, <1>7, <1>8

(* What closing a path that is not owned does, whatever follows.            *)
LEMMA CloseKeeps ==
    ASSUME LockInv, NEW t \in Threads, NEW p \in Paths, p \notin owned[t],
           CloseFd(t, p), UNCHANGED <<file, owned>>
    PROVE  /\ fd' \in [Threads -> [Paths -> Inodes \cup {None}]]
           /\ locked' \in [Threads -> SUBSET Paths]
           /\ locked'[t] = locked[t] \ {p}
           /\ \A q \in Paths \ {p} : fd'[t][q] = fd[t][q]
           /\ \A u \in Threads \ {t} : fd'[u] = fd[u] /\ locked'[u] = locked[u]
           /\ NamedByPath'
<1> USE DEF LockInv
<1>1. /\ fd' \in [Threads -> [Paths -> Inodes \cup {None}]]
      /\ locked' \in [Threads -> SUBSET Paths]
      /\ locked'[t] = locked[t] \ {p}
      /\ fd'[t][p] = None
      /\ \A q \in Paths \ {p} : fd'[t][q] = fd[t][q]
      /\ \A u \in Threads \ {t} : fd'[u] = fd[u] /\ locked'[u] = locked[u]
  BY DEF CloseFd, TypeOK
<1>2. NamedByPath'
  BY SMTT(30), <1>1 DEF NamedByPath
<1> QED
  BY <1>1, <1>2

(* An attempt or an Unlock that ends: the caller gets back what it owns.    *)
LEMMA CloseAndReturn ==
    ASSUME LockInv, NEW t \in Threads, NEW p \in Paths, p \notin owned[t],
           locked[t] \ {p} \subseteq owned[t],
           CloseFd(t, p), ReturnToken(t, p), Return(t), UNCHANGED <<file, owned, faults>>
    PROVE  LockInv'
<1> USE DEF LockInv
<1>1. /\ todo' = [todo EXCEPT ![t] = {}]
      /\ mode' = [mode EXCEPT ![t] = IF owned[t] = {} THEN NoMode ELSE @]
      /\ pc' = [pc EXCEPT ![t] = IF owned[t] = {} THEN "idle" ELSE "release"]
  BY DEF Return, Goto
<1>2. TypeOK'
  BY <1>1, CloseKeeps DEF ReturnToken, TypeOK, Steps, Modes, NoMode
<1>3. KernelExclusion'
  <2>1. locked'[t] # {} => mode'[t] = mode[t]
    BY ZenonT(30), <1>1, CloseKeeps DEF TypeOK
  <2>2. \A u \in Threads \ {t} : mode'[u] = mode[u]
    BY <1>1 DEF TypeOK
  <2> QED
    BY SMTT(30), <2>1, <2>2, CloseKeeps, ExclusionKept DEF TypeOK
<1>4. ThreadFacts(t)'
  <2>1. todo'[t] = {} /\ owned'[t] = owned[t] /\ pc'[t] \in {"idle", "release"}
        /\ (pc'[t] = "idle" => owned[t] = {})
    BY <1>1 DEF TypeOK
  <2>2. owned[t] # {} => mode'[t] = mode[t]
    BY <1>1 DEF TypeOK
  <2>3. owned[t] \subseteq locked'[t] /\ locked'[t] \subseteq owned[t]
        /\ \A q \in locked'[t] : fd'[t][q] # None
    BY SMTT(30), CloseKeeps DEF ThreadFacts, TypeOK
  <2> QED
    BY <2>1, <2>2, <2>3 DEF ThreadFacts, Extra
<1>5. \A u \in Threads \ {t} : ThreadFacts(u)'
  BY <1>1, CloseKeeps, OthersKeep DEF TypeOK
<1> QED
  BY <1>2, <1>3, <1>4, <1>5, CloseKeeps

LEMMA GiveUpKeeps ==
    ASSUME LockInv, NEW t \in Threads, GiveUp(t)
    PROVE  LockInv'
<1>1. PICK p \in NextPath(todo[t]) : CloseFd(t, p) /\ ReturnToken(t, p)
  BY DEF GiveUp
<1>2. p \in Paths /\ p \notin owned[t] /\ locked[t] \subseteq owned[t]
  BY PathIsUnique DEF LockInv, TypeOK, ThreadFacts, Extra, GiveUp
<1> QED
  BY <1>1, <1>2, CloseAndReturn DEF GiveUp

(* Here a transient lock is refused unless its inode still has its name.    *)
LEMMA BoundKeeps ==
    ASSUME LockInv, NEW t \in Threads, Bound(t)
    PROVE  LockInv'
<1> USE DEF LockInv
<1>1. PICK p \in NextPath(todo[t]) :
          /\ p \notin Transient \/ boundToPath(t, p)
          /\ owned' = [owned EXCEPT ![t] = @ \cup {p}]
          /\ todo' = [todo EXCEPT ![t] = @ \ {p}]
          /\ Goto(t, IF todo[t] = {p} THEN "use" ELSE "token")
  BY DEF Bound
<1>2. p \in todo[t] /\ p \in Paths /\ NextPath(todo[t]) = {p}
  BY SMTT(30), PathIsUnique DEF TypeOK
<1>3. TypeOK'
  BY SMTT(30), <1>1, <1>2 DEF Bound, TypeOK, Goto, Steps
<1>4. KernelExclusion'
  BY ExclusionKept DEF Bound
<1>5. owned'[t] = owned[t] \cup {p} /\ todo'[t] = todo[t] \ {p} /\ pc'[t] \in {"use", "token"}
      /\ \A u \in Threads \ {t} : owned'[u] = owned[u] /\ todo'[u] = todo[u] /\ pc'[u] = pc[u]
  BY <1>1 DEF TypeOK, Goto
<1>6. fd[t][p] # None
  BY <1>2 DEF Bound, ThreadFacts
<1>7. file[p] = fd[t][p]
  BY <1>1, <1>2, <1>6 DEF NamedByPath, boundToPath
<1>8. NamedByPath'
  BY SMTT(30), <1>5, <1>7 DEF Bound, NamedByPath
<1>9. p \in locked[t]
  BY <1>2 DEF Bound, ThreadFacts
<1>10. ThreadFacts(t)'
  BY SMTT(30), <1>2, <1>5, <1>9 DEF Bound, ThreadFacts, Extra
<1>11. \A u \in Threads \ {t} : ThreadFacts(u)'
  BY <1>5, OthersKeep DEF Bound
<1> QED
  BY <1>3, <1>4, <1>8, <1>10, <1>11

LEMMA StaleKeeps ==
    ASSUME LockInv, NEW t \in Threads, Stale(t)
    PROVE  LockInv'
<1>1. PICK p \in NextPath(todo[t]) :
          /\ CloseFd(t, p)
          /\ \/ mode[t].wait /\ Goto(t, "open") /\ UNCHANGED <<token, todo, mode>>
             \/ ~mode[t].wait /\ ReturnToken(t, p) /\ Return(t)
  BY DEF Stale
<1>2. /\ p \in Paths /\ p \in todo[t] /\ p \notin owned[t]
      /\ locked[t] \ {p} \subseteq owned[t] /\ pc[t] = "bound"
  BY PathIsUnique DEF LockInv, TypeOK, ThreadFacts, Extra, Stale
<1>3. CASE Goto(t, "open") /\ UNCHANGED <<token, todo, mode>>
  <2> USE DEF LockInv
  <2>1. TypeOK'
    BY <1>1, <1>2, <1>3, CloseKeeps DEF Stale, TypeOK, Goto, Steps
  <2>2. KernelExclusion'
    <3>1. \A u \in Threads : \A q \in Paths : q \in locked'[u] =>
              q \in locked[u] /\ fd'[u][q] = fd[u][q]
      <4>1. /\ locked'[t] = locked[t] \ {p}
            /\ \A q \in Paths \ {p} : fd'[t][q] = fd[t][q]
            /\ \A u \in Threads \ {t} : fd'[u] = fd[u] /\ locked'[u] = locked[u]
        BY <1>1, <1>2, CloseKeeps DEF Stale
      <4> QED
        BY <4>1
    <3> QED
      BY <1>3, <3>1, ExclusionKept
  <2>3. ThreadFacts(t)'
    <3>1. pc'[t] = "open" /\ owned'[t] = owned[t]
      BY <1>3 DEF Stale, Goto, TypeOK
    <3>2. owned[t] \subseteq locked'[t] /\ locked'[t] \subseteq owned[t]
          /\ \A q \in locked'[t] : fd'[t][q] # None
      <4>1. locked'[t] = locked[t] \ {p} /\ \A q \in Paths \ {p} : fd'[t][q] = fd[t][q]
        BY <1>1, <1>2, CloseKeeps DEF Stale
      <4>2. /\ owned[t] \subseteq locked[t] /\ locked[t] \subseteq Paths
            /\ \A q \in locked[t] : fd[t][q] # None
        BY DEF ThreadFacts, TypeOK
      <4> QED
        BY <1>2, <4>1, <4>2
    <3> QED
      BY <1>3, <3>1, <3>2 DEF ThreadFacts, Extra
  <2>4. \A u \in Threads \ {t} : ThreadFacts(u)'
    BY <1>1, <1>2, <1>3, CloseKeeps, OthersKeep DEF Stale, Goto, TypeOK
  <2> QED
    BY <1>1, <1>2, <2>1, <2>2, <2>3, <2>4, CloseKeeps DEF Stale
<1>4. CASE ReturnToken(t, p) /\ Return(t)
  BY <1>1, <1>2, <1>4, CloseAndReturn DEF Stale
<1> QED
  BY <1>1, <1>3, <1>4

LEMMA UseKeeps ==
    ASSUME LockInv, NEW t \in Threads, Use(t)
    PROVE  LockInv'
<1> USE DEF LockInv
<1>1. TypeOK'
  BY DEF Use, TypeOK, Goto, Steps
<1>2. KernelExclusion' /\ NamedByPath'
  BY ExclusionKept DEF Use, NamedByPath
<1>3. ThreadFacts(t)'
  BY DEF Use, ThreadFacts, Extra, Goto, TypeOK
<1>4. \A u \in Threads \ {t} : ThreadFacts(u)'
  BY OthersKeep DEF Use, Goto, TypeOK
<1> QED
  BY <1>1, <1>2, <1>3, <1>4

(* Only the owner removes a name, and the owner of a transient lock is      *)
(* alone: another owner would hold the kernel lock of the same inode.       *)
LEMMA ReleaseKeeps ==
    ASSUME LockInv, NEW t \in Threads, Release(t)
    PROVE  LockInv'
<1> USE DEF LockInv
<1>1. PICK p \in LastPath(owned[t]) :
          /\ owned' = [owned EXCEPT ![t] = @ \ {p}]
          /\ todo' = [todo EXCEPT ![t] = {p}]
          /\ \/ p \notin Transient /\ UNCHANGED <<file, faults>>
             \/ p \in Transient /\ file' = [file EXCEPT ![p] = None] /\ UNCHANGED faults
             \/ p \in Transient /\ faults < MaxFaults /\ faults' = faults + 1 /\ UNCHANGED file
  BY DEF Release
<1>2. p \in owned[t] /\ p \in Paths
  BY PathIsUnique DEF TypeOK
<1>3. TypeOK'
  BY SMTT(30), <1>1, <1>2, FaultsAssumption DEF Release, TypeOK, Goto, Steps
<1>4. KernelExclusion'
  BY ExclusionKept DEF Release
<1>5. /\ owned'[t] = owned[t] \ {p} /\ todo'[t] = {p} /\ pc'[t] = "close"
      /\ \A u \in Threads \ {t} : owned'[u] = owned[u] /\ todo'[u] = todo[u] /\ pc'[u] = pc[u]
      /\ \A q \in Paths : q # p \/ p \notin Transient => file'[q] = file[q]
  BY <1>1, <1>2 DEF Release, Goto, TypeOK
<1>6. \A u \in Threads \ {t} : p \in Transient => p \notin owned[u]
  <2> SUFFICES ASSUME NEW u \in Threads \ {t}, p \in Transient, p \in owned[u]
               PROVE  FALSE
    OBVIOUS
  <2>1. fd[t][p] = fd[u][p] /\ p \in locked[t] /\ p \in locked[u]
    BY SMTT(30), <1>2 DEF NamedByPath, ThreadFacts
  <2>2. ~Conflict(t, u)
    BY <2>1, <1>2 DEF KernelExclusion
  <2>3. ~mode[t].shared
    BY <1>2 DEF ThreadFacts
  <2> QED
    BY <2>2, <2>3 DEF Conflict
<1>7. NamedByPath'
  BY SMTT(30), <1>5, <1>6 DEF Release, NamedByPath
<1>8. ThreadFacts(t)'
  BY SMTT(30), <1>2, <1>5 DEF Release, ThreadFacts, Extra
<1>9. \A u \in Threads \ {t} : ThreadFacts(u)'
  BY <1>5, OthersKeep DEF Release
<1> QED
  BY <1>3, <1>4, <1>7, <1>8, <1>9

LEMMA CloseStepKeeps ==
    ASSUME LockInv, NEW t \in Threads, Close(t)
    PROVE  LockInv'
<1>1. PICK p \in todo[t] : CloseFd(t, p) /\ ReturnToken(t, p)
  BY DEF Close
<1>2. p \in Paths /\ p \notin owned[t] /\ locked[t] \ {p} \subseteq owned[t]
  BY SMTT(30) DEF LockInv, TypeOK, ThreadFacts, Extra, Close
<1> QED
  BY <1>1, <1>2, CloseAndReturn DEF Close

(* The kernel releases what the dead held and leaves every name.            *)
LEMMA DieKeeps ==
    ASSUME LockInv, NEW D \in SUBSET Threads, Die(D)
    PROVE  LockInv'
<1> USE DEF LockInv
<1>1. \A u \in D : /\ fd'[u] = [p \in Paths |-> None] /\ locked'[u] = {} /\ owned'[u] = {}
                   /\ todo'[u] = {} /\ pc'[u] = "idle" /\ mode'[u] = NoMode
  BY DEF Die
<1>2. \A u \in Threads \ D : /\ fd'[u] = fd[u] /\ locked'[u] = locked[u] /\ owned'[u] = owned[u]
                             /\ todo'[u] = todo[u] /\ pc'[u] = pc[u] /\ mode'[u] = mode[u]
  BY DEF Die
<1>3. TypeOK'
  BY SMTT(30), FaultsAssumption DEF Die, TypeOK, Steps, Modes, NoMode
<1>4. KernelExclusion'
  BY <1>1, <1>2, ExclusionKept
<1>5. NamedByPath'
  BY SMTT(30), <1>1, <1>2 DEF Die, NamedByPath
<1>6. \A u \in D : ThreadFacts(u)'
  BY <1>1 DEF ThreadFacts, Extra
<1>7. \A u \in Threads \ D : ThreadFacts(u)'
  BY <1>2, OthersKeep
<1> QED
  BY <1>3, <1>4, <1>5, <1>6, <1>7

-----------------------------------------------------------------------------

LEMMA NextKeepsInv == LockInv /\ [Next]_vars => LockInv'
<1> SUFFICES ASSUME LockInv, [Next]_vars PROVE LockInv'
  OBVIOUS
<1>1. CASE Next
  BY <1>1, RequestKeeps, TakeTokenKeeps, OpenKeeps, FlockKeeps, GiveUpKeeps, BoundKeeps,
     StaleKeeps, UseKeeps, ReleaseKeeps, CloseStepKeeps, DieKeeps DEF Next
<1>2. CASE UNCHANGED vars
  <2> USE DEF vars, LockInv
  <2>1. TypeOK' /\ NamedByPath'
    BY <1>2 DEF TypeOK, NamedByPath
  <2>2. KernelExclusion'
    BY <1>2, ExclusionKept
  <2>3. \A u \in Threads : ThreadFacts(u)'
    BY <1>2, OthersKeep
  <2> QED
    BY <2>1, <2>2, <2>3
<1> QED
  BY <1>1, <1>2

(* Owners hold the kernel lock of the inode their path names, in every run. *)
THEOREM LockInvariant == Spec => []LockInv
BY InitInv, NextKeepsInv, PTL DEF Spec

(* Mutual exclusion of lock.go: whoever acquire or TryLock returned to is   *)
(* alone with the path unless all its owners hold it shared, although the   *)
(* files of transient locks are removed while others queue on their inode.  *)
THEOREM LocksExclude == Spec => []OneOwner
<1>1. LockInv => OneOwner
  <2> SUFFICES ASSUME LockInv, NEW t \in Threads, NEW u \in Threads, t # u,
                      NEW p \in owned[t] \cap owned[u]
               PROVE  ~Conflict(t, u)
    BY DEF OneOwner
  <2> USE DEF LockInv
  <2>1. p \in Paths /\ fd[t][p] = fd[u][p] /\ p \in locked[t] /\ p \in locked[u]
    BY SMTT(30) DEF NamedByPath, ThreadFacts, TypeOK
  <2> QED
    BY <2>1 DEF KernelExclusion
<1> QED
  BY <1>1, LockInvariant, PTL

(* Why nobody waits in a circle.  An inode belongs to one path, a thread     *)
(* waits for a path above all those it owns, and the holder of a token has   *)
(* got past the token of its only path.                                      *)

InodesOwnNames ==
    /\ \A p, q \in Paths : file[p] # None /\ file[p] = file[q] => p = q
    /\ \A t \in Threads : \A p, q \in Paths : fd[t][p] # None /\ fd[t][p] = file[q] => p = q
    /\ \A t, u \in Threads : \A p, q \in Paths : fd[t][p] # None /\ fd[t][p] = fd[u][q] => p = q

ThreadOrder(t) ==
    /\ pc[t] \in {"token", "open", "flock", "bound"} => \A p \in owned[t], q \in todo[t] : p < q
    /\ mode[t].common => \A p, q \in todo[t] \cup owned[t] : p = q
    /\ \A p \in Paths : token[p] = t => /\ mode[t].common /\ p \in todo[t] \cup owned[t]
                                        /\ pc[t] \notin {"idle", "token"}

OrderInv == LockInv /\ InodesOwnNames /\ \A t \in Threads : ThreadOrder(t)

-----------------------------------------------------------------------------
LEMMA NamesShrink ==
    ASSUME InodesOwnNames,
           \A p \in Paths : file'[p] = file[p] \/ file'[p] = None,
           \A t \in Threads, p \in Paths : fd'[t][p] = fd[t][p] \/ fd'[t][p] = None
    PROVE  InodesOwnNames'
BY SMTT(30) DEF InodesOwnNames

LEMMA NamesStay ==
    ASSUME InodesOwnNames, UNCHANGED <<file, fd>>
    PROVE  InodesOwnNames'
BY SMTT(30) DEF InodesOwnNames

LEMMA OthersOrder ==
    ASSUME NEW u \in Threads, ThreadOrder(u),
           owned'[u] = owned[u], pc'[u] = pc[u], todo'[u] = todo[u], mode'[u] = mode[u],
           \A p \in Paths : token'[p] = u => token[p] = u
    PROVE  ThreadOrder(u)'
BY DEF ThreadOrder

LEMMA OrderInit == Init => OrderInv
<1> SUFFICES ASSUME Init PROVE OrderInv
  OBVIOUS
<1>1. InodesOwnNames
  BY DEF Init, InodesOwnNames
<1>2. ASSUME NEW t \in Threads PROVE ThreadOrder(t)
  BY NoneAssumption DEF Init, ThreadOrder, NoMode
<1> QED
  BY <1>1, <1>2, InitInv DEF OrderInv

LEMMA OrderRequest ==
    ASSUME OrderInv, NEW t \in Threads, Request(t)
    PROVE  InodesOwnNames' /\ \A u \in Threads : ThreadOrder(u)'
<1> USE DEF OrderInv, LockInv
<1>1. InodesOwnNames'
  BY NamesStay DEF Request
<1>2. PICK S \in SUBSET Paths, m \in Modes :
          /\ m.common => \E p \in S : S = {p}
          /\ todo' = [todo EXCEPT ![t] = S]
          /\ mode' = [mode EXCEPT ![t] = m]
  BY DEF Request
<1>3. owned[t] = {} /\ \A p \in Paths : token[p] # t
  BY DEF Request, ThreadFacts, ThreadOrder
<1>4. todo'[t] = S /\ mode'[t] = m /\ owned' = owned /\ token' = token
  BY <1>2 DEF Request, TypeOK
<1>5. ThreadOrder(t)'
  BY SMTT(30), <1>2, <1>3, <1>4 DEF ThreadOrder
<1>6. ASSUME NEW u \in Threads \ {t} PROVE ThreadOrder(u)'
  BY OthersOrder DEF Request, Goto, TypeOK
<1> QED
  BY <1>1, <1>5, <1>6

LEMMA OrderTakeToken ==
    ASSUME OrderInv, NEW t \in Threads, TakeToken(t)
    PROVE  InodesOwnNames' /\ \A u \in Threads : ThreadOrder(u)'
<1> USE DEF OrderInv, LockInv
<1>1. InodesOwnNames'
  BY NamesStay DEF TakeToken
<1>2. PICK p \in NextPath(todo[t]) :
        \/ ~mode[t].common /\ UNCHANGED token
        \/ /\ mode[t].common /\ token[p] = None
           /\ token' = [token EXCEPT ![p] = t]
  BY DEF TakeToken
<1>3. p \in todo[t] /\ p \in Paths
  BY PathIsUnique DEF TypeOK
<1>4. /\ pc[t] = "token" /\ pc'[t] = "open" /\ UNCHANGED <<owned, todo, mode>>
      /\ \A u \in Threads \ {t} : pc'[u] = pc[u]
  BY DEF TakeToken, Goto, TypeOK
<1>5. /\ \A q \in Paths : token'[q] = t => token[q] = t \/ (q = p /\ mode[t].common)
      /\ \A q \in Paths, u \in Threads \ {t} : token'[q] = u => token[q] = u
  BY <1>2, <1>3 DEF TypeOK
<1>6. ThreadOrder(t)'
  BY SMTT(30), <1>3, <1>4, <1>5 DEF ThreadOrder
<1>7. ASSUME NEW u \in Threads \ {t} PROVE ThreadOrder(u)'
  BY <1>4, <1>5, OthersOrder
<1> QED
  BY <1>1, <1>6, <1>7

(* A new file gets an inode that nothing refers to.                          *)
LEMMA OrderOpen ==
    ASSUME OrderInv, NEW t \in Threads, Open(t)
    PROVE  InodesOwnNames' /\ \A u \in Threads : ThreadOrder(u)'
<1> USE DEF OrderInv, LockInv
<1>1. PICK p \in NextPath(todo[t]) :
          /\ \/ file[p] # None /\ UNCHANGED file
             \/ file[p] = None /\ \E i \in Inodes : Unused(i) /\ file' = [file EXCEPT ![p] = i]
          /\ fd' = [fd EXCEPT ![t][p] = file'[p]]
  BY DEF Open
<1>2. p \in todo[t] /\ p \in Paths
  BY PathIsUnique DEF TypeOK
<1>3. fd'[t][p] = file'[p] /\ \A u \in Threads, q \in Paths : u # t \/ q # p => fd'[u][q] = fd[u][q]
  BY <1>1, <1>2 DEF TypeOK
<1>4. /\ \A q \in Paths : file'[p] = file'[q] => p = q
      /\ \A u \in Threads, q \in Paths : fd[u][q] = file'[p] => q = p
      /\ \A q \in Paths : q # p => file'[q] = file[q]
  <2>1. CASE file[p] # None /\ UNCHANGED file
    BY <1>2, <2>1 DEF InodesOwnNames
  <2>2. CASE file[p] = None /\ \E i \in Inodes : Unused(i) /\ file' = [file EXCEPT ![p] = i]
    <3>1. PICK i \in Inodes : Unused(i) /\ file' = [file EXCEPT ![p] = i]
      BY <2>2
    <3>2. file'[p] = i /\ \A q \in Paths : q # p => file'[q] = file[q]
      BY <1>2, <3>1 DEF TypeOK
    <3> QED
      BY <3>1, <3>2, <1>2 DEF Unused
  <2> QED
    BY <1>1, <2>1, <2>2
<1>5. InodesOwnNames'
  <2>1. \A q, r \in Paths : file'[q] # None /\ file'[q] = file'[r] => q = r
    BY ZenonT(30), <1>2, <1>4 DEF InodesOwnNames
  <2>2. \A u \in Threads : \A q, r \in Paths : fd'[u][q] # None /\ fd'[u][q] = file'[r] => q = r
    BY SMTT(30), <1>2, <1>3, <1>4 DEF InodesOwnNames
  <2>3. \A u, v \in Threads : \A q, r \in Paths : fd'[u][q] # None /\ fd'[u][q] = fd'[v][r] => q = r
    BY SMTT(30), <1>2, <1>3, <1>4 DEF InodesOwnNames
  <2> QED
    BY <2>1, <2>2, <2>3 DEF InodesOwnNames
<1>6. /\ pc[t] = "open" /\ pc'[t] = "flock" /\ UNCHANGED <<owned, todo, mode, token>>
      /\ \A u \in Threads \ {t} : pc'[u] = pc[u]
  BY DEF Open, Goto, TypeOK
<1>7. ThreadOrder(t)'
  BY SMTT(30), <1>6 DEF ThreadOrder
<1>8. ASSUME NEW u \in Threads \ {t} PROVE ThreadOrder(u)'
  BY <1>6, OthersOrder
<1> QED
  BY <1>5, <1>7, <1>8

(* A thread that goes on with what it asked for and what it owns.            *)
LEMMA OrderGoesOn ==
    ASSUME OrderInv, NEW t \in Threads, NEW s \in {"flock", "bound", "release"},
           pc[t] \in {"open", "flock", "use"}, pc[t] = "use" => s = "release",
           Goto(t, s), UNCHANGED <<file, fd, owned, token, todo, mode>>
    PROVE  InodesOwnNames' /\ \A u \in Threads : ThreadOrder(u)'
<1> USE DEF OrderInv, LockInv
<1>1. InodesOwnNames'
  BY NamesStay
<1>2. pc'[t] = s /\ \A u \in Threads \ {t} : pc'[u] = pc[u]
  BY DEF Goto, TypeOK
<1>3. ThreadOrder(t)'
  BY SMTT(30), <1>2 DEF ThreadOrder
<1>4. ASSUME NEW u \in Threads \ {t} PROVE ThreadOrder(u)'
  BY <1>2, OthersOrder
<1> QED
  BY <1>1, <1>3, <1>4

(* Closing a descriptor leaves the inodes with their paths.                  *)
LEMMA OrderClose ==
    ASSUME OrderInv, NEW t \in Threads, NEW p \in Paths, CloseFd(t, p), UNCHANGED file
    PROVE  InodesOwnNames'
<1>1. \A u \in Threads, q \in Paths : fd'[u][q] = fd[u][q] \/ fd'[u][q] = None
  BY DEF CloseFd, OrderInv, LockInv, TypeOK
<1> QED
  BY <1>1, NamesShrink DEF OrderInv

(* A caller that gets back what it owns holds the token of nothing else.     *)
LEMMA OrderReturn ==
    ASSUME OrderInv, NEW t \in Threads, NEW p \in Paths, p \notin owned[t],
           mode[t].common => \A q \in todo[t] : q = p,
           p \in todo[t], ReturnToken(t, p), Return(t), UNCHANGED owned
    PROVE  \A u \in Threads : ThreadOrder(u)'
<1> USE DEF OrderInv, LockInv
<1>1. /\ todo'[t] = {} /\ pc'[t] \in {"idle", "release"} /\ owned' = owned
      /\ mode'[t] = (IF owned[t] = {} THEN NoMode ELSE mode[t])
      /\ \A u \in Threads \ {t} : todo'[u] = todo[u] /\ mode'[u] = mode[u] /\ pc'[u] = pc[u]
  BY DEF Return, Goto, TypeOK
<1>2. /\ \A q \in Paths : q # p => token'[q] = token[q]
      /\ token'[p] = (IF token[p] = t THEN None ELSE token[p])
  BY DEF ReturnToken, TypeOK
<1>3. ASSUME NEW u \in Threads, NEW q \in Paths, token'[q] = u PROVE token[q] = u
  BY SMTT(30), <1>2, <1>3, NoneAssumption
<1>4. ASSUME NEW q \in Paths PROVE token'[q] # t
  <2> SUFFICES ASSUME token'[q] = t PROVE FALSE
    OBVIOUS
  <2>1. q # p /\ token[q] = t
    BY <1>2, NoneAssumption
  <2> QED
    BY <2>1 DEF ThreadOrder
<1>5. ThreadOrder(t)'
  <2>1. mode'[t].common => \A q, r \in owned[t] : q = r
    BY SMTT(30), <1>1 DEF ThreadOrder, NoMode
  <2> QED
    BY <1>1, <1>4, <2>1 DEF ThreadOrder
<1>6. ASSUME NEW u \in Threads \ {t} PROVE ThreadOrder(u)'
  BY <1>1, <1>3, OthersOrder
<1> QED
  BY <1>5, <1>6

LEMMA OrderGiveUp ==
    ASSUME OrderInv, NEW t \in Threads, GiveUp(t)
    PROVE  InodesOwnNames' /\ \A u \in Threads : ThreadOrder(u)'
<1>1. PICK p \in NextPath(todo[t]) : CloseFd(t, p) /\ ReturnToken(t, p)
  BY DEF GiveUp
<1>2. p \in Paths /\ p \in todo[t] /\ p \notin owned[t] /\ (mode[t].common => \A q \in todo[t] : q = p)
  BY SMTT(30), PathIsUnique DEF OrderInv, LockInv, TypeOK, ThreadFacts, ThreadOrder
<1>3. Return(t) /\ UNCHANGED <<file, owned>>
  BY DEF GiveUp
<1> QED
  BY <1>1, <1>2, <1>3, OrderClose, OrderReturn

LEMMA OrderCloseStep ==
    ASSUME OrderInv, NEW t \in Threads, Close(t)
    PROVE  InodesOwnNames' /\ \A u \in Threads : ThreadOrder(u)'
<1>1. PICK p \in todo[t] : CloseFd(t, p) /\ ReturnToken(t, p)
  BY DEF Close
<1>2. p \in Paths /\ p \notin owned[t] /\ (mode[t].common => \A q \in todo[t] : q = p)
  BY SMTT(30) DEF OrderInv, LockInv, TypeOK, ThreadFacts, ThreadOrder
<1>3. Return(t) /\ UNCHANGED <<file, owned>>
  BY DEF Close
<1> QED
  BY <1>1, <1>2, <1>3, OrderClose, OrderReturn

LEMMA OrderStale ==
    ASSUME OrderInv, NEW t \in Threads, Stale(t)
    PROVE  InodesOwnNames' /\ \A u \in Threads : ThreadOrder(u)'
<1>1. PICK p \in NextPath(todo[t]) :
          /\ CloseFd(t, p)
          /\ \/ mode[t].wait /\ Goto(t, "open") /\ UNCHANGED <<token, todo, mode>>
             \/ ~mode[t].wait /\ ReturnToken(t, p) /\ Return(t)
  BY DEF Stale
<1>2. p \in Paths /\ p \in todo[t] /\ p \notin owned[t] /\ (mode[t].common => \A q \in todo[t] : q = p)
  BY SMTT(30), PathIsUnique DEF OrderInv, LockInv, TypeOK, ThreadFacts, ThreadOrder
<1>3. pc[t] = "bound" /\ UNCHANGED <<file, owned>>
  BY DEF Stale
<1>4. InodesOwnNames'
  BY <1>1, <1>2, <1>3, OrderClose
<1>5. CASE ReturnToken(t, p) /\ Return(t)
  BY <1>2, <1>3, <1>4, <1>5, OrderReturn
<1>6. CASE Goto(t, "open") /\ UNCHANGED <<token, todo, mode>>
  <2>1. pc'[t] = "open" /\ \A u \in Threads \ {t} : pc'[u] = pc[u]
    BY <1>6 DEF Goto, OrderInv, LockInv, TypeOK
  <2>2. ThreadOrder(t)'
    BY SMTT(30), <1>3, <1>6, <2>1 DEF ThreadOrder, OrderInv
  <2>3. ASSUME NEW u \in Threads \ {t} PROVE ThreadOrder(u)'
    BY <1>3, <1>6, <2>1, OthersOrder DEF OrderInv
  <2> QED
    BY <1>4, <2>2, <2>3
<1> QED
  BY <1>1, <1>5, <1>6

(* The next path of the set is above the one just acquired.                  *)
LEMMA OrderBound ==
    ASSUME OrderInv, NEW t \in Threads, Bound(t)
    PROVE  InodesOwnNames' /\ \A u \in Threads : ThreadOrder(u)'
<1> USE DEF OrderInv, LockInv
<1>1. PICK p \in NextPath(todo[t]) :
          /\ owned' = [owned EXCEPT ![t] = @ \cup {p}]
          /\ todo' = [todo EXCEPT ![t] = @ \ {p}]
          /\ Goto(t, IF todo[t] = {p} THEN "use" ELSE "token")
  BY DEF Bound
<1>2. /\ owned'[t] = owned[t] \cup {p} /\ todo'[t] = todo[t] \ {p}
      /\ pc'[t] = (IF todo[t] = {p} THEN "use" ELSE "token")
      /\ \A u \in Threads \ {t} : owned'[u] = owned[u] /\ todo'[u] = todo[u] /\ pc'[u] = pc[u]
  BY <1>1 DEF Goto, TypeOK
<1>3. InodesOwnNames'
  BY NamesStay DEF Bound
<1>4. p \in todo[t] /\ \A q \in todo[t] \ {p} : p < q
  <2>1. p \in todo[t] /\ \A q \in todo[t] : p <= q
    BY DEF NextPath
  <2>2. todo[t] \subseteq Nat
    BY PathsAssumption DEF TypeOK
  <2> QED
    BY SMTT(30), <2>1, <2>2
<1>5. pc[t] = "bound" /\ UNCHANGED <<mode, token>>
  BY DEF Bound
<1>6. ThreadOrder(t)'
  <2>1. \A q \in owned'[t], r \in todo'[t] : q < r
    BY SMTT(30), <1>2, <1>4, <1>5 DEF ThreadOrder
  <2>2. todo'[t] \cup owned'[t] = todo[t] \cup owned[t]
    BY <1>2, <1>4
  <2>3. ASSUME mode[t].common PROVE \A q, r \in todo[t] \cup owned[t] : q = r
    BY <2>3 DEF ThreadOrder
  <2>4. \A q \in Paths : token[q] = t => pc'[t] # "token"
    BY SMTT(30), <1>2, <1>4 DEF ThreadOrder
  <2>5. pc'[t] # "idle"
    BY <1>2
  <2> QED
    BY <1>5, <2>1, <2>2, <2>3, <2>4, <2>5 DEF ThreadOrder
<1>7. ASSUME NEW u \in Threads \ {t} PROVE ThreadOrder(u)'
  BY <1>2, <1>5, OthersOrder
<1> QED
  BY <1>3, <1>6, <1>7

LEMMA OrderRelease ==
    ASSUME OrderInv, NEW t \in Threads, Release(t)
    PROVE  InodesOwnNames' /\ \A u \in Threads : ThreadOrder(u)'
<1> USE DEF OrderInv, LockInv
<1>1. PICK p \in LastPath(owned[t]) :
          /\ owned' = [owned EXCEPT ![t] = @ \ {p}]
          /\ todo' = [todo EXCEPT ![t] = {p}]
          /\ file' = file \/ file' = [file EXCEPT ![p] = None]
  BY DEF Release
<1>2. /\ owned'[t] = owned[t] \ {p} /\ todo'[t] = {p} /\ p \in owned[t] /\ p \in Paths
      /\ pc'[t] = "close" /\ UNCHANGED <<mode, token, fd>>
      /\ \A u \in Threads \ {t} : owned'[u] = owned[u] /\ todo'[u] = todo[u] /\ pc'[u] = pc[u]
  BY SMTT(30), <1>1, PathIsUnique DEF Release, Goto, TypeOK
<1>3. \A q \in Paths : file'[q] = file[q] \/ file'[q] = None
  BY <1>1 DEF TypeOK
<1>4. InodesOwnNames'
  BY <1>2, <1>3, NamesShrink
<1>5. ThreadOrder(t)'
  <2>1. todo'[t] \cup owned'[t] = owned[t]
    BY <1>2
  <2>2. mode[t].common => \A q, r \in owned[t] : q = r
    BY DEF ThreadOrder
  <2>3. ASSUME NEW q \in Paths, token[q] = t PROVE mode[t].common /\ q \in owned[t]
    BY SMTT(30), <2>3, <1>2 DEF ThreadOrder
  <2> QED
    BY <1>2, <2>1, <2>2, <2>3 DEF ThreadOrder
<1>6. ASSUME NEW u \in Threads \ {t} PROVE ThreadOrder(u)'
  BY <1>2, OthersOrder
<1> QED
  BY <1>4, <1>5, <1>6

LEMMA OrderDie ==
    ASSUME OrderInv, NEW K \in SUBSET Threads, Die(K)
    PROVE  InodesOwnNames' /\ \A u \in Threads : ThreadOrder(u)'
<1> USE DEF OrderInv, LockInv
<1>1. \A u \in K : fd'[u] = [p \in Paths |-> None] /\ owned'[u] = {} /\ todo'[u] = {} /\ pc'[u] = "idle"
  BY DEF Die
<1>2. \A u \in Threads \ K : fd'[u] = fd[u] /\ owned'[u] = owned[u] /\ todo'[u] = todo[u]
                             /\ pc'[u] = pc[u] /\ mode'[u] = mode[u]
  BY DEF Die
<1>3. \A p \in Paths : token'[p] = (IF token[p] \in K THEN None ELSE token[p])
  BY DEF Die
<1>4. InodesOwnNames'
  BY ZenonT(30), <1>1, <1>2, NamesShrink DEF Die
<1>5. ASSUME NEW u \in K PROVE ThreadOrder(u)'
  BY SMTT(30), <1>1, <1>3, NoneAssumption DEF ThreadOrder
<1>6. ASSUME NEW u \in Threads \ K PROVE ThreadOrder(u)'
  BY <1>2, <1>3, OthersOrder, NoneAssumption
<1> QED
  BY <1>4, <1>5, <1>6

LEMMA NextKeepsOrder == OrderInv /\ [Next]_vars => OrderInv'
<1> SUFFICES ASSUME OrderInv, [Next]_vars PROVE OrderInv'
  OBVIOUS
<1>1. LockInv'
  BY NextKeepsInv DEF OrderInv
<1>2. CASE UNCHANGED vars
  <2>1. InodesOwnNames'
    BY <1>2, NamesStay DEF vars, OrderInv
  <2>2. \A u \in Threads : ThreadOrder(u)'
    BY <1>2, OthersOrder DEF vars, OrderInv
  <2> QED
    BY <1>1, <2>1, <2>2 DEF OrderInv
<1>3. CASE \E K \in SUBSET Threads : Die(K)
  BY <1>1, <1>3, OrderDie DEF OrderInv
<1>4. ASSUME NEW t \in Threads, Flock(t) \/ Use(t) PROVE OrderInv'
  <2>1. InodesOwnNames' /\ \A u \in Threads : ThreadOrder(u)'
    BY <1>4, OrderGoesOn DEF Flock, Use
  <2> QED
    BY <1>1, <2>1 DEF OrderInv
<1>5. ASSUME NEW t \in Threads, Request(t) \/ TakeToken(t) \/ Open(t) \/ GiveUp(t) PROVE OrderInv'
  BY <1>1, <1>5, OrderRequest, OrderTakeToken, OrderOpen, OrderGiveUp DEF OrderInv
<1>6. ASSUME NEW t \in Threads, Bound(t) \/ Stale(t) \/ Release(t) \/ Close(t) PROVE OrderInv'
  BY <1>1, <1>6, OrderBound, OrderStale, OrderRelease, OrderCloseStep DEF OrderInv
<1> QED
  BY <1>2, <1>3, <1>4, <1>5, <1>6 DEF Next

(* How far a thread that waits has got: its path, and past the token or not. *)
Front(t) == CHOOSE p \in NextPath(todo[t]) : TRUE
Rank(t) == 2 * Front(t) + (IF pc[t] = "flock" THEN 1 ELSE 0)

LEMMA FrontIsNext ==
    ASSUME LockInv, NEW t \in Threads, NEW p \in NextPath(todo[t])
    PROVE  Front(t) = p /\ p \in todo[t] /\ p \in Paths /\ p \in Nat /\ Rank(t) \in Nat
<1>1. Front(t) \in NextPath(todo[t])
  BY DEF Front
<1>2. Front(t) = p /\ p \in todo[t] /\ p \in Paths
  BY <1>1, PathIsUnique DEF LockInv, TypeOK
<1>3. p \in Nat
  BY <1>2, PathsAssumption
<1> QED
  BY SMTT(30), <1>2, <1>3 DEF Rank

(* Who is waited for and waits has got further.                              *)
LEMMA WaitingClimbs ==
    ASSUME OrderInv, NEW t \in Threads, NEW u \in Threads, NEW v \in Threads,
           WaitsFor(t, u), WaitsFor(u, v)
    PROVE  Rank(t) \in Nat /\ Rank(u) \in Nat /\ Rank(t) < Rank(u)
<1> USE DEF OrderInv
<1>1. PICK p \in NextPath(todo[t]) :
        \/ /\ pc[t] = "flock" /\ mode[t].wait
           /\ \E q \in locked[u] : fd[u][q] = fd[t][p] /\ Conflict(t, u)
        \/ pc[t] = "token" /\ mode[t].wait /\ mode[t].common /\ token[p] = u
  BY DEF WaitsFor
<1>2. PICK r \in NextPath(todo[u]) : pc[u] \in {"flock", "token"}
  BY DEF WaitsFor
<1>3. Front(t) = p /\ p \in todo[t] /\ p \in Paths /\ p \in Nat /\ Rank(t) \in Nat
  BY FrontIsNext
<1>4. Front(u) = r /\ r \in todo[u] /\ r \in Paths /\ r \in Nat /\ Rank(u) \in Nat
  BY FrontIsNext
<1>5. CASE pc[t] = "flock" /\ \E q \in locked[u] : fd[u][q] = fd[t][p]
  <2>1. PICK q \in locked[u] : fd[u][q] = fd[t][p]
    BY <1>5
  <2>2. q \in owned[u] /\ q \in Paths /\ fd[u][q] # None
    BY <1>2, <2>1 DEF LockInv, ThreadFacts, Extra, TypeOK
  <2>3. q = p
    <3>1. \A x, y \in Threads : \A a, b \in Paths : fd[x][a] # None /\ fd[x][a] = fd[y][b] => a = b
      BY DEF InodesOwnNames
    <3>2. \A b \in Paths : fd[u][q] # None /\ fd[u][q] = fd[t][b] => q = b
      BY ONLY u \in Threads, t \in Threads, <2>2, <3>1
    <3> QED
      BY ONLY <1>3, <2>1, <2>2, <3>2
  <2>4. p < r
    BY <1>2, <1>4, <2>2, <2>3 DEF ThreadOrder
  <2> QED
    BY SMTT(30), <1>3, <1>4, <2>4 DEF Rank
<1>6. CASE pc[t] = "token" /\ token[p] = u
  <2>1. mode[u].common /\ p \in todo[u] \cup owned[u] /\ pc[u] # "token"
    BY <1>3, <1>6 DEF ThreadOrder
  <2>2. p = r
    BY <1>4, <2>1 DEF ThreadOrder
  <2> QED
    BY SMTT(30), <1>2, <1>3, <1>4, <1>6, <2>1, <2>2 DEF Rank
<1> QED
  BY <1>1, <1>5, <1>6

(* Set.acquire sorts its paths: threads that wait for each other do not do   *)
(* so in a circle, however many there are and whatever sets they acquire.    *)
THEOREM NobodyWaitsInACircle == Spec => []NoWaitCycle
<1>1. OrderInv => NoWaitCycle
  <2> SUFFICES ASSUME OrderInv, NEW S \in (SUBSET Threads) \ {{}},
                      \A t \in S : \E u \in S \ {t} : WaitsFor(t, u)
               PROVE  FALSE
    BY DEF NoWaitCycle
  <2> DEFINE Above(t) == {u \in S : Rank(t) < Rank(u)}
             T == {Above(t) : t \in S}
  <2>1. IsFiniteSet(S) /\ S # {}
    BY ThreadsAssumption, FS_Subset
  <2>2. IsWellFoundedOn(StrictSubsetOrdering(S), FiniteSubsetsOf(S))
    BY FS_StrictSubsetOrderingWellFounded
  <2>3. FiniteSubsetsOf(S) = SUBSET S
    BY <2>1, FS_FiniteSubsetsOfFinite
  <2>4. T \subseteq SUBSET S /\ T # {}
    <3>1. \A w \in S : Above(w) \in SUBSET S /\ Above(w) \in T
      OBVIOUS
    <3>2. T \subseteq SUBSET S
      OBVIOUS
    <3>3. PICK w : w \in S
      BY <2>1
    <3> QED
      BY <3>1, <3>2, <3>3
  <2>5. PICK A \in T : \A B \in T : ~ (<<B, A>> \in StrictSubsetOrdering(S))
    <3> HIDE DEF T
    <3>1. IsWellFoundedOn(StrictSubsetOrdering(S), SUBSET S)
      BY <2>2, <2>3
    <3>2. \E A \in T : \A B \in T : ~ (<<B, A>> \in StrictSubsetOrdering(S))
      BY ONLY <3>1, <2>4, WFMin
    <3> QED
      BY <3>2
  <2>6. PICK t \in S : A = Above(t)
    OBVIOUS
  <2>7. PICK u \in S : WaitsFor(t, u)
    OBVIOUS
  <2>8. \A w \in S : Rank(w) \in Nat
    <3> SUFFICES ASSUME NEW w \in S PROVE Rank(w) \in Nat
      OBVIOUS
    <3>1. PICK x \in S : WaitsFor(w, x)
      OBVIOUS
    <3>2. PICK y \in S : WaitsFor(x, y)
      OBVIOUS
    <3> QED
      BY <3>1, <3>2, WaitingClimbs
  <2>9. Rank(t) < Rank(u)
    <3>1. PICK v \in S : WaitsFor(u, v)
      OBVIOUS
    <3> QED
      BY <2>7, <3>1, WaitingClimbs
  <2>10. Above(u) \subseteq Above(t) /\ u \in Above(t) /\ u \notin Above(u)
    BY SMTT(30), <2>8, <2>9
  <2>11. <<Above(u), A>> \in StrictSubsetOrdering(S)
    BY <2>6, <2>10 DEF StrictSubsetOrdering
  <2> QED
    BY <2>5, <2>11
<1> QED
  BY <1>1, OrderInit, NextKeepsOrder, PTL DEF Spec

(* The daemon.  Whoever works does so between Admit and the wait of Run:     *)
(* admission is closed before the group is awaited, so that an empty group   *)
(* stays empty.                                                              *)

Holding == {r \in Requests : nodeReq[r] \in {"slotted", "working", "refused"}}
Busy == {r \in Requests : nodeReq[r] = "working"}

Counted ==
    /\ nodeReq \in [Requests -> {"idle", "arrived", "slotted", "working", "refused"}]
    /\ nodeSlots = Cardinality(Holding)
    /\ nodeWaiting = Cardinality(Busy)

Quiet == nodeSup.step = "ended" /\ nodeFlush = "ended"

Phased ==
    /\ nodePhase \in {"off", "opened", "serving", "frozen", "closed", "drained", "joined", "exiting"}
    /\ ~nodeStore => nodePhase \in {"off", "exiting"}
    /\ nodePhase \in {"off", "opened"} => Quiet /\ \A r \in Requests : nodeReq[r] = "idle"
    /\ nodePhase \notin {"off", "opened", "serving"} => nodeClosing = TRUE
    /\ nodePhase \in {"drained", "joined", "exiting"} => \A r \in Requests : nodeReq[r] # "working"
    /\ nodePhase \in {"joined", "exiting"} => Quiet

DaemonInv == Counted /\ Phased

-----------------------------------------------------------------------------
(* A handler that moves is counted where it belongs.                         *)
LEMMA DaemonFinite == IsFiniteSet(Holding) /\ IsFiniteSet(Busy)
<1>1. Holding \in SUBSET Requests /\ Busy \in SUBSET Requests
  BY DEF Holding, Busy
<1> QED
  BY <1>1, RequestsAssumption, FS_Subset

LEMMA DaemonCounts ==
    ASSUME Counted, NEW r \in Requests, NEW s \in {"idle", "arrived", "slotted", "working", "refused"},
           nodeReq' = [nodeReq EXCEPT ![r] = s],
           nodeSlots' = IF s \in {"slotted", "working", "refused"}
                        THEN IF r \in Holding THEN nodeSlots ELSE nodeSlots + 1
                        ELSE IF r \in Holding THEN nodeSlots - 1 ELSE nodeSlots,
           nodeWaiting' = IF s = "working"
                          THEN IF r \in Busy THEN nodeWaiting ELSE nodeWaiting + 1
                          ELSE IF r \in Busy THEN nodeWaiting - 1 ELSE nodeWaiting
    PROVE  Counted'
<1>1. nodeReq' \in [Requests -> {"idle", "arrived", "slotted", "working", "refused"}]
  BY DEF Counted
<1>2. nodeSlots' = Cardinality(Holding')
  <2>1. CASE s \in {"slotted", "working", "refused"}
    <3>1. Holding' = Holding \cup {r}
      BY <2>1 DEF Holding, Counted
    <3> QED
      BY <2>1, <3>1, DaemonFinite, FS_AddElement DEF Counted
  <2>2. CASE s \notin {"slotted", "working", "refused"}
    <3>1. Holding' = Holding \ {r}
      BY <2>2 DEF Holding, Counted
    <3> QED
      BY <2>2, <3>1, DaemonFinite, FS_RemoveElement DEF Counted
  <2> QED
    BY <2>1, <2>2
<1>3. nodeWaiting' = Cardinality(Busy')
  <2>1. CASE s = "working"
    <3>1. Busy' = Busy \cup {r}
      BY <2>1 DEF Busy, Counted
    <3> QED
      BY <2>1, <3>1, DaemonFinite, FS_AddElement DEF Counted
  <2>2. CASE s # "working"
    <3>1. Busy' = Busy \ {r}
      BY <2>2 DEF Busy, Counted
    <3> QED
      BY <2>2, <3>1, DaemonFinite, FS_RemoveElement DEF Counted
  <2> QED
    BY <2>1, <2>2
<1> QED
  BY <1>1, <1>2, <1>3 DEF Counted

LEMMA DaemonCountsStay ==
    ASSUME Counted, nodeReq' = nodeReq, nodeSlots' = nodeSlots, nodeWaiting' = nodeWaiting
    PROVE  Counted'
BY DEF Counted, Holding, Busy

(* Nobody is counted while every handler is idle.                            *)
LEMMA DaemonIdle ==
    ASSUME \A r \in Requests : nodeReq[r] = "idle"
    PROVE  Holding = {} /\ Busy = {} /\ Cardinality(Holding) = 0 /\ Cardinality(Busy) = 0
BY FS_EmptySet DEF Holding, Busy

LEMMA DaemonInitInv == Daemon!Init => DaemonInv
<1> SUFFICES ASSUME Daemon!Init PROVE DaemonInv
  OBVIOUS
<1>1. \A r \in Requests : nodeReq[r] = "idle"
  BY DEF Daemon!Init
<1>2. Counted
  BY <1>1, DaemonIdle DEF Daemon!Init, Counted
<1> QED
  BY <1>1, <1>2 DEF DaemonInv, Phased, Quiet, Daemon!Init

-----------------------------------------------------------------------------
(* Run and its shutdown.                                                     *)
LEMMA DaemonRunKeeps ==
    ASSUME DaemonInv,
           \/ Daemon!Open \/ Daemon!StartFailed \/ Daemon!Serve \/ Daemon!stopAdmission
           \/ Daemon!cancel \/ Daemon!Join \/ Daemon!Close
    PROVE  DaemonInv'
<1> USE DEF DaemonInv, Daemon!admission
<1>1. Counted'
  BY DaemonCountsStay DEF Daemon!Open, Daemon!StartFailed, Daemon!Serve, Daemon!stopAdmission,
     Daemon!cancel, Daemon!Join, Daemon!Close
<1>2. CASE Daemon!Open
  BY <1>1, <1>2 DEF Phased, Quiet, Daemon!Open
<1>3. CASE Daemon!StartFailed
  BY <1>1, <1>3 DEF Phased, Quiet, Daemon!StartFailed
<1>4. CASE Daemon!Serve
  BY <1>1, <1>4 DEF Phased, Quiet, Daemon!Serve
<1>5. CASE Daemon!stopAdmission
  BY <1>1, <1>5 DEF Phased, Quiet, Daemon!stopAdmission
<1>6. CASE Daemon!cancel
  BY <1>1, <1>6 DEF Phased, Quiet, Daemon!cancel
<1>7. CASE Daemon!Join
  BY <1>1, <1>7 DEF Phased, Quiet, Daemon!Join
<1>8. CASE Daemon!Close
  BY <1>1, <1>8 DEF Phased, Quiet, Daemon!Close
<1> QED
  BY <1>2, <1>3, <1>4, <1>5, <1>6, <1>7, <1>8

(* The group is awaited after admission was closed: nobody works any more.   *)
LEMMA DaemonWaitKeeps ==
    ASSUME DaemonInv, Daemon!Wait
    PROVE  DaemonInv'
<1> USE DEF DaemonInv, Daemon!admission
<1>1. Counted'
  BY DaemonCountsStay DEF Daemon!Wait
<1>2. Busy = {}
  BY DaemonFinite, FS_EmptySet DEF Daemon!Wait, Counted
<1>3. \A r \in Requests : nodeReq[r] # "working"
  BY <1>2 DEF Busy
<1> QED
  BY <1>1, <1>3 DEF Phased, Quiet, Daemon!Wait

LEMMA DaemonEndKeeps ==
    ASSUME DaemonInv, Daemon!ProcessEnd
    PROVE  DaemonInv'
<1> USE DEF DaemonInv
<1>1. \A r \in Requests : nodeReq'[r] = "idle"
  BY DEF Daemon!ProcessEnd
<1>2. Holding' = {} /\ Busy' = {}
  BY <1>1 DEF Holding, Busy
<1>3. Counted'
  BY <1>2, FS_EmptySet DEF Counted, Daemon!ProcessEnd
<1>4. Phased'
  BY <1>1 DEF Phased, Quiet, Daemon!ProcessEnd
<1> QED
  BY <1>3, <1>4

(* A handler.  Only Admit makes one work, under the lock that closes         *)
(* admission.                                                                *)
LEMMA DaemonHandlerKeeps ==
    ASSUME DaemonInv, NEW r \in Requests,
           Daemon!Arrive(r) \/ Daemon!Handler(r) \/ Daemon!HandlerDone(r)
    PROVE  DaemonInv'
<1> USE DEF DaemonInv
<1>1. CASE Daemon!Arrive(r)
  <2>1. nodeReq' = [nodeReq EXCEPT ![r] = "arrived"] /\ r \notin Holding /\ r \notin Busy
        /\ nodeSlots' = nodeSlots /\ nodeWaiting' = nodeWaiting
    BY <1>1 DEF Daemon!Arrive, Holding, Busy
  <2>2. Counted'
    BY <2>1, DaemonCounts
  <2> QED
    BY <1>1, <2>2 DEF Daemon!Arrive, Phased, Quiet, Counted
<1>2. CASE Daemon!TakeSlot(r)
  <2>1. nodeReq' = [nodeReq EXCEPT ![r] = "slotted"] /\ r \notin Holding /\ r \notin Busy
        /\ nodeSlots' = nodeSlots + 1 /\ nodeWaiting' = nodeWaiting
    BY <1>2 DEF Daemon!TakeSlot, Holding, Busy
  <2>2. Counted'
    BY <2>1, DaemonCounts
  <2> QED
    BY <1>2, <2>2 DEF Daemon!TakeSlot, Phased, Quiet, Counted
<1>3. CASE Daemon!TooMany(r)
  <2>1. nodeReq' = [nodeReq EXCEPT ![r] = "idle"] /\ r \notin Holding /\ r \notin Busy
        /\ nodeSlots' = nodeSlots /\ nodeWaiting' = nodeWaiting
    BY <1>3 DEF Daemon!TooMany, Holding, Busy
  <2>2. Counted'
    BY <2>1, DaemonCounts
  <2> QED
    BY <1>3, <2>2 DEF Daemon!TooMany, Phased, Quiet, Counted
<1>4. CASE Daemon!Admit(r)
  <2>1. nodeReq' = [nodeReq EXCEPT ![r] = "working"] /\ r \in Holding /\ r \notin Busy
        /\ nodeSlots' = nodeSlots /\ nodeWaiting' = nodeWaiting + 1
    BY <1>4 DEF Daemon!Admit, Holding, Busy
  <2>2. Counted'
    BY <2>1, DaemonCounts
  <2> QED
    BY <1>4, <2>2 DEF Daemon!Admit, Phased, Quiet, Counted
<1>5. CASE Daemon!ShuttingDown(r)
  <2>1. nodeReq' = [nodeReq EXCEPT ![r] = "refused"] /\ r \in Holding /\ r \notin Busy
        /\ nodeSlots' = nodeSlots /\ nodeWaiting' = nodeWaiting
    BY <1>5 DEF Daemon!ShuttingDown, Holding, Busy
  <2>2. Counted'
    BY <2>1, DaemonCounts
  <2> QED
    BY <1>5, <2>2 DEF Daemon!ShuttingDown, Phased, Quiet, Counted
<1>6. CASE Daemon!ReturnSlot(r)
  <2>1. nodeReq' = [nodeReq EXCEPT ![r] = "idle"] /\ r \in Holding /\ r \notin Busy
        /\ nodeSlots' = nodeSlots - 1 /\ nodeWaiting' = nodeWaiting
    BY <1>6 DEF Daemon!ReturnSlot, Holding, Busy
  <2>2. Counted'
    BY <2>1, DaemonCounts
  <2> QED
    BY <1>6, <2>2 DEF Daemon!ReturnSlot, Phased, Quiet, Counted
<1>7. CASE Daemon!HandlerDone(r)
  <2>1. nodeReq' = [nodeReq EXCEPT ![r] = "refused"] /\ r \in Holding /\ r \in Busy
        /\ nodeSlots' = nodeSlots /\ nodeWaiting' = nodeWaiting - 1
    BY <1>7 DEF Daemon!HandlerDone, Holding, Busy
  <2>2. Counted'
    BY <2>1, DaemonCounts
  <2> QED
    BY <1>7, <2>2 DEF Daemon!HandlerDone, Phased, Quiet, Counted
<1> QED
  BY <1>1, <1>2, <1>3, <1>4, <1>5, <1>6, <1>7 DEF Daemon!Handler

(* What changes neither the phase nor the handlers, and starts nothing.      *)
LEMMA DaemonRestKeeps ==
    ASSUME DaemonInv, UNCHANGED <<nodePhase, nodeStore, nodeClosing, nodeSlots, nodeWaiting, nodeReq>>,
           Quiet => Quiet'
    PROVE  DaemonInv'
<1>1. Counted'
  BY DaemonCountsStay DEF DaemonInv
<1> QED
  BY <1>1 DEF DaemonInv, Phased

(* The supervisor, the flush and the virtual machines.                       *)
LEMMA DaemonSupKeeps ==
    ASSUME DaemonInv, Daemon!Tick \/ Daemon!ExitEvent \/ Daemon!GcTick \/ Daemon!SupStep
    PROVE  DaemonInv'
<1> USE DEF Daemon!SupGoto, Daemon!supRest, Daemon!admission, Quiet
<1>1. CASE Daemon!Tick \/ Daemon!ExitEvent \/ Daemon!GcTick \/ Daemon!Collect
  BY <1>1, DaemonRestKeeps DEF Daemon!Tick, Daemon!ExitEvent, Daemon!GcTick, Daemon!Collect
<1>2. CASE Daemon!reconcile \/ Daemon!reconcileFailed \/ Daemon!Status \/ Daemon!StatusFailed
  BY <1>2, DaemonRestKeeps DEF Daemon!reconcile, Daemon!reconcileFailed, Daemon!Status, Daemon!StatusFailed
<1>3. CASE Daemon!Sync \/ Daemon!SyncFailed
  <2>1. nodeSup.step = "sync"
        /\ UNCHANGED <<nodePhase, nodeStore, nodeClosing, nodeSlots, nodeWaiting, nodeReq>>
    BY <1>3 DEF Daemon!Sync, Daemon!SyncFailed
  <2> QED
    BY <2>1, DaemonRestKeeps
<1> QED
  BY <1>1, <1>2, <1>3 DEF Daemon!SupStep

LEMMA DaemonEndsKeep ==
    ASSUME DaemonInv, Daemon!SupEnd \/ Daemon!FlushBegin \/ Daemon!FlushDone \/ Daemon!FlushEnd
    PROVE  DaemonInv'
<1> USE DEF Daemon!SupGoto, Daemon!supRest, Daemon!admission, Quiet
<1>1. CASE Daemon!SupEnd
  <2>1. nodeSup.step = "select"
        /\ UNCHANGED <<nodePhase, nodeStore, nodeClosing, nodeSlots, nodeWaiting, nodeReq>>
    BY <1>1 DEF Daemon!SupEnd
  <2> QED
    BY <2>1, DaemonRestKeeps
<1>2. CASE Daemon!FlushBegin \/ Daemon!FlushDone \/ Daemon!FlushEnd
  BY <1>2, DaemonRestKeeps DEF Daemon!FlushBegin, Daemon!FlushDone, Daemon!FlushEnd
<1> QED
  BY <1>1, <1>2

LEMMA DaemonVmKeeps ==
    ASSUME DaemonInv, NEW v \in VMs, Daemon!Notify(v) \/ Daemon!VMStart(v) \/ Daemon!VMExit(v)
    PROVE  DaemonInv'
BY DaemonRestKeeps DEF Quiet, Daemon!Notify, Daemon!VMStart, Daemon!VMExit, Daemon!supRest, Daemon!admission

LEMMA DaemonNextKeeps == DaemonInv /\ Daemon!Next => DaemonInv'
<1> SUFFICES ASSUME DaemonInv, Daemon!Next PROVE DaemonInv'
  OBVIOUS
<1>1. CASE \/ Daemon!Open \/ Daemon!StartFailed \/ Daemon!Serve \/ Daemon!stopAdmission
           \/ Daemon!cancel \/ Daemon!Join \/ Daemon!Close
  BY <1>1, DaemonRunKeeps
<1>2. CASE Daemon!Wait
  BY <1>2, DaemonWaitKeeps
<1>3. CASE Daemon!Exit \/ Daemon!Kill
  BY <1>3, DaemonEndKeeps DEF Daemon!Exit, Daemon!Kill
<1>4. CASE \E r \in Requests : Daemon!Arrive(r) \/ Daemon!Handler(r) \/ Daemon!HandlerDone(r)
  BY <1>4, DaemonHandlerKeeps
<1>5. CASE Daemon!Tick \/ Daemon!ExitEvent \/ Daemon!GcTick \/ Daemon!SupStep
  BY <1>5, DaemonSupKeeps
<1>6. CASE Daemon!SupEnd \/ Daemon!FlushBegin \/ Daemon!FlushDone \/ Daemon!FlushEnd
  BY <1>6, DaemonEndsKeep
<1>7. CASE \E v \in VMs : Daemon!Notify(v) \/ Daemon!VMStart(v) \/ Daemon!VMExit(v)
  BY <1>7, DaemonVmKeeps
<1> QED
  BY <1>1, <1>2, <1>3, <1>4, <1>5, <1>6, <1>7 DEF Daemon!Next, Daemon!Shutdown

LEMMA DaemonUnchangedKeeps ==
    ASSUME DaemonInv, UNCHANGED daemonVars
    PROVE  DaemonInv'
BY DaemonRestKeeps DEF daemonVars, Quiet

(* Run waits for the handlers, the supervisor and the flush before it closes *)
(* the store, and admission places are counted exactly, for any number of    *)
(* requests, machines and failures.                                          *)
THEOREM NothingWorksAfterClose == NodeSpec => []NoWorkAfterClose
<1>1. NodeInit => DaemonInv
  BY DaemonInitInv DEF NodeInit
<1>2. DaemonInv /\ [NodeNext]_nodeVars => DaemonInv'
  <2> SUFFICES ASSUME DaemonInv, [NodeNext]_nodeVars PROVE DaemonInv'
    OBVIOUS
  <2>1. CASE DaemonStep
    BY <2>1, DaemonNextKeeps DEF DaemonStep
  <2>2. CASE LockStep
    BY <2>2, DaemonUnchangedKeeps DEF LockStep
  <2>3. CASE UNCHANGED nodeVars
    BY <2>3, DaemonUnchangedKeeps DEF nodeVars
  <2> QED
    BY <2>1, <2>2, <2>3 DEF NodeNext
<1>3. DaemonInv => NoWorkAfterClose
  <2> SUFFICES ASSUME DaemonInv PROVE NoWorkAfterClose
    OBVIOUS
  <2>1. ASSUME ~nodeStore PROVE /\ \A r \in Requests : nodeReq[r] # "working"
                                /\ nodeSup.step = "ended" /\ nodeFlush = "ended"
    BY <2>1 DEF DaemonInv, Phased, Quiet
  <2>2. nodeSlots = Cardinality({r \in Requests : nodeReq[r] \in {"slotted", "working", "refused"}})
    BY DEF DaemonInv, Counted, Holding
  <2>3. Daemon!Cardinality({r \in Requests : nodeReq[r] \in {"slotted", "working", "refused"}})
        = Cardinality({r \in Requests : nodeReq[r] \in {"slotted", "working", "refused"}})
    BY DEF Cardinality, Daemon!Cardinality
  <2> QED
    BY <2>1, <2>2, <2>3 DEF NoWorkAfterClose, Daemon!NoWorkAfterClose
<1> QED
  BY <1>1, <1>2, <1>3, PTL DEF NodeSpec
=============================================================================
