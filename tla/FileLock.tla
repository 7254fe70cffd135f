------------------------------- MODULE FileLock -------------------------------
(***************************************************************************)
(* File locks (internal/lock/flock).  A Lock couples an in-process token    *)
(* with a kernel lock on an open file.  A persistent lock file is never     *)
(* removed; the file of a transient lock is removed by its owner, so that   *)
(* a waiter may obtain the kernel lock of an inode which no longer has a    *)
(* name.  A Set acquires several persistent locks in path order.            *)
(*                                                                          *)
(* Kernel and file system (external): opening creates the file when it is   *)
(* absent, a lock belongs to the open file, closing releases it, and an     *)
(* inode number is reused only when no name and no descriptor refers to it. *)
(***************************************************************************)
EXTENDS Naturals, FiniteSets

CONSTANTS
    Threads,     \* goroutines of any number of processes
    Paths,       \* lock paths, ordered as strings are
    Transient,   \* the paths locked through NewTransient
    Inodes,      \* inode numbers
    None,        \* no inode, no thread
    MaxFaults    \* how many deaths and failed removals occur

ASSUME PathsAssumption == Paths \subseteq Nat /\ Transient \subseteq Paths
ASSUME NoneAssumption == None \notin Inodes /\ None \notin Threads
ASSUME FaultsAssumption == MaxFaults \in Nat
ASSUME ThreadsAssumption == IsFiniteSet(Threads)

VARIABLES
    file,     \* the inode each path names
    fd,       \* the inode a thread has open for a path
    locked,   \* the paths whose open file the thread holds a kernel lock on
    owned,    \* the paths whose lock acquire or TryLock has returned
    token,    \* the holder of the token of the Lock object shared for a path
    pc,       \* the step a thread is at
    todo,     \* the paths a thread still has to acquire
    mode,     \* how: shared or exclusive, waiting or not, through which object
    faults

vars == <<file, fd, locked, owned, token, pc, todo, mode, faults>>

Modes == [shared : BOOLEAN, wait : BOOLEAN, common : BOOLEAN]

NoMode == [shared |-> FALSE, wait |-> TRUE, common |-> FALSE]

Steps == {"idle", "token", "open", "flock", "bound", "use", "release", "close"}

TypeOK ==
    /\ file \in [Paths -> Inodes \cup {None}]
    /\ fd \in [Threads -> [Paths -> Inodes \cup {None}]]
    /\ locked \in [Threads -> SUBSET Paths]
    /\ owned \in [Threads -> SUBSET Paths]
    /\ token \in [Paths -> Threads \cup {None}]
    /\ pc \in [Threads -> Steps]
    /\ todo \in [Threads -> SUBSET Paths]
    /\ mode \in [Threads -> Modes]
    /\ faults \in Nat

Init ==
    /\ file = [p \in Paths |-> None]
    /\ fd = [t \in Threads |-> [p \in Paths |-> None]]
    /\ locked = [t \in Threads |-> {}]
    /\ owned = [t \in Threads |-> {}]
    /\ token = [p \in Paths |-> None]
    /\ pc = [t \in Threads |-> "idle"]
    /\ todo = [t \in Threads |-> {}]
    /\ mode = [t \in Threads |-> NoMode]
    /\ faults = 0

\* A mutant: the set is acquired in the order of its arguments.
AnyPath(S) == S

(* The path acquired next: Set.acquire sorts and deduplicates.              *)
NextPath(S) == {p \in S : \A q \in S : p <= q}

(* The path released next: Set.Unlock runs backwards.                       *)
LastPath(S) == {p \in S : \A q \in S : q <= p}

(* Nobody refers to the inode, by name or by descriptor.                    *)
Unused(i) ==
    /\ \A p \in Paths : file[p] # i
    /\ \A t \in Threads, p \in Paths : fd[t][p] # i

Conflict(t, u) == ~(mode[t].shared /\ mode[u].shared)

(* The kernel grants t a lock on the file it has open for p.                *)
Grantable(t, p) ==
    \A u \in Threads \ {t}, q \in Paths :
        q \in locked[u] /\ fd[u][q] = fd[t][p] => ~Conflict(t, u)

(* boundToPath: the locked descriptor still is the file the path names.     *)
boundToPath(t, p) == file[p] = fd[t][p]

Goto(t, s) == pc' = [pc EXCEPT ![t] = s]

CloseFd(t, p) ==
    /\ fd' = [fd EXCEPT ![t][p] = None]
    /\ locked' = [locked EXCEPT ![t] = @ \ {p}]

(* After a release: on to the next lock of the set, or back to the caller.  *)
Return(t) ==
    /\ todo' = [todo EXCEPT ![t] = {}]
    /\ mode' = [mode EXCEPT ![t] = IF owned[t] = {} THEN NoMode ELSE @]
    /\ Goto(t, IF owned[t] = {} THEN "idle" ELSE "release")

ReturnToken(t, p) == token' = [token EXCEPT ![p] = IF @ = t THEN None ELSE @]

(* A caller asks for one lock, or for a set of persistent ones.  Only       *)
(* single locks are tried without waiting or reached through a Lock object  *)
(* that goroutines share, and a transient lock is never shared.             *)
Request(t) ==
    /\ pc[t] = "idle"
    /\ \E S \in (SUBSET Paths) \ {{}}, m \in Modes :
        /\ S \cap Transient # {} => ~m.shared /\ \E p \in S : S = {p}
        /\ ~m.wait \/ m.common => \E p \in S : S = {p}
        /\ ~m.wait => ~m.shared
        /\ todo' = [todo EXCEPT ![t] = S]
        /\ mode' = [mode EXCEPT ![t] = m]
    /\ Goto(t, "token")
    /\ UNCHANGED <<file, fd, locked, owned, token, faults>>

(* The local token; a fresh Lock object has a free one.                     *)
TakeToken(t) ==
    /\ pc[t] = "token"
    /\ \E p \in NextPath(todo[t]) :
        \/ ~mode[t].common /\ UNCHANGED token
        \/ /\ mode[t].common /\ token[p] = None
           /\ token' = [token EXCEPT ![p] = t]
    /\ Goto(t, "open")
    /\ UNCHANGED <<file, fd, locked, owned, todo, mode, faults>>

(* candidate := goflock.New(path), opened by the first attempt.             *)
Open(t) ==
    /\ pc[t] = "open"
    /\ \E p \in NextPath(todo[t]) :
        /\ \/ file[p] # None /\ UNCHANGED file
           \/ file[p] = None /\ \E i \in Inodes : Unused(i) /\ file' = [file EXCEPT ![p] = i]
        /\ fd' = [fd EXCEPT ![t][p] = file'[p]]
    /\ Goto(t, "flock")
    /\ UNCHANGED <<locked, owned, token, todo, mode, faults>>

Flock(t) ==
    /\ pc[t] = "flock"
    /\ \E p \in NextPath(todo[t]) :
        /\ Grantable(t, p)
        /\ locked' = [locked EXCEPT ![t] = @ \cup {p}]
    /\ Goto(t, "bound")
    /\ UNCHANGED <<file, fd, owned, token, todo, mode, faults>>

(* The attempt is over without the lock: contention of TryLock, or a        *)
(* canceled context.  What the set already holds is released.               *)
GiveUp(t) ==
    /\ pc[t] \in {"token", "flock"}
    /\ \E p \in NextPath(todo[t]) :
        /\ ~mode[t].wait =>
            IF pc[t] = "token" THEN mode[t].common /\ token[p] # None ELSE ~Grantable(t, p)
        /\ CloseFd(t, p)
        /\ ReturnToken(t, p)
    /\ Return(t)
    /\ UNCHANGED <<file, owned, faults>>

\* A mutant: the kernel lock alone counts, whatever its inode is named.
BoundToInode(t) ==
    /\ pc[t] = "bound"
    /\ \E p \in NextPath(todo[t]) :
        /\ owned' = [owned EXCEPT ![t] = @ \cup {p}]
        /\ todo' = [todo EXCEPT ![t] = @ \ {p}]
        /\ Goto(t, IF todo[t] = {p} THEN "use" ELSE "token")
    /\ UNCHANGED <<file, fd, locked, token, mode, faults>>

(* The kernel lock is held; a transient lock must still be bound.           *)
Bound(t) ==
    /\ pc[t] = "bound"
    /\ \E p \in NextPath(todo[t]) :
        /\ p \notin Transient \/ boundToPath(t, p)
        /\ owned' = [owned EXCEPT ![t] = @ \cup {p}]
        /\ todo' = [todo EXCEPT ![t] = @ \ {p}]
        /\ Goto(t, IF todo[t] = {p} THEN "use" ELSE "token")
    /\ UNCHANGED <<file, fd, locked, token, mode, faults>>

(* A stale inode: acquire closes it and queues again, TryLock returns.      *)
Stale(t) ==
    /\ pc[t] = "bound"
    /\ \E p \in NextPath(todo[t]) :
        /\ p \in Transient /\ ~boundToPath(t, p)
        /\ CloseFd(t, p)
        /\ \/ mode[t].wait /\ Goto(t, "open") /\ UNCHANGED <<token, todo, mode>>
           \/ ~mode[t].wait /\ ReturnToken(t, p) /\ Return(t)
    /\ UNCHANGED <<file, owned, faults>>

Use(t) ==
    /\ pc[t] = "use"
    /\ Goto(t, "release")
    /\ UNCHANGED <<file, fd, locked, owned, token, todo, mode, faults>>

(* Unlock, first half: the file of a transient lock is removed before the   *)
(* descriptor is closed.  A failed removal is reported and nothing else.    *)
Release(t) ==
    /\ pc[t] = "release"
    /\ \E p \in LastPath(owned[t]) :
        /\ owned' = [owned EXCEPT ![t] = @ \ {p}]
        /\ todo' = [todo EXCEPT ![t] = {p}]
        /\ \/ p \notin Transient /\ UNCHANGED <<file, faults>>
           \/ p \in Transient /\ file' = [file EXCEPT ![p] = None] /\ UNCHANGED faults
           \/ p \in Transient /\ faults < MaxFaults /\ faults' = faults + 1 /\ UNCHANGED file
    /\ Goto(t, "close")
    /\ UNCHANGED <<fd, locked, token, mode>>

(* Unlock, second half: close the descriptor, return the token.             *)
Close(t) ==
    /\ pc[t] = "close"
    /\ \E p \in todo[t] :
        /\ CloseFd(t, p)
        /\ ReturnToken(t, p)
    /\ Return(t)
    /\ UNCHANGED <<file, owned, faults>>

(* A process dies with all its threads: the kernel closes its files and     *)
(* leaves the names.  Threads that share Lock objects are of one process.   *)
Die(D) ==
    /\ faults < MaxFaults /\ \E t \in D : pc[t] # "idle"
    /\ (\E t \in D : mode[t].common) => \A t \in Threads : mode[t].common => t \in D
    /\ faults' = faults + 1
    /\ fd' = [t \in Threads |-> IF t \in D THEN [p \in Paths |-> None] ELSE fd[t]]
    /\ locked' = [t \in Threads |-> IF t \in D THEN {} ELSE locked[t]]
    /\ owned' = [t \in Threads |-> IF t \in D THEN {} ELSE owned[t]]
    /\ token' = [p \in Paths |-> IF token[p] \in D THEN None ELSE token[p]]
    /\ todo' = [t \in Threads |-> IF t \in D THEN {} ELSE todo[t]]
    /\ mode' = [t \in Threads |-> IF t \in D THEN NoMode ELSE mode[t]]
    /\ pc' = [t \in Threads |-> IF t \in D THEN "idle" ELSE pc[t]]
    /\ UNCHANGED file

Next ==
    \/ \E t \in Threads :
        \/ Request(t) \/ TakeToken(t) \/ Open(t) \/ Flock(t) \/ GiveUp(t) \/ Bound(t)
        \/ Stale(t) \/ Use(t) \/ Release(t) \/ Close(t)
    \/ \E D \in SUBSET Threads : Die(D)

Spec == Init /\ [][Next]_vars

-----------------------------------------------------------------------------

(* Mutual exclusion: two threads own the lock of one path only if both      *)
(* hold it shared, although a transient lock's file is removed and created  *)
(* again while others wait on the removed inode (lock.go, "so waiters       *)
(* cannot proceed on an unlinked inode").                                   *)
OneOwner ==
    \A t, u \in Threads : t # u /\ owned[t] \cap owned[u] # {} => ~Conflict(t, u)

(* t cannot go on before u has closed a file or returned a token.           *)
WaitsFor(t, u) ==
    \E p \in NextPath(todo[t]) :
        \/ /\ pc[t] = "flock" /\ mode[t].wait
           /\ \E q \in locked[u] : fd[u][q] = fd[t][p] /\ Conflict(t, u)
        \/ pc[t] = "token" /\ mode[t].wait /\ mode[t].common /\ token[p] = u

(* Threads that acquire overlapping sets never wait for each other in a     *)
(* circle, because every set is acquired in path order (set.go, "so         *)
(* cooperating operations acquire in the same order").                      *)
NoWaitCycle ==
    ~ \E S \in (SUBSET Threads) \ {{}} : \A t \in S : \E u \in S \ {t} : WaitsFor(t, u)
=============================================================================
