------------------------------- MODULE Metadata -------------------------------
(***************************************************************************)
(* The metadata store (metadata/sqlite): opening and migrating under the   *)
(* initialization lock, read transactions on a snapshot, and write         *)
(* transactions that reserve the writer before their callback runs.  The   *)
(* engine's snapshots and its writer reservation are SQLite's (external).  *)
(* The callback of an update reads a record and writes two, so that half   *)
(* of an update, a lost one and a replayed one all show.                   *)
(***************************************************************************)
EXTENDS Naturals

CONSTANTS Procs, MaxUpdates, MaxFaults

VARIABLES
    db,         \* committed: schema version (0 is an empty file) and two records
    guard,      \* holder of the initialization lock, as a set
    writer,     \* holder of the writer reservation, as a set
    tx,         \* [Procs -> the call and its transaction]
    ok,         \* updates that reported success
    unsure,     \* updates that reported an error from commit
    faults

vars == <<db, guard, writer, tx, ok, unsure, faults>>

Current == 4
Versions == {0, 3, Current}
Records == [version : Versions, x : 0..MaxUpdates, y : 0..MaxUpdates]
Blank == [version |-> 0, x |-> 0, y |-> 0]
Shut == [step |-> "shut", own |-> Blank, runs |-> 0]
Ready == [Shut EXCEPT !.step = "ready"]

TypeOK ==
    /\ db \in Records /\ guard \subseteq Procs /\ writer \subseteq Procs
    /\ tx \in [Procs -> [step : {"shut", "guard", "init", "verify", "ready", "begin", "read", "put", "second",
                                 "commit", "view", "viewed", "done"},
                         own : Records, runs : 0..2]]
    /\ ok \in 0..MaxUpdates /\ unsure \in 0..MaxUpdates /\ faults \in 0..MaxFaults

Init ==
    /\ \E v \in {0, 3} : db = [Blank EXCEPT !.version = v]
    /\ guard = {} /\ writer = {} /\ tx = [p \in Procs |-> Shut] /\ ok = 0 /\ unsure = 0 /\ faults = 0

Fault == faults < MaxFaults /\ faults' = faults + 1
At(p, step) == tx[p].step = step
Goto(p, step) == tx' = [tx EXCEPT ![p].step = step]
-----------------------------------------------------------------------------
\* Open

Open(p) ==
    /\ At(p, "shut") /\ guard = {}
    /\ guard' = {p} /\ Goto(p, "guard")
    /\ UNCHANGED <<db, writer, ok, unsure, faults>>

\* A current database needs nothing; an empty or an older one is written in
\* one immediate transaction.
initialize(p) ==
    /\ At(p, "guard")
    /\ IF db.version = Current THEN guard' = guard \ {p} /\ Goto(p, "verify") /\ UNCHANGED writer
       ELSE writer = {} /\ writer' = {p} /\ Goto(p, "init") /\ UNCHANGED guard
    /\ UNCHANGED <<db, ok, unsure, faults>>

migrateCollections(p) ==
    /\ At(p, "init")
    /\ db' = [db EXCEPT !.version = Current]
    /\ writer' = {} /\ guard' = guard \ {p} /\ Goto(p, "verify")
    /\ UNCHANGED <<ok, unsure, faults>>

OpenFailed(p) ==
    /\ tx[p].step \in {"guard", "init", "verify"} /\ Fault
    /\ guard' = guard \ {p} /\ writer' = writer \ {p} /\ tx' = [tx EXCEPT ![p] = Shut]
    /\ UNCHANGED <<db, ok, unsure>>

verify(p) ==
    /\ At(p, "verify")
    /\ tx' = [tx EXCEPT ![p] = IF db.version = Current THEN Ready ELSE Shut]
    /\ UNCHANGED <<db, guard, writer, ok, unsure, faults>>
-----------------------------------------------------------------------------
\* Update

Update(p) ==
    /\ At(p, "ready") /\ Goto(p, "begin")
    /\ UNCHANGED <<db, guard, writer, ok, unsure, faults>>

\* A mutant: a deferred transaction, which reads before it reserves the writer.
BeginDeferred(p) ==
    /\ At(p, "begin") /\ ok + unsure < MaxUpdates
    /\ writer' = {p}
    /\ tx' = [tx EXCEPT ![p] = [step |-> "read", own |-> db, runs |-> @.runs + 1]]
    /\ UNCHANGED <<db, guard, ok, unsure, faults>>

BeginTx(p) ==
    /\ At(p, "begin") /\ writer = {} /\ ok + unsure < MaxUpdates
    /\ writer' = {p}
    /\ tx' = [tx EXCEPT ![p] = [step |-> "read", own |-> db, runs |-> @.runs + 1]]
    /\ UNCHANGED <<db, guard, ok, unsure, faults>>

\* The writer stays busy for the whole retry limit, or the caller gives up.
UpdateBusy(p) ==
    /\ At(p, "begin")
    /\ tx' = [tx EXCEPT ![p] = Ready]
    /\ UNCHANGED <<db, guard, writer, ok, unsure, faults>>

\* The callback: Get, Put, Put.
Get(p) ==
    /\ At(p, "read") /\ Goto(p, "put")
    /\ UNCHANGED <<db, guard, writer, ok, unsure, faults>>

Put(p) ==
    /\ \/ At(p, "put") /\ tx' = [tx EXCEPT ![p].step = "second", ![p].own.x = @ + 1]
       \/ At(p, "second") /\ tx' = [tx EXCEPT ![p].step = "commit", ![p].own.y = @ + 1]
    /\ UNCHANGED <<db, guard, writer, ok, unsure, faults>>

\* The callback fails or the context is cancelled.
rollback(p) ==
    /\ tx[p].step \in {"read", "put", "second", "commit"} /\ Fault
    /\ writer' = {} /\ tx' = [tx EXCEPT ![p] = Ready]
    /\ UNCHANGED <<db, guard, ok, unsure>>

commit(p) ==
    /\ At(p, "commit")
    /\ db' = tx[p].own /\ writer' = {} /\ ok' = ok + 1
    /\ Goto(p, "done")
    /\ UNCHANGED <<guard, unsure, faults>>

CommitFailed(p) ==
    /\ At(p, "commit") /\ Fault
    /\ db' \in {db, tx[p].own} /\ writer' = {} /\ unsure' = unsure + 1
    /\ Goto(p, "done")
    /\ UNCHANGED <<guard, ok>>

Return(p) ==
    /\ At(p, "done") /\ tx' = [tx EXCEPT ![p] = Ready]
    /\ UNCHANGED <<db, guard, writer, ok, unsure, faults>>
-----------------------------------------------------------------------------
\* View: the first read fixes the snapshot for the others.

View(p) ==
    /\ At(p, "ready")
    /\ tx' = [tx EXCEPT ![p] = [step |-> "view", own |-> db, runs |-> 1]]
    /\ UNCHANGED <<db, guard, writer, ok, unsure, faults>>

ViewNext(p) ==
    /\ At(p, "view") /\ Goto(p, "viewed")
    /\ UNCHANGED <<db, guard, writer, ok, unsure, faults>>

ViewEnd(p) ==
    /\ At(p, "viewed") /\ tx' = [tx EXCEPT ![p] = Ready]
    /\ UNCHANGED <<db, guard, writer, ok, unsure, faults>>

Crash(p) ==
    /\ ~At(p, "shut") /\ Fault
    /\ guard' = guard \ {p} /\ writer' = writer \ {p} /\ tx' = [tx EXCEPT ![p] = Shut]
    /\ UNCHANGED <<db, ok, unsure>>

Next ==
    \E p \in Procs :
        \/ Open(p) \/ initialize(p) \/ migrateCollections(p) \/ OpenFailed(p) \/ verify(p)
        \/ Update(p) \/ BeginTx(p) \/ UpdateBusy(p) \/ Get(p) \/ Put(p) \/ rollback(p) \/ commit(p)
        \/ CommitFailed(p) \/ Return(p) \/ View(p) \/ ViewNext(p) \/ ViewEnd(p) \/ Crash(p)

Spec == Init /\ [][Next]_vars
-----------------------------------------------------------------------------
(* Updates are serial and whole: the records never show half an update,    *)
(* every reported success is in the database exactly once, an update whose *)
(* commit reported an error at most once, its callback ran once, and an    *)
(* open store has the current schema.                                      *)
UpdatesAreSerial ==
    /\ db.x = db.y /\ ok <= db.x /\ db.x <= ok + unsure
    /\ \A p \in Procs : /\ tx[p].runs <= 1
                        /\ At(p, "viewed") => tx[p].own.x = tx[p].own.y
                        /\ tx[p].step \notin {"shut", "guard", "init", "verify"} => db.version = Current
=============================================================================
