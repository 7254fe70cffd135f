----------------------------- MODULE AccessBuffer -----------------------------
(***************************************************************************)
(* Usage times of snapshots: the write-behind buffer                       *)
(* (snapshot/catalog/access.go), the readers of the catalog that look      *)
(* through it, and the eviction that relies on what they see               *)
(* (core/gc_snapshot_policy.go).  Recording never holds the buffer's mutex *)
(* across a database access, so a reader, a flush and a touch interleave.  *)
(***************************************************************************)
EXTENDS Naturals, FiniteSets

CONSTANTS
    Actors,         \* users of snapshots, and the evictor
    Snapshots,
    Limit,          \* capacity of the buffer
    MaxTime,        \* bound on the clock
    MaxFaults       \* bound on failed flushes and crashes

VARIABLES
    state,          \* "ready" or "deleting", per snapshot
    durable,        \* access time in the catalog
    pending,        \* buffered access time, 0 if none
    generation,     \* number of batches retired
    flush,          \* the flush that holds the token
    lease,          \* users that hold the snapshot's shared lock
    lock,           \* evictor that holds it exclusively
    act,            \* step and local variables of each actor
    touched,        \* history: latest time of a completed Touch
    now, faults

vars == <<state, durable, pending, generation, flush, lease, lock, act, touched, now, faults>>

Times == 0..MaxTime
NoBatch == [s \in Snapshots |-> 0]
Resting == [step |-> "idle", snap |-> {}, time |-> 0, gen |-> 0, db |-> 0, seen |-> 0,
            goal |-> "idle", chosen |-> 0]

TypeOK ==
    /\ state \in [Snapshots -> {"ready", "deleting"}]
    /\ durable \in [Snapshots -> Times]
    /\ pending \in [Snapshots -> Times]
    /\ generation \in Nat
    /\ flush.step \in {"idle", "cloned", "committed"}
    /\ flush.batch \in [Snapshots -> Times]
    /\ lease \in [Snapshots -> SUBSET Actors]
    /\ lock \in [Snapshots -> SUBSET Actors]
    /\ \A a \in Actors : act[a].snap \subseteq Snapshots /\ act[a].seen \in Times
    /\ touched \in [Snapshots -> Times]
    /\ now \in Times

Init ==
    /\ state = [s \in Snapshots |-> "ready"]
    /\ durable = [s \in Snapshots |-> 1]
    /\ pending = NoBatch
    /\ generation = 0
    /\ flush = [step |-> "idle", batch |-> NoBatch]
    /\ lease = [s \in Snapshots |-> {}]
    /\ lock = [s \in Snapshots |-> {}]
    /\ act = [a \in Actors |-> Resting]
    /\ touched = [s \in Snapshots |-> 1]
    /\ now = 1
    /\ faults = 0

Later(a, b) == IF a > b THEN a ELSE b
At(a, s, step) == act[a].step = step /\ act[a].snap = {s}
Buffered == {s \in Snapshots : pending[s] > 0}

Tick == now < MaxTime /\ now' = now + 1
        /\ UNCHANGED <<state, durable, pending, generation, flush, lease, lock, act, touched, faults>>

-----------------------------------------------------------------------------
(* view: the generation, the database, the buffer, the generation again *)

ViewBegin(a, s) ==
    /\ At(a, s, "view")
    /\ act' = [act EXCEPT ![a].step = "db", ![a].gen = generation]
    /\ UNCHANGED <<state, durable, pending, generation, flush, lease, lock, touched, now, faults>>

ViewDatabase(a, s) ==
    /\ At(a, s, "db")
    /\ act' = [act EXCEPT ![a].step = "buffer", ![a].db = durable[s]]
    /\ UNCHANGED <<state, durable, pending, generation, flush, lease, lock, touched, now, faults>>

visibleAccess(a, s) ==
    /\ At(a, s, "buffer")
    /\ act' = [act EXCEPT ![a].step = "recheck", ![a].seen = Later(pending[s], act[a].db)]
    /\ UNCHANGED <<state, durable, pending, generation, flush, lease, lock, touched, now, faults>>

\* A mutant: the view does not notice that a batch was retired meanwhile.
ViewEndUnchecked(a, s) ==
    /\ At(a, s, "recheck")
    /\ act' = [act EXCEPT ![a].gen = 0, ![a].db = 0, ![a].step = act[a].goal]
    /\ UNCHANGED <<state, durable, pending, generation, flush, lease, lock, touched, now, faults>>

ViewEnd(a, s) ==
    /\ At(a, s, "recheck")
    /\ act' = [act EXCEPT ![a].gen = 0, ![a].db = 0,
                          ![a].step = IF act[a].gen = generation THEN act[a].goal ELSE "view",
                          ![a].seen = IF act[a].gen = generation THEN @ ELSE 0]
    /\ UNCHANGED <<state, durable, pending, generation, flush, lease, lock, touched, now, faults>>

-----------------------------------------------------------------------------
(* A user: shared lock, use, Touch *)

UseBegin(a, s) ==
    /\ act[a] = Resting
    /\ state[s] = "ready" /\ lock[s] = {}
    /\ lease' = [lease EXCEPT ![s] = @ \cup {a}]
    /\ act' = [act EXCEPT ![a] = [Resting EXCEPT !.step = "touch", !.snap = {s}]]
    /\ UNCHANGED <<state, durable, pending, generation, flush, lock, touched, now, faults>>

\* Touch takes the time, then bufferAccess reads what is recorded.
Touch(a, s) ==
    /\ At(a, s, "touch")
    /\ act' = [act EXCEPT ![a].step = "view", ![a].time = now, ![a].goal = "record"]
    /\ UNCHANGED <<state, durable, pending, generation, flush, lease, lock, touched, now, faults>>

\* recordAccess: a full buffer makes the user wait for a flush.  A time that is
\* not newer than the visible one needs no record.
recordAccess(a, s) ==
    /\ At(a, s, "record")
    /\ IF act[a].time > act[a].seen
       THEN /\ s \in Buffered \/ Cardinality(Buffered) < Limit
            /\ pending' = [pending EXCEPT ![s] = Later(@, act[a].time)]
       ELSE UNCHANGED pending
    /\ touched' = [touched EXCEPT ![s] = Later(@, act[a].time)]
    /\ lease' = [lease EXCEPT ![s] = @ \ {a}]
    /\ act' = [act EXCEPT ![a] = Resting]
    /\ UNCHANGED <<state, durable, generation, flush, lock, now, faults>>

-----------------------------------------------------------------------------
(* FlushAccesses: clone, one transaction, retire *)

FlushBegin ==
    /\ flush.step = "idle" /\ Buffered # {}
    /\ flush' = [step |-> "cloned", batch |-> pending]
    /\ UNCHANGED <<state, durable, pending, generation, lease, lock, act, touched, now, faults>>

\* Deleting records are skipped.
FlushCommit ==
    /\ flush.step = "cloned"
    /\ durable' = [s \in Snapshots |-> IF state[s] = "ready" THEN Later(durable[s], flush.batch[s])
                                                            ELSE durable[s]]
    /\ flush' = [flush EXCEPT !.step = "committed"]
    /\ UNCHANGED <<state, pending, generation, lease, lock, act, touched, now, faults>>

FlushFailed ==
    /\ flush.step = "cloned"
    /\ faults < MaxFaults
    /\ faults' = faults + 1
    /\ flush' = [step |-> "idle", batch |-> NoBatch]
    /\ UNCHANGED <<state, durable, pending, generation, lease, lock, act, touched, now>>

\* A mutant: what was recorded since the clone is dropped with the batch.
FlushRetireAll ==
    /\ flush.step = "committed"
    /\ pending' = [s \in Snapshots |-> IF flush.batch[s] > 0 THEN 0 ELSE pending[s]]
    /\ generation' = generation + 1
    /\ flush' = [step |-> "idle", batch |-> NoBatch]
    /\ UNCHANGED <<state, durable, lease, lock, act, touched, now, faults>>

\* Entries that were touched again since the clone stay.
FlushRetire ==
    /\ flush.step = "committed"
    /\ pending' = [s \in Snapshots |-> IF pending[s] > flush.batch[s] THEN pending[s] ELSE 0]
    /\ generation' = generation + 1
    /\ flush' = [step |-> "idle", batch |-> NoBatch]
    /\ UNCHANGED <<state, durable, lease, lock, act, touched, now, faults>>

-----------------------------------------------------------------------------
(* CollectWithPolicy and evictSnapshot *)

EvictBegin(a, s) ==
    /\ act[a] = Resting
    /\ state[s] = "ready"
    /\ act' = [act EXCEPT ![a] = [Resting EXCEPT !.step = "view", !.snap = {s}, !.goal = "tryLock"]]
    /\ UNCHANGED <<state, durable, pending, generation, flush, lease, lock, touched, now, faults>>

\* TryLock skips a snapshot that is in use.
EvictLock(a, s) ==
    /\ At(a, s, "tryLock")
    /\ IF lease[s] = {} /\ lock[s] = {}
       THEN /\ lock' = [lock EXCEPT ![s] = {a}]
            /\ act' = [act EXCEPT ![a].step = "view", ![a].goal = "compare",
                                  ![a].chosen = act[a].seen, ![a].seen = 0]
       ELSE act' = [act EXCEPT ![a] = Resting] /\ UNCHANGED lock
    /\ UNCHANGED <<state, durable, pending, generation, flush, lease, touched, now, faults>>

\* A newer access, or a record that is gone, is skipped.
EvictSkip(a, s) ==
    /\ At(a, s, "compare")
    /\ act[a].seen # act[a].chosen \/ state[s] # "ready"
    /\ lock' = [lock EXCEPT ![s] = {}]
    /\ act' = [act EXCEPT ![a] = Resting]
    /\ UNCHANGED <<state, durable, pending, generation, flush, lease, touched, now, faults>>

EvictDelete(a, s) ==
    /\ At(a, s, "compare")
    /\ act[a].seen = act[a].chosen
    /\ state[s] = "ready"
    /\ state' = [state EXCEPT ![s] = "deleting"]
    /\ lock' = [lock EXCEPT ![s] = {}]
    /\ act' = [act EXCEPT ![a] = Resting]
    /\ UNCHANGED <<durable, pending, generation, flush, lease, touched, now, faults>>

\* The daemon dies: what was not flushed is lost, and with it the history of it.
Crash ==
    /\ faults < MaxFaults
    /\ faults' = faults + 1
    /\ pending' = NoBatch
    /\ flush' = [step |-> "idle", batch |-> NoBatch]
    /\ lease' = [s \in Snapshots |-> {}]
    /\ lock' = [s \in Snapshots |-> {}]
    /\ act' = [a \in Actors |-> Resting]
    /\ touched' = durable
    /\ generation' = 0
    /\ UNCHANGED <<state, durable, now>>

Next ==
    \/ \E a \in Actors, s \in Snapshots :
        \/ ViewBegin(a, s) \/ ViewDatabase(a, s) \/ visibleAccess(a, s) \/ ViewEnd(a, s)
        \/ UseBegin(a, s) \/ Touch(a, s) \/ recordAccess(a, s)
        \/ EvictBegin(a, s) \/ EvictLock(a, s) \/ EvictSkip(a, s) \/ EvictDelete(a, s)
    \/ FlushBegin \/ FlushCommit \/ FlushFailed \/ FlushRetire
    \/ Tick \/ Crash

Spec == Init /\ [][Next]_vars

-----------------------------------------------------------------------------
(* Properties *)

\* The buffer and the catalog together never lose a completed Touch of a
\* snapshot that is not being deleted, at any point of a flush.
AccessIsKept ==
    \A s \in Snapshots : state[s] = "ready" => Later(durable[s], pending[s]) >= touched[s]

\* Eviction deletes a snapshot only if nobody uses it and no Touch since its
\* selection has recorded a newer time.
FencedStep ==
    \A a \in Actors, s \in Snapshots :
        (At(a, s, "compare") /\ state[s] = "ready" /\ state'[s] = "deleting")
            => lease[s] = {} /\ touched[s] <= act[a].chosen

EvictionIsFenced == [][FencedStep]_vars
=============================================================================
