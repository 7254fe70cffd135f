------------------------------ MODULE E2BLease ------------------------------
(***************************************************************************)
(* The E2B adapter's lease of one sandbox (api/e2b): a durable file with a *)
(* deadline and the snapshot a pause left, a timer in memory, and calls    *)
(* that work under the lease's file lock.  The services the adapter calls  *)
(* (run, hibernate, restore, stop, remove) are single steps here.  Native  *)
(* calls and exits change the sandbox behind the adapter's back.           *)
(***************************************************************************)
EXTENDS Naturals, FiniteSets

CONSTANTS Procs, Snapshots, Timeouts, MaxTime, MaxFaults

VARIABLES
    lease,      \* the file
    sandbox,    \* record: "none", "running", "stopped"
    snaps,      \* pause snapshots that exist
    issued,     \* pause snapshots ever taken
    timer,      \* armed deadline, 0 for none
    lock,       \* holder of the file lock, as a set
    op,         \* [Procs -> the call and its copy of the lease]
    up,         \* the adapter's process runs
    stray,      \* the last write of the lease reported an error
    now, faults

vars == <<lease, sandbox, snaps, issued, timer, lock, op, up, stray, now, faults>>

Times == 0..MaxTime
NoLease == [there |-> FALSE, expires |-> 0, auto |-> FALSE, paused |-> {}, retained |-> {}]
Leases == [there : BOOLEAN, expires : Times, auto : BOOLEAN, paused : SUBSET Snapshots, retained : SUBSET Snapshots]
Idle == [kind |-> "none", step |-> "idle", policy |-> NoLease, failed |-> FALSE]

TypeOK ==
    /\ lease \in Leases /\ sandbox \in {"none", "running", "stopped"}
    /\ snaps \subseteq issued /\ issued \subseteq Snapshots /\ timer \in Times
    /\ lock \subseteq Procs /\ up \in BOOLEAN /\ stray \in BOOLEAN /\ now \in Times /\ faults \in 0..MaxFaults
    /\ op \in [Procs -> [kind : {"none", "create", "pause", "timeout", "connect", "kill", "expire"},
                         step : {"idle", "lock", "read", "hibernate", "restore", "put", "undo", "stop", "remove",
                                 "purge", "retry"},
                         policy : Leases, failed : BOOLEAN]]

Init ==
    /\ lease = NoLease /\ sandbox = "none" /\ snaps = {} /\ issued = {} /\ timer = 0
    /\ lock = {} /\ op = [p \in Procs |-> Idle] /\ up = TRUE /\ stray = FALSE /\ now = 1 /\ faults = 0

Fault == faults < MaxFaults /\ faults' = faults + 1
At(p, step) == op[p].step = step
Goto(p, step) == op' = [op EXCEPT ![p].step = step]
Deadlines == {t \in Times : \E d \in Timeouts : t = now + d}

\* The call ends and its lock is released; expire arms a retry after an error.
Leave(p, failed) ==
    /\ lock' = lock \ {p}
    /\ op' = [op EXCEPT ![p] = IF failed /\ op[p].kind = "expire" THEN [Idle EXCEPT !.kind = "expire", !.step = "retry"]
                                ELSE Idle]
-----------------------------------------------------------------------------
\* create: the sandbox runs before its lease exists.

create(p, auto) ==
    /\ up /\ At(p, "idle") /\ sandbox = "none" /\ ~lease.there
    /\ \A q \in Procs : op[q].kind # "create"
    /\ sandbox' = "running"
    /\ \E t \in Deadlines :
        op' = [op EXCEPT ![p] = [kind |-> "create", step |-> "put", failed |-> FALSE,
                                 policy |-> [NoLease EXCEPT !.there = TRUE, !.expires = t, !.auto = auto]]]
    /\ UNCHANGED <<lease, snaps, issued, timer, lock, up, stray, now, faults>>

createUndo(p) ==
    /\ At(p, "undo") /\ Leave(p, TRUE)
    /\ sandbox' = "none"
    /\ UNCHANGED <<lease, snaps, issued, timer, up, stray, now, faults>>

createUndoFailed(p) ==
    /\ At(p, "undo") /\ Fault /\ Leave(p, TRUE)
    /\ sandbox' \in {sandbox} \cup (IF sandbox = "running" THEN {"stopped"} ELSE {})
    /\ UNCHANGED <<lease, snaps, issued, timer, up, stray, now>>
-----------------------------------------------------------------------------
\* Calls that name an existing lease.

Call(p, kind) ==
    /\ up /\ At(p, "idle") /\ kind \in {"pause", "timeout", "connect", "kill"}
    /\ op' = [op EXCEPT ![p] = [Idle EXCEPT !.kind = kind, !.step = "lock"]]
    /\ UNCHANGED <<lease, sandbox, snaps, issued, timer, lock, up, stray, now, faults>>

\* The timer's callback.
Fire(p) ==
    /\ up /\ At(p, "idle") /\ timer # 0 /\ timer <= now
    /\ timer' = 0
    /\ op' = [op EXCEPT ![p] = [Idle EXCEPT !.kind = "expire", !.step = "lock"]]
    /\ UNCHANGED <<lease, sandbox, snaps, issued, lock, up, stray, now, faults>>

Lock(p) ==
    /\ At(p, "lock") /\ lock = {} /\ lock' = {p}
    /\ op' = [op EXCEPT ![p].step = "read", ![p].policy = lease]
    /\ UNCHANGED <<lease, sandbox, snaps, issued, timer, up, stray, now, faults>>

LockFailed(p) ==
    /\ At(p, "lock") /\ Fault /\ Leave(p, TRUE)
    /\ UNCHANGED <<lease, sandbox, snaps, issued, timer, up, stray, now>>

pause(p) ==
    /\ At(p, "read") /\ op[p].kind = "pause"
    /\ IF op[p].policy.there /\ op[p].policy.paused = {} /\ sandbox = "running" THEN Goto(p, "hibernate") /\ UNCHANGED lock
       ELSE Leave(p, TRUE)
    /\ UNCHANGED <<lease, sandbox, snaps, issued, timer, up, stray, now, faults>>

setTimeout(p) ==
    /\ At(p, "read") /\ op[p].kind = "timeout"
    /\ IF op[p].policy.there /\ op[p].policy.paused = {}
       THEN \E t \in Deadlines :
             op' = [op EXCEPT ![p].step = "put", ![p].policy.expires = t] /\ UNCHANGED lock
       ELSE Leave(p, TRUE)
    /\ UNCHANGED <<lease, sandbox, snaps, issued, timer, up, stray, now, faults>>

connectSandbox(p) ==
    /\ At(p, "read") /\ op[p].kind = "connect"
    /\ CASE op[p].policy.there /\ op[p].policy.paused # {} /\ sandbox = "stopped" -> Goto(p, "restore") /\ UNCHANGED lock
         [] op[p].policy.there /\ sandbox = "running" ->
              \E t \in Deadlines :
                /\ op' = [op EXCEPT ![p].step = "put", ![p].policy.paused = {},
                                    ![p].policy.expires = IF @ < t THEN t ELSE @]
                /\ UNCHANGED lock
         [] OTHER -> Leave(p, TRUE)
    /\ UNCHANGED <<lease, sandbox, snaps, issued, timer, up, stray, now, faults>>

killSandbox(p) ==
    /\ At(p, "read") /\ op[p].kind = "kill"
    /\ IF ~op[p].policy.there THEN Leave(p, TRUE)
       ELSE Goto(p, CASE sandbox = "none" -> "purge" [] sandbox = "running" -> "stop" [] OTHER -> "remove") /\ UNCHANGED lock
    /\ UNCHANGED <<lease, sandbox, snaps, issued, timer, up, stray, now, faults>>

\* A mutant: the callback trusts that its timer was for the current deadline.
expireUnchecked(p) ==
    /\ At(p, "read") /\ op[p].kind = "expire"
    /\ IF ~op[p].policy.there THEN Leave(p, FALSE)
       ELSE /\ Goto(p, CASE sandbox = "none" -> "purge"
                         [] sandbox = "running" -> IF op[p].policy.auto THEN "hibernate" ELSE "stop"
                         [] OTHER -> "remove")
            /\ UNCHANGED lock
    /\ UNCHANGED <<lease, sandbox, snaps, issued, timer, up, stray, now, faults>>

\* expireLocked: the durable deadline decides, not the one the timer had.
expireLocked(p) ==
    /\ At(p, "read") /\ op[p].kind = "expire"
    /\ CASE ~op[p].policy.there \/ op[p].policy.expires = 0 -> Leave(p, FALSE) /\ UNCHANGED timer
         [] op[p].policy.there /\ op[p].policy.expires > now -> Leave(p, FALSE) /\ timer' = op[p].policy.expires
         [] OTHER -> /\ Goto(p, CASE sandbox = "none" -> "purge"
                                  [] sandbox = "running" -> IF op[p].policy.auto THEN "hibernate" ELSE "stop"
                                  [] OTHER -> "remove")
                     /\ UNCHANGED <<lock, timer>>
    /\ UNCHANGED <<lease, sandbox, snaps, issued, up, stray, now, faults>>

\* expire arms its retry after the lock is released.
expireRetry(p) ==
    /\ At(p, "retry")
    /\ timer' = IF now < MaxTime THEN now + 1 ELSE now
    /\ op' = [op EXCEPT ![p] = Idle]
    /\ UNCHANGED <<lease, sandbox, snaps, issued, lock, up, stray, now, faults>>
-----------------------------------------------------------------------------
\* pauseSandbox

\* The call as it goes on to put the snapshot it has taken.
Paused(call, s, failed) ==
    [call EXCEPT !.step = "put", !.failed = failed, !.policy.paused = {s}, !.policy.retained = @ \cup {s},
                 !.policy.expires = 0]

Hibernate(p) ==
    /\ At(p, "hibernate") /\ sandbox = "running"
    /\ \E s \in Snapshots \ issued :
        /\ issued' = issued \cup {s} /\ snaps' = snaps \cup {s}
        /\ op' = [op EXCEPT ![p] = Paused(@, s, FALSE)]
    /\ sandbox' = "stopped"
    /\ UNCHANGED <<lease, timer, lock, up, stray, now, faults>>

\* Errors: nothing happened, the snapshot stands and the sandbox runs on, or
\* both happened and a later step of Hibernate failed.
HibernateFailed(p) ==
    /\ At(p, "hibernate")
    /\ \/ Fault \/ (sandbox # "running" /\ UNCHANGED faults)
    /\ \/ Leave(p, TRUE) /\ UNCHANGED <<sandbox, snaps, issued>>
       \/ /\ sandbox = "running"
          /\ \E s \in Snapshots \ issued :
              /\ issued' = issued \cup {s} /\ snaps' = snaps \cup {s}
              /\ \/ Leave(p, TRUE) /\ UNCHANGED sandbox
                 \/ op' = [op EXCEPT ![p] = Paused(@, s, TRUE)] /\ sandbox' = "stopped" /\ UNCHANGED lock
    /\ UNCHANGED <<lease, timer, up, stray, now>>

Restore(p) ==
    /\ At(p, "restore") /\ sandbox = "stopped" /\ op[p].policy.paused \subseteq snaps
    /\ sandbox' = "running"
    /\ \E t \in Deadlines :
        op' = [op EXCEPT ![p].step = "put", ![p].policy.paused = {}, ![p].policy.expires = IF @ < t THEN t ELSE @]
    /\ UNCHANGED <<lease, snaps, issued, timer, lock, up, stray, now, faults>>

RestoreFailed(p) ==
    /\ At(p, "restore")
    /\ LET possible == sandbox = "stopped" /\ op[p].policy.paused \subseteq snaps IN
        \/ Fault /\ sandbox' \in {sandbox} \cup (IF possible THEN {"running"} ELSE {})
        \/ ~possible /\ UNCHANGED <<sandbox, faults>>
    /\ Leave(p, TRUE)
    /\ UNCHANGED <<lease, snaps, issued, timer, up, stray, now>>
-----------------------------------------------------------------------------
\* put and schedule; put may fail before or after its rename.

put(p) ==
    /\ At(p, "put") /\ Leave(p, op[p].failed)
    /\ lease' = op[p].policy /\ timer' = op[p].policy.expires /\ stray' = FALSE
    /\ UNCHANGED <<sandbox, snaps, issued, up, now, faults>>

putFailed(p) ==
    /\ At(p, "put") /\ Fault
    /\ lease' \in {lease, op[p].policy} /\ stray' = TRUE
    /\ IF op[p].kind = "create" THEN Goto(p, "undo") /\ UNCHANGED lock ELSE Leave(p, TRUE)
    /\ UNCHANGED <<sandbox, snaps, issued, timer, up, now>>

Stop(p) ==
    /\ At(p, "stop") /\ Goto(p, "remove")
    /\ sandbox' = IF sandbox = "running" THEN "stopped" ELSE sandbox
    /\ UNCHANGED <<lease, snaps, issued, timer, lock, up, stray, now, faults>>

Remove(p) ==
    /\ At(p, "remove") /\ sandbox # "running" /\ Goto(p, "purge")
    /\ sandbox' = "none"
    /\ UNCHANGED <<lease, snaps, issued, timer, lock, up, stray, now, faults>>

KillFailed(p) ==
    /\ op[p].step \in {"stop", "remove"}
    /\ \/ Fault \/ (At(p, "remove") /\ sandbox = "running" /\ UNCHANGED faults)
    /\ Leave(p, TRUE)
    /\ UNCHANGED <<lease, sandbox, snaps, issued, timer, up, stray, now>>

\* removePauseSnapshots is best effort; then the file and the timer go.
purge(p) ==
    /\ At(p, "purge") /\ Leave(p, FALSE)
    /\ snaps' = snaps \ (op[p].policy.retained \cup op[p].policy.paused)
    /\ lease' = NoLease /\ timer' = 0 /\ stray' = FALSE
    /\ UNCHANGED <<sandbox, issued, up, now, faults>>

purgeFailed(p) ==
    /\ At(p, "purge") /\ Fault /\ Leave(p, TRUE)
    /\ snaps' \in {snaps, snaps \ (op[p].policy.retained \cup op[p].policy.paused)}
    /\ UNCHANGED <<lease, sandbox, issued, timer, up, stray, now>>
-----------------------------------------------------------------------------
Tick == now < MaxTime /\ now' = now + 1 /\ UNCHANGED <<lease, sandbox, snaps, issued, timer, lock, op, up, stray, faults>>

\* The sandbox exits or is stopped, started or removed with the native API.
Native ==
    /\ \/ sandbox = "running" /\ sandbox' = "stopped"
       \/ sandbox = "stopped" /\ sandbox' \in {"running", "none"}
    /\ \A p \in Procs : op[p].kind # "create"
    /\ Fault
    /\ UNCHANGED <<lease, snaps, issued, timer, lock, op, up, stray, now>>

Crash ==
    /\ up /\ Fault /\ up' = FALSE /\ timer' = 0 /\ lock' = {} /\ op' = [p \in Procs |-> Idle]
    /\ UNCHANGED <<lease, sandbox, snaps, issued, stray, now>>

\* NewHandler: load arms a timer for every lease.
load ==
    /\ ~up /\ up' = TRUE /\ timer' = lease.expires /\ stray' = FALSE
    /\ UNCHANGED <<lease, sandbox, snaps, issued, lock, op, now, faults>>

Calls(p) ==
    \/ \E auto \in BOOLEAN : create(p, auto)
    \/ \E kind \in {"pause", "timeout", "connect", "kill"} : Call(p, kind)
    \/ Lock(p) \/ LockFailed(p) \/ pause(p) \/ setTimeout(p) \/ connectSandbox(p) \/ killSandbox(p)
    \/ Fire(p) \/ expireLocked(p) \/ expireRetry(p)

Effects(p) ==
    \/ createUndo(p) \/ createUndoFailed(p) \/ Hibernate(p) \/ HibernateFailed(p)
    \/ Restore(p) \/ RestoreFailed(p) \/ put(p) \/ putFailed(p)
    \/ Stop(p) \/ Remove(p) \/ KillFailed(p) \/ purge(p) \/ purgeFailed(p)

Next == (\E p \in Procs : Calls(p) \/ Effects(p)) \/ Tick \/ Native \/ Crash \/ load

Spec == Init /\ [][Next]_vars
-----------------------------------------------------------------------------
(* A renewed lease cannot be reaped by an older timer: a callback that     *)
(* pauses, stops or removes the sandbox, or purges its snapshots, does so  *)
(* while the durable deadline is over.                                     *)
ExpiryRespectsDeadline ==
    \A p \in Procs :
        op[p].kind = "expire" /\ op[p].step \in {"hibernate", "stop", "remove", "purge"}
            => lease.there /\ lease.expires # 0 /\ lease.expires <= now

(* A deadline on disk is always followed by an armed timer or a callback   *)
(* on its way, across restarts, renewals that race with the callback and   *)
(* failing calls, except after a write of the lease that reported an error *)
(* to its client.                                                          *)
ExpiryIsScheduled ==
    up /\ lease.expires # 0 /\ ~stray => timer # 0 \/ \E p \in Procs : ~At(p, "idle")

(* A lease that points at a pause snapshot can be resumed from it: kill    *)
(* removes the snapshots only after the sandbox itself is gone.            *)
PausedIsResumable == lease.there /\ sandbox # "none" => lease.paused \subseteq snaps

(* The durable lease is acted upon, and only it: its deadline has a timer, *)
(* nothing expires before it, and what it says can be resumed can be.      *)
LeaseIsKept == ExpiryRespectsDeadline /\ ExpiryIsScheduled /\ PausedIsResumable
=============================================================================
