------------------------------- MODULE Daemon -------------------------------
(***************************************************************************)
(* The node daemon: Run (daemon/server.go) admits requests, supervises and *)
(* shuts down in order; Supervise (daemon/supervisor.go) reconciles on a   *)
(* ticker and on exit hints; the hints come from a pidfd watcher           *)
(* (daemon/watch_linux.go).  The virtual machines outlive the daemon.      *)
(* The application's store is open from OpenApplication to Close.          *)
(***************************************************************************)
EXTENDS Naturals, FiniteSets

CONSTANTS Requests, VMs, MaxOperations, MaxStarts, MaxFaults

VARIABLES
    phase,      \* of Run
    store,      \* the application is open
    closing,    \* admission is frozen
    cancelled,  \* nodeCtx is cancelled
    slots,      \* occupied places of the admission channel
    waiting,    \* the requests WaitGroup's counter
    req,        \* [Requests -> place in the HTTP handler]
    sup,        \* Supervise: its place and the statuses it read
    flush,      \* flushSnapshotAccess
    vm,         \* [VMs -> [state, gen]]
    watch,      \* watcher: [on, fds: VMs -> watched generation, armed]
    hint,       \* the watcher's channel of capacity one
    faults

admission == <<closing, slots, waiting, req>>
watcher == <<watch, hint>>
vars == <<phase, store, closing, cancelled, slots, waiting, req, sup, flush, vm, watch, hint, faults>>

Gens == 0..MaxStarts
NoWatch == [on |-> FALSE, fds |-> [v \in VMs |-> 0], armed |-> {}]
Blind == [v \in VMs |-> 0]

TypeOK ==
    /\ phase \in {"off", "opened", "serving", "frozen", "closed", "drained", "joined", "exiting"}
    /\ store \in BOOLEAN /\ closing \in BOOLEAN /\ cancelled \in BOOLEAN /\ hint \in BOOLEAN
    /\ slots \in 0..MaxOperations /\ waiting \in 0..Cardinality(Requests)
    /\ req \in [Requests -> {"idle", "arrived", "slotted", "working", "refused"}]
    /\ sup.step \in {"ended", "reconcile", "collect", "status", "sync", "select"}
    /\ sup.seen \in [VMs -> Gens] /\ flush \in {"ended", "waiting", "writing"}
    /\ vm \in [VMs -> [state : {"stopped", "running", "exited"}, gen : Gens]]
    /\ watch.fds \in [VMs -> Gens] /\ watch.armed \subseteq VMs /\ faults \in 0..MaxFaults

Init ==
    /\ phase = "off" /\ store = FALSE /\ closing = FALSE /\ cancelled = FALSE /\ hint = FALSE
    /\ slots = 0 /\ waiting = 0 /\ req = [r \in Requests |-> "idle"]
    /\ sup = [step |-> "ended", seen |-> Blind] /\ flush = "ended"
    /\ vm = [v \in VMs |-> [state |-> "stopped", gen |-> 0]]
    /\ watch = NoWatch /\ faults = 0

Fault == faults < MaxFaults /\ faults' = faults + 1
-----------------------------------------------------------------------------
\* Run: open, recover, serve.

Open ==
    /\ phase = "off" /\ phase' = "opened" /\ store' = TRUE
    /\ closing' = FALSE /\ cancelled' = FALSE
    /\ UNCHANGED <<slots, waiting, req, sup, flush, vm, watcher, faults>>

StartFailed ==
    /\ phase = "opened" /\ Fault
    /\ phase' = "off" /\ store' = FALSE
    /\ UNCHANGED <<admission, cancelled, sup, flush, vm, watcher>>

\* The first reconciliation happens before the listener exists.
Serve ==
    /\ phase = "opened" /\ phase' = "serving"
    /\ vm' = [v \in VMs |-> IF vm[v].state = "exited" THEN [vm[v] EXCEPT !.state = "stopped"] ELSE vm[v]]
    /\ sup' = [step |-> "reconcile", seen |-> Blind] /\ flush' = "waiting"
    /\ \E on \in BOOLEAN : watch' = [NoWatch EXCEPT !.on = on]
    /\ hint' = FALSE
    /\ UNCHANGED <<store, admission, cancelled, faults>>

\* The signal, a failing listener or a failing readiness notification.
stopAdmission ==
    /\ phase = "serving" /\ phase' = "frozen" /\ closing' = TRUE
    /\ UNCHANGED <<store, cancelled, slots, waiting, req, sup, flush, vm, watcher, faults>>

\* Shutdown returns because no handler is left or because its time is over.
cancel ==
    /\ phase = "frozen" /\ phase' = "closed" /\ cancelled' = TRUE
    /\ UNCHANGED <<store, admission, sup, flush, vm, watcher, faults>>

Wait ==
    /\ phase = "closed" /\ waiting = 0 /\ phase' = "drained"
    /\ UNCHANGED <<store, admission, cancelled, sup, flush, vm, watcher, faults>>

Join ==
    /\ phase = "drained" /\ sup.step = "ended" /\ flush = "ended" /\ phase' = "joined"
    /\ UNCHANGED <<store, admission, cancelled, sup, flush, vm, watcher, faults>>

Close ==
    /\ phase = "joined" /\ phase' = "exiting" /\ store' = FALSE
    /\ UNCHANGED <<admission, cancelled, sup, flush, vm, watcher, faults>>

\* The process ends, after Run returned or at any other time.
ProcessEnd ==
    /\ phase' = "off" /\ store' = FALSE
    /\ slots' = 0 /\ waiting' = 0 /\ req' = [r \in Requests |-> "idle"]
    /\ sup' = [step |-> "ended", seen |-> Blind] /\ flush' = "ended" /\ watch' = NoWatch /\ hint' = FALSE
    /\ UNCHANGED <<closing, cancelled, vm>>

Exit == phase = "exiting" /\ ProcessEnd /\ UNCHANGED faults
Kill == phase # "off" /\ Fault /\ ProcessEnd
-----------------------------------------------------------------------------
\* One HTTP handler.  A handler may be scheduled while connections are closing.

Arrive(r) ==
    /\ req[r] = "idle" /\ phase \notin {"off", "opened"}
    /\ req' = [req EXCEPT ![r] = "arrived"]
    /\ UNCHANGED <<phase, store, closing, cancelled, slots, waiting, sup, flush, vm, watcher, faults>>

TakeSlot(r) ==
    /\ req[r] = "arrived" /\ slots < MaxOperations
    /\ slots' = slots + 1 /\ req' = [req EXCEPT ![r] = "slotted"]
    /\ UNCHANGED <<phase, store, closing, cancelled, waiting, sup, flush, vm, watcher, faults>>

TooMany(r) ==
    /\ req[r] = "arrived" /\ slots = MaxOperations
    /\ req' = [req EXCEPT ![r] = "idle"]
    /\ UNCHANGED <<phase, store, closing, cancelled, slots, waiting, sup, flush, vm, watcher, faults>>

\* A mutant: admission is not checked again under the lock.
AdmitLate(r) ==
    /\ req[r] = "slotted"
    /\ waiting' = waiting + 1 /\ req' = [req EXCEPT ![r] = "working"]
    /\ UNCHANGED <<phase, store, closing, cancelled, slots, sup, flush, vm, watcher, faults>>

\* Under requestMu: look at closing and join the group.
Admit(r) ==
    /\ req[r] = "slotted" /\ ~closing
    /\ waiting' = waiting + 1 /\ req' = [req EXCEPT ![r] = "working"]
    /\ UNCHANGED <<phase, store, closing, cancelled, slots, sup, flush, vm, watcher, faults>>

ShuttingDown(r) ==
    /\ req[r] = "slotted" /\ closing
    /\ req' = [req EXCEPT ![r] = "refused"]
    /\ UNCHANGED <<phase, store, closing, cancelled, slots, waiting, sup, flush, vm, watcher, faults>>

HandlerDone(r) ==
    /\ req[r] = "working"
    /\ waiting' = waiting - 1 /\ req' = [req EXCEPT ![r] = "refused"]
    /\ UNCHANGED <<phase, store, closing, cancelled, slots, sup, flush, vm, watcher, faults>>

ReturnSlot(r) ==
    /\ req[r] = "refused"
    /\ slots' = slots - 1 /\ req' = [req EXCEPT ![r] = "idle"]
    /\ UNCHANGED <<phase, store, closing, cancelled, waiting, sup, flush, vm, watcher, faults>>
-----------------------------------------------------------------------------
\* Supervise and the access flush, until nodeCtx is cancelled.

SupGoto(step) == sup' = [sup EXCEPT !.step = step]
supRest == <<phase, store, admission, cancelled, flush>>

\* A mutant: the ticker is only used while there is no watcher.
TickUnwatched ==
    ~watch.on /\ sup.step = "select" /\ SupGoto("reconcile") /\ UNCHANGED <<supRest, vm, watcher, faults>>

Tick == sup.step = "select" /\ SupGoto("reconcile") /\ UNCHANGED <<supRest, vm, watcher, faults>>

ExitEvent ==
    /\ sup.step = "select" /\ watch.on /\ hint /\ hint' = FALSE
    /\ SupGoto("reconcile")
    /\ UNCHANGED <<supRest, vm, watch, faults>>

GcTick == sup.step = "select" /\ SupGoto("collect") /\ UNCHANGED <<supRest, vm, watcher, faults>>

Collect == sup.step = "collect" /\ SupGoto("status") /\ UNCHANGED <<supRest, vm, watcher, faults>>

reconcile ==
    /\ sup.step = "reconcile" /\ SupGoto("status")
    /\ vm' = [v \in VMs |-> IF vm[v].state = "exited" THEN [vm[v] EXCEPT !.state = "stopped"] ELSE vm[v]]
    /\ UNCHANGED <<supRest, watcher, faults>>

reconcileFailed == sup.step = "reconcile" /\ Fault /\ SupGoto("status") /\ UNCHANGED <<supRest, vm, watcher>>

Status ==
    /\ sup.step = "status"
    /\ sup' = IF watch.on
              THEN [step |-> "sync", seen |-> [v \in VMs |-> IF vm[v].state = "running" THEN vm[v].gen ELSE 0]]
              ELSE [sup EXCEPT !.step = "select"]
    /\ UNCHANGED <<supRest, vm, watcher, faults>>

StatusFailed == sup.step = "status" /\ watch.on /\ Fault /\ SupGoto("select") /\ UNCHANGED <<supRest, vm, watcher>>

\* Sync drops what changed and opens what is new; a process gone since its
\* status was read leaves a hint instead.
Sync ==
    /\ sup.step = "sync"
    /\ sup' = [step |-> "select", seen |-> Blind]
    /\ LET kept == {v \in VMs : watch.fds[v] # 0 /\ watch.fds[v] = sup.seen[v]}
           new  == {v \in VMs : sup.seen[v] # 0} \ kept
           gone == {v \in new : vm[v].state # "running" \/ vm[v].gen # sup.seen[v]} IN
        /\ watch' = [watch EXCEPT
             !.fds = [v \in VMs |-> IF v \in (kept \cup new) \ gone THEN sup.seen[v] ELSE 0],
             !.armed = (@ \cap kept) \cup (new \ gone)]
        /\ hint' = (hint \/ gone # {})
    /\ UNCHANGED <<supRest, vm, faults>>

SyncFailed ==
    /\ sup.step = "sync" /\ Fault
    /\ sup' = [step |-> "select", seen |-> Blind]
    /\ watch' = NoWatch
    /\ UNCHANGED <<supRest, vm, hint>>

\* The epoll goroutine: a one-shot event and a send that does not block.
Notify(v) ==
    /\ watch.on /\ v \in watch.armed
    /\ vm[v].state # "running" \/ vm[v].gen # watch.fds[v]
    /\ watch' = [watch EXCEPT !.armed = @ \ {v}]
    /\ hint' = TRUE
    /\ UNCHANGED <<supRest, sup, vm, faults>>

SupEnd ==
    /\ cancelled /\ sup.step = "select"
    /\ SupGoto("ended") /\ watch' = NoWatch /\ hint' = FALSE
    /\ UNCHANGED <<supRest, vm, faults>>

FlushBegin ==
    /\ flush = "waiting" /\ flush' = "writing"
    /\ UNCHANGED <<phase, store, admission, cancelled, sup, vm, watcher, faults>>

FlushDone ==
    /\ flush = "writing" /\ flush' = "waiting"
    /\ UNCHANGED <<phase, store, admission, cancelled, sup, vm, watcher, faults>>

FlushEnd ==
    /\ cancelled /\ flush = "waiting" /\ flush' = "ended"
    /\ UNCHANGED <<phase, store, admission, cancelled, sup, vm, watcher, faults>>
-----------------------------------------------------------------------------
\* Virtual machines start under some request and exit by themselves.

VMStart(v) ==
    /\ vm[v].state = "stopped" /\ vm[v].gen < MaxStarts
    /\ \E r \in Requests : req[r] = "working"
    /\ vm' = [vm EXCEPT ![v] = [state |-> "running", gen |-> @.gen + 1]]
    /\ UNCHANGED <<supRest, sup, watcher, faults>>

VMExit(v) ==
    /\ vm[v].state = "running"
    /\ vm' = [vm EXCEPT ![v].state = "exited"]
    /\ UNCHANGED <<supRest, sup, watcher, faults>>

Shutdown == cancel \/ Wait \/ Join \/ Close \/ Exit
Handler(r) == TakeSlot(r) \/ TooMany(r) \/ Admit(r) \/ ShuttingDown(r) \/ ReturnSlot(r)
SupStep == Collect \/ reconcile \/ reconcileFailed \/ Status \/ StatusFailed \/ Sync \/ SyncFailed

Next ==
    \/ Open \/ StartFailed \/ Serve \/ stopAdmission \/ Shutdown \/ Kill
    \/ \E r \in Requests : Arrive(r) \/ Handler(r) \/ HandlerDone(r)
    \/ Tick \/ ExitEvent \/ GcTick \/ SupStep \/ SupEnd
    \/ FlushBegin \/ FlushDone \/ FlushEnd
    \/ \E v \in VMs : Notify(v) \/ VMStart(v) \/ VMExit(v)

(* Goroutines run.  A request ends once its context is cancelled and may   *)
(* stay for ever before.  The select of Supervise takes the ticker and the *)
(* cancelled context again and again while they are ready.                 *)
CancelledHandlerDone(r) == cancelled /\ HandlerDone(r)

Fairness ==
    /\ WF_vars(Shutdown) /\ WF_vars(SupStep) /\ WF_vars(FlushDone)
    /\ SF_vars(FlushEnd) /\ SF_vars(Tick) /\ SF_vars(SupEnd)
    /\ \A r \in Requests : WF_vars(CancelledHandlerDone(r))

Spec == Init /\ [][Next]_vars /\ Fairness
-----------------------------------------------------------------------------
(* Nothing works on a closed store: a handler that passed the gate, a      *)
(* supervisor pass and an access flush all end before Application.Close.   *)
(* Admission places are counted exactly whatever way a handler leaves.     *)
NoWorkAfterClose ==
    /\ ~store => /\ \A r \in Requests : req[r] # "working"
                 /\ sup.step = "ended" /\ flush = "ended"
    /\ slots = Cardinality({r \in Requests : req[r] \in {"slotted", "working", "refused"}})

(* A shutdown that has frozen admission ends, whatever its requests wait   *)
(* for: cancelling the node context ends the handlers, the supervisor and  *)
(* the flush in the order that Run waits for them.                         *)
ShutdownDrains == (phase = "frozen") ~> (phase = "off")

(* While the daemon serves, the exit of a VM is recorded, even if the hint *)
(* of its pidfd was lost or came before the watcher knew the process.      *)
ExitIsNoticed ==
    \A v \in VMs : (vm[v].state = "exited" /\ phase = "serving")
                       ~> (vm[v].state # "exited" \/ phase # "serving")

(* The daemon keeps up with its VMs while it serves, and once it is told   *)
(* to end it does.                                                         *)
ServesThenDrains == ExitIsNoticed /\ ShutdownDrains
=============================================================================
