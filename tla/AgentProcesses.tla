--------------------------- MODULE AgentProcesses ---------------------------
(***************************************************************************)
(* Background commands of the guest agent (agent/processes.go,             *)
(* agent/process_linux.go, agent/server_process.go): a bounded table of    *)
(* jobs, one goroutine per job that waits for it, callers that signal it,  *)
(* observers that replay and follow its output ring, and the shutdown of   *)
(* the agent.  The kernel recycles a PID once it has been reaped.          *)
(***************************************************************************)
EXTENDS Naturals, FiniteSets

CONSTANTS Jobs, Pids, Callers, Observers, MaxRunning, MaxRetained, MaxFrames, MaxOutput

VARIABLES
    table,      \* jobs in the process table
    job,        \* [Jobs -> state, pid, exited, running (info), ring, version]
    gate,       \* [Jobs -> holder of signalMu, as a set]
    foreign,    \* recycled PIDs that belong to somebody else
    caller,     \* [Callers -> signal call]
    obs,        \* [Observers -> stream]
    closed,     \* the manager refuses new jobs
    close       \* the shutdown call: step and jobs still to kill

vars == <<table, job, gate, foreign, caller, obs, closed, close>>

NoJob == [state |-> "new", pid |-> 0, exited |-> FALSE, running |-> FALSE,
          low |-> 1, cursor |-> 0, version |-> 0]
Resting == [step |-> "idle", job |-> {}]
Absent == [step |-> "idle", job |-> {}, attach |-> FALSE, after |-> 0, seen |-> {}, gaps |-> {},
           batch |-> {}, alive |-> FALSE, armed |-> 0]
Waiter(j) == <<"wait", j>>

TypeOK ==
    /\ table \subseteq Jobs /\ closed \in BOOLEAN /\ foreign \subseteq Pids
    /\ \A j \in Jobs : /\ job[j].state \in {"new", "running", "zombie", "held", "reaped", "finished"}
                       /\ job[j].pid \in Pids \cup {0} /\ job[j].cursor \in 0..MaxOutput
                       /\ Cardinality(gate[j]) <= 1
    /\ \A c \in Callers : caller[c].step \in {"idle", "gate", "kill"}
    /\ \A o \in Observers : obs[o].step \in {"idle", "send", "wait", "done"}
    /\ close.step \in {"idle", "kill", "done"}

Init ==
    /\ table = {} /\ job = [j \in Jobs |-> NoJob] /\ gate = [j \in Jobs |-> {}] /\ foreign = {}
    /\ caller = [c \in Callers |-> Resting] /\ obs = [o \in Observers |-> Absent]
    /\ closed = FALSE /\ close = [step |-> "idle", jobs |-> {}]

Used == {job[j].pid : j \in {k \in Jobs : job[k].state \in {"running", "zombie", "held"}}} \cup foreign
-----------------------------------------------------------------------------
\* admit: an exited job (the oldest; exit times are left out) makes room.
admit(keep) ==
    /\ Cardinality({j \in table : job[j].running}) < MaxRunning
    /\ IF Cardinality(table) >= MaxRetained
       THEN \E old \in {j \in table : ~job[j].running} : keep = table \ {old}
       ELSE keep = table

spawn(j, pid) ==
    /\ job[j].state = "new" /\ pid \notin Used
    /\ ~closed
    /\ \E keep \in SUBSET table : admit(keep) /\ table' = keep \cup {j}
    /\ job' = [job EXCEPT ![j] = [NoJob EXCEPT !.state = "running", !.running = TRUE, !.pid = pid]]
    /\ UNCHANGED <<gate, foreign, caller, obs, closed, close>>

\* Another process of the guest takes or gives back a free PID.
Recycle(pid) == /\ foreign' = IF pid \in foreign THEN foreign \ {pid} ELSE foreign \cup ({pid} \ Used)
                /\ foreign' # foreign
                /\ UNCHANGED <<table, job, gate, caller, obs, closed, close>>
-----------------------------------------------------------------------------
\* The command and waitManagedProcess: the leader stays a zombie until the gate
\* is held, and is reaped before the gate is given back.

Exit(j) ==
    /\ job[j].state = "running"
    /\ job' = [job EXCEPT ![j].state = "zombie"]
    /\ UNCHANGED <<table, gate, foreign, caller, obs, closed, close>>

waitManagedProcess(j) ==
    /\ job[j].state = "zombie" /\ gate[j] = {}
    /\ gate' = [gate EXCEPT ![j] = {Waiter(j)}]
    /\ job' = [job EXCEPT ![j].state = "held", ![j].exited = TRUE]
    /\ UNCHANGED <<table, foreign, caller, obs, closed, close>>

Reap(j) ==
    /\ job[j].state = "held"
    /\ job' = [job EXCEPT ![j].state = "reaped"]
    /\ UNCHANGED <<table, gate, foreign, caller, obs, closed, close>>

\* append: the pipes are drained before Wait returns.
append(j) ==
    /\ job[j].state \in {"running", "zombie", "held"} /\ job[j].cursor < MaxOutput
    /\ LET c == job[j].cursor + 1 IN
        job' = [job EXCEPT ![j].cursor = c, ![j].version = @ + 1,
                           ![j].low = IF c - @ >= MaxFrames THEN @ + 1 ELSE @]
    /\ UNCHANGED <<table, gate, foreign, caller, obs, closed, close>>

Ungate(j) ==
    /\ job[j].state = "reaped" /\ gate[j] = {Waiter(j)}
    /\ gate' = [gate EXCEPT ![j] = {}]
    /\ UNCHANGED <<table, job, foreign, caller, obs, closed, close>>

finish(j) ==
    /\ job[j].state = "reaped" /\ Waiter(j) \notin gate[j]
    /\ job' = [job EXCEPT ![j].state = "finished", ![j].running = FALSE, ![j].version = @ + 1]
    /\ UNCHANGED <<table, gate, foreign, caller, obs, closed, close>>
-----------------------------------------------------------------------------
\* signal, by a client or by close.

lookup(c, j) ==
    /\ caller[c].step = "idle" /\ j \in table
    /\ caller' = [caller EXCEPT ![c] = [step |-> "gate", job |-> {j}]]
    /\ UNCHANGED <<table, job, gate, foreign, obs, closed, close>>

\* A mutant: the exit of the process is not looked at under its lock.
signalAnyway(c, j) ==
    /\ caller[c].step = "gate" /\ j \in caller[c].job /\ gate[j] = {}
    /\ gate' = [gate EXCEPT ![j] = {c}]
    /\ caller' = [caller EXCEPT ![c].step = "kill"]
    /\ UNCHANGED <<table, job, foreign, obs, closed, close>>

signal(c, j) ==
    /\ caller[c].step = "gate" /\ j \in caller[c].job /\ gate[j] = {}
    /\ IF job[j].exited THEN caller' = [caller EXCEPT ![c] = Resting] /\ UNCHANGED gate
       ELSE /\ gate' = [gate EXCEPT ![j] = {c}]
            /\ caller' = [caller EXCEPT ![c].step = "kill"]
    /\ UNCHANGED <<table, job, foreign, obs, closed, close>>

signalManagedProcess(c, j) ==
    /\ caller[c].step = "kill" /\ j \in caller[c].job
    /\ gate' = [gate EXCEPT ![j] = {}] /\ caller' = [caller EXCEPT ![c] = Resting]
    /\ \/ job' = [job EXCEPT ![j].state = IF @ = "running" THEN "zombie" ELSE @]
       \/ UNCHANGED job
    /\ UNCHANGED <<table, foreign, obs, closed, close>>

\* close freezes the table, kills what is in it and joins the waiters.
closeBegin ==
    /\ ~closed /\ closed' = TRUE
    /\ close' = [step |-> "kill", jobs |-> table]
    /\ UNCHANGED <<table, job, gate, foreign, caller, obs>>

closeKill(j) ==
    /\ close.step = "kill" /\ j \in close.jobs /\ gate[j] = {}
    /\ close' = [close EXCEPT !.jobs = @ \ {j}]
    /\ job' = [job EXCEPT ![j].state = IF @ = "running" THEN "zombie" ELSE @]
    /\ UNCHANGED <<table, gate, foreign, caller, obs, closed>>

closeWait ==
    /\ close.step = "kill" /\ close.jobs = {}
    /\ \A j \in Jobs : job[j].state \in {"new", "finished"}
    /\ close' = [close EXCEPT !.step = "done"]
    /\ UNCHANGED <<table, job, gate, foreign, caller, obs, closed>>
-----------------------------------------------------------------------------
\* streamProcess: a consistent batch and the channel to wait on, then the next.

\* A mutant: the observer waits for a change without the frames that are there.
outputArmedLate(j, after) ==
    [batch |-> {}, alive |-> job[j].running, armed |-> job[j].version]

output(j, after) ==
    [batch |-> {n \in job[j].low..job[j].cursor : n > after}, alive |-> job[j].running, armed |-> job[j].version]

streamProcess(o, j, attach, after) ==
    /\ obs[o].step = "idle" /\ j \in table /\ after \in 0..job[j].cursor
    /\ LET got == output(j, after) IN
        obs' = [obs EXCEPT ![o] = [step |-> "send", job |-> {j}, attach |-> attach, after |-> after,
                                   seen |-> 1..after, gaps |-> {}, batch |-> got.batch,
                                   alive |-> got.alive, armed |-> got.armed]]
    /\ UNCHANGED <<table, job, gate, foreign, caller, closed, close>>

\* A gap frame for what the ring lost, the frames, then done or wait.
Send(o) ==
    /\ obs[o].step = "send"
    /\ LET b == obs[o].batch
           last == IF b = {} THEN obs[o].after ELSE CHOOSE n \in b : \A m \in b : m <= n IN
        obs' = [obs EXCEPT ![o].after = last, ![o].seen = @ \cup b, ![o].batch = {},
                           ![o].gaps = IF b = {} THEN @ ELSE @ \cup {n \in (obs[o].after + 1)..last : \A m \in b : n < m},
                           ![o].step = IF ~obs[o].attach \/ ~obs[o].alive THEN "done" ELSE "wait"]
    /\ UNCHANGED <<table, job, gate, foreign, caller, closed, close>>

Changed(o, j) ==
    /\ obs[o].step = "wait" /\ j \in obs[o].job /\ job[j].version # obs[o].armed
    /\ LET got == output(j, obs[o].after) IN
        obs' = [obs EXCEPT ![o].step = "send", ![o].batch = got.batch, ![o].alive = got.alive, ![o].armed = got.armed]
    /\ UNCHANGED <<table, job, gate, foreign, caller, closed, close>>

Detach(o) ==
    /\ obs[o].step # "idle"
    /\ obs' = [obs EXCEPT ![o] = Absent]
    /\ UNCHANGED <<table, job, gate, foreign, caller, closed, close>>

Next ==
    \/ \E j \in Jobs : \/ \E pid \in Pids : spawn(j, pid)
                       \/ Exit(j) \/ waitManagedProcess(j) \/ Reap(j) \/ Ungate(j) \/ append(j) \/ finish(j) \/ closeKill(j)
                       \/ \E c \in Callers : lookup(c, j) \/ signal(c, j) \/ signalManagedProcess(c, j)
                       \/ \E o \in Observers : Changed(o, j)
                       \/ \E o \in Observers, attach \in BOOLEAN, after \in 0..MaxOutput : streamProcess(o, j, attach, after)
    \/ \E pid \in Pids : Recycle(pid)
    \/ \E o \in Observers : Send(o) \/ Detach(o)
    \/ closeBegin \/ closeWait

Spec == Init /\ [][Next]_vars
-----------------------------------------------------------------------------
(* A signal reaches only the command it names: whoever is about to send    *)
(* one finds the group leader running or not yet reaped, so its PID has    *)
(* not been recycled for another process of the guest.                     *)
SignalsStayHome ==
    \A c \in Callers, j \in Jobs :
        caller[c].step = "kill" /\ j \in caller[c].job =>
            job[j].state \in {"running", "zombie"} /\ job[j].pid \notin foreign

(* After close has returned no command runs, also none that was being      *)
(* spawned meanwhile, and running jobs are never evicted from the table.   *)
ClosedMeansEnded ==
    /\ close.step = "done" => \A j \in Jobs : job[j].state \in {"new", "finished"}
    /\ \A j \in Jobs : job[j].running => j \in table

(* An observer has received or been told to have missed every frame up to  *)
(* its cursor; it never sleeps on a channel while something newer is       *)
(* there; and the stream of an attached observer ends only with the last   *)
(* frame of a finished command.                                            *)
ObserverMissesNothing ==
    \A o \in Observers : \A j \in obs[o].job :
        /\ obs[o].seen \cup obs[o].gaps = 1..obs[o].after
        /\ obs[o].step = "wait" /\ obs[o].armed = job[j].version => obs[o].after = job[j].cursor /\ job[j].running
        /\ obs[o].step = "done" /\ obs[o].attach => obs[o].after = job[j].cursor /\ ~job[j].running

(* Signals reach only processes of the agent, and none survives it.        *)
ProcessesAreContained == SignalsStayHome /\ ClosedMeansEnded
=============================================================================
