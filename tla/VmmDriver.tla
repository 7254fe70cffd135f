------------------------------- MODULE VmmDriver ------------------------------
(***************************************************************************)
(* The Cloud Hypervisor driver's view of host processes                     *)
(* (internal/vmm/cloudhypervisor/driver.go, process_linux.go,               *)
(* internal/vmm/paths.go, internal/cgroup/manager_linux.go).  A VMM is a    *)
(* host process in its sandbox's cgroup scope; process.json names one       *)
(* process and the catalog generation that launched it.  A process identity *)
(* is (PID, start ticks, boot ID), so an identity is never reused; the      *)
(* cgroup scope is busy exactly while one of its VMMs lives.                *)
(***************************************************************************)
EXTENDS SandboxCatalog

CONSTANTS
    Pids,     \* process identities
    NoPid

ASSUME NoPidAssumption == NoPid \notin Pids

VARIABLES
    vm,       \* the VMM behind each process identity: id = NoId when not alive
    pfile     \* process.json of each sandbox

driverVars == <<vm, pfile>>

Vm == [id : Ids \cup {NoId}, gen : Nat, ready : BOOLEAN]
NoVm == [id |-> NoId, gen |-> 0, ready |-> FALSE]

ProcessFile == [pid : Pids \cup {NoPid}, gen : Int]
NoFile == [pid |-> NoPid, gen |-> 0]

DriverTypeOK ==
    /\ vm \in [Pids -> Vm]
    /\ pfile \in [Ids -> ProcessFile]

DriverInit ==
    /\ vm = [v \in Pids |-> NoVm]
    /\ pfile = [i \in Ids |-> NoFile]

\* scopes.PIDs: the processes of the sandbox's cgroup.
Live(i) == {v \in Pids : vm[v].id = i}
Absent(i) == Live(i) = {}

-----------------------------------------------------------------------------
\* What Locate concludes, and what it writes.  A missing process.json falls
\* back to the cgroup and stamps the generation the caller ASKED FOR on the
\* single process found there (recoverProcess).  A process.json whose process
\* is gone means absent, and a live process of another generation an error.
Located(i, g, out, v) ==
    \/ /\ pfile[i] = NoFile /\ Absent(i)
       /\ out = "absent" /\ v = NoPid
    \/ /\ pfile[i] = NoFile /\ Live(i) = {v}
       /\ out = "found"
    \/ /\ pfile[i] = NoFile /\ ~Absent(i) /\ \A w \in Pids : Live(i) # {w}
       /\ out = "error" /\ v = NoPid
    \/ /\ pfile[i] # NoFile /\ pfile[i].pid \notin Live(i)
       /\ out = "absent" /\ v = NoPid
    \/ /\ pfile[i] # NoFile /\ pfile[i].pid \in Live(i) /\ pfile[i].gen # g
       /\ out = "error" /\ v = NoPid
    \/ /\ pfile[i] # NoFile /\ pfile[i].pid \in Live(i) /\ pfile[i].gen = g
       /\ out = "found" /\ v = pfile[i].pid

WriteProcess(i, v, g) == pfile' = [pfile EXCEPT ![i] = [pid |-> v, gen |-> g]]

Locate(i, g, out, v) ==
    /\ Located(i, g, out, v)
    /\ IF out = "found" THEN WriteProcess(i, v, g) ELSE UNCHANGED pfile
    /\ UNCHANGED vm

\* A mutant: the scope goes, process.json stays.
CleanupScopeOnly(i) == Absent(i) /\ UNCHANGED pfile

\* scopes.Remove refuses a busy scope; paths.Clear then drops process.json.
Cleanup(i) ==
    /\ Absent(i)
    /\ pfile' = [pfile EXCEPT ![i] = NoFile]

\* startProcess: the child is in the cgroup before it runs user code.
Exec(i, g, v) ==
    /\ vm[v].id = NoId
    /\ vm' = [vm EXCEPT ![v] = [id |-> i, gen |-> g, ready |-> FALSE]]

\* terminateProcess signals only the verified identity and waits for its exit.
Terminate(v) == vm' = [vm EXCEPT ![v] = NoVm]

\* vm.info starts to report Running.
BecomeReady(v) ==
    /\ vm[v].id # NoId
    /\ ~vm[v].ready
    /\ vm' = [vm EXCEPT ![v] = [id |-> vm[v].id, gen |-> vm[v].gen, ready |-> TRUE]]

=============================================================================
