------------------------------- MODULE Devices -------------------------------
(***************************************************************************)
(* Devices attached to a running VM (core/sandbox_devices.go and           *)
(* vmm/cloudhypervisor/devices.go): disks, file shares and PCI devices     *)
(* follow one protocol.  A device has a name, from which its ID in the VMM *)
(* is derived, and a host resource (file, socket or PCI function).  The    *)
(* sandbox lock serialises the calls; replies of the VMM may be lost and a *)
(* guest may eject a device long after the request.                        *)
(***************************************************************************)
EXTENDS Naturals, FiniteSets

CONSTANTS Names, Resources, MaxFaults

VARIABLES
    listed,     \* [Names -> resource, as a set] in vm.info's configuration
    tree,       \* names in vm.info's device tree
    asked,      \* names whose ejection was requested
    vm, op, faults

vars == <<listed, tree, asked, vm, op, faults>>

NoDevices == [n \in Names |-> {}]
Idle == [step |-> "idle", call |-> "none", name |-> {}, resource |-> {}]
Call(step, call, n, r) == [step |-> step, call |-> call, name |-> {n}, resource |-> r]

TypeOK ==
    /\ listed \in [Names -> SUBSET Resources] /\ tree \subseteq Names /\ asked \subseteq tree
    /\ vm \in BOOLEAN /\ faults \in 0..MaxFaults
    /\ op.step \in {"idle", "look", "request", "poll", "ok", "error"}
    /\ op.call \in {"none", "attach", "detach"}

Init ==
    /\ listed = NoDevices /\ tree = {} /\ asked = {} /\ vm = TRUE /\ op = Idle /\ faults = 0

Fault == faults < MaxFaults /\ faults' = faults + 1
Goto(step) == op' = [op EXCEPT !.step = step]
-----------------------------------------------------------------------------
\* withRunningDevice: lock, resolve and locate come before the call.

Attach(n, r) ==
    /\ op.step = "idle" /\ vm
    /\ op' = Call("look", "attach", n, {r})
    /\ UNCHANGED <<listed, tree, asked, vm, faults>>

Detach(n) ==
    /\ op.step = "idle" /\ vm
    /\ op' = Call("look", "detach", n, {})
    /\ UNCHANGED <<listed, tree, asked, vm, faults>>

\* AddDisk, AddFileShare and AddPCIDevice refuse a used name or resource, the
\* Remove calls a name that is not attached.
Look(n) ==
    /\ op.step = "look" /\ n \in op.name
    /\ Goto(IF /\ vm
               /\ IF op.call = "attach" THEN listed[n] = {} /\ \A m \in Names : listed[m] \cap op.resource = {}
                  ELSE listed[n] # {}
            THEN "request" ELSE "error")
    /\ UNCHANGED <<listed, tree, asked, vm, faults>>

\* A name that the guest has not ejected yet is refused by the VMM.
Add(n) ==
    /\ op.step = "request" /\ op.call = "attach" /\ n \in op.name /\ vm /\ n \notin tree
    /\ listed' = [listed EXCEPT ![n] = op.resource] /\ tree' = tree \cup {n}
    /\ Goto("ok")
    /\ UNCHANGED <<asked, vm, faults>>

\* Without a good reply vm.info decides, if it can be read.
AddFailed(n) ==
    /\ op.step = "request" /\ op.call = "attach" /\ n \in op.name
    /\ \/ Fault \/ ((~vm \/ n \in tree) /\ UNCHANGED faults)
    /\ \E took, readable \in BOOLEAN :
        /\ took => vm /\ n \notin tree
        /\ listed' = IF took THEN [listed EXCEPT ![n] = op.resource] ELSE listed
        /\ tree' = IF took THEN tree \cup {n} ELSE tree
        /\ Goto(IF readable /\ vm /\ listed'[n] = op.resource THEN "ok" ELSE "error")
    /\ UNCHANGED <<asked, vm>>
-----------------------------------------------------------------------------
\* removeRuntimeDevice: request, then poll the device tree.  The configuration
\* may lose the device before the tree does.

\* A mutant: the accepted request counts as the ejection.
RequestIsEnough(n) ==
    /\ op.step = "request" /\ op.call = "detach" /\ n \in op.name /\ vm
    /\ asked' = asked \cup ({n} \cap tree)
    /\ listed' \in {listed, [listed EXCEPT ![n] = {}]}
    /\ Goto("ok")
    /\ UNCHANGED <<tree, vm, faults>>

Request(n) ==
    /\ op.step = "request" /\ op.call = "detach" /\ n \in op.name /\ vm
    /\ asked' = asked \cup ({n} \cap tree)
    /\ listed' \in {listed, [listed EXCEPT ![n] = {}]}
    /\ Goto("poll")
    /\ UNCHANGED <<tree, vm, faults>>

\* The request is not acknowledged: one look at the tree decides.
RequestFailed(n) ==
    /\ op.step = "request" /\ op.call = "detach" /\ n \in op.name
    /\ \/ Fault \/ (~vm /\ UNCHANGED faults)
    /\ \/ UNCHANGED <<asked, listed>>
       \/ /\ vm /\ asked' = asked \cup ({n} \cap tree)
          /\ listed' \in {listed, [listed EXCEPT ![n] = {}]}
    /\ \E readable \in BOOLEAN : Goto(IF readable /\ vm /\ n \notin tree THEN "ok" ELSE "error")
    /\ UNCHANGED <<tree, vm>>

Poll(n) ==
    /\ op.step = "poll" /\ n \in op.name /\ vm /\ n \notin tree
    /\ Goto("ok")
    /\ UNCHANGED <<listed, tree, asked, vm, faults>>

\* The guest is not done in time, the VM is gone or the query fails.
PollFailed ==
    /\ op.step = "poll"
    /\ \/ Fault \/ (~vm /\ UNCHANGED faults)
    /\ Goto("error")
    /\ UNCHANGED <<listed, tree, asked, vm>>

Return ==
    /\ op.step \in {"ok", "error"}
    /\ op' = Idle
    /\ UNCHANGED <<listed, tree, asked, vm, faults>>

Eject(n) ==
    /\ vm /\ n \in asked
    /\ tree' = tree \ {n} /\ asked' = asked \ {n} /\ listed' = [listed EXCEPT ![n] = {}]
    /\ UNCHANGED <<vm, op, faults>>

\* Attachments belong to one run of the VM.
VMExit ==
    /\ vm /\ vm' = FALSE /\ listed' = NoDevices /\ tree' = {} /\ asked' = {}
    /\ UNCHANGED <<op, faults>>

VMStart ==
    /\ ~vm /\ op.step = "idle" /\ vm' = TRUE
    /\ UNCHANGED <<listed, tree, asked, op, faults>>

Next ==
    \/ \E n \in Names : \/ Detach(n) \/ Look(n) \/ Add(n) \/ AddFailed(n) \/ Request(n) \/ RequestFailed(n)
                        \/ Poll(n) \/ Eject(n)
                        \/ \E r \in Resources : Attach(n, r)
    \/ PollFailed \/ Return \/ VMExit \/ VMStart

Spec == Init /\ [][Next]_vars
-----------------------------------------------------------------------------
(* The report of a call is true of the VMM: a detach that succeeds has     *)
(* waited until the guest let the device go, so that its host resource may *)
(* be given to somebody else, a successful attach is there with the        *)
(* resource it names, and no resource is in the configuration twice.       *)
ReportsAreTrue ==
    /\ \A n \in op.name : op.step = "ok" /\ op.call = "detach" => n \notin tree
    /\ \A n \in op.name : op.step = "ok" /\ op.call = "attach" /\ vm => n \in tree /\ listed[n] = op.resource
    /\ \A m, n \in Names : m # n => listed[m] \cap listed[n] = {}
=============================================================================
