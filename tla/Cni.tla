--------------------------------- MODULE Cni ---------------------------------
(***************************************************************************)
(* The CNI provider's cleanup journal (network/cni): one sandbox's network *)
(* namespace, plugin attachments and TAPs against the metadata record that *)
(* must know of them.  Its caller holds the sandbox lock, so there is one  *)
(* operation at a time; it may fail or die at any step.  Plugin            *)
(* attachments (addresses of an IPAM plugin) survive a reboot, the         *)
(* namespace and its devices do not.                                       *)
(***************************************************************************)
EXTENDS Naturals, FiniteSets

CONSTANTS Nics,         \* NIC slots of the sandbox
          MaxFaults     \* bound on failed steps, crashes and reboots

VARIABLES
    record,     \* durable: phase of the aggregate, phase of each interface
    namespace,  \* kernel: the named network namespace exists
    attached,   \* plugin: slots with an attachment
    taps,       \* kernel: slots with a TAP and redirect in the namespace
    op, faults

vars == <<record, namespace, attached, taps, op, faults>>
host == <<namespace, attached, taps>>

NoRecord == [phase |-> "none", nic |-> [i \in Nics |-> "none"]]
Idle == [kind |-> "idle", step |-> "idle", specs |-> {}, todo |-> {}, touched |-> {},
         item |-> [i \in Nics |-> "none"], failed |-> FALSE]

Phases == {"none", "staged", "adding", "ready", "deleting"}

TypeOK ==
    /\ record \in [phase : {"none", "preparing", "ready", "deleting"}, nic : [Nics -> Phases]]
    /\ namespace \in BOOLEAN /\ attached \subseteq Nics /\ taps \subseteq Nics
    /\ op \in [kind : {"idle", "add", "remove", "delete", "recover"},
               step : {"idle", "prepare", "namespace", "stage", "scan", "redo", "plug", "commit", "undo",
                       "delete", "sweep", "unnamespace", "drop"},
               specs : SUBSET Nics, todo : SUBSET Nics, touched : SUBSET Nics,
               item : [Nics -> Phases], failed : BOOLEAN]
    /\ faults \in Nat

Init ==
    /\ record = NoRecord /\ namespace = FALSE /\ attached = {} /\ taps = {}
    /\ op = Idle /\ faults = 0

Fault == faults < MaxFaults /\ faults' = faults + 1
At(kind, step) == op.kind = kind /\ op.step = step
Goto(step) == op' = [op EXCEPT !.step = step]
Return == op' = Idle
Listed == {i \in Nics : record.nic[i] # "none"}
SetNics(S, phase) == [i \in Nics |-> IF i \in S THEN phase ELSE record.nic[i]]

\* validateRecord: a ready aggregate has only ready interfaces.
validateRecord(r) == r.phase = "ready" => \A i \in Nics : r.nic[i] \in {"none", "ready"}

\* update: one metadata transaction, refused by validation.
update(r) == validateRecord(r) /\ record' = r
-----------------------------------------------------------------------------
\* Prepare and Add.

AddBegin(S) ==
    /\ op.kind = "idle" /\ S # {} /\ record.phase # "deleting"
    /\ update(IF record.phase = "none" THEN [record EXCEPT !.phase = "preparing"] ELSE record)
    /\ op' = [Idle EXCEPT !.kind = "add", !.step = "namespace", !.specs = S]
    /\ UNCHANGED <<host, faults>>

EnsureNamespace ==
    /\ At("add", "namespace") /\ Goto("stage")
    /\ namespace' = TRUE
    /\ UNCHANGED <<record, attached, taps, faults>>

stage ==
    /\ At("add", "stage")
    /\ LET new == op.specs \ Listed
       IN update([phase |-> IF new = {} THEN record.phase ELSE "preparing",
                  nic |-> SetNics(new, "staged")])
    /\ Goto("scan")
    /\ UNCHANGED <<host, faults>>

\* Slots are looked at in order: one with an unfinished removal ends the Add.
ScanNics ==
    /\ At("add", "scan")
    /\ LET bad == {i \in op.specs : record.nic[i] = "deleting"}
           open == {i \in op.specs : record.nic[i] \in {"staged", "adding"}}
       IN IF bad # {}
          THEN op' = [op EXCEPT !.step = "undo", !.failed = TRUE,
                        !.touched = {i \in open : \A b \in bad : i < b},
                        !.todo = {i \in open : \A b \in bad : i < b}]
          ELSE op' = [op EXCEPT !.step = "redo", !.touched = open,
                        !.todo = {i \in open : record.nic[i] = "adding"}]
    /\ UNCHANGED <<record, host, faults>>

\* deleteOne: DEL, then the TAP; it may fail before or after the DEL.
deleteOne(i) == attached' = attached \ {i} /\ taps' = taps \ {i}
deleteOneFailed(i) ==
    Fault /\ (\E gone \in SUBSET {i} : attached' = attached \ gone) /\ UNCHANGED taps

\* An interrupted ADD is deleted before it is issued again, slot by slot.
RedoNic(i) ==
    /\ At("add", "redo") /\ i \in op.todo /\ \A j \in op.todo : i <= j
    /\ deleteOne(i)
    /\ op' = [op EXCEPT !.todo = @ \ {i}]
    /\ UNCHANGED <<record, namespace, faults>>

\* The slots after it were not looked at, and are not rolled back.
RedoFailed(i) ==
    /\ At("add", "redo") /\ i \in op.todo /\ \A j \in op.todo : i <= j
    /\ deleteOneFailed(i)
    /\ LET seen == {j \in op.touched : j <= i}
       IN op' = [op EXCEPT !.step = "undo", !.todo = seen, !.touched = seen, !.failed = TRUE]
    /\ UNCHANGED <<record, namespace>>

\* A mutant: the plugins run before the journal says so.
MarkNothing ==
    /\ At("add", "redo") /\ op.todo = {}
    /\ op' = [op EXCEPT !.step = "plug", !.todo = op.touched]
    /\ UNCHANGED <<record, host, faults>>

MarkAdding ==
    /\ At("add", "redo") /\ op.todo = {}
    /\ update([record EXCEPT !.nic = SetNics(op.touched, "adding")])
    /\ op' = [op EXCEPT !.step = "plug", !.todo = op.touched]
    /\ UNCHANGED <<host, faults>>

\* addOne of each slot, concurrently; a peer's failure does not cancel it.
addOne(i) ==
    /\ At("add", "plug") /\ i \in op.todo
    /\ attached' = attached \cup {i} /\ taps' = taps \cup {i}
    /\ op' = [op EXCEPT !.todo = @ \ {i}]
    /\ UNCHANGED <<record, namespace, faults>>

\* The plugin fails with or without its effect, or the redirect fails before or
\* after its TAP exists.
addOneFailed(i) ==
    /\ At("add", "plug") /\ i \in op.todo /\ Fault
    /\ \E plugged \in SUBSET {i} : \E made \in SUBSET plugged :
        attached' = attached \cup plugged /\ taps' = taps \cup made
    /\ op' = [op EXCEPT !.todo = @ \ {i}, !.failed = TRUE]
    /\ UNCHANGED <<record, namespace>>

StartUndo == op' = [op EXCEPT !.step = "undo", !.todo = op.touched, !.failed = TRUE]

storeReadyBatch ==
    /\ At("add", "plug") /\ op.todo = {}
    /\ IF op.failed THEN StartUndo /\ UNCHANGED record
       ELSE /\ update([record EXCEPT !.nic = SetNics(op.touched, "ready")])
            /\ Goto("commit")
    /\ UNCHANGED <<host, faults>>

CommitReady ==
    /\ At("add", "commit")
    /\ LET r == [record EXCEPT !.phase = "ready"]
       IN IF validateRecord(r) THEN record' = r /\ Return
          ELSE StartUndo /\ UNCHANGED record
    /\ UNCHANGED <<host, faults>>

\* A transaction of the Add failed: its deferred rollback runs.
AddFailed ==
    /\ op.kind = "add" /\ Fault
    /\ op.step = "commit" \/ (op.step \in {"redo", "plug"} /\ op.todo = {})
    /\ StartUndo
    /\ UNCHANGED <<record, host>>

AddRefused ==
    /\ op.kind = "add" /\ op.step \in {"namespace", "stage"} /\ Fault /\ Return
    /\ UNCHANGED <<record, host>>

\* rollback deletes each touched slot; a failed DEL keeps its record.
rollback(i) ==
    /\ At("add", "undo") /\ i \in op.todo
    /\ attached' = IF record.nic[i] = "staged" THEN attached ELSE attached \ {i}
    /\ taps' = taps \ {i}
    /\ op' = [op EXCEPT !.todo = @ \ {i}]
    /\ UNCHANGED <<record, namespace, faults>>

rollbackFailed(i) ==
    /\ At("add", "undo") /\ i \in op.todo /\ deleteOneFailed(i)
    /\ op' = [op EXCEPT !.todo = @ \ {i}, !.touched = @ \ {i}]
    /\ UNCHANGED <<record, namespace>>

SweepUndone ==
    /\ At("add", "undo") /\ op.todo = {} /\ Return
    /\ update([record EXCEPT !.nic = SetNics(op.touched, "none")])
    /\ UNCHANGED <<host, faults>>
-----------------------------------------------------------------------------
\* Remove of one slot: intent, DEL, sweep.

removeIndex(i) ==
    /\ op.kind = "idle" /\ record.phase \in {"preparing", "ready"} /\ i \in Listed
    /\ op' = [Idle EXCEPT !.kind = "remove", !.step = "delete", !.todo = {i}, !.item = record.nic]
    /\ update([phase |-> "preparing", nic |-> SetNics({i}, "deleting")])
    /\ UNCHANGED <<host, faults>>

\* deleteOne looks at the phase read before the intent was written.
RemoveNic ==
    /\ At("remove", "delete") /\ Goto("sweep")
    /\ attached' = attached \ {i \in op.todo : op.item[i] # "staged"}
    /\ taps' = taps \ op.todo
    /\ UNCHANGED <<record, namespace, faults>>

SweepRemoved ==
    /\ At("remove", "sweep") /\ Return
    /\ LET nic == SetNics(op.todo, "none")
       IN update([nic |-> nic,
                  phase |-> IF \A i \in Nics : nic[i] \in {"none", "ready"}
                            THEN "ready" ELSE record.phase])
    /\ UNCHANGED <<host, faults>>

RemoveFailed ==
    /\ op.kind = "remove" /\ (\E i \in op.todo : deleteOneFailed(i)) /\ Return
    /\ UNCHANGED <<record, namespace>>
-----------------------------------------------------------------------------
\* Delete, and Recover which deletes and adds again unless the host is intact.

StartDelete(next) ==
    /\ record.phase # "none"
    /\ update([record EXCEPT !.phase = "deleting"])
    /\ op' = [next EXCEPT !.step = "delete", !.todo = Listed, !.touched = {}, !.failed = FALSE]
    /\ UNCHANGED <<host, faults>>

Delete == op.kind = "idle" /\ StartDelete([Idle EXCEPT !.kind = "delete"])

Verify(S) == namespace /\ S \subseteq taps

Recover(S) ==
    /\ op.kind = "idle" /\ S # {} /\ ~Verify(S)
    /\ StartDelete([Idle EXCEPT !.kind = "recover", !.specs = S])

Deleting(step) == op.kind \in {"delete", "recover"} /\ op.step = step

DeleteNic(i) ==
    /\ Deleting("delete") /\ i \in op.todo
    /\ attached' = IF record.nic[i] = "staged" THEN attached ELSE attached \ {i}
    /\ op' = [op EXCEPT !.todo = @ \ {i}, !.touched = @ \cup {i}]
    /\ UNCHANGED <<record, namespace, taps, faults>>

DeleteNicFailed(i) ==
    /\ Deleting("delete") /\ i \in op.todo /\ deleteOneFailed(i)
    /\ op' = [op EXCEPT !.todo = @ \ {i}, !.failed = TRUE]
    /\ UNCHANGED <<record, namespace>>

\* Released slots leave the record; a failure keeps the rest for a retry.
SweepDeleted ==
    /\ Deleting("delete") /\ op.todo = {}
    /\ update([record EXCEPT !.nic = SetNics(op.touched, "none")])
    /\ IF op.failed THEN Return ELSE Goto("unnamespace")
    /\ UNCHANGED <<host, faults>>

RemoveNamespace ==
    /\ Deleting("unnamespace") /\ Goto("drop")
    /\ namespace' = FALSE /\ taps' = {}
    /\ UNCHANGED <<record, attached, faults>>

DropRecord ==
    /\ Deleting("drop")
    /\ record' = NoRecord
    /\ op' = IF op.kind = "recover"
             THEN [Idle EXCEPT !.kind = "add", !.step = "prepare", !.specs = op.specs] ELSE Idle
    /\ UNCHANGED <<host, faults>>

RecoverAdd ==
    /\ At("add", "prepare") /\ Goto("namespace")
    /\ update([record EXCEPT !.phase = "preparing"])
    /\ UNCHANGED <<host, faults>>

DeleteFailed ==
    /\ \E step \in {"unnamespace", "drop"} : Deleting(step)
    /\ Fault /\ Return
    /\ UNCHANGED <<record, host>>
-----------------------------------------------------------------------------
Crash == op.kind # "idle" /\ Fault /\ Return /\ UNCHANGED <<record, host>>

Reboot ==
    /\ Fault /\ Return
    /\ namespace' = FALSE /\ taps' = {}
    /\ UNCHANGED <<record, attached>>

Next ==
    \/ \E S \in SUBSET Nics : AddBegin(S) \/ Recover(S)
    \/ EnsureNamespace \/ stage \/ ScanNics \/ MarkAdding \/ storeReadyBatch \/ CommitReady
    \/ AddFailed \/ AddRefused \/ SweepUndone \/ RemoveNic \/ SweepRemoved \/ RemoveFailed
    \/ Delete \/ SweepDeleted \/ RemoveNamespace \/ DropRecord \/ RecoverAdd \/ DeleteFailed
    \/ \E i \in Nics : \/ RedoNic(i) \/ RedoFailed(i) \/ addOne(i) \/ addOneFailed(i) \/ rollback(i)
                       \/ rollbackFailed(i) \/ removeIndex(i) \/ DeleteNic(i)
                       \/ DeleteNicFailed(i)
    \/ Crash \/ Reboot

Spec == Init /\ [][Next]_vars
-----------------------------------------------------------------------------
(* Whatever step failed or died, the journal knows what is left on the     *)
(* host: a plugin attachment has an interface in the record for which a    *)
(* deletion will issue DEL (any phase but staged), and a namespace has a   *)
(* record.  So a completed Delete, which drops the record, leaves nothing. *)
JournalCoversHost ==
    /\ \A i \in attached : record.nic[i] \in {"adding", "ready", "deleting"}
    /\ (namespace \/ taps # {}) => record.phase # "none"
=============================================================================
