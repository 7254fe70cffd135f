---------------------------- MODULE SandboxCatalog ----------------------------
(***************************************************************************)
(* The sandbox catalog (internal/sandbox/catalog/store.go): one record per  *)
(* sandbox ID and a name index, both changed only inside store.Update       *)
(* transactions.  Every transition is fenced: the transaction re-reads the  *)
(* record and refuses unless state and generation are the ones the caller   *)
(* saw.  A transaction is one atomic step of whoever calls it, so this      *)
(* module defines them as action operators over the catalog variables and   *)
(* leaves their scheduling to the modules that extend it.                   *)
(***************************************************************************)
EXTENDS Integers

CONSTANTS
    Ids,      \* sandbox IDs (types.SandboxID): random UUIDs, never issued twice
    NoId,     \* no sandbox
    Names,    \* sandbox names; the naming rule also admits UUID-shaped names
    NoName    \* no name

ASSUME NoIdAssumption == NoId \notin Ids
ASSUME NoNameAssumption == NoName \notin Names

VARIABLES
    rec,      \* CollectionSandboxes: the stored record of each ID
    names,    \* CollectionNames: the ID bound to each name
    setup     \* the network fields of each record, or of the last one it had

catalogVars == <<rec, names, setup>>

States == {"none", "creating", "created", "starting", "running",
           "stopping", "stopped", "error", "deleting"}

\* "none" stands for the absence of a row.
Record == [state : States, gen : Nat, name : Names \cup {NoName}]
NoRecord == [state |-> "none", gen |-> 0, name |-> NoName]

\* What Config and Network say together: no NICs and no setup, without or with a
\* network name; NICs whose setup is not stored yet; a stored setup.
Setups == {"offline", "named", "pending", "published"}

\* Sandbox.Validate on the record a transition is about to store ("none": the
\* record goes): past Creating a network name needs a setup, and NICs need one
\* in every state but Error and Deleting.
Valid(s, to) ==
    /\ s = "named" => to \in {"creating", "none"}
    /\ s = "pending" => to \in {"creating", "error", "deleting", "none"}

CatalogTypeOK ==
    /\ rec \in [Ids -> Record]
    /\ names \in [Names -> Ids \cup {NoId}]

SetupTypeOK == setup \in [Ids -> Setups]

CatalogInit ==
    /\ rec = [i \in Ids |-> NoRecord]
    /\ names = [n \in Names |-> NoId]
    /\ setup = [i \in Ids |-> "offline"]

Exists(i) == rec[i].state # "none"

\* An exact name wins over a complete ID.
Resolve(ref) ==
    IF ref \in Names /\ names[ref] # NoId THEN names[ref]
    ELSE IF ref \in Ids /\ rec[ref].state # "none" THEN ref
    ELSE NoId

-----------------------------------------------------------------------------
(* The fence every transition checks, and the step it then commits.          *)

Fenced(i, g, from) == rec[i].state \in from /\ rec[i].gen = g

\* A mutant: the generation does not move.
AdvanceStateOnly(i, to) ==
    /\ rec' = [rec EXCEPT ![i].state = to]
    /\ UNCHANGED names

Advance(i, to) ==
    /\ rec' = [rec EXCEPT ![i] = [state |-> to, gen |-> rec[i].gen + 1, name |-> rec[i].name]]
    /\ UNCHANGED names

Startable == {"created", "stopped", "error"}
Removable == {"creating", "created", "stopped", "error"}
MayOwnVMM == {"starting", "running", "stopping"}

Reserve(i, n, s) ==
    /\ rec[i].state = "none"
    /\ names[n] = NoId
    /\ rec' = [rec EXCEPT ![i] = [state |-> "creating", gen |-> 1, name |-> n]]
    /\ names' = [names EXCEPT ![n] = i]
    /\ setup' = [setup EXCEPT ![i] = s]

\* Only MarkCreated stores the network setup; an Error record of a failed
\* creation keeps what the reservation said.
MarkCreated(i, g, s) ==
    /\ Fenced(i, g, {"creating"})
    /\ Valid(s, "created")
    /\ Advance(i, "created")
    /\ setup' = [setup EXCEPT ![i] = s]

\* Any other transition stores the network fields as they are.
Move(i, to) == Valid(setup[i], to) /\ Advance(i, to) /\ UNCHANGED setup

MarkError(i, g)      == Fenced(i, g, {"creating"}) /\ Move(i, "error")
MarkRunning(i, g)    == Fenced(i, g, {"starting"}) /\ Move(i, "running")
MarkStartError(i, g) == Fenced(i, g, {"starting"}) /\ Move(i, "error")

MarkStopped(i, g, from) ==
    /\ from \in MayOwnVMM
    /\ Fenced(i, g, {from})
    /\ Move(i, "stopped")

\* A retry that finds its own transition already committed changes nothing.
BeginStart(i, g) ==
    \/ Fenced(i, g, Startable) /\ Move(i, "starting")
    \/ Fenced(i, g, {"starting"}) /\ UNCHANGED catalogVars

BeginStop(i, g) ==
    \/ Fenced(i, g, {"running"}) /\ Move(i, "stopping")
    \/ Fenced(i, g, {"stopping"}) /\ UNCHANGED catalogVars

BeginDelete(i, g) ==
    \/ Fenced(i, g, Removable) /\ Move(i, "deleting")
    \/ Fenced(i, g, {"deleting"}) /\ UNCHANGED catalogVars

\* A mutant: the record goes and its name stays taken.
DeleteRecordOnly(i) ==
    /\ rec[i].name \in Names
    /\ rec' = [rec EXCEPT ![i] = NoRecord]
    /\ UNCHANGED <<names, setup>>

\* deleteRecord: the name row and the record go in the same transaction, and
\* only when the name row still points back at this record.
DeleteRecord(i) ==
    /\ rec[i].name \in Names
    /\ names[rec[i].name] = i
    /\ names' = [names EXCEPT ![rec[i].name] = NoId]
    /\ rec' = [rec EXCEPT ![i] = NoRecord]
    /\ UNCHANGED setup

FinalizeDelete(i, g) == Fenced(i, g, {"deleting"}) /\ DeleteRecord(i)
Forget(i, g)         == Fenced(i, g, {"creating"}) /\ DeleteRecord(i)

=============================================================================
