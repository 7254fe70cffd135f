--------------------------- MODULE SandboxContract ----------------------------
(***************************************************************************)
(* What the lifecycle promises to a client that sees only the published     *)
(* state and generation of a sandbox and whether its VM executes: the state *)
(* graph of types.SandboxState, a generation that grows by one with every   *)
(* published change, power-on only inside Starting, and no publication of   *)
(* an off state while the VM executes.                                      *)
(***************************************************************************)
EXTENDS Naturals

CONSTANTS Sandboxes

VARIABLES
    state,   \* published state; "none" before creation and after deletion
    gen,     \* published generation
    on       \* does a VM of this sandbox execute?

contractVars == <<state, gen, on>>

Graph ==
    {<<"creating", "created">>, <<"creating", "error">>, <<"creating", "deleting">>,
     <<"created", "starting">>, <<"stopped", "starting">>, <<"error", "starting">>,
     <<"starting", "running">>, <<"starting", "error">>, <<"starting", "stopped">>,
     <<"running", "stopping">>, <<"running", "stopped">>, <<"stopping", "stopped">>,
     <<"created", "deleting">>, <<"stopped", "deleting">>, <<"error", "deleting">>}

\* States whose publication tells the client that nothing executes.
Off == {"creating", "created", "stopped"}

ContractInit ==
    /\ state = [s \in Sandboxes |-> "none"]
    /\ gen = [s \in Sandboxes |-> 0]
    /\ on = [s \in Sandboxes |-> FALSE]

Appear(s) ==
    /\ state[s] = "none" /\ ~on[s]
    /\ state' = [state EXCEPT ![s] = "creating"]
    /\ gen' = [gen EXCEPT ![s] = 1]
    /\ UNCHANGED on

Publish(s, to) ==
    /\ <<state[s], to>> \in Graph
    /\ to \in Off => ~on[s]
    /\ state' = [state EXCEPT ![s] = to]
    /\ gen' = [gen EXCEPT ![s] = @ + 1]
    /\ UNCHANGED on

Disappear(s) ==
    /\ state[s] \in {"creating", "deleting"}
    /\ state' = [state EXCEPT ![s] = "none"]
    /\ gen' = [gen EXCEPT ![s] = 0]
    /\ UNCHANGED on

PowerOn(s) ==
    /\ state[s] = "starting"
    /\ on' = [on EXCEPT ![s] = TRUE]
    /\ UNCHANGED <<state, gen>>

\* A guest may power off at any time, and a host crash takes every VM down.
PowerOff ==
    /\ \A s \in Sandboxes : on'[s] => on[s]
    /\ on' \in [Sandboxes -> BOOLEAN]
    /\ UNCHANGED <<state, gen>>

ContractNext ==
    \/ \E s \in Sandboxes :
        \/ Appear(s) \/ Disappear(s) \/ PowerOn(s)
        \/ \E edge \in Graph : Publish(s, edge[2])
    \/ PowerOff

ContractSpec == ContractInit /\ [][ContractNext]_contractVars

=============================================================================
