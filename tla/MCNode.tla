-------------------------------- MODULE MCNode --------------------------------
(***************************************************************************)
(* Node for model checking: the locks in two scenarios.  Nothing is        *)
(* symmetric, because the run also checks the liveness of the daemon.      *)
(***************************************************************************)
EXTENDS Node

VARIABLE scenario   \* what is explored of the component that moves

MCInit ==
    /\ NodeInit
    /\ scenario \in IF focus = "locks" THEN {"sets", "transient"} ELSE {"all"}

\* Sets of two persistent paths, whose files stay, or one transient path, whose
\* file comes back under another inode.
LockBound ==
    \/ scenario = "sets" /\ (\A t \in Threads : todo'[t] \cap Transient = {}) /\ \A p \in Paths : file'[p] # 3
    \/ scenario = "transient" /\ \A t \in Threads : todo'[t] \subseteq Transient

MCNext ==
    \/ LockStep /\ LockBound /\ UNCHANGED scenario
    \/ DaemonStep /\ UNCHANGED scenario

MCSpec == MCInit /\ [][MCNext]_<<nodeVars, scenario>> /\ Daemon!Fairness
=============================================================================
