-------------------------- MODULE MCSandboxLifecycle --------------------------
(***************************************************************************)
(* Values for model checking SandboxLifecycle: which operations an instance *)
(* exercises.  The bounds themselves are in the .cfg files.                 *)
(***************************************************************************)
EXTENDS SandboxLifecycle, TLC

CoreKinds == {"create", "start", "stop", "remove", "reconcile", "gc"}
RecoveryKinds == CoreKinds \cup {"reboot"}
AllKinds == RecoveryKinds \cup {"restore", "status"}
StartRemove == {"create", "start", "remove"}
CreateReconcile == {"create", "remove", "reconcile"}
StartStatus == {"create", "start", "stop", "status"}

\* Operation slots are interchangeable, and so are fresh process identities.
Symmetry == Permutations(Procs) \cup Permutations(Pids)

=============================================================================
