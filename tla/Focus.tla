-------------------------------- MODULE Focus ---------------------------------
(***************************************************************************)
(* Components that share no state are explored by one run: the initial     *)
(* state chooses the component that moves.                                 *)
(***************************************************************************)
EXTENDS Integers

VARIABLE focus      \* the component that moves
=============================================================================
