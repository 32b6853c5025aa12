-------------------------------- MODULE MCIpc --------------------------------
(* Instances of Ipc for the model checker. *)
EXTENDS Ipc, TLC

CONSTANTS p1, p2, p3, tty

Swap == Permutations({p1, p2, p3})
=============================================================================
