-------------------------- MODULE MCEventQueues --------------------------
(* EventQueues on a small instance. *)
EXTENDS EventQueues, TLC

CONSTANTS w1, w2

TwoWorkers == {w1, w2}

Symmetry == Permutations(TwoWorkers)
=============================================================================
