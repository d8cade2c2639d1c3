---------------------------- MODULE MCTaskWorker ----------------------------
(* TaskWorker and its refinement on small instances: the sets of the runs. *)
EXTENDS TaskWorkerRefinement, TLC

CONSTANTS i1, i2, kUser, kMsg, kMsg2

OneInstance == {i1}
TwoInstances == {i1, i2}
UserKey == {kUser}
UserAndMessage == {kUser, kMsg}
MessageKeys == {kMsg, kMsg2}

Symmetry == Permutations(TwoInstances)
=============================================================================
