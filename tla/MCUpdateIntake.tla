--------------------------- MODULE MCUpdateIntake ---------------------------
(* UpdateIntake on small instances. *)
EXTENDS UpdateIntake, TLC

CONSTANTS i1, i2, w1

TwoInstances == {i1, i2}
OneWorker == {w1}
=============================================================================
