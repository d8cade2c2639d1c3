---------------------------- MODULE MCStrikes -----------------------------
(* Strikes on small instances. *)
EXTENDS Strikes, TLC

CONSTANTS u, w1, w2

OneUser == {u}
TwoWorkers == {w1, w2}
=============================================================================
