------------------------------ MODULE MCReport ------------------------------
(* Report on a small instance. *)
EXTENDS Report, TLC

CONSTANTS u1, w1, w2, r1

OneUser == {u1}
TwoWorkers == {w1, w2}
OneReport == {r1}

Symmetry == Permutations(TwoWorkers)
=============================================================================
