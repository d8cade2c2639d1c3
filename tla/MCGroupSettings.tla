-------------------------- MODULE MCGroupSettings --------------------------
(* GroupSettings on small instances: two settings, two instances. *)
EXTENDS GroupSettings, TLC

CONSTANTS photos, links, i1, i2, w1, w2

TwoFields == {photos, links}
PhotosOnly == {photos}
TwoInstances == {i1, i2}
TwoWorkers == {w1, w2}

Symmetry == Permutations(TwoWorkers)
=============================================================================
