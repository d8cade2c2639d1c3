--------------------------- MODULE MCFloodLimiter ---------------------------
(* FloodLimiter on small instances: two messages, which may be edited. *)
EXTENDS FloodLimiter

CONSTANTS m1, m2

TwoIds == {m1, m2}
=============================================================================
