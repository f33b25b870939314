------------------------------- MODULE MCFuture -------------------------------
(* Instances of Future for TLC: plain futures p1, p2 and wait futures w1, w2. *)
EXTENDS Future

CONSTANTS p1, p2, w1, w2
=============================================================================
