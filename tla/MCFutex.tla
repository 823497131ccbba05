------------------------------- MODULE MCFutex -------------------------------
(* Two waiters and two notifiers. *)
EXTENDS Futex

CONSTANTS w1, w2, n1, n2
=============================================================================
