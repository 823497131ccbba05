------------------------------ MODULE MCRuntime ------------------------------
(* Instances of Runtime for TLC; each .cfg names the sets it uses. *)
EXTENDS Runtime, TLC

CONSTANTS r1, r2, e1, w1, w2

Symmetry == Permutations({w1, w2})

(* Coroutines of r1 stop r1 and r2. *)
PeerExits == {<<r1, r1>>, <<r1, r2>>}

(* The program and its coroutines both stop r1. *)
DoubleExits == {<<e1, r1>>, <<r1, r1>>}
=============================================================================
