------------------------------- MODULE MCLink --------------------------------
(* Instances of Link for TLC: a link of three, a hard link of two and an   *)
(* operation by itself.                                                    *)
EXTENDS Link, TLC

CONSTANTS a, b, c, d

Lengths == (a :> 3) @@ (b :> 2) @@ (c :> 1) @@ (d :> 1)

(* A rejection of the last operation. *)
LastRejection == {<<a, 3>>}
=============================================================================
