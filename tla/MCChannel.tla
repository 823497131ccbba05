------------------------------ MODULE MCChannel ------------------------------
(* Two pushes and a pop on a channel without a buffer and on one with two   *)
(* slots; one push and two pops without a buffer and with one slot.         *)
EXTENDS Channel

CONSTANTS p1, p2, c1, c2

MCSetups ==
  ({0, 2} \X {{p1, p2, c1}}) \cup ({0, 1} \X {{p1, c1, c2}})
=============================================================================
