---------------------------- MODULE BoundedQueue -----------------------------
(***************************************************************************)
(* What the queues of examples/queue-condy-futex.cpp and                   *)
(* examples/queue-kernel-futex.cpp promise: a first-in first-out queue     *)
(* that never holds more than Capacity items.                              *)
(***************************************************************************)
EXTENDS Naturals, Sequences

CONSTANTS Items, Capacity

VARIABLES
  items,   \* what is in the queue
  out      \* what has left it, in order

Init == items = <<>> /\ out = <<>>

Put(x) ==
  /\ Len(items) < Capacity
  /\ items' = Append(items, x)
  /\ UNCHANGED out

Take ==
  /\ items # <<>>
  /\ items' = Tail(items)
  /\ out' = Append(out, Head(items))

Next == Take \/ \E x \in Items : Put(x)

Spec == Init /\ [][Next]_<<items, out>>
=============================================================================
