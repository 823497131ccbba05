------------------------------ MODULE FutexSpec ------------------------------
(***************************************************************************)
(* What condy::Futex promises (docs/guide.md, "Futex"), the operations of  *)
(* FutexState in any order: each one takes effect at once.                 *)
(***************************************************************************)
EXTENDS FutexState

CONSTANTS Waiters, Values

VARIABLES
  futex,
  old     \* the value each waiter waited on last

vars == <<futex, old>>

Init ==
  /\ \E v \in Values : futex = FutexOf(v)
  /\ old = [w \in Waiters |-> futex.value]

Wait(w, v) ==
  /\ w \notin Sleeping(futex)
  /\ futex' = Waited(futex, w, v)
  /\ old' = [old EXCEPT ![w] = v]

Next ==
  \/ \E w \in Waiters, v \in Values : Wait(w, v)
  \/ /\ UNCHANGED old
     /\ \/ \E v \in Values : futex' = Stored(futex, v)
        \/ futex' = NotifiedOne(futex)
        \/ futex' = NotifiedAll(futex)
        \/ \E i \in DOMAIN futex.queue : futex' = Cancelled(futex, i)
        \/ \E w \in futex.woken : futex' = Resumed(futex, w)

Spec == Init /\ [][Next]_vars
=============================================================================
