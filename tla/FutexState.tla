----------------------------- MODULE FutexState ------------------------------
(***************************************************************************)
(* What a futex is to the code that uses it: a value, the coroutines or    *)
(* threads that sleep on it in the order they came, and those that have    *)
(* been woken and not yet resumed.  condy::Futex implements this           *)
(* (FutexSpec); the kernel's futex is modelled by it.                      *)
(***************************************************************************)
EXTENDS Naturals, Sequences, Functions

FutexOf(v) == [value |-> v, queue |-> <<>>, woken |-> {}]

Sleeping(f) == Range(f.queue) \cup f.woken

Stored(f, v) == [f EXCEPT !.value = v]

(* wait(v): "suspend the current coroutine only when the atomic value is   *)
(* still equal".                                                           *)
Waited(f, p, v) == IF f.value = v THEN [f EXCEPT !.queue = Append(@, p)] ELSE f

(* notify_one *)
NotifiedOne(f) ==
  IF f.queue = <<>> THEN f
  ELSE [f EXCEPT !.queue = Tail(@), !.woken = @ \cup {Head(f.queue)}]

(* notify_all *)
NotifiedAll(f) == [f EXCEPT !.queue = <<>>, !.woken = @ \cup Range(f.queue)]

(* The wait of the i-th sleeper is cancelled. *)
Cancelled(f, i) ==
  [f EXCEPT !.queue = [k \in 1..Len(@) - 1 |-> IF k < i THEN @[k] ELSE @[k + 1]],
            !.woken = @ \cup {f.queue[i]}]

(* p runs again. *)
Resumed(f, p) == [f EXCEPT !.woken = @ \ {p}]
=============================================================================
