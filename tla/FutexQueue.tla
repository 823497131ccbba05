----------------------------- MODULE FutexQueue ------------------------------
(***************************************************************************)
(* The queue of examples/queue-condy-futex.cpp: a mutex and two condition  *)
(* variables made of condy::Futex, and coroutines that produce and consume *)
(* on two runtimes.                                                        *)
(*                                                                         *)
(* Every access to an atomic, to a futex or to the queue is one step, and  *)
(* any two coroutines interleave.  compare_exchange_weak fails only when   *)
(* the mutex is held: after a spurious failure wait(true) returns at once  *)
(* if the mutex is free, so the loop merely turns.                         *)
(***************************************************************************)
EXTENDS FutexState, Naturals

CONSTANTS
  Producers,
  Consumers,
  Capacity,      \* capacity_
  Produce,       \* produce_count
  Consume,       \* consume_count
  Generations    \* generation_ is counted modulo this number, 2^32 in the code

Procs == Producers \cup Consumers

ASSUME QueueAssumption ==
  /\ Producers \cap Consumers = {}
  /\ Capacity \in Nat \ {0}
  /\ Produce \in Nat
  /\ Consume \in Nat
  /\ Generations \in Nat \ {0, 1}

VARIABLES
  mutex,      \* state_ and futex_ of queue_mutex_
  notEmpty,   \* generation_ and futex_ of not_empty_
  notFull,    \* and of not_full_
  queue,      \* queue_
  pc,
  gen,        \* the local gen of wait(), 0 outside
  done,       \* calls of enqueue or dequeue a coroutine has made
  out         \* the items dequeued, in order

vars == <<mutex, notEmpty, notFull, queue, pc, gen, done, out>>

Init ==
  /\ mutex = FutexOf(FALSE)
  /\ notEmpty = FutexOf(0)
  /\ notFull = FutexOf(0)
  /\ queue = <<>>
  /\ pc = [p \in Procs |-> "begin"]
  /\ gen = [p \in Procs |-> 0]
  /\ done = [p \in Procs |-> 0]
  /\ out = <<>>

GoTo(p, there) == pc' = [pc EXCEPT ![p] = there]

(* The condition variable a coroutine waits on, *)
Awaited(p) == IF p \in Producers THEN notFull ELSE notEmpty

SetAwaited(p, cv) ==
  IF p \in Producers THEN notFull' = cv /\ UNCHANGED notEmpty
                     ELSE notEmpty' = cv /\ UNCHANGED notFull

(* and the one it notifies. *)
Signalled(p) == IF p \in Producers THEN notEmpty ELSE notFull

SetSignalled(p, cv) ==
  IF p \in Producers THEN notEmpty' = cv /\ UNCHANGED notFull
                     ELSE notFull' = cv /\ UNCHANGED notEmpty
-----------------------------------------------------------------------------
(* The next turn of the loop of producer or consumer: enqueue or dequeue   *)
(* calls lock().                                                           *)
Begin(p) ==
  /\ pc[p] = "begin"
  /\ done[p] < (IF p \in Producers THEN Produce ELSE Consume)
  /\ GoTo(p, "lock")
  /\ UNCHANGED <<mutex, notEmpty, notFull, queue, gen, done, out>>

(* Mutant: lock() loads and then stores. *)
LockLoad(p) ==
  /\ pc[p] = "lock"
  /\ p \notin Sleeping(mutex)
  /\ mutex' = Stored(mutex, TRUE)
  /\ GoTo(p, "check")
  /\ UNCHANGED <<notEmpty, notFull, queue, gen, done, out>>

(* lock(): the exchange succeeds, *)
Lock(p) ==
  /\ pc[p] = "lock"
  /\ p \notin Sleeping(mutex)
  /\ ~mutex.value
  /\ mutex' = Stored(mutex, TRUE)
  /\ GoTo(p, "check")
  /\ UNCHANGED <<notEmpty, notFull, queue, gen, done, out>>

(* or it fails; *)
LockFails(p) ==
  /\ pc[p] = "lock"
  /\ p \notin Sleeping(mutex)
  /\ mutex.value
  /\ GoTo(p, "contended")
  /\ UNCHANGED <<mutex, notEmpty, notFull, queue, gen, done, out>>

(* then futex_.wait(true), and round again. *)
LockWaits(p) ==
  /\ pc[p] = "contended"
  /\ mutex' = Waited(mutex, p, TRUE)
  /\ GoTo(p, "lock")
  /\ UNCHANGED <<notEmpty, notFull, queue, gen, done, out>>

(* A runtime resumes a coroutine that a futex has woken. *)
Resume(p) ==
  /\ p \in mutex.woken \cup notEmpty.woken \cup notFull.woken
  /\ mutex' = Resumed(mutex, p)
  /\ notEmpty' = Resumed(notEmpty, p)
  /\ notFull' = Resumed(notFull, p)
  /\ UNCHANGED <<queue, pc, gen, done, out>>

(* The condition of the while of enqueue and of dequeue. *)
MustWait(p) ==
  IF p \in Producers THEN Len(queue) >= Capacity ELSE queue = <<>>

(* That loop; wait() of the condition variable begins with the load of     *)
(* generation_, under the mutex.                                           *)
Check(p) ==
  /\ pc[p] = "check"
  /\ GoTo(p, IF MustWait(p) THEN "release" ELSE "access")
  /\ gen' = [gen EXCEPT ![p] = IF MustWait(p) THEN Awaited(p).value ELSE 0]
  /\ UNCHANGED <<mutex, notEmpty, notFull, queue, done, out>>

(* wait() calls mutex.unlock(): the store, *)
Release(p) ==
  /\ pc[p] = "release"
  /\ mutex' = Stored(mutex, FALSE)
  /\ GoTo(p, "handover")
  /\ UNCHANGED <<notEmpty, notFull, queue, gen, done, out>>

(* and notify_one. *)
Handover(p) ==
  /\ pc[p] = "handover"
  /\ mutex' = NotifiedOne(mutex)
  /\ GoTo(p, "changed")
  /\ UNCHANGED <<notEmpty, notFull, queue, gen, done, out>>

(* The loop of wait(): back to lock() when generation_ has changed, *)
Changed(p) ==
  /\ pc[p] = "changed"
  /\ p \notin Sleeping(Awaited(p))
  /\ IF Awaited(p).value = gen[p]
       THEN GoTo(p, "sleep") /\ UNCHANGED gen
       ELSE GoTo(p, "lock") /\ gen' = [gen EXCEPT ![p] = 0]
  /\ UNCHANGED <<mutex, notEmpty, notFull, queue, done, out>>

(* Mutant: the futex does not compare the value again. *)
SleepBlindly(p) ==
  /\ pc[p] = "sleep"
  /\ SetAwaited(p, Waited(Awaited(p), p, Awaited(p).value))
  /\ GoTo(p, "changed")
  /\ UNCHANGED <<mutex, queue, gen, done, out>>

(* else futex_.wait(gen). *)
Sleep(p) ==
  /\ pc[p] = "sleep"
  /\ SetAwaited(p, Waited(Awaited(p), p, gen[p]))
  /\ GoTo(p, "changed")
  /\ UNCHANGED <<mutex, queue, gen, done, out>>

(* push, or front and pop. *)
Access(p) ==
  /\ pc[p] = "access"
  /\ IF p \in Producers
       THEN queue' = Append(queue, <<p, done[p]>>) /\ UNCHANGED out
       ELSE queue' = Tail(queue) /\ out' = Append(out, Head(queue))
  /\ GoTo(p, "unlock")
  /\ UNCHANGED <<mutex, notEmpty, notFull, gen, done>>

(* queue_mutex_.unlock(): the store *)
Unlock(p) ==
  /\ pc[p] = "unlock"
  /\ mutex' = Stored(mutex, FALSE)
  /\ GoTo(p, "notify")
  /\ UNCHANGED <<notEmpty, notFull, queue, gen, done, out>>

(* and notify_one. *)
Notify(p) ==
  /\ pc[p] = "notify"
  /\ mutex' = NotifiedOne(mutex)
  /\ GoTo(p, "bump")
  /\ UNCHANGED <<notEmpty, notFull, queue, gen, done, out>>

(* notify_one() of the condition variable: fetch_add *)
Bump(p) ==
  /\ pc[p] = "bump"
  /\ SetSignalled(p, Stored(Signalled(p), (Signalled(p).value + 1) % Generations))
  /\ GoTo(p, "signal")
  /\ UNCHANGED <<mutex, queue, gen, done, out>>

(* and futex_.notify_one; the call returns, and co_switch. *)
Signal(p) ==
  /\ pc[p] = "signal"
  /\ SetSignalled(p, NotifiedOne(Signalled(p)))
  /\ done' = [done EXCEPT ![p] = @ + 1]
  /\ GoTo(p, "begin")
  /\ UNCHANGED <<mutex, queue, gen, out>>
-----------------------------------------------------------------------------
Step(p) ==
  \/ Begin(p) \/ Lock(p) \/ LockFails(p) \/ LockWaits(p) \/ Resume(p)
  \/ Check(p) \/ Release(p) \/ Handover(p) \/ Changed(p) \/ Sleep(p)
  \/ Access(p) \/ Unlock(p) \/ Notify(p) \/ Bump(p) \/ Signal(p)

Next == \E p \in Procs : Step(p)

Spec == Init /\ [][Next]_vars

(* A runtime runs every coroutine that is scheduled.  Nothing more is      *)
(* assumed: the mutex may be taken by a newcomer.                          *)
FairSpec == Spec /\ \A p \in Procs : WF_vars(Step(p))
-----------------------------------------------------------------------------
Bounded == INSTANCE BoundedQueue WITH
  Items <- Producers \X (0..Produce - 1), items <- queue

(* The queue is a bounded first-in first-out queue: push and pop happen    *)
(* one at a time, never on a full or an empty queue, whatever the          *)
(* interleaving of lock(), wait() and the notifications.                   *)
IsBoundedQueue == Bounded!Spec

(* No wakeup of the mutex or of a condition variable is lost: when the     *)
(* consumers ask for as many items as are produced, all are handed over    *)
(* and every coroutine comes to have returned.                             *)
Returned == \A p \in Procs : done[p] = IF p \in Producers THEN Produce ELSE Consume
=============================================================================
