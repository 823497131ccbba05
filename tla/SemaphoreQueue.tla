--------------------------- MODULE SemaphoreQueue ----------------------------
(***************************************************************************)
(* The queue of examples/queue-kernel-futex.cpp: semaphores made of the    *)
(* kernel's futex, threads that produce with blocking system calls and     *)
(* coroutines that consume with async_futex_wait and async_futex_wake.     *)
(*                                                                         *)
(* acquire and async_acquire differ only in how they sleep, so one action  *)
(* stands for both; so do release and async_release.  Every access to an   *)
(* atomic, to a futex or to the queue is one step.                         *)
(***************************************************************************)
EXTENDS FutexState, Naturals

CONSTANTS
  Producers,
  Consumers,
  Capacity,   \* queue_size
  Produce,    \* produce_count
  Consume     \* consume_count

Procs == Producers \cup Consumers

VARIABLES
  sem,     \* empty, full, and sem_ of queue_mutex
  queue,
  stage,   \* where in its loop a thread or coroutine is
  pc,      \* and where in acquire or release
  seen,    \* the local c of acquire, 0 outside
  done,    \* turns of the loop it has made
  out      \* the items taken, in order

vars == <<sem, queue, stage, pc, seen, done, out>>

Init ==
  /\ sem = [empty |-> FutexOf(Capacity), full |-> FutexOf(0), mutex |-> FutexOf(1)]
  /\ queue = <<>>
  /\ stage = [p \in Procs |-> 1]
  /\ pc = [p \in Procs |-> "load"]
  /\ seen = [p \in Procs |-> 0]
  /\ done = [p \in Procs |-> 0]
  /\ out = <<>>

(* The turns a producer or a consumer makes. *)
Turns(p) == IF p \in Producers THEN Produce ELSE Consume

(* Mutant: a producer releases the semaphore it has acquired. *)
ProgramSwapped(p) ==
  IF p \in Producers THEN <<"empty", "mutex", "queue", "mutex", "empty">>
                     ELSE <<"full", "mutex", "queue", "mutex", "empty">>

(* The body of the loop: two semaphores to acquire, the queue to use, two  *)
(* to release.                                                             *)
Program(p) ==
  IF p \in Producers THEN <<"empty", "mutex", "queue", "mutex", "full">>
                     ELSE <<"full", "mutex", "queue", "mutex", "empty">>

Sem(p) == Program(p)[stage[p]]

(* The call returns; the last one ends the turn. *)
Return(p) ==
  /\ stage' = [stage EXCEPT ![p] = (@ % 5) + 1]
  /\ done' = [done EXCEPT ![p] = IF stage[p] = 5 THEN @ + 1 ELSE @]
  /\ pc' = [pc EXCEPT ![p] = IF stage[p] \in {1, 5} THEN "load" ELSE "add"]
-----------------------------------------------------------------------------
(* acquire: load count_; c > 0 goes on to the exchange, 0 to the futex. *)
Load(p) ==
  /\ stage[p] \in {1, 2}
  /\ done[p] < Turns(p)
  /\ pc[p] = "load"
  /\ p \notin Sleeping(sem[Sem(p)])
  /\ seen' = [seen EXCEPT ![p] = sem[Sem(p)].value]
  /\ pc' = [pc EXCEPT ![p] = IF sem[Sem(p)].value > 0 THEN "exchange" ELSE "wait"]
  /\ UNCHANGED <<sem, queue, stage, done, out>>

(* compare_exchange_strong(c, c - 1) *)
Exchange(p) ==
  /\ pc[p] = "exchange"
  /\ seen' = [seen EXCEPT ![p] = 0]
  /\ IF sem[Sem(p)].value = seen[p]
       THEN /\ sem' = [sem EXCEPT ![Sem(p)] = Stored(@, seen[p] - 1)]
            /\ Return(p)
       ELSE /\ pc' = [pc EXCEPT ![p] = "load"]
            /\ UNCHANGED <<sem, stage, done>>
  /\ UNCHANGED <<queue, out>>

(* futex_wait or async_futex_wait for the value 0: 0, or EAGAIN at once. *)
Wait(p) ==
  /\ pc[p] = "wait"
  /\ sem' = [sem EXCEPT ![Sem(p)] = Waited(@, p, 0)]
  /\ pc' = [pc EXCEPT ![p] = "load"]
  /\ UNCHANGED <<queue, stage, seen, done, out>>

(* The kernel returns from a wait that has been woken. *)
Resume(p) ==
  /\ pc[p] = "load"
  /\ p \in sem[Sem(p)].woken
  /\ sem' = [sem EXCEPT ![Sem(p)] = Resumed(@, p)]
  /\ UNCHANGED <<queue, stage, pc, seen, done, out>>

(* push, or front and pop. *)
Access(p) ==
  /\ stage[p] = 3
  /\ IF p \in Producers
       THEN queue' = Append(queue, <<p, done[p]>>) /\ UNCHANGED out
       ELSE queue' = Tail(queue) /\ out' = Append(out, Head(queue))
  /\ Return(p)
  /\ UNCHANGED <<sem, seen>>

(* release: fetch_add(1), *)
Add(p) ==
  /\ stage[p] \in {4, 5}
  /\ pc[p] = "add"
  /\ sem' = [sem EXCEPT ![Sem(p)] = Stored(@, @.value + 1)]
  /\ pc' = [pc EXCEPT ![p] = "wake"]
  /\ UNCHANGED <<queue, stage, seen, done, out>>

(* and futex_wake or async_futex_wake of one. *)
Wake(p) ==
  /\ pc[p] = "wake"
  /\ sem' = [sem EXCEPT ![Sem(p)] = NotifiedOne(@)]
  /\ Return(p)
  /\ UNCHANGED <<queue, seen, out>>
-----------------------------------------------------------------------------
Step(p) ==
  Load(p) \/ Exchange(p) \/ Wait(p) \/ Resume(p) \/ Access(p) \/ Add(p) \/ Wake(p)

Next == \E p \in Procs : Step(p)

Spec == Init /\ [][Next]_vars
-----------------------------------------------------------------------------
Bounded == INSTANCE BoundedQueue WITH
  Items <- Producers \X (0..Produce - 1), items <- queue

(* The semaphores keep the queue a bounded first-in first-out queue: push  *)
(* and pop never meet a full or an empty one.                              *)
SemaphoresBound == Bounded!Spec

(* No wakeup is lost: every thread and every coroutine comes to have made  *)
(* all its turns.                                                          *)
Returned == \A p \in Procs : done[p] = Turns(p)
=============================================================================
