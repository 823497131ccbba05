----------------------------- MODULE QueueProofs -----------------------------
(***************************************************************************)
(* Two queues, a ring and the queues of a block device, for all their      *)
(* sizes.                                                                  *)
(*                                                                         *)
(* The queue of examples/queue-condy-futex.cpp is a bounded first-in       *)
(* first-out queue for all numbers of producers and consumers, of items    *)
(* and of places, also when generation_ wraps around.  What makes it one   *)
(* is the mutex: the while loops of enqueue and dequeue look at the queue  *)
(* and use it in two steps, and nobody comes between because unlock() is   *)
(* the only store of false.                                                *)
(*                                                                         *)
(* The queue of examples/queue-kernel-futex.cpp is a bounded first-in      *)
(* first-out queue too, and only one thread or coroutine is in it at a     *)
(* time.  Nothing tests the queue before push or pop, so the argument      *)
(* counts tokens.  A place is free (in empty), promised to one who has     *)
(* acquired empty or emptied the place without having released it, or      *)
(* taken; an item is in full, promised to a consumer, or put and not yet   *)
(* announced.                                                              *)
(*                                                                         *)
(* A zero-copy chunk that the kernel has lent is in a completion, with the *)
(* user or in the refill ring of zcrx.hpp (RxInv), however the indices of  *)
(* the ring wrap around.                                                   *)
(*                                                                         *)
(* examples/ublk-loop.cpp uses nothing it has not mapped, opened and       *)
(* registered, for any number of queues and tags.  That bufs_base is       *)
(* mapped while a loop runs is not inductive: co_main unmaps it after      *)
(* awaiting the queues, a queue ends after awaiting its loops.  The        *)
(* invariant says so place by place.  After exit(1) nothing is claimed.    *)
(***************************************************************************)
EXTENDS FutexQueue, Integers, FiniteSets, TLAPS

(* examples/queue-condy-futex.cpp *)

Pcs == {"begin", "lock", "contended", "check", "release", "handover", "changed",
        "sleep", "access", "unlock", "notify", "bump", "signal"}

Items == Producers \X (0..Produce - 1)

(* Between a successful exchange in lock() and the store in unlock(). *)
Holds(p) == pc[p] \in {"check", "release", "access", "unlock"}

(* At most one coroutine is between lock() and unlock(), and only while    *)
(* state_ is true.                                                         *)
MutualExclusion ==
  /\ \A p \in Procs : Holds(p) => mutex.value = TRUE
  /\ \A p, q \in Procs : Holds(p) /\ Holds(q) => p = q

MutexType == [value : BOOLEAN, queue : Seq(Procs), woken : SUBSET Procs]

(* What a coroutine has found in the while loop is still so when it uses   *)
(* the queue, and a producer in enqueue has an item to put.                *)
IInv ==
  /\ pc \in [Procs -> Pcs]
  /\ done \in [Procs -> Nat]
  /\ queue \in Seq(Items)
  /\ mutex \in MutexType
  /\ MutualExclusion
  /\ \A p \in Procs : pc[p] = "access" => ~MustWait(p)
  /\ \A p \in Producers : pc[p] # "begin" => done[p] < Produce

(* A futex stays one whatever is done to it, and only a store changes the  *)
(* value.                                                                  *)
LEMMA FutexOperations ==
  ASSUME NEW f \in MutexType, NEW p \in Procs, NEW v \in BOOLEAN
  PROVE  /\ Stored(f, v) \in MutexType /\ Stored(f, v).value = v
         /\ Waited(f, p, v) \in MutexType /\ Waited(f, p, v).value = f.value
         /\ NotifiedOne(f) \in MutexType /\ NotifiedOne(f).value = f.value
         /\ Resumed(f, p) \in MutexType /\ Resumed(f, p).value = f.value
<1>1. Stored(f, v) \in MutexType /\ Stored(f, v).value = v
  BY Zenon DEF Stored, MutexType
<1>2. Waited(f, p, v) \in MutexType /\ Waited(f, p, v).value = f.value
  <2>1. Append(f.queue, p) \in Seq(Procs)
    BY DEF MutexType
  <2> QED
    BY <2>1, Zenon DEF Waited, MutexType
<1>3. NotifiedOne(f) \in MutexType /\ NotifiedOne(f).value = f.value
  <2>1. CASE f.queue = <<>>
    BY <2>1, Zenon DEF NotifiedOne
  <2>2. CASE f.queue # <<>>
    <3>1. Head(f.queue) \in Procs /\ Tail(f.queue) \in Seq(Procs)
      BY <2>2 DEF MutexType
    <3> QED
      BY <2>2, <3>1, Zenon DEF NotifiedOne, MutexType
  <2> QED
    BY <2>1, <2>2, Zenon
<1>4. Resumed(f, p) \in MutexType /\ Resumed(f, p).value = f.value
  BY Zenon DEF Resumed, MutexType
<1> QED
  BY <1>1, <1>2, <1>3, <1>4, Zenon

(* What Access does to the queue. *)
LEMMA PutAndTake ==
  ASSUME NEW s \in Seq(Items)
  PROVE  /\ \A x \in Items : Append(s, x) \in Seq(Items)
         /\ s # <<>> => Tail(s) \in Seq(Items)
OBVIOUS

(* Initially nobody holds the mutex and the queue is empty. *)
LEMMA Initially == Init => IInv
<1>1. FutexOf(FALSE) \in MutexType
  BY DEF FutexOf, MutexType
<1>2. Init => pc \in [Procs -> Pcs] /\ done \in [Procs -> Nat]
  BY DEF Init, Pcs
<1>3. Init => MutualExclusion /\ \A p \in Procs : pc[p] = "begin"
  BY Zenon DEF Init, MutualExclusion, Holds
<1>4. Init => queue \in Seq(Items)
  BY DEF Init
<1> QED
  BY <1>1, <1>2, <1>3, <1>4, Zenon DEF Init, IInv, Procs

(* Every step keeps IInv. *)
LEMMA Inductive == IInv /\ [Next]_vars => IInv'
<1> SUFFICES ASSUME IInv, [Next]_vars PROVE IInv'
  OBVIOUS
<1>0. Producers \subseteq Procs
  BY Zenon DEF Procs
<1> USE QueueAssumption, <1>0 DEF IInv, Pcs
<1>1. CASE UNCHANGED vars
  BY <1>1, Zenon DEF vars, MutualExclusion, Holds, MustWait
<1>2. ASSUME NEW p \in Procs, Step(p) PROVE IInv'
  <2>1. CASE Begin(p)
    BY <2>1, Zenon DEF Begin, GoTo, MutualExclusion, Holds, MustWait
  <2>2. CASE Lock(p)
    <3>1. mutex' \in MutexType /\ mutex'.value = TRUE
      BY <2>2, FutexOperations, Zenon DEF Lock
    <3>2. MutualExclusion'
      BY <2>2, <3>1, Zenon DEF Lock, GoTo, MutualExclusion, Holds
    <3> QED
      BY <2>2, <3>1, <3>2, Zenon DEF Lock, GoTo, MustWait
  <2>3. CASE LockFails(p)
    BY <2>3, Zenon DEF LockFails, GoTo, MutualExclusion, Holds, MustWait
  <2>4. CASE LockWaits(p)
    <3>1. mutex' \in MutexType /\ mutex'.value = mutex.value
      BY <2>4, FutexOperations, Zenon DEF LockWaits
    <3> QED
      BY <2>4, <3>1, Zenon DEF LockWaits, GoTo, MutualExclusion, Holds, MustWait
  <2>5. CASE Resume(p)
    <3>1. mutex' \in MutexType /\ mutex'.value = mutex.value
      BY <2>5, FutexOperations, Zenon DEF Resume
    <3> QED
      BY <2>5, <3>1, Zenon DEF Resume, MutualExclusion, Holds, MustWait
  <2>6. CASE Check(p)
    BY <2>6, Zenon DEF Check, GoTo, MutualExclusion, Holds, MustWait
  <2>7. CASE Release(p)
    <3>1. mutex' \in MutexType /\ mutex'.value = FALSE
      BY <2>7, FutexOperations, Zenon DEF Release
    <3>2. MutualExclusion'
      BY <2>7, Zenon DEF Release, GoTo, MutualExclusion, Holds
    <3> QED
      BY <2>7, <3>1, <3>2, Zenon DEF Release, GoTo, MustWait
  <2>8. CASE Handover(p)
    <3>1. mutex' \in MutexType /\ mutex'.value = mutex.value
      BY <2>8, FutexOperations, Zenon DEF Handover
    <3> QED
      BY <2>8, <3>1, Zenon DEF Handover, GoTo, MutualExclusion, Holds, MustWait
  <2>9. CASE Changed(p)
    BY <2>9 DEF Changed, GoTo, MutualExclusion, Holds, MustWait
  <2>10. CASE Sleep(p)
    BY <2>10, Zenon DEF Sleep, GoTo, MutualExclusion, Holds, MustWait
  <2>11. CASE Access(p)
    <3>1. queue' \in Seq(Items)
      <4>1. CASE p \in Producers
        <5>1. <<p, done[p]>> \in Items
          BY <2>11, <4>1 DEF Access, Items
        <5> QED
          BY <2>11, <4>1, <5>1, PutAndTake, Zenon DEF Access
      <4>2. CASE p \notin Producers
        <5>1. queue # <<>>
          BY <2>11, <4>2, Zenon DEF Access, MustWait
        <5> QED
          BY <2>11, <4>2, <5>1, PutAndTake, Zenon DEF Access
      <4> QED
        BY <4>1, <4>2, Zenon
    <3>2. \A q \in Procs : pc'[q] # "access"
      BY <2>11, Zenon DEF Access, GoTo, MutualExclusion, Holds
    <3> QED
      BY <2>11, <3>1, <3>2, Zenon DEF Access, GoTo, MutualExclusion, Holds
  <2>12. CASE Unlock(p)
    <3>1. mutex' \in MutexType /\ mutex'.value = FALSE
      BY <2>12, FutexOperations, Zenon DEF Unlock
    <3>2. MutualExclusion'
      BY <2>12, Zenon DEF Unlock, GoTo, MutualExclusion, Holds
    <3> QED
      BY <2>12, <3>1, <3>2, Zenon DEF Unlock, GoTo, MustWait
  <2>13. CASE Notify(p)
    <3>1. mutex' \in MutexType /\ mutex'.value = mutex.value
      BY <2>13, FutexOperations, Zenon DEF Notify
    <3> QED
      BY <2>13, <3>1, Zenon DEF Notify, GoTo, MutualExclusion, Holds, MustWait
  <2>14. CASE Bump(p)
    BY <2>14, Zenon DEF Bump, GoTo, MutualExclusion, Holds, MustWait
  <2>15. CASE Signal(p)
    BY <2>15 DEF Signal, GoTo, MutualExclusion, Holds, MustWait
  <2> HIDE DEF IInv
  <2> QED
    BY <1>2, <2>1, <2>2, <2>3, <2>4, <2>5, <2>6, <2>7, <2>8, <2>9, <2>10, <2>11,
       <2>12, <2>13, <2>14, <2>15, Zenon DEF Step
<1> HIDE DEF IInv
<1> QED
  BY <1>1, <1>2, Zenon DEF Next

(* FutexMutex of queue-condy-futex.cpp excludes: lock() lets one coroutine *)
(* in, and the next only after unlock().                                   *)
THEOREM Exclusion == Spec => []MutualExclusion
<1>1. IInv => MutualExclusion
  BY Zenon DEF IInv
<1> QED
  BY <1>1, Initially, Inductive, PTL DEF Spec

(* enqueue and dequeue implement a bounded first-in first-out queue: each  *)
(* step that changes the queue puts an item where there is room or takes   *)
(* the first.                                                              *)
THEOREM QueueIsBounded == Spec => IsBoundedQueue
<1>1. Init => Bounded!Init
  BY Zenon DEF Init, Bounded!Init
<1>2. IInv /\ [Next]_vars => [Bounded!Next]_<<queue, out>>
  <2> SUFFICES ASSUME IInv, [Next]_vars, <<queue, out>>' # <<queue, out>>
               PROVE  Bounded!Next
    OBVIOUS
  <2>1. PICK p \in Procs : Access(p)
    BY Zenon DEF Next, Step, vars, Begin, Lock, LockFails, LockWaits, Resume, Check,
           Release, Handover, Changed, Sleep, Unlock, Notify, Bump, Signal
  <2>2. pc[p] = "access" /\ ~MustWait(p)
    BY <2>1, Zenon DEF Access, IInv
  <2>3. CASE p \in Producers
    <3>1. Len(queue) < Capacity
      BY <2>2, <2>3, QueueAssumption DEF MustWait, IInv
    <3>2. <<p, done[p]>> \in Producers \X (0..Produce - 1)
      BY <2>2, <2>3, QueueAssumption DEF IInv
    <3> QED
      BY <2>1, <2>3, <3>1, <3>2, Zenon DEF Access, Bounded!Next, Bounded!Put
  <2>4. CASE p \notin Producers
    BY <2>1, <2>2, <2>4, Zenon DEF Access, MustWait, Bounded!Next, Bounded!Take
  <2> QED
    BY <2>3, <2>4, Zenon
<1> QED
  BY <1>1, <1>2, Initially, Inductive, PTL DEF Spec, IsBoundedQueue, Bounded!Spec
-----------------------------------------------------------------------------
(* An access to the queue moves one token between the holders of a         *)
(* semaphore and the queue: the sum of tokens, holders and items stays     *)
(* what it was.                                                            *)
LEMMA TokenMoves ==
  /\ \A v, h, q \in Nat : v + (h + 1) + (q - 1) = v + h + q
  /\ \A v, h, q \in Nat : v + (h - 1) + (q + 1) = v + h + q
  BY SMT
-----------------------------------------------------------------------------
(* examples/queue-kernel-futex.cpp *)

VARIABLES sem, s_queue, stage, s_pc, seen, s_done, s_out

Sem == INSTANCE SemaphoreQueue WITH
  queue <- s_queue, pc <- s_pc, done <- s_done, out <- s_out

SemType == [value : Nat, queue : Seq(Sem!Procs), woken : SUBSET Sem!Procs]

(* p has acquired the first semaphore of its turn and not used the queue;  *)
(* has used the queue and not released the second.                         *)
SemBefore(p) == stage[p] \in {2, 3}
SemAfter(p) == stage[p] = 4 \/ (stage[p] = 5 /\ s_pc[p] = "add")

(* Those who hold a token of empty, of full and of queue_mutex. *)
HoldEmpty == {p \in Sem!Procs : IF p \in Producers THEN SemBefore(p) ELSE SemAfter(p)}
HoldFull == {p \in Sem!Procs : IF p \in Producers THEN SemAfter(p) ELSE SemBefore(p)}
HoldMutex == {p \in Sem!Procs : stage[p] = 3 \/ (stage[p] = 4 /\ s_pc[p] = "add")}

(* No token is lost or made. *)
Tokens ==
  /\ sem["empty"].value + Cardinality(HoldEmpty) + Len(s_queue) = Capacity
  /\ sem["full"].value + Cardinality(HoldFull) = Len(s_queue)
  /\ sem["mutex"].value + Cardinality(HoldMutex) = 1

PcsAt(s) ==
  IF s \in {1, 2} THEN {"load", "exchange", "wait"}
  ELSE IF s = 3 THEN {"add"} ELSE {"add", "wake"}

SemInv ==
  /\ sem \in [{"empty", "full", "mutex"} -> SemType]
  /\ s_queue \in Seq(Items)
  /\ stage \in [Sem!Procs -> 1..5]
  /\ s_pc \in [Sem!Procs -> {"load", "exchange", "wait", "add", "wake"}]
  /\ seen \in [Sem!Procs -> Nat]
  /\ s_done \in [Sem!Procs -> Nat]
  /\ \A p \in Sem!Procs : s_pc[p] \in PcsAt(stage[p])
  /\ \A p \in Sem!Procs : s_pc[p] = "exchange" => seen[p] > 0
  /\ \A p \in Sem!Procs : stage[p] > 1 \/ s_pc[p] # "load" => s_done[p] < Sem!Turns(p)
  /\ Tokens

(* push and pop are called by one thread or coroutine at a time. *)
OneInQueue == \A p, q \in Sem!Procs : stage[p] = 3 /\ stage[q] = 3 => p = q

Finitely ==
  IsFiniteSet(Sem!Procs) /\ Capacity \in Nat /\ Produce \in Nat /\ Consume \in Nat

(* The facts about cardinality the argument needs. *)
CardinalityLaws ==
  /\ Cardinality({}) = 0
  /\ \A S : IsFiniteSet(S) => Cardinality(S) \in Nat
  /\ \A S, x : IsFiniteSet(S) /\ x \notin S => Cardinality(S \cup {x}) = Cardinality(S) + 1
  /\ \A S, x : IsFiniteSet(S) /\ x \in S => Cardinality(S \ {x}) = Cardinality(S) - 1
  /\ \A S : IsFiniteSet(S) /\ Cardinality(S) = 0 => S = {}
  /\ \A S, T : IsFiniteSet(T) /\ S \subseteq T => IsFiniteSet(S)

Countable == Finitely /\ CardinalityLaws
-----------------------------------------------------------------------------
(* A semaphore stays one whatever is done to its futex, and only a store   *)
(* changes the count.                                                      *)
LEMMA SemFutexOperations ==
  ASSUME NEW f \in SemType, NEW p \in Sem!Procs
  PROVE  /\ \A v \in Nat : Sem!Stored(f, v) \in SemType /\ Sem!Stored(f, v).value = v
         /\ Sem!Waited(f, p, 0) \in SemType /\ Sem!Waited(f, p, 0).value = f.value
         /\ Sem!NotifiedOne(f) \in SemType /\ Sem!NotifiedOne(f).value = f.value
         /\ Sem!Resumed(f, p) \in SemType /\ Sem!Resumed(f, p).value = f.value
<1>1. \A v \in Nat : Sem!Stored(f, v) \in SemType /\ Sem!Stored(f, v).value = v
  BY Zenon DEF Sem!Stored, SemType
<1>2. Sem!Waited(f, p, 0) \in SemType /\ Sem!Waited(f, p, 0).value = f.value
  <2>1. Append(f.queue, p) \in Seq(Sem!Procs)
    BY DEF SemType
  <2> QED
    BY <2>1, Zenon DEF Sem!Waited, SemType
<1>3. Sem!NotifiedOne(f) \in SemType /\ Sem!NotifiedOne(f).value = f.value
  <2>1. CASE f.queue = <<>>
    BY <2>1, Zenon DEF Sem!NotifiedOne
  <2>2. CASE f.queue # <<>>
    <3>1. Head(f.queue) \in Sem!Procs /\ Tail(f.queue) \in Seq(Sem!Procs)
      BY <2>2 DEF SemType
    <3> QED
      BY <2>2, <3>1, Zenon DEF Sem!NotifiedOne, SemType
  <2> QED
    BY <2>1, <2>2, Zenon
<1>4. Sem!Resumed(f, p) \in SemType /\ Sem!Resumed(f, p).value = f.value
  BY Zenon DEF Sem!Resumed, SemType
<1> QED
  BY <1>1, <1>2, <1>3, <1>4, Zenon

(* Which semaphore a thread or coroutine is at. *)
LEMMA SemOf ==
  ASSUME NEW p \in Sem!Procs
  PROVE  /\ stage[p] \in {2, 4} => Sem!Sem(p) = "mutex"
         /\ stage[p] = 1 /\ p \in Producers => Sem!Sem(p) = "empty"
         /\ stage[p] = 1 /\ p \notin Producers => Sem!Sem(p) = "full"
         /\ stage[p] = 5 /\ p \in Producers => Sem!Sem(p) = "full"
         /\ stage[p] = 5 /\ p \notin Producers => Sem!Sem(p) = "empty"
BY DEF Sem!Sem, Sem!Program

(* What an operation does to the semaphores when it keeps the count, and   *)
(* when it does not.                                                       *)
LEMMA Others ==
  ASSUME sem \in [{"empty", "full", "mutex"} -> SemType],
         NEW s \in {"empty", "full", "mutex"}, NEW f \in SemType,
         sem' = [sem EXCEPT ![s] = f]
  PROVE  /\ sem' \in [{"empty", "full", "mutex"} -> SemType]
         /\ sem'[s].value = f.value
         /\ \A t \in {"empty", "full", "mutex"} \ {s} : sem'[t].value = sem[t].value
         /\ f.value = sem[s].value =>
              \A t \in {"empty", "full", "mutex"} : sem'[t].value = sem[t].value
OBVIOUS

(* The stage and the place a call returns to. *)
LEMMA Returning ==
  ASSUME SemInv, NEW p \in Sem!Procs, Sem!Return(p), stage[p] # 5
  PROVE  /\ stage' = [stage EXCEPT ![p] = stage[p] + 1]
         /\ s_pc' = [s_pc EXCEPT ![p] = IF stage[p] = 1 THEN "load" ELSE "add"]
         /\ s_done' = s_done
<1>1. stage[p] \in {1, 2, 3, 4}
  BY DEF SemInv
<1>2. stage[p] % 5 = stage[p]
  BY <1>1
<1>3. s_done' = [s_done EXCEPT ![p] = s_done[p]]
  BY Zenon DEF Sem!Return, SemInv
<1> QED
  BY <1>1, <1>2, <1>3, Zenon DEF Sem!Return, SemInv

(* Taking a token and giving it back count one. *)
LEMMA Counting ==
  ASSUME Countable, NEW S \in SUBSET Sem!Procs, NEW p \in Sem!Procs
  PROVE  /\ Cardinality(S) \in Nat
         /\ p \notin S => Cardinality(S \cup {p}) = Cardinality(S) + 1
         /\ p \in S => Cardinality(S \ {p}) = Cardinality(S) - 1 /\ Cardinality(S) > 0
<1>1. IsFiniteSet(S)
  BY Zenon DEF Countable, Finitely, CardinalityLaws
<1>2. Cardinality(S) \in Nat
  BY <1>1, Zenon DEF Countable, CardinalityLaws
<1>3. p \notin S => Cardinality(S \cup {p}) = Cardinality(S) + 1
  BY <1>1, Zenon DEF Countable, CardinalityLaws
<1>4. ASSUME p \in S PROVE Cardinality(S \ {p}) = Cardinality(S) - 1 /\ Cardinality(S) > 0
  <2>1. Cardinality(S) # 0
    BY <1>1, <1>4, Zenon DEF Countable, CardinalityLaws
  <2>2. Cardinality(S \ {p}) = Cardinality(S) - 1
    BY <1>1, <1>4, Zenon DEF Countable, CardinalityLaws
  <2> QED
    BY <1>2, <2>1, <2>2
<1> QED
  BY <1>2, <1>3, <1>4, Zenon

(* The three sets of holders hold threads and coroutines. *)
LEMMA Holders ==
  HoldEmpty \in SUBSET Sem!Procs /\ HoldFull \in SUBSET Sem!Procs /\ HoldMutex \in SUBSET Sem!Procs
BY Zenon DEF HoldEmpty, HoldFull, HoldMutex

(* Initially all tokens are where the constructors put them. *)
LEMMA SemInitially == ASSUME Countable PROVE Sem!Init => SemInv
<1> SUFFICES ASSUME Sem!Init PROVE SemInv
  OBVIOUS
<1>1. sem = [empty |-> Sem!FutexOf(Capacity), full |-> Sem!FutexOf(0), mutex |-> Sem!FutexOf(1)]
  BY Zenon DEF Sem!Init
<1>2. /\ sem["empty"] = Sem!FutexOf(Capacity)
      /\ sem["full"] = Sem!FutexOf(0)
      /\ sem["mutex"] = Sem!FutexOf(1)
  BY <1>1, Zenon
<1>3. \A n \in Nat : Sem!FutexOf(n) \in SemType /\ Sem!FutexOf(n).value = n
  BY DEF Sem!FutexOf, SemType
<1>4. sem \in [{"empty", "full", "mutex"} -> SemType]
  BY <1>1, <1>3 DEF Countable, Finitely
<1>5. HoldEmpty = {} /\ HoldFull = {} /\ HoldMutex = {}
  BY DEF Sem!Init, HoldEmpty, HoldFull, HoldMutex, SemBefore, SemAfter
<1>6. Tokens
  BY <1>2, <1>3, <1>5 DEF Sem!Init, Tokens, Countable, Finitely, CardinalityLaws
<1> QED
  BY <1>4, <1>6 DEF Sem!Init, SemInv, PcsAt

(* A step that leaves the holders, the counts and the length of the queue  *)
(* alone keeps the tokens.                                                 *)
LEMMA Idle ==
  ASSUME Tokens,
         UNCHANGED <<HoldEmpty, HoldFull, HoldMutex>>,
         \A s \in {"empty", "full", "mutex"} : sem'[s].value = sem[s].value,
         UNCHANGED s_queue
  PROVE  Tokens'
BY Zenon DEF Tokens

(* The counts are numbers. *)
LEMMA Numbers ==
  ASSUME Countable, SemInv
  PROVE  /\ Len(s_queue) \in Nat /\ Capacity \in Nat
         /\ sem["empty"].value \in Nat /\ Cardinality(HoldEmpty) \in Nat
         /\ sem["full"].value \in Nat /\ Cardinality(HoldFull) \in Nat
         /\ sem["mutex"].value \in Nat /\ Cardinality(HoldMutex) \in Nat
<1>1. Len(s_queue) \in Nat /\ Capacity \in Nat
  BY DEF Countable, Finitely, SemInv
<1>2. sem["empty"].value \in Nat /\ sem["full"].value \in Nat /\ sem["mutex"].value \in Nat
  BY Zenon DEF SemInv, SemType
<1>3. \A S \in SUBSET Sem!Procs : Cardinality(S) \in Nat
  BY Zenon DEF Countable, Finitely, CardinalityLaws
<1> QED
  BY <1>1, <1>2, <1>3, Holders, Zenon

(* acquire keeps IInv: the exchange takes the token it has seen. *)
LEMMA AcquireStep ==
  ASSUME Countable, SemInv, NEW p \in Sem!Procs,
         Sem!Load(p) \/ Sem!Exchange(p) \/ Sem!Wait(p) \/ Sem!Resume(p)
  PROVE  SemInv'
<1> USE DEF SemInv
<1>0. stage[p] \in {1, 2} /\ s_pc[p] \in {"load", "exchange", "wait"}
  BY Zenon DEF PcsAt, Sem!Load, Sem!Exchange, Sem!Wait, Sem!Resume
<1>s. Sem!Sem(p) \in {"empty", "full", "mutex"} /\ sem[Sem!Sem(p)] \in SemType
  BY <1>0, SemOf, Zenon
<1>1. CASE Sem!Load(p)
  <2>1. sem[Sem!Sem(p)].value \in Nat
    BY <1>s, Zenon DEF SemType
  <2>2. UNCHANGED <<HoldEmpty, HoldFull, HoldMutex>>
    BY <1>0, <1>1, Zenon DEF Sem!Load, HoldEmpty, HoldFull, HoldMutex, SemBefore, SemAfter
  <2>3. Tokens'
    BY <1>1, <2>2, Idle, Zenon DEF Sem!Load
  <2> QED
    BY <1>0, <1>1, <2>1, <2>3, Zenon DEF Sem!Load, PcsAt, Sem!Turns
<1>2. CASE Sem!Wait(p)
  <2>1. /\ sem' \in [{"empty", "full", "mutex"} -> SemType]
        /\ \A s \in {"empty", "full", "mutex"} : sem'[s].value = sem[s].value
    <3>1. /\ Sem!Waited(sem[Sem!Sem(p)], p, 0) \in SemType
          /\ Sem!Waited(sem[Sem!Sem(p)], p, 0).value = sem[Sem!Sem(p)].value
      BY <1>s, SemFutexOperations, Zenon
    <3>2. sem' = [sem EXCEPT ![Sem!Sem(p)] = Sem!Waited(sem[Sem!Sem(p)], p, 0)]
      BY <1>2, Zenon DEF Sem!Wait
    <3> QED
      BY <1>s, <3>1, <3>2, Others, Zenon
  <2>2. UNCHANGED <<HoldEmpty, HoldFull, HoldMutex>>
    BY <1>0, <1>2, Zenon DEF Sem!Wait, HoldEmpty, HoldFull, HoldMutex, SemBefore, SemAfter
  <2>3. Tokens'
    BY <1>2, <2>1, <2>2, Idle, Zenon DEF Sem!Wait
  <2> QED
    BY <1>0, <1>2, <2>1, <2>3, Zenon DEF Sem!Wait, PcsAt, Sem!Turns
<1>3. CASE Sem!Resume(p)
  <2>1. /\ sem' \in [{"empty", "full", "mutex"} -> SemType]
        /\ \A s \in {"empty", "full", "mutex"} : sem'[s].value = sem[s].value
    <3>1. /\ Sem!Resumed(sem[Sem!Sem(p)], p) \in SemType
          /\ Sem!Resumed(sem[Sem!Sem(p)], p).value = sem[Sem!Sem(p)].value
      BY <1>s, SemFutexOperations, Zenon
    <3>2. sem' = [sem EXCEPT ![Sem!Sem(p)] = Sem!Resumed(sem[Sem!Sem(p)], p)]
      BY <1>3, Zenon DEF Sem!Resume
    <3> QED
      BY <1>s, <3>1, <3>2, Others, Zenon
  <2>2. UNCHANGED <<HoldEmpty, HoldFull, HoldMutex>>
    BY <1>3, Zenon DEF Sem!Resume, HoldEmpty, HoldFull, HoldMutex, SemBefore, SemAfter
  <2>3. Tokens'
    BY <1>3, <2>1, <2>2, Idle, Zenon DEF Sem!Resume
  <2> QED
    BY <1>3, <2>1, <2>3, Zenon DEF Sem!Resume, PcsAt, Sem!Turns
<1>4. CASE Sem!Exchange(p) /\ sem[Sem!Sem(p)].value # seen[p]
  <2>2. UNCHANGED <<HoldEmpty, HoldFull, HoldMutex>>
    BY <1>0, <1>4, Zenon DEF Sem!Exchange, HoldEmpty, HoldFull, HoldMutex, SemBefore, SemAfter
  <2>3. Tokens'
    BY <1>4, <2>2, Idle, Zenon DEF Sem!Exchange
  <2> QED
    BY <1>0, <1>4, <2>3 DEF Sem!Exchange, PcsAt, Sem!Turns
<1>5. CASE Sem!Exchange(p) /\ sem[Sem!Sem(p)].value = seen[p]
  <2>1. seen[p] - 1 \in Nat /\ s_pc[p] = "exchange"
    BY <1>5 DEF Sem!Exchange
  <2>2. Sem!Stored(sem[Sem!Sem(p)], seen[p] - 1) \in SemType
        /\ Sem!Stored(sem[Sem!Sem(p)], seen[p] - 1).value = seen[p] - 1
    BY <1>s, <2>1, SemFutexOperations, Zenon
  <2>s. sem' = [sem EXCEPT ![Sem!Sem(p)] = Sem!Stored(sem[Sem!Sem(p)], seen[p] - 1)]
    BY <1>5, Zenon DEF Sem!Exchange
  <2>3. s_queue' = s_queue
    BY <1>5, Zenon DEF Sem!Exchange
  <2>4. /\ sem' \in [{"empty", "full", "mutex"} -> SemType]
        /\ sem'[Sem!Sem(p)].value = sem[Sem!Sem(p)].value - 1
        /\ \A s \in {"empty", "full", "mutex"} \ {Sem!Sem(p)} : sem'[s].value = sem[s].value
    BY <1>s, <1>5, <2>2, <2>s, Others, Zenon
  <2>5. Sem!Return(p) /\ seen' = [seen EXCEPT ![p] = 0]
    BY <1>5, Zenon DEF Sem!Exchange
  <2>6. stage' = [stage EXCEPT ![p] = stage[p] + 1]
    BY <1>0, <2>5, Returning
  <2>7. /\ s_pc' = [s_pc EXCEPT ![p] = IF stage[p] = 1 THEN "load" ELSE "add"]
        /\ s_done' = s_done
    BY <1>0, <2>5, Returning
  <2>9. Tokens'
    <3>1. CASE stage[p] = 1 /\ p \in Producers
      <4>1. HoldEmpty' = HoldEmpty \cup {p} /\ p \notin HoldEmpty
        BY <2>6, <2>7, <3>1 DEF HoldEmpty, SemBefore, SemAfter
      <4>2. HoldFull' = HoldFull /\ HoldMutex' = HoldMutex
        BY <2>6, <2>7, <3>1 DEF HoldFull, HoldMutex, SemBefore, SemAfter
      <4>3. Sem!Sem(p) = "empty"
        BY <3>1, SemOf, Zenon
      <4>4. Cardinality(HoldEmpty') = Cardinality(HoldEmpty) + 1
        BY <4>1, Counting, Holders, Zenon
      <4>5. sem'["empty"].value = sem["empty"].value - 1
        BY <2>4, <4>3, Zenon
      <4>6. sem'["empty"].value + Cardinality(HoldEmpty') + Len(s_queue') = Capacity
        <5>1. sem["empty"].value + Cardinality(HoldEmpty) + Len(s_queue) = Capacity
          BY Zenon DEF Tokens
        <5>2. Len(s_queue) \in Nat /\ sem["empty"].value \in Nat /\ Cardinality(HoldEmpty) \in Nat
          BY Numbers, Zenon
        <5> HIDE DEF SemInv
        <5> QED
          BY <2>3, <4>4, <4>5, <5>1, <5>2
      <4>7. sem'["full"].value + Cardinality(HoldFull') = Len(s_queue')
        BY <2>3, <2>4, <4>2, <4>3, Zenon DEF Tokens
      <4>8. sem'["mutex"].value + Cardinality(HoldMutex') = 1
        BY <2>3, <2>4, <4>2, <4>3, Zenon DEF Tokens
      <4> QED
        BY <4>6, <4>7, <4>8, Zenon DEF Tokens
    <3>2. CASE stage[p] = 1 /\ p \notin Producers
      <4>1. HoldFull' = HoldFull \cup {p} /\ p \notin HoldFull
        BY <2>6, <2>7, <3>2 DEF HoldFull, SemBefore, SemAfter
      <4>2. HoldEmpty' = HoldEmpty /\ HoldMutex' = HoldMutex
        BY <2>6, <2>7, <3>2 DEF HoldEmpty, HoldMutex, SemBefore, SemAfter
      <4>3. Sem!Sem(p) = "full"
        BY <3>2, SemOf, Zenon
      <4>4. Cardinality(HoldFull') = Cardinality(HoldFull) + 1
        BY <4>1, Counting, Holders, Zenon
      <4>5. sem'["full"].value = sem["full"].value - 1
        BY <2>4, <4>3, Zenon
      <4>6. sem'["full"].value + Cardinality(HoldFull') = Len(s_queue')
        <5>1. sem["full"].value + Cardinality(HoldFull) = Len(s_queue)
          BY Zenon DEF Tokens
        <5>2. Len(s_queue) \in Nat /\ sem["full"].value \in Nat /\ Cardinality(HoldFull) \in Nat
          BY Numbers, Zenon
        <5> HIDE DEF SemInv
        <5> QED
          BY <2>3, <4>4, <4>5, <5>1, <5>2
      <4>7. sem'["empty"].value + Cardinality(HoldEmpty') + Len(s_queue') = Capacity
        BY <2>3, <2>4, <4>2, <4>3, Zenon DEF Tokens
      <4>8. sem'["mutex"].value + Cardinality(HoldMutex') = 1
        BY <2>3, <2>4, <4>2, <4>3, Zenon DEF Tokens
      <4> QED
        BY <4>6, <4>7, <4>8, Zenon DEF Tokens
    <3>3. CASE stage[p] = 2
      <4>1. HoldMutex' = HoldMutex \cup {p} /\ p \notin HoldMutex
        BY <2>6, <2>7, <3>3 DEF HoldMutex, SemBefore, SemAfter
      <4>2. HoldEmpty' = HoldEmpty /\ HoldFull' = HoldFull
        BY <2>6, <2>7, <3>3 DEF HoldEmpty, HoldFull, SemBefore, SemAfter
      <4>3. Sem!Sem(p) = "mutex"
        BY <3>3, SemOf, Zenon
      <4>4. Cardinality(HoldMutex') = Cardinality(HoldMutex) + 1
        BY <4>1, Counting, Holders, Zenon
      <4>5. sem'["mutex"].value = sem["mutex"].value - 1
        BY <2>4, <4>3, Zenon
      <4>6. sem'["mutex"].value + Cardinality(HoldMutex') = 1
        <5>1. sem["mutex"].value + Cardinality(HoldMutex) = 1
          BY Zenon DEF Tokens
        <5>2. sem["mutex"].value \in Nat /\ Cardinality(HoldMutex) \in Nat
          BY Numbers, Zenon
        <5> HIDE DEF SemInv
        <5> QED
          BY <2>3, <4>4, <4>5, <5>1, <5>2
      <4>7. sem'["empty"].value + Cardinality(HoldEmpty') + Len(s_queue') = Capacity
        BY <2>3, <2>4, <4>2, <4>3, Zenon DEF Tokens
      <4>8. sem'["full"].value + Cardinality(HoldFull') = Len(s_queue')
        BY <2>3, <2>4, <4>2, <4>3, Zenon DEF Tokens
      <4> QED
        BY <4>6, <4>7, <4>8, Zenon DEF Tokens
    <3> QED
      BY <1>0, <3>1, <3>2, <3>3, Zenon
  <2> QED
    BY <1>0, <2>1, <2>3, <2>4, <2>5, <2>6, <2>7, <2>9 DEF SemInv, PcsAt, Sem!Turns
<1> QED
  BY <1>1, <1>2, <1>3, <1>4, <1>5, Zenon

(* release keeps IInv: fetch_add gives back the token. *)
LEMMA ReleaseStep ==
  ASSUME Countable, SemInv, NEW p \in Sem!Procs, Sem!Add(p) \/ Sem!Wake(p)
  PROVE  SemInv'
<1> USE DEF SemInv
<1>0. stage[p] \in {4, 5} /\ s_pc[p] \in {"add", "wake"}
  <2>1. CASE Sem!Add(p)
    BY <2>1, Zenon DEF Sem!Add
  <2>2. CASE Sem!Wake(p)
    <3>1. s_pc[p] = "wake" /\ s_pc[p] \in PcsAt(stage[p]) /\ stage[p] \in 1..5
      BY <2>2, Zenon DEF Sem!Wake
    <3> HIDE DEF SemInv
    <3> QED
      BY <3>1 DEF PcsAt
  <2> QED
    BY <2>1, <2>2, Zenon
<1>s. Sem!Sem(p) \in {"empty", "full", "mutex"} /\ sem[Sem!Sem(p)] \in SemType
  BY <1>0, SemOf, Zenon
<1>1. CASE Sem!Add(p)
  <2>1. sem[Sem!Sem(p)].value + 1 \in Nat
    BY <1>s DEF SemType
  <2>2. /\ Sem!Stored(sem[Sem!Sem(p)], sem[Sem!Sem(p)].value + 1) \in SemType
        /\ Sem!Stored(sem[Sem!Sem(p)], sem[Sem!Sem(p)].value + 1).value = sem[Sem!Sem(p)].value + 1
    BY <1>s, <2>1, SemFutexOperations, Zenon
  <2>s. sem' = [sem EXCEPT ![Sem!Sem(p)] = Sem!Stored(sem[Sem!Sem(p)], sem[Sem!Sem(p)].value + 1)]
    BY <1>1, Zenon DEF Sem!Add
  <2>3. s_queue' = s_queue
    BY <1>1, Zenon DEF Sem!Add
  <2>4. /\ sem' \in [{"empty", "full", "mutex"} -> SemType]
        /\ sem'[Sem!Sem(p)].value = sem[Sem!Sem(p)].value + 1
        /\ \A s \in {"empty", "full", "mutex"} \ {Sem!Sem(p)} : sem'[s].value = sem[s].value
    BY <1>s, <2>2, <2>s, Others, Zenon
  <2>5. s_pc[p] = "add" /\ s_pc' = [s_pc EXCEPT ![p] = "wake"] /\ UNCHANGED <<stage, seen, s_done>>
    BY <1>1, Zenon DEF Sem!Add
  <2>9. Tokens'
    <3>1. CASE stage[p] = 5 /\ p \notin Producers
      <4>1. HoldEmpty' = HoldEmpty \ {p} /\ p \in HoldEmpty
        BY <2>5, <3>1 DEF HoldEmpty, SemBefore, SemAfter
      <4>2. HoldFull' = HoldFull /\ HoldMutex' = HoldMutex
        BY <2>5, <3>1 DEF HoldFull, HoldMutex, SemBefore, SemAfter
      <4>3. Sem!Sem(p) = "empty"
        BY <3>1, SemOf, Zenon
      <4>4. Cardinality(HoldEmpty') = Cardinality(HoldEmpty) - 1
        BY <4>1, Counting, Holders, Zenon
      <4>5. sem'["empty"].value = sem["empty"].value + 1
        BY <2>4, <4>3, Zenon
      <4>6. sem'["empty"].value + Cardinality(HoldEmpty') + Len(s_queue') = Capacity
        <5>1. sem["empty"].value + Cardinality(HoldEmpty) + Len(s_queue) = Capacity
          BY Zenon DEF Tokens
        <5>2. Len(s_queue) \in Nat /\ sem["empty"].value \in Nat /\ Cardinality(HoldEmpty) \in Nat
          BY Numbers, Zenon
        <5> HIDE DEF SemInv
        <5> QED
          BY <2>3, <4>4, <4>5, <5>1, <5>2
      <4>7. sem'["full"].value + Cardinality(HoldFull') = Len(s_queue')
        BY <2>3, <2>4, <4>2, <4>3, Zenon DEF Tokens
      <4>8. sem'["mutex"].value + Cardinality(HoldMutex') = 1
        BY <2>3, <2>4, <4>2, <4>3, Zenon DEF Tokens
      <4> QED
        BY <4>6, <4>7, <4>8, Zenon DEF Tokens
    <3>2. CASE stage[p] = 5 /\ p \in Producers
      <4>1. HoldFull' = HoldFull \ {p} /\ p \in HoldFull
        BY <2>5, <3>2 DEF HoldFull, SemBefore, SemAfter
      <4>2. HoldEmpty' = HoldEmpty /\ HoldMutex' = HoldMutex
        BY <2>5, <3>2 DEF HoldEmpty, HoldMutex, SemBefore, SemAfter
      <4>3. Sem!Sem(p) = "full"
        BY <3>2, SemOf, Zenon
      <4>4. Cardinality(HoldFull') = Cardinality(HoldFull) - 1
        BY <4>1, Counting, Holders, Zenon
      <4>5. sem'["full"].value = sem["full"].value + 1
        BY <2>4, <4>3, Zenon
      <4>6. sem'["full"].value + Cardinality(HoldFull') = Len(s_queue')
        <5>1. sem["full"].value + Cardinality(HoldFull) = Len(s_queue)
          BY Zenon DEF Tokens
        <5>2. Len(s_queue) \in Nat /\ sem["full"].value \in Nat /\ Cardinality(HoldFull) \in Nat
          BY Numbers, Zenon
        <5> HIDE DEF SemInv
        <5> QED
          BY <2>3, <4>4, <4>5, <5>1, <5>2
      <4>7. sem'["empty"].value + Cardinality(HoldEmpty') + Len(s_queue') = Capacity
        BY <2>3, <2>4, <4>2, <4>3, Zenon DEF Tokens
      <4>8. sem'["mutex"].value + Cardinality(HoldMutex') = 1
        BY <2>3, <2>4, <4>2, <4>3, Zenon DEF Tokens
      <4> QED
        BY <4>6, <4>7, <4>8, Zenon DEF Tokens
    <3>3. CASE stage[p] = 4
      <4>1. HoldMutex' = HoldMutex \ {p} /\ p \in HoldMutex
        BY <2>5, <3>3 DEF HoldMutex, SemBefore, SemAfter
      <4>2. HoldEmpty' = HoldEmpty /\ HoldFull' = HoldFull
        BY <2>5, <3>3, Zenon DEF HoldEmpty, HoldFull, SemBefore, SemAfter
      <4>3. Sem!Sem(p) = "mutex"
        BY <3>3, SemOf, Zenon
      <4>4. Cardinality(HoldMutex') = Cardinality(HoldMutex) - 1
        BY <4>1, Counting, Holders, Zenon
      <4>5. sem'["mutex"].value = sem["mutex"].value + 1
        BY <2>4, <4>3, Zenon
      <4>6. sem'["mutex"].value + Cardinality(HoldMutex') = 1
        <5>1. sem["mutex"].value + Cardinality(HoldMutex) = 1
          BY Zenon DEF Tokens
        <5>2. sem["mutex"].value \in Nat /\ Cardinality(HoldMutex) \in Nat
          BY Numbers, Zenon
        <5> HIDE DEF SemInv
        <5> QED
          BY <2>3, <4>4, <4>5, <5>1, <5>2
      <4>7. sem'["empty"].value + Cardinality(HoldEmpty') + Len(s_queue') = Capacity
        BY <2>3, <2>4, <4>2, <4>3, Zenon DEF Tokens
      <4>8. sem'["full"].value + Cardinality(HoldFull') = Len(s_queue')
        BY <2>3, <2>4, <4>2, <4>3, Zenon DEF Tokens
      <4> QED
        BY <4>6, <4>7, <4>8, Zenon DEF Tokens
    <3> QED
      BY <1>0, <3>1, <3>2, <3>3, Zenon
  <2> QED
    BY <1>0, <2>3, <2>4, <2>5, <2>9 DEF PcsAt, Sem!Turns
<1>2. CASE Sem!Wake(p)
  <2>1. s_pc[p] = "wake" /\ Sem!Return(p) /\ UNCHANGED <<s_queue, seen>>
    BY <1>2, Zenon DEF Sem!Wake
  <2>2. /\ sem' \in [{"empty", "full", "mutex"} -> SemType]
        /\ \A s \in {"empty", "full", "mutex"} : sem'[s].value = sem[s].value
    <3>1. /\ Sem!NotifiedOne(sem[Sem!Sem(p)]) \in SemType
          /\ Sem!NotifiedOne(sem[Sem!Sem(p)]).value = sem[Sem!Sem(p)].value
      BY <1>s, SemFutexOperations, Zenon
    <3>2. sem' = [sem EXCEPT ![Sem!Sem(p)] = Sem!NotifiedOne(sem[Sem!Sem(p)])]
      BY <1>2, Zenon DEF Sem!Wake
    <3> QED
      BY <1>s, <3>1, <3>2, Others, Zenon
  <2>3. CASE stage[p] = 4
    <3>1. /\ stage' = [stage EXCEPT ![p] = 5] /\ s_done' = s_done
          /\ s_pc' = [s_pc EXCEPT ![p] = "add"]
      BY <2>1, <2>3, Returning
    <3>2. UNCHANGED <<HoldEmpty, HoldFull, HoldMutex>>
      BY <2>1, <2>3, <3>1 DEF HoldEmpty, HoldFull, HoldMutex, SemBefore, SemAfter
    <3>3. Tokens'
      BY <2>1, <2>2, <3>2, Idle, Zenon
    <3> QED
      BY <2>1, <2>2, <2>3, <3>1, <3>3 DEF PcsAt, Sem!Turns
  <2>4. CASE stage[p] = 5
    <3>1. /\ stage' = [stage EXCEPT ![p] = 1]
          /\ s_done' = [s_done EXCEPT ![p] = s_done[p] + 1]
          /\ s_pc' = [s_pc EXCEPT ![p] = "load"]
      <4>1. (5 % 5) + 1 = 1
        OBVIOUS
      <4> QED
        BY <2>1, <2>4, <4>1, Zenon DEF Sem!Return
    <3>2. UNCHANGED <<HoldEmpty, HoldFull, HoldMutex>>
      BY <2>1, <2>4, <3>1 DEF HoldEmpty, HoldFull, HoldMutex, SemBefore, SemAfter
    <3>3. Tokens'
      BY <2>1, <2>2, <3>2, Idle, Zenon
    <3> QED
      BY <2>1, <2>2, <2>4, <3>1, <3>3 DEF PcsAt, Sem!Turns
  <2> QED
    BY <1>0, <2>3, <2>4, Zenon
<1> QED
  BY <1>1, <1>2, Zenon

(* One who is at the queue finds it neither full nor empty: the token it   *)
(* holds is a place or an item.                                            *)
LEMMA RoomAndItem ==
  ASSUME Countable, SemInv, NEW p \in Sem!Procs, stage[p] = 3
  PROVE  /\ p \in Producers => Len(s_queue) < Capacity
         /\ p \notin Producers => s_queue # <<>>
<1>1. CASE p \in Producers
  <2>1. p \in HoldEmpty
    BY <1>1, Zenon DEF HoldEmpty, SemBefore
  <2>2. Cardinality(HoldEmpty) > 0
    BY <2>1, Counting, Holders, Zenon
  <2>3. sem["empty"].value + Cardinality(HoldEmpty) + Len(s_queue) = Capacity
    BY Zenon DEF SemInv, Tokens
  <2>4. Len(s_queue) \in Nat /\ sem["empty"].value \in Nat /\ Cardinality(HoldEmpty) \in Nat
    BY Numbers, Zenon
  <2> QED
    BY <1>1, <2>2, <2>3, <2>4
<1>2. CASE p \notin Producers
  <2>1. p \in HoldFull
    BY <1>2, Zenon DEF HoldFull, SemBefore
  <2>2. Cardinality(HoldFull) > 0
    BY <2>1, Counting, Holders, Zenon
  <2>3. sem["full"].value + Cardinality(HoldFull) = Len(s_queue)
    BY Zenon DEF SemInv, Tokens
  <2>4. Len(s_queue) \in Nat /\ sem["full"].value \in Nat /\ Cardinality(HoldFull) \in Nat
    BY Numbers, Zenon
  <2>5. Len(s_queue) # 0
    BY <2>2, <2>3, <2>4
  <2> QED
    BY <1>2, <2>5
<1> QED
  BY <1>1, <1>2, Zenon

(* What Access does to the queue. *)
LEMMA SemPutAndTake ==
  ASSUME NEW s \in Seq(Items)
  PROVE  /\ \A x \in Items : Append(s, x) \in Seq(Items) /\ Len(Append(s, x)) = Len(s) + 1
         /\ s # <<>> => Tail(s) \in Seq(Items) /\ Len(Tail(s)) = Len(s) - 1
OBVIOUS

(* A producer that is at the queue has an item to put. *)
LEMMA HasItem ==
  ASSUME Countable, SemInv, NEW p \in Producers, stage[p] = 3
  PROVE  <<p, s_done[p]>> \in Producers \X (0..Produce - 1)
<1>1. p \in Sem!Procs
  BY Zenon DEF Sem!Procs
<1>2. s_done[p] \in Nat /\ s_done[p] < Sem!Turns(p)
  BY <1>1 DEF SemInv
<1>3. s_done[p] \in 0..Produce - 1
  BY <1>2 DEF Sem!Turns, Countable, Finitely
<1> QED
  BY <1>3, Zenon

(* push and pop keep IInv: a place becomes an item, an item a place. *)
LEMMA AccessStep ==
  ASSUME Countable, SemInv, NEW p \in Sem!Procs, Sem!Access(p)
  PROVE  SemInv'
<1>1. stage[p] = 3 /\ Sem!Return(p) /\ UNCHANGED <<sem, seen>>
  BY Zenon DEF Sem!Access
<1>2. /\ stage' = [stage EXCEPT ![p] = 4]
      /\ s_pc' = [s_pc EXCEPT ![p] = "add"]
      /\ s_done' = s_done
  BY <1>1, Returning
<1>3. HoldMutex' = HoldMutex
  BY <1>1, <1>2, Zenon DEF SemInv, HoldMutex
<1>4. CASE p \in Producers
  <2>1. <<p, s_done[p]>> \in Items
    BY <1>1, <1>4, HasItem, Zenon DEF Items
  <2>2. s_queue' = Append(s_queue, <<p, s_done[p]>>)
    BY <1>4, Zenon DEF Sem!Access
  <2>3. s_queue' \in Seq(Items) /\ Len(s_queue') = Len(s_queue) + 1
    BY <2>1, <2>2, SemPutAndTake, Zenon DEF SemInv
  <2>4. /\ HoldEmpty' = HoldEmpty \ {p} /\ p \in HoldEmpty
        /\ HoldFull' = HoldFull \cup {p} /\ p \notin HoldFull
    BY <1>1, <1>2, <1>4 DEF SemInv, HoldEmpty, HoldFull, SemBefore, SemAfter
  <2>5. Cardinality(HoldEmpty') = Cardinality(HoldEmpty) - 1
    BY <2>4, Counting, Holders, Zenon
  <2>6. Cardinality(HoldFull') = Cardinality(HoldFull) + 1
    BY <2>4, Counting, Holders, Zenon
  <2>7. sem'["empty"].value + Cardinality(HoldEmpty') + Len(s_queue') = Capacity
    <3>1. sem["empty"].value + Cardinality(HoldEmpty) + Len(s_queue) = Capacity
      BY Zenon DEF SemInv, Tokens
    <3>2. Len(s_queue) \in Nat /\ sem["empty"].value \in Nat /\ Cardinality(HoldEmpty) \in Nat
      BY Numbers, Zenon
    <3>3. sem'["empty"].value = sem["empty"].value
      BY <1>1, Zenon
    <3>4. sem["empty"].value + (Cardinality(HoldEmpty) - 1) + (Len(s_queue) + 1) = Capacity
      BY <3>1, <3>2, TokenMoves, Zenon
    <3> QED
      BY <2>3, <2>5, <3>3, <3>4, Zenon
  <2>8. sem'["full"].value + Cardinality(HoldFull') = Len(s_queue')
    <3>1. sem["full"].value + Cardinality(HoldFull) = Len(s_queue)
      BY Zenon DEF SemInv, Tokens
    <3>2. Len(s_queue) \in Nat /\ sem["full"].value \in Nat /\ Cardinality(HoldFull) \in Nat
      BY Numbers, Zenon
    <3>3. sem'["full"].value = sem["full"].value
      BY <1>1, Zenon
    <3>4. sem["full"].value + (Cardinality(HoldFull) + 1) = Len(s_queue) + 1
      BY <3>1, <3>2, SMT
    <3> QED
      BY <2>3, <2>6, <3>3, <3>4, Zenon
  <2>9. Tokens'
    BY <1>1, <1>3, <2>7, <2>8, Zenon DEF SemInv, Tokens
  <2> QED
    BY <1>1, <1>2, <2>3, <2>9 DEF SemInv, PcsAt, Sem!Turns
<1>5. CASE p \notin Producers
  <2>1. s_queue # <<>>
    BY <1>1, <1>5, RoomAndItem, Zenon
  <2>2. s_queue' = Tail(s_queue)
    BY <1>5, Zenon DEF Sem!Access
  <2>3. s_queue' \in Seq(Items) /\ Len(s_queue') = Len(s_queue) - 1
    BY <2>1, <2>2, SemPutAndTake, Zenon DEF SemInv
  <2>4. /\ HoldEmpty' = HoldEmpty \cup {p} /\ p \notin HoldEmpty
        /\ HoldFull' = HoldFull \ {p} /\ p \in HoldFull
    BY <1>1, <1>2, <1>5 DEF SemInv, HoldEmpty, HoldFull, SemBefore, SemAfter
  <2>5. Cardinality(HoldEmpty') = Cardinality(HoldEmpty) + 1
    BY <2>4, Counting, Holders, Zenon
  <2>6. Cardinality(HoldFull') = Cardinality(HoldFull) - 1
    BY <2>4, Counting, Holders, Zenon
  <2>7. sem'["empty"].value + Cardinality(HoldEmpty') + Len(s_queue') = Capacity
    <3>1. sem["empty"].value + Cardinality(HoldEmpty) + Len(s_queue) = Capacity
      BY Zenon DEF SemInv, Tokens
    <3>2. Len(s_queue) \in Nat /\ sem["empty"].value \in Nat /\ Cardinality(HoldEmpty) \in Nat
      BY Numbers, Zenon
    <3>3. sem'["empty"].value = sem["empty"].value
      BY <1>1, Zenon
    <3>4. sem["empty"].value + (Cardinality(HoldEmpty) + 1) + (Len(s_queue) - 1) = Capacity
      BY <3>1, <3>2, TokenMoves, Zenon
    <3> QED
      BY <2>3, <2>5, <3>3, <3>4, Zenon
  <2>8. sem'["full"].value + Cardinality(HoldFull') = Len(s_queue')
    <3>1. sem["full"].value + Cardinality(HoldFull) = Len(s_queue)
      BY Zenon DEF SemInv, Tokens
    <3>2. Len(s_queue) \in Nat /\ sem["full"].value \in Nat /\ Cardinality(HoldFull) \in Nat
      BY Numbers, Zenon
    <3>3. sem'["full"].value = sem["full"].value
      BY <1>1, Zenon
    <3>4. sem["full"].value + (Cardinality(HoldFull) - 1) = Len(s_queue) - 1
      BY <3>1, <3>2, SMT
    <3> QED
      BY <2>3, <2>6, <3>3, <3>4, Zenon
  <2>9. Tokens'
    BY <1>1, <1>3, <2>7, <2>8, Zenon DEF SemInv, Tokens
  <2> QED
    BY <1>1, <1>2, <2>3, <2>9 DEF SemInv, PcsAt, Sem!Turns
<1> QED
  BY <1>4, <1>5, Zenon

(* Every step keeps IInv. *)
LEMMA SemInductive ==
  ASSUME Countable PROVE SemInv /\ [Sem!Next]_(Sem!vars) => SemInv'
<1> SUFFICES ASSUME SemInv, [Sem!Next]_(Sem!vars) PROVE SemInv'
  OBVIOUS
<1>1. CASE UNCHANGED Sem!vars
  BY <1>1, Zenon DEF Sem!vars, SemInv, Tokens, HoldEmpty, HoldFull, HoldMutex, SemBefore, SemAfter
<1>2. ASSUME NEW p \in Sem!Procs, Sem!Step(p) PROVE SemInv'
  BY <1>2, AcquireStep, ReleaseStep, AccessStep, Zenon DEF Sem!Step
<1> QED
  BY <1>1, <1>2 DEF Sem!Next
-----------------------------------------------------------------------------
(* What the argument about the chunks needs of cardinality. *)
ChunkLaws ==
  /\ IsFiniteSet({}) /\ Cardinality({}) = 0
  /\ \A S : IsFiniteSet(S) => Cardinality(S) \in Nat
  /\ \A x : Cardinality({x}) = 1
  /\ \A S, x : IsFiniteSet(S) /\ x \notin S =>
       IsFiniteSet(S \cup {x}) /\ Cardinality(S \cup {x}) = Cardinality(S) + 1
  /\ \A S, x : IsFiniteSet(S) /\ x \in S =>
       IsFiniteSet(S \ {x}) /\ Cardinality(S \ {x}) = Cardinality(S) - 1

(* ZeroCopyRx *)

(* x % n lies below n *)
LEMMA ModRange ==
  ASSUME NEW x \in Int, NEW n \in Nat \ {0} PROVE x % n \in 0..n - 1
  BY SMT

(* and is what a division by n leaves. *)
LEMMA DivMod ==
  ASSUME NEW x \in Int, NEW n \in Nat \ {0} PROVE \E q \in Int : x = n * q + (x % n)
<1>1. x = n * (x \div n) + (x % n)
  BY SMT
<1>2. x \div n \in Int
  BY SMT
<1> QED BY <1>1, <1>2

(* A positive multiple of n is at least n. *)
LEMMA Times ==
  ASSUME NEW n \in Nat \ {0}, NEW d \in Int, d >= 1
  PROVE n * d >= n
  BY SMT

(* So no other number below n can be left. *)
LEMMA ModUnique ==
  ASSUME NEW x \in Int, NEW n \in Nat \ {0}, NEW q \in Int, NEW r \in 0..n - 1,
         x = n * q + r
  PROVE  x % n = r
<1>1. PICK p \in Int : x = n * p + (x % n)  BY DivMod, Zenon
<1>2. x % n \in 0..n - 1 BY ModRange
<1>3. CASE p = q BY <1>1, <1>2, <1>3
<1>4. CASE p > q 
  <2>1. n * (p - q) >= n BY <1>4, Times
  <2>2. n * (p - q) = n * p - n * q OBVIOUS
  <2> QED BY <2>1, <2>2, <1>1, <1>2
<1>5. CASE p < q
  <2>1. n * (q - p) >= n BY <1>5, Times
  <2>2. n * (q - p) = n * q - n * p OBVIOUS
  <2> QED BY <2>1, <2>2, <1>1, <1>2
<1> QED BY <1>3, <1>4, <1>5

(* Indices wrap around at most once. *)
LEMMA Sum ==
  ASSUME NEW m \in Nat \ {0}, NEW a \in 0..m - 1, NEW k \in 0..m
  PROVE  (a + k) % m = IF a + k < m THEN a + k ELSE a + k - m
<1>1. CASE a + k < m
  <2>1. a + k = m * 0 + (a + k) /\ a + k \in 0..m - 1 /\ a + k \in Int
    BY <1>1
  <2>2. (a + k) % m = a + k
    BY <2>1, ModUnique
  <2> QED
    BY <1>1, <2>2, Zenon
<1>2. CASE a + k >= m
  <2>1. a + k = m * 1 + (a + k - m) /\ a + k - m \in 0..m - 1 /\ a + k \in Int
    BY <1>2
  <2>2. (a + k) % m = a + k - m
    BY <2>1, ModUnique
  <2> QED
    BY <1>2, <2>2
<1> QED
  BY <1>1, <1>2

(* The distance from one index to another, rq_tail - *khead in an unsigned *)
(* type.                                                                   *)
LEMMA Difference ==
  ASSUME NEW m \in Nat \ {0}, NEW a \in 0..m - 1, NEW b \in 0..m - 1
  PROVE  (b - a) % m = IF b >= a THEN b - a ELSE b - a + m
<1>1. CASE b >= a
  <2>1. b - a = m * 0 + (b - a) /\ b - a \in 0..m - 1 /\ b - a \in Int
    BY <1>1
  <2>2. (b - a) % m = b - a
    BY <2>1, ModUnique
  <2> QED
    BY <1>1, <2>2, Zenon
<1>2. CASE b < a
  <2>1. b - a = m * (-1) + (b - a + m) /\ b - a + m \in 0..m - 1 /\ b - a \in Int
    BY <1>2
  <2>2. (b - a) % m = b - a + m
    BY <2>1, ModUnique
  <2> QED
    BY <1>2, <2>2
<1> QED
  BY <1>1, <1>2

(* The size of the ring divides the range of the indices. *)
LEMMA Round ==
  ASSUME NEW m \in Nat \ {0}, NEW c \in Nat \ {0}, m % c = 0, NEW x \in Int
  PROVE  (x + m) % c = x % c
<1>1. PICK w \in Int : m = c * w
  <2>0. m \in Int
    OBVIOUS
  <2>1. PICK w \in Int : m = c * w + (m % c)
    BY <2>0, DivMod, Zenon
  <2> QED
    BY <2>1
<1>2. PICK q \in Int : x = c * q + (x % c)
  BY DivMod, Zenon
<1>3. x % c \in 0..c - 1
  BY ModRange, Zenon
<1>4. c * (q + w) = c * q + c * w /\ q + w \in Int
  OBVIOUS
<1>5. x + m = c * (q + w) + (x % c) /\ x + m \in Int
  <2> DEFINE cq == c * q
             cw == c * w
             r == x % c
  <2>1. cq \in Int /\ cw \in Int /\ r \in Int /\ m = cw /\ x = cq + r /\ c * (q + w) = cq + cw
    BY <1>1, <1>2, <1>3, <1>4
  <2> HIDE DEF cq, cw, r
  <2>2. x + m = c * (q + w) + r
    BY <2>1
  <2> QED
    BY <2>2 DEF r
<1>6. PICK p \in Int : p = q + w
  BY <1>4, Zenon
<1>7. x + m = c * p + (x % c)
  BY <1>5, <1>6
<1>8. PICK y \in Int : y = x + m
  BY <1>5, Zenon
<1>9. PICK r \in 0..c - 1 : r = x % c
  BY <1>3, Zenon
<1>10. y = c * p + r
  BY <1>7, <1>8, <1>9, Zenon
<1>11. y % c = r
  BY <1>10, ModUnique, Zenon
<1> QED
  BY <1>8, <1>9, <1>11, Zenon

(* The slots of c indices in a row are different. *)
LEMMA Row ==
  ASSUME NEW c \in Nat \ {0}, NEW a \in Nat
  PROVE  /\ \A j \in Nat : (a + j) % c \in 0..c - 1
         /\ \A j, k \in 0..c - 1 : (a + j) % c = (a + k) % c => j = k
<1>1. \A j \in Nat : (a + j) % c \in 0..c - 1
  BY ModRange
<1>2. ASSUME NEW j \in 0..c - 1, NEW k \in 0..c - 1, j < k, (a + j) % c = (a + k) % c
      PROVE  FALSE
  <2>0. a + j \in Int /\ a + k \in Int /\ j \in Nat
    OBVIOUS
  <2>1. PICK p \in Int : a + j = c * p + ((a + j) % c)
    BY <2>0, DivMod, Zenon
  <2>2. PICK q \in Int : a + k = c * q + ((a + k) % c)
    BY <2>0, DivMod, Zenon
  <2>3. PICK r \in Int : r = (a + j) % c
    BY <1>1, <2>0
  <2> DEFINE cp == c * p
             cq == c * q
  <2>4. a + j = cp + r /\ a + k = cq + r /\ cp \in Int /\ cq \in Int
    BY <1>2, <2>1, <2>2, <2>3
  <2>5. c * (q - p) = cq - cp /\ q - p \in Int
    OBVIOUS
  <2> HIDE DEF cp, cq
  <2>6. c * (q - p) = k - j
    BY <2>4, <2>5
  <2>7. q - p >= 1
    <3>1. ~(q - p >= 1) => c * (q - p) <= 0
      BY <2>5
    <3> QED
      BY <1>2, <2>5, <2>6, <3>1
  <2>8. c * (q - p) >= c
    BY <2>5, <2>7, Times
  <2> QED
    BY <2>6, <2>8
<1> QED
  BY <1>1, <1>2

CONSTANTS Chunks, Entries, IndexBits, NoDev, MaxCq

VARIABLES ended, lent, cq, held, empty, rqes, rq_tail, khead

Rx == INSTANCE ZeroCopyRx

Limit == 2^IndexBits

(* A refill ring is smaller than the range of its indices, which it        *)
(* divides; there is a chunk.                                              *)
Refillable ==
  /\ Limit \in Nat \ {0} /\ Entries \in Nat \ {0} /\ Chunks \in Nat \ {0}
  /\ Entries < Limit /\ Limit % Entries = 0

(* How many chunks there are from index a to index b, and where they are. *)
Dist(a, b) == (b - a) % Limit
Cell(a, j) == (a + j) % Entries

(* From a to b round L numbers it is d; from a to the number after b it is *)
(* one more, *)
LEMMA Further ==
  ASSUME NEW L \in Nat \ {0}, NEW a \in 0..L - 1, NEW b \in 0..L - 1,
         NEW d \in Int, NEW n \in Int, NEW f \in Int,
         d = IF b >= a THEN b - a ELSE b - a + L,
         n = IF b + 1 < L THEN b + 1 ELSE b + 1 - L,
         f = IF n >= a THEN n - a ELSE n - a + L,
         d + 1 < L
  PROVE  f = d + 1
  BY SMT

(* and from the number after a to b one less. *)
LEMMA Nearer ==
  ASSUME NEW L \in Nat \ {0}, NEW a \in 0..L - 1, NEW b \in 0..L - 1,
         NEW d \in Int, NEW n \in Int, NEW f \in Int,
         d = IF b >= a THEN b - a ELSE b - a + L,
         n = IF a + 1 < L THEN a + 1 ELSE a + 1 - L,
         f = IF b >= n THEN b - n ELSE b - n + L,
         d > 0
  PROVE  f = d - 1
  BY SMT

(* Distances in the ring, and what one step of either end does to them. *)
LEMMA Distances ==
  ASSUME Refillable, NEW a \in 0..Limit - 1, NEW b \in 0..Limit - 1
  PROVE  /\ Dist(a, b) \in 0..Limit - 1
         /\ Dist(a, b) = 0 <=> a = b
         /\ (a + 1) % Limit \in 0..Limit - 1
         /\ Dist(a, b) + 1 < Limit => Dist(a, (b + 1) % Limit) = Dist(a, b) + 1
         /\ Dist(a, b) > 0 => Dist((a + 1) % Limit, b) = Dist(a, b) - 1
<1>0. Limit \in Nat \ {0} /\ 1 \in 0..Limit
  BY DEF Refillable
<1>1. ASSUME NEW x \in 0..Limit - 1, NEW y \in 0..Limit - 1
      PROVE  Dist(x, y) = IF y >= x THEN y - x ELSE y - x + Limit
  BY <1>0, Difference, Zenon DEF Dist
<1>2. ASSUME NEW x \in 0..Limit - 1
      PROVE  (x + 1) % Limit = IF x + 1 < Limit THEN x + 1 ELSE x + 1 - Limit
  BY <1>0, Sum, Zenon
<1>3. ASSUME NEW x \in 0..Limit - 1 PROVE (x + 1) % Limit \in 0..Limit - 1
  BY <1>0, <1>2
<1>4. Dist(a, b) = IF b >= a THEN b - a ELSE b - a + Limit
  BY <1>1, Zenon
<1>5. Dist(a, b) \in 0..Limit - 1 /\ (Dist(a, b) = 0 <=> a = b)
  BY <1>0, <1>4
<1>6. Dist(a, b) + 1 < Limit => Dist(a, (b + 1) % Limit) = Dist(a, b) + 1
  <2>1. Dist(a, (b + 1) % Limit) = IF (b + 1) % Limit >= a THEN ((b + 1) % Limit) - a
                                   ELSE ((b + 1) % Limit) - a + Limit
    BY <1>1, <1>3, Zenon
  <2>2. (b + 1) % Limit = IF b + 1 < Limit THEN b + 1 ELSE b + 1 - Limit
    BY <1>2, Zenon
  <2>3. Dist(a, b) \in Int /\ (b + 1) % Limit \in Int
    BY <1>3, <1>5
  <2>4. Dist(a, (b + 1) % Limit) \in Int
    BY <1>0, <2>1, <2>3
  <2> QED
    BY <1>0, <1>4, <2>1, <2>2, <2>3, <2>4, Further, Zenon
<1>7. Dist(a, b) > 0 => Dist((a + 1) % Limit, b) = Dist(a, b) - 1
  <2>1. Dist((a + 1) % Limit, b) = IF b >= (a + 1) % Limit THEN b - ((a + 1) % Limit)
                                   ELSE b - ((a + 1) % Limit) + Limit
    BY <1>1, <1>3, Zenon
  <2>2. (a + 1) % Limit = IF a + 1 < Limit THEN a + 1 ELSE a + 1 - Limit
    BY <1>2, Zenon
  <2>3. Dist(a, b) \in Int /\ (a + 1) % Limit \in Int
    BY <1>3, <1>5
  <2>4. Dist((a + 1) % Limit, b) \in Int
    BY <1>0, <2>1, <2>3
  <2> QED
    BY <1>0, <1>4, <2>1, <2>2, <2>3, <2>4, Nearer, Zenon
<1> QED
  BY <1>3, <1>5, <1>6, <1>7, Zenon

(* The cells between two indices are different ones. *)
LEMMA RingCells ==
  ASSUME Refillable, NEW a \in 0..Limit - 1, NEW b \in 0..Limit - 1
  PROVE  /\ \A j \in Nat : Cell(a, j) \in 0..Entries - 1
         /\ \A j, k \in 0..Entries - 1 : Cell(a, j) = Cell(a, k) => j = k
         /\ \A k \in Nat : Cell((a + 1) % Limit, k) = Cell(a, k + 1)
         /\ b % Entries = Cell(a, Dist(a, b))
<1>0. /\ Limit \in Nat \ {0} /\ Entries \in Nat \ {0} /\ Limit % Entries = 0 /\ 1 \in 0..Limit
      /\ a \in Nat
  BY DEF Refillable
<1>1. /\ \A j \in Nat : Cell(a, j) \in 0..Entries - 1
      /\ \A j, k \in 0..Entries - 1 : Cell(a, j) = Cell(a, k) => j = k
  BY <1>0, Row, Zenon DEF Cell
<1>2. ASSUME NEW k \in Nat PROVE Cell((a + 1) % Limit, k) = Cell(a, k + 1)
  <2>1. (a + 1) % Limit = IF a + 1 < Limit THEN a + 1 ELSE a + 1 - Limit
    BY <1>0, Sum, Zenon
  <2>2. CASE a + 1 < Limit
    <3>1. ((a + 1) % Limit) + k = a + (k + 1)
      BY <1>0, <2>1, <2>2
    <3> QED
      BY <3>1, Zenon DEF Cell
  <2>3. CASE ~(a + 1 < Limit)
    <3>1. (((a + 1) % Limit) + k) + Limit = a + (k + 1) /\ ((a + 1) % Limit) + k \in Int
      BY <1>0, <2>1, <2>3
    <3>2. ((((a + 1) % Limit) + k) + Limit) % Entries = (((a + 1) % Limit) + k) % Entries
      BY <1>0, <3>1, Round, Zenon
    <3> QED
      BY <3>1, <3>2, Zenon DEF Cell
  <2> QED
    BY <2>2, <2>3, Zenon
<1>3. b % Entries = Cell(a, Dist(a, b))
  <2>1. Dist(a, b) = IF b >= a THEN b - a ELSE b - a + Limit
    BY <1>0, Difference, Zenon DEF Dist
  <2>2. CASE b >= a
    <3>1. a + Dist(a, b) = b
      BY <1>0, <2>1, <2>2
    <3> QED
      BY <3>1, Zenon DEF Cell
  <2>3. CASE ~(b >= a)
    <3>1. a + Dist(a, b) = b + Limit /\ b \in Int
      BY <1>0, <2>1, <2>3
    <3>2. (b + Limit) % Entries = b % Entries
      BY <1>0, <3>1, Round, Zenon
    <3> QED
      BY <3>1, <3>2, Zenon DEF Cell
  <2> QED
    BY <2>2, <2>3, Zenon
<1> QED
  BY <1>1, <1>2, <1>3, Zenon

(* The chunk of slot after slot from index h up to index t of ring q: c is *)
(* there, and no chunk is there twice.                                     *)
Inside(q, h, t, c) == \E j \in 0..Dist(h, t) - 1 : q[Cell(h, j)] = c
Apart(q, h, t) ==
  \A i, j \in 0..Dist(h, t) - 1 : q[Cell(h, i)] = q[Cell(h, j)] => i = j

(* rq_enqueue_ adds the chunk to those in the ring. *)
LEMMA RingEnqueue ==
  ASSUME Refillable, NEW S, NEW q \in [0..Entries - 1 -> S], NEW x \in S,
         NEW h \in 0..Limit - 1, NEW t \in 0..Limit - 1, Dist(h, t) < Entries
  PROVE  LET r == [q EXCEPT ![t % Entries] = x]
             u == (t + 1) % Limit
         IN  /\ r \in [0..Entries - 1 -> S] /\ u \in 0..Limit - 1
             /\ Dist(h, u) = Dist(h, t) + 1
             /\ \A c : Inside(r, h, u, c) <=> Inside(q, h, t, c) \/ c = x
             /\ Apart(q, h, t) /\ ~Inside(q, h, t, x) => Apart(r, h, u)
<1> DEFINE r == [q EXCEPT ![t % Entries] = x]
           u == (t + 1) % Limit
           n == Dist(h, t)
<1>0. Limit \in Nat /\ Entries \in Nat \ {0} /\ Entries < Limit
  BY DEF Refillable
<1>1. n \in Nat /\ n < Entries /\ u \in 0..Limit - 1 /\ Dist(h, u) = n + 1
  <2>1. n \in 0..Limit - 1 /\ u \in 0..Limit - 1 /\ (n + 1 < Limit => Dist(h, u) = n + 1)
    BY Distances, Zenon
  <2> QED
    BY <1>0, <2>1
<1>2. t % Entries = Cell(h, n) /\ Cell(h, n) \in 0..Entries - 1
  BY <1>1, RingCells, Zenon
<1>3. r \in [0..Entries - 1 -> S] /\ r[Cell(h, n)] = x
  BY <1>2
<1>4. ASSUME NEW j \in 0..n - 1 PROVE r[Cell(h, j)] = q[Cell(h, j)]
  <2>1. j \in 0..Entries - 1 /\ n \in 0..Entries - 1 /\ j # n /\ j \in Nat
    BY <1>0, <1>1
  <2>2. Cell(h, j) # Cell(h, n) /\ Cell(h, j) \in 0..Entries - 1
    BY <2>1, RingCells, Zenon
  <2> QED
    BY <1>2, <2>2
<1>5. \A j : j \in 0..(n + 1) - 1 <=> j \in 0..n - 1 \/ j = n
  BY <1>1
<1>6. \A c : Inside(r, h, u, c) <=> Inside(q, h, t, c) \/ c = x
  <2>1. \A c : Inside(r, h, u, c) <=> \E j \in 0..(n + 1) - 1 : r[Cell(h, j)] = c
    BY <1>1 DEF Inside
  <2>2. \A c : Inside(q, h, t, c) <=> \E j \in 0..n - 1 : q[Cell(h, j)] = c
    BY DEF Inside
  <2> HIDE DEF r, u, n
  <2> QED
    BY <1>3, <1>4, <1>5, <2>1, <2>2, Zenon
<1>7. ASSUME Apart(q, h, t), ~Inside(q, h, t, x) PROVE Apart(r, h, u)
  <2>1. Apart(r, h, u) <=> \A i, j \in 0..(n + 1) - 1 : r[Cell(h, i)] = r[Cell(h, j)] => i = j
    BY <1>1 DEF Apart
  <2>2. \A i, j \in 0..n - 1 : q[Cell(h, i)] = q[Cell(h, j)] => i = j
    BY <1>7 DEF Apart
  <2>3. \A j \in 0..n - 1 : q[Cell(h, j)] # x
    BY <1>7 DEF Inside
  <2> HIDE DEF r, u, n
  <2>4. ASSUME NEW i \in 0..(n + 1) - 1, NEW j \in 0..(n + 1) - 1,
               r[Cell(h, i)] = r[Cell(h, j)]
        PROVE  i = j
    <3>1. CASE i = n /\ j = n
      BY <3>1, Zenon
    <3>2. CASE i \in 0..n - 1 /\ j = n
      BY <1>3, <1>4, <2>3, <2>4, <3>2
    <3>3. CASE i = n /\ j \in 0..n - 1
      BY <1>3, <1>4, <2>3, <2>4, <3>3
    <3>4. CASE i \in 0..n - 1 /\ j \in 0..n - 1
      BY <1>4, <2>2, <2>4, <3>4
    <3> QED
      BY <1>5, <3>1, <3>2, <3>3, <3>4, Zenon
  <2> QED
    BY <2>1, <2>4, Zenon
<1> QED
  BY <1>1, <1>3, <1>6, <1>7, Zenon

(* The kernel takes the first chunk of the ring out of it. *)
LEMMA RingDequeue ==
  ASSUME Refillable, NEW q, NEW h \in 0..Limit - 1, NEW t \in 0..Limit - 1,
         Dist(h, t) < Entries, h # t
  PROVE  LET g == (h + 1) % Limit
         IN  /\ g \in 0..Limit - 1
             /\ Dist(g, t) < Entries
             /\ Inside(q, h, t, q[h % Entries])
             /\ Apart(q, h, t) => Apart(q, g, t)
             /\ Apart(q, h, t) => \A c : Inside(q, g, t, c)
                                           <=> Inside(q, h, t, c) /\ c # q[h % Entries]
<1> DEFINE g == (h + 1) % Limit
           n == Dist(h, t)
<1>0. Limit \in Nat /\ Entries \in Nat \ {0} /\ Entries < Limit
  BY DEF Refillable
<1>1. n \in Nat /\ n > 0 /\ g \in 0..Limit - 1 /\ Dist(g, t) = n - 1
  <2>1. /\ n \in 0..Limit - 1 /\ n # 0 /\ g \in 0..Limit - 1
        /\ (n > 0 => Dist(g, t) = n - 1)
    BY Distances, Zenon
  <2> QED
    BY <1>0, <2>1
<1>2. Dist(g, t) < Entries
  BY <1>0, <1>1
<1>3. \A k \in Nat : Cell(g, k) = Cell(h, k + 1)
  BY RingCells, Zenon
<1>4. h % Entries = Cell(h, 0)
  BY <1>0 DEF Cell
<1>5. 0 \in 0..n - 1 /\ \A j \in 0..n - 1 : j # 0 => j - 1 \in 0..(n - 1) - 1
  BY <1>1
<1>6. \A k \in 0..(n - 1) - 1 : k \in Nat /\ k + 1 \in 0..n - 1 /\ k + 1 # 0
  BY <1>1
<1>7. Inside(q, h, t, q[h % Entries])
  BY <1>4, <1>5, Zenon DEF Inside
<1>8. ASSUME Apart(q, h, t) PROVE Apart(q, g, t)
  <2> SUFFICES ASSUME NEW i \in 0..(n - 1) - 1, NEW j \in 0..(n - 1) - 1,
                      q[Cell(g, i)] = q[Cell(g, j)]
               PROVE  i = j
    BY <1>1 DEF Apart
  <2> HIDE DEF g, n
  <2>1. q[Cell(h, i + 1)] = q[Cell(h, j + 1)]
    BY <1>3, <1>6
  <2>2. i + 1 = j + 1
    BY <1>6, <1>8, <2>1 DEF Apart, n
  <2> QED
    BY <1>6, <2>2
<1>9. ASSUME Apart(q, h, t), NEW c
      PROVE  Inside(q, g, t, c) <=> Inside(q, h, t, c) /\ c # q[h % Entries]
  <2>1. Inside(q, g, t, c) <=> \E j \in 0..(n - 1) - 1 : q[Cell(g, j)] = c
    BY <1>1 DEF Inside
  <2>2. Inside(q, h, t, c) <=> \E j \in 0..n - 1 : q[Cell(h, j)] = c
    BY DEF Inside
  <2>3. \A i, j \in 0..n - 1 : q[Cell(h, i)] = q[Cell(h, j)] => i = j
    BY <1>9 DEF Apart
  <2> HIDE DEF g, n
  <2>4. ASSUME NEW k \in 0..(n - 1) - 1, q[Cell(g, k)] = c
        PROVE  Inside(q, h, t, c) /\ c # q[h % Entries]
    <3>1. k + 1 \in 0..n - 1 /\ k + 1 # 0 /\ q[Cell(h, k + 1)] = c
      BY <1>3, <1>6, <2>4
    <3> QED
      BY <1>4, <1>5, <2>2, <2>3, <3>1
  <2>5. ASSUME NEW j \in 0..n - 1, q[Cell(h, j)] = c, c # q[h % Entries]
        PROVE  Inside(q, g, t, c)
    <3>1. j # 0
      BY <1>4, <2>5
    <3>2. j - 1 \in 0..(n - 1) - 1 /\ (j - 1) + 1 = j
      BY <1>5, <3>1
    <3>3. Cell(g, j - 1) = Cell(h, j)
      BY <1>3, <1>6, <3>2
    <3> QED
      BY <2>1, <2>5, <3>2, <3>3
  <2> QED
    BY <2>1, <2>2, <2>4, <2>5, Zenon
<1> QED
  BY <1>1, <1>2, <1>7, <1>8, <1>9, Zenon

(* Nothing is in the ring once the kernel has taken everything. *)
LEMMA RingEmpty ==
  ASSUME Refillable, NEW q, NEW t \in 0..Limit - 1
  PROVE  Dist(t, t) = 0 /\ Apart(q, t, t) /\ \A c : ~Inside(q, t, t, c)
<1>1. Dist(t, t) = 0
  BY Distances, Zenon
<1>2. 0..0 - 1 = {}
  OBVIOUS
<1> QED
  BY <1>1, <1>2 DEF Apart, Inside
-----------------------------------------------------------------------------
Entry == [res : {"data", "error", "eof"}, chunk : Rx!Area]

(* Chunk c is in a completion to be handled, and no chunk is in two. *)
Flies(s, c) == \E n \in DOMAIN s : s[n].res = "data" /\ s[n].chunk = c
Single(s) ==
  \A m, n \in DOMAIN s : /\ s[m].res = "data" /\ s[n].res = "data"
                         /\ s[m].chunk = s[n].chunk
                         => m = n
Goes(s) == \A n \in DOMAIN s : s[n].res # "eof"

(* A completion comes. *)
LEMMA Comes ==
  ASSUME NEW s \in Seq(Entry), NEW e \in Entry
  PROVE  LET r == Append(s, e)
         IN  /\ r \in Seq(Entry)
             /\ \A c : Flies(r, c) <=> Flies(s, c) \/ (e.res = "data" /\ e.chunk = c)
             /\ Single(s) /\ (e.res = "data" => ~Flies(s, e.chunk)) => Single(r)
             /\ Goes(s) /\ e.res # "eof" => Goes(r)
<1> DEFINE r == Append(s, e)
           l == Len(s) + 1
<1>1. r \in Seq(Entry) /\ r[l] = e /\ \A n \in DOMAIN s : r[n] = s[n]
  OBVIOUS
<1>2. \A n : n \in DOMAIN r <=> n \in DOMAIN s \/ n = l
  OBVIOUS
<1> HIDE DEF r, l
<1>3. \A c : Flies(r, c) <=> Flies(s, c) \/ (e.res = "data" /\ e.chunk = c)
  BY <1>1, <1>2, SMT DEF Flies
<1>4. ASSUME Single(s), e.res = "data" => ~Flies(s, e.chunk) PROVE Single(r)
  <2> SUFFICES ASSUME NEW m \in DOMAIN r, NEW n \in DOMAIN r,
                      r[m].res = "data", r[n].res = "data", r[m].chunk = r[n].chunk
               PROVE  m = n
    BY Zenon DEF Single
  <2>1. CASE m \in DOMAIN s /\ n \in DOMAIN s
    BY <1>1, <1>4, <2>1, SMT DEF Single
  <2>2. CASE m = l /\ n \in DOMAIN s
    BY <1>1, <1>4, <2>2, SMT DEF Flies
  <2>3. CASE n = l /\ m \in DOMAIN s
    BY <1>1, <1>4, <2>3, SMT DEF Flies
  <2> QED
    BY <1>2, <2>1, <2>2, <2>3, Zenon
<1>5. ASSUME Goes(s), e.res # "eof" PROVE Goes(r)
  BY <1>1, <1>2, <1>5, SMT DEF Goes
<1> QED
  BY <1>1, <1>3, <1>4, <1>5, Zenon DEF r

(* The first completion is taken. *)
LEMMA Taken ==
  ASSUME NEW s \in Seq(Entry), s # <<>>
  PROVE  LET r == Tail(s)
             e == Head(s)
         IN  /\ r \in Seq(Entry) /\ e \in Entry
             /\ e.res = "data" => Flies(s, e.chunk)
             /\ Single(s) => /\ Single(r)
                             /\ \A c : Flies(r, c)
                                  <=> Flies(s, c) /\ ~(e.res = "data" /\ e.chunk = c)
             /\ Goes(s) => Goes(r) /\ e.res # "eof"
<1> DEFINE r == Tail(s)
           e == Head(s)
<1>1. r \in Seq(Entry) /\ e \in Entry /\ 1 \in DOMAIN s /\ s[1] = e
  OBVIOUS
<1>2. ASSUME NEW n \in DOMAIN r PROVE n + 1 \in DOMAIN s /\ n + 1 # 1 /\ r[n] = s[n + 1] /\ n \in Nat
  OBVIOUS
<1>3. ASSUME NEW n \in DOMAIN s, n # 1
      PROVE  n - 1 \in DOMAIN r /\ s[n] = r[n - 1]
  <2>1. n \in 1..Len(s) /\ DOMAIN r = 1..Len(s) - 1 /\ Len(s) \in Nat
    OBVIOUS
  <2>2. n - 1 \in DOMAIN r
    BY <1>3, <2>1
  <2>3. s[(n - 1) + 1] = r[n - 1] /\ (n - 1) + 1 = n
    BY <1>2, <2>1, <2>2
  <2> QED
    BY <2>2, <2>3, Zenon
<1> HIDE DEF r, e
<1>4. e.res = "data" => Flies(s, e.chunk)
  BY <1>1, SMT DEF Flies
<1>5. ASSUME Single(s) PROVE Single(r)
  <2> SUFFICES ASSUME NEW m \in DOMAIN r, NEW n \in DOMAIN r,
                      r[m].res = "data", r[n].res = "data", r[m].chunk = r[n].chunk
               PROVE  m = n
    BY Zenon DEF Single
  <2>1. m + 1 = n + 1
    BY <1>2, <1>5, SMT DEF Single
  <2> QED
    BY <1>2, <2>1
<1>6. ASSUME Single(s), NEW c
      PROVE  Flies(r, c) <=> Flies(s, c) /\ ~(e.res = "data" /\ e.chunk = c)
  <2>1. ASSUME Flies(r, c) PROVE Flies(s, c) /\ ~(e.res = "data" /\ e.chunk = c)
    <3>1. PICK n \in DOMAIN r : r[n].res = "data" /\ r[n].chunk = c
      BY <2>1, Zenon DEF Flies
    <3>2. n + 1 \in DOMAIN s /\ n + 1 # 1 /\ s[n + 1].res = "data" /\ s[n + 1].chunk = c
      BY <1>2, <3>1
    <3>3. ~(e.res = "data" /\ e.chunk = c)
      BY <1>1, <1>6, <3>2, SMT DEF Single
    <3> QED
      BY <3>2, <3>3 DEF Flies
  <2>2. ASSUME Flies(s, c), ~(e.res = "data" /\ e.chunk = c) PROVE Flies(r, c)
    <3>1. PICK n \in DOMAIN s : s[n].res = "data" /\ s[n].chunk = c
      BY <2>2, Zenon DEF Flies
    <3>2. n # 1
      BY <1>1, <2>2, <3>1
    <3> QED
      BY <1>3, <3>1, <3>2, SMT DEF Flies
  <2> QED
    BY <2>1, <2>2, Zenon
<1>7. ASSUME Goes(s) PROVE Goes(r) /\ e.res # "eof"
  BY <1>1, <1>2, <1>7, SMT DEF Goes
<1> QED
  BY <1>1, <1>4, <1>5, <1>6, <1>7, Zenon DEF r, e
-----------------------------------------------------------------------------
RxTypes ==
  /\ ended \in BOOLEAN
  /\ lent \in SUBSET Rx!Area
  /\ held \in SUBSET Rx!Area
  /\ empty \in Nat
  /\ cq \in Seq(Entry)
  /\ rqes \in [0..Entries - 1 -> Rx!Area]
  /\ rq_tail \in 0..Limit - 1
  /\ khead \in 0..Limit - 1
  /\ Dist(khead, rq_tail) < Entries

(* The ring has the chunk. *)
Rings(c) == Inside(rqes, khead, rq_tail, c)

(* As long as no stream has ended, no chunk is in a completion twice, nor  *)
(* in the ring twice, a chunk that is lent is in a completion, held or in  *)
(* the ring, and never in two of these.                                    *)
Places ==
  /\ empty = 0 /\ Goes(cq) /\ Single(cq) /\ Apart(rqes, khead, rq_tail)
  /\ \A c \in Rx!Area : c \in lent <=> Flies(cq, c) \/ c \in held \/ Rings(c)
  /\ \A c \in Rx!Area : /\ ~(Flies(cq, c) /\ c \in held)
                        /\ ~(Flies(cq, c) /\ Rings(c))
                        /\ ~(c \in held /\ Rings(c))

RxInv == RxTypes /\ (~ended => Places)

(* The kernel lends a chunk and completes. *)
LEMMA ReceiveStep ==
  ASSUME RxInv, NEW c \in Rx!Area, Rx!Receive(c)
  PROVE  RxInv'
<1> DEFINE e == [res |-> "data", chunk |-> c]
<1>1. e \in Entry /\ e.res = "data" /\ e.chunk = c
  BY DEF Entry
<1>2. /\ c \notin lent /\ lent' = lent \cup {c} /\ cq' = Append(cq, e)
      /\ ended' = ended /\ held' = held /\ empty' = empty
      /\ rqes' = rqes /\ rq_tail' = rq_tail /\ khead' = khead
  BY Zenon DEF Rx!Receive, Rx!ring
<1> HIDE DEF e
<1>3. cq \in Seq(Entry)
  BY DEF RxInv, RxTypes
<1>4. /\ cq' \in Seq(Entry)
      /\ \A d : Flies(cq', d) <=> Flies(cq, d) \/ d = c
      /\ Single(cq) /\ ~Flies(cq, c) => Single(cq')
      /\ Goes(cq) => Goes(cq')
  <2>1. "data" # "eof"
    OBVIOUS
  <2> QED
    BY <1>1, <1>2, <1>3, <2>1, Comes, Zenon
<1>5. RxTypes'
  <2>1. lent' \in SUBSET Rx!Area
    BY <1>2, Zenon DEF RxInv, RxTypes
  <2> QED
    BY <1>2, <1>4, <2>1, Zenon DEF RxInv, RxTypes
<1>6. ASSUME ~ended' PROVE Places'
  <2>1. Places
    BY <1>2, <1>6, Zenon DEF RxInv
  <2>2. ~Flies(cq, c) /\ c \notin held /\ ~Rings(c)
    BY <1>2, <2>1, Zenon DEF Places
  <2>3. /\ empty' = 0 /\ Goes(cq') /\ Single(cq') /\ Apart(rqes', khead', rq_tail')
    BY <1>2, <1>4, <2>1, <2>2, Zenon DEF Places
  <2>4. \A d : Rings(d)' <=> Rings(d)
    BY <1>2, Zenon DEF Rings
  <2>5. \A d \in Rx!Area : d \in lent' <=> Flies(cq', d) \/ d \in held' \/ Rings(d)'
    BY <1>2, <1>4, <2>1, <2>4, Zenon DEF Places
  <2>6. \A d \in Rx!Area : /\ ~(Flies(cq', d) /\ d \in held')
                           /\ ~(Flies(cq', d) /\ Rings(d)')
                           /\ ~(d \in held' /\ Rings(d)')
    BY <1>2, <1>4, <2>1, <2>2, <2>4, Zenon DEF Places
  <2> QED
    BY <2>3, <2>5, <2>6, Zenon DEF Places
<1> QED
  BY <1>5, <1>6, Zenon DEF RxInv

(* The stream ends. *)
LEMMA TerminateStep ==
  ASSUME Refillable, RxInv, NEW res \in {"error", "eof"}, Rx!Terminate(res)
  PROVE  RxInv'
<1> DEFINE e == [res |-> res, chunk |-> 0]
<1>1. e \in Entry /\ e.res # "data" /\ e.res = res
  BY DEF Entry, Rx!Area, Refillable
<1>2. /\ cq' = Append(cq, e) /\ ended' = (ended \/ res = "eof")
      /\ lent' = lent /\ held' = held /\ empty' = empty
      /\ rqes' = rqes /\ rq_tail' = rq_tail /\ khead' = khead
  BY Zenon DEF Rx!Terminate, Rx!ring
<1> HIDE DEF e
<1>3. cq \in Seq(Entry)
  BY DEF RxInv, RxTypes
<1>4. /\ cq' \in Seq(Entry)
      /\ \A d : Flies(cq', d) <=> Flies(cq, d)
      /\ Single(cq) => Single(cq')
      /\ Goes(cq) /\ res # "eof" => Goes(cq')
  BY <1>1, <1>2, <1>3, Comes, Zenon
<1>5. RxTypes'
  <2>1. ended' \in BOOLEAN
    BY <1>2
  <2> QED
    BY <1>2, <1>4, <2>1, Zenon DEF RxInv, RxTypes
<1>6. ASSUME ~ended' PROVE Places'
  <2>1. Places /\ res # "eof"
    BY <1>2, <1>6, Zenon DEF RxInv
  <2>2. \A d : Rings(d)' <=> Rings(d)
    BY <1>2, Zenon DEF Rings
  <2> QED
    BY <1>2, <1>4, <2>1, <2>2, Zenon DEF Places
<1> QED
  BY <1>5, <1>6, Zenon DEF RxInv

(* The kernel takes a chunk from the refill ring. *)
LEMMA RefillStep ==
  ASSUME Refillable, RxInv, Rx!Refill
  PROVE  RxInv'
<1> DEFINE x == rqes[khead % Entries]
<1>1. /\ khead # rq_tail /\ lent' = lent \ {x} /\ khead' = (khead + 1) % Limit
      /\ ended' = ended /\ cq' = cq /\ held' = held /\ empty' = empty
      /\ rqes' = rqes /\ rq_tail' = rq_tail
  BY Zenon DEF Rx!Refill, Limit
<1>2. khead \in 0..Limit - 1 /\ rq_tail \in 0..Limit - 1 /\ Dist(khead, rq_tail) < Entries
  BY DEF RxInv, RxTypes
<1>3. /\ khead' \in 0..Limit - 1 /\ Dist(khead', rq_tail) < Entries
      /\ Rings(x)
      /\ Apart(rqes, khead, rq_tail) =>
           /\ Apart(rqes', khead', rq_tail')
           /\ \A c : Rings(c)' <=> Rings(c) /\ c # x
  BY <1>1, <1>2, RingDequeue, Zenon DEF Rings
<1> HIDE DEF x
<1>4. RxTypes'
  BY <1>1, <1>3, Zenon DEF RxInv, RxTypes
<1>5. ASSUME ~ended' PROVE Places'
  <2>1. Places
    BY <1>1, <1>5, Zenon DEF RxInv
  <2>2. Apart(rqes', khead', rq_tail') /\ \A c : Rings(c)' <=> Rings(c) /\ c # x
    BY <1>3, <2>1, Zenon DEF Places
  <2>3. \A d \in Rx!Area : d \in lent' <=> Flies(cq', d) \/ d \in held' \/ Rings(d)'
    BY <1>1, <1>3, <2>1, <2>2, Zenon DEF Places
  <2>4. \A d \in Rx!Area : /\ ~(Flies(cq', d) /\ d \in held')
                           /\ ~(Flies(cq', d) /\ Rings(d)')
                           /\ ~(d \in held' /\ Rings(d)')
    BY <1>1, <2>1, <2>2, Zenon DEF Places
  <2> QED
    BY <1>1, <2>1, <2>2, <2>3, <2>4, Zenon DEF Places
<1> QED
  BY <1>4, <1>5, Zenon DEF RxInv

(* handle_finish gives the chunk of a completion to the user. *)
LEMMA FinishStep ==
  ASSUME RxInv, Rx!HandleFinish
  PROVE  RxInv'
<1> DEFINE e == Head(cq)
           gives == e.res # "error" /\ e.res # "data"
<1>1. /\ cq # <<>> /\ cq' = Tail(cq)
      /\ held' = (IF e.res = "data" THEN held \cup {e.chunk} ELSE held)
      /\ empty' = (IF gives THEN empty + 1 ELSE empty)
      /\ ended' = ended /\ lent' = lent
      /\ rqes' = rqes /\ rq_tail' = rq_tail /\ khead' = khead
  BY Zenon DEF Rx!HandleFinish, Rx!HandlesOut, Rx!ring
<1>2. cq \in Seq(Entry)
  BY DEF RxInv, RxTypes
<1>3. /\ cq' \in Seq(Entry) /\ e \in Entry
      /\ e.res = "data" => Flies(cq, e.chunk)
      /\ Single(cq) => /\ Single(cq')
                       /\ \A d : Flies(cq', d)
                            <=> Flies(cq, d) /\ ~(e.res = "data" /\ e.chunk = d)
      /\ Goes(cq) => Goes(cq') /\ e.res # "eof"
  BY <1>1, <1>2, Taken, Zenon
<1> HIDE DEF e
<1>4. e.res \in {"data", "error", "eof"} /\ e.chunk \in Rx!Area
  BY <1>3 DEF Entry
<1>5. RxTypes'
  <2>1. empty' \in Nat
    BY <1>1 DEF RxInv, RxTypes
  <2>2. held' \in SUBSET Rx!Area
    BY <1>1, <1>4, Zenon DEF RxInv, RxTypes
  <2> QED
    BY <1>1, <1>3, <2>1, <2>2, Zenon DEF RxInv, RxTypes
<1>6. ASSUME ~ended' PROVE Places'
  <2>1. Places
    BY <1>1, <1>6, Zenon DEF RxInv
  <2>2. /\ Single(cq') /\ Goes(cq') /\ e.res # "eof"
        /\ \A d : Flies(cq', d) <=> Flies(cq, d) /\ ~(e.res = "data" /\ e.chunk = d)
    BY <1>3, <2>1, Zenon DEF Places
  <2>3. empty' = 0 /\ Apart(rqes', khead', rq_tail')
    BY <1>1, <1>4, <2>1, <2>2, Zenon DEF Places
  <2>4. \A d : Rings(d)' <=> Rings(d)
    BY <1>1, Zenon DEF Rings
  <2>5. \A d : d \in held' <=> d \in held \/ (e.res = "data" /\ e.chunk = d)
    BY <1>1, Zenon
  <2>6. \A d \in Rx!Area : d \in lent' <=> Flies(cq', d) \/ d \in held' \/ Rings(d)'
    BY <1>1, <1>3, <2>1, <2>2, <2>4, <2>5, Zenon DEF Places
  <2>7. \A d \in Rx!Area : /\ ~(Flies(cq', d) /\ d \in held')
                           /\ ~(Flies(cq', d) /\ Rings(d)')
                           /\ ~(d \in held' /\ Rings(d)')
    BY <1>3, <2>1, <2>2, <2>4, <2>5, Zenon DEF Places
  <2> QED
    BY <2>2, <2>3, <2>6, <2>7, Zenon DEF Places
<1> QED
  BY <1>5, <1>6, Zenon DEF RxInv

(* What add_buffer_back does to the ring and to the chunks that are lent. *)
LEMMA BackEffect ==
  ASSUME Refillable, RxTypes, NEW x \in Rx!Area, Rx!AddBufferBack(x)
  PROVE  /\ rqes' \in [0..Entries - 1 -> Rx!Area]
         /\ rq_tail' \in 0..Limit - 1 /\ khead' \in 0..Limit - 1
         /\ Dist(khead', rq_tail') < Entries
         /\ lent' \in SUBSET Rx!Area
         /\ \/ /\ lent' = lent
               /\ \A c : Rings(c)' <=> Rings(c) \/ c = x
               /\ Apart(rqes, khead, rq_tail) /\ ~Rings(x)
                    => Apart(rqes', khead', rq_tail')
            \/ /\ \A c : c \in lent' <=> c \in lent /\ ~Rings(c) /\ c # x
               /\ \A c : ~Rings(c)'
               /\ Apart(rqes', khead', rq_tail')
<1> DEFINE u == (rq_tail + 1) % Limit
           r == [rqes EXCEPT ![rq_tail % Entries] = x]
           all == {r[(khead + j) % Entries] : j \in 0..Dist(khead, u) - 1}
<1>1. /\ rqes' = r /\ rq_tail' = u
      /\ IF Rx!Flushes(u) THEN khead' = u /\ lent' = lent \ all
                          ELSE khead' = khead /\ lent' = lent
  BY Zenon DEF Rx!AddBufferBack, Rx!NrQueued, Dist, Limit
<1>2. /\ rqes \in [0..Entries - 1 -> Rx!Area] /\ rq_tail \in 0..Limit - 1
      /\ khead \in 0..Limit - 1 /\ Dist(khead, rq_tail) < Entries /\ lent \in SUBSET Rx!Area
  BY DEF RxTypes
<1>3. /\ r \in [0..Entries - 1 -> Rx!Area] /\ u \in 0..Limit - 1
      /\ \A c : Inside(r, khead, u, c) <=> Rings(c) \/ c = x
      /\ Apart(rqes, khead, rq_tail) /\ ~Rings(x) => Apart(r, khead, u)
  BY <1>2, RingEnqueue, Zenon DEF Rings
<1>4. \A c : c \in all <=> Inside(r, khead, u, c)
  BY Zenon DEF Inside, Cell
<1>5. Dist(khead, u) \in Nat /\ Entries \in Nat \ {0}
  <2>1. Dist(khead, u) \in 0..Limit - 1
    BY <1>2, <1>3, Distances, Zenon
  <2> QED
    BY <2>1 DEF Refillable
<1> HIDE DEF u, r, all
<1>6. CASE Rx!Flushes(u)
  <2>1. khead' = u /\ lent' = lent \ all
    BY <1>1, <1>6, Zenon
  <2>2. Dist(u, u) = 0 /\ Apart(r, u, u) /\ \A c : ~Inside(r, u, u, c)
    BY <1>3, RingEmpty, Zenon
  <2>3. \A c : c \in lent' <=> c \in lent /\ ~Rings(c) /\ c # x
    BY <1>3, <1>4, <2>1, Zenon
  <2>4. Dist(khead', rq_tail') < Entries
    BY <1>1, <1>5, <2>1, <2>2
  <2>5. \A c : ~Rings(c)'
    BY <1>1, <2>1, <2>2, Zenon DEF Rings
  <2>6. lent' \in SUBSET Rx!Area
    BY <1>2, <2>1, Zenon
  <2> QED
    BY <1>1, <1>3, <2>1, <2>2, <2>3, <2>4, <2>5, <2>6, Zenon
<1>7. CASE ~Rx!Flushes(u)
  <2>1. khead' = khead /\ lent' = lent
    BY <1>1, <1>7, Zenon
  <2>2. ~(Dist(khead, u) >= Entries)
    BY <1>7, Zenon DEF Rx!Flushes, Rx!NrQueued, Dist, Limit
  <2>3. Dist(khead', rq_tail') < Entries
    <3>1. Dist(khead, u) < Entries
      BY <1>5, <2>2
    <3> QED
      BY <1>1, <2>1, <3>1, Zenon
  <2>4. \A c : Rings(c)' <=> Rings(c) \/ c = x
    BY <1>1, <1>3, <2>1, Zenon DEF Rings
  <2> QED
    BY <1>1, <1>2, <1>3, <2>1, <2>3, <2>4, Zenon
<1> QED
  BY <1>6, <1>7, Zenon

(* The user gives a chunk back: rq_enqueue_ and the new tail. *)
LEMMA ResetStep ==
  ASSUME Refillable, RxInv, NEW x \in Rx!Area, Rx!Reset(x)
  PROVE  RxInv'
<1>1. /\ x \in held /\ held' = held \ {x} /\ Rx!AddBufferBack(x)
      /\ ended' = ended /\ cq' = cq /\ empty' = empty
  BY Zenon DEF Rx!Reset
<1>2. RxTypes
  BY DEF RxInv
<1>3. /\ rqes' \in [0..Entries - 1 -> Rx!Area]
      /\ rq_tail' \in 0..Limit - 1 /\ khead' \in 0..Limit - 1
      /\ Dist(khead', rq_tail') < Entries
      /\ lent' \in SUBSET Rx!Area
      /\ \/ /\ lent' = lent
            /\ \A c : Rings(c)' <=> Rings(c) \/ c = x
            /\ Apart(rqes, khead, rq_tail) /\ ~Rings(x)
                 => Apart(rqes', khead', rq_tail')
         \/ /\ \A c : c \in lent' <=> c \in lent /\ ~Rings(c) /\ c # x
            /\ \A c : ~Rings(c)'
            /\ Apart(rqes', khead', rq_tail')
  BY <1>1, <1>2, BackEffect, Zenon
<1>4. RxTypes'
  <2>1. held' \in SUBSET Rx!Area
    BY <1>1, <1>2, Zenon DEF RxTypes
  <2> QED
    BY <1>1, <1>2, <1>3, <2>1, Zenon DEF RxTypes
<1>5. ASSUME ~ended' PROVE Places'
  <2>1. Places
    BY <1>1, <1>5, Zenon DEF RxInv
  <2>2. ~Rings(x) /\ ~Flies(cq, x)
    BY <1>1, <2>1, Zenon DEF Places
  <2>3. empty' = 0 /\ Goes(cq') /\ Single(cq') /\ Apart(rqes', khead', rq_tail')
    BY <1>1, <1>3, <2>1, <2>2, Zenon DEF Places
  <2>4. \A d : d \in held' <=> d \in held /\ d # x
    BY <1>1, Zenon
  <2>5. \A d \in Rx!Area : d \in lent' <=> Flies(cq', d) \/ d \in held' \/ Rings(d)'
    <3>1. CASE lent' = lent /\ \A c : Rings(c)' <=> Rings(c) \/ c = x
      BY <1>1, <2>1, <2>4, <3>1, Zenon DEF Places
    <3>2. CASE /\ \A c : c \in lent' <=> c \in lent /\ ~Rings(c) /\ c # x
               /\ \A c : ~Rings(c)'
      BY <1>1, <2>1, <2>2, <2>4, <3>2, Zenon DEF Places
    <3> QED
      BY <1>3, <3>1, <3>2, Zenon
  <2>6. \A d \in Rx!Area : /\ ~(Flies(cq', d) /\ d \in held')
                           /\ ~(Flies(cq', d) /\ Rings(d)')
                           /\ ~(d \in held' /\ Rings(d)')
    <3>1. \A c : Rings(c)' => Rings(c) \/ c = x
      BY <1>3, Zenon
    <3> QED
      BY <1>1, <2>1, <2>2, <2>4, <3>1, Zenon DEF Places
  <2> QED
    BY <2>3, <2>5, <2>6, Zenon DEF Places
<1> QED
  BY <1>4, <1>5, Zenon DEF RxInv

(* The user destroys a buffer that has no chunk. *)
LEMMA ResetEmptyStep ==
  ASSUME Refillable, RxInv, Rx!ResetEmpty
  PROVE  RxInv'
<1>1. /\ empty > 0 /\ empty' = empty - 1 /\ Rx!AddBufferBack(0)
      /\ ended' = ended /\ cq' = cq /\ held' = held
  BY Zenon DEF Rx!ResetEmpty
<1>2. RxTypes
  BY DEF RxInv
<1>3. 0 \in Rx!Area
  BY DEF Rx!Area, Refillable
<1>4. /\ rqes' \in [0..Entries - 1 -> Rx!Area]
      /\ rq_tail' \in 0..Limit - 1 /\ khead' \in 0..Limit - 1
      /\ Dist(khead', rq_tail') < Entries
      /\ lent' \in SUBSET Rx!Area
  BY <1>1, <1>2, <1>3, BackEffect, Zenon
<1>5. RxTypes'
  <2>1. empty' \in Nat
    BY <1>1, <1>2 DEF RxTypes
  <2> QED
    BY <1>1, <1>2, <1>4, <2>1, Zenon DEF RxTypes
<1>6. ended'
  <2>1. empty # 0
    BY <1>1
  <2> QED
    BY <1>1, <2>1, Zenon DEF RxInv, Places
<1> QED
  BY <1>5, <1>6, Zenon DEF RxInv

(* At first nothing is lent. *)
LEMMA RxInit ==
  ASSUME Refillable, Rx!Init
  PROVE  RxInv
<1>1. /\ ended = FALSE /\ lent = {} /\ cq = <<>> /\ held = {} /\ empty = 0
      /\ rqes = [s \in 0..Entries - 1 |-> 0] /\ rq_tail = 0 /\ khead = 0
  BY Zenon DEF Rx!Init
<1>2. 0 \in 0..Limit - 1 /\ 0 \in Rx!Area /\ Entries \in Nat \ {0}
  BY DEF Refillable, Rx!Area
<1>3. Dist(0, 0) = 0 /\ Apart(rqes, 0, 0) /\ \A c : ~Inside(rqes, 0, 0, c)
  BY <1>2, RingEmpty, Zenon
<1>4. Dist(khead, rq_tail) < Entries
  BY <1>1, <1>2, <1>3
<1>5. rqes \in [0..Entries - 1 -> Rx!Area]
  BY <1>1, <1>2
<1>6. cq \in Seq(Entry) /\ DOMAIN cq = {} /\ empty \in Nat
  BY <1>1
<1>7. RxTypes
  BY <1>1, <1>2, <1>4, <1>5, <1>6, Zenon DEF RxTypes
<1>8. Goes(cq) /\ Single(cq) /\ \A c : ~Flies(cq, c)
  BY <1>6, Zenon DEF Goes, Single, Flies
<1>9. Apart(rqes, khead, rq_tail) /\ \A c : ~Rings(c)
  BY <1>1, <1>3, Zenon DEF Rings
<1> QED
  BY <1>1, <1>7, <1>8, <1>9, Zenon DEF RxInv, Places

(* Every step of the kernel, the pool and the user keeps it. *)
LEMMA RxInductive ==
  ASSUME Refillable, RxInv, [Rx!Next]_(Rx!vars)
  PROVE  RxInv'
<1>1. CASE Rx!Next
  BY <1>1, ReceiveStep, ResetStep, TerminateStep, RefillStep, FinishStep, ResetEmptyStep, Zenon
     DEF Rx!Next
<1>2. CASE UNCHANGED Rx!vars
  <2>1. /\ ended' = ended /\ lent' = lent /\ cq' = cq /\ held' = held /\ empty' = empty
        /\ rqes' = rqes /\ rq_tail' = rq_tail /\ khead' = khead
    BY <1>2, Zenon DEF Rx!vars, Rx!ring
  <2> QED
    BY <2>1, Zenon DEF RxInv, RxTypes, Places, Rings
<1> QED
  BY <1>1, <1>2, Zenon

(* The instance of FiniteSets that ZeroCopyRx has is this one. *)
LEMMA RxSame == \A S : Rx!Cardinality(S) = Cardinality(S)
BY Zenon DEF Rx!Cardinality, Cardinality

(* The chunks lent are counted by the three places together. *)
LEMMA RxInvOnePlace ==
  ASSUME ChunkLaws, Refillable, RxInv
  PROVE  Rx!ChunkInOnePlace
<1>1. Rx!NrQueued(rq_tail, khead) = Dist(khead, rq_tail)
  BY Zenon DEF Rx!NrQueued, Dist, Limit
<1>2. Rx!TypeOK
  <2>1. {rq_tail, khead} \subseteq 0..Limit - 1
    BY Zenon DEF RxInv, RxTypes
  <2> QED
    BY <2>1, Zenon DEF RxInv, RxTypes, Rx!TypeOK, Limit
<1>3. Rx!RefillHasRoom
  BY <1>1, Zenon DEF RxInv, RxTypes, Rx!RefillHasRoom
<1>4. \A c : c \in Rx!Queued <=> Rings(c)
  BY <1>1, Zenon DEF Rx!Queued, Rings, Inside, Cell
<1>5. ASSUME NEW S, NEW c
      PROVE  Cardinality({c} \cap S) = IF c \in S THEN 1 ELSE 0
  <2>1. CASE c \in S
    <3>1. {c} \cap S = {c}
      BY <2>1, Zenon
    <3> QED
      BY <2>1, <3>1, Zenon DEF ChunkLaws
  <2>2. CASE c \notin S
    <3>1. {c} \cap S = {}
      BY <2>2, Zenon
    <3> QED
      BY <2>2, <3>1, Zenon DEF ChunkLaws
  <2> QED
    BY <2>1, <2>2, Zenon
<1>6. ASSUME ~ended, NEW c \in Rx!Area
      PROVE  Cardinality({n \in DOMAIN cq : cq[n].res = "data" /\ cq[n].chunk = c})
               + Cardinality({c} \cap held) + Cardinality({c} \cap Rx!Queued)
             = Cardinality({c} \cap lent)
  <2> DEFINE S == {n \in DOMAIN cq : cq[n].res = "data" /\ cq[n].chunk = c}
  <2>1. Places
    BY <1>6, Zenon DEF RxInv
  <2>2. Cardinality(S) = IF Flies(cq, c) THEN 1 ELSE 0
    <3>1. CASE Flies(cq, c)
      <4>1. PICK n \in DOMAIN cq : cq[n].res = "data" /\ cq[n].chunk = c
        BY <3>1, Zenon DEF Flies
      <4>2. S = {n}
        BY <2>1, <4>1 DEF Places, Single
      <4> QED
        BY <3>1, <4>2, Zenon DEF ChunkLaws
    <3>2. CASE ~Flies(cq, c)
      <4>1. S = {}
        BY <3>2, Zenon DEF Flies
      <4> QED
        BY <3>2, <4>1, Zenon DEF ChunkLaws
    <3> QED
      BY <3>1, <3>2, Zenon
  <2>3. /\ Cardinality({c} \cap held) = (IF c \in held THEN 1 ELSE 0)
        /\ Cardinality({c} \cap Rx!Queued) = (IF Rings(c) THEN 1 ELSE 0)
        /\ Cardinality({c} \cap lent) = (IF c \in lent THEN 1 ELSE 0)
    BY <1>4, <1>5, Zenon
  <2>4. /\ c \in lent <=> Flies(cq, c) \/ c \in held \/ Rings(c)
        /\ ~(Flies(cq, c) /\ c \in held) /\ ~(Flies(cq, c) /\ Rings(c))
        /\ ~(c \in held /\ Rings(c))
    BY <2>1, Zenon DEF Places
  <2> HIDE DEF S
  <2>5. Cardinality(S) + Cardinality({c} \cap held) + Cardinality({c} \cap Rx!Queued)
          = Cardinality({c} \cap lent)
    <3> DEFINE k == Cardinality(S)
               l == Cardinality({c} \cap held)
               m == Cardinality({c} \cap Rx!Queued)
               n == Cardinality({c} \cap lent)
               F == Flies(cq, c)
               H == c \in held
               R == Rings(c)
               L == c \in lent
    <3>1. /\ k = (IF F THEN 1 ELSE 0) /\ l = (IF H THEN 1 ELSE 0)
          /\ m = (IF R THEN 1 ELSE 0) /\ n = (IF L THEN 1 ELSE 0)
      BY <2>2, <2>3, Zenon
    <3>2. (L <=> F \/ H \/ R) /\ ~(F /\ H) /\ ~(F /\ R) /\ ~(H /\ R)
      BY <2>4, Zenon
    <3> HIDE DEF k, l, m, n, F, H, R, L
    <3>3. k + l + m = n
      BY <3>1, <3>2
    <3> QED
      BY <3>3, Zenon DEF k, l, m, n
  <2> QED
    BY <2>5, Zenon DEF S
<1> QED
  BY <1>2, <1>3, <1>6, RxSame, Zenon DEF Rx!ChunkInOnePlace
-----------------------------------------------------------------------------
(* examples/ublk-loop.cpp *)

CONSTANTS Queues, Tags, NoReq

VARIABLES main, dev, files, bufs, descs, tables, b_queue, loop, req, res

Block == INSTANCE BlockDevice WITH queue <- b_queue

(* co_main has not spawned the queues, *)
BeforeQueues == {"open_ctrl", "add_dev", "open_dev", "set_params", "spawn"}

(* has, and has not awaited them all, *)
Serving == {"start_dev", "signal", "stop_dev", "await"}

(* or has. *)
AfterQueues == {"close_dev", "del_dev", "close_ctrl", "end"}

(* What co_main holds at each place. *)
MainInv ==
  /\ main \in {"set_params", "spawn", "close_dev"} \cup Serving => files = {"ctrl", "dev"}
  /\ main \in BeforeQueues => \A q \in Queues : b_queue[q] = "none"
  /\ main \in Serving => bufs = TRUE
  /\ main \in AfterQueues => bufs = FALSE /\ \A q \in Queues : b_queue[q] = "ended"
  /\ main = "end" => files = {}

(* A queue that awaits its loops, and no other, has its descriptors and    *)
(* its table, and only such a queue has a loop at work.                    *)
QueueInv ==
  /\ descs \cup tables \subseteq Queues
  /\ \A q \in Queues : q \in descs <=> b_queue[q] = "await"
  /\ \A q \in Queues : q \in tables <=> b_queue[q] = "await"
  /\ \A l \in Block!Loops : loop[l] \in {"none", "ended"} \/ b_queue[l[1]] = "await"
  /\ \A l \in Block!Loops : req[l] = NoReq \/ loop[l] \in {"io", "commit"}

DeviceInv ==
  /\ main \in BeforeQueues \cup Serving \cup AfterQueues \cup {"exit"}
  /\ b_queue \in [Queues -> {"none", "begin", "await", "ended"}]
  /\ loop \in [Block!Loops -> {"none", "fetch", "io", "commit", "ended"}]
  /\ req = [l \in Block!Loops |-> req[l]]
  /\ main # "exit" => MainInv /\ QueueInv

USE DEF BeforeQueues, Serving, AfterQueues

(* A step of co_main that leaves the queues alone. *)
LEMMA MainStep ==
  ASSUME DeviceInv, main # "exit", UNCHANGED <<b_queue, descs, tables, loop, req>>,
         main' \in BeforeQueues \cup Serving \cup AfterQueues, MainInv'
  PROVE  DeviceInv'
BY Zenon DEF DeviceInv, QueueInv

(* A step of a queue or of a loop. *)
LEMMA QueueStep ==
  ASSUME DeviceInv, main # "exit", UNCHANGED <<main, files, bufs>>,
         b_queue' \in [Queues -> {"none", "begin", "await", "ended"}],
         loop' \in [Block!Loops -> {"none", "fetch", "io", "commit", "ended"}],
         req' = [l \in Block!Loops |-> req'[l]],
         main \in BeforeQueues \/ main \in AfterQueues => UNCHANGED b_queue,
         QueueInv'
  PROVE  DeviceInv'
BY Zenon DEF DeviceInv, MainInv

(* Every step keeps the invariant. *)
LEMMA DeviceInductive == DeviceInv /\ [Block!Next]_(Block!vars) => DeviceInv'
<1> SUFFICES ASSUME DeviceInv, [Block!Next]_(Block!vars) PROVE DeviceInv'
  OBVIOUS
<1>1. CASE UNCHANGED Block!vars
  BY <1>1, Zenon DEF DeviceInv, MainInv, QueueInv, Block!vars, Block!memory, Block!loops
<1>2. CASE Block!Next
  <2>0. main # "exit" /\ DeviceInv
    BY <1>2, Zenon DEF Block!Next
  <2>1. CASE Block!Exit
    BY <2>1, Zenon DEF Block!Exit, DeviceInv, Block!memory, Block!loops
  <2>2. CASE Block!SetupDevice
    BY <2>0, <2>1, <2>2, MainStep, Zenon
       DEF Block!SetupDevice, Block!Go, DeviceInv, MainInv, Block!memory, Block!loops
  <2>3. CASE Block!SpawnQueues
    <3>1. CASE ~Block!Exit
      <4>1. \A l \in Block!Loops : l[1] \in Queues
        BY Zenon DEF Block!Loops
      <4>2. \A q \in Queues : b_queue[q] = "none" /\ b_queue'[q] = "begin"
        BY <2>0, <2>3, <3>1, Zenon DEF Block!SpawnQueues, DeviceInv, MainInv
      <4>3. QueueInv'
        BY <2>0, <2>3, <3>1, <4>1, <4>2, Zenon DEF Block!SpawnQueues,
              DeviceInv, QueueInv, Block!loops
      <4> QED
        BY <2>0, <2>3, <3>1, <4>3, Zenon DEF Block!SpawnQueues, DeviceInv, MainInv, Block!loops
    <3> QED
      BY <2>1, <3>1, Zenon
  <2>4. CASE Block!StartDev
    BY <2>0, <2>1, <2>4, MainStep, Zenon
       DEF Block!StartDev, Block!Go, DeviceInv, MainInv, Block!memory, Block!loops
  <2>5. CASE Block!Signal \/ Block!CloseDev \/ Block!DelDev \/ Block!Finish
    BY <2>0, <2>5, MainStep, Zenon
       DEF Block!Signal, Block!CloseDev, Block!DelDev, Block!Finish, Block!Go, DeviceInv,
           MainInv, Block!memory, Block!loops
  <2>6. CASE Block!StopDev
    BY <2>0, <2>1, <2>6, MainStep, Zenon
       DEF Block!StopDev, Block!Go, DeviceInv, MainInv, Block!memory, Block!loops
  <2>7. CASE Block!Unmap
    BY <2>0, <2>7, MainStep, Zenon DEF Block!Unmap, Block!Go,
          DeviceInv, MainInv, Block!memory, Block!loops
  <2>8. ASSUME NEW q \in Queues, Block!IoQueue(q) PROVE DeviceInv'
    <3>1. CASE ~Block!Exit
      <4>1. QueueInv'
        BY <2>0, <2>8, <3>1 DEF Block!IoQueue, DeviceInv, QueueInv, Block!Loops
      <4> QED
        BY <2>0, <2>8, <3>1, <4>1, QueueStep, Zenon DEF Block!IoQueue, DeviceInv, MainInv
    <3> QED
      BY <2>1, <3>1, Zenon
  <2>9. ASSUME NEW q \in Queues, Block!IoQueueEnd(q) PROVE DeviceInv'
    <3>1. \A l \in Block!Loops : l[1] = q => loop[l] = "ended"
      BY <2>9 DEF Block!IoQueueEnd, Block!Loops
    <3>2. QueueInv'
      BY <2>0, <2>9, <3>1 DEF Block!IoQueueEnd, DeviceInv, QueueInv, Block!Loops, Block!loops
    <3> QED
      BY <2>0, <2>9, <3>2, QueueStep, Zenon DEF Block!IoQueueEnd, DeviceInv, MainInv, Block!loops
  <2>10. ASSUME NEW l \in Block!Loops, Block!LoopStep(l) PROVE DeviceInv'
    <3>1. QueueInv'
      BY <2>0, <2>10
         DEF Block!LoopStep, Block!Io, Block!Commit, Block!Abort, DeviceInv, QueueInv, Block!memory
    <3> QED
      BY <2>0, <2>10, <3>1, QueueStep, Zenon
         DEF Block!LoopStep, Block!Io, Block!Commit, Block!Abort, DeviceInv, Block!memory
  <2>11. ASSUME NEW l \in Block!Loops, Block!LoopFails(l) PROVE DeviceInv'
    BY <2>1, <2>11, Zenon DEF Block!LoopFails
  <2>12. ASSUME NEW l \in Block!Loops, NEW op \in {"io", "unknown"}, Block!Request(l, op)
         PROVE  DeviceInv'
    <3>1. QueueInv'
      BY <2>0, <2>12, Zenon DEF Block!Request, DeviceInv, QueueInv, Block!memory
    <3> QED
      BY <2>0, <2>12, <3>1, QueueStep, Zenon DEF Block!Request, DeviceInv, Block!memory
  <2> QED
    BY <1>2, <2>2, <2>3, <2>4, <2>5, <2>6, <2>7, <2>8, <2>9, <2>10, <2>11, <2>12, Zenon
       DEF Block!Next, Block!Main
<1> QED
  BY <1>1, <1>2

(* While a tag has a command at the kernel or I/O under way, its buffer    *)
(* and descriptors are mapped and the device is open and registered; no    *)
(* request is dropped; a normal end has released everything.               *)
THEOREM Mapped == Block!Spec => []Block!InUseIsMapped
<1>1. Block!Init => DeviceInv
  BY Zenon DEF Block!Init, DeviceInv, MainInv, QueueInv
<1>2. DeviceInv => Block!InUseIsMapped
  <2> SUFFICES ASSUME DeviceInv, main # "exit" PROVE Block!InUseIsMapped
    BY Zenon DEF Block!InUseIsMapped
  <2>1. ASSUME NEW l \in Block!Loops, loop[l] \notin {"none", "ended"}
        PROVE  bufs /\ l[1] \in descs \cap tables /\ "dev" \in files
    <3>1. b_queue[l[1]] = "await" /\ l[1] \in Queues
      BY <2>1, Zenon DEF DeviceInv, QueueInv, Block!Loops
    <3>2. main \in Serving
      BY <3>1, Zenon DEF DeviceInv, MainInv
    <3> QED
      BY <3>1, <3>2, Zenon DEF DeviceInv, MainInv, QueueInv
  <2>2. main = "end" => ~bufs /\ descs \cup tables \cup files = {}
    BY Zenon DEF DeviceInv, MainInv, QueueInv
  <2> QED
    BY <2>1, <2>2, Zenon DEF Block!InUseIsMapped, DeviceInv, QueueInv
<1> QED
  BY <1>1, <1>2, DeviceInductive, PTL DEF Block!Spec

HIDE DEF BeforeQueues, Serving, AfterQueues
-----------------------------------------------------------------------------
INSTANCE FiniteSetTheorems

(* The facts about cardinality are those of FiniteSetTheorems. *)
LEMMA CardinalityHolds == CardinalityLaws
<1>1. Cardinality({}) = 0 /\ \A S : IsFiniteSet(S) /\ Cardinality(S) = 0 => S = {}
  BY FS_EmptySet, Zenon
<1>2. \A S : IsFiniteSet(S) => Cardinality(S) \in Nat
  BY FS_CardinalityType, Zenon
<1>3. \A S, x : IsFiniteSet(S) /\ x \notin S => Cardinality(S \cup {x}) = Cardinality(S) + 1
  BY FS_AddElement, Zenon
<1>4. \A S, x : IsFiniteSet(S) /\ x \in S => Cardinality(S \ {x}) = Cardinality(S) - 1
  BY FS_RemoveElement, Zenon
<1>5. \A S, T : IsFiniteSet(T) /\ S \subseteq T => IsFiniteSet(S)
  BY FS_Subset, Zenon
<1> QED
  BY <1>1, <1>2, <1>3, <1>4, <1>5, Zenon DEF CardinalityLaws

(* queue_mutex of queue-kernel-futex.cpp excludes: no two threads or       *)
(* coroutines are between its acquire and its release at the queue.        *)
THEOREM MutexExcludes ==
  ASSUME Finitely PROVE Sem!Spec => []OneInQueue
<1>0. Countable
  BY CardinalityHolds, Zenon DEF Countable
<1>1. SemInv => OneInQueue
  <2> SUFFICES ASSUME SemInv, NEW p \in Sem!Procs, NEW q \in Sem!Procs,
                      stage[p] = 3, stage[q] = 3, p # q
               PROVE  FALSE
    BY DEF OneInQueue
  <2>1. p \in HoldMutex /\ q \in HoldMutex \ {p}
    BY DEF HoldMutex
  <2>2. Cardinality(HoldMutex \ {p}) = Cardinality(HoldMutex) - 1
    BY <1>0, <2>1, Counting, Holders, Zenon
  <2>3. Cardinality(HoldMutex \ {p}) > 0
    <3>1. HoldMutex \ {p} \in SUBSET Sem!Procs
      BY Holders
    <3> QED
      BY <1>0, <2>1, <3>1, Counting, Zenon
  <2>4. sem["mutex"].value + Cardinality(HoldMutex) = 1
    BY DEF SemInv, Tokens
  <2>5. sem["mutex"].value \in Nat /\ Cardinality(HoldMutex) \in Nat
    BY <1>0, Numbers, Zenon
  <2> QED
    BY <2>2, <2>3, <2>4, <2>5
<1>2. Sem!Init => SemInv
  BY <1>0, SemInitially, Zenon
<1>3. SemInv /\ [Sem!Next]_(Sem!vars) => SemInv'
  BY <1>0, SemInductive, Zenon
<1> QED
  BY <1>1, <1>2, <1>3, PTL DEF Sem!Spec

(* The producing threads and the consuming coroutines of                   *)
(* queue-kernel-futex.cpp implement a bounded first-in first-out queue,    *)
(* however many there are: push finds room and pop an item.                *)
THEOREM SemaphoresAreBounded ==
  ASSUME Finitely PROVE Sem!Spec => Sem!SemaphoresBound
<1>0. Countable
  BY CardinalityHolds, Zenon DEF Countable
<1>1. Sem!Init => Sem!Bounded!Init
  BY DEF Sem!Init, Sem!Bounded!Init
<1>2. SemInv /\ [Sem!Next]_(Sem!vars) => [Sem!Bounded!Next]_<<s_queue, s_out>>
  <2> SUFFICES ASSUME SemInv, [Sem!Next]_(Sem!vars), <<s_queue, s_out>>' # <<s_queue, s_out>>
               PROVE  Sem!Bounded!Next
    OBVIOUS
  <2>1. PICK p \in Sem!Procs : Sem!Access(p)
    BY DEF Sem!Next, Sem!Step, Sem!vars, Sem!Load, Sem!Exchange, Sem!Wait, Sem!Resume,
           Sem!Add, Sem!Wake
  <2>2. stage[p] = 3
    BY <2>1 DEF Sem!Access
  <2>3. CASE p \in Producers
    <3>1. Len(s_queue) < Capacity
      BY <1>0, <2>2, <2>3, RoomAndItem, Zenon
    <3>2. <<p, s_done[p]>> \in Producers \X (0..Produce - 1)
      BY <1>0, <2>2, <2>3, HasItem, Zenon
    <3> QED
      BY <2>1, <2>3, <3>1, <3>2 DEF Sem!Access, Sem!Bounded!Next, Sem!Bounded!Put
  <2>4. CASE p \notin Producers
    <3>1. s_queue # <<>>
      BY <1>0, <2>2, <2>4, RoomAndItem, Zenon
    <3> QED
      BY <2>1, <2>4, <3>1 DEF Sem!Access, Sem!Bounded!Next, Sem!Bounded!Take
  <2> QED
    BY <2>3, <2>4
<1>3. Sem!Init => SemInv
  BY <1>0, SemInitially, Zenon
<1>4. SemInv /\ [Sem!Next]_(Sem!vars) => SemInv'
  BY <1>0, SemInductive, Zenon
<1> QED
  BY <1>1, <1>2, <1>3, <1>4, PTL DEF Sem!Spec, Sem!SemaphoresBound, Sem!Bounded!Spec

(* So are those about the chunks. *)
LEMMA ChunkLawsHold == ChunkLaws
<1>1. IsFiniteSet({}) /\ Cardinality({}) = 0
  BY FS_EmptySet, Zenon
<1>2. \A S : IsFiniteSet(S) => Cardinality(S) \in Nat
  BY FS_CardinalityType, Zenon
<1>3. \A S, x : IsFiniteSet(S) /\ x \notin S =>
        IsFiniteSet(S \cup {x}) /\ Cardinality(S \cup {x}) = Cardinality(S) + 1
  BY FS_AddElement, Zenon
<1>4. \A S, x : IsFiniteSet(S) /\ x \in S =>
        IsFiniteSet(S \ {x}) /\ Cardinality(S \ {x}) = Cardinality(S) - 1
  BY FS_RemoveElement, Zenon
<1>5. \A x : Cardinality({x}) = 1
  BY FS_Singleton, Zenon
<1> QED
  BY <1>1, <1>2, <1>3, <1>4, <1>5, Zenon DEF ChunkLaws

(* Until a stream has ended, a chunk the kernel has lent to a              *)
(* ZeroCopyRxBufferPool is in one place and comes back once, for any       *)
(* number of chunks and any refill ring smaller than its indices count.    *)
THEOREM ChunksInOnePlace ==
  ASSUME Refillable PROVE Rx!Spec => []Rx!ChunkInOnePlace
<1>1. Rx!Init => RxInv
  BY RxInit, Zenon
<1>2. RxInv /\ [Rx!Next]_(Rx!vars) => RxInv'
  BY RxInductive, Zenon
<1>3. RxInv => Rx!ChunkInOnePlace
  BY ChunkLawsHold, RxInvOnePlace, Zenon
<1> QED
  BY <1>1, <1>2, <1>3, PTL DEF Rx!Spec
=============================================================================
