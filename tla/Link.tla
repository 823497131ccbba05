-------------------------------- MODULE Link ---------------------------------
(***************************************************************************)
(* Linked operations: LinkOperationState::start (detail/op_states.hpp) on  *)
(* the submission queue of detail::Ring (detail/ring.hpp).                 *)
(*                                                                         *)
(* Coroutines of one runtime each await a link or hard_link of some        *)
(* operations; a link of one stands for an operation awaited by itself.    *)
(* start() does not suspend, so the entries of one link follow each other  *)
(* in the queue.  What io_uring makes of the link flag is external: the    *)
(* entries of one submission form chains, each ending with an entry        *)
(* without the flag or with the submission, and a chain is executed in     *)
(* order.                                                                  *)
(***************************************************************************)
EXTENDS Integers, Sequences, FiniteSets

CONSTANTS
  Coros,        \* coroutines
  Nobody,       \* not a coroutine
  Length,       \* per coroutine: how many operations it links
  Hard,         \* coroutines that use hard_link
  Rejectable,   \* operations <<coroutine, number>> whose prep_func may fail
  Entries,      \* size of the submission queue
  SubmitBatch   \* submit_batch_

VARIABLES
  cur,      \* the coroutine that is in start()
  at,       \* per coroutine: idle, reserve, starting, waiting
  next,     \* the operation start() has come to
  sq,       \* submission queue
  count,    \* maybe_submit_count_
  kernel,   \* chains under execution
  result    \* per coroutine and operation: none, ok, error, ECANCELED, EINVAL

vars == <<cur, at, next, sq, count, kernel, result>>

Init ==
  /\ cur = Nobody
  /\ at = [c \in Coros |-> "idle"]
  /\ next = [c \in Coros |-> 1]
  /\ sq = <<>>
  /\ count = 0
  /\ kernel = {}
  /\ result = [c \in Coros |-> [i \in 1..Length[c] |-> "none"]]
-----------------------------------------------------------------------------
(* Ring.                                                                   *)

(* The chains io_uring makes of the entries q of one submission. *)
Chains(q) ==
  LET Ends(b) == b = 0 \/ b = Len(q) \/ ~q[b].link
  IN  {SubSeq(q, ab[1], ab[2]) :
         ab \in {x \in (DOMAIN q) \X (DOMAIN q) :
                   /\ x[1] <= x[2]
                   /\ Ends(x[1] - 1) /\ Ends(x[2])
                   /\ \A b \in x[1]..x[2] - 1 : ~Ends(b)}}

(* submit() of queue q. *)
Submit(q) ==
  /\ kernel' = kernel \cup Chains(q)
  /\ sq' = <<>>
  /\ count' = 0

(* io_uring_sq_space_left *)
SpaceLeft == Entries - Len(sq)

(* Mutant: the test is for a free entry, not for n. *)
EnoughForOne(c) == SpaceLeft >= 1

(* reserve_space: space_left >= n *)
Enough(c) == SpaceLeft >= Length[c]

(* Mutant: reserve_space waits without submitting. *)
ReserveIdle(c) ==
  /\ at[c] = "reserve"
  /\ Enough(c)
  /\ at' = [at EXCEPT ![c] = "starting"]
  /\ UNCHANGED <<cur, next, sq, count, kernel, result>>

(* One turn of the loop of reserve_space(n). *)
ReserveSpace(c) ==
  /\ at[c] = "reserve"
  /\ IF Enough(c)
       THEN at' = [at EXCEPT ![c] = "starting"] /\ UNCHANGED <<sq, count, kernel>>
       ELSE Submit(sq) /\ UNCHANGED at
  /\ UNCHANGED <<cur, next, result>>

(* io_uring_get_sqe returns nullptr. *)
SqFull == Len(sq) = Entries

(* get_sqe_, which submits a full queue, the entry e, and maybe_submit.    *)
(* Both submissions cannot happen in one call unless the second one finds  *)
(* only e in the queue.                                                    *)
GetSqe(e) ==
  LET q    == IF SqFull THEN <<e>> ELSE Append(sq, e)
      n    == IF SqFull THEN 1 ELSE count + 1
      done == IF SqFull THEN Chains(sq) ELSE {}
  IN
  IF n >= SubmitBatch
    THEN /\ kernel' = kernel \cup done \cup Chains(q)
         /\ sq' = <<>>
         /\ count' = 0
    ELSE /\ kernel' = kernel \cup done
         /\ sq' = q
         /\ count' = n
-----------------------------------------------------------------------------
(* A coroutine awaits its link. *)
Await(c) ==
  /\ cur = Nobody
  /\ at[c] = "idle"
  /\ cur' = c
  /\ at' = [at EXCEPT ![c] = IF Length[c] = 1 THEN "starting" ELSE "reserve"]
  /\ UNCHANGED <<next, sq, count, kernel, result>>

(* start_linked_operations_ goes on to the next operation; after the last  *)
(* one the coroutine suspends.                                             *)
Advance(c) ==
  /\ next' = [next EXCEPT ![c] = @ + 1]
  /\ IF next[c] = Length[c]
       THEN at' = [at EXCEPT ![c] = "waiting"] /\ cur' = Nobody
       ELSE UNCHANGED <<at, cur>>

(* Mutant: the last operation has the flag too. *)
StartAllLinked(c) ==
  /\ at[c] = "starting"
  /\ GetSqe([op |-> <<c, next[c]>>, link |-> Length[c] > 1])
  /\ Advance(c)
  /\ UNCHANGED result

(* start(flags | Flags) of an operation, start(flags) of the last one. *)
Start(c) ==
  /\ at[c] = "starting"
  /\ GetSqe([op |-> <<c, next[c]>>, link |-> next[c] < Length[c]])
  /\ Advance(c)
  /\ UNCHANGED result

(* prep_func_ returns nullptr: fail_(-EINVAL). *)
StartRejected(c) ==
  /\ at[c] = "starting"
  /\ <<c, next[c]>> \in Rejectable
  /\ result' = [result EXCEPT ![c][next[c]] = "EINVAL"]
  /\ Advance(c)
  /\ UNCHANGED <<sq, count, kernel>>

(* flush_ring_wait_ submits when no coroutine is ready. *)
FlushRingWait ==
  /\ cur = Nobody
  /\ sq # <<>>
  /\ Submit(sq)
  /\ UNCHANGED <<cur, at, next, result>>
-----------------------------------------------------------------------------
(* io_uring: the first operation of a chain completes.  Its failure        *)
(* cancels the rest, unless the link is hard.                              *)
Set(f, op, res) == [f EXCEPT ![op[1]][op[2]] = res]

Succeed(ch) ==
  /\ result' = Set(result, Head(ch).op, "ok")
  /\ kernel' = (kernel \ {ch}) \cup (IF Len(ch) = 1 THEN {} ELSE {Tail(ch)})
  /\ UNCHANGED <<cur, at, next, sq, count>>

FailHard(ch) ==
  /\ Head(ch).op[1] \in Hard
  /\ result' = Set(result, Head(ch).op, "error")
  /\ kernel' = (kernel \ {ch}) \cup (IF Len(ch) = 1 THEN {} ELSE {Tail(ch)})
  /\ UNCHANGED <<cur, at, next, sq, count>>

FailSoft(ch) ==
  /\ Head(ch).op[1] \notin Hard
  /\ result' =
       [c \in Coros |-> [i \in 1..Length[c] |->
          IF <<c, i>> = Head(ch).op THEN "error"
          ELSE IF \E n \in DOMAIN ch : ch[n].op = <<c, i>> THEN "ECANCELED"
          ELSE result[c][i]]]
  /\ kernel' = kernel \ {ch}
  /\ UNCHANGED <<cur, at, next, sq, count>>
-----------------------------------------------------------------------------
Thread ==
  FlushRingWait \/ \E c \in Coros : ReserveSpace(c) \/ Start(c) \/ StartRejected(c)

Kernel == \E ch \in kernel : Succeed(ch) \/ FailHard(ch) \/ FailSoft(ch)

Next == Thread \/ Kernel \/ \E c \in Coros : Await(c)

Spec == Init /\ [][Next]_vars

(* The thread goes on with start() and submits before it blocks, and the   *)
(* kernel completes what it has.                                           *)
FairSpec == Spec /\ WF_vars(Thread) /\ WF_vars(Kernel)
-----------------------------------------------------------------------------
Results == {"none", "ok", "error", "ECANCELED", "EINVAL"}

(* The state of the ring and of the links is well typed, and the queue     *)
(* never holds more than its size.                                         *)
TypeOK ==
  /\ cur \in Coros \cup {Nobody}
  /\ at \in [Coros -> {"idle", "reserve", "starting", "waiting"}]
  /\ next \in [Coros -> Nat \ {0}]
  /\ Len(sq) <= Entries
  /\ count \in 0..SubmitBatch - 1
  /\ \A c \in Coros : result[c] \in [1..Length[c] -> Results]

(* "All operations will be executed in the linked order"                   *)
(* (docs/guide.md:431): the kernel executes an operation only when the one *)
(* linked before it has completed.                                         *)
LinkedOrder ==
  \A ch \in kernel :
    LET op == Head(ch).op IN
    op[2] > 1 => result[op[1]][op[2] - 1] # "none"

(* The state is well typed, and a link ends with its own last operation:   *)
(* what io_uring cancels is always the rest of the link in which an        *)
(* operation failed, never an operation of another coroutine that follows  *)
(* in the queue.                                                           *)
CancelsOwnLink ==
  TypeOK /\ \A c \in Coros : \A i \in 1..Length[c] :
    result[c][i] = "ECANCELED" => \E j \in 1..i - 1 : result[c][j] = "error"

(* reserve_space terminates and every link that is awaited gets all its    *)
(* results: time and again there is none that waits for one.               *)
LinkCompletes ==
  []<>(\A c \in Coros : at[c] = "idle" \/ \A i \in 1..Length[c] : result[c][i] # "none")
=============================================================================
