------------------------------- MODULE Channel -------------------------------
(***************************************************************************)
(* condy::Channel of channel.hpp: a ring buffer, two lists of waiting      *)
(* operations and a mutex.                                                 *)
(*                                                                         *)
(* Clients are coroutines (Pushers push their own name as the item).  A    *)
(* client is in start() until it has registered its stop callback, then    *)
(* suspended until the runtime calls invoke().  Matching, closing and      *)
(* cancelling happen on other threads meanwhile; each critical section of  *)
(* mutex_ is one step.  Stop tokens are external: a stop request runs the  *)
(* callback on the requesting thread, in place if it comes before the      *)
(* registration, and stop_callback_.reset() waits for a running callback.  *)
(***************************************************************************)
EXTENDS Integers, Sequences, FiniteSets

CONSTANTS
  Pushers,    \* clients that push
  Poppers,    \* clients that pop
  Nobody,     \* nullptr, and an unconstructed slot
  Setups,     \* argument of the constructor, and the clients who take part
  SizeBits,   \* width of size_t
  MaxForced   \* bound: fake handles waiting at once

ASSUME ChannelAssumption ==
  /\ Pushers \cap Poppers = {}
  /\ Nobody \notin Pushers \cup Poppers
  /\ Setups \subseteq Nat \X SUBSET (Pushers \cup Poppers)
  /\ SizeBits \in Nat
  /\ MaxForced \in Nat

Clients == Pushers \cup Poppers

(* std::bit_ceil for n > 0. *)
BitCeil(n) ==
  CHOOSE c \in {2^k : k \in 0..n} :
    c >= n /\ \A d \in {2^k : k \in 0..n} : d >= n => c <= d

(* The size of buffer_ for an argument n of the constructor. *)
CapOf(n) == IF n = 0 THEN 0 ELSE BitCeil(n)

(* The buffer is shorter than the range of size_t, which a power of two    *)
(* divides.                                                                *)
ASSUME CapAssumption ==
  /\ 2^SizeBits \in Nat \ {0}
  /\ \A s \in Setups :
       /\ CapOf(s[1]) \in 0..2^SizeBits - 1
       /\ CapOf(s[1]) = 0 \/ 2^SizeBits % CapOf(s[1]) = 0

VARIABLES
  Cap,            \* buffer_.capacity()
  push_awaiters,  \* push_awaiters_: [item, by], by = Nobody for a fake handle
  pop_awaiters,   \* pop_awaiters_
  head,           \* head_
  tail,           \* tail_
  slots,          \* buffer_
  closed,         \* closed_
  alive,          \* the channel has not been destroyed
  pc,             \* where a client is
  outcome,        \* result_ of a client's operation, or what it returned
  scheduled,      \* how often the handle is in a queue of its runtime
  pending,        \* what the client has added to pending_works_
  stop            \* where a stop request of the client's operation is

lists == <<push_awaiters, pop_awaiters>>
ring == <<head, tail, slots>>
vars == <<Cap, lists, ring, closed, alive, pc, outcome, scheduled, pending, stop>>

Answer(code, item) == [code |-> code, item |-> item]
Unset == Answer("unset", Nobody)

Init ==
  /\ \E s \in Setups :
       /\ Cap = CapOf(s[1])
       /\ pc = [h \in Clients |-> IF h \in s[2] THEN "idle" ELSE "away"]
  /\ push_awaiters = <<>>
  /\ pop_awaiters = <<>>
  /\ head = 0
  /\ tail = 0
  /\ slots = [i \in 0..Cap - 1 |-> Nobody]
  /\ closed = FALSE
  /\ alive = TRUE
  /\ outcome = [h \in Clients |-> Answer("none", Nobody)]
  /\ scheduled = [h \in Clients |-> 0]
  /\ pending = [h \in Clients |-> 0]
  /\ stop = [h \in Clients |-> "no"]
-----------------------------------------------------------------------------
(* The ring buffer.                                                        *)

Size == (tail - head) % 2^SizeBits
Full == Size = Cap
Empty == Size = 0

(* i & mask, the mask being Cap - 1 *)
Slot(i) == i % Cap
Inc(i) == (i + 1) % 2^SizeBits

PushInner(item) ==
  /\ slots' = [slots EXCEPT ![Slot(tail)] = item]
  /\ tail' = Inc(tail)
  /\ UNCHANGED head

Front == slots[Slot(head)]

(* Mutant: pop_inner_ does not destroy the item it has moved from. *)
PopInnerNoDestroy ==
  /\ head' = Inc(head)
  /\ UNCHANGED <<tail, slots>>

PopInner ==
  /\ slots' = [slots EXCEPT ![Slot(head)] = Nobody]
  /\ head' = Inc(head)
  /\ UNCHANGED tail

(* pop_inner_ and push_inner_ of a full buffer, whose tail is at its head. *)
PopAndPush(item) ==
  /\ slots' = [slots EXCEPT ![Slot(head)] = Nobody, ![Slot(tail)] = item]
  /\ head' = Inc(head)
  /\ tail' = Inc(tail)
-----------------------------------------------------------------------------
(* Pushing.                                                                *)

Idle(h) == alive /\ pc[h] = "idle"

(* The client is not inside an operation. *)
Outside(h) == pc[h] \in {"away", "idle"}

(* The operation is over before start() or the call returns. *)
Return(h, code) == outcome' = [outcome EXCEPT ![h] = Answer(code, Nobody)]

(* A handle enters a list, and its client goes on in start(). *)
Enlist(h) ==
  /\ pc' = [pc EXCEPT ![h] = "started"]
  /\ outcome' = [outcome EXCEPT ![h] = Unset]
  /\ UNCHANGED stop

(* Mutant: try_push_inner_ prefers the buffer to a waiting pop. *)
TryPushInnerBufferFirst(p) ==
  /\ ~Full
  /\ PushInner(p)
  /\ Return(p, "ok")
  /\ UNCHANGED <<lists, scheduled, pc, stop>>

(* try_push_inner_ where it succeeds: hand over to a waiting pop, or       *)
(* buffer.                                                                 *)
TryPushInner(p) ==
  /\ pop_awaiters # <<>> \/ ~Full
  /\ IF pop_awaiters # <<>>
       THEN LET c == Head(pop_awaiters) IN
            /\ pop_awaiters' = Tail(pop_awaiters)
            /\ outcome' = [outcome EXCEPT ![p] = Answer("ok", Nobody),
                                          ![c] = Answer("ok", p)]
            /\ scheduled' = [scheduled EXCEPT ![c] = @ + 1]
            /\ UNCHANGED ring
       ELSE /\ PushInner(p)
            /\ Return(p, "ok")
            /\ UNCHANGED <<pop_awaiters, scheduled>>
  /\ UNCHANGED <<push_awaiters, pc, stop>>

CannotPush == pop_awaiters = <<>> /\ Full

(* start() up to the return of request_push_. *)
Push(p) ==
  /\ Idle(p)
  /\ \/ closed /\ Return(p, "EPIPE")
        /\ UNCHANGED <<lists, ring, pc, scheduled, stop>>
     \/ ~closed /\ TryPushInner(p)
     \/ /\ ~closed /\ CannotPush
        /\ push_awaiters' = Append(push_awaiters, [item |-> p, by |-> p])
        /\ Enlist(p)
        /\ UNCHANGED <<pop_awaiters, ring, scheduled>>
  /\ UNCHANGED <<closed, alive, pending>>

TryPush(p) ==
  /\ Idle(p)
  /\ \/ closed /\ Return(p, "EPIPE")
        /\ UNCHANGED <<lists, ring, pc, scheduled, stop>>
     \/ ~closed /\ TryPushInner(p)
     \/ ~closed /\ CannotPush /\ Return(p, "EAGAIN")
        /\ UNCHANGED <<lists, ring, pc, scheduled, stop>>
  /\ UNCHANGED <<closed, alive, pending>>

(* force_push parks the item in a fake handle when there is no room.  On a *)
(* closed channel it ends the program.                                     *)
ForcePush(p) ==
  /\ Idle(p)
  /\ ~closed
  /\ \/ TryPushInner(p)
     \/ /\ CannotPush
        /\ Len(SelectSeq(push_awaiters, LAMBDA e : e.by = Nobody)) < MaxForced
        /\ push_awaiters' = Append(push_awaiters, [item |-> p, by |-> Nobody])
        /\ Return(p, "ok")
        /\ UNCHANGED <<pop_awaiters, ring, pc, scheduled, stop>>
  /\ UNCHANGED <<closed, alive, pending>>
-----------------------------------------------------------------------------
(* Popping.                                                                *)

(* try_pop_inner_ where it finds an item.  A waiting push gets the place   *)
(* that becomes free; a fake handle is deleted instead of scheduled.       *)
TryPopInner(c) ==
  LET e == Head(push_awaiters) IN
  /\ push_awaiters # <<>> \/ ~Empty
  /\ IF push_awaiters # <<>>
       THEN /\ push_awaiters' = Tail(push_awaiters)
            /\ outcome' = [h \in Clients |->
                 IF h = c THEN Answer("ok", IF Cap = 0 THEN e.item ELSE Front)
                 ELSE IF h = e.by THEN Answer("ok", Nobody)
                 ELSE outcome[h]]
            /\ scheduled' = [h \in Clients |->
                 scheduled[h] + IF h = e.by THEN 1 ELSE 0]
            /\ IF Cap = 0 THEN UNCHANGED ring ELSE PopAndPush(e.item)
       ELSE /\ PopInner
            /\ outcome' = [outcome EXCEPT ![c] = Answer("ok", Front)]
            /\ UNCHANGED <<push_awaiters, scheduled>>
  /\ UNCHANGED <<pop_awaiters, pc, stop>>

CannotPop == push_awaiters = <<>> /\ Empty

(* start() up to the return of request_pop_. *)
Pop(c) ==
  /\ Idle(c)
  /\ \/ TryPopInner(c)
     \/ CannotPop /\ closed /\ Return(c, "EPIPE")
        /\ UNCHANGED <<lists, ring, pc, scheduled, stop>>
     \/ /\ CannotPop /\ ~closed
        /\ pop_awaiters' = Append(pop_awaiters, c)
        /\ Enlist(c)
        /\ UNCHANGED <<push_awaiters, ring, scheduled>>
  /\ UNCHANGED <<closed, alive, pending>>

TryPop(c) ==
  /\ Idle(c)
  /\ \/ TryPopInner(c)
     \/ CannotPop /\ Return(c, IF closed THEN "EPIPE" ELSE "EAGAIN")
        /\ UNCHANGED <<lists, ring, pc, scheduled, stop>>
  /\ UNCHANGED <<closed, alive, pending>>
-----------------------------------------------------------------------------
(* Closing.                                                                *)

(* The clients whose handles are in the lists. *)
Listed ==
  ({push_awaiters[i].by : i \in DOMAIN push_awaiters} \ {Nobody})
  \cup {pop_awaiters[i] : i \in DOMAIN pop_awaiters}

(* Mutant: closing forgets the waiting pushes. *)
PushCloseInnerPopsOnly ==
  LET woken == {pop_awaiters[i] : i \in DOMAIN pop_awaiters} IN
  /\ closed' = TRUE
  /\ pop_awaiters' = <<>>
  /\ outcome' = [h \in Clients |->
       IF h \in woken THEN Answer("EPIPE", Nobody) ELSE outcome[h]]
  /\ scheduled' = [h \in Clients |->
       scheduled[h] + IF h \in woken THEN 1 ELSE 0]
  /\ UNCHANGED push_awaiters

(* push_close_inner_: both lists are emptied, fake handles deleted with    *)
(* their items.                                                            *)
PushCloseInner ==
  /\ closed' = TRUE
  /\ push_awaiters' = <<>>
  /\ pop_awaiters' = <<>>
  /\ outcome' = [h \in Clients |->
       IF h \in Listed THEN Answer("EPIPE", Nobody) ELSE outcome[h]]
  /\ scheduled' = [h \in Clients |->
       scheduled[h] + IF h \in Listed THEN 1 ELSE 0]

PushClose ==
  /\ alive
  /\ IF closed THEN UNCHANGED <<closed, lists, outcome, scheduled>>
               ELSE PushCloseInner
  /\ UNCHANGED <<ring, alive, pc, pending, stop>>

(* ~Channel, when no client is inside an operation: close, then pop what   *)
(* is left.                                                                *)
Destruct ==
  /\ alive
  /\ \A h \in Clients : Outside(h)
  /\ alive' = FALSE
  /\ IF closed THEN UNCHANGED <<closed, lists, outcome, scheduled>>
               ELSE PushCloseInner
  /\ head' = tail
  /\ slots' = [i \in DOMAIN slots |->
       IF \E k \in 0..Size - 1 : i = Slot((head + k) % 2^SizeBits)
         THEN Nobody ELSE slots[i]]
  /\ UNCHANGED <<tail, pc, pending, stop>>
-----------------------------------------------------------------------------
(* Suspension, cancellation and resumption.                                *)

(* What is left of list s when its i-th handle is removed. *)
Without(s, i) == [k \in 1..Len(s) - 1 |-> s[IF k < i THEN k ELSE k + 1]]

(* cancel_push_ and cancel_pop_: remove() of the list that has the handle. *)
Unlist(h) ==
  \/ /\ \E i \in DOMAIN push_awaiters :
          push_awaiters[i].by = h /\ push_awaiters' = Without(push_awaiters, i)
     /\ UNCHANGED pop_awaiters
  \/ /\ \E i \in DOMAIN pop_awaiters :
          pop_awaiters[i] = h /\ pop_awaiters' = Without(pop_awaiters, i)
     /\ UNCHANGED push_awaiters

Cancelled(h) ==
  /\ outcome' = [outcome EXCEPT ![h] = Answer("ECANCELED", Nobody)]
  /\ scheduled' = [scheduled EXCEPT ![h] = @ + 1]

(* The rest of start(): pend_work_internal and the stop callback, which    *)
(* runs at once if a stop has been requested.                              *)
Register(h) ==
  /\ pc[h] = "started"
  /\ pc' = [pc EXCEPT ![h] = "suspended"]
  /\ pending' = [pending EXCEPT ![h] = @ + 1]
  /\ IF stop[h] = "requested" /\ h \in Listed
       THEN Unlist(h) /\ Cancelled(h)
       ELSE UNCHANGED <<lists, outcome, scheduled>>
  /\ stop' = [stop EXCEPT ![h] = IF @ = "requested" THEN "over" ELSE @]
  /\ UNCHANGED <<ring, closed, alive>>

(* Another thread requests a stop; the callback starts there if it is      *)
(* registered.                                                             *)
RequestStop(h) ==
  /\ ~Outside(h)
  /\ stop[h] = "no"
  /\ stop' = [stop EXCEPT ![h] =
       IF pc[h] = "suspended" THEN "callback" ELSE "requested"]
  /\ UNCHANGED <<lists, ring, closed, alive, pc, outcome, scheduled, pending>>

(* Mutant: cancel_ does not look at what remove() returns. *)
CancelLockAlways(h) ==
  /\ stop[h] = "callback"
  /\ IF h \in Listed THEN Unlist(h) ELSE UNCHANGED lists
  /\ stop' = [stop EXCEPT ![h] = "removed"]
  /\ UNCHANGED <<ring, closed, alive, pc, outcome, scheduled, pending>>

(* cancel_ on that thread: the critical section, *)
CancelLock(h) ==
  /\ stop[h] = "callback"
  /\ IF h \in Listed
       THEN Unlist(h) /\ stop' = [stop EXCEPT ![h] = "removed"]
       ELSE stop' = [stop EXCEPT ![h] = "over"] /\ UNCHANGED lists
  /\ UNCHANGED <<ring, closed, alive, pc, outcome, scheduled, pending>>

(* and, if the handle was in the list, the result and schedule_internal.   *)
CancelSchedule(h) ==
  /\ stop[h] = "removed"
  /\ Cancelled(h)
  /\ stop' = [stop EXCEPT ![h] = "over"]
  /\ UNCHANGED <<lists, ring, closed, alive, pc, pending>>

(* Mutant: invoke() does not wait for a running stop callback. *)
InvokeNoReset(h) ==
  /\ pc[h] = "suspended"
  /\ scheduled[h] > 0
  /\ pc' = [pc EXCEPT ![h] = "idle"]
  /\ scheduled' = [scheduled EXCEPT ![h] = @ - 1]
  /\ pending' = [pending EXCEPT ![h] = @ - 1]
  /\ UNCHANGED <<lists, ring, closed, alive, outcome, stop>>

(* The runtime calls invoke(): stop_callback_.reset() waits for a running  *)
(* callback, then the client goes on with outcome.                         *)
Invoke(h) ==
  /\ pc[h] = "suspended"
  /\ scheduled[h] > 0
  /\ stop[h] \notin {"callback", "removed"}
  /\ pc' = [pc EXCEPT ![h] = "idle"]
  /\ scheduled' = [scheduled EXCEPT ![h] = @ - 1]
  /\ pending' = [pending EXCEPT ![h] = @ - 1]
  /\ stop' = [stop EXCEPT ![h] = "no"]
  /\ UNCHANGED <<lists, ring, closed, alive, outcome>>
-----------------------------------------------------------------------------
(* What a client or a canceller does once it has begun. *)
Progress(h) == Register(h) \/ CancelLock(h) \/ CancelSchedule(h) \/ Invoke(h)

Next ==
  /\ \/ \E p \in Pushers : Push(p) \/ TryPush(p) \/ ForcePush(p)
     \/ \E c \in Poppers : Pop(c) \/ TryPop(c)
     \/ \E h \in Clients : Progress(h) \/ RequestStop(h)
     \/ PushClose
     \/ Destruct
  /\ UNCHANGED Cap

Spec == Init /\ [][Next]_vars

(* Runtimes resume what is scheduled and threads finish their calls. *)
FairSpec ==
  Spec /\ \A h \in Clients : WF_vars(Progress(h) /\ UNCHANGED Cap)
-----------------------------------------------------------------------------
(* The state of the channel and its handles is well typed: no handle takes *)
(* more from pending_works_ than it added.                                 *)
TypeOK ==
  /\ push_awaiters \in Seq([item : Pushers, by : Pushers \cup {Nobody}])
  /\ pop_awaiters \in Seq(Poppers)
  /\ head \in 0..2^SizeBits - 1
  /\ tail \in 0..2^SizeBits - 1
  /\ slots \in [0..Cap - 1 -> Pushers \cup {Nobody}]
  /\ closed \in BOOLEAN
  /\ alive \in BOOLEAN
  /\ pc \in [Clients -> {"away", "idle", "started", "suspended"}]
  /\ outcome \in [Clients ->
       [code : {"none", "unset", "ok", "EPIPE", "EAGAIN", "ECANCELED"},
        item : Pushers \cup {Nobody}]]
  /\ scheduled \in [Clients -> Nat]
  /\ pending \in [Clients -> Nat]
  /\ stop \in [Clients -> {"no", "requested", "callback", "removed", "over"}]

(* Exactly the slots between head_ and tail_ hold a constructed item, also *)
(* after the indices have wrapped around: nothing is constructed over a    *)
(* live item, read before construction, or leaked by ~Channel.             *)
SlotsConstructed ==
  /\ Size <= Cap
  /\ \A i \in 0..Cap - 1 :
       slots[i] # Nobody <=>
         \E k \in 0..Size - 1 : i = Slot((head + k) % 2^SizeBits)

(* The asserts of channel.hpp (119, 234, 251, 269, 284, 342, 349): a pop   *)
(* waits only while there is nothing to take, a push only while there is   *)
(* no room, nobody waits on a closed channel, and the buffer is sound.     *)
WaitersJustified ==
  /\ SlotsConstructed
  /\ pop_awaiters # <<>> => Empty /\ push_awaiters = <<>>
  /\ push_awaiters # <<>> => Full
  /\ closed => push_awaiters = <<>> /\ pop_awaiters = <<>>

(* A stop callback never runs on a handle whose operation has completed,   *)
(* and a handle that completes has its result (-ENOTRECOVERABLE never      *)
(* reaches the receiver).                                                  *)
HandleOutlivesCallback ==
  \A h \in Clients :
    Outside(h) => stop[h] \notin {"callback", "removed"}
                      /\ outcome[h] # Unset

(* The state is well typed, and a suspended operation is in exactly one    *)
(* place: a wait list, the hands of a canceller, or its runtime's queue.   *)
(* A match, a close and a cancellation never both complete it, and none of *)
(* them loses it, or leaves its stop callback behind.                      *)
WaiterInOnePlace ==
  /\ TypeOK
  /\ HandleOutlivesCallback
  /\ \A h \in Clients :
       scheduled[h] + (IF h \in Listed THEN 1 ELSE 0)
                    + (IF stop[h] = "removed" THEN 1 ELSE 0)
         = IF Outside(h) THEN 0 ELSE 1

(* Every operation on a closed channel completes: push_close leaves nobody *)
(* suspended for ever.                                                     *)
CloseReleases == closed ~> \A h \in Clients : Outside(h)
-----------------------------------------------------------------------------
(* Refinement: the buffer followed by the waiting pushes is the line of    *)
(* ChannelSpec.  An operation is decided when a canceller takes it out of  *)
(* the list, before its result is written.                                 *)
Buffered ==
  [k \in 1..Size |-> [item |-> slots[Slot((head + k - 1) % 2^SizeBits)],
                      by |-> Nobody]]

Abstract == INSTANCE ChannelSpec WITH
  line <- Buffered \o push_awaiters,
  takers <- pop_awaiters,
  outcome <- [h \in Clients |->
    IF stop[h] = "removed" THEN Answer("ECANCELED", Nobody) ELSE outcome[h]]

(* The channel is a FIFO line: items come out once, in the order they were *)
(* offered, pops are served in order, at most Cap pushes are accepted      *)
(* ahead of the pops, a cancelled push leaves no item behind and a close   *)
(* keeps what was accepted.                                                *)
IsFifo == Abstract!Spec
=============================================================================
