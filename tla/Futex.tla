-------------------------------- MODULE Futex --------------------------------
(***************************************************************************)
(* condy::Futex of futex.hpp, with its waiting list pointer by pointer     *)
(* (IntrusiveList): a cancelled waiter finds out from its own links        *)
(* whether it is still in the list.                                        *)
(*                                                                         *)
(* Waiters are coroutines in wait(); Notifiers are threads that change the *)
(* value and then notify.  Each critical section of mutex_ is one step;    *)
(* what notify_one and notify_all_ do with the handles they have taken     *)
(* happens outside the mutex, one access at a time.  Stop tokens are       *)
(* external, as in Channel.                                                *)
(***************************************************************************)
EXTENDS IntrusiveList, Integers, FiniteSets, Sequences

CONSTANTS
  Waiters,     \* coroutines
  Notifiers,   \* threads
  Stoppable,   \* waiters whose receiver has a stop token
  Overlap,     \* stops may be requested while notify_all runs
  Values       \* values of the futex

(* The list wait_awaiters_; the local `handles` of a thread in notify_all_ *)
(* has the name of the thread.                                             *)
Awaiters == "wait_awaiters"

ASSUME FutexAssumption ==
  /\ IsFiniteSet(Waiters) /\ Null \notin Waiters
  /\ Stoppable \subseteq Waiters
  /\ Overlap \in BOOLEAN
  /\ Awaiters \notin Notifiers

VARIABLES
  all,        \* the program uses notify_all, or notify_one
  value,      \* futex_
  mem,        \* wait_awaiters_, the local lists, and the links of handles
  violated,   \* an assert of intrusive.hpp has failed
  alive,      \* ~Futex has not begun
  pc,         \* where a waiter is
  old,        \* the value it waits on
  result,     \* result_
  scheduled,  \* how often its handle is in the queue of its runtime
  pending,    \* what it has added to pending_works_
  stop,       \* where a stop request of its operation is
  at,         \* where a notifier is
  hand,       \* the handle it has taken
  code        \* the result it gives

waiter == <<pc, old, pending>>
notifier == <<at, code>>
vars == <<all, value, mem, violated, alive, waiter, result, scheduled, stop,
          notifier, hand>>

Init ==
  /\ all \in BOOLEAN
  /\ value \in Values
  /\ mem = [next |-> [w \in Waiters |-> Null], prev |-> [w \in Waiters |-> Null],
            head |-> [l \in {Awaiters} \cup Notifiers |-> Null],
            tail |-> [l \in {Awaiters} \cup Notifiers |-> Null]]
  /\ violated = FALSE
  /\ alive = TRUE
  /\ pc = [w \in Waiters |-> "idle"]
  /\ old = [w \in Waiters |-> value]
  /\ result = [w \in Waiters |-> "ok"]
  /\ scheduled = [w \in Waiters |-> 0]
  /\ pending = [w \in Waiters |-> 0]
  /\ stop = [w \in Waiters |-> "no"]
  /\ at = [n \in Notifiers |-> "idle"]
  /\ hand = [n \in Notifiers |-> Null]
  /\ code = [n \in Notifiers |-> "ok"]
-----------------------------------------------------------------------------
(* Waiting.                                                                *)

(* Mutant: request_wait_ does not compare. *)
WaitBlindly(w, v) ==
  /\ alive
  /\ pc[w] = "idle"
  /\ old' = [old EXCEPT ![w] = v]
  /\ mem' = PushBack(mem, Awaiters, w)
  /\ violated' = (violated \/ ~PushBackAssert(mem, w))
  /\ pc' = [pc EXCEPT ![w] = "started"]
  /\ result' = [result EXCEPT ![w] = "unset"]
  /\ UNCHANGED <<value, alive, scheduled, pending, stop, notifier, hand>>

(* start() up to the return of request_wait_: compare and enlist.          *)
Wait(w, v) ==
  /\ alive
  /\ pc[w] = "idle"
  /\ old' = [old EXCEPT ![w] = v]
  /\ IF value # v
       THEN /\ result' = [result EXCEPT ![w] = "ok"]
            /\ UNCHANGED <<mem, violated, pc>>
       ELSE /\ mem' = PushBack(mem, Awaiters, w)
            /\ violated' = (violated \/ ~PushBackAssert(mem, w))
            /\ pc' = [pc EXCEPT ![w] = "started"]
            /\ result' = [result EXCEPT ![w] = "unset"]
  /\ UNCHANGED <<value, alive, scheduled, pending, stop, notifier, hand>>

(* cancel_wait_ *)
CancelWait(w) ==
  /\ mem' = Remove(mem, Awaiters, w)
  /\ violated' = (violated \/ ~RemoveAssert(mem, Awaiters, w))

Schedule(w, res) ==
  /\ result' = [result EXCEPT ![w] = res]
  /\ scheduled' = [scheduled EXCEPT ![w] = @ + 1]

(* The rest of start(): pend_work_internal and the stop callback, which    *)
(* runs at once if a stop has been requested.                              *)
Register(w) ==
  /\ pc[w] = "started"
  /\ pc' = [pc EXCEPT ![w] = "suspended"]
  /\ pending' = [pending EXCEPT ![w] = @ + 1]
  /\ IF stop[w] = "requested"
       THEN /\ CancelWait(w)
            /\ IF Linked(mem, Awaiters, w) THEN Schedule(w, "ECANCELED")
                                           ELSE UNCHANGED <<result, scheduled>>
       ELSE UNCHANGED <<mem, violated, result, scheduled>>
  /\ stop' = [stop EXCEPT ![w] = IF @ = "requested" THEN "over" ELSE @]
  /\ UNCHANGED <<value, alive, old, notifier, hand>>

(* Another thread requests a stop; the callback starts there if it is      *)
(* registered.  Nobody does so once ~Futex has begun.                      *)
RequestStop(w) ==
  /\ alive
  /\ Overlap \/ ~all \/ \A n \in Notifiers : at[n] = "idle"
  /\ w \in Stoppable
  /\ pc[w] # "idle"
  /\ stop[w] = "no"
  /\ stop' = [stop EXCEPT ![w] =
       IF pc[w] = "suspended" THEN "callback" ELSE "requested"]
  /\ UNCHANGED <<value, mem, violated, alive, waiter, result, scheduled,
                 notifier, hand>>

(* cancel_ on that thread: the critical section, *)
CancelLock(w) ==
  /\ stop[w] = "callback"
  /\ CancelWait(w)
  /\ stop' = [stop EXCEPT ![w] =
       IF Linked(mem, Awaiters, w) THEN "removed" ELSE "over"]
  /\ UNCHANGED <<value, alive, waiter, result, scheduled, notifier, hand>>

(* and, if the handle was in the list, the result and schedule_internal.   *)
CancelSchedule(w) ==
  /\ stop[w] = "removed"
  /\ Schedule(w, "ECANCELED")
  /\ stop' = [stop EXCEPT ![w] = "over"]
  /\ UNCHANGED <<value, mem, violated, alive, waiter, notifier, hand>>

(* The runtime calls invoke(), which waits for a running stop callback.    *)
Invoke(w) ==
  /\ pc[w] = "suspended"
  /\ scheduled[w] > 0
  /\ stop[w] \notin {"callback", "removed"}
  /\ pc' = [pc EXCEPT ![w] = "idle"]
  /\ scheduled' = [scheduled EXCEPT ![w] = @ - 1]
  /\ pending' = [pending EXCEPT ![w] = @ - 1]
  /\ stop' = [stop EXCEPT ![w] = "no"]
  /\ UNCHANGED <<value, mem, violated, alive, old, result, notifier, hand>>
-----------------------------------------------------------------------------
(* Notifying.                                                              *)

(* A thread changes the value and calls notify_one or notify_all. *)
Store(n, v) ==
  /\ alive
  /\ at[n] = "idle"
  /\ Overlap \/ ~all \/ \A w \in Waiters : stop[w] \in {"no", "over"}
  /\ value' = v
  /\ at' = [at EXCEPT ![n] = IF all THEN "all" ELSE "one"]
  /\ UNCHANGED <<mem, violated, alive, waiter, result, scheduled, stop, hand,
                 code>>

(* notify_one: the critical section. *)
NotifyOne(n) ==
  /\ at[n] = "one"
  /\ hand' = [hand EXCEPT ![n] = Front(mem, Awaiters)]
  /\ mem' = PopFront(mem, Awaiters)
  /\ at' = [at EXCEPT ![n] = "loop"]
  /\ UNCHANGED <<value, violated, alive, waiter, result, scheduled, stop, code>>

(* Mutant: the list is copied, not moved. *)
NotifyAllCopy(n) ==
  /\ at[n] = "all"
  /\ mem' = [mem EXCEPT !.head[n] = mem.head[Awaiters],
                        !.tail[n] = mem.tail[Awaiters]]
  /\ at' = [at EXCEPT ![n] = "loop"]
  /\ UNCHANGED <<value, violated, alive, waiter, result, scheduled, stop, hand,
                 code>>

(* notify_all_: the critical section, which leaves the entries linked. *)
NotifyAll(n) ==
  /\ at[n] = "all"
  /\ mem' = Move(mem, Awaiters, n)
  /\ at' = [at EXCEPT ![n] = "loop"]
  /\ UNCHANGED <<value, violated, alive, waiter, result, scheduled, stop, hand,
                 code>>

(* The loop of notify_all_ outside the mutex: take the next handle, *)
TakeNext(n) ==
  /\ at[n] = "loop"
  /\ hand[n] = Null
  /\ ~IsEmpty(mem, n)
  /\ hand' = [hand EXCEPT ![n] = Front(mem, n)]
  /\ mem' = PopFront(mem, n)
  /\ UNCHANGED <<value, violated, alive, waiter, result, scheduled, stop,
                 notifier>>

(* set_result and schedule, here and in notify_one, *)
ScheduleHand(n) ==
  /\ at[n] = "loop"
  /\ hand[n] # Null
  /\ Schedule(hand[n], code[n])
  /\ hand' = [hand EXCEPT ![n] = Null]
  /\ UNCHANGED <<value, mem, violated, alive, waiter, stop, notifier>>

(* Mutant: notify_all_ returns after the first handle. *)
NotifyReturnEarly(n) ==
  /\ at[n] = "loop"
  /\ hand[n] = Null
  /\ at' = [at EXCEPT ![n] = "idle"]
  /\ UNCHANGED <<value, mem, violated, alive, waiter, result, scheduled, stop,
                 hand, code>>

(* until there is none. *)
NotifyReturn(n) ==
  /\ at[n] = "loop"
  /\ hand[n] = Null
  /\ IsEmpty(mem, n)
  /\ at' = [at EXCEPT ![n] = "idle"]
  /\ UNCHANGED <<value, mem, violated, alive, waiter, result, scheduled, stop,
                 hand, code>>

(* ~Futex: notify_all_(-EIDRM), while no other call is in progress. *)
Destruct(n) ==
  /\ alive
  /\ \A k \in Notifiers : at[k] = "idle"
  /\ \A w \in Waiters : pc[w] # "started" /\ stop[w] \in {"no", "over"}
  /\ alive' = FALSE
  /\ code' = [code EXCEPT ![n] = "EIDRM"]
  /\ at' = [at EXCEPT ![n] = "all"]
  /\ UNCHANGED <<value, mem, violated, waiter, result, scheduled, stop, hand>>
-----------------------------------------------------------------------------
WaiterStep(w) == Register(w) \/ CancelLock(w) \/ CancelSchedule(w) \/ Invoke(w)

NotifierStep(n) ==
  NotifyOne(n) \/ NotifyAll(n) \/ TakeNext(n) \/ ScheduleHand(n)
  \/ NotifyReturn(n)

Next ==
  /\ \/ \E w \in Waiters : WaiterStep(w) \/ RequestStop(w)
                           \/ \E v \in Values : Wait(w, v)
     \/ \E n \in Notifiers : NotifierStep(n) \/ Destruct(n)
                             \/ \E v \in Values : Store(n, v)
  /\ UNCHANGED all

Spec == Init /\ [][Next]_vars

(* Runtimes resume what is scheduled and threads finish their calls. *)
FairSpec ==
  /\ Spec
  /\ \A w \in Waiters : WF_vars(WaiterStep(w) /\ UNCHANGED all)
  /\ \A n \in Notifiers : WF_vars(NotifierStep(n) /\ UNCHANGED all)
-----------------------------------------------------------------------------
(* The state of the futex, its handles and its callers is well typed: no   *)
(* handle takes more from pending_works_ than it added.                    *)
TypeOK ==
  /\ value \in Values
  /\ mem.next \in [Waiters -> Waiters \cup {Null}]
  /\ mem.prev \in [Waiters -> Waiters \cup {Null}]
  /\ mem.head \in [{Awaiters} \cup Notifiers -> Waiters \cup {Null}]
  /\ mem.tail \in [{Awaiters} \cup Notifiers -> Waiters \cup {Null}]
  /\ violated \in BOOLEAN
  /\ alive \in BOOLEAN
  /\ pc \in [Waiters -> {"idle", "started", "suspended"}]
  /\ old \in [Waiters -> Values]
  /\ result \in [Waiters -> {"unset", "ok", "EIDRM", "ECANCELED"}]
  /\ scheduled \in [Waiters -> Nat]
  /\ pending \in [Waiters -> Nat]
  /\ stop \in [Waiters -> {"no", "requested", "callback", "removed", "over"}]
  /\ at \in [Notifiers -> {"idle", "one", "all", "loop"}]
  /\ hand \in [Notifiers -> Waiters \cup {Null}]
  /\ code \in [Notifiers -> {"ok", "EIDRM"}]

(* The handles a walk from head_ meets, in order. *)
WalkSeq(m, l) ==
  LET node[k \in 1..Cardinality(Waiters)] ==
        IF k = 1 THEN m.head[l]
        ELSE IF node[k - 1] = Null THEN Null ELSE m.next[node[k - 1]]
      met == {k \in 1..Cardinality(Waiters) : node[k] # Null}
  IN  [k \in 1..Cardinality(met) |-> node[k]]

Line(l) == WalkSeq(mem, l)

Walk(l) == {Line(l)[k] : k \in DOMAIN Line(l)}

(* assert(head_ == entry) (detail/intrusive.hpp:159), assert(tail_ ==      *)
(* entry) (165) and push_back's assert hold whenever the futex uses its    *)
(* list.                                                                   *)
ListAsserts == ~violated

(* The state is well typed, and a suspended waiter is in exactly one       *)
(* place: wait_awaiters_, the local list or the hands of a notifier, the   *)
(* hands of a canceller, or its runtime's queue.  It is neither lost nor   *)
(* resumed twice, when it is resumed it has a result, and the list does    *)
(* not trip over its asserts.                                              *)
WaiterInOnePlace ==
  TypeOK /\ ListAsserts /\ \A w \in Waiters :
    /\ scheduled[w] + Cardinality({l \in {Awaiters} \cup Notifiers : w \in Walk(l)})
       + Cardinality({n \in Notifiers : hand[n] = w})
       + (IF stop[w] = "removed" THEN 1 ELSE 0)
         = IF pc[w] = "idle" THEN 0 ELSE 1
    /\ pc[w] = "idle" \/ scheduled[w] > 0 => result[w] # "unset"

Abstract == INSTANCE FutexSpec WITH
  futex <- [value |-> value, queue |-> Line(Awaiters),
            woken |-> {w \in Waiters : pc[w] # "idle"} \ Walk(Awaiters)]

(* Every operation takes effect at one moment: wait() compares the value   *)
(* and enlists without a store in between, waiters are woken in the order  *)
(* they came, notify_all wakes them all at once, a cancelled waiter leaves *)
(* the others in place, and nobody is resumed without having been woken.   *)
(* The pieces of notify_all_, start() and cancel_ outside the mutex make   *)
(* no difference to a caller.                                              *)
IsFutex == Abstract!Spec

(* No wakeup is lost: when notify_all follows every store, each waiter     *)
(* whose value has changed gets to run again.                              *)
ChangedWakes ==
  \A w \in Waiters :
    all /\ pc[w] # "idle" /\ old[w] # value ~> pc[w] = "idle"
=============================================================================
