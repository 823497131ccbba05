------------------------------ MODULE Operation ------------------------------
(***************************************************************************)
(* Awaiting a group of io_uring operations: SenderAwaiter (detail/coro),   *)
(* ParallelOperationState with its cancellers and OpSenderOperationState   *)
(* (detail/op_states), and the finish handles that io_uring's completions  *)
(* reach through their address (detail/finish_handles).                    *)
(*                                                                         *)
(* One coroutine awaits the same when_any or when_all expression round     *)
(* after round, so the handles of a later round are at the addresses of    *)
(* the earlier one, except that a zero-copy handle is on the heap.  The    *)
(* coroutine, the event loop and the handlers run on one thread.  Another  *)
(* thread may request a stop through the receiver's token; the kernel      *)
(* takes the submission queue in order and completes operations at will.   *)
(***************************************************************************)
EXTENDS Integers, Sequences, FiniteSets

CONSTANTS
  Setups,   \* groups a program may await: the kinds of their operations, any
            \* for when_any (else when_all), ranged for a vector of senders,
            \* stoppable if the group's receiver has a stop token, and a
            \* bound: how many rounds it is awaited
  MaxShots  \* bound: completions of a multi-shot operation before the last

ASSUME OperationAssumption ==
  /\ \A s \in Setups :
       /\ s.kinds \in Seq({"single", "multi", "zerocopy"})
       /\ {s.any, s.ranged, s.stoppable} \subseteq BOOLEAN
       /\ s.kinds = <<>> => s.ranged /\ ~s.any
       /\ s.ranged => \A m, n \in DOMAIN s.kinds : s.kinds[m] = s.kinds[n]
       /\ s.rounds \in Nat \ {0}
  /\ MaxShots \in Nat

VARIABLES
  setup,     \* the group
  round,     \* the current await
  co,        \* the coroutine: starting, suspended, running, ended; "crash"
             \* when a null handle has been resumed
  awaiter,   \* handle_ of the awaiter: noop, handle or null
  next,      \* start(): the operation it has come to
  checked,   \* ... which has passed stop_requested()
  child,     \* operations: new, pending, done
  callback,  \* stop_callback_ is registered and has not begun
  stopped,   \* a stop has been requested of the token the operations have
  order,     \* order_, up to completed_count_
  result,    \* results_
  outer,     \* the other thread's request_stop of the source whose token the
             \* group has: none, running, over
  running,   \* the operation whose stop callback it executes, or 0
  heap,      \* zero-copy handles not yet deleted
  pending,   \* what the operations have added to pending_works_
  sq,        \* submission queue
  cq,        \* completion queue
  kernel,    \* submitted operations
  requested  \* rounds in which a stop was requested: of the group by the
             \* other thread (outside), or of its operations (inside)

group == <<awaiter, child, callback, stopped, order, result, requested>>
start == <<next, checked>>
stopper == <<outer, running>>
rings == <<sq, cq, kernel>>
vars == <<setup, round, co, group, start, stopper, heap, pending, rings>>

N == Len(setup.kinds)
Ops == 1..N
Kind == setup.kinds

(* User data of operation i in round g.  The handles of a round are part   *)
(* of the awaiter in the coroutine's frame; HandleBox allocates the        *)
(* zero-copy ones.                                                         *)
Address(i, g) == IF Kind[i] = "zerocopy" THEN <<i, g>> ELSE <<i, 0>>

Sqe(i) == [type |-> "op", op |-> i, gen |-> round, addr |-> Address(i, round)]
CancelSqe(addr) == [type |-> "cancel", op |-> addr[1], gen |-> 0, addr |-> addr]

Cqe(k, res, more, notif) ==
  [type |-> "Common", op |-> k.op, gen |-> k.gen, addr |-> k.addr, res |-> res,
   more |-> more, notif |-> notif]
CancelMsg(addr) ==
  [type |-> "Cancel", op |-> addr[1], gen |-> 0, addr |-> addr, res |-> "ok",
   more |-> FALSE, notif |-> FALSE]

(* HandleBox: what connecting the group in round g allocates. *)
Boxes(g) == {<<i, g>> : i \in {j \in Ops : Kind[j] = "zerocopy"}}

Init ==
  /\ setup \in Setups
  /\ round = 1
  /\ co = "starting"
  /\ awaiter = "noop"
  /\ next = 1
  /\ checked = FALSE
  /\ child = [i \in Ops |-> "new"]
  /\ callback = [i \in Ops |-> FALSE]
  /\ stopped = FALSE
  /\ order = <<>>
  /\ result = [i \in Ops |-> "none"]
  /\ outer = "none"
  /\ running = 0
  /\ heap = Boxes(1)
  /\ pending = 0
  /\ sq = <<>>
  /\ cq = <<>>
  /\ kernel = {}
  /\ requested = [outside |-> {}, inside |-> {}]
-----------------------------------------------------------------------------
(* finish_ and receive_.                                                   *)

(* The awaiter's handle_result_: exchange the handle and resume it. *)
HandleResult ==
  /\ awaiter' = "null"
  /\ co' = IF awaiter = "handle" THEN "running"
           ELSE IF awaiter = "noop" THEN co ELSE "crash"

(* The orders in which a stop source may run the callbacks of targets: the *)
(* standard leaves it open.                                                *)
Orders(targets) ==
  {ops \in [1..Cardinality(targets) -> targets] :
     \A m, n \in DOMAIN ops : ops[m] = ops[n] => m = n}

(* WhenAnyCanceller::operator(): the stop callbacks of the operations that *)
(* have one run here and now; cancel_internal on the runtime's own thread  *)
(* prepares a cancel entry.                                                *)
Cancels(ops) == [n \in DOMAIN ops |-> CancelSqe(Address(ops[n], round))]

(* Mutant: stop_callback_.reset() does not wait. *)
ResetReturnsAtOnce(i) == TRUE

(* stop_callback_.reset() returns: its callback is not running on another  *)
(* thread.                                                                 *)
ResetReturns(i) == running # i

(* Mutant: order_ is filled from its end. *)
RecordedReversed(i) == <<i>> \o order

(* receive_: order_[no] = I *)
Recorded(i) == Append(order, i)

(* Mutant: when_any completes with its first operation. *)
CompletesFirst == setup.any \/ Len(order) + 1 = N

(* receive_: no == sizeof...(Senders) - 1 *)
Completes == Len(order) + 1 = N

(* What when_any returns: the operation at order_[0]. *)
Winner == order[1]

(* The callback that passes a stop of the group on to its operations is    *)
(* gone: it is not running on the other thread.                            *)
CancellerReset == setup.any => outer # "running"

(* OpFinishHandle::finish_: stop_callback_.reset(), which waits for a      *)
(* callback that is running on the other thread, then the child receiver:  *)
(* receive_ requests a stop (when_any), records the result, and with the   *)
(* last one resets the canceller and calls the group's receiver.  The      *)
(* canceller of a range lives until the awaiter is destroyed.              *)
Receive(i, res) ==
  LET fire    == setup.any /\ ~stopped
      targets == {j \in Ops \ {i} : callback[j]}
  IN
  /\ ResetReturns(i)
  /\ IF fire THEN \E ops \in Orders(targets) : sq' = sq \o Cancels(ops)
             ELSE sq' = sq
  /\ callback' = [j \in Ops |-> callback[j] /\ j # i /\ ~fire]
  /\ stopped' = (stopped \/ setup.any)
  /\ requested' = IF setup.any THEN [requested EXCEPT !.inside = @ \cup {round}]
                         ELSE requested
  /\ child' = [child EXCEPT ![i] = "done"]
  /\ order' = Recorded(i)
  /\ result' = [result EXCEPT ![i] = res]
  /\ IF Completes
       THEN (setup.ranged \/ CancellerReset) /\ HandleResult
       ELSE UNCHANGED <<awaiter, co>>
-----------------------------------------------------------------------------
(* start().                                                                *)

(* fail_: the handle is given a completion without flags; a zero-copy      *)
(* handle finishes and deletes itself.                                     *)
Fail(i, res) ==
  /\ Receive(i, res)
  /\ heap' = heap \ {Address(i, round)}
  /\ next' = next + 1
  /\ checked' = FALSE
  /\ UNCHANGED <<round, stopper, pending, cq, kernel>>

(* OpSenderOperationState::start up to stop_requested(). *)
StartCheck(i) ==
  /\ co = "starting"
  /\ next = i
  /\ ~checked
  /\ ~stopped
  /\ checked' = TRUE
  /\ UNCHANGED <<round, co, group, next, stopper, heap, pending, rings>>

StartStopped(i) ==
  /\ co = "starting"
  /\ next = i
  /\ ~checked
  /\ stopped
  /\ Fail(i, "ECANCELED")

(* prep_func_ returns nullptr. *)
StartRejected(i) ==
  /\ co = "starting"
  /\ next = i
  /\ checked
  /\ Fail(i, "EINVAL")

(* The group's token can be stopped: maybe_set_cancel registers. *)
StopPossible == setup.any \/ setup.stoppable

(* Mutant: maybe_set_cancel does nothing if the stop has come already. *)
LateCancelNever(i) == <<>>

(* A stop_callback made after the stop runs at once. *)
LateCancel(i) == IF stopped THEN Cancels(<<i>>) ELSE <<>>

(* The rest of start(): the entry, pend_work_internal, maybe_set_cancel. *)
StartIssue(i) ==
  /\ co = "starting"
  /\ next = i
  /\ checked
  /\ child' = [child EXCEPT ![i] = "pending"]
  /\ pending' = pending + 1
  /\ sq' = Append(sq, Sqe(i)) \o LateCancel(i)
  /\ callback' = [callback EXCEPT ![i] = StopPossible /\ ~stopped]
  /\ next' = next + 1
  /\ checked' = FALSE
  /\ UNCHANGED <<round, co, awaiter, stopped, order, result, requested,
                 stopper, heap, cq, kernel>>

(* start() of an empty vector calls the receiver itself. *)
StartEmpty ==
  /\ co = "starting"
  /\ N = 0
  /\ awaiter = "noop"
  /\ HandleResult
  /\ UNCHANGED <<round, child, callback, stopped, order, result, requested,
                 start, stopper, heap, pending, rings>>

(* SenderAwaiter::await_suspend after start(): suspend, unless the group   *)
(* has completed meanwhile.                                                *)
AwaitSuspend ==
  /\ co = "starting"
  /\ next = N + 1
  /\ N = 0 => awaiter = "null"
  /\ co' = IF awaiter = "noop" THEN "suspended" ELSE "running"
  /\ awaiter' = "handle"
  /\ UNCHANGED <<round, child, callback, stopped, order, result, requested,
                 start, stopper, heap, pending, rings>>

(* Mutant: the request_stop of the last await goes on with the callbacks   *)
(* of this one.                                                            *)
TokenKept ==
  /\ stopped' = FALSE
  /\ UNCHANGED <<outer, requested>>

(* The token that the next await is connected with.  If it belongs to the  *)
(* same stop source, a stop requested of that is seen again: by            *)
(* stop_requested() in start(), or at once by the callback that            *)
(* chain_token registers.  If it belongs to another source, what is left   *)
(* of the old request_stop finds no callback of the new operations.        *)
Token ==
  \/ /\ outer # "none"
     /\ stopped' = TRUE
     /\ requested' = [outside |-> requested.outside \cup {round + 1},
                      inside |-> requested.inside \cup {round + 1}]
     /\ UNCHANGED outer
  \/ /\ stopped' = FALSE
     /\ outer' = "none"
     /\ UNCHANGED requested

(* The coroutine has its result and the awaiter is destroyed; it awaits    *)
(* the group again, *)
AwaitAgain ==
  /\ co = "running"
  /\ CancellerReset
  /\ round < setup.rounds
  /\ round' = round + 1
  /\ co' = "starting"
  /\ awaiter' = "noop"
  /\ next' = 1
  /\ child' = [i \in Ops |-> "new"]
  /\ callback' = [i \in Ops |-> FALSE]
  /\ Token
  /\ order' = <<>>
  /\ result' = [i \in Ops |-> "none"]
  /\ heap' = heap \cup Boxes(round + 1)
  /\ UNCHANGED <<checked, running, pending, rings>>

(* or returns. *)
End ==
  /\ co = "running"
  /\ CancellerReset
  /\ co' = "ended"
  /\ UNCHANGED <<round, group, start, stopper, heap, pending, rings>>
-----------------------------------------------------------------------------
(* process_cqe_: the event loop runs while the coroutine is suspended.     *)

Reaping == co \in {"suspended", "ended"} /\ cq # <<>>

(* WorkType::Cancel: prepare the cancel entry the message asks for. *)
ProcessCancel ==
  /\ Reaping
  /\ Head(cq).type = "Cancel"
  /\ sq' = Append(sq, CancelSqe(Head(cq).addr))
  /\ cq' = Tail(cq)
  /\ UNCHANGED <<round, co, group, start, stopper, heap, pending, kernel>>

(* Mutant: the multi-shot handle finishes with its first completion. *)
HandleFinishesMore(c) == ~c.notif

(* handle(): does this completion finish the operation for its receiver?   *)
(* A multi-shot handle finishes with the one that has no F_MORE; a         *)
(* zero-copy handle with the first one, before its notification.           *)
HandleFinishes(c) ==
  /\ Kind[c.op] = "multi" => ~c.more
  /\ Kind[c.op] = "zerocopy" => ~c.notif

(* Mutant: the notification is not taken for the last completion. *)
HandleReturnsNoNotif(c) == Kind[c.op] = "single" \/ ~(c.more \/ c.notif)

(* What handle() returns: io_uring will not use the handle again. *)
HandleReturns(c) == Kind[c.op] = "single" \/ ~c.more

(* WorkType::Common. *)
ProcessCommon ==
  LET c == Head(cq) IN
  /\ Reaping
  /\ c.type = "Common"
  /\ cq' = Tail(cq)
  /\ IF HandleFinishes(c) THEN Receive(c.op, c.res)
                          ELSE UNCHANGED <<co, group, sq>>
  /\ heap' = IF HandleReturns(c) THEN heap \ {c.addr} ELSE heap
  /\ pending' = IF HandleReturns(c) THEN pending - 1 ELSE pending
  /\ UNCHANGED <<round, start, stopper, kernel>>
-----------------------------------------------------------------------------
(* A stop requested by another thread (std::stop_source), while the group  *)
(* is being awaited.                                                       *)
RequestStop ==
  /\ setup.stoppable
  /\ outer = "none"
  /\ co \in {"starting", "suspended"}
  /\ awaiter # "null"
  /\ outer' = IF stopped THEN "over" ELSE "running"
  /\ stopped' = TRUE
  /\ requested' = [outside |-> requested.outside \cup {round},
                   inside |-> requested.inside \cup {round}]
  /\ UNCHANGED <<round, co, awaiter, child, callback, order, result, start,
                 running, heap, pending, rings>>

(* It executes the callbacks one by one, *)
RunCallback(i) ==
  /\ outer = "running"
  /\ running = 0
  /\ callback[i]
  /\ callback' = [callback EXCEPT ![i] = FALSE]
  /\ running' = i
  /\ UNCHANGED <<round, co, awaiter, child, stopped, order, result, requested,
                 start, outer, heap, pending, rings>>

(* each of which sends the runtime a message in cancel_internal. *)
CancelInternal ==
  /\ running # 0
  /\ cq' = Append(cq, CancelMsg(Address(running, round)))
  /\ running' = 0
  /\ UNCHANGED <<round, co, group, start, outer, heap, pending, sq, kernel>>

StopReturns ==
  /\ outer = "running"
  /\ running = 0
  /\ \A i \in Ops : ~callback[i]
  /\ outer' = "over"
  /\ UNCHANGED <<round, co, group, start, running, heap, pending, rings>>
-----------------------------------------------------------------------------
(* io_uring.                                                               *)

(* The kernel takes the next entry of the submission queue.  A cancel      *)
(* entry hits the operation that has the address as its user data now.     *)
Submit ==
  LET e == Head(sq) IN
  /\ sq # <<>>
  /\ sq' = Tail(sq)
  /\ kernel' =
       IF e.type = "op"
         THEN kernel \cup {[op |-> e.op, gen |-> e.gen, addr |-> e.addr,
                            shots |-> 0, cancelled |-> FALSE, sent |-> FALSE]}
         ELSE {[k EXCEPT !.cancelled = @ \/ (k.addr = e.addr /\ ~k.sent)] :
                 k \in kernel}
  /\ UNCHANGED <<round, co, group, start, stopper, heap, pending, cq>>

(* A multi-shot operation completes with F_MORE. *)
Shot(k) ==
  /\ Kind[k.op] = "multi"
  /\ k.shots < MaxShots
  /\ cq' = Append(cq, Cqe(k, "ok", TRUE, FALSE))
  /\ kernel' = (kernel \ {k}) \cup {[k EXCEPT !.shots = @ + 1]}
  /\ UNCHANGED <<round, co, group, start, stopper, heap, pending, sq>>

(* An operation completes for good, *)
Complete(k, res) ==
  /\ ~k.sent
  /\ res = "ECANCELED" => k.cancelled
  /\ cq' = Append(cq, Cqe(k, res, FALSE, FALSE))
  /\ kernel' = kernel \ {k}
  /\ UNCHANGED <<round, co, group, start, stopper, heap, pending, sq>>

(* or, when it is zero-copy, with F_MORE and a notification to follow. *)
Sent(k) ==
  /\ Kind[k.op] = "zerocopy"
  /\ ~k.sent
  /\ cq' = Append(cq, Cqe(k, "ok", TRUE, FALSE))
  /\ kernel' = (kernel \ {k}) \cup {[k EXCEPT !.sent = TRUE]}
  /\ UNCHANGED <<round, co, group, start, stopper, heap, pending, sq>>

Notify(k) ==
  /\ k.sent
  /\ cq' = Append(cq, Cqe(k, "ok", FALSE, TRUE))
  /\ kernel' = kernel \ {k}
  /\ UNCHANGED <<round, co, group, start, stopper, heap, pending, sq>>
-----------------------------------------------------------------------------
Start(i) ==
  StartCheck(i) \/ StartStopped(i) \/ StartRejected(i) \/ StartIssue(i)

Thread ==
  \/ (\E i \in Ops : Start(i)) \/ StartEmpty \/ AwaitSuspend
  \/ ProcessCancel \/ ProcessCommon

Stopper == (\E i \in Ops : RunCallback(i)) \/ CancelInternal \/ StopReturns

CompleteCancelled ==
  \E k \in kernel : k.cancelled /\ \E res \in {"ok", "ECANCELED"} : Complete(k, res)

Next ==
  /\ \/ Thread \/ AwaitAgain \/ End
     \/ RequestStop \/ Stopper
     \/ Submit
     \/ \E k \in kernel :
          \/ Shot(k) \/ Sent(k) \/ Notify(k)
          \/ \E res \in {"ok", "ECANCELED"} : Complete(k, res)
  /\ UNCHANGED setup

Spec == Init /\ [][Next]_vars

(* The runtime's thread goes on, request_stop returns, the queue is        *)
(* submitted before the runtime blocks, and the kernel completes an        *)
(* operation it has been told to cancel.  Other operations may last        *)
(* forever.                                                                *)
FairSpec ==
  /\ Spec
  /\ WF_vars(Thread /\ UNCHANGED setup)
  /\ WF_vars(Stopper /\ UNCHANGED setup)
  /\ WF_vars(Submit /\ UNCHANGED setup)
  /\ WF_vars(CompleteCancelled /\ UNCHANGED setup)
-----------------------------------------------------------------------------
(* The state of the awaiter, the group and the handles is well typed and   *)
(* the operations never take more from pending_works_ than they added.     *)
TypeOK ==
  /\ setup \in Setups
  /\ round \in 1..setup.rounds
  /\ co \in {"starting", "suspended", "running", "ended", "crash"}
  /\ awaiter \in {"noop", "handle", "null"}
  /\ next \in 1..N + 1
  /\ checked \in BOOLEAN
  /\ child \in [Ops -> {"new", "pending", "done"}]
  /\ callback \in [Ops -> BOOLEAN]
  /\ stopped \in BOOLEAN
  /\ order \in Seq(Ops)
  /\ result \in [Ops -> {"none", "ok", "EINVAL", "ECANCELED"}]
  /\ outer \in {"none", "running", "over"}
  /\ running \in 0..N
  /\ heap \subseteq Ops \X (1..setup.rounds)
  /\ pending \in Nat

(* io_uring still knows operation i of round g: it is queued, in the       *)
(* kernel, or has a completion to be processed.                            *)
InUse ==
  {<<sq[n].op, sq[n].gen>> : n \in {m \in DOMAIN sq : sq[m].type = "op"}}
  \cup {<<k.op, k.gen>> : k \in kernel}
  \cup {<<cq[n].op, cq[n].gen>> : n \in {m \in DOMAIN cq : cq[m].type = "Common"}}

(* A stop callback only exists, and only runs, while its operation is      *)
(* pending: finish_ resets it first, and waits for it.                     *)
CallbackWhilePending ==
  \A i \in Ops : callback[i] \/ running = i => child[i] = "pending"

(* The other thread only executes callbacks of the await whose stop was    *)
(* requested: each is registered with the token of its own await.          *)
CallbackOfOwnStop == running # 0 => round \in requested.outside

(* The state is well typed, and a completion always finds the handle it is *)
(* for: a handle that io_uring knows is neither destroyed with its awaiter *)
(* nor deleted nor finished, except a zero-copy one that is waiting for    *)
(* its notification on the heap after its receiver has been called.  And a *)
(* zero-copy handle is not leaked: those on the heap are in use or belong  *)
(* to an operation not yet started; and a stop callback finds its          *)
(* operation pending and is run by a stop of its own await.                *)
HandlesLive ==
  /\ TypeOK
  /\ CallbackWhilePending
  /\ CallbackOfOwnStop
  /\ \A u \in InUse :
       IF Kind[u[1]] = "zerocopy" THEN u \in heap
       ELSE u[2] = round /\ child[u[1]] = "pending" /\ co # "running"
  /\ \A h \in heap : h \in InUse \/ (h[2] = round /\ child[h[1]] = "new")

(* pending_works_ counts each operation from its start until the           *)
(* completion that handle() says is the last, so run() does not return     *)
(* while io_uring still knows an operation.                                *)
PendingIsInUse == pending = Cardinality(InUse)

(* The coroutine is resumed once per await and never before every          *)
(* operation of the group has a result, whether the group completes inside *)
(* start() or later (SenderAwaiter's exchange of handle_).                 *)
ResumedOnce ==
  /\ co # "crash"
  /\ co \in {"running", "ended"} =>
       /\ \A i \in Ops : child[i] = "done" /\ result[i] # "none"
       /\ {order[n] : n \in DOMAIN order} = Ops /\ Len(order) = N

(* "it only returns the result of the first completed operation"           *)
(* (docs/guide.md:374): the operation that when_any reports is one that    *)
(* completed by itself, not one that a sibling's completion cancelled.     *)
WinnerNotCancelled ==
  setup.any /\ co = "running" /\ requested.outside = {} =>
    result[Winner] # "ECANCELED"

(* cancel_internal names an operation by its address ("Potential address   *)
(* reuse problem?", runtime.hpp:94): an operation is only cancelled if a   *)
(* stop was requested in its own round.                                    *)
CancelsOwnRound ==
  \A k \in kernel : k.cancelled => k.gen \in requested.inside

(* Once a stop has been requested, by the group or of the group, every     *)
(* operation completes and the coroutine goes on, even if the operations   *)
(* would never complete by themselves and whenever the request comes       *)
(* during start().                                                         *)
StopCompletes == stopped ~> co \in {"running", "ended"}
=============================================================================
