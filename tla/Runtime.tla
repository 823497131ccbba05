------------------------------ MODULE Runtime -------------------------------
(***************************************************************************)
(* Runtimes that schedule work on one another: condy::Runtime of           *)
(* runtime.hpp on top of detail::Ring, and the part of io_uring it uses.   *)
(*                                                                         *)
(* A runtime is identified with the thread that calls its run(); Externals *)
(* are threads without a runtime.  A work is a suspended coroutine, known  *)
(* to the runtime by its WorkInvoker address.  While a runtime executes a  *)
(* coroutine (cur), the coroutine may start an I/O operation, switch to a  *)
(* runtime (co_switch), spawn another one (co_spawn), wait for what some   *)
(* other thread does (a sender of std::execution, a channel, a futex),     *)
(* wake one that waits, call allow_exit, or end.  An action is one access  *)
(* to memory that threads share, with the thread-local code around it; a   *)
(* function with several such accesses (schedule_internal, allow_exit,     *)
(* run) is unfolded into several actions, and call says which access a     *)
(* thread has before it.                                                   *)
(*                                                                         *)
(* The mutex of schedule_internal and run() protects two statements each   *)
(* and is modelled by making the critical section one step.                *)
(***************************************************************************)
EXTENDS Integers, Sequences, FiniteSets, Functions

CONSTANTS
  Runtimes,       \* runtimes, and the threads that run them
  Externals,      \* threads outside any runtime
  Works,          \* coroutines
  Waiters,        \* bound: the coroutines that may wait for another thread
  NoWork,         \* nullptr
  EventInterval,  \* event_interval_
  SqSize,         \* entries of a submission queue
  MaxRuns,        \* bound: how often run() is called on one runtime
  Exits,          \* bound: <<thread, runtime>> that may call allow_exit, once
  BufferedStores  \* a release store may be delayed past a later relaxed load

Threads == Runtimes \cup Externals

ASSUME RuntimeAssumption ==
  /\ Runtimes \cap Externals = {}
  /\ NoWork \notin Works
  /\ Waiters \subseteq Works
  /\ EventInterval \in Nat \ {0}
  /\ SqSize \in Nat \ {0}
  /\ MaxRuns \in Nat
  /\ Exits \subseteq Threads \X Runtimes
  /\ BufferedStores \in BOOLEAN

VARIABLES
  ring_enabled,  \* ring_enabled_
  exit_allowed,  \* exit_allowed_
  storeBuffer,   \* per thread: runtimes whose exit_allowed_ it has set but
                 \* whose new value is not visible to other threads yet
  global_queue,  \* global_queue_
  local_queue,   \* local_queue_
  pending,       \* pending_works_
  tick,          \* tick_count_
  loop,          \* where the thread of a runtime is in run()
  runs,          \* how often run() has been called
  sq,            \* submission queue: filled, not yet submitted
  cq,            \* completion queue
  kernel,        \* submitted, not yet completed
  cur,           \* the coroutine a runtime is executing
  call,          \* the next shared access of a thread inside a call
  waiting,       \* <<w, r>>: w, of r, waits for another thread
  woken,         \* <<w, r>>: ... and has been scheduled, but not resumed
  alive,         \* coroutines spawned and not ended
  ended,         \* coroutines ended
  asked          \* threads that have called allow_exit, with the target

shared == <<ring_enabled, exit_allowed, storeBuffer, global_queue>>
waits == <<waiting, woken>>
local == <<local_queue, pending, tick, loop, runs, waits>>
rings == <<sq, cq, kernel>>
user == <<alive, ended, asked>>
vars == <<shared, local, rings, user, cur, call>>

NoCall == [at |-> "none", to |-> NoWork, work |-> NoWork]

(* Submission entries: an I/O operation whose completion resumes a         *)
(* coroutine, or a message that puts a completion on another ring.         *)
Op(w) == [kind |-> "op", to |-> NoWork, work |-> w]
Msg(r, w) == [kind |-> "msg", to |-> r, work |-> w]

(* Completion entries, by WorkType. *)
Common(w) == [type |-> "Common", work |-> w]
Schedule(w) == [type |-> "Schedule", work |-> w]
Ignore == [type |-> "Ignore", work |-> NoWork]

(* encode_work(work, Schedule), or encode_work(nullptr, Ignore) for a      *)
(* message without work.                                                   *)
Payload(w) == IF w = NoWork THEN Ignore ELSE Schedule(w)

(* An entry of r that the kernel has taken over. *)
Taken(r, e) == [from |-> r, entry |-> e]
-----------------------------------------------------------------------------
Init ==
  /\ ring_enabled = [r \in Runtimes |-> FALSE]
  /\ exit_allowed = [r \in Runtimes |-> FALSE]
  /\ storeBuffer = [t \in Threads |-> {}]
  /\ global_queue = [r \in Runtimes |-> <<>>]
  /\ local_queue = [r \in Runtimes |-> <<>>]
  /\ pending = [r \in Runtimes |-> 0]
  /\ tick = [r \in Runtimes |-> 0]
  /\ loop = [r \in Runtimes |-> "idle"]
  /\ runs = [r \in Runtimes |-> 0]
  /\ sq = [r \in Runtimes |-> <<>>]
  /\ cq = [r \in Runtimes |-> <<>>]
  /\ kernel = {}
  /\ cur = [r \in Runtimes |-> NoWork]
  /\ call = [t \in Threads |-> NoCall]
  /\ waiting = {}
  /\ woken = {}
  /\ alive = {}
  /\ ended = {}
  /\ asked = {}
-----------------------------------------------------------------------------
(* Ring.                                                                   *)

(* io_uring_submit: the kernel takes everything in the queue. *)
Submitted(r) == {Taken(r, sq[r][i]) : i \in DOMAIN sq[r]}

(* get_sqe followed by the preparation of entry e; a full queue is         *)
(* submitted first.                                                        *)
GetSqe(r, e) ==
  IF Len(sq[r]) = SqSize
    THEN /\ kernel' = kernel \cup Submitted(r)
         /\ sq' = [sq EXCEPT ![r] = <<e>>]
    ELSE /\ sq' = [sq EXCEPT ![r] = Append(@, e)]
         /\ UNCHANGED kernel

(* The kernel completes an operation. *)
CompleteOp(k) ==
  /\ k \in kernel
  /\ k.entry.kind = "op"
  /\ cq' = [cq EXCEPT ![k.from] = Append(@, Common(k.entry.work))]
  /\ kernel' = kernel \ {k}
  /\ UNCHANGED <<shared, local, sq, user, cur, call>>

(* The kernel executes a message: a completion on the target ring, and one *)
(* on the sender's with the user data (nullptr, Schedule) of prep_msg_ring_. *)
DeliverMsg(k) ==
  /\ k \in kernel
  /\ k.entry.kind = "msg"
  /\ cq' = [cq EXCEPT ![k.entry.to] = Append(@, Payload(k.entry.work)),
                      ![k.from] = Append(@, Schedule(NoWork))]
  /\ kernel' = kernel \ {k}
  /\ UNCHANGED <<shared, local, sq, user, cur, call>>
-----------------------------------------------------------------------------
(* schedule_internal(w) of runtime `to` by thread t, up to and including   *)
(* the relaxed load of ring_enabled_ outside the mutex.                    *)
ScheduleInternal(t, to, w) ==
  IF to = t
    THEN /\ local_queue' = [local_queue EXCEPT ![t] = Append(@, w)]
         /\ UNCHANGED call
    ELSE /\ call' = [call EXCEPT ![t] =
              [at |-> IF ring_enabled[to] THEN "send" ELSE "lock",
               to |-> to, work |-> w]]
         /\ UNCHANGED local_queue

(* Mutant: the slow path queues without loading ring_enabled_ again. *)
ScheduleLockedNoRecheck(t) ==
  LET r == call[t].to IN
  /\ call[t].at = "lock"
  /\ global_queue' = [global_queue EXCEPT ![r] = Append(@, call[t].work)]
  /\ call' = [call EXCEPT ![t] = NoCall]
  /\ UNCHANGED <<ring_enabled, exit_allowed, storeBuffer, local, rings,
                 user, cur>>

(* Mutant: after queueing, the slow path falls through to the message. *)
ScheduleLockedFallThrough(t) ==
  LET r == call[t].to IN
  /\ call[t].at = "lock"
  /\ global_queue' = IF ring_enabled[r] THEN global_queue
       ELSE [global_queue EXCEPT ![r] = Append(@, call[t].work)]
  /\ call' = [call EXCEPT ![t].at = "send"]
  /\ UNCHANGED <<ring_enabled, exit_allowed, storeBuffer, local, rings,
                 user, cur>>

(* The critical section of the slow path: load again, or queue. *)
ScheduleLocked(t) ==
  LET r == call[t].to IN
  /\ call[t].at = "lock"
  /\ IF ring_enabled[r]
       THEN /\ call' = [call EXCEPT ![t].at = "send"]
            /\ UNCHANGED global_queue
       ELSE /\ global_queue' = [global_queue EXCEPT ![r] =
                                  Append(@, call[t].work)]
            /\ call' = [call EXCEPT ![t] = NoCall]
  /\ UNCHANGED <<ring_enabled, exit_allowed, storeBuffer, local, rings,
                 user, cur>>

(* schedule_msg_ring_.  From a runtime the message waits in the sender's   *)
(* own queue and counts as its pending work; wakeup_ also submits it.      *)
(* From a plain thread sync_msg_ring posts it at once.  Entering the       *)
(* kernel makes earlier stores visible.                                    *)
ScheduleMsgRing(t) ==
  LET to == call[t].to
      w  == call[t].work
  IN
  /\ call[t].at = "send"
  /\ storeBuffer[t] = {}
  /\ IF t \in Runtimes
       THEN /\ pending' = [pending EXCEPT ![t] = @ + 1]
            /\ IF w = NoWork
                 THEN /\ kernel' = kernel \cup Submitted(t)
                                          \cup {Taken(t, Msg(to, w))}
                      /\ sq' = [sq EXCEPT ![t] = <<>>]
                 ELSE GetSqe(t, Msg(to, w))
            /\ UNCHANGED cq
       ELSE /\ cq' = [cq EXCEPT ![to] = Append(@, Payload(w))]
            /\ UNCHANGED <<pending, sq, kernel>>
  /\ call' = [call EXCEPT ![t] = NoCall]
  /\ UNCHANGED <<shared, local_queue, tick, loop, runs, user, cur, waits>>

(* wakeup_: the relaxed load of ring_enabled_, which need not wait for the *)
(* store of exit_allowed_ before it to become visible.                     *)
Wakeup(t) ==
  /\ call[t].at = "wakeup"
  /\ BufferedStores \/ storeBuffer[t] = {}
  /\ call' = [call EXCEPT ![t] =
       IF ring_enabled[@.to] THEN [@ EXCEPT !.at = "send"] ELSE NoCall]
  /\ UNCHANGED <<shared, local, rings, user, cur>>

(* The processor makes a buffered store visible. *)
Drain(t, r) ==
  /\ r \in storeBuffer[t]
  /\ exit_allowed' = [exit_allowed EXCEPT ![r] = TRUE]
  /\ storeBuffer' = [storeBuffer EXCEPT ![t] = @ \ {r}]
  /\ UNCHANGED <<ring_enabled, global_queue, local, rings, user, cur, call>>
-----------------------------------------------------------------------------
(* What user code does: a coroutine while a runtime executes it, or an     *)
(* external thread.                                                        *)

Executing(t) == call[t] = NoCall /\ (t \in Runtimes => cur[t] # NoWork)

(* OpSenderOperationState::start: the operation is queued, its coroutine   *)
(* suspends and counts as pending.                                         *)
StartOp(r) ==
  /\ Executing(r)
  /\ GetSqe(r, Op(cur[r]))
  /\ pending' = [pending EXCEPT ![r] = @ + 1]
  /\ cur' = [cur EXCEPT ![r] = NoWork]
  /\ UNCHANGED <<shared, local_queue, tick, loop, runs, cq, user, call,
                 waits>>

(* co_switch: SwitchAwaiter::await_suspend schedules the suspended         *)
(* coroutine on the target, possibly the current runtime.                  *)
CoSwitch(r, to) ==
  /\ Executing(r)
  /\ ScheduleInternal(r, to, cur[r])
  /\ cur' = [cur EXCEPT ![r] = NoWork]
  /\ UNCHANGED <<shared, pending, tick, loop, runs, rings, user, waits>>

(* co_spawn of a new coroutine, from a coroutine or from an external       *)
(* thread, which does so before it allows the target to exit.              *)
CoSpawn(t, to, w) ==
  /\ Executing(t)
  /\ t \in Externals => <<t, to>> \notin asked
  /\ w \notin alive \cup ended
  /\ alive' = alive \cup {w}
  /\ ScheduleInternal(t, to, w)
  /\ UNCHANGED <<shared, pending, tick, loop, runs, rings, ended, asked,
                 cur, waits>>

(* A coroutine waits for another thread: WaitSenderAwaiter::await_suspend  *)
(* (so do Futex::WaitFinishHandle and the handles of Channel) counts it as *)
(* pending and leaves its address with what it waits for;                  *)
Wait(r) ==
  /\ Executing(r)
  /\ cur[r] \in Waiters
  /\ waiting' = waiting \cup {<<cur[r], r>>}
  /\ pending' = [pending EXCEPT ![r] = @ + 1]
  /\ cur' = [cur EXCEPT ![r] = NoWork]
  /\ UNCHANGED <<shared, local_queue, woken, tick, loop, runs, rings, user,
                 call>>

(* and a thread that completes it schedules it on its runtime.             *)
Wake(t, to, w) ==
  /\ Executing(t)
  /\ <<w, to>> \in waiting
  /\ waiting' = waiting \ {<<w, to>>}
  /\ woken' = woken \cup {<<w, to>>}
  /\ ScheduleInternal(t, to, w)
  /\ UNCHANGED <<shared, pending, tick, loop, runs, rings, user, cur>>

(* Mutant: allow_exit without wakeup_. *)
AllowExitNoWakeup(t, to) ==
  /\ Executing(t)
  /\ <<t, to>> \in Exits \ asked
  /\ asked' = asked \cup {<<t, to>>}
  /\ exit_allowed' = [exit_allowed EXCEPT ![to] = TRUE]
  /\ UNCHANGED <<ring_enabled, global_queue, storeBuffer, local, rings,
                 alive, ended, cur, call>>

(* allow_exit: the release store of exit_allowed_, then wakeup_, which     *)
(* does nothing on the runtime's own thread.                               *)
AllowExit(t, to) ==
  /\ Executing(t)
  /\ <<t, to>> \in Exits \ asked
  /\ asked' = asked \cup {<<t, to>>}
  /\ IF to # t
       THEN /\ storeBuffer' = [storeBuffer EXCEPT ![t] = @ \cup {to}]
            /\ UNCHANGED exit_allowed
       ELSE /\ exit_allowed' = [exit_allowed EXCEPT ![to] = TRUE]
            /\ UNCHANGED storeBuffer
  /\ call' = IF to = t THEN call ELSE [call EXCEPT ![t] =
               [at |-> "wakeup", to |-> to, work |-> NoWork]]
  /\ UNCHANGED <<ring_enabled, global_queue, local, rings, alive, ended,
                 cur>>

(* The coroutine runs to its end. *)
End(r) ==
  /\ Executing(r)
  /\ alive' = alive \ {cur[r]}
  /\ ended' = ended \cup {cur[r]}
  /\ cur' = [cur EXCEPT ![r] = NoWork]
  /\ UNCHANGED <<shared, local, rings, asked, call>>
-----------------------------------------------------------------------------
(* run().                                                                  *)

(* The loop continues once the coroutine it resumed has suspended. *)
At(r, label) == loop[r] = label /\ cur[r] = NoWork /\ call[r] = NoCall
MoveTo(r, label) == loop' = [loop EXCEPT ![r] = label]

(* The first call takes over the global queue and enables the ring, in one *)
(* critical section. *)
RunFirst(r) ==
  /\ At(r, "idle")
  /\ runs[r] = 0
  /\ runs[r] < MaxRuns
  /\ runs' = [runs EXCEPT ![r] = 1]
  /\ local_queue' = [local_queue EXCEPT ![r] = @ \o global_queue[r]]
  /\ global_queue' = [global_queue EXCEPT ![r] = <<>>]
  /\ ring_enabled' = [ring_enabled EXCEPT ![r] = TRUE]
  /\ MoveTo(r, "loop")
  /\ UNCHANGED <<exit_allowed, storeBuffer, pending, tick, rings, user, cur,
                 call, waits>>

(* A later call starts with flush_ring_. *)
RunAgain(r) ==
  /\ At(r, "idle")
  /\ runs[r] \in 1..MaxRuns - 1
  /\ runs' = [runs EXCEPT ![r] = @ + 1]
  /\ MoveTo(r, "flush_run")
  /\ UNCHANGED <<shared, local_queue, pending, tick, rings, user, cur, call,
                 waits>>

(* Mutant: the loop never reaches event_interval_. *)
TickNoFlush(r) ==
  /\ At(r, "loop")
  /\ MoveTo(r, "pop")
  /\ UNCHANGED <<shared, local_queue, pending, tick, runs, rings, user, cur,
                 call, waits>>

(* The head of the loop: every event_interval_-th round flushes the ring.  *)
Tick(r) ==
  /\ At(r, "loop")
  /\ tick' = [tick EXCEPT ![r] = (@ + 1) % EventInterval]
  /\ MoveTo(r, IF tick[r] + 1 >= EventInterval THEN "flush_tick" ELSE "pop")
  /\ UNCHANGED <<shared, local_queue, pending, runs, rings, user, cur, call,
                 waits>>

(* The loop resumes w, if any, and n operations count no longer.  The      *)
(* await_resume, or invoke(), of a coroutine that has waited ends its      *)
(* pending work.                                                           *)
Resume(r, w, n) ==
  /\ cur' = [cur EXCEPT ![r] = w]
  /\ pending' = [pending EXCEPT ![r] =
                   @ - n - IF <<w, r>> \in woken THEN 1 ELSE 0]
  /\ woken' = woken \ {<<w, r>>}

(* local_queue_.pop_front() and resume, or go on to the exit check. *)
Pop(r) ==
  /\ At(r, "pop")
  /\ IF local_queue[r] = <<>>
       THEN MoveTo(r, "check") /\ UNCHANGED <<local_queue, pending, woken, cur>>
       ELSE /\ Resume(r, Head(local_queue[r]), 0)
            /\ local_queue' = [local_queue EXCEPT ![r] = Tail(@)]
            /\ MoveTo(r, "loop")
  /\ UNCHANGED <<shared, waiting, tick, runs, rings, user, call>>

(* Mutant: the exit check looks at exit_allowed_ only. *)
CheckExitNoPending(r) ==
  /\ At(r, "check")
  /\ IF exit_allowed[r]
       THEN MoveTo(r, "exit") /\ UNCHANGED <<sq, kernel>>
       ELSE /\ kernel' = kernel \cup Submitted(r)
            /\ sq' = [sq EXCEPT ![r] = <<>>]
            /\ MoveTo(r, "blocked")
  /\ UNCHANGED <<shared, local_queue, pending, tick, runs, cq, user, cur,
                 call, waits>>

(* Break, or io_uring_submit_and_wait: submit everything and block. *)
CheckExit(r) ==
  /\ At(r, "check")
  /\ IF pending[r] = 0 /\ exit_allowed[r]
       THEN MoveTo(r, "exit") /\ UNCHANGED <<sq, kernel>>
       ELSE /\ kernel' = kernel \cup Submitted(r)
            /\ sq' = [sq EXCEPT ![r] = <<>>]
            /\ MoveTo(r, "blocked")
  /\ UNCHANGED <<shared, local_queue, pending, tick, runs, cq, user, cur,
                 call, waits>>

(* The defers of run(), after break. *)
Exit(r) ==
  /\ At(r, "exit")
  /\ tick' = [tick EXCEPT ![r] = 0]
  /\ exit_allowed' = [exit_allowed EXCEPT ![r] = FALSE]
  /\ MoveTo(r, "idle")
  /\ UNCHANGED <<ring_enabled, storeBuffer, global_queue, local_queue,
                 pending, runs, rings, user, cur, call, waits>>

(* io_uring_submit_and_wait returns when there is a completion. *)
Unblock(r) ==
  /\ At(r, "blocked")
  /\ cq[r] # <<>>
  /\ MoveTo(r, "flush_wait")
  /\ UNCHANGED <<shared, local_queue, pending, tick, runs, rings, user, cur,
                 call, waits>>

(* Where flush_ring_ or flush_ring_wait_ goes when the queue is empty. *)
FlushNext == [flush_run |-> "loop", flush_tick |-> "pop", flush_wait |-> "loop"]

(* Mutant: the completion of a message is not counted as resumed work. *)
ProcessCqeNoAck(r) ==
  LET c == Head(cq[r]) IN
  /\ loop[r] \in DOMAIN FlushNext
  /\ At(r, loop[r])
  /\ cq[r] # <<>>
  /\ cq' = [cq EXCEPT ![r] = Tail(@)]
  /\ Resume(r, c.work, IF c.type = "Common" THEN 1 ELSE 0)
  /\ UNCHANGED <<shared, local_queue, waiting, tick, loop, runs, sq, kernel,
                 user, call>>

(* process_cqe_ for the next completion.  (resume_work_internal comes      *)
(* after an operation's coroutine has run; only this thread's exit check   *)
(* reads the count, and not before that.)                                  *)
ProcessCqe(r) ==
  LET c == Head(cq[r]) IN
  /\ loop[r] \in DOMAIN FlushNext
  /\ At(r, loop[r])
  /\ cq[r] # <<>>
  /\ cq' = [cq EXCEPT ![r] = Tail(@)]
  /\ Resume(r, c.work,
            IF c = Schedule(NoWork) \/ c.type = "Common" THEN 1 ELSE 0)
  /\ UNCHANGED <<shared, local_queue, waiting, tick, loop, runs, sq, kernel,
                 user, call>>

(* io_uring_for_each_cqe looks at the queue again after each completion    *)
(* and ends when it is empty.                                              *)
FlushDone(r) ==
  /\ loop[r] \in DOMAIN FlushNext
  /\ At(r, loop[r])
  /\ cq[r] = <<>>
  /\ MoveTo(r, FlushNext[loop[r]])
  /\ UNCHANGED <<shared, local_queue, pending, tick, runs, rings, user, cur,
                 call, waits>>
-----------------------------------------------------------------------------
Loop(r) ==
  \/ Tick(r) \/ Pop(r) \/ CheckExit(r) \/ Exit(r) \/ Unblock(r)
  \/ ProcessCqe(r) \/ FlushDone(r)

CallStep(t) == ScheduleLocked(t) \/ ScheduleMsgRing(t) \/ Wakeup(t)

Suspend(r) ==
  StartOp(r) \/ Wait(r) \/ End(r) \/ \E to \in Runtimes : CoSwitch(r, to)

Next ==
  \/ \E k \in kernel : CompleteOp(k) \/ DeliverMsg(k)
  \/ \E r \in Runtimes : RunFirst(r) \/ RunAgain(r) \/ Loop(r) \/ Suspend(r)
  \/ \E t \in Threads : CallStep(t)
  \/ \E t \in Threads, to \in Runtimes :
       \/ Drain(t, to)
       \/ AllowExit(t, to)
       \/ \E w \in Works : CoSpawn(t, to, w) \/ Wake(t, to, w)

Spec == Init /\ [][Next]_vars

(* Threads make progress inside the library, the kernel completes what it  *)
(* was given, stores become visible, and a coroutine that is being         *)
(* executed suspends or ends.  Nobody has to call anything.                *)
Fairness ==
  /\ \A r \in Runtimes : WF_vars(Loop(r)) /\ WF_vars(Suspend(r))
  /\ \A t \in Threads : WF_vars(CallStep(t))
  /\ \A t \in Threads, r \in Runtimes : WF_vars(Drain(t, r))
  /\ \A r \in Runtimes, w \in Works : WF_vars(CompleteOp(Taken(r, Op(w))))
  /\ \A r, to \in Runtimes, w \in Works \cup {NoWork} :
       WF_vars(DeliverMsg(Taken(r, Msg(to, w))))

FairSpec == Spec /\ Fairness
-----------------------------------------------------------------------------
LoopPc == {"idle", "loop", "pop", "check", "blocked", "exit"}
          \cup DOMAIN FlushNext

CallPc == {"none", "lock", "send", "wakeup"}

Entry == {Op(w) : w \in Works}
         \cup {Msg(r, w) : r \in Runtimes, w \in Works \cup {NoWork}}

Completion == {Common(w) : w \in Works}
              \cup {Schedule(w) : w \in Works \cup {NoWork}} \cup {Ignore}

(* The state of Runtime (runtime.hpp:418-443) is well typed and            *)
(* pending_works_, a size_t, never goes below zero.                        *)
TypeOK ==
  /\ ring_enabled \in [Runtimes -> BOOLEAN]
  /\ exit_allowed \in [Runtimes -> BOOLEAN]
  /\ storeBuffer \in [Threads -> SUBSET Runtimes]
  /\ global_queue \in [Runtimes -> Seq(Works)]
  /\ local_queue \in [Runtimes -> Seq(Works)]
  /\ pending \in [Runtimes -> Nat]
  /\ tick \in [Runtimes -> 0..EventInterval - 1]
  /\ loop \in [Runtimes -> LoopPc]
  /\ runs \in [Runtimes -> 0..MaxRuns]
  /\ sq \in [Runtimes -> Seq(Entry)]
  /\ cq \in [Runtimes -> Seq(Completion)]
  /\ kernel \subseteq {Taken(r, e) : r \in Runtimes, e \in Entry}
  /\ cur \in [Runtimes -> Works \cup {NoWork}]
  /\ call \in [Threads -> [at : CallPc, to : Runtimes \cup {NoWork},
                           work : Works \cup {NoWork}]]
  /\ waiting \cup woken \subseteq Works \X Runtimes
  /\ alive \subseteq Works
  /\ ended \subseteq Works
  /\ asked \subseteq Threads \X Runtimes

(* The places of each kind that hold coroutine w. *)
InGlobal(w) == {r \in Runtimes : w \in Range(global_queue[r])}
InLocal(w) == {r \in Runtimes : w \in Range(local_queue[r])}
InSq(w) == {r \in Runtimes : \E e \in Range(sq[r]) : e.work = w}
InKernel(w) == {r \in Runtimes : \E k \in kernel : k.from = r /\ k.entry.work = w}
InCq(w) == {r \in Runtimes : \E c \in Range(cq[r]) : c.work = w}
InCur(w) == {r \in Runtimes : cur[r] = w}
InCall(w) == {t \in Threads : call[t].work = w}
InWaiting(w) == {r \in Runtimes : <<w, r>> \in waiting}

Places(w) ==
  ({"global"} \X InGlobal(w)) \cup ({"local"} \X InLocal(w))
  \cup ({"sq"} \X InSq(w)) \cup ({"kernel"} \X InKernel(w))
  \cup ({"cq"} \X InCq(w)) \cup ({"cur"} \X InCur(w))
  \cup ({"call"} \X InCall(w)) \cup ({"waiting"} \X InWaiting(w))

(* w is in one place if it has been spawned and has not ended, else in     *)
(* none.                                                                   *)
InOnePlace(w) ==
  /\ w \in alive <=> Places(w) # {}
  /\ \A p, q \in Places(w) : p = q

(* No place holds a coroutine twice. *)
Once(q) ==
  \A i, j \in DOMAIN q : q[i].work = q[j].work /\ q[i].work # NoWork => i = j

HeldOnce ==
  /\ \A r \in Runtimes :
       /\ IsInjective(global_queue[r]) /\ IsInjective(local_queue[r])
       /\ Once(sq[r]) /\ Once(cq[r])
  /\ \A k, l \in kernel :
       k.entry.work = l.entry.work /\ k.entry.work # NoWork => k = l

(* The state is well typed, and a coroutine that has been spawned and has  *)
(* not ended is in exactly one place, once: schedule_internal never loses  *)
(* a work and never queues it twice, whichever of its three paths it takes *)
(* while run() enables the ring.                                           *)
WorkInOnePlace ==
  /\ TypeOK
  /\ HeldOnce
  /\ \A w \in Works : InOnePlace(w)

(* What counts as pending work of r: its operations and messages, queued,  *)
(* in the kernel or completed but not processed, and its coroutines that   *)
(* wait for another thread until they are resumed.                         *)
KernelOf(r) == {k \in kernel : k.from = r}
Finished(r) == {i \in DOMAIN cq[r] :
                  cq[r][i].type = "Common" \/ cq[r][i] = Schedule(NoWork)}
WaitersOf(r) == {w \in Works : <<w, r>> \in waiting \cup woken}
Outstanding(r) ==
  Len(sq[r]) + Cardinality(KernelOf(r)) + Cardinality(Finished(r))
  + Cardinality(WaitersOf(r))

(* pend_work_internal and resume_work_internal balance: pending_works_ is  *)
(* the number of operations, messages and waits of r that are outstanding. *)
PendingIsOutstanding == \A r \in Runtimes : pending[r] = Outstanding(r)

(* Once ring_enabled_ is set nothing is left or put in global_queue_,      *)
(* which run() never looks at again.                                       *)
GlobalQueueClosed ==
  \A r \in Runtimes : ring_enabled[r] => global_queue[r] = <<>>

(* "Runs the event loop [...] until there are no pending works"            *)
(* (runtime.hpp:132): after the break no own operation, message, wait or   *)
(* ready work is left, so a coroutine that another thread will wake has a  *)
(* running runtime, and a message to another runtime is never stranded in  *)
(* the queue of a runtime that has stopped submitting, or in a queue that  *)
(* run() does not look at.                                                 *)
ExitIsQuiet ==
  /\ GlobalQueueClosed
  /\ \A r \in Runtimes :
       loop[r] \in {"exit", "idle"} => Outstanding(r) = 0 /\ local_queue[r] = <<>>

(* A work that is queued on a runtime in its loop is eventually executed   *)
(* even if other coroutines never stop rescheduling themselves there       *)
(* (event_interval_), unless the runtime exits.                            *)
PostedWorkRuns ==
  \A r \in Runtimes, w \in Works :
    (loop[r] # "idle" /\ \E i \in DOMAIN cq[r] : cq[r][i].work = w)
      ~> (cur[r] = w \/ loop[r] = "idle")

(* allow_exit reaches a runtime that has nothing to do: it does not stay   *)
(* blocked in reap_completions_wait ("Wakeup the runtime if it's blocked", *)
(* runtime.hpp:329).                                                       *)
ExitWakesRuntime ==
  \A r \in Runtimes :
    (\E t \in Threads : <<t, r>> \in asked) /\ runs[r] = 1
      /\ loop[r] = "blocked" /\ pending[r] = 0
      ~> loop[r] # "blocked"

(* "allow the runtime to exit when there are no tasks" (docs/guide.md:68): *)
(* run() does not break while the completion queue holds a coroutine that  *)
(* was scheduled on this runtime.                                          *)
ExitLeavesNoTask ==
  [][\A r \in Runtimes :
       loop[r] = "check" /\ loop'[r] = "exit" =>
         \A i \in DOMAIN cq[r] : cq[r][i].work = NoWork]_vars
=============================================================================
