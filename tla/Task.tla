-------------------------------- MODULE Task --------------------------------
(***************************************************************************)
(* The life of a coroutine frame: Coro, Task and the promise state machine *)
(* of detail/coro.hpp.                                                     *)
(*                                                                         *)
(* Two actors meet on the promise of a task t: the coroutine itself, which *)
(* a runtime drives through its body into final_suspend, and the owner of  *)
(* the Task object, who joins or detaches it.  They share the atomic       *)
(* state_ and the union caller_handle_/callback_ and nothing else orders   *)
(* them, so every atomic access is a step of its own: the load that starts *)
(* a compare-exchange loop, the plain write of callback_ inside it, the    *)
(* exchange, and what the winner does next.                                *)
(*                                                                         *)
(* The owner of t is the coroutine Parent[t], or a plain thread when       *)
(* Parent[t] = Main.  A coroutine consumes its children one at a time and  *)
(* is suspended while it joins one; a thread blocks in Task::wait().       *)
(***************************************************************************)
EXTENDS Integers, FiniteSets

CONSTANTS
  Tasks,     \* the coroutines
  Main,      \* stands for the threads outside any runtime
  Parent     \* who owns the Coro, and then the Task, of each coroutine

ASSUME ParentAssumption ==
  /\ Main \notin Tasks
  /\ Parent \in [Tasks -> Tasks \cup {Main}]

VARIABLES
  state,       \* PromiseBase::state_
  callback,    \* the union caller_handle_ / callback_
  exception,   \* exception_ is set
  destroys,    \* how often the frame has been destroyed
  coro,        \* where the coroutine is
  coroExpected,\* `expected` of the loop in FinalAwaiter::await_suspend
  own,         \* where the owner is
  ownExpected, \* `expected` of the loop in request_detach / request_join
  woken,       \* the callback has released the joiner
  pending,     \* what the joiner of a task has added to pending_works_
  panic        \* why panic_on ended the program, "none" while it runs

vars == <<state, callback, exception, destroys, coro, coroExpected, own,
          ownExpected, woken, pending, panic>>

State == {"Idle", "RunningJoinable", "RunningDetached", "RunningJoining",
          "Zombie", "Finished"}

CoroPc == {"created", "queued", "body", "final", "final_destroy",
           "final_callback", "ended"}

OwnPc == {"coro", "marked", "holding", "detach", "detach_destroy", "join",
          "join_cas", "waiting", "result", "inline", "orphaned", "done"}

Panics == {"none", "invalid_state", "wild_callback", "unhandled_exception",
           "unawaited_task"}

InRuntime(t) == Parent[t] # Main

(* The owner is between the first and the last step of one operation. *)
Engaged(t) == own[t] \notin {"coro", "holding", "orphaned", "done"}

(* The owner of t can start an operation on it: a thread always can, a     *)
(* coroutine while its body runs and no other child holds it up.           *)
OwnerFree(t) ==
  InRuntime(t) =>
    /\ coro[Parent[t]] = "body"
    /\ \A u \in Tasks : Parent[u] = Parent[t] => ~Engaged(u)

(* ~PromiseBase ends the program when the exception was not taken. *)
Destroy(t) ==
  /\ destroys' = [destroys EXCEPT ![t] = @ + 1]
  /\ panic' = IF exception[t] THEN "unhandled_exception" ELSE panic
-----------------------------------------------------------------------------
Init ==
  /\ state = [t \in Tasks |-> "Idle"]
  /\ callback = [t \in Tasks |-> "noop"]
  /\ exception = [t \in Tasks |-> FALSE]
  /\ destroys = [t \in Tasks |-> 0]
  /\ coro = [t \in Tasks |-> "created"]
  /\ coroExpected = [t \in Tasks |-> "Idle"]
  /\ own = [t \in Tasks |-> "coro"]
  /\ ownExpected = [t \in Tasks |-> "Idle"]
  /\ woken = [t \in Tasks |-> FALSE]
  /\ pending = [t \in Tasks |-> 0]
  /\ panic = "none"
-----------------------------------------------------------------------------
(* The owner creates a task from a Coro, awaits the Coro, or drops it.     *)

(* co_spawn, first half: release the Coro and mark_running. *)
SpawnMark(t) ==
  /\ own[t] = "coro"
  /\ OwnerFree(t)
  /\ state' = [state EXCEPT ![t] = "RunningJoinable"]
  /\ own' = [own EXCEPT ![t] = "marked"]
  /\ UNCHANGED <<callback, exception, destroys, coro, coroExpected,
                 ownExpected, woken, pending, panic>>

(* co_spawn, second half: schedule_internal; from here on the coroutine    *)
(* may run on another thread.                                              *)
SpawnSchedule(t) ==
  /\ own[t] = "marked"
  /\ coro' = [coro EXCEPT ![t] = "queued"]
  /\ own' = [own EXCEPT ![t] = "holding"]
  /\ UNCHANGED <<state, callback, exception, destroys, coroExpected,
                 ownExpected, woken, pending, panic>>

(* co_await of a Coro: the caller's handle is stored and control transfers *)
(* to the callee on the same thread.                                       *)
AwaitCoro(t) ==
  /\ own[t] = "coro"
  /\ InRuntime(t)
  /\ OwnerFree(t)
  /\ callback' = [callback EXCEPT ![t] = "caller"]
  /\ coro' = [coro EXCEPT ![t] = "body"]
  /\ own' = [own EXCEPT ![t] = "inline"]
  /\ UNCHANGED <<state, exception, destroys, coroExpected, ownExpected,
                 woken, pending, panic>>

(* ~Coro of a coroutine that was never started. *)
DropCoro(t) ==
  /\ own[t] = "coro"
  /\ OwnerFree(t)
  /\ Destroy(t)
  /\ own' = [own EXCEPT ![t] = "done"]
  /\ UNCHANGED <<state, callback, exception, coro, coroExpected,
                 ownExpected, woken, pending>>
-----------------------------------------------------------------------------
(* The coroutine.                                                          *)

(* The runtime pops the promise and resumes it. *)
Invoke(t) ==
  /\ coro[t] = "queued"
  /\ coro' = [coro EXCEPT ![t] = "body"]
  /\ UNCHANGED <<state, callback, exception, destroys, coroExpected, own,
                 ownExpected, woken, pending, panic>>

(* The body returns or throws, its children all consumed, and final_suspend *)
(* loads state_.                                                           *)
Return(t) ==
  /\ coro[t] = "body"
  /\ \A u \in Tasks : Parent[u] = t => own[u] \in {"done", "orphaned"}
  /\ \E thrown \in BOOLEAN : exception' = [exception EXCEPT ![t] = thrown]
  /\ coroExpected' = [coroExpected EXCEPT ![t] = state[t]]
  /\ coro' = [coro EXCEPT ![t] = "final"]
  /\ UNCHANGED <<state, callback, destroys, own, ownExpected, woken, pending,
                 panic>>

(* An awaited Coro returns to its caller and leaves state_ alone. *)
FinalIdle(t) ==
  /\ coro[t] = "final"
  /\ coroExpected[t] = "Idle"
  /\ coro' = [coro EXCEPT ![t] = "ended"]
  /\ own' = [own EXCEPT ![t] =
       IF callback[t] = "caller" THEN "result" ELSE @]
  /\ UNCHANGED <<state, callback, exception, destroys, coroExpected,
                 ownExpected, woken, pending, panic>>

(* What the loop of final_suspend makes of the state it expects, and where *)
(* the coroutine goes after winning the exchange.                          *)
Completable == {"RunningJoinable", "RunningDetached", "RunningJoining"}

FinalDesired(s) == IF s = "RunningJoinable" THEN "Zombie" ELSE "Finished"

(* Mutant: final_suspend destroys a joined coroutine as well. *)
FinalNextPcDestroyJoined(s) ==
  IF s \in {"RunningDetached", "RunningJoining"} THEN "final_destroy" ELSE "ended"

FinalNextPc(s) ==
  CASE s = "RunningDetached" -> "final_destroy"
    [] s = "RunningJoining" -> "final_callback"
    [] OTHER -> "ended"

(* One round of the loop in which the exchange succeeds, or which finds a  *)
(* state that final_suspend has no transition for.                         *)
FinalCas(t) ==
  /\ coro[t] = "final"
  /\ coroExpected[t] # "Idle"
  /\ IF coroExpected[t] \in Completable
       THEN /\ state[t] = coroExpected[t]
            /\ state' = [state EXCEPT ![t] = FinalDesired(@)]
            /\ coro' = [coro EXCEPT ![t] = FinalNextPc(coroExpected[t])]
            /\ UNCHANGED panic
       ELSE /\ panic' = "invalid_state"
            /\ UNCHANGED <<state, coro>>
  /\ UNCHANGED <<callback, exception, destroys, coroExpected, own,
                 ownExpected, woken, pending>>

(* A failed exchange reloads `expected`. (A spurious failure reloads the   *)
(* same value and is a stuttering step.)                                   *)
FinalCasFail(t) ==
  /\ coro[t] = "final"
  /\ coroExpected[t] \in Completable
  /\ state[t] # coroExpected[t]
  /\ coroExpected' = [coroExpected EXCEPT ![t] = state[t]]
  /\ UNCHANGED <<state, callback, exception, destroys, coro, own,
                 ownExpected, woken, pending, panic>>

(* A detached coroutine destroys its own frame. *)
FinalDestroy(t) ==
  /\ coro[t] = "final_destroy"
  /\ Destroy(t)
  /\ coro' = [coro EXCEPT ![t] = "ended"]
  /\ UNCHANGED <<state, callback, exception, coroExpected, own, ownExpected,
                 woken, pending>>

(* A joined coroutine reads callback_ and calls it: TaskWaiter sets the    *)
(* future, TaskAwaiter schedules the suspended caller.                     *)
FinalCallback(t) ==
  /\ coro[t] = "final_callback"
  /\ coro' = [coro EXCEPT ![t] = "ended"]
  /\ IF callback[t] = "joiner"
       THEN woken' = [woken EXCEPT ![t] = TRUE] /\ UNCHANGED panic
       ELSE panic' = "wild_callback" /\ UNCHANGED woken
  /\ UNCHANGED <<state, callback, exception, destroys, coroExpected, own,
                 ownExpected, pending>>
-----------------------------------------------------------------------------
(* The owner consumes the Task.                                            *)

(* The states a consumer may find, for either request. *)
Claimable == {"RunningJoinable", "Zombie"}

(* Task::detach, up to the load in request_detach. *)
Detach(t) ==
  /\ own[t] = "holding"
  /\ OwnerFree(t)
  /\ ownExpected' = [ownExpected EXCEPT ![t] = state[t]]
  /\ own' = [own EXCEPT ![t] = "detach"]
  /\ UNCHANGED <<state, callback, exception, destroys, coro, coroExpected,
                 woken, pending, panic>>

(* Mutant: request_detach does not look at the previous state. *)
DetachCasNoDestroy(t) ==
  /\ own[t] = "detach"
  /\ ownExpected[t] \in Claimable
  /\ state[t] = ownExpected[t]
  /\ state' = [state EXCEPT ![t] =
       IF @ = "Zombie" THEN "Finished" ELSE "RunningDetached"]
  /\ own' = [own EXCEPT ![t] = "done"]
  /\ UNCHANGED <<callback, exception, destroys, coro, coroExpected,
                 ownExpected, woken, pending, panic>>

DetachCas(t) ==
  /\ own[t] = "detach"
  /\ IF ownExpected[t] \in Claimable
       THEN /\ state[t] = ownExpected[t]
            /\ state' = [state EXCEPT ![t] =
                 IF @ = "Zombie" THEN "Finished" ELSE "RunningDetached"]
            /\ own' = [own EXCEPT ![t] =
                 IF state[t] = "Zombie" THEN "detach_destroy" ELSE "done"]
            /\ UNCHANGED panic
       ELSE /\ panic' = "invalid_state"
            /\ UNCHANGED <<state, own>>
  /\ UNCHANGED <<callback, exception, destroys, coro, coroExpected,
                 ownExpected, woken, pending>>

DetachCasFail(t) ==
  /\ own[t] = "detach"
  /\ ownExpected[t] \in Claimable
  /\ state[t] # ownExpected[t]
  /\ ownExpected' = [ownExpected EXCEPT ![t] = state[t]]
  /\ UNCHANGED <<state, callback, exception, destroys, coro, coroExpected,
                 own, woken, pending, panic>>

(* Detaching a coroutine that has already finished destroys it. *)
DetachDestroy(t) ==
  /\ own[t] = "detach_destroy"
  /\ Destroy(t)
  /\ own' = [own EXCEPT ![t] = "done"]
  /\ UNCHANGED <<state, callback, exception, coro, coroExpected, ownExpected,
                 woken, pending>>

(* Task::wait outside a runtime, or co_await of a Task inside one: handle_ *)
(* is given up, a coroutine counts itself as pending work, and             *)
(* request_join loads state_.                                              *)
Join(t) ==
  /\ own[t] = "holding"
  /\ OwnerFree(t)
  /\ pending' = [pending EXCEPT ![t] = IF InRuntime(t) THEN @ + 1 ELSE @]
  /\ ownExpected' = [ownExpected EXCEPT ![t] = state[t]]
  /\ own' = [own EXCEPT ![t] = "join"]
  /\ UNCHANGED <<state, callback, exception, destroys, coro, coroExpected,
                 woken, panic>>

(* Mutant: request_join leaves callback_ to be written after the exchange. *)
JoinWriteLate(t) ==
  /\ own[t] = "join"
  /\ ownExpected[t] \in Claimable
  /\ own' = [own EXCEPT ![t] = "join_cas"]
  /\ UNCHANGED <<state, callback, exception, destroys, coro, coroExpected,
                 ownExpected, woken, pending, panic>>

(* callback_ is written before the exchange that publishes it. *)
JoinWrite(t) ==
  /\ own[t] = "join"
  /\ IF ownExpected[t] \in Claimable
       THEN /\ callback' = [callback EXCEPT ![t] =
                 IF ownExpected[t] = "RunningJoinable" THEN "joiner" ELSE @]
            /\ own' = [own EXCEPT ![t] = "join_cas"]
            /\ UNCHANGED panic
       ELSE /\ panic' = "invalid_state"
            /\ UNCHANGED <<callback, own>>
  /\ UNCHANGED <<state, exception, destroys, coro, coroExpected, ownExpected,
                 woken, pending>>

JoinCas(t) ==
  /\ own[t] = "join_cas"
  /\ state[t] = ownExpected[t]
  /\ state' = [state EXCEPT ![t] =
       IF @ = "Zombie" THEN "Finished" ELSE "RunningJoining"]
  /\ own' = [own EXCEPT ![t] =
       IF ownExpected[t] = "Zombie" THEN "result" ELSE "waiting"]
  /\ UNCHANGED <<callback, exception, destroys, coro, coroExpected,
                 ownExpected, woken, pending, panic>>

(* A failed exchange, real or spurious, goes round the loop again. *)
JoinCasFail(t) ==
  /\ own[t] = "join_cas"
  /\ ownExpected' = [ownExpected EXCEPT ![t] = state[t]]
  /\ own' = [own EXCEPT ![t] = "join"]
  /\ UNCHANGED <<state, callback, exception, destroys, coro, coroExpected,
                 woken, pending, panic>>

(* The future is ready, or the suspended caller has been resumed. *)
Wake(t) ==
  /\ own[t] = "waiting"
  /\ woken[t]
  /\ own' = [own EXCEPT ![t] = "result"]
  /\ UNCHANGED <<state, callback, exception, destroys, coro, coroExpected,
                 ownExpected, woken, pending, panic>>

(* Mutant: await_resume of a Task without resume_work_internal. *)
TakeResultNoResume(t) ==
  /\ own[t] = "result"
  /\ exception' = [exception EXCEPT ![t] = FALSE]
  /\ destroys' = [destroys EXCEPT ![t] = @ + 1]
  /\ own' = [own EXCEPT ![t] = "done"]
  /\ UNCHANGED <<state, callback, coro, coroExpected, ownExpected, woken,
                 pending, panic>>

(* Mutant: the frame of a task that threw is not destroyed. *)
TakeResultLeak(t) ==
  /\ own[t] = "result"
  /\ exception' = [exception EXCEPT ![t] = FALSE]
  /\ destroys' = [destroys EXCEPT ![t] = IF exception[t] THEN @ ELSE @ + 1]
  /\ pending' = [pending EXCEPT ![t] =
       IF InRuntime(t) /\ callback[t] # "caller" THEN @ - 1 ELSE @]
  /\ own' = [own EXCEPT ![t] = "done"]
  /\ UNCHANGED <<state, callback, coro, coroExpected, ownExpected, woken,
                 panic>>

(* The rest of wait() or await_resume(): the exception is taken out of the *)
(* promise, the frame destroyed, and a Task's joiner is no longer pending. *)
TakeResult(t) ==
  /\ own[t] = "result"
  /\ exception' = [exception EXCEPT ![t] = FALSE]
  /\ destroys' = [destroys EXCEPT ![t] = @ + 1]
  /\ pending' = [pending EXCEPT ![t] =
       IF InRuntime(t) /\ callback[t] # "caller" THEN @ - 1 ELSE @]
  /\ own' = [own EXCEPT ![t] = "done"]
  /\ UNCHANGED <<state, callback, coro, coroExpected, ownExpected, woken,
                 panic>>

(* Task::wait inside a runtime: handle_ is exchanged for nullptr before    *)
(* wait_inner_ throws std::logic_error, so nobody owns the frame any more. *)
WaitInRuntime(t) ==
  /\ own[t] = "holding"
  /\ InRuntime(t)
  /\ OwnerFree(t)
  /\ own' = [own EXCEPT ![t] = "orphaned"]
  /\ UNCHANGED <<state, callback, exception, destroys, coro, coroExpected,
                 ownExpected, woken, pending, panic>>

(* ~TaskBase or move-assignment while handle_ is set. *)
DropTask(t) ==
  /\ own[t] = "holding"
  /\ OwnerFree(t)
  /\ panic' = "unawaited_task"
  /\ UNCHANGED <<state, callback, exception, destroys, coro, coroExpected,
                 own, ownExpected, woken, pending>>
-----------------------------------------------------------------------------
CoroStep(t) ==
  \/ Invoke(t) \/ Return(t) \/ FinalIdle(t) \/ FinalCas(t)
  \/ FinalCasFail(t) \/ FinalDestroy(t) \/ FinalCallback(t)

(* Steps of an operation the owner has begun. *)
OwnerStep(t) ==
  \/ SpawnSchedule(t) \/ DetachCas(t) \/ DetachCasFail(t) \/ DetachDestroy(t)
  \/ JoinWrite(t) \/ JoinCas(t) \/ JoinCasFail(t)
  \/ Wake(t) \/ TakeResult(t)

(* The operations user code chooses between. *)
Choose(t) ==
  \/ SpawnMark(t) \/ AwaitCoro(t) \/ DropCoro(t) \/ Detach(t) \/ Join(t)
  \/ WaitInRuntime(t) \/ DropTask(t)

Next ==
  /\ panic = "none"
  /\ \E t \in Tasks : CoroStep(t) \/ OwnerStep(t) \/ Choose(t)

Spec == Init /\ [][Next]_vars

(* The runtime keeps resuming what is queued, user coroutines return, a    *)
(* started operation of the owner goes on, and every owner does something  *)
(* with what it holds.  compare_exchange_weak may fail spuriously but not  *)
(* for ever, hence strong fairness for the exchange in request_join.       *)
Fairness ==
  \A t \in Tasks :
    /\ WF_vars(panic = "none" /\ CoroStep(t))
    /\ WF_vars(panic = "none" /\ OwnerStep(t))
    /\ SF_vars(panic = "none" /\ JoinCas(t))
    /\ SF_vars(panic = "none" /\ Choose(t))

FairSpec == Spec /\ Fairness
-----------------------------------------------------------------------------
(* Every variable has the type its declaration in detail/coro.hpp and      *)
(* detail/task.hpp gives it; no joiner takes more from pending_works_, a   *)
(* size_t, than it has added.                                              *)
TypeOK ==
  /\ state \in [Tasks -> State]
  /\ callback \in [Tasks -> {"noop", "caller", "joiner"}]
  /\ exception \in [Tasks -> BOOLEAN]
  /\ destroys \in [Tasks -> Nat]
  /\ coro \in [Tasks -> CoroPc]
  /\ coroExpected \in [Tasks -> State]
  /\ own \in [Tasks -> OwnPc]
  /\ ownExpected \in [Tasks -> State]
  /\ woken \in [Tasks -> BOOLEAN]
  /\ pending \in [Tasks -> Nat]
  /\ panic \in Panics

(* The coroutine side still reads or writes the frame. *)
CoroTouches(t) ==
  coro[t] \in {"queued", "body", "final", "final_destroy", "final_callback"}

(* The owner side still has the handle and will go through it. *)
OwnerTouches(t) ==
  own[t] \in {"coro", "marked", "holding", "detach", "detach_destroy", "join",
              "join_cas", "waiting", "result", "inline"}

(* Nobody touches a destroyed frame: whoever loses the race between        *)
(* final_suspend and request_join / request_detach must not go back to the *)
(* promise the winner has destroyed.                                       *)
NoUseAfterDestroy ==
  \A t \in Tasks : CoroTouches(t) \/ OwnerTouches(t) => destroys[t] = 0

(* When coroutine and owner are both through with a frame, exactly one of  *)
(* the three destroy() sites (final_suspend, request_detach, the joiner)   *)
(* has destroyed it: no leak and no double free.                           *)
DestroyedOnce ==
  \A t \in Tasks :
    /\ destroys[t] <= 1
    /\ own[t] = "done" /\ coro[t] \in {"created", "ended"} => destroys[t] = 1

(* The program ends only for the two reasons the documentation gives: a    *)
(* Task dropped while joinable, or an exception of a detached task.  The   *)
(* "Invalid coroutine state" panics and the call through a callback_ that  *)
(* nobody wrote are unreachable.                                           *)
OnlyDocumentedPanics ==
  /\ panic \in {"none", "unhandled_exception", "unawaited_task"}
  /\ panic = "unhandled_exception" =>
       \E t \in Tasks : /\ exception[t]
                        /\ own[t] = "done"
                        /\ ~woken[t]
                        /\ state[t] = "Finished"

(* pend_work_internal and resume_work_internal balance: pending_works_     *)
(* counts exactly the coroutines that are joining a Task, also when        *)
(* request_join returned false and nobody was suspended.                   *)
Joining(t) ==
  /\ InRuntime(t)
  /\ \/ own[t] \in {"join", "join_cas", "waiting"}
     \/ own[t] = "result" /\ callback[t] # "caller"

PendingIsJoiners ==
  \A t \in Tasks : pending[t] = IF Joining(t) THEN 1 ELSE 0

(* Once the owner has detached or begun to join task t its frame is        *)
(* eventually destroyed, which for a joiner means that it has returned.    *)
ReclaimedTask(t) ==
  own[t] \notin {"coro", "marked", "holding", "orphaned"}
    ~> (destroys[t] = 1 \/ panic # "none")

(* "Destroying a Task without awaiting or detaching it will cause a panic" *)
(* (task.hpp:29): once the owning coroutine has left its body, every task  *)
(* it spawned has been claimed by a join or a detach.                      *)
NoSilentDrop ==
  \A t \in Tasks :
    InRuntime(t) /\ state[t] \in Claimable =>
      coro[Parent[t]] \in {"created", "queued", "body"}
=============================================================================
