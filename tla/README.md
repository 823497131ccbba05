# condy in TLA+

condy is a header-only C++20 coroutine runtime on io_uring. This directory
holds TLA+ modules translated from `src/include/condy` and from the example
programs that are protocols of their own, the configurations with which TLC
checks them, and TLAPS proofs of what holds for every number of tasks,
runtimes, threads, queues and items. `PROJECT.json` says for every definition which lines it
translates, for every property which run checks it and which change of the
code would break it, and which hazards of the code it is aimed at.

## The system

| Part | State | Operations | What makes it hard |
|---|---|---|---|
| Coroutine and task (`detail/coro.hpp`, `detail/task.hpp`, `coro.hpp`, `task.hpp`) | the promise's atomic `state_`, the union `caller_handle_`/`callback_`, the exception, the frame itself | `co_spawn`, `co_await` of a Coro or a Task, `detach`, `wait`, final suspend, destructors | final suspend and the owner race on `state_`; who loses must not touch the frame |
| Runtime (`runtime.hpp`, `detail/ring.hpp`) | global and local queue, `ring_enabled_`, `exit_allowed_`, `pending_works_`, the two rings | `schedule_internal`, `allow_exit`, `run`, the flushes, `process_cqe_` | three ways to schedule, picked by a flag that another thread changes; relaxed loads; an exit test over several counters |
| Operations (`detail/op_states.hpp`, `detail/finish_handles.hpp`) | awaiter, operation states, finish handles reached by address, stop callbacks | start, finish, cancel, `when_all`, `when_any`, fixed and ranged | completions, cancels and stops of another thread in any order; handles on the frame or on the heap |
| Links (`detail/op_states.hpp`, `detail/ring.hpp`) | submission queue, `maybe_submit_count_` | `link`, `hard_link`, `reserve_space`, `get_sqe_` | a submission in the middle of a chain cuts it |
| Channel (`channel.hpp`) | ring buffer, two lists of waiters, mutex | push, pop, the try and force variants, close, cancel | matching, cancelling and closing meet on one handle |
| Futex (`futex.hpp`) | list of waiters, mutex | wait, notify, cancel | the list is moved out of the lock's reach |
| Intrusive lists (`detail/intrusive.hpp`) | links, head and tail | push, pop, remove, splice, move | a handle finds out from its own links whether it is listed |
| Provided buffers (`provided_buffers.hpp`), zero-copy receive (`zcrx.hpp`) | rings shared with the kernel, 16- and 32-bit indices | push, `handle_finish`, return of a buffer | indices wrap; a completion covers several buffers; order of completions |
| Registration (`provided_buffers.hpp`, `zcrx.hpp`, `detail/utils.hpp`) | ids of buffer groups, rings registered, memory mapped | constructors with what can fail in them, destructors | a constructor that throws half-way; ids that run out and come back |
| Options and ring creation (`runtime_options.hpp`, `runtime.hpp`) | the options set so far | the setters, `create_ring_` | the kernel refuses combinations that the setters must exclude in any order |
| std::execution (`detail/execution.hpp`) | an awaiter, pending work | `get_scheduler`, `wait_sender` | completion comes from any thread |
| Queues (`examples/queue-condy-futex.cpp`, `queue-kernel-futex.cpp`) | mutex, condition variables or semaphores, made of futexes | enqueue, dequeue | lost wakeups; the generation counter wraps |
| File copy (`examples/link-cp.cpp`) | an offset all tasks share, registered files and buffers | tasks of linked read and write | who has which chunk; registration ends after the tasks |
| Block device and file system (`examples/ublk-loop.cpp`, `fuse-prime-fs.cpp`) | mapped memory, file tables, a runtime per queue | set up, serve, abort, tear down | teardown against loops of other threads; every call may fail |

A coroutine is a `WorkInvoker` that runtimes pass around by address. Tasks,
channels, futexes and foreign senders end in `Runtime::schedule_internal`;
operations end in `Runtime::process_cqe_`; all of them keep `run()` from
returning through `pending_works_`. Each module below models its own side of
this contract: that a handle is scheduled once and that pending work balances.

## The modules

**Task** is the life of coroutine frames. One promise per member of `Tasks`,
owned by the coroutine or thread `Parent[t]`. Every atomic access is a step:
the load before a compare-exchange loop, the plain write of `callback_`, the
exchange (which may fail and reload), what the winner does. `coro[t]` and
`own[t]` are the places of the coroutine and of its owner. Destroying a frame
counts in `destroys`; `panic_on` sets `panic`, which ends the behaviour.

**Runtime** is several runtimes and plain threads. One step per access to
shared memory; `call[t]` is the access a thread has before it. Submission
and completion queues, and the kernel that moves entries between them, are
explicit; a message to another ring is an entry whose own completion the
sender counts. A coroutine that waits for another thread (`wait_sender`, and
in the same way a futex or a channel) is `Wait`, `Wake` and `Resume`. With
`BufferedStores` the store of `exit_allowed_` may become visible after the
load that follows it, which release and relaxed order permit.

**Operation** is one coroutine that awaits a group again and again, so that
handles of a later round have the addresses of the earlier one. A group is a
record: kinds of its operations, `when_any` or `when_all`, a pack or a vector,
with a stop token or without. The kernel completes operations at will; another
thread may request a stop at any time and runs the callbacks one by one. The
next await takes a token of the same stop source, and then sees a stop that
was requested of it, or of another source, whose callbacks are its own
(`Token`).

**Link** is several coroutines of one runtime whose operations share a
submission queue; the kernel makes chains of the link flags, per submission.

**ChannelSpec** is what a channel promises: one line of items, of which the
first `Cap` have a place of their own. **Channel** is the code: waiter lists,
ring buffer with wrapping indices, stop callbacks, destruction. `IsFifo` is
the refinement: line = buffer followed by the waiting pushes.

**IntrusiveList** defines the list operations on a memory of links.
**Lists** runs them next to sequences; **Futex** uses them for its waiters.

**FutexState** is what a futex is to its users, as operators on a record of
its value, its sleepers and those woken. **FutexSpec** makes a specification
of it, in which every operation takes effect at once; Futex implements it
(`IsFutex`). The example queues use the operators directly, for condy::Futex
and for the kernel's futex.

**FutexQueue** is the queue with FutexMutex and FutexConditionVariable, with
`generation_` modulo `Generations`; **SemaphoreQueue** the one with semaphores
of which threads block and coroutines suspend. Every atomic access, futex call
and access to the queue is a step. **BoundedQueue** is what both promise.

**FileCopy** is link-cp: co_main, the tasks, and the kernel executing a linked
read and write. **BlockDevice** is ublk-loop: co_main with setup and teardown,
a thread per queue, a loop per tag, requests of the kernel. **PrimeFs** is
fuse-prime-fs: mount, queues, loops and `FuseServer`, with users that read a
file or a directory piece by piece. In these three a call that fails is a step
of its own that ends in exit(1) or in the error path the code has.

**Registration** makes and destroys buffer pools, queues and zero-copy pools,
each system call of which may fail, and counts what the kernel still holds.
`FailedCalls` are the system calls of a `cleanup_` that the code asserts to
succeed and that fail.
**RuntimeOptions** calls the setters in any order, with a submission queue of
any size from 0 and a completion queue larger or smaller than it, and compares
what `create_ring_` asks for with what io_uring_setup takes.

**BufferPool**, **BufferQueue** and **ZeroCopyRx** are the rings shared with
the kernel, with indices taken modulo 2^IndexBits. In the first two an
operation takes its buffer in one step and posts its completion in another.
Both count in the order of the completions, and rely on it being the order of
the takes; `Overtaking` says whether the kernel may break it, and the runs
have it FALSE.

**MCStructures** instantiates Lists, BufferPool, BufferQueue, ZeroCopyRx,
Registration and RuntimeOptions side by side (a behaviour exercises one of
them); **MCPrograms** does the same for FutexQueue, SemaphoreQueue, FileCopy,
BlockDevice, PrimeFs and Link. The other `MC` modules give the constants of
one module their values.

The theorems are in eight modules. **ResourceProofs** is about Task,
Registration, RuntimeOptions and FileCopy; **QueueProofs** about FutexQueue,
SemaphoreQueue, BlockDevice and ZeroCopyRx; **RuntimePlaceProofs** and, on top
of it, **RuntimeProofs** about Runtime; **ChannelProofs** and, on top of it,
**ChannelFifoProofs** about Channel; **OperationProofs** about Operation;
**FutexProofs** about Futex and the list operations it uses.

A definition whose comment begins with "Mutant:" is a plausible mistake in the
definition that follows. It is used in no specification: putting it in the
place of the real one must make TLC refute the property that names it in
`PROJECT.json`.

## The runs

`tlc -config X.cfg M` in this directory. Sizes are distinct states.

| Run | Instance | States | What it shows |
|---|---|---|---|
| task | a thread owns a task whose body owns two | 61 k | frames are destroyed once, never touched afterwards, and in the end destroyed; the panics on an invalid state cannot happen; `pending_works_` balances |
| runtime | 2 runtimes, stopped by coroutines of one of them, 1 thread, 2 coroutines, queues of 1 entry | 514 k | work is never lost or doubled; `pending_works_` is exact; after `run()` nothing of the runtime's own is outstanding |
| runtime_live | 1 runtime run twice, 1 thread, 2 coroutines | 21 k | posted work runs although the local queue never empties; `allow_exit` wakes a blocked runtime |
| channel | 2 pushes and 1 pop with 0 or 2 slots, 1 push and 2 pops with 0 or 1 slot, 2-bit indices | 231 k | refinement of ChannelSpec; no needless waiting; handles and slots consistent; close releases everybody |
| futex | 2 waiters, 2 notifiers, 2 values | 32 k | refinement of FutexSpec; no lost wakeup; every waiter scheduled once, and listed in one place |
| operation | six groups of up to 3 operations, awaited once or twice | 230 k | completions find live handles; callbacks do not outlive operations and are run by a stop of their own await; one resumption; a real winner; a stop completes the group |
| structures | lists of 3 entries, 2 buffers of 3 bytes, a queue of 4, 3 chunks on a refill ring of 2; 3 objects for 2 ids; 3 sizes of each queue and 2 batches | 238 k | the data structures against their meaning; failed constructors leave nothing registered, mapped or allocated, and which assert of `cleanup_` fails; the kernel takes the flags that the setters let through, and the sizes that go together |
| programs | 2 producers and 1 consumer on 1 place with futexes; 1 thread and 2 coroutines with semaphores; 3 tasks and 3½ chunks; 2 queues of 2 tags; 2 queues, 2 users; links of 3 and 2, two single operations, 3 entries | 111 k | both queues refine BoundedQueue and everybody comes to the end; the copy is exact; what is in use is mapped; readers get everything; the servers end after a signal or umount; chains reach the kernel whole, cancel only their own operations, and complete |
| runtime_tso | store buffers | | **violation** of ExitWakesRuntime |
| futex_cancel | a stop during `notify_all` | | **violation** of ListAsserts |
| operation_reuse | as operation | | **violation** of CancelsOwnRound |
| link_batch | `submit_batch` 2 | | **violation** of LinkedOrder |

The four violations are what the code does:

- `allow_exit` stores `exit_allowed_` (release) and then loads `ring_enabled_`
  (relaxed) while `run()` does the opposite. Both may read the old value; no
  message is sent and the runtime blocks although it was told to exit.
- `notify_all_` moves the waiters to a local list. A waiter that is cancelled
  meanwhile still has links, and `cancel_wait_` unlinks it from
  `wait_awaiters_`, where it is not: the assert of `remove` fails, and without
  asserts both lists are damaged. The futex run therefore keeps stops and
  `notify_all` apart (`Overlap = FALSE`).
- A cancel message names its operation by address. If the operation completes
  first and the coroutine awaits again, with the token of a source that nobody
  has stopped, the new operation is cancelled all the same. For
  the same reason WinnerNotCancelled is stated while no other thread has
  requested a stop.
- `maybe_submit` counts entries, not links, and may submit half a link.

**Bounds.** Two coroutines, waiters or operations are enough for each pair of
steps that can conflict; the third task, client or operation is there where
the code treats the first, the last and the ones between differently. Indices
have so few bits that they wrap. `MaxId` is one less than the objects, so that
ids run out. `Generations` is 8, more than the bumps there are: see the
counterexample below for fewer. The numbers of PrimeFs go past the square of a
prime, and its smallest read holds two entries of a directory. `MaxRuns` is 2 where the defers of `run()`
matter. Reclaimed is checked for `t1` and for one of the two tasks that `t1`
owns, which the specification treats alike. `MaxForced`, `MaxShots`, `MaxOps`, `MaxCq` bound queues that the code
does not bound, at one or two: enough for an element to be overtaken by, or to
wait behind, another. `SqSize` is 1 so that a full queue is the normal case.
Deadlock is not checked: programs end, and a program may wait for events that
never come. Larger instances were checked by hand: FutexQueue with two
producers and two consumers (1.5 M states), SemaphoreQueue likewise (53 k).

**Fairness.** Threads make progress inside the library, the kernel completes
what it was told to cancel (Operation) or what it was given (Runtime, Link and
the programs),
request_stop returns, and stores become visible. Nothing is assumed of what
user code calls: nobody need send a signal, a request or an umount, nothing
need fail, and a process that has called exit(1) need not go on. A coroutine under execution suspends or ends at some time. In
Task the exchange of a join and the owner's next choice are strongly fair:
each failure of the exchange means that the coroutine took one of finitely many
steps, and an owner is only prevented from choosing while another child is
being joined.

## The proofs

`tlapm M.tla` for each `M` below. The theorems hold for every value of the
constants that the assumption admits. `Options!`, `Make!`, `Copy!`, `Sem!`, `Block!`
and `Rx!` are RuntimeOptions, Registration, FileCopy, SemaphoreQueue, BlockDevice
and ZeroCopyRx as the proof module instantiates them.

| Module | Theorem | Statement | Assumption |
|---|---|---|---|
| ResourceProofs | Invariance | Spec => []IInv | ParentAssumption: `Main` is not a task, `Parent` is a function |
| | TypeCorrect | Spec => []TypeOK | |
| | FrameSafety | Spec => []NoUseAfterDestroy | |
| | FrameDestroyedOnce | Spec => []DestroyedOnce | |
| | PanicsDocumented | Spec => []OnlyDocumentedPanics | |
| | PendingBalanced | Spec => []PendingIsJoiners | |
| | Accepted | Options!Spec => []OptionsAreAccepted | Arguments: what the setters are given are numbers |
| | Undone | Make!Spec => []FailedIsUndone | IdsAreNumbers: ids are numbers, no object is `None` |
| | CopyExact | Copy!Spec => []CopyIsExact | a chunk has a byte, there is a task, no write is short |
| RuntimePlaceProofs | HandoverIsClosed | Spec => [](GlobalQueueClosed /\ SendsToEnabled) | RuntimeAssumption |
| RuntimeProofs | NoWorkLost | Spec => []WorkInOnePlace | |
| | PendingIsExact | Spec => []PendingIsOutstanding | |
| | QuietAfterExit | Spec => []ExitIsQuiet | |
| ChannelProofs | OnePlace | Spec => []WaiterInOnePlace | ChannelAssumption; CapAssumption: the capacity is 0 or divides the range of size_t |
| | Justified | Spec => []WaitersJustified | |
| ChannelFifoProofs | Fifo | Spec => IsFifo | |
| OperationProofs | HandlesAreLive | Spec => []HandlesLive | OperationAssumption: `when_any` has an operation, a vector has one kind |
| | PendingIsBalanced | Spec => []PendingIsInUse | |
| | Resumed | Spec => []ResumedOnce | |
| | WinnerByItself | Spec => []WinnerNotCancelled | |
| FutexProofs | WaitersInOnePlace | Spec => []WaiterInOnePlace | FutexAssumption: finitely many waiters; Overlap = FALSE |
| | FutexRefines | Spec => IsFutex | |
| QueueProofs | Exclusion | Spec => []MutualExclusion | QueueAssumption |
| | QueueIsBounded | Spec => IsBoundedQueue | |
| | Mapped | Block!Spec => []InUseIsMapped | none |
| | MutexExcludes | Sem!Spec => []OneInQueue | finitely many threads and coroutines; counts are numbers |
| | SemaphoresAreBounded | Sem!Spec => SemaphoresBound | |
| | ChunksInOnePlace | Rx!Spec => []ChunkInOnePlace | Refillable: the ring is smaller than what its indices count, and divides it |

*Task.* The safety properties are not inductive: whether a side may touch the
frame depends on who won an earlier exchange. `IInv` adds, for each place of
the owner, the states of the promise and the places of the coroutine that go
with it (`Phase`), what a stale `expected` may still hold (`Expected`), and who
has the duty to destroy the frame (`Duty`). Every step concerns one promise, so
the lemma `Compose` reduces preservation to that promise; `CoroStepIInv`,
`OwnerStepIInv` and `ChooseIInv` have one step per action.

*Registration.* `Fits` says what the members of an object hold at each stage of
its constructor, `Holding` that the kernel holds just that, and `Ids` that an id
is free or with one object. A failed step then leaves exactly what `cleanup_`
gives back.

*ZeroCopyRx.* `RxInv` puts each chunk the kernel has lent in one place, where the
places of the refill ring are distances between two indices that wrap; that
distinct distances are distinct cells needs the ring to divide the range of the
index.

*RuntimeOptions.* `Compatible` is what each pair of setters refuses, stated
without the order in which they are called.

*Runtime.* Once the ring is enabled `global_queue_` is empty, because the flag
is loaded again under the mutex; and a message goes only to an enabled ring,
because the sender has seen the flag and nobody resets it (`Handover`). With
the shape of the state (`Shape`) this gives that a work has one place
(`Placed`). `pending_works_` counts what is outstanding (`Counted`): that needs
that a coroutine that runs is not also waited for (`Resumed`), and that two
messages without work are never in the kernel at once for one sender and target
(`WakesOnce`). A runtime that has left its loop has then nothing pending
(`Stopped`). The counting uses a few laws of cardinality, which are taken from
the library's theorems at the end.

*Channel.* The indices run round their type and not round the buffer (`Ring`).
A handle is in one list, once (`Lists`); it waits there or is being cancelled
exactly while it has no result, and is scheduled once between its result and
its resumption (`HandleOK`); a pop waits only on an empty channel and a push
only on a full one (`Waits`). For the refinement the line is the buffer from
`head_` to `tail_` and behind it the waiting pushes (`Line`); a cancel withdraws
when it takes the handle out of the list (`Out`).

*Operation.* An operation is in the submission queue, the kernel or the
completions, and in two of them only under F_MORE (`OnePlace`). What has yet to
call its receiver belongs to the round under way (`Unfinished`); a zero-copy
handle is on the heap while the kernel owes it a completion (`Boxed`);
`pending_works_` counts what is in use (`Counted`); receivers are called once
(`Results`, `Progress`). Callbacks run in a round whose stop was requested
(`Stopping`). That the winner of `when_any` was not cancelled (`Winning`) rests
on the order of the submission queue: a cancel entry of an earlier round that
names an address in use again stands before every entry of this round (`Fresh`).

*Futex.* The properties follow pointers; the proofs work with sequences.
`Holds(m, l, s)` says that memory `m` has list `l` linked as `s` in both
directions, and one lemma per list operation says what it does to `s`. The
invariant has a sequence for every list, says that they are disjoint (`Listed`),
and says for every place of a waiter whether it is in a list, in the hand of a
notifier or scheduled (`Placed`, `Stages`, `Calls`). It fails without
`Overlap = FALSE`, as the run futex_cancel shows.

*FutexQueue.* Each while loop looks at the queue and then uses it. `IInv` says
that what was found still holds, which needs that only one coroutine is between
lock and unlock (`MutualExclusion`), which needs that only its holder stores
false. With it each access to the queue is a Put with room or a Take of an
item: the refinement of BoundedQueue. Wrapping of `generation_` plays no part.

*SemaphoreQueue.* Nobody looks at the queue before push and pop. `Tokens` counts
instead: the value of each semaphore and the number of those who hold one of
its tokens add up, with the length of the queue, to a constant. A producer at
the queue is among the holders of `empty`, so there is room; a consumer among
those of `full`, so there is an item; and `queue_mutex` has one token.

*FileCopy.* `Progress`: every byte below the shared offset is copied or in the
chunk of exactly one task that is at work. When no task is at work and the
offset has passed the end, all is copied.

*BlockDevice.* What must be mapped while a loop runs is unmapped by co_main,
two awaits away. `MainInv` and `QueueInv` say place by place what co_main and a
queue hold, so that "a loop runs" implies "its queue awaits it" implies
"co_main has not yet unmapped".

Only model-checked: liveness (Reclaimed, PostedWorkRuns, ExitWakesRuntime,
CloseReleases, ChangedWakes, StopCompletes, LinkCompletes, QueuesReturn,
ProgramsEnd), which is out of the prover's reach; Lists (of the doubly linked
list, push_back, pop_front, remove and swap are proved in FutexProofs);
BufferPool, BufferQueue and Link; and PrimeFs, with its part of InUseIsMapped.

## Counterexamples outside the runs

These were met while modelling; each can be seen with one change.

- `NoSilentDrop` (Task): add it to `MCTask.cfg`. `Task::wait` inside a runtime
  gives up the handle and then throws, so the task is lost without the panic
  that `task.hpp:29` announces.
- `ExitLeavesNoTask` (Runtime): add it to the properties of
  `MCRuntimeLive.cfg`. `run()` may return with a coroutine posted by another
  thread in the completion queue; the next `run()` finds it.
- `CancelsOwnLink` (MCLink) with `Rejectable <- LastRejection`: when the last
  operation of a link gets no entry, the link flag before it reaches into the
  next operation of another coroutine.
- `ReturnsFilledBuffer`, `InfoIsExact` and `PushTakesFreeId` with
  `Overtaking = TRUE` in `MCStructures.cfg`: the code counts completions in the order
  they come. A pool hands out a buffer of another operation. A queue
  (`provided_buffers.hpp:105`) whose second buffer is reported first gives the id
  of the first, still unreported, to the next push.
- BufferPool with incremental consumption: `HeldIsNotWritten` without its
  premise `~incr`. A buffer returns with its last piece while others are held.
- ZeroCopyRx: `ChunkInOnePlace` without its premise `~ended`. The buffer made
  at the end of a stream returns the chunk at offset 0.
- `LinkCompletes` with `Entries <- 2` in MCPrograms: a link longer than the
  submission queue waits for space for ever (`reserve_space`).
- `QueuesReturn` with `Generations = 2`: a sleeper that has read `generation_`
  and is overtaken by as many notifications as there are generations sleeps
  although it was notified (`queue-condy-futex.cpp:60`). In the program the
  counter has 32 bits.
- `CopyIsExact` with `ShortWrites <- TRUE`: link-cp looks for errors, not at how
  much was written (`link-cp.cpp:36`).
- PrimeFs with `MultiThread <- FALSE`: both queues call `fd_table().init` of
  one runtime; the second fails and the program exits.
- `FailedIsUndone` states an assert that fails: the zero-copy pool unmaps
  `MAP_FAILED` when mapping its area fails (`zcrx.hpp:227`). Without the case
  `At(o, "unmapped")` TLC shows it.
- `OptionsAreAccepted` states two exceptions, which TLC shows when they are left
  out. With sqpoll and `sq_size(0)` the submit batch is 0 and the assert at
  `runtime.hpp:307` fires; and the kernel refuses an empty submission queue and a
  completion queue smaller than the submission queue, which no setter excludes.
- `when_any` of an empty vector reads `order[0]` of an empty vector;
  OperationAssumption excludes it.

## What is not modelled

Values carried by coroutines, channels and operations; memory allocation;
errors of `io_uring_submit`; SQE128, drain and nested groups; the functions
that fill in a submission entry for an opcode (`async_operations.hpp`), the
calls that only wrap an io_uring_register (`ring_settings.hpp`), and sender
types, none of which have state of their own; `sync_wait`, a sequence of
operations that Task and Runtime model each in any order; the command lines of
the examples, and that `State` of `queue-kernel-futex.cpp` narrows
`queue_size` from size_t to the uint32_t of the semaphore (a size of 2^32 or
more would lose its upper bits: SemaphoreQueue takes the capacity as it is); the
same narrowing of the sizes given to RuntimeOptions; and the examples that are one straight coroutine per connection
(the servers, the file server, the small programs). (In the file server
`sendfile` returns at the end of the file, before it closes its pipe.)
`PROJECT.json` lists all of them with the reason.

io_uring, ublk, FUSE, `std::stop_source` and user code are external: they are
modelled from what the code relies on. The memory model is sequential
consistency except for the store of `exit_allowed_`; the other relaxed accesses
are either repeated under the mutex or read by one thread.

## Plan

1. *Extend the model.* sync_wait as a composition of Task and Runtime; nested
   groups (an operation state of a group as an operation of another); drain;
   failures of `io_uring_submit`; a Runtime that implements an abstract
   scheduler (each posted work executed once, in order per sender).
2. *Prove more.* BufferQueue: PushTakesFreeId and InfoIsExact for any number of
   buffers. BufferPool: ReturnsFilledBuffer. Link: that a chain reaches the
   kernel whole. PrimeFs: its part of InUseIsMapped.
