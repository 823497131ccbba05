--------------------------- MODULE ResourceProofs ---------------------------
(***************************************************************************)
(* What is made, used and given back, for all numbers of each.             *)
(*                                                                         *)
(* The promise state machine of Task is safe for every set of coroutines   *)
(* and every ownership relation between them.  The safety properties are   *)
(* not inductive: whether a step may touch the frame depends on who won    *)
(* the exchange of state_ before it.  IInv says, for each place of the     *)
(* owner, which states of the promise and which places of the coroutine go *)
(* with it, who has been handed the duty to destroy the frame, and what a  *)
(* stale `expected` can still hold.                                        *)
(*                                                                         *)
(* RuntimeOptions never asks for flags that the kernel refuses, whatever   *)
(* the order of the setters.                                               *)
(*                                                                         *)
(* The copy of examples/link-cp.cpp is exact for every number of tasks,    *)
(* every size of the file and every size of the chunks, if a write that    *)
(* succeeds writes all it is asked to.  CopyIsExact alone is not           *)
(* inductive: that nothing is missing at the end follows from what is      *)
(* below the shared offset at every moment, each byte of which has been    *)
(* copied or is in the chunk of a task at work.                            *)
(*                                                                         *)
(* What the constructors of the buffer pools, the buffer queue and the     *)
(* zero-copy pool take is given back, whichever of their calls fails.      *)
(* MakeInv says what the members of an object are at each stage of its     *)
(* constructor (Members, Fits), that the kernel holds just what they say   *)
(* (Holding), and that an id is recycled, with one object or still new     *)
(* (Ids).                                                                  *)
(***************************************************************************)
EXTENDS Task, Integers, Sequences, FiniteSets, TLAPS

(* Task *)

(* The coroutine has been started and has not reached its exchange. *)
Running(t) == coro[t] \in {"queued", "body", "final"}

(* Nobody has claimed the task: it runs, or waits as a zombie. *)
Unclaimed(t) ==
  \/ state[t] = "RunningJoinable" /\ Running(t)
  \/ state[t] = "Zombie" /\ coro[t] = "ended"

(* What each place of the owner says about promise and coroutine. *)
Phase(t) ==
  /\ own[t] = "coro" =>
       /\ state[t] = "Idle" /\ coro[t] = "created" /\ callback[t] = "noop"
       /\ ~exception[t]
  /\ own[t] = "marked" =>
       state[t] = "RunningJoinable" /\ coro[t] = "created"
       /\ callback[t] = "noop"
  /\ own[t] = "inline" =>
       state[t] = "Idle" /\ coro[t] \in {"body", "final"}
       /\ callback[t] = "caller"
  /\ own[t] \in {"holding", "orphaned", "detach", "join", "join_cas"} =>
       Unclaimed(t) /\ callback[t] # "caller"
  /\ own[t] = "detach_destroy" => state[t] = "Finished" /\ coro[t] = "ended"
  /\ own[t] = "waiting" =>
       /\ callback[t] = "joiner"
       /\ \/ state[t] = "RunningJoining" /\ Running(t) /\ ~woken[t]
          \/ state[t] = "Finished" /\ coro[t] = "final_callback" /\ ~woken[t]
          \/ state[t] = "Finished" /\ coro[t] = "ended" /\ woken[t]
  /\ own[t] = "result" =>
       /\ coro[t] = "ended"
       /\ state[t] = IF callback[t] = "caller" THEN "Idle" ELSE "Finished"
  /\ own[t] = "done" =>
       \/ destroys[t] = 1 /\ coro[t] \in {"created", "ended"}
       \/ destroys[t] = 0 /\ state[t] = "RunningDetached" /\ Running(t)
       \/ destroys[t] = 0 /\ state[t] = "Finished" /\ coro[t] = "final_destroy"

(* The local copies of state_ that the exchanges compare with. *)
Expected(t) ==
  /\ coro[t] = "final" =>
       IF state[t] = "Idle" THEN coroExpected[t] = "Idle"
                            ELSE coroExpected[t] \in Completable
  /\ own[t] \in {"detach", "join", "join_cas"} => ownExpected[t] \in Claimable
  /\ own[t] = "join_cas" /\ ownExpected[t] = "RunningJoinable" =>
       callback[t] = "joiner"

(* The frame is destroyed only after the owner is done, and a joiner that  *)
(* was woken is not done before it has destroyed the frame.                *)
Duty(t) ==
  /\ own[t] # "done" => destroys[t] = 0
  /\ woken[t] => own[t] \in {"waiting", "result", "done"}
  /\ woken[t] /\ own[t] = "done" => destroys[t] = 1

Local(t) ==
  /\ Phase(t)
  /\ Expected(t)
  /\ Duty(t)
  /\ pending[t] = IF Joining(t) THEN 1 ELSE 0

IInv ==
  /\ TypeOK
  /\ \A t \in Tasks : Local(t)
  /\ OnlyDocumentedPanics
-----------------------------------------------------------------------------
(* A step on promise t leaves all the others alone. *)
OnlyTouches(t) ==
  \A u \in Tasks \ {t} :
    /\ state'[u] = state[u] /\ callback'[u] = callback[u]
    /\ exception'[u] = exception[u] /\ destroys'[u] = destroys[u]
    /\ coro'[u] = coro[u] /\ coroExpected'[u] = coroExpected[u]
    /\ own'[u] = own[u] /\ ownExpected'[u] = ownExpected[u]
    /\ woken'[u] = woken[u] /\ pending'[u] = pending[u]

(* Then it is enough to look at t itself. *)
LEMMA Compose ==
  ASSUME NEW t \in Tasks, IInv, TypeOK', Local(t)', OnlyDocumentedPanics',
         OnlyTouches(t)
  PROVE  IInv'
<1>1. ASSUME NEW u \in Tasks \ {t} PROVE Local(u)'
  BY DEF IInv, OnlyTouches, Local, Phase, Expected, Duty, Joining, InRuntime,
         Running, Unclaimed
<1>2. QED
  BY <1>1 DEF IInv

(* Before the first step no coroutine has been started. *)
LEMMA InitIInv == Init => IInv
BY DEF Init, IInv, TypeOK, Local, Phase, Expected, Duty, Joining, State,
       CoroPc, OwnPc, Panics, OnlyDocumentedPanics

(* The steps of a coroutine on its way through final_suspend keep IInv.      *)
LEMMA CoroStepIInv ==
  ASSUME NEW t \in Tasks, IInv, panic = "none", CoroStep(t)
  PROVE  IInv'
<1> USE DEF IInv, TypeOK, State, CoroPc, OwnPc, Panics, Local, Phase, Expected,
            Duty, Joining, InRuntime, Running, Unclaimed, OnlyTouches
<1> DEFINE Good == TypeOK' /\ Local(t)' /\ OnlyDocumentedPanics' /\ OnlyTouches(t)
<1>1. CASE Invoke(t)
  <2>1. Good
    BY <1>1 DEF Invoke, OnlyDocumentedPanics
  <2>2. QED
    BY <2>1, Compose
<1>2. CASE Return(t)
  <2>1. Good
    BY <1>2 DEF Return, Completable, OnlyDocumentedPanics
  <2>2. QED
    BY <2>1, Compose
<1>3. CASE FinalIdle(t)
  <2>1. Good
    BY <1>3 DEF FinalIdle, Completable, OnlyDocumentedPanics
  <2>2. QED
    BY <2>1, Compose
<1>4. CASE FinalCas(t)
  <2>1. Good
    BY <1>4 DEF FinalCas, Completable, FinalDesired, FinalNextPc, OnlyDocumentedPanics
  <2>2. QED
    BY <2>1, Compose
<1>5. CASE FinalCasFail(t)
  <2>1. Good
    BY <1>5 DEF FinalCasFail, Completable, OnlyDocumentedPanics
  <2>2. QED
    BY <2>1, Compose
<1>6. CASE FinalDestroy(t)
  <2>1. Good
    BY <1>6 DEF FinalDestroy, Destroy, OnlyDocumentedPanics
  <2>2. QED
    BY <2>1, Compose
<1>7. CASE FinalCallback(t)
  <2>1. own[t] = "waiting" /\ callback[t] = "joiner"
    BY <1>7 DEF FinalCallback
  <2>2. woken' = [woken EXCEPT ![t] = TRUE] /\ panic' = panic
    BY <1>7, <2>1 DEF FinalCallback
  <2>3. state[t] = "Finished" /\ destroys[t] = 0
    BY <1>7, <2>1 DEF FinalCallback
  <2>4. Good
    BY <1>7, <2>1, <2>2, <2>3 DEF FinalCallback, OnlyDocumentedPanics
  <2>5. QED
    BY <2>4, Compose
<1>8. QED
  BY <1>1, <1>2, <1>3, <1>4, <1>5, <1>6, <1>7, Zenon DEF CoroStep

(* So do the later steps of the operations of its owner,                    *)
LEMMA OwnerStepIInv ==
  ASSUME NEW t \in Tasks, IInv, panic = "none", OwnerStep(t)
  PROVE  IInv'
<1> USE DEF IInv, TypeOK, State, CoroPc, OwnPc, Panics, Local, Phase, Expected,
            Duty, Joining, InRuntime, Running, Unclaimed, OnlyTouches
<1> DEFINE Good == TypeOK' /\ Local(t)' /\ OnlyDocumentedPanics' /\ OnlyTouches(t)
<1>1. CASE SpawnSchedule(t)
  <2>1. Good
    BY <1>1 DEF SpawnSchedule, OnlyDocumentedPanics
  <2>2. QED
    BY <2>1, Compose
<1>2. CASE DetachCas(t)
  <2>1. Good
    BY <1>2 DEF DetachCas, Claimable, OnlyDocumentedPanics
  <2>2. QED
    BY <2>1, Compose
<1>3. CASE DetachCasFail(t)
  <2>1. Good
    BY <1>3 DEF DetachCasFail, Claimable, OnlyDocumentedPanics
  <2>2. QED
    BY <2>1, Compose
<1>4. CASE DetachDestroy(t)
  <2>1. Good
    BY <1>4 DEF DetachDestroy, Destroy, OnlyDocumentedPanics
  <2>2. QED
    BY <2>1, Compose
<1>5. CASE JoinWrite(t)
  <2>1. Good
    BY <1>5 DEF JoinWrite, Claimable, OnlyDocumentedPanics
  <2>2. QED
    BY <2>1, Compose
<1>6. CASE JoinCas(t)
  <2>1. Good
    BY <1>6 DEF JoinCas, Claimable, OnlyDocumentedPanics
  <2>2. QED
    BY <2>1, Compose
<1>7. CASE JoinCasFail(t)
  <2>1. Good
    BY <1>7 DEF JoinCasFail, Claimable, OnlyDocumentedPanics
  <2>2. QED
    BY <2>1, Compose
<1>8. CASE Wake(t)
  <2>1. Good
    BY <1>8 DEF Wake, OnlyDocumentedPanics
  <2>2. QED
    BY <2>1, Compose
<1>9. CASE TakeResult(t)
  <2>1. Good
    BY <1>9 DEF TakeResult, OnlyDocumentedPanics
  <2>2. QED
    BY <2>1, Compose
<1>10. QED
  BY <1>1, <1>2, <1>3, <1>4, <1>5, <1>6, <1>7, <1>8, <1>9, Zenon DEF OwnerStep

(* and the first steps of those operations.                                 *)
LEMMA ChooseIInv ==
  ASSUME NEW t \in Tasks, IInv, panic = "none", Choose(t)
  PROVE  IInv'
<1> USE DEF IInv, TypeOK, State, CoroPc, OwnPc, Panics, Local, Phase, Expected,
            Duty, Joining, InRuntime, Running, Unclaimed, OnlyTouches
<1> DEFINE Good == TypeOK' /\ Local(t)' /\ OnlyDocumentedPanics' /\ OnlyTouches(t)
<1>1. CASE SpawnMark(t)
  <2>1. Good
    BY <1>1 DEF SpawnMark, OnlyDocumentedPanics
  <2>2. QED
    BY <2>1, Compose
<1>2. CASE AwaitCoro(t)
  <2>1. Good
    BY <1>2 DEF AwaitCoro, OnlyDocumentedPanics
  <2>2. QED
    BY <2>1, Compose
<1>3. CASE DropCoro(t)
  <2>1. Good
    BY <1>3 DEF DropCoro, Destroy, OnlyDocumentedPanics
  <2>2. QED
    BY <2>1, Compose
<1>4. CASE Detach(t)
  <2>1. Good
    BY <1>4 DEF Detach, Claimable, OnlyDocumentedPanics
  <2>2. QED
    BY <2>1, Compose
<1>5. CASE Join(t)
  <2>1. Good
    BY <1>5 DEF Join, Claimable, OnlyDocumentedPanics
  <2>2. QED
    BY <2>1, Compose
<1>6. CASE WaitInRuntime(t)
  <2>1. Good
    BY <1>6 DEF WaitInRuntime, OnlyDocumentedPanics
  <2>2. QED
    BY <2>1, Compose
<1>7. CASE DropTask(t)
  <2>1. Good
    BY <1>7 DEF DropTask, OnlyDocumentedPanics
  <2>2. QED
    BY <2>1, Compose
<1>8. QED
  BY <1>1, <1>2, <1>3, <1>4, <1>5, <1>6, <1>7, Zenon DEF Choose

(* IInv is an invariant: the promise state machine stays coherent however  *)
(* the exchanges of final_suspend, request_join and request_detach         *)
(* interleave.                                                             *)
THEOREM Invariance == Spec => []IInv
<1>1. ASSUME IInv, [Next]_vars PROVE IInv'
  <2>1. CASE Next
    BY <1>1, <2>1, CoroStepIInv, OwnerStepIInv, ChooseIInv DEF Next
  <2>2. CASE UNCHANGED vars
    BY <1>1, <2>2 DEF vars, IInv, TypeOK, Local, Phase, Expected, Duty, Joining,
      InRuntime, Running, Unclaimed, OnlyDocumentedPanics
  <2>3. QED
    BY <1>1, <2>1, <2>2
<1>2. QED
  BY InitIInv, <1>1, PTL DEF Spec

(* Every variable of the model keeps its type; pending_works_ never        *)
(* underflows.                                                             *)
THEOREM TypeCorrect == Spec => []TypeOK
<1>1. IInv => TypeOK
  BY DEF IInv
<1>2. QED
  BY Invariance, <1>1, PTL

(* The three sites that destroy a frame, in final_suspend, request_detach  *)
(* and the joiner, never leave it to somebody who still uses it.           *)
THEOREM FrameSafety == Spec => []NoUseAfterDestroy
<1>1. IInv => NoUseAfterDestroy
  BY DEF IInv, Local, Phase, Duty, Running, NoUseAfterDestroy, CoroTouches,
         OwnerTouches
<1>2. QED
  BY Invariance, <1>1, PTL

(* Exactly one of the three sites destroys the frame. *)
THEOREM FrameDestroyedOnce == Spec => []DestroyedOnce
<1>1. IInv => DestroyedOnce
  BY DEF IInv, Local, Phase, Duty, Running, DestroyedOnce
<1>2. QED
  BY Invariance, <1>1, PTL

(* The "Invalid coroutine state" panics are unreachable and final_suspend  *)
(* never calls through a callback_ that request_join has not written.      *)
THEOREM PanicsDocumented == Spec => []OnlyDocumentedPanics
<1>1. IInv => OnlyDocumentedPanics
  BY DEF IInv
<1>2. QED
  BY Invariance, <1>1, PTL

(* Joining a Task adds one to pending_works_ and takes it back, on every   *)
(* path through request_join.                                              *)
THEOREM PendingBalanced == Spec => []PendingIsJoiners
<1>1. IInv => PendingIsJoiners
  BY DEF IInv, Local, PendingIsJoiners
<1>2. QED
  BY Invariance, <1>1, PTL
-----------------------------------------------------------------------------
(* RuntimeOptions *)

CONSTANTS Sizes, CqSizes, Batches, MaxBatch

VARIABLES enabled, sq_size, cq_size, submit_batch

Options == INSTANCE RuntimeOptions

(* The arguments of the setters are numbers. *)
Arguments ==
  /\ Sizes \subseteq Nat
  /\ CqSizes \subseteq Nat
  /\ Batches \subseteq Nat
  /\ MaxBatch \in Nat \ {0}

(* What each setter refuses, whichever of two options is set first. *)
Compatible ==
  /\ "sqpoll" \in enabled => enabled \cap {"defer_taskrun", "coop_taskrun", "sq_rewind"} = {}
  /\ "sq_aff" \in enabled => "sqpoll" \in enabled
  /\ "hybrid_iopoll" \in enabled => "iopoll" \in enabled
  /\ ~({"defer_taskrun", "coop_taskrun"} \subseteq enabled)
  /\ ~({"cqe32", "cqe_mixed"} \subseteq enabled)
  /\ ~({"sqe128", "sqe_mixed"} \subseteq enabled)

(* The options that are on go together. *)
OptionsInv ==
  /\ enabled \subseteq DOMAIN Options!Excludes
  /\ sq_size \in Sizes
  /\ cq_size \in CqSizes \cup {0}
  /\ submit_batch \in Batches \cup {0}
  /\ Compatible

(* One setter, whatever it is told. *)
LEMMA EnableKeeps ==
  ASSUME OptionsInv, NEW x \in DOMAIN Options!Excludes, Options!Enable(x)
  PROVE  OptionsInv'
  BY DEF OptionsInv, Compatible, Options!Enable, Options!Enabled, Options!Needs, Options!Excludes

(* Every call of a setter keeps the options compatible. *)
LEMMA OptionsInductive == OptionsInv /\ [Options!Next]_(Options!vars) => OptionsInv'
<1> SUFFICES ASSUME OptionsInv, [Options!Next]_(Options!vars) PROVE OptionsInv'
  OBVIOUS
<1>1. ASSUME NEW x \in DOMAIN Options!Excludes, Options!Enable(x) PROVE OptionsInv'
  BY <1>1, EnableKeeps
<1>2. ASSUME NEW n \in CqSizes, Options!SetCqSize(n) PROVE OptionsInv'
  BY <1>2 DEF Options!SetCqSize, OptionsInv, Compatible
<1>3. ASSUME NEW n \in Sizes, Options!SetSize(n) PROVE OptionsInv'
  BY <1>3 DEF Options!SetSize, OptionsInv, Compatible
<1>4. ASSUME NEW n \in Batches, Options!SetBatch(n) PROVE OptionsInv'
  BY <1>4 DEF Options!SetBatch, OptionsInv, Compatible
<1>5. CASE UNCHANGED Options!vars
  BY <1>5 DEF Options!vars, OptionsInv, Compatible
<1> QED
  BY <1>1, <1>2, <1>3, <1>4, <1>5 DEF Options!Next

(* create_ring_ never asks for flags the kernel refuses, its assert fails  *)
(* only for an empty submission queue with SQPOLL, and sizes that go       *)
(* together are taken, for any arguments of the setters.                   *)
THEOREM Accepted ==
  ASSUME Arguments PROVE Options!Spec => []Options!OptionsAreAccepted
<1>1. Options!Init => OptionsInv
  BY DEF Options!Init, OptionsInv, Compatible
<1>2. OptionsInv => Options!OptionsAreAccepted
  <2> SUFFICES ASSUME OptionsInv PROVE Options!OptionsAreAccepted
    OBVIOUS
  <2>1. Options!SubmitBatch = 0 => sq_size = 0 /\ "sqpoll" \in enabled /\ submit_batch = 0
    BY DEF OptionsInv, Arguments, Options!SubmitBatch
  <2>2. Options!KernelTakes(Options!Flags)
    <3>1. \A x \in DOMAIN Options!Excludes : x \in Options!Flags <=> x \in enabled
      BY DEF OptionsInv, Compatible, Options!Flags, Options!Excludes
    <3>2. "taskrun_flag" \in Options!Flags => enabled \cap {"defer_taskrun", "coop_taskrun"} # {}
      BY DEF OptionsInv, Options!Flags, Options!Excludes
    <3>3. "single_issuer" \in Options!Flags
      BY DEF Options!Flags
    <3> QED
      BY <3>1, <3>2, <3>3 DEF OptionsInv, Compatible, Options!KernelTakes, Options!Excludes
  <2>3. ASSUME sq_size > 0, cq_size = 0 \/ cq_size >= sq_size
        PROVE  Options!KernelTakesSizes(Options!Flags, sq_size, cq_size)
    <3>1. sq_size \in Nat /\ cq_size \in Nat
      BY DEF OptionsInv, Arguments
    <3>2. "cqsize" \in Options!Flags => cq_size # 0
      BY DEF OptionsInv, Options!Flags, Options!Excludes
    <3>3. ASSUME cq_size >= sq_size, NEW p \in Int, Options!Clamp(cq_size, 65536) <= p
          PROVE  Options!Clamp(sq_size, 32768) <= p
      BY <3>1, <3>3 DEF Options!Clamp
    <3>4. Options!PowersOfTwo \subseteq Int
      BY DEF Options!PowersOfTwo
    <3> QED
      BY <2>3, <3>2, <3>3, <3>4 DEF Options!KernelTakesSizes
  <2> QED
    BY <2>1, <2>2, <2>3 DEF Options!OptionsAreAccepted
<1> QED
  BY <1>1, <1>2, OptionsInductive, PTL DEF Options!Spec
-----------------------------------------------------------------------------
(* The facts about cardinality the arguments need. *)
CardinalityLaws ==
  /\ IsFiniteSet({}) /\ Cardinality({}) = 0
  /\ \A S : IsFiniteSet(S) => Cardinality(S) \in Nat
  /\ \A x : Cardinality({x}) = 1
  /\ \A S, x : IsFiniteSet(S) /\ x \notin S =>
       IsFiniteSet(S \cup {x}) /\ Cardinality(S \cup {x}) = Cardinality(S) + 1
  /\ \A S, x : IsFiniteSet(S) /\ x \in S =>
       IsFiniteSet(S \ {x}) /\ Cardinality(S \ {x}) = Cardinality(S) - 1
-----------------------------------------------------------------------------
(* Registration *)

CONSTANTS Objects, MaxId, None

VARIABLES next_id, recycled, rings, maps, object

Make == INSTANCE Registration

Stages == {"map", "allocate", "register", "map_ring", "unmapped", "failed", "made"}

Member == [kind : {"queue", "pool", "rx"}, owns : BOOLEAN, bgid : 0..MaxId,
           br : BOOLEAN, ring : BOOLEAN, at : Stages]

(* An id is a number, and None is not an object. *)
IdsAreNumbers == MaxId \in Nat /\ None \notin Member

(* What the members of an object say for each stage of its constructor. *)
Fits(p) ==
  /\ p \in Member
  /\ p.br <=> p.at = "made" /\ p.kind # "rx"
  /\ p.ring <=> p.at = "made" /\ p.kind = "rx"
  /\ p.bgid # MaxId => p.kind # "rx" /\ p.at \in {"register", "made", "failed"}
  /\ p.kind # "rx" /\ p.at \in {"register", "made"} => p.bgid # MaxId
  /\ p.at \in {"map", "unmapped"} => p.owns
  /\ p.at = "unmapped" => p.kind = "rx"
  /\ p.at = "map_ring" => p.kind = "rx"
  /\ p.at = "allocate" => p.kind # "rx"

(* One constructor at a time. *)
Members ==
  /\ object \in [Objects -> Member \cup {None}]
  /\ \A o \in Make!Live : Fits(object[o])
  /\ \A o, k \in Make!Live : object[o].at # "made" /\ object[k].at # "made" => o = k
  /\ next_id \in 0..MaxId

(* The buffers or the area have been mapped. *)
HasBuffers(p) == p.owns /\ p.at \notin {"map", "unmapped"}

(* What the kernel holds is what the members say. *)
Holding ==
  /\ maps \subseteq Objects \X {"buffers", "ring"}
  /\ \A o \in Objects :
       /\ <<o, "buffers">> \in maps <=>
            o \in Make!Live /\ HasBuffers(object[o])
       /\ <<o, "ring">> \in maps <=> o \in Make!Live /\ object[o].ring
  /\ \A i : i \in rings <=> \E o \in Make!Live : object[o].br /\ object[o].bgid = i

Recycled == {recycled[n] : n \in DOMAIN recycled}

(* Every id below next_id is recycled or out, once. *)
Ids ==
  /\ recycled \in Seq(0..MaxId - 1)
  /\ \A m, n \in DOMAIN recycled : recycled[m] = recycled[n] => m = n
  /\ \A o, k \in Make!Grouped : object[o].bgid = object[k].bgid => o = k
  /\ \A o \in Make!Grouped : object[o].bgid \notin Recycled
  /\ \A i \in 0..MaxId :
       i < next_id <=> i \in Recycled \/ \E o \in Make!Grouped : object[o].bgid = i
  /\ IsFiniteSet(Make!Grouped)
  /\ Len(recycled) + Cardinality(Make!Grouped) = next_id

MakeInv == Members /\ Holding /\ Ids
-----------------------------------------------------------------------------
(* Who is there after object o has become q. *)
LEMMA Becomes ==
  ASSUME IdsAreNumbers, Members, NEW o \in Objects, NEW q \in Member \cup {None},
         object' = [object EXCEPT ![o] = q]
  PROVE  /\ object' \in [Objects -> Member \cup {None}]
         /\ object'[o] = q
         /\ \A k \in Objects \ {o} : object'[k] = object[k]
         /\ \A k \in Objects \ {o} : k \in Make!Live' <=> k \in Make!Live
         /\ o \in Make!Live' <=> q # None
         /\ Make!Live \subseteq Objects /\ Make!Live' \subseteq Objects
BY DEF Members, Make!Live

(* An object that fits its stage, while the others are made. *)
LEMMA BecomesFitting ==
  ASSUME IdsAreNumbers, Members, NEW o \in Objects, NEW q,
         q = None \/ Fits(q),
         object' = [object EXCEPT ![o] = q],
         \A k \in Make!Live \ {o} : object[k].at = "made",
         next_id' \in 0..MaxId
  PROVE  Members'
<1>1. q \in Member \cup {None} /\ (q = None <=> q \notin Member)
  BY Zenon DEF Fits, IdsAreNumbers
<1>2. /\ object' \in [Objects -> Member \cup {None}]
      /\ object'[o] = q
      /\ \A k \in Objects \ {o} : object'[k] = object[k]
      /\ \A k \in Objects \ {o} : k \in Make!Live' <=> k \in Make!Live
      /\ o \in Make!Live' <=> q # None
      /\ Make!Live \subseteq Objects /\ Make!Live' \subseteq Objects
  BY <1>1, Becomes, Zenon
<1>3. ASSUME NEW k \in Make!Live' PROVE Fits(object'[k])
  <2>1. CASE k = o
    BY <1>2, <1>3, <2>1, Zenon
  <2>2. CASE k # o
    BY <1>2, <1>3, <2>2, Zenon DEF Members
  <2> QED
    BY <2>1, <2>2, Zenon
<1>4. ASSUME NEW k \in Make!Live', object'[k].at # "made" PROVE k = o
  BY <1>2, <1>4, Zenon
<1> QED
  BY <1>2, <1>3, <1>4, Zenon DEF Members, Fits

(* Object o, that has no id, becomes q without one: the ids stay. *)
LEMMA SameIds ==
  ASSUME Ids, UNCHANGED <<next_id, recycled>>, Make!Grouped' = Make!Grouped,
         \A k \in Make!Grouped : object'[k].bgid = object[k].bgid
  PROVE  Ids'
BY DEF Ids, Recycled

(* What the kernel holds for o, when nothing changes for the others. *)
LEMMA HoldsFor ==
  ASSUME IdsAreNumbers, Members, Holding, NEW o \in Objects, NEW q \in Member \cup {None},
         object' = [object EXCEPT ![o] = q],
         maps' \subseteq Objects \X {"buffers", "ring"},
         \A k \in Objects \ {o}, w \in {"buffers", "ring"} : <<k, w>> \in maps' <=> <<k, w>> \in maps,
         <<o, "buffers">> \in maps' <=> q # None /\ HasBuffers(q),
         <<o, "ring">> \in maps' <=> q # None /\ q.ring,
         \A i : i \in rings' <=> (q # None /\ q.br /\ q.bgid = i)
                   \/ \E k \in Make!Live \ {o} : object[k].br /\ object[k].bgid = i
  PROVE  Holding'
<1>1. /\ object'[o] = q
      /\ \A k \in Objects \ {o} : object'[k] = object[k]
      /\ \A k \in Objects \ {o} : k \in Make!Live' <=> k \in Make!Live
      /\ o \in Make!Live' <=> q # None
      /\ Make!Live \subseteq Objects /\ Make!Live' \subseteq Objects
  BY Becomes, Zenon
<1>2. ASSUME NEW k \in Objects
      PROVE  /\ <<k, "buffers">> \in maps' <=>
                  k \in Make!Live' /\ HasBuffers(object'[k])
             /\ <<k, "ring">> \in maps' <=> k \in Make!Live' /\ object'[k].ring
  <2>1. CASE k = o
    BY <1>1, <2>1, Zenon
  <2>2. CASE k # o
    BY <1>1, <2>2, Zenon DEF Holding
  <2> QED
    BY <2>1, <2>2, Zenon
<1>3. ASSUME NEW i
      PROVE  i \in rings' <=> \E k \in Make!Live' : object'[k].br /\ object'[k].bgid = i
  <2>1. ASSUME i \in rings' PROVE \E k \in Make!Live' : object'[k].br /\ object'[k].bgid = i
    <3>1. CASE q # None /\ q.br /\ q.bgid = i
      BY <1>1, <3>1, Zenon
    <3>2. CASE \E k \in Make!Live \ {o} : object[k].br /\ object[k].bgid = i
      BY <1>1, <3>2, Zenon
    <3> QED
      BY <2>1, <3>1, <3>2, Zenon
  <2>2. ASSUME NEW k \in Make!Live', object'[k].br, object'[k].bgid = i PROVE i \in rings'
    <3>1. CASE k = o
      BY <1>1, <2>2, <3>1
    <3>2. CASE k # o
      BY <1>1, <2>2, <3>2, Zenon
    <3> QED
      BY <3>1, <3>2, Zenon
  <2> QED
    BY <2>1, <2>2, Zenon
<1> QED
  BY <1>2, <1>3, Zenon DEF Holding

(* The rings of a fitting state, told apart by whose they are. *)
LEMMA RingsBut ==
  ASSUME Members, Holding, Ids, NEW o \in Make!Live
  PROVE  \A i : (\E k \in Make!Live \ {o} : object[k].br /\ object[k].bgid = i)
                  <=> i \in rings /\ ~(object[o].br /\ object[o].bgid = i)
<1>1. \A k \in Make!Live : object[k].br => k \in Make!Grouped
  BY Zenon DEF Members, Fits, Make!Grouped
<1>2. \A i : i \in rings <=> \E k \in Make!Live : object[k].br /\ object[k].bgid = i
  BY Zenon DEF Holding
<1>3. \A k \in Make!Live : object[k].br /\ object[o].br /\ object[k].bgid = object[o].bgid => k = o
  BY <1>1, Zenon DEF Ids
<1> QED
  BY <1>1, <1>2, <1>3, Zenon

(* Who is in a group when o has become q. *)
LEMMA GroupedWith ==
  ASSUME IdsAreNumbers, Members, NEW o \in Objects, NEW q \in Member \cup {None},
         object' = [object EXCEPT ![o] = q]
  PROVE  Make!Grouped' = IF q # None /\ q.bgid # MaxId THEN Make!Grouped \cup {o}
                                                    ELSE Make!Grouped \ {o}
<1>1. /\ object'[o] = q
      /\ \A k \in Objects \ {o} : object'[k] = object[k]
      /\ \A k \in Objects \ {o} : k \in Make!Live' <=> k \in Make!Live
      /\ o \in Make!Live' <=> q # None
      /\ Make!Live \subseteq Objects /\ Make!Live' \subseteq Objects
  BY Becomes, Zenon
<1>2. \A k : k \in Make!Grouped' <=> k \in Make!Live' /\ object'[k].bgid # MaxId
  BY Zenon DEF Make!Grouped
<1>3. \A k : k \in Make!Grouped <=> k \in Make!Live /\ object[k].bgid # MaxId
  BY Zenon DEF Make!Grouped
<1> QED
  BY <1>1, <1>2, <1>3
-----------------------------------------------------------------------------
(* A constructor goes on, or gives up before there is an id. *)
LEMMA Advance ==
  ASSUME IdsAreNumbers, MakeInv, NEW o \in Make!Live, object[o].at # "made",
         NEW q, q = None \/ Fits(q),
         q = None => object[o].bgid = MaxId,
         q # None => q.bgid = object[o].bgid,
         object' = [object EXCEPT ![o] = q],
         UNCHANGED <<next_id, recycled>>
  PROVE  Members' /\ Ids'
<1>1. q \in Member \cup {None} /\ o \in Objects
  BY Zenon DEF Fits, Make!Live
<1>2. \A k \in Make!Live \ {o} : object[k].at = "made"
  BY Zenon DEF MakeInv, Members
<1>3. Members'
  BY <1>1, <1>2, BecomesFitting, Zenon DEF MakeInv, Members
<1>4. o \in Make!Grouped <=> object[o].bgid # MaxId
  BY Zenon DEF Make!Grouped
<1>5. Make!Grouped' = IF q # None /\ q.bgid # MaxId THEN Make!Grouped \cup {o}
                                                    ELSE Make!Grouped \ {o}
  BY <1>1, GroupedWith, Zenon DEF MakeInv
<1>6. Make!Grouped' = Make!Grouped
  BY <1>4, <1>5
<1>7. \A k \in Make!Grouped : object'[k].bgid = object[k].bgid
  <2>1. \A k \in Objects \ {o} : object'[k] = object[k]
    BY <1>1, Becomes, Zenon DEF MakeInv
  <2>2. object'[o] = q
    BY <1>1, Becomes, Zenon DEF MakeInv
  <2>3. \A k \in Make!Grouped : k \in Objects
    BY Zenon DEF Make!Grouped, Make!Live
  <2>4. o \in Make!Grouped => q # None
    BY <1>4, Zenon
  <2> QED
    BY <2>1, <2>2, <2>3, <2>4
<1>8. Ids'
  BY <1>6, <1>7, SameIds, Zenon DEF MakeInv
<1> QED
  BY <1>3, <1>8, Zenon

(* The same, and neither before nor after does the object have a ring. *)
LEMMA SameRings ==
  ASSUME IdsAreNumbers, MakeInv, NEW o \in Make!Live, ~object[o].br,
         NEW q \in Member \cup {None}, q # None => ~q.br,
         object' = [object EXCEPT ![o] = q],
         maps' \subseteq Objects \X {"buffers", "ring"},
         \A k \in Objects \ {o}, w \in {"buffers", "ring"} : <<k, w>> \in maps' <=> <<k, w>> \in maps,
         <<o, "buffers">> \in maps' <=> q # None /\ HasBuffers(q),
         <<o, "ring">> \in maps' <=> q # None /\ q.ring,
         UNCHANGED rings
  PROVE  Holding'
<1>1. \A i : i \in rings' <=> (q # None /\ q.br /\ q.bgid = i)
                   \/ \E k \in Make!Live \ {o} : object[k].br /\ object[k].bgid = i
  BY RingsBut, Zenon DEF MakeInv
<1>2. o \in Objects
  BY Zenon DEF Make!Live
<1> QED
  BY <1>1, <1>2, HoldsFor, Zenon DEF MakeInv

(* A constructor begins. *)
LEMMA NewStep ==
  ASSUME IdsAreNumbers, MakeInv, NEW o \in Objects, NEW kind \in {"queue", "pool", "rx"},
         NEW owns \in BOOLEAN, Make!New(o, kind, owns)
  PROVE  MakeInv'
<1> DEFINE q == [kind |-> kind, owns |-> owns, bgid |-> MaxId, br |-> FALSE, ring |-> FALSE,
                 at |-> IF owns THEN "map" ELSE IF kind = "rx" THEN "register" ELSE "allocate"]
<1>1. /\ object' = [object EXCEPT ![o] = q] /\ o \notin Make!Live
      /\ \A k \in Make!Live : object[k].at = "made"
      /\ UNCHANGED <<next_id, recycled, rings, maps>>
  BY Zenon DEF Make!New, Make!Idle
<1>2. Fits(q) /\ q # None /\ q.bgid = MaxId /\ ~q.br /\ ~q.ring /\ ~HasBuffers(q)
  <2>1. MaxId \in 0..MaxId
    BY DEF IdsAreNumbers
  <2>2. q.at \in {"map", "register", "allocate"} /\ (q.at = "map" <=> q.owns)
    OBVIOUS
  <2>3. q.at \in Stages
    BY <2>2, Zenon DEF Stages
  <2>4. q \in Member
    BY <2>1, <2>3 DEF Member
  <2>5. q.at # "made" /\ q.at # "map_ring" /\ (q.at = "register" => q.kind = "rx")
    OBVIOUS
  <2> QED
    BY <2>2, <2>4, <2>5 DEF Fits, HasBuffers, IdsAreNumbers
<1> HIDE DEF q
<1>3. q \in Member
  BY <1>2, Zenon DEF Fits
<1>4. Members'
  BY <1>1, <1>2, BecomesFitting, Zenon DEF MakeInv, Members
<1>5. o \notin Make!Grouped
  BY <1>1, Zenon DEF Make!Grouped
<1>6. Make!Grouped' = Make!Grouped
  <2>1. Make!Grouped' = IF q # None /\ q.bgid # MaxId THEN Make!Grouped \cup {o}
                                                    ELSE Make!Grouped \ {o}
    BY <1>1, <1>3, GroupedWith, Zenon DEF MakeInv
  <2> QED
    BY <1>2, <1>5, <2>1
<1>7. \A k \in Make!Grouped : object'[k].bgid = object[k].bgid
  <2>1. \A k \in Objects \ {o} : object'[k] = object[k]
    BY <1>1, <1>3, Becomes, Zenon DEF MakeInv
  <2>2. \A k \in Make!Grouped : k \in Objects
    BY Zenon DEF Make!Grouped, Make!Live
  <2> QED
    BY <1>5, <2>1, <2>2
<1>8. Ids'
  BY <1>1, <1>6, <1>7, SameIds, Zenon DEF MakeInv
<1>9. Holding'
  <2>1. <<o, "buffers">> \notin maps /\ <<o, "ring">> \notin maps
    BY <1>1, Zenon DEF MakeInv, Holding
  <2>2. Make!Live \ {o} = Make!Live
    BY <1>1, Zenon
  <2>3. \A i : i \in rings' <=> (q # None /\ q.br /\ q.bgid = i)
                   \/ \E k \in Make!Live \ {o} : object[k].br /\ object[k].bgid = i
    BY <1>1, <1>2, <2>2, Zenon DEF MakeInv, Holding
  <2>4. maps' \subseteq Objects \X {"buffers", "ring"}
    BY <1>1, Zenon DEF MakeInv, Holding
  <2>5. /\ \A k \in Objects \ {o}, w \in {"buffers", "ring"} : <<k, w>> \in maps' <=> <<k, w>> \in maps
        /\ <<o, "buffers">> \in maps' <=> q # None /\ HasBuffers(q)
        /\ <<o, "ring">> \in maps' <=> q # None /\ q.ring
    BY <1>1, <1>2, <2>1, Zenon
  <2> QED
    BY <1>1, <1>3, <2>3, <2>4, <2>5, HoldsFor, Zenon DEF MakeInv
<1> QED
  BY <1>4, <1>8, <1>9, Zenon DEF MakeInv

(* Mapping, and the failures of a constructor. *)
LEMMA MapStep ==
  ASSUME IdsAreNumbers, MakeInv, NEW o \in Objects, Make!Map(o)
  PROVE  MakeInv'
<1> DEFINE q == [object[o] EXCEPT !.at = IF object[o].kind = "rx" THEN "register" ELSE "allocate"]
<1>1. /\ o \in Make!Live /\ object[o].at = "map" /\ object' = [object EXCEPT ![o] = q]
      /\ maps' = maps \cup {<<o, "buffers">>}
      /\ UNCHANGED <<next_id, recycled, rings>>
  BY Zenon DEF Make!Map, Make!At
<1>2. Fits(object[o])
  BY <1>1, Zenon DEF MakeInv, Members
<1>3. /\ Fits(q) /\ q.bgid = object[o].bgid /\ object[o].at # "made" /\ ~object[o].br
      /\ ~object[o].ring /\ ~q.br /\ ~q.ring /\ HasBuffers(q)
  BY <1>1, <1>2 DEF Fits, Member, Stages, HasBuffers
<1> HIDE DEF q
<1>4. q # None /\ q \in Member
  BY <1>3, Zenon DEF Fits, IdsAreNumbers
<1>5. Members' /\ Ids'
  BY <1>1, <1>3, <1>4, Advance, Zenon
<1>6. Holding'
  <2>1. maps' \subseteq Objects \X {"buffers", "ring"}
    BY <1>1 DEF MakeInv, Holding
  <2>2. \A k \in Objects \ {o}, w \in {"buffers", "ring"} : <<k, w>> \in maps' <=> <<k, w>> \in maps
    BY <1>1
  <2>3. <<o, "buffers">> \in maps' /\ <<o, "ring">> \notin maps'
    BY <1>1, <1>3, Zenon DEF MakeInv, Holding
  <2> QED
    BY <1>1, <1>3, <1>4, <2>1, <2>2, <2>3, SameRings, Zenon
<1> QED
  BY <1>5, <1>6, Zenon DEF MakeInv

(* mmap fails: there is no object, or one that has nothing mapped. *)
LEMMA MapFailsStep ==
  ASSUME IdsAreNumbers, MakeInv, NEW o \in Objects, Make!MapFails(o)
  PROVE  MakeInv'
<1> DEFINE q == IF object[o].kind = "rx" THEN [object[o] EXCEPT !.at = "unmapped"] ELSE None
<1>1. /\ o \in Make!Live /\ object[o].at = "map"
      /\ UNCHANGED <<next_id, recycled, rings, maps>>
  BY Zenon DEF Make!MapFails, Make!At
<1>2. object' = [object EXCEPT ![o] = q]
  BY <1>1 DEF Make!MapFails, MakeInv, Members
<1>3. Fits(object[o])
  BY <1>1, Zenon DEF MakeInv, Members
<1>4. /\ object[o].bgid = MaxId /\ object[o].at # "made" /\ ~object[o].br /\ ~object[o].ring
      /\ ~HasBuffers(object[o])
  BY <1>1, <1>3 DEF Fits, Member, HasBuffers
<1>5. /\ q = None \/ Fits(q)
      /\ q # None => q.bgid = object[o].bgid /\ ~q.br /\ ~q.ring /\ ~HasBuffers(q)
  BY <1>1, <1>3, <1>4 DEF Fits, Member, Stages, HasBuffers
<1> HIDE DEF q
<1>6. q \in Member \cup {None}
  BY <1>5, Zenon DEF Fits
<1>7. Members' /\ Ids'
  BY <1>1, <1>2, <1>4, <1>5, Advance, Zenon
<1>8. <<o, "buffers">> \notin maps /\ <<o, "ring">> \notin maps
  BY <1>1, <1>4, Zenon DEF MakeInv, Holding
<1>9. maps \subseteq Objects \X {"buffers", "ring"}
  BY Zenon DEF MakeInv, Holding
<1>10. Holding'
  <2>1. \A k \in Objects \ {o}, w \in {"buffers", "ring"} : <<k, w>> \in maps' <=> <<k, w>> \in maps
    BY <1>1, Zenon
  <2>2. maps' \subseteq Objects \X {"buffers", "ring"}
    BY <1>1, <1>9, Zenon
  <2>3. <<o, "buffers">> \notin maps' /\ <<o, "ring">> \notin maps'
    BY <1>1, <1>8, Zenon
  <2> QED
    BY <1>1, <1>2, <1>4, <1>5, <1>6, <2>1, <2>2, <2>3, SameRings, Zenon
<1> QED
  BY <1>7, <1>10, Zenon DEF MakeInv

(* A registration, or the mapping of the refill ring, fails. *)
LEMMA FailsStep ==
  ASSUME IdsAreNumbers, MakeInv, NEW o \in Objects, Make!Fails(o)
  PROVE  MakeInv'
<1> DEFINE q == [object[o] EXCEPT !.at = "failed"]
<1>1. /\ o \in Make!Live /\ object[o].at \in {"register", "map_ring"}
      /\ object' = [object EXCEPT ![o] = q]
      /\ UNCHANGED <<next_id, recycled, rings, maps>>
  BY Zenon DEF Make!Fails, Make!At
<1>2. Fits(object[o])
  BY <1>1, Zenon DEF MakeInv, Members
<1>3. /\ Fits(q) /\ q.bgid = object[o].bgid /\ object[o].at # "made" /\ ~object[o].br
      /\ ~object[o].ring /\ ~q.br /\ ~q.ring
      /\ (HasBuffers(q) <=> HasBuffers(object[o]))
  BY <1>1, <1>2 DEF Fits, Member, Stages, HasBuffers
<1> HIDE DEF q
<1>4. q # None /\ q \in Member
  BY <1>3, Zenon DEF Fits, IdsAreNumbers
<1>5. Members' /\ Ids'
  BY <1>1, <1>3, <1>4, Advance, Zenon
<1>6. Holding'
  <2>1. maps' \subseteq Objects \X {"buffers", "ring"}
    BY <1>1, Zenon DEF MakeInv, Holding
  <2>2. \A k \in Objects \ {o}, w \in {"buffers", "ring"} : <<k, w>> \in maps' <=> <<k, w>> \in maps
    BY <1>1, Zenon
  <2>3. (<<o, "buffers">> \in maps' <=> HasBuffers(q)) /\ <<o, "ring">> \notin maps'
    BY <1>1, <1>3, Zenon DEF MakeInv, Holding
  <2> QED
    BY <1>1, <1>3, <1>4, <2>1, <2>2, <2>3, SameRings, Zenon
<1> QED
  BY <1>5, <1>6, Zenon DEF MakeInv

(* The refill ring is mapped. *)
LEMMA MapRingStep ==
  ASSUME IdsAreNumbers, MakeInv, NEW o \in Objects, Make!MapRing(o)
  PROVE  MakeInv'
<1> DEFINE q == [object[o] EXCEPT !.ring = TRUE, !.at = "made"]
<1>1. /\ o \in Make!Live /\ object[o].at = "map_ring"
      /\ object' = [object EXCEPT ![o] = q]
      /\ maps' = maps \cup {<<o, "ring">>}
      /\ UNCHANGED <<next_id, recycled, rings>>
  BY DEF Make!MapRing, Make!At
<1>2. Fits(object[o])
  BY <1>1, Zenon DEF MakeInv, Members
<1>3. /\ Fits(q) /\ q.bgid = object[o].bgid /\ object[o].at # "made" /\ ~object[o].br
      /\ ~q.br /\ q.ring
      /\ (HasBuffers(q) <=> HasBuffers(object[o]))
  BY <1>1, <1>2 DEF Fits, Member, Stages, HasBuffers
<1> HIDE DEF q
<1>4. q # None /\ q \in Member
  BY <1>3, Zenon DEF Fits, IdsAreNumbers
<1>5. Members' /\ Ids'
  BY <1>1, <1>3, <1>4, Advance, Zenon
<1>6. Holding'
  <2>1. maps' \subseteq Objects \X {"buffers", "ring"}
    BY <1>1 DEF MakeInv, Holding
  <2>2. \A k \in Objects \ {o}, w \in {"buffers", "ring"} : <<k, w>> \in maps' <=> <<k, w>> \in maps
    BY <1>1
  <2>3. (<<o, "buffers">> \in maps' <=> HasBuffers(q)) /\ <<o, "ring">> \in maps'
    BY <1>1, <1>3, Zenon DEF MakeInv, Holding
  <2> QED
    BY <1>1, <1>3, <1>4, <2>1, <2>2, <2>3, SameRings, Zenon
<1> QED
  BY <1>5, <1>6, Zenon DEF MakeInv

(* The buffer ring or the interface queue is registered. *)
LEMMA RegisterStep ==
  ASSUME IdsAreNumbers, MakeInv, NEW o \in Objects, Make!Register(o)
  PROVE  MakeInv'
<1> DEFINE q == IF object[o].kind = "rx" THEN [object[o] EXCEPT !.at = "map_ring"]
                ELSE [object[o] EXCEPT !.br = TRUE, !.at = "made"]
<1>1. /\ o \in Make!Live /\ object[o].at = "register"
      /\ UNCHANGED <<next_id, recycled, maps>>
  BY Zenon DEF Make!Register, Make!At
<1>2. object' = [object EXCEPT ![o] = q]
  BY DEF Make!Register
<1>3. Fits(object[o])
  BY <1>1, Zenon DEF MakeInv, Members
<1>4. /\ Fits(q) /\ q.bgid = object[o].bgid /\ object[o].at # "made" /\ ~object[o].br
      /\ ~object[o].ring /\ ~q.ring
      /\ (HasBuffers(q) <=> HasBuffers(object[o])) /\ (q.br <=> object[o].kind # "rx")
  <2>1. CASE object[o].kind = "rx"
    BY <1>1, <1>3, <2>1 DEF Fits, Member, Stages, HasBuffers
  <2>2. CASE object[o].kind # "rx"
    BY <1>1, <1>3, <2>2 DEF Fits, Member, Stages, HasBuffers
  <2> QED
    BY <2>1, <2>2
<1> HIDE DEF q
<1>5. q # None /\ q \in Member
  BY <1>4, Zenon DEF Fits, IdsAreNumbers
<1>6. Members' /\ Ids'
  BY <1>1, <1>2, <1>4, <1>5, Advance, Zenon
<1>7. \A i : (\E k \in Make!Live \ {o} : object[k].br /\ object[k].bgid = i) <=> i \in rings
  BY <1>1, <1>4, RingsBut, Zenon DEF MakeInv
<1>8. \A i : i \in rings' <=> (q # None /\ q.br /\ q.bgid = i) \/ i \in rings
  BY <1>4, <1>5 DEF Make!Register
<1>9. Holding'
  <2>1. maps' \subseteq Objects \X {"buffers", "ring"}
    BY <1>1, Zenon DEF MakeInv, Holding
  <2>2. \A k \in Objects \ {o}, w \in {"buffers", "ring"} : <<k, w>> \in maps' <=> <<k, w>> \in maps
    BY <1>1, Zenon
  <2>3. (<<o, "buffers">> \in maps' <=> HasBuffers(q)) /\ <<o, "ring">> \notin maps'
    BY <1>1, <1>4 DEF MakeInv, Holding
  <2>4. \A i : i \in rings' <=> (q # None /\ q.br /\ q.bgid = i)
                   \/ \E k \in Make!Live \ {o} : object[k].br /\ object[k].bgid = i
    BY <1>7, <1>8, Zenon
  <2> QED
    BY <1>2, <1>4, <1>5, <2>1, <2>2, <2>3, <2>4, HoldsFor, Zenon DEF MakeInv
<1> QED
  BY <1>6, <1>9, Zenon DEF MakeInv
-----------------------------------------------------------------------------
(* Taking the last recycled id off, *)
LEMMA TakeRecycled ==
  ASSUME MaxId \in Nat, recycled \in Seq(0..MaxId - 1), recycled # <<>>,
         \A m, n \in DOMAIN recycled : recycled[m] = recycled[n] => m = n,
         recycled' = Tail(recycled)
  PROVE  /\ Head(recycled) \in 0..MaxId - 1
         /\ recycled' \in Seq(0..MaxId - 1)
         /\ \A m, n \in DOMAIN recycled' : recycled'[m] = recycled'[n] => m = n
         /\ Recycled' = Recycled \ {Head(recycled)} /\ Head(recycled) \in Recycled
         /\ Len(recycled') = Len(recycled) - 1
<1> DEFINE s == recycled
<1>1. /\ Len(s) \in Nat \ {0} /\ Head(s) = s[1] /\ DOMAIN s = 1..Len(s) /\ s[1] \in 0..MaxId - 1
      /\ recycled' \in Seq(0..MaxId - 1) /\ Len(recycled') = Len(s) - 1
      /\ DOMAIN recycled' = 1..Len(s) - 1
      /\ \A n \in 1..Len(s) - 1 : recycled'[n] = s[n + 1]
  OBVIOUS
<1>2. ASSUME NEW m \in DOMAIN recycled', NEW n \in DOMAIN recycled', recycled'[m] = recycled'[n]
      PROVE  m = n
  <2>0. ASSUME NEW j \in DOMAIN recycled'
        PROVE  j + 1 \in DOMAIN s /\ recycled'[j] = s[j + 1]
    BY <1>1, <2>0
  <2>1. m + 1 \in DOMAIN s /\ n + 1 \in DOMAIN s /\ s[m + 1] = s[n + 1]
    BY <1>2, <2>0, Zenon
  <2>2. m + 1 = n + 1
    BY <2>1, Zenon
  <2> QED
    BY <1>1, <2>2
<1>3. ASSUME NEW x \in Recycled' PROVE x \in Recycled \ {Head(recycled)}
  <2>1. PICK n \in DOMAIN recycled' : x = recycled'[n]
    BY <1>3, Zenon DEF Recycled
  <2>2. n + 1 \in DOMAIN s /\ n + 1 # 1 /\ 1 \in DOMAIN s /\ x = s[n + 1]
    BY <1>1, <2>1
  <2> QED
    BY <1>1, <2>2, Zenon DEF Recycled
<1>4. ASSUME NEW x \in Recycled, x # Head(recycled) PROVE x \in Recycled'
  <2>1. PICK n \in DOMAIN s : x = s[n]
    BY <1>4, Zenon DEF Recycled
  <2>2. n - 1 \in DOMAIN recycled' /\ recycled'[n - 1] = s[n]
    BY <1>1, <1>4, <2>1
  <2> QED
    BY <2>1, <2>2, Zenon DEF Recycled
<1>5. Head(recycled) \in Recycled
  BY <1>1 DEF Recycled
<1> QED
  BY <1>1, <1>2, <1>3, <1>4, <1>5, Zenon

(* and putting one on. *)
LEMMA PutRecycled ==
  ASSUME MaxId \in Nat, recycled \in Seq(0..MaxId - 1), NEW x \in 0..MaxId - 1,
         x \notin Recycled,
         \A m, n \in DOMAIN recycled : recycled[m] = recycled[n] => m = n,
         recycled' = <<x>> \o recycled
  PROVE  /\ recycled' \in Seq(0..MaxId - 1)
         /\ \A m, n \in DOMAIN recycled' : recycled'[m] = recycled'[n] => m = n
         /\ Recycled' = Recycled \cup {x}
         /\ Len(recycled') = Len(recycled) + 1
<1> DEFINE s == recycled
<1>1. /\ Len(s) \in Nat /\ DOMAIN s = 1..Len(s)
      /\ recycled' \in Seq(0..MaxId - 1) /\ Len(recycled') = Len(s) + 1
      /\ DOMAIN recycled' = 1..Len(s) + 1
      /\ recycled'[1] = x
      /\ \A n \in 2..Len(s) + 1 : recycled'[n] = s[n - 1]
  OBVIOUS
<1>2. \A n \in DOMAIN s : s[n] # x
  BY Zenon DEF Recycled
<1>3. ASSUME NEW m \in DOMAIN recycled', NEW n \in DOMAIN recycled', recycled'[m] = recycled'[n]
      PROVE  m = n
  <2>1. ASSUME NEW j \in DOMAIN recycled', j # 1
        PROVE  j - 1 \in DOMAIN s /\ recycled'[j] = s[j - 1]
    BY <1>1, <2>1
  <2>2. CASE m # 1 /\ n # 1
    <3>1. m - 1 = n - 1
      BY <1>3, <2>1, <2>2, Zenon
    <3> QED
      BY <1>1, <3>1
  <2>3. CASE m = 1
    BY <1>1, <1>2, <1>3, <2>1, <2>3
  <2>4. CASE n = 1
    BY <1>1, <1>2, <1>3, <2>1, <2>4
  <2> QED
    BY <2>2, <2>3, <2>4, Zenon
<1>4. ASSUME NEW y \in Recycled' PROVE y \in Recycled \cup {x}
  <2>1. PICK n \in DOMAIN recycled' : y = recycled'[n]
    BY <1>4, Zenon DEF Recycled
  <2>2. y = x \/ (n - 1 \in DOMAIN s /\ y = s[n - 1])
    BY <1>1, <2>1
  <2> QED
    BY <2>2, Zenon DEF Recycled
<1>5. ASSUME NEW y \in Recycled \cup {x} PROVE y \in Recycled'
  <2>1. CASE y = x
    BY <1>1, <2>1 DEF Recycled
  <2>2. CASE y \in Recycled
    <3>1. PICK n \in DOMAIN s : y = s[n]
      BY <2>2, Zenon DEF Recycled
    <3>2. n + 1 \in 2..Len(s) + 1 /\ n + 1 \in DOMAIN recycled' /\ (n + 1) - 1 = n
      BY <1>1, <3>1
    <3>3. recycled'[n + 1] = s[n]
      BY <1>1, <3>2
    <3> QED
      BY <3>1, <3>2, <3>3, Zenon DEF Recycled
  <2> QED
    BY <1>5, <2>1, <2>2, Zenon
<1> QED
  BY <1>1, <1>3, <1>4, <1>5, Zenon

(* An object gets an id that nobody has. *)
LEMMA IdGoesOut ==
  ASSUME CardinalityLaws, MaxId \in Nat, next_id \in 0..MaxId, Ids,
         NEW o, o \notin Make!Grouped,
         NEW x \in 0..MaxId - 1, \A k \in Make!Grouped : object[k].bgid # x,
         Make!Grouped' = Make!Grouped \cup {o}, object'[o].bgid = x,
         \A k \in Make!Grouped : object'[k].bgid = object[k].bgid,
         recycled' \in Seq(0..MaxId - 1),
         \A m, n \in DOMAIN recycled' : recycled'[m] = recycled'[n] => m = n,
         Recycled' = Recycled \ {x},
         next_id' \in Nat,
         \A i \in 0..MaxId : i < next_id' <=> i < next_id \/ i = x,
         Len(recycled') + (Cardinality(Make!Grouped) + 1) = next_id'
  PROVE  Ids'
<1>1. /\ IsFiniteSet(Make!Grouped) /\ Cardinality(Make!Grouped) \in Nat
      /\ IsFiniteSet(Make!Grouped')
      /\ Cardinality(Make!Grouped') = Cardinality(Make!Grouped) + 1
  BY Zenon DEF Ids, CardinalityLaws
<1>2. Len(recycled') + Cardinality(Make!Grouped') = next_id'
  BY <1>1, Zenon
<1>3. ASSUME NEW k \in Make!Grouped', NEW l \in Make!Grouped', object'[k].bgid = object'[l].bgid
      PROVE  k = l
  <2>1. CASE k = o \/ l = o
    BY <1>3, <2>1, Zenon
  <2>2. CASE k # o /\ l # o
    BY <1>3, <2>2, Zenon DEF Ids
  <2> QED
    BY <2>1, <2>2, Zenon
<1>4. \A k \in Make!Grouped' : object'[k].bgid \notin Recycled'
  BY DEF Ids
<1>5. \A i \in 0..MaxId : i < next_id' <=>
        i \in Recycled' \/ \E k \in Make!Grouped' : object'[k].bgid = i
  <2> SUFFICES ASSUME NEW i \in 0..MaxId
               PROVE  i < next_id' <=>
                        i \in Recycled' \/ \E k \in Make!Grouped' : object'[k].bgid = i
    OBVIOUS
  <2>1. i < next_id <=> i \in Recycled \/ \E k \in Make!Grouped : object[k].bgid = i
    BY Zenon DEF Ids
  <2>2. CASE i = x
    BY <2>2, Zenon
  <2>3. CASE i # x
    <3>1. i < next_id' <=> i < next_id
      BY <2>3, Zenon
    <3>2. i \in Recycled' <=> i \in Recycled
      BY <2>3, Zenon
    <3>3. (\E k \in Make!Grouped' : object'[k].bgid = i) <=> \E k \in Make!Grouped : object[k].bgid = i
      BY <2>3, Zenon
    <3> QED
      BY <2>1, <3>1, <3>2, <3>3, Zenon
  <2> QED
    BY <2>2, <2>3, Zenon
<1> QED
  BY <1>1, <1>2, <1>3, <1>4, <1>5, Zenon DEF Ids

(* An object gives its id back. *)
LEMMA IdComesBack ==
  ASSUME CardinalityLaws, MaxId \in Nat, next_id \in 0..MaxId, Ids,
         NEW o \in Make!Grouped, object[o].bgid \in 0..MaxId - 1,
         Make!Grouped' = Make!Grouped \ {o},
         \A k \in Make!Grouped \ {o} : object'[k].bgid = object[k].bgid,
         recycled' = <<object[o].bgid>> \o recycled, UNCHANGED next_id
  PROVE  Ids'
<1>0. /\ recycled' \in Seq(0..MaxId - 1)
      /\ \A m, n \in DOMAIN recycled' : recycled'[m] = recycled'[n] => m = n
      /\ Recycled' = Recycled \cup {object[o].bgid}
      /\ Len(recycled') = Len(recycled) + 1
  BY PutRecycled, Zenon DEF Ids
<1>1. /\ IsFiniteSet(Make!Grouped) /\ Cardinality(Make!Grouped) \in Nat
      /\ IsFiniteSet(Make!Grouped')
      /\ Cardinality(Make!Grouped') = Cardinality(Make!Grouped) - 1
  BY Zenon DEF Ids, CardinalityLaws
<1>2. Len(recycled') + Cardinality(Make!Grouped') = next_id'
  <2>1. Len(recycled) \in Nat
    BY DEF Ids
  <2>2. Len(recycled) + Cardinality(Make!Grouped) = next_id
    BY Zenon DEF Ids
  <2> QED
    BY <1>0, <1>1, <2>1, <2>2
<1>3. ASSUME NEW k \in Make!Grouped', NEW l \in Make!Grouped', object'[k].bgid = object'[l].bgid
      PROVE  k = l
  <2>1. /\ k \in Make!Grouped \ {o} /\ l \in Make!Grouped \ {o}
        /\ object[k].bgid = object[l].bgid
    BY <1>3
  <2> QED
    BY <2>1, Zenon DEF Ids
<1>4. ASSUME NEW k \in Make!Grouped' PROVE object'[k].bgid \notin Recycled'
  <2>1. k \in Make!Grouped \ {o} /\ object'[k].bgid = object[k].bgid
    BY <1>4, Zenon
  <2>2. object[k].bgid \notin Recycled /\ object[k].bgid # object[o].bgid
    BY <2>1, Zenon DEF Ids
  <2> QED
    BY <1>0, <2>1, <2>2, Zenon
<1>5. \A i \in 0..MaxId : i < next_id' <=>
        i \in Recycled' \/ \E k \in Make!Grouped' : object'[k].bgid = i
  <2> SUFFICES ASSUME NEW i \in 0..MaxId
               PROVE  i < next_id' <=>
                        i \in Recycled' \/ \E k \in Make!Grouped' : object'[k].bgid = i
    OBVIOUS
  <2>1. i < next_id <=> i \in Recycled \/ \E k \in Make!Grouped : object[k].bgid = i
    BY Zenon DEF Ids
  <2>2. CASE i = object[o].bgid
    BY <1>0, <2>1, <2>2
  <2>3. CASE i # object[o].bgid
    BY <1>0, <2>1, <2>3
  <2> QED
    BY <2>2, <2>3, Zenon
<1> QED
  BY <1>0, <1>1, <1>2, <1>3, <1>4, <1>5, Zenon DEF Ids

(* Neither taking an id nor making one changes how many there are. *)
LEMMA IdSums ==
  /\ \A l, c \in Nat : (l - 1) + (c + 1) = l + c
  /\ \A l, c \in Nat : l + (c + 1) = (l + c) + 1
BY SMT

(* bgid_pool.allocate() *)
LEMMA AllocateStep ==
  ASSUME CardinalityLaws, IdsAreNumbers, MakeInv, NEW o \in Objects, Make!Allocate(o)
  PROVE  MakeInv'
<1>1. /\ o \in Make!Live /\ object[o].at = "allocate"
      /\ UNCHANGED <<rings, maps>>
  BY Zenon DEF Make!Allocate, Make!At
<1>2. Fits(object[o])
  BY <1>1, Zenon DEF MakeInv, Members
<1>3. /\ object[o].bgid = MaxId /\ object[o].kind # "rx" /\ ~object[o].br /\ ~object[o].ring
      /\ object[o].at # "made"
  BY <1>1, <1>2 DEF Fits, Member
<1>4. \A k \in Make!Live \ {o} : object[k].at = "made"
  BY <1>1, <1>3, Zenon DEF MakeInv, Members
<1>5. o \notin Make!Grouped
  BY <1>3, Zenon DEF Make!Grouped
<1>6. /\ MaxId \in Nat /\ next_id \in 0..MaxId /\ Ids /\ Members
      /\ recycled \in Seq(0..MaxId - 1)
  BY <1>1, Zenon DEF IdsAreNumbers, MakeInv, Members, Ids
<1>7. /\ maps' \subseteq Objects \X {"buffers", "ring"}
      /\ \A k \in Objects \ {o}, w \in {"buffers", "ring"} : <<k, w>> \in maps' <=> <<k, w>> \in maps
      /\ <<o, "buffers">> \in maps' <=> HasBuffers(object[o])
      /\ <<o, "ring">> \notin maps'
  BY <1>1, <1>3, Zenon DEF MakeInv, Holding
<1>8. Len(recycled) \in Nat /\ Cardinality(Make!Grouped) \in Nat
      /\ Len(recycled) + Cardinality(Make!Grouped) = next_id
  <2>1. Len(recycled) \in Nat
    BY <1>6
  <2> QED
    BY <2>1, Zenon DEF MakeInv, Ids, CardinalityLaws
<1>9. ASSUME NEW x \in 0..MaxId - 1, \A k \in Make!Grouped : object[k].bgid # x,
             object' = [object EXCEPT ![o].bgid = x, ![o].at = "register"],
             recycled' \in Seq(0..MaxId - 1),
             \A m, n \in DOMAIN recycled' : recycled'[m] = recycled'[n] => m = n,
             Recycled' = Recycled \ {x},
             next_id' \in 0..MaxId,
             \A i \in 0..MaxId : i < next_id' <=> i < next_id \/ i = x,
             Len(recycled') + (Cardinality(Make!Grouped) + 1) = next_id'
      PROVE  MakeInv'
  <2> DEFINE q == [object[o] EXCEPT !.bgid = x, !.at = "register"]
  <2>1. object' = [object EXCEPT ![o] = q]
    BY <1>9
  <2>2. x \in 0..MaxId /\ x # MaxId
    BY <1>6
  <2>3. /\ Fits(q) /\ q.bgid = x /\ ~q.br /\ ~q.ring
        /\ (HasBuffers(q) <=> HasBuffers(object[o]))
    BY <1>1, <1>2, <1>3, <2>2 DEF Fits, Member, Stages, HasBuffers
  <2> HIDE DEF q
  <2>4. q # None /\ q \in Member
    BY <2>3, Zenon DEF Fits, IdsAreNumbers
  <2>5. Members'
    BY <1>4, <1>6, <1>9, <2>1, <2>3, BecomesFitting, Zenon
  <2>6. Holding'
    BY <1>1, <1>3, <1>7, <2>1, <2>3, <2>4, SameRings, Zenon
  <2>7. Make!Grouped' = Make!Grouped \cup {o}
    <3>1. Make!Grouped' = IF q # None /\ q.bgid # MaxId THEN Make!Grouped \cup {o}
                                                    ELSE Make!Grouped \ {o}
      BY <1>6, <2>1, <2>4, GroupedWith, Zenon
    <3> QED
      BY <2>2, <2>3, <2>4, <3>1
  <2>8. object'[o].bgid = x /\ \A k \in Make!Grouped : object'[k].bgid = object[k].bgid
    <3>1. object'[o] = q /\ \A k \in Objects \ {o} : object'[k] = object[k]
      BY <1>6, <2>1, <2>4, Becomes, Zenon
    <3>2. \A k \in Make!Grouped : k \in Objects \ {o}
      BY <1>5, Zenon DEF Make!Grouped, Make!Live
    <3> QED
      BY <2>3, <3>1, <3>2
  <2>9. next_id' \in Nat
    BY <1>6, <1>9
  <2>10. Ids'
    BY <1>5, <1>6, <1>9, <2>7, <2>8, <2>9, IdGoesOut, Zenon
  <2> QED
    BY <2>5, <2>6, <2>10, Zenon DEF MakeInv
<1>10. CASE /\ recycled # <<>> /\ recycled' = Tail(recycled) /\ UNCHANGED next_id
            /\ object' = [object EXCEPT ![o].bgid = Head(recycled), ![o].at = "register"]
  <2>1. \A m, n \in DOMAIN recycled : recycled[m] = recycled[n] => m = n
    BY <1>6, Zenon DEF Ids
  <2>2. /\ Head(recycled) \in 0..MaxId - 1
        /\ recycled' \in Seq(0..MaxId - 1)
        /\ \A m, n \in DOMAIN recycled' : recycled'[m] = recycled'[n] => m = n
        /\ Recycled' = Recycled \ {Head(recycled)} /\ Head(recycled) \in Recycled
        /\ Len(recycled') = Len(recycled) - 1
    BY <1>6, <1>10, <2>1, TakeRecycled, Zenon
  <2>3. \A k \in Make!Grouped : object[k].bgid # Head(recycled)
    BY <1>6, <2>2, Zenon DEF Ids
  <2>4. \A i \in 0..MaxId : i \in Recycled => i < next_id
    BY <1>6, Zenon DEF Ids
  <2>5. Head(recycled) \in 0..MaxId
    BY <1>6, <2>2
  <2>6. \A i \in 0..MaxId : i < next_id' <=> i < next_id \/ i = Head(recycled)
    BY <1>10, <2>2, <2>4, <2>5, Zenon
  <2>7. (Len(recycled) - 1) + (Cardinality(Make!Grouped) + 1) = next_id
    BY <1>8, IdSums, Zenon
  <2>8. Len(recycled') + (Cardinality(Make!Grouped) + 1) = next_id'
    BY <1>10, <2>2, <2>7, Zenon
  <2> QED
    BY <1>6, <1>9, <1>10, <2>2, <2>3, <2>6, <2>8, Zenon
<1>11. CASE /\ recycled = <<>> /\ next_id < MaxId /\ next_id' = next_id + 1 /\ UNCHANGED recycled
            /\ object' = [object EXCEPT ![o].bgid = next_id, ![o].at = "register"]
  <2>1. next_id \in 0..MaxId - 1 /\ next_id' \in 0..MaxId /\ ~(next_id < next_id)
    BY <1>6, <1>11
  <2>2. \A i \in 0..MaxId : i < next_id' <=> i < next_id \/ i = next_id
    BY <1>6, <1>11
  <2>3. next_id \in 0..MaxId
    BY <1>6, Zenon
  <2>4. next_id \notin Recycled /\ \A k \in Make!Grouped : object[k].bgid # next_id
    BY <1>6, <2>1, <2>3, Zenon DEF Ids
  <2>5. Recycled' = Recycled \ {next_id}
    BY <1>11, <2>4 DEF Recycled
  <2>6. Len(recycled) + (Cardinality(Make!Grouped) + 1) = next_id + 1
    BY <1>8
  <2>7. Len(recycled') + (Cardinality(Make!Grouped) + 1) = next_id'
    BY <1>11, <2>6, Zenon
  <2>8. /\ recycled' \in Seq(0..MaxId - 1)
        /\ \A m, n \in DOMAIN recycled' : recycled'[m] = recycled'[n] => m = n
    BY <1>6, <1>11, Zenon DEF Ids
  <2> QED
    BY <1>9, <1>11, <2>1, <2>2, <2>4, <2>5, <2>7, <2>8, Zenon
<1>12. CASE /\ UNCHANGED <<next_id, recycled>>
            /\ object' = [object EXCEPT ![o].at = "failed"]
  <2> DEFINE q == [object[o] EXCEPT !.at = "failed"]
  <2>1. object' = [object EXCEPT ![o] = q]
    BY <1>12
  <2>2. /\ Fits(q) /\ q.bgid = object[o].bgid /\ ~q.br /\ ~q.ring
        /\ (HasBuffers(q) <=> HasBuffers(object[o]))
    BY <1>1, <1>2, <1>3 DEF Fits, Member, Stages, HasBuffers
  <2> HIDE DEF q
  <2>3. q # None /\ q \in Member
    BY <2>2, Zenon DEF Fits, IdsAreNumbers
  <2>4. Members' /\ Ids'
    BY <1>1, <1>3, <1>12, <2>1, <2>2, <2>3, Advance, Zenon
  <2>5. Holding'
    BY <1>1, <1>3, <1>7, <2>1, <2>2, <2>3, SameRings, Zenon
  <2> QED
    BY <2>4, <2>5, Zenon DEF MakeInv
<1> QED
  BY <1>10, <1>11, <1>12, Zenon DEF Make!Allocate

(* cleanup_, of an object that failed or was made. *)
LEMMA CleanupStep ==
  ASSUME CardinalityLaws, IdsAreNumbers, MakeInv, NEW o \in Objects, Make!Cleanup(o)
  PROVE  MakeInv'
<1>1. /\ o \in Make!Live /\ object[o].at \in {"failed", "unmapped", "made"}
      /\ object' = [object EXCEPT ![o] = None] /\ UNCHANGED next_id
      /\ rings' = IF object[o].br THEN rings \ {object[o].bgid} ELSE rings
      /\ recycled' = IF object[o].bgid # MaxId THEN <<object[o].bgid>> \o recycled ELSE recycled
      /\ maps' = maps \ Make!MapsOf(o)
  BY Zenon DEF Make!Cleanup, Make!Cleans, Make!At
<1>2. Fits(object[o])
  BY <1>1, Zenon DEF MakeInv, Members
<1>3. \A k \in Make!Live \ {o} : object[k].at = "made"
  BY <1>1, Zenon DEF Make!Cleanup, Make!Cleans, Make!At, Make!Idle, MakeInv, Members
<1>4. /\ MaxId \in Nat /\ next_id \in 0..MaxId /\ Ids /\ Members /\ Holding
      /\ None \in Member \cup {None}
  BY Zenon DEF IdsAreNumbers, MakeInv, Members
<1>5. \A w \in {"buffers", "ring"} : <<o, w>> \in maps => <<o, w>> \in Make!MapsOf(o)
  <2>1. object[o].owns => <<o, "buffers">> \in Make!MapsOf(o)
    BY DEF Make!MapsOf
  <2>2. object[o].ring => <<o, "ring">> \in Make!MapsOf(o)
    BY DEF Make!MapsOf
  <2>3. (<<o, "buffers">> \in maps => object[o].owns) /\ (<<o, "ring">> \in maps => object[o].ring)
    BY <1>1, <1>4, Zenon DEF Holding, HasBuffers
  <2> QED
    BY <2>1, <2>2, <2>3, Zenon
<1>6. \A z \in Make!MapsOf(o) : \E w \in {"buffers", "ring"} : z = <<o, w>>
  BY DEF Make!MapsOf
<1>7. o \in Make!Grouped <=> object[o].bgid # MaxId
  BY <1>1, Zenon DEF Make!Grouped
<1>8. object[o].bgid # MaxId => object[o].bgid \in 0..MaxId - 1 /\ object[o].bgid < next_id
  <2> SUFFICES ASSUME object[o].bgid # MaxId
               PROVE  object[o].bgid \in 0..MaxId - 1 /\ object[o].bgid < next_id
    OBVIOUS
  <2>1. object[o].bgid \in 0..MaxId
    BY <1>2 DEF Fits, Member
  <2>2. object[o].bgid < next_id
    BY <1>4, <1>7, <2>1, Zenon DEF Ids
  <2> QED
    BY <1>4, <2>1, <2>2
<1>11. Members'
  BY <1>1, <1>3, <1>4, BecomesFitting, Zenon
<1>12. Make!Grouped' = Make!Grouped \ {o}
  <2>1. Make!Grouped' = IF None # None /\ None.bgid # MaxId THEN Make!Grouped \cup {o}
                                                    ELSE Make!Grouped \ {o}
    BY <1>1, <1>4, GroupedWith, Zenon
  <2> QED
    BY <2>1, Zenon
<1>13. \A k \in Make!Grouped \ {o} : object'[k].bgid = object[k].bgid
  <2>1. \A k \in Objects \ {o} : object'[k] = object[k]
    BY <1>1, <1>4, Becomes, Zenon
  <2>2. \A k \in Make!Grouped \ {o} : k \in Objects \ {o}
    BY Zenon DEF Make!Grouped, Make!Live
  <2> QED
    BY <2>1, <2>2
<1>14. Ids'
  <2>1. CASE object[o].bgid # MaxId
    BY <1>1, <1>4, <1>7, <1>8, <1>12, <1>13, <2>1, IdComesBack, Zenon
  <2>2. CASE object[o].bgid = MaxId
    <3>1. Make!Grouped \ {o} = Make!Grouped
      BY <1>7, <2>2, Zenon
    <3> QED
      BY <1>1, <1>4, <1>12, <1>13, <2>2, <3>1, SameIds, Zenon
  <2> QED
    BY <2>1, <2>2, Zenon
<1>15. Holding'
  <2>1. maps' \subseteq Objects \X {"buffers", "ring"}
    BY <1>1, <1>4, Zenon DEF Holding
  <2>2. \A k \in Objects \ {o}, w \in {"buffers", "ring"} : <<k, w>> \in maps' <=> <<k, w>> \in maps
    <3>1. \A k \in Objects \ {o}, w \in {"buffers", "ring"} : <<k, w>> \notin Make!MapsOf(o)
      BY <1>6
    <3> QED
      BY <1>1, <3>1, Zenon
  <2>3. <<o, "buffers">> \notin maps' /\ <<o, "ring">> \notin maps'
    BY <1>1, <1>5, Zenon
  <2>4. \A i : (\E k \in Make!Live \ {o} : object[k].br /\ object[k].bgid = i)
                  <=> i \in rings /\ ~(object[o].br /\ object[o].bgid = i)
    BY <1>1, <1>4, RingsBut, Zenon
  <2>5. \A i : i \in rings' <=> i \in rings /\ ~(object[o].br /\ object[o].bgid = i)
    BY <1>1, Zenon
  <2>6. \A i : i \in rings' <=> (None # None /\ None.br /\ None.bgid = i)
                   \/ \E k \in Make!Live \ {o} : object[k].br /\ object[k].bgid = i
    BY <2>4, <2>5, Zenon
  <2> QED
    BY <1>1, <1>4, <2>1, <2>2, <2>3, <2>6, HoldsFor, Zenon
<1> QED
  BY <1>11, <1>14, <1>15, Zenon DEF MakeInv

(* Every step keeps what the members say and what the kernel holds. *)
LEMMA MakeInductive ==
  ASSUME CardinalityLaws, IdsAreNumbers
  PROVE  /\ Make!Init => MakeInv
         /\ MakeInv /\ [Make!Next]_(Make!vars) => MakeInv'
<1>1. ASSUME Make!Init PROVE MakeInv
  <2>1. Make!Live = {} /\ Make!Grouped = {}
    BY <1>1 DEF Make!Init, Make!Live, Make!Grouped
  <2>2. Members
    BY <1>1, <2>1 DEF Make!Init, Members, IdsAreNumbers
  <2>3. Holding
    BY <1>1, <2>1 DEF Make!Init, Holding
  <2>4. recycled = <<>> /\ next_id = 0 /\ DOMAIN recycled = {} /\ Len(recycled) = 0
    BY <1>1 DEF Make!Init
  <2>5. recycled \in Seq(0..MaxId - 1) /\ \A i \in 0..MaxId : ~(i < next_id)
    BY <2>4 DEF IdsAreNumbers
  <2>6. Recycled = {}
    BY <2>4, Zenon DEF Recycled
  <2>7. IsFiniteSet(Make!Grouped) /\ Cardinality(Make!Grouped) = 0
    BY <2>1, Zenon DEF CardinalityLaws
  <2>8. Len(recycled) + Cardinality(Make!Grouped) = next_id
    BY <2>4, <2>7
  <2>9. Ids
    BY <2>1, <2>4, <2>5, <2>6, <2>7, <2>8, Zenon DEF Ids
  <2> QED
    BY <2>2, <2>3, <2>9, Zenon DEF MakeInv
<1>2. ASSUME MakeInv, [Make!Next]_(Make!vars) PROVE MakeInv'
  <2>1. CASE UNCHANGED Make!vars
    <3>1. UNCHANGED <<next_id, recycled, rings, maps, object>>
      BY <2>1, Zenon DEF Make!vars
    <3>2. Members' /\ Holding'
      BY <1>2, <3>1, Zenon DEF MakeInv, Members, Holding, Make!Live
    <3>3. Make!Grouped' = Make!Grouped /\ Recycled' = Recycled
      BY <3>1, Zenon DEF Make!Grouped, Make!Live, Recycled
    <3>4. Ids'
      BY <1>2, <3>1, <3>3, Zenon DEF MakeInv, Ids
    <3> QED
      BY <3>2, <3>4, Zenon DEF MakeInv
  <2>2. ASSUME NEW o \in Objects, NEW kind \in {"queue", "pool", "rx"}, NEW owns \in BOOLEAN,
               Make!New(o, kind, owns)
        PROVE  MakeInv'
    BY <1>2, <2>2, NewStep, Zenon
  <2>3. ASSUME NEW o \in Objects,
               \/ Make!Map(o) \/ Make!MapFails(o) \/ Make!Allocate(o) \/ Make!Register(o)
               \/ Make!MapRing(o) \/ Make!Fails(o) \/ Make!Cleanup(o)
        PROVE  MakeInv'
    BY <1>2, <2>3, MapStep, MapFailsStep, AllocateStep, RegisterStep, MapRingStep, FailsStep,
       CleanupStep, Zenon
  <2> QED
    BY <1>2, <2>1, <2>2, <2>3, Zenon DEF Make!Next
<1> QED
  BY <1>1, <1>2, Zenon

(* The instance of FiniteSets that Registration has is this one. *)
LEMMA SameCardinality == \A S : Make!Cardinality(S) = Cardinality(S)
BY Zenon DEF Make!Cardinality, Cardinality

(* Between constructors everything that is registered or mapped belongs to *)
(* an object that was made.                                                *)
LEMMA MakeInvUndone ==
  ASSUME IdsAreNumbers, MakeInv PROVE Make!FailedIsUndone
<1>1. /\ \A o, k \in Make!Grouped : object[o].bgid = object[k].bgid => o = k
      /\ Len(recycled) + Cardinality(Make!Grouped) = next_id
  BY Zenon DEF MakeInv, Members, Ids
<1>2. Recycled \cup {object[o].bgid : o \in Make!Grouped} = {i \in 0..MaxId : i < next_id}
  <2>1. \A i \in 0..MaxId : i < next_id <=> i \in Recycled \/ \E o \in Make!Grouped : object[o].bgid = i
    BY Zenon DEF MakeInv, Ids
  <2>2. \A i \in Recycled : i \in 0..MaxId
    BY DEF Recycled, MakeInv, Ids, IdsAreNumbers
  <2>3. \A o \in Make!Grouped : object[o].bgid \in 0..MaxId
    BY DEF Make!Grouped, MakeInv, Members, Fits, Member
  <2> QED
    BY <2>1, <2>2, <2>3, Zenon
<1>3. ASSUME Make!Idle PROVE rings = {object[o].bgid : o \in Make!Grouped}
  <2>1. \A o : o \in Make!Grouped <=> o \in Make!Live /\ object[o].br
    BY <1>3 DEF Make!Grouped, Make!Idle, MakeInv, Members, Fits
  <2>2. \A i : i \in rings <=> \E o \in Make!Grouped : object[o].bgid = i
    BY <2>1, Zenon DEF MakeInv, Holding
  <2> QED
    BY <2>2, Zenon
<1>4. ASSUME Make!Idle PROVE maps = UNION {Make!MapsOf(o) : o \in Make!Live}
  <2>1. ASSUME NEW z \in maps PROVE z \in UNION {Make!MapsOf(o) : o \in Make!Live}
    <3>1. PICK o \in Objects, w \in {"buffers", "ring"} : z = <<o, w>>
      BY <2>1 DEF MakeInv, Holding
    <3>2. o \in Make!Live /\ ((w = "buffers" /\ object[o].owns) \/ (w = "ring" /\ object[o].ring))
      BY <2>1, <3>1, Zenon DEF MakeInv, Holding, HasBuffers
    <3>3. z \in Make!MapsOf(o)
      BY <3>1, <3>2, Zenon DEF Make!MapsOf
    <3> QED
      BY <3>2, <3>3, Zenon
  <2>2. ASSUME NEW o \in Make!Live, NEW z \in Make!MapsOf(o) PROVE z \in maps
    <3>1. PICK w \in {"buffers", "ring"} :
            z = <<o, w>> /\ ((w = "buffers" /\ object[o].owns) \/ (w = "ring" /\ object[o].ring))
      BY <2>2, Zenon DEF Make!MapsOf
    <3>2. object[o].at \notin {"map", "unmapped"}
      BY <1>4, <2>2 DEF Make!Idle
    <3> QED
      BY <2>2, <3>1, <3>2, Zenon DEF MakeInv, Holding, HasBuffers, Make!Live
  <2> QED
    BY <2>1, <2>2, Zenon
<1>5. {recycled[n] : n \in DOMAIN recycled} \cup {object[o].bgid : o \in Make!Grouped}
        = {i \in 0..MaxId : i < next_id}
  BY <1>2, Zenon DEF Recycled
<1>6. ASSUME NEW o \in Make!Live, Make!Cleans(o)
      PROVE  Make!FailedCalls(o) = IF Make!At(o, "unmapped") THEN {"munmap"} ELSE {}
  <2>1. object[o].br => object[o].bgid \in rings
    BY <1>6, Zenon DEF MakeInv, Holding
  <2>2. object[o].bgid # MaxId => ~(object[o].bgid >= next_id)
    <3>1. object[o].bgid \in 0..MaxId /\ next_id \in 0..MaxId /\ MaxId \in Nat
      BY <1>6 DEF MakeInv, Members, Fits, Member, IdsAreNumbers
    <3>2. object[o].bgid # MaxId => object[o].bgid < next_id
      BY <1>6, <3>1, Zenon DEF MakeInv, Ids, Make!Grouped
    <3> QED
      BY <3>1, <3>2
  <2>3. o \in Objects /\ object[o].at # "map"
    BY <1>6 DEF Make!Live, Make!Cleans, Make!At
  <2>4. Make!At(o, "unmapped") <=> object[o].at = "unmapped"
    BY <1>6, Zenon DEF Make!At
  <2>5. Make!MapsOf(o) \subseteq maps <=> ~Make!At(o, "unmapped")
    <3>1. <<o, "buffers">> \in Make!MapsOf(o) <=> object[o].owns
      BY DEF Make!MapsOf
    <3>2. <<o, "ring">> \in Make!MapsOf(o) <=> object[o].ring
      BY DEF Make!MapsOf
    <3>3. \A z \in Make!MapsOf(o) : z = <<o, "buffers">> \/ z = <<o, "ring">>
      BY DEF Make!MapsOf
    <3>4. object[o].at = "unmapped" => object[o].owns
      BY <1>6 DEF MakeInv, Members, Fits
    <3>5. /\ <<o, "buffers">> \in maps <=> HasBuffers(object[o])
          /\ <<o, "ring">> \in maps <=> object[o].ring
      BY <1>6, <2>3, Zenon DEF MakeInv, Holding
    <3>6. HasBuffers(object[o]) <=> object[o].owns /\ object[o].at # "unmapped"
      BY <2>3, Zenon DEF HasBuffers
    <3> QED
      BY <2>4, <3>1, <3>2, <3>3, <3>4, <3>5, <3>6, Zenon
  <2> QED
    BY <2>1, <2>2, <2>5 DEF Make!FailedCalls
<1> QED
  BY <1>1, <1>3, <1>4, <1>5, <1>6, SameCardinality, Zenon DEF Make!FailedIsUndone
-----------------------------------------------------------------------------
(* examples/link-cp.cpp *)

CONSTANTS FileSize, ChunkSize, ShortWrites

VARIABLES copy_main, buffer, copy_files, offset, task, cur, copied

Copy == INSTANCE FileCopy WITH main <- copy_main, files <- copy_files

(* The tasks that have a chunk. *)
Working == {t \in Tasks : task[t] \in {"read", "write"}}

(* Types, and where the tasks are for a given place of main. *)
Places ==
  /\ offset \in Nat
  /\ cur \in [Tasks -> Nat]
  /\ task \in [Tasks -> {"none", "loop", "read", "write", "ended"}]
  /\ copied \subseteq 0..FileSize - 1
  /\ copy_main \in {"open", "stat", "advise", "await", "close", "done", "exit"}
  /\ copy_main \in {"open", "stat", "advise"} => task = [t \in Tasks |-> "none"] /\ offset = 0
  /\ copy_main \in {"close", "done"} => \A t \in Tasks : task[t] = "ended"
  /\ copy_main = "await" => buffer /\ copy_files = {"in", "out"}
  /\ copy_main = "advise" => buffer
  /\ copy_main \in {"stat", "advise"} => copy_files = {"in", "out"}
  /\ copy_main = "await" => \A t \in Tasks : task[t] # "none"

(* The chunks at work lie below offset, begin inside the file and are a    *)
(* chunk apart; what is below offset and not at work has been copied; a    *)
(* task has ended only if offset is past the end of the file.              *)
Progress ==
  /\ \A t \in Working : cur[t] < FileSize /\ cur[t] + ChunkSize <= offset
  /\ \A t, u \in Working :
       t # u => cur[t] + ChunkSize <= cur[u] \/ cur[u] + ChunkSize <= cur[t]
  /\ \A b \in 0..FileSize - 1 :
       b < offset => b \in copied \/ \E t \in Working : b \in Copy!Chunk(cur[t])
  /\ (\E t \in Tasks : task[t] = "ended") => FileSize <= offset

CopyInv == Places /\ Progress

(* Nothing is copied before the tasks are spawned, and each step keeps the *)
(* accounts of Progress.                                                   *)
LEMMA CopyInductive ==
  ASSUME FileSize \in Nat, ChunkSize \in Nat \ {0}, ~ShortWrites, Tasks # {}
  PROVE  /\ Copy!Init => CopyInv
         /\ CopyInv /\ [Copy!Next]_(Copy!vars) => CopyInv'
         /\ CopyInv => Copy!CopyIsExact
<1>1. Copy!Init => CopyInv
  BY DEF Copy!Init, CopyInv, Places, Progress, Working
<1>2. ASSUME CopyInv, [Copy!Next]_(Copy!vars) PROVE CopyInv'
  <2>0. CopyInv
    BY <1>2, Zenon
  <2> USE <2>0 DEF CopyInv, Places
  <2>1. CASE Copy!Exit
    BY <2>1, Zenon DEF Copy!Exit, Progress, Working
  <2>2. CASE UNCHANGED Copy!vars
    BY <2>2, Zenon DEF Copy!vars, Progress, Working
  <2>3. CASE Copy!Open
    BY <2>1, <2>3, Zenon DEF Copy!Open, Progress, Working
  <2>4. CASE Copy!Stat
    BY <2>1, <2>4, Zenon DEF Copy!Stat, Progress, Working
  <2>5. CASE Copy!Spawn /\ ~Copy!Exit
    <3>1. /\ copy_main = "advise" /\ copy_main' = "await" /\ offset' = 0
          /\ task' = [t \in Tasks |-> "loop"] /\ offset = 0
          /\ UNCHANGED <<buffer, copy_files, cur, copied>>
      BY <2>5, Zenon DEF Copy!Spawn
    <3>2. Working' = {}
      BY <3>1, Zenon DEF Working
    <3>3. \A t \in Tasks : task'[t] = "loop"
      BY <3>1, Zenon
    <3>4. \A b \in 0..FileSize - 1 : ~(b < 0)
      BY SMT
    <3>5. Progress'
      BY <3>1, <3>2, <3>3, <3>4, Zenon DEF Progress
    <3>6. Places'
      BY <3>1, <3>3
    <3> QED
      BY <3>5, <3>6, Zenon
  <2>6. CASE Copy!Join
    BY <2>6, Zenon DEF Copy!Join, Progress, Working
  <2>7. CASE Copy!Close
    BY <2>7, Zenon DEF Copy!Close, Progress, Working
  <2>8. ASSUME NEW t \in Tasks, Copy!NextChunk(t), copy_main # "exit" PROVE CopyInv'
    <3>1. copy_main = "await"
      BY <2>8, Zenon DEF Copy!NextChunk
    <3>2. CASE offset < FileSize
      <4>1. /\ cur' = [cur EXCEPT ![t] = offset]
            /\ offset' = offset + ChunkSize
            /\ task' = [task EXCEPT ![t] = "read"]
            /\ UNCHANGED <<copy_main, buffer, copy_files, copied>>
            /\ task[t] = "loop"
        BY <2>8, <3>2, Zenon DEF Copy!NextChunk
      <4>2. Working' = Working \cup {t} /\ t \notin Working
        BY <4>1, Zenon DEF Working
      <4>3. Places'
        BY <3>1, <4>1
      <4>4. \A u \in Working : cur'[u] = cur[u] /\ cur[u] + ChunkSize <= offset
        BY <4>1, <4>2, Zenon DEF Progress, Working
      <4>5. \A u \in Working' : cur'[u] < FileSize /\ cur'[u] + ChunkSize <= offset'
        BY <3>2, <4>1, <4>2, <4>4 DEF Progress, Working
      <4>6. \A u, v \in Working' :
              u # v => cur'[u] + ChunkSize <= cur'[v] \/ cur'[v] + ChunkSize <= cur'[u]
        BY <4>1, <4>2, <4>4 DEF Progress
      <4>7. ASSUME NEW b \in 0..FileSize - 1, b < offset'
            PROVE  b \in copied' \/ \E u \in Working' : b \in Copy!Chunk(cur'[u])
        <5>1. CASE b < offset
          BY <4>1, <4>2, <4>4, <5>1, Zenon DEF Progress
        <5>2. CASE offset <= b
          BY <3>2, <4>1, <4>2, <4>7, <5>2 DEF Copy!Chunk, Copy!ToCopy
        <5> QED
          BY <5>1, <5>2
      <4>8. ~\E u \in Tasks : task'[u] = "ended"
        BY <3>2, <4>1 DEF Progress
      <4> QED
        BY <4>3, <4>5, <4>6, <4>7, <4>8, Zenon DEF Progress
    <3>3. CASE FileSize <= offset
      <4>1. UNCHANGED <<copy_main, buffer, copy_files, copied, cur, offset, Working>>
        BY <2>8, <3>3 DEF Copy!NextChunk, Working
      <4>2. Places'
        BY <2>8, <3>1, <3>3, <4>1 DEF Copy!NextChunk
      <4>3. Progress'
        BY <3>3, <4>1, Zenon DEF Progress
      <4> QED
        BY <4>2, <4>3, Zenon
    <3> QED
      BY <3>2, <3>3
  <2>9. ASSUME NEW t \in Tasks, Copy!Read(t), copy_main # "exit" PROVE CopyInv'
    <3>1. UNCHANGED <<copy_main, buffer, copy_files, copied, cur, offset, Working>>
      BY <2>9, Zenon DEF Copy!Read, Working
    <3>2. Places'
      BY <2>9, <3>1 DEF Copy!Read
    <3>3. Progress'
      BY <2>9, <3>1, Zenon DEF Progress, Copy!Read
    <3> QED
      BY <3>2, <3>3, Zenon
  <2>10. ASSUME NEW t \in Tasks, Copy!Write(t), copy_main # "exit" PROVE CopyInv'
    <3>1. /\ UNCHANGED <<copy_main, buffer, copy_files, cur, offset>>
          /\ task' = [task EXCEPT ![t] = "loop"]
          /\ copied' = copied \cup Copy!Chunk(cur[t])
          /\ t \in Working
      BY <2>10, Zenon DEF Copy!Write, Copy!Chunk, Working
    <3>2. Working' = Working \ {t}
      BY <3>1, Zenon DEF Working
    <3>3. Copy!Chunk(cur[t]) \subseteq 0..FileSize - 1
      BY <3>1 DEF Progress, Copy!Chunk, Copy!ToCopy
    <3>4. Places'
      BY <3>1, <3>3, Zenon DEF Working
    <3>5. Progress'
      BY <3>1, <3>2, Zenon DEF Progress
    <3> QED
      BY <3>4, <3>5, Zenon
  <2>11. ASSUME NEW t \in Tasks, Copy!Fail(t) PROVE CopyInv'
    BY <2>1, <2>11, Zenon DEF Copy!Fail
  <2> QED
    BY <1>2, <2>1, <2>2, <2>3, <2>4, <2>5, <2>6, <2>7, <2>8, <2>9, <2>10, <2>11, Zenon DEF Copy!Next
<1>3. ASSUME CopyInv PROVE Copy!CopyIsExact
  <2> USE DEF CopyInv, Places
  <2>1. ASSUME copy_main = "done" PROVE copied = 0..FileSize - 1
    <3>1. Working = {} /\ FileSize <= offset
      BY <1>3, <2>1, Zenon DEF Progress, Working
    <3>2. \A b \in 0..FileSize - 1 : b \in copied
      BY <1>3, <3>1 DEF Progress
    <3> QED
      BY <1>3, <3>2, Zenon
  <2>2. \A t \in Copy!InFlight : buffer /\ copy_files = {"in", "out"}
    BY <1>3, Zenon DEF Copy!InFlight
  <2>3. ASSUME NEW t \in Copy!InFlight, NEW u \in Copy!InFlight, t # u
        PROVE  Copy!Chunk(cur[t]) \cap Copy!Chunk(cur[u]) = {}
    BY <1>3, <2>3 DEF Copy!InFlight, Working, Progress, Copy!Chunk, Copy!ToCopy
  <2> QED
    BY <2>1, <2>2, <2>3, Zenon DEF Copy!CopyIsExact
<1> QED
  BY <1>1, <1>2, <1>3, Zenon

(* Every byte of the file is copied when the program ends without exit(1), *)
(* and at no time do two tasks work on the same bytes (copy_file_task of   *)
(* link-cp.cpp, which advances the shared offset before it awaits).        *)
THEOREM CopyExact ==
  ASSUME FileSize \in Nat, ChunkSize \in Nat \ {0}, ~ShortWrites, Tasks # {}
  PROVE  Copy!Spec => []Copy!CopyIsExact
<1>1. Copy!Init => CopyInv
  BY CopyInductive, Zenon
<1>2. CopyInv /\ [Copy!Next]_(Copy!vars) => CopyInv'
  BY CopyInductive, Zenon
<1>3. CopyInv => Copy!CopyIsExact
  BY CopyInductive, Zenon
<1> QED
  BY <1>1, <1>2, <1>3, PTL DEF Copy!Spec
-----------------------------------------------------------------------------
INSTANCE FiniteSetTheorems

(* The facts about cardinality are those of FiniteSetTheorems. *)
LEMMA CardinalityHolds == CardinalityLaws
<1>1. IsFiniteSet({}) /\ Cardinality({}) = 0
  BY FS_EmptySet, Zenon
<1>2. \A S : IsFiniteSet(S) => Cardinality(S) \in Nat
  BY FS_CardinalityType, Zenon
<1>3. \A S, x : IsFiniteSet(S) /\ x \notin S =>
        IsFiniteSet(S \cup {x}) /\ Cardinality(S \cup {x}) = Cardinality(S) + 1
  BY FS_AddElement, Zenon
<1>4. \A S, x : IsFiniteSet(S) /\ x \in S =>
        IsFiniteSet(S \ {x}) /\ Cardinality(S \ {x}) = Cardinality(S) - 1
  BY FS_RemoveElement, Zenon
<1>5. \A x : Cardinality({x}) = 1
  BY FS_Singleton, Zenon
<1> QED
  BY <1>1, <1>2, <1>3, <1>4, <1>5, Zenon DEF CardinalityLaws

(* Whatever step of a constructor fails, cleanup_ gives back all that was  *)
(* taken, and no buffer group id is lost or shared, for any number of      *)
(* objects and of ids.  Of the asserts of cleanup_, only the one on munmap *)
(* after a failed mmap of a zero-copy area fails.                          *)
THEOREM Undone ==
  ASSUME IdsAreNumbers PROVE Make!Spec => []Make!FailedIsUndone
<1>1. Make!Init => MakeInv
  BY CardinalityHolds, MakeInductive, Zenon
<1>2. MakeInv /\ [Make!Next]_(Make!vars) => MakeInv'
  BY CardinalityHolds, MakeInductive, Zenon
<1>3. MakeInv => Make!FailedIsUndone
  BY MakeInvUndone, Zenon
<1> QED
  BY <1>1, <1>2, <1>3, PTL DEF Make!Spec
=============================================================================
