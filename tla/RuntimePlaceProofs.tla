------------------------- MODULE RuntimePlaceProofs -------------------------
(***************************************************************************)
(* Where the work of the runtimes of runtime.hpp is, for any number of     *)
(* runtimes, threads and coroutines, any sizes of the queues, also with    *)
(* delayed stores.                                                         *)
(*                                                                         *)
(* First the handover from global_queue_ to the ring.  ring_enabled_ is    *)
(* loaded without the mutex and again under it.  That nothing is queued    *)
(* behind run()'s back needs the second load; that no message is sent to a *)
(* ring that is not enabled needs that the flag is never reset.            *)
(*                                                                         *)
(* Then that a work is never lost or queued twice (Placed), on top of the  *)
(* shape of the state (Shape).                                             *)
(***************************************************************************)
EXTENDS Runtime, TLAPS

(* A thread about to send a message to a runtime has seen its ring         *)
(* enabled.                                                                *)
SendsToEnabled ==
  \A t \in Threads : call[t].at = "send" => ring_enabled[call[t].to] = TRUE

(* The two, with as much of the types as the updates of the functions      *)
(* need.                                                                   *)
Handover ==
  /\ ring_enabled \in [Runtimes -> BOOLEAN]
  /\ global_queue = [r \in Runtimes |-> global_queue[r]]
  /\ call = [t \in Threads |->
               [at |-> call[t].at, to |-> call[t].to, work |-> call[t].work]]
  /\ GlobalQueueClosed
  /\ SendsToEnabled

(* A step that leaves the three variables alone keeps Handover. *)
LEMMA HandoverElsewhere ==
  Handover /\ UNCHANGED <<ring_enabled, global_queue, call>> => Handover'
BY Zenon DEF Handover, GlobalQueueClosed, SendsToEnabled

(* schedule_internal: the work goes to the thread's own queue, or the      *)
(* thread comes to the mutex or, having seen the ring enabled, to the      *)
(* message.                                                                *)
LEMMA HandoverScheduling ==
  ASSUME NEW t \in Threads, NEW to \in Runtimes, NEW w, Handover,
         ScheduleInternal(t, to, w), UNCHANGED <<ring_enabled, global_queue>>
  PROVE  Handover'
<1>1. CASE to = t
  BY <1>1, HandoverElsewhere, Zenon DEF ScheduleInternal
<1>2. CASE to # t
  <2>1. call' = [call EXCEPT ![t] =
          [at |-> IF ring_enabled[to] THEN "send" ELSE "lock", to |-> to, work |-> w]]
    BY <1>2, Zenon DEF ScheduleInternal
  <2>2. call' = [u \in Threads |->
                   [at |-> call'[u].at, to |-> call'[u].to, work |-> call'[u].work]]
    BY <2>1, Zenon DEF Handover
  <2>3. SendsToEnabled'
    BY <2>1, Zenon DEF Handover, SendsToEnabled
  <2> QED
    BY <2>2, <2>3, Zenon DEF Handover, GlobalQueueClosed
<1> QED
  BY <1>1, <1>2, Zenon

(* Every step keeps Handover. *)
LEMMA HandoverStep == Handover /\ [Next]_vars => Handover'
<1> SUFFICES ASSUME Handover, [Next]_vars PROVE Handover'
  OBVIOUS
<1>1. CASE UNCHANGED vars
  BY <1>1, HandoverElsewhere, Zenon DEF vars, shared
<1>2. ASSUME NEW k \in kernel, CompleteOp(k) \/ DeliverMsg(k) PROVE Handover'
  BY <1>2, HandoverElsewhere, Zenon DEF CompleteOp, DeliverMsg, shared
<1>3. ASSUME NEW r \in Runtimes, RunFirst(r) PROVE Handover'
  <2>1. /\ global_queue' = [global_queue EXCEPT ![r] = <<>>]
        /\ ring_enabled' = [ring_enabled EXCEPT ![r] = TRUE]
        /\ UNCHANGED call
    BY <1>3, Zenon DEF RunFirst
  <2>2. global_queue' = [q \in Runtimes |-> global_queue'[q]]
    BY <2>1, Zenon DEF Handover
  <2>3. GlobalQueueClosed'
    BY <2>1, Zenon DEF Handover, GlobalQueueClosed
  <2>4. SendsToEnabled'
    BY <2>1 DEF Handover, SendsToEnabled
  <2> QED
    BY <2>1, <2>2, <2>3, <2>4, Zenon DEF Handover
<1>4. ASSUME NEW r \in Runtimes, RunAgain(r) \/ Loop(r) PROVE Handover'
  BY <1>4, HandoverElsewhere, Zenon
     DEF RunAgain, Loop, Tick, Pop, CheckExit, Exit, Unblock, ProcessCqe, FlushDone, shared
<1>5. ASSUME NEW r \in Runtimes, Suspend(r) PROVE Handover'
  <2>1. CASE StartOp(r) \/ Wait(r) \/ End(r)
    BY <2>1, HandoverElsewhere, Zenon DEF StartOp, Wait, End, shared
  <2>2. ASSUME NEW to \in Runtimes, CoSwitch(r, to) PROVE Handover'
    BY <2>2, HandoverScheduling, Zenon DEF CoSwitch, shared, Threads
  <2> QED
    BY <1>5, <2>1, <2>2, Zenon DEF Suspend
<1>6. ASSUME NEW t \in Threads, ScheduleLocked(t) PROVE Handover'
  <2>1. CASE ring_enabled[call[t].to]
    <3>1. call' = [call EXCEPT ![t].at = "send"] /\ UNCHANGED <<ring_enabled, global_queue>>
      BY <1>6, <2>1, Zenon DEF ScheduleLocked
    <3>2. call' = [u \in Threads |->
                     [at |-> call'[u].at, to |-> call'[u].to, work |-> call'[u].work]]
      BY <3>1 DEF Handover
    <3>3. SendsToEnabled'
      BY <2>1, <3>1 DEF Handover, SendsToEnabled
    <3> QED
      BY <3>1, <3>2, <3>3, Zenon DEF Handover, GlobalQueueClosed
  <2>2. CASE ~ring_enabled[call[t].to]
    <3>1. /\ global_queue' = [global_queue EXCEPT ![call[t].to] = Append(@, call[t].work)]
          /\ call' = [call EXCEPT ![t] = NoCall]
          /\ UNCHANGED ring_enabled
      BY <1>6, <2>2, Zenon DEF ScheduleLocked
    <3>2. global_queue' = [q \in Runtimes |-> global_queue'[q]]
      BY <3>1, Zenon DEF Handover
    <3>3. GlobalQueueClosed'
      BY <2>2, <3>1, Zenon DEF Handover, GlobalQueueClosed
    <3>4. call' = [u \in Threads |->
                     [at |-> call'[u].at, to |-> call'[u].to, work |-> call'[u].work]]
      BY <3>1, Zenon DEF Handover, NoCall
    <3>5. SendsToEnabled'
      BY <3>1, Zenon DEF Handover, SendsToEnabled, NoCall
    <3> QED
      BY <3>1, <3>2, <3>3, <3>4, <3>5, Zenon DEF Handover
  <2> QED
    BY <2>1, <2>2, Zenon
<1>7. ASSUME NEW t \in Threads, ScheduleMsgRing(t) \/ Wakeup(t) PROVE Handover'
  <2>1. UNCHANGED <<ring_enabled, global_queue>>
    BY <1>7, Zenon DEF ScheduleMsgRing, Wakeup, shared
  <2>2. \/ call' = [call EXCEPT ![t] = NoCall]
        \/ call' = [call EXCEPT ![t].at = "send"] /\ ring_enabled[call[t].to]
    BY <1>7, Zenon DEF ScheduleMsgRing, Wakeup, Handover
  <2>3. call' = [u \in Threads |->
                   [at |-> call'[u].at, to |-> call'[u].to, work |-> call'[u].work]]
    BY <2>2 DEF Handover, NoCall
  <2>4. SendsToEnabled'
    BY <2>1, <2>2 DEF Handover, SendsToEnabled, NoCall
  <2> QED
    BY <2>1, <2>3, <2>4, Zenon DEF Handover, GlobalQueueClosed
<1>8. ASSUME NEW t \in Threads, NEW to \in Runtimes, Drain(t, to) PROVE Handover'
  BY <1>8, HandoverElsewhere, Zenon DEF Drain
<1>9. ASSUME NEW t \in Threads, NEW to \in Runtimes, AllowExit(t, to) PROVE Handover'
  <2>1. CASE to = t
    BY <1>9, <2>1, HandoverElsewhere, Zenon DEF AllowExit
  <2>2. CASE to # t
    <3>1. /\ call' = [call EXCEPT ![t] = [at |-> "wakeup", to |-> to, work |-> NoWork]]
          /\ UNCHANGED <<ring_enabled, global_queue>>
      BY <1>9, <2>2, Zenon DEF AllowExit
    <3>2. call' = [u \in Threads |->
                     [at |-> call'[u].at, to |-> call'[u].to, work |-> call'[u].work]]
      BY <3>1, Zenon DEF Handover
    <3>3. SendsToEnabled'
      BY <3>1, Zenon DEF Handover, SendsToEnabled
    <3> QED
      BY <3>1, <3>2, <3>3, Zenon DEF Handover, GlobalQueueClosed
  <2> QED
    BY <2>1, <2>2, Zenon
<1>10. ASSUME NEW t \in Threads, NEW to \in Runtimes, NEW w \in Works,
              CoSpawn(t, to, w) \/ Wake(t, to, w)
       PROVE  Handover'
  BY <1>10, HandoverScheduling, Zenon DEF CoSpawn, Wake, shared
<1> QED
  BY <1>1, <1>2, <1>3, <1>4, <1>5, <1>6, <1>7, <1>8, <1>9, <1>10, Zenon DEF Next, CallStep

(* Once run() has enabled the ring of a runtime no work is ever put or     *)
(* left in its global_queue_, and no thread sends a message to a ring that *)
(* is not enabled, however schedule_internal, wakeup_ and run()            *)
(* interleave.                                                             *)
THEOREM HandoverIsClosed == Spec => [](GlobalQueueClosed /\ SendsToEnabled)
<1>1. Init => Handover
  BY DEF Init, Handover, GlobalQueueClosed, SendsToEnabled, NoCall
<1>2. Handover => GlobalQueueClosed /\ SendsToEnabled
  BY Zenon DEF Handover
<1> QED
  BY <1>1, <1>2, HandoverStep, PTL DEF Spec
-----------------------------------------------------------------------------
(* What Append and Tail do to the elements of a queue. *)
LEMMA AppendRange ==
  \A S : \A q \in Seq(S), e \in S :
    /\ Append(q, e) \in Seq(S)
    /\ Range(Append(q, e)) = Range(q) \cup {e}
<1> SUFFICES ASSUME NEW S, NEW q \in Seq(S), NEW e \in S
             PROVE  /\ Append(q, e) \in Seq(S)
                    /\ Range(Append(q, e)) = Range(q) \cup {e}
  OBVIOUS
<1>1. Append(q, e) \in Seq(S) /\ DOMAIN Append(q, e) = 1..Len(q) + 1 /\ DOMAIN q = 1..Len(q)
  OBVIOUS
<1>2. Append(q, e)[Len(q) + 1] = e /\ \A i \in 1..Len(q) : Append(q, e)[i] = q[i]
  OBVIOUS
<1>3. Len(q) \in Nat
  OBVIOUS
<1> QED
  BY <1>1, <1>2, <1>3 DEF Range

(* The elements of a queue whose first one is taken. *)
LEMMA TailRange ==
  \A S : \A q \in Seq(S) : q # <<>> =>
    /\ Head(q) \in S
    /\ Tail(q) \in Seq(S)
    /\ Range(q) = Range(Tail(q)) \cup {Head(q)}
<1> SUFFICES ASSUME NEW S, NEW q \in Seq(S), q # <<>>
             PROVE  /\ Head(q) \in S
                    /\ Tail(q) \in Seq(S)
                    /\ Range(q) = Range(Tail(q)) \cup {Head(q)}
  OBVIOUS
<1>1. /\ Head(q) \in S /\ Tail(q) \in Seq(S) /\ Len(q) \in Nat \ {0} /\ DOMAIN q = 1..Len(q)
      /\ DOMAIN Tail(q) = 1..Len(q) - 1 /\ Head(q) = q[1]
  OBVIOUS
<1>2. \A i \in 1..Len(q) - 1 : Tail(q)[i] = q[i + 1]
  OBVIOUS
<1>3. \A i \in 1..Len(q) : i = 1 \/ \E j \in 1..Len(q) - 1 : i = j + 1
  <2> SUFFICES ASSUME NEW i \in 1..Len(q), i # 1
               PROVE  \E j \in 1..Len(q) - 1 : i = j + 1
    OBVIOUS
  <2> WITNESS i - 1 \in 1..Len(q) - 1
  <2> QED
    BY <1>1
<1>4. \A i \in 1..Len(q) - 1 : i + 1 \in 1..Len(q)
  BY <1>1
<1>5. ASSUME NEW x \in Range(q), x # Head(q) PROVE x \in Range(Tail(q))
  <2>1. PICK i \in 1..Len(q) : x = q[i]
    BY <1>1, Zenon DEF Range
  <2>2. PICK j \in 1..Len(q) - 1 : i = j + 1
    BY <1>1, <1>3, <1>5, <2>1, Zenon
  <2>3. x = Tail(q)[j]
    BY <1>2, <2>1, <2>2, Zenon
  <2> QED
    BY <1>1, <2>3, Zenon DEF Range
<1>6. \A x \in Range(Tail(q)) : x \in Range(q)
  BY <1>1, <1>2, <1>4 DEF Range
<1>7. Head(q) \in Range(q)
  BY <1>1 DEF Range
<1> QED
  BY <1>1, <1>5, <1>6, <1>7, Zenon

(* A queue without duplicates stays one. *)
LEMMA AppendInjective ==
  \A S : \A q \in Seq(S), e \in S :
    IsInjective(q) /\ e \notin Range(q) => IsInjective(Append(q, e))
BY DEF IsInjective, Range

(* The first element of a queue without duplicates is not in the rest. *)
LEMMA TailInjective ==
  \A S : \A q \in Seq(S) : q # <<>> /\ IsInjective(q) =>
    IsInjective(Tail(q)) /\ Head(q) \notin Range(Tail(q))
BY DEF IsInjective, Range

(* The same for entries and completions, which carry a work or none. *)
LEMMA AppendOnce ==
  \A S : \A q \in Seq(S), e \in S :
    Once(q) /\ (e.work = NoWork \/ \A x \in Range(q) : x.work # e.work)
      => Once(Append(q, e))
BY DEF Once, Range

(* The work of the first entry is not in the rest. *)
LEMMA TailOnce ==
  \A S : \A q \in Seq(S) : q # <<>> /\ Once(q) =>
    /\ Once(Tail(q))
    /\ Head(q).work # NoWork => \A x \in Range(Tail(q)) : x.work # Head(q).work
BY DEF Once, Range

(* What the fields of submission entries, completions and submitted        *)
(* entries can be.                                                         *)
LEMMA Fields ==
  /\ \A e \in Entry :
       /\ e.work \in Works \cup {NoWork}
       /\ \/ e.kind = "op" /\ e = Op(e.work) /\ e.work \in Works
          \/ e.kind = "msg" /\ e.to \in Runtimes /\ e = Msg(e.to, e.work)
  /\ \A c \in Completion : c.work \in Works \cup {NoWork}
  /\ \A k \in {Taken(r, e) : r \in Runtimes, e \in Entry} :
       k.from \in Runtimes /\ k.entry \in Entry /\ k = Taken(k.from, k.entry)
BY DEF Entry, Completion, Op, Msg, Common, Schedule, Ignore, Taken
-----------------------------------------------------------------------------
(* The shape of the state, part by part.                                   *)

(* Flags, counters and requests. *)
Flags ==
  /\ ring_enabled \in [Runtimes -> BOOLEAN]
  /\ exit_allowed \in [Runtimes -> BOOLEAN]
  /\ storeBuffer \in [Threads -> SUBSET Runtimes]
  /\ tick \in [Runtimes -> 0..EventInterval - 1]
  /\ runs \in [Runtimes -> 0..MaxRuns]
  /\ pending \in [Runtimes -> Int]
  /\ asked \subseteq Threads \X Runtimes

(* Where single coroutines are recorded. *)
Coroutines ==
  /\ cur \in [Runtimes -> Works \cup {NoWork}]
  /\ waiting \subseteq Works \X Runtimes
  /\ woken \subseteq Works \X Runtimes
  /\ alive \subseteq Works
  /\ ended \subseteq Works

(* The work queues. *)
Queues ==
  /\ global_queue \in [Runtimes -> Seq(Works)]
  /\ local_queue \in [Runtimes -> Seq(Works)]

(* Only wakeup_ sends a message without work, and it submits it at once.   *)
(* No runtime sends a message to itself.                                   *)
Rings ==
  /\ sq \in [Runtimes -> Seq(Entry)]
  /\ cq \in [Runtimes -> Seq(Completion)]
  /\ kernel \subseteq {Taken(r, e) : r \in Runtimes, e \in Entry}
  /\ \A r \in Runtimes : \A e \in Range(sq[r]) :
       e.work # NoWork /\ (e.kind = "msg" => e.to # r)
  /\ \A k \in kernel : k.entry.kind = "msg" => k.entry.to # k.from

(* A thread inside a call schedules a work on, or wakes up, another        *)
(* runtime.                                                                *)
Calls ==
  /\ call \in [Threads -> [at : CallPc, to : Runtimes \cup {NoWork},
                           work : Works \cup {NoWork}]]
  /\ \A t \in Threads :
       \/ call[t] = NoCall
       \/ /\ call[t].at \in {"lock", "send"}
          /\ call[t].to \in Runtimes \ {t}
          /\ call[t].work \in Works
       \/ /\ call[t].at \in {"wakeup", "send"}
          /\ call[t].to \in Runtimes \ {t}
          /\ call[t].work = NoWork

(* From the empty local_queue_ on to the return of run() nothing runs on   *)
(* the runtime's thread, so its local_queue_ stays empty.                  *)
Loops ==
  /\ loop \in [Runtimes -> LoopPc]
  /\ \A r \in Runtimes :
       loop[r] \in {"check", "exit", "idle"} =>
         local_queue[r] = <<>> /\ cur[r] = NoWork /\ call[r] = NoCall

(* All of it; that pending_works_ is not negative comes with Counted. *)
Shape == Flags /\ Coroutines /\ Queues /\ Rings /\ Calls /\ Loops

(* What a completed operation and a delivered message do to the rings. *)
LEMMA Completing ==
  ASSUME Rings, NEW k \in kernel, CompleteOp(k)
  PROVE  /\ k.from \in Runtimes /\ k.entry.work \in Works /\ k.entry = Op(k.entry.work)
         /\ Common(k.entry.work) \in Completion
         /\ cq' = [cq EXCEPT ![k.from] = Append(cq[k.from], Common(k.entry.work))]
         /\ kernel' = kernel \ {k} /\ sq' = sq
<1>1. k.from \in Runtimes /\ k.entry.work \in Works /\ k.entry = Op(k.entry.work)
  BY Fields, SMTT(30) DEF CompleteOp, Rings
<1>2. Common(k.entry.work) \in Completion
  BY <1>1, Zenon DEF Completion
<1> QED
  BY <1>1, <1>2, Zenon DEF CompleteOp

(* What the delivery of a message does to the rings: two different         *)
(* runtimes get a completion each.                                         *)
LEMMA Delivering ==
  ASSUME Rings, NEW k \in kernel, DeliverMsg(k)
  PROVE  /\ k.from \in Runtimes /\ k.entry.to \in Runtimes /\ k.entry.to # k.from
         /\ k.entry.work \in Works \cup {NoWork} /\ k.entry = Msg(k.entry.to, k.entry.work)
         /\ Payload(k.entry.work) \in Completion /\ Schedule(NoWork) \in Completion
         /\ cq' \in [Runtimes -> Seq(Completion)]
         /\ cq'[k.entry.to] = Append(cq[k.entry.to], Payload(k.entry.work))
         /\ cq'[k.from] = Append(cq[k.from], Schedule(NoWork))
         /\ \A r \in Runtimes \ {k.entry.to, k.from} : cq'[r] = cq[r]
         /\ kernel' = kernel \ {k} /\ sq' = sq
<1>1. /\ k.from \in Runtimes /\ k.entry.to \in Runtimes /\ k.entry.to # k.from
      /\ k.entry.work \in Works \cup {NoWork} /\ k.entry = Msg(k.entry.to, k.entry.work)
  BY Fields DEF DeliverMsg, Rings
<1>2. Payload(k.entry.work) \in Completion /\ Schedule(NoWork) \in Completion
  BY <1>1, Zenon DEF Payload, Completion
<1>3. /\ cq' = [cq EXCEPT ![k.entry.to] = Append(@, Payload(k.entry.work)),
                          ![k.from] = Append(@, Schedule(NoWork))]
      /\ kernel' = kernel \ {k} /\ sq' = sq
  BY Zenon DEF DeliverMsg
<1>4. cq \in [Runtimes -> Seq(Completion)]
  BY SMTT(30) DEF Rings
<1>5. /\ cq' \in [Runtimes -> Seq(Completion)]
      /\ cq'[k.entry.to] = Append(cq[k.entry.to], Payload(k.entry.work))
      /\ cq'[k.from] = Append(cq[k.from], Schedule(NoWork))
      /\ \A r \in Runtimes \ {k.entry.to, k.from} : cq'[r] = cq[r]
  <2>1. \A r \in Runtimes, c \in Completion : Append(cq[r], c) \in Seq(Completion)
    BY <1>4
  <2>2. cq' = [r \in Runtimes |->
                 IF r = k.from THEN Append(cq[r], Schedule(NoWork))
                 ELSE IF r = k.entry.to THEN Append(cq[r], Payload(k.entry.work)) ELSE cq[r]]
    BY <1>1, <1>3, <1>4, Zenon
  <2>3. cq' \in [Runtimes -> Seq(Completion)]
    BY <1>2, <1>4, <2>1, <2>2, Zenon
  <2> QED
    BY <1>1, <2>2, <2>3, Zenon
<1> QED
  BY <1>1, <1>2, <1>3, <1>5, Zenon

(* io_uring_submit. *)
LEMMA Submitting ==
  ASSUME Rings, NEW r \in Runtimes
  PROVE  /\ Submitted(r) \subseteq {Taken(q, x) : q \in Runtimes, x \in Entry}
         /\ \A k \in Submitted(r) : /\ k.from = r /\ k.entry \in Range(sq[r])
                                    /\ k.entry.kind = "msg" => k.entry.to # k.from
<1>1. \A k \in Submitted(r) : k.from = r /\ k.entry \in Range(sq[r]) /\ k = Taken(r, k.entry)
  BY DEF Submitted, Taken, Range
<1>2. \A e \in Range(sq[r]) : e \in Entry
  BY DEF Rings, Range
<1> QED
  BY <1>1, <1>2 DEF Rings

(* get_sqe and the entry put into the queue. *)
LEMMA Getting ==
  ASSUME Rings, NEW r \in Runtimes, NEW e \in Entry, e.work # NoWork,
         e.kind = "msg" => e.to # r, GetSqe(r, e), UNCHANGED cq
  PROVE  Rings'
<1>1. /\ Submitted(r) \subseteq {Taken(q, x) : q \in Runtimes, x \in Entry}
      /\ \A k \in Submitted(r) : k.entry.kind = "msg" => k.entry.to # k.from
  BY Submitting
<1>2. <<e>> \in Seq(Entry) /\ Range(<<e>>) = {e}
  BY DEF Range
<1>3. CASE Len(sq[r]) = SqSize
  <2>1. kernel' = kernel \cup Submitted(r) /\ sq' = [sq EXCEPT ![r] = <<e>>]
    BY <1>3, Zenon DEF GetSqe
  <2> QED
    BY <1>1, <1>2, <2>1 DEF Rings
<1>4. CASE Len(sq[r]) # SqSize
  <2>1. sq' = [sq EXCEPT ![r] = Append(sq[r], e)] /\ kernel' = kernel
    BY <1>4, Zenon DEF GetSqe
  <2>2. Append(sq[r], e) \in Seq(Entry) /\ Range(Append(sq[r], e)) = Range(sq[r]) \cup {e}
    BY AppendRange DEF Rings
  <2> QED
    BY <2>1, <2>2 DEF Rings
<1> QED
  BY <1>3, <1>4, Zenon

(* schedule_internal of a work, called by a coroutine or a plain thread. *)
LEMMA Scheduling ==
  ASSUME Queues, Calls, Loops, NEW t \in Threads, Executing(t),
         NEW to \in Runtimes, NEW w \in Works, ScheduleInternal(t, to, w)
  PROVE  /\ local_queue' \in [Runtimes -> Seq(Works)]
         /\ Calls'
         /\ \A r \in Runtimes : loop[r] \in {"check", "exit", "idle"} =>
              local_queue'[r] = <<>> /\ call'[r] = NoCall
<1>1. \A r \in Runtimes : loop[r] \in {"check", "exit", "idle"} =>
        r # t /\ local_queue[r] = <<>> /\ call[r] = NoCall
  BY Zenon DEF Loops, Executing
<1>2. CASE to = t
  <2>1. local_queue' = [local_queue EXCEPT ![t] = Append(local_queue[t], w)] /\ call' = call
    BY <1>2, Zenon DEF ScheduleInternal
  <2>2. local_queue \in [Runtimes -> Seq(Works)] /\ Append(local_queue[t], w) \in Seq(Works)
    BY <1>2 DEF Queues
  <2>3. Calls'
    BY <2>1, Zenon DEF Calls
  <2> QED
    BY <1>1, <1>2, <2>1, <2>2, <2>3, Zenon
<1>3. CASE to # t
  <2>1. /\ call' = [call EXCEPT ![t] = [at |-> IF ring_enabled[to] THEN "send" ELSE "lock",
                                        to |-> to, work |-> w]]
        /\ local_queue' = local_queue
    BY <1>3, Zenon DEF ScheduleInternal
  <2>2. Calls'
    BY <1>3, <2>1, Zenon DEF Calls, CallPc
  <2>3. \A r \in Runtimes : r # t => call'[r] = call[r]
    BY <2>1, Zenon DEF Calls, Threads
  <2> QED
    BY <1>1, <2>1, <2>2, <2>3, Zenon DEF Queues
<1> QED
  BY <1>2, <1>3, Zenon

(* A thread that sends does so to a runtime, a work or a bare wakeup. *)
LEMMA Sending ==
  ASSUME Calls, NEW t \in Threads, ScheduleMsgRing(t)
  PROVE  \E to \in Runtimes, w \in Works \cup {NoWork} : to = call[t].to /\ w = call[t].work
<1>1. call[t].at = "send"
  BY Zenon DEF ScheduleMsgRing
<1> QED
  BY <1>1 DEF Calls, NoCall

(* Every step keeps the flags, counters and requests to exit well typed. *)
LEMMA FlagsStep ==
  ASSUME Flags, [Next]_vars
  PROVE  Flags'
<1> USE RuntimeAssumption
<1>1. CASE UNCHANGED vars \/ \E k \in kernel : CompleteOp(k) \/ DeliverMsg(k)
  BY <1>1, Zenon DEF vars, CompleteOp, DeliverMsg, shared, local, user, Flags
<1>2. ASSUME NEW r \in Runtimes, RunFirst(r) \/ RunAgain(r) \/ Tick(r) \/ Exit(r)
      PROVE  Flags'
  <2>1. CASE RunFirst(r)
    BY <2>1 DEF RunFirst, user, Flags
  <2>2. CASE RunAgain(r)
    BY <2>2 DEF RunAgain, shared, user, Flags
  <2>3. CASE Tick(r)
    BY <2>3 DEF Tick, shared, user, Flags
  <2>4. CASE Exit(r)
    BY <2>4 DEF Exit, user, Flags
  <2> QED
    BY <1>2, <2>1, <2>2, <2>3, <2>4, Zenon
<1>3. ASSUME NEW r \in Runtimes, CheckExit(r) \/ Unblock(r) \/ FlushDone(r) \/ End(r)
      PROVE  Flags'
  BY <1>3, Zenon DEF CheckExit, Unblock, FlushDone, End, shared, local, user, Flags
<1>4. ASSUME NEW r \in Runtimes, Pop(r) \/ ProcessCqe(r) PROVE Flags'
  BY <1>4, SMTT(30) DEF Pop, ProcessCqe, Resume, shared, user, Flags
<1>5. ASSUME NEW r \in Runtimes, StartOp(r) \/ Wait(r) PROVE Flags'
  BY <1>5 DEF StartOp, Wait, shared, user, Flags
<1>6. ASSUME NEW r \in Runtimes, NEW to \in Runtimes, CoSwitch(r, to) PROVE Flags'
  BY <1>6, Zenon DEF CoSwitch, shared, user, Flags
<1>7. ASSUME NEW t \in Threads, CallStep(t) PROVE Flags'
  BY <1>7 DEF CallStep, ScheduleLocked, ScheduleMsgRing, Wakeup, shared, local, user, Flags
<1>8. ASSUME NEW t \in Threads, NEW to \in Runtimes, Drain(t, to) PROVE Flags'
  BY <1>8, Zenon DEF Drain, local, user, Flags
<1>9. ASSUME NEW t \in Threads, NEW to \in Runtimes, AllowExit(t, to) PROVE Flags'
  <2>1. storeBuffer[t] \cup {to} \in SUBSET Runtimes
    BY Zenon DEF Flags
  <2>2. storeBuffer' \in [Threads -> SUBSET Runtimes]
    BY <1>9, <2>1, Zenon DEF AllowExit, Flags
  <2> QED
    BY <1>9, <2>2, ZenonT(60) DEF AllowExit, local, Flags
<1>10. ASSUME NEW t \in Threads, NEW to \in Runtimes, NEW w \in Works,
              CoSpawn(t, to, w) \/ Wake(t, to, w)
       PROVE  Flags'
  BY <1>10, Zenon DEF CoSpawn, Wake, shared, user, Flags
<1> QED
  BY <1>1, <1>2, <1>3, <1>4, <1>5, <1>6, <1>7, <1>8, <1>9, <1>10, Zenon DEF Next, Loop, Suspend

(* Every step keeps the sets of coroutines well typed. *)
LEMMA CoroutinesStep ==
  ASSUME Shape, [Next]_vars
  PROVE  Coroutines'
<1> USE DEF Shape
<1>1. CASE UNCHANGED vars \/ \E k \in kernel : CompleteOp(k) \/ DeliverMsg(k)
  BY <1>1, Zenon DEF vars, CompleteOp, DeliverMsg, local, waits, user, Coroutines
<1>2. ASSUME NEW r \in Runtimes, RunFirst(r) \/ RunAgain(r) \/ Tick(r) \/ Exit(r)
                                 \/ CheckExit(r) \/ Unblock(r) \/ FlushDone(r)
      PROVE  Coroutines'
  BY <1>2, Zenon DEF RunFirst, RunAgain, Tick, Exit, CheckExit, Unblock, FlushDone, waits, user,
              Coroutines
<1>3. ASSUME NEW r \in Runtimes, Pop(r) PROVE Coroutines'
  <2>1. CASE local_queue[r] = <<>>
    BY <1>3, <2>1, Zenon DEF Pop, user, Coroutines
  <2>2. CASE local_queue[r] # <<>>
    <3>1. Head(local_queue[r]) \in Works
      BY <2>2 DEF Queues
    <3> QED
      BY <1>3, <2>2, <3>1, Zenon DEF Pop, Resume, user, Coroutines
  <2> QED
    BY <2>1, <2>2, Zenon
<1>4. ASSUME NEW r \in Runtimes, ProcessCqe(r) PROVE Coroutines'
  BY <1>4, Fields, SMTT(30) DEF ProcessCqe, Resume, Rings, user, Coroutines
<1>5. ASSUME NEW r \in Runtimes, StartOp(r) \/ Wait(r) \/ End(r) PROVE Coroutines'
  BY <1>5, RuntimeAssumption DEF StartOp, Wait, End, Executing, local, waits, user, Coroutines
<1>6. ASSUME NEW r \in Runtimes, NEW to \in Runtimes, CoSwitch(r, to) PROVE Coroutines'
  BY <1>6, Zenon DEF CoSwitch, waits, user, Coroutines
<1>7. ASSUME NEW t \in Threads, CallStep(t) PROVE Coroutines'
  BY <1>7, Zenon
     DEF CallStep, ScheduleLocked, ScheduleMsgRing, Wakeup, local, waits, user, Coroutines
<1>8. ASSUME NEW t \in Threads, NEW to \in Runtimes, Drain(t, to) \/ AllowExit(t, to)
      PROVE  Coroutines'
  BY <1>8, Zenon DEF Drain, AllowExit, local, waits, user, Coroutines
<1>9. ASSUME NEW t \in Threads, NEW to \in Runtimes, NEW w \in Works,
             CoSpawn(t, to, w) \/ Wake(t, to, w)
      PROVE  Coroutines'
  BY <1>9, Zenon DEF CoSpawn, Wake, waits, user, Coroutines
<1> QED
  BY <1>1, <1>2, <1>3, <1>4, <1>5, <1>6, <1>7, <1>8, <1>9, Zenon DEF Next, Loop, Suspend

(* Every step keeps the two work queues of a runtime well typed. *)
LEMMA QueuesStep ==
  ASSUME Shape, [Next]_vars
  PROVE  Queues'
<1> USE DEF Shape
<1>1. ASSUME UNCHANGED <<global_queue, local_queue>> PROVE Queues'
  BY <1>1, Zenon DEF Queues
<1>2. ASSUME NEW r \in Runtimes, RunFirst(r) PROVE Queues'
  <2>1. local_queue[r] = <<>>
    BY <1>2, Zenon DEF RunFirst, At, Loops
  <2>2. local_queue[r] \o global_queue[r] = global_queue[r]
    BY <2>1 DEF Queues
  <2> QED
    BY <1>2, <2>2 DEF RunFirst, Queues
<1>3. ASSUME NEW r \in Runtimes, Pop(r), local_queue[r] # <<>> PROVE Queues'
  <2>1. Tail(local_queue[r]) \in Seq(Works)
    BY <1>3 DEF Queues
  <2> QED
    BY <1>3, <2>1, Zenon DEF Pop, shared, Queues
<1>4. ASSUME NEW t \in Threads, NEW to \in Runtimes, NEW w \in Works, Executing(t),
             ScheduleInternal(t, to, w), UNCHANGED global_queue
      PROVE  Queues'
  BY <1>4, Scheduling, Zenon DEF Queues
<1>5. ASSUME NEW t \in Threads, ScheduleLocked(t) PROVE Queues'
  <2>1. call[t].to \in Runtimes /\ call[t].work \in Works
    BY <1>5 DEF ScheduleLocked, Calls, NoCall
  <2>2. Append(global_queue[call[t].to], call[t].work) \in Seq(Works)
    BY <2>1 DEF Queues
  <2> QED
    BY <1>5, <2>1, <2>2, Zenon DEF ScheduleLocked, local, Queues
<1>6. ASSUME NEW r \in Runtimes, NEW to \in Runtimes, CoSwitch(r, to) PROVE Queues'
  <2>1. cur[r] \in Works /\ r \in Threads
    BY <1>6, Zenon DEF CoSwitch, Executing, Coroutines, Threads
  <2> QED
    BY <1>4, <1>6, <2>1, Zenon DEF CoSwitch, shared
<1>7. ASSUME NEW t \in Threads, NEW to \in Runtimes, NEW w \in Works,
             CoSpawn(t, to, w) \/ Wake(t, to, w)
      PROVE  Queues'
  BY <1>4, <1>7, Zenon DEF CoSpawn, Wake, shared
<1>8. ASSUME NEW r \in Runtimes, RunAgain(r) \/ Loop(r), ~(Pop(r) /\ local_queue[r] # <<>>)
      PROVE  Queues'
  BY <1>1, <1>8, ZenonT(60)
     DEF RunAgain, Loop, Tick, Pop, CheckExit, Exit, Unblock, ProcessCqe, FlushDone,
                    shared
<1>9. CASE UNCHANGED vars \/ \E k \in kernel : CompleteOp(k) \/ DeliverMsg(k)
  BY <1>1, <1>9, Zenon DEF vars, CompleteOp, DeliverMsg, shared, local
<1>10. ASSUME NEW r \in Runtimes, StartOp(r) \/ Wait(r) \/ End(r) PROVE Queues'
  BY <1>1, <1>10, Zenon DEF StartOp, Wait, End, shared, local
<1>11. ASSUME NEW t \in Threads, ScheduleMsgRing(t) \/ Wakeup(t) PROVE Queues'
  BY <1>1, <1>11, Zenon DEF ScheduleMsgRing, Wakeup, shared, local
<1>12. ASSUME NEW t \in Threads, NEW to \in Runtimes, Drain(t, to) \/ AllowExit(t, to)
       PROVE  Queues'
  BY <1>1, <1>12, Zenon DEF Drain, AllowExit, local
<1> QED
  BY <1>2, <1>3, <1>5, <1>6, <1>7, <1>8, <1>9, <1>10, <1>11, <1>12, Zenon
     DEF Next, Loop, CallStep, Suspend

(* Every step keeps the rings well formed: no message to oneself, none     *)
(* without work in a submission queue.                                     *)
LEMMA RingsStep ==
  ASSUME Shape, [Next]_vars
  PROVE  Rings'
<1> USE DEF Shape
<1>1. ASSUME UNCHANGED <<sq, cq, kernel>> PROVE Rings'
  BY <1>1, SMTT(30) DEF Rings
<1>2. ASSUME NEW k \in kernel, CompleteOp(k) PROVE Rings'
  <2>1. /\ cq \in [Runtimes -> Seq(Completion)] /\ k.from \in Runtimes
        /\ Append(cq[k.from], Common(k.entry.work)) \in Seq(Completion)
    BY <1>2, Completing DEF Rings
  <2>2. /\ cq' = [cq EXCEPT ![k.from] = Append(cq[k.from], Common(k.entry.work))]
        /\ kernel' = kernel \ {k} /\ sq' = sq
    BY <1>2, Completing, Zenon
  <2>3. cq' \in [Runtimes -> Seq(Completion)]
    BY <2>1, <2>2, Zenon
  <2> QED
    BY <2>2, <2>3, SMTT(30) DEF Rings
<1>3. ASSUME NEW k \in kernel, DeliverMsg(k) PROVE Rings'
  BY <1>3, Delivering DEF Rings
<1>4. ASSUME NEW r \in Runtimes, CheckExit(r) PROVE Rings'
  <2>1. /\ Submitted(r) \subseteq {Taken(q, x) : q \in Runtimes, x \in Entry}
        /\ \A k \in Submitted(r) : k.entry.kind = "msg" => k.entry.to # k.from
    BY Submitting
  <2>2. <<>> \in Seq(Entry) /\ Range(<<>>) = {}
    BY SMTT(30) DEF Range
  <2>3. CASE pending[r] = 0 /\ exit_allowed[r]
    BY <1>1, <1>4, <2>3, Zenon DEF CheckExit
  <2>4. CASE ~(pending[r] = 0 /\ exit_allowed[r])
    <3>1. /\ kernel' = kernel \cup Submitted(r)
          /\ sq' = [sq EXCEPT ![r] = <<>>]
          /\ cq' = cq
      BY <1>4, <2>4, Zenon DEF CheckExit
    <3> QED
      BY <2>1, <2>2, <3>1, SMTT(30) DEF Rings
  <2> QED
    BY <2>3, <2>4, Zenon
<1>5. ASSUME NEW r \in Runtimes, ProcessCqe(r) PROVE Rings'
  <2>1. Tail(cq[r]) \in Seq(Completion)
    BY <1>5, SMTT(30) DEF ProcessCqe, Rings
  <2> QED
    BY <1>5, <2>1, SMTT(30) DEF ProcessCqe, Rings
<1>6. ASSUME NEW r \in Runtimes, StartOp(r) PROVE Rings'
  <2>1. Op(cur[r]) \in Entry /\ Op(cur[r]).work # NoWork /\ Op(cur[r]).kind # "msg"
    BY <1>6, RuntimeAssumption DEF StartOp, Executing, Coroutines, Entry, Op
  <2> QED
    BY <1>6, <2>1, Getting, Zenon DEF StartOp
<1>7. ASSUME NEW t \in Threads, ScheduleMsgRing(t) PROVE Rings'
  <2>1. call[t].to \in Runtimes \ {t} /\ call[t].work \in Works \cup {NoWork}
    BY <1>7, SMTT(30) DEF ScheduleMsgRing, Calls, NoCall
  <2>2. CASE t \notin Runtimes
    <3>1. Payload(call[t].work) \in Completion
      BY <2>1, Zenon DEF Payload, Completion
    <3>2. Append(cq[call[t].to], Payload(call[t].work)) \in Seq(Completion)
      BY <2>1, <3>1, SMTT(30) DEF Rings
    <3>3. /\ cq' = [cq EXCEPT ![call[t].to] = Append(cq[call[t].to], Payload(call[t].work))]
          /\ sq' = sq /\ kernel' = kernel
      BY <1>7, <2>2, Zenon DEF ScheduleMsgRing
    <3> QED
      BY <2>1, <3>2, <3>3 DEF Rings
  <2>3. CASE t \in Runtimes /\ call[t].work = NoWork
    <3>1. /\ kernel' = kernel \cup Submitted(t) \cup {Taken(t, Msg(call[t].to, call[t].work))}
          /\ sq' = [sq EXCEPT ![t] = <<>>]
          /\ cq' = cq
      BY <1>7, <2>3, Zenon DEF ScheduleMsgRing
    <3>2. /\ Submitted(t) \subseteq {Taken(q, x) : q \in Runtimes, x \in Entry}
          /\ \A k \in Submitted(t) : k.entry.kind = "msg" => k.entry.to # k.from
      BY <2>3, Submitting
    <3>3. Msg(call[t].to, call[t].work) \in Entry
      BY <2>1, SMTT(30) DEF Entry
    <3>5. Taken(t, Msg(call[t].to, call[t].work)).entry.to #
            Taken(t, Msg(call[t].to, call[t].work)).from
      BY <2>1, Zenon DEF Taken, Msg
    <3>4. <<>> \in Seq(Entry) /\ Range(<<>>) = {}
      BY SMTT(30) DEF Range
    <3> QED
      BY <2>3, <3>1, <3>2, <3>3, <3>4, <3>5, SMTT(30) DEF Rings
  <2>4. CASE t \in Runtimes /\ call[t].work # NoWork
    <3>1. /\ Msg(call[t].to, call[t].work) \in Entry
          /\ Msg(call[t].to, call[t].work).work # NoWork
          /\ Msg(call[t].to, call[t].work).to # t
      BY <2>1, <2>4, SMTT(30) DEF Entry, Msg
    <3>2. GetSqe(t, Msg(call[t].to, call[t].work)) /\ UNCHANGED cq
      BY <1>7, <2>4, Zenon DEF ScheduleMsgRing
    <3> QED
      BY <2>4, <3>1, <3>2, Getting, Zenon
  <2> QED
    BY <2>2, <2>3, <2>4, Zenon
<1>8. CASE UNCHANGED vars
  BY <1>1, <1>8, Zenon DEF vars, rings
<1>9. ASSUME NEW r \in Runtimes, RunFirst(r) \/ RunAgain(r) \/ Tick(r) \/ Pop(r) \/ Exit(r)
                                 \/ Unblock(r) \/ FlushDone(r) \/ Wait(r) \/ End(r)
      PROVE  Rings'
  BY <1>1, <1>9, Zenon
     DEF RunFirst, RunAgain, Tick, Pop, Exit, Unblock, FlushDone, Wait, End, rings
<1>10. ASSUME NEW r \in Runtimes, NEW to \in Runtimes, CoSwitch(r, to) PROVE Rings'
  BY <1>1, <1>10, Zenon DEF CoSwitch, rings
<1>11. ASSUME NEW t \in Threads, ScheduleLocked(t) \/ Wakeup(t) PROVE Rings'
  BY <1>1, <1>11, Zenon DEF ScheduleLocked, Wakeup, rings
<1>12. ASSUME NEW t \in Threads, NEW to \in Runtimes, Drain(t, to) \/ AllowExit(t, to)
       PROVE  Rings'
  BY <1>1, <1>12, Zenon DEF Drain, AllowExit, rings
<1>13. ASSUME NEW t \in Threads, NEW to \in Runtimes, NEW w \in Works,
              CoSpawn(t, to, w) \/ Wake(t, to, w)
       PROVE  Rings'
  BY <1>1, <1>13, Zenon DEF CoSpawn, Wake, rings
<1> QED
  BY <1>2, <1>3, <1>4, <1>5, <1>6, <1>7, <1>8, <1>9, <1>10, <1>11, <1>12, <1>13, Zenon
     DEF Next, Loop, CallStep, Suspend

(* Every step leaves a thread outside a call, or scheduling a work on, or  *)
(* waking up, another runtime.                                             *)
LEMMA CallsStep ==
  ASSUME Shape, [Next]_vars
  PROVE  Calls'
<1> USE DEF Shape
<1>1. ASSUME UNCHANGED call PROVE Calls'
  BY <1>1, Zenon DEF Calls
<1>2. ASSUME NEW t \in Threads, call' = [call EXCEPT ![t] = NoCall] PROVE Calls'
  BY <1>2, Zenon DEF Calls, NoCall, CallPc
<1>3. ASSUME NEW t \in Threads, call[t].at \in {"lock", "wakeup"},
             call' = [call EXCEPT ![t].at = "send"]
      PROVE  Calls'
  BY <1>3 DEF Calls, NoCall, CallPc
<1>4. ASSUME NEW t \in Threads, NEW to \in Runtimes, AllowExit(t, to) PROVE Calls'
  <2>1. CASE to = t
    BY <1>1, <1>4, <2>1, Zenon DEF AllowExit
  <2>2. CASE to # t
    <3>1. call' = [call EXCEPT ![t] = [at |-> "wakeup", to |-> to, work |-> NoWork]]
      BY <1>4, <2>2, Zenon DEF AllowExit
    <3> QED
      BY <2>2, <3>1, Zenon DEF Calls, CallPc
  <2> QED
    BY <2>1, <2>2, Zenon
<1>5. ASSUME NEW t \in Threads, CallStep(t) PROVE Calls'
  BY <1>2, <1>3, <1>5, Zenon DEF CallStep, ScheduleLocked, ScheduleMsgRing, Wakeup, Calls
<1>6. ASSUME NEW r \in Runtimes, NEW to \in Runtimes, CoSwitch(r, to) PROVE Calls'
  <2>1. cur[r] \in Works /\ r \in Threads
    BY <1>6, Zenon DEF CoSwitch, Executing, Coroutines, Threads
  <2> QED
    BY <1>6, <2>1, Scheduling, Zenon DEF CoSwitch
<1>7. ASSUME NEW t \in Threads, NEW to \in Runtimes, NEW w \in Works,
             CoSpawn(t, to, w) \/ Wake(t, to, w)
      PROVE  Calls'
  BY <1>7, Scheduling, Zenon DEF CoSpawn, Wake
<1>8. CASE UNCHANGED vars \/ \E k \in kernel : CompleteOp(k) \/ DeliverMsg(k)
  BY <1>1, <1>8, Zenon DEF vars, CompleteOp, DeliverMsg
<1>9. ASSUME NEW r \in Runtimes, RunFirst(r) \/ RunAgain(r) \/ Loop(r) \/ StartOp(r)
                                 \/ Wait(r) \/ End(r)
      PROVE  Calls'
  BY <1>1, <1>9, Zenon
     DEF RunFirst, RunAgain, Loop, Tick, Pop, CheckExit, Exit, Unblock, ProcessCqe,
                    FlushDone, StartOp, Wait, End
<1>10. ASSUME NEW t \in Threads, NEW to \in Runtimes, Drain(t, to) PROVE Calls'
  BY <1>1, <1>10, Zenon DEF Drain
<1> QED
  BY <1>4, <1>5, <1>6, <1>7, <1>8, <1>9, <1>10, Zenon DEF Next, Suspend

(* Every step keeps a runtime quiet between the exit check and the next    *)
(* run().                                                                  *)
LEMMA LoopsStep ==
  ASSUME Shape, [Next]_vars
  PROVE  Loops'
<1> USE DEF Shape
<1>1. ASSUME UNCHANGED <<loop, local_queue, cur, call>> PROVE Loops'
  BY <1>1, Zenon DEF Loops
<1>2. ASSUME NEW r \in Runtimes, NEW label \in LoopPc, loop' = [loop EXCEPT ![r] = label],
             call' = call, cur[r] = NoWork, call[r] = NoCall,
             \A s \in Runtimes \ {r} : cur'[s] = cur[s] /\ local_queue'[s] = local_queue[s],
             label \in {"check", "exit", "idle"} => local_queue'[r] = <<>> /\ cur'[r] = NoWork
      PROVE  Loops'
  BY <1>2, Zenon DEF Loops
<1>3. ASSUME NEW r \in Runtimes, RunFirst(r) \/ RunAgain(r) \/ Tick(r) \/ Unblock(r)
      PROVE  Loops'
  <2>1. PICK label \in {"loop", "flush_run", "flush_tick", "pop", "flush_wait"} :
          loop' = [loop EXCEPT ![r] = label]
    BY <1>3, ZenonT(60) DEF RunFirst, RunAgain, Tick, Unblock, MoveTo
  <2>2. label \in LoopPc /\ label \notin {"check", "exit", "idle"}
    BY <2>1, Zenon DEF LoopPc, FlushNext
  <2>3. /\ call' = call /\ cur' = cur /\ cur[r] = NoWork /\ call[r] = NoCall
        /\ \A s \in Runtimes \ {r} : local_queue'[s] = local_queue[s]
    BY <1>3, Zenon DEF RunFirst, RunAgain, Tick, Unblock, At, Queues
  <2> QED
    BY <1>2, <2>1, <2>2, <2>3, Zenon
<1>4. ASSUME NEW r \in Runtimes, Pop(r) PROVE Loops'
  <2>1. CASE local_queue[r] = <<>>
    BY <1>2, <1>4, <2>1, Zenon DEF Pop, At, MoveTo, LoopPc
  <2>2. CASE local_queue[r] # <<>>
    <3>1. \A s \in Runtimes \ {r} : cur'[s] = cur[s] /\ local_queue'[s] = local_queue[s]
      BY <1>4, <2>2, Zenon DEF Pop, Resume, Queues, Coroutines
    <3> QED
      BY <1>2, <1>4, <2>2, <3>1, Zenon DEF Pop, At, MoveTo, LoopPc
  <2> QED
    BY <2>1, <2>2, Zenon
<1>5. ASSUME NEW r \in Runtimes, CheckExit(r) \/ Exit(r) PROVE Loops'
  <2>1. PICK label \in {"exit", "blocked", "idle"} : loop' = [loop EXCEPT ![r] = label]
    BY <1>5, Zenon DEF CheckExit, Exit, MoveTo
  <2>2. label \in LoopPc
    BY <2>1, Zenon DEF LoopPc
  <2>3. /\ call' = call /\ cur' = cur /\ local_queue' = local_queue
        /\ cur[r] = NoWork /\ call[r] = NoCall /\ local_queue[r] = <<>>
    BY <1>5, Zenon DEF CheckExit, Exit, At, Loops
  <2> QED
    BY <1>2, <2>1, <2>2, <2>3, Zenon
<1>6. ASSUME NEW r \in Runtimes, FlushDone(r) PROVE Loops'
  <2>1. FlushNext[loop[r]] \in {"loop", "pop"}
    BY <1>6 DEF FlushDone, FlushNext
  <2>2. /\ call' = call /\ cur' = cur /\ local_queue' = local_queue
        /\ cur[r] = NoWork /\ call[r] = NoCall
        /\ loop' = [loop EXCEPT ![r] = FlushNext[loop[r]]]
    BY <1>6, Zenon DEF FlushDone, At, MoveTo
  <2> QED
    BY <1>2, <2>1, <2>2, ZenonT(60) DEF LoopPc
<1>7. ASSUME NEW r \in Runtimes, ProcessCqe(r) PROVE Loops'
  <2>1. loop[r] \in {"flush_run", "flush_tick", "flush_wait"}
    BY <1>7, ZenonT(60) DEF ProcessCqe, FlushNext
  <2>2. /\ UNCHANGED <<loop, call, local_queue>>
        /\ \A s \in Runtimes \ {r} : cur'[s] = cur[s]
    BY <1>7, Zenon DEF ProcessCqe, Resume, Coroutines
  <2> QED
    BY <2>1, <2>2, Zenon DEF Loops
<1>8. ASSUME NEW r \in Runtimes, StartOp(r) \/ Wait(r) \/ End(r) PROVE Loops'
  <2>1. /\ UNCHANGED <<loop, call, local_queue>>
        /\ cur' = [cur EXCEPT ![r] = NoWork]
    BY <1>8, Zenon DEF StartOp, Wait, End, local
  <2> QED
    BY <2>1, Zenon DEF Loops, Coroutines
<1>9. ASSUME NEW t \in Threads, NEW to \in Runtimes, NEW w \in Works, Executing(t),
             ScheduleInternal(t, to, w), UNCHANGED loop,
             \A r \in Runtimes : cur'[r] \in {cur[r], NoWork}
      PROVE  Loops'
  BY <1>9, Scheduling, Zenon DEF Loops
<1>10. ASSUME NEW r \in Runtimes, NEW to \in Runtimes, CoSwitch(r, to) PROVE Loops'
  <2>1. cur[r] \in Works /\ r \in Threads
    BY <1>10, Zenon DEF CoSwitch, Executing, Coroutines, Threads
  <2>2. \A s \in Runtimes : cur'[s] \in {cur[s], NoWork}
    BY <1>10, Zenon DEF CoSwitch, Coroutines
  <2> QED
    BY <1>9, <1>10, <2>1, <2>2, Zenon DEF CoSwitch
<1>11. ASSUME NEW t \in Threads, NEW to \in Runtimes, NEW w \in Works,
              CoSpawn(t, to, w) \/ Wake(t, to, w)
       PROVE  Loops'
  BY <1>9, <1>11, Zenon DEF CoSpawn, Wake
<1>12. ASSUME NEW t \in Threads, CallStep(t) PROVE Loops'
  <2>1. UNCHANGED <<loop, local_queue, cur>>
    BY <1>12, Zenon DEF CallStep, ScheduleLocked, ScheduleMsgRing, Wakeup, local
  <2>2. call[t] # NoCall /\ \A s \in Runtimes : s # t => call'[s] = call[s]
    <3>1. call[t].at \in {"lock", "send", "wakeup"}
      BY <1>12, Zenon DEF CallStep, ScheduleLocked, ScheduleMsgRing, Wakeup
    <3>2. CASE ScheduleLocked(t)
      BY <3>1, <3>2, SMTT(30) DEF ScheduleLocked, NoCall, Calls, Threads
    <3>3. CASE ScheduleMsgRing(t)
      <4>1. call' = [call EXCEPT ![t] = NoCall]
        BY <3>3, Zenon DEF ScheduleMsgRing
      <4> QED
        BY <3>1, <4>1 DEF NoCall, Calls, Threads
    <3>4. CASE Wakeup(t)
      BY <3>1, <3>4, SMTT(30) DEF Wakeup, NoCall, Calls, Threads
    <3> QED
      BY <1>12, <3>2, <3>3, <3>4, Zenon DEF CallStep
  <2> QED
    BY <2>1, <2>2, Zenon DEF Loops
<1>13. ASSUME NEW t \in Threads, NEW to \in Runtimes, AllowExit(t, to) PROVE Loops'
  <2>1. UNCHANGED <<loop, local_queue, cur>>
    BY <1>13, Zenon DEF AllowExit, local
  <2>2. \A s \in Runtimes : s # t => call'[s] = call[s]
    BY <1>13, Zenon DEF AllowExit, Calls, Threads
  <2>3. t \in Runtimes => cur[t] # NoWork
    BY <1>13, Zenon DEF AllowExit, Executing
  <2> QED
    BY <2>1, <2>2, <2>3, Zenon DEF Loops
<1>14. CASE UNCHANGED vars \/ \E k \in kernel : CompleteOp(k) \/ DeliverMsg(k)
  BY <1>1, <1>14, Zenon DEF vars, CompleteOp, DeliverMsg, local
<1>15. ASSUME NEW t \in Threads, NEW to \in Runtimes, Drain(t, to) PROVE Loops'
  BY <1>1, <1>15, Zenon DEF Drain, local
<1> QED
  BY <1>3, <1>4, <1>5, <1>6, <1>7, <1>8, <1>10, <1>11, <1>12, <1>13, <1>14, <1>15, Zenon
     DEF Next, Loop, Suspend

(* Every step keeps the shape of the state. *)
LEMMA ShapeStep == Shape /\ [Next]_vars => Shape'
BY FlagsStep, CoroutinesStep, QueuesStep, RingsStep, CallsStep, LoopsStep, Zenon DEF Shape
-----------------------------------------------------------------------------
(* w is in the place x of the given kind, and nowhere else. *)
(* x, of the given kind, is the only place that holds w. *)
Only(w, kind, x) ==
  /\ InGlobal(w) = IF kind = "global" THEN {x} ELSE {}
  /\ InLocal(w) = IF kind = "local" THEN {x} ELSE {}
  /\ InSq(w) = IF kind = "sq" THEN {x} ELSE {}
  /\ InKernel(w) = IF kind = "kernel" THEN {x} ELSE {}
  /\ InCq(w) = IF kind = "cq" THEN {x} ELSE {}
  /\ InCur(w) = IF kind = "cur" THEN {x} ELSE {}
  /\ InCall(w) = IF kind = "call" THEN {x} ELSE {}
  /\ InWaiting(w) = IF kind = "waiting" THEN {x} ELSE {}

(* No place holds w. *)
Nowhere(w) ==
  /\ InGlobal(w) = {} /\ InLocal(w) = {} /\ InSq(w) = {} /\ InKernel(w) = {}
  /\ InCq(w) = {} /\ InCur(w) = {} /\ InCall(w) = {} /\ InWaiting(w) = {}

(* The kinds of places. *)
Kinds == {"global", "local", "sq", "kernel", "cq", "cur", "call", "waiting"}

(* The places of a coroutine, kind by kind. *)
LEMMA Members ==
  ASSUME NEW w, NEW x
  PROVE  /\ <<"global", x>> \in Places(w) <=> x \in InGlobal(w)
         /\ <<"local", x>> \in Places(w) <=> x \in InLocal(w)
         /\ <<"sq", x>> \in Places(w) <=> x \in InSq(w)
         /\ <<"kernel", x>> \in Places(w) <=> x \in InKernel(w)
         /\ <<"cq", x>> \in Places(w) <=> x \in InCq(w)
         /\ <<"cur", x>> \in Places(w) <=> x \in InCur(w)
         /\ <<"call", x>> \in Places(w) <=> x \in InCall(w)
         /\ <<"waiting", x>> \in Places(w) <=> x \in InWaiting(w)
BY Zenon DEF Places

(* A coroutine that is in one place is in no other. *)
LEMMA Leaving ==
  ASSUME NEW w, InOnePlace(w), NEW kind, NEW x, <<kind, x>> \in Places(w)
  PROVE  Only(w, kind, x) /\ w \in alive
<1>1. Places(w) = {<<kind, x>>} /\ w \in alive
  BY Zenon DEF InOnePlace
<1>2. ASSUME NEW y
      PROVE  /\ y \in InGlobal(w) <=> kind = "global" /\ y = x
             /\ y \in InLocal(w) <=> kind = "local" /\ y = x
             /\ y \in InSq(w) <=> kind = "sq" /\ y = x
             /\ y \in InKernel(w) <=> kind = "kernel" /\ y = x
             /\ y \in InCq(w) <=> kind = "cq" /\ y = x
             /\ y \in InCur(w) <=> kind = "cur" /\ y = x
             /\ y \in InCall(w) <=> kind = "call" /\ y = x
             /\ y \in InWaiting(w) <=> kind = "waiting" /\ y = x
  <2>1. \A k : <<k, y>> \in Places(w) <=> k = kind /\ y = x
    BY <1>1, Zenon
  <2> QED
    BY <2>1, Members, Zenon
<1> QED
  BY <1>1, <1>2, Zenon DEF Only

(* A live coroutine that has come to one place is in one place. *)
LEMMA Arriving ==
  ASSUME NEW w, NEW kind \in Kinds, NEW x, Only(w, kind, x)', w \in alive'
  PROVE  InOnePlace(w)'
<1>1. Places(w)' = {<<kind, x>>}
  BY DEF Only, Places, Kinds
<1> QED
  BY <1>1, Zenon DEF InOnePlace

(* A coroutine whose places do not change stays in one place. *)
LEMMA Staying ==
  ASSUME NEW w, InOnePlace(w), w \in alive' <=> w \in alive,
         UNCHANGED <<InGlobal(w), InLocal(w), InSq(w), InKernel(w), InCq(w), InCur(w),
                     InCall(w), InWaiting(w)>>
  PROVE  InOnePlace(w)'
<1>1. Places(w)' = Places(w)
  BY Zenon DEF Places
<1> QED
  BY <1>1, Zenon DEF InOnePlace

(* A coroutine is nowhere if and only if it is not alive. *)
LEMMA Absent ==
  ASSUME NEW w
  PROVE  /\ InOnePlace(w) /\ w \notin alive => Nowhere(w)
         /\ Nowhere(w)' /\ w \notin alive' => InOnePlace(w)'
<1>1. Places(w) = {} => Nowhere(w)
  BY Members, Zenon DEF Nowhere
<1>2. Nowhere(w)' => Places(w)' = {}
  BY Zenon DEF Places, Nowhere
<1> QED
  BY <1>1, <1>2, Zenon DEF InOnePlace

(* Wherever a coroutine is found, it is nowhere else. *)
LEMMA Homes ==
  ASSUME NEW w \in Works, InOnePlace(w), NEW x
  PROVE  /\ x \in InGlobal(w) => Only(w, "global", x) /\ w \in alive
         /\ x \in InLocal(w) => Only(w, "local", x) /\ w \in alive
         /\ x \in InSq(w) => Only(w, "sq", x) /\ w \in alive
         /\ x \in InKernel(w) => Only(w, "kernel", x) /\ w \in alive
         /\ x \in InCq(w) => Only(w, "cq", x) /\ w \in alive
         /\ x \in InCur(w) => Only(w, "cur", x) /\ w \in alive
         /\ x \in InCall(w) => Only(w, "call", x) /\ w \in alive
         /\ x \in InWaiting(w) => Only(w, "waiting", x) /\ w \in alive
BY Members, Leaving, Zenon

(* What the steps do to the places of one kind. *)
LEMMA CurMoves ==
  ASSUME Coroutines, NEW r \in Runtimes, NEW x \in Works \cup {NoWork},
         cur' = [cur EXCEPT ![r] = x]
  PROVE  \A v \in Works : InCur(v)' = IF v = x THEN InCur(v) \cup {r} ELSE InCur(v) \ {r}
BY Zenon DEF InCur, Coroutines

(* A runtime that executes nothing starts to execute x. *)
LEMMA CurLoads ==
  ASSUME Coroutines, NEW r \in Runtimes, NEW x \in Works \cup {NoWork}, cur[r] = NoWork,
         cur' = [cur EXCEPT ![r] = x]
  PROVE  \A v \in Works : InCur(v)' = IF v = x THEN InCur(v) \cup {r} ELSE InCur(v)
<1>1. \A v \in Works : InCur(v)' = IF v = x THEN InCur(v) \cup {r} ELSE InCur(v) \ {r}
  BY CurMoves, Zenon
<1>2. \A v \in Works : r \notin InCur(v)
  BY RuntimeAssumption, Zenon DEF InCur
<1> QED
  BY <1>1, <1>2

(* A thread enters or leaves a call of schedule_internal. *)
LEMMA CallMoves ==
  ASSUME Calls, NEW t \in Threads, NEW c, call' = [call EXCEPT ![t] = c]
  PROVE  \A v \in Works :
           InCall(v)' = IF v = c.work THEN InCall(v) \cup {t} ELSE InCall(v) \ {t}
BY ZenonT(30) DEF InCall, Calls

(* A work is appended to a local_queue_. *)
LEMMA LocalAppend ==
  ASSUME Queues, HeldOnce, NEW r \in Runtimes, NEW w \in Works, r \notin InLocal(w),
         local_queue' = [local_queue EXCEPT ![r] = Append(local_queue[r], w)]
  PROVE  /\ \A v \in Works : InLocal(v)' = IF v = w THEN InLocal(v) \cup {r} ELSE InLocal(v)
         /\ \A q \in Runtimes : IsInjective(local_queue'[q])
<1>1. Range(Append(local_queue[r], w)) = Range(local_queue[r]) \cup {w}
  BY AppendRange DEF Queues
<1>2. IsInjective(Append(local_queue[r], w))
  BY AppendInjective, Zenon DEF Queues, HeldOnce, InLocal
<1>3. \A q \in Runtimes : local_queue'[q] = IF q = r THEN Append(local_queue[r], w)
                                                     ELSE local_queue[q]
  BY Zenon DEF Queues
<1>4. \A q \in Runtimes : IsInjective(local_queue[q])
  BY Zenon DEF HeldOnce
<1> QED
  BY <1>1, <1>2, <1>3, <1>4, Zenon DEF InLocal

(* A work is taken from a local_queue_. *)
LEMMA LocalTail ==
  ASSUME Queues, HeldOnce, NEW r \in Runtimes, local_queue[r] # <<>>,
         local_queue' = [local_queue EXCEPT ![r] = Tail(local_queue[r])]
  PROVE  /\ Head(local_queue[r]) \in Works /\ r \in InLocal(Head(local_queue[r]))
         /\ \A v \in Works : InLocal(v)' = IF v = Head(local_queue[r]) THEN InLocal(v) \ {r}
                                                                     ELSE InLocal(v)
         /\ \A q \in Runtimes : IsInjective(local_queue'[q])
<1>1. /\ Head(local_queue[r]) \in Works
      /\ Range(local_queue[r]) = Range(Tail(local_queue[r])) \cup {Head(local_queue[r])}
  BY TailRange, Zenon DEF Queues
<1>2. /\ IsInjective(Tail(local_queue[r]))
      /\ Head(local_queue[r]) \notin Range(Tail(local_queue[r]))
  BY TailInjective, Zenon DEF Queues, HeldOnce
<1>3. \A q \in Runtimes : local_queue'[q] = IF q = r THEN Tail(local_queue[r])
                                                     ELSE local_queue[q]
  BY Zenon DEF Queues
<1>4. \A q \in Runtimes : IsInjective(local_queue[q])
  BY Zenon DEF HeldOnce
<1> QED
  BY <1>1, <1>2, <1>3, <1>4, Zenon DEF InLocal

(* A work is appended to a global_queue_. *)
LEMMA GlobalAppend ==
  ASSUME Queues, HeldOnce, NEW r \in Runtimes, NEW w \in Works, r \notin InGlobal(w),
         global_queue' = [global_queue EXCEPT ![r] = Append(global_queue[r], w)]
  PROVE  /\ \A v \in Works : InGlobal(v)' = IF v = w THEN InGlobal(v) \cup {r} ELSE InGlobal(v)
         /\ \A q \in Runtimes : IsInjective(global_queue'[q])
<1>1. Range(Append(global_queue[r], w)) = Range(global_queue[r]) \cup {w}
  BY AppendRange DEF Queues
<1>2. IsInjective(Append(global_queue[r], w))
  BY AppendInjective, Zenon DEF Queues, HeldOnce, InGlobal
<1>3. \A q \in Runtimes : global_queue'[q] = IF q = r THEN Append(global_queue[r], w)
                                                      ELSE global_queue[q]
  BY Zenon DEF Queues
<1>4. \A q \in Runtimes : IsInjective(global_queue[q])
  BY Zenon DEF HeldOnce
<1> QED
  BY <1>1, <1>2, <1>3, <1>4, Zenon DEF InGlobal

(* A completion is appended to a completion queue. *)
LEMMA CqAppend ==
  ASSUME Rings, HeldOnce, NEW r \in Runtimes, NEW c \in Completion,
         c.work \in Works => r \notin InCq(c.work)
  PROVE  /\ \A x : x \in Range(Append(cq[r], c)) <=> x \in Range(cq[r]) \/ x = c
         /\ Once(Append(cq[r], c))
<1>1. Range(Append(cq[r], c)) = Range(cq[r]) \cup {c}
  BY AppendRange DEF Rings
<1>2. c.work = NoWork \/ \A x \in Range(cq[r]) : x.work # c.work
  BY Fields DEF InCq
<1>3. Once(Append(cq[r], c))
  BY <1>2, AppendOnce DEF Rings, HeldOnce
<1> QED
  BY <1>1, <1>3, Zenon

(* The same for the completion queues after the step. *)
LEMMA CqAppended ==
  ASSUME Rings, HeldOnce, NEW r \in Runtimes, NEW c \in Completion,
         c.work \in Works => r \notin InCq(c.work), cq' = [cq EXCEPT ![r] = Append(cq[r], c)]
  PROVE  /\ \A q \in Runtimes : Once(cq'[q])
         /\ \A v \in Works : InCq(v)' = IF v = c.work THEN InCq(v) \cup {r} ELSE InCq(v)
<1>1. /\ \A x : x \in Range(Append(cq[r], c)) <=> x \in Range(cq[r]) \/ x = c
      /\ Once(Append(cq[r], c))
  BY CqAppend
<1>2. \A q \in Runtimes : cq'[q] = IF q = r THEN Append(cq[r], c) ELSE cq[q]
  BY DEF Rings
<1>3. \A v \in Works : InCq(v)' = IF v = c.work THEN InCq(v) \cup {r} ELSE InCq(v)
  BY <1>1, <1>2 DEF InCq
<1> QED
  BY <1>1, <1>2, <1>3, Zenon DEF HeldOnce

(* A completion is taken from a completion queue. *)
LEMMA CqTail ==
  ASSUME Rings, HeldOnce, NEW r \in Runtimes, cq[r] # <<>>,
         cq' = [cq EXCEPT ![r] = Tail(cq[r])]
  PROVE  /\ Head(cq[r]) \in Completion
         /\ Head(cq[r]).work \in Works => r \in InCq(Head(cq[r]).work)
         /\ \A v \in Works : InCq(v)' = IF v = Head(cq[r]).work THEN InCq(v) \ {r} ELSE InCq(v)
         /\ \A q \in Runtimes : Once(cq'[q])
<1>1. Head(cq[r]) \in Completion /\ Range(cq[r]) = Range(Tail(cq[r])) \cup {Head(cq[r])}
  BY TailRange DEF Rings
<1>2. /\ Once(Tail(cq[r]))
      /\ Head(cq[r]).work # NoWork =>
           \A x \in Range(Tail(cq[r])) : x.work # Head(cq[r]).work
  <2>1. cq[r] \in Seq(Completion) /\ Once(cq[r])
    BY DEF Rings, HeldOnce
  <2> QED
    BY <2>1, TailOnce, Zenon
<1>3. \A q \in Runtimes : cq'[q] = IF q = r THEN Tail(cq[r]) ELSE cq[q]
  BY DEF Rings
<1>4. \A q \in Runtimes : Once(cq[q])
  BY Zenon DEF HeldOnce
<1>5. \A v \in Works : v # NoWork
  BY RuntimeAssumption, Zenon
<1>6. ASSUME NEW v \in Works
      PROVE  InCq(v)' = IF v = Head(cq[r]).work THEN InCq(v) \ {r} ELSE InCq(v)
  BY <1>1, <1>2, <1>3, <1>5, Zenon DEF InCq
<1> QED
  BY <1>1, <1>2, <1>3, <1>4, <1>6, Zenon DEF InCq

(* The kernel is done with a submitted entry. *)
LEMMA KernelLeaves ==
  ASSUME Rings, HeldOnce, NEW k \in kernel, kernel' = kernel \ {k}
  PROVE  /\ k.entry.work \in Works => k.from \in InKernel(k.entry.work)
         /\ \A v \in Works : InKernel(v)' = IF v = k.entry.work THEN InKernel(v) \ {k.from}
                                                                ELSE InKernel(v)
         /\ \A x, y \in kernel' :
              x.entry.work = y.entry.work /\ x.entry.work # NoWork => x = y
<1>1. k.from \in Runtimes
  BY Fields DEF Rings
<1>2. \A x, y \in kernel : x.entry.work = y.entry.work /\ x.entry.work # NoWork => x = y
  BY Zenon DEF HeldOnce
<1>3. \A v \in Works : v # NoWork
  BY RuntimeAssumption, Zenon
<1> QED
  BY <1>1, <1>2, <1>3, Zenon DEF InKernel

(* An entry is submitted, or its coroutine stays where it is. *)
Submits(v, r) ==
  IF r \in InSq(v)
    THEN InSq(v)' = InSq(v) \ {r} /\ InKernel(v)' = InKernel(v) \cup {r}
    ELSE UNCHANGED <<InSq(v), InKernel(v)>>

(* io_uring_submit: the works of the submission queue of r move to the     *)
(* kernel, together with messages that carry none.                         *)
LEMMA SubmitMoves ==
  ASSUME Rings, HeldOnce, \A v \in Works : InOnePlace(v), NEW r \in Runtimes, NEW extra,
         \A x \in extra : x.entry.work = NoWork,
         kernel' = kernel \cup Submitted(r) \cup extra
  PROVE  /\ \A v \in Works : InKernel(v)' = IF r \in InSq(v) THEN InKernel(v) \cup {r}
                                                             ELSE InKernel(v)
         /\ \A x, y \in kernel' :
              x.entry.work = y.entry.work /\ x.entry.work # NoWork => x = y
<1>1. \A k \in Submitted(r) : \E i \in DOMAIN sq[r] : k = Taken(r, sq[r][i])
  BY Zenon DEF Submitted
<1>2. \A i \in DOMAIN sq[r] : Taken(r, sq[r][i]) \in Submitted(r)
  BY Zenon DEF Submitted
<1>3. \A e : Taken(r, e).from = r /\ Taken(r, e).entry = e
  BY Zenon DEF Taken
<1>4. \A x, y \in kernel : x.entry.work = y.entry.work /\ x.entry.work # NoWork => x = y
  BY Zenon DEF HeldOnce
<1>5. \A i, j \in DOMAIN sq[r] :
        sq[r][i].work = sq[r][j].work /\ sq[r][i].work # NoWork => i = j
  BY Zenon DEF HeldOnce, Once
<1>6. ASSUME NEW v \in Works
      PROVE  r \in InSq(v) <=> \E i \in DOMAIN sq[r] : sq[r][i].work = v
  BY Zenon DEF InSq, Range
<1>7. ASSUME NEW v \in Works, r \in InSq(v) PROVE InKernel(v) = {}
  BY <1>7, Homes, Zenon DEF Only
<1>8. ASSUME NEW v \in Works
      PROVE  InKernel(v)' = IF r \in InSq(v) THEN InKernel(v) \cup {r} ELSE InKernel(v)
  <2>1. v # NoWork
    BY RuntimeAssumption, Zenon
  <2>2. ASSUME NEW q \in InKernel(v)' PROVE q \in InKernel(v) \/ (q = r /\ r \in InSq(v))
    <3>1. q \in Runtimes /\ \E k \in kernel' : k.from = q /\ k.entry.work = v
      BY <2>2, Zenon DEF InKernel
    <3>2. PICK k \in kernel' : k.from = q /\ k.entry.work = v
      BY <3>1, Zenon
    <3>3. CASE k \in kernel
      BY <3>1, <3>2, <3>3, Zenon DEF InKernel
    <3>4. CASE k \in Submitted(r)
      BY <1>1, <1>3, <1>6, <3>2, <3>4
    <3> QED
      BY <2>1, <3>2, <3>3, <3>4, Zenon
  <2>3. ASSUME NEW q \in InKernel(v) PROVE q \in InKernel(v)'
    BY <2>3, Zenon DEF InKernel
  <2>4. ASSUME r \in InSq(v) PROVE r \in InKernel(v)'
    <3>1. PICK i \in DOMAIN sq[r] : sq[r][i].work = v
      BY <1>6, <2>4, Zenon
    <3>2. Taken(r, sq[r][i]) \in kernel'
      BY <1>2, Zenon
    <3> QED
      BY <1>3, <3>1, <3>2, Zenon DEF InKernel
  <2> QED
    BY <2>2, <2>3, <2>4, Zenon
<1>9. ASSUME NEW x \in kernel', NEW y \in kernel', x.entry.work = y.entry.work,
             x.entry.work # NoWork
      PROVE  x = y
  <2>1. \A k \in kernel \cup Submitted(r) : k.entry.work # NoWork => k.entry.work \in Works
    <3>1. \A k \in kernel : k.entry.work # NoWork => k.entry.work \in Works
      BY Fields DEF Rings
    <3>2. \A k \in Submitted(r) : k.entry.work # NoWork => k.entry.work \in Works
      BY Fields, Submitting
    <3> QED
      BY <3>1, <3>2, Zenon
  <2>2. x \in kernel \cup Submitted(r) /\ y \in kernel \cup Submitted(r)
    BY <1>9, Zenon
  <2>3. x.entry.work \in Works
    BY <1>9, <2>1, <2>2, Zenon
  <2>4. ASSUME NEW k \in kernel PROVE k.from \in InKernel(k.entry.work)
    <3>1. k.from \in Runtimes
      BY Fields DEF Rings
    <3> QED
      BY <3>1, Zenon DEF InKernel
  <2>5. \A k \in Submitted(r) : k.entry.work \in Works => r \in InSq(k.entry.work)
    BY <1>1, <1>3, <1>6
  <2>6. CASE x \in kernel /\ y \in kernel
    BY <1>4, <1>9, <2>6, Zenon
  <2>7. CASE x \in Submitted(r) /\ y \in Submitted(r)
    BY <1>1, <1>3, <1>5, <1>9, <2>7
  <2>8. ~(x \in kernel /\ y \in Submitted(r)) /\ ~(x \in Submitted(r) /\ y \in kernel)
    BY <1>7, <1>9, <2>3, <2>4, <2>5, Zenon
  <2> QED
    BY <2>2, <2>6, <2>7, <2>8, Zenon
<1> QED
  BY <1>8, <1>9, Zenon

(* io_uring_submit without a further message. *)
LEMMA SubmitAll ==
  ASSUME Rings, HeldOnce, \A v \in Works : InOnePlace(v), NEW r \in Runtimes,
         kernel' = kernel \cup Submitted(r)
  PROVE  /\ \A v \in Works : InKernel(v)' = IF r \in InSq(v) THEN InKernel(v) \cup {r}
                                                             ELSE InKernel(v)
         /\ \A x, y \in kernel' :
              x.entry.work = y.entry.work /\ x.entry.work # NoWork => x = y
<1>1. PICK extra : extra = {}
  BY Zenon
<1>2. kernel' = kernel \cup Submitted(r) \cup extra /\ \A x \in extra : x.entry.work = NoWork
  BY <1>1, Zenon
<1> QED
  BY <1>2, SubmitMoves, Zenon

(* A coroutine that is neither resumed nor scheduled by the step. *)
LEMMA Undisturbed ==
  ASSUME NEW v \in Works, InOnePlace(v), NEW r, Submits(v, r), v \in alive' <=> v \in alive,
         UNCHANGED <<InGlobal(v), InLocal(v), InCq(v), InCur(v), InCall(v), InWaiting(v)>>
  PROVE  InOnePlace(v)'
<1>1. CASE r \in InSq(v)
  <2>1. Only(v, "sq", r) /\ v \in alive
    BY <1>1, Homes, Zenon
  <2>2. Only(v, "kernel", r)'
    BY <1>1, <2>1, Zenon DEF Only, Submits
  <2> QED
    BY <2>1, <2>2, Arriving, Zenon DEF Kinds
<1>2. CASE r \notin InSq(v)
  BY <1>2, Staying, Zenon DEF Submits
<1> QED
  BY <1>1, <1>2, Zenon

(* The sq after everything of r has been submitted. *)
LEMMA SqEmptied ==
  ASSUME Rings, HeldOnce, NEW r \in Runtimes, sq' = [sq EXCEPT ![r] = <<>>]
  PROVE  /\ \A v \in Works : InSq(v)' = InSq(v) \ {r}
         /\ \A q \in Runtimes : Once(sq'[q])
<1>1. Range(<<>>) = {} /\ Once(<<>>)
  BY DEF Range, Once
<1>2. \A q \in Runtimes : sq'[q] = IF q = r THEN <<>> ELSE sq[q]
  BY DEF Rings
<1>3. \A q \in Runtimes : Once(sq[q])
  BY Zenon DEF HeldOnce
<1> QED
  BY <1>1, <1>2, <1>3, Zenon DEF InSq

(* get_sqe for an entry with a new work: it comes to the submission queue, *)
(* the works before it stay or move to the kernel.                         *)
LEMMA GetMoves ==
  ASSUME Rings, HeldOnce, \A v \in Works : InOnePlace(v), NEW r \in Runtimes,
         NEW e \in Entry, e.work \in Works, InSq(e.work) = {}, InKernel(e.work) = {},
         GetSqe(r, e)
  PROVE  /\ InSq(e.work)' = {r} /\ InKernel(e.work)' = {}
         /\ \/ \A v \in Works \ {e.work} : Submits(v, r)
            \/ \A v \in Works \ {e.work} : UNCHANGED <<InSq(v), InKernel(v)>>
         /\ \A q \in Runtimes : Once(sq'[q])
         /\ \A x, y \in kernel' :
              x.entry.work = y.entry.work /\ x.entry.work # NoWork => x = y
<1>1. \A q \in Runtimes : Once(sq[q])
  BY Zenon DEF HeldOnce
<1>2. CASE Len(sq[r]) = SqSize
  <2>1. kernel' = kernel \cup Submitted(r) \cup {} /\ sq' = [sq EXCEPT ![r] = <<e>>]
    BY <1>2, Zenon DEF GetSqe
  <2>2. /\ \A v \in Works : InKernel(v)' = IF r \in InSq(v) THEN InKernel(v) \cup {r}
                                                           ELSE InKernel(v)
        /\ \A x, y \in kernel' :
             x.entry.work = y.entry.work /\ x.entry.work # NoWork => x = y
    BY <2>1, SubmitMoves, Zenon
  <2>3. Range(<<e>>) = {e} /\ Once(<<e>>)
    BY SMTT(30) DEF Range, Once
  <2>4. \A q \in Runtimes : sq'[q] = IF q = r THEN <<e>> ELSE sq[q]
    BY <2>1, SMTT(30) DEF Rings
  <2>5. \A v \in Works : InSq(v)' = IF v = e.work THEN InSq(v) \cup {r} ELSE InSq(v) \ {r}
    BY <2>3, <2>4 DEF InSq
  <2>6. \A v \in Works \ {e.work} : Submits(v, r)
    BY <2>2, <2>5, SMTT(30) DEF Submits
  <2> QED
    BY <1>1, <2>2, <2>3, <2>4, <2>5, <2>6, Zenon
<1>3. CASE Len(sq[r]) # SqSize
  <2>1. sq' = [sq EXCEPT ![r] = Append(sq[r], e)] /\ kernel' = kernel
    BY <1>3, ZenonT(30) DEF GetSqe
  <2>2. Range(Append(sq[r], e)) = Range(sq[r]) \cup {e}
    BY AppendRange DEF Rings
  <2>3. \A x \in Range(sq[r]) : x.work # e.work
    BY Zenon DEF InSq
  <2>4. Once(Append(sq[r], e))
    BY <1>1, <2>3, AppendOnce DEF Rings
  <2>5. \A q \in Runtimes : sq'[q] = IF q = r THEN Append(sq[r], e) ELSE sq[q]
    BY <2>1 DEF Rings
  <2>6. \A v \in Works : InSq(v)' = IF v = e.work THEN InSq(v) \cup {r} ELSE InSq(v)
    BY <2>2, <2>5 DEF InSq
  <2>7. \A v \in Works : InKernel(v)' = InKernel(v)
    BY <2>1, Zenon DEF InKernel
  <2> QED
    BY <1>1, <2>1, <2>4, <2>5, <2>6, <2>7, Zenon DEF HeldOnce
<1> QED
  BY <1>2, <1>3, Zenon

(* schedule_internal puts the work into the own local_queue_ or into the   *)
(* call of the thread.                                                     *)
LEMMA ScheduleMoves ==
  ASSUME Shape, HeldOnce, NEW t \in Threads, NEW to \in Runtimes, NEW w \in Works, Executing(t),
         ScheduleInternal(t, to, w), InLocal(w) = {}, InCall(w) = {}
  PROVE  /\ \/ InLocal(w)' = {t} /\ InCall(w)' = {}
            \/ InLocal(w)' = {} /\ InCall(w)' = {t}
         /\ \A v \in Works \ {w} : UNCHANGED <<InLocal(v), InCall(v)>>
         /\ \A q \in Runtimes : IsInjective(local_queue'[q])
<1>1. CASE to = t
  <2>1. local_queue' = [local_queue EXCEPT ![t] = Append(local_queue[t], w)] /\ call' = call
    BY <1>1, Zenon DEF ScheduleInternal
  <2>2. \A v \in Works : InCall(v)' = InCall(v)
    BY <2>1, Zenon DEF InCall
  <2>3. /\ \A v \in Works : InLocal(v)' = IF v = w THEN InLocal(v) \cup {t} ELSE InLocal(v)
        /\ \A q \in Runtimes : IsInjective(local_queue'[q])
    BY <1>1, <2>1, LocalAppend, ZenonT(30) DEF Shape
  <2> QED
    BY <2>2, <2>3, Zenon
<1>2. CASE to # t
  <2> DEFINE c == [at |-> IF ring_enabled[to] THEN "send" ELSE "lock", to |-> to, work |-> w]
  <2>1. call' = [call EXCEPT ![t] = c] /\ local_queue' = local_queue
    BY <1>2, Zenon DEF ScheduleInternal
  <2>2. c.work = w
    OBVIOUS
  <2> HIDE DEF c
  <2>3. \A v \in Works : InCall(v)' = IF v = c.work THEN InCall(v) \cup {t} ELSE InCall(v) \ {t}
    BY <2>1, CallMoves, ZenonT(30) DEF Shape
  <2>4. \A v \in Works : t \notin InCall(v)
    BY RuntimeAssumption DEF InCall, Executing, NoCall
  <2>5. \A v \in Works : InLocal(v)' = InLocal(v)
    BY <2>1, Zenon DEF InLocal
  <2> QED
    BY <2>1, <2>2, <2>3, <2>4, <2>5, SMTT(30) DEF HeldOnce
<1> QED
  BY <1>1, <1>2, Zenon

(* A coroutine that is alive is in one place, once. *)
Placed == HeldOnce /\ \A w \in Works : InOnePlace(w)

(* Every step keeps every live coroutine in exactly one place. *)
LEMMA PlacedStep ==
  ASSUME Shape, Placed, [Next]_vars
  PROVE  Placed'
<1> USE DEF Shape
<1>a. HeldOnce /\ \A w \in Works : InOnePlace(w)
  BY Zenon DEF Placed
<1> USE <1>a
<1>b. NoWork \notin Works
  BY RuntimeAssumption, Zenon
<1> USE <1>b
<1>1. ASSUME UNCHANGED <<global_queue, local_queue, sq, kernel, cq, cur, waiting, alive>>,
             \A v \in Works : UNCHANGED InCall(v)
      PROVE  Placed'
  <2>1. HeldOnce'
    BY <1>1, Zenon DEF HeldOnce
  <2>2. \A v \in Works : UNCHANGED <<InGlobal(v), InLocal(v), InSq(v), InKernel(v), InCq(v),
                                     InCur(v), InWaiting(v)>>
    BY <1>1, Zenon DEF InGlobal, InLocal, InSq, InKernel, InCq, InCur, InWaiting
  <2> QED
    BY <1>1, <2>1, <2>2, Staying, Zenon DEF Placed
<1>2. ASSUME NEW k \in kernel, CompleteOp(k) PROVE Placed'
  <2> DEFINE w == k.entry.work
  <2>1. /\ k.from \in Runtimes /\ w \in Works /\ Common(w) \in Completion
        /\ cq' = [cq EXCEPT ![k.from] = Append(cq[k.from], Common(w))]
        /\ kernel' = kernel \ {k} /\ sq' = sq
    BY <1>2, Completing, Zenon
  <2> USE <2>1
  <2>2. UNCHANGED <<global_queue, local_queue, cur, call, waiting, alive>>
    BY <1>2, Zenon DEF CompleteOp, shared, local, waits, user
  <2> USE <2>2
  <2>3. /\ k.from \in InKernel(w)
        /\ \A v \in Works : InKernel(v)' = IF v = w THEN InKernel(v) \ {k.from} ELSE InKernel(v)
        /\ \A x, y \in kernel' :
             x.entry.work = y.entry.work /\ x.entry.work # NoWork => x = y
    BY KernelLeaves, Zenon
  <2> USE <2>3
  <2>4. Only(w, "kernel", k.from) /\ w \in alive
    BY Homes, Zenon
  <2>5. Common(w).work = w
    BY Zenon DEF Common
  <2> HIDE DEF w
  <2>6. k.from \notin InCq(w)
    BY <2>4, Zenon DEF Only
  <2>8. /\ \A v \in Works : InCq(v)' = IF v = w THEN InCq(v) \cup {k.from} ELSE InCq(v)
        /\ \A q \in Runtimes : Once(cq'[q])
    BY <2>5, <2>6, CqAppended, ZenonT(30)
  <2>9. HeldOnce'
    BY <2>8, Zenon DEF HeldOnce
  <2>10. \A v \in Works : UNCHANGED <<InGlobal(v), InLocal(v), InSq(v), InCur(v), InCall(v),
                                      InWaiting(v)>>
    BY Zenon DEF InGlobal, InLocal, InSq, InCur, InCall, InWaiting
  <2>11. Only(w, "cq", k.from)'
    BY <2>4, <2>8, <2>10, Zenon DEF Only
  <2>12. \A v \in Works \ {w} : InOnePlace(v)'
    BY <2>8, <2>10, Staying, Zenon
  <2>13. InOnePlace(w)'
    BY <2>4, <2>11, Arriving, Zenon DEF Kinds
  <2> QED
    BY <2>9, <2>12, <2>13, Zenon DEF Placed
<1>3. ASSUME NEW k \in kernel, DeliverMsg(k) PROVE Placed'
  <2> DEFINE w == k.entry.work
             to == k.entry.to
  <2>1. /\ k.from \in Runtimes /\ to \in Runtimes /\ to # k.from
        /\ w \in Works \cup {NoWork}
        /\ Payload(w) \in Completion /\ Schedule(NoWork) \in Completion
        /\ cq'[to] = Append(cq[to], Payload(w))
        /\ cq'[k.from] = Append(cq[k.from], Schedule(NoWork))
        /\ \A r \in Runtimes \ {to, k.from} : cq'[r] = cq[r]
        /\ kernel' = kernel \ {k} /\ sq' = sq
    BY <1>3, Delivering, Zenon
  <2> USE <2>1
  <2>2. UNCHANGED <<global_queue, local_queue, cur, call, waiting, alive>>
    BY <1>3, Zenon DEF DeliverMsg, shared, local, waits, user
  <2> USE <2>2
  <2>3. /\ w \in Works => k.from \in InKernel(w)
        /\ \A v \in Works : InKernel(v)' = IF v = w THEN InKernel(v) \ {k.from} ELSE InKernel(v)
        /\ \A x, y \in kernel' :
             x.entry.work = y.entry.work /\ x.entry.work # NoWork => x = y
    BY KernelLeaves, Zenon
  <2> USE <2>3
  <2>4. w \in Works => Only(w, "kernel", k.from) /\ w \in alive
    BY Homes, Zenon
  <2>5. Payload(w).work = w /\ Schedule(NoWork).work = NoWork
    BY Zenon DEF Payload, Schedule, Ignore
  <2> HIDE DEF w, to
  <2>6. /\ \A x : x \in Range(Append(cq[to], Payload(w))) <=> x \in Range(cq[to]) \/ x = Payload(w)
        /\ Once(Append(cq[to], Payload(w)))
    BY <2>4, <2>5, CqAppend, Zenon DEF Only
  <2>7. /\ \A x : x \in Range(Append(cq[k.from], Schedule(NoWork))) <=>
                    x \in Range(cq[k.from]) \/ x = Schedule(NoWork)
        /\ Once(Append(cq[k.from], Schedule(NoWork)))
    BY <2>5, CqAppend, Zenon
  <2>8. \A v \in Works : InCq(v)' = IF v = w THEN InCq(v) \cup {to} ELSE InCq(v)
    BY <2>5, <2>6, <2>7, ZenonT(60) DEF InCq
  <2>9. HeldOnce'
    <3>1. \A r \in Runtimes : Once(cq'[r])
      BY <2>6, <2>7, Zenon DEF HeldOnce
    <3> QED
      BY <3>1, Zenon DEF HeldOnce
  <2>10. \A v \in Works : UNCHANGED <<InGlobal(v), InLocal(v), InSq(v), InCur(v), InCall(v),
                                      InWaiting(v)>>
    BY Zenon DEF InGlobal, InLocal, InSq, InCur, InCall, InWaiting
  <2>11. w \in Works => Only(w, "cq", to)'
    BY <2>4, <2>8, <2>10, Zenon DEF Only
  <2>12. \A v \in Works \ {w} : InOnePlace(v)'
    BY <2>8, <2>10, Staying, Zenon
  <2>13. w \in Works => InOnePlace(w)'
    BY <2>4, <2>11, Arriving, Zenon DEF Kinds
  <2> QED
    BY <2>9, <2>12, <2>13, Zenon DEF Placed
<1>4. ASSUME NEW r \in Runtimes, RunFirst(r) PROVE Placed'
  <2>1. local_queue[r] = <<>>
    BY <1>4, Zenon DEF RunFirst, At, Loops
  <2>2. local_queue[r] \o global_queue[r] = global_queue[r]
    BY <2>1 DEF Queues
  <2>3. /\ local_queue' = [local_queue EXCEPT ![r] = global_queue[r]]
        /\ global_queue' = [global_queue EXCEPT ![r] = <<>>]
        /\ UNCHANGED <<sq, kernel, cq, cur, call, waiting, alive>>
    BY <1>4, <2>2, Zenon DEF RunFirst, rings, waits, user
  <2> USE <2>3
  <2>4. \A q \in Runtimes : /\ local_queue'[q] = IF q = r THEN global_queue[r] ELSE local_queue[q]
                            /\ global_queue'[q] = IF q = r THEN <<>> ELSE global_queue[q]
    BY Zenon DEF Queues
  <2>5. Range(<<>>) = {} /\ IsInjective(<<>>)
    BY DEF Range, IsInjective
  <2>6. HeldOnce'
    BY <2>4, <2>5, Zenon DEF HeldOnce
  <2>7. \A v \in Works : /\ InGlobal(v)' = InGlobal(v) \ {r}
                         /\ InLocal(v)' = IF r \in InGlobal(v) THEN InLocal(v) \cup {r}
                                                               ELSE InLocal(v)
    BY <2>1, <2>4, <2>5, Zenon DEF InGlobal, InLocal
  <2>8. \A v \in Works : UNCHANGED <<InSq(v), InKernel(v), InCq(v), InCur(v), InCall(v),
                                     InWaiting(v)>>
    BY Zenon DEF InSq, InKernel, InCq, InCur, InCall, InWaiting
  <2>9. ASSUME NEW v \in Works, r \in InGlobal(v) PROVE InOnePlace(v)'
    <3>1. Only(v, "global", r) /\ v \in alive
      BY <2>9, Homes, Zenon
    <3>2. Only(v, "local", r)'
      BY <2>7, <2>8, <2>9, <3>1, Zenon DEF Only
    <3> QED
      BY <3>1, <3>2, Arriving, Zenon DEF Kinds
  <2>10. ASSUME NEW v \in Works, r \notin InGlobal(v) PROVE InOnePlace(v)'
    BY <2>7, <2>8, <2>10, Staying, Zenon
  <2> QED
    BY <2>6, <2>9, <2>10, Zenon DEF Placed
<1>5. ASSUME NEW r \in Runtimes, Pop(r) PROVE Placed'
  <2>1. CASE local_queue[r] = <<>>
    BY <1>1, <1>5, <2>1, Zenon DEF Pop, shared, rings, user, InCall
  <2>2. CASE local_queue[r] # <<>>
    <3>0. PICK w \in Works : w = Head(local_queue[r])
      BY <2>2 DEF Queues
    <3>1. /\ local_queue' = [local_queue EXCEPT ![r] = Tail(local_queue[r])]
          /\ cur' = [cur EXCEPT ![r] = w] /\ cur[r] = NoWork
          /\ UNCHANGED <<global_queue, sq, kernel, cq, call, waiting, alive>>
      BY <1>5, <2>2, <3>0, Zenon DEF Pop, Resume, At, shared, rings, user
    <3> USE <3>1
    <3>2. /\ r \in InLocal(w)
          /\ \A v \in Works : InLocal(v)' = IF v = w THEN InLocal(v) \ {r} ELSE InLocal(v)
          /\ \A q \in Runtimes : IsInjective(local_queue'[q])
      BY <2>2, <3>0, LocalTail, Zenon
    <3> USE <3>2
    <3>3. \A v \in Works : InCur(v)' = IF v = w THEN InCur(v) \cup {r} ELSE InCur(v)
      BY CurLoads, Zenon
    <3>4. HeldOnce'
      BY Zenon DEF HeldOnce
    <3>5. \A v \in Works : UNCHANGED <<InGlobal(v), InSq(v), InKernel(v), InCq(v), InCall(v),
                                       InWaiting(v)>>
      BY Zenon DEF InGlobal, InSq, InKernel, InCq, InCall, InWaiting
    <3>6. Only(w, "local", r) /\ w \in alive
      BY Homes, Zenon
    <3>7. Only(w, "cur", r)'
      BY <3>3, <3>5, <3>6, Zenon DEF Only
    <3>8. InOnePlace(w)'
      BY <3>6, <3>7, Arriving, Zenon DEF Kinds
    <3>9. \A v \in Works \ {w} : InOnePlace(v)'
      BY <3>3, <3>5, Staying, Zenon
    <3> QED
      BY <3>4, <3>8, <3>9, Zenon DEF Placed
  <2> QED
    BY <2>1, <2>2, Zenon
<1>6. ASSUME NEW r \in Runtimes, ProcessCqe(r) PROVE Placed'
  <2>0. PICK w \in Works \cup {NoWork} : w = Head(cq[r]).work
    <3>1. Head(cq[r]) \in Completion
      BY <1>6, SMTT(30) DEF ProcessCqe, Rings
    <3> QED
      BY <3>1, Fields, SMTT(30)
  <2>1. /\ cq' = [cq EXCEPT ![r] = Tail(cq[r])] /\ cq[r] # <<>>
        /\ cur' = [cur EXCEPT ![r] = w] /\ cur[r] = NoWork
        /\ UNCHANGED <<global_queue, local_queue, sq, kernel, call, waiting, alive>>
    BY <1>6, <2>0, Zenon DEF ProcessCqe, Resume, At, shared, user
  <2> USE <2>1
  <2>2. /\ w \in Works => r \in InCq(w)
        /\ \A v \in Works : InCq(v)' = IF v = w THEN InCq(v) \ {r} ELSE InCq(v)
        /\ \A q \in Runtimes : Once(cq'[q])
    BY <2>0, CqTail, Zenon
  <2> USE <2>2
  <2>4. \A v \in Works : InCur(v)' = IF v = w THEN InCur(v) \cup {r} ELSE InCur(v)
    BY CurLoads, Zenon
  <2>5. HeldOnce'
    BY Zenon DEF HeldOnce
  <2>6. \A v \in Works : UNCHANGED <<InGlobal(v), InLocal(v), InSq(v), InKernel(v), InCall(v),
                                     InWaiting(v)>>
    BY Zenon DEF InGlobal, InLocal, InSq, InKernel, InCall, InWaiting
  <2>7. ASSUME w \in Works PROVE InOnePlace(w)'
    <3>1. Only(w, "cq", r) /\ w \in alive
      BY <2>7, Homes, Zenon
    <3>2. Only(w, "cur", r)'
      BY <2>4, <2>6, <2>7, <3>1, Zenon DEF Only
    <3> QED
      BY <3>1, <3>2, Arriving, Zenon DEF Kinds
  <2>8. \A v \in Works \ {w} : InOnePlace(v)'
    BY <2>4, <2>6, Staying, Zenon
  <2> QED
    BY <2>5, <2>7, <2>8, Zenon DEF Placed
<1>7. ASSUME NEW r \in Runtimes, CheckExit(r) PROVE Placed'
  <2>1. CASE UNCHANGED <<sq, kernel>>
    BY <1>1, <1>7, <2>1, Zenon DEF CheckExit, shared, waits, user, InCall
  <2>2. CASE kernel' = kernel \cup Submitted(r) /\ sq' = [sq EXCEPT ![r] = <<>>]
    <3>1. UNCHANGED <<global_queue, local_queue, cq, cur, call, waiting, alive>>
      BY <1>7, Zenon DEF CheckExit, shared, waits, user
    <3>3. /\ \A v \in Works : InKernel(v)' = IF r \in InSq(v) THEN InKernel(v) \cup {r}
                                                             ELSE InKernel(v)
          /\ \A x, y \in kernel' :
               x.entry.work = y.entry.work /\ x.entry.work # NoWork => x = y
      BY <2>2, SubmitAll, Zenon
    <3>4. /\ \A v \in Works : InSq(v)' = InSq(v) \ {r}
          /\ \A q \in Runtimes : Once(sq'[q])
      BY <2>2, SqEmptied, Zenon
    <3>5. HeldOnce'
      BY <3>1, <3>3, <3>4, Zenon DEF HeldOnce
    <3>6. \A v \in Works : Submits(v, r)
      BY <3>3, <3>4, Zenon DEF Submits
    <3>7. \A v \in Works : UNCHANGED <<InGlobal(v), InLocal(v), InCq(v), InCur(v), InCall(v),
                                       InWaiting(v)>>
      BY <3>1, Zenon DEF InGlobal, InLocal, InCq, InCur, InCall, InWaiting
    <3> QED
      BY <3>1, <3>5, <3>6, <3>7, Undisturbed, Zenon DEF Placed
  <2> QED
    BY <1>7, <2>1, <2>2, Zenon DEF CheckExit
<1>8. ASSUME NEW r \in Runtimes, StartOp(r) PROVE Placed'
  <2>0. PICK w \in Works : w = cur[r]
    BY <1>8, Zenon DEF StartOp, Executing, Coroutines
  <2> DEFINE e == Op(w)
  <2>1. /\ r \in InCur(w) /\ cur' = [cur EXCEPT ![r] = NoWork]
        /\ GetSqe(r, e)
        /\ UNCHANGED <<global_queue, local_queue, cq, call, waiting, alive>>
    BY <1>8, <2>0, ZenonT(30) DEF StartOp, Executing, InCur, Coroutines, shared, user, waits
  <2> USE <2>1
  <2>2. e \in Entry /\ e.work = w
    BY DEF Entry, Op
  <2>3. Only(w, "cur", r) /\ w \in alive
    BY Homes, Zenon
  <2> USE <2>3
  <2> HIDE DEF e
  <2>4. InSq(w) = {} /\ InKernel(w) = {}
    BY Zenon DEF Only
  <2>5. /\ InSq(w)' = {r} /\ InKernel(w)' = {}
        /\ \/ \A v \in Works \ {w} : Submits(v, r)
           \/ \A v \in Works \ {w} : UNCHANGED <<InSq(v), InKernel(v)>>
        /\ \A q \in Runtimes : Once(sq'[q])
        /\ \A x, y \in kernel' :
             x.entry.work = y.entry.work /\ x.entry.work # NoWork => x = y
    BY <2>2, <2>4, GetMoves, Zenon
  <2>6. \A v \in Works : InCur(v)' = IF v = NoWork THEN InCur(v) \cup {r} ELSE InCur(v) \ {r}
    BY CurMoves, Zenon
  <2>7. \A v \in Works \ {w} : InCur(v)' = InCur(v)
    BY <2>0, <2>6, ZenonT(30) DEF InCur
  <2>8. HeldOnce'
    BY <2>5, Zenon DEF HeldOnce
  <2>9. \A v \in Works : UNCHANGED <<InGlobal(v), InLocal(v), InCq(v), InCall(v), InWaiting(v)>>
    BY Zenon DEF InGlobal, InLocal, InCq, InCall, InWaiting
  <2>10. Only(w, "sq", r)'
    BY <2>5, <2>6, <2>9, Zenon DEF Only
  <2>11. InOnePlace(w)'
    BY <2>10, Arriving, Zenon DEF Kinds
  <2>12. ASSUME NEW v \in Works \ {w} PROVE InOnePlace(v)'
    <3>1. UNCHANGED <<InGlobal(v), InLocal(v), InCq(v), InCur(v), InCall(v), InWaiting(v)>>
      BY <2>7, <2>9, Zenon
    <3>2. CASE Submits(v, r)
      BY <3>1, <3>2, Undisturbed, Zenon
    <3>3. CASE UNCHANGED <<InSq(v), InKernel(v)>>
      BY <3>1, <3>3, Staying, Zenon
    <3> QED
      BY <2>5, <3>2, <3>3, Zenon
  <2> QED
    BY <2>8, <2>11, <2>12, Zenon DEF Placed
<1>9. ASSUME NEW r \in Runtimes, Wait(r) PROVE Placed'
  <2>0. PICK w \in Works : w = cur[r]
    BY <1>9, Zenon DEF Wait, Executing, Coroutines
  <2>1. /\ r \in InCur(w) /\ cur' = [cur EXCEPT ![r] = NoWork]
        /\ waiting' = waiting \cup {<<w, r>>}
        /\ UNCHANGED <<global_queue, local_queue, sq, kernel, cq, call, alive>>
    BY <1>9, <2>0, Zenon DEF Wait, Executing, InCur, Coroutines, shared, user, rings
  <2> USE <2>1
  <2>2. Only(w, "cur", r) /\ w \in alive
    BY Homes, Zenon
  <2>3. \A v \in Works : InCur(v)' = IF v = NoWork THEN InCur(v) \cup {r} ELSE InCur(v) \ {r}
    BY CurMoves, Zenon
  <2>4. \A v \in Works \ {w} : InCur(v)' = InCur(v)
    BY <2>0, <2>2, <2>3, ZenonT(30) DEF InCur
  <2>5. \A v \in Works : InWaiting(v)' = IF v = w THEN InWaiting(v) \cup {r} ELSE InWaiting(v)
    BY Zenon DEF InWaiting
  <2>6. HeldOnce'
    BY Zenon DEF HeldOnce
  <2>7. \A v \in Works : UNCHANGED <<InGlobal(v), InLocal(v), InSq(v), InKernel(v), InCq(v),
                                     InCall(v)>>
    BY Zenon DEF InGlobal, InLocal, InSq, InKernel, InCq, InCall
  <2>8. Only(w, "waiting", r)'
    BY <2>2, <2>3, <2>5, <2>7, Zenon DEF Only
  <2>9. InOnePlace(w)'
    BY <2>2, <2>8, Arriving, Zenon DEF Kinds
  <2>10. \A v \in Works \ {w} : InOnePlace(v)'
    BY <2>4, <2>5, <2>7, Staying, Zenon
  <2> QED
    BY <2>6, <2>9, <2>10, Zenon DEF Placed
<1>10. ASSUME NEW r \in Runtimes, End(r) PROVE Placed'
  <2>0. PICK w \in Works : w = cur[r]
    BY <1>10, Zenon DEF End, Executing, Coroutines
  <2>1. /\ r \in InCur(w) /\ cur' = [cur EXCEPT ![r] = NoWork]
        /\ alive' = alive \ {w}
        /\ UNCHANGED <<global_queue, local_queue, sq, kernel, cq, call, waiting>>
    BY <1>10, <2>0, Zenon DEF End, Executing, InCur, Coroutines, shared, local, waits, rings
  <2> USE <2>1
  <2>2. Only(w, "cur", r)
    BY Homes, Zenon
  <2>3. \A v \in Works : InCur(v)' = IF v = NoWork THEN InCur(v) \cup {r} ELSE InCur(v) \ {r}
    BY CurMoves, Zenon
  <2>4. \A v \in Works \ {w} : InCur(v)' = InCur(v)
    BY <2>0, <2>2, <2>3, ZenonT(30) DEF InCur
  <2>5. HeldOnce'
    BY Zenon DEF HeldOnce
  <2>6. \A v \in Works : UNCHANGED <<InGlobal(v), InLocal(v), InSq(v), InKernel(v), InCq(v),
                                     InCall(v), InWaiting(v)>>
    BY Zenon DEF InGlobal, InLocal, InSq, InKernel, InCq, InCall, InWaiting
  <2>7. Nowhere(w)'
    BY <2>2, <2>3, <2>6, Zenon DEF Only, Nowhere
  <2>8. InOnePlace(w)'
    BY <2>7, Absent, Zenon
  <2>9. \A v \in Works \ {w} : InOnePlace(v)'
    BY <2>4, <2>6, Staying, Zenon
  <2> QED
    BY <2>5, <2>8, <2>9, Zenon DEF Placed
<1>11. ASSUME NEW r \in Runtimes, NEW to \in Runtimes, CoSwitch(r, to) PROVE Placed'
  <2>0. PICK w \in Works : w = cur[r]
    BY <1>11, Zenon DEF CoSwitch, Executing, Coroutines
  <2>1. /\ r \in InCur(w) /\ cur' = [cur EXCEPT ![r] = NoWork] /\ r \in Threads
        /\ Executing(r) /\ ScheduleInternal(r, to, w)
        /\ UNCHANGED <<global_queue, sq, kernel, cq, waiting, alive>>
    BY <1>11, <2>0, Zenon
       DEF CoSwitch, Executing, InCur, Coroutines, shared, user, waits, rings, Threads
  <2> USE <2>1
  <2>2. Only(w, "cur", r) /\ w \in alive
    BY Homes, Zenon
  <2> USE <2>2
  <2>3. InLocal(w) = {} /\ InCall(w) = {}
    BY Zenon DEF Only
  <2>4. /\ \/ InLocal(w)' = {r} /\ InCall(w)' = {}
           \/ InLocal(w)' = {} /\ InCall(w)' = {r}
        /\ \A v \in Works \ {w} : UNCHANGED <<InLocal(v), InCall(v)>>
        /\ \A q \in Runtimes : IsInjective(local_queue'[q])
    BY <2>3, ScheduleMoves, Zenon
  <2>5. \A v \in Works : InCur(v)' = IF v = NoWork THEN InCur(v) \cup {r} ELSE InCur(v) \ {r}
    BY CurMoves, Zenon
  <2>6. \A v \in Works \ {w} : InCur(v)' = InCur(v)
    BY <2>0, <2>5, ZenonT(30) DEF InCur
  <2>7. HeldOnce'
    BY <2>4, Zenon DEF HeldOnce
  <2>8. \A v \in Works : UNCHANGED <<InGlobal(v), InSq(v), InKernel(v), InCq(v), InWaiting(v)>>
    BY Zenon DEF InGlobal, InSq, InKernel, InCq, InWaiting
  <2>9. Only(w, "local", r)' \/ Only(w, "call", r)'
    BY <2>4, <2>5, <2>8, Zenon DEF Only
  <2>10. InOnePlace(w)'
    BY <2>9, Arriving, Zenon DEF Kinds
  <2>11. \A v \in Works \ {w} : InOnePlace(v)'
    BY <2>4, <2>6, <2>8, Staying, Zenon
  <2> QED
    BY <2>7, <2>10, <2>11, Zenon DEF Placed
<1>12. ASSUME NEW t \in Threads, NEW to \in Runtimes, NEW w \in Works, CoSpawn(t, to, w)
       PROVE  Placed'
  <2>1. /\ w \notin alive /\ alive' = alive \cup {w}
        /\ Executing(t) /\ ScheduleInternal(t, to, w)
        /\ UNCHANGED <<global_queue, sq, kernel, cq, waiting, cur>>
    BY <1>12, Zenon DEF CoSpawn, shared, waits, rings
  <2> USE <2>1
  <2>2. Nowhere(w)
    BY Absent, Zenon
  <2>3. InLocal(w) = {} /\ InCall(w) = {}
    BY <2>2, Zenon DEF Nowhere
  <2>4. /\ \/ InLocal(w)' = {t} /\ InCall(w)' = {}
           \/ InLocal(w)' = {} /\ InCall(w)' = {t}
        /\ \A v \in Works \ {w} : UNCHANGED <<InLocal(v), InCall(v)>>
        /\ \A q \in Runtimes : IsInjective(local_queue'[q])
    BY <2>3, ScheduleMoves, Zenon
  <2>5. HeldOnce'
    BY <2>4, Zenon DEF HeldOnce
  <2>6. \A v \in Works : UNCHANGED <<InGlobal(v), InSq(v), InKernel(v), InCq(v), InCur(v),
                                     InWaiting(v)>>
    BY Zenon DEF InGlobal, InSq, InKernel, InCq, InCur, InWaiting
  <2>7. Only(w, "local", t)' \/ Only(w, "call", t)'
    BY <2>2, <2>4, <2>6, Zenon DEF Only, Nowhere
  <2>8. InOnePlace(w)'
    BY <2>7, Arriving, Zenon DEF Kinds
  <2>9. \A v \in Works \ {w} : InOnePlace(v)'
    BY <2>4, <2>6, Staying, Zenon
  <2> QED
    BY <2>5, <2>8, <2>9, Zenon DEF Placed
<1>13. ASSUME NEW t \in Threads, NEW to \in Runtimes, NEW w \in Works, Wake(t, to, w)
       PROVE  Placed'
  <2>1. /\ <<w, to>> \in waiting /\ waiting' = waiting \ {<<w, to>>}
        /\ Executing(t) /\ ScheduleInternal(t, to, w)
        /\ UNCHANGED <<global_queue, sq, kernel, cq, cur, alive>>
    BY <1>13, Zenon DEF Wake, shared, user, rings
  <2> USE <2>1
  <2>2. to \in InWaiting(w)
    BY Zenon DEF InWaiting
  <2>3. Only(w, "waiting", to) /\ w \in alive
    BY <2>2, Homes, Zenon
  <2>4. InLocal(w) = {} /\ InCall(w) = {}
    BY <2>3, Zenon DEF Only
  <2>5. /\ \/ InLocal(w)' = {t} /\ InCall(w)' = {}
           \/ InLocal(w)' = {} /\ InCall(w)' = {t}
        /\ \A v \in Works \ {w} : UNCHANGED <<InLocal(v), InCall(v)>>
        /\ \A q \in Runtimes : IsInjective(local_queue'[q])
    BY <2>4, ScheduleMoves, Zenon
  <2>6. \A v \in Works : InWaiting(v)' = IF v = w THEN InWaiting(v) \ {to} ELSE InWaiting(v)
    BY Zenon DEF InWaiting
  <2>7. HeldOnce'
    BY <2>5, Zenon DEF HeldOnce
  <2>8. \A v \in Works : UNCHANGED <<InGlobal(v), InSq(v), InKernel(v), InCq(v), InCur(v)>>
    BY Zenon DEF InGlobal, InSq, InKernel, InCq, InCur
  <2>9. Only(w, "local", t)' \/ Only(w, "call", t)'
    BY <2>3, <2>5, <2>6, <2>8, Zenon DEF Only
  <2>10. InOnePlace(w)'
    BY <2>3, <2>9, Arriving, Zenon DEF Kinds
  <2>11. \A v \in Works \ {w} : InOnePlace(v)'
    BY <2>5, <2>6, <2>8, Staying, Zenon
  <2> QED
    BY <2>7, <2>10, <2>11, Zenon DEF Placed
<1>14. ASSUME NEW t \in Threads, ScheduleLocked(t) PROVE Placed'
  <2>0. PICK to \in Runtimes, w \in Works : to = call[t].to /\ w = call[t].work
    BY <1>14 DEF ScheduleLocked, Calls, NoCall
  <2>1. UNCHANGED <<local_queue, sq, kernel, cq, cur, waiting, alive>>
    BY <1>14, Zenon DEF ScheduleLocked, local, waits, rings, user
  <2> USE <2>1
  <2>2. CASE ring_enabled[to]
    <3>1. global_queue' = global_queue /\ call' = [call EXCEPT ![t].at = "send"]
      BY <1>14, <2>0, <2>2, Zenon DEF ScheduleLocked
    <3>2. \A s \in Threads : call'[s].work = call[s].work
      BY <3>1, SMTT(30) DEF Calls
    <3> QED
      BY <1>1, <3>1, <3>2, Zenon DEF InCall
  <2>3. CASE ~ring_enabled[to]
    <3>1. /\ global_queue' = [global_queue EXCEPT ![to] = Append(global_queue[to], w)]
          /\ call' = [call EXCEPT ![t] = NoCall]
      BY <1>14, <2>0, <2>3, Zenon DEF ScheduleLocked
    <3>2. Only(w, "call", t) /\ w \in alive
      <4>1. t \in InCall(w)
        BY <2>0, Zenon DEF InCall
      <4> QED
        BY <4>1, Homes, Zenon
    <3>3. InGlobal(w) = {}
      BY <3>2, Zenon DEF Only
    <3>4. /\ \A v \in Works : InGlobal(v)' = IF v = w THEN InGlobal(v) \cup {to} ELSE InGlobal(v)
          /\ \A q \in Runtimes : IsInjective(global_queue'[q])
      BY <3>1, <3>3, GlobalAppend, ZenonT(30)
    <3>5. \A v \in Works : InCall(v)' = IF v = w THEN InCall(v) \ {t} ELSE InCall(v)
      BY <2>0, <3>1 DEF InCall, Calls, NoCall
    <3>6. HeldOnce'
      BY <3>4, Zenon DEF HeldOnce
    <3>7. \A v \in Works : UNCHANGED <<InLocal(v), InSq(v), InKernel(v), InCq(v), InCur(v),
                                       InWaiting(v)>>
      BY Zenon DEF InLocal, InSq, InKernel, InCq, InCur, InWaiting
    <3>8. Only(w, "global", to)'
      BY <3>2, <3>4, <3>5, <3>7, Zenon DEF Only
    <3>9. InOnePlace(w)'
      BY <3>2, <3>8, Arriving, Zenon DEF Kinds
    <3>10. \A v \in Works \ {w} : InOnePlace(v)'
      BY <3>4, <3>5, <3>7, Staying, Zenon
    <3> QED
      BY <3>6, <3>9, <3>10, Zenon DEF Placed
  <2> QED
    BY <2>2, <2>3, Zenon
<1>15. ASSUME NEW t \in Threads, ScheduleMsgRing(t) PROVE Placed'
  <2>0. PICK to \in Runtimes, w \in Works \cup {NoWork} : to = call[t].to /\ w = call[t].work
    BY <1>15, Sending, Zenon
  <2>1. /\ call' = [call EXCEPT ![t] = NoCall]
        /\ UNCHANGED <<global_queue, local_queue, cur, waiting, alive>>
    BY <1>15, Zenon DEF ScheduleMsgRing, shared, waits, user
  <2> USE <2>1
  <2>2. \A v \in Works : InCall(v)' = IF v = w THEN InCall(v) \ {t} ELSE InCall(v)
    BY <2>0, ZenonT(30) DEF InCall, Calls, NoCall
  <2> USE <2>2
  <2>3. \A v \in Works : UNCHANGED <<InGlobal(v), InLocal(v), InCur(v), InWaiting(v)>>
    BY Zenon DEF InGlobal, InLocal, InCur, InWaiting
  <2> USE <2>3
  <2>4. ASSUME w \in Works PROVE Only(w, "call", t) /\ w \in alive
    <3>1. t \in InCall(w)
      BY <2>0, <2>4, Zenon DEF InCall
    <3> QED
      BY <2>4, <3>1, Homes, Zenon
  <2>5. CASE t \in Runtimes /\ w = NoWork
    <3> DEFINE e == Taken(t, Msg(to, NoWork))
    <3>1. /\ kernel' = kernel \cup Submitted(t) \cup {e}
          /\ sq' = [sq EXCEPT ![t] = <<>>] /\ cq' = cq
      BY <1>15, <2>0, <2>5, ZenonT(30) DEF ScheduleMsgRing
    <3> USE <3>1
    <3>2. \A x \in {e} : x.entry.work = NoWork
      BY DEF Taken, Msg
    <3> HIDE DEF e
    <3>3. /\ \A v \in Works : InKernel(v)' = IF t \in InSq(v) THEN InKernel(v) \cup {t}
                                                             ELSE InKernel(v)
          /\ \A x, y \in kernel' :
               x.entry.work = y.entry.work /\ x.entry.work # NoWork => x = y
      BY <2>5, <3>2, SubmitMoves, ZenonT(30)
    <3>4. /\ \A v \in Works : InSq(v)' = InSq(v) \ {t}
          /\ \A q \in Runtimes : Once(sq'[q])
      BY <2>5, SqEmptied, ZenonT(60)
    <3>5. HeldOnce'
      BY <3>3, <3>4, Zenon DEF HeldOnce
    <3>6. \A v \in Works : Submits(v, t)
      BY <3>3, <3>4, ZenonT(30) DEF Submits
    <3>7. \A v \in Works : UNCHANGED <<InCq(v), InCall(v)>>
      BY <2>5, Zenon DEF InCq
    <3> QED
      BY <3>5, <3>6, <3>7, Undisturbed, Zenon DEF Placed
  <2>6. CASE t \in Runtimes /\ w # NoWork
    <3> DEFINE e == Msg(to, w)
    <3>1. GetSqe(t, e) /\ cq' = cq /\ w \in Works
      BY <1>15, <2>0, <2>6, ZenonT(30) DEF ScheduleMsgRing
    <3> USE <3>1
    <3>2. e \in Entry /\ e.work = w
      BY DEF Entry, Msg
    <3> HIDE DEF e
    <3>3. Only(w, "call", t) /\ w \in alive
      BY <2>4, Zenon
    <3>4. InSq(w) = {} /\ InKernel(w) = {}
      BY <3>3, Zenon DEF Only
    <3>5. /\ InSq(w)' = {t} /\ InKernel(w)' = {}
          /\ \/ \A v \in Works \ {w} : Submits(v, t)
             \/ \A v \in Works \ {w} : UNCHANGED <<InSq(v), InKernel(v)>>
          /\ \A q \in Runtimes : Once(sq'[q])
          /\ \A x, y \in kernel' :
               x.entry.work = y.entry.work /\ x.entry.work # NoWork => x = y
      BY <2>6, <3>2, <3>4, GetMoves, Zenon
    <3>6. HeldOnce'
      BY <3>5, Zenon DEF HeldOnce
    <3>7. \A v \in Works : UNCHANGED InCq(v)
      BY Zenon DEF InCq
    <3>8. Only(w, "sq", t)'
      BY <3>3, <3>5, <3>7, Zenon DEF Only
    <3>9. InOnePlace(w)'
      BY <3>3, <3>8, Arriving, Zenon DEF Kinds
    <3>10. ASSUME NEW v \in Works \ {w} PROVE InOnePlace(v)'
      <4>1. UNCHANGED <<InGlobal(v), InLocal(v), InCq(v), InCur(v), InCall(v), InWaiting(v)>>
        BY <3>7, Zenon
      <4>2. CASE Submits(v, t)
        BY <4>1, <4>2, Undisturbed, Zenon
      <4>3. CASE UNCHANGED <<InSq(v), InKernel(v)>>
        BY <4>1, <4>3, Staying, Zenon
      <4> QED
        BY <3>5, <4>2, <4>3, Zenon
    <3> QED
      BY <3>6, <3>9, <3>10, Zenon DEF Placed
  <2>7. CASE t \notin Runtimes
    <3>1. /\ cq' = [cq EXCEPT ![to] = Append(cq[to], Payload(w))]
          /\ UNCHANGED <<sq, kernel>>
      BY <1>15, <2>0, <2>7, Zenon DEF ScheduleMsgRing
    <3>2. Payload(w).work = w /\ Payload(w) \in Completion
      BY Zenon DEF Payload, Schedule, Ignore, Completion
    <3>3. w \in Works => to \notin InCq(w)
      BY <2>4, Zenon DEF Only
    <3>6. /\ \A v \in Works : InCq(v)' = IF v = w THEN InCq(v) \cup {to} ELSE InCq(v)
          /\ \A q \in Runtimes : Once(cq'[q])
      BY <3>1, <3>2, <3>3, CqAppended, Zenon
    <3>7. HeldOnce'
      BY <3>1, <3>6, Zenon DEF HeldOnce
    <3>8. \A v \in Works : UNCHANGED <<InSq(v), InKernel(v)>>
      BY <3>1, Zenon DEF InSq, InKernel
    <3>9. w \in Works => Only(w, "cq", to)'
      BY <2>4, <3>6, <3>8, Zenon DEF Only
    <3>10. w \in Works => InOnePlace(w)'
      BY <2>4, <3>9, Arriving, Zenon DEF Kinds
    <3>11. \A v \in Works \ {w} : InOnePlace(v)'
      BY <3>6, <3>8, Staying, Zenon
    <3> QED
      BY <3>7, <3>10, <3>11, Zenon DEF Placed
  <2> QED
    BY <2>5, <2>6, <2>7, Zenon
<1>16. ASSUME NEW t \in Threads, Wakeup(t) PROVE Placed'
  <2>1. UNCHANGED <<global_queue, local_queue, sq, kernel, cq, cur, waiting, alive>>
    BY <1>16, Zenon DEF Wakeup, shared, local, waits, rings, user
  <2>2. call[t].work = NoWork
    BY <1>16 DEF Wakeup, Calls, NoCall
  <2>3. \/ call' = [call EXCEPT ![t] = NoCall]
        \/ call' = [call EXCEPT ![t] = [call[t] EXCEPT !.at = "send"]]
    BY <1>16, ZenonT(60) DEF Wakeup
  <2>4. [call[t] EXCEPT !.at = "send"].work = call[t].work
    BY DEF Calls
  <2>5. \A s \in Threads : call'[s].work = call[s].work
    BY <2>2, <2>3, <2>4 DEF Calls, NoCall
  <2> QED
    BY <1>1, <2>1, <2>5, Zenon DEF InCall
<1>17. ASSUME NEW t \in Threads, NEW to \in Runtimes, AllowExit(t, to) PROVE Placed'
  <2>1. UNCHANGED <<global_queue, local_queue, sq, kernel, cq, cur, waiting, alive>>
    BY <1>17, ZenonT(30) DEF AllowExit, local, waits, rings
  <2>2. \A s \in Threads : call'[s].work = call[s].work
    BY <1>17 DEF AllowExit, Executing, Calls, NoCall
  <2> QED
    BY <1>1, <2>1, <2>2, Zenon DEF InCall
<1>18. ASSUME NEW t \in Threads, NEW r \in Runtimes, Drain(t, r) PROVE Placed'
  BY <1>1, <1>18, Zenon DEF Drain, local, waits, rings, user, InCall
<1>19. ASSUME NEW r \in Runtimes,
              RunAgain(r) \/ Tick(r) \/ Exit(r) \/ Unblock(r) \/ FlushDone(r)
       PROVE  Placed'
  BY <1>1, <1>19, Zenon
     DEF RunAgain, Tick, Exit, Unblock, FlushDone, shared, local, waits, rings,
                            user, InCall
<1>20. CASE UNCHANGED vars
  BY <1>1, <1>20, Zenon DEF vars, shared, local, waits, rings, user, InCall
<1> QED
  BY <1>2, <1>3, <1>4, <1>5, <1>6, <1>7, <1>8, <1>9, <1>10, <1>11, <1>12, <1>13, <1>14, <1>15,
     <1>16, <1>17, <1>18, <1>19, <1>20, ZenonT(30) DEF Next, Loop, CallStep, Suspend
=============================================================================
