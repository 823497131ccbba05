---------------------------- MODULE RuntimeProofs ----------------------------
(***************************************************************************)
(* The safety of the runtimes of runtime.hpp.                              *)
(*                                                                         *)
(* pending_works_ counts exactly what is outstanding (Counted).  That      *)
(* needs that a coroutine that runs is not also waited for (Resumed) and   *)
(* that two messages without work are never in the kernel at once for one  *)
(* sender and target (WakesOnce).  It gives that a runtime that has left   *)
(* its loop has nothing pending (Stopped).  The counting is done from a    *)
(* few facts about cardinality, CardinalityLaws, which are established     *)
(* last.                                                                   *)
(***************************************************************************)
EXTENDS RuntimePlaceProofs

(* A coroutine that runs is not one that has been woken and not resumed. *)
Resumed == \A r \in Runtimes : <<cur[r], r>> \notin woken

(* Every step keeps Resumed: Resume, which alone starts a coroutine, ends  *)
(* its wait.                                                               *)
LEMMA ResumedStep ==
  ASSUME Shape, Placed, Resumed, [Next]_vars
  PROVE  Resumed'
<1>a. NoWork \notin Works
  BY RuntimeAssumption, Zenon
<1>b. cur \in [Runtimes -> Works \cup {NoWork}] /\ woken \subseteq Works \X Runtimes
  BY Zenon DEF Shape, Coroutines
<1>c. \A r \in Runtimes : <<NoWork, r>> \notin woken
  BY <1>a, <1>b, Zenon
<1>1. ASSUME UNCHANGED <<cur, woken>> PROVE Resumed'
  BY <1>1, Zenon DEF Resumed
<1>2. ASSUME NEW r \in Runtimes, cur' = [cur EXCEPT ![r] = NoWork], UNCHANGED woken
      PROVE  Resumed'
  BY <1>2, <1>b, <1>c, Zenon DEF Resumed
<1>4. ASSUME NEW t \in Threads, NEW to \in Runtimes, NEW w \in Works, Wake(t, to, w)
      PROVE  Resumed'
  <2>1. cur' = cur /\ woken' = woken \cup {<<w, to>>} /\ <<w, to>> \in waiting
    BY <1>4, Zenon DEF Wake
  <2>2. to \in InWaiting(w)
    BY <2>1, Zenon DEF InWaiting
  <2>3. InCur(w) = {}
    BY <2>2, Homes, Zenon DEF Placed, Only
  <2>4. cur[to] # w
    BY <2>3, Zenon DEF InCur
  <2> QED
    BY <2>1, <2>4, Zenon DEF Resumed
<1>5. ASSUME NEW r \in Runtimes, StartOp(r) \/ Wait(r) \/ End(r) PROVE Resumed'
  BY <1>2, <1>5, Zenon DEF StartOp, Wait, End, local, waits
<1>6. ASSUME NEW r \in Runtimes, NEW to \in Runtimes, CoSwitch(r, to) PROVE Resumed'
  BY <1>2, <1>6, Zenon DEF CoSwitch, waits
<1>7. ASSUME NEW r \in Runtimes, Pop(r) PROVE Resumed'
  <2>1. CASE local_queue[r] = <<>>
    BY <1>1, <1>7, <2>1, Zenon DEF Pop
  <2>2. CASE local_queue[r] # <<>>
    <3>1. Resume(r, Head(local_queue[r]), 0)
      BY <1>7, <2>2, Zenon DEF Pop
    <3> QED
      BY <1>b, <3>1, Zenon DEF Resumed, Resume
  <2> QED
    BY <2>1, <2>2, Zenon
<1>8. ASSUME NEW r \in Runtimes, ProcessCqe(r) PROVE Resumed'
  <2>1. cur' = [cur EXCEPT ![r] = Head(cq[r]).work] /\ woken' = woken \ {<<Head(cq[r]).work, r>>}
    BY <1>8, Zenon DEF ProcessCqe, Resume
  <2> QED
    BY <1>b, <2>1, Zenon DEF Resumed
<1>9. ASSUME NEW r \in Runtimes,
             RunFirst(r) \/ RunAgain(r) \/ Tick(r) \/ CheckExit(r) \/ Exit(r) \/ Unblock(r)
               \/ FlushDone(r)
      PROVE  Resumed'
  BY <1>1, <1>9, Zenon DEF RunFirst, RunAgain, Tick, CheckExit, Exit, Unblock, FlushDone, waits
<1>10. ASSUME NEW k \in kernel, CompleteOp(k) \/ DeliverMsg(k) PROVE Resumed'
  BY <1>1, <1>10, Zenon DEF CompleteOp, DeliverMsg, local, waits
<1>11. ASSUME NEW t \in Threads, CallStep(t) PROVE Resumed'
  BY <1>1, <1>11, Zenon DEF CallStep, ScheduleLocked, ScheduleMsgRing, Wakeup, local, waits
<1>12. ASSUME NEW t \in Threads, NEW to \in Runtimes, NEW w \in Works, CoSpawn(t, to, w)
       PROVE  Resumed'
  BY <1>1, <1>12, Zenon DEF CoSpawn, waits
<1>13. ASSUME NEW t \in Threads, NEW to \in Runtimes, Drain(t, to) \/ AllowExit(t, to)
       PROVE  Resumed'
  BY <1>1, <1>13, Zenon DEF Drain, AllowExit, local, waits
<1>14. CASE UNCHANGED vars
  BY <1>1, <1>14, Zenon DEF vars, local, waits
<1> QED
  BY <1>4, <1>5, <1>6, <1>7, <1>8, <1>9, <1>10, <1>11, <1>12, <1>13, <1>14, Zenon
     DEF Next, Loop, Suspend
-----------------------------------------------------------------------------
(* A message without work: t wakes up `to`, once for its allow_exit. *)
Waking(t, to) == call[t].at # "none" /\ call[t].work = NoWork /\ call[t].to = to
WakeupMsg(t, to) == Taken(t, Msg(to, NoWork))

WakesOnce ==
  \A t \in Threads, to \in Runtimes :
    /\ Waking(t, to) => <<t, to>> \in asked
    /\ WakeupMsg(t, to) \in kernel => <<t, to>> \in asked
    /\ ~(Waking(t, to) /\ WakeupMsg(t, to) \in kernel)

(* Every step keeps WakesOnce: allow_exit is called once per thread and    *)
(* target.                                                                 *)
LEMMA WakesOnceStep ==
  ASSUME Shape, WakesOnce, [Next]_vars
  PROVE  WakesOnce'
<1>a. call \in [Threads -> [at : CallPc, to : Runtimes \cup {NoWork}, work : Works \cup {NoWork}]]
  BY Zenon DEF Shape, Calls
<1>b. NoWork \notin Works
  BY RuntimeAssumption, Zenon
<1>1. ASSUME asked \subseteq asked',
             \A t \in Threads, to \in Runtimes :
               /\ Waking(t, to)' => Waking(t, to)
               /\ WakeupMsg(t, to) \in kernel' => WakeupMsg(t, to) \in kernel
      PROVE  WakesOnce'
  <2>1. \A t, to : WakeupMsg(t, to)' = WakeupMsg(t, to)
    BY Zenon DEF WakeupMsg, Taken, Msg
  <2> QED
    BY <1>1, <2>1, Zenon DEF WakesOnce
<1>2. \A r \in Runtimes : \A t, to : WakeupMsg(t, to) \notin Submitted(r)
  <2>1. \A r \in Runtimes : \A k \in Submitted(r) : k.entry.work # NoWork
    BY Submitting DEF Shape, Rings
  <2>2. \A t, to : WakeupMsg(t, to).entry.work = NoWork
    BY Zenon DEF WakeupMsg, Taken, Msg
  <2> QED
    BY <2>1, <2>2, Zenon
<1>3. ASSUME NEW t \in Threads, NEW to \in Runtimes, NEW w \in Works, ScheduleInternal(t, to, w)
      PROVE  \A s \in Threads, r \in Runtimes : Waking(s, r)' => Waking(s, r)
  BY <1>a, <1>b, <1>3 DEF ScheduleInternal, Waking
<1>4. ASSUME NEW r \in Runtimes, kernel' = kernel \cup Submitted(r)
      PROVE  \A t \in Threads, to \in Runtimes :
               WakeupMsg(t, to) \in kernel' => WakeupMsg(t, to) \in kernel
  BY <1>2, <1>4, Zenon
<1>5. ASSUME NEW k \in kernel, CompleteOp(k) \/ DeliverMsg(k) PROVE WakesOnce'
  BY <1>1, <1>5, Zenon DEF CompleteOp, DeliverMsg, user, Waking
<1>6. ASSUME NEW r \in Runtimes,
             RunFirst(r) \/ RunAgain(r) \/ Tick(r) \/ Pop(r) \/ Exit(r) \/ Unblock(r)
               \/ ProcessCqe(r) \/ FlushDone(r) \/ Wait(r) \/ End(r)
      PROVE  WakesOnce'
  BY <1>1, <1>6, Zenon
     DEF RunFirst, RunAgain, Tick, Pop, Exit, Unblock, ProcessCqe, FlushDone, Wait, End,
                    rings, user, Waking
<1>7. ASSUME NEW r \in Runtimes, CheckExit(r) \/ StartOp(r) PROVE WakesOnce'
  <2>1. UNCHANGED <<call, asked>> /\ (kernel' = kernel \/ kernel' = kernel \cup Submitted(r))
    BY <1>7, Zenon DEF CheckExit, StartOp, GetSqe, user
  <2> QED
    BY <1>1, <1>4, <2>1, Zenon DEF Waking
<1>8. ASSUME NEW r \in Runtimes, NEW to \in Runtimes, CoSwitch(r, to) PROVE WakesOnce'
  <2>1. PICK w \in Works : w = cur[r]
    BY <1>8, Zenon DEF CoSwitch, Executing, Shape, Coroutines
  <2>2. ScheduleInternal(r, to, w) /\ UNCHANGED <<kernel, asked>> /\ r \in Threads
    BY <1>8, <2>1, Zenon DEF CoSwitch, rings, user, Threads
  <2> QED
    BY <1>1, <1>3, <2>2, Zenon
<1>9. ASSUME NEW t \in Threads, NEW to \in Runtimes, NEW w \in Works,
             CoSpawn(t, to, w) \/ Wake(t, to, w)
      PROVE  WakesOnce'
  BY <1>1, <1>3, <1>9, Zenon DEF CoSpawn, Wake, rings, user
<1>10. ASSUME NEW t \in Threads, ScheduleLocked(t) PROVE WakesOnce'
  <2>1. call[t].work # NoWork
    BY <1>b, <1>10 DEF ScheduleLocked, Shape, Calls, NoCall
  <2>2. UNCHANGED <<kernel, asked>>
    BY <1>10, Zenon DEF ScheduleLocked, rings, user
  <2>3. call' = [call EXCEPT ![t].at = "send"] \/ call' = [call EXCEPT ![t] = NoCall]
    BY <1>10, Zenon DEF ScheduleLocked
  <2>4. \A s \in Threads, r \in Runtimes : Waking(s, r)' => Waking(s, r)
    BY <1>a, <2>1, <2>3 DEF Waking, NoCall
  <2> QED
    BY <1>1, <2>2, <2>4, Zenon
<1>11. ASSUME NEW t \in Threads, ScheduleMsgRing(t) PROVE WakesOnce'
  <2>1. call' = [call EXCEPT ![t] = NoCall] /\ UNCHANGED asked
    BY <1>11, Zenon DEF ScheduleMsgRing, user
  <2>2. \A s \in Threads, r \in Runtimes : Waking(s, r)' => Waking(s, r) /\ s # t
    BY <1>a, <2>1, Zenon DEF Waking, NoCall
  <2>3. CASE t \in Runtimes /\ call[t].work = NoWork
    <3>1. PICK to \in Runtimes : to = call[t].to
      BY <1>11 DEF ScheduleMsgRing, Shape, Calls, NoCall
    <3>2. kernel' = kernel \cup Submitted(t) \cup {WakeupMsg(t, to)}
      BY <1>11, <2>3, <3>1, Zenon DEF ScheduleMsgRing, WakeupMsg
    <3>3. Waking(t, to)
      BY <1>11, <2>3, <3>1, Zenon DEF ScheduleMsgRing, Waking
    <3>4. \A s \in Threads, r \in Runtimes :
            WakeupMsg(s, r) \in kernel' => WakeupMsg(s, r) \in kernel \/ (s = t /\ r = to)
      <4>1. \A s, r : WakeupMsg(s, r) = WakeupMsg(t, to) => s = t /\ r = to
        BY Zenon DEF WakeupMsg, Taken, Msg
      <4> QED
        BY <1>2, <2>3, <3>2, <4>1, Zenon
    <3>5. \A s, r : WakeupMsg(s, r)' = WakeupMsg(s, r)
      BY Zenon DEF WakeupMsg, Taken, Msg
    <3> QED
      BY <2>1, <2>2, <3>3, <3>4, <3>5, ZenonT(60) DEF WakesOnce
  <2>4. CASE t \notin Runtimes \/ call[t].work # NoWork
    <3>1. kernel' = kernel \/ (t \in Runtimes /\ kernel' = kernel \cup Submitted(t))
      BY <1>11, <2>4, Zenon DEF ScheduleMsgRing, GetSqe
    <3> QED
      BY <1>1, <1>4, <2>1, <2>2, <3>1, Zenon
  <2> QED
    BY <2>3, <2>4, Zenon
<1>12. ASSUME NEW t \in Threads, Wakeup(t) PROVE WakesOnce'
  <2>1. \/ call' = [call EXCEPT ![t] = NoCall]
        \/ call' = [call EXCEPT ![t] = [call[t] EXCEPT !.at = "send"]]
    BY <1>12, Zenon DEF Wakeup
  <2>2. call[t].at = "wakeup"
    BY <1>12, Zenon DEF Wakeup
  <2>3. \A s \in Threads, r \in Runtimes : Waking(s, r)' => Waking(s, r)
    BY <1>a, <2>1, <2>2 DEF Waking, NoCall
  <2> QED
    BY <1>1, <1>12, <2>3, Zenon DEF Wakeup, rings, user
<1>13. ASSUME NEW t \in Threads, NEW to \in Runtimes, AllowExit(t, to) PROVE WakesOnce'
  <2>1. /\ <<t, to>> \notin asked /\ asked' = asked \cup {<<t, to>>} /\ kernel' = kernel
    BY <1>13, Zenon DEF AllowExit, rings
  <2>2. CASE to = t
    BY <1>1, <1>13, <2>1, <2>2, Zenon DEF AllowExit, Waking
  <2>3. CASE to # t
    <3>1. call' = [call EXCEPT ![t] = [at |-> "wakeup", to |-> to, work |-> NoWork]]
      BY <1>13, <2>3, Zenon DEF AllowExit
    <3>2. \A s \in Threads, r \in Runtimes :
            Waking(s, r)' => (s # t /\ Waking(s, r)) \/ (s = t /\ r = to)
      BY <1>a, <3>1, Zenon DEF Waking
    <3>3. \A s, r : WakeupMsg(s, r)' = WakeupMsg(s, r)
      BY Zenon DEF WakeupMsg, Taken, Msg
    <3> QED
      BY <2>1, <3>2, <3>3, Zenon DEF WakesOnce
  <2> QED
    BY <2>2, <2>3, Zenon
<1>14. ASSUME NEW t \in Threads, NEW to \in Runtimes, Drain(t, to) PROVE WakesOnce'
  BY <1>1, <1>14, Zenon DEF Drain, rings, user, Waking
<1>15. CASE UNCHANGED vars
  BY <1>1, <1>15, Zenon DEF vars, rings, user, Waking
<1> QED
  BY <1>5, <1>6, <1>7, <1>8, <1>9, <1>10, <1>11, <1>12, <1>13, <1>14, <1>15, ZenonT(30)
     DEF Next, Loop, Suspend, CallStep
-----------------------------------------------------------------------------
(* The facts about cardinality that the counting rests on.  They are those *)
(* of FiniteSetTheorems, which come in at the end.                         *)
LawOfEmpty == IsFiniteSet({}) /\ Cardinality({}) = 0
LawOfType == \A S : IsFiniteSet(S) => Cardinality(S) \in Nat
LawOfAdd == \A S, x : IsFiniteSet(S) /\ x \notin S =>
              IsFiniteSet(S \cup {x}) /\ Cardinality(S \cup {x}) = Cardinality(S) + 1
LawOfRemove == \A S, x : IsFiniteSet(S) /\ x \in S =>
                 IsFiniteSet(S \ {x}) /\ Cardinality(S \ {x}) = Cardinality(S) - 1
LawOfSubset == \A S, T : IsFiniteSet(S) /\ T \subseteq S => IsFiniteSet(T)
LawOfInterval == \A n \in Nat : IsFiniteSet(1..n) /\ Cardinality(1..n) = n
LawOfSame == \A S, T : \A f \in Surjection(S, T) \cap Injection(S, T) :
               IsFiniteSet(S) => IsFiniteSet(T) /\ Cardinality(T) = Cardinality(S)
LawOfSum == \A S, T : IsFiniteSet(S) /\ IsFiniteSet(T) /\ S \cap T = {} =>
              IsFiniteSet(S \cup T) /\ Cardinality(S \cup T) = Cardinality(S) + Cardinality(T)
CardinalityLaws ==
  /\ LawOfEmpty /\ LawOfType /\ LawOfAdd /\ LawOfRemove
  /\ LawOfSubset /\ LawOfInterval /\ LawOfSame /\ LawOfSum

(* The size of a finite set is a number. *)
LEMMA CardinalityType ==
  ASSUME CardinalityLaws, NEW S, IsFiniteSet(S)
  PROVE  Cardinality(S) \in Nat
BY Zenon DEF CardinalityLaws, LawOfType

(* One element more. *)
LEMMA CardinalityAdd ==
  ASSUME CardinalityLaws, NEW S, IsFiniteSet(S), NEW x, x \notin S
  PROVE  IsFiniteSet(S \cup {x}) /\ Cardinality(S \cup {x}) = Cardinality(S) + 1
BY Zenon DEF CardinalityLaws, LawOfAdd

(* One element less. *)
LEMMA CardinalityRemove ==
  ASSUME CardinalityLaws, NEW S, IsFiniteSet(S), NEW x \in S
  PROVE  IsFiniteSet(S \ {x}) /\ Cardinality(S \ {x}) = Cardinality(S) - 1
BY Zenon DEF CardinalityLaws, LawOfRemove

(* The indices of a queue, and sets of them. *)
LEMMA CardinalitySubset ==
  ASSUME CardinalityLaws, NEW n \in Nat
  PROVE  /\ IsFiniteSet(1..n) /\ Cardinality(1..n) = n
         /\ \A T \in SUBSET (1..n) : IsFiniteSet(T)
BY Zenon DEF CardinalityLaws, LawOfSubset, LawOfInterval

(* Sets with a one-to-one correspondence have the same size. *)
LEMMA CardinalitySame ==
  ASSUME CardinalityLaws, NEW S, IsFiniteSet(S), NEW T,
         NEW f, f \in Surjection(S, T), f \in Injection(S, T)
  PROVE  IsFiniteSet(T) /\ Cardinality(T) = Cardinality(S)
BY Zenon DEF CardinalityLaws, LawOfSame

(* Disjoint sets add up. *)
LEMMA CardinalitySum ==
  ASSUME CardinalityLaws, NEW S, IsFiniteSet(S), NEW T, IsFiniteSet(T), S \cap T = {}
  PROVE  IsFiniteSet(S \cup T) /\ Cardinality(S \cup T) = Cardinality(S) + Cardinality(T)
BY Zenon DEF CardinalityLaws, LawOfSum

(* The completions that end pending work. *)
Counts(c) == c.type = "Common" \/ c = Schedule(NoWork)
Done(q) == {i \in DOMAIN q : Counts(q[i])}

(* A completion appended to a queue counts, or not. *)
LEMMA DoneAppend ==
  ASSUME CardinalityLaws, NEW q \in Seq(Completion), NEW c \in Completion
  PROVE  /\ IsFiniteSet(Done(q)) /\ Cardinality(Done(q)) \in Nat
         /\ IsFiniteSet(Done(Append(q, c)))
         /\ Cardinality(Done(Append(q, c))) = Cardinality(Done(q)) + IF Counts(c) THEN 1 ELSE 0
<1>1. /\ Len(q) \in Nat /\ DOMAIN q = 1..Len(q) /\ DOMAIN Append(q, c) = 1..Len(q) + 1
      /\ Append(q, c)[Len(q) + 1] = c /\ \A i \in 1..Len(q) : Append(q, c)[i] = q[i]
  OBVIOUS
<1>2. Done(q) \subseteq 1..Len(q) /\ IsFiniteSet(1..Len(q))
  BY <1>1, CardinalitySubset, Zenon DEF Done
<1>3. IsFiniteSet(Done(q)) /\ Cardinality(Done(q)) \in Nat
  BY <1>1, <1>2, CardinalitySubset, CardinalityType, Zenon
<1>4. Done(Append(q, c)) = IF Counts(c) THEN Done(q) \cup {Len(q) + 1} ELSE Done(q)
  BY <1>1 DEF Done
<1>5. Len(q) + 1 \notin Done(q)
  BY <1>1, <1>2
<1>6. /\ IsFiniteSet(Done(q) \cup {Len(q) + 1})
      /\ Cardinality(Done(q) \cup {Len(q) + 1}) = Cardinality(Done(q)) + 1
  BY <1>3, <1>5, CardinalityAdd, Zenon
<1> QED
  BY <1>3, <1>4, <1>6

(* The same for a completion taken from the queue: the others move up by   *)
(* one.                                                                    *)
LEMMA DoneTail ==
  ASSUME CardinalityLaws, NEW q \in Seq(Completion), q # <<>>
  PROVE  /\ IsFiniteSet(Done(q)) /\ Cardinality(Done(q)) \in Nat
         /\ IsFiniteSet(Done(Tail(q)))
         /\ Cardinality(Done(Tail(q))) = Cardinality(Done(q)) - IF Counts(Head(q)) THEN 1 ELSE 0
<1>1. /\ Len(q) \in Nat \ {0} /\ DOMAIN q = 1..Len(q) /\ DOMAIN Tail(q) = 1..Len(q) - 1
      /\ Head(q) = q[1] /\ \A i \in 1..Len(q) - 1 : Tail(q)[i] = q[i + 1]
  OBVIOUS
<1>2. Done(q) \subseteq 1..Len(q) /\ IsFiniteSet(1..Len(q)) /\ Done(Tail(q)) \subseteq 1..Len(q) - 1
  BY <1>1, CardinalitySubset, Zenon DEF Done
<1>3. IsFiniteSet(Done(q)) /\ Cardinality(Done(q)) \in Nat
  BY <1>1, <1>2, CardinalitySubset, CardinalityType, Zenon
<1>4. \A i \in Done(Tail(q)) : i + 1 \in Done(q) \ {1}
  BY <1>1 DEF Done
<1>5. \A j \in Done(q) \ {1} : \E i \in Done(Tail(q)) : i + 1 = j
  <2> SUFFICES ASSUME NEW j \in Done(q), j # 1 PROVE \E i \in Done(Tail(q)) : i + 1 = j
    OBVIOUS
  <2>1. j - 1 \in 1..Len(q) - 1 /\ (j - 1) + 1 = j
    BY <1>1, <1>2
  <2>2. Tail(q)[j - 1] = q[j]
    BY <1>1, <2>1, Zenon
  <2>3. j - 1 \in Done(Tail(q))
    BY <1>1, <2>1, <2>2, Zenon DEF Done
  <2> QED
    BY <2>1, <2>3, Zenon
<1> DEFINE f == [i \in Done(Tail(q)) |-> i + 1]
<1>6. f \in Surjection(Done(Tail(q)), Done(q) \ {1})
  BY <1>4, <1>5, Zenon DEF Surjection
<1>7. f \in Injection(Done(Tail(q)), Done(q) \ {1})
  BY <1>2, <1>4 DEF Injection, IsInjective
<1>8. IsFiniteSet(Done(Tail(q)))
  BY <1>1, <1>2, CardinalitySubset
<1>9. Cardinality(Done(Tail(q))) = Cardinality(Done(q) \ {1})
  BY <1>6, <1>7, <1>8, CardinalitySame, Zenon
<1>10. 1 \in Done(q) <=> Counts(Head(q))
  BY <1>1 DEF Done
<1>11. CASE 1 \in Done(q)
  <2>1. Cardinality(Done(q) \ {1}) = Cardinality(Done(q)) - 1
    BY <1>3, <1>11, CardinalityRemove, Zenon
  <2> QED
    BY <1>3, <1>8, <1>9, <1>10, <1>11, <2>1, Zenon
<1>12. CASE 1 \notin Done(q)
  <2>1. Done(q) \ {1} = Done(q)
    BY <1>12, Zenon
  <2>2. Cardinality(Done(Tail(q))) = Cardinality(Done(q))
    BY <1>9, <2>1, Zenon
  <2> QED
    BY <1>3, <1>8, <1>10, <1>12, <2>2
<1> QED
  BY <1>11, <1>12, Zenon

(* io_uring_submit takes over as many entries as the queue holds. *)
LEMMA SubmitCount ==
  ASSUME CardinalityLaws, Shape, Placed, NEW r \in Runtimes, IsFiniteSet(KernelOf(r))
  PROVE  /\ Len(sq[r]) \in Nat /\ Cardinality(KernelOf(r)) \in Nat
         /\ IsFiniteSet(KernelOf(r) \cup Submitted(r))
         /\ Cardinality(KernelOf(r) \cup Submitted(r)) = Cardinality(KernelOf(r)) + Len(sq[r])
<1>1. sq[r] \in Seq(Entry) /\ Len(sq[r]) \in Nat /\ DOMAIN sq[r] = 1..Len(sq[r])
  BY DEF Shape, Rings
<1>2. \A i \in DOMAIN sq[r] : sq[r][i].work # NoWork
  BY DEF Shape, Rings, Range
<1>3. \A i, j \in DOMAIN sq[r] :
        sq[r][i].work = sq[r][j].work /\ sq[r][i].work # NoWork => i = j
  BY Zenon DEF Placed, HeldOnce, Once
<1> DEFINE f == [i \in 1..Len(sq[r]) |-> Taken(r, sq[r][i])]
<1>4. f \in Surjection(1..Len(sq[r]), Submitted(r))
  BY <1>1, Zenon DEF Surjection, Submitted
<1>5. f \in Injection(1..Len(sq[r]), Submitted(r))
  <2>1. f \in [1..Len(sq[r]) -> Submitted(r)]
    BY <1>4, Zenon DEF Surjection
  <2>2. \A e, d : Taken(r, e) = Taken(r, d) => e = d
    BY Zenon DEF Taken
  <2>3. \A i, j \in 1..Len(sq[r]) : f[i] = f[j] => i = j
    BY <1>1, <1>2, <1>3, <2>2, Zenon
  <2> QED
    BY <2>1, <2>3, Zenon DEF Injection, IsInjective
<1>6. IsFiniteSet(1..Len(sq[r])) /\ Cardinality(1..Len(sq[r])) = Len(sq[r])
  BY <1>1, CardinalitySubset, Zenon
<1>7. IsFiniteSet(Submitted(r)) /\ Cardinality(Submitted(r)) = Len(sq[r])
  BY <1>4, <1>5, <1>6, CardinalitySame, Zenon
<1>8. ASSUME NEW k \in Submitted(r) PROVE k \notin kernel
  <2>1. k.from = r /\ k.entry \in Range(sq[r]) /\ k.entry \in Entry /\ k.entry.work # NoWork
    BY Submitting DEF Shape, Rings, Range
  <2>2. PICK w \in Works : w = k.entry.work
    BY <2>1, Fields
  <2>3. r \in InSq(w)
    BY <2>1, <2>2, Zenon DEF InSq
  <2>4. r \notin InKernel(w)
    BY <2>3, Homes, Zenon DEF Placed, Only
  <2> QED
    BY <2>1, <2>2, <2>4, Zenon DEF InKernel
<1>9. KernelOf(r) \cap Submitted(r) = {}
  BY <1>8, Zenon DEF KernelOf
<1>10. Cardinality(KernelOf(r)) \in Nat
  BY CardinalityType, Zenon
<1>11. /\ IsFiniteSet(KernelOf(r) \cup Submitted(r))
       /\ Cardinality(KernelOf(r) \cup Submitted(r)) =
            Cardinality(KernelOf(r)) + Cardinality(Submitted(r))
  BY <1>7, <1>9, CardinalitySum, Zenon
<1> QED
  BY <1>1, <1>7, <1>10, <1>11, Zenon

(* io_uring_submit adds to the entries of one runtime only. *)
LEMMA SubmitKernels ==
  ASSUME Shape, NEW r \in Runtimes, kernel' = kernel \cup Submitted(r)
  PROVE  /\ KernelOf(r)' = KernelOf(r) \cup Submitted(r)
         /\ \A q \in Runtimes \ {r} : KernelOf(q)' = KernelOf(q)
<1>1. \A k \in Submitted(r) : k.from = r
  BY Submitting DEF Shape
<1> QED
  BY <1>1, Zenon DEF KernelOf

(* get_sqe: one more entry, whether or not the queue is submitted first. *)
LEMMA GetCount ==
  ASSUME CardinalityLaws, Shape, Placed, NEW r \in Runtimes, NEW e, GetSqe(r, e),
         \A q \in Runtimes : IsFiniteSet(KernelOf(q))
  PROVE  \A q \in Runtimes :
           /\ IsFiniteSet(KernelOf(q)')
           /\ Len(sq'[q]) + Cardinality(KernelOf(q)') =
                Len(sq[q]) + Cardinality(KernelOf(q)) + IF q = r THEN 1 ELSE 0
<1>1. \A q \in Runtimes : Cardinality(KernelOf(q)) \in Nat
  BY CardinalityType, Zenon
<1>2. sq \in [Runtimes -> Seq(Entry)] /\ \A q \in Runtimes : Len(sq[q]) \in Nat
  BY DEF Shape, Rings
<1>3. CASE Len(sq[r]) = SqSize
  <2>1. kernel' = kernel \cup Submitted(r) /\ sq' = [sq EXCEPT ![r] = <<e>>]
    BY <1>3, Zenon DEF GetSqe
  <2>2. /\ KernelOf(r)' = KernelOf(r) \cup Submitted(r)
        /\ \A q \in Runtimes \ {r} : KernelOf(q)' = KernelOf(q)
    BY <2>1, SubmitKernels, Zenon
  <2>3. /\ IsFiniteSet(KernelOf(r)')
        /\ Cardinality(KernelOf(r)') = Cardinality(KernelOf(r)) + Len(sq[r])
    BY <2>2, SubmitCount, Zenon
  <2>4. Len(sq'[r]) = 1 /\ \A q \in Runtimes \ {r} : sq'[q] = sq[q]
    BY <1>2, <2>1, Zenon
  <2>5. Len(sq'[r]) + Cardinality(KernelOf(r)') = Len(sq[r]) + Cardinality(KernelOf(r)) + 1
    BY <1>1, <1>2, <2>3, <2>4, SMTT(30)
  <2>6. ASSUME NEW q \in Runtimes \ {r}
        PROVE  /\ IsFiniteSet(KernelOf(q)')
               /\ Len(sq'[q]) + Cardinality(KernelOf(q)') = Len(sq[q]) + Cardinality(KernelOf(q)) + 0
    BY <1>1, <1>2, <2>2, <2>4, SMTT(30)
  <2> QED
    BY <2>3, <2>5, <2>6, Zenon
<1>4. CASE Len(sq[r]) # SqSize
  <2>1. sq' = [sq EXCEPT ![r] = Append(sq[r], e)] /\ kernel' = kernel
    BY <1>4, Zenon DEF GetSqe
  <2>2. \A q \in Runtimes : KernelOf(q)' = KernelOf(q)
    BY <2>1, Zenon DEF KernelOf
  <2>3. Len(sq'[r]) = Len(sq[r]) + 1 /\ \A q \in Runtimes \ {r} : sq'[q] = sq[q]
    BY <1>2, <2>1
  <2> QED
    BY <1>1, <1>2, <2>2, <2>3, SMTT(30)
<1> QED
  BY <1>3, <1>4, Zenon

(* The waits of a runtime over a step that resumes w there, if it was woken. *)
LEMMA ResumeCount ==
  ASSUME CardinalityLaws, Shape, NEW r \in Runtimes, NEW w \in Works \cup {NoWork}, <<w, r>> \notin waiting,
         \A q \in Runtimes : IsFiniteSet(WaitersOf(q)),
         waiting' = waiting, woken' = woken \ {<<w, r>>}
  PROVE  \A q \in Runtimes :
           /\ IsFiniteSet(WaitersOf(q)')
           /\ Cardinality(WaitersOf(q)') =
                Cardinality(WaitersOf(q)) - IF q = r /\ <<w, r>> \in woken THEN 1 ELSE 0
<1>1. \A q \in Runtimes : Cardinality(WaitersOf(q)) \in Nat
  BY CardinalityType, Zenon
<1>2. \A q \in Runtimes \ {r} : WaitersOf(q)' = WaitersOf(q)
  BY Zenon DEF WaitersOf
<1>3. CASE <<w, r>> \in woken
  <2>1. w \in Works
    BY <1>3, Zenon DEF Shape, Coroutines
  <2>2. WaitersOf(r)' = WaitersOf(r) \ {w} /\ w \in WaitersOf(r)
    BY <1>3, <2>1, Zenon DEF WaitersOf
  <2>3. IsFiniteSet(WaitersOf(r)') /\ Cardinality(WaitersOf(r)') = Cardinality(WaitersOf(r)) - 1
    BY <2>2, CardinalityRemove
  <2>4. ASSUME NEW q \in Runtimes \ {r}
        PROVE  IsFiniteSet(WaitersOf(q)') /\ Cardinality(WaitersOf(q)') = Cardinality(WaitersOf(q)) - 0
    BY <1>1, <1>2
  <2> QED
    BY <1>3, <2>3, <2>4, Zenon
<1>4. CASE <<w, r>> \notin woken
  <2>1. woken' = woken
    BY <1>4, Zenon
  <2>2. ASSUME NEW q \in Runtimes
        PROVE  IsFiniteSet(WaitersOf(q)') /\ Cardinality(WaitersOf(q)') = Cardinality(WaitersOf(q)) - 0
    <3>1. WaitersOf(q)' = WaitersOf(q)
      BY <2>1, Zenon DEF WaitersOf
    <3> QED
      BY <1>1, <3>1
  <2> QED
    BY <1>4, <2>2, Zenon
<1> QED
  BY <1>3, <1>4, Zenon

(* pending_works_ of r is what is outstanding, and that is finitely much. *)
Balanced(r) ==
  /\ IsFiniteSet(KernelOf(r)) /\ IsFiniteSet(WaitersOf(r))
  /\ pending[r] = Outstanding(r)

Counted == \A r \in Runtimes : Balanced(r)

(* The counts are numbers. *)
LEMMA Numbers ==
  ASSUME CardinalityLaws, Shape, NEW r \in Runtimes, IsFiniteSet(KernelOf(r)), IsFiniteSet(WaitersOf(r))
  PROVE  /\ Len(sq[r]) \in Nat /\ Cardinality(KernelOf(r)) \in Nat
         /\ Cardinality(Finished(r)) \in Nat /\ Cardinality(WaitersOf(r)) \in Nat
         /\ pending[r] \in Int
<1>0. Ignore \in Completion
  BY Zenon DEF Completion
<1>1. Len(sq[r]) \in Nat /\ pending[r] \in Int /\ cq[r] \in Seq(Completion)
  BY DEF Shape, Rings, Flags
<1>2. Finished(r) = Done(cq[r])
  BY Zenon DEF Finished, Done, Counts
<1>3. Cardinality(Finished(r)) \in Nat
  BY <1>0, <1>1, <1>2, DoneAppend, Zenon
<1> QED
  BY <1>1, <1>3, CardinalityType, Zenon

(* What a step does to the completions that count. *)
LEMMA FinishedMoves ==
  ASSUME CardinalityLaws, Shape, NEW r \in Runtimes
  PROVE  /\ cq'[r] = cq[r] => Finished(r)' = Finished(r)
         /\ \A c \in Completion : cq'[r] = Append(cq[r], c) =>
              Cardinality(Finished(r)') = Cardinality(Finished(r)) + IF Counts(c) THEN 1 ELSE 0
         /\ cq[r] # <<>> /\ cq'[r] = Tail(cq[r]) =>
              Cardinality(Finished(r)') =
                Cardinality(Finished(r)) - IF Counts(Head(cq[r])) THEN 1 ELSE 0
<1>1. cq[r] \in Seq(Completion)
  BY DEF Shape, Rings
<1>2. Finished(r) = Done(cq[r]) /\ Finished(r)' = Done(cq'[r])
  BY Zenon DEF Finished, Done, Counts
<1>3. \A c \in Completion :
        Cardinality(Done(Append(cq[r], c))) = Cardinality(Done(cq[r])) + IF Counts(c) THEN 1 ELSE 0
  BY <1>1, DoneAppend, Zenon
<1>4. cq[r] # <<>> =>
        Cardinality(Done(Tail(cq[r]))) = Cardinality(Done(cq[r])) - IF Counts(Head(cq[r])) THEN 1 ELSE 0
  BY <1>1, DoneTail, Zenon
<1> QED
  BY <1>2, <1>3, <1>4, Zenon

(* The arithmetic of Balance. *)
LEMMA Sums ==
  \A p, q, a, b, c, d, e, f, g, h \in Int :
    p = a + b + c + d /\ q - p = (e + f - a - b) + (g - c) + (h - d) => q = e + f + g + h
OBVIOUS

(* The balance of one runtime over a step. *)
LEMMA Balance ==
  ASSUME CardinalityLaws, Shape, Counted, NEW r \in Runtimes,
         IsFiniteSet(KernelOf(r)'), IsFiniteSet(WaitersOf(r)'),
         pending'[r] - pending[r] =
           (Len(sq'[r]) + Cardinality(KernelOf(r)') - Len(sq[r]) - Cardinality(KernelOf(r)))
             + (Cardinality(Finished(r)') - Cardinality(Finished(r)))
             + (Cardinality(WaitersOf(r)') - Cardinality(WaitersOf(r))),
         Shape'
  PROVE  Balanced(r)'
<1>1. /\ Len(sq[r]) \in Nat /\ Cardinality(KernelOf(r)) \in Nat
      /\ Cardinality(Finished(r)) \in Nat /\ Cardinality(WaitersOf(r)) \in Nat
      /\ pending[r] \in Int
  BY Numbers, Zenon DEF Counted, Balanced
<1>2. Cardinality(KernelOf(r)') \in Nat /\ Cardinality(WaitersOf(r)') \in Nat
  BY CardinalityType, Zenon
<1>0. Ignore \in Completion
  BY Zenon DEF Completion
<1>3. Len(sq'[r]) \in Nat /\ pending'[r] \in Int /\ cq'[r] \in Seq(Completion)
  BY DEF Shape, Rings, Flags
<1>4. Finished(r)' = Done(cq'[r])
  BY Zenon DEF Finished, Done, Counts
<1>5. Cardinality(Finished(r)') \in Nat
  BY <1>0, <1>3, <1>4, DoneAppend, Zenon
<1>6. pending[r] = Len(sq[r]) + Cardinality(KernelOf(r)) + Cardinality(Finished(r))
                   + Cardinality(WaitersOf(r))
  BY Zenon DEF Outstanding, Counted, Balanced
<1>8. PICK p, a, b \in Int : p = pending[r] /\ a = Len(sq[r]) /\ b = Cardinality(KernelOf(r))
  BY <1>1
<1>c. PICK c, d \in Int : c = Cardinality(Finished(r)) /\ d = Cardinality(WaitersOf(r))
  BY <1>1
<1>9. PICK q, e, f \in Int : q = pending'[r] /\ e = Len(sq'[r]) /\ f = Cardinality(KernelOf(r)')
  BY <1>2, <1>3, SMTT(30)
<1>g. PICK g, h \in Int : g = Cardinality(Finished(r)') /\ h = Cardinality(WaitersOf(r)')
  BY <1>2, <1>5, SMTT(30)
<1>10. p = a + b + c + d /\ q - p = (e + f - a - b) + (g - c) + (h - d)
  BY <1>6, <1>8, <1>c, <1>9, <1>g, ZenonT(30)
<1>11. q = e + f + g + h
  BY <1>10, Sums, SMTT(30)
<1>7. pending'[r] = Len(sq'[r]) + Cardinality(KernelOf(r)') + Cardinality(Finished(r)')
                   + Cardinality(WaitersOf(r)')
  BY <1>9, <1>g, <1>11, Zenon
<1> QED
  BY <1>7, Zenon DEF Outstanding, Balanced

(* The arithmetic of BalanceQueue. *)
LEMMA OneMore ==
  \A p, o, a, b, c, d, e, f, w \in Int :
    p = a + b + c + w /\ o = p + d /\ e + f = a + b + d => o = e + f + c + w
OBVIOUS

(* The balance of a runtime that puts d entries into its queue. *)
LEMMA BalanceQueue ==
  ASSUME CardinalityLaws, Shape, Shape', Counted, NEW r \in Runtimes, NEW d \in Int,
         IsFiniteSet(KernelOf(r)'), Finished(r)' = Finished(r), WaitersOf(r)' = WaitersOf(r),
         Len(sq'[r]) + Cardinality(KernelOf(r)') = Len(sq[r]) + Cardinality(KernelOf(r)) + d,
         pending'[r] = pending[r] + d
  PROVE  Balanced(r)'
<1>1. /\ Len(sq[r]) \in Nat /\ Cardinality(KernelOf(r)) \in Nat
      /\ Cardinality(Finished(r)) \in Nat /\ Cardinality(WaitersOf(r)) \in Nat
      /\ pending[r] \in Int
  BY Numbers, ZenonT(30) DEF Counted, Balanced
<1>2. Len(sq'[r]) \in Nat /\ Cardinality(KernelOf(r)') \in Nat /\ pending'[r] \in Int
  BY CardinalityType DEF Shape, Rings, Flags
<1>3. pending[r] = Len(sq[r]) + Cardinality(KernelOf(r)) + Cardinality(Finished(r))
                   + Cardinality(WaitersOf(r))
  BY Zenon DEF Outstanding, Counted, Balanced
<1>4. PICK p, a, b \in Int : p = pending[r] /\ a = Len(sq[r]) /\ b = Cardinality(KernelOf(r))
  BY <1>1
<1>9. PICK c, w \in Int : c = Cardinality(Finished(r)) /\ w = Cardinality(WaitersOf(r))
  BY <1>1
<1>5. PICK o, e, f \in Int : o = pending'[r] /\ e = Len(sq'[r]) /\ f = Cardinality(KernelOf(r)')
  BY <1>2
<1>6. p = a + b + c + w /\ o = p + d /\ e + f = a + b + d
  BY <1>3, <1>4, <1>5, <1>9, ZenonT(60)
<1>7. o = e + f + c + w
  BY <1>6, OneMore
<1>8. IsFiniteSet(WaitersOf(r)')
  BY Zenon DEF Counted, Balanced
<1> QED
  BY <1>5, <1>7, <1>8, <1>9, Zenon DEF Balanced, Outstanding

(* Every step keeps pending_works_ equal to the work that is outstanding. *)
LEMMA CountedStep ==
  ASSUME CardinalityLaws, Shape, Shape', Placed, Resumed, WakesOnce, Counted, [Next]_vars
  PROVE  Counted'
<1>a. \A q \in Runtimes : IsFiniteSet(KernelOf(q)) /\ IsFiniteSet(WaitersOf(q))
  BY Zenon DEF Counted, Balanced
<1>b. \A q \in Runtimes :
        /\ Len(sq[q]) \in Nat /\ Cardinality(KernelOf(q)) \in Nat
        /\ Cardinality(Finished(q)) \in Nat /\ Cardinality(WaitersOf(q)) \in Nat
        /\ pending[q] \in Int
  BY <1>a, Numbers, Zenon
<1>c. pending \in [Runtimes -> Int] /\ cq \in [Runtimes -> Seq(Completion)]
  BY DEF Shape, Flags, Rings
<1>d. NoWork \notin Works
  BY RuntimeAssumption, Zenon
<1>1. ASSUME NEW q \in Runtimes, sq'[q] = sq[q], KernelOf(q)' = KernelOf(q),
             Finished(q)' = Finished(q), WaitersOf(q)' = WaitersOf(q), pending'[q] = pending[q]
      PROVE  Balanced(q)'
  BY <1>1, Zenon DEF Counted, Balanced, Outstanding
<1>2. ASSUME UNCHANGED <<sq, kernel, cq, pending>>, \A q \in Runtimes : WaitersOf(q)' = WaitersOf(q)
      PROVE  Counted'
  <2>1. \A q \in Runtimes : KernelOf(q)' = KernelOf(q) /\ Finished(q)' = Finished(q)
    BY <1>2, Zenon DEF KernelOf, Finished
  <2> QED
    BY <1>1, <1>2, <2>1, Zenon DEF Counted
<1>3. ASSUME NEW k \in kernel, CompleteOp(k) PROVE Counted'
  <2> DEFINE r == k.from
             c == Common(k.entry.work)
  <2>1. /\ r \in Runtimes /\ c \in Completion
        /\ cq' = [cq EXCEPT ![r] = Append(cq[r], c)]
        /\ kernel' = kernel \ {k} /\ sq' = sq
    BY <1>3, Completing, Zenon DEF Shape
  <2>2. UNCHANGED <<pending, waiting, woken>>
    BY <1>3, Zenon DEF CompleteOp, local, waits
  <2>3. Counts(c)
    BY Zenon DEF Counts, Common
  <2>4. \A q \in Runtimes : WaitersOf(q)' = WaitersOf(q)
    BY <2>2, Zenon DEF WaitersOf
  <2>5. k \in KernelOf(r)
    BY Zenon DEF KernelOf
  <2>6. /\ KernelOf(r)' = KernelOf(r) \ {k}
        /\ \A q \in Runtimes \ {r} : KernelOf(q)' = KernelOf(q)
    BY <2>1, Zenon DEF KernelOf
  <2> HIDE DEF r, c
  <2>7. IsFiniteSet(KernelOf(r)') /\ Cardinality(KernelOf(r)') = Cardinality(KernelOf(r)) - 1
    BY <1>a, <2>1, <2>5, <2>6, CardinalityRemove, SMTT(30)
  <2>8. cq'[r] = Append(cq[r], c) /\ \A q \in Runtimes \ {r} : cq'[q] = cq[q]
    BY <1>c, <2>1, Zenon
  <2>9. Cardinality(Finished(r)') = Cardinality(Finished(r)) + 1
    BY <2>1, <2>3, <2>8, FinishedMoves, Zenon
  <2>10. \A q \in Runtimes \ {r} : Finished(q)' = Finished(q)
    BY <2>8, Zenon DEF Finished
  <2>11. pending'[r] - pending[r] =
           (Len(sq'[r]) + Cardinality(KernelOf(r)') - Len(sq[r]) - Cardinality(KernelOf(r)))
             + (Cardinality(Finished(r)') - Cardinality(Finished(r)))
             + (Cardinality(WaitersOf(r)') - Cardinality(WaitersOf(r)))
    BY <1>b, <2>1, <2>2, <2>4, <2>7, <2>9, SMTT(30)
  <2>12. Balanced(r)'
    BY <1>a, <2>1, <2>4, <2>7, <2>11, Balance, ZenonT(30)
  <2>13. \A q \in Runtimes \ {r} : Balanced(q)'
    BY <1>1, <2>1, <2>2, <2>4, <2>6, <2>10, ZenonT(30)
  <2> QED
    BY <2>12, <2>13, Zenon DEF Counted
<1>4. ASSUME NEW k \in kernel, DeliverMsg(k) PROVE Counted'
  <2> DEFINE r == k.from
             to == k.entry.to
             c == Payload(k.entry.work)
  <2>1. /\ r \in Runtimes /\ to \in Runtimes /\ to # r /\ k.entry.work \in Works \cup {NoWork}
        /\ c \in Completion /\ Schedule(NoWork) \in Completion
        /\ cq'[to] = Append(cq[to], c)
        /\ cq'[r] = Append(cq[r], Schedule(NoWork))
        /\ \A q \in Runtimes \ {to, r} : cq'[q] = cq[q]
        /\ kernel' = kernel \ {k} /\ sq' = sq
    BY <1>4, Delivering, Zenon DEF Shape
  <2>2. UNCHANGED <<pending, waiting, woken>>
    BY <1>4, Zenon DEF DeliverMsg, local, waits
  <2>3. ~Counts(c) /\ Counts(Schedule(NoWork))
    BY <1>d, <2>1, Zenon DEF Counts, Payload, Schedule, Ignore
  <2>4. \A q \in Runtimes : WaitersOf(q)' = WaitersOf(q)
    BY <2>2, Zenon DEF WaitersOf
  <2>5. k \in KernelOf(r)
    BY Zenon DEF KernelOf
  <2>6. /\ KernelOf(r)' = KernelOf(r) \ {k}
        /\ \A q \in Runtimes \ {r} : KernelOf(q)' = KernelOf(q)
    BY <2>1, Zenon DEF KernelOf
  <2> HIDE DEF r, to, c
  <2>7. IsFiniteSet(KernelOf(r)') /\ Cardinality(KernelOf(r)') = Cardinality(KernelOf(r)) - 1
    BY <1>a, <2>1, <2>5, <2>6, CardinalityRemove, SMTT(30)
  <2>8. Cardinality(Finished(r)') = Cardinality(Finished(r)) + 1
    BY <2>1, <2>3, FinishedMoves, Zenon
  <2>9. Cardinality(Finished(to)') = Cardinality(Finished(to)) + 0
    BY <2>1, <2>3, FinishedMoves, Zenon
  <2>10. \A q \in Runtimes \ {to, r} : Finished(q)' = Finished(q)
    BY <2>1, Zenon DEF Finished
  <2>0. sq' = sq /\ r \in Runtimes /\ to \in Runtimes
    BY <2>1, Zenon
  <2>11. pending'[r] - pending[r] =
           (Len(sq'[r]) + Cardinality(KernelOf(r)') - Len(sq[r]) - Cardinality(KernelOf(r)))
             + (Cardinality(Finished(r)') - Cardinality(Finished(r)))
             + (Cardinality(WaitersOf(r)') - Cardinality(WaitersOf(r)))
    BY <1>b, <2>0, <2>2, <2>4, <2>7, <2>8, SMTT(30)
  <2>12. Balanced(r)'
    BY <1>a, <2>1, <2>4, <2>7, <2>11, Balance, Zenon
  <2>13. pending'[to] - pending[to] =
           (Len(sq'[to]) + Cardinality(KernelOf(to)') - Len(sq[to]) - Cardinality(KernelOf(to)))
             + (Cardinality(Finished(to)') - Cardinality(Finished(to)))
             + (Cardinality(WaitersOf(to)') - Cardinality(WaitersOf(to)))
    BY <1>b, <2>0, <2>1, <2>2, <2>4, <2>6, <2>9, SMTT(30)
  <2>14. Balanced(to)'
    BY <1>a, <2>1, <2>4, <2>6, <2>13, Balance, ZenonT(30)
  <2>15. \A q \in Runtimes \ {to, r} : Balanced(q)'
    BY <1>1, <2>1, <2>2, <2>4, <2>6, <2>10, ZenonT(30)
  <2> QED
    BY <2>12, <2>14, <2>15, Zenon DEF Counted
<1>5. ASSUME NEW r \in Runtimes, CheckExit(r) PROVE Counted'
  <2>1. UNCHANGED <<cq, pending, waiting, woken>>
    BY <1>5, Zenon DEF CheckExit, waits
  <2>2. \A q \in Runtimes : WaitersOf(q)' = WaitersOf(q) /\ Finished(q)' = Finished(q)
    BY <2>1, Zenon DEF WaitersOf, Finished
  <2>3. CASE UNCHANGED <<sq, kernel>>
    BY <1>2, <2>1, <2>2, <2>3, Zenon
  <2>4. CASE kernel' = kernel \cup Submitted(r) /\ sq' = [sq EXCEPT ![r] = <<>>]
    <3>1. /\ KernelOf(r)' = KernelOf(r) \cup Submitted(r)
          /\ \A q \in Runtimes \ {r} : KernelOf(q)' = KernelOf(q)
      BY <2>4, SubmitKernels, Zenon
    <3>2. /\ IsFiniteSet(KernelOf(r)')
          /\ Cardinality(KernelOf(r)') = Cardinality(KernelOf(r)) + Len(sq[r])
      BY <1>a, <3>1, SubmitCount, ZenonT(30)
    <3>3. Len(sq'[r]) = 0 /\ \A q \in Runtimes \ {r} : sq'[q] = sq[q]
      BY <2>4 DEF Shape, Rings
    <3>4. pending'[r] - pending[r] =
            (Len(sq'[r]) + Cardinality(KernelOf(r)') - Len(sq[r]) - Cardinality(KernelOf(r)))
              + (Cardinality(Finished(r)') - Cardinality(Finished(r)))
              + (Cardinality(WaitersOf(r)') - Cardinality(WaitersOf(r)))
      BY <1>b, <2>1, <2>2, <3>2, <3>3, SMTT(30)
    <3>5. Balanced(r)'
      BY <1>a, <2>2, <3>2, <3>4, Balance, Zenon
    <3>6. \A q \in Runtimes \ {r} : Balanced(q)'
      BY <1>1, <2>1, <2>2, <3>1, <3>3, ZenonT(30)
    <3> QED
      BY <3>5, <3>6, Zenon DEF Counted
  <2> QED
    BY <1>5, <2>3, <2>4, Zenon DEF CheckExit
<1>6. ASSUME NEW r \in Runtimes, Pop(r) PROVE Counted'
  <2>1. CASE local_queue[r] = <<>>
    BY <1>2, <1>6, <2>1, Zenon DEF Pop, rings, WaitersOf
  <2>2. CASE local_queue[r] # <<>>
    <3>1. PICK w \in Works : w = Head(local_queue[r])
      BY <2>2 DEF Shape, Queues
    <3>2. /\ pending' = [pending EXCEPT ![r] = @ - 0 - IF <<w, r>> \in woken THEN 1 ELSE 0]
          /\ woken' = woken \ {<<w, r>>} /\ waiting' = waiting
          /\ UNCHANGED <<sq, kernel, cq>>
      BY <1>6, <2>2, <3>1, Zenon DEF Pop, Resume, rings
    <3>3. r \in InLocal(w)
      BY <2>2, <3>1, TailRange, SMTT(30) DEF InLocal, Shape, Queues
    <3>4. <<w, r>> \notin waiting
      BY <3>3, Homes, Zenon DEF Placed, Only, InWaiting
    <3>5. \A q \in Runtimes :
            /\ IsFiniteSet(WaitersOf(q)')
            /\ Cardinality(WaitersOf(q)') =
                 Cardinality(WaitersOf(q)) - IF q = r /\ <<w, r>> \in woken THEN 1 ELSE 0
      BY <1>a, <3>2, <3>4, ResumeCount, Zenon
    <3>6. \A q \in Runtimes : KernelOf(q)' = KernelOf(q) /\ Finished(q)' = Finished(q)
      BY <3>2, Zenon DEF KernelOf, Finished
    <3>7. ASSUME NEW q \in Runtimes PROVE Balanced(q)'
      <4>1. pending'[q] = pending[q] - IF q = r /\ <<w, r>> \in woken THEN 1 ELSE 0
        BY <1>b, <1>c, <3>2, SMTT(30)
      <4>2. pending'[q] - pending[q] =
              (Len(sq'[q]) + Cardinality(KernelOf(q)') - Len(sq[q]) - Cardinality(KernelOf(q)))
                + (Cardinality(Finished(q)') - Cardinality(Finished(q)))
                + (Cardinality(WaitersOf(q)') - Cardinality(WaitersOf(q)))
        BY <1>b, <3>2, <3>5, <3>6, <4>1, SMTT(30)
      <4> QED
        BY <1>a, <3>5, <3>6, <4>2, Balance, ZenonT(30)
    <3> QED
      BY <3>7, Zenon DEF Counted
  <2> QED
    BY <2>1, <2>2, Zenon
<1>7. ASSUME NEW r \in Runtimes, ProcessCqe(r) PROVE Counted'
  <2>1. PICK c \in Completion : c = Head(cq[r])
    <3>1. cq[r] # <<>>
      BY <1>7, Zenon DEF ProcessCqe
    <3> QED
      BY <1>c, <3>1, TailRange, Zenon
  <2>2. PICK w \in Works \cup {NoWork} : w = c.work
    BY Fields
  <2>3. /\ cq[r] # <<>> /\ cq' = [cq EXCEPT ![r] = Tail(@)]
        /\ pending' = [pending EXCEPT ![r] =
             @ - (IF c = Schedule(NoWork) \/ c.type = "Common" THEN 1 ELSE 0)
               - IF <<w, r>> \in woken THEN 1 ELSE 0]
        /\ woken' = woken \ {<<w, r>>} /\ waiting' = waiting
        /\ UNCHANGED <<sq, kernel>>
    BY <1>7, <2>1, <2>2, Zenon DEF ProcessCqe, Resume
  <2>4. c \in Range(cq[r])
    BY <1>c, <2>1, <2>3, TailRange
  <2>5. <<w, r>> \notin waiting
    <3>1. CASE w = NoWork
      BY <1>d, <3>1, Zenon DEF Shape, Coroutines
    <3>2. CASE w \in Works
      <4>1. r \in InCq(w)
        BY <2>2, <2>4, Zenon DEF InCq
      <4> QED
        BY <3>2, <4>1, Homes, Zenon DEF Placed, Only, InWaiting
    <3> QED
      BY <3>1, <3>2, Zenon
  <2>6. \A q \in Runtimes :
          /\ IsFiniteSet(WaitersOf(q)')
          /\ Cardinality(WaitersOf(q)') =
               Cardinality(WaitersOf(q)) - IF q = r /\ <<w, r>> \in woken THEN 1 ELSE 0
    BY <1>a, <2>3, <2>5, ResumeCount, Zenon
  <2>7. \A q \in Runtimes : KernelOf(q)' = KernelOf(q)
    BY <2>3, Zenon DEF KernelOf
  <2>8. cq'[r] = Tail(cq[r]) /\ \A q \in Runtimes \ {r} : cq'[q] = cq[q]
    BY <1>c, <2>3, Zenon
  <2>9. \A q \in Runtimes \ {r} : Finished(q)' = Finished(q)
    BY <2>8, Zenon DEF Finished
  <2>10. Cardinality(Finished(r)') = Cardinality(Finished(r)) - IF Counts(c) THEN 1 ELSE 0
    BY <2>1, <2>3, <2>8, FinishedMoves, Zenon
  <2>11. sq' = sq
    BY <2>3, Zenon
  <2>12. \A q \in Runtimes \ {r} : pending'[q] = pending[q]
    BY <1>c, <2>3, Zenon
  <2>13. pending'[r] = pending[r] - (IF Counts(c) THEN 1 ELSE 0)
                         - IF <<w, r>> \in woken THEN 1 ELSE 0
    BY <1>c, <2>3, ZenonT(30) DEF Counts
  <2>14. pending'[r] - pending[r] =
           (Len(sq'[r]) + Cardinality(KernelOf(r)') - Len(sq[r]) - Cardinality(KernelOf(r)))
             + (Cardinality(Finished(r)') - Cardinality(Finished(r)))
             + (Cardinality(WaitersOf(r)') - Cardinality(WaitersOf(r)))
    <3>1. Cardinality(WaitersOf(r)') =
            Cardinality(WaitersOf(r)) - IF <<w, r>> \in woken THEN 1 ELSE 0
      BY <2>6, Zenon
    <3>2. KernelOf(r)' = KernelOf(r)
      BY <2>7, Zenon
    <3> QED
      BY <1>b, <2>10, <2>11, <2>13, <3>1, <3>2, SMTT(30)
  <2>15. Balanced(r)'
    BY <1>a, <2>6, <2>7, <2>14, Balance, ZenonT(30)
  <2>16. ASSUME NEW q \in Runtimes \ {r} PROVE Balanced(q)'
    <3>1. pending'[q] - pending[q] =
            (Len(sq'[q]) + Cardinality(KernelOf(q)') - Len(sq[q]) - Cardinality(KernelOf(q)))
              + (Cardinality(Finished(q)') - Cardinality(Finished(q)))
              + (Cardinality(WaitersOf(q)') - Cardinality(WaitersOf(q)))
      BY <1>b, <2>6, <2>7, <2>9, <2>11, <2>12, SMTT(30)
    <3> QED
      BY <1>a, <2>6, <2>7, <3>1, Balance, ZenonT(30)
  <2> QED
    BY <2>15, <2>16, Zenon DEF Counted
<1>8. ASSUME NEW r \in Runtimes, StartOp(r) PROVE Counted'
  <2>1. /\ GetSqe(r, Op(cur[r])) /\ pending' = [pending EXCEPT ![r] = @ + 1]
        /\ UNCHANGED <<cq, waiting, woken>>
    BY <1>8, Zenon DEF StartOp, waits
  <2>2. PICK e : e = Op(cur[r])
    OBVIOUS
  <2>3. \A q \in Runtimes :
           /\ IsFiniteSet(KernelOf(q)')
           /\ Len(sq'[q]) + Cardinality(KernelOf(q)') =
                Len(sq[q]) + Cardinality(KernelOf(q)) + IF q = r THEN 1 ELSE 0
    BY <1>a, <2>1, <2>2, GetCount, Zenon
  <2>4. \A q \in Runtimes : WaitersOf(q)' = WaitersOf(q) /\ Finished(q)' = Finished(q)
    BY <2>1, Zenon DEF WaitersOf, Finished
  <2>5. \A q \in Runtimes : pending'[q] = pending[q] + IF q = r THEN 1 ELSE 0
    BY <1>b, <1>c, <2>1, SMTT(30)
  <2>6. ASSUME NEW q \in Runtimes PROVE Balanced(q)'
    <3>2. PICK d \in Int : d = IF q = r THEN 1 ELSE 0
      BY SMTT(30)
    <3>3. /\ pending'[q] = pending[q] + d
         /\ Len(sq'[q]) + Cardinality(KernelOf(q)') = Len(sq[q]) + Cardinality(KernelOf(q)) + d
         /\ Finished(q)' = Finished(q) /\ WaitersOf(q)' = WaitersOf(q) /\ pending'[q] \in Int
      BY <1>b, <2>3, <2>4, <2>4, <2>5, <3>2, SMTT(30)
    <3> QED
      BY <2>3, <3>2, <3>3, BalanceQueue, Zenon
  <2> QED
    BY <2>6, Zenon DEF Counted
<1>9. ASSUME NEW r \in Runtimes, Wait(r) PROVE Counted'
  <2>1. PICK w \in Works : w = cur[r]
    BY <1>9, Zenon DEF Wait, Executing, Shape, Coroutines
  <2>2. /\ waiting' = waiting \cup {<<w, r>>} /\ woken' = woken
        /\ pending' = [pending EXCEPT ![r] = @ + 1]
        /\ UNCHANGED <<sq, kernel, cq>>
    BY <1>9, <2>1, Zenon DEF Wait, rings
  <2>3. <<w, r>> \notin woken
    BY <2>1, Zenon DEF Resumed
  <2>4. r \in InCur(w)
    BY <2>1, Zenon DEF InCur
  <2>5. <<w, r>> \notin waiting
    BY <2>4, Homes, Zenon DEF Placed, Only, InWaiting
  <2>6. w \notin WaitersOf(r) /\ WaitersOf(r)' = WaitersOf(r) \cup {w}
    BY <2>2, <2>3, <2>5, Zenon DEF WaitersOf
  <2>7. IsFiniteSet(WaitersOf(r)') /\ Cardinality(WaitersOf(r)') = Cardinality(WaitersOf(r)) + 1
    BY <1>a, <2>6, CardinalityAdd, Zenon
  <2>8. \A q \in Runtimes \ {r} : WaitersOf(q)' = WaitersOf(q)
    BY <2>2, Zenon DEF WaitersOf
  <2>9. \A q \in Runtimes : KernelOf(q)' = KernelOf(q) /\ Finished(q)' = Finished(q)
    BY <2>2, Zenon DEF KernelOf, Finished
  <2>10. pending'[r] = pending[r] + 1 /\ \A q \in Runtimes \ {r} : pending'[q] = pending[q]
    BY <1>c, <2>2, Zenon
  <2>11. pending'[r] - pending[r] =
           (Len(sq'[r]) + Cardinality(KernelOf(r)') - Len(sq[r]) - Cardinality(KernelOf(r)))
             + (Cardinality(Finished(r)') - Cardinality(Finished(r)))
             + (Cardinality(WaitersOf(r)') - Cardinality(WaitersOf(r)))
    BY <1>b, <2>2, <2>7, <2>9, <2>10, SMTT(30)
  <2>12. Balanced(r)'
    BY <1>a, <2>7, <2>9, <2>11, Balance, Zenon
  <2>13. \A q \in Runtimes \ {r} : Balanced(q)'
    BY <1>1, <2>2, <2>8, <2>9, <2>10, Zenon
  <2> QED
    BY <2>12, <2>13, Zenon DEF Counted
<1>10. ASSUME NEW t \in Threads, NEW to \in Runtimes, NEW w \in Works, Wake(t, to, w)
       PROVE  Counted'
  <2>1. /\ <<w, to>> \in waiting /\ waiting' = waiting \ {<<w, to>>}
        /\ woken' = woken \cup {<<w, to>>} /\ UNCHANGED <<sq, kernel, cq, pending>>
    BY <1>10, Zenon DEF Wake, rings
  <2>2. \A q \in Runtimes : WaitersOf(q)' = WaitersOf(q)
    BY <2>1, Zenon DEF WaitersOf
  <2> QED
    BY <1>2, <2>1, <2>2, Zenon
<1>11. ASSUME NEW t \in Threads, ScheduleMsgRing(t) PROVE Counted'
  <2>0. PICK to \in Runtimes, w \in Works \cup {NoWork} : to = call[t].to /\ w = call[t].work
    BY <1>11, Sending, Zenon DEF Shape
  <2>1. UNCHANGED <<waiting, woken>>
    BY <1>11, Zenon DEF ScheduleMsgRing, waits
  <2>2. \A q \in Runtimes : WaitersOf(q)' = WaitersOf(q)
    BY <2>1, Zenon DEF WaitersOf
  <2>3. CASE t \in Runtimes
    <3>1. cq' = cq /\ pending' = [pending EXCEPT ![t] = @ + 1]
      BY <1>11, <2>3, Zenon DEF ScheduleMsgRing
    <3>2. \A q \in Runtimes : Finished(q)' = Finished(q)
      BY <3>1, Zenon DEF Finished
    <3>3. \A q \in Runtimes : pending'[q] = pending[q] + IF q = t THEN 1 ELSE 0
      BY <1>b, <1>c, <2>3, <3>1, SMTT(30)
    <3>4. \A q \in Runtimes :
            /\ IsFiniteSet(KernelOf(q)')
            /\ Len(sq'[q]) + Cardinality(KernelOf(q)') =
                 Len(sq[q]) + Cardinality(KernelOf(q)) + IF q = t THEN 1 ELSE 0
      <4>1. CASE w # NoWork
        <5>1. PICK e : e = Msg(to, w)
          BY Zenon
        <5>2. GetSqe(t, e)
          BY <1>11, <2>0, <2>3, <4>1, <5>1, ZenonT(30) DEF ScheduleMsgRing
        <5> QED
          BY <1>a, <2>3, <5>2, GetCount, Zenon
      <4>2. CASE w = NoWork
        <5>1. PICK k : k = WakeupMsg(t, to)
          BY Zenon
        <5>2. kernel' = kernel \cup Submitted(t) \cup {k} /\ sq' = [sq EXCEPT ![t] = <<>>]
          BY <1>11, <2>0, <2>3, <4>2, <5>1, ZenonT(30) DEF ScheduleMsgRing, WakeupMsg
        <5>3. k \notin kernel
          <6>1. Waking(t, to)
            BY <1>11, <2>0, <4>2, Zenon DEF ScheduleMsgRing, Waking
          <6> QED
            BY <5>1, <6>1, ZenonT(60) DEF WakesOnce
        <5>4. k.from = t /\ k.entry.work = NoWork
          BY <5>1, Zenon DEF WakeupMsg, Taken, Msg
        <5>5. \A x \in Submitted(t) : x.from = t /\ x.entry.work # NoWork
          BY <2>3, Submitting, SMTT(30) DEF Shape, Rings
        <5>6. KernelOf(t)' = KernelOf(t) \cup Submitted(t) \cup {k}
          BY <5>2, <5>4, <5>5, Zenon DEF KernelOf
        <5>7. \A q \in Runtimes \ {t} : KernelOf(q)' = KernelOf(q)
          BY <5>2, <5>4, <5>5, Zenon DEF KernelOf
        <5>8. k \notin KernelOf(t) \cup Submitted(t)
          BY <5>3, <5>4, <5>5, Zenon DEF KernelOf
        <5>9. /\ IsFiniteSet(KernelOf(t) \cup Submitted(t))
              /\ Cardinality(KernelOf(t) \cup Submitted(t)) = Cardinality(KernelOf(t)) + Len(sq[t])
          BY <1>a, <2>3, SubmitCount, Zenon
        <5>10. /\ IsFiniteSet(KernelOf(t)')
               /\ Cardinality(KernelOf(t)') = Cardinality(KernelOf(t)) + Len(sq[t]) + 1
          BY <5>6, <5>8, <5>9, CardinalityAdd, SMTT(30)
        <5>11. Len(sq'[t]) = 0 /\ \A q \in Runtimes \ {t} : sq'[q] = sq[q]
          BY <2>3, <5>2, SMTT(30) DEF Shape, Rings
        <5>12. Len(sq'[t]) + Cardinality(KernelOf(t)') = Len(sq[t]) + Cardinality(KernelOf(t)) + 1
          BY <1>b, <2>3, <5>10, <5>11, SMTT(30)
        <5>13. ASSUME NEW q \in Runtimes \ {t}
               PROVE  /\ IsFiniteSet(KernelOf(q)')
                      /\ Len(sq'[q]) + Cardinality(KernelOf(q)') =
                           Len(sq[q]) + Cardinality(KernelOf(q)) + 0
          BY <1>a, <1>b, <5>7, <5>11, SMTT(30)
        <5> QED
          BY <5>10, <5>12, <5>13, Zenon
      <4> QED
        BY <4>1, <4>2, Zenon
    <3>5. ASSUME NEW q \in Runtimes PROVE Balanced(q)'
      <4>2. PICK d \in Int : d = IF q = t THEN 1 ELSE 0
        BY SMTT(30)
      <4>3. /\ pending'[q] = pending[q] + d
           /\ Len(sq'[q]) + Cardinality(KernelOf(q)') = Len(sq[q]) + Cardinality(KernelOf(q)) + d
           /\ Finished(q)' = Finished(q) /\ WaitersOf(q)' = WaitersOf(q) /\ pending'[q] \in Int
        BY <1>b, <3>4, <3>2, <2>2, <3>3, <4>2, SMTT(30)
      <4> QED
        BY <3>4, <4>2, <4>3, BalanceQueue, Zenon
    <3> QED
      BY <3>5, Zenon DEF Counted
  <2>4. CASE t \notin Runtimes
    <3>1. PICK c : c = Payload(w)
      BY Zenon
    <3>2. cq' = [cq EXCEPT ![to] = Append(@, c)] /\ UNCHANGED <<pending, sq, kernel>>
      BY <1>11, <2>0, <2>4, <3>1, Zenon DEF ScheduleMsgRing
    <3>3. c \in Completion /\ ~Counts(c)
      BY <1>d, <3>1, Zenon DEF Payload, Counts, Completion, Schedule, Ignore
    <3>4. cq'[to] = Append(cq[to], c) /\ \A q \in Runtimes \ {to} : cq'[q] = cq[q]
      BY <1>c, <3>2, Zenon
    <3>5. Cardinality(Finished(to)') = Cardinality(Finished(to)) + 0
      BY <3>3, <3>4, FinishedMoves, Zenon
    <3>6. \A q \in Runtimes \ {to} : Finished(q)' = Finished(q)
      BY <3>4, Zenon DEF Finished
    <3>7. \A q \in Runtimes : KernelOf(q)' = KernelOf(q)
      BY <3>2, Zenon DEF KernelOf
    <3>8. pending'[to] - pending[to] =
            (Len(sq'[to]) + Cardinality(KernelOf(to)') - Len(sq[to]) - Cardinality(KernelOf(to)))
              + (Cardinality(Finished(to)') - Cardinality(Finished(to)))
              + (Cardinality(WaitersOf(to)') - Cardinality(WaitersOf(to)))
      BY <1>b, <2>2, <3>2, <3>5, <3>7, SMTT(30)
    <3>9. Balanced(to)'
      BY <1>a, <2>2, <3>7, <3>8, Balance, Zenon
    <3>10. \A q \in Runtimes \ {to} : Balanced(q)'
      BY <1>1, <2>2, <3>2, <3>6, <3>7, ZenonT(60)
    <3> QED
      BY <3>9, <3>10, Zenon DEF Counted
  <2> QED
    BY <2>3, <2>4, Zenon
<1>12. ASSUME NEW r \in Runtimes,
              RunFirst(r) \/ RunAgain(r) \/ Tick(r) \/ Exit(r) \/ Unblock(r) \/ FlushDone(r)
                \/ End(r)
       PROVE  Counted'
  BY <1>2, <1>12, ZenonT(60)
     DEF RunFirst, RunAgain, Tick, Exit, Unblock, FlushDone, End, local, rings,
                                 waits, WaitersOf
<1>13. ASSUME NEW t \in Threads, ScheduleLocked(t) \/ Wakeup(t) PROVE Counted'
  BY <1>2, <1>13, Zenon DEF ScheduleLocked, Wakeup, local, rings, waits, WaitersOf
<1>14. ASSUME NEW t \in Threads, NEW to \in Runtimes, Drain(t, to) \/ AllowExit(t, to)
       PROVE  Counted'
  BY <1>2, <1>14, Zenon DEF Drain, AllowExit, local, rings, waits, WaitersOf
<1>15. ASSUME NEW t \in Threads, NEW to \in Runtimes, NEW w \in Works, CoSpawn(t, to, w)
       PROVE  Counted'
  BY <1>2, <1>15, Zenon DEF CoSpawn, rings, waits, WaitersOf
<1>16. ASSUME NEW r \in Runtimes, NEW to \in Runtimes, CoSwitch(r, to) PROVE Counted'
  BY <1>2, <1>16, Zenon DEF CoSwitch, rings, waits, WaitersOf
<1>17. CASE UNCHANGED vars
  BY <1>2, <1>17, Zenon DEF vars, local, rings, waits, WaitersOf
<1> QED
  BY <1>3, <1>4, <1>5, <1>6, <1>7, <1>8, <1>9, <1>10, <1>11, <1>12, <1>13, <1>14, <1>15, <1>16,
     <1>17, ZenonT(30) DEF Next, Loop, CallStep, Suspend
-----------------------------------------------------------------------------
(* A runtime that has left its loop has no pending work. *)
Stopped == \A r \in Runtimes : loop[r] \in {"exit", "idle"} => pending[r] = 0

(* Every step keeps Stopped: between the exit check and the next run()     *)
(* nothing of the runtime counts work.                                     *)
LEMMA StoppedStep ==
  ASSUME Shape, Stopped, [Next]_vars
  PROVE  Stopped'
<1>a. loop \in [Runtimes -> LoopPc] /\ pending \in [Runtimes -> Int]
  BY Zenon DEF Shape, Loops, Flags
<1>b. \A r \in Runtimes : loop[r] \in {"exit", "idle"} => cur[r] = NoWork /\ call[r] = NoCall
  BY Zenon DEF Shape, Loops
<1>c. NoCall.at = "none"
  BY Zenon DEF NoCall
<1>1. ASSUME UNCHANGED <<loop, pending>> PROVE Stopped'
  BY <1>1, Zenon DEF Stopped
<1>2. ASSUME NEW r \in Runtimes, NEW p, loop' = loop, loop[r] \notin {"exit", "idle"},
             pending' = [pending EXCEPT ![r] = p]
      PROVE  Stopped'
  BY <1>a, <1>2, Zenon DEF Stopped
<1>3. ASSUME NEW r \in Runtimes, RunFirst(r) \/ RunAgain(r) \/ Tick(r) \/ Unblock(r)
      PROVE  Stopped'
  BY <1>a, <1>3, Zenon DEF RunFirst, RunAgain, Tick, Unblock, MoveTo, Stopped
<1>4. ASSUME NEW r \in Runtimes, FlushDone(r) PROVE Stopped'
  <2>1. FlushNext[loop[r]] \in {"loop", "pop"}
    BY <1>4 DEF FlushDone, FlushNext
  <2>2. loop' = [loop EXCEPT ![r] = FlushNext[loop[r]]] /\ pending' = pending
    BY <1>4, Zenon DEF FlushDone, MoveTo
  <2> QED
    BY <1>a, <2>1, <2>2, Zenon DEF Stopped
<1>5. ASSUME NEW r \in Runtimes, CheckExit(r) PROVE Stopped'
  BY <1>a, <1>5, Zenon DEF CheckExit, MoveTo, Stopped
<1>6. ASSUME NEW r \in Runtimes, Exit(r) PROVE Stopped'
  BY <1>a, <1>6, Zenon DEF Exit, At, MoveTo, Stopped
<1>7. ASSUME NEW r \in Runtimes, Pop(r) PROVE Stopped'
  <2>1. /\ loop' = [loop EXCEPT ![r] = "check"] \/ loop' = [loop EXCEPT ![r] = "loop"]
        /\ \A q \in Runtimes \ {r} : pending'[q] = pending[q]
    BY <1>a, <1>7, Zenon DEF Pop, MoveTo, Resume
  <2> QED
    BY <1>a, <2>1, Zenon DEF Stopped
<1>8. ASSUME NEW r \in Runtimes, ProcessCqe(r) PROVE Stopped'
  <2>1. loop' = loop /\ loop[r] \notin {"exit", "idle"}
    BY <1>8, Zenon DEF ProcessCqe, FlushNext
  <2>2. \A q \in Runtimes \ {r} : pending'[q] = pending[q]
    BY <1>a, <1>8, Zenon DEF ProcessCqe, Resume
  <2> QED
    BY <2>1, <2>2, Zenon DEF Stopped
<1>9. ASSUME NEW r \in Runtimes, StartOp(r) \/ Wait(r) PROVE Stopped'
  BY <1>2, <1>b, <1>9, Zenon DEF StartOp, Wait, Executing
<1>10. ASSUME NEW t \in Threads, ScheduleMsgRing(t) PROVE Stopped'
  BY <1>1, <1>2, <1>b, <1>c, <1>10, Zenon DEF ScheduleMsgRing
<1>11. ASSUME NEW r \in Runtimes, End(r) PROVE Stopped'
  BY <1>1, <1>11, Zenon DEF End, local
<1>12. ASSUME NEW r \in Runtimes, NEW to \in Runtimes, CoSwitch(r, to) PROVE Stopped'
  BY <1>1, <1>12, Zenon DEF CoSwitch
<1>13. ASSUME NEW t \in Threads, ScheduleLocked(t) \/ Wakeup(t) PROVE Stopped'
  BY <1>1, <1>13, Zenon DEF ScheduleLocked, Wakeup, local
<1>14. ASSUME NEW t \in Threads, NEW to \in Runtimes, Drain(t, to) \/ AllowExit(t, to)
       PROVE  Stopped'
  BY <1>1, <1>14, Zenon DEF Drain, AllowExit, local
<1>15. ASSUME NEW t \in Threads, NEW to \in Runtimes, NEW w \in Works,
              CoSpawn(t, to, w) \/ Wake(t, to, w)
       PROVE  Stopped'
  BY <1>1, <1>15, Zenon DEF CoSpawn, Wake
<1>16. ASSUME NEW k \in kernel, CompleteOp(k) \/ DeliverMsg(k) PROVE Stopped'
  BY <1>1, <1>16, Zenon DEF CompleteOp, DeliverMsg, local
<1>17. CASE UNCHANGED vars
  BY <1>1, <1>17, Zenon DEF vars, local
<1> QED
  BY <1>3, <1>4, <1>5, <1>6, <1>7, <1>8, <1>9, <1>10, <1>11, <1>12, <1>13, <1>14, <1>15, <1>16,
     <1>17, ZenonT(30) DEF Next, Loop, CallStep, Suspend
-----------------------------------------------------------------------------
(* The inductive invariant. *)
RuntimeInv == Shape /\ Placed /\ Resumed /\ WakesOnce /\ Counted /\ Stopped

(* The invariant holds initially. *)
LEMMA RuntimeInit ==
  ASSUME CardinalityLaws, Init
  PROVE  RuntimeInv
<1>a. NoWork \notin Works
  BY RuntimeAssumption, Zenon
<1>b. Range(<<>>) = {} /\ IsInjective(<<>>) /\ Once(<<>>)
  BY DEF Range, IsInjective, Once
<1>1. Flags /\ Coroutines
  BY RuntimeAssumption DEF Init, Flags, Coroutines
<1>2. Queues
  BY DEF Init, Queues
<1>3. Rings
  BY <1>b DEF Init, Rings
<1>4. Calls
  BY Zenon DEF Init, Calls, NoCall, CallPc
<1>c. "idle" \in LoopPc
  BY Zenon DEF LoopPc
<1>5. Loops
  BY <1>c, Zenon DEF Init, Loops, Threads
<1>6. HeldOnce
  BY <1>b, Zenon DEF Init, HeldOnce
<1>7. \A w \in Works : Nowhere(w)
  BY <1>a, <1>b, Zenon
     DEF Init, Nowhere, InGlobal, InLocal, InSq, InKernel, InCq, InCur, InCall, InWaiting,
     NoCall
<1>8. \A w \in Works : InOnePlace(w)
  <2>1. \A w \in Works : Places(w) = {}
    BY <1>7, Zenon DEF Nowhere, Places
  <2> QED
    BY <2>1, Zenon DEF Init, InOnePlace
<1>9. Resumed /\ WakesOnce /\ Stopped
  BY Zenon DEF Init, Resumed, WakesOnce, Waking, NoCall, Stopped
<1>10. ASSUME NEW r \in Runtimes PROVE Balanced(r)
  <2>1. KernelOf(r) = {} /\ Finished(r) = {} /\ WaitersOf(r) = {} /\ Len(sq[r]) = 0 /\ pending[r] = 0
    BY DEF Init, KernelOf, Finished, WaitersOf
  <2> QED
    BY <2>1 DEF Balanced, Outstanding, CardinalityLaws, LawOfEmpty
<1> QED
  BY <1>1, <1>2, <1>3, <1>4, <1>5, <1>6, <1>8, <1>9, <1>10, ZenonT(30)
     DEF RuntimeInv, Shape, Placed, Counted

(* Every step keeps the invariant. *)
LEMMA RuntimeStep ==
  ASSUME CardinalityLaws, RuntimeInv, [Next]_vars
  PROVE  RuntimeInv'
BY ShapeStep, PlacedStep, ResumedStep, WakesOnceStep, CountedStep, StoppedStep, ZenonT(30)
   DEF RuntimeInv

(* The counts make pending_works_ a natural number, which completes the    *)
(* types.                                                                  *)
LEMMA PendingIsNat ==
  ASSUME CardinalityLaws, Shape, Counted
  PROVE  TypeOK
<1>1. \A r \in Runtimes : pending[r] \in Nat
  <2> SUFFICES ASSUME NEW r \in Runtimes PROVE pending[r] \in Nat
    OBVIOUS
  <2>1. /\ Len(sq[r]) \in Nat /\ Cardinality(KernelOf(r)) \in Nat
        /\ Cardinality(Finished(r)) \in Nat /\ Cardinality(WaitersOf(r)) \in Nat
    BY Numbers, Zenon DEF Counted, Balanced
  <2> QED
    BY <2>1 DEF Counted, Balanced, Outstanding
<1>2. pending \in [Runtimes -> Nat]
  BY <1>1, Zenon DEF Shape, Flags
<1>3. Flags /\ Coroutines /\ Queues /\ Rings /\ Calls /\ Loops
  BY Zenon DEF Shape
<1>4. /\ ring_enabled \in [Runtimes -> BOOLEAN] /\ exit_allowed \in [Runtimes -> BOOLEAN]
      /\ storeBuffer \in [Threads -> SUBSET Runtimes]
      /\ tick \in [Runtimes -> 0..EventInterval - 1] /\ runs \in [Runtimes -> 0..MaxRuns]
      /\ asked \subseteq Threads \X Runtimes
  BY <1>3, Zenon DEF Flags
<1>5. /\ cur \in [Runtimes -> Works \cup {NoWork}] /\ waiting \cup woken \subseteq Works \X Runtimes
      /\ alive \subseteq Works /\ ended \subseteq Works
  BY <1>3, Zenon DEF Coroutines
<1>6. /\ sq \in [Runtimes -> Seq(Entry)] /\ cq \in [Runtimes -> Seq(Completion)]
      /\ kernel \subseteq {Taken(r, e) : r \in Runtimes, e \in Entry}
  BY <1>3 DEF Rings
<1>7. call \in [Threads -> [at : CallPc, to : Runtimes \cup {NoWork}, work : Works \cup {NoWork}]]
  BY <1>3, Zenon DEF Calls
<1>8. loop \in [Runtimes -> LoopPc]
  BY <1>3, Zenon DEF Loops
<1>9. global_queue \in [Runtimes -> Seq(Works)] /\ local_queue \in [Runtimes -> Seq(Works)]
  BY <1>3 DEF Queues
<1> QED
  BY <1>2, <1>4, <1>5, <1>6, <1>7, <1>8, <1>9, SMTT(30) DEF TypeOK
-----------------------------------------------------------------------------
INSTANCE FiniteSetTheorems

(* The facts about cardinality are those of FiniteSetTheorems. *)
LEMMA CardinalityHolds == CardinalityLaws
<1>1. LawOfEmpty
  BY FS_EmptySet DEF LawOfEmpty
<1>2. LawOfType
  BY FS_CardinalityType DEF LawOfType
<1>3. LawOfAdd
  BY FS_AddElement DEF LawOfAdd
<1>4. LawOfRemove
  BY FS_RemoveElement DEF LawOfRemove
<1>5. LawOfSubset
  BY FS_Subset DEF LawOfSubset
<1>6. LawOfInterval
  BY FS_Interval DEF LawOfInterval
<1>7. LawOfSame
  BY FS_Surjection DEF LawOfSame
<1>8. LawOfSum
  <2> SUFFICES ASSUME NEW S, NEW T, IsFiniteSet(S), IsFiniteSet(T), S \cap T = {}
               PROVE  /\ IsFiniteSet(S \cup T)
                      /\ Cardinality(S \cup T) = Cardinality(S) + Cardinality(T)
    BY Zenon DEF LawOfSum
  <2>1. /\ IsFiniteSet(S \cup T)
        /\ Cardinality(S \cup T) = Cardinality(S) + Cardinality(T) - Cardinality(S \cap T)
    BY FS_Union
  <2>2. Cardinality(S \cap T) = 0
    BY <1>1, Zenon DEF LawOfEmpty
  <2>3. Cardinality(S) \in Nat /\ Cardinality(T) \in Nat
    BY <1>2 DEF LawOfType
  <2> QED
    BY <2>1, <2>2, <2>3
<1> QED
  BY <1>1, <1>2, <1>3, <1>4, <1>5, <1>6, <1>7, <1>8 DEF CardinalityLaws

(* A coroutine that is alive is in exactly one place, once, and            *)
(* pending_works_ never goes below zero, however schedule_internal, run(), *)
(* process_cqe_ and the kernel interleave: no work is lost, none is        *)
(* resumed twice for one schedule.                                         *)
THEOREM NoWorkLost == Spec => []WorkInOnePlace
<1>1. RuntimeInv => WorkInOnePlace
  BY CardinalityHolds, PendingIsNat, Zenon DEF RuntimeInv, Placed, WorkInOnePlace
<1> QED
  BY <1>1, CardinalityHolds, RuntimeInit, RuntimeStep, PTL DEF Spec

(* pending_works_ of a runtime is the number of its operations and         *)
(* messages that are queued, in the kernel or completed and not processed, *)
(* and of its coroutines that wait: pend_work_internal and                 *)
(* resume_work_internal balance on every path.                             *)
THEOREM PendingIsExact == Spec => []PendingIsOutstanding
<1>1. RuntimeInv => PendingIsOutstanding
  BY Zenon DEF RuntimeInv, PendingIsOutstanding, Counted, Balanced
<1> QED
  BY <1>1, CardinalityHolds, RuntimeInit, RuntimeStep, PTL DEF Spec

(* A runtime that has left its loop, or has not entered it, has nothing    *)
(* outstanding and no work in its queues that run() would not see.         *)
THEOREM QuietAfterExit == Spec => []ExitIsQuiet
<1>1. RuntimeInv /\ GlobalQueueClosed => ExitIsQuiet
  BY DEF RuntimeInv, Shape, Loops, Counted, Balanced, Stopped, ExitIsQuiet
<1>2. GlobalQueueClosed /\ SendsToEnabled => GlobalQueueClosed
  OBVIOUS
<1> QED
  BY <1>1, <1>2, HandoverIsClosed, CardinalityHolds, RuntimeInit, RuntimeStep, PTL DEF Spec
=============================================================================
