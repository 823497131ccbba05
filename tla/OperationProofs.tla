--------------------------- MODULE OperationProofs ---------------------------
(***************************************************************************)
(* The four invariants of Operation for every group: any number and kinds  *)
(* of operations under when_all, when_any and their ranged forms, awaited  *)
(* any number of times.                                                    *)
(*                                                                         *)
(* At any time an operation of a round is in the submission queue, in the  *)
(* kernel or among the completions not yet taken, and in two of these only *)
(* when F_MORE says that there is more to come (RingTypes, OnePlace).      *)
(* What has yet to call its receiver belongs to the round under way, so    *)
(* its handle is the one the frame holds (Unfinished); a zero-copy handle  *)
(* is on the heap for as long as the kernel owes it a completion (Boxed);  *)
(* pending_works_ counts what is in use (Counted).                         *)
(*                                                                         *)
(* A receiver is called once per operation, so order lists those that are  *)
(* done (Results); the coroutine goes on when all are (Progress).  That    *)
(* the first result of when_any is nobody's cancellation (Winning) rests   *)
(* on the order of the submission queue: awaiters are used again, and a    *)
(* cancel entry of an earlier round may name an address that is in use     *)
(* again, but it stands before every entry of this round (Fresh) and       *)
(* finds nothing to cancel.                                                *)
(*                                                                         *)
(* A stop callback that the other thread executes is one of a round whose  *)
(* stop was requested (Stopping): the next await has a token of its own.   *)
(***************************************************************************)
EXTENDS Operation, TLAPS

(* Entries of the queues and records of the kernel that are for the same   *)
(* operation of the same round.                                            *)
Same(a, b) == a.op = b.op /\ a.gen = b.gen

(* Positions of operations in the submission queue, and of their           *)
(* completions in the completion queue.                                    *)
Issued == {n \in DOMAIN sq : sq[n].type = "op"}
Arrived == {n \in DOMAIN cq : cq[n].type = "Common"}

SqEntry == [type : {"op", "cancel"}, op : Ops, gen : Nat, addr : Ops \X Nat]
CqEntry == [type : {"Common", "Cancel"}, op : Ops, gen : Nat, addr : Ops \X Nat,
            res : {"ok", "ECANCELED"}, more : BOOLEAN, notif : BOOLEAN]
Submitted == [op : Ops, gen : Nat, addr : Ops \X Nat, shots : Nat,
              cancelled : BOOLEAN, sent : BOOLEAN]

(* An entry names an operation of this round or an earlier one.            *)
Known(e) == e.gen \in 1..round /\ e.addr = Address(e.op, e.gen)

RingTypes ==
  /\ sq \in Seq(SqEntry)
  /\ cq \in Seq(CqEntry)
  /\ kernel \subseteq Submitted
  /\ \A n \in Issued : Known(sq[n])
  /\ \A k \in kernel : Known(k) /\ (k.sent => Kind[k.op] = "zerocopy")
  /\ \A n \in Arrived :
       /\ Known(cq[n])
       /\ cq[n].notif => Kind[cq[n].op] = "zerocopy" /\ ~cq[n].more
       /\ Kind[cq[n].op] = "single" => ~cq[n].more

(* An operation is at one place.  Its completions are in order: F_MORE on  *)
(* all but the last, and for a zero-copy one only the notification after   *)
(* the first.                                                              *)
OnePlace ==
  /\ \A m, n \in Issued : Same(sq[m], sq[n]) => m = n
  /\ \A n \in Issued, k \in kernel : ~Same(sq[n], k)
  /\ \A n \in Issued, m \in Arrived : ~Same(sq[n], cq[m])
  /\ \A k, l \in kernel : Same(k, l) => k = l
  /\ \A k \in kernel, m \in Arrived :
       Same(k, cq[m]) => cq[m].more /\ (Kind[k.op] = "zerocopy" => k.sent)
  /\ \A m, n \in Arrived :
       m < n /\ Same(cq[m], cq[n]) =>
         cq[m].more /\ (Kind[cq[m].op] = "zerocopy" => cq[n].notif)
  /\ \A m \in Arrived :
       cq[m].more => \/ \E k \in kernel : Same(k, cq[m])
                     \/ \E n \in Arrived : m < n /\ Same(cq[m], cq[n])

(* What has yet to call its receiver is an operation of this round and     *)
(* pending.                                                                *)
Owed(e) == e.gen = round /\ child[e.op] = "pending"

Unfinished ==
  /\ \A n \in Issued : Owed(sq[n])
  /\ \A k \in kernel : ~k.sent => Owed(k)
  /\ \A n \in Arrived : ~cq[n].notif => Owed(cq[n])
  /\ \A u \in InUse : u[2] = round => child[u[1]] # "new"

Boxed ==
  /\ \A u \in InUse : Kind[u[1]] = "zerocopy" => u \in heap
  /\ \A i \in Ops : Kind[i] = "zerocopy" /\ child[i] = "new" => <<i, round>> \in heap
  /\ \A h \in heap :
       /\ h \in Ops \X (1..round)
       /\ Kind[h[1]] = "zerocopy"
       /\ h \in InUse \/ (h[2] = round /\ child[h[1]] = "new")

Counted == IsFiniteSet(InUse) /\ pending = Cardinality(InUse)

Done == {i \in Ops : child[i] = "done"}

Results ==
  /\ {order[n] : n \in DOMAIN order} = Done
  /\ Len(order) = Cardinality(Done)
  /\ \A i \in Ops : result[i] # "none" <=> i \in Done

Progress ==
  /\ co = "starting" =>
       /\ \A i \in Ops : child[i] = "new" <=> next <= i
       /\ awaiter # "handle"
       /\ awaiter = "null" => Done = Ops
       /\ awaiter = "noop" => N = 0 \/ Done # Ops
  /\ co = "suspended" => awaiter = "handle" /\ Done # Ops /\ \A i \in Ops : child[i] # "new"
  /\ co \in {"running", "ended"} => Done = Ops
  /\ co # "crash"

(* A stop from outside has never come. *)
Undisturbed == setup.any /\ requested.outside = {}

Fresh ==
  /\ ~stopped
  /\ \A k \in kernel : k.gen = round => ~k.cancelled
  /\ \A n \in Arrived : cq[n].gen = round => cq[n].res # "ECANCELED"
  /\ \A m \in DOMAIN sq \ Issued :
       /\ \A n \in Issued : sq[n].gen = round => m < n
       /\ \A k \in kernel : k.gen # round
       /\ \A n \in Arrived : cq[n].gen # round

Winning ==
  /\ requested \in [outside : SUBSET Nat, inside : SUBSET Nat]
  /\ Undisturbed =>
       /\ outer = "none"
       /\ running = 0
       /\ Arrived = DOMAIN cq
       /\ IF order = <<>> THEN Fresh ELSE result[order[1]] # "ECANCELED"

Inv ==
  /\ TypeOK
  /\ RingTypes
  /\ OnePlace
  /\ Unfinished
  /\ CallbackWhilePending
  /\ Boxed
  /\ Counted
  /\ Results
  /\ Progress
  /\ Winning
-----------------------------------------------------------------------------
(* What the assumption on the constants says of the group.                 *)
GroupOK ==
  /\ N \in Nat
  /\ Ops = 1..N
  /\ Kind \in [Ops -> {"single", "multi", "zerocopy"}]
  /\ setup.any \in BOOLEAN
  /\ setup.ranged \in BOOLEAN
  /\ setup.stoppable \in BOOLEAN
  /\ setup.any => Ops # {}
  /\ setup.rounds \in Nat

(* A setup is a group of operations of known kinds, not empty for          *)
(* when_any.                                                               *)
LEMMA GroupIs == TypeOK => GroupOK
<1> SUFFICES ASSUME TypeOK PROVE GroupOK
  OBVIOUS
<1>1. setup \in Setups
  BY Zenon DEF TypeOK
<1>2. /\ setup.kinds \in Seq({"single", "multi", "zerocopy"})
      /\ {setup.any, setup.ranged, setup.stoppable} \subseteq BOOLEAN
      /\ setup.kinds = <<>> => setup.ranged /\ ~setup.any
      /\ setup.rounds \in Nat \ {0}
  BY <1>1, OperationAssumption, Zenon
<1>3. N \in Nat /\ Ops = 1..N /\ Kind \in [Ops -> {"single", "multi", "zerocopy"}]
  BY <1>2 DEF N, Ops, Kind
<1>4. setup.kinds # <<>> => Ops # {}
  <2>1. setup.kinds # <<>> => Len(setup.kinds) # 0
    BY <1>2
  <2>2. N # 0 => 1 \in Ops
    BY <1>3
  <2> QED
    BY <2>1, <2>2, Zenon DEF N
<1> QED
  BY <1>2, <1>3, <1>4, Zenon DEF GroupOK

(* The user data of an operation: its handle, which a zero-copy one has of *)
(* its own for every round.                                                *)
LEMMA AddressIs ==
  ASSUME NEW i \in Ops, NEW g \in Nat
  PROVE  /\ Address(i, g) \in Ops \X Nat
         /\ Kind[i] = "zerocopy" => Address(i, g) = <<i, g>>
         /\ Kind[i] # "zerocopy" => Address(i, g) = <<i, 0>>
  BY Zenon DEF Address

(* What a step that leaves the group alone leaves alone with it.           *)
Framed ==
  /\ N' = N
  /\ Ops' = Ops
  /\ Kind' = Kind
  /\ SqEntry' = SqEntry
  /\ CqEntry' = CqEntry
  /\ Submitted' = Submitted
  /\ GroupOK' = GroupOK

(* A step that leaves the setup alone leaves these alone. *)
LEMMA FrameIs == ASSUME UNCHANGED setup PROVE Framed
  BY Zenon DEF Framed, N, Ops, Kind, SqEntry, CqEntry, Submitted, Address, GroupOK
-----------------------------------------------------------------------------
(* Steps on the rings.                                                     *)

(* The operations in the submission queue stay where they are.             *)
SqSame ==
  /\ sq' \in Seq(SqEntry)
  /\ Issued' = Issued
  /\ \A n \in Issued : sq'[n] = sq[n]

(* The completions move up by d places, the first d fall out.              *)
CqKept(d) ==
  /\ cq' \in Seq(CqEntry)
  /\ \A n \in Arrived' : n + d \in Arrived /\ cq'[n] = cq[n + d]
  /\ \A n \in Arrived : d < n => n - d \in Arrived' /\ cq'[n - d] = cq[n]

(* A step that takes the first completion, or none, and moves no operation *)
(* keeps every operation at one place.                                     *)
LEMMA RingsKeep ==
  ASSUME TypeOK, RingTypes, OnePlace, UNCHANGED setup, round' \in Nat, round <= round',
         SqSame, UNCHANGED kernel, NEW d \in {0, 1}, CqKept(d)
  PROVE  RingTypes' /\ OnePlace'
<1>0. Framed /\ GroupOK
  BY FrameIs, GroupIs, Zenon
<1>1. \A n \in Arrived \cup Arrived' : n \in Nat \ {0}
  BY DEF Arrived, RingTypes, CqKept
<1>2. round \in Nat
  BY DEF TypeOK
<1>3. RingTypes'
  <2>1. ASSUME NEW n \in Issued' PROVE Known(sq[n])'
    BY <1>0, <1>2 DEF RingTypes, SqSame, Framed, Known, Address
  <2>2. ASSUME NEW k \in kernel' PROVE Known(k)' /\ (k.sent => Kind'[k.op] = "zerocopy")
    BY <1>0, <1>2 DEF RingTypes, Framed, Known, Address
  <2>3. ASSUME NEW n \in Arrived'
        PROVE  /\ Known(cq[n])'
               /\ cq'[n].notif => Kind'[cq'[n].op] = "zerocopy" /\ ~cq'[n].more
               /\ Kind'[cq'[n].op] = "single" => ~cq'[n].more
    <3>1. n + d \in Arrived /\ cq'[n] = cq[n + d]
      BY Zenon DEF CqKept
    <3>2. /\ Known(cq[n + d])
          /\ cq[n + d].notif => Kind[cq[n + d].op] = "zerocopy" /\ ~cq[n + d].more
          /\ Kind[cq[n + d].op] = "single" => ~cq[n + d].more
      BY <3>1, Zenon DEF RingTypes
    <3> QED
      BY <1>0, <1>2, <3>1, <3>2 DEF Framed, Known, Address
  <2>4. sq' \in Seq(SqEntry') /\ cq' \in Seq(CqEntry') /\ kernel' \subseteq Submitted'
    BY <1>0, Zenon DEF RingTypes, SqSame, CqKept, Framed
  <2> QED
    BY <2>1, <2>2, <2>3, <2>4, Zenon DEF RingTypes
<1>4. OnePlace'
  <2>1. /\ \A m, n \in Issued' : Same(sq'[m], sq'[n]) => m = n
        /\ \A n \in Issued', k \in kernel' : ~Same(sq'[n], k)
        /\ \A k, l \in kernel' : Same(k, l) => k = l
    BY Zenon DEF OnePlace, SqSame
  <2>2. \A n \in Issued', m \in Arrived' : ~Same(sq'[n], cq'[m])
    BY DEF OnePlace, SqSame, CqKept
  <2>3. \A k \in kernel', m \in Arrived' :
       Same(k, cq'[m]) => cq'[m].more /\ (Kind'[k.op] = "zerocopy" => k.sent)
    BY <1>0 DEF OnePlace, CqKept, Framed
  <2>4. \A m, n \in Arrived' :
       m < n /\ Same(cq'[m], cq'[n]) =>
         cq'[m].more /\ (Kind'[cq'[m].op] = "zerocopy" => cq'[n].notif)
    BY <1>0, <1>1 DEF OnePlace, CqKept, Framed
  <2>5. ASSUME NEW m \in Arrived', cq'[m].more
        PROVE  \/ \E k \in kernel' : Same(k, cq'[m])
               \/ \E n \in Arrived' : m < n /\ Same(cq'[m], cq'[n])
    <3>1. m + d \in Arrived /\ cq'[m] = cq[m + d]
      BY Zenon DEF CqKept
    <3>2. CASE \E k \in kernel : Same(k, cq[m + d])
      BY <3>1, <3>2, Zenon
    <3>3. CASE \E n \in Arrived : m + d < n /\ Same(cq[m + d], cq[n])
      <4>1. PICK n \in Arrived : m + d < n /\ Same(cq[m + d], cq[n])
        BY <3>3, Zenon
      <4>2. n - d \in Arrived' /\ cq'[n - d] = cq[n] /\ m < n - d
        BY <1>1, <4>1 DEF CqKept
      <4> QED
        BY <3>1, <4>1, <4>2, Zenon
    <3> QED
      BY <2>5, <3>1, <3>2, <3>3, Zenon DEF OnePlace
  <2> QED
    BY <2>1, <2>2, <2>3, <2>4, <2>5, Zenon DEF OnePlace
<1> QED
  BY <1>3, <1>4, Zenon

(* The entry that start() adds to the submission queue, a cancel entry     *)
(* behind it if the stop has come already.                                 *)
SqIssued(e) ==
  /\ sq' \in Seq(SqEntry)
  /\ Issued' = Issued \cup {Len(sq) + 1}
  /\ \A n \in DOMAIN sq : sq'[n] = sq[n]
  /\ sq'[Len(sq) + 1] = e

(* The entries that start() and cancel() add are entries. *)
LEMMA SqeOK ==
  ASSUME TypeOK, NEW i \in Ops
  PROVE  Sqe(i) \in SqEntry /\ CancelSqe(Address(i, round)) \in SqEntry
<1>1. round \in Nat /\ Address(i, round) \in Ops \X Nat /\ Address(i, round)[1] = i
  BY AddressIs DEF TypeOK, Address
<1> QED
  BY <1>1, Zenon DEF Sqe, CancelSqe, SqEntry

(* So are those of a stop, and they are not operations. *)
LEMMA CancelsOK ==
  ASSUME TypeOK, NEW ops \in Seq(Ops)
  PROVE  /\ Cancels(ops) \in Seq(SqEntry)
         /\ \A n \in DOMAIN Cancels(ops) : Cancels(ops)[n].type = "cancel"
<1>1. DOMAIN ops = 1..Len(ops) /\ Len(ops) \in Nat
  OBVIOUS
<1>2. \A n \in 1..Len(ops) : CancelSqe(Address(ops[n], round)) \in SqEntry
  BY SqeOK
<1>3. \A i : CancelSqe(Address(i, round)).type = "cancel"
  BY Zenon DEF CancelSqe
<1> QED
  BY <1>1, <1>2, <1>3 DEF Cancels

(* Where the elements of two sequences are in the two put together. *)
LEMMA Concatenated ==
  ASSUME NEW S, NEW s \in Seq(S), NEW t \in Seq(S)
  PROVE  /\ s \o t \in Seq(S)
         /\ DOMAIN (s \o t) = 1..(Len(s) + Len(t))
         /\ \A n \in 1..Len(s) : (s \o t)[n] = s[n]
         /\ \A n \in 1..(Len(s) + Len(t)) :
              n > Len(s) => n - Len(s) \in 1..Len(t) /\ (s \o t)[n] = t[n - Len(s)]
         /\ Len(t) \in Nat
  OBVIOUS

(* start() adds one operation to the submission queue, late cancel or not. *)
LEMMA SqIssueIs ==
  ASSUME TypeOK, RingTypes, NEW i \in Ops, sq' = Append(sq, Sqe(i)) \o LateCancel(i)
  PROVE  SqIssued(Sqe(i))
<1>1. Sqe(i) \in SqEntry /\ Sqe(i).type = "op"
  BY SqeOK, Zenon DEF Sqe
<1>2. /\ LateCancel(i) \in Seq(SqEntry)
      /\ \A n \in DOMAIN LateCancel(i) : LateCancel(i)[n].type = "cancel"
  <2>1. <<i>> \in Seq(Ops) /\ <<>> \in Seq(SqEntry) /\ \A n \in DOMAIN <<>> : FALSE
    OBVIOUS
  <2>2. /\ Cancels(<<i>>) \in Seq(SqEntry)
        /\ \A n \in DOMAIN Cancels(<<i>>) : Cancels(<<i>>)[n].type = "cancel"
    BY <2>1, CancelsOK, Zenon
  <2> QED
    BY <2>1, <2>2, Zenon DEF LateCancel
<1> DEFINE s == Append(sq, Sqe(i))
           t == LateCancel(i)
<1>3. s \in Seq(SqEntry) /\ Len(s) = Len(sq) + 1 /\ s[Len(sq) + 1] = Sqe(i)
      /\ Len(sq) \in Nat /\ DOMAIN sq = 1..Len(sq) /\ \A n \in 1..Len(sq) : s[n] = sq[n]
  BY <1>1 DEF RingTypes
<1>4. t \in Seq(SqEntry) /\ \A n \in 1..Len(t) : t[n].type = "cancel"
  BY <1>2
<1>5. sq' = s \o t
  OBVIOUS
<1> HIDE DEF s, t
<1>6. /\ sq' \in Seq(SqEntry)
      /\ DOMAIN sq' = 1..(Len(s) + Len(t))
      /\ \A n \in 1..Len(s) : sq'[n] = s[n]
      /\ \A n \in 1..(Len(s) + Len(t)) :
           n > Len(s) => n - Len(s) \in 1..Len(t) /\ sq'[n] = t[n - Len(s)]
      /\ Len(t) \in Nat
  <2>1. s \in Seq(SqEntry) /\ t \in Seq(SqEntry)
    BY <1>3, <1>4, Zenon
  <2>2. /\ s \o t \in Seq(SqEntry)
        /\ DOMAIN (s \o t) = 1..(Len(s) + Len(t))
        /\ \A n \in 1..Len(s) : (s \o t)[n] = s[n]
        /\ \A n \in 1..(Len(s) + Len(t)) :
             n > Len(s) => n - Len(s) \in 1..Len(t) /\ (s \o t)[n] = t[n - Len(s)]
        /\ Len(t) \in Nat
    BY <2>1, Concatenated, Zenon
  <2> QED
    BY <1>5, <2>2, Zenon
<1>7. /\ \A n \in DOMAIN sq : sq'[n] = sq[n]
      /\ sq'[Len(sq) + 1] = Sqe(i)
  BY <1>3, <1>6
<1>8. \A n \in DOMAIN sq' : n > Len(sq) + 1 => sq'[n].type = "cancel"
  BY <1>3, <1>4, <1>6
<1>9. DOMAIN sq' \cap (1..Len(sq)) = DOMAIN sq /\ Len(sq) + 1 \in DOMAIN sq'
  BY <1>3, <1>6
<1>10. \A n \in DOMAIN sq' : n \in DOMAIN sq \/ n = Len(sq) + 1 \/ n > Len(sq) + 1
  BY <1>3, <1>6
<1>11. \A n : n \in Issued' <=> n \in Issued \cup {Len(sq) + 1}
  BY <1>1, <1>7, <1>8, <1>9, <1>10, Zenon DEF Issued
<1> QED
  BY <1>6, <1>7, <1>11, Zenon DEF SqIssued

(* Queued behind the operations, cancel entries change nothing for them.   *)
LEMMA SqCancels ==
  ASSUME TypeOK, RingTypes, NEW t \in Seq(SqEntry), \A n \in DOMAIN t : t[n].type = "cancel",
         sq' = sq \o t
  PROVE  SqSame
<1>1. /\ sq' \in Seq(SqEntry)
      /\ DOMAIN sq' = 1..(Len(sq) + Len(t))
      /\ \A n \in 1..Len(sq) : sq'[n] = sq[n]
      /\ \A n \in 1..(Len(sq) + Len(t)) :
           n > Len(sq) => n - Len(sq) \in DOMAIN t /\ sq'[n] = t[n - Len(sq)]
      /\ Len(t) \in Nat
      /\ Len(sq) \in Nat /\ DOMAIN sq = 1..Len(sq)
  BY DEF RingTypes
<1>2. \A n \in DOMAIN sq' : n > Len(sq) => sq'[n].type = "cancel"
  BY <1>1, Zenon
<1>3. \A n : n \in Issued' <=> n \in Issued
  BY <1>1, <1>2 DEF Issued
<1> QED
  BY <1>1, <1>3, Zenon DEF SqSame, Issued

(* An operation that was nowhere is at one place once it is in the         *)
(* submission queue.                                                       *)
LEMMA RingsIssue ==
  ASSUME TypeOK, RingTypes, OnePlace, UNCHANGED <<setup, round, cq, kernel>>,
         NEW i \in Ops, SqIssued(Sqe(i)), <<i, round>> \notin InUse
  PROVE  RingTypes' /\ OnePlace'
<1>0. Framed /\ GroupOK
  BY FrameIs, GroupIs, Zenon
<1> DEFINE z == Len(sq) + 1
<1>1. /\ z \notin Issued
      /\ Issued' = Issued \cup {z}
      /\ \A n \in Issued : sq'[n] = sq[n]
      /\ sq'[z] = Sqe(i)
      /\ sq' \in Seq(SqEntry)
      /\ Arrived' = Arrived
  BY DEF SqIssued, Issued, RingTypes, Arrived
<1>2. /\ \A n \in Issued : ~Same(sq[n], Sqe(i))
      /\ \A k \in kernel : ~Same(Sqe(i), k)
      /\ \A n \in Arrived : ~Same(Sqe(i), cq[n])
  BY Zenon DEF InUse, Issued, Arrived, Same, Sqe
<1>3. Known(Sqe(i))
  BY DEF Known, Sqe, TypeOK
<1> HIDE DEF z
<1>4. RingTypes'
  <2>1. ASSUME NEW n \in Issued' PROVE Known(sq[n])'
    <3>1. Known(sq'[n])
      BY <1>1, <1>3, Zenon DEF RingTypes
    <3> QED
      BY <1>0, <3>1, Zenon DEF Framed, Known, Address
  <2>2. ASSUME NEW k \in kernel' PROVE Known(k)' /\ (k.sent => Kind'[k.op] = "zerocopy")
    BY <1>0, Zenon DEF RingTypes, Framed, Known, Address
  <2>3. ASSUME NEW n \in Arrived'
        PROVE  /\ Known(cq[n])'
               /\ cq'[n].notif => Kind'[cq'[n].op] = "zerocopy" /\ ~cq'[n].more
               /\ Kind'[cq'[n].op] = "single" => ~cq'[n].more
    BY <1>0, <1>1, Zenon DEF RingTypes, Framed, Known, Address
  <2>4. sq' \in Seq(SqEntry') /\ cq' \in Seq(CqEntry') /\ kernel' \subseteq Submitted'
    BY <1>0, <1>1, Zenon DEF RingTypes, Framed
  <2> QED
    BY <2>1, <2>2, <2>3, <2>4, Zenon DEF RingTypes
<1>5. OnePlace'
  <2>1. \A m, n \in Issued' : Same(sq'[m], sq'[n]) => m = n
    BY <1>1, <1>2 DEF OnePlace, Same
  <2>2. \A n \in Issued', k \in kernel' : ~Same(sq'[n], k)
    BY <1>1, <1>2 DEF OnePlace
  <2>3. \A n \in Issued', m \in Arrived' : ~Same(sq'[n], cq'[m])
    BY <1>1, <1>2 DEF OnePlace
  <2>4. /\ \A k, l \in kernel' : Same(k, l) => k = l
        /\ \A k \in kernel', m \in Arrived' :
             Same(k, cq'[m]) => cq'[m].more /\ (Kind'[k.op] = "zerocopy" => k.sent)
        /\ \A m, n \in Arrived' :
             m < n /\ Same(cq'[m], cq'[n]) =>
               cq'[m].more /\ (Kind'[cq'[m].op] = "zerocopy" => cq'[n].notif)
        /\ \A m \in Arrived' :
             cq'[m].more => \/ \E k \in kernel' : Same(k, cq'[m])
                            \/ \E n \in Arrived' : m < n /\ Same(cq'[m], cq'[n])
    BY <1>0, <1>1, Zenon DEF OnePlace, Framed
  <2> QED
    BY <2>1, <2>2, <2>3, <2>4, Zenon DEF OnePlace
<1> QED
  BY <1>4, <1>5, Zenon

(* The first entry leaves the submission queue.                            *)
SqTaken ==
  /\ sq' \in Seq(SqEntry)
  /\ 1 \in DOMAIN sq /\ Head(sq) = sq[1]
  /\ \A n \in DOMAIN sq' : n \in Nat /\ n + 1 \in DOMAIN sq /\ sq'[n] = sq[n + 1]
  /\ \A n \in DOMAIN sq :
       n \in Nat /\ 0 < n /\ (1 < n => n - 1 \in DOMAIN sq' /\ sq'[n - 1] = sq[n])

(* The kernel takes the first entry. *)
LEMMA SqTakenIs ==
  ASSUME RingTypes, sq # <<>>, sq' = Tail(sq)
  PROVE  SqTaken
  BY DEF SqTaken, RingTypes

(* What the kernel makes of an operation it is given.                      *)
Taken(e) ==
  [op |-> e.op, gen |-> e.gen, addr |-> e.addr, shots |-> 0, cancelled |-> FALSE,
   sent |-> FALSE]

(* An operation moves from the submission queue into the kernel. *)
LEMMA RingsSubmitOp ==
  ASSUME TypeOK, RingTypes, OnePlace, UNCHANGED <<setup, round, cq>>,
         SqTaken, sq[1].type = "op", kernel' = kernel \cup {Taken(sq[1])}
  PROVE  RingTypes' /\ OnePlace'
<1>0. Framed /\ GroupOK
  BY FrameIs, GroupIs, Zenon
<1>1. /\ \A n \in Issued' : n + 1 \in Issued /\ sq'[n] = sq[n + 1] /\ n + 1 # 1 /\ n \in Nat
      /\ 1 \in Issued
      /\ Arrived' = Arrived
  BY DEF SqTaken, Issued, Arrived
<1> DEFINE e == sq[1]
           r == Taken(e)
<1>2. /\ r.op = e.op /\ r.gen = e.gen /\ r.addr = e.addr /\ ~r.sent
      /\ e \in SqEntry
      /\ Known(e)
  BY <1>1 DEF Taken, RingTypes, SqTaken
<1>3. r \in Submitted /\ Known(r)
  BY <1>2, Zenon DEF Taken, Submitted, SqEntry, Known
<1>4. /\ \A n \in Issued' : ~Same(sq'[n], r)
      /\ \A k \in kernel : ~Same(r, k) /\ ~Same(k, r)
      /\ \A n \in Arrived : ~Same(r, cq[n])
  BY <1>1, <1>2 DEF OnePlace, Same
<1>5. kernel' = kernel \cup {r}
  OBVIOUS
<1> HIDE DEF r, e
<1>6. RingTypes'
  <2>1. ASSUME NEW n \in Issued' PROVE Known(sq[n])'
    <3>1. Known(sq[n + 1])
      BY <1>1, Zenon DEF RingTypes
    <3> QED
      BY <1>0, <1>1, <3>1, Zenon DEF Framed, Known, Address
  <2>2. ASSUME NEW k \in kernel' PROVE Known(k)' /\ (k.sent => Kind'[k.op] = "zerocopy")
    <3>1. Known(k) /\ (k.sent => Kind[k.op] = "zerocopy")
      BY <1>2, <1>3, <1>5, Zenon DEF RingTypes
    <3> QED
      BY <1>0, <3>1, Zenon DEF Framed, Known, Address
  <2>3. ASSUME NEW n \in Arrived'
        PROVE  /\ Known(cq[n])'
               /\ cq'[n].notif => Kind'[cq'[n].op] = "zerocopy" /\ ~cq'[n].more
               /\ Kind'[cq'[n].op] = "single" => ~cq'[n].more
    BY <1>0, <1>1, Zenon DEF RingTypes, Framed, Known, Address
  <2>4. sq' \in Seq(SqEntry') /\ cq' \in Seq(CqEntry') /\ kernel' \subseteq Submitted'
    BY <1>0, <1>3, <1>5, Zenon DEF RingTypes, Framed, SqTaken
  <2> QED
    BY <2>1, <2>2, <2>3, <2>4, Zenon DEF RingTypes
<1>7. OnePlace'
  <2>1. ASSUME NEW m \in Issued', NEW n \in Issued', Same(sq'[m], sq'[n])
        PROVE  m = n
    <3>1. m + 1 = n + 1
      BY <1>1, <2>1 DEF OnePlace
    <3> QED
      BY <1>1, <3>1
  <2>2. \A n \in Issued', k \in kernel' : ~Same(sq'[n], k)
    BY <1>1, <1>4, <1>5, Zenon DEF OnePlace
  <2>3. \A n \in Issued', m \in Arrived' : ~Same(sq'[n], cq'[m])
    BY <1>1, Zenon DEF OnePlace
  <2>4. \A k, l \in kernel' : Same(k, l) => k = l
    BY <1>4, <1>5 DEF OnePlace
  <2>5. \A k \in kernel', m \in Arrived' :
             Same(k, cq'[m]) => cq'[m].more /\ (Kind'[k.op] = "zerocopy" => k.sent)
    BY <1>0, <1>1, <1>4, <1>5 DEF OnePlace, Framed
  <2>6. /\ \A m, n \in Arrived' :
             m < n /\ Same(cq'[m], cq'[n]) =>
               cq'[m].more /\ (Kind'[cq'[m].op] = "zerocopy" => cq'[n].notif)
        /\ \A m \in Arrived' :
             cq'[m].more => \/ \E k \in kernel' : Same(k, cq'[m])
                            \/ \E n \in Arrived' : m < n /\ Same(cq'[m], cq'[n])
    BY <1>0, <1>1, <1>5, Zenon DEF OnePlace, Framed
  <2> QED
    BY <2>1, <2>2, <2>3, <2>4, <2>5, <2>6, Zenon DEF OnePlace
<1> QED
  BY <1>6, <1>7, Zenon

(* What a cancel entry for an address makes of a submitted operation.      *)
Struck(k, a) == [k EXCEPT !.cancelled = @ \/ (k.addr = a /\ ~k.sent)]

(* Only the mark changes. *)
LEMMA StruckIs ==
  ASSUME NEW k \in Submitted, NEW a
  PROVE  /\ Struck(k, a) \in Submitted
         /\ Struck(k, a).op = k.op
         /\ Struck(k, a).gen = k.gen
         /\ Struck(k, a).addr = k.addr
         /\ Struck(k, a).sent = k.sent
         /\ Struck(k, a).cancelled = (k.cancelled \/ (k.addr = a /\ ~k.sent))
  BY Zenon DEF Struck, Submitted

(* A cancel entry moves no operation. *)
LEMMA RingsSubmitCancel ==
  ASSUME TypeOK, RingTypes, OnePlace, UNCHANGED <<setup, round, cq>>,
         SqTaken, sq[1].type # "op", NEW a, kernel' = {Struck(k, a) : k \in kernel}
  PROVE  RingTypes' /\ OnePlace'
<1>0. Framed /\ GroupOK
  BY FrameIs, GroupIs, Zenon
<1>1. /\ \A n \in Issued' : n + 1 \in Issued /\ sq'[n] = sq[n + 1] /\ n + 1 # 1 /\ n \in Nat
      /\ Arrived' = Arrived
  BY Zenon DEF SqTaken, Issued, Arrived
<1>2. \A l \in kernel : /\ Struck(l, a) \in Submitted
                        /\ Struck(l, a).op = l.op
                        /\ Struck(l, a).gen = l.gen
                        /\ Struck(l, a).addr = l.addr
                        /\ Struck(l, a).sent = l.sent
  BY StruckIs DEF RingTypes
<1>3. \A l \in kernel : \A x : /\ Same(x, Struck(l, a)) <=> Same(x, l)
                               /\ Same(Struck(l, a), x) <=> Same(l, x)
  BY <1>2, Zenon DEF Same
<1>6. RingTypes'
  <2>1. ASSUME NEW n \in Issued' PROVE Known(sq[n])'
    <3>1. Known(sq[n + 1])
      BY <1>1, Zenon DEF RingTypes
    <3> QED
      BY <1>0, <1>1, <3>1, Zenon DEF Framed, Known, Address
  <2>2. ASSUME NEW k \in kernel'
        PROVE  k \in Submitted /\ Known(k)' /\ (k.sent => Kind'[k.op] = "zerocopy")
    <3>1. PICK l \in kernel : k = Struck(l, a)
      OBVIOUS
    <3>2. Known(l) /\ (l.sent => Kind[l.op] = "zerocopy")
      BY <3>1, Zenon DEF RingTypes
    <3> QED
      BY <1>0, <1>2, <3>1, <3>2, Zenon DEF Framed, Known, Address
  <2>3. ASSUME NEW n \in Arrived'
        PROVE  /\ Known(cq[n])'
               /\ cq'[n].notif => Kind'[cq'[n].op] = "zerocopy" /\ ~cq'[n].more
               /\ Kind'[cq'[n].op] = "single" => ~cq'[n].more
    BY <1>0, <1>1, Zenon DEF RingTypes, Framed, Known, Address
  <2>4. sq' \in Seq(SqEntry') /\ cq' \in Seq(CqEntry') /\ kernel' \subseteq Submitted'
    BY <1>0, <2>2, Zenon DEF RingTypes, Framed, SqTaken
  <2> QED
    BY <2>1, <2>2, <2>3, <2>4, Zenon DEF RingTypes
<1>7. OnePlace'
  <2>1. ASSUME NEW m \in Issued', NEW n \in Issued', Same(sq'[m], sq'[n])
        PROVE  m = n
    <3>1. m + 1 = n + 1
      BY <1>1, <2>1, Zenon DEF OnePlace
    <3> QED
      BY <1>1, <3>1
  <2>2. \A n \in Issued', k \in kernel' : ~Same(sq'[n], k)
    BY <1>1, <1>3 DEF OnePlace
  <2>3. \A n \in Issued', m \in Arrived' : ~Same(sq'[n], cq'[m])
    BY <1>1, Zenon DEF OnePlace
  <2>4. ASSUME NEW k \in kernel', NEW l \in kernel', Same(k, l) PROVE k = l
    <3>1. PICK x \in kernel : k = Struck(x, a)
      OBVIOUS
    <3>2. PICK y \in kernel : l = Struck(y, a)
      OBVIOUS
    <3>3. x = y
      BY <1>3, <2>4, <3>1, <3>2, Zenon DEF OnePlace
    <3> QED
      BY <3>1, <3>2, <3>3, Zenon
  <2>5. ASSUME NEW k \in kernel', NEW m \in Arrived', Same(k, cq'[m])
        PROVE  cq'[m].more /\ (Kind'[k.op] = "zerocopy" => k.sent)
    <3>1. PICK l \in kernel : k = Struck(l, a)
      OBVIOUS
    <3>2. Same(l, cq[m]) /\ m \in Arrived
      BY <1>1, <1>3, <2>5, <3>1, Zenon
    <3>3. cq[m].more /\ (Kind[l.op] = "zerocopy" => l.sent)
      BY <3>2, Zenon DEF OnePlace
    <3> QED
      BY <1>0, <1>2, <3>1, <3>3, Zenon DEF Framed
  <2>6. \A m, n \in Arrived' :
             m < n /\ Same(cq'[m], cq'[n]) =>
               cq'[m].more /\ (Kind'[cq'[m].op] = "zerocopy" => cq'[n].notif)
    BY <1>0, <1>1, Zenon DEF OnePlace, Framed
  <2>7. \A l \in kernel : \A x : Same(l, x) => \E k \in kernel' : Same(k, x)
    BY <1>3
  <2>8. \A m \in Arrived' :
             cq'[m].more => \/ \E k \in kernel' : Same(k, cq'[m])
                            \/ \E n \in Arrived' : m < n /\ Same(cq'[m], cq'[n])
    BY <1>1, <2>7, Zenon DEF OnePlace
  <2> QED
    BY <2>1, <2>2, <2>3, <2>4, <2>5, <2>6, <2>8, Zenon DEF OnePlace
<1> QED
  BY <1>6, <1>7, Zenon

(* The kernel reports a completion c of operation k and goes on with K,    *)
(* which is k with its new state or nothing.                               *)
Report(k, c, K) ==
  /\ cq' = Append(cq, c)
  /\ kernel' = (kernel \ {k}) \cup K
  /\ c \in CqEntry
  /\ c.type = "Common"
  /\ c.op = k.op /\ c.gen = k.gen /\ c.addr = k.addr
  /\ c.res = "ECANCELED" => k.cancelled
  /\ c.more <=> K # {}
  /\ c.notif <=> k.sent
  /\ c.notif => ~c.more
  /\ Kind[k.op] = "single" => ~c.more
  /\ \A l \in K : /\ l \in Submitted
                  /\ Same(l, k)
                  /\ l.addr = k.addr
                  /\ l.cancelled = k.cancelled
                  /\ l.sent <=> Kind[k.op] = "zerocopy"
  /\ \A l, m \in K : l = m

(* A multishot operation reports a shot and stays in the kernel, *)
LEMMA ShotReports ==
  ASSUME TypeOK, RingTypes, NEW k \in kernel, Shot(k)
  PROVE  \E c, K : Report(k, c, K)
<1> DEFINE c == Cqe(k, "ok", TRUE, FALSE)
           r == [k EXCEPT !.shots = @ + 1]
<1>1. /\ c \in CqEntry
      /\ c.type = "Common" /\ c.op = k.op /\ c.gen = k.gen /\ c.addr = k.addr
      /\ c.res = "ok" /\ c.more /\ ~c.notif
  BY DEF RingTypes, Cqe, CqEntry, Submitted
<1>2. /\ r \in Submitted /\ r.op = k.op /\ r.gen = k.gen /\ r.addr = k.addr
      /\ r.cancelled = k.cancelled /\ r.sent = k.sent
  <2>1. k \in Submitted /\ k.shots + 1 \in Nat
    BY DEF RingTypes, Submitted
  <2> QED
    BY <2>1, Zenon DEF Submitted
<1>3. Kind[k.op] = "multi" /\ ~k.sent
  BY Zenon DEF Shot, RingTypes
<1>4. cq' = Append(cq, c) /\ kernel' = (kernel \ {k}) \cup {r}
  BY Zenon DEF Shot
<1> HIDE DEF c, r
<1>5. Report(k, c, {r})
  BY <1>1, <1>2, <1>3, <1>4, Zenon DEF Report, Same
<1> QED
  BY <1>5, Zenon

(* a zero-copy one reports its result and stays for the notification, *)
LEMMA SentReports ==
  ASSUME TypeOK, RingTypes, NEW k \in kernel, Sent(k)
  PROVE  \E c, K : Report(k, c, K)
<1> DEFINE c == Cqe(k, "ok", TRUE, FALSE)
           r == [k EXCEPT !.sent = TRUE]
<1>1. /\ c \in CqEntry
      /\ c.type = "Common" /\ c.op = k.op /\ c.gen = k.gen /\ c.addr = k.addr
      /\ c.res = "ok" /\ c.more /\ ~c.notif
  BY DEF RingTypes, Cqe, CqEntry, Submitted
<1>2. /\ r \in Submitted /\ r.op = k.op /\ r.gen = k.gen /\ r.addr = k.addr
      /\ r.cancelled = k.cancelled /\ r.sent
  BY Zenon DEF RingTypes, Submitted
<1>3. Kind[k.op] = "zerocopy" /\ ~k.sent
  BY Zenon DEF Sent
<1>4. cq' = Append(cq, c) /\ kernel' = (kernel \ {k}) \cup {r}
  BY Zenon DEF Sent
<1> HIDE DEF c, r
<1>5. Report(k, c, {r})
  BY <1>1, <1>2, <1>3, <1>4, Zenon DEF Report, Same
<1> QED
  BY <1>5, Zenon

(* which is its last completion, *)
LEMMA NotifyReports ==
  ASSUME TypeOK, RingTypes, NEW k \in kernel, Notify(k)
  PROVE  \E c, K : Report(k, c, K)
<1> DEFINE c == Cqe(k, "ok", FALSE, TRUE)
<1>1. /\ c \in CqEntry
      /\ c.type = "Common" /\ c.op = k.op /\ c.gen = k.gen /\ c.addr = k.addr
      /\ c.res = "ok" /\ ~c.more /\ c.notif
  BY DEF RingTypes, Cqe, CqEntry, Submitted
<1>2. k.sent /\ cq' = Append(cq, c) /\ kernel' = (kernel \ {k}) \cup {}
  BY Zenon DEF Notify
<1> HIDE DEF c
<1>3. Report(k, c, {})
  BY <1>1, <1>2, Zenon DEF Report
<1> QED
  BY <1>3, Zenon

(* and every other completion takes its operation out of the kernel. *)
LEMMA CompleteReports ==
  ASSUME TypeOK, RingTypes, NEW k \in kernel, NEW res \in {"ok", "ECANCELED"},
         Complete(k, res)
  PROVE  \E c, K : Report(k, c, K)
<1> DEFINE c == Cqe(k, res, FALSE, FALSE)
<1>1. /\ c \in CqEntry
      /\ c.type = "Common" /\ c.op = k.op /\ c.gen = k.gen /\ c.addr = k.addr
      /\ c.res = res /\ ~c.more /\ ~c.notif
  BY Zenon DEF RingTypes, Cqe, CqEntry, Submitted
<1>2. /\ ~k.sent /\ cq' = Append(cq, c) /\ kernel' = (kernel \ {k}) \cup {}
      /\ res = "ECANCELED" => k.cancelled
  BY Zenon DEF Complete
<1> HIDE DEF c
<1>3. Report(k, c, {})
  BY <1>1, <1>2, Zenon DEF Report
<1> QED
  BY <1>3, Zenon

(* The completion goes to the end of the completion queue. *)
LEMMA CqReports ==
  ASSUME RingTypes, NEW c \in CqEntry, c.type = "Common", cq' = Append(cq, c)
  PROVE  /\ cq' \in Seq(CqEntry)
         /\ DOMAIN cq' = DOMAIN cq \cup {Len(cq) + 1}
         /\ Len(cq) + 1 \notin Arrived
         /\ Arrived' = Arrived \cup {Len(cq) + 1}
         /\ \A n \in Arrived : n < Len(cq) + 1 /\ cq'[n] = cq[n]
         /\ cq'[Len(cq) + 1] = c
<1>1. /\ cq' \in Seq(CqEntry)
      /\ DOMAIN cq' = 1..Len(cq) + 1
      /\ DOMAIN cq = 1..Len(cq)
      /\ Len(cq) \in Nat
      /\ \A n \in DOMAIN cq : cq'[n] = cq[n]
      /\ cq'[Len(cq) + 1] = c
  BY DEF RingTypes
<1>2. \A n : n \in Arrived' <=> n \in Arrived \cup {Len(cq) + 1}
  BY <1>1 DEF Arrived
<1>3. DOMAIN cq' = DOMAIN cq \cup {Len(cq) + 1}
  BY <1>1
<1> QED
  BY <1>1, <1>2, <1>3 DEF Arrived

(* A report leaves an operation in the kernel only if more is to come. *)
LEMMA RingsReport ==
  ASSUME TypeOK, RingTypes, OnePlace, UNCHANGED <<setup, round, sq>>,
         NEW k \in kernel, NEW c, NEW K, Report(k, c, K)
  PROVE  RingTypes' /\ OnePlace'
<1>0. Framed /\ GroupOK
  BY FrameIs, GroupIs, Zenon
<1> DEFINE z == Len(cq) + 1
<1>1. /\ cq' \in Seq(CqEntry)
      /\ z \notin Arrived
      /\ Arrived' = Arrived \cup {z}
      /\ \A n \in Arrived : n < z /\ ~(z < n) /\ cq'[n] = cq[n]
      /\ ~(z < z)
      /\ cq'[z] = c
      /\ Issued' = Issued
  <2>1. /\ c \in CqEntry /\ c.type = "Common" /\ cq' = Append(cq, c)
        /\ Len(cq) \in Nat /\ \A n \in Arrived : n \in Nat
    BY DEF Report, RingTypes, Arrived
  <2>2. /\ cq' \in Seq(CqEntry)
        /\ z \notin Arrived
        /\ Arrived' = Arrived \cup {z}
        /\ \A n \in Arrived : n < z /\ cq'[n] = cq[n]
        /\ cq'[z] = c
    BY <2>1, CqReports, Zenon
  <2>3. ~(z < z) /\ \A n \in Arrived : ~(z < n)
    BY <2>1, <2>2
  <2> QED
    BY <2>2, <2>3, Zenon DEF Issued
<1> HIDE DEF z
<1>2. Known(k) /\ (k.sent => Kind[k.op] = "zerocopy")
  BY Zenon DEF RingTypes
<1>3. /\ Known(c)
      /\ c.notif => Kind[c.op] = "zerocopy" /\ ~c.more
      /\ Kind[c.op] = "single" => ~c.more
  BY <1>2, Zenon DEF Report, Known
<1>4. \A x : (Same(x, c) <=> Same(x, k)) /\ (Same(c, x) <=> Same(k, x))
  BY Zenon DEF Report, Same
<1>5. \A l \in K : \A x : (Same(x, l) <=> Same(x, k)) /\ (Same(l, x) <=> Same(k, x))
  BY Zenon DEF Report, Same
<1>6. kernel' = (kernel \ {k}) \cup K
  BY Zenon DEF Report
<1>7. RingTypes'
  <2>1. ASSUME NEW n \in Issued' PROVE Known(sq[n])'
    BY <1>0, <1>1, Zenon DEF RingTypes, Framed, Known, Address
  <2>2. ASSUME NEW l \in kernel'
        PROVE  l \in Submitted /\ Known(l)' /\ (l.sent => Kind'[l.op] = "zerocopy")
    <3>1. l \in Submitted /\ Known(l) /\ (l.sent => Kind[l.op] = "zerocopy")
      <4>1. CASE l \in kernel
        BY <4>1, Zenon DEF RingTypes
      <4>2. CASE l \in K
        BY <1>2, <4>2, Zenon DEF Report, Known, Same
      <4> QED
        BY <1>6, <4>1, <4>2, Zenon
    <3> QED
      BY <1>0, <3>1, Zenon DEF Framed, Known, Address
  <2>3. ASSUME NEW n \in Arrived'
        PROVE  /\ Known(cq[n])'
               /\ cq'[n].notif => Kind'[cq'[n].op] = "zerocopy" /\ ~cq'[n].more
               /\ Kind'[cq'[n].op] = "single" => ~cq'[n].more
    <3>1. /\ Known(cq'[n])
          /\ cq'[n].notif => Kind[cq'[n].op] = "zerocopy" /\ ~cq'[n].more
          /\ Kind[cq'[n].op] = "single" => ~cq'[n].more
      BY <1>1, <1>3, Zenon DEF RingTypes
    <3> QED
      BY <1>0, <3>1, Zenon DEF Framed, Known, Address
  <2>4. sq' \in Seq(SqEntry') /\ cq' \in Seq(CqEntry') /\ kernel' \subseteq Submitted'
    BY <1>0, <1>1, <2>2, Zenon DEF RingTypes, Framed
  <2> QED
    BY <2>1, <2>2, <2>3, <2>4, Zenon DEF RingTypes
<1>8. OnePlace'
  <2>1. \A m, n \in Issued' : Same(sq'[m], sq'[n]) => m = n
    BY <1>1, Zenon DEF OnePlace
  <2>2. \A n \in Issued', l \in kernel' : ~Same(sq'[n], l)
    BY <1>1, <1>5, <1>6, Zenon DEF OnePlace
  <2>3. \A n \in Issued', m \in Arrived' : ~Same(sq'[n], cq'[m])
    BY <1>1, <1>4, Zenon DEF OnePlace
  <2>4. \A l, m \in kernel' : Same(l, m) => l = m
    <3>1. \A l \in kernel \ {k} : ~Same(l, k) /\ ~Same(k, l)
      BY Zenon DEF OnePlace, Same
    <3>2. \A l, m \in K : l = m
      BY Zenon DEF Report
    <3> QED
      BY <1>5, <1>6, <3>1, <3>2, Zenon DEF OnePlace
  <2>5. ASSUME NEW l \in kernel', NEW m \in Arrived', Same(l, cq'[m])
        PROVE  cq'[m].more /\ (Kind'[l.op] = "zerocopy" => l.sent)
    <3>1. CASE l \in kernel \ {k}
      <4>1. m \in Arrived
        BY <1>1, <1>4, <2>5, <3>1, Zenon DEF OnePlace
      <4> QED
        BY <1>0, <1>1, <2>5, <3>1, <4>1, Zenon DEF OnePlace, Framed
    <3>2. CASE l \in K
      <4>1. c.more /\ (Kind[l.op] = "zerocopy" => l.sent)
        BY <3>2, Zenon DEF Report, Same
      <4>2. m \in Arrived => cq'[m].more
        BY <1>1, <1>5, <2>5, <3>2, Zenon DEF OnePlace
      <4> QED
        BY <1>0, <1>1, <4>1, <4>2, Zenon DEF Framed
    <3> QED
      BY <1>6, <3>1, <3>2, Zenon
  <2>6. ASSUME NEW m \in Arrived', NEW n \in Arrived', m < n, Same(cq'[m], cq'[n])
        PROVE  cq'[m].more /\ (Kind'[cq'[m].op] = "zerocopy" => cq'[n].notif)
    <3>1. m \in Arrived
      BY <1>1, <2>6, Zenon
    <3>2. CASE n \in Arrived
      BY <1>0, <1>1, <2>6, <3>1, <3>2, Zenon DEF OnePlace, Framed
    <3>3. CASE n = z
      <4>1. Same(k, cq[m])
        BY <1>1, <1>4, <2>6, <3>1, <3>3, Zenon DEF Same
      <4>2. cq[m].more /\ (Kind[k.op] = "zerocopy" => k.sent) /\ k.op = cq[m].op
        BY <3>1, <4>1, Zenon DEF OnePlace, Same
      <4>3. c.notif <=> k.sent
        BY Zenon DEF Report
      <4>4. cq'[m] = cq[m] /\ cq'[n] = c /\ Kind' = Kind
        BY <1>0, <1>1, <3>1, <3>3, Zenon DEF Framed
      <4> QED
        BY <4>2, <4>3, <4>4
    <3> QED
      BY <1>1, <3>2, <3>3, Zenon
  <2>7. ASSUME NEW m \in Arrived', cq'[m].more
        PROVE  \/ \E l \in kernel' : Same(l, cq'[m])
               \/ \E n \in Arrived' : m < n /\ Same(cq'[m], cq'[n])
    <3>1. ASSUME Same(k, cq'[m]), K # {}
          PROVE  \E l \in kernel' : Same(l, cq'[m])
      BY <1>5, <1>6, <3>1, Zenon
    <3>2. CASE m = z
      <4>1. Same(k, cq'[m])
        BY <1>1, <1>4, <3>2, Zenon DEF Same
      <4>2. K # {}
        BY <1>1, <2>7, <3>2, Zenon DEF Report
      <4> QED
        BY <3>1, <4>1, <4>2, Zenon
    <3>3. CASE m \in Arrived
      <4>1. CASE Same(k, cq[m])
        <5>1. CASE K # {}
          BY <1>1, <3>1, <3>3, <4>1, <5>1, Zenon
        <5>2. z \in Arrived' /\ m < z /\ Same(cq'[m], cq'[z])
          <6>1. c.op = k.op /\ c.gen = k.gen
            BY Zenon DEF Report
          <6>2. cq[m].op = c.op /\ cq[m].gen = c.gen
            BY <4>1, <6>1 DEF Same
          <6>3. z \in Arrived' /\ m < z /\ cq'[m] = cq[m] /\ cq'[z] = c
            BY <1>1, <3>3, Zenon
          <6> QED
            BY <6>2, <6>3 DEF Same
        <5> QED
          BY <5>2, Zenon
      <4>2. CASE ~Same(k, cq[m])
        <5>1. \/ \E l \in kernel : Same(l, cq[m])
              \/ \E n \in Arrived : m < n /\ Same(cq[m], cq[n])
          BY <1>1, <2>7, <3>3, Zenon DEF OnePlace
        <5> QED
          BY <1>1, <1>6, <3>3, <4>2, <5>1, Zenon
      <4> QED
        BY <4>1, <4>2, Zenon
    <3> QED
      BY <1>1, <3>2, <3>3, Zenon
  <2> QED
    BY <2>1, <2>2, <2>3, <2>4, <2>5, <2>6, <2>7, Zenon DEF OnePlace
<1> QED
  BY <1>7, <1>8, Zenon

-----------------------------------------------------------------------------
(* What the steps on the rings do to the set of operations in use.         *)

Key(e) == <<e.op, e.gen>>

InUseOK ==
  \A u : u \in InUse <=> \/ \E n \in Issued : u = Key(sq[n])
                         \/ \E k \in kernel : u = Key(k)
                         \/ \E n \in Arrived : u = Key(cq[n])

(* An operation is in use if it is at one of the three places, *)
LEMMA InUseIs == InUseOK
  BY Zenon DEF InUseOK, InUse, Issued, Arrived, Key

(* now and after a step. *)
LEMMA InUseThen == InUseOK'
  BY InUseIs, PTL

(* Entries are for the same operation if and only if their keys agree. *)
LEMMA SameKey == \A a, b : Same(a, b) <=> Key(a) = Key(b)
  BY Zenon DEF Same, Key

(* A step that moves no operation leaves the operations in use alone. *)
LEMMA InUseKept ==
  ASSUME RingTypes, SqSame, UNCHANGED kernel, CqKept(0)
  PROVE  InUse' = InUse
<1>1. /\ \A n \in Arrived' : n \in Arrived /\ cq'[n] = cq[n]
      /\ \A n \in Arrived : n \in Arrived' /\ cq'[n] = cq[n]
  <2>1. \A n \in Arrived \cup Arrived' : n \in Nat /\ 0 < n /\ n + 0 = n /\ n - 0 = n
    BY DEF Arrived, CqKept, RingTypes
  <2> QED
    BY <2>1, Zenon DEF CqKept
<1>2. /\ \A n \in Issued' : n \in Issued /\ sq'[n] = sq[n]
      /\ \A n \in Issued : n \in Issued' /\ sq'[n] = sq[n]
  BY Zenon DEF SqSame
<1>3. \A u : u \in InUse' <=> u \in InUse
  BY <1>1, <1>2, InUseIs, InUseThen, Zenon DEF InUseOK, Key
<1> QED
  BY <1>3, Zenon

(* Taking a completion ends the use of its operation if it is the last     *)
(* one.                                                                    *)
LEMMA InUseReaped ==
  ASSUME RingTypes, OnePlace, SqSame, UNCHANGED kernel, CqKept(1), 1 \in DOMAIN cq
  PROVE  InUse' = IF 1 \in Arrived /\ ~cq[1].more THEN InUse \ {Key(cq[1])} ELSE InUse
<1>1. \A n \in Arrived \cup Arrived' : n \in Nat /\ 0 < n
  BY DEF Arrived, CqKept, RingTypes
<1>2. \A n \in Arrived' : n + 1 \in Arrived /\ cq'[n] = cq[n + 1] /\ 1 < n + 1 /\ n + 1 # 1
  BY <1>1 DEF CqKept
<1>3. \A n \in Arrived : n # 1 => n - 1 \in Arrived' /\ cq'[n - 1] = cq[n] /\ 1 < n
  BY <1>1 DEF CqKept
<1>4. /\ \A n \in Issued' : n \in Issued /\ sq'[n] = sq[n]
      /\ \A n \in Issued : n \in Issued' /\ sq'[n] = sq[n]
  BY Zenon DEF SqSame
<1>5. InUse' \subseteq InUse
  BY <1>2, <1>4, InUseIs, InUseThen, Zenon DEF InUseOK
<1>6. ASSUME NEW u \in InUse, 1 \in Arrived => u # Key(cq[1]) PROVE u \in InUse'
  <2>1. CASE \E n \in Arrived : u = Key(cq[n])
    <3>1. PICK n \in Arrived : u = Key(cq[n])
      BY <2>1, Zenon
    <3>2. n # 1
      BY <1>6, <3>1, Zenon
    <3> QED
      BY <1>3, <3>1, <3>2, InUseThen, Zenon DEF InUseOK
  <2> QED
    BY <1>4, <2>1, InUseIs, InUseThen, Zenon DEF InUseOK, Key
<1>7. ASSUME 1 \in Arrived, ~cq[1].more PROVE Key(cq[1]) \notin InUse'
  <2>1. \A n \in Issued : Key(sq[n]) # Key(cq[1])
    BY <1>7, SameKey, Zenon DEF OnePlace
  <2>2. \A k \in kernel : Key(k) # Key(cq[1])
    BY <1>7, SameKey, Zenon DEF OnePlace
  <2>3. \A n \in Arrived' : Key(cq'[n]) # Key(cq[1])
    BY <1>2, <1>7, SameKey, Zenon DEF OnePlace
  <2> QED
    BY <1>4, <2>1, <2>2, <2>3, InUseThen, Zenon DEF InUseOK
<1>8. ASSUME 1 \in Arrived, cq[1].more PROVE Key(cq[1]) \in InUse'
  <2>1. CASE \E k \in kernel : Same(k, cq[1])
    BY <2>1, SameKey, InUseThen, Zenon DEF InUseOK
  <2>2. CASE \E n \in Arrived : 1 < n /\ Same(cq[1], cq[n])
    <3>1. PICK n \in Arrived : 1 < n /\ Same(cq[1], cq[n])
      BY <2>2, Zenon
    <3>2. n - 1 \in Arrived' /\ Key(cq'[n - 1]) = Key(cq[1])
      BY <1>1, <1>3, <3>1, SameKey
    <3> QED
      BY <3>2, InUseThen, Zenon DEF InUseOK
  <2> QED
    BY <1>8, <2>1, <2>2, Zenon DEF OnePlace
<1> QED
  BY <1>5, <1>6, <1>7, <1>8

(* start() puts one in use. *)
LEMMA InUseIssued ==
  ASSUME RingTypes, UNCHANGED <<cq, kernel>>, NEW i, SqIssued(Sqe(i))
  PROVE  InUse' = InUse \cup {<<i, round>>}
<1>1. /\ Issued' = Issued \cup {Len(sq) + 1}
      /\ \A n \in Issued : sq'[n] = sq[n]
      /\ Key(sq'[Len(sq) + 1]) = <<i, round>>
      /\ Len(sq) + 1 \notin Issued
      /\ Arrived' = Arrived
  BY DEF SqIssued, Issued, Arrived, Key, Sqe, RingTypes
<1>2. \A n \in Issued' : n \in Issued \/ Key(sq'[n]) = <<i, round>>
  BY <1>1, Zenon
<1>3. \A u : u \in InUse' <=> u \in InUse \cup {<<i, round>>}
  BY <1>1, <1>2, InUseIs, InUseThen DEF InUseOK, Key
<1> QED
  BY <1>3, Zenon

(* Submitting an entry neither begins nor ends a use, *)
LEMMA InUseSubmitted ==
  ASSUME RingTypes, UNCHANGED cq, SqTaken,
         \/ sq[1].type = "op" /\ kernel' = kernel \cup {Taken(sq[1])}
         \/ sq[1].type # "op" /\ \E a : kernel' = {Struck(k, a) : k \in kernel}
  PROVE  InUse' = InUse
<1>1. \A n \in Issued' : n + 1 \in Issued /\ sq'[n] = sq[n + 1] /\ n + 1 # 1
  BY DEF SqTaken, Issued
<1>2. \A n \in Issued : n # 1 => n - 1 \in Issued' /\ sq'[n - 1] = sq[n]
  BY DEF SqTaken, Issued
<1>3. Arrived' = Arrived
  BY Zenon DEF Arrived
<1>4. CASE sq[1].type = "op" /\ kernel' = kernel \cup {Taken(sq[1])}
  <2>1. 1 \in Issued /\ Key(Taken(sq[1])) = Key(sq[1])
    BY <1>4, Zenon DEF Issued, SqTaken, Taken, Key
  <2>2. ASSUME NEW u \in InUse' PROVE u \in InUse
    BY <1>1, <1>3, <1>4, <2>1, InUseIs, InUseThen DEF InUseOK
  <2>3. ASSUME NEW u \in InUse PROVE u \in InUse'
    <3>1. CASE \E n \in Issued : u = Key(sq[n])
      BY <1>2, <1>4, <2>1, <3>1, InUseThen, Zenon DEF InUseOK
    <3> QED
      BY <1>3, <1>4, <3>1, InUseIs, InUseThen DEF InUseOK
  <2> QED
    BY <2>2, <2>3, Zenon
<1>5. CASE sq[1].type # "op" /\ \E a : kernel' = {Struck(k, a) : k \in kernel}
  <2>1. PICK a : kernel' = {Struck(k, a) : k \in kernel}
    BY <1>5, Zenon
  <2>2. \A k \in kernel : Key(Struck(k, a)) = Key(k)
    BY StruckIs, Zenon DEF RingTypes, Key
  <2>3. 1 \notin Issued
    BY <1>5, Zenon DEF Issued
  <2>4. ASSUME NEW u \in InUse' PROVE u \in InUse
    <3>1. CASE \E k \in kernel' : u = Key(k)
      <4>1. PICK k \in kernel' : u = Key(k)
        BY <3>1, Zenon
      <4>2. PICK l \in kernel : k = Struck(l, a)
        BY <2>1, Zenon
      <4> QED
        BY <2>2, <4>1, <4>2, InUseIs, Zenon DEF InUseOK
    <3> QED
      BY <1>1, <1>3, <3>1, InUseIs, InUseThen DEF InUseOK
  <2>5. ASSUME NEW u \in InUse PROVE u \in InUse'
    <3>1. CASE \E k \in kernel : u = Key(k)
      <4>1. PICK k \in kernel : u = Key(k)
        BY <3>1, Zenon
      <4>2. Struck(k, a) \in kernel' /\ u = Key(Struck(k, a))
        BY <2>1, <2>2, <4>1, Zenon
      <4> QED
        BY <4>2, InUseThen, Zenon DEF InUseOK
    <3>2. CASE \E n \in Issued : u = Key(sq[n])
      BY <1>2, <2>3, <3>2, InUseThen, Zenon DEF InUseOK
    <3> QED
      BY <1>3, <3>1, <3>2, InUseIs, InUseThen, Zenon DEF InUseOK
  <2> QED
    BY <2>4, <2>5, Zenon
<1> QED
  BY <1>4, <1>5, Zenon

(* nor does a report of the kernel. *)
LEMMA InUseReported ==
  ASSUME RingTypes, UNCHANGED sq, NEW k \in kernel, NEW c, NEW K, Report(k, c, K)
  PROVE  InUse' = InUse
<1>1. /\ Arrived' = Arrived \cup {Len(cq) + 1}
      /\ \A n \in Arrived : cq'[n] = cq[n]
      /\ cq'[Len(cq) + 1] = c
  BY CqReports, Zenon DEF Report
<1>2. Key(c) = Key(k) /\ \A l \in K : Key(l) = Key(k)
  BY Zenon DEF Report, Key, Same
<1>3. kernel' = (kernel \ {k}) \cup K /\ Issued' = Issued
  BY Zenon DEF Report, Issued
<1>4. ASSUME NEW u \in InUse' PROVE u \in InUse
  <2>1. CASE \E n \in Arrived' : u = Key(cq'[n])
    BY <1>1, <1>2, <2>1, InUseIs, Zenon DEF InUseOK
  <2>2. CASE \E l \in kernel' : u = Key(l)
    BY <1>2, <1>3, <2>2, InUseIs, Zenon DEF InUseOK
  <2> QED
    BY <1>3, <2>1, <2>2, InUseIs, InUseThen, Zenon DEF InUseOK
<1>5. ASSUME NEW u \in InUse PROVE u \in InUse'
  <2>1. CASE u = Key(k)
    BY <1>1, <1>2, <2>1, InUseThen, Zenon DEF InUseOK
  <2> QED
    BY <1>1, <1>3, <2>1, InUseIs, InUseThen DEF InUseOK
<1> QED
  BY <1>4, <1>5, Zenon

(* The entries name operations of the group. *)
LEMMA OpsTyped ==
  ASSUME RingTypes
  PROVE  /\ \A n \in Issued : sq[n].op \in Ops
         /\ \A n \in Arrived : cq[n].op \in Ops
<1>1. \A n \in Issued : sq[n] \in SqEntry
  BY DEF RingTypes, Issued
<1>2. \A n \in Arrived : cq[n] \in CqEntry
  BY DEF RingTypes, Arrived
<1> QED
  BY <1>1, <1>2, Zenon DEF SqEntry, CqEntry

(* Everything that io_uring knows is an operation of this round or before. *)
LEMMA InUseTyped ==
  ASSUME TypeOK, RingTypes
  PROVE  InUse \subseteq Ops \X (1..round)
<1>1. ASSUME NEW n \in Issued PROVE Key(sq[n]) \in Ops \X (1..round)
  <2>1. sq[n] \in SqEntry /\ Known(sq[n])
    BY DEF RingTypes, Issued
  <2> QED
    BY <2>1, Zenon DEF SqEntry, Known, Key
<1>2. \A k \in kernel : Key(k) \in Ops \X (1..round)
  BY Zenon DEF RingTypes, Submitted, Known, Key
<1>3. ASSUME NEW n \in Arrived PROVE Key(cq[n]) \in Ops \X (1..round)
  <2>1. cq[n] \in CqEntry /\ Known(cq[n])
    BY DEF RingTypes, Arrived
  <2> QED
    BY <2>1, Zenon DEF CqEntry, Known, Key
<1> QED
  BY <1>1, <1>2, <1>3, InUseIs, Zenon DEF InUseOK

(* request_stop executes callbacks of the await whose stop was requested.  *)
Stopping == outer = "running" \/ running # 0 => round \in requested.outside

(* A handle in use is the frame's own, of this round, or on the heap. *)
LEMMA LiveOf == Inv /\ Stopping => HandlesLive
<1> SUFFICES ASSUME Inv, Stopping PROVE HandlesLive
  OBVIOUS
<1> USE DEF Inv
<1>1. ASSUME NEW u \in InUse, Kind[u[1]] # "zerocopy"
      PROVE  u[2] = round /\ child[u[1]] = "pending" /\ co # "running"
  <2>1. u[2] = round /\ child[u[1]] = "pending" /\ u[1] \in Ops
    <3>1. CASE \E n \in Issued : u = Key(sq[n])
      BY <3>1, OpsTyped DEF Unfinished, Owed, Key
    <3>2. CASE \E k \in kernel : u = Key(k)
      <4>1. PICK k \in kernel : u = Key(k)
        BY <3>2, Zenon
      <4>2. u[1] = k.op /\ u[2] = k.gen
        BY <4>1 DEF Key
      <4>3. ~k.sent /\ k.op \in Ops
        BY <1>1, <4>2, Zenon DEF RingTypes, Submitted
      <4> QED
        BY <4>2, <4>3, Zenon DEF Unfinished, Owed
    <3>3. CASE \E n \in Arrived : u = Key(cq[n])
      <4>1. PICK n \in Arrived : u = Key(cq[n])
        BY <3>3, Zenon
      <4>2. u[1] = cq[n].op /\ u[2] = cq[n].gen
        BY <4>1 DEF Key
      <4>3. ~cq[n].notif /\ cq[n].op \in Ops
        BY <1>1, <4>2, OpsTyped, Zenon DEF RingTypes
      <4> QED
        BY <4>2, <4>3, Zenon DEF Unfinished, Owed
    <3> QED
      BY <3>1, <3>2, <3>3, InUseIs, Zenon DEF InUseOK
  <2> QED
    BY <2>1, Zenon DEF Progress, Done
<1> QED
  BY <1>1, Zenon DEF HandlesLive, Boxed, CallbackOfOwnStop, Stopping
-----------------------------------------------------------------------------

(* The winner of when_any is not one of those it has cancelled. *)
LEMMA WinnerOf == Inv => WinnerNotCancelled
<1> SUFFICES ASSUME Inv, setup.any, co = "running", requested.outside = {}
             PROVE  result[Winner] # "ECANCELED"
  BY Zenon DEF WinnerNotCancelled
<1>1. Done = Ops /\ Ops # {}
  BY GroupIs, Zenon DEF Inv, Progress, GroupOK
<1>2. order # <<>>
  BY <1>1 DEF Inv, Results
<1> QED
  BY <1>2, Zenon DEF Inv, Winning, Undisturbed, Winner

(* The group: results, and what the last one does.                         *)

(* The facts about cardinality the argument needs. *)
CardinalityLaws ==
  /\ IsFiniteSet({}) /\ Cardinality({}) = 0
  /\ \A S : IsFiniteSet(S) => Cardinality(S) \in Nat
  /\ \A S, x : IsFiniteSet(S) /\ x \notin S =>
       IsFiniteSet(S \cup {x}) /\ Cardinality(S \cup {x}) = Cardinality(S) + 1
  /\ \A S, x : IsFiniteSet(S) /\ x \in S =>
       IsFiniteSet(S \ {x}) /\ Cardinality(S \ {x}) = Cardinality(S) - 1
  /\ \A n \in Nat : IsFiniteSet(1..n) /\ Cardinality(1..n) = n
  /\ \A S, T : IsFiniteSet(T) /\ S \subseteq T =>
       IsFiniteSet(S) /\ (Cardinality(S) = Cardinality(T) => S = T)

(* The operations of a group are finitely many, so are those that are done *)
(* or have a callback.                                                     *)
LEMMA OpsFinite ==
  ASSUME CardinalityLaws, TypeOK, NEW S \in SUBSET Ops
  PROVE  /\ IsFiniteSet(S) /\ Cardinality(S) \in Nat
         /\ Cardinality(S) = N => S = Ops
         /\ Cardinality(Ops) = N
<1>1. N \in Nat /\ Ops = 1..N
  BY GroupIs, Zenon DEF GroupOK
<1>2. IsFiniteSet(Ops) /\ Cardinality(Ops) = N
  BY <1>1, Zenon DEF CardinalityLaws
<1> QED
  BY <1>2, Zenon DEF CardinalityLaws

(* What Receive does, whoever calls it.                                    *)
Received(i, res) ==
  /\ SqSame
  /\ running # i
  /\ callback' \in [Ops -> BOOLEAN]
  /\ \A j \in Ops : callback'[j] => callback[j] /\ j # i
  /\ stopped' \in BOOLEAN
  /\ child' = [child EXCEPT ![i] = "done"]
  /\ order' = Append(order, i)
  /\ result' = [result EXCEPT ![i] = res]
  /\ requested' \in [outside : SUBSET Nat, inside : SUBSET Nat]
  /\ requested'.outside = requested.outside
  /\ IF Len(order) + 1 = N
       THEN HandleResult
       ELSE UNCHANGED <<awaiter, co>>

(* A receiver stores its result, removes its callback and, the first of    *)
(* when_any, requests the stop of the others.                              *)
LEMMA ReceivedIs ==
  ASSUME CardinalityLaws, TypeOK, RingTypes, Winning, NEW i \in Ops, NEW res, Receive(i, res)
  PROVE  Received(i, res)
<1> DEFINE fire == setup.any /\ ~stopped
           targets == {j \in Ops \ {i} : callback[j]}
<1>0. GroupOK
  BY GroupIs, Zenon
<1>1. SqSame
  <2>1. CASE fire
    <3>1. PICK ops \in Orders(targets) : sq' = sq \o Cancels(ops)
      BY <2>1, Zenon DEF Receive
    <3>2. ops \in Seq(Ops)
      <4>1. Cardinality(targets) \in Nat
        BY OpsFinite, Zenon
      <4>2. ops \in [1..Cardinality(targets) -> targets]
        BY Zenon DEF Orders
      <4>3. targets \subseteq Ops
        OBVIOUS
      <4> HIDE DEF targets
      <4> QED
        BY <4>1, <4>2, <4>3
    <3> QED
      BY <3>1, <3>2, CancelsOK, SqCancels, Zenon
  <2>2. CASE ~fire
    BY <2>2, Zenon DEF Receive, SqSame, RingTypes, Issued
  <2> QED
    BY <2>1, <2>2, Zenon
<1>2. /\ running # i
      /\ child' = [child EXCEPT ![i] = "done"]
      /\ order' = Append(order, i)
      /\ result' = [result EXCEPT ![i] = res]
      /\ IF Len(order) + 1 = N THEN HandleResult ELSE UNCHANGED <<awaiter, co>>
  BY Zenon DEF Receive, ResetReturns, Recorded, Completes
<1>3. /\ callback' = [j \in Ops |-> callback[j] /\ j # i /\ ~fire]
      /\ stopped' = (stopped \/ setup.any)
      /\ requested' = IF setup.any THEN [requested EXCEPT !.inside = @ \cup {round}]
                                   ELSE requested
  BY Zenon DEF Receive
<1>4. stopped' \in BOOLEAN
  BY <1>3, Zenon
<1>5. callback' \in [Ops -> BOOLEAN] /\ \A j \in Ops : callback'[j] => callback[j] /\ j # i
  BY <1>3, Zenon
<1>6. /\ requested' \in [outside : SUBSET Nat, inside : SUBSET Nat]
      /\ requested'.outside = requested.outside
  <2>1. requested \in [outside : SUBSET Nat, inside : SUBSET Nat] /\ round \in Nat
    BY DEF Winning, TypeOK
  <2>2. requested.inside \cup {round} \in SUBSET Nat
    BY <2>1, Zenon
  <2> QED
    BY <1>3, <2>1, <2>2, Zenon
<1> QED
  BY <1>1, <1>2, <1>4, <1>5, <1>6, Zenon DEF Received

(* order has the operations that are done, each once, and it has N of them *)
(* when all are done.                                                      *)
LEMMA ResultsReceived ==
  ASSUME CardinalityLaws, TypeOK, Results, UNCHANGED setup, NEW i \in Ops, child[i] # "done",
         NEW res \in {"ok", "EINVAL", "ECANCELED"}, Received(i, res)
  PROVE  /\ Results'
         /\ Done' = Done \cup {i}
         /\ Len(order) + 1 = N <=> Done' = Ops
         /\ child' \in [Ops -> {"new", "pending", "done"}]
         /\ order' \in Seq(Ops)
         /\ result' \in [Ops -> {"none", "ok", "EINVAL", "ECANCELED"}]
<1>0. Ops' = Ops /\ N' = N
  BY FrameIs, Zenon DEF Framed
<1>1. /\ child' = [child EXCEPT ![i] = "done"]
      /\ order' = Append(order, i)
      /\ result' = [result EXCEPT ![i] = res]
  BY Zenon DEF Received
<1>2. /\ child' \in [Ops -> {"new", "pending", "done"}]
      /\ result' \in [Ops -> {"none", "ok", "EINVAL", "ECANCELED"}]
      /\ \A j \in Ops : child'[j] = IF j = i THEN "done" ELSE child[j]
      /\ \A j \in Ops : result'[j] = IF j = i THEN res ELSE result[j]
  BY <1>1, Zenon DEF TypeOK
<1>3. /\ order' \in Seq(Ops)
      /\ Len(order') = Len(order) + 1
      /\ Len(order) \in Nat
      /\ DOMAIN order' = DOMAIN order \cup {Len(order) + 1}
      /\ \A n \in DOMAIN order : order'[n] = order[n]
      /\ order'[Len(order) + 1] = i
  BY <1>1 DEF TypeOK
<1>4. Done' = Done \cup {i} /\ i \notin Done
  BY <1>0, <1>2, Zenon DEF Done
<1>5. Cardinality(Done \cup {i}) = Cardinality(Done) + 1
  <2>1. Done \subseteq Ops
    BY Zenon DEF Done
  <2> QED
    BY <1>4, <2>1, OpsFinite, Zenon DEF CardinalityLaws
<1>6. {order'[n] : n \in DOMAIN order'} = Done \cup {i}
  BY <1>3 DEF Results
<1>7. \A j \in Ops : result'[j] # "none" <=> j \in Done \cup {i}
  BY <1>2, Zenon DEF Results
<1>8. Results'
  BY <1>0, <1>3, <1>4, <1>5, <1>6, <1>7, Zenon DEF Results
<1>9. Len(order) + 1 = N <=> Done' = Ops
  <2>1. Done \cup {i} \subseteq Ops
    BY Zenon DEF Done
  <2>2. Cardinality(Done \cup {i}) = Len(order) + 1
    BY <1>5, Zenon DEF Results
  <2>3. Cardinality(Done \cup {i}) = N <=> Done \cup {i} = Ops
    BY <2>1, OpsFinite, Zenon
  <2> QED
    BY <1>4, <2>2, <2>3, Zenon
<1> QED
  BY <1>2, <1>3, <1>4, <1>8, <1>9, Zenon

-----------------------------------------------------------------------------
(* A step that leaves the completion queue alone, *)
LEMMA CqStays == ASSUME RingTypes, UNCHANGED cq PROVE CqKept(0)
<1>1. \A n \in Arrived : n \in Nat /\ n + 0 = n /\ n - 0 = n
  BY DEF Arrived, RingTypes
<1>2. Arrived' = Arrived
  BY Zenon DEF Arrived
<1> QED
  BY <1>1, <1>2, Zenon DEF CqKept, RingTypes

(* one that takes the first completion, *)
LEMMA CqReaped ==
  ASSUME RingTypes, cq # <<>>, cq' = Tail(cq)
  PROVE  CqKept(1) /\ 1 \in DOMAIN cq /\ Head(cq) = cq[1]
<1>1. /\ cq' \in Seq(CqEntry)
      /\ 1 \in DOMAIN cq /\ Head(cq) = cq[1]
      /\ \A n \in DOMAIN cq' : n + 1 \in DOMAIN cq /\ cq'[n] = cq[n + 1]
      /\ \A n \in DOMAIN cq : 1 < n => n - 1 \in DOMAIN cq' /\ cq'[n - 1] = cq[n]
  BY DEF RingTypes
<1> QED
  BY <1>1, Zenon DEF CqKept, Arrived

(* and one that leaves the submission queue alone. *)
LEMMA SqStays == ASSUME RingTypes, UNCHANGED sq PROVE SqSame
  BY Zenon DEF SqSame, RingTypes, Issued

(* What is owed stays owed where the operation's state stays.              *)
LEMMA UnfinishedKept ==
  ASSUME Unfinished, SqSame, NEW d \in {0, 1}, CqKept(d), UNCHANGED <<kernel, round>>,
         RingTypes, InUse' \subseteq InUse,
         \A u \in InUse : child'[u[1]] = "new" => child[u[1]] = "new",
         \A n \in Issued : child'[sq[n].op] = child[sq[n].op],
         \A k \in kernel : ~k.sent => child'[k.op] = child[k.op],
         \A n \in Arrived : d < n /\ ~cq[n].notif => child'[cq[n].op] = child[cq[n].op]
  PROVE  Unfinished'
<1>1. \A n \in Issued' : Owed(sq[n])'
  BY DEF Unfinished, Owed, SqSame
<1>2. \A k \in kernel' : ~k.sent => Owed(k)'
  BY Zenon DEF Unfinished, Owed
<1>3. ASSUME NEW n \in Arrived', ~cq'[n].notif PROVE Owed(cq[n])'
  <2>1. n + d \in Arrived /\ cq'[n] = cq[n + d] /\ d < n + d
    BY DEF CqKept, Arrived
  <2>2. Owed(cq[n + d]) /\ child'[cq[n + d].op] = child[cq[n + d].op]
    BY <1>3, <2>1, Zenon DEF Unfinished
  <2> QED
    BY <2>1, <2>2, Zenon DEF Owed
<1>4. \A u \in InUse' : u[2] = round' => child'[u[1]] # "new"
  BY Zenon DEF Unfinished
<1> QED
  BY <1>1, <1>2, <1>3, <1>4, Zenon DEF Unfinished

(* The first result of an undisturbed when_any is not ECANCELED, and later *)
(* ones leave it alone.                                                    *)
LEMMA WinningReceived ==
  ASSUME TypeOK, Results, Winning, UNCHANGED <<setup, outer, running>>,
         NEW i \in Ops, child[i] # "done", NEW res \in {"ok", "EINVAL", "ECANCELED"},
         Received(i, res),
         Undisturbed /\ order = <<>> => res # "ECANCELED",
         Arrived = DOMAIN cq => Arrived' = DOMAIN cq'
  PROVE  Winning'
<1>1. /\ requested' \in [outside : SUBSET Nat, inside : SUBSET Nat]
      /\ Undisturbed' <=> Undisturbed
  BY Zenon DEF Received, Undisturbed
<1>2. order' # <<>>
  BY DEF Received, TypeOK
<1>3. ASSUME Undisturbed PROVE result'[order'[1]] # "ECANCELED"
  <2>1. CASE order = <<>>
    <3>1. order'[1] = i /\ result'[i] = res
      BY <2>1 DEF Received, TypeOK
    <3> QED
      BY <1>3, <2>1, <3>1, Zenon
  <2>2. CASE order # <<>>
    <3>1. 1 \in DOMAIN order /\ order'[1] = order[1] /\ order[1] \in Ops
      BY <2>2 DEF Received, TypeOK
    <3>2. order[1] \in Done
      BY <3>1, Zenon DEF Results
    <3>3. result'[order[1]] = result[order[1]]
      BY <3>1, <3>2, Zenon DEF Received, TypeOK, Done
    <3> QED
      BY <1>3, <2>2, <3>1, <3>3, Zenon DEF Winning
  <2> QED
    BY <2>1, <2>2, Zenon
<1> QED
  BY <1>1, <1>2, <1>3, Zenon DEF Winning

(* start() fails: no entry could be had, or the stop has come and the      *)
(* operation is not submitted.                                             *)
LEMMA FailStep ==
  ASSUME CardinalityLaws, Inv, UNCHANGED setup, NEW i \in Ops, co = "starting", next = i,
         NEW res \in {"EINVAL", "ECANCELED"}, res = "ECANCELED" => stopped, Fail(i, res)
  PROVE  Inv'
<1> USE DEF Inv
<1>0. Framed /\ GroupOK
  BY FrameIs, GroupIs, Zenon
<1>1. Received(i, res)
  BY ReceivedIs, Zenon DEF Fail
<1>2. /\ heap' = heap \ {Address(i, round)}
      /\ next' = next + 1
      /\ checked' = FALSE
      /\ UNCHANGED <<round, outer, running, pending, cq, kernel>>
  BY Zenon DEF Fail, stopper
<1>3. child[i] = "new" /\ child \in [Ops -> {"new", "pending", "done"}] /\ next \in Nat
      /\ \A j \in Ops : child[j] = "new" <=> next <= j
  <2>1. next \in Nat
    BY <1>0 DEF TypeOK, GroupOK
  <2> QED
    BY <2>1 DEF Progress, TypeOK
<1>4. /\ Results'
      /\ Done' = Done \cup {i}
      /\ Len(order) + 1 = N <=> Done' = Ops
      /\ child' \in [Ops -> {"new", "pending", "done"}]
      /\ order' \in Seq(Ops)
      /\ result' \in [Ops -> {"none", "ok", "EINVAL", "ECANCELED"}]
  BY <1>1, <1>3, ResultsReceived, Zenon
<1>5. CqKept(0) /\ SqSame
  BY <1>1, <1>2, CqStays, Zenon DEF Received
<1>6. RingTypes' /\ OnePlace'
  <2>1. round \in Nat
    BY DEF TypeOK
  <2> QED
    BY <1>2, <1>5, <2>1, RingsKeep
<1>7. InUse' = InUse
  BY <1>2, <1>5, InUseKept, Zenon
<1>8. /\ child' = [child EXCEPT ![i] = "done"]
      /\ \A j \in Ops : child'[j] = IF j = i THEN "done" ELSE child[j]
  BY <1>1, <1>3, Zenon DEF Received
<1>9. Unfinished'
  <2>1. \A n \in Issued : child'[sq[n].op] = child[sq[n].op]
    BY <1>3, <1>8 DEF Unfinished, Owed, RingTypes, SqEntry, Issued
  <2>2. \A k \in kernel : ~k.sent => child'[k.op] = child[k.op]
    BY <1>3, <1>8, Zenon DEF Unfinished, Owed, RingTypes, Submitted
  <2>3. \A n \in Arrived : 0 < n /\ ~cq[n].notif => child'[cq[n].op] = child[cq[n].op]
    BY <1>3, <1>8 DEF Unfinished, Owed, RingTypes, CqEntry, Arrived
  <2>4. \A u \in InUse : child'[u[1]] = "new" => child[u[1]] = "new"
    BY <1>8, InUseTyped
  <2> QED
    BY <1>2, <1>5, <1>7, <2>1, <2>2, <2>3, <2>4, UnfinishedKept, Zenon
<1>10. Boxed'
  <2>1. <<i, round>> \notin InUse
    BY <1>3, Zenon DEF Unfinished
  <2>2. heap' \subseteq heap /\ \A h \in heap : h # <<i, round>> => h \in heap'
    <3>1. Address(i, round) = <<i, round>> \/ Address(i, round) \notin heap
      BY <1>0, Zenon DEF Address, Boxed
    <3> QED
      BY <1>2, <3>1, Zenon
  <2>3. \A u \in InUse' : Kind'[u[1]] = "zerocopy" => u \in heap'
    BY <1>0, <1>7, <2>1, <2>2, Zenon DEF Boxed, Framed
  <2>4. \A j \in Ops' : Kind'[j] = "zerocopy" /\ child'[j] = "new" => <<j, round'>> \in heap'
    BY <1>0, <1>2, <1>8, <2>2 DEF Boxed, Framed
  <2>5. ASSUME NEW h \in heap'
        PROVE  /\ h \in Ops' \X (1..round')
               /\ Kind'[h[1]] = "zerocopy"
               /\ h \in InUse' \/ (h[2] = round' /\ child'[h[1]] = "new")
    <3>1. /\ h \in Ops \X (1..round)
          /\ Kind[h[1]] = "zerocopy"
          /\ h \in InUse \/ (h[2] = round /\ child[h[1]] = "new")
      BY <2>2, Zenon DEF Boxed
    <3>2. h # <<i, round>>
      BY <1>2, <3>1 DEF Address
    <3> QED
      BY <1>0, <1>2, <1>7, <1>8, <3>1, <3>2 DEF Framed
  <2> QED
    BY <2>3, <2>4, <2>5, Zenon DEF Boxed
<1>11. Counted'
  BY <1>2, <1>7, Zenon DEF Counted
<1>12. CallbackWhilePending'
  BY <1>0, <1>1, <1>2, <1>8, Zenon DEF CallbackWhilePending, Received, Framed
<1>13. awaiter = "noop"
  BY <1>3, Zenon DEF Progress, TypeOK, Done
<1>14. co' = "starting" /\ awaiter' = IF Done' = Ops THEN "null" ELSE "noop"
  BY <1>1, <1>4, <1>13, Zenon DEF Received, HandleResult
<1>15. Progress'
  <2>1. \A j \in Ops' : child'[j] = "new" <=> next' <= j
    BY <1>0, <1>2, <1>3, <1>8 DEF Framed, GroupOK
  <2>2. Ops' = Ops
    BY <1>0, Zenon DEF Framed
  <2> QED
    BY <1>14, <2>1, <2>2, Zenon DEF Progress
<1>16. TypeOK'
  <2>1. heap' \subseteq Ops' \X (1..setup'.rounds)
    BY <1>0, <1>2, Zenon DEF TypeOK, Framed
  <2>2. next' \in 1..N' + 1
    BY <1>0, <1>2 DEF Framed, GroupOK
  <2>3. callback' \in [Ops' -> BOOLEAN] /\ stopped' \in BOOLEAN
    BY <1>0, <1>1, Zenon DEF Received, Framed
  <2>4. Ops' = Ops /\ N' = N
    BY <1>0, Zenon DEF Framed
  <2> QED
    BY <1>2, <1>4, <1>14, <2>1, <2>2, <2>3, <2>4, Zenon DEF TypeOK
<1>17. Winning'
  <2>1. Undisturbed /\ order = <<>> => res # "ECANCELED"
    BY Zenon DEF Winning, Fresh
  <2>2. Arrived = DOMAIN cq => Arrived' = DOMAIN cq'
    BY <1>2, Zenon DEF Arrived
  <2> QED
    BY <1>1, <1>2, <1>3, <2>1, <2>2, WinningReceived, Zenon
<1> QED
  BY <1>4, <1>6, <1>9, <1>10, <1>11, <1>12, <1>15, <1>16, <1>17, Zenon

(* handle() on the first completion c: the handle is deleted and the work  *)
(* no longer pending if it is the last one of its operation.               *)
LEMMA ReapedBoxes ==
  ASSUME CardinalityLaws, TypeOK, RingTypes, OnePlace, Unfinished, Boxed, Counted,
         UNCHANGED <<setup, round, kernel>>,
         SqSame, CqKept(1), 1 \in Arrived,
         heap' = IF HandleReturns(cq[1]) THEN heap \ {cq[1].addr} ELSE heap,
         pending' = IF HandleReturns(cq[1]) THEN pending - 1 ELSE pending,
         \A j \in Ops : child'[j] = "new" <=> child[j] = "new"
  PROVE  /\ InUse' \subseteq InUse
         /\ Boxed'
         /\ Counted'
         /\ pending' \in Nat
         /\ heap' \subseteq heap
<1>0. Framed /\ GroupOK
  BY FrameIs, GroupIs, Zenon
<1> DEFINE c == cq[1]
<1>1. /\ c \in CqEntry
      /\ Known(c)
      /\ Kind[c.op] = "single" => ~c.more
      /\ Key(c) \in InUse
      /\ 1 \in DOMAIN cq
  BY InUseIs DEF RingTypes, Arrived, InUseOK
<1>2. HandleReturns(c) <=> ~c.more
  BY <1>1, Zenon DEF HandleReturns
<1>3. InUse' = IF ~c.more THEN InUse \ {Key(c)} ELSE InUse
  BY <1>1, InUseReaped, Zenon
<1>4. heap' \subseteq heap /\ \A h \in heap : h \in heap' <=> c.more \/ h # Key(c)
  <2>1. c.addr = Key(c) \/ c.addr \notin heap
    BY <1>0, <1>1 DEF Known, Address, Boxed, Key
  <2>2. Key(c) \in heap => c.addr = Key(c)
    BY <1>1, Zenon DEF Known, Address, Boxed, Key
  <2> QED
    BY <1>2, <2>1, <2>2, Zenon
<1> HIDE DEF c
<1>5. Boxed'
  <2>1. \A u \in InUse' : Kind'[u[1]] = "zerocopy" => u \in heap'
    BY <1>0, <1>3, <1>4, Zenon DEF Boxed, Framed
  <2>2. ASSUME NEW j \in Ops', Kind'[j] = "zerocopy", child'[j] = "new"
        PROVE  <<j, round'>> \in heap'
    <3>1. j \in Ops /\ child[j] = "new" /\ <<j, round>> \in heap
      BY <1>0, <2>2, Zenon DEF Boxed, Framed
    <3>2. <<j, round>> # Key(c)
      BY <1>1, <3>1 DEF Unfinished
    <3> QED
      BY <1>4, <3>1, <3>2, Zenon
  <2>3. ASSUME NEW h \in heap'
        PROVE  /\ h \in Ops' \X (1..round')
               /\ Kind'[h[1]] = "zerocopy"
               /\ h \in InUse' \/ (h[2] = round' /\ child'[h[1]] = "new")
    <3>1. /\ h \in Ops \X (1..round)
          /\ Kind[h[1]] = "zerocopy"
          /\ h \in InUse \/ (h[2] = round /\ child[h[1]] = "new")
          /\ c.more \/ h # Key(c)
      BY <1>4, Zenon DEF Boxed
    <3> QED
      BY <1>0, <1>3, <3>1, Zenon DEF Framed
  <2> QED
    BY <2>1, <2>2, <2>3, Zenon DEF Boxed
<1>6. Counted' /\ pending' \in Nat
  <2>1. IsFiniteSet(InUse) /\ pending = Cardinality(InUse)
    BY Zenon DEF Counted
  <2>2. /\ IsFiniteSet(InUse \ {Key(c)})
        /\ Cardinality(InUse \ {Key(c)}) = Cardinality(InUse) - 1
    BY <1>1, <2>1, Zenon DEF CardinalityLaws
  <2>3. IsFiniteSet(InUse') /\ pending' = Cardinality(InUse')
    BY <1>2, <1>3, <2>1, <2>2, Zenon DEF c
  <2>4. Cardinality(InUse') \in Nat
    BY <2>3, Zenon DEF CardinalityLaws
  <2> QED
    BY <2>3, <2>4, Zenon DEF Counted
<1> QED
  BY <1>3, <1>4, <1>5, <1>6, Zenon

(* The completion that finishes an operation is the only thing owed to it. *)
LEMMA NoOther ==
  ASSUME TypeOK, RingTypes, OnePlace, Unfinished, 1 \in Arrived, HandleFinishes(cq[1])
  PROVE  /\ Owed(cq[1])
         /\ \A n \in Issued : sq[n].op # cq[1].op
         /\ \A k \in kernel : ~k.sent => k.op # cq[1].op
         /\ \A n \in Arrived : 1 < n /\ ~cq[n].notif => cq[n].op # cq[1].op
<1>0. GroupOK
  BY GroupIs, Zenon
<1> DEFINE c == cq[1]
<1>1. c.op \in Ops /\ Kind[c.op] \in {"single", "multi", "zerocopy"}
  <2>1. c \in CqEntry
    BY DEF RingTypes, Arrived
  <2>2. c.op \in Ops
    BY <2>1, Zenon DEF CqEntry
  <2> QED
    BY <1>0, <2>2, Zenon DEF GroupOK
<1>2. ~c.notif /\ (Kind[c.op] # "zerocopy" => ~c.more)
  BY <1>1, Zenon DEF RingTypes, HandleFinishes
<1>3. Owed(c)
  BY <1>2, Zenon DEF Unfinished
<1>4. ASSUME NEW n \in Issued PROVE sq[n].op # c.op
  BY <1>3, Zenon DEF OnePlace, Same, Unfinished, Owed
<1>5. ASSUME NEW k \in kernel, ~k.sent PROVE k.op # c.op
  BY <1>2, <1>3, <1>5, Zenon DEF OnePlace, Same, Unfinished, Owed
<1>6. ASSUME NEW n \in Arrived, 1 < n, ~cq[n].notif PROVE cq[n].op # c.op
  BY <1>2, <1>3, <1>6, Zenon DEF OnePlace, Same, Unfinished, Owed
<1> QED
  BY <1>3, <1>4, <1>5, <1>6, Zenon

(* The completion that calls the receiver. *)
LEMMA FinishStep ==
  ASSUME CardinalityLaws, Inv, UNCHANGED setup, ProcessCommon, HandleFinishes(Head(cq))
  PROVE  Inv'
<1> USE DEF Inv
<1>0. Framed /\ GroupOK
  BY FrameIs, GroupIs, Zenon
<1> DEFINE c == cq[1]
           i == c.op
           res == c.res
<1>1. cq # <<>> /\ cq' = Tail(cq)
  BY Zenon DEF ProcessCommon, Reaping
<1>2. CqKept(1) /\ 1 \in DOMAIN cq /\ Head(cq) = c
  BY <1>1, CqReaped, Zenon
<1>3. 1 \in Arrived /\ c \in CqEntry /\ i \in Ops /\ res \in {"ok", "ECANCELED"}
  <2>1. 1 \in Arrived /\ c \in CqEntry
    BY <1>2 DEF ProcessCommon, Arrived, RingTypes
  <2> QED
    BY <2>1, Zenon DEF CqEntry
<1>4. /\ Receive(i, res)
      /\ heap' = IF HandleReturns(c) THEN heap \ {c.addr} ELSE heap
      /\ pending' = IF HandleReturns(c) THEN pending - 1 ELSE pending
      /\ UNCHANGED <<round, next, checked, outer, running, kernel>>
      /\ co \in {"suspended", "ended"}
  BY <1>2, Zenon DEF ProcessCommon, stopper, start, Reaping
<1>5. Received(i, res)
  BY <1>3, <1>4, ReceivedIs, Zenon
<1>6. /\ Owed(c)
      /\ \A n \in Issued : sq[n].op # i
      /\ \A k \in kernel : ~k.sent => k.op # i
      /\ \A n \in Arrived : 1 < n /\ ~cq[n].notif => cq[n].op # i
  BY <1>2, <1>3, NoOther, Zenon
<1>7. c.gen = round /\ child[i] = "pending"
  BY <1>6, Zenon DEF Owed
<1>8. /\ Results'
      /\ Done' = Done \cup {i}
      /\ Len(order) + 1 = N <=> Done' = Ops
      /\ child' \in [Ops -> {"new", "pending", "done"}]
      /\ order' \in Seq(Ops)
      /\ result' \in [Ops -> {"none", "ok", "EINVAL", "ECANCELED"}]
  BY <1>3, <1>5, <1>7, ResultsReceived, Zenon
<1>9. \A j \in Ops : child'[j] = IF j = i THEN "done" ELSE child[j]
  BY <1>5, Zenon DEF Received, TypeOK
<1>10. SqSame
  BY <1>5, Zenon DEF Received
<1> HIDE DEF c, i, res
<1>11. RingTypes' /\ OnePlace'
  <2>1. round \in Nat
    BY DEF TypeOK
  <2> QED
    BY <1>2, <1>4, <1>10, <2>1, RingsKeep
<1>12. \A j \in Ops : child'[j] = "new" <=> child[j] = "new"
  BY <1>7, <1>9, Zenon
<1>13. /\ InUse' \subseteq InUse
       /\ Boxed'
       /\ Counted'
       /\ pending' \in Nat
       /\ heap' \subseteq heap
  BY <1>2, <1>3, <1>4, <1>10, <1>12, ReapedBoxes, Zenon DEF c
<1>14. Unfinished'
  <2>1. \A n \in Issued : child'[sq[n].op] = child[sq[n].op]
    BY <1>6, <1>9, OpsTyped, Zenon
  <2>2. \A k \in kernel : ~k.sent => child'[k.op] = child[k.op]
    BY <1>6, <1>9, Zenon DEF RingTypes, Submitted
  <2>3. \A n \in Arrived : 1 < n /\ ~cq[n].notif => child'[cq[n].op] = child[cq[n].op]
    BY <1>6, <1>9, OpsTyped, Zenon
  <2>4. \A u \in InUse : child'[u[1]] = "new" => child[u[1]] = "new"
    BY <1>12, InUseTyped, Zenon
  <2> QED
    BY <1>2, <1>4, <1>10, <1>13, <2>1, <2>2, <2>3, <2>4, UnfinishedKept, Zenon
<1>15. CallbackWhilePending'
  BY <1>0, <1>4, <1>5, <1>9, Zenon DEF CallbackWhilePending, Received, Framed
<1>16. co = "suspended" /\ awaiter = "handle"
  BY <1>3, <1>4, <1>7, Zenon DEF Progress, Done
<1>17. IF Done' = Ops THEN co' = "running" /\ awaiter' = "null"
                      ELSE co' = "suspended" /\ awaiter' = "handle"
  BY <1>5, <1>8, <1>16, Zenon DEF Received, HandleResult
<1>18. Progress'
  <2>1. Ops' = Ops
    BY <1>0, Zenon DEF Framed
  <2>2. \A j \in Ops : child'[j] # "new"
    BY <1>12, <1>16, Zenon DEF Progress
  <2> QED
    BY <1>17, <2>1, <2>2, Zenon DEF Progress
<1>19. TypeOK'
  <2>1. Ops' = Ops /\ N' = N /\ heap' \subseteq Ops \X (1..setup.rounds)
    BY <1>0, <1>13, Zenon DEF Framed, TypeOK
  <2>2. callback' \in [Ops -> BOOLEAN] /\ stopped' \in BOOLEAN
    BY <1>5, Zenon DEF Received
  <2> QED
    BY <1>4, <1>8, <1>13, <1>17, <2>1, <2>2, Zenon DEF TypeOK
<1>20. Winning'
  <2>1. Undisturbed /\ order = <<>> => res # "ECANCELED"
    BY <1>3, <1>7, Zenon DEF Winning, Fresh, c, res
  <2>2. Arrived = DOMAIN cq => Arrived' = DOMAIN cq'
    BY <1>1 DEF Arrived, RingTypes
  <2> QED
    BY <1>3, <1>4, <1>5, <1>7, <2>1, <2>2, WinningReceived, Zenon
<1> QED
  BY <1>8, <1>11, <1>13, <1>14, <1>15, <1>18, <1>19, <1>20, Zenon

(* The group stays as it is. *)
LEMMA GroupKept ==
  ASSUME Results, Progress, UNCHANGED <<setup, co, awaiter, child, order, result, next>>
  PROVE  Results' /\ Progress'
<1>1. Ops' = Ops /\ N' = N /\ Done' = Done
  BY FrameIs, Zenon DEF Framed, Done
<1> QED
  BY <1>1, Zenon DEF Results, Progress

(* io_uring knows what it knew, and the handles are where they were. *)
LEMMA BoxesKept ==
  ASSUME Boxed, Counted, UNCHANGED <<setup, round, child, heap, pending>>, InUse' = InUse
  PROVE  Boxed' /\ Counted'
<1>1. Framed
  BY FrameIs, Zenon
<1> QED
  BY <1>1, Zenon DEF Boxed, Counted, Framed

(* A step on the rings that calls no receiver. *)
LEMMA RingsAlone ==
  ASSUME Inv, UNCHANGED <<setup, round, sq, cq, kernel, child, heap, pending>>
  PROVE  RingTypes' /\ OnePlace' /\ Unfinished' /\ Boxed' /\ Counted'
<1> USE DEF Inv
<1>1. CqKept(0) /\ SqSame
  BY CqStays, SqStays, Zenon
<1>2. InUse' = InUse
  BY <1>1, InUseKept, Zenon
<1>3. RingTypes' /\ OnePlace'
  <2>1. round \in Nat
    BY DEF TypeOK
  <2> QED
    BY <1>1, <2>1, RingsKeep
<1>4. Unfinished'
  BY <1>1, <1>2, UnfinishedKept, Zenon
<1> QED
  BY <1>2, <1>3, <1>4, BoxesKept, Zenon

(* A completion that does not finish its operation.                        *)
LEMMA MoreStep ==
  ASSUME CardinalityLaws, Inv, UNCHANGED setup, ProcessCommon, ~HandleFinishes(Head(cq))
  PROVE  Inv'
<1> USE DEF Inv
<1>0. Framed /\ GroupOK
  BY FrameIs, GroupIs, Zenon
<1>1. cq # <<>> /\ cq' = Tail(cq)
  BY Zenon DEF ProcessCommon, Reaping
<1>2. CqKept(1) /\ 1 \in DOMAIN cq /\ Head(cq) = cq[1]
  BY <1>1, CqReaped, Zenon
<1>3. /\ 1 \in Arrived
      /\ heap' = IF HandleReturns(cq[1]) THEN heap \ {cq[1].addr} ELSE heap
      /\ pending' = IF HandleReturns(cq[1]) THEN pending - 1 ELSE pending
      /\ UNCHANGED <<round, co, awaiter, child, callback, stopped, order, result, requested,
                     next, checked, outer, running, sq, kernel>>
  BY <1>2, Zenon DEF ProcessCommon, Arrived, group, start, stopper
<1>4. SqSame
  BY <1>3, SqStays, Zenon
<1>5. RingTypes' /\ OnePlace'
  <2>1. round \in Nat
    BY DEF TypeOK
  <2> QED
    BY <1>2, <1>3, <1>4, <2>1, RingsKeep
<1>6. /\ InUse' \subseteq InUse
      /\ Boxed'
      /\ Counted'
      /\ pending' \in Nat
      /\ heap' \subseteq heap
  BY <1>2, <1>3, <1>4, ReapedBoxes, Zenon
<1>7. Unfinished'
  BY <1>2, <1>3, <1>4, <1>6, UnfinishedKept, Zenon
<1>8. Results' /\ Progress'
  BY <1>3, GroupKept, Zenon
<1>9. CallbackWhilePending'
  BY <1>0, <1>3, Zenon DEF CallbackWhilePending, Framed
<1>10. TypeOK'
  <2>1. Ops' = Ops /\ N' = N /\ heap' \subseteq Ops \X (1..setup.rounds)
    BY <1>0, <1>6, Zenon DEF Framed, TypeOK
  <2> QED
    BY <1>3, <1>6, <2>1, Zenon DEF TypeOK
<1>11. Winning'
  <2>1. Undisturbed' <=> Undisturbed
    BY <1>3, Zenon DEF Undisturbed
  <2>2. Arrived = DOMAIN cq => Arrived' = DOMAIN cq'
    BY <1>1 DEF Arrived, RingTypes
  <2>3. ASSUME Fresh PROVE Fresh'
    <3>1. Issued' = Issued
      BY <1>4, Zenon DEF SqSame
    <3>2. \A n \in Arrived' : n + 1 \in Arrived /\ cq'[n] = cq[n + 1]
      BY <1>2, Zenon DEF CqKept
    <3> QED
      BY <1>3, <2>3, <3>1, <3>2, Zenon DEF Fresh
  <2> QED
    BY <1>3, <2>1, <2>2, <2>3, Zenon DEF Winning
<1> QED
  BY <1>5, <1>6, <1>7, <1>8, <1>9, <1>10, <1>11, Zenon

(* A Cancel message of another runtime is taken and its entry queued. *)
LEMMA ProcessCancelStep ==
  ASSUME Inv, UNCHANGED setup, ProcessCancel
  PROVE  Inv'
<1> USE DEF Inv
<1>0. Framed /\ GroupOK
  BY FrameIs, GroupIs, Zenon
<1>1. cq # <<>> /\ cq' = Tail(cq)
  BY Zenon DEF ProcessCancel, Reaping
<1>2. CqKept(1) /\ 1 \in DOMAIN cq /\ Head(cq) = cq[1]
  BY <1>1, CqReaped, Zenon
<1>3. /\ 1 \notin Arrived
      /\ sq' = Append(sq, CancelSqe(cq[1].addr))
      /\ UNCHANGED <<round, co, awaiter, child, callback, stopped, order, result, requested,
                     next, checked, outer, running, kernel, heap, pending>>
  BY <1>2, Zenon DEF ProcessCancel, Arrived, group, start, stopper
<1>4. SqSame
  <2>1. CancelSqe(cq[1].addr) \in SqEntry /\ CancelSqe(cq[1].addr).type = "cancel"
    <3>1. cq[1] \in CqEntry
      BY <1>2 DEF RingTypes
    <3>2. cq[1].addr \in Ops \X Nat
      BY <3>1, Zenon DEF CqEntry
    <3>3. cq[1].addr[1] \in Ops
      BY <3>2, Zenon
    <3> QED
      BY <3>2, <3>3, Zenon DEF CancelSqe, SqEntry
  <2> DEFINE e == CancelSqe(cq[1].addr)
  <2>2. /\ <<e>> \in Seq(SqEntry)
        /\ \A n \in DOMAIN <<e>> : <<e>>[n].type = "cancel"
        /\ sq' = sq \o <<e>>
    BY <1>3, <2>1 DEF RingTypes
  <2> QED
    BY <2>2, SqCancels, Zenon
<1>5. RingTypes' /\ OnePlace'
  <2>1. round \in Nat
    BY DEF TypeOK
  <2> QED
    BY <1>2, <1>3, <1>4, <2>1, RingsKeep
<1>6. InUse' = InUse
  BY <1>2, <1>3, <1>4, InUseReaped, Zenon
<1>7. Boxed' /\ Counted'
  BY <1>3, <1>6, BoxesKept, Zenon
<1>8. Unfinished'
  BY <1>2, <1>3, <1>4, <1>6, UnfinishedKept, Zenon
<1>9. Results' /\ Progress'
  BY <1>3, GroupKept, Zenon
<1>10. CallbackWhilePending'
  BY <1>0, <1>3, Zenon DEF CallbackWhilePending, Framed
<1>11. TypeOK'
  BY <1>0, <1>3, Zenon DEF TypeOK, Framed
<1>12. Winning'
  <2>1. ~Undisturbed
    BY <1>2, <1>3, Zenon DEF Winning
  <2> QED
    BY <1>3, <2>1, Zenon DEF Winning, Undisturbed
<1> QED
  BY <1>5, <1>7, <1>8, <1>9, <1>10, <1>11, <1>12, Zenon

(* start() queues an operation and registers its callback. *)
LEMMA StartIssueStep ==
  ASSUME CardinalityLaws, Inv, UNCHANGED setup, NEW i \in Ops, StartIssue(i)
  PROVE  Inv'
<1> USE DEF Inv
<1>0. Framed /\ GroupOK
  BY FrameIs, GroupIs, Zenon
<1>1. /\ co = "starting" /\ next = i
      /\ child' = [child EXCEPT ![i] = "pending"]
      /\ pending' = pending + 1
      /\ sq' = Append(sq, Sqe(i)) \o LateCancel(i)
      /\ callback' = [callback EXCEPT ![i] = StopPossible /\ ~stopped]
      /\ next' = next + 1
      /\ checked' = FALSE
      /\ UNCHANGED <<round, co, awaiter, stopped, order, result, requested, outer, running,
                     heap, cq, kernel>>
  BY Zenon DEF StartIssue, stopper
<1>2. child[i] = "new" /\ child \in [Ops -> {"new", "pending", "done"}] /\ next \in Nat
      /\ \A j \in Ops : child[j] = "new" <=> next <= j
  <2>1. next \in Nat
    BY <1>0 DEF TypeOK, GroupOK
  <2> QED
    BY <1>1, <2>1 DEF Progress, TypeOK
<1>3. \A j \in Ops : child'[j] = IF j = i THEN "pending" ELSE child[j]
  BY <1>1, <1>2, Zenon
<1>4. SqIssued(Sqe(i))
  BY <1>1, SqIssueIs, Zenon
<1>5. <<i, round>> \notin InUse
  BY <1>2, Zenon DEF Unfinished
<1>6. RingTypes' /\ OnePlace'
  BY <1>1, <1>4, <1>5, RingsIssue, Zenon
<1>7. InUse' = InUse \cup {<<i, round>>}
  BY <1>1, <1>4, InUseIssued, Zenon
<1>8. Unfinished'
  <2>1. \A n \in Issued' : (n \in Issued /\ sq'[n] = sq[n]) \/ sq'[n] = Sqe(i)
    BY <1>4, Zenon DEF SqIssued, Issued
  <2>2. ASSUME NEW n \in Issued' PROVE Owed(sq[n])'
    <3>1. Sqe(i).gen = round /\ Sqe(i).op = i
      BY Zenon DEF Sqe
    <3>2. \A m \in Issued : sq[m].gen = round /\ child[sq[m].op] = "pending" /\ sq[m].op \in Ops
      BY OpsTyped, Zenon DEF Unfinished, Owed
    <3> QED
      <4>1. CASE n \in Issued /\ sq'[n] = sq[n]
        BY <1>1, <1>2, <1>3, <3>2, <4>1 DEF Owed
      <4>2. CASE sq'[n] = Sqe(i)
        BY <1>1, <1>3, <3>1, <4>2 DEF Owed
      <4> QED
        BY <2>1, <4>1, <4>2, Zenon
  <2>3. \A k \in kernel' : ~k.sent => Owed(k)'
    BY <1>1, <1>3 DEF Unfinished, Owed, RingTypes, Submitted
  <2>4. \A n \in Arrived' : ~cq'[n].notif => Owed(cq[n])'
    <3>1. Arrived' = Arrived
      BY <1>1, Zenon DEF Arrived
    <3>2. \A n \in Arrived : ~cq[n].notif =>
            cq[n].gen = round /\ child[cq[n].op] = "pending" /\ cq[n].op \in Ops
      BY OpsTyped, Zenon DEF Unfinished, Owed
    <3> QED
      BY <1>1, <1>3, <3>1, <3>2, Zenon DEF Owed
  <2>5. \A u \in InUse' : u[2] = round' => child'[u[1]] # "new"
    BY <1>1, <1>3, <1>7, InUseTyped DEF Unfinished
  <2> QED
    BY <2>2, <2>3, <2>4, <2>5, Zenon DEF Unfinished
<1>9. Boxed'
  <2>1. \A u \in InUse' : Kind'[u[1]] = "zerocopy" => u \in heap'
    BY <1>0, <1>1, <1>2, <1>7 DEF Boxed, Framed
  <2>2. \A j \in Ops' : Kind'[j] = "zerocopy" /\ child'[j] = "new" => <<j, round'>> \in heap'
    BY <1>0, <1>1, <1>3 DEF Boxed, Framed
  <2>3. ASSUME NEW h \in heap'
        PROVE  /\ h \in Ops' \X (1..round')
               /\ Kind'[h[1]] = "zerocopy"
               /\ h \in InUse' \/ (h[2] = round' /\ child'[h[1]] = "new")
    <3>1. /\ h \in Ops \X (1..round)
          /\ Kind[h[1]] = "zerocopy"
          /\ h \in InUse \/ (h[2] = round /\ child[h[1]] = "new")
      BY <1>1, Zenon DEF Boxed
    <3>2. h[1] = i /\ h[2] = round => h = <<i, round>>
      BY <3>1
    <3> QED
      BY <1>0, <1>1, <1>3, <1>7, <3>1, <3>2, Zenon DEF Framed
  <2> QED
    BY <2>1, <2>2, <2>3, Zenon DEF Boxed
<1>10. Counted'
  <2>1. IsFiniteSet(InUse) /\ pending = Cardinality(InUse)
    BY Zenon DEF Counted
  <2>2. /\ IsFiniteSet(InUse \cup {<<i, round>>})
        /\ Cardinality(InUse \cup {<<i, round>>}) = Cardinality(InUse) + 1
    BY <1>5, <2>1, Zenon DEF CardinalityLaws
  <2> QED
    BY <1>1, <1>7, <2>1, <2>2, Zenon DEF Counted
<1>11. Done' = Done /\ Ops' = Ops /\ N' = N
  BY <1>0, <1>2, <1>3, Zenon DEF Done, Framed
<1>12. Results'
  BY <1>1, <1>11, Zenon DEF Results
<1>13. Progress'
  <2>1. \A j \in Ops' : child'[j] = "new" <=> next' <= j
    BY <1>1, <1>2, <1>3, <1>11, <1>0 DEF GroupOK
  <2> QED
    BY <1>1, <1>11, <2>1, Zenon DEF Progress
<1>14. callback' \in [Ops -> BOOLEAN] /\ \A j \in Ops : j # i => callback'[j] = callback[j]
  BY <1>1, Zenon DEF TypeOK, StopPossible
<1>15. CallbackWhilePending'
  BY <1>1, <1>3, <1>11, <1>14, Zenon DEF CallbackWhilePending
<1>16. TypeOK'
  <2>1. child' \in [Ops -> {"new", "pending", "done"}]
    BY <1>1, <1>2, Zenon
  <2>2. next' \in 1..N' + 1 /\ pending' \in Nat
    BY <1>0, <1>1, <1>11 DEF GroupOK, TypeOK
  <2> QED
    BY <1>1, <1>11, <1>14, <2>1, <2>2, Zenon DEF TypeOK
<1>17. Winning'
  <2>1. Undisturbed' <=> Undisturbed
    BY <1>1, Zenon DEF Undisturbed
  <2>2. Arrived' = Arrived
    BY <1>1, Zenon DEF Arrived
  <2>3. ASSUME Fresh PROVE Fresh'
    <3>1. sq' = Append(sq, Sqe(i))
      BY <1>1, <2>3, <1>6 DEF Fresh, LateCancel, RingTypes
    <3>2. DOMAIN sq' = DOMAIN sq \cup {Len(sq) + 1} /\ \A n \in DOMAIN sq : n < Len(sq) + 1
      BY <3>1 DEF RingTypes
    <3>3. Issued' = Issued \cup {Len(sq) + 1} /\ \A n \in DOMAIN sq : sq'[n] = sq[n]
      BY <1>4, Zenon DEF SqIssued
    <3>4. DOMAIN sq' \ Issued' \subseteq DOMAIN sq \ Issued /\ Issued \subseteq DOMAIN sq
      BY <3>2, <3>3, Zenon DEF Issued
    <3>5. ASSUME NEW m \in DOMAIN sq' \ Issued', NEW n \in Issued', sq'[n].gen = round'
          PROVE  m < n
      <4>1. m \in DOMAIN sq \ Issued /\ m < Len(sq) + 1
        BY <3>2, <3>4, Zenon
      <4>2. CASE n \in Issued
        <5>1. sq[n].gen = round
          BY <1>1, <3>3, <3>4, <3>5, <4>2
        <5> QED
          BY <2>3, <4>1, <4>2, <5>1, Zenon DEF Fresh
      <4>3. CASE n = Len(sq) + 1
        BY <4>1, <4>3, Zenon
      <4> QED
        BY <3>3, <4>2, <4>3, Zenon
    <3> QED
      BY <1>1, <2>2, <2>3, <3>4, <3>5, Zenon DEF Fresh
  <2> QED
    BY <1>1, <2>1, <2>2, <2>3, Zenon DEF Winning
<1> QED
  BY <1>6, <1>8, <1>9, <1>10, <1>12, <1>13, <1>15, <1>16, <1>17, Zenon

(* Steps of the coroutine alone.                                           *)
LEMMA AwaitSteps ==
  ASSUME Inv, UNCHANGED setup,
         (\E i \in Ops : StartCheck(i)) \/ StartEmpty \/ AwaitSuspend \/ End
  PROVE  Inv'
<1> USE DEF Inv
<1>0. Framed /\ GroupOK
  BY FrameIs, GroupIs, Zenon
<1>1. /\ UNCHANGED <<round, child, callback, stopped, order, result, requested, next,
                     outer, running, heap, pending, sq, cq, kernel>>
      /\ checked' \in BOOLEAN
  BY Zenon DEF StartCheck, StartEmpty, AwaitSuspend, End, group, start, stopper, rings, TypeOK
<1>2. RingTypes' /\ OnePlace' /\ Unfinished' /\ Boxed' /\ Counted'
  BY <1>1, RingsAlone, Zenon
<1>3. Ops' = Ops /\ N' = N /\ Done' = Done
  BY <1>0, <1>1, Zenon DEF Framed, Done
<1>4. Results' /\ CallbackWhilePending'
  BY <1>1, <1>3, Zenon DEF Results, CallbackWhilePending
<1>5. Winning'
  <2>1. /\ Undisturbed' <=> Undisturbed
        /\ Fresh' <=> Fresh
        /\ Arrived' = Arrived
    BY <1>1, Zenon DEF Undisturbed, Fresh, Arrived, Issued
  <2> QED
    BY <1>1, <2>1, Zenon DEF Winning
<1>6. Progress' /\ co' \in {"starting", "suspended", "running", "ended", "crash"}
      /\ awaiter' \in {"noop", "handle", "null"}
  <2>1. CASE \E i \in Ops : StartCheck(i)
    <3>1. UNCHANGED <<co, awaiter>>
      BY <2>1, Zenon DEF StartCheck, group
    <3> QED
      BY <1>1, <3>1, GroupKept, Zenon DEF TypeOK
  <2>2. CASE StartEmpty
    <3>1. co = "starting" /\ co' = "starting" /\ awaiter' = "null" /\ N = 0
      BY <2>2, Zenon DEF StartEmpty, HandleResult
    <3>2. Ops = {} /\ Done = Ops
      BY <1>0, <3>1 DEF GroupOK, Done
    <3> QED
      BY <1>1, <1>3, <3>1, <3>2, Zenon DEF Progress
  <2>3. CASE AwaitSuspend
    <3>1. /\ co = "starting" /\ next = N + 1 /\ (N = 0 => awaiter = "null")
          /\ co' = IF awaiter = "noop" THEN "suspended" ELSE "running"
          /\ awaiter' = "handle"
      BY <2>3, Zenon DEF AwaitSuspend
    <3>2. \A j \in Ops : child[j] # "new"
      BY <1>0, <3>1 DEF Progress, GroupOK
    <3>3. awaiter = "noop" => Done # Ops
      BY <3>1, Zenon DEF Progress
    <3>4. awaiter # "noop" => Done = Ops
      BY <3>1, Zenon DEF Progress, TypeOK
    <3> QED
      BY <1>1, <1>3, <3>1, <3>2, <3>3, <3>4, Zenon DEF Progress
  <2>4. CASE End
    <3>1. co = "running" /\ co' = "ended" /\ awaiter' = awaiter
      BY <2>4, Zenon DEF End, group
    <3> QED
      BY <1>3, <3>1, Zenon DEF Progress, TypeOK
  <2> QED
    BY <2>1, <2>2, <2>3, <2>4, Zenon
<1>7. TypeOK'
  BY <1>1, <1>3, <1>6, Zenon DEF TypeOK
<1> QED
  BY <1>2, <1>4, <1>5, <1>6, <1>7, Zenon

(* When the coroutine has gone on, no callback of its operations runs.     *)
LEMMA NoneRuns == Inv /\ co = "running" => running = 0
<1> SUFFICES ASSUME Inv, co = "running" PROVE running = 0
  OBVIOUS
<1>1. \A j \in Ops : child[j] = "done"
  BY Zenon DEF Inv, Progress, Done
<1>2. running # 0 => running \in Ops
  BY GroupIs DEF GroupOK, TypeOK, Inv
<1> QED
  BY <1>1, <1>2, Zenon DEF Inv, CallbackWhilePending

(* The same awaiter is made anew: nothing is owed to the old one.          *)
LEMMA AwaitAgainStep ==
  ASSUME CardinalityLaws, Inv, UNCHANGED setup, AwaitAgain
  PROVE  Inv'
<1> USE DEF Inv
<1>0. Framed /\ GroupOK
  BY FrameIs, GroupIs, Zenon
<1>1. /\ co = "running" /\ round < setup.rounds
      /\ round' = round + 1
      /\ co' = "starting"
      /\ awaiter' = "noop"
      /\ next' = 1
      /\ child' = [i \in Ops |-> "new"]
      /\ callback' = [i \in Ops |-> FALSE]
      /\ Token
      /\ order' = <<>>
      /\ result' = [i \in Ops |-> "none"]
      /\ heap' = heap \cup Boxes(round + 1)
      /\ UNCHANGED <<checked, running, pending, sq, cq, kernel>>
  BY Zenon DEF AwaitAgain, rings
<1>2. \A j \in Ops : child[j] = "done"
  BY <1>1, Zenon DEF Progress, Done
<1>3. /\ round \in Nat \ {0} /\ round + 1 \in Nat
      /\ round < round + 1 /\ round + 1 \in 1..setup.rounds
  BY <1>0, <1>1 DEF TypeOK, GroupOK
<1>4. CqKept(0) /\ SqSame
  BY <1>1, CqStays, SqStays, Zenon
<1>5. RingTypes' /\ OnePlace'
  BY <1>1, <1>3, <1>4, RingsKeep
<1>6. InUse' = InUse
  BY <1>1, <1>4, InUseKept, Zenon
<1>7. /\ Issued = {}
      /\ \A k \in kernel : k.sent
      /\ \A n \in Arrived : cq[n].notif
  <2>1. \A k \in kernel : k.op \in Ops
    BY Zenon DEF RingTypes, Submitted
  <2> QED
    BY <1>2, <2>1, OpsTyped, Zenon DEF Unfinished, Owed
<1>8. Issued' = Issued /\ Arrived' = Arrived
  BY <1>1, Zenon DEF Issued, Arrived
<1>9. \A u \in InUse : u[2] # round + 1
  BY <1>3, InUseTyped
<1>10. Unfinished'
  BY <1>1, <1>6, <1>7, <1>8, <1>9, Zenon DEF Unfinished
<1>11. Boxes(round + 1) = {<<i, round + 1>> : i \in {j \in Ops : Kind[j] = "zerocopy"}}
  BY Zenon DEF Boxes
<1>12. Boxed'
  <2>1. \A u \in InUse' : Kind'[u[1]] = "zerocopy" => u \in heap'
    BY <1>0, <1>1, <1>6, Zenon DEF Boxed, Framed
  <2>2. \A j \in Ops' : Kind'[j] = "zerocopy" /\ child'[j] = "new" => <<j, round'>> \in heap'
    BY <1>0, <1>1, <1>11, Zenon DEF Framed
  <2>3. ASSUME NEW h \in heap'
        PROVE  /\ h \in Ops' \X (1..round')
               /\ Kind'[h[1]] = "zerocopy"
               /\ h \in InUse' \/ (h[2] = round' /\ child'[h[1]] = "new")
    <3>1. CASE h \in heap
      <4>1. h \in Ops \X (1..round) /\ Kind[h[1]] = "zerocopy" /\ h \in InUse
        BY <1>2, <3>1, Zenon DEF Boxed
      <4>2. 1..round \subseteq 1..round'
        BY <1>1, <1>3
      <4> QED
        BY <1>0, <1>6, <4>1, <4>2, Zenon DEF Framed
    <3>2. CASE h \in Boxes(round + 1)
      <4>1. PICK i \in Ops : Kind[i] = "zerocopy" /\ h = <<i, round + 1>>
        BY <1>11, <3>2, Zenon
      <4>2. round + 1 \in 1..round'
        BY <1>1, <1>3
      <4> QED
        BY <1>0, <1>1, <4>1, <4>2, Zenon DEF Framed
    <3> QED
      BY <1>1, <3>1, <3>2, Zenon
  <2> QED
    BY <2>1, <2>2, <2>3, Zenon DEF Boxed
<1>13. Counted'
  BY <1>1, <1>6, Zenon DEF Counted
<1>14. Ops' = Ops /\ N' = N /\ Done' = {}
  BY <1>0, <1>1, Zenon DEF Framed, Done
<1>15. Results'
  <2>1. Cardinality({}) = 0
    BY Zenon DEF CardinalityLaws
  <2> QED
    BY <1>1, <1>14, <2>1 DEF Results
<1>16. Progress'
  <2>1. (\A i \in Ops : 1 <= i) /\ (N # 0 => 1 \in Ops)
    BY <1>0 DEF GroupOK
  <2>2. N # 0 => {} # Ops
    BY <2>1, Zenon
  <2> QED
    BY <1>1, <1>14, <2>1, <2>2, Zenon DEF Progress
<1>17. running = 0
  BY <1>1, NoneRuns, Zenon
<1>18. CallbackWhilePending'
  BY <1>0, <1>1, <1>14, <1>17 DEF CallbackWhilePending, GroupOK
<1>19. TypeOK'
  <2>1. Boxes(round + 1) \subseteq Ops \X (1..setup.rounds)
    BY <1>3, <1>11
  <2>2. 1 \in 1..N + 1 /\ <<>> \in Seq(Ops)
    BY <1>0 DEF GroupOK
  <2>3. stopped' \in BOOLEAN /\ outer' \in {"none", "running", "over"}
    BY <1>1, Zenon DEF Token, TypeOK
  <2> QED
    BY <1>1, <1>3, <1>14, <2>1, <2>2, <2>3, Zenon DEF TypeOK
<1>20. Winning'
  <2>1. requested' \in [outside : SUBSET Nat, inside : SUBSET Nat]
    <3>1. requested.outside \in SUBSET Nat /\ requested.inside \in SUBSET Nat
      BY DEF Winning
    <3>2. \/ requested' = requested
          \/ requested' = [outside |-> requested.outside \cup {round + 1},
                           inside |-> requested.inside \cup {round + 1}]
      BY <1>1, Zenon DEF Token
    <3>3. requested.outside \cup {round + 1} \in SUBSET Nat
          /\ requested.inside \cup {round + 1} \in SUBSET Nat
      BY <1>3, <3>1, Zenon
    <3> QED
      BY <3>1, <3>2, <3>3 DEF Winning
  <2>4. ASSUME Undisturbed'
        PROVE  Undisturbed /\ stopped' = FALSE /\ outer' = "none"
    <3>1. requested'.outside = {} /\ setup'.any
      BY <2>4, Zenon DEF Undisturbed
    <3>2. CASE requested' = [outside |-> requested.outside \cup {round + 1},
                             inside |-> requested.inside \cup {round + 1}]
      <4>1. requested'.outside = requested.outside \cup {round + 1}
        BY <3>2, Zenon
      <4> QED
        BY <3>1, <4>1, Zenon
    <3>3. CASE requested' = requested /\ stopped' = FALSE /\ outer' = "none"
      BY <3>1, <3>3, Zenon DEF Undisturbed
    <3> QED
      BY <1>1, <3>2, <3>3, Zenon DEF Token
  <2>2. /\ \A k \in kernel : k.gen # round + 1
        /\ \A n \in Arrived : cq[n].gen # round + 1
    BY <1>3 DEF RingTypes, Known
  <2>3. stopped' = FALSE => Fresh'
    BY <1>1, <1>7, <1>8, <2>2, Zenon DEF Fresh
  <2> QED
    BY <1>1, <1>8, <1>17, <2>1, <2>3, <2>4, Zenon DEF Winning
<1> QED
  BY <1>5, <1>10, <1>12, <1>13, <1>15, <1>16, <1>18, <1>19, <1>20, Zenon

(* The thread that requests a stop of the group.                           *)
LEMMA StopperSteps ==
  ASSUME Inv, UNCHANGED setup,
         RequestStop \/ (\E i \in Ops : RunCallback(i)) \/ StopReturns
  PROVE  Inv'
<1> USE DEF Inv
<1>0. Framed /\ GroupOK
  BY FrameIs, GroupIs, Zenon
<1>1. UNCHANGED <<round, co, awaiter, child, order, result, next, checked, heap, pending,
                  sq, cq, kernel>>
  BY Zenon DEF RequestStop, RunCallback, StopReturns, group, start, rings
<1>2. RingTypes' /\ OnePlace' /\ Unfinished' /\ Boxed' /\ Counted'
  BY <1>1, RingsAlone, Zenon
<1>3. Results' /\ Progress'
  BY <1>1, GroupKept, Zenon
<1>4. Ops' = Ops /\ N' = N
  BY <1>0, Zenon DEF Framed
<1>5. CASE RequestStop
  <2>1. /\ outer' \in {"running", "over"} /\ stopped' = TRUE /\ UNCHANGED <<callback, running>>
        /\ requested' = [outside |-> requested.outside \cup {round},
                         inside |-> requested.inside \cup {round}]
    BY <1>5, Zenon DEF RequestStop
  <2>2. TypeOK' /\ CallbackWhilePending'
    BY <1>1, <1>4, <2>1, Zenon DEF TypeOK, CallbackWhilePending
  <2>3. requested' \in [outside : SUBSET Nat, inside : SUBSET Nat] /\ requested'.outside # {}
    <3>1. requested.outside \in SUBSET Nat /\ requested.inside \in SUBSET Nat /\ round \in Nat
      BY DEF Winning, TypeOK
    <3> QED
      BY <2>1, <3>1, Zenon
  <2>4. Winning'
    BY <2>3, Zenon DEF Winning, Undisturbed
  <2> QED
    BY <1>2, <1>3, <2>2, <2>4, Zenon
<1>6. CASE (\E i \in Ops : RunCallback(i)) \/ StopReturns
  <2>1. outer = "running" /\ UNCHANGED <<stopped, requested>>
    BY <1>6, Zenon DEF RunCallback, StopReturns, group
  <2>2. TypeOK' /\ CallbackWhilePending'
    <3>1. CASE \E i \in Ops : RunCallback(i)
      <4>1. PICK i \in Ops : RunCallback(i)
        BY <3>1, Zenon
      <4>2. /\ callback[i] /\ callback' = [callback EXCEPT ![i] = FALSE]
            /\ running' = i /\ outer' = outer
        BY <4>1, Zenon DEF RunCallback
      <4>3. callback' \in [Ops -> BOOLEAN] /\ \A j \in Ops : callback'[j] => callback[j]
        BY <4>2, Zenon DEF TypeOK
      <4>4. running' \in 0..N
        BY <1>0, <4>2 DEF GroupOK
      <4> QED
        BY <1>1, <1>4, <2>1, <4>2, <4>3, <4>4, Zenon DEF TypeOK, CallbackWhilePending
    <3>2. CASE StopReturns
      <4>1. outer' = "over" /\ UNCHANGED <<callback, running>>
        BY <3>2, Zenon DEF StopReturns, group
      <4> QED
        BY <1>1, <1>4, <2>1, <4>1, Zenon DEF TypeOK, CallbackWhilePending
    <3> QED
      BY <1>6, <3>1, <3>2, Zenon
  <2>3. ~Undisturbed
    BY <2>1, Zenon DEF Winning
  <2>4. Winning'
    BY <2>1, <2>3, Zenon DEF Winning, Undisturbed
  <2> QED
    BY <1>2, <1>3, <2>2, <2>4, Zenon
<1> QED
  BY <1>5, <1>6, Zenon

(* A callback of the stop has sent its Cancel message. *)
LEMMA CancelInternalStep ==
  ASSUME Inv, UNCHANGED setup, CancelInternal
  PROVE  Inv'
<1> USE DEF Inv
<1>0. Framed /\ GroupOK
  BY FrameIs, GroupIs, Zenon
<1>1. /\ running # 0 /\ running' = 0
      /\ cq' = Append(cq, CancelMsg(Address(running, round)))
      /\ UNCHANGED <<round, co, awaiter, child, callback, stopped, order, result, requested,
                     next, checked, outer, heap, pending, sq, kernel>>
  BY Zenon DEF CancelInternal, group, start
<1>2. running \in Ops /\ round \in Nat
  BY <1>0, <1>1 DEF TypeOK, GroupOK
<1> DEFINE a == Address(running, round)
<1>3. CancelMsg(a) \in CqEntry /\ CancelMsg(a).type = "Cancel"
  <2>1. a \in Ops \X Nat
    BY <1>2, AddressIs, Zenon
  <2> HIDE DEF a
  <2> QED
    BY <2>1, Zenon DEF CancelMsg, CqEntry
<1> HIDE DEF a
<1>4. CqKept(0)
  <2>1. /\ cq' \in Seq(CqEntry)
        /\ DOMAIN cq' = DOMAIN cq \cup {Len(cq) + 1}
        /\ \A n \in DOMAIN cq : cq'[n] = cq[n] /\ n + 0 = n /\ n - 0 = n
        /\ cq'[Len(cq) + 1] = CancelMsg(a)
    BY <1>1, <1>3 DEF RingTypes, a
  <2>2. Arrived' = Arrived
    BY <1>3, <2>1, Zenon DEF Arrived
  <2> QED
    BY <2>1, <2>2, Zenon DEF CqKept, Arrived
<1>5. SqSame
  BY <1>1, SqStays, Zenon
<1>6. RingTypes' /\ OnePlace'
  BY <1>1, <1>2, <1>4, <1>5, RingsKeep
<1>7. InUse' = InUse
  BY <1>1, <1>4, <1>5, InUseKept, Zenon
<1>8. Boxed' /\ Counted'
  BY <1>1, <1>7, BoxesKept, Zenon
<1>9. Unfinished'
  BY <1>1, <1>4, <1>5, <1>7, UnfinishedKept, Zenon
<1>10. Results' /\ Progress'
  BY <1>1, GroupKept, Zenon
<1>11. 0 \notin Ops /\ 0 \in 0..N
  BY <1>0 DEF GroupOK
<1>12. TypeOK' /\ CallbackWhilePending'
  BY <1>0, <1>1, <1>11, Zenon DEF TypeOK, CallbackWhilePending, Framed
<1>13. Winning'
  <2>1. ~Undisturbed
    BY <1>1, Zenon DEF Winning
  <2> QED
    BY <1>1, <2>1, Zenon DEF Winning, Undisturbed
<1> QED
  BY <1>6, <1>8, <1>9, <1>10, <1>12, <1>13, Zenon

(* The kernel.                                                             *)
LEMMA SubmitStep ==
  ASSUME Inv, UNCHANGED setup, Submit
  PROVE  Inv'
<1> USE DEF Inv
<1>0. Framed /\ GroupOK
  BY FrameIs, GroupIs, Zenon
<1>1. /\ sq # <<>> /\ sq' = Tail(sq)
      /\ UNCHANGED <<round, co, awaiter, child, callback, stopped, order, result, requested,
                     next, checked, outer, running, heap, pending, cq>>
  BY Zenon DEF Submit, group, start, stopper
<1>2. SqTaken
  BY <1>1, SqTakenIs, Zenon
<1>3. \/ sq[1].type = "op" /\ kernel' = kernel \cup {Taken(sq[1])}
      \/ sq[1].type # "op" /\ kernel' = {Struck(k, sq[1].addr) : k \in kernel}
  <2>1. Head(sq) = sq[1]
    BY <1>2, Zenon DEF SqTaken
  <2>2. CASE sq[1].type = "op"
    BY <2>1, <2>2, Zenon DEF Submit, Taken
  <2>3. CASE sq[1].type # "op"
    BY <2>1, <2>3, Zenon DEF Submit, Struck
  <2> QED
    BY <2>2, <2>3, Zenon
<1>4. RingTypes' /\ OnePlace'
  BY <1>1, <1>2, <1>3, RingsSubmitOp, RingsSubmitCancel, Zenon
<1>5. InUse' = InUse
  BY <1>1, <1>2, <1>3, InUseSubmitted, Zenon
<1>6. Boxed' /\ Counted'
  BY <1>1, <1>5, BoxesKept, Zenon
<1>7. /\ Arrived' = Arrived
      /\ \A n \in Issued' : n + 1 \in Issued /\ sq'[n] = sq[n + 1] /\ n \in Nat
  BY <1>1, <1>2, Zenon DEF SqTaken, Issued, Arrived
<1>8. Unfinished'
  <2>1. ASSUME NEW n \in Issued' PROVE Owed(sq[n])'
    <3>1. Owed(sq[n + 1]) /\ sq'[n] = sq[n + 1]
      BY <1>7, Zenon DEF Unfinished
    <3> QED
      BY <1>1, <3>1, Zenon DEF Owed
  <2>2. ASSUME NEW k \in kernel', ~k.sent PROVE Owed(k)'
    <3>1. CASE sq[1].type = "op" /\ kernel' = kernel \cup {Taken(sq[1])}
      <4>1. Owed(sq[1])
        BY <1>2, <3>1, Zenon DEF Unfinished, SqTaken, Issued
      <4>2. Owed(k)
        BY <2>2, <3>1, <4>1 DEF Unfinished, Taken, Owed
      <4> QED
        BY <1>1, <4>2, Zenon DEF Owed
    <3>2. CASE kernel' = {Struck(l, sq[1].addr) : l \in kernel}
      <4>1. PICK l \in kernel : k = Struck(l, sq[1].addr)
        BY <3>2, Zenon
      <4>2. k.op = l.op /\ k.gen = l.gen /\ k.sent = l.sent
        BY <4>1, StruckIs DEF RingTypes
      <4>3. Owed(l)
        BY <2>2, <4>2, Zenon DEF Unfinished
      <4> QED
        BY <1>1, <4>2, <4>3, Zenon DEF Owed
    <3> QED
      BY <1>3, <3>1, <3>2, Zenon
  <2>3. \A n \in Arrived' : ~cq'[n].notif => Owed(cq[n])'
    BY <1>1, <1>7, Zenon DEF Unfinished, Owed
  <2>4. \A u \in InUse' : u[2] = round' => child'[u[1]] # "new"
    BY <1>1, <1>5, Zenon DEF Unfinished
  <2> QED
    BY <2>1, <2>2, <2>3, <2>4, Zenon DEF Unfinished
<1>9. Results' /\ Progress'
  BY <1>1, GroupKept, Zenon
<1>10. TypeOK' /\ CallbackWhilePending'
  BY <1>0, <1>1, Zenon DEF TypeOK, CallbackWhilePending, Framed
<1>11. Winning'
  <2>1. Undisturbed' <=> Undisturbed
    BY <1>1, Zenon DEF Undisturbed
  <2>2. ASSUME Fresh PROVE Fresh'
    <3>1. \A m \in DOMAIN sq' \ Issued' : m + 1 \in DOMAIN sq \ Issued /\ m \in Nat
      BY <1>2, Zenon DEF SqTaken, Issued
    <3>2. ASSUME NEW m \in DOMAIN sq' \ Issued', NEW n \in Issued', sq'[n].gen = round'
          PROVE  m < n
      <4>1. m + 1 < n + 1
        BY <1>1, <1>7, <2>2, <3>1, <3>2, Zenon DEF Fresh
      <4> QED
        BY <1>7, <3>1, <4>1
    <3>3. CASE sq[1].type = "op" /\ kernel' = kernel \cup {Taken(sq[1])}
      <4>1. Taken(sq[1]).cancelled = FALSE /\ Taken(sq[1]).gen = sq[1].gen
        BY Zenon DEF Taken
      <4>2. \A k \in kernel' : k.gen = round' => ~k.cancelled
        BY <1>1, <2>2, <3>3, <4>1, Zenon DEF Fresh
      <4>3. 1 \in Issued
        BY <1>2, <3>3, Zenon DEF SqTaken, Issued
      <4>4. ASSUME NEW m \in DOMAIN sq' \ Issued' PROVE \A k \in kernel' : k.gen # round'
        <5>1. ~(m + 1 < 1)
          BY <3>1
        <5>2. sq[1].gen # round
          BY <2>2, <3>1, <4>3, <5>1, Zenon DEF Fresh
        <5> QED
          BY <1>1, <2>2, <3>1, <3>3, <4>1, <5>2, Zenon DEF Fresh
      <4> QED
        BY <1>1, <1>7, <2>2, <3>1, <3>2, <4>2, <4>4, Zenon DEF Fresh
    <3>4. CASE sq[1].type # "op" /\ kernel' = {Struck(l, sq[1].addr) : l \in kernel}
      <4>1. 1 \in DOMAIN sq \ Issued
        BY <1>2, <3>4, Zenon DEF SqTaken, Issued
      <4>2. \A k \in kernel : k.gen # round
        BY <2>2, <4>1, Zenon DEF Fresh
      <4>3. ASSUME NEW k \in kernel' PROVE k.gen # round'
        <5>1. PICK l \in kernel : k = Struck(l, sq[1].addr)
          BY <3>4, Zenon
        <5>2. k.gen = l.gen
          BY <5>1, StruckIs DEF RingTypes
        <5> QED
          BY <1>1, <4>2, <5>2
      <4> QED
        BY <1>1, <1>7, <2>2, <3>1, <3>2, <4>3, Zenon DEF Fresh
    <3> QED
      BY <1>3, <3>3, <3>4, Zenon
  <2> QED
    BY <1>1, <1>7, <2>1, <2>2, Zenon DEF Winning
<1> QED
  BY <1>4, <1>6, <1>8, <1>9, <1>10, <1>11, Zenon

(* The kernel reports a completion. *)
LEMMA ReportStep ==
  ASSUME Inv, UNCHANGED <<setup, round, co, group, start, stopper, heap, pending, sq>>,
         NEW k \in kernel, NEW c, NEW K, Report(k, c, K)
  PROVE  Inv'
<1> USE DEF Inv
<1>0. Framed /\ GroupOK
  BY FrameIs, GroupIs, Zenon
<1>1. UNCHANGED <<setup, round, co, awaiter, child, callback, stopped, order, result, requested,
                  next, checked, outer, running, heap, pending, sq>>
  BY Zenon DEF group, start, stopper
<1>2. RingTypes' /\ OnePlace'
  BY <1>1, RingsReport, Zenon
<1>3. InUse' = InUse
  BY <1>1, InUseReported, Zenon
<1>4. Boxed' /\ Counted'
  BY <1>1, <1>3, BoxesKept, Zenon
<1> DEFINE z == Len(cq) + 1
<1>5. /\ z \notin Arrived
      /\ Arrived' = Arrived \cup {z}
      /\ \A n \in Arrived : cq'[n] = cq[n]
      /\ cq'[z] = c
      /\ Issued' = Issued
      /\ kernel' = (kernel \ {k}) \cup K
      /\ DOMAIN cq' = DOMAIN cq \cup {z}
  <2>1. c \in CqEntry /\ c.type = "Common" /\ cq' = Append(cq, c)
    BY Zenon DEF Report
  <2>2. Issued' = Issued /\ kernel' = (kernel \ {k}) \cup K
    BY <1>1, Zenon DEF Report, Issued
  <2> QED
    BY <2>1, <2>2, CqReports, Zenon
<1> HIDE DEF z
<1>6. Unfinished'
  <2>1. \A n \in Issued' : Owed(sq[n])'
    BY <1>1, <1>5, Zenon DEF Unfinished, Owed
  <2>2. ASSUME NEW l \in kernel', ~l.sent PROVE Owed(l)'
    <3>1. CASE l \in kernel
      BY <1>1, <2>2, <3>1, Zenon DEF Unfinished, Owed
    <3>2. CASE l \in K
      <4>1. ~c.notif /\ l.op = k.op /\ l.gen = k.gen
        BY <3>2, Zenon DEF Report, Same
      <4>2. Owed(k)
        BY <4>1, Zenon DEF Unfinished, Report
      <4> QED
        BY <1>1, <4>1, <4>2, Zenon DEF Owed
    <3> QED
      BY <1>5, <3>1, <3>2, Zenon
  <2>3. ASSUME NEW n \in Arrived', ~cq'[n].notif PROVE Owed(cq[n])'
    <3>1. CASE n \in Arrived
      BY <1>1, <1>5, <2>3, <3>1, Zenon DEF Unfinished, Owed
    <3>2. CASE n = z
      <4>1. ~k.sent /\ c.op = k.op /\ c.gen = k.gen
        BY <1>5, <2>3, <3>2, Zenon DEF Report
      <4>2. Owed(k)
        BY <4>1, Zenon DEF Unfinished
      <4> QED
        BY <1>1, <1>5, <3>2, <4>1, <4>2, Zenon DEF Owed
    <3> QED
      BY <1>5, <3>1, <3>2, Zenon
  <2>4. \A u \in InUse' : u[2] = round' => child'[u[1]] # "new"
    BY <1>1, <1>3, Zenon DEF Unfinished
  <2> QED
    BY <2>1, <2>2, <2>3, <2>4, Zenon DEF Unfinished
<1>7. Results' /\ Progress'
  BY <1>1, GroupKept, Zenon
<1>8. TypeOK' /\ CallbackWhilePending'
  BY <1>0, <1>1, Zenon DEF TypeOK, CallbackWhilePending, Framed
<1>9. Winning'
  <2>1. Undisturbed' <=> Undisturbed
    BY <1>1, Zenon DEF Undisturbed
  <2>2. ASSUME Fresh PROVE Fresh'
    <3>1. k.gen = round => ~k.cancelled
      BY <2>2, Zenon DEF Fresh
    <3>2. \A l \in kernel' : l.gen = round' => ~l.cancelled
      <4>1. \A l \in K : l.gen = k.gen /\ l.cancelled = k.cancelled
        BY Zenon DEF Report, Same
      <4> QED
        BY <1>1, <1>5, <2>2, <3>1, <4>1, Zenon DEF Fresh
    <3>3. \A n \in Arrived' : cq'[n].gen = round' => cq'[n].res # "ECANCELED"
      <4>1. c.gen = round => c.res # "ECANCELED"
        BY <3>1, Zenon DEF Report
      <4> QED
        BY <1>1, <1>5, <2>2, <4>1, Zenon DEF Fresh
    <3>4. ASSUME NEW m \in DOMAIN sq \ Issued
          PROVE  /\ \A n \in Issued : sq[n].gen = round => m < n
                 /\ \A l \in kernel' : l.gen # round
                 /\ \A n \in Arrived' : cq'[n].gen # round
      <4>1. k.gen # round
        BY <2>2, Zenon DEF Fresh
      <4>2. c.gen # round /\ \A l \in K : l.gen # round
        BY <4>1, Zenon DEF Report, Same
      <4> QED
        BY <1>5, <2>2, <4>1, <4>2, Zenon DEF Fresh
    <3>5. /\ ~stopped' /\ Issued' = Issued
          /\ UNCHANGED <<sq, round>>
      BY <1>1, <1>5, <2>2 DEF Fresh
    <3> QED
      BY <3>2, <3>3, <3>4, <3>5 DEF Fresh
  <2> QED
    BY <1>1, <1>5, <2>1, <2>2, Zenon DEF Winning
<1> QED
  BY <1>2, <1>4, <1>6, <1>7, <1>8, <1>9, Zenon

(* So it does in each of its four ways. *)
LEMMA KernelSteps ==
  ASSUME Inv, UNCHANGED setup, NEW k \in kernel,
         \/ Shot(k) \/ Sent(k) \/ Notify(k)
         \/ \E res \in {"ok", "ECANCELED"} : Complete(k, res)
  PROVE  Inv'
<1>1. TypeOK /\ RingTypes
  BY Zenon DEF Inv
<1>2. \E c, K : Report(k, c, K)
  BY <1>1, ShotReports, SentReports, NotifyReports, CompleteReports, Zenon
<1>3. UNCHANGED <<round, co, group, start, stopper, heap, pending, sq>>
  BY Zenon DEF Shot, Sent, Notify, Complete
<1> QED
  BY <1>2, <1>3, ReportStep, Zenon

(* The invariant holds when the coroutine begins to await.                 *)
LEMMA InvInit == CardinalityLaws /\ Init => Inv
<1> SUFFICES ASSUME CardinalityLaws, Init PROVE Inv
  OBVIOUS
<1> USE DEF Init
<1>1. setup \in Setups /\ setup.kinds \in Seq({"single", "multi", "zerocopy"})
      /\ setup.rounds \in Nat \ {0}
  BY OperationAssumption, Zenon
<1>2. N \in Nat /\ Ops = 1..N /\ 1 \in 1..N + 1 /\ 1 \in 1..setup.rounds
  BY <1>1 DEF N, Ops
<1>3. Boxes(1) = {<<i, 1>> : i \in {j \in Ops : Kind[j] = "zerocopy"}}
  BY Zenon DEF Boxes
<1>4. TypeOK
  <2>1. Boxes(1) \subseteq Ops \X (1..setup.rounds)
    BY <1>2, <1>3
  <2>2. <<>> \in Seq(Ops) /\ 0 \in 0..N /\ 0 \in Nat
    BY <1>2
  <2> QED
    BY <1>1, <1>2, <2>1, <2>2, Zenon DEF TypeOK
<1>5. Issued = {} /\ Arrived = {} /\ InUse = {}
  BY DEF Issued, Arrived, InUse
<1>6. RingTypes /\ OnePlace /\ Unfinished
  BY <1>5 DEF RingTypes, OnePlace, Unfinished
<1>7. CallbackWhilePending
  BY <1>2 DEF CallbackWhilePending
<1>8. Boxed
  <2>1. \A i \in Ops : Kind[i] = "zerocopy" => <<i, 1>> \in Boxes(1)
    BY <1>3, Zenon
  <2>2. ASSUME NEW h \in Boxes(1)
        PROVE  h \in Ops \X (1..1) /\ Kind[h[1]] = "zerocopy" /\ h[2] = 1 /\ child[h[1]] = "new"
    <3>1. PICK i \in Ops : Kind[i] = "zerocopy" /\ h = <<i, 1>>
      BY <1>3, Zenon
    <3> QED
      BY <3>1
  <2> QED
    BY <1>5, <2>1, <2>2, Zenon DEF Boxed
<1>9. Counted
  BY <1>5, Zenon DEF CardinalityLaws, Counted
<1>10. Done = {} /\ Cardinality({}) = 0
  BY Zenon DEF CardinalityLaws, Done
<1>11. Results
  BY <1>10 DEF Results
<1>12. Progress
  <2>1. (\A i \in Ops : 1 <= i) /\ (N # 0 => 1 \in Ops)
    BY <1>2
  <2>2. N # 0 => {} # Ops
    BY <2>1, Zenon
  <2> QED
    BY <1>10, <2>1, <2>2, Zenon DEF Progress
<1>13. Winning
  BY <1>5 DEF Winning, Fresh
<1> QED
  BY <1>4, <1>6, <1>7, <1>8, <1>9, <1>11, <1>12, <1>13, Zenon DEF Inv

(* Every step keeps the invariant. *)
LEMMA InvStep == CardinalityLaws /\ Inv /\ [Next]_vars => Inv'
<1> SUFFICES ASSUME CardinalityLaws, Inv, [Next]_vars PROVE Inv'
  OBVIOUS
<1>1. CASE UNCHANGED vars
  <2>1. UNCHANGED <<setup, round, co, awaiter, child, callback, stopped, order, result,
                    requested, next, checked, outer, running, heap, pending, sq, cq, kernel>>
    BY <1>1, Zenon DEF vars, group, start, stopper, rings
  <2>2. Ops' = Ops /\ N' = N
    BY <2>1, FrameIs, Zenon DEF Framed
  <2>3. RingTypes' /\ OnePlace' /\ Unfinished' /\ Boxed' /\ Counted'
    BY <2>1, RingsAlone, Zenon
  <2>4. Results' /\ Progress'
    BY <2>1, GroupKept, Zenon DEF Inv
  <2>5. TypeOK' /\ CallbackWhilePending'
    BY <2>1, <2>2, Zenon DEF Inv, TypeOK, CallbackWhilePending
  <2>6. Winning'
    <3>1. /\ Undisturbed' <=> Undisturbed
          /\ Fresh' <=> Fresh
          /\ Arrived' = Arrived
      BY <2>1 DEF Undisturbed, Fresh, Arrived, Issued
    <3> QED
      BY <2>1, <3>1, Zenon DEF Inv, Winning
  <2> QED
    BY <2>3, <2>4, <2>5, <2>6, Zenon DEF Inv
<1>2. CASE Next
  <2>0. UNCHANGED setup
    BY <1>2, Zenon DEF Next
  <2>1. ASSUME NEW i \in Ops, Start(i) PROVE Inv'
    <3>1. CASE StartCheck(i)
      BY <2>0, <3>1, AwaitSteps, Zenon
    <3>2. CASE StartStopped(i)
      BY <2>0, <3>2, FailStep, Zenon DEF StartStopped
    <3>3. CASE StartRejected(i)
      BY <2>0, <3>3, FailStep, Zenon DEF StartRejected
    <3>4. CASE StartIssue(i)
      BY <2>0, <3>4, StartIssueStep, Zenon
    <3> QED
      BY <2>1, <3>1, <3>2, <3>3, <3>4, Zenon DEF Start
  <2>2. CASE StartEmpty \/ AwaitSuspend \/ End
    BY <2>0, <2>2, AwaitSteps, Zenon
  <2>3. CASE ProcessCancel
    BY <2>0, <2>3, ProcessCancelStep, Zenon
  <2>4. CASE ProcessCommon
    BY <2>0, <2>4, FinishStep, MoreStep, Zenon
  <2>5. CASE AwaitAgain
    BY <2>0, <2>5, AwaitAgainStep, Zenon
  <2>6. CASE RequestStop \/ Stopper
    BY <2>0, <2>6, StopperSteps, CancelInternalStep, Zenon DEF Stopper
  <2>7. CASE Submit
    BY <2>0, <2>7, SubmitStep, Zenon
  <2>8. ASSUME NEW k \in kernel,
               \/ Shot(k) \/ Sent(k) \/ Notify(k)
               \/ \E res \in {"ok", "ECANCELED"} : Complete(k, res)
        PROVE  Inv'
    BY <2>0, <2>8, KernelSteps, Zenon
  <2> QED
    BY <1>2, <2>1, <2>2, <2>3, <2>4, <2>5, <2>6, <2>7, <2>8, Zenon DEF Next, Thread
<1> QED
  BY <1>1, <1>2, Zenon

(* A receiver that requests a stop of its siblings does not touch the      *)
(* token of the group.                                                     *)
LEMMA OutsideKept ==
  ASSUME Winning, Stopping, UNCHANGED <<round, outer, running>>,
         \/ UNCHANGED requested
         \/ requested' = [requested EXCEPT !.inside = @ \cup {round}]
  PROVE  Stopping'
<1>1. requested'.outside = requested.outside
  BY Zenon DEF Winning
<1> QED
  BY <1>1, Zenon DEF Stopping

(* Every step keeps it: a new await comes with a token whose stop it sees, *)
(* or with one of which no stop has been requested.                        *)
LEMMA StoppingStep == Inv /\ Stopping /\ [Next]_vars => Stopping'
<1> SUFFICES ASSUME Inv, Stopping, [Next]_vars PROVE Stopping'
  OBVIOUS
<1>0. Winning
  BY Zenon DEF Inv
<1>1. CASE UNCHANGED vars
  BY <1>1, Zenon DEF vars, group, stopper, Stopping
<1>2. CASE Thread
  <2>1. ASSUME NEW i, NEW res, Receive(i, res)
        PROVE  \/ UNCHANGED requested
               \/ requested' = [requested EXCEPT !.inside = @ \cup {round}]
    BY <2>1, Zenon DEF Receive
  <2>2. CASE \E i \in Ops : StartStopped(i) \/ StartRejected(i)
    <3>1. PICK i \in Ops : \E res : Fail(i, res)
      BY <2>2, Zenon DEF StartStopped, StartRejected
    <3>2. PICK res : Fail(i, res)
      BY <3>1, Zenon
    <3>3. Receive(i, res) /\ UNCHANGED <<round, outer, running>>
      BY <3>2, Zenon DEF Fail, stopper
    <3> QED
      BY <1>0, <2>1, <3>3, OutsideKept, Zenon
  <2>3. CASE ProcessCommon
    <3>1. UNCHANGED <<round, outer, running>>
      BY <2>3, Zenon DEF ProcessCommon, stopper
    <3>2. (\E i, res : Receive(i, res)) \/ UNCHANGED requested
      BY <2>3, Zenon DEF ProcessCommon, group
    <3> QED
      BY <1>0, <2>1, <3>1, <3>2, OutsideKept, Zenon
  <2>4. CASE \/ \E i \in Ops : StartCheck(i) \/ StartIssue(i)
             \/ StartEmpty \/ AwaitSuspend \/ ProcessCancel
    BY <2>4, Zenon DEF StartCheck, StartIssue, StartEmpty, AwaitSuspend, ProcessCancel,
                       group, stopper, Stopping
  <2> QED
    BY <1>2, <2>2, <2>3, <2>4, Zenon DEF Thread, Start
<1>3. CASE AwaitAgain
  <2>1. co = "running" /\ round' = round + 1 /\ running' = running /\ Token
    BY <1>3, Zenon DEF AwaitAgain
  <2>2. running' = 0
    BY <2>1, NoneRuns, Zenon
  <2>3. CASE outer' = "none"
    BY <2>2, <2>3, Zenon DEF Stopping
  <2>4. CASE requested' = [outside |-> requested.outside \cup {round + 1},
                           inside |-> requested.inside \cup {round + 1}]
    BY <2>1, <2>4, Zenon DEF Stopping
  <2> QED
    BY <2>1, <2>3, <2>4, Zenon DEF Token
<1>4. CASE RequestStop
  <2>1. round' = round /\ requested' = [outside |-> requested.outside \cup {round},
                                       inside |-> requested.inside \cup {round}]
    BY <1>4, Zenon DEF RequestStop
  <2> QED
    BY <2>1, Zenon DEF Stopping
<1>5. CASE Stopper
  BY <1>5, Zenon DEF Stopper, RunCallback, CancelInternal, StopReturns, group, Stopping
<1>6. CASE \/ End \/ Submit
           \/ \E k \in kernel : \/ Shot(k) \/ Sent(k) \/ Notify(k)
                               \/ \E res \in {"ok", "ECANCELED"} : Complete(k, res)
  BY <1>6, Zenon DEF End, Submit, Shot, Sent, Notify, Complete, group, stopper, Stopping
<1> QED
  BY <1>1, <1>2, <1>3, <1>4, <1>5, <1>6, Zenon DEF Next
-----------------------------------------------------------------------------
INSTANCE FiniteSetTheorems

(* The facts about cardinality are those of FiniteSetTheorems. *)
LEMMA CardinalityHolds == CardinalityLaws
<1>1. IsFiniteSet({}) /\ Cardinality({}) = 0
  BY FS_EmptySet, Zenon
<1>2. \A S : IsFiniteSet(S) => Cardinality(S) \in Nat
  BY FS_CardinalityType, Zenon
<1>3. \A S, x : IsFiniteSet(S) /\ x \notin S =>
       IsFiniteSet(S \cup {x}) /\ Cardinality(S \cup {x}) = Cardinality(S) + 1
  BY FS_AddElement, Zenon
<1>4. \A S, x : IsFiniteSet(S) /\ x \in S =>
       IsFiniteSet(S \ {x}) /\ Cardinality(S \ {x}) = Cardinality(S) - 1
  BY FS_RemoveElement, Zenon
<1>5. \A n \in Nat : IsFiniteSet(1..n) /\ Cardinality(1..n) = n
  BY FS_Interval
<1>6. \A S, T : IsFiniteSet(T) /\ S \subseteq T =>
       IsFiniteSet(S) /\ (Cardinality(S) = Cardinality(T) => S = T)
  BY FS_Subset, Zenon
<1> QED
  BY <1>1, <1>2, <1>3, <1>4, <1>5, <1>6, Zenon DEF CardinalityLaws

(* handle() finds the handle its completion names alive: in the frame of   *)
(* the suspended coroutine, of this round, or on the heap for a zero-copy  *)
(* operation, whose handle is deleted with its last completion and not     *)
(* before, and is never leaked.                                            *)
THEOREM HandlesAreLive == Spec => []HandlesLive
<1>1. Init => Stopping
  BY Zenon DEF Init, Stopping
<1> QED
  BY <1>1, LiveOf, CardinalityHolds, InvInit, InvStep, StoppingStep, PTL DEF Spec

(* pending_works_ is the number of operations io_uring has yet to finish:  *)
(* add and subtract pair, whatever F_MORE and F_NOTIF say on the way, so   *)
(* the runtime neither ends early nor waits for nothing.                   *)
THEOREM PendingIsBalanced == Spec => []PendingIsInUse
<1>1. Inv => PendingIsInUse
  BY Zenon DEF Inv, Counted, PendingIsInUse
<1> QED
  BY <1>1, CardinalityHolds, InvInit, InvStep, PTL DEF Spec

(* The coroutine that awaits a group goes on once, after the last of its   *)
(* operations, with a result of each, also when some of them finish while  *)
(* others are still being started.                                         *)
THEOREM Resumed == Spec => []ResumedOnce
<1>1. Inv => ResumedOnce
  <2> SUFFICES ASSUME Inv PROVE ResumedOnce
    OBVIOUS
  <2>1. co # "crash"
    BY Zenon DEF Inv, Progress
  <2>2. ASSUME co \in {"running", "ended"}
        PROVE  /\ \A i \in Ops : child[i] = "done" /\ result[i] # "none"
               /\ {order[n] : n \in DOMAIN order} = Ops /\ Len(order) = N
    <3>1. Done = Ops
      BY <2>2, Zenon DEF Inv, Progress
    <3>2. Cardinality(Ops) = N
      BY CardinalityHolds, OpsFinite, Zenon DEF Inv
    <3> QED
      BY <3>1, <3>2, Zenon DEF Inv, Results, Done
  <2> QED
    BY <2>1, <2>2, Zenon DEF ResumedOnce
<1> QED
  BY <1>1, CardinalityHolds, InvInit, InvStep, PTL DEF Spec

(* Without a stop from outside the first to finish under when_any has a    *)
(* result of its own: neither the cancellations it starts nor those left   *)
(* over from an earlier use of the same awaiters reach it.                 *)
THEOREM WinnerByItself == Spec => []WinnerNotCancelled
<1> QED
  BY WinnerOf, CardinalityHolds, InvInit, InvStep, PTL DEF Spec
=============================================================================
