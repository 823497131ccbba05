----------------------------- MODULE BufferQueue -----------------------------
(***************************************************************************)
(* ProvidedBufferQueue (provided_buffers.hpp): buffers that the user       *)
(* pushes and the kernel consumes.  A completion names the first buffer it *)
(* used; handle_finish works out from the number of bytes and from the     *)
(* lengths it has recorded (buf_lens_) how many buffers are used up.  Ids  *)
(* are assigned in a cycle on the assumption that completions come in the  *)
(* order in which the kernel took the buffers: size_ counts buffers and    *)
(* says nothing of which.  What the kernel does is external.               *)
(***************************************************************************)
EXTENDS Integers, Sequences, FiniteSets, FiniteSetsExt, SequencesExt

CONSTANTS
  Capacity,   \* capacity_, a power of two
  Lens,       \* lengths of the buffers that are pushed
  IndexBits,  \* width of the ring's tail (16 in the code)
  Bundled,    \* a completion may cover several buffers
  Overtaking, \* completions may overtake one another after the kernel has
              \* taken their buffers (reads punted to io-wq)
  MaxOps      \* bound: operations that have taken buffers, not yet handled

Bids == 0..Capacity - 1
Plus(i, k) == (i + k) % 2^IndexBits
Bid(i) == i % Capacity

VARIABLES
  incr,      \* IOU_PBUF_RING_INC
  len,       \* br_->bufs: the length of the buffer in each slot
  tail,      \* br_->tail
  khead,     \* the kernel's head
  kused,     \* bytes the kernel has used of the buffer at its head
  taken,     \* operations that have taken buffers and not completed, in
             \* that order
  cq,        \* completions to be handled
  buf_lens,  \* buf_lens_
  size       \* size_

kernelSide == <<khead, kused, taken>>
vars == <<incr, len, tail, kernelSide, cq, buf_lens, size>>

Init ==
  /\ incr \in BOOLEAN
  /\ len = [b \in Bids |-> 0]
  /\ tail = 0
  /\ khead = 0
  /\ kused = 0
  /\ taken = <<>>
  /\ cq = <<>>
  /\ buf_lens = [b \in Bids |-> 0]
  /\ size = 0
-----------------------------------------------------------------------------
(* Mutant: the capacity test is off by one. *)
HasRoomOver == size <= Capacity

(* push() throws otherwise. *)
HasRoom == size < Capacity

(* push() of a buffer of length n. *)
Push(n) ==
  /\ HasRoom
  /\ len' = [len EXCEPT ![Bid(tail)] = n]
  /\ buf_lens' = [buf_lens EXCEPT ![Bid(tail)] = n]
  /\ tail' = Plus(tail, 1)
  /\ size' = size + 1
  /\ UNCHANGED <<kernelSide, cq>>
-----------------------------------------------------------------------------
(* The kernel.                                                             *)

Available == (tail - khead) % 2^IndexBits

(* Space left in the j-th buffer from the kernel's head. *)
Room(j) == len[Bid(khead + j)] - (IF j = 0 THEN kused ELSE 0)

(* An operation uses the next m buffers, x bytes of the last one.  used:   *)
(* how many buffers it has used up.                                        *)
Take(m, x) ==
  LET full == ~incr \/ x = Room(m - 1)
      used == IF full THEN m ELSE m - 1
  IN
  /\ Len(taken) + Len(cq) < MaxOps
  /\ m <= Available
  /\ x \in 1..Room(m - 1)
  /\ taken' = Append(taken, [bid |-> Bid(khead), used |-> used,
                             bytes |-> MapThenSumSet(Room, 0..m - 2) + x])
  /\ khead' = Plus(khead, used)
  /\ kused' = IF full THEN 0 ELSE (IF m = 1 THEN kused ELSE 0) + x
  /\ UNCHANGED <<len, tail, cq, buf_lens, size>>

(* An operation that has used its buffers completes. *)
Post(n) ==
  /\ n = 1 \/ Overtaking
  /\ taken' = RemoveAt(taken, n)
  /\ cq' = Append(cq, taken[n])
  /\ UNCHANGED <<len, tail, khead, kused, buf_lens, size>>

(* An operation completes without F_BUFFER. *)
PostNothing ==
  /\ Len(taken) + Len(cq) < MaxOps
  /\ cq' = Append(cq, [bid |-> 0, used |-> 0, bytes |-> 0])
  /\ UNCHANGED <<len, tail, kernelSide, buf_lens, size>>
-----------------------------------------------------------------------------
(* Mutant: the rest of a buffer that is not used incrementally is left. *)
ConsumedMin(s) == Min({s.bytes, s.lens[Bid(s.idx)]})

(* What handle_finish takes off the buffer it has come to. *)
Consumed(s) ==
  IF incr THEN Min({s.bytes, s.lens[Bid(s.idx)]}) ELSE s.lens[Bid(s.idx)]

UsedUp(s) == s.lens[Bid(s.idx)] = Consumed(s)

(* One turn of the loop of handle_finish. *)
HandleBuffer(s) ==
  [bytes |-> s.bytes - Consumed(s), idx |-> s.idx + 1,
   lens |-> [s.lens EXCEPT ![Bid(s.idx)] = @ - Consumed(s)],
   num |-> IF UsedUp(s) THEN s.num + 1 ELSE s.num]

(* The loop; it ends because the recorded lengths cover the bytes. *)
HandleLoop(c) ==
  LET turn[k \in 0..Capacity + 1] ==
        IF k = 0 THEN [bytes |-> c.bytes, idx |-> c.bid, lens |-> buf_lens,
                       num |-> 0]
        ELSE IF turn[k - 1].bytes <= 0 THEN turn[k - 1]
        ELSE HandleBuffer(turn[k - 1])
  IN  turn[Capacity + 1]

HandleFinish ==
  LET s == HandleLoop(Head(cq)) IN
  /\ cq # <<>>
  /\ cq' = Tail(cq)
  /\ buf_lens' = s.lens
  /\ size' = size - s.num
  /\ UNCHANGED <<len, tail, kernelSide>>
-----------------------------------------------------------------------------
Next ==
  /\ \/ \E n \in Lens : Push(n)
     \/ \E m \in IF Bundled THEN 1..Capacity ELSE {1}, x \in 1..Max(Lens) :
          Take(m, x)
     \/ \E n \in DOMAIN taken : Post(n)
     \/ PostNothing
     \/ HandleFinish
  /\ UNCHANGED incr

Spec == Init /\ [][Next]_vars
-----------------------------------------------------------------------------
(* The queue's state is well typed; size_, which is unsigned, does not go  *)
(* below zero (assert(size_ >= result.num_buffers)).                       *)
TypeOK ==
  /\ len \in [Bids -> Nat]
  /\ {tail, khead} \subseteq 0..2^IndexBits - 1
  /\ kused \in Nat
  /\ buf_lens \in [Bids -> Nat]
  /\ size \in 0..Capacity

(* The state is well typed; handle_finish reports exactly the buffers the  *)
(* completion used up (BufferInfo::num_buffers), and its loop ends; size_  *)
(* counts the buffers the kernel has, whole or in part, and those used up  *)
(* by operations whose completion is still to come or to be handled.  (If  *)
(* completions overtake one another, the second piece of a buffer used     *)
(* incrementally may be counted before the first.)                         *)
InfoIsExact ==
  /\ TypeOK
  /\ cq # <<>> =>
       LET s == HandleLoop(Head(cq))
       IN  s.bytes <= 0 /\ s.num = Head(cq).used
  /\ size = Available + MapThenSumSet(LAMBDA n : (cq \o taken)[n].used, DOMAIN (cq \o taken))

(* The buffer ids that the completion of an operation will report on. *)
Unreported(c) == {Bid(c.bid + j) : j \in 0..c.used - 1}

(* A buffer id is not assigned again while the kernel has the buffer or an *)
(* operation that used it up has not been handled, however the 16-bit tail *)
(* wraps: the user, who finds the buffer by its id, would take one for the *)
(* other.  This is so as long as completions do not overtake one another.  *)
PushTakesFreeId ==
  [][tail' # tail =>
       /\ Available < Capacity
       /\ \A n \in DOMAIN (cq \o taken) : Bid(tail) \notin Unreported((cq \o taken)[n])]_vars
=============================================================================
