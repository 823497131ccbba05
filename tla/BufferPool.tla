----------------------------- MODULE BufferPool ------------------------------
(***************************************************************************)
(* ProvidedBufferPool (provided_buffers.hpp) and the ProvidedBuffers it    *)
(* hands out (detail/buffers.hpp).                                         *)
(*                                                                         *)
(* The pool shares a ring of buffers with the kernel: the pool adds at the *)
(* tail, the kernel takes from its own head.  The pool does not look at    *)
(* the buffer id of a completion; it walks the ring with a head of its own *)
(* (br_head_) on the assumption that completions come in the order in      *)
(* which the kernel took the buffers.  What the kernel does is external.   *)
(***************************************************************************)
EXTENDS Integers, Sequences, FiniteSets, FiniteSetsExt, SequencesExt

CONSTANTS
  NumBuffers,  \* num_buffers_, a power of two
  BufferSize,  \* buffer_size_
  IndexBits,   \* width of the ring's tail and of br_head_ (16 in the code)
  Bundled,     \* a completion may cover several buffers
  Overtaking,  \* completions may overtake one another after the kernel has
               \* taken their buffers (reads punted to io-wq)
  MaxOps       \* bound: operations that have taken buffers, not yet handled

Bids == 0..NumBuffers - 1
Index == 0..2^IndexBits - 1
Plus(i, k) == (i + k) % 2^IndexBits
Slot(i) == i % NumBuffers

VARIABLES
  incr,          \* IOU_PBUF_RING_INC: a buffer is consumed piece by piece
  bufs,          \* br_->bufs: the buffer id in each slot
  tail,          \* br_->tail
  khead,         \* the kernel's head
  kused,         \* bytes the kernel has used of the buffer at its head
  taken,         \* operations that have taken buffers and not completed, in
                 \* that order
  cq,            \* completions to be handled
  br_head,       \* br_head_
  curr_buf_len,  \* curr_buf_len_
  held           \* ProvidedBuffers the user has

kernelSide == <<khead, kused, taken>>
vars == <<incr, bufs, tail, kernelSide, cq, br_head, curr_buf_len, held>>

(* The constructor, with or without the flag, adds every buffer. *)
Init ==
  /\ incr \in BOOLEAN
  /\ bufs = [s \in Bids |-> s]
  /\ tail = NumBuffers
  /\ khead = 0
  /\ kused = 0
  /\ taken = <<>>
  /\ cq = <<>>
  /\ br_head = 0
  /\ curr_buf_len = BufferSize
  /\ held = {}
-----------------------------------------------------------------------------
(* The kernel.                                                             *)

Available == (tail - khead) % 2^IndexBits

(* Space left in the j-th buffer from the kernel's head. *)
Room(j) == IF j = 0 THEN BufferSize - kused ELSE BufferSize

(* An operation receives bytes into the next m buffers, x of them into the *)
(* last one.  A buffer is finished when it is full, or used at all if the  *)
(* ring is not incremental.                                                *)
Take(m, x) ==
  LET full(j) == ~incr \/ j < m - 1 \/ x = Room(j)
      start(j) == IF j = 0 THEN kused ELSE 0
      op == [bytes |-> MapThenSumSet(Room, 0..m - 2) + x,
             took |-> [j \in 1..m |->
                         [bid |-> bufs[Slot(khead + j - 1)],
                          off |-> start(j - 1), owns |-> full(j - 1)]]]
  IN
  /\ Len(taken) + Len(cq) < MaxOps
  /\ m <= Available
  /\ x \in 1..Room(m - 1)
  /\ khead' = Plus(khead, IF full(m - 1) THEN m ELSE m - 1)
  /\ kused' = IF full(m - 1) THEN 0 ELSE start(m - 1) + x
  /\ taken' = Append(taken, op)
  /\ UNCHANGED <<bufs, tail, cq, br_head, curr_buf_len, held>>

(* An operation that has taken its buffers completes. *)
Post(n) ==
  /\ n = 1 \/ Overtaking
  /\ taken' = RemoveAt(taken, n)
  /\ cq' = Append(cq, taken[n])
  /\ UNCHANGED <<bufs, tail, khead, kused, br_head, curr_buf_len, held>>

(* An operation completes without F_BUFFER: end of file, or no buffer. *)
PostNothing ==
  /\ Len(taken) + Len(cq) < MaxOps
  /\ cq' = Append(cq, [bytes |-> 0, took |-> <<>>])
  /\ UNCHANGED <<bufs, tail, kernelSide, br_head, curr_buf_len, held>>
-----------------------------------------------------------------------------
(* The pool.                                                               *)

(* Mutant: the remaining length is not restored for the next buffer's      *)
(* first piece: the offset is computed after curr_buf_len_ is lowered.     *)
HandlePieceLate(s) ==
  LET len == IF incr THEN Min({s.bytes, s.len}) ELSE s.len
      piece == [bid |-> bufs[Slot(s.head)], off |-> BufferSize - (s.len - len),
                owns |-> s.len = len]
  IN  [bytes |-> s.bytes - len, got |-> Append(s.got, piece),
       head |-> IF s.len = len THEN Plus(s.head, 1) ELSE s.head,
       len |-> IF s.len = len THEN BufferSize ELSE s.len - len]

(* One turn of the loop of handle_finish: bytes left to account for, the   *)
(* buffers so far, br_head_ and curr_buf_len_.                             *)
HandlePiece(s) ==
  LET len == IF incr THEN Min({s.bytes, s.len}) ELSE s.len
      piece == [bid |-> bufs[Slot(s.head)], off |-> BufferSize - s.len,
                owns |-> s.len = len]
  IN  [bytes |-> s.bytes - len, got |-> Append(s.got, piece),
       head |-> IF s.len = len THEN Plus(s.head, 1) ELSE s.head,
       len |-> IF s.len = len THEN BufferSize ELSE s.len - len]

(* The loop, for a completion of so many bytes. *)
HandleLoop(bytes) ==
  LET turn[k \in 0..NumBuffers + 1] ==
        IF k = 0 THEN [bytes |-> bytes, got |-> <<>>, head |-> br_head,
                       len |-> curr_buf_len]
        ELSE IF turn[k - 1].bytes <= 0 THEN turn[k - 1]
        ELSE HandlePiece(turn[k - 1])
  IN  turn[NumBuffers + 1]

(* handle_finish of the next completion; the user gets the buffers. *)
HandleFinish ==
  LET s == HandleLoop(Head(cq).bytes) IN
  /\ cq # <<>>
  /\ cq' = Tail(cq)
  /\ br_head' = s.head
  /\ curr_buf_len' = s.len
  /\ held' = held \cup ToSet(s.got)
  /\ UNCHANGED <<bufs, tail, kernelSide>>

(* Mutant: the buffer goes to the slot of its own number. *)
ResetOwnSlot(p) ==
  /\ p \in held
  /\ held' = held \ {p}
  /\ IF p.owns
       THEN /\ bufs' = [bufs EXCEPT ![p.bid] = p.bid]
            /\ tail' = Plus(tail, 1)
       ELSE UNCHANGED <<bufs, tail>>
  /\ UNCHANGED <<kernelSide, cq, br_head, curr_buf_len>>

(* reset() or destruction of a ProvidedBuffer: add_buffer_back if it owns  *)
(* its buffer.                                                             *)
Reset(p) ==
  /\ p \in held
  /\ held' = held \ {p}
  /\ IF p.owns
       THEN /\ bufs' = [bufs EXCEPT ![Slot(tail)] = p.bid]
            /\ tail' = Plus(tail, 1)
       ELSE UNCHANGED <<bufs, tail>>
  /\ UNCHANGED <<kernelSide, cq, br_head, curr_buf_len>>
-----------------------------------------------------------------------------
Next ==
  /\ \/ \E m \in IF Bundled THEN 1..NumBuffers ELSE {1} :
          \E x \in 1..BufferSize : Take(m, x)
     \/ \E n \in DOMAIN taken : Post(n)
     \/ PostNothing
     \/ HandleFinish
     \/ \E p \in held : Reset(p)
  /\ UNCHANGED incr

Spec == Init /\ [][Next]_vars
-----------------------------------------------------------------------------
Piece == [bid : Bids, off : 0..BufferSize - 1, owns : BOOLEAN]

(* The pool's state is well typed. *)
TypeOK ==
  /\ bufs \in [Bids -> Bids]
  /\ {tail, khead, br_head} \subseteq Index
  /\ kused \in 0..BufferSize - 1
  /\ curr_buf_len \in 1..BufferSize
  /\ held \subseteq Piece

(* "when the object is destroyed, its buffer is returned to the pool"      *)
(* (docs/guide.md:792), and not before: the kernel cannot write where a    *)
(* ProvidedBuffer points that still exists.  (With the flag a buffer comes *)
(* in pieces, and the piece that owns it may go before the others.)        *)
HeldIsNotWritten ==
  ~incr => \A p \in held, j \in 0..NumBuffers - 1 :
             j < Available => bufs[Slot(khead + j)] # p.bid

(* The state is well typed, and every buffer is in exactly one place: in   *)
(* the ring for the kernel to take, with an operation that has finished    *)
(* it, or owned by a ProvidedBuffer.  add_buffer_back never returns a      *)
(* buffer twice and handle_finish never drops one, so the pool does not    *)
(* run dry; nor can the kernel write where a ProvidedBuffer points.        *)
BufferInOnePlace ==
  /\ TypeOK
  /\ HeldIsNotWritten
  /\ \A b \in Bids :
       LET Final(op) == \E n \in DOMAIN op.took :
                          op.took[n].bid = b /\ op.took[n].owns
       IN  Cardinality({j \in 0..NumBuffers - 1 :
                          j < Available /\ bufs[Slot(khead + j)] = b})
           + Cardinality({n \in DOMAIN taken : Final(taken[n])})
           + Cardinality({n \in DOMAIN cq : Final(cq[n])})
           + Cardinality({p \in held : p.bid = b /\ p.owns}) = 1

(* "it returns a `condy::ProvidedBuffer` object" (docs/guide.md:792): the  *)
(* buffers that handle_finish makes of a completion are the ones the       *)
(* kernel filled for that operation, at the offsets where it did.          *)
ReturnsFilledBuffer ==
  cq # <<>> => HandleLoop(Head(cq).bytes).got = Head(cq).took
=============================================================================
