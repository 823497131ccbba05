---------------------------- MODULE MCStructures -----------------------------
(***************************************************************************)
(* The data structures side by side: the intrusive lists, BufferPool,      *)
(* BufferQueue and ZeroCopyRx; and what is made before them: Registration  *)
(* and RuntimeOptions.  A behaviour is one of one of them; the others stay *)
(* as they were made.                                                      *)
(***************************************************************************)
EXTENDS Naturals

CONSTANTS Overtaking, None

VARIABLES
  which,
  double, doubleSeq, single, singleSeq,
  p_incr, p_bufs, p_tail, p_khead, p_kused, p_taken, p_cq, br_head,
  curr_buf_len, p_held,
  q_incr, q_len, q_tail, q_khead, q_kused, q_taken, q_cq, buf_lens, size,
  z_ended, z_lent, z_cq, z_held, z_empty, rqes, rq_tail, z_khead,
  next_id, recycled, rings, maps, object,
  enabled, sq_size, cq_size, submit_batch

Lists == INSTANCE Lists WITH Entries <- 1..3, Names <- {"a", "b"}, Null <- 0

Pool == INSTANCE BufferPool WITH
  NumBuffers <- 2, BufferSize <- 3, IndexBits <- 2, Bundled <- TRUE,
  MaxOps <- 2, incr <- p_incr, bufs <- p_bufs, tail <- p_tail,
  khead <- p_khead, kused <- p_kused, taken <- p_taken, cq <- p_cq,
  held <- p_held

Queue == INSTANCE BufferQueue WITH
  Capacity <- 4, Lens <- {1, 3}, IndexBits <- 3, Bundled <- TRUE, MaxOps <- 2,
  incr <- q_incr, len <- q_len, tail <- q_tail, khead <- q_khead,
  kused <- q_kused, taken <- q_taken, cq <- q_cq

Rx == INSTANCE ZeroCopyRx WITH
  Chunks <- 3, Entries <- 2, IndexBits <- 3, NoDev <- FALSE, MaxCq <- 2,
  ended <- z_ended, lent <- z_lent, cq <- z_cq, held <- z_held,
  empty <- z_empty, khead <- z_khead

(* One id fewer than objects: allocate() runs out of them. *)
Make == INSTANCE Registration WITH Objects <- 1..3, MaxId <- 2

Options == INSTANCE RuntimeOptions WITH
  Sizes <- {0, 1, 64}, CqSizes <- {0, 32, 128}, Batches <- {0, 5}, MaxBatch <- 2^30

pool == <<p_incr, p_bufs, p_tail, p_khead, p_kused, p_taken, p_cq, br_head,
          curr_buf_len, p_held>>
queue == <<q_incr, q_len, q_tail, q_khead, q_kused, q_taken, q_cq, buf_lens, size>>
rx == <<z_ended, z_lent, z_cq, z_held, z_empty, rqes, rq_tail, z_khead>>
made == <<next_id, recycled, rings, maps, object>>
options == <<enabled, sq_size, cq_size, submit_batch>>
lists == <<double, doubleSeq, single, singleSeq>>
vars == <<which, lists, pool, queue, rx, made, options>>

Init ==
  /\ which \in {"lists", "pool", "queue", "rx", "made", "options"}
  /\ Lists!Init
  /\ Pool!Init /\ (p_incr => which = "pool")
  /\ Queue!Init /\ (q_incr => which = "queue")
  /\ Rx!Init
  /\ Make!Init
  /\ Options!Init /\ (sq_size # 64 => which = "options")

Next ==
  /\ UNCHANGED which
  /\ \/ which = "lists" /\ Lists!Next /\ UNCHANGED <<pool, queue, rx, made, options>>
     \/ which = "pool" /\ Pool!Next /\ UNCHANGED <<lists, queue, rx, made, options>>
     \/ which = "queue" /\ Queue!Next /\ UNCHANGED <<lists, pool, rx, made, options>>
     \/ which = "rx" /\ Rx!Next /\ UNCHANGED <<lists, pool, queue, made, options>>
     \/ which = "made" /\ Make!Next /\ UNCHANGED <<lists, pool, queue, rx, options>>
     \/ which = "options" /\ Options!Next /\ UNCHANGED <<lists, pool, queue, rx, made>>

Spec == Init /\ [][Next]_vars

(* The lists of detail/intrusive.hpp, doubly and singly linked, behave as  *)
(* sequences.                                                              *)
ListsAreSequences == Lists!DoubleIsSequence /\ Lists!SingleIsSequence

(* ProvidedBufferPool: every buffer is in one place, and the kernel cannot *)
(* write where a ProvidedBuffer points.                                    *)
BufferInOnePlace == Pool!BufferInOnePlace

(* ProvidedBufferPool: handle_finish returns what the kernel filled. *)
ReturnsFilledBuffer == Pool!ReturnsFilledBuffer

(* ProvidedBufferQueue: handle_finish reports the buffers used up. *)
InfoIsExact == Queue!InfoIsExact

(* ProvidedBufferQueue: push() does not reuse an id too early. *)
PushTakesFreeId == Queue!PushTakesFreeId

(* ZeroCopyRxBufferPool: the refill ring has room, and every lent chunk is *)
(* in one place.                                                           *)
ChunkInOnePlace == Rx!ChunkInOnePlace

(* The constructors of the buffer pools, the buffer queue and the          *)
(* zero-copy pool: what fails is undone, what is destroyed given back.     *)
FailedIsUndone == Make!FailedIsUndone

(* RuntimeOptions and create_ring_: what the setters let through, the      *)
(* kernel takes.                                                           *)
OptionsAreAccepted == Options!OptionsAreAccepted
=============================================================================
