----------------------------- MODULE ZeroCopyRx ------------------------------
(***************************************************************************)
(* ZeroCopyRxBufferPool (zcrx.hpp): the kernel lends the chunks of an area *)
(* to the user, one per completion, and the user gives them back through a *)
(* refill ring when a ZeroCopyRxBuffer is destroyed.  What the kernel does *)
(* is external.                                                            *)
(***************************************************************************)
EXTENDS Integers, Sequences, FiniteSets

CONSTANTS
  Chunks,     \* number of chunks of the area; chunk 0 is at offset 0
  Entries,    \* rq_ring_.ring_entries, a power of two
  IndexBits,  \* width of rq_tail and of the kernel's head (32 in the code)
  NoDev,      \* ZCRX_REG_NODEV
  MaxCq       \* bound: completions to be handled and empty buffers

Area == 0..Chunks - 1

VARIABLES
  ended,    \* a peer has ended a stream
  lent,     \* chunks the kernel has lent and not got back
  cq,       \* completions to be handled
  held,     \* chunks of which the user has a ZeroCopyRxBuffer
  empty,    \* ZeroCopyRxBuffers of size 0 the user has, at offset 0
  rqes,     \* the refill ring: the chunk in each slot
  rq_tail,  \* rq_ring_.rq_tail and *ktail
  khead     \* *khead

ring == <<rqes, rq_tail, khead>>
vars == <<ended, lent, cq, held, empty, ring>>

Init ==
  /\ ended = FALSE
  /\ lent = {}
  /\ cq = <<>>
  /\ held = {}
  /\ empty = 0
  /\ rqes = [s \in 0..Entries - 1 |-> 0]
  /\ rq_tail = 0
  /\ khead = 0

(* rq_nr_queued_(), with the tail and the head given. *)
NrQueued(tail, head) == (tail - head) % 2^IndexBits
-----------------------------------------------------------------------------
(* The kernel receives into a chunk, *)
Receive(c) ==
  /\ Len(cq) + empty < MaxCq
  /\ c \notin lent
  /\ lent' = lent \cup {c}
  /\ cq' = Append(cq, [res |-> "data", chunk |-> c])
  /\ UNCHANGED <<ended, held, empty, ring>>

(* an operation fails, or ends with the stream: res is 0 and so is the     *)
(* rest of the completion.                                                 *)
Terminate(res) ==
  /\ Len(cq) + empty < MaxCq
  /\ ended' = (ended \/ res = "eof")
  /\ cq' = Append(cq, [res |-> res, chunk |-> 0])
  /\ UNCHANGED <<lent, held, empty, ring>>

(* The kernel takes a chunk from the refill ring; one that is not lent is  *)
(* ignored.                                                                *)
Refill ==
  /\ khead # rq_tail
  /\ lent' = lent \ {rqes[khead % Entries]}
  /\ khead' = (khead + 1) % 2^IndexBits
  /\ UNCHANGED <<ended, cq, held, empty, rqes, rq_tail>>
-----------------------------------------------------------------------------
(* Mutant: handle_finish of a failed operation makes a buffer. *)
HandlesOutAlways(c) == TRUE

(* handle_finish: only a failed operation gives no buffer. *)
HandlesOut(c) == c.res # "error"

(* handle_finish of the next completion; the user gets the buffer. *)
HandleFinish ==
  LET c == Head(cq) IN
  /\ cq # <<>>
  /\ cq' = Tail(cq)
  /\ held' = IF c.res = "data" THEN held \cup {c.chunk} ELSE held
  /\ empty' = IF HandlesOut(c) /\ c.res # "data" THEN empty + 1 ELSE empty
  /\ UNCHANGED <<ended, lent, ring>>

(* Mutant: the ring is flushed one entry too late. *)
FlushesLate(tail) == NrQueued(tail, khead) > Entries \/ NoDev

(* maybe_flush_rq_ *)
Flushes(tail) == NrQueued(tail, khead) >= Entries \/ NoDev

(* add_buffer_back: rq_enqueue_ the chunk; when the ring is full flush_rq_ *)
(* has the kernel take every entry.                                        *)
AddBufferBack(c) ==
  LET tail == (rq_tail + 1) % 2^IndexBits
      q    == [rqes EXCEPT ![rq_tail % Entries] = c]
      all  == {q[(khead + j) % Entries] : j \in 0..NrQueued(tail, khead) - 1}
  IN
  /\ rqes' = q
  /\ rq_tail' = tail
  /\ IF Flushes(tail) THEN khead' = tail /\ lent' = lent \ all
                      ELSE UNCHANGED <<khead, lent>>

(* reset() or destruction of a ZeroCopyRxBuffer with data, *)
Reset(c) ==
  /\ c \in held
  /\ held' = held \ {c}
  /\ AddBufferBack(c)
  /\ UNCHANGED <<ended, cq, empty>>

(* or of an empty one, whose pool_ is set all the same. *)
ResetEmpty ==
  /\ empty > 0
  /\ empty' = empty - 1
  /\ AddBufferBack(0)
  /\ UNCHANGED <<ended, cq, held>>
-----------------------------------------------------------------------------
Next ==
  \/ \E c \in Area : Receive(c) \/ Reset(c)
  \/ \E res \in {"error", "eof"} : Terminate(res)
  \/ Refill
  \/ HandleFinish
  \/ ResetEmpty

Spec == Init /\ [][Next]_vars
-----------------------------------------------------------------------------
(* The state of the pool is well typed. *)
TypeOK ==
  /\ ended \in BOOLEAN
  /\ lent \subseteq Area
  /\ held \subseteq Area
  /\ empty \in Nat
  /\ rqes \in [0..Entries - 1 -> Area]
  /\ {rq_tail, khead} \subseteq 0..2^IndexBits - 1

(* There is always a free slot for the next chunk                          *)
(* (assert(rq_nr_queued_() < rq_ring_.ring_entries)), although there may   *)
(* be more chunks than entries, indices wrap, the kernel need not take any *)
(* and the buffers made at the end of a stream are enqueued as well.       *)
RefillHasRoom == NrQueued(rq_tail, khead) < Entries

Queued == {rqes[(khead + j) % Entries] : j \in 0..NrQueued(rq_tail, khead) - 1}

(* The state is well typed, the refill ring has room, and                  *)
(* "It automatically returns the buffer to the pool when it is out of      *)
(* scope" (zcrx.hpp:31), once and not before.  A chunk that is lent is in  *)
(* one place: in a completion, held by the user, or in the refill ring; so *)
(* none is lost and the kernel does not receive into one that is held.     *)
(* (At the end of a stream handle_finish makes a buffer that returns chunk *)
(* 0, whoever has it.)                                                     *)
ChunkInOnePlace ==
  /\ TypeOK
  /\ RefillHasRoom
  /\ ~ended => \A c \in Area :
       Cardinality({n \in DOMAIN cq : cq[n].res = "data" /\ cq[n].chunk = c})
         + Cardinality({c} \cap held) + Cardinality({c} \cap Queued)
       = Cardinality({c} \cap lent)
=============================================================================
