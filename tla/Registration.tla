---------------------------- MODULE Registration -----------------------------
(***************************************************************************)
(* Constructors that take several things from the kernel one after the     *)
(* other, and the cleanup_ that gives them back, in the destructor or when *)
(* a later step of the constructor fails: ProvidedBufferQueue and          *)
(* ProvidedBufferPool (provided_buffers.hpp), with the buffer group ids of *)
(* IdPool (detail/utils.hpp), and ZeroCopyRxBufferPool (zcrx.hpp).         *)
(*                                                                         *)
(* The objects belong to one runtime and a constructor does not suspend,   *)
(* so at most one is under way.  The interface queue a zero-copy pool      *)
(* registers is never unregistered, as two comments in zcrx.hpp say; it is *)
(* left out.                                                               *)
(***************************************************************************)
EXTENDS Naturals, Sequences, FiniteSets

CONSTANTS
  Objects,        \* names of objects
  MaxId,          \* To of IdPool, also the value of bgid_ before allocate()
  None            \* no object

VARIABLES
  next_id,    \* next_id_
  recycled,   \* recycled_ids_, the top first
  rings,      \* buffer groups registered with the kernel
  maps,       \* memory mapped: <<object, what>>
  object      \* the members cleanup_ looks at, and how far the constructor is

vars == <<next_id, recycled, rings, maps, object>>

Init ==
  /\ next_id = 0
  /\ recycled = <<>>
  /\ rings = {}
  /\ maps = {}
  /\ object = [o \in Objects |-> None]
-----------------------------------------------------------------------------
Live == {o \in Objects : object[o] # None}
Idle == \A o \in Live : object[o].at = "made"
At(o, stage) == o \in Live /\ object[o].at = stage

(* A constructor is called.  owns: the buffers or the area are to be       *)
(* mapped by the object and not handed in.  br: br_ is not null; ring:     *)
(* ring_ptr is not null.                                                   *)
New(o, kind, owns) ==
  /\ Idle
  /\ o \notin Live
  /\ kind = "queue" => ~owns
  /\ object' = [object EXCEPT ![o] =
       [kind |-> kind, owns |-> owns, bgid |-> MaxId, br |-> FALSE, ring |-> FALSE,
        at |-> IF owns THEN "map" ELSE IF kind = "rx" THEN "register" ELSE "allocate"]]
  /\ UNCHANGED <<next_id, recycled, rings, maps>>

(* The buffers or the area are mapped. *)
Map(o) ==
  /\ At(o, "map")
  /\ maps' = maps \cup {<<o, "buffers">>}
  /\ object' = [object EXCEPT ![o].at = IF object[o].kind = "rx" THEN "register" ELSE "allocate"]
  /\ UNCHANGED <<next_id, recycled, rings>>

(* mmap fails.  alloc_buffer_data_ throws before there is a pool; a        *)
(* zero-copy pool has area_ptr_ = MAP_FAILED and area_size_ > 0 by then,   *)
(* and throws into its cleanup_.                                           *)
MapFails(o) ==
  /\ At(o, "map")
  /\ object' = [object EXCEPT ![o] = IF @.kind = "rx" THEN [@ EXCEPT !.at = "unmapped"] ELSE None]
  /\ UNCHANGED <<next_id, recycled, rings, maps>>

(* bgid_ = bgid_pool.allocate(): the last id recycled, else a new one,     *)
(* else it throws and bgid_ stays MaxId.                                   *)
Allocate(o) ==
  /\ At(o, "allocate")
  /\ \/ /\ recycled # <<>>
        /\ recycled' = Tail(recycled)
        /\ object' = [object EXCEPT ![o].bgid = Head(recycled), ![o].at = "register"]
        /\ UNCHANGED next_id
     \/ /\ recycled = <<>> /\ next_id < MaxId
        /\ next_id' = next_id + 1
        /\ object' = [object EXCEPT ![o].bgid = next_id, ![o].at = "register"]
        /\ UNCHANGED recycled
     \/ /\ recycled = <<>> /\ next_id = MaxId
        /\ object' = [object EXCEPT ![o].at = "failed"]
        /\ UNCHANGED <<next_id, recycled>>
  /\ UNCHANGED <<rings, maps>>

(* io_uring_setup_buf_ring or io_uring_register_ifq *)
Register(o) ==
  /\ At(o, "register")
  /\ IF object[o].kind = "rx"
     THEN /\ object' = [object EXCEPT ![o].at = "map_ring"]
          /\ UNCHANGED rings
     ELSE /\ object' = [object EXCEPT ![o].br = TRUE, ![o].at = "made"]
          /\ rings' = rings \cup {object[o].bgid}
  /\ UNCHANGED <<next_id, recycled, maps>>

(* The refill ring is mapped. *)
MapRing(o) ==
  /\ At(o, "map_ring")
  /\ maps' = maps \cup {<<o, "ring">>}
  /\ object' = [object EXCEPT ![o].ring = TRUE, ![o].at = "made"]
  /\ UNCHANGED <<next_id, recycled, rings>>

(* The registration or the mapping of the refill ring fails and throws. *)
Fails(o) ==
  /\ At(o, "register") \/ At(o, "map_ring")
  /\ object' = [object EXCEPT ![o].at = "failed"]
  /\ UNCHANGED <<next_id, recycled, rings, maps>>

(* What object o unmaps. *)
MapsOf(o) ==
  {<<o, what>> : what \in {w \in {"buffers", "ring"} :
                             (w = "buffers" /\ object[o].owns) \/ (w = "ring" /\ object[o].ring)}}

(* cleanup_ runs: deferred by a constructor that throws, or called by the  *)
(* destructor.                                                             *)
Cleans(o) == At(o, "failed") \/ At(o, "unmapped") \/ (At(o, "made") /\ Idle)

(* Mutant: the id is recycled only with the ring. *)
CleanupWithRing(o) ==
  /\ Cleans(o)
  /\ rings' = rings \ {object[o].bgid}
  /\ recycled' = IF object[o].br THEN <<object[o].bgid>> \o recycled ELSE recycled
  /\ maps' = maps \ MapsOf(o)
  /\ object' = [object EXCEPT ![o] = None]
  /\ UNCHANGED next_id

(* cleanup_: free the ring, recycle the id, unmap.  munmap of MAP_FAILED   *)
(* is refused and unmaps nothing.                                          *)
Cleanup(o) ==
  LET p == object[o] IN
  /\ Cleans(o)
  /\ rings' = IF p.br THEN rings \ {p.bgid} ELSE rings
  /\ recycled' = IF p.bgid # MaxId THEN <<p.bgid>> \o recycled ELSE recycled
  /\ maps' = maps \ MapsOf(o)
  /\ object' = [object EXCEPT ![o] = None]
  /\ UNCHANGED next_id

(* The calls of cleanup_ that an assert would find to have failed. *)
FailedCalls(o) ==
  (IF object[o].br /\ object[o].bgid \notin rings THEN {"io_uring_free_buf_ring"} ELSE {})
  \cup (IF object[o].bgid # MaxId /\ object[o].bgid >= next_id THEN {"recycle"} ELSE {})
  \cup (IF MapsOf(o) \subseteq maps THEN {} ELSE {"munmap"})
-----------------------------------------------------------------------------
Next ==
  \E o \in Objects :
    \/ \E kind \in {"queue", "pool", "rx"}, owns \in BOOLEAN : New(o, kind, owns)
    \/ Map(o) \/ MapFails(o) \/ Allocate(o) \/ Register(o) \/ MapRing(o) \/ Fails(o)
    \/ Cleanup(o)

Spec == Init /\ [][Next]_vars
-----------------------------------------------------------------------------
Grouped == {o \in Live : object[o].bgid # MaxId}

(* Whatever fails, in whatever order objects are made and destroyed: no    *)
(* two have the same buffer group, an id is either out or recycled and     *)
(* never lost, and between constructors the kernel holds exactly the rings *)
(* and the mappings of the objects made.  The asserts of cleanup_ hold but *)
(* one: when the mmap of a zero-copy area has failed, cleanup_ unmaps      *)
(* MAP_FAILED, munmap refuses that and the assert on it fails.             *)
FailedIsUndone ==
  /\ \A o \in Live :
       Cleans(o) => FailedCalls(o) = IF At(o, "unmapped") THEN {"munmap"} ELSE {}
  /\ \A o, k \in Grouped : object[o].bgid = object[k].bgid => o = k
  /\ Len(recycled) + Cardinality(Grouped) = next_id
  /\ {recycled[n] : n \in DOMAIN recycled} \cup {object[o].bgid : o \in Grouped}
       = {i \in 0..MaxId : i < next_id}
  /\ Idle => /\ rings = {object[o].bgid : o \in Grouped}
             /\ maps = UNION {MapsOf(o) : o \in Live}
=============================================================================
