---------------------------- MODULE IntrusiveList ----------------------------
(***************************************************************************)
(* The intrusive lists of detail/intrusive.hpp, pointer by pointer.        *)
(*                                                                         *)
(* A memory m holds the links of all entries, m.next and m.prev, and the   *)
(* head_ and tail_ of all lists, m.head and m.tail.  An operation takes a  *)
(* memory and returns the memory it leaves behind.  What an assert demands *)
(* is an operator of its own; with NDEBUG the operation goes on without.   *)
(***************************************************************************)
CONSTANT Null

IsEmpty(m, l) == m.head[l] = Null

(* The entry that pop_front returns, Null from an empty list. *)
Front(m, l) == m.head[l]
-----------------------------------------------------------------------------
(* DoubleLinkListImpl                                                      *)

(* assert(entry->next == nullptr && entry->prev == nullptr) *)
PushBackAssert(m, e) == m.next[e] = Null /\ m.prev[e] = Null

PushBack(m, l, e) ==
  [m EXCEPT !.next = [x \in DOMAIN @ |-> IF x = e THEN Null
                                         ELSE IF x = m.tail[l] THEN e ELSE @[x]],
            !.prev[e] = m.tail[l],
            !.head[l] = IF @ = Null THEN e ELSE @,
            !.tail[l] = e]

(* Mutant: pop_front leaves the links of the entry as they are. *)
PopFrontLinked(m, l) ==
  LET e == m.head[l]
      n == m.next[e]
  IN  IF e = Null THEN m
      ELSE [m EXCEPT !.head[l] = n,
                     !.tail[l] = IF n = Null THEN Null ELSE @,
                     !.prev = [x \in DOMAIN @ |-> IF x = n THEN Null ELSE @[x]]]

PopFront(m, l) ==
  LET e == m.head[l]
      n == m.next[e]
  IN  IF e = Null THEN m
      ELSE [m EXCEPT !.head[l] = n,
                     !.tail[l] = IF n = Null THEN Null ELSE @,
                     !.next[e] = Null,
                     !.prev = [x \in DOMAIN @ |->
                                 IF x \in {e, n} THEN Null ELSE @[x]]]

(* What remove returns: the links of an entry outside every list are null. *)
Linked(m, l, e) ==
  ~(m.prev[e] = Null /\ m.next[e] = Null /\ m.head[l] # e)

(* assert(head_ == entry) and assert(tail_ == entry) *)
RemoveAssert(m, l, e) ==
  Linked(m, l, e) => /\ m.prev[e] = Null => m.head[l] = e
                     /\ m.next[e] = Null => m.tail[l] = e

Remove(m, l, e) ==
  LET p == m.prev[e]
      n == m.next[e]
  IN  IF ~Linked(m, l, e) THEN m
      ELSE [m EXCEPT !.next = [x \in DOMAIN @ |-> IF x = e THEN Null
                                                  ELSE IF x = p THEN n ELSE @[x]],
                     !.prev = [x \in DOMAIN @ |-> IF x = e THEN Null
                                                  ELSE IF x = n THEN p ELSE @[x]],
                     !.head[l] = IF p = Null THEN n ELSE @,
                     !.tail[l] = IF n = Null THEN p ELSE @]

(* Move assignment into an empty list, for both kinds of list. *)
Move(m, from, to) ==
  IF from = to THEN m
  ELSE [m EXCEPT !.head = [@ EXCEPT ![to] = m.head[from], ![from] = Null],
                 !.tail = [@ EXCEPT ![to] = m.tail[from], ![from] = Null]]
-----------------------------------------------------------------------------
(* SingleLinkListImpl                                                      *)

SinglePushBack(m, l, e) ==
  [m EXCEPT !.next = [x \in DOMAIN @ |->
                        IF x = m.tail[l] /\ ~IsEmpty(m, l) THEN e ELSE @[x]],
            !.head[l] = IF @ = Null THEN e ELSE @,
            !.tail[l] = e]

(* Mutant: splicing keeps the old tail_. *)
SpliceOldTail(m, l, other) ==
  IF IsEmpty(m, other) THEN m
  ELSE [m EXCEPT !.next = [x \in DOMAIN @ |->
                             IF x = m.tail[l] THEN m.head[other] ELSE @[x]],
                 !.head = [@ EXCEPT ![other] = Null, ![l] =
                             IF @ = Null THEN m.head[other] ELSE @],
                 !.tail = [@ EXCEPT ![other] = Null, ![l] =
                             IF @ = Null THEN m.tail[other] ELSE @]]

(* push_back(SingleLinkListImpl &other) *)
Splice(m, l, other) ==
  IF IsEmpty(m, other) THEN m
  ELSE [m EXCEPT !.next = [x \in DOMAIN @ |->
                             IF x = m.tail[l] THEN m.head[other] ELSE @[x]],
                 !.head = [@ EXCEPT ![other] = Null, ![l] =
                             IF @ = Null THEN m.head[other] ELSE @],
                 !.tail = [@ EXCEPT ![other] = Null, ![l] = m.tail[other]]]

SinglePopFront(m, l) ==
  LET e == m.head[l]
      n == m.next[e]
  IN  IF e = Null THEN m
      ELSE [m EXCEPT !.head[l] = n,
                     !.tail[l] = IF n = Null THEN Null ELSE @,
                     !.next[e] = Null]
=============================================================================
