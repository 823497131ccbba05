-------------------------- MODULE ChannelFifoProofs ---------------------------
(***************************************************************************)
(* Channel implements ChannelSpec: the items that are in the channel or    *)
(* offered by a push that waits form one first-in first-out line.          *)
(*                                                                         *)
(* The line is the buffer from head_ to tail_ and behind it push_awaiters_ *)
(* (Line).  Each critical section is one step of ChannelSpec or none;      *)
(* cancel() withdraws when it takes the handle out of the list, before it  *)
(* writes the result (Out).                                                *)
(***************************************************************************)
EXTENDS ChannelProofs

(* Two sequences with the same elements are one. *)
LEMMA SeqEqual ==
  ASSUME NEW S, NEW a \in Seq(S), NEW b \in Seq(S), Len(a) = Len(b),
         \A i \in 1..Len(a) : a[i] = b[i]
  PROVE  a = b
  OBVIOUS

(* Where the elements of two sequences are in the two put together. *)
LEMMA Concatenated ==
  ASSUME NEW S, NEW a \in Seq(S), NEW b \in Seq(S)
  PROVE  /\ a \o b \in Seq(S)
         /\ Len(a) \in Nat /\ Len(b) \in Nat
         /\ Len(a \o b) = Len(a) + Len(b)
         /\ DOMAIN (a \o b) = 1..Len(a) + Len(b)
         /\ \A i \in 1..Len(a) : (a \o b)[i] = a[i]
         /\ \A i \in 1..Len(b) : (a \o b)[Len(a) + i] = b[i]
  OBVIOUS

(* The k-th item of the buffer, as an entry of the line. *)
Placed(item) == [item |-> item, by |-> Nobody]

(* It is an entry. *)
LEMMA PlacedIs ==
  ASSUME NEW item \in Pushers
  PROVE  Placed(item) \in Entry /\ Placed(item).item = item /\ Placed(item).by = Nobody
  BY Zenon DEF Placed, Entry

BufferedOK ==
  /\ Buffered \in Seq(Entry)
  /\ Len(Buffered) = Size
  /\ Size \in Nat
  /\ \A k \in 1..Size : /\ Buffered[k] = Placed(slots[Cell(head, k - 1)])
                        /\ slots[Cell(head, k - 1)] \in Pushers

(* The buffer holds the items from head_ to tail_, *)
LEMMA BufferedIs == Ring => BufferedOK
<1> SUFFICES ASSUME Ring PROVE BufferedOK
  OBVIOUS
<1>1. /\ Size \in 0..Cap /\ Cap \in Nat
      /\ \A i \in 0..Cap - 1 : slots[i] # Nobody <=> \E k \in 0..Size - 1 : i = Cell(head, k)
  BY SizeNow, Zenon
<1>2. head \in 0..Limit - 1 /\ CapOK /\ Limit \in Nat \ {0}
  BY LimitIsNat, Zenon DEF Ring
<1>3. ASSUME NEW k \in 1..Size
      PROVE  /\ (head + k) - 1 = head + (k - 1)
             /\ k - 1 \in 0..Size - 1 /\ k - 1 \in 0..Cap /\ Cap # 0
  BY <1>1, <1>2
<1>4. ASSUME NEW k \in 1..Size
      PROVE  Slot((head + k - 1) % 2^SizeBits) = Cell(head, k - 1)
  BY <1>3, Zenon DEF Cell
<1>5. ASSUME NEW k \in 1..Size
      PROVE  slots[Cell(head, k - 1)] \in Pushers
  <2>1. Cell(head, k - 1) \in 0..Cap - 1
    BY <1>2, <1>3, Cells, Zenon
  <2>2. slots[Cell(head, k - 1)] # Nobody
    BY <1>1, <1>3, <2>1, Zenon
  <2> QED
    BY <2>1, <2>2, Zenon DEF Ring
<1>6. Buffered = [k \in 1..Size |-> Placed(slots[Cell(head, k - 1)])]
  BY <1>4, Zenon DEF Buffered, Placed
<1>7. \A k \in 1..Size : Placed(slots[Cell(head, k - 1)]) \in Entry
  BY <1>5, PlacedIs, Zenon
<1>8. Size \in Nat
  BY <1>1
<1>9. Buffered \in Seq(Entry) /\ Len(Buffered) = Size
  BY <1>6, <1>7, <1>8
<1> QED
  BY <1>5, <1>6, <1>8, <1>9, Zenon DEF BufferedOK

(* now and after a step. *)
LEMMA BufferedThen == Ring' => BufferedOK'
  BY BufferedIs, PTL

(* The buffer after each of its operations. *)
LEMMA BufferPush ==
  ASSUME Ring, ~Full, NEW item \in Pushers, PushInner(item), Cap' = Cap
  PROVE  Buffered' = Append(Buffered, Placed(item))
<1>1. /\ Ring' /\ Size' = Size + 1
      /\ slots'[Cell(head, Size)] = item
      /\ \A k \in 0..Size - 1 : slots'[Cell(head, k)] = slots[Cell(head, k)]
  BY RingPush, Zenon
<1>2. /\ Buffered \in Seq(Entry) /\ Len(Buffered) = Size /\ Size \in Nat
      /\ \A k \in 1..Size : Buffered[k] = Placed(slots[Cell(head, k - 1)])
  BY BufferedIs, Zenon DEF BufferedOK
<1>3. /\ Buffered' \in Seq(Entry) /\ Len(Buffered') = Size'
      /\ \A k \in 1..Size' : Buffered'[k] = Placed(slots'[Cell(head, k - 1)'])
  BY <1>1, BufferedThen, Zenon DEF BufferedOK
<1>4. \A k : Cell(head, k)' = Cell(head, k)
  BY Zenon DEF PushInner, Cell, Slot
<1>5. Placed(item) \in Entry
  BY PlacedIs, Zenon
<1>6. ASSUME NEW k \in 1..Size + 1
      PROVE  Buffered'[k] = Append(Buffered, Placed(item))[k]
  <2>1. Buffered'[k] = Placed(slots'[Cell(head, k - 1)])
    BY <1>1, <1>3, <1>4, Zenon
  <2>2. CASE k = Size + 1
    <3>1. k - 1 = Size
      BY <1>2, <2>2
    <3>2. Append(Buffered, Placed(item))[k] = Placed(item)
      BY <1>2, <1>5, <2>2
    <3> QED
      BY <1>1, <2>1, <3>1, <3>2, Zenon
  <2>3. CASE k # Size + 1
    <3>1. k \in 1..Size /\ k - 1 \in 0..Size - 1
      BY <1>2, <2>3
    <3>2. Append(Buffered, Placed(item))[k] = Buffered[k]
      BY <1>2, <1>5, <3>1
    <3> QED
      BY <1>1, <1>2, <2>1, <3>1, <3>2, Zenon
  <2> QED
    BY <2>2, <2>3, Zenon
<1>7. /\ Append(Buffered, Placed(item)) \in Seq(Entry)
      /\ Len(Append(Buffered, Placed(item))) = Size + 1
  BY <1>2, <1>5
<1> QED
  BY <1>1, <1>3, <1>6, <1>7, SeqEqual, Zenon

(* pop_inner_ takes the first of them, *)
LEMMA BufferPop ==
  ASSUME Ring, ~Empty, PopInner, Cap' = Cap
  PROVE  Buffered # <<>> /\ Buffered' = Tail(Buffered) /\ Head(Buffered).item = Front
<1>1. /\ Ring' /\ Size' = Size - 1 /\ Front = slots[Cell(head, 0)]
      /\ \A k \in 0..Size - 2 : slots'[Cell(head', k)] = slots[Cell(head, k + 1)]
  BY RingPop, Zenon
<1>2. /\ Buffered \in Seq(Entry) /\ Len(Buffered) = Size /\ Size \in Nat
      /\ \A k \in 1..Size : /\ Buffered[k] = Placed(slots[Cell(head, k - 1)])
                            /\ slots[Cell(head, k - 1)] \in Pushers
  BY BufferedIs, Zenon DEF BufferedOK
<1>3. /\ Buffered' \in Seq(Entry) /\ Len(Buffered') = Size'
      /\ \A k \in 1..Size' : Buffered'[k] = Placed(slots'[Cell(head, k - 1)'])
  BY <1>1, BufferedThen, Zenon DEF BufferedOK
<1>4. \A k : Cell(head, k)' = Cell(head', k)
  BY Zenon DEF Cell, Slot
<1>5. Size # 0 /\ 1 \in 1..Size /\ 1 - 1 = 0
  BY <1>2 DEF Empty
<1>6. /\ Buffered # <<>> /\ Tail(Buffered) \in Seq(Entry) /\ Len(Tail(Buffered)) = Size - 1
      /\ Head(Buffered) = Buffered[1]
      /\ \A k \in 1..Size - 1 : Tail(Buffered)[k] = Buffered[k + 1]
  BY <1>2, <1>5
<1>7. Head(Buffered).item = Front
  <2>1. Buffered[1] = Placed(Front) /\ Front \in Pushers
    BY <1>1, <1>2, <1>5, Zenon
  <2> QED
    BY <1>6, <2>1, PlacedIs, Zenon
<1>8. ASSUME NEW k \in 1..Size - 1
      PROVE  Buffered'[k] = Tail(Buffered)[k]
  <2>1. Buffered'[k] = Placed(slots'[Cell(head', k - 1)])
    BY <1>1, <1>3, <1>4, Zenon
  <2>2. k - 1 \in 0..Size - 2 /\ (k - 1) + 1 = (k + 1) - 1 /\ k + 1 \in 1..Size
    BY <1>2
  <2>3. slots'[Cell(head', k - 1)] = slots[Cell(head, (k - 1) + 1)]
    BY <1>1, <2>2, Zenon
  <2> QED
    BY <1>2, <1>6, <2>1, <2>2, <2>3, Zenon
<1> QED
  BY <1>1, <1>3, <1>6, <1>7, <1>8, SeqEqual, Zenon

(* and with a push_inner_ the others move up. *)
LEMMA BufferPopPush ==
  ASSUME Ring, Full, Cap # 0, NEW item \in Pushers, PopAndPush(item), Cap' = Cap
  PROVE  /\ Buffered \in Seq(Entry) /\ Len(Buffered) = Cap
         /\ Buffered' \in Seq(Entry) /\ Len(Buffered') = Cap
         /\ Buffered[1].item = Front
         /\ Buffered'[Cap] = Placed(item)
         /\ \A k \in 1..Cap - 1 : Buffered'[k] = Buffered[k + 1]
<1>1. /\ Ring' /\ Size' = Size /\ Front = slots[Cell(head, 0)]
      /\ slots'[Cell(head', Cap - 1)] = item
      /\ \A k \in 0..Cap - 2 : slots'[Cell(head', k)] = slots[Cell(head, k + 1)]
  BY RingPopPush, Zenon
<1>2. /\ Buffered \in Seq(Entry) /\ Len(Buffered) = Size /\ Size \in Nat
      /\ \A k \in 1..Size : /\ Buffered[k] = Placed(slots[Cell(head, k - 1)])
                            /\ slots[Cell(head, k - 1)] \in Pushers
  BY BufferedIs, Zenon DEF BufferedOK
<1>3. /\ Buffered' \in Seq(Entry) /\ Len(Buffered') = Size'
      /\ \A k \in 1..Size' : Buffered'[k] = Placed(slots'[Cell(head, k - 1)'])
  BY <1>1, BufferedThen, Zenon DEF BufferedOK
<1>4. \A k : Cell(head, k)' = Cell(head', k)
  BY Zenon DEF Cell, Slot
<1>5. Size = Cap /\ Cap \in Nat
  BY <1>2, Zenon DEF Full
<1>6. Size # 0 /\ 1 \in 1..Size /\ Cap \in 1..Size /\ 1 - 1 = 0
  BY <1>2, <1>5
<1>7. Buffered[1].item = Front
  <2>1. Buffered[1] = Placed(Front) /\ Front \in Pushers
    BY <1>1, <1>2, <1>6, Zenon
  <2> QED
    BY <2>1, PlacedIs, Zenon
<1>8. ASSUME NEW k \in 1..Size
      PROVE  Buffered'[k] = Placed(slots'[Cell(head', k - 1)])
  BY <1>1, <1>3, <1>4, Zenon
<1>9. Buffered'[Cap] = Placed(item)
  BY <1>1, <1>6, <1>8, Zenon
<1>10. ASSUME NEW k \in 1..Cap - 1
       PROVE  Buffered'[k] = Buffered[k + 1]
  <2>1. /\ k \in 1..Size /\ k - 1 \in 0..Cap - 2 /\ (k - 1) + 1 = (k + 1) - 1
        /\ k + 1 \in 1..Size
    BY <1>5
  <2>2. slots'[Cell(head', k - 1)] = slots[Cell(head, (k - 1) + 1)]
    BY <1>1, <2>1, Zenon
  <2> QED
    BY <1>2, <1>8, <2>1, <2>2, Zenon
<1> QED
  BY <1>1, <1>2, <1>3, <1>5, <1>7, <1>9, <1>10, Zenon

(* A step that leaves the buffer alone. *)
LEMMA BufferSame ==
  ASSUME UNCHANGED <<ring, Cap>>
  PROVE  Buffered' = Buffered
<1>1. head' = head /\ tail' = tail /\ slots' = slots /\ Cap' = Cap
  BY Zenon DEF ring
<1> QED
  BY <1>1, Zenon DEF Buffered, Size, Slot

(* What the two state functions of the mapping look like. *)
Line == Buffered \o push_awaiters

Out ==
  [h \in Clients |->
    IF stop[h] = "removed" THEN Answer("ECANCELED", Nobody) ELSE outcome[h]]

(* The line, place by place. *)
LineOK ==
  /\ Line \in Seq(Entry)
  /\ Size \in Nat /\ Len(push_awaiters) \in Nat
  /\ Len(Line) = Size + Len(push_awaiters)
  /\ DOMAIN Line = 1..Size + Len(push_awaiters)
  /\ \A k \in 1..Size : Line[k] = Buffered[k] /\ Buffered[k].by = Nobody
  /\ \A k \in 1..Len(push_awaiters) : Line[Size + k] = push_awaiters[k]

(* The items wait in the buffer, then in push_awaiters_, *)
LEMMA LineIs == Ring /\ Lists => LineOK
<1> SUFFICES ASSUME Ring, Lists PROVE LineOK
  OBVIOUS
<1>1. /\ Buffered \in Seq(Entry) /\ Len(Buffered) = Size /\ Size \in Nat
      /\ \A k \in 1..Size : /\ Buffered[k] = Placed(slots[Cell(head, k - 1)])
                            /\ slots[Cell(head, k - 1)] \in Pushers
  BY BufferedIs, Zenon DEF BufferedOK
<1>2. push_awaiters \in Seq(Entry)
  BY Zenon DEF Lists
<1>3. /\ Line \in Seq(Entry)
      /\ Len(Buffered) \in Nat /\ Len(push_awaiters) \in Nat
      /\ Len(Line) = Len(Buffered) + Len(push_awaiters)
      /\ DOMAIN Line = 1..Len(Buffered) + Len(push_awaiters)
      /\ \A i \in 1..Len(Buffered) : Line[i] = Buffered[i]
      /\ \A i \in 1..Len(push_awaiters) : Line[Len(Buffered) + i] = push_awaiters[i]
  <2>1. \A a, b \in Seq(Entry) :
          /\ a \o b \in Seq(Entry)
          /\ Len(a) \in Nat /\ Len(b) \in Nat
          /\ Len(a \o b) = Len(a) + Len(b)
          /\ DOMAIN (a \o b) = 1..Len(a) + Len(b)
          /\ \A i \in 1..Len(a) : (a \o b)[i] = a[i]
          /\ \A i \in 1..Len(b) : (a \o b)[Len(a) + i] = b[i]
    BY Concatenated
  <2>2. /\ Buffered \o push_awaiters \in Seq(Entry)
        /\ Len(Buffered) \in Nat /\ Len(push_awaiters) \in Nat
        /\ Len(Buffered \o push_awaiters) = Len(Buffered) + Len(push_awaiters)
        /\ DOMAIN (Buffered \o push_awaiters) = 1..Len(Buffered) + Len(push_awaiters)
        /\ \A i \in 1..Len(Buffered) : (Buffered \o push_awaiters)[i] = Buffered[i]
        /\ \A i \in 1..Len(push_awaiters) :
             (Buffered \o push_awaiters)[Len(Buffered) + i] = push_awaiters[i]
    BY <1>1, <1>2, <2>1, Zenon
  <2> QED
    BY <2>2, Zenon DEF Line
<1>4. ASSUME NEW k \in 1..Size PROVE Buffered[k].by = Nobody
  <2>1. /\ Buffered[k] = Placed(slots[Cell(head, k - 1)])
        /\ slots[Cell(head, k - 1)] \in Pushers
    BY <1>1, Zenon
  <2> QED
    BY <2>1, PlacedIs, Zenon
<1> QED
  BY <1>1, <1>3, <1>4, Zenon DEF LineOK

(* now and after a step. *)
LEMMA LineThen == Ring' /\ Lists' => LineOK'
  BY LineIs, PTL

(* An operation has its answer unless its handle is in a list. *)
LEMMA OutIs ==
  ASSUME Inv
  PROVE  /\ DOMAIN Out = Clients
         /\ \A h \in Clients : Out[h] = Unset <=> h \in Listed
         /\ \A h \in Clients : h \in Listed => stop[h] # "removed"
         /\ \A h \in Clients : Outside(h) => stop[h] # "removed" /\ Out[h] # Unset
<1>1. \A h \in Clients : HandleOK(h)
  BY InvParts, Zenon
<1>2. Answer("ECANCELED", Nobody) # Unset
  BY AnswerIs, Zenon
<1>3. DOMAIN Out = Clients
  BY Zenon DEF Out
<1>4. ASSUME NEW h \in Clients PROVE Out[h] = Unset <=> h \in Listed
  <2>1. Out[h] = IF stop[h] = "removed" THEN Answer("ECANCELED", Nobody) ELSE outcome[h]
    BY Zenon DEF Out
  <2> QED
    BY <1>1, <1>2, <2>1, Zenon DEF HandleOK
<1>5. \A h \in Clients : Outside(h) => stop[h] # "removed" /\ h \notin Listed
  BY <1>1, Zenon DEF HandleOK
<1>6. \A h \in Clients : h \in Listed => stop[h] # "removed"
  BY <1>1, Zenon DEF HandleOK
<1> QED
  BY <1>3, <1>4, <1>5, <1>6, Zenon

(* The vocabulary of ChannelSpec under the mapping. *)
LEMMA SpecWords ==
  /\ Abstract!Waiting = Unset
  /\ \A h : Abstract!Free(h) <=> Out[h] # Unset
  /\ \A code, item : Abstract!Answer(code, item) = Answer(code, item)
  /\ \A p, by : Abstract!Offered(p, by) = [item |-> p, by |-> by]
  /\ \A s, i : Abstract!Without(s, i) = Without(s, i)
  BY Zenon DEF Abstract!Waiting, Abstract!Free, Abstract!Answer, Abstract!Offered,
     Abstract!Without, Unset, Answer, Without, Out

(* One client's answer changes. *)
LEMMA OutOne ==
  ASSUME Flags, NEW h \in Clients, stop[h] # "removed", UNCHANGED stop,
         NEW answer, outcome' = [outcome EXCEPT ![h] = answer]
  PROVE  Out' = [Out EXCEPT ![h] = answer]
  BY Zenon DEF Flags, Out

(* The item goes to a pop that waits. *)
LEMMA SpecGive ==
  ASSUME Inv, NEW p \in Pushers, Outside(p), ~closed, pop_awaiters # <<>>,
         TryPushInner(p), UNCHANGED <<closed, Cap>>
  PROVE  Abstract!Give(p)
<1> DEFINE c == Head(pop_awaiters)
<1>1. /\ Lists /\ Flags /\ p \in Clients
      /\ Out[p] # Unset /\ stop[p] # "removed"
      /\ \A h \in Clients : h \in Listed => stop[h] # "removed"
  BY InvParts, OutIs, Zenon
<1>2. /\ pop_awaiters' = Tail(pop_awaiters)
      /\ outcome' = [outcome EXCEPT ![p] = Answer("ok", Nobody), ![c] = Answer("ok", p)]
      /\ UNCHANGED <<ring, Cap>> /\ stop' = stop /\ closed' = closed
      /\ push_awaiters' = push_awaiters
  BY Zenon DEF TryPushInner
<1>3. c \in Poppers /\ c \in Listed
  <2>1. 1 \in DOMAIN pop_awaiters /\ c = pop_awaiters[1] /\ c \in Poppers
    BY <1>1 DEF Lists
  <2> QED
    BY <2>1, ListedIs, Zenon
<1>4. c \in Clients /\ stop[c] # "removed"
  BY <1>1, <1>3, InvParts, Zenon
<1> HIDE DEF c
<1>5. Out' = [Out EXCEPT ![p] = Answer("ok", Nobody), ![c] = Answer("ok", p)]
  BY <1>1, <1>2, <1>4, Zenon DEF Out, Flags
<1>6. Line' = Line
  BY <1>2, BufferSame, Zenon DEF Line
<1> QED
  BY <1>1, <1>2, <1>5, <1>6, SpecWords, Zenon DEF Abstract!Give, Line, Out, c

(* The push gets the last place of the line, which is the buffer. *)
LEMMA SpecPut ==
  ASSUME Inv, NEW p \in Pushers, Outside(p), ~closed, pop_awaiters = <<>>,
         TryPushInner(p), UNCHANGED <<closed, Cap>>
  PROVE  Abstract!Put(p, FALSE)
<1>1. /\ Ring /\ Lists /\ Flags /\ Waits /\ p \in Clients
      /\ Out[p] # Unset /\ stop[p] # "removed"
  BY InvParts, OutIs, Zenon
<1>2. /\ PushInner(p) /\ Return(p, "ok") /\ ~Full
      /\ push_awaiters' = push_awaiters /\ pop_awaiters' = pop_awaiters
      /\ stop' = stop /\ closed' = closed /\ Cap' = Cap
  BY Zenon DEF TryPushInner
<1>3. push_awaiters = <<>>
  BY <1>1, <1>2, Zenon DEF Waits
<1>4. Out' = [Out EXCEPT ![p] = Answer("ok", Nobody)]
  BY <1>1, <1>2, OutOne, Zenon DEF Return
<1>5. Buffered' = Append(Buffered, Placed(p))
  BY <1>1, <1>2, BufferPush, Zenon
<1>6. Buffered \in Seq(Entry) /\ Len(Buffered) = Size /\ Placed(p) \in Entry
  BY <1>1, BufferedIs, PlacedIs, Zenon DEF BufferedOK
<1>7. Line' = Append(Line, Placed(p)) /\ Len(Line) = Size
  <2>1. \A q \in Seq(Entry) : q \o <<>> = q
    OBVIOUS
  <2>2. Append(Buffered, Placed(p)) \in Seq(Entry)
    BY <1>6, AppendIs, Zenon
  <2>3. Line = Buffered \o <<>> /\ Line' = Append(Buffered, Placed(p)) \o <<>>
    BY <1>2, <1>3, <1>5, Zenon DEF Line
  <2> QED
    BY <1>6, <2>1, <2>2, <2>3, Zenon
<1>8. Size < Cap
  BY <1>1, <1>2, SizeNow DEF Full
<1> QED
  BY <1>1, <1>2, <1>4, <1>7, <1>8, SpecWords, Zenon DEF Abstract!Put, Line, Out, Placed

(* A push that waits is the last of the line. *)
LEMMA LineAppend ==
  ASSUME Ring, Lists, NEW e \in Entry, push_awaiters' = Append(push_awaiters, e),
         UNCHANGED <<ring, Cap>>
  PROVE  Line' = Append(Line, e)
<1>1. Buffered' = Buffered
  BY BufferSame, Zenon
<1>2. \A a, b \in Seq(Entry) : a \o Append(b, e) = Append(a \o b, e)
  OBVIOUS
<1>3. Buffered \in Seq(Entry) /\ push_awaiters \in Seq(Entry)
  BY BufferedIs, Zenon DEF BufferedOK, Lists
<1> QED
  BY <1>1, <1>2, <1>3, Zenon DEF Line

(* A push that finds no room. *)
LEMMA LineIsFull ==
  ASSUME Inv, CannotPush
  PROVE  Len(Line) >= Cap /\ ~(Len(Line) < Cap)
<1>1. Ring /\ Lists
  BY InvParts, Zenon
<1>2. Size \in Nat /\ Len(push_awaiters) \in Nat /\ Len(Line) = Size + Len(push_awaiters)
  BY <1>1, LineIs, Zenon DEF LineOK
<1>3. Size = Cap
  BY Zenon DEF CannotPush, Full
<1> QED
  BY <1>2, <1>3

(* push() finds no room and waits. *)
LEMMA SpecWaitPush ==
  ASSUME Inv, NEW p \in Pushers, Outside(p), ~closed, CannotPush,
         push_awaiters' = Append(push_awaiters, [item |-> p, by |-> p]), Enlist(p),
         UNCHANGED <<pop_awaiters, ring, closed, Cap>>
  PROVE  Abstract!WaitPush(p)
<1>1. /\ Ring /\ Lists /\ Flags /\ p \in Clients
      /\ Out[p] # Unset /\ stop[p] # "removed"
  BY InvParts, OutIs, Zenon
<1>2. [item |-> p, by |-> p] \in Entry
  BY Zenon DEF Entry
<1>3. Line' = Append(Line, [item |-> p, by |-> p])
  BY <1>1, <1>2, LineAppend, Zenon
<1>4. Out' = [Out EXCEPT ![p] = Unset]
  BY <1>1, OutOne, Zenon DEF Enlist
<1>5. Len(Line) >= Cap
  BY LineIsFull, Zenon
<1>6. pop_awaiters = <<>> /\ pop_awaiters' = pop_awaiters /\ closed' = closed
  BY Zenon DEF CannotPush
<1> QED
  BY <1>1, <1>3, <1>4, <1>5, <1>6, SpecWords, Zenon DEF Abstract!WaitPush, Line, Out

(* force_push() finds no room and leaves its item at the end. *)
LEMMA SpecForced ==
  ASSUME Inv, NEW p \in Pushers, Outside(p), ~closed, CannotPush,
         push_awaiters' = Append(push_awaiters, [item |-> p, by |-> Nobody]),
         Return(p, "ok"), UNCHANGED <<pop_awaiters, ring, stop, closed, Cap>>
  PROVE  Abstract!Put(p, TRUE)
<1>1. /\ Ring /\ Lists /\ Flags /\ p \in Clients
      /\ Out[p] # Unset /\ stop[p] # "removed"
  BY InvParts, OutIs, Zenon
<1>2. [item |-> p, by |-> Nobody] \in Entry
  BY Zenon DEF Entry
<1>3. Line' = Append(Line, [item |-> p, by |-> Nobody])
  BY <1>1, <1>2, LineAppend, Zenon
<1>4. Out' = [Out EXCEPT ![p] = Answer("ok", Nobody)]
  BY <1>1, OutOne, Zenon DEF Return
<1>5. pop_awaiters = <<>> /\ pop_awaiters' = pop_awaiters /\ closed' = closed
  BY Zenon DEF CannotPush
<1> QED
  BY <1>1, <1>3, <1>4, <1>5, SpecWords, Zenon DEF Abstract!Put, Line, Out

(* A step that leaves the line alone. *)
LEMMA LineSame ==
  ASSUME UNCHANGED <<push_awaiters, ring, Cap>>
  PROVE  Line' = Line
  BY BufferSame, Zenon DEF Line

(* A push is refused. *)
LEMMA SpecRefusePush ==
  ASSUME Inv, NEW p \in Pushers, Outside(p),
         \/ closed /\ Return(p, "EPIPE")
         \/ ~closed /\ CannotPush /\ Return(p, "EAGAIN"),
         UNCHANGED <<lists, ring, stop, closed, Cap>>
  PROVE  Abstract!RefusePush(p)
<1>1. /\ Flags /\ p \in Clients
      /\ Out[p] # Unset /\ stop[p] # "removed"
  BY InvParts, OutIs, Zenon
<1>2. push_awaiters' = push_awaiters /\ pop_awaiters' = pop_awaiters /\ closed' = closed
  BY Zenon DEF lists
<1>3. Line' = Line
  BY <1>2, LineSame, Zenon
<1>4. CASE closed /\ Return(p, "EPIPE")
  <2>1. Out' = [Out EXCEPT ![p] = Answer("EPIPE", Nobody)]
    BY <1>1, <1>4, OutOne, Zenon DEF Return
  <2> QED
    BY <1>1, <1>2, <1>3, <1>4, <2>1, SpecWords, Zenon DEF Abstract!RefusePush, Line, Out
<1>5. CASE ~closed /\ CannotPush /\ Return(p, "EAGAIN")
  <2>1. Out' = [Out EXCEPT ![p] = Answer("EAGAIN", Nobody)]
    BY <1>1, <1>5, OutOne, Zenon DEF Return
  <2>2. Len(Line) >= Cap /\ pop_awaiters = <<>>
    BY <1>5, LineIsFull, Zenon DEF CannotPush
  <2> QED
    BY <1>1, <1>2, <1>3, <1>5, <2>1, <2>2, SpecWords, Zenon
       DEF Abstract!RefusePush, Line, Out
<1> QED
  BY <1>4, <1>5, Zenon

(* A pop takes the front, and no push waits. *)
LEMMA SpecTake ==
  ASSUME Inv, NEW c \in Poppers, Outside(c), push_awaiters = <<>>, TryPopInner(c),
         UNCHANGED <<closed, Cap>>
  PROVE  Abstract!Take(c)
<1>1. /\ Ring /\ Lists /\ Flags /\ c \in Clients
      /\ Out[c] # Unset /\ stop[c] # "removed" /\ DOMAIN Out = Clients
  BY InvParts, OutIs, Zenon
<1>2. /\ PopInner /\ ~Empty
      /\ outcome' = [outcome EXCEPT ![c] = Answer("ok", Front)]
      /\ push_awaiters' = push_awaiters /\ pop_awaiters' = pop_awaiters
      /\ stop' = stop /\ closed' = closed /\ Cap' = Cap
  BY Zenon DEF TryPopInner
<1>3. Out' = [Out EXCEPT ![c] = Answer("ok", Front)]
  BY <1>1, <1>2, OutOne, Zenon
<1>4. Buffered # <<>> /\ Buffered' = Tail(Buffered) /\ Head(Buffered).item = Front
  BY <1>1, <1>2, BufferPop, Zenon
<1>5. Buffered \in Seq(Entry) /\ Len(Buffered) = Size
  BY <1>1, BufferedIs, Zenon DEF BufferedOK
<1>6. Line = Buffered /\ Line' = Tail(Buffered)
  <2>1. \A q \in Seq(Entry) : q \o <<>> = q
    OBVIOUS
  <2>2. Tail(Buffered) \in Seq(Entry)
    BY <1>4, <1>5, TailIs, Zenon
  <2>3. Line = Buffered \o <<>> /\ Line' = Tail(Buffered) \o <<>>
    BY <1>2, <1>4, Zenon DEF Line
  <2> QED
    BY <1>5, <2>1, <2>2, <2>3, Zenon
<1>7. ~(Cap + 1 <= Len(Line))
  <2>1. Size \in 0..Cap /\ Cap \in Nat
    BY <1>1, SizeNow, Zenon
  <2> QED
    BY <1>5, <1>6, <2>1
<1>8. Out' = [h \in Clients |-> IF h = c THEN Answer("ok", Head(Line).item) ELSE Out[h]]
  BY <1>1, <1>3, <1>4, <1>6, Zenon
<1>9. /\ Line # <<>> /\ Line' = Tail(Line)
      /\ Out' = [h \in DOMAIN Out |->
           IF h = c THEN Answer("ok", Head(Line).item)
           ELSE IF Cap + 1 <= Len(Line) /\ Line[Cap + 1].by # Nobody /\ h = Line[Cap + 1].by
             THEN Answer("ok", Nobody)
           ELSE Out[h]]
  BY <1>1, <1>4, <1>6, <1>7, <1>8, Zenon
<1> QED
  BY <1>1, <1>2, <1>7, <1>9, SpecWords, Zenon DEF Abstract!Take, Line, Out

(* The line when a pop has taken the front and the first waiting push has  *)
(* its place: all move up, and the item of that push is the channel's.     *)
LEMMA LineMovesUp ==
  ASSUME Inv, push_awaiters # <<>>, push_awaiters' = Tail(push_awaiters),
         IF Cap = 0 THEN UNCHANGED ring ELSE PopAndPush(Head(push_awaiters).item),
         Lists', Ring', Cap' = Cap
  PROVE  /\ Cap \in Nat /\ Cap + 1 \in 1..Len(Line)
         /\ Line \in Seq(Entry) /\ Line' \in Seq(Entry)
         /\ Len(Line') = Len(Line) - 1
         /\ Line[Cap + 1] = Head(push_awaiters)
         /\ Line[1].item = IF Cap = 0 THEN Head(push_awaiters).item ELSE Front
         /\ \A k \in 1..Len(Line) - 1 :
              Line'[k] = IF k = Cap THEN Placed(Head(push_awaiters).item) ELSE Line[k + 1]
<1> DEFINE e == Head(push_awaiters)
           n == Len(push_awaiters)
<1>1. Ring /\ Lists /\ Waits
  BY InvParts, Zenon
<1>2. /\ Tail(push_awaiters) \in Seq(Entry)
      /\ \A i \in 1..n - 1 : Tail(push_awaiters)[i] = push_awaiters[i + 1]
      /\ e = push_awaiters[1] /\ e \in Entry
      /\ n \in Nat \ {0} /\ Len(Tail(push_awaiters)) = n - 1
  BY <1>1 DEF Lists
<1>3. Size = Cap /\ Full
  BY <1>1, Zenon DEF Waits, Full
<1>4. /\ Line \in Seq(Entry) /\ Size \in Nat /\ Len(Line) = Size + n
      /\ \A k \in 1..Size : Line[k] = Buffered[k]
      /\ \A k \in 1..n : Line[Size + k] = push_awaiters[k]
  BY <1>1, LineIs, Zenon DEF LineOK
<1>5. /\ Line' \in Seq(Entry) /\ Len(Line') = Size' + Len(push_awaiters')
      /\ \A k \in 1..Size' : Line'[k] = Buffered'[k]
      /\ \A k \in 1..Len(push_awaiters') : Line'[Size' + k] = push_awaiters'[k]
  BY LineThen, Zenon DEF LineOK
<1>6. e.item \in Pushers
  BY <1>2, Zenon DEF Entry
<1> HIDE DEF e, n
<1>7. /\ Size' = Cap
      /\ Cap # 0 => /\ Buffered[1].item = Front
                    /\ Buffered'[Cap] = Placed(e.item)
                    /\ \A k \in 1..Cap - 1 : Buffered'[k] = Buffered[k + 1]
  <2>1. CASE Cap = 0
    <3>1. UNCHANGED <<ring, Cap>>
      BY <2>1, Zenon
    <3> QED
      BY <1>1, <1>3, <2>1, <3>1, RingSame, Zenon
  <2>2. CASE Cap # 0
    <3>1. PopAndPush(e.item)
      BY <2>2, Zenon DEF e
    <3> QED
      BY <1>1, <1>3, <1>6, <2>2, <3>1, BufferPopPush, RingPopPush, Zenon
  <2> QED
    BY <2>1, <2>2, Zenon
<1>8. push_awaiters' = Tail(push_awaiters) /\ Len(push_awaiters') = n - 1
  BY <1>2, Zenon
<1>9. /\ Cap \in Nat /\ Cap + 1 \in 1..Len(Line) /\ Len(Line') = Len(Line) - 1
      /\ 1 \in 1..n /\ Len(Line) - 1 = Cap + (n - 1)
  <2>1. Len(Line) = Cap + n /\ Len(Line') = Cap + (n - 1) /\ Cap \in Nat
    BY <1>3, <1>4, <1>5, <1>7, <1>8, Zenon
  <2> QED
    BY <1>2, <2>1
<1>10. Line[Cap + 1] = e
  BY <1>2, <1>3, <1>4, <1>9, Zenon
<1>11. Line[1].item = IF Cap = 0 THEN e.item ELSE Front
  <2>1. CASE Cap = 0
    <3>1. Cap + 1 = 1
      BY <2>1
    <3> QED
      BY <1>10, <2>1, <3>1, Zenon
  <2>2. CASE Cap # 0
    <3>1. 1 \in 1..Size
      BY <1>3, <1>9, <2>2
    <3> QED
      BY <1>4, <1>7, <2>2, <3>1, Zenon
  <2> QED
    BY <2>1, <2>2, Zenon
<1>12. ASSUME NEW k \in 1..Len(Line) - 1
       PROVE  Line'[k] = IF k = Cap THEN Placed(e.item) ELSE Line[k + 1]
  <2>1. CASE k = Cap
    <3>1. Cap # 0 /\ k \in 1..Size'
      BY <1>7, <1>9, <2>1
    <3> QED
      BY <1>5, <1>7, <2>1, <3>1, Zenon
  <2>2. CASE k < Cap
    <3>1. Cap # 0 /\ k # Cap /\ k \in 1..Size' /\ k \in 1..Cap - 1 /\ k + 1 \in 1..Size
      BY <1>3, <1>7, <1>9, <2>2
    <3>2. Line'[k] = Buffered'[k] /\ Buffered'[k] = Buffered[k + 1]
          /\ Line[k + 1] = Buffered[k + 1]
      BY <1>4, <1>5, <1>7, <3>1, Zenon
    <3> QED
      BY <3>1, <3>2, Zenon
  <2>3. CASE k > Cap
    <3>1. PICK j \in 1..n - 1 : k = Cap + j
      <4>1. k - Cap \in 1..n - 1 /\ k = Cap + (k - Cap)
        BY <1>2, <1>9, <2>3
      <4> QED
        BY <4>1, Zenon
    <3>2. k # Cap /\ k + 1 = Cap + (j + 1) /\ j + 1 \in 1..n
      BY <1>2, <1>9, <3>1
    <3>3. Line'[k] = push_awaiters'[j] /\ push_awaiters'[j] = push_awaiters[j + 1]
      BY <1>2, <1>5, <1>7, <1>8, <3>1, Zenon
    <3>4. Line[k + 1] = push_awaiters[j + 1]
      BY <1>3, <1>4, <3>2
    <3> QED
      BY <3>2, <3>3, <3>4, Zenon
  <2> QED
    BY <1>9, <2>1, <2>2, <2>3
<1> QED
  BY <1>4, <1>5, <1>9, <1>10, <1>11, <1>12, Zenon DEF e

(* A pop makes room for the first push that waits. *)
LEMMA SpecTakeAndPlace ==
  ASSUME Inv, NEW c \in Poppers, Outside(c), push_awaiters # <<>>, TryPopInner(c),
         UNCHANGED <<closed, Cap>>, Lists', Ring'
  PROVE  Abstract!Take(c)
<1> DEFINE e == Head(push_awaiters)
           n == Cap + 1
           placed == n <= Len(Line) /\ Line[n].by # Nobody
<1>1. /\ Lists /\ Flags /\ c \in Clients
      /\ Out[c] # Unset /\ stop[c] # "removed" /\ DOMAIN Out = Clients
      /\ \A h \in Clients : h \in Listed => stop[h] # "removed"
      /\ Nobody \notin Clients
  BY InvParts, OutIs, Zenon
<1>2. /\ push_awaiters' = Tail(push_awaiters)
      /\ outcome' = [h \in Clients |->
           IF h = c THEN Answer("ok", IF Cap = 0 THEN e.item ELSE Front)
           ELSE IF h = e.by THEN Answer("ok", Nobody)
           ELSE outcome[h]]
      /\ IF Cap = 0 THEN UNCHANGED ring ELSE PopAndPush(e.item)
      /\ pop_awaiters' = pop_awaiters /\ stop' = stop
      /\ closed' = closed /\ Cap' = Cap
  BY Zenon DEF TryPopInner
<1>3. /\ Cap \in Nat /\ n \in 1..Len(Line)
      /\ Line \in Seq(Entry) /\ Line' \in Seq(Entry)
      /\ Len(Line') = Len(Line) - 1
      /\ Line[n] = e
      /\ Line[1].item = IF Cap = 0 THEN e.item ELSE Front
      /\ \A k \in 1..Len(Line) - 1 :
           Line'[k] = IF k = Cap THEN Placed(e.item) ELSE Line[k + 1]
  BY <1>2, LineMovesUp, Zenon
<1>4. e \in Entry /\ e.by # Nobody => e.by \in Listed
  <2>1. 1 \in DOMAIN push_awaiters /\ e = push_awaiters[1] /\ e \in Entry
    BY <1>1 DEF Lists
  <2> QED
    BY <2>1, ListedIs, Zenon
<1>40. e \in Entry
  BY <1>1 DEF Lists
<1> HIDE DEF e
<1>5. placed <=> e.by # Nobody
  BY <1>3
<1>6. Line # <<>> /\ Head(Line) = Line[1] /\ Len(Line) \in Nat
  BY <1>3
<1>7. Out' = [h \in DOMAIN Out |->
        IF h = c THEN Answer("ok", Head(Line).item)
        ELSE IF placed /\ h = Line[n].by THEN Answer("ok", Nobody)
        ELSE Out[h]]
  <2>1. ASSUME NEW h \in Clients
        PROVE  Out'[h] = IF h = c THEN Answer("ok", Head(Line).item)
                         ELSE IF placed /\ h = Line[n].by THEN Answer("ok", Nobody)
                         ELSE Out[h]
    <3>1. /\ Out'[h] = IF stop[h] = "removed" THEN Answer("ECANCELED", Nobody) ELSE outcome'[h]
          /\ Out[h] = IF stop[h] = "removed" THEN Answer("ECANCELED", Nobody) ELSE outcome[h]
      BY <1>2, Zenon DEF Out
    <3>2. outcome'[h] = IF h = c THEN Answer("ok", Head(Line).item)
                        ELSE IF h = e.by THEN Answer("ok", Nobody)
                        ELSE outcome[h]
      BY <1>2, <1>3, <1>6, Zenon
    <3>3. placed /\ h = Line[n].by <=> h = e.by
      BY <1>1, <1>3, <1>5, Zenon
    <3>4. h = c \/ h = e.by => stop[h] # "removed"
      BY <1>1, <1>4, <1>40, Zenon
    <3> HIDE DEF placed
    <3> QED
      BY <3>1, <3>2, <3>3, <3>4, Zenon
  <2>2. Out' = [h \in Clients |-> Out'[h]]
    BY Zenon DEF Out
  <2> QED
    BY <1>1, <2>1, <2>2, Zenon
<1>8. Line' = Tail(IF placed THEN [Line EXCEPT ![n].by = Nobody] ELSE Line)
  <2>1. CASE placed
    <3> DEFINE m == [Line EXCEPT ![n].by = Nobody]
    <3>1. [Line[n] EXCEPT !.by = Nobody] = Placed(e.item)
      BY <1>3, <1>40 DEF Entry, Placed
    <3>2. Placed(e.item) \in Entry
      BY <1>40, PlacedIs, Zenon DEF Entry
    <3>3. m = [Line EXCEPT ![n] = Placed(e.item)]
      BY <1>3, <3>1, Zenon
    <3>4. /\ m \in Seq(Entry) /\ Len(m) = Len(Line)
          /\ \A k \in 1..Len(Line) : m[k] = IF k = n THEN Placed(e.item) ELSE Line[k]
      BY <1>3, <3>2, <3>3
    <3> HIDE DEF m
    <3>5. /\ Tail(m) \in Seq(Entry) /\ Len(Tail(m)) = Len(Line) - 1
          /\ \A k \in 1..Len(Line) - 1 : Tail(m)[k] = m[k + 1]
      BY <1>3, <3>4
    <3>6. \A k \in 1..Len(Line) - 1 : Line'[k] = Tail(m)[k]
      BY <1>3, <3>4, <3>5
    <3>7. Line' = Tail(m)
      BY <1>3, <3>5, <3>6, SeqEqual, Zenon
    <3> HIDE DEF placed
    <3> QED
      BY <2>1, <3>7, Zenon DEF m
  <2>2. CASE ~placed
    <3>1. e.by = Nobody
      BY <1>5, <2>2, Zenon
    <3>2. e = Placed(e.item)
      BY <3>1, <1>40, Zenon DEF Entry, Placed
    <3>3. /\ Tail(Line) \in Seq(Entry) /\ Len(Tail(Line)) = Len(Line) - 1
          /\ \A k \in 1..Len(Line) - 1 : Tail(Line)[k] = Line[k + 1]
      BY <1>3
    <3>4. \A k \in 1..Len(Line) - 1 : Line'[k] = Tail(Line)[k]
      BY <1>3, <3>2, <3>3, Zenon
    <3>5. Line' = Tail(Line)
      BY <1>3, <3>3, <3>4, SeqEqual, Zenon
    <3> HIDE DEF placed
    <3> QED
      BY <2>2, <3>5, Zenon
  <2> QED
    BY <2>1, <2>2, Zenon
<1> QED
  BY <1>1, <1>2, <1>6, <1>7, <1>8, SpecWords, Zenon DEF Abstract!Take, Line, Out

(* A pop that cannot go on sees an empty line. *)
LEMMA LineEmpty ==
  ASSUME Inv, CannotPop
  PROVE  Line = <<>>
<1>1. Ring /\ Lists
  BY InvParts, Zenon
<1>2. Line \in Seq(Entry) /\ Len(Line) = Size + Len(push_awaiters)
  BY <1>1, LineIs, Zenon DEF LineOK
<1>3. Size = 0 /\ push_awaiters = <<>>
  BY Zenon DEF CannotPop, Empty
<1> QED
  BY <1>2, <1>3

(* pop() waits. *)
LEMMA SpecWaitPop ==
  ASSUME Inv, NEW c \in Poppers, Outside(c), ~closed, CannotPop,
         pop_awaiters' = Append(pop_awaiters, c), Enlist(c),
         UNCHANGED <<push_awaiters, ring, closed, Cap>>
  PROVE  Abstract!WaitPop(c)
<1>1. /\ Flags /\ c \in Clients /\ Out[c] # Unset /\ stop[c] # "removed"
  BY InvParts, OutIs, Zenon
<1>2. Line' = Line /\ Line = <<>> /\ closed' = closed
  BY LineSame, LineEmpty, Zenon
<1>3. Out' = [Out EXCEPT ![c] = Unset]
  BY <1>1, OutOne, Zenon DEF Enlist
<1> QED
  BY <1>1, <1>2, <1>3, SpecWords, Zenon DEF Abstract!WaitPop, Line, Out

(* A pop is refused. *)
LEMMA SpecRefusePop ==
  ASSUME Inv, NEW c \in Poppers, Outside(c), CannotPop,
         Return(c, IF closed THEN "EPIPE" ELSE "EAGAIN"),
         UNCHANGED <<lists, ring, stop, closed, Cap>>
  PROVE  Abstract!RefusePop(c)
<1>1. /\ Flags /\ c \in Clients /\ Out[c] # Unset /\ stop[c] # "removed"
  BY InvParts, OutIs, Zenon
<1>2. push_awaiters' = push_awaiters /\ pop_awaiters' = pop_awaiters /\ closed' = closed
  BY Zenon DEF lists
<1>3. Line' = Line /\ Line = <<>>
  BY <1>2, LineSame, LineEmpty, Zenon
<1>4. Out' = [Out EXCEPT ![c] = Answer(IF closed THEN "EPIPE" ELSE "EAGAIN", Nobody)]
  BY <1>1, OutOne, Zenon DEF Return
<1> QED
  BY <1>1, <1>2, <1>3, <1>4, SpecWords, Zenon DEF Abstract!RefusePop, Line, Out

(* The line when the i-th waiting push leaves it. *)
LEMMA LineWithout ==
  ASSUME Inv, NEW i \in DOMAIN push_awaiters,
         push_awaiters' = Without(push_awaiters, i), UNCHANGED <<ring, Cap>>,
         Lists', Ring'
  PROVE  /\ Size + i \in DOMAIN Line
         /\ Line[Size + i] = push_awaiters[i]
         /\ Line' = Without(Line, Size + i)
<1> DEFINE n == Len(push_awaiters)
           m == Size + i
<1>1. Ring /\ Lists
  BY InvParts, Zenon
<1>2. /\ Line \in Seq(Entry) /\ Size \in Nat /\ n \in Nat /\ Len(Line) = Size + n
      /\ DOMAIN Line = 1..Size + n
      /\ \A k \in 1..Size : Line[k] = Buffered[k]
      /\ \A k \in 1..n : Line[Size + k] = push_awaiters[k]
  BY <1>1, LineIs, Zenon DEF LineOK
<1>3. /\ Line' \in Seq(Entry) /\ Len(Line') = Size' + Len(push_awaiters')
      /\ \A k \in 1..Size' : Line'[k] = Buffered'[k]
      /\ \A k \in 1..Len(push_awaiters') : Line'[Size' + k] = push_awaiters'[k]
  BY LineThen, Zenon DEF LineOK
<1>4. Size' = Size /\ Buffered' = Buffered
  BY <1>1, RingSame, BufferSame, Zenon
<1>5. /\ n \in Nat \ {0} /\ i \in 1..n /\ Len(push_awaiters') = n - 1
      /\ \A k \in 1..n - 1 : push_awaiters'[k] = push_awaiters[From(i, k)]
  BY <1>1, WithoutIs DEF Lists
<1> HIDE DEF n
<1>6. m \in 1..Size + n /\ m \in DOMAIN Line /\ Line[m] = push_awaiters[i]
  BY <1>2, <1>5
<1> HIDE DEF m
<1>7. /\ Without(Line, m) \in Seq(Entry) /\ Len(Without(Line, m)) = Len(Line) - 1
      /\ \A k \in 1..Len(Line) - 1 : Without(Line, m)[k] = Line[From(m, k)]
  BY <1>2, <1>6, WithoutIs, Zenon
<1>8. Len(Line') = Size + (n - 1) /\ Len(Line) - 1 = Size + (n - 1)
  <2>1. Len(Line') = Size + (n - 1) /\ Len(Line) = Size + n
    BY <1>2, <1>3, <1>4, <1>5, Zenon
  <2> QED
    BY <1>2, <2>1
<1>9. ASSUME NEW k \in 1..Size + (n - 1)
      PROVE  Line'[k] = Line[From(m, k)]
  <2>1. CASE k \in 1..Size
    <3>1. From(m, k) = k
      BY <1>2, <1>5, <2>1 DEF From, m
    <3> QED
      BY <1>2, <1>3, <1>4, <2>1, <3>1, Zenon
  <2>2. CASE k \notin 1..Size
    <3>1. PICK j \in 1..n - 1 : k = Size + j
      <4>1. k - Size \in 1..n - 1 /\ k = Size + (k - Size)
        BY <1>2, <1>5, <2>2
      <4> QED
        BY <4>1, Zenon
    <3>2. From(m, k) = Size + From(i, j) /\ From(i, j) \in 1..n
      BY <1>2, <1>5, <3>1 DEF From, m
    <3>3. Line'[k] = push_awaiters'[j]
      BY <1>3, <1>4, <1>5, <3>1, Zenon
    <3>4. Line[From(m, k)] = push_awaiters[From(i, j)]
      BY <1>2, <3>2, Zenon
    <3> QED
      BY <1>5, <3>3, <3>4, Zenon
  <2> QED
    BY <2>1, <2>2, Zenon
<1>10. Line' = Without(Line, m)
  BY <1>3, <1>7, <1>8, <1>9, SeqEqual, Zenon
<1> QED
  BY <1>6, <1>10, Zenon DEF m

(* cancel() takes one who waits out of the line. *)
LEMMA SpecWithdraw ==
  ASSUME Inv, NEW h \in Clients, Unlist(h), UNCHANGED <<ring, closed, Cap>>, Lists', Ring',
         Out' = [Out EXCEPT ![h] = Answer("ECANCELED", Nobody)]
  PROVE  Abstract!Withdraw(h)
<1>1. Lists /\ h \in Listed /\ Out[h] = Unset
  BY InvParts, Unlisting, OutIs, Zenon
<1>2. closed' = closed
  BY Zenon
<1>3. CASE /\ \E i \in DOMAIN push_awaiters :
                push_awaiters[i].by = h /\ push_awaiters' = Without(push_awaiters, i)
           /\ UNCHANGED pop_awaiters
  <2>1. PICK i \in DOMAIN push_awaiters :
          push_awaiters[i].by = h /\ push_awaiters' = Without(push_awaiters, i)
    BY <1>3, Zenon
  <2>2. /\ Size + i \in DOMAIN Line
        /\ Line[Size + i] = push_awaiters[i]
        /\ Line' = Without(Line, Size + i)
    BY <2>1, LineWithout, Zenon
  <2>3. \E j \in DOMAIN Line : Line[j].by = h /\ Line' = Without(Line, j)
    BY <2>1, <2>2, Zenon
  <2> QED
    BY <1>1, <1>2, <1>3, <2>3, SpecWords, Zenon DEF Abstract!Withdraw, Line, Out
<1>4. CASE /\ \E i \in DOMAIN pop_awaiters :
                pop_awaiters[i] = h /\ pop_awaiters' = Without(pop_awaiters, i)
           /\ UNCHANGED push_awaiters
  <2>1. Line' = Line
    BY <1>4, LineSame, Zenon
  <2> QED
    BY <1>1, <1>2, <1>4, <2>1, SpecWords, Zenon DEF Abstract!Withdraw, Line, Out
<1> QED
  BY <1>3, <1>4, Zenon DEF Unlist

(* push_close_inner_: who waits gets its answer. *)
LEMMA OutClose ==
  ASSUME Inv, PushCloseInner, UNCHANGED stop
  PROVE  Out' = [h \in DOMAIN Out |->
           IF Out[h] # Unset THEN Out[h] ELSE Answer("EPIPE", Nobody)]
<1>1. /\ DOMAIN Out = Clients
      /\ \A h \in Clients : Out[h] = Unset <=> h \in Listed
      /\ \A h \in Clients : h \in Listed => stop[h] # "removed"
  BY OutIs, Zenon
<1>2. /\ outcome' = [h \in Clients |->
           IF h \in Listed THEN Answer("EPIPE", Nobody) ELSE outcome[h]]
      /\ stop' = stop
  BY Zenon DEF PushCloseInner
<1>3. ASSUME NEW h \in Clients
      PROVE  Out'[h] = IF Out[h] # Unset THEN Out[h] ELSE Answer("EPIPE", Nobody)
  <2>1. /\ Out'[h] = IF stop[h] = "removed" THEN Answer("ECANCELED", Nobody) ELSE outcome'[h]
        /\ Out[h] = IF stop[h] = "removed" THEN Answer("ECANCELED", Nobody) ELSE outcome[h]
    BY <1>2, Zenon DEF Out
  <2>2. outcome'[h] = IF h \in Listed THEN Answer("EPIPE", Nobody) ELSE outcome[h]
    BY <1>2, Zenon
  <2> QED
    BY <1>1, <2>1, <2>2, Zenon
<1>4. Out' = [h \in Clients |-> Out'[h]]
  BY Zenon DEF Out
<1> QED
  BY <1>1, <1>3, <1>4, Zenon

(* push_close() ends all waits. *)
LEMMA SpecClose ==
  ASSUME Inv, ~closed, PushCloseInner, UNCHANGED <<ring, stop, Cap>>, Lists', Ring'
  PROVE  Abstract!Close(TRUE)
<1>1. Ring /\ Lists /\ Waits
  BY InvParts, Zenon
<1>2. closed' = TRUE /\ push_awaiters' = <<>> /\ pop_awaiters' = <<>>
  BY Zenon DEF PushCloseInner
<1>3. Out' = [h \in DOMAIN Out |->
        IF Out[h] # Unset THEN Out[h] ELSE Answer("EPIPE", Nobody)]
  BY OutClose, Zenon
<1>4. /\ Line \in Seq(Entry) /\ Size \in Nat /\ Len(push_awaiters) \in Nat
      /\ Len(Line) = Size + Len(push_awaiters)
      /\ \A k \in 1..Size : Line[k] = Buffered[k]
  BY <1>1, LineIs, Zenon DEF LineOK
<1>5. Buffered \in Seq(Entry) /\ Len(Buffered) = Size /\ Buffered' = Buffered
  BY <1>1, BufferedIs, BufferSame, Zenon DEF BufferedOK
<1>6. Line' = Buffered
  <2>1. Line' = Buffered \o <<>>
    BY <1>2, <1>5, Zenon DEF Line
  <2> QED
    BY <1>5, <2>1
<1>7. Size \in 0..Cap /\ Cap \in Nat
  BY <1>1, SizeNow, Zenon
<1>8. Size = IF Len(Line) < Cap THEN Len(Line) ELSE Cap
  <2>1. CASE push_awaiters = <<>>
    <3>1. Len(push_awaiters) = 0
      BY <2>1, Zenon
    <3>2. Len(Line) = Size
      BY <1>4, <3>1
    <3> QED
      BY <1>7, <3>2
  <2>2. CASE push_awaiters # <<>>
    <3>1. Size = Cap
      BY <1>1, <2>2, Zenon DEF Waits, Full
    <3>2. ~(Len(Line) < Cap)
      BY <1>4, <1>7, <3>1
    <3> QED
      BY <3>1, <3>2, Zenon
  <2> QED
    BY <2>1, <2>2, Zenon
<1>9. /\ SubSeq(Line, 1, Size) \in Seq(Entry) /\ Len(SubSeq(Line, 1, Size)) = Size
      /\ \A k \in 1..Size : SubSeq(Line, 1, Size)[k] = Line[k]
  BY <1>4
<1>10. Line' = SubSeq(Line, 1, Size)
  BY <1>4, <1>5, <1>6, <1>9, SeqEqual, Zenon
<1>11. Line' = SubSeq(Line, 1, IF Len(Line) < Cap THEN Len(Line) ELSE Cap)
  BY <1>8, <1>10, Zenon
<1> QED
  BY <1>2, <1>3, <1>11, SpecWords, Zenon DEF Abstract!Close, Line, Out

(* The destructor empties the line too. *)
LEMMA SpecDestruct ==
  ASSUME Inv, Destruct, Cap' = Cap, Lists', Ring'
  PROVE  Abstract!Close(FALSE)
<1>1. Ring /\ Lists /\ Waits /\ Flags
  BY InvParts, Zenon
<1>2. /\ head' = tail /\ tail' = tail /\ stop' = stop
      /\ slots' = [i \in DOMAIN slots |->
           IF \E k \in 0..Size - 1 : i = Slot((head + k) % 2^SizeBits)
             THEN Nobody ELSE slots[i]]
  BY Zenon DEF Destruct
<1>3. Size' = 0
  BY <1>1, <1>2, RingClear, Zenon
<1>4. closed' = TRUE /\ push_awaiters' = <<>> /\ pop_awaiters' = <<>>
  <2>1. CASE closed
    <3>1. closed' = closed /\ push_awaiters' = push_awaiters /\ pop_awaiters' = pop_awaiters
      BY <2>1, Zenon DEF Destruct, lists
    <3>2. push_awaiters = <<>> /\ pop_awaiters = <<>> /\ closed \in BOOLEAN
      BY <1>1, <2>1, Zenon DEF Waits, Flags
    <3> QED
      BY <2>1, <3>1, <3>2, Zenon
  <2>2. CASE ~closed
    BY <2>2, Zenon DEF Destruct, PushCloseInner
  <2> QED
    BY <2>1, <2>2, Zenon
<1>5. Out' = [h \in DOMAIN Out |->
        IF Out[h] # Unset THEN Out[h] ELSE Answer("EPIPE", Nobody)]
  <2>1. CASE closed
    <3>1. outcome' = outcome
      BY <2>1, Zenon DEF Destruct
    <3>2. Out' = Out
      BY <1>2, <3>1, Zenon DEF Out
    <3>3. /\ DOMAIN Out = Clients
          /\ \A h \in Clients : Outside(h) => Out[h] # Unset
      BY OutIs, Zenon
    <3>4. \A h \in Clients : Out[h] # Unset
      BY <3>3, Zenon DEF Destruct
    <3>5. Out = [h \in Clients |-> Out[h]]
      BY Zenon DEF Out
    <3> QED
      BY <3>2, <3>3, <3>4, <3>5, Zenon
  <2>2. CASE ~closed
    BY <1>2, <2>2, OutClose, Zenon DEF Destruct
  <2> QED
    BY <2>1, <2>2, Zenon
<1>6. Line' = <<>>
  <2>1. Line' \in Seq(Entry) /\ Len(Line') = Size' + Len(push_awaiters')
    BY LineThen, Zenon DEF LineOK
  <2>2. Len(push_awaiters') = 0
    BY <1>4, Zenon
  <2>3. Len(Line') = 0
    BY <1>3, <2>1, <2>2
  <2> QED
    BY <2>1, <2>3
<1> QED
  BY <1>4, <1>5, <1>6, SpecWords, Zenon DEF Abstract!Close, Line, Out

(* A step that the line does not see. *)
LEMMA SpecStutter ==
  ASSUME UNCHANGED <<lists, ring, closed, Cap>>, Out' = Out
  PROVE  UNCHANGED Abstract!vars
<1>1. push_awaiters' = push_awaiters /\ pop_awaiters' = pop_awaiters
  BY Zenon DEF lists
<1>2. Line' = Line /\ closed' = closed /\ Cap' = Cap
  BY <1>1, LineSame, Zenon
<1> QED
  BY <1>1, <1>2, Zenon DEF Abstract!vars, Line, Out

(* The client h is cancelled, seen from the line. *)
LEMMA SpecCancel ==
  ASSUME Inv, NEW h \in Clients, Progress(h) \/ RequestStop(h), Cap' = Cap, Lists', Ring'
  PROVE  Abstract!Withdraw(h) \/ UNCHANGED Abstract!vars
<1>1. Flags /\ HandleOK(h)
  BY InvParts, Zenon
<1>2. \A g \in Clients :
        /\ Out'[g] = IF stop'[g] = "removed" THEN Answer("ECANCELED", Nobody) ELSE outcome'[g]
        /\ Out[g] = IF stop[g] = "removed" THEN Answer("ECANCELED", Nobody) ELSE outcome[g]
  BY Zenon DEF Out
<1>3. /\ Out = [g \in Clients |-> Out[g]]
      /\ Out' = [g \in Clients |-> Out'[g]]
  BY Zenon DEF Out
<1>4. ASSUME \A g \in Clients : Out'[g] = Out[g]
      PROVE  Out' = Out
  BY <1>3, <1>4, Zenon
<1>5. ASSUME NEW answer, Out'[h] = answer, \A g \in Clients : g # h => Out'[g] = Out[g]
      PROVE  Out' = [Out EXCEPT ![h] = answer]
  BY <1>3, <1>5, Zenon
<1>6. CASE Register(h)
  <2>1. /\ pc[h] = "started" /\ UNCHANGED <<ring, closed, Cap>>
        /\ stop' = [stop EXCEPT ![h] = IF @ = "requested" THEN "over" ELSE @]
    BY <1>6, Zenon DEF Register
  <2>2. /\ stop'[h] = IF stop[h] = "requested" THEN "over" ELSE stop[h]
        /\ \A g \in Clients : g # h => stop'[g] = stop[g]
        /\ stop[h] # "removed"
    BY <1>1, <2>1, Zenon DEF Flags, HandleOK
  <2>3. CASE stop[h] = "requested" /\ h \in Listed
    <3>1. Unlist(h) /\ outcome' = [outcome EXCEPT ![h] = Answer("ECANCELED", Nobody)]
      BY <1>6, <2>3, Zenon DEF Register, Cancelled
    <3>2. /\ outcome'[h] = Answer("ECANCELED", Nobody)
          /\ \A g \in Clients : g # h => outcome'[g] = outcome[g]
      BY <1>1, <3>1, Zenon DEF Flags
    <3>3. Out'[h] = Answer("ECANCELED", Nobody) /\ \A g \in Clients : g # h => Out'[g] = Out[g]
      BY <1>2, <2>2, <3>2, Zenon
    <3>4. Out' = [Out EXCEPT ![h] = Answer("ECANCELED", Nobody)]
      BY <1>5, <3>3, Zenon
    <3> QED
      BY <2>1, <3>1, <3>4, SpecWithdraw, Zenon
  <2>4. CASE ~(stop[h] = "requested" /\ h \in Listed)
    <3>1. UNCHANGED lists /\ outcome' = outcome
      BY <1>6, <2>4, Zenon DEF Register
    <3>2. \A g \in Clients : Out'[g] = Out[g]
      BY <1>2, <2>2, <3>1, Zenon
    <3> QED
      BY <1>4, <2>1, <3>1, <3>2, SpecStutter, Zenon
  <2> QED
    BY <2>3, <2>4, Zenon
<1>7. CASE CancelLock(h)
  <2>1. /\ stop[h] = "callback" /\ UNCHANGED <<ring, closed, Cap>> /\ outcome' = outcome
        /\ stop' = [stop EXCEPT ![h] = IF h \in Listed THEN "removed" ELSE "over"]
    BY <1>7, Zenon DEF CancelLock
  <2>2. /\ stop'[h] = IF h \in Listed THEN "removed" ELSE "over"
        /\ \A g \in Clients : g # h => stop'[g] = stop[g]
    BY <1>1, <2>1, Zenon DEF Flags
  <2>3. CASE h \in Listed
    <3>1. Unlist(h)
      BY <1>7, <2>3, Zenon DEF CancelLock
    <3>2. Out'[h] = Answer("ECANCELED", Nobody) /\ \A g \in Clients : g # h => Out'[g] = Out[g]
      BY <1>2, <2>1, <2>2, <2>3, Zenon
    <3>3. Out' = [Out EXCEPT ![h] = Answer("ECANCELED", Nobody)]
      BY <1>5, <3>2, Zenon
    <3> QED
      BY <2>1, <3>1, <3>3, SpecWithdraw, Zenon
  <2>4. CASE h \notin Listed
    <3>1. UNCHANGED lists
      BY <1>7, <2>4, Zenon DEF CancelLock
    <3>2. \A g \in Clients : Out'[g] = Out[g]
      BY <1>2, <2>1, <2>2, <2>4
    <3> QED
      BY <1>4, <2>1, <3>1, <3>2, SpecStutter, Zenon
  <2> QED
    BY <2>3, <2>4, Zenon
<1>8. CASE CancelSchedule(h)
  <2>1. /\ stop[h] = "removed" /\ UNCHANGED <<lists, ring, closed, Cap>>
        /\ stop' = [stop EXCEPT ![h] = "over"]
        /\ outcome' = [outcome EXCEPT ![h] = Answer("ECANCELED", Nobody)]
    BY <1>8, Zenon DEF CancelSchedule, Cancelled
  <2>2. /\ stop'[h] = "over" /\ outcome'[h] = Answer("ECANCELED", Nobody)
        /\ \A g \in Clients : g # h => stop'[g] = stop[g] /\ outcome'[g] = outcome[g]
    BY <1>1, <2>1, Zenon DEF Flags
  <2>3. \A g \in Clients : Out'[g] = Out[g]
    BY <1>2, <2>1, <2>2, Zenon
  <2> QED
    BY <1>4, <2>1, <2>3, SpecStutter, Zenon
<1>9. CASE Invoke(h)
  <2>1. /\ stop[h] # "removed" /\ UNCHANGED <<lists, ring, closed, Cap>>
        /\ stop' = [stop EXCEPT ![h] = "no"] /\ outcome' = outcome
    BY <1>9, Zenon DEF Invoke
  <2>2. /\ stop'[h] = "no"
        /\ \A g \in Clients : g # h => stop'[g] = stop[g]
    BY <1>1, <2>1, Zenon DEF Flags
  <2>3. \A g \in Clients : Out'[g] = Out[g]
    BY <1>2, <2>1, <2>2, Zenon
  <2> QED
    BY <1>4, <2>1, <2>3, SpecStutter, Zenon
<1>10. CASE RequestStop(h)
  <2>1. /\ stop[h] = "no" /\ UNCHANGED <<lists, ring, closed, Cap>> /\ outcome' = outcome
        /\ stop' = [stop EXCEPT ![h] = IF pc[h] = "suspended" THEN "callback" ELSE "requested"]
    BY <1>10, Zenon DEF RequestStop
  <2>2. /\ stop'[h] # "removed"
        /\ \A g \in Clients : g # h => stop'[g] = stop[g]
    BY <1>1, <2>1, Zenon DEF Flags
  <2>3. \A g \in Clients : Out'[g] = Out[g]
    BY <1>2, <2>1, <2>2, Zenon
  <2> QED
    BY <1>4, <2>1, <2>3, SpecStutter, Zenon
<1> QED
  BY <1>6, <1>7, <1>8, <1>9, <1>10, Zenon DEF Progress

(* A push that need not wait gives or puts its item. *)
LEMMA SpecTryPush ==
  ASSUME Inv, NEW p \in Pushers, Outside(p), ~closed, TryPushInner(p),
         UNCHANGED <<closed, Cap>>
  PROVE  Abstract!Give(p) \/ Abstract!Put(p, FALSE)
  BY SpecGive, SpecPut, Zenon

(* A pop that need not wait takes one. *)
LEMMA SpecTryPop ==
  ASSUME Inv, NEW c \in Poppers, Outside(c), TryPopInner(c), UNCHANGED <<closed, Cap>>,
         Lists', Ring'
  PROVE  Abstract!Take(c)
  BY SpecTake, SpecTakeAndPlace, Zenon

(* Every step of the channel is a step of the line, or none. *)
LEMMA StepRefines ==
  ASSUME Inv, Inv', [Next]_vars
  PROVE  [Abstract!Next]_(Abstract!vars)
<1>0. /\ \A h \in Clients : Idle(h) => Outside(h)
      /\ \A p \in Pushers : p \in Clients
      /\ \A c \in Poppers : c \in Clients
      /\ Lists' /\ Ring'
  BY Zenon DEF Clients, Idle, Outside, Inv
<1>a. ASSUME NEW p \in Pushers, Cap' = Cap,
             \/ Abstract!Give(p) \/ Abstract!WaitPush(p) \/ Abstract!RefusePush(p)
             \/ Abstract!Put(p, TRUE) \/ Abstract!Put(p, FALSE)
      PROVE  Abstract!Next
  <2>1. TRUE \in BOOLEAN /\ FALSE \in BOOLEAN
    OBVIOUS
  <2> QED
    BY <1>a, <2>1, Zenon DEF Abstract!Next
<1>b. ASSUME NEW c \in Poppers, Cap' = Cap,
             Abstract!Take(c) \/ Abstract!WaitPop(c) \/ Abstract!RefusePop(c)
      PROVE  Abstract!Next
  BY <1>b, Zenon DEF Abstract!Next
<1>c. ASSUME NEW h \in Clients, Cap' = Cap, Abstract!Withdraw(h)
      PROVE  Abstract!Next
  BY <1>c, Zenon DEF Abstract!Next, Clients
<1>d. ASSUME Cap' = Cap, Abstract!Close(TRUE) \/ Abstract!Close(FALSE)
      PROVE  Abstract!Next
  <2>1. TRUE \in BOOLEAN /\ FALSE \in BOOLEAN
    OBVIOUS
  <2> QED
    BY <1>d, <2>1, Zenon DEF Abstract!Next
<1>1. ASSUME NEW p \in Pushers, Push(p), Cap' = Cap PROVE Abstract!Next
  <2>1. Outside(p) /\ UNCHANGED <<closed, Cap>>
    BY <1>0, <1>1, Zenon DEF Push
  <2>2. CASE closed /\ Return(p, "EPIPE") /\ UNCHANGED <<lists, ring, pc, scheduled, stop>>
    BY <1>1, <1>a, <2>1, <2>2, SpecRefusePush, Zenon
  <2>3. CASE ~closed /\ TryPushInner(p)
    BY <1>1, <1>a, <2>1, <2>3, SpecTryPush, Zenon
  <2>4. CASE /\ ~closed /\ CannotPush
             /\ push_awaiters' = Append(push_awaiters, [item |-> p, by |-> p])
             /\ Enlist(p)
             /\ UNCHANGED <<pop_awaiters, ring, scheduled>>
    BY <1>1, <1>a, <2>1, <2>4, SpecWaitPush, Zenon
  <2> QED
    BY <1>1, <2>2, <2>3, <2>4, Zenon DEF Push
<1>2. ASSUME NEW p \in Pushers, TryPush(p), Cap' = Cap PROVE Abstract!Next
  <2>1. Outside(p) /\ UNCHANGED <<closed, Cap>>
    BY <1>0, <1>2, Zenon DEF TryPush
  <2>2. CASE closed /\ Return(p, "EPIPE") /\ UNCHANGED <<lists, ring, pc, scheduled, stop>>
    BY <1>2, <1>a, <2>1, <2>2, SpecRefusePush, Zenon
  <2>3. CASE ~closed /\ CannotPush /\ Return(p, "EAGAIN")
             /\ UNCHANGED <<lists, ring, pc, scheduled, stop>>
    BY <1>2, <1>a, <2>1, <2>3, SpecRefusePush, Zenon
  <2>4. CASE ~closed /\ TryPushInner(p)
    BY <1>2, <1>a, <2>1, <2>4, SpecTryPush, Zenon
  <2> QED
    BY <1>2, <2>2, <2>3, <2>4, Zenon DEF TryPush
<1>3. ASSUME NEW p \in Pushers, ForcePush(p), Cap' = Cap PROVE Abstract!Next
  <2>1. Outside(p) /\ ~closed /\ UNCHANGED <<closed, Cap>>
    BY <1>0, <1>3, Zenon DEF ForcePush
  <2>2. CASE TryPushInner(p)
    BY <1>3, <1>a, <2>1, <2>2, SpecTryPush, Zenon
  <2>3. CASE /\ CannotPush
             /\ push_awaiters' = Append(push_awaiters, [item |-> p, by |-> Nobody])
             /\ Return(p, "ok")
             /\ UNCHANGED <<pop_awaiters, ring, pc, scheduled, stop>>
    BY <1>3, <1>a, <2>1, <2>3, SpecForced, Zenon
  <2> QED
    BY <1>3, <2>2, <2>3, Zenon DEF ForcePush
<1>4. ASSUME NEW c \in Poppers, Pop(c), Cap' = Cap PROVE Abstract!Next
  <2>1. Outside(c) /\ UNCHANGED <<closed, Cap>>
    BY <1>0, <1>4, Zenon DEF Pop
  <2>2. CASE CannotPop /\ closed /\ Return(c, "EPIPE")
             /\ UNCHANGED <<lists, ring, pc, scheduled, stop>>
    <3>1. Return(c, IF closed THEN "EPIPE" ELSE "EAGAIN")
      BY <2>2, Zenon
    <3> QED
      BY <1>4, <1>b, <2>1, <2>2, <3>1, SpecRefusePop, Zenon
  <2>3. CASE TryPopInner(c)
    BY <1>0, <1>4, <1>b, <2>1, <2>3, SpecTryPop, Zenon
  <2>4. CASE /\ CannotPop /\ ~closed
             /\ pop_awaiters' = Append(pop_awaiters, c)
             /\ Enlist(c)
             /\ UNCHANGED <<push_awaiters, ring, scheduled>>
    BY <1>4, <1>b, <2>1, <2>4, SpecWaitPop, Zenon
  <2> QED
    BY <1>4, <2>2, <2>3, <2>4, Zenon DEF Pop
<1>5. ASSUME NEW c \in Poppers, TryPop(c), Cap' = Cap PROVE Abstract!Next
  <2>1. Outside(c) /\ UNCHANGED <<closed, Cap>>
    BY <1>0, <1>5, Zenon DEF TryPop
  <2>2. CASE TryPopInner(c)
    BY <1>0, <1>5, <1>b, <2>1, <2>2, SpecTryPop, Zenon
  <2>3. CASE /\ CannotPop /\ Return(c, IF closed THEN "EPIPE" ELSE "EAGAIN")
             /\ UNCHANGED <<lists, ring, pc, scheduled, stop>>
    BY <1>5, <1>b, <2>1, <2>3, SpecRefusePop, Zenon
  <2> QED
    BY <1>5, <2>2, <2>3, Zenon DEF TryPop
<1>6. ASSUME NEW h \in Clients, Progress(h) \/ RequestStop(h), Cap' = Cap
      PROVE  Abstract!Next \/ UNCHANGED Abstract!vars
  BY <1>0, <1>6, <1>c, SpecCancel, Zenon
<1>7. ASSUME PushClose, Cap' = Cap
      PROVE  Abstract!Next \/ UNCHANGED Abstract!vars
  <2>1. UNCHANGED <<ring, stop, Cap>>
    BY <1>7, Zenon DEF PushClose
  <2>2. CASE ~closed
    BY <1>0, <1>7, <1>d, <2>1, <2>2, SpecClose, Zenon DEF PushClose
  <2>3. CASE closed
    <3>1. UNCHANGED <<closed, lists, outcome>>
      BY <1>7, <2>3, Zenon DEF PushClose
    <3>2. Out' = Out
      BY <2>1, <3>1, Zenon DEF Out
    <3> QED
      BY <2>1, <3>1, <3>2, SpecStutter, Zenon
  <2> QED
    BY <2>2, <2>3, Zenon
<1>8. ASSUME Destruct, Cap' = Cap PROVE Abstract!Next
  BY <1>0, <1>8, <1>d, SpecDestruct, Zenon
<1>9. CASE UNCHANGED vars
  <2>1. UNCHANGED <<lists, ring, closed, Cap>> /\ outcome' = outcome /\ stop' = stop
    BY <1>9, Zenon DEF vars
  <2>2. Out' = Out
    BY <2>1, Zenon DEF Out
  <2> QED
    BY <2>1, <2>2, SpecStutter, Zenon
<1> QED
  BY <1>1, <1>2, <1>3, <1>4, <1>5, <1>6, <1>7, <1>8, <1>9, Zenon DEF Next

(* A new channel is an empty line. *)
LEMMA InitRefines ==
  ASSUME Init
  PROVE  Abstract!Init
<1>1. Ring /\ Lists
  BY Initial, InvParts, Zenon
<1>2. /\ push_awaiters = <<>> /\ pop_awaiters = <<>> /\ closed = FALSE
      /\ head = 0 /\ tail = 0
      /\ outcome = [h \in Clients |-> Answer("none", Nobody)]
      /\ stop = [h \in Clients |-> "no"]
  BY Zenon DEF Init
<1>3. Size = 0
  <2>1. Limit \in Nat \ {0} /\ Size = (0 - 0) % Limit
    BY <1>2, LimitIsNat, Zenon DEF Size, Limit
  <2>2. 0 - 0 = 0
    OBVIOUS
  <2> QED
    BY <2>1, <2>2, ModZero, Zenon
<1>4. Line = <<>>
  <2>1. Line \in Seq(Entry) /\ Len(Line) = Size + Len(push_awaiters)
    BY <1>1, LineIs, Zenon DEF LineOK
  <2>2. Len(push_awaiters) = 0
    BY <1>2, Zenon
  <2> QED
    BY <1>3, <2>1, <2>2
<1>5. Cap \in Nat
  BY <1>1, SizeNow, Zenon
<1>6. Out = [h \in Pushers \cup Poppers |-> Answer("none", Nobody)]
  BY <1>2, Zenon DEF Out, Clients
<1> QED
  BY <1>2, <1>4, <1>5, <1>6, SpecWords, Zenon DEF Abstract!Init, Line, Out

(* The channel is the FIFO line of ChannelSpec for every capacity, every   *)
(* width of size_t and any number of clients: items come out once and in   *)
(* order, whatever the ring buffer, the wait lists, closing and            *)
(* cancelling do.                                                          *)
THEOREM Fifo == Spec => IsFifo
<1>1. Init => Inv
  BY Initial, Zenon
<1>2. Inv /\ [Next]_vars => Inv'
  BY Inductive, Zenon
<1>3. Init => Abstract!Init
  BY InitRefines, Zenon
<1>4. Inv /\ Inv' /\ [Next]_vars => [Abstract!Next]_(Abstract!vars)
  BY StepRefines, Zenon
<1> QED
  BY <1>1, <1>2, <1>3, <1>4, PTL DEF Spec, IsFifo, Abstract!Spec
=============================================================================
