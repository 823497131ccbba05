---------------------------- MODULE ChannelProofs ----------------------------
(***************************************************************************)
(* The two invariants of Channel for every capacity, every width of        *)
(* size_t and any number of clients.                                       *)
(*                                                                         *)
(* Ring: the indices run round their type and not round the buffer, so     *)
(* that size_inner_() is their difference and a slot is an index masked.   *)
(* That the slots from head_ to tail_ are distinct, and the ones in use,   *)
(* needs the capacity to divide the range of the type.                     *)
(* Lists: a handle is in one list, once.  HandleOK: it waits there or is   *)
(* being cancelled exactly while it has no result, and is scheduled once   *)
(* from its result to its resumption.  Waits: a pop waits only on an empty *)
(* channel and a push only on a full one.  Together they are inductive.    *)
(***************************************************************************)
EXTENDS Channel, TLAPS

(* x % n lies below n *)
LEMMA ModRange ==
  ASSUME NEW x \in Int, NEW n \in Nat \ {0} PROVE x % n \in 0..n - 1
  BY SMT

(* and is what a division by n leaves. *)
LEMMA DivMod ==
  ASSUME NEW x \in Int, NEW n \in Nat \ {0} PROVE \E q \in Int : x = n * q + (x % n)
<1>1. x = n * (x \div n) + (x % n)
  BY SMT
<1>2. x \div n \in Int
  BY SMT
<1> QED BY <1>1, <1>2

(* A positive multiple of n is at least n. *)
LEMMA Times ==
  ASSUME NEW n \in Nat \ {0}, NEW d \in Int, d >= 1
  PROVE n * d >= n
  BY SMT

(* So no other number below n can be left. *)
LEMMA ModUnique ==
  ASSUME NEW x \in Int, NEW n \in Nat \ {0}, NEW q \in Int, NEW r \in 0..n - 1,
         x = n * q + r
  PROVE  x % n = r
<1>1. PICK p \in Int : x = n * p + (x % n)  BY DivMod, Zenon
<1>2. x % n \in 0..n - 1 BY ModRange
<1>3. CASE p = q BY <1>1, <1>2, <1>3
<1>4. CASE p > q 
  <2>1. n * (p - q) >= n BY <1>4, Times
  <2>2. n * (p - q) = n * p - n * q OBVIOUS
  <2> QED BY <2>1, <2>2, <1>1, <1>2
<1>5. CASE p < q
  <2>1. n * (q - p) >= n BY <1>5, Times
  <2>2. n * (q - p) = n * q - n * p OBVIOUS
  <2> QED BY <2>1, <2>2, <1>1, <1>2
<1> QED BY <1>3, <1>4, <1>5

(* The remainder of nothing. *)
LEMMA ModZero ==
  ASSUME NEW n \in Nat \ {0} PROVE 0 % n = 0
  BY ModUnique, n * 0 = 0

(* Indices wrap around at most once. *)
LEMMA Sum ==
  ASSUME NEW m \in Nat \ {0}, NEW a \in 0..m - 1, NEW k \in 0..m
  PROVE  (a + k) % m = IF a + k < m THEN a + k ELSE a + k - m
<1>1. CASE a + k < m
  <2>1. a + k = m * 0 + (a + k) /\ a + k \in 0..m - 1 /\ a + k \in Int
    BY <1>1
  <2>2. (a + k) % m = a + k
    BY <2>1, ModUnique
  <2> QED
    BY <1>1, <2>2, Zenon
<1>2. CASE a + k >= m
  <2>1. a + k = m * 1 + (a + k - m) /\ a + k - m \in 0..m - 1 /\ a + k \in Int
    BY <1>2
  <2>2. (a + k) % m = a + k - m
    BY <2>1, ModUnique
  <2> QED
    BY <1>2, <2>2
<1> QED
  BY <1>1, <1>2

(* The distance from one index to another, tail_ - head_ in an unsigned    *)
(* type.                                                                   *)
LEMMA Difference ==
  ASSUME NEW m \in Nat \ {0}, NEW a \in 0..m - 1, NEW b \in 0..m - 1
  PROVE  (b - a) % m = IF b >= a THEN b - a ELSE b - a + m
<1>1. CASE b >= a
  <2>1. b - a = m * 0 + (b - a) /\ b - a \in 0..m - 1 /\ b - a \in Int
    BY <1>1
  <2>2. (b - a) % m = b - a
    BY <2>1, ModUnique
  <2> QED
    BY <1>1, <2>2, Zenon
<1>2. CASE b < a
  <2>1. b - a = m * (-1) + (b - a + m) /\ b - a + m \in 0..m - 1 /\ b - a \in Int
    BY <1>2
  <2>2. (b - a) % m = b - a + m
    BY <2>1, ModUnique
  <2> QED
    BY <1>2, <2>2
<1> QED
  BY <1>1, <1>2

(* The mask commutes with the wrap of the index, as the size of the buffer *)
(* divides the range.                                                      *)
LEMMA Masked ==
  ASSUME NEW m \in Nat \ {0}, NEW c \in Nat \ {0}, m % c = 0, c <= m
  PROVE  \A a \in 0..m - 1, k \in 0..c :
           ((a + k) % m) % c = IF (a % c) + k < c THEN (a % c) + k ELSE (a % c) + k - c
<1> SUFFICES ASSUME NEW a \in 0..m - 1, NEW k \in 0..c
             PROVE  ((a + k) % m) % c
                      = IF (a % c) + k < c THEN (a % c) + k ELSE (a % c) + k - c
  OBVIOUS
<1>0. a \in Int /\ m \in Int /\ c \in Int /\ k \in Int /\ k \in 0..m
  OBVIOUS
<1>1. PICK w \in Int : m = c * w
  <2>1. PICK w \in Int : m = c * w + (m % c)
    BY <1>0, DivMod, Zenon
  <2> QED
    BY <2>1
<1>2. PICK q \in Int : a = c * q + (a % c)
  BY <1>0, DivMod, Zenon
<1>3. PICK r \in 0..c - 1 : r = a % c
  BY <1>0, ModRange, Zenon
<1>4. (a + k) % m = IF a + k < m THEN a + k ELSE a + k - m
  BY <1>0, Sum, Zenon
<1>5. ASSUME NEW s \in Int, NEW x \in Int, x = c * s + r + k
      PROVE  x % c = IF r + k < c THEN r + k ELSE r + k - c
  <2>1. CASE r + k < c
    <3>1. r + k \in 0..c - 1 /\ x = c * s + (r + k)
      BY <1>5, <2>1
    <3> QED
      BY <2>1, <3>1, ModUnique, Zenon
  <2>2. CASE r + k >= c
    <3>1. r + k - c \in 0..c - 1 /\ c * (s + 1) = c * s + c /\ s + 1 \in Int
      BY <2>2
    <3>2. x = c * (s + 1) + (r + k - c)
      BY <1>5, <3>1
    <3>3. x % c = r + k - c
      BY <3>1, <3>2, ModUnique, Zenon
    <3> QED
      BY <2>2, <3>3
  <2> QED
    BY <2>1, <2>2
<1>6. CASE a + k < m
  <2>1. a + k = c * q + r + k /\ a + k \in Int
    BY <1>0, <1>2, <1>3
  <2>2. (a + k) % c = IF r + k < c THEN r + k ELSE r + k - c
    BY <1>5, <2>1, Zenon
  <2>3. (a + k) % m = a + k
    BY <1>4, <1>6, Zenon
  <2> QED
    BY <1>3, <2>2, <2>3, Zenon
<1>7. CASE a + k >= m
  <2>1. c * (q - w) = c * q - c * w /\ q - w \in Int
    OBVIOUS
  <2>2. a + k - m = c * (q - w) + r + k /\ a + k - m \in Int
    <3> DEFINE cq == c * q
               cw == c * w
    <3>1. cq \in Int /\ cw \in Int /\ m = cw /\ a = cq + r /\ c * (q - w) = cq - cw
      BY <1>1, <1>2, <1>3, <2>1
    <3> HIDE DEF cq, cw
    <3> QED
      BY <1>0, <1>3, <3>1
  <2>3. (a + k - m) % c = IF r + k < c THEN r + k ELSE r + k - c
    BY <1>5, <2>1, <2>2, Zenon
  <2>4. ~(a + k < m)
    BY <1>0, <1>7
  <2>5. (a + k) % m = a + k - m
    BY <1>4, <2>4, Zenon
  <2> QED
    BY <1>3, <2>3, <2>5, Zenon
<1> QED
  BY <1>0, <1>6, <1>7

(* What the constructor makes of its argument, and never changes. *)
CapOK ==
  /\ Cap \in 0..2^SizeBits - 1
  /\ Cap = 0 \/ 2^SizeBits % Cap = 0

(* The range of the indices. *)
Limit == 2^SizeBits

(* The slot k places after index a. *)
Cell(a, k) == Slot((a + k) % 2^SizeBits)

(* The indices have a range. *)
LEMMA LimitIsNat == Limit \in Nat \ {0}
  BY CapAssumption, Zenon DEF Limit

(* The mask picks a slot of its own for each of Cap indices in a row, also *)
(* across the wrap of the index type.                                      *)
LEMMA Cells ==
  ASSUME CapOK, Cap # 0, NEW a \in 0..Limit - 1
  PROVE  /\ Inc(a) \in 0..Limit - 1
         /\ Slot(a) = Cell(a, 0)
         /\ Cell(a, Cap) = Cell(a, 0)
         /\ \A k \in 0..Cap : Cell(a, k) \in 0..Cap - 1
         /\ \A k \in 0..Cap - 1 : Cell(Inc(a), k) = Cell(a, k + 1)
         /\ \A j, k \in 0..Cap : j < k /\ k - j < Cap => Cell(a, j) # Cell(a, k)
<1>0. /\ Limit \in Nat \ {0} /\ Cap \in Nat \ {0} /\ Limit % Cap = 0 /\ Cap < Limit
      /\ Cap <= Limit /\ a \in Int /\ 1 \in 0..Limit
  BY LimitIsNat DEF CapOK, Limit
<1>1. PICK r \in 0..Cap - 1 : r = a % Cap
  BY <1>0, ModRange, Zenon
<1>2. Inc(a) = (a + 1) % Limit
  BY Zenon DEF Inc, Limit
<1>3. Inc(a) = IF a + 1 < Limit THEN a + 1 ELSE a + 1 - Limit
  BY <1>0, <1>2, Sum, Zenon
<1>4. Inc(a) \in 0..Limit - 1
  BY <1>0, <1>3
<1>5. \A x, k : Cell(x, k) = ((x + k) % Limit) % Cap
  BY Zenon DEF Cell, Slot, Limit
<1>6. ASSUME NEW k \in 0..Cap
      PROVE  Cell(a, k) = IF r + k < Cap THEN r + k ELSE r + k - Cap
  <2>0. \A x \in 0..Limit - 1, y \in 0..Cap :
          ((x + y) % Limit) % Cap
            = IF (x % Cap) + y < Cap THEN (x % Cap) + y ELSE (x % Cap) + y - Cap
    BY <1>0, Masked, Zenon
  <2>1. ((a + k) % Limit) % Cap
          = IF (a % Cap) + k < Cap THEN (a % Cap) + k ELSE (a % Cap) + k - Cap
    BY <2>0, Zenon
  <2> QED
    BY <1>1, <1>5, <2>1, Zenon
<1>7. \A k \in 0..Cap - 1 : Cell(Inc(a), k) = Cell(a, k + 1)
  <2> SUFFICES ASSUME NEW k \in 0..Cap - 1
               PROVE  Cell(Inc(a), k) = Cell(a, k + 1)
    OBVIOUS
  <2>1. k \in 0..Limit /\ k + 1 \in 0..Limit
    BY <1>0
  <2>2. (Inc(a) + k) % Limit = IF Inc(a) + k < Limit THEN Inc(a) + k ELSE Inc(a) + k - Limit
    BY <1>0, <1>4, <2>1, Sum, Zenon
  <2>3. (a + (k + 1)) % Limit = IF a + (k + 1) < Limit THEN a + (k + 1) ELSE a + (k + 1) - Limit
    BY <1>0, <2>1, Sum, Zenon
  <2>4. (Inc(a) + k) % Limit = (a + (k + 1)) % Limit
    BY <1>0, <1>3, <2>2, <2>3
  <2> QED
    BY <1>5, <2>4, Zenon
<1>8. 0 \in 0..Cap /\ Cap \in 0..Cap
  BY <1>0
<1>9. Cell(a, 0) = r /\ Cell(a, Cap) = r
  <2>1. Cell(a, 0) = IF r + 0 < Cap THEN r + 0 ELSE r + 0 - Cap
    BY <1>6, <1>8, Zenon
  <2>2. Cell(a, Cap) = IF r + Cap < Cap THEN r + Cap ELSE r + Cap - Cap
    BY <1>6, <1>8, Zenon
  <2> QED
    BY <1>0, <2>1, <2>2
<1>10. Slot(a) = r
  BY <1>1, Zenon DEF Slot
<1>11. \A k \in 0..Cap : Cell(a, k) \in 0..Cap - 1
  BY <1>0, <1>6
<1>12. \A j, k \in 0..Cap : j < k /\ k - j < Cap => Cell(a, j) # Cell(a, k)
  BY <1>0, <1>6
<1> QED
  BY <1>4, <1>7, <1>9, <1>10, <1>11, <1>12, Zenon

(* The indices are in range, and the slots hold items. *)
Ring ==
  /\ CapOK
  /\ head \in 0..Limit - 1
  /\ tail \in 0..Limit - 1
  /\ slots \in [0..Cap - 1 -> Pushers \cup {Nobody}]
  /\ SlotsConstructed

(* The distance, for any two indices. *)
LEMMA SizeIs ==
  ASSUME NEW a \in 0..Limit - 1, NEW b \in 0..Limit - 1
  PROVE  (b - a) % Limit = IF b >= a THEN b - a ELSE b - a + Limit
  BY LimitIsNat, Difference, Zenon

(* The items lie in the size_inner_() slots from head_ on. *)
LEMMA SizeNow ==
  ASSUME Ring
  PROVE  /\ Size = IF tail >= head THEN tail - head ELSE tail - head + Limit
         /\ Size \in 0..Cap
         /\ Cap \in Nat /\ Cap < Limit
         /\ Cap # 0 => Slot(tail) = Cell(head, Size) /\ Slot(head) = Cell(head, 0)
         /\ \A i \in 0..Cap - 1 : slots[i] # Nobody <=> \E k \in 0..Size - 1 : i = Cell(head, k)
<1>1. Size = (tail - head) % Limit
  BY Zenon DEF Size, Limit
<1>2. head \in 0..Limit - 1 /\ tail \in 0..Limit - 1
  BY Zenon DEF Ring
<1>3. Size = IF tail >= head THEN tail - head ELSE tail - head + Limit
  BY <1>1, <1>2, SizeIs, Zenon
<1>4. Cap \in Nat /\ Cap < Limit /\ Limit \in Nat \ {0}
  BY LimitIsNat DEF Ring, CapOK, Limit
<1>5. Size \in 0..Cap
  BY <1>2, <1>3, <1>4 DEF Ring, SlotsConstructed
<1>6. \A i \in 0..Cap - 1 : slots[i] # Nobody <=> \E k \in 0..Size - 1 : i = Cell(head, k)
  BY Zenon DEF Ring, SlotsConstructed, Cell
<1>7. ASSUME Cap # 0 PROVE Slot(tail) = Cell(head, Size) /\ Slot(head) = Cell(head, 0)
  <2>1. Size \in 0..Limit
    BY <1>4, <1>5
  <2>2. (head + Size) % Limit = IF head + Size < Limit THEN head + Size ELSE head + Size - Limit
    BY <1>2, <1>4, <2>1, Sum, Zenon
  <2>3. (head + Size) % Limit = tail
    BY <1>2, <1>3, <1>4, <2>2
  <2>4. Cell(head, Size) = Slot(tail)
    BY <2>3, Zenon DEF Cell, Limit
  <2> QED
    BY <1>2, <1>7, <2>4, Cells, Zenon DEF Ring
<1> QED
  BY <1>3, <1>4, <1>5, <1>6, <1>7, Zenon

(* What SlotsConstructed says after a step. *)
LEMMA SlotsThen ==
  ASSUME Cap' = Cap
  PROVE  SlotsConstructed' <=>
           /\ Size' <= Cap
           /\ \A i \in 0..Cap - 1 :
                slots'[i] # Nobody <=> \E k \in 0..Size' - 1 : i = Cell(head', k)
<1>1. \A k : Slot((head + k) % 2^SizeBits)' = Cell(head', k)
  BY Zenon DEF Cell, Slot
<1> QED
  BY <1>1, Zenon DEF SlotsConstructed

(* push_inner_ of a buffer that is not full. *)
LEMMA RingPush ==
  ASSUME Ring, ~Full, NEW item \in Pushers, PushInner(item), Cap' = Cap
  PROVE  /\ Ring'
         /\ Size' = Size + 1
         /\ Cap # 0
         /\ slots'[Cell(head, Size)] = item
         /\ \A k \in 0..Size - 1 : slots'[Cell(head, k)] = slots[Cell(head, k)]
<1>1. /\ Size = IF tail >= head THEN tail - head ELSE tail - head + Limit
      /\ Size \in 0..Cap
      /\ Cap \in Nat /\ Cap < Limit
      /\ Cap # 0 => Slot(tail) = Cell(head, Size) /\ Slot(head) = Cell(head, 0)
      /\ \A i \in 0..Cap - 1 : slots[i] # Nobody <=> \E k \in 0..Size - 1 : i = Cell(head, k)
  BY SizeNow, Zenon
<1>2. Size # Cap
  BY Zenon DEF Full
<1>3. Cap # 0 /\ Size \in 0..Cap - 1 /\ Size + 1 \in 0..Cap /\ Size < Cap
  BY <1>1, <1>2
<1>4. head \in 0..Limit - 1 /\ tail \in 0..Limit - 1 /\ head' = head /\ tail' = Inc(tail)
  BY Zenon DEF Ring, PushInner
<1>5. CapOK /\ CapOK'
  BY Zenon DEF Ring, CapOK
<1>6. Limit \in Nat \ {0} /\ 1 \in 0..Limit
  BY LimitIsNat
<1>7. tail' \in 0..Limit - 1
  BY <1>3, <1>4, <1>5, Cells, Zenon
<1>8. tail' = IF tail + 1 < Limit THEN tail + 1 ELSE tail + 1 - Limit
  <2>1. tail' = (tail + 1) % Limit
    BY <1>4, Zenon DEF Inc, Limit
  <2> QED
    BY <1>4, <1>6, <2>1, Sum, Zenon
<1>9. Size' = (tail' - head) % Limit
  BY <1>4, Zenon DEF Size, Limit
<1>10. Size' = IF tail' >= head THEN tail' - head ELSE tail' - head + Limit
  BY <1>4, <1>7, <1>9, SizeIs, Zenon
<1>11. Size' = Size + 1
  BY <1>1, <1>3, <1>4, <1>6, <1>8, <1>10
<1>12. slots' = [slots EXCEPT ![Cell(head, Size)] = item]
  BY <1>1, <1>3, Zenon DEF PushInner
<1>13. Cell(head, Size) \in 0..Cap - 1
  BY <1>1, <1>3, <1>4, <1>5, Cells, Zenon
<1>14. slots \in [0..Cap - 1 -> Pushers \cup {Nobody}]
  BY Zenon DEF Ring
<1>15. /\ slots' \in [0..Cap - 1 -> Pushers \cup {Nobody}]
       /\ slots'[Cell(head, Size)] = item
       /\ \A i \in 0..Cap - 1 : i # Cell(head, Size) => slots'[i] = slots[i]
  BY <1>12, <1>13, <1>14, Zenon
<1>16. \A k \in 0..Size - 1 : Cell(head, k) \in 0..Cap - 1 /\ Cell(head, k) # Cell(head, Size)
  <2> SUFFICES ASSUME NEW k \in 0..Size - 1
               PROVE  Cell(head, k) \in 0..Cap - 1 /\ Cell(head, k) # Cell(head, Size)
    OBVIOUS
  <2>1. k \in 0..Cap /\ Size \in 0..Cap /\ k < Size /\ Size - k < Cap
    BY <1>1, <1>3
  <2> QED
    BY <1>3, <1>4, <1>5, <2>1, Cells, Zenon
<1>17. item # Nobody
  BY ChannelAssumption, Zenon
<1>18. \A x : x \in 0..(Size + 1) - 1 <=> x \in 0..Size - 1 \/ x = Size
  BY <1>1
<1>19. \A i \in 0..Cap - 1 :
         slots'[i] # Nobody <=> \E k \in 0..(Size + 1) - 1 : i = Cell(head, k)
  BY <1>1, <1>13, <1>15, <1>17, <1>18, Zenon
<1>20. SlotsConstructed'
  <2>1. Size' <= Cap
    BY <1>3, <1>11
  <2> QED
    BY <2>1, <1>4, <1>11, <1>19, SlotsThen, Zenon
<1> QED
  BY <1>3, <1>4, <1>5, <1>7, <1>11, <1>15, <1>16, <1>20, Zenon DEF Ring, Limit

(* pop_inner_ of a buffer that is not empty. *)
LEMMA RingPop ==
  ASSUME Ring, ~Empty, PopInner, Cap' = Cap
  PROVE  /\ Ring'
         /\ Size' = Size - 1
         /\ Cap # 0
         /\ Front \in Pushers
         /\ Front = slots[Cell(head, 0)]
         /\ \A k \in 0..Size - 2 : slots'[Cell(head', k)] = slots[Cell(head, k + 1)]
<1>1. /\ Size = IF tail >= head THEN tail - head ELSE tail - head + Limit
      /\ Size \in 0..Cap
      /\ Cap \in Nat /\ Cap < Limit
      /\ Cap # 0 => Slot(tail) = Cell(head, Size) /\ Slot(head) = Cell(head, 0)
      /\ \A i \in 0..Cap - 1 : slots[i] # Nobody <=> \E k \in 0..Size - 1 : i = Cell(head, k)
  BY SizeNow, Zenon
<1>2. Size # 0
  BY Zenon DEF Empty
<1>3. /\ Cap # 0 /\ Size \in 1..Cap /\ 0 \in 0..Size - 1 /\ 0 \in 0..Cap
      /\ Size - 1 \in 0..Cap /\ Size - 1 <= Cap
  BY <1>1, <1>2
<1>4. head \in 0..Limit - 1 /\ tail \in 0..Limit - 1 /\ tail' = tail /\ head' = Inc(head)
  BY Zenon DEF Ring, PopInner
<1>5. CapOK /\ CapOK'
  BY Zenon DEF Ring, CapOK
<1>6. Limit \in Nat \ {0} /\ 1 \in 0..Limit
  BY LimitIsNat
<1>7. /\ head' \in 0..Limit - 1
      /\ \A k \in 0..Cap : Cell(head, k) \in 0..Cap - 1
      /\ \A k \in 0..Cap - 1 : Cell(head', k) = Cell(head, k + 1)
      /\ \A j, k \in 0..Cap : j < k /\ k - j < Cap => Cell(head, j) # Cell(head, k)
  BY <1>3, <1>4, <1>5, Cells, Zenon
<1>8. head' = IF head + 1 < Limit THEN head + 1 ELSE head + 1 - Limit
  <2>1. head' = (head + 1) % Limit
    BY <1>4, Zenon DEF Inc, Limit
  <2> QED
    BY <1>4, <1>6, <2>1, Sum, Zenon
<1>9. Size' = (tail - head') % Limit
  BY <1>4, Zenon DEF Size, Limit
<1>10. Size' = IF tail >= head' THEN tail - head' ELSE tail - head' + Limit
  BY <1>4, <1>7, <1>9, SizeIs, Zenon
<1>11. Size' = Size - 1
  BY <1>1, <1>3, <1>4, <1>6, <1>8, <1>10
<1>12. slots' = [slots EXCEPT ![Cell(head, 0)] = Nobody]
  BY <1>1, <1>3, Zenon DEF PopInner
<1>13. Cell(head, 0) \in 0..Cap - 1
  BY <1>3, <1>7, Zenon
<1>14. slots \in [0..Cap - 1 -> Pushers \cup {Nobody}]
  BY Zenon DEF Ring
<1>15. /\ slots' \in [0..Cap - 1 -> Pushers \cup {Nobody}]
       /\ slots'[Cell(head, 0)] = Nobody
       /\ \A i \in 0..Cap - 1 : i # Cell(head, 0) => slots'[i] = slots[i]
  BY <1>12, <1>13, <1>14, Zenon
<1>16. Front = slots[Cell(head, 0)]
  BY <1>1, <1>3, Zenon DEF Front
<1>17. Front \in Pushers
  BY <1>1, <1>3, <1>13, <1>14, <1>16, Zenon
<1>18. ASSUME NEW k \in 0..Size - 2
       PROVE  /\ Cell(head', k) = Cell(head, k + 1)
              /\ Cell(head, k + 1) \in 0..Cap - 1
              /\ Cell(head, k + 1) # Cell(head, 0)
              /\ k + 1 \in 0..Size - 1
  <2>1. /\ k \in 0..Cap - 1 /\ k + 1 \in 0..Cap /\ 0 \in 0..Cap /\ 0 < k + 1
        /\ k + 1 - 0 < Cap /\ k + 1 \in 0..Size - 1
    BY <1>1, <1>3
  <2>2. Cell(head, 0) # Cell(head, k + 1)
    BY <1>7, <2>1
  <2> QED
    BY <1>7, <2>1, <2>2, Zenon
<1>19. \A k \in 0..Size - 1 : k = 0 \/ \E j \in 0..Size - 2 : k = j + 1
  <2> SUFFICES ASSUME NEW k \in 0..Size - 1, k # 0
               PROVE  \E j \in 0..Size - 2 : k = j + 1
    OBVIOUS
  <2>1. k - 1 \in 0..Size - 2 /\ k = (k - 1) + 1
    BY <1>1
  <2> QED
    BY <2>1, Zenon
<1>20. \A i \in 0..Cap - 1 :
         slots'[i] # Nobody <=> \E k \in 0..Size - 2 : i = Cell(head', k)
  <2> SUFFICES ASSUME NEW i \in 0..Cap - 1
               PROVE  slots'[i] # Nobody <=> \E k \in 0..Size - 2 : i = Cell(head', k)
    OBVIOUS
  <2>1. CASE i = Cell(head, 0)
    BY <1>15, <1>18, <2>1, Zenon
  <2>2. CASE i # Cell(head, 0)
    <3>1. slots'[i] = slots[i]
      BY <1>15, <2>2, Zenon
    <3>2. ASSUME NEW k \in 0..Size - 1, i = Cell(head, k)
          PROVE  \E j \in 0..Size - 2 : i = Cell(head', j)
      <4>1. PICK j \in 0..Size - 2 : k = j + 1
        BY <1>19, <2>2, <3>2, Zenon
      <4> QED
        BY <1>18, <3>2, <4>1, Zenon
    <3>3. ASSUME NEW k \in 0..Size - 2, i = Cell(head', k)
          PROVE  \E j \in 0..Size - 1 : i = Cell(head, j)
      BY <1>18, <3>3, Zenon
    <3> QED
      BY <1>1, <3>1, <3>2, <3>3, Zenon
  <2> QED
    BY <2>1, <2>2, Zenon
<1>21. SlotsConstructed'
  <2>1. Size' <= Cap /\ Size' - 1 = Size - 2
    BY <1>1, <1>3, <1>11
  <2> QED
    BY <2>1, <1>20, SlotsThen, Zenon
<1>22. Ring'
  BY <1>4, <1>5, <1>7, <1>15, <1>21, Zenon DEF Ring, Limit
<1>23. \A k \in 0..Size - 2 : slots'[Cell(head', k)] = slots[Cell(head, k + 1)]
  BY <1>15, <1>18, Zenon
<1> QED
  BY <1>3, <1>11, <1>16, <1>17, <1>22, <1>23, Zenon

(* pop_inner_ and push_inner_ of a full buffer. *)
LEMMA RingPopPush ==
  ASSUME Ring, Full, Cap # 0, NEW item \in Pushers, PopAndPush(item), Cap' = Cap
  PROVE  /\ Ring'
         /\ Size' = Size
         /\ Front \in Pushers
         /\ Front = slots[Cell(head, 0)]
         /\ slots'[Cell(head', Cap - 1)] = item
         /\ \A k \in 0..Cap - 2 : slots'[Cell(head', k)] = slots[Cell(head, k + 1)]
<1>1. /\ Size = IF tail >= head THEN tail - head ELSE tail - head + Limit
      /\ Size \in 0..Cap
      /\ Cap \in Nat /\ Cap < Limit
      /\ Cap # 0 => Slot(tail) = Cell(head, Size) /\ Slot(head) = Cell(head, 0)
      /\ \A i \in 0..Cap - 1 : slots[i] # Nobody <=> \E k \in 0..Size - 1 : i = Cell(head, k)
  BY SizeNow, Zenon
<1>2. Size = Cap
  BY Zenon DEF Full
<1>3. Cap # 0 /\ 0 \in 0..Size - 1 /\ 0 \in 0..Cap /\ Cap - 1 \in 0..Cap - 1
  BY <1>1, <1>2
<1>4. /\ head \in 0..Limit - 1 /\ tail \in 0..Limit - 1
      /\ tail' = Inc(tail) /\ head' = Inc(head)
  BY Zenon DEF Ring, PopAndPush
<1>5. CapOK /\ CapOK'
  BY Zenon DEF Ring, CapOK
<1>6. Limit \in Nat \ {0} /\ 1 \in 0..Limit
  BY LimitIsNat
<1>7. /\ head' \in 0..Limit - 1
      /\ Cell(head, Cap) = Cell(head, 0)
      /\ \A k \in 0..Cap : Cell(head, k) \in 0..Cap - 1
      /\ \A k \in 0..Cap - 1 : Cell(head', k) = Cell(head, k + 1)
      /\ \A j, k \in 0..Cap : j < k /\ k - j < Cap => Cell(head, j) # Cell(head, k)
  BY <1>3, <1>4, <1>5, Cells, Zenon
<1>70. tail' \in 0..Limit - 1
  BY <1>3, <1>4, <1>5, Cells, Zenon
<1>8. /\ head' = IF head + 1 < Limit THEN head + 1 ELSE head + 1 - Limit
      /\ tail' = IF tail + 1 < Limit THEN tail + 1 ELSE tail + 1 - Limit
  <2>1. head' = (head + 1) % Limit /\ tail' = (tail + 1) % Limit
    BY <1>4, Zenon DEF Inc, Limit
  <2>2. (head + 1) % Limit = IF head + 1 < Limit THEN head + 1 ELSE head + 1 - Limit
    BY <1>4, <1>6, Sum, Zenon
  <2>3. (tail + 1) % Limit = IF tail + 1 < Limit THEN tail + 1 ELSE tail + 1 - Limit
    BY <1>4, <1>6, Sum, Zenon
  <2> QED
    BY <2>1, <2>2, <2>3, Zenon
<1>9. Size' = (tail' - head') % Limit
  BY Zenon DEF Size, Limit
<1>10. Size' = IF tail' >= head' THEN tail' - head' ELSE tail' - head' + Limit
  BY <1>7, <1>70, <1>9, SizeIs, Zenon
<1>11. Size' = Size
  BY <1>1, <1>4, <1>6, <1>8, <1>10
<1>12. slots' = [slots EXCEPT ![Cell(head, 0)] = item]
  <2>1. Slot(head) = Cell(head, 0) /\ Slot(tail) = Cell(head, 0)
    BY <1>1, <1>2, <1>3, <1>7, Zenon
  <2>2. slots' = [slots EXCEPT ![Cell(head, 0)] = Nobody, ![Cell(head, 0)] = item]
    BY <2>1, Zenon DEF PopAndPush
  <2> QED
    BY <2>2, Zenon DEF Ring
<1>13. Cell(head, 0) \in 0..Cap - 1
  BY <1>3, <1>7, Zenon
<1>14. slots \in [0..Cap - 1 -> Pushers \cup {Nobody}]
  BY Zenon DEF Ring
<1>15. /\ slots' \in [0..Cap - 1 -> Pushers \cup {Nobody}]
       /\ slots'[Cell(head, 0)] = item
       /\ \A i \in 0..Cap - 1 : i # Cell(head, 0) => slots'[i] = slots[i]
  BY <1>12, <1>13, <1>14, Zenon
<1>16. Front = slots[Cell(head, 0)]
  BY <1>1, <1>3, Zenon DEF Front
<1>17. Front \in Pushers
  BY <1>1, <1>3, <1>13, <1>14, <1>16, Zenon
<1>18. ASSUME NEW k \in 0..Cap - 2
       PROVE  /\ Cell(head', k) = Cell(head, k + 1)
              /\ Cell(head, k + 1) \in 0..Cap - 1
              /\ Cell(head, k + 1) # Cell(head, 0)
              /\ k + 1 \in 0..Cap - 1
              /\ k \in 0..Cap - 1
  <2>1. /\ k \in 0..Cap - 1 /\ k + 1 \in 0..Cap /\ 0 \in 0..Cap /\ 0 < k + 1
        /\ k + 1 - 0 < Cap /\ k + 1 \in 0..Cap - 1
    BY <1>1, <1>3
  <2>2. Cell(head, 0) # Cell(head, k + 1)
    BY <1>7, <2>1
  <2> QED
    BY <1>7, <2>1, <2>2, Zenon
<1>19. \A k \in 0..Cap - 1 : k = 0 \/ \E j \in 0..Cap - 2 : k = j + 1
  <2> SUFFICES ASSUME NEW k \in 0..Cap - 1, k # 0
               PROVE  \E j \in 0..Cap - 2 : k = j + 1
    OBVIOUS
  <2>1. k - 1 \in 0..Cap - 2 /\ k = (k - 1) + 1
    BY <1>1
  <2> QED
    BY <2>1, Zenon
<1>190. Cell(head', Cap - 1) = Cell(head, 0)
  <2>1. (Cap - 1) + 1 = Cap
    BY <1>1
  <2> QED
    BY <1>3, <1>7, <2>1, Zenon
<1>191. \A k \in 0..Cap - 1 : k = Cap - 1 \/ k \in 0..Cap - 2
  BY <1>1
<1>192. item # Nobody
  BY ChannelAssumption, Zenon
<1>20. \A i \in 0..Cap - 1 :
         slots'[i] # Nobody <=> \E k \in 0..Cap - 1 : i = Cell(head', k)
  <2> SUFFICES ASSUME NEW i \in 0..Cap - 1
               PROVE  slots'[i] # Nobody <=> \E k \in 0..Cap - 1 : i = Cell(head', k)
    OBVIOUS
  <2>1. CASE i = Cell(head, 0)
    <3>1. slots'[i] # Nobody
      BY <1>15, <1>192, <2>1, Zenon
    <3> QED
      BY <1>3, <1>190, <2>1, <3>1, Zenon
  <2>2. CASE i # Cell(head, 0)
    <3>1. slots'[i] = slots[i]
      BY <1>15, <2>2, Zenon
    <3>2. ASSUME NEW k \in 0..Cap - 1, i = Cell(head, k)
          PROVE  \E j \in 0..Cap - 1 : i = Cell(head', j)
      <4>1. PICK j \in 0..Cap - 2 : k = j + 1
        BY <1>19, <2>2, <3>2, Zenon
      <4> QED
        BY <1>18, <3>2, <4>1, Zenon
    <3>3. ASSUME NEW k \in 0..Cap - 1, i = Cell(head', k)
          PROVE  \E j \in 0..Cap - 1 : i = Cell(head, j)
      BY <1>18, <1>190, <1>191, <2>2, <3>3, Zenon
    <3>4. slots[i] # Nobody <=> \E k \in 0..Cap - 1 : i = Cell(head, k)
      BY <1>1, <1>2, Zenon
    <3> QED
      BY <3>1, <3>2, <3>3, <3>4, Zenon
  <2> QED
    BY <2>1, <2>2, Zenon
<1>21. SlotsConstructed'
  <2>1. Size' <= Cap /\ Size' - 1 = Cap - 1
    BY <1>1, <1>2, <1>11
  <2> QED
    BY <2>1, <1>20, SlotsThen, Zenon
<1>22. Ring'
  BY <1>5, <1>7, <1>70, <1>15, <1>21, Zenon DEF Ring, Limit
<1>23. \A k \in 0..Cap - 2 : slots'[Cell(head', k)] = slots[Cell(head, k + 1)]
  BY <1>15, <1>18, Zenon
<1>24. slots'[Cell(head', Cap - 1)] = item
  BY <1>15, <1>190, Zenon
<1> QED
  BY <1>11, <1>16, <1>17, <1>22, <1>23, <1>24, Zenon

(* ~Channel pops what is left. *)
LEMMA RingClear ==
  ASSUME Ring, Cap' = Cap, head' = tail, tail' = tail,
         slots' = [i \in DOMAIN slots |->
           IF \E k \in 0..Size - 1 : i = Slot((head + k) % 2^SizeBits)
             THEN Nobody ELSE slots[i]]
  PROVE  Ring' /\ Size' = 0
<1>1. /\ Size = IF tail >= head THEN tail - head ELSE tail - head + Limit
      /\ Size \in 0..Cap
      /\ Cap \in Nat /\ Cap < Limit
      /\ Cap # 0 => Slot(tail) = Cell(head, Size) /\ Slot(head) = Cell(head, 0)
      /\ \A i \in 0..Cap - 1 : slots[i] # Nobody <=> \E k \in 0..Size - 1 : i = Cell(head, k)
  BY SizeNow, Zenon
<1>2. Limit \in Nat \ {0} /\ tail \in 0..Limit - 1 /\ tail \in Int
  BY LimitIsNat DEF Ring
<1>3. Size' = 0
  <2>1. Size' = (tail - tail) % Limit
    BY Zenon DEF Size, Limit
  <2>2. tail - tail = 0
    BY <1>2
  <2> QED
    BY <1>2, <2>1, <2>2, ModZero, Zenon
<1>4. slots \in [0..Cap - 1 -> Pushers \cup {Nobody}]
  BY Zenon DEF Ring
<1>5. slots' = [i \in 0..Cap - 1 |->
        IF \E k \in 0..Size - 1 : i = Cell(head, k) THEN Nobody ELSE slots[i]]
  BY <1>4, Zenon DEF Cell
<1>6. ASSUME NEW i \in 0..Cap - 1 PROVE slots'[i] = Nobody
  BY <1>1, <1>5, Zenon
<1>7. slots' \in [0..Cap - 1 -> Pushers \cup {Nobody}]
  BY <1>5, <1>6, Zenon
<1>8. ~ \E k \in 0..Size' - 1 : TRUE
  BY <1>3
<1>9. Size' <= Cap
  BY <1>1, <1>3
<1>10. SlotsConstructed'
  BY <1>6, <1>8, <1>9, SlotsThen, Zenon
<1>11. CapOK'
  BY Zenon DEF Ring, CapOK
<1> QED
  BY <1>2, <1>3, <1>7, <1>10, <1>11, Zenon DEF Ring, Limit

-----------------------------------------------------------------------------
(* The lists.                                                              *)

Entry == [item : Pushers, by : Pushers \cup {Nobody}]

(* The lists are well typed, and no handle is in them twice. *)
Lists ==
  /\ push_awaiters \in Seq(Entry)
  /\ pop_awaiters \in Seq(Poppers)
  /\ \A i, j \in DOMAIN push_awaiters :
       push_awaiters[i].by = push_awaiters[j].by /\ push_awaiters[i].by # Nobody
         => i = j
  /\ \A i, j \in DOMAIN pop_awaiters : pop_awaiters[i] = pop_awaiters[j] => i = j

(* Where the elements of a longer queue are, *)
LEMMA AppendIs ==
  ASSUME NEW S, NEW q \in Seq(S), NEW e \in S
  PROVE  /\ Append(q, e) \in Seq(S)
         /\ DOMAIN Append(q, e) = 1..Len(q) + 1
         /\ Append(q, e)[Len(q) + 1] = e
         /\ \A i \in DOMAIN q : Append(q, e)[i] = q[i]
         /\ DOMAIN q = 1..Len(q)
         /\ Len(q) \in Nat
  OBVIOUS

(* of one without its first element, *)
LEMMA TailIs ==
  ASSUME NEW S, NEW q \in Seq(S), q # <<>>
  PROVE  /\ Tail(q) \in Seq(S)
         /\ DOMAIN Tail(q) = 1..Len(q) - 1
         /\ \A i \in 1..Len(q) - 1 : Tail(q)[i] = q[i + 1]
         /\ Head(q) = q[1]
         /\ Head(q) \in S
         /\ DOMAIN q = 1..Len(q)
         /\ Len(q) \in Nat \ {0}
  OBVIOUS

(* Where the k-th element comes from when the i-th has been removed. *)
From(i, k) == IF k < i THEN k ELSE k + 1

(* and of one without any of its elements. *)
LEMMA WithoutIs ==
  ASSUME NEW S, NEW q \in Seq(S), NEW i \in DOMAIN q
  PROVE  /\ Without(q, i) \in Seq(S)
         /\ DOMAIN Without(q, i) = 1..Len(q) - 1
         /\ \A k \in 1..Len(q) - 1 : Without(q, i)[k] = q[From(i, k)]
         /\ DOMAIN q = 1..Len(q)
         /\ Len(q) \in Nat \ {0}
         /\ Len(Without(q, i)) = Len(q) - 1
<1>1. DOMAIN q = 1..Len(q) /\ Len(q) \in Nat \ {0}
  OBVIOUS
<1>2. \A k \in 1..Len(q) - 1 : q[From(i, k)] \in S
  BY <1>1 DEF From
<1>3. Without(q, i) \in Seq(S)
  BY <1>1, <1>2 DEF Without, From
<1> QED
  BY <1>1, <1>3 DEF Without, From

(* Taking an element out keeps the others, and their order. *)
LEMMA Indices ==
  ASSUME NEW n \in Nat \ {0}, NEW i \in 1..n
  PROVE  /\ \A k \in 1..n - 1 : From(i, k) \in 1..n /\ From(i, k) # i
         /\ \A k, j \in 1..n - 1 : From(i, k) = From(i, j) => k = j
         /\ \A k \in 1..n : k = i \/ \E j \in 1..n - 1 : From(i, j) = k
<1>1. ASSUME NEW k \in 1..n, k < i PROVE k \in 1..n - 1 /\ From(i, k) = k
  BY <1>1 DEF From
<1>2. ASSUME NEW k \in 1..n, k > i PROVE k - 1 \in 1..n - 1 /\ From(i, k - 1) = k
  BY <1>2 DEF From
<1>3. \A k \in 1..n : k = i \/ \E j \in 1..n - 1 : From(i, j) = k
  BY <1>1, <1>2
<1> QED
  BY <1>3 DEF From

(* Who is in which list. *)
LEMMA ListTypes ==
  ASSUME Lists
  PROVE  /\ \A i \in DOMAIN push_awaiters : push_awaiters[i].by \in Pushers \cup {Nobody}
         /\ \A i \in DOMAIN pop_awaiters : pop_awaiters[i] \in Poppers
<1>1. push_awaiters \in Seq(Entry) /\ pop_awaiters \in Seq(Poppers)
  BY Zenon DEF Lists
<1>2. \A i \in DOMAIN push_awaiters : push_awaiters[i] \in Entry
  BY <1>1
<1> QED
  BY <1>1, <1>2 DEF Entry

(* Who is in the lists, list by list. *)
LEMMA ListedIs ==
  ASSUME NEW h
  PROVE  h \in Listed <=>
           \/ h # Nobody /\ \E i \in DOMAIN push_awaiters : push_awaiters[i].by = h
           \/ \E i \in DOMAIN pop_awaiters : pop_awaiters[i] = h
  BY Zenon DEF Listed

(* And after a step. *)
LEMMA ListedIsThen ==
  ASSUME NEW h
  PROVE  h \in Listed' <=>
           \/ h # Nobody /\ \E i \in DOMAIN push_awaiters' : push_awaiters'[i].by = h
           \/ \E i \in DOMAIN pop_awaiters' : pop_awaiters'[i] = h
  BY Zenon DEF Listed

(* pop_front() is a removal too. *)
LEMMA TailIsWithout ==
  ASSUME NEW S, NEW q \in Seq(S), q # <<>>
  PROVE  Tail(q) = Without(q, 1) /\ 1 \in DOMAIN q /\ Head(q) = q[1]
<1>1. 1 \in DOMAIN q /\ Head(q) = q[1] /\ Len(q) \in Nat \ {0}
  OBVIOUS
<1>2. /\ Tail(q) \in Seq(S)
      /\ DOMAIN Tail(q) = 1..Len(q) - 1
      /\ \A i \in 1..Len(q) - 1 : Tail(q)[i] = q[i + 1]
  BY TailIs, Zenon
<1>3. /\ Without(q, 1) \in Seq(S)
      /\ DOMAIN Without(q, 1) = 1..Len(q) - 1
      /\ \A i \in 1..Len(q) - 1 : Without(q, 1)[i] = q[i + 1]
  BY <1>1, WithoutIs DEF From
<1>4. Tail(q) = Without(q, 1)
  BY <1>1, <1>2, <1>3
<1> QED
  BY <1>1, <1>4, Zenon

(* The i-th waiting pop leaves. *)
LEMMA RemovePop ==
  ASSUME Lists, NEW i \in DOMAIN pop_awaiters,
         pop_awaiters' = Without(pop_awaiters, i), push_awaiters' = push_awaiters
  PROVE  /\ Lists'
         /\ pop_awaiters[i] \in Poppers
         /\ pop_awaiters[i] \in Listed
         /\ \A h \in Clients : h \in Listed' <=> h \in Listed /\ h # pop_awaiters[i]
<1> DEFINE q == pop_awaiters
<1>1. q \in Seq(Poppers)
  BY Zenon DEF Lists
<1>2. /\ pop_awaiters' \in Seq(Poppers)
      /\ DOMAIN pop_awaiters' = 1..Len(q) - 1
      /\ \A k \in 1..Len(q) - 1 : pop_awaiters'[k] = q[From(i, k)]
      /\ DOMAIN q = 1..Len(q)
      /\ Len(q) \in Nat \ {0}
      /\ i \in 1..Len(q)
  BY <1>1, WithoutIs, Zenon
<1>3. /\ \A k \in 1..Len(q) - 1 : From(i, k) \in 1..Len(q) /\ From(i, k) # i
      /\ \A k, j \in 1..Len(q) - 1 : From(i, k) = From(i, j) => k = j
      /\ \A k \in 1..Len(q) : k = i \/ \E j \in 1..Len(q) - 1 : From(i, j) = k
  BY <1>2, Indices, Zenon
<1>4. \A k, j \in 1..Len(q) : q[k] = q[j] => k = j
  BY <1>2, Zenon DEF Lists
<1>5. Lists'
  <2>1. ASSUME NEW k \in DOMAIN pop_awaiters', NEW j \in DOMAIN pop_awaiters',
               pop_awaiters'[k] = pop_awaiters'[j]
        PROVE  k = j
    <3>1. k \in 1..Len(q) - 1 /\ j \in 1..Len(q) - 1
      BY <1>2, Zenon
    <3>2. q[From(i, k)] = q[From(i, j)]
      BY <1>2, <2>1, <3>1, Zenon
    <3>3. From(i, k) \in 1..Len(q) /\ From(i, j) \in 1..Len(q)
      BY <1>3, <3>1, Zenon
    <3> QED
      BY <1>3, <1>4, <3>1, <3>2, <3>3, Zenon
  <2> QED
    BY <1>2, <2>1, Zenon DEF Lists
<1>6. q[i] \in Poppers
  BY <1>1
<1>7. q[i] \in Listed
  BY ListedIs, Zenon
<1>8. ASSUME NEW h \in Clients PROVE h \in Listed' <=> h \in Listed /\ h # q[i]
  <2>1. ASSUME NEW k \in DOMAIN pop_awaiters', pop_awaiters'[k] = h
        PROVE  h # q[i] /\ \E j \in DOMAIN q : q[j] = h
    <3>1. q[From(i, k)] = h /\ From(i, k) \in 1..Len(q) /\ From(i, k) # i
      BY <1>2, <1>3, <2>1, Zenon
    <3> QED
      BY <1>2, <1>4, <3>1, Zenon
  <2>2. ASSUME NEW k \in DOMAIN q, q[k] = h, h # q[i]
        PROVE  \E j \in DOMAIN pop_awaiters' : pop_awaiters'[j] = h
    <3>1. PICK j \in 1..Len(q) - 1 : From(i, j) = k
      BY <1>2, <1>3, <2>2, Zenon
    <3> QED
      BY <1>2, <2>2, <3>1, Zenon
  <2>3. ~ \E k \in DOMAIN push_awaiters : push_awaiters[k].by = q[i]
    BY <1>6, ListTypes, ChannelAssumption, Zenon
  <2> QED
    BY <2>1, <2>2, <2>3, ListedIs, ListedIsThen, Zenon
<1> QED
  BY <1>2, <1>5, <1>6, <1>7, <1>8, Zenon

(* The i-th waiting push leaves, or a fake handle. *)
LEMMA RemovePush ==
  ASSUME Lists, NEW i \in DOMAIN push_awaiters,
         push_awaiters' = Without(push_awaiters, i), pop_awaiters' = pop_awaiters
  PROVE  /\ Lists'
         /\ push_awaiters[i] \in Entry
         /\ push_awaiters[i].by # Nobody => push_awaiters[i].by \in Listed
         /\ \A h \in Clients :
              h \in Listed' <=> h \in Listed /\ h # push_awaiters[i].by
<1> DEFINE q == push_awaiters
<1>1. q \in Seq(Entry)
  BY Zenon DEF Lists
<1>2. /\ push_awaiters' \in Seq(Entry)
      /\ DOMAIN push_awaiters' = 1..Len(q) - 1
      /\ \A k \in 1..Len(q) - 1 : push_awaiters'[k] = q[From(i, k)]
      /\ DOMAIN q = 1..Len(q)
      /\ Len(q) \in Nat \ {0}
      /\ i \in 1..Len(q)
  BY <1>1, WithoutIs, Zenon
<1>3. /\ \A k \in 1..Len(q) - 1 : From(i, k) \in 1..Len(q) /\ From(i, k) # i
      /\ \A k, j \in 1..Len(q) - 1 : From(i, k) = From(i, j) => k = j
      /\ \A k \in 1..Len(q) : k = i \/ \E j \in 1..Len(q) - 1 : From(i, j) = k
  BY <1>2, Indices, Zenon
<1>4. \A k, j \in 1..Len(q) : q[k].by = q[j].by /\ q[k].by # Nobody => k = j
  BY <1>2, Zenon DEF Lists
<1>5. Lists'
  <2>1. ASSUME NEW k \in DOMAIN push_awaiters', NEW j \in DOMAIN push_awaiters',
               push_awaiters'[k].by = push_awaiters'[j].by, push_awaiters'[k].by # Nobody
        PROVE  k = j
    <3>1. k \in 1..Len(q) - 1 /\ j \in 1..Len(q) - 1
      BY <1>2, Zenon
    <3>2. q[From(i, k)].by = q[From(i, j)].by /\ q[From(i, k)].by # Nobody
      BY <1>2, <2>1, <3>1, Zenon
    <3>3. From(i, k) \in 1..Len(q) /\ From(i, j) \in 1..Len(q)
      BY <1>3, <3>1, Zenon
    <3> QED
      BY <1>3, <1>4, <3>1, <3>2, <3>3, Zenon
  <2> QED
    BY <1>2, <2>1, Zenon DEF Lists
<1>6. q[i] \in Entry
  BY <1>1
<1>7. q[i].by # Nobody => q[i].by \in Listed
  BY ListedIs, Zenon
<1>8. ASSUME NEW h \in Clients PROVE h \in Listed' <=> h \in Listed /\ h # q[i].by
  <2>0. h # Nobody
    BY ChannelAssumption, Zenon DEF Clients
  <2>1. ASSUME NEW k \in DOMAIN push_awaiters', push_awaiters'[k].by = h
        PROVE  h # q[i].by /\ \E j \in DOMAIN q : q[j].by = h
    <3>1. q[From(i, k)].by = h /\ From(i, k) \in 1..Len(q) /\ From(i, k) # i
      BY <1>2, <1>3, <2>1, Zenon
    <3> QED
      BY <1>2, <1>4, <2>0, <3>1, Zenon
  <2>2. ASSUME NEW k \in DOMAIN q, q[k].by = h, h # q[i].by
        PROVE  \E j \in DOMAIN push_awaiters' : push_awaiters'[j].by = h
    <3>1. PICK j \in 1..Len(q) - 1 : From(i, j) = k
      BY <1>2, <1>3, <2>2, Zenon
    <3> QED
      BY <1>2, <2>2, <3>1, Zenon
  <2>3. ~ \E k \in DOMAIN pop_awaiters : pop_awaiters[k] = q[i].by
    BY <1>6, ListTypes, ChannelAssumption, Zenon DEF Entry
  <2>4. h \in Listed <=> (\E j \in DOMAIN q : q[j].by = h)
                        \/ \E k \in DOMAIN pop_awaiters : pop_awaiters[k] = h
    BY <2>0, ListedIs, Zenon
  <2>5. h \in Listed' <=> (\E j \in DOMAIN push_awaiters' : push_awaiters'[j].by = h)
                         \/ \E k \in DOMAIN pop_awaiters : pop_awaiters[k] = h
    BY <2>0, ListedIsThen, Zenon
  <2> QED
    BY <2>1, <2>2, <2>3, <2>4, <2>5, Zenon
<1> QED
  BY <1>2, <1>5, <1>6, <1>7, <1>8, Zenon

(* A pop begins to wait. *)
LEMMA PopAppend ==
  ASSUME Lists, NEW c \in Poppers, c \notin Listed,
         pop_awaiters' = Append(pop_awaiters, c), push_awaiters' = push_awaiters
  PROVE  /\ Lists'
         /\ \A h \in Clients : h \in Listed' <=> h \in Listed \/ h = c
<1> DEFINE q == pop_awaiters
<1>1. q \in Seq(Poppers)
  BY Zenon DEF Lists
<1>2. /\ Append(q, c) \in Seq(Poppers)
      /\ DOMAIN Append(q, c) = 1..Len(q) + 1
      /\ Append(q, c)[Len(q) + 1] = c
      /\ \A i \in DOMAIN q : Append(q, c)[i] = q[i]
      /\ DOMAIN q = 1..Len(q)
      /\ Len(q) \in Nat
  BY <1>1, AppendIs, Zenon
<1>3. \A i : i \in 1..Len(q) + 1 <=> i \in 1..Len(q) \/ i = Len(q) + 1
  BY <1>2
<1>4. \A i, j \in DOMAIN q : q[i] = q[j] => i = j
  BY Zenon DEF Lists
<1>5. \A i \in DOMAIN q : q[i] # c
  BY ListedIs, Zenon
<1>6. Lists'
  <2>1. \A i, j \in DOMAIN Append(q, c) : Append(q, c)[i] = Append(q, c)[j] => i = j
    BY <1>2, <1>3, <1>4, <1>5, Zenon
  <2> QED
    BY <2>1 DEF Lists
<1>7. ASSUME NEW h \in Clients PROVE h \in Listed' <=> h \in Listed \/ h = c
  <2>1. (\E i \in DOMAIN Append(q, c) : Append(q, c)[i] = h)
          <=> (\E i \in DOMAIN q : q[i] = h) \/ h = c
    BY <1>2, <1>3, Zenon
  <2> QED
    BY <2>1, ListedIs, ListedIsThen, Zenon
<1> QED
  BY <1>2, <1>6, <1>7, Zenon

(* A push begins to wait, or leaves a fake handle. *)
LEMMA PushAppend ==
  ASSUME Lists, NEW p \in Pushers, NEW by \in Pushers \cup {Nobody},
         by \notin Listed,
         push_awaiters' = Append(push_awaiters, [item |-> p, by |-> by]),
         pop_awaiters' = pop_awaiters
  PROVE  /\ Lists'
         /\ \A h \in Clients : h \in Listed' <=> h \in Listed \/ h = by
<1> DEFINE q == push_awaiters
           e == [item |-> p, by |-> by]
<1>1. q \in Seq(Entry) /\ e \in Entry /\ e.by = by
  BY Zenon DEF Lists, Entry
<1> HIDE DEF e
<1>2. /\ Append(q, e) \in Seq(Entry)
      /\ DOMAIN Append(q, e) = 1..Len(q) + 1
      /\ Append(q, e)[Len(q) + 1] = e
      /\ \A i \in DOMAIN q : Append(q, e)[i] = q[i]
      /\ DOMAIN q = 1..Len(q)
      /\ Len(q) \in Nat
  BY <1>1, AppendIs, Zenon
<1>3. \A i : i \in 1..Len(q) + 1 <=> i \in 1..Len(q) \/ i = Len(q) + 1
  BY <1>2
<1>4. \A i, j \in DOMAIN q : q[i].by = q[j].by /\ q[i].by # Nobody => i = j
  BY Zenon DEF Lists
<1>5. \A i \in DOMAIN q : q[i].by # by \/ by = Nobody
  BY ListedIs, Zenon
<1>50. push_awaiters' = Append(q, e)
  BY Zenon DEF e
<1>6. Lists'
  <2>1. \A i, j \in DOMAIN Append(q, e) :
          Append(q, e)[i].by = Append(q, e)[j].by /\ Append(q, e)[i].by # Nobody => i = j
    BY <1>1, <1>2, <1>3, <1>4, <1>5, Zenon
  <2> QED
    BY <1>2, <1>50, <2>1, Zenon DEF Lists
<1>7. ASSUME NEW h \in Clients PROVE h \in Listed' <=> h \in Listed \/ h = by
  <2>0. h # Nobody
    BY ChannelAssumption, Zenon DEF Clients
  <2>1. (\E i \in DOMAIN Append(q, e) : Append(q, e)[i].by = h)
          <=> (\E i \in DOMAIN q : q[i].by = h) \/ h = by
    BY <1>1, <1>2, <1>3, Zenon
  <2> QED
    BY <1>50, <2>0, <2>1, ListedIs, ListedIsThen, Zenon
<1> QED
  BY <1>2, <1>50, <1>6, <1>7, Zenon

(* remove() takes the handle out, and only that. *)
LEMMA Unlisting ==
  ASSUME Lists, NEW h \in Clients, Unlist(h)
  PROVE  /\ Lists'
         /\ h \in Listed
         /\ \A g \in Clients : g \in Listed' <=> g \in Listed /\ g # h
<1>0. h # Nobody
  BY ChannelAssumption, Zenon DEF Clients
<1>1. push_awaiters \in Seq(Entry) /\ pop_awaiters \in Seq(Poppers)
  BY Zenon DEF Lists
<1>2. CASE /\ \E i \in DOMAIN push_awaiters :
                push_awaiters[i].by = h /\ push_awaiters' = Without(push_awaiters, i)
           /\ UNCHANGED pop_awaiters
  BY <1>0, <1>1, <1>2, RemovePush, Zenon
<1>3. CASE /\ \E i \in DOMAIN pop_awaiters :
                pop_awaiters[i] = h /\ pop_awaiters' = Without(pop_awaiters, i)
           /\ UNCHANGED push_awaiters
  BY <1>0, <1>1, <1>3, RemovePop, Zenon
<1> QED
  BY <1>2, <1>3, Zenon DEF Unlist
-----------------------------------------------------------------------------
(* The handles.                                                            *)

Answers ==
  [code : {"none", "unset", "ok", "EPIPE", "EAGAIN", "ECANCELED"},
   item : Pushers \cup {Nobody}]

Flags ==
  /\ closed \in BOOLEAN
  /\ alive \in BOOLEAN
  /\ pc \in [Clients -> {"away", "idle", "started", "suspended"}]
  /\ outcome \in [Clients -> Answers]
  /\ scheduled \in [Clients -> Nat]
  /\ pending \in [Clients -> Nat]
  /\ stop \in [Clients -> {"no", "requested", "callback", "removed", "over"}]

(* A handle waits in a list or is being cancelled exactly while it has no  *)
(* result; once it has one it is scheduled until it is resumed.            *)
HandleOK(h) ==
  /\ Outside(h) => stop[h] = "no" /\ h \notin Listed /\ scheduled[h] = 0
  /\ stop[h] \in {"callback", "removed"} => pc[h] = "suspended"
  /\ pending[h] = IF pc[h] = "suspended" THEN 1 ELSE 0
  /\ outcome[h] = Unset <=> h \in Listed \/ stop[h] = "removed"
  /\ h \in Listed => stop[h] # "removed"
  /\ h \in Listed \/ stop[h] = "removed" => scheduled[h] = 0
  /\ h \notin Listed /\ stop[h] # "removed" /\ ~Outside(h) => scheduled[h] = 1

(* Who may wait, and when. *)
Waits ==
  /\ pop_awaiters # <<>> => Empty /\ push_awaiters = <<>>
  /\ push_awaiters # <<>> => Full
  /\ closed => push_awaiters = <<>> /\ pop_awaiters = <<>>

Inv == Ring /\ Lists /\ Flags /\ Waits /\ \A h \in Clients : HandleOK(h)

(* The invariant says what the runs check. *)
LEMMA InvMeans ==
  ASSUME Inv
  PROVE  WaiterInOnePlace /\ WaitersJustified
<1>1. Ring /\ Lists /\ Flags /\ Waits /\ \A h \in Clients : HandleOK(h)
  BY Zenon DEF Inv
<1>2. TypeOK
  BY <1>1, Zenon DEF Ring, Lists, Flags, TypeOK, Limit, Entry, Answers
<1>3. WaitersJustified
  BY <1>1, Zenon DEF Ring, Waits, WaitersJustified
<1>4. HandleOutlivesCallback
  BY <1>1, Zenon DEF HandleOutlivesCallback, HandleOK
<1>5. \A h \in Clients : scheduled[h] \in Nat
  BY <1>1, Zenon DEF Flags
<1>6. ASSUME NEW h \in Clients
      PROVE  scheduled[h] + (IF h \in Listed THEN 1 ELSE 0)
                          + (IF stop[h] = "removed" THEN 1 ELSE 0)
               = IF Outside(h) THEN 0 ELSE 1
  <2>1. HandleOK(h) /\ scheduled[h] \in Nat
    BY <1>1, <1>5, Zenon
  <2> QED
    BY <2>1 DEF HandleOK, Outside
<1> QED
  BY <1>2, <1>3, <1>4, <1>6, Zenon DEF WaiterInOnePlace

(* Results. *)
LEMMA AnswerIs ==
  ASSUME NEW code \in {"none", "unset", "ok", "EPIPE", "EAGAIN", "ECANCELED"},
         NEW item \in Pushers \cup {Nobody}
  PROVE  /\ Answer(code, item) \in Answers
         /\ code # "unset" => Answer(code, item) # Unset
  BY Zenon DEF Answer, Answers, Unset

(* A step does not touch where the client is. *)
Kept(g) == pc'[g] = pc[g] /\ pending'[g] = pending[g] /\ stop'[g] = stop[g]

(* A handle the step does not touch. *)
LEMMA Untouched ==
  ASSUME NEW g \in Clients, HandleOK(g), Kept(g), outcome'[g] = outcome[g],
         scheduled'[g] = scheduled[g], g \in Listed' <=> g \in Listed
  PROVE  HandleOK(g)'
  BY Zenon DEF HandleOK, Kept, Outside

(* A call that returns at once. *)
LEMMA Answered ==
  ASSUME NEW g \in Clients, HandleOK(g), Outside(g), Kept(g), outcome'[g] # Unset,
         scheduled'[g] = scheduled[g], g \notin Listed'
  PROVE  HandleOK(g)'
  BY Zenon DEF HandleOK, Kept, Outside

(* A call that has to wait. *)
LEMMA Enlisted ==
  ASSUME NEW g \in Clients, HandleOK(g), Outside(g), pc'[g] = "started",
         pending'[g] = pending[g], stop'[g] = stop[g],
         outcome'[g] = Unset, scheduled'[g] = scheduled[g], g \in Listed'
  PROVE  HandleOK(g)'
  BY Zenon DEF HandleOK, Outside

(* Someone completes a waiting operation. *)
LEMMA Completed ==
  ASSUME NEW g \in Clients, HandleOK(g), g \in Listed, Kept(g), outcome'[g] # Unset,
         scheduled'[g] = scheduled[g] + 1, g \notin Listed'
  PROVE  HandleOK(g)'
  BY DEF HandleOK, Kept, Outside

(* A step that leaves the buffer alone. *)
LEMMA RingSame ==
  ASSUME Ring, UNCHANGED <<ring, Cap>>
  PROVE  Ring' /\ Size' = Size /\ (Full' <=> Full) /\ (Empty' <=> Empty)
<1>1. head' = head /\ tail' = tail /\ slots' = slots /\ Cap' = Cap
  BY Zenon DEF ring
<1>2. Size' = Size
  BY <1>1, Zenon DEF Size
<1>3. SlotsConstructed'
  BY <1>1, <1>2, Zenon DEF Ring, SlotsConstructed, Slot
<1> QED
  BY <1>1, <1>2, <1>3, Zenon DEF Ring, CapOK, Full, Empty, Limit
-----------------------------------------------------------------------------
(* Every step keeps the invariant.                                         *)

(* What the steps below start from. *)
LEMMA InvParts ==
  ASSUME Inv
  PROVE  /\ Ring /\ Lists /\ Flags /\ Waits
         /\ \A h \in Clients : HandleOK(h)
         /\ \A h \in Clients : Outside(h) => h \notin Listed
         /\ Nobody \notin Clients /\ Nobody \notin Listed
         /\ \A p \in Pushers : p \in Clients /\ p \notin Poppers /\ p # Nobody
         /\ \A c \in Poppers : c \in Clients /\ c \notin Pushers /\ c # Nobody
<1>1. Ring /\ Lists /\ Flags /\ Waits /\ \A h \in Clients : HandleOK(h)
  BY Zenon DEF Inv
<1>2. \A h \in Clients : Outside(h) => h \notin Listed
  BY <1>1, Zenon DEF HandleOK
<1>3. /\ Nobody \notin Clients
      /\ \A p \in Pushers : p \in Clients /\ p \notin Poppers /\ p # Nobody
      /\ \A c \in Poppers : c \in Clients /\ c \notin Pushers /\ c # Nobody
  BY ChannelAssumption, Zenon DEF Clients
<1>4. \A i \in DOMAIN pop_awaiters : pop_awaiters[i] \in Poppers
  BY <1>1, ListTypes, Zenon
<1>5. Nobody \notin Listed
  BY <1>3, <1>4, ListedIs, Zenon
<1> QED
  BY <1>1, <1>2, <1>3, <1>5, Zenon

(* A call that is refused, or answered without touching the lists. *)
LEMMA ReturnStep ==
  ASSUME Inv, NEW h \in Clients, Outside(h),
         NEW code \in {"ok", "EPIPE", "EAGAIN"}, Return(h, code),
         Ring', Waits', UNCHANGED <<lists, closed, alive, pc, scheduled, pending, stop>>
  PROVE  Inv'
<1>1. /\ Ring /\ Lists /\ Flags /\ Waits
      /\ \A g \in Clients : HandleOK(g)
      /\ \A g \in Clients : Outside(g) => g \notin Listed
  BY InvParts, Zenon
<1>2. /\ push_awaiters' = push_awaiters /\ pop_awaiters' = pop_awaiters
      /\ closed' = closed /\ alive' = alive
      /\ pc' = pc /\ scheduled' = scheduled /\ pending' = pending /\ stop' = stop
  BY Zenon DEF lists
<1>3. Lists' /\ Listed' = Listed
  BY <1>1, <1>2, Zenon DEF Lists, Listed
<1>4. Answer(code, Nobody) \in Answers /\ Answer(code, Nobody) # Unset
  BY AnswerIs, Zenon
<1>5. /\ outcome' \in [Clients -> Answers]
      /\ outcome'[h] # Unset
      /\ \A g \in Clients : g # h => outcome'[g] = outcome[g]
  BY <1>1, <1>4, Zenon DEF Flags, Return
<1>6. Flags'
  BY <1>1, <1>2, <1>5, Zenon DEF Flags
<1>7. ASSUME NEW g \in Clients PROVE HandleOK(g)'
  <2>1. Kept(g) /\ scheduled'[g] = scheduled[g] /\ HandleOK(g)
    BY <1>1, <1>2, Zenon DEF Kept
  <2>2. CASE g = h
    BY <1>1, <1>3, <1>5, <2>1, <2>2, Answered, Zenon
  <2>3. CASE g # h
    BY <1>3, <1>5, <2>1, <2>3, Untouched, Zenon
  <2> QED
    BY <2>2, <2>3, Zenon
<1> QED
  BY <1>3, <1>6, <1>7, Zenon DEF Inv

(* A push hands its item to the first waiting pop. *)
LEMMA HandOver ==
  ASSUME Inv, NEW p \in Pushers, Outside(p), pop_awaiters # <<>>, TryPushInner(p),
         UNCHANGED <<closed, alive, pending, Cap>>
  PROVE  Inv'
<1> DEFINE c == Head(pop_awaiters)
<1>1. /\ Ring /\ Lists /\ Flags /\ Waits
      /\ \A g \in Clients : HandleOK(g)
      /\ \A g \in Clients : Outside(g) => g \notin Listed
      /\ p \in Clients
  BY InvParts, Zenon
<1>2. /\ pop_awaiters' = Tail(pop_awaiters)
      /\ outcome' = [outcome EXCEPT ![p] = Answer("ok", Nobody), ![c] = Answer("ok", p)]
      /\ scheduled' = [scheduled EXCEPT ![c] = @ + 1]
      /\ UNCHANGED ring
      /\ push_awaiters' = push_awaiters /\ pc' = pc /\ stop' = stop
      /\ closed' = closed /\ alive' = alive /\ pending' = pending /\ Cap' = Cap
  BY Zenon DEF TryPushInner
<1>3. /\ pop_awaiters' = Without(pop_awaiters, 1)
      /\ 1 \in DOMAIN pop_awaiters /\ c = pop_awaiters[1]
  BY <1>1, <1>2, TailIsWithout, Zenon DEF Lists
<1>4. /\ Lists' /\ c \in Poppers /\ c \in Listed
      /\ \A g \in Clients : g \in Listed' <=> g \in Listed /\ g # c
  BY <1>1, <1>2, <1>3, RemovePop, Zenon
<1>5. c \in Clients /\ p # c
  BY <1>1, <1>4, InvParts, Zenon
<1> HIDE DEF c
<1>6. /\ Answer("ok", Nobody) \in Answers /\ Answer("ok", Nobody) # Unset
      /\ Answer("ok", p) \in Answers /\ Answer("ok", p) # Unset
  BY AnswerIs, Zenon
<1>7. /\ outcome' \in [Clients -> Answers]
      /\ outcome'[p] = Answer("ok", Nobody)
      /\ outcome'[c] = Answer("ok", p)
      /\ \A g \in Clients : g # p /\ g # c => outcome'[g] = outcome[g]
  BY <1>1, <1>2, <1>5, <1>6, Zenon DEF Flags
<1>8. /\ scheduled' \in [Clients -> Nat]
      /\ scheduled'[c] = scheduled[c] + 1
      /\ \A g \in Clients : g # c => scheduled'[g] = scheduled[g]
  BY <1>1, <1>2, <1>5 DEF Flags
<1>9. Flags'
  BY <1>1, <1>2, <1>7, <1>8, Zenon DEF Flags
<1>10. ASSUME NEW g \in Clients PROVE HandleOK(g)'
  <2>1. Kept(g) /\ HandleOK(g)
    BY <1>1, <1>2, Zenon DEF Kept
  <2>2. CASE g = p
    BY <1>1, <1>4, <1>5, <1>6, <1>7, <1>8, <2>1, <2>2, Answered, Zenon
  <2>3. CASE g = c
    BY <1>4, <1>5, <1>6, <1>7, <1>8, <2>1, <2>3, Completed, Zenon
  <2>4. CASE g # p /\ g # c
    BY <1>4, <1>7, <1>8, <2>1, <2>4, Untouched, Zenon
  <2> QED
    BY <2>2, <2>3, <2>4, Zenon
<1>11. Ring' /\ (Full' <=> Full) /\ (Empty' <=> Empty)
  BY <1>1, <1>2, RingSame, Zenon
<1>12. Waits'
  <2>1. ~closed /\ Empty /\ push_awaiters = <<>>
    BY <1>1, Zenon DEF Waits
  <2>2. ~closed' /\ Empty' /\ push_awaiters' = <<>>
    BY <1>2, <1>11, <2>1
  <2> QED
    BY <2>2, Zenon DEF Waits
<1> QED
  BY <1>4, <1>9, <1>10, <1>11, <1>12, Zenon DEF Inv

(* A push or a forced push where the buffer has room. *)
LEMMA BufferStep ==
  ASSUME Inv, NEW p \in Pushers, Outside(p), pop_awaiters = <<>>, TryPushInner(p),
         UNCHANGED <<closed, alive, pending, Cap>>
  PROVE  Inv' /\ Ring' /\ ~Full
<1>1. Ring /\ Waits /\ p \in Clients
  BY InvParts, Zenon
<1>2. /\ PushInner(p) /\ Return(p, "ok")
      /\ push_awaiters' = push_awaiters /\ pop_awaiters' = pop_awaiters
      /\ pc' = pc /\ stop' = stop /\ scheduled' = scheduled
      /\ closed' = closed /\ alive' = alive /\ pending' = pending /\ Cap' = Cap
      /\ ~Full
  BY Zenon DEF TryPushInner
<1>3. Ring'
  BY <1>1, <1>2, RingPush, Zenon
<1>4. Waits'
  BY <1>1, <1>2, Zenon DEF Waits
<1>5. Inv'
  BY <1>1, <1>2, <1>3, <1>4, ReturnStep, Zenon DEF lists
<1> QED
  BY <1>2, <1>3, <1>5, Zenon

(* A call begins to wait. *)
LEMMA WaitStep ==
  ASSUME Inv, NEW h \in Clients, Outside(h), Enlist(h), Lists', Waits', Ring',
         \A g \in Clients : g \in Listed' <=> g \in Listed \/ g = h,
         UNCHANGED <<closed, alive, scheduled, pending>>
  PROVE  Inv'
<1>1. Flags /\ \A g \in Clients : HandleOK(g)
  BY InvParts, Zenon
<1>2. /\ pc' = [pc EXCEPT ![h] = "started"]
      /\ outcome' = [outcome EXCEPT ![h] = Unset]
      /\ closed' = closed /\ alive' = alive /\ scheduled' = scheduled
      /\ pending' = pending /\ stop' = stop
  BY Zenon DEF Enlist
<1>3. Unset \in Answers
  BY Zenon DEF Unset, Answer, Answers
<1>4. /\ pc' \in [Clients -> {"away", "idle", "started", "suspended"}]
      /\ outcome' \in [Clients -> Answers]
      /\ pc'[h] = "started" /\ outcome'[h] = Unset
      /\ \A g \in Clients : g # h => pc'[g] = pc[g] /\ outcome'[g] = outcome[g]
  BY <1>1, <1>2, <1>3, Zenon DEF Flags
<1>5. Flags'
  BY <1>1, <1>2, <1>4, Zenon DEF Flags
<1>6. ASSUME NEW g \in Clients PROVE HandleOK(g)'
  <2>1. /\ HandleOK(g) /\ pending'[g] = pending[g] /\ stop'[g] = stop[g]
        /\ scheduled'[g] = scheduled[g]
    BY <1>1, <1>2, Zenon
  <2>2. CASE g = h
    BY <1>4, <2>1, <2>2, Enlisted, Zenon
  <2>3. CASE g # h
    BY <1>4, <2>1, <2>3, Untouched, Zenon DEF Kept
  <2> QED
    BY <2>2, <2>3, Zenon
<1> QED
  BY <1>5, <1>6, Zenon DEF Inv

(* push() suspends. *)
LEMMA PushWaits ==
  ASSUME Inv, NEW p \in Pushers, Outside(p), ~closed, CannotPush,
         push_awaiters' = Append(push_awaiters, [item |-> p, by |-> p]), Enlist(p),
         UNCHANGED <<pop_awaiters, ring, scheduled, closed, alive, pending, Cap>>
  PROVE  Inv'
<1>1. Ring /\ Lists /\ Waits /\ p \in Clients /\ p \notin Listed
  BY InvParts, Zenon
<1>2. /\ pop_awaiters' = pop_awaiters /\ closed' = closed
      /\ pop_awaiters = <<>> /\ Full
  BY Zenon DEF CannotPush
<1>3. Lists' /\ \A g \in Clients : g \in Listed' <=> g \in Listed \/ g = p
  BY <1>1, <1>2, PushAppend, Zenon
<1>4. Ring' /\ Full'
  BY <1>1, <1>2, RingSame, Zenon
<1>5. Waits'
  BY <1>2, <1>4 DEF Waits
<1> QED
  BY <1>1, <1>3, <1>4, <1>5, WaitStep, Zenon

(* pop() suspends. *)
LEMMA PopWaits ==
  ASSUME Inv, NEW c \in Poppers, Outside(c), ~closed, CannotPop,
         pop_awaiters' = Append(pop_awaiters, c), Enlist(c),
         UNCHANGED <<push_awaiters, ring, scheduled, closed, alive, pending, Cap>>
  PROVE  Inv'
<1>1. Ring /\ Lists /\ Waits /\ c \in Clients /\ c \notin Listed
  BY InvParts, Zenon
<1>2. /\ push_awaiters' = push_awaiters /\ closed' = closed
      /\ push_awaiters = <<>> /\ Empty
  BY Zenon DEF CannotPop
<1>3. Lists' /\ \A g \in Clients : g \in Listed' <=> g \in Listed \/ g = c
  BY <1>1, <1>2, PopAppend, Zenon
<1>4. Ring' /\ Empty'
  BY <1>1, <1>2, RingSame, Zenon
<1>5. Waits'
  BY <1>2, <1>4 DEF Waits
<1> QED
  BY <1>1, <1>3, <1>4, <1>5, WaitStep, Zenon

(* A forced push leaves its item in a fake handle. *)
LEMMA Parks ==
  ASSUME Inv, NEW p \in Pushers, Outside(p), ~closed, CannotPush,
         push_awaiters' = Append(push_awaiters, [item |-> p, by |-> Nobody]),
         Return(p, "ok"),
         UNCHANGED <<pop_awaiters, ring, pc, scheduled, stop, closed, alive, pending, Cap>>
  PROVE  Inv'
<1>1. /\ Ring /\ Lists /\ Flags /\ Waits /\ p \in Clients
      /\ \A g \in Clients : HandleOK(g)
      /\ p \notin Listed /\ Nobody \notin Listed /\ Nobody \notin Clients
  BY InvParts, Zenon
<1>2. /\ pop_awaiters' = pop_awaiters /\ closed' = closed /\ alive' = alive
      /\ pc' = pc /\ scheduled' = scheduled /\ pending' = pending /\ stop' = stop
      /\ pop_awaiters = <<>> /\ Full
  BY Zenon DEF CannotPush
<1>3. Nobody \in Pushers \cup {Nobody}
  OBVIOUS
<1>4. Lists' /\ \A g \in Clients : g \in Listed' <=> g \in Listed \/ g = Nobody
  BY <1>1, <1>2, <1>3, PushAppend, Zenon
<1>5. Ring' /\ Full'
  BY <1>1, <1>2, RingSame, Zenon
<1>6. Waits'
  BY <1>2, <1>5 DEF Waits
<1>7. Answer("ok", Nobody) \in Answers /\ Answer("ok", Nobody) # Unset
  BY AnswerIs, Zenon
<1>8. /\ outcome' \in [Clients -> Answers]
      /\ outcome'[p] # Unset
      /\ \A g \in Clients : g # p => outcome'[g] = outcome[g]
  BY <1>1, <1>7, Zenon DEF Flags, Return
<1>9. Flags'
  BY <1>1, <1>2, <1>8, Zenon DEF Flags
<1>10. ASSUME NEW g \in Clients PROVE HandleOK(g)'
  <2>1. /\ Kept(g) /\ scheduled'[g] = scheduled[g] /\ HandleOK(g)
        /\ g \in Listed' <=> g \in Listed
    BY <1>1, <1>2, <1>4, Zenon DEF Kept
  <2>2. CASE g = p
    BY <1>1, <1>8, <2>1, <2>2, Answered, Zenon
  <2>3. CASE g # p
    BY <1>8, <2>1, <2>3, Untouched, Zenon
  <2> QED
    BY <2>2, <2>3, Zenon
<1> QED
  BY <1>4, <1>5, <1>6, <1>9, <1>10, Zenon DEF Inv

(* A pop takes the front, and the first waiting push gets the free place.  *)
LEMMA TakeAndPlace ==
  ASSUME Inv, NEW c \in Poppers, Outside(c), push_awaiters # <<>>, TryPopInner(c),
         UNCHANGED <<closed, alive, pending, Cap>>
  PROVE  Inv'
<1> DEFINE e == Head(push_awaiters)
<1>1. /\ Ring /\ Lists /\ Flags /\ Waits
      /\ \A g \in Clients : HandleOK(g)
      /\ \A g \in Clients : Outside(g) => g \notin Listed
      /\ c \in Clients
  BY InvParts, Zenon
<1>2. /\ push_awaiters' = Tail(push_awaiters)
      /\ outcome' = [h \in Clients |->
           IF h = c THEN Answer("ok", IF Cap = 0 THEN e.item ELSE Front)
           ELSE IF h = e.by THEN Answer("ok", Nobody)
           ELSE outcome[h]]
      /\ scheduled' = [h \in Clients |->
           scheduled[h] + IF h = e.by THEN 1 ELSE 0]
      /\ IF Cap = 0 THEN UNCHANGED ring ELSE PopAndPush(e.item)
      /\ pop_awaiters' = pop_awaiters /\ pc' = pc /\ stop' = stop
      /\ closed' = closed /\ alive' = alive /\ pending' = pending /\ Cap' = Cap
  BY Zenon DEF TryPopInner
<1>3. /\ push_awaiters' = Without(push_awaiters, 1)
      /\ 1 \in DOMAIN push_awaiters /\ e = push_awaiters[1]
  BY <1>1, <1>2, TailIsWithout, Zenon DEF Lists
<1>4. /\ Lists' /\ e \in Entry
      /\ e.by # Nobody => e.by \in Listed
      /\ \A g \in Clients : g \in Listed' <=> g \in Listed /\ g # e.by
  BY <1>1, <1>2, <1>3, RemovePush, Zenon
<1> HIDE DEF e
<1>5. e.item \in Pushers /\ e.by \in Pushers \cup {Nobody}
  BY <1>4, Zenon DEF Entry
<1>6. e.by # c /\ e.by # Nobody => e.by \in Clients
  BY <1>5, InvParts, Zenon
<1>60. c # e.by
  BY <1>1, <1>4, InvParts, Zenon
<1>7. pop_awaiters = <<>> /\ Full /\ ~closed
  BY <1>1, Zenon DEF Waits
<1>8. Ring' /\ Full' /\ (Cap # 0 => Front \in Pushers)
  <2>1. CASE Cap = 0
    BY <1>1, <1>2, <1>7, <2>1, RingSame, Zenon
  <2>2. CASE Cap # 0
    <3>1. PopAndPush(e.item)
      BY <1>2, <2>2, Zenon
    <3>2. Ring' /\ Size' = Size /\ Front \in Pushers
      BY <1>1, <1>2, <1>5, <1>7, <2>2, <3>1, RingPopPush, Zenon
    <3> QED
      BY <1>2, <1>7, <3>2, Zenon DEF Full
  <2> QED
    BY <2>1, <2>2, Zenon
<1>9. Waits'
  <2>1. pop_awaiters' = <<>> /\ ~closed'
    BY <1>2, <1>7
  <2> QED
    BY <1>8, <2>1, Zenon DEF Waits
<1>10. (IF Cap = 0 THEN e.item ELSE Front) \in Pushers \cup {Nobody}
  BY <1>5, <1>8, Zenon
<1>11. /\ Answer("ok", Nobody) \in Answers /\ Answer("ok", Nobody) # Unset
       /\ Answer("ok", IF Cap = 0 THEN e.item ELSE Front) \in Answers
       /\ Answer("ok", IF Cap = 0 THEN e.item ELSE Front) # Unset
  BY <1>10, AnswerIs, Zenon
<1>12. /\ outcome' \in [Clients -> Answers]
       /\ outcome'[c] # Unset
       /\ \A g \in Clients : g # c /\ g = e.by => outcome'[g] # Unset
       /\ \A g \in Clients : g # c /\ g # e.by => outcome'[g] = outcome[g]
  BY <1>1, <1>2, <1>11, Zenon DEF Flags
<1>13. /\ scheduled' \in [Clients -> Nat]
       /\ \A g \in Clients : g = e.by => scheduled'[g] = scheduled[g] + 1
       /\ \A g \in Clients : g # e.by => scheduled'[g] = scheduled[g]
  BY <1>1, <1>2 DEF Flags
<1>14. Flags'
  BY <1>1, <1>2, <1>12, <1>13, Zenon DEF Flags
<1>15. ASSUME NEW g \in Clients PROVE HandleOK(g)'
  <2>1. Kept(g) /\ HandleOK(g) /\ g # Nobody
    BY <1>1, <1>2, InvParts, Zenon DEF Kept
  <2>2. CASE g = c
    BY <1>1, <1>4, <1>12, <1>13, <1>60, <2>1, <2>2, Answered, Zenon
  <2>3. CASE g # c /\ g = e.by
    BY <1>4, <1>12, <1>13, <2>1, <2>3, Completed, Zenon
  <2>4. CASE g # c /\ g # e.by
    BY <1>4, <1>12, <1>13, <2>1, <2>4, Untouched, Zenon
  <2> QED
    BY <2>2, <2>3, <2>4, Zenon
<1> QED
  BY <1>4, <1>8, <1>9, <1>14, <1>15, Zenon DEF Inv

(* A pop takes the front of the buffer, and no push waits. *)
LEMMA TakeStep ==
  ASSUME Inv, NEW c \in Poppers, Outside(c), push_awaiters = <<>>, TryPopInner(c),
         UNCHANGED <<closed, alive, pending, Cap>>
  PROVE  Inv'
<1>1. /\ Ring /\ Lists /\ Flags /\ Waits
      /\ \A g \in Clients : HandleOK(g)
      /\ \A g \in Clients : Outside(g) => g \notin Listed
      /\ c \in Clients
  BY InvParts, Zenon
<1>2. /\ PopInner /\ ~Empty
      /\ outcome' = [outcome EXCEPT ![c] = Answer("ok", Front)]
      /\ push_awaiters' = push_awaiters /\ scheduled' = scheduled
      /\ pop_awaiters' = pop_awaiters /\ pc' = pc /\ stop' = stop
      /\ closed' = closed /\ alive' = alive /\ pending' = pending /\ Cap' = Cap
  BY Zenon DEF TryPopInner
<1>3. Ring' /\ Front \in Pushers
  BY <1>1, <1>2, RingPop, Zenon
<1>4. Waits'
  BY <1>1, <1>2, Zenon DEF Waits
<1>5. Lists' /\ Listed' = Listed
  BY <1>1, <1>2, Zenon DEF Lists, Listed
<1>6. Answer("ok", Front) \in Answers /\ Answer("ok", Front) # Unset
  BY <1>3, AnswerIs, Zenon
<1>7. /\ outcome' \in [Clients -> Answers]
      /\ outcome'[c] # Unset
      /\ \A g \in Clients : g # c => outcome'[g] = outcome[g]
  BY <1>1, <1>2, <1>6, Zenon DEF Flags
<1>8. Flags'
  BY <1>1, <1>2, <1>7, Zenon DEF Flags
<1>9. ASSUME NEW g \in Clients PROVE HandleOK(g)'
  <2>1. Kept(g) /\ scheduled'[g] = scheduled[g] /\ HandleOK(g)
    BY <1>1, <1>2, Zenon DEF Kept
  <2>2. CASE g = c
    BY <1>1, <1>5, <1>7, <2>1, <2>2, Answered, Zenon
  <2>3. CASE g # c
    BY <1>5, <1>7, <2>1, <2>3, Untouched, Zenon
  <2> QED
    BY <2>2, <2>3, Zenon
<1> QED
  BY <1>3, <1>4, <1>5, <1>8, <1>9, Zenon DEF Inv

(* push_close_inner_. *)
LEMMA CloseStep ==
  ASSUME Inv, PushCloseInner, Ring', UNCHANGED <<pc, pending, stop>>, alive' \in BOOLEAN
  PROVE  Inv'
<1>1. Flags /\ \A g \in Clients : HandleOK(g)
  BY InvParts, Zenon
<1>2. /\ closed' = TRUE /\ push_awaiters' = <<>> /\ pop_awaiters' = <<>>
      /\ outcome' = [h \in Clients |->
           IF h \in Listed THEN Answer("EPIPE", Nobody) ELSE outcome[h]]
      /\ scheduled' = [h \in Clients |->
           scheduled[h] + IF h \in Listed THEN 1 ELSE 0]
      /\ pc' = pc /\ pending' = pending /\ stop' = stop
  BY Zenon DEF PushCloseInner
<1>3. Lists' /\ \A g : g \notin Listed'
  BY <1>2 DEF Lists, Listed
<1>4. Waits'
  BY <1>2, Zenon DEF Waits
<1>5. Answer("EPIPE", Nobody) \in Answers /\ Answer("EPIPE", Nobody) # Unset
  BY AnswerIs, Zenon
<1>6. /\ outcome' \in [Clients -> Answers]
      /\ \A g \in Clients : g \in Listed => outcome'[g] # Unset
      /\ \A g \in Clients : g \notin Listed => outcome'[g] = outcome[g]
  BY <1>1, <1>2, <1>5, Zenon DEF Flags
<1>7. /\ scheduled' \in [Clients -> Nat]
      /\ \A g \in Clients : g \in Listed => scheduled'[g] = scheduled[g] + 1
      /\ \A g \in Clients : g \notin Listed => scheduled'[g] = scheduled[g]
  BY <1>1, <1>2 DEF Flags
<1>8. Flags'
  BY <1>1, <1>2, <1>6, <1>7, Zenon DEF Flags
<1>9. ASSUME NEW g \in Clients PROVE HandleOK(g)'
  <2>1. Kept(g) /\ HandleOK(g)
    BY <1>1, <1>2, Zenon DEF Kept
  <2>2. CASE g \in Listed
    BY <1>3, <1>6, <1>7, <2>1, <2>2, Completed, Zenon
  <2>3. CASE g \notin Listed
    BY <1>3, <1>6, <1>7, <2>1, <2>3, Untouched, Zenon
  <2> QED
    BY <2>2, <2>3, Zenon
<1> QED
  BY <1>3, <1>4, <1>8, <1>9, Zenon DEF Inv

(* A step that changes nothing but the ring, and whether the channel is    *)
(* alive.                                                                  *)
LEMMA QuietStep ==
  ASSUME Inv, Ring', Waits', alive' \in BOOLEAN,
         UNCHANGED <<lists, closed, pc, outcome, scheduled, pending, stop>>
  PROVE  Inv'
<1>1. Lists /\ Flags /\ \A g \in Clients : HandleOK(g)
  BY InvParts, Zenon
<1>2. /\ push_awaiters' = push_awaiters /\ pop_awaiters' = pop_awaiters
      /\ closed' = closed /\ outcome' = outcome
      /\ pc' = pc /\ scheduled' = scheduled /\ pending' = pending /\ stop' = stop
  BY Zenon DEF lists
<1>3. Lists' /\ Listed' = Listed
  BY <1>1, <1>2, Zenon DEF Lists, Listed
<1>4. Flags'
  BY <1>1, <1>2, Zenon DEF Flags
<1>5. ASSUME NEW g \in Clients PROVE HandleOK(g)'
  BY <1>1, <1>2, <1>3, Untouched, Zenon DEF Kept
<1> QED
  BY <1>3, <1>4, <1>5, Zenon DEF Inv

(* push_close() wakes everybody once. *)
LEMMA PushCloseStep ==
  ASSUME Inv, PushClose, Cap' = Cap
  PROVE  Inv'
<1>1. /\ Ring /\ Lists /\ Flags /\ Waits
  BY InvParts, Zenon
<1>2. UNCHANGED <<ring, Cap>> /\ alive' = alive /\ UNCHANGED <<pc, pending, stop>>
  BY Zenon DEF PushClose
<1>3. Ring' /\ (Full' <=> Full) /\ (Empty' <=> Empty)
  BY <1>1, <1>2, RingSame, Zenon
<1>4. alive' \in BOOLEAN
  BY <1>1, <1>2, Zenon DEF Flags
<1>5. CASE ~closed
  <2>1. PushCloseInner
    BY <1>5, Zenon DEF PushClose
  <2> QED
    BY <1>2, <1>3, <1>4, <2>1, CloseStep, Zenon
<1>6. CASE closed
  <2>1. UNCHANGED <<closed, lists, outcome, scheduled>>
    BY <1>6, Zenon DEF PushClose
  <2>2. push_awaiters' = push_awaiters /\ pop_awaiters' = pop_awaiters
    BY <2>1, Zenon DEF lists
  <2>3. push_awaiters' = <<>> /\ pop_awaiters' = <<>>
    BY <1>1, <1>6, <2>2, Zenon DEF Waits
  <2>4. Waits'
    BY <2>3, Zenon DEF Waits
  <2> QED
    BY <1>2, <1>3, <1>4, <2>1, <2>4, QuietStep, Zenon
<1> QED
  BY <1>5, <1>6, Zenon

(* The destructor closes and destroys the items left. *)
LEMMA DestructStep ==
  ASSUME Inv, Destruct, Cap' = Cap
  PROVE  Inv'
<1>1. /\ Ring /\ Lists /\ Flags /\ Waits
  BY InvParts, Zenon
<1>2. /\ alive' = FALSE /\ pc' = pc /\ pending' = pending /\ stop' = stop
      /\ head' = tail /\ tail' = tail
      /\ slots' = [i \in DOMAIN slots |->
           IF \E k \in 0..Size - 1 : i = Slot((head + k) % 2^SizeBits)
             THEN Nobody ELSE slots[i]]
  BY Zenon DEF Destruct
<1>3. Ring' /\ Size' = 0
  BY <1>1, <1>2, RingClear, Zenon
<1>4. alive' \in BOOLEAN
  BY <1>2, Zenon
<1>5. CASE ~closed
  <2>1. PushCloseInner
    BY <1>5, Zenon DEF Destruct
  <2> QED
    BY <1>2, <1>3, <1>4, <2>1, CloseStep, Zenon
<1>6. CASE closed
  <2>1. UNCHANGED <<closed, lists, outcome, scheduled>>
    BY <1>6, Zenon DEF Destruct
  <2>2. push_awaiters' = push_awaiters /\ pop_awaiters' = pop_awaiters
    BY <2>1, Zenon DEF lists
  <2>3. push_awaiters' = <<>> /\ pop_awaiters' = <<>>
    BY <1>1, <1>6, <2>2, Zenon DEF Waits
  <2>4. Waits'
    BY <2>3, Zenon DEF Waits
  <2> QED
    BY <1>2, <1>3, <1>4, <2>1, <2>4, QuietStep, Zenon
<1> QED
  BY <1>5, <1>6, Zenon

(* A handle is taken out of the list it is in, by its own stop request. *)
LEMMA UnlistWaits ==
  ASSUME Inv, NEW h \in Clients, Unlist(h), UNCHANGED <<ring, closed, Cap>>
  PROVE  Lists' /\ Ring' /\ Waits' /\ h \in Listed
         /\ \A g \in Clients : g \in Listed' <=> g \in Listed /\ g # h
<1>1. Ring /\ Lists /\ Waits
  BY InvParts, Zenon
<1>2. /\ Lists' /\ h \in Listed
      /\ \A g \in Clients : g \in Listed' <=> g \in Listed /\ g # h
  BY <1>1, Unlisting, Zenon
<1>3. Ring' /\ (Full' <=> Full) /\ (Empty' <=> Empty)
  BY <1>1, RingSame, Zenon
<1>4. closed' = closed
  BY Zenon
<1>5. Waits'
  <2>1. CASE pop_awaiters' = pop_awaiters /\ \E i \in DOMAIN push_awaiters : TRUE
    <3>1. push_awaiters # <<>>
      BY <2>1
    <3>2. Full /\ ~closed /\ pop_awaiters = <<>>
      BY <1>1, <3>1, Zenon DEF Waits
    <3>3. Full' /\ ~closed' /\ pop_awaiters' = <<>>
      BY <1>3, <1>4, <2>1, <3>2
    <3> QED
      BY <3>3, Zenon DEF Waits
  <2>2. CASE push_awaiters' = push_awaiters /\ \E i \in DOMAIN pop_awaiters : TRUE
    <3>1. pop_awaiters # <<>>
      BY <2>2
    <3>2. Empty /\ ~closed /\ push_awaiters = <<>>
      BY <1>1, <3>1, Zenon DEF Waits
    <3>3. Empty' /\ ~closed' /\ push_awaiters' = <<>>
      BY <1>3, <1>4, <2>2, <3>2
    <3> QED
      BY <3>3, Zenon DEF Waits
  <2> QED
    BY <2>1, <2>2, Zenon DEF Unlist
<1> QED
  BY <1>2, <1>3, <1>5, Zenon

(* A step of one client, or of one that cancels its operation. *)
LEMMA OneHandle ==
  ASSUME Inv, NEW h \in Clients, HandleOK(h)', Flags', Lists', Ring', Waits',
         \A g \in Clients : g # h =>
           /\ Kept(g) /\ outcome'[g] = outcome[g] /\ scheduled'[g] = scheduled[g]
           /\ g \in Listed' <=> g \in Listed
  PROVE  Inv'
<1>1. \A g \in Clients : HandleOK(g)
  BY InvParts, Zenon
<1>2. ASSUME NEW g \in Clients PROVE HandleOK(g)'
  BY <1>1, Untouched, Zenon
<1> QED
  BY <1>2, Zenon DEF Inv

(* The lists are as they were. *)
LEMMA ListsSame ==
  ASSUME Inv, UNCHANGED <<lists, ring, closed, Cap>>
  PROVE  Lists' /\ Ring' /\ Waits' /\ Listed' = Listed
<1>1. Ring /\ Lists /\ Waits
  BY InvParts, Zenon
<1>2. push_awaiters' = push_awaiters /\ pop_awaiters' = pop_awaiters /\ closed' = closed
  BY Zenon DEF lists
<1>3. Ring' /\ (Full' <=> Full) /\ (Empty' <=> Empty)
  BY <1>1, RingSame, Zenon
<1>4. Lists' /\ Listed' = Listed
  BY <1>1, <1>2, Zenon DEF Lists, Listed
<1>5. Waits'
  BY <1>1, <1>2, <1>3 DEF Waits
<1> QED
  BY <1>3, <1>4, <1>5, Zenon

(* What an operation's own cancellation writes. *)
LEMMA CancelledIs ==
  ASSUME Flags, NEW h \in Clients, Cancelled(h)
  PROVE  /\ outcome' \in [Clients -> Answers]
         /\ scheduled' \in [Clients -> Nat]
         /\ outcome'[h] # Unset
         /\ scheduled'[h] = scheduled[h] + 1
         /\ \A g \in Clients :
              g # h => outcome'[g] = outcome[g] /\ scheduled'[g] = scheduled[g]
<1>1. Answer("ECANCELED", Nobody) \in Answers /\ Answer("ECANCELED", Nobody) # Unset
  BY AnswerIs, Zenon
<1> QED
  BY <1>1 DEF Flags, Cancelled

(* await_suspend() makes the operation pending and registers the callback  *)
(* of a stop.                                                              *)
LEMMA RegisterStep ==
  ASSUME Inv, NEW h \in Clients, Register(h), Cap' = Cap
  PROVE  Inv'
<1>1. Flags /\ HandleOK(h)
  BY InvParts, Zenon
<1>2. /\ pc[h] = "started"
      /\ pc' = [pc EXCEPT ![h] = "suspended"]
      /\ pending' = [pending EXCEPT ![h] = @ + 1]
      /\ stop' = [stop EXCEPT ![h] = IF @ = "requested" THEN "over" ELSE @]
      /\ UNCHANGED <<ring, closed, Cap>> /\ closed' = closed /\ alive' = alive
  BY Zenon DEF Register
<1>3. /\ pc' \in [Clients -> {"away", "idle", "started", "suspended"}]
      /\ pending' \in [Clients -> Nat]
      /\ stop' \in [Clients -> {"no", "requested", "callback", "removed", "over"}]
      /\ pc'[h] = "suspended" /\ pending'[h] = pending[h] + 1
      /\ stop'[h] = IF stop[h] = "requested" THEN "over" ELSE stop[h]
      /\ \A g \in Clients : g # h => pc'[g] = pc[g] /\ pending'[g] = pending[g]
                                        /\ stop'[g] = stop[g]
  BY <1>1, <1>2 DEF Flags
<1>4. CASE stop[h] = "requested" /\ h \in Listed
  <2>1. Unlist(h) /\ Cancelled(h)
    BY <1>4, Zenon DEF Register
  <2>2. /\ Lists' /\ Ring' /\ Waits'
        /\ \A g \in Clients : g \in Listed' <=> g \in Listed /\ g # h
    BY <1>2, <2>1, UnlistWaits, Zenon
  <2>3. /\ outcome' \in [Clients -> Answers]
        /\ scheduled' \in [Clients -> Nat]
        /\ outcome'[h] # Unset
        /\ scheduled'[h] = scheduled[h] + 1
        /\ \A g \in Clients :
             g # h => outcome'[g] = outcome[g] /\ scheduled'[g] = scheduled[g]
    BY <1>1, <2>1, CancelledIs, Zenon
  <2>4. Flags'
    BY <1>1, <1>2, <1>3, <2>3, Zenon DEF Flags
  <2>5. HandleOK(h)'
    <3>1. h \notin Listed'
      BY <2>2, Zenon
    <3> QED
      BY <1>1, <1>2, <1>3, <1>4, <2>3, <3>1 DEF HandleOK, Outside
  <2> QED
    BY <1>3, <2>2, <2>3, <2>4, <2>5, OneHandle, Zenon DEF Kept
<1>5. CASE ~(stop[h] = "requested" /\ h \in Listed)
  <2>1. UNCHANGED <<lists, outcome, scheduled>>
    BY <1>5, Zenon DEF Register
  <2>2. Lists' /\ Ring' /\ Waits' /\ Listed' = Listed
    BY <1>2, <2>1, ListsSame, Zenon
  <2>3. outcome' = outcome /\ scheduled' = scheduled
    BY <2>1, Zenon
  <2>4. Flags'
    BY <1>1, <1>2, <1>3, <2>3, Zenon DEF Flags
  <2>5. HandleOK(h)'
    BY <1>1, <1>2, <1>3, <1>5, <2>2, <2>3 DEF HandleOK, Outside
  <2> QED
    BY <1>3, <2>2, <2>3, <2>4, <2>5, OneHandle, Zenon DEF Kept
<1> QED
  BY <1>4, <1>5, Zenon

(* A stop is requested; its callback runs, or there is none yet. *)
LEMMA RequestStopStep ==
  ASSUME Inv, NEW h \in Clients, RequestStop(h), Cap' = Cap
  PROVE  Inv'
<1>1. Flags /\ HandleOK(h)
  BY InvParts, Zenon
<1>2. /\ ~Outside(h) /\ stop[h] = "no"
      /\ stop' = [stop EXCEPT ![h] = IF pc[h] = "suspended" THEN "callback" ELSE "requested"]
      /\ UNCHANGED <<lists, ring, closed, Cap>>
      /\ closed' = closed /\ alive' = alive /\ pc' = pc /\ outcome' = outcome
      /\ scheduled' = scheduled /\ pending' = pending
  BY Zenon DEF RequestStop
<1>3. /\ stop' \in [Clients -> {"no", "requested", "callback", "removed", "over"}]
      /\ stop'[h] = IF pc[h] = "suspended" THEN "callback" ELSE "requested"
      /\ \A g \in Clients : g # h => stop'[g] = stop[g]
  BY <1>1, <1>2, Zenon DEF Flags
<1>4. Lists' /\ Ring' /\ Waits' /\ Listed' = Listed
  BY <1>2, ListsSame, Zenon
<1>5. Flags'
  BY <1>1, <1>2, <1>3, Zenon DEF Flags
<1>6. HandleOK(h)'
  BY <1>1, <1>2, <1>3, <1>4, Zenon DEF HandleOK, Outside
<1> QED
  BY <1>2, <1>3, <1>4, <1>5, <1>6, OneHandle, Zenon DEF Kept

(* cancel() takes the handle out of its list, unless somebody has          *)
(* completed it,                                                           *)
LEMMA CancelLockStep ==
  ASSUME Inv, NEW h \in Clients, CancelLock(h), Cap' = Cap
  PROVE  Inv'
<1>1. Flags /\ HandleOK(h)
  BY InvParts, Zenon
<1>2. /\ stop[h] = "callback"
      /\ stop' = [stop EXCEPT ![h] = IF h \in Listed THEN "removed" ELSE "over"]
      /\ UNCHANGED <<ring, closed, Cap>>
      /\ closed' = closed /\ alive' = alive /\ pc' = pc /\ outcome' = outcome
      /\ scheduled' = scheduled /\ pending' = pending
  BY Zenon DEF CancelLock
<1>3. /\ stop' \in [Clients -> {"no", "requested", "callback", "removed", "over"}]
      /\ stop'[h] = IF h \in Listed THEN "removed" ELSE "over"
      /\ \A g \in Clients : g # h => stop'[g] = stop[g]
  BY <1>1, <1>2, Zenon DEF Flags
<1>4. Flags'
  BY <1>1, <1>2, <1>3, Zenon DEF Flags
<1>5. CASE h \in Listed
  <2>1. Unlist(h)
    BY <1>5, Zenon DEF CancelLock
  <2>2. /\ Lists' /\ Ring' /\ Waits'
        /\ \A g \in Clients : g \in Listed' <=> g \in Listed /\ g # h
    BY <1>2, <2>1, UnlistWaits, Zenon
  <2>3. HandleOK(h)'
    <3>1. h \notin Listed'
      BY <2>2, Zenon
    <3> QED
      BY <1>1, <1>2, <1>3, <1>5, <3>1, Zenon DEF HandleOK, Outside
  <2> QED
    BY <1>2, <1>3, <1>4, <2>2, <2>3, OneHandle, Zenon DEF Kept
<1>6. CASE h \notin Listed
  <2>1. UNCHANGED lists
    BY <1>6, Zenon DEF CancelLock
  <2>2. Lists' /\ Ring' /\ Waits' /\ Listed' = Listed
    BY <1>2, <2>1, ListsSame, Zenon
  <2>3. HandleOK(h)'
    BY <1>1, <1>2, <1>3, <1>6, <2>2, Zenon DEF HandleOK, Outside
  <2> QED
    BY <1>2, <1>3, <1>4, <2>2, <2>3, OneHandle, Zenon DEF Kept
<1> QED
  BY <1>5, <1>6, Zenon

(* and then resumes it with ECANCELED. *)
LEMMA CancelScheduleStep ==
  ASSUME Inv, NEW h \in Clients, CancelSchedule(h), Cap' = Cap
  PROVE  Inv'
<1>1. Flags /\ HandleOK(h)
  BY InvParts, Zenon
<1>2. /\ stop[h] = "removed" /\ Cancelled(h)
      /\ stop' = [stop EXCEPT ![h] = "over"]
      /\ UNCHANGED <<lists, ring, closed, Cap>>
      /\ closed' = closed /\ alive' = alive /\ pc' = pc /\ pending' = pending
  BY Zenon DEF CancelSchedule
<1>3. /\ outcome' \in [Clients -> Answers]
      /\ scheduled' \in [Clients -> Nat]
      /\ outcome'[h] # Unset
      /\ scheduled'[h] = scheduled[h] + 1
      /\ \A g \in Clients :
           g # h => outcome'[g] = outcome[g] /\ scheduled'[g] = scheduled[g]
  BY <1>1, <1>2, CancelledIs, Zenon
<1>4. /\ stop' \in [Clients -> {"no", "requested", "callback", "removed", "over"}]
      /\ stop'[h] = "over"
      /\ \A g \in Clients : g # h => stop'[g] = stop[g]
  BY <1>1, <1>2, Zenon DEF Flags
<1>5. Lists' /\ Ring' /\ Waits' /\ Listed' = Listed
  BY <1>2, ListsSame, Zenon
<1>6. Flags'
  BY <1>1, <1>2, <1>3, <1>4, Zenon DEF Flags
<1>7. HandleOK(h)'
  BY <1>1, <1>2, <1>3, <1>4, <1>5 DEF HandleOK, Outside
<1> QED
  BY <1>2, <1>3, <1>4, <1>5, <1>6, <1>7, OneHandle, Zenon DEF Kept

(* The runtime resumes the coroutine. *)
LEMMA InvokeStep ==
  ASSUME Inv, NEW h \in Clients, Invoke(h), Cap' = Cap
  PROVE  Inv'
<1>1. Flags /\ HandleOK(h)
  BY InvParts, Zenon
<1>2. /\ pc[h] = "suspended" /\ scheduled[h] > 0
      /\ stop[h] \notin {"callback", "removed"}
      /\ pc' = [pc EXCEPT ![h] = "idle"]
      /\ scheduled' = [scheduled EXCEPT ![h] = @ - 1]
      /\ pending' = [pending EXCEPT ![h] = @ - 1]
      /\ stop' = [stop EXCEPT ![h] = "no"]
      /\ UNCHANGED <<lists, ring, closed, Cap>>
      /\ closed' = closed /\ alive' = alive /\ outcome' = outcome
  BY Zenon DEF Invoke
<1>3. scheduled[h] \in Nat /\ pending[h] = 1
  BY <1>1, <1>2, Zenon DEF Flags, HandleOK
<1>4. /\ pc' \in [Clients -> {"away", "idle", "started", "suspended"}]
      /\ scheduled' \in [Clients -> Nat]
      /\ pending' \in [Clients -> Nat]
      /\ stop' \in [Clients -> {"no", "requested", "callback", "removed", "over"}]
      /\ pc'[h] = "idle" /\ scheduled'[h] = scheduled[h] - 1
      /\ pending'[h] = pending[h] - 1 /\ stop'[h] = "no"
      /\ \A g \in Clients : g # h => Kept(g) /\ scheduled'[g] = scheduled[g]
  BY <1>1, <1>2, <1>3 DEF Flags, Kept
<1>5. Lists' /\ Ring' /\ Waits' /\ Listed' = Listed
  BY <1>2, ListsSame, Zenon
<1>6. Flags'
  BY <1>1, <1>2, <1>4, Zenon DEF Flags
<1>7. HandleOK(h)'
  BY <1>1, <1>2, <1>3, <1>4, <1>5 DEF HandleOK, Outside
<1> QED
  BY <1>2, <1>4, <1>5, <1>6, <1>7, OneHandle, Zenon

(* try_push_inner_ where it succeeds. *)
LEMMA TryPushStep ==
  ASSUME Inv, NEW p \in Pushers, Outside(p), TryPushInner(p),
         UNCHANGED <<closed, alive, pending, Cap>>
  PROVE  Inv'
  BY HandOver, BufferStep, Zenon

(* try_pop_inner_ where it succeeds. *)
LEMMA TryPopStep ==
  ASSUME Inv, NEW c \in Poppers, Outside(c), TryPopInner(c),
         UNCHANGED <<closed, alive, pending, Cap>>
  PROVE  Inv'
  BY TakeAndPlace, TakeStep, Zenon

(* A call that finds nothing to do. *)
LEMMA RefuseStep ==
  ASSUME Inv, NEW h \in Clients, Outside(h),
         NEW code \in {"EPIPE", "EAGAIN"}, Return(h, code),
         UNCHANGED <<lists, ring, closed, alive, pc, scheduled, pending, stop, Cap>>
  PROVE  Inv'
<1>1. Ring' /\ Waits'
  BY ListsSame, Zenon
<1>2. code \in {"ok", "EPIPE", "EAGAIN"}
  OBVIOUS
<1> QED
  BY <1>1, <1>2, ReturnStep, Zenon

(* Every step keeps the invariant. *)
LEMMA Inductive ==
  ASSUME Inv, [Next]_vars
  PROVE  Inv'
<1>0. /\ \A p \in Pushers : p \in Clients
      /\ \A c \in Poppers : c \in Clients
      /\ \A h \in Clients : Idle(h) => Outside(h)
  BY Zenon DEF Clients, Idle, Outside
<1>1. ASSUME NEW p \in Pushers, Push(p), Cap' = Cap PROVE Inv'
  <2>1. Outside(p) /\ p \in Clients /\ UNCHANGED <<closed, alive, pending, Cap>>
    BY <1>0, <1>1, Zenon DEF Push
  <2>2. CASE Return(p, "EPIPE") /\ UNCHANGED <<lists, ring, pc, scheduled, stop>>
    BY <2>1, <2>2, RefuseStep, Zenon
  <2>3. CASE TryPushInner(p)
    BY <2>1, <2>3, TryPushStep, Zenon
  <2>4. CASE /\ ~closed /\ CannotPush
             /\ push_awaiters' = Append(push_awaiters, [item |-> p, by |-> p])
             /\ Enlist(p)
             /\ UNCHANGED <<pop_awaiters, ring, scheduled>>
    BY <2>1, <2>4, PushWaits, Zenon
  <2> QED
    BY <1>1, <2>2, <2>3, <2>4, Zenon DEF Push
<1>2. ASSUME NEW p \in Pushers, TryPush(p), Cap' = Cap PROVE Inv'
  <2>1. Outside(p) /\ p \in Clients /\ UNCHANGED <<closed, alive, pending, Cap>>
    BY <1>0, <1>2, Zenon DEF TryPush
  <2>2. CASE Return(p, "EPIPE") /\ UNCHANGED <<lists, ring, pc, scheduled, stop>>
    BY <2>1, <2>2, RefuseStep, Zenon
  <2>3. CASE Return(p, "EAGAIN") /\ UNCHANGED <<lists, ring, pc, scheduled, stop>>
    BY <2>1, <2>3, RefuseStep, Zenon
  <2>4. CASE TryPushInner(p)
    BY <2>1, <2>4, TryPushStep, Zenon
  <2> QED
    BY <1>2, <2>2, <2>3, <2>4, Zenon DEF TryPush
<1>3. ASSUME NEW p \in Pushers, ForcePush(p), Cap' = Cap PROVE Inv'
  <2>1. Outside(p) /\ p \in Clients /\ ~closed /\ UNCHANGED <<closed, alive, pending, Cap>>
    BY <1>0, <1>3, Zenon DEF ForcePush
  <2>2. CASE TryPushInner(p)
    BY <2>1, <2>2, TryPushStep, Zenon
  <2>3. CASE /\ CannotPush
             /\ push_awaiters' = Append(push_awaiters, [item |-> p, by |-> Nobody])
             /\ Return(p, "ok")
             /\ UNCHANGED <<pop_awaiters, ring, pc, scheduled, stop>>
    BY <2>1, <2>3, Parks, Zenon
  <2> QED
    BY <1>3, <2>2, <2>3, Zenon DEF ForcePush
<1>4. ASSUME NEW c \in Poppers, Pop(c), Cap' = Cap PROVE Inv'
  <2>1. Outside(c) /\ c \in Clients /\ UNCHANGED <<closed, alive, pending, Cap>>
    BY <1>0, <1>4, Zenon DEF Pop
  <2>2. CASE Return(c, "EPIPE") /\ UNCHANGED <<lists, ring, pc, scheduled, stop>>
    BY <2>1, <2>2, RefuseStep, Zenon
  <2>3. CASE TryPopInner(c)
    BY <2>1, <2>3, TryPopStep, Zenon
  <2>4. CASE /\ CannotPop /\ ~closed
             /\ pop_awaiters' = Append(pop_awaiters, c)
             /\ Enlist(c)
             /\ UNCHANGED <<push_awaiters, ring, scheduled>>
    BY <2>1, <2>4, PopWaits, Zenon
  <2> QED
    BY <1>4, <2>2, <2>3, <2>4, Zenon DEF Pop
<1>5. ASSUME NEW c \in Poppers, TryPop(c), Cap' = Cap PROVE Inv'
  <2>1. Outside(c) /\ c \in Clients /\ UNCHANGED <<closed, alive, pending, Cap>>
    BY <1>0, <1>5, Zenon DEF TryPop
  <2>2. CASE TryPopInner(c)
    BY <2>1, <2>2, TryPopStep, Zenon
  <2>3. CASE /\ Return(c, IF closed THEN "EPIPE" ELSE "EAGAIN")
             /\ UNCHANGED <<lists, ring, pc, scheduled, stop>>
    <3>1. (IF closed THEN "EPIPE" ELSE "EAGAIN") \in {"EPIPE", "EAGAIN"}
      OBVIOUS
    <3> QED
      BY <2>1, <2>3, <3>1, RefuseStep, Zenon
  <2> QED
    BY <1>5, <2>2, <2>3, Zenon DEF TryPop
<1>6. ASSUME NEW h \in Clients, Progress(h) \/ RequestStop(h), Cap' = Cap PROVE Inv'
  BY <1>6, RegisterStep, CancelLockStep, CancelScheduleStep, InvokeStep,
     RequestStopStep, Zenon DEF Progress
<1>7. CASE PushClose /\ Cap' = Cap
  BY <1>7, PushCloseStep, Zenon
<1>8. CASE Destruct /\ Cap' = Cap
  BY <1>8, DestructStep, Zenon
<1>9. CASE UNCHANGED vars
  <2>1. /\ UNCHANGED <<lists, ring, closed, Cap>> /\ alive' = alive
        /\ UNCHANGED <<lists, closed, pc, outcome, scheduled, pending, stop>>
    BY <1>9, Zenon DEF vars
  <2>2. alive' \in BOOLEAN
    BY <2>1, InvParts, Zenon DEF Flags
  <2> QED
    BY <2>1, <2>2, ListsSame, QuietStep, Zenon
<1> QED
  BY <1>1, <1>2, <1>3, <1>4, <1>5, <1>6, <1>7, <1>8, <1>9, Zenon DEF Next

(* A new channel satisfies the invariant. *)
LEMMA Initial ==
  ASSUME Init
  PROVE  Inv
<1>1. PICK s \in Setups :
        /\ Cap = CapOf(s[1])
        /\ pc = [h \in Clients |-> IF h \in s[2] THEN "idle" ELSE "away"]
  BY Zenon DEF Init
<1>2. CapOK
  BY <1>1, CapAssumption, Zenon DEF CapOK
<1>3. /\ push_awaiters = <<>> /\ pop_awaiters = <<>> /\ head = 0 /\ tail = 0
      /\ slots = [i \in 0..Cap - 1 |-> Nobody] /\ closed = FALSE /\ alive = TRUE
      /\ outcome = [h \in Clients |-> Answer("none", Nobody)]
      /\ scheduled = [h \in Clients |-> 0]
      /\ pending = [h \in Clients |-> 0]
      /\ stop = [h \in Clients |-> "no"]
  BY Zenon DEF Init
<1>4. Size = 0
  <2>1. Limit \in Nat \ {0} /\ Size = (0 - 0) % Limit
    BY <1>3, LimitIsNat, Zenon DEF Size, Limit
  <2>2. 0 - 0 = 0
    OBVIOUS
  <2> QED
    BY <2>1, <2>2, ModZero, Zenon
<1>5. Ring
  <2>1. 0 \in 0..Limit - 1 /\ Cap \in Nat
    BY <1>2, LimitIsNat DEF CapOK
  <2>2. SlotsConstructed
    BY <1>3, <1>4, <2>1 DEF SlotsConstructed
  <2>3. slots \in [0..Cap - 1 -> Pushers \cup {Nobody}]
    BY <1>3, Zenon
  <2> QED
    BY <1>2, <1>3, <2>1, <2>2, <2>3, Zenon DEF Ring
<1>6. Lists /\ \A h : h \notin Listed
  BY <1>3 DEF Lists, Listed
<1>7. Waits
  BY <1>3, Zenon DEF Waits
<1>8. Answer("none", Nobody) \in Answers /\ Answer("none", Nobody) # Unset
  BY AnswerIs, Zenon
<1>9. Flags
  BY <1>1, <1>3, <1>8, Zenon DEF Flags
<1>10. ASSUME NEW h \in Clients PROVE HandleOK(h)
  BY <1>1, <1>3, <1>6, <1>8, Zenon DEF HandleOK, Outside
<1> QED
  BY <1>5, <1>6, <1>7, <1>9, <1>10, Zenon DEF Inv

(* In every behaviour a suspended push or pop is in exactly one place: a   *)
(* wait list, the hands of a canceller or its runtime's queue; its stop    *)
(* callback never outlives it, and its result is set when it is resumed.   *)
THEOREM OnePlace == Spec => []WaiterInOnePlace
<1>1. Init => Inv
  BY Initial, Zenon
<1>2. Inv /\ [Next]_vars => Inv'
  BY Inductive, Zenon
<1>3. Inv => WaiterInOnePlace
  BY InvMeans, Zenon
<1> QED
  BY <1>1, <1>2, <1>3, PTL DEF Spec

(* The asserts of channel.hpp hold for every capacity, every width of      *)
(* size_t and any number of clients: nobody waits without a reason, and    *)
(* exactly the slots between head_ and tail_ hold an item.                 *)
THEOREM Justified == Spec => []WaitersJustified
<1>1. Init => Inv
  BY Initial, Zenon
<1>2. Inv /\ [Next]_vars => Inv'
  BY Inductive, Zenon
<1>3. Inv => WaitersJustified
  BY InvMeans, Zenon
<1> QED
  BY <1>1, <1>2, <1>3, PTL DEF Spec
=============================================================================
