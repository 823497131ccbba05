----------------------------- MODULE FutexProofs -----------------------------
(***************************************************************************)
(* condy::Futex loses and duplicates no waiter and is the futex of         *)
(* FutexSpec, for all numbers of waiters, notifiers and values, if no stop *)
(* is requested while a notify_all goes through its list (Overlap = FALSE; *)
(* what happens otherwise is what the run futex_cancel shows).             *)
(*                                                                         *)
(* The properties read the list by following its pointers.  The proofs     *)
(* work with sequences instead: Holds(m, l, s) says that the memory m has  *)
(* the list l linked as s in both directions.  What push_back, pop_front,  *)
(* remove and swap of detail/intrusive.hpp do to such a memory comes       *)
(* first, then each step of Futex.  The invariant has a sequence for every *)
(* list, says that they are disjoint, and for every place of a waiter in   *)
(* wait() and in its cancellation whether it is in a list, in the hand of  *)
(* a notifier or scheduled.                                                *)
(***************************************************************************)
EXTENDS Futex, TLAPS

(* The heads of lists: wait_awaiters_ and the local lists of notify_all. *)
Lists == {Awaiters} \cup Notifiers

(* The memory the lists are made of. *)
Node == Waiters \cup {Null}
Memory == [next : [Waiters -> Node], prev : [Waiters -> Node],
           head : [Lists -> Node], tail : [Lists -> Node]]

(* Handle w is in s. *)
Inside(s, w) == \E i \in 1..Len(s) : s[i] = w

(* List l of memory m holds the handles of s, linked in both directions. *)
Holds(m, l, s) ==
  /\ s \in Seq(Waiters)
  /\ \A i, j \in 1..Len(s) : s[i] = s[j] => i = j
  /\ m.head[l] = IF Len(s) = 0 THEN Null ELSE s[1]
  /\ m.tail[l] = IF Len(s) = 0 THEN Null ELSE s[Len(s)]
  /\ \A i \in 1..Len(s) :
       /\ m.next[s[i]] = IF i = Len(s) THEN Null ELSE s[i + 1]
       /\ m.prev[s[i]] = IF i = 1 THEN Null ELSE s[i - 1]

(* What the proofs use of cardinalities and of numbers: facts of the       *)
(* library, cited at the end of this module.                               *)
Laws ==
  /\ Cardinality({}) = 0 /\ \A x : Cardinality({x}) = 1
  /\ \A n \in Nat : Cardinality(1..n) = n
  /\ Cardinality(Waiters) \in Nat
  /\ \A s \in Seq(Waiters) : (\A i, j \in 1..Len(s) : s[i] = s[j] => i = j) =>
       Len(s) <= Cardinality(Waiters)
  /\ \A T \in SUBSET Nat : T # {} => \E x \in T : \A y \in T : ~(y < x)

(* Following the pointers of a list gives the sequence it holds. *)
LEMMA WalkHolds ==
  ASSUME Laws, NEW m, NEW l, NEW s, Holds(m, l, s), Null \notin Waiters
  PROVE  WalkSeq(m, l) = s
<1> DEFINE N == Cardinality(Waiters)
           Goes(g) == [k \in 1..N |->
                         IF k = 1 THEN m.head[l]
                         ELSE IF g[k - 1] = Null THEN Null ELSE m.next[g[k - 1]]]
           w == [k \in 1..N |-> IF k <= Len(s) THEN s[k] ELSE Null]
           node == CHOOSE g : g = Goes(g)
           met == {k \in 1..N : node[k] # Null}
<1>1. WalkSeq(m, l) = [k \in 1..Cardinality(met) |-> node[k]]
  BY Zenon DEF WalkSeq
<1>0. N \in Nat /\ s \in Seq(Waiters) /\ Len(s) \in Nat /\ Len(s) <= N
  <2>1. N \in Nat /\ s \in Seq(Waiters)
    BY Zenon DEF Laws, Holds
  <2>2. Len(s) \in Nat /\ Len(s) <= N
    BY <2>1 DEF Laws, Holds
  <2> QED
    BY <2>1, <2>2, Zenon
<1> HIDE DEF N
<1>3. w = Goes(w)
  <2>2. ASSUME NEW k \in 1..N, k # 1 PROVE w[k] = Goes(w)[k]
    <3>1. k - 1 \in 1..N /\ (k - 1) + 1 = k
      BY <1>0, <2>2
    <3>2. CASE k - 1 <= Len(s)
      <4>1. k - 1 \in 1..Len(s) /\ w[k - 1] = s[k - 1] /\ s[k - 1] # Null
        BY <1>0, <3>1, <3>2
      <4>2. m.next[s[k - 1]] = IF k - 1 = Len(s) THEN Null ELSE s[k]
        BY <3>1, <4>1 DEF Holds
      <4> QED
        BY <1>0, <2>2, <3>1, <4>1, <4>2
    <3>3. CASE ~(k - 1 <= Len(s))
      <4>1. w[k - 1] = Null /\ w[k] = Null
        BY <1>0, <3>1, <3>3
      <4> QED
        BY <2>2, <4>1, Zenon
    <3> QED
      BY <3>2, <3>3, Zenon
  <2>3. ASSUME 1 \in 1..N PROVE w[1] = Goes(w)[1]
    <3>1. m.head[l] = IF Len(s) = 0 THEN Null ELSE s[1]
      BY Zenon DEF Holds
    <3> QED
      BY <1>0, <2>3, <3>1
  <2>4. \A k \in 1..N : w[k] = Goes(w)[k]
    BY <2>2, <2>3, Zenon
  <2> QED
    BY <2>4, Zenon
<1>4. ASSUME NEW g, g = Goes(g) PROVE g = w
  <2> DEFINE T == {k \in 1..N : g[k] # w[k]}
  <2>1. ASSUME T # {} PROVE FALSE
    <3>1. T \in SUBSET Nat
      BY <1>0
    <3>2. PICK x \in T : \A y \in T : ~(y < x)
      BY <2>1, <3>1, Zenon DEF Laws
    <3>3. x \in 1..N /\ g[x] # w[x] /\ g[x] = Goes(g)[x] /\ w[x] = Goes(w)[x]
      BY <1>3, <1>4, <3>2, Zenon
    <3>4. x # 1
      BY <3>3, Zenon
    <3>5. x - 1 \in 1..N /\ x - 1 < x
      BY <1>0, <3>3, <3>4
    <3>6. g[x - 1] = w[x - 1]
      BY <3>2, <3>5, Zenon
    <3>7. Goes(g)[x] = IF g[x - 1] = Null THEN Null ELSE m.next[g[x - 1]]
      BY <3>3, <3>4, Zenon
    <3>8. Goes(w)[x] = IF w[x - 1] = Null THEN Null ELSE m.next[w[x - 1]]
      BY <3>3, <3>4, Zenon
    <3> QED
      BY <3>3, <3>6, <3>7, <3>8, Zenon
  <2>2. \A k \in 1..N : g[k] = w[k]
    BY <2>1, Zenon
  <2>3. g = [k \in 1..N |-> g[k]]
    BY <1>4, Zenon
  <2>4. w = [k \in 1..N |-> w[k]]
    OBVIOUS
  <2> HIDE DEF w
  <2> QED
    BY <2>2, <2>3, <2>4, Zenon
<1>5. node = w
  BY <1>3, <1>4, Zenon
<1> HIDE DEF node
<1>6. met = 1..Len(s)
  <2>1. \A k \in 1..N : node[k] # Null <=> k <= Len(s)
    BY <1>0, <1>5
  <2>2. \A k : k \in 1..Len(s) <=> k \in 1..N /\ k <= Len(s)
    BY <1>0
  <2> QED
    BY <2>1, <2>2, Zenon
<1>7. Cardinality(met) = Len(s)
  BY <1>0, <1>6, Zenon DEF Laws
<1>8. \A k \in 1..Len(s) : node[k] = s[k]
  BY <1>0, <1>5
<1>9. s = [k \in 1..Len(s) |-> s[k]]
  BY <1>0
<1>10. WalkSeq(m, l) = [k \in 1..Len(s) |-> node[k]]
  BY <1>1, <1>7, Zenon
<1> QED
  BY <1>8, <1>9, <1>10, Zenon

-----------------------------------------------------------------------------
(* A list is what it was when its own members, and those of its handles,   *)
(* are.                                                                    *)
LEMMA Undisturbed ==
  ASSUME NEW m, NEW m2, NEW l, NEW s, Holds(m, l, s),
         m2.head[l] = m.head[l], m2.tail[l] = m.tail[l],
         \A x \in Waiters : Inside(s, x) => m2.next[x] = m.next[x] /\ m2.prev[x] = m.prev[x]
  PROVE  Holds(m2, l, s)
<1>1. s \in Seq(Waiters) /\ \A i \in 1..Len(s) : s[i] \in Waiters /\ Inside(s, s[i])
  <2>1. s \in Seq(Waiters)
    BY Zenon DEF Holds
  <2> QED
    BY <2>1 DEF Inside
<1> QED
  BY <1>1, Zenon DEF Holds

(* An empty list, *)
LEMMA HoldsNone ==
  ASSUME NEW m, NEW l, m.head[l] = Null, m.tail[l] = Null
  PROVE  Holds(m, l, <<>>)
BY DEF Holds

(* and a list that looks empty. *)
LEMMA LooksEmpty ==
  ASSUME Null \notin Waiters, NEW m, NEW l, NEW s, Holds(m, l, s), m.head[l] = Null
  PROVE  s = <<>> /\ Len(s) = 0 /\ m.tail[l] = Null
<1>1. s \in Seq(Waiters) /\ m.head[l] = (IF Len(s) = 0 THEN Null ELSE s[1])
  BY Zenon DEF Holds
<1>2. Len(s) = 0 /\ s = <<>>
  BY <1>1
<1> QED
  BY <1>2, Zenon DEF Holds

(* push_back of a handle that is not in the list, *)
LEMMA PushBackHolds ==
  ASSUME NEW m \in Memory, NEW l \in Lists, NEW e \in Waiters, NEW s, Holds(m, l, s),
         Null \notin Waiters, ~Inside(s, e)
  PROVE  /\ PushBack(m, l, e) \in Memory
         /\ Holds(PushBack(m, l, e), l, Append(s, e))
         /\ \A k \in Lists \ {l} : /\ PushBack(m, l, e).head[k] = m.head[k]
                                   /\ PushBack(m, l, e).tail[k] = m.tail[k]
         /\ \A x \in Waiters : ~Inside(s, x) /\ x # e =>
              /\ PushBack(m, l, e).next[x] = m.next[x]
              /\ PushBack(m, l, e).prev[x] = m.prev[x]
<1> DEFINE r == PushBack(m, l, e)
<1>1. /\ r \in Memory
      /\ \A x \in Waiters : r.next[x] = IF x = e THEN Null
                                        ELSE IF x = m.tail[l] THEN e ELSE m.next[x]
      /\ \A x \in Waiters : r.prev[x] = IF x = e THEN m.tail[l] ELSE m.prev[x]
      /\ \A k \in Lists : r.head[k] = IF k = l /\ m.head[l] = Null THEN e ELSE m.head[k]
      /\ \A k \in Lists : r.tail[k] = IF k = l THEN e ELSE m.tail[k]
  BY Zenon DEF PushBack, Memory, Node
<1> HIDE DEF r
<1>2. /\ s \in Seq(Waiters) /\ Len(s) \in Nat
      /\ \A i, j \in 1..Len(s) : s[i] = s[j] => i = j
      /\ \A i \in 1..Len(s) : s[i] \in Waiters /\ s[i] # e /\ s[i] # Null
      /\ m.head[l] = IF Len(s) = 0 THEN Null ELSE s[1]
      /\ m.tail[l] = IF Len(s) = 0 THEN Null ELSE s[Len(s)]
  <2>1. s \in Seq(Waiters)
    BY Zenon DEF Holds
  <2> QED
    BY <2>1 DEF Holds, Inside
<1> DEFINE t == Append(s, e)
<1>3. /\ t \in Seq(Waiters) /\ Len(t) = Len(s) + 1 /\ t[Len(s) + 1] = e
      /\ \A i \in 1..Len(s) : t[i] = s[i]
  BY <1>2
<1> HIDE DEF t
<1>4. Holds(r, l, t)
  <2>1. \A i, j \in 1..Len(t) : t[i] = t[j] => i = j
    BY <1>2, <1>3
  <2>2. r.head[l] = t[1]
    BY <1>1, <1>2, <1>3
  <2>3. r.tail[l] = t[Len(t)]
    BY <1>1, <1>3, Zenon
  <2>4. ASSUME NEW i \in 1..Len(s)
        PROVE  /\ r.next[t[i]] = t[i + 1]
               /\ r.prev[t[i]] = IF i = 1 THEN Null ELSE t[i - 1]
    <3>1. /\ t[i] = s[i] /\ s[i] \in Waiters /\ s[i] # e
          /\ m.next[s[i]] = IF i = Len(s) THEN Null ELSE s[i + 1]
          /\ m.prev[s[i]] = IF i = 1 THEN Null ELSE s[i - 1]
      BY <1>2, <1>3, Zenon DEF Holds
    <3>2. s[i] = m.tail[l] <=> i = Len(s)
      BY <1>2
    <3>3. r.next[t[i]] = t[i + 1]
      <4>1. CASE i = Len(s)
        BY <1>1, <1>3, <3>1, <3>2, <4>1
      <4>2. CASE i # Len(s)
        <5>1. i + 1 \in 1..Len(s) /\ t[i + 1] = s[i + 1]
          BY <1>2, <1>3, <4>2
        <5> QED
          BY <1>1, <3>1, <3>2, <4>2, <5>1, Zenon
      <4> QED
        BY <4>1, <4>2, Zenon
    <3>4. i # 1 => i - 1 \in 1..Len(s) /\ t[i - 1] = s[i - 1]
      BY <1>2, <1>3
    <3> QED
      BY <1>1, <3>1, <3>3, <3>4, Zenon
  <2>5. /\ r.next[e] = Null
        /\ r.prev[e] = IF Len(t) = 1 THEN Null ELSE t[Len(t) - 1]
    BY <1>1, <1>2, <1>3
  <2>6. ASSUME NEW i \in 1..Len(t)
        PROVE  /\ r.next[t[i]] = IF i = Len(t) THEN Null ELSE t[i + 1]
               /\ r.prev[t[i]] = IF i = 1 THEN Null ELSE t[i - 1]
    <3>1. CASE i = Len(t)
      BY <1>3, <2>5, <3>1, Zenon
    <3>2. CASE i # Len(t)
      <4>1. i \in 1..Len(s)
        BY <1>2, <1>3, <3>2
      <4> QED
        BY <2>4, <3>2, <4>1, Zenon
    <3> QED
      BY <3>1, <3>2, Zenon
  <2>7. Len(t) # 0
    BY <1>2, <1>3
  <2> QED
    BY <1>3, <2>1, <2>2, <2>3, <2>6, <2>7, Zenon DEF Holds
<1>5. \A x \in Waiters : ~Inside(s, x) => x # m.tail[l]
  BY <1>2 DEF Inside
<1>6. \A x \in Waiters : ~Inside(s, x) /\ x # e => r.next[x] = m.next[x] /\ r.prev[x] = m.prev[x]
  BY <1>1, <1>5, Zenon
<1>7. \A k \in Lists \ {l} : r.head[k] = m.head[k] /\ r.tail[k] = m.tail[k]
  BY <1>1, Zenon
<1> QED
  BY <1>1, <1>4, <1>6, <1>7, Zenon DEF r, t

(* pop_front, *)
Popped(m, l, s, r) ==
  /\ r \in Memory
  /\ Holds(r, l, Tail(s))
  /\ m.head[l] \in Waiters /\ m.head[l] = Head(s) /\ s # <<>>
  /\ \A x : Inside(Tail(s), x) <=> Inside(s, x) /\ x # m.head[l]
  /\ Inside(s, m.head[l])
  /\ r.next[m.head[l]] = Null /\ r.prev[m.head[l]] = Null
  /\ \A k \in Lists \ {l} : r.head[k] = m.head[k] /\ r.tail[k] = m.tail[k]
  /\ \A x \in Waiters : ~Inside(s, x) => r.next[x] = m.next[x] /\ r.prev[x] = m.prev[x]

(* pop_front() takes the first handle off. *)
LEMMA PopFrontHolds ==
  ASSUME NEW m \in Memory, NEW l \in Lists, NEW s, Holds(m, l, s), Null \notin Waiters,
         m.head[l] # Null
  PROVE  Popped(m, l, s, PopFront(m, l))
<1> DEFINE r == PopFront(m, l)
           e == m.head[l]
           n == m.next[e]
<1>1. /\ r \in Memory
      /\ \A x \in Waiters : r.next[x] = IF x = e THEN Null ELSE m.next[x]
      /\ \A x \in Waiters : r.prev[x] = IF x = e \/ x = n THEN Null ELSE m.prev[x]
      /\ \A k \in Lists : r.head[k] = IF k = l THEN n ELSE m.head[k]
      /\ \A k \in Lists : r.tail[k] = IF k = l /\ n = Null THEN Null ELSE m.tail[k]
      /\ e \in Waiters
  BY Zenon DEF PopFront, Memory, Node
<1>2. /\ s \in Seq(Waiters) /\ Len(s) \in Nat /\ Len(s) # 0
      /\ \A i, j \in 1..Len(s) : s[i] = s[j] => i = j
      /\ \A i \in 1..Len(s) : s[i] \in Waiters /\ s[i] # Null
      /\ e = s[1] /\ m.tail[l] = s[Len(s)]
      /\ n = IF Len(s) = 1 THEN Null ELSE s[2]
  <2>1. s \in Seq(Waiters)
    BY Zenon DEF Holds
  <2>2. Len(s) # 0 /\ e = s[1]
    BY <2>1, Zenon DEF Holds
  <2>3. 1 \in 1..Len(s) /\ 1 + 1 = 2 /\ Len(s) \in Nat
    BY <2>1, <2>2
  <2>4. n = IF Len(s) = 1 THEN Null ELSE s[2]
    <3>1. m.next[s[1]] = IF 1 = Len(s) THEN Null ELSE s[1 + 1]
      BY <2>3, Zenon DEF Holds
    <3> QED
      BY <2>2, <2>3, <3>1, Zenon
  <2>5. m.tail[l] = s[Len(s)] /\ \A i, j \in 1..Len(s) : s[i] = s[j] => i = j
    BY <2>2, Zenon DEF Holds
  <2>6. \A i \in 1..Len(s) : s[i] \in Waiters /\ s[i] # Null
    BY <2>1
  <2> QED
    BY <2>1, <2>2, <2>3, <2>4, <2>5, <2>6, Zenon
<1> HIDE DEF r, e, n
<1> DEFINE t == Tail(s)
<1>3. /\ t \in Seq(Waiters) /\ Len(t) = Len(s) - 1 /\ s # <<>> /\ Head(s) = s[1]
      /\ \A i \in 1..Len(s) - 1 : t[i] = s[i + 1]
  BY <1>2
<1> HIDE DEF t
<1>4. Holds(r, l, t)
  <2>1. \A i, j \in 1..Len(t) : t[i] = t[j] => i = j
    BY <1>2, <1>3
  <2>2. r.head[l] = IF Len(t) = 0 THEN Null ELSE t[1]
    BY <1>1, <1>2, <1>3
  <2>3. r.tail[l] = IF Len(t) = 0 THEN Null ELSE t[Len(t)]
    <3>1. n = Null <=> Len(t) = 0
      BY <1>2, <1>3
    <3>2. Len(t) # 0 => t[Len(t)] = s[Len(s)]
      BY <1>2, <1>3
    <3> QED
      BY <1>1, <1>2, <3>1, <3>2, Zenon
  <2>4. ASSUME NEW i \in 1..Len(t)
        PROVE  /\ r.next[t[i]] = IF i = Len(t) THEN Null ELSE t[i + 1]
               /\ r.prev[t[i]] = IF i = 1 THEN Null ELSE t[i - 1]
    <3>1. /\ i + 1 \in 1..Len(s) /\ t[i] = s[i + 1] /\ s[i + 1] \in Waiters
          /\ s[i + 1] # e
      BY <1>2, <1>3
    <3>2. /\ m.next[s[i + 1]] = IF i + 1 = Len(s) THEN Null ELSE s[(i + 1) + 1]
          /\ m.prev[s[i + 1]] = IF i + 1 = 1 THEN Null ELSE s[(i + 1) - 1]
      BY <3>1, Zenon DEF Holds
    <3>3. s[i + 1] = n <=> i = 1
      BY <1>2, <1>3, <3>1
    <3>4. i # Len(t) => t[i + 1] = s[(i + 1) + 1]
      BY <1>2, <1>3
    <3>5. i # 1 => t[i - 1] = s[(i + 1) - 1]
      BY <1>2, <1>3
    <3>6. (i + 1 = Len(s) <=> i = Len(t)) /\ i + 1 # 1
      BY <1>2, <1>3
    <3> QED
      BY <1>1, <3>1, <3>2, <3>3, <3>4, <3>5, <3>6
  <2> QED
    BY <1>3, <2>1, <2>2, <2>3, <2>4, Zenon DEF Holds
<1>5. Inside(s, e)
  BY <1>2 DEF Inside
<1>6. \A x : Inside(t, x) <=> Inside(s, x) /\ x # e
  <2>1. ASSUME NEW i \in 1..Len(t) PROVE i + 1 \in 1..Len(s) /\ t[i] = s[i + 1] /\ s[i + 1] # e
    BY <1>2, <1>3
  <2>2. ASSUME NEW i \in 1..Len(s), s[i] # e PROVE i - 1 \in 1..Len(t) /\ t[i - 1] = s[i]
    BY <1>2, <1>3, <2>2
  <2> QED
    BY <2>1, <2>2, Zenon DEF Inside
<1>7. r.next[e] = Null /\ r.prev[e] = Null
  BY <1>1, Zenon
<1>8. \A k \in Lists \ {l} : r.head[k] = m.head[k] /\ r.tail[k] = m.tail[k]
  BY <1>1, Zenon
<1>9. \A x \in Waiters : ~Inside(s, x) => r.next[x] = m.next[x] /\ r.prev[x] = m.prev[x]
  <2>0. PICK c \in Nat : c = Len(s) /\ c # 0
    BY <1>2, Zenon
  <2>1. 1 \in 1..c /\ (c # 1 => 2 \in 1..c)
    BY <2>0
  <2>2. \A x \in Waiters : ~Inside(s, x) => x # e /\ x # n
    BY <1>2, <2>0, <2>1, Zenon DEF Inside
  <2> QED
    BY <1>1, <2>2, Zenon
<1> QED
  BY <1>1, <1>2, <1>3, <1>4, <1>5, <1>6, <1>7, <1>8, <1>9, Zenon DEF Popped, r, e, t

(* remove of a handle in the list, *)
Without(s, i) == [k \in 1..Len(s) - 1 |-> IF k < i THEN s[k] ELSE s[k + 1]]

Removed(m, l, s, i, r) ==
  /\ Linked(m, l, s[i]) /\ RemoveAssert(m, l, s[i])
  /\ r \in Memory
  /\ Holds(r, l, Without(s, i))
  /\ \A x : Inside(Without(s, i), x) <=> Inside(s, x) /\ x # s[i]
  /\ r.next[s[i]] = Null /\ r.prev[s[i]] = Null
  /\ \A k \in Lists \ {l} : r.head[k] = m.head[k] /\ r.tail[k] = m.tail[k]
  /\ \A x \in Waiters : ~Inside(s, x) => r.next[x] = m.next[x] /\ r.prev[x] = m.prev[x]

(* remove() takes a handle off wherever it is. *)
LEMMA RemoveHolds ==
  ASSUME NEW m \in Memory, NEW l \in Lists, NEW s, Holds(m, l, s), Null \notin Waiters,
         NEW i \in 1..Len(s)
  PROVE  Removed(m, l, s, i, Remove(m, l, s[i]))
<1> DEFINE e == s[i]
           p == m.prev[e]
           n == m.next[e]
           r == Remove(m, l, e)
<1>2. /\ s \in Seq(Waiters) /\ Len(s) \in Nat /\ Len(s) # 0 /\ e \in Waiters
      /\ \A j, k \in 1..Len(s) : s[j] = s[k] => j = k
      /\ \A j \in 1..Len(s) : s[j] \in Waiters /\ s[j] # Null
      /\ m.head[l] = s[1] /\ m.tail[l] = s[Len(s)]
      /\ n = IF i = Len(s) THEN Null ELSE s[i + 1]
      /\ p = IF i = 1 THEN Null ELSE s[i - 1]
  <2>1. s \in Seq(Waiters)
    BY Zenon DEF Holds
  <2>2. Len(s) # 0
    BY <2>1
  <2> QED
    BY <2>1, <2>2 DEF Holds
<1>3. (p = Null <=> i = 1) /\ (n = Null <=> i = Len(s))
  BY <1>2
<1>4. Linked(m, l, e) /\ RemoveAssert(m, l, e)
  <2>1. (p = Null => m.head[l] = e) /\ (n = Null => m.tail[l] = e)
    BY <1>2, <1>3, Zenon
  <2> QED
    BY <2>1, Zenon DEF Linked, RemoveAssert
<1>5. /\ r \in Memory
      /\ \A x \in Waiters : r.next[x] = IF x = e THEN Null ELSE IF x = p THEN n ELSE m.next[x]
      /\ \A x \in Waiters : r.prev[x] = IF x = e THEN Null ELSE IF x = n THEN p ELSE m.prev[x]
      /\ \A k \in Lists : r.head[k] = IF k = l /\ p = Null THEN n ELSE m.head[k]
      /\ \A k \in Lists : r.tail[k] = IF k = l /\ n = Null THEN p ELSE m.tail[k]
  <2> HIDE DEF e
  <2> QED
    BY <1>2, <1>4 DEF Remove, Memory, Node
<1> HIDE DEF r, e, n, p
<1> DEFINE t == Without(s, i)
<1>6. /\ t \in Seq(Waiters) /\ Len(t) = Len(s) - 1
      /\ \A k \in 1..Len(s) - 1 : t[k] = IF k < i THEN s[k] ELSE s[k + 1]
  <2>1. \A k \in 1..Len(s) - 1 : (IF k < i THEN s[k] ELSE s[k + 1]) \in Waiters
    BY <1>2
  <2> QED
    BY <1>2, <2>1 DEF Without
<1> HIDE DEF t
<1>7. \A j, k \in 1..Len(t) : t[j] = t[k] => j = k
  BY <1>2, <1>6
<1>8. \A k \in 1..Len(t) : t[k] # e /\ t[k] \in Waiters
  <2>1. e = s[i]
    BY Zenon DEF e
  <2> QED
    BY <1>2, <1>6, <2>1
<1>9. r.head[l] = IF Len(t) = 0 THEN Null ELSE t[1]
  <2>1. CASE i = 1
    BY <1>2, <1>3, <1>5, <1>6, <2>1
  <2>2. CASE i # 1
    BY <1>2, <1>3, <1>5, <1>6, <2>2
  <2> QED
    BY <2>1, <2>2, Zenon
<1>10. r.tail[l] = IF Len(t) = 0 THEN Null ELSE t[Len(t)]
  <2>1. CASE i = Len(s)
    BY <1>2, <1>3, <1>5, <1>6, <2>1
  <2>2. CASE i # Len(s)
    BY <1>2, <1>3, <1>5, <1>6, <2>2
  <2> QED
    BY <2>1, <2>2, Zenon
<1>11. ASSUME NEW k \in 1..Len(t)
       PROVE  /\ r.next[t[k]] = IF k = Len(t) THEN Null ELSE t[k + 1]
              /\ r.prev[t[k]] = IF k = 1 THEN Null ELSE t[k - 1]
  <2> DEFINE j == IF k < i THEN k ELSE k + 1
  <2>1. j \in 1..Len(s) /\ j # i /\ t[k] = s[j] /\ s[j] # e /\ s[j] \in Waiters
    BY <1>2, <1>6, <1>8
  <2>2. /\ m.next[s[j]] = IF j = Len(s) THEN Null ELSE s[j + 1]
        /\ m.prev[s[j]] = IF j = 1 THEN Null ELSE s[j - 1]
    BY <2>1, Zenon DEF Holds
  <2>3. (s[j] = p <=> j + 1 = i) /\ (s[j] = n <=> j = i + 1)
    BY <1>2, <2>1
  <2>4. r.next[s[j]] = IF j + 1 = i THEN n ELSE m.next[s[j]]
    BY <1>5, <2>1, <2>3, Zenon
  <2>5. r.prev[s[j]] = IF j = i + 1 THEN p ELSE m.prev[s[j]]
    BY <1>5, <2>1, <2>3, Zenon
  <2>6. r.next[t[k]] = IF k = Len(t) THEN Null ELSE t[k + 1]
    <3>1. CASE j + 1 = i
      BY <1>2, <1>6, <2>1, <2>4, <3>1
    <3>2. CASE j + 1 # i
      BY <1>2, <1>6, <2>1, <2>2, <2>4, <3>2
    <3> QED
      BY <3>1, <3>2, Zenon
  <2>7. r.prev[t[k]] = IF k = 1 THEN Null ELSE t[k - 1]
    <3>1. CASE j = i + 1
      BY <1>2, <1>6, <2>1, <2>5, <3>1
    <3>2. CASE j # i + 1
      BY <1>2, <1>6, <2>1, <2>2, <2>5, <3>2
    <3> QED
      BY <3>1, <3>2, Zenon
  <2> QED
    BY <2>6, <2>7, Zenon
<1>12. Holds(r, l, t)
  BY <1>6, <1>7, <1>9, <1>10, <1>11, Zenon DEF Holds
<1>13. \A x : Inside(t, x) <=> Inside(s, x) /\ x # e
  <2>1. ASSUME NEW k \in 1..Len(t) PROVE \E j \in 1..Len(s) : t[k] = s[j]
    BY <1>2, <1>6
  <2>2. ASSUME NEW j \in 1..Len(s), s[j] # e PROVE \E k \in 1..Len(t) : t[k] = s[j]
    <3>1. j # i
      BY <2>2, Zenon DEF e
    <3>2. CASE j < i
      <4>1. j \in 1..Len(t) /\ t[j] = s[j]
        BY <1>2, <1>6, <3>2
      <4> QED
        BY <4>1, Zenon
    <3>3. CASE j > i
      <4>1. j - 1 \in 1..Len(t) /\ t[j - 1] = s[j]
        BY <1>2, <1>6, <3>3
      <4> QED
        BY <4>1, Zenon
    <3> QED
      BY <1>2, <3>1, <3>2, <3>3
  <2> QED
    BY <1>8, <2>1, <2>2, Zenon DEF Inside
<1>14. r.next[e] = Null /\ r.prev[e] = Null
  BY <1>2, <1>5, Zenon
<1>15. \A k \in Lists \ {l} : r.head[k] = m.head[k] /\ r.tail[k] = m.tail[k]
  BY <1>5, Zenon
<1>16. \A x \in Waiters : ~Inside(s, x) => r.next[x] = m.next[x] /\ r.prev[x] = m.prev[x]
  <2>1. \A x \in Waiters : ~Inside(s, x) => x # e /\ x # n /\ x # p
    <3>1. e = s[i]
      BY Zenon DEF e
    <3> QED
      BY <1>2, <3>1 DEF Inside
  <2> QED
    BY <1>5, <2>1, Zenon
<1> QED
  BY <1>4, <1>5, <1>12, <1>13, <1>14, <1>15, <1>16, Zenon DEF Removed, r, e, t
-----------------------------------------------------------------------------
Types ==
  /\ all \in BOOLEAN /\ mem \in Memory /\ value \in Values /\ alive \in BOOLEAN
  /\ pc \in [Waiters -> {"idle", "started", "suspended"}]
  /\ old \in [Waiters -> Values]
  /\ result \in [Waiters -> {"unset", "ok", "EIDRM", "ECANCELED"}]
  /\ scheduled \in [Waiters -> Nat]
  /\ pending \in [Waiters -> Nat]
  /\ stop \in [Waiters -> {"no", "requested", "callback", "removed", "over"}]
  /\ at \in [Notifiers -> {"idle", "one", "all", "loop"}]
  /\ hand \in [Notifiers -> Node]
  /\ code \in [Notifiers -> {"ok", "EIDRM"}]

(* Handle w is in list l. *)
In(l, w) == Inside(Line(l), w)

(* The lists are linked, no handle is in two, and one in none of them has  *)
(* no links.                                                               *)
Listed ==
  /\ \A l \in Lists : Holds(mem, l, Line(l))
  /\ \A l, k \in Lists, w \in Waiters : In(l, w) /\ In(k, w) => l = k
  /\ \A w \in Waiters :
       (\A l \in Lists : ~In(l, w)) => mem.next[w] = Null /\ mem.prev[w] = Null

(* A handle in a list or in the hands of a notifier. *)
Away(w) == stop[w] # "removed" /\ scheduled[w] = 0 /\ pc[w] # "idle"

(* A waiter that waits is in one place. *)
Where(w) ==
  /\ \A l \in Lists : In(l, w) => Away(w) /\ \A n \in Notifiers : hand[n] # w
  /\ \A n \in Notifiers : hand[n] = w => Away(w)
  /\ \A n, k \in Notifiers : hand[n] = w /\ hand[k] = w => n = k
  /\ stop[w] = "removed" => scheduled[w] = 0
  /\ scheduled[w] \in {0, 1}
  /\ scheduled[w] = 1 => pc[w] # "idle"
  /\ pc[w] # "idle" => \/ \E l \in Lists : In(l, w)
                       \/ \E n \in Notifiers : hand[n] = w
                       \/ stop[w] = "removed"
                       \/ scheduled[w] = 1

Placed == \A w \in Waiters : Where(w)

(* How far a waiter, its stop request and its result are. *)
Stage(w) ==
  /\ pc[w] = "idle" => stop[w] = "no"
  /\ stop[w] \in {"callback", "removed", "over"} => pc[w] = "suspended"
  /\ stop[w] = "requested" => pc[w] = "started"
  /\ pending[w] = IF pc[w] = "suspended" THEN 1 ELSE 0
  /\ pc[w] = "idle" \/ scheduled[w] = 1 => result[w] # "unset"

Stages == \A w \in Waiters : Stage(w)

(* Only notify_all and the destructor have a local list, and while they    *)
(* run nobody is about to cancel.                                          *)
Calls ==
  \A n \in Notifiers :
    /\ at[n] # "loop" => hand[n] = Null /\ mem.head[n] = Null
    /\ mem.head[n] # Null \/ at[n] = "all" => all \/ ~alive
    /\ at[n] = "one" => ~all /\ alive
    /\ at[n] # "idle" /\ (all \/ ~alive) => \A w \in Waiters : stop[w] \in {"no", "over"}

Inv == Types /\ ~violated /\ Listed /\ Placed /\ Stages /\ Calls

Given == Laws /\ ~Overlap

(* One list changes: it holds s, of the handles it held and perhaps e,     *)
(* which was in no other.                                                  *)
LEMMA Relisted ==
  ASSUME Given, Listed, NEW l \in Lists, NEW s, NEW e \in Waiters,
         Holds(mem', l, s),
         \A k \in Lists \ {l} : ~In(k, e),
         \A k \in Lists \ {l} : mem'.head[k] = mem.head[k] /\ mem'.tail[k] = mem.tail[k],
         \A x \in Waiters : ~In(l, x) /\ x # e =>
           mem'.next[x] = mem.next[x] /\ mem'.prev[x] = mem.prev[x],
         \A x \in Waiters : Inside(s, x) => In(l, x) \/ x = e,
         \A x \in Waiters : (In(l, x) \/ x = e) /\ ~Inside(s, x) =>
           mem'.next[x] = Null /\ mem'.prev[x] = Null
  PROVE  Line(l)' = s /\ (\A k \in Lists \ {l} : Line(k)' = Line(k)) /\ Listed'
<1>0. Null \notin Waiters /\ Laws
  BY FutexAssumption, Zenon DEF Given
<1>1. Line(l)' = s
  BY <1>0, WalkHolds, Zenon DEF Line
<1>2. ASSUME NEW k \in Lists \ {l} PROVE Holds(mem', k, Line(k)) /\ Line(k)' = Line(k)
  <2>1. Holds(mem, k, Line(k))
    BY Zenon DEF Listed
  <2>2. ASSUME NEW x \in Waiters, Inside(Line(k), x) PROVE ~In(l, x) /\ x # e
    BY <2>2, Zenon DEF Listed, In
  <2>3. \A x \in Waiters : Inside(Line(k), x) =>
          mem'.next[x] = mem.next[x] /\ mem'.prev[x] = mem.prev[x]
    BY <2>2, Zenon
  <2>4. Holds(mem', k, Line(k))
    BY <2>1, <2>3, Undisturbed, Zenon
  <2> QED
    BY <1>0, <2>4, WalkHolds, Zenon DEF Line
<1>3. \A x : In(l, x)' <=> Inside(s, x)
  BY <1>1, Zenon DEF In
<1>4. \A k \in Lists \ {l} : \A x : In(k, x)' <=> In(k, x)
  BY <1>2, Zenon DEF In
<1>5. \A k \in Lists : Holds(mem', k, Line(k)')
  BY <1>1, <1>2, Zenon
<1>6. ASSUME NEW j \in Lists, NEW k \in Lists, NEW x \in Waiters, In(j, x)', In(k, x)'
      PROVE  j = k
  BY <1>3, <1>4, <1>6, Zenon DEF Listed
<1>7. ASSUME NEW x \in Waiters, \A k \in Lists : ~In(k, x)'
      PROVE  mem'.next[x] = Null /\ mem'.prev[x] = Null
  <2>1. ~Inside(s, x) /\ \A k \in Lists \ {l} : ~In(k, x)
    BY <1>3, <1>4, <1>7, Zenon
  <2>2. CASE In(l, x) \/ x = e
    BY <2>1, <2>2, Zenon
  <2>3. CASE ~In(l, x) /\ x # e
    BY <2>1, <2>3, Zenon DEF Listed
  <2> QED
    BY <2>2, <2>3, Zenon
<1> QED
  BY <1>1, <1>2, <1>5, <1>6, <1>7, Zenon DEF Listed

(* Everything is as it was for the lists. *)
LEMMA SameLists ==
  ASSUME mem' = mem
  PROVE  /\ \A l : Line(l)' = Line(l)
         /\ \A l, x : In(l, x)' <=> In(l, x)
         /\ Listed => Listed'
<1>1. \A l : Line(l)' = Line(l)
  BY Zenon DEF Line
<1>2. \A l, x : In(l, x)' <=> In(l, x)
  BY <1>1, Zenon DEF In
<1> QED
  BY <1>1, <1>2, Zenon DEF Listed

(* A handle is put at the end of wait_awaiters_. *)
LEMMA Enlists ==
  ASSUME Given, Inv, NEW w \in Waiters, pc[w] = "idle", mem' = PushBack(mem, Awaiters, w)
  PROVE  /\ mem' \in Memory /\ PushBackAssert(mem, w) /\ Listed'
         /\ Line(Awaiters)' = Append(Line(Awaiters), w)
         /\ \A n \in Notifiers : mem'.head[n] = mem.head[n]
         /\ \A l \in Lists : \A x : In(l, x)' <=> In(l, x) \/ (l = Awaiters /\ x = w)
<1>0. Null \notin Waiters /\ Awaiters \in Lists /\ mem \in Memory /\ Awaiters \notin Notifiers
  BY FutexAssumption, Zenon DEF Lists, Inv, Types
<1>1. \A l \in Lists : ~In(l, w)
  BY Zenon DEF Inv, Placed, Where, Away
<1>2. Holds(mem, Awaiters, Line(Awaiters)) /\ Listed
  BY <1>0, Zenon DEF Inv, Listed
<1>3. PushBackAssert(mem, w)
  BY <1>1, Zenon DEF Inv, Listed, PushBackAssert
<1>4. /\ mem' \in Memory
      /\ Holds(mem', Awaiters, Append(Line(Awaiters), w))
      /\ \A k \in Lists \ {Awaiters} : mem'.head[k] = mem.head[k] /\ mem'.tail[k] = mem.tail[k]
      /\ \A x \in Waiters : ~In(Awaiters, x) /\ x # w =>
           mem'.next[x] = mem.next[x] /\ mem'.prev[x] = mem.prev[x]
  BY <1>0, <1>1, <1>2, PushBackHolds, Zenon DEF In
<1>5. \A x : Inside(Append(Line(Awaiters), w), x) <=> In(Awaiters, x) \/ x = w
  <2>1. Line(Awaiters) \in Seq(Waiters)
    BY <1>2, Zenon DEF Holds
  <2> DEFINE s == Line(Awaiters)
             t == Append(s, w)
  <2>2. Len(s) \in Nat /\ Len(t) = Len(s) + 1 /\ t[Len(s) + 1] = w
        /\ \A i \in 1..Len(s) : t[i] = s[i]
    BY <2>1
  <2>3. \A i : i \in 1..Len(t) <=> i \in 1..Len(s) \/ i = Len(s) + 1
    BY <2>2
  <2> HIDE DEF t, s
  <2>4. \A x : Inside(t, x) <=> Inside(s, x) \/ x = w
    BY <2>2, <2>3, Zenon DEF Inside
  <2> QED
    BY <2>4, Zenon DEF t, s, In
<1>6. /\ Line(Awaiters)' = Append(Line(Awaiters), w)
      /\ \A k \in Lists \ {Awaiters} : Line(k)' = Line(k)
      /\ Listed'
  <2>1. \A x \in Waiters : Inside(Append(Line(Awaiters), w), x) => In(Awaiters, x) \/ x = w
    BY <1>5, Zenon
  <2>2. \A x \in Waiters : (In(Awaiters, x) \/ x = w) /\ ~Inside(Append(Line(Awaiters), w), x) =>
          mem'.next[x] = Null /\ mem'.prev[x] = Null
    BY <1>5, Zenon
  <2>3. \A k \in Lists \ {Awaiters} : ~In(k, w)
    BY <1>1, Zenon
  <2> QED
    BY <1>0, <1>2, <1>4, <2>1, <2>2, <2>3, Relisted, Zenon
<1>7. \A l \in Lists : \A x : In(l, x)' <=> In(l, x) \/ (l = Awaiters /\ x = w)
  BY <1>5, <1>6, Zenon DEF In
<1>8. \A n \in Notifiers : n \in Lists \ {Awaiters}
  BY <1>0, Zenon DEF Lists
<1> QED
  BY <1>3, <1>4, <1>6, <1>7, <1>8, Zenon

(* The first handle is taken from a list that is not empty. *)
LEMMA Takes ==
  ASSUME Given, Inv, NEW l \in Lists, mem.head[l] # Null, mem' = PopFront(mem, l)
  PROVE  /\ mem' \in Memory /\ Listed'
         /\ mem.head[l] \in Waiters /\ In(l, mem.head[l])
         /\ Line(l) # <<>> /\ Head(Line(l)) = mem.head[l]
         /\ Line(l)' = Tail(Line(l))
         /\ \A k \in Lists \ {l} : Line(k)' = Line(k) /\ mem'.head[k] = mem.head[k]
         /\ \A k \in Lists, x \in Waiters : In(k, x)' <=> In(k, x) /\ x # mem.head[l]
<1>0. Null \notin Waiters /\ mem \in Memory /\ Listed /\ Holds(mem, l, Line(l))
  BY FutexAssumption, Zenon DEF Inv, Types, Listed
<1> DEFINE e == mem.head[l]
           s == Line(l)
<1>1. /\ mem' \in Memory
      /\ Holds(mem', l, Tail(s))
      /\ e \in Waiters /\ e = Head(s) /\ s # <<>>
      /\ \A x : Inside(Tail(s), x) <=> In(l, x) /\ x # e
      /\ In(l, e)
      /\ mem'.next[e] = Null /\ mem'.prev[e] = Null
      /\ \A k \in Lists \ {l} : mem'.head[k] = mem.head[k] /\ mem'.tail[k] = mem.tail[k]
      /\ \A x \in Waiters : ~In(l, x) => mem'.next[x] = mem.next[x] /\ mem'.prev[x] = mem.prev[x]
  <2>1. Popped(mem, l, Line(l), mem')
    BY <1>0, PopFrontHolds, Zenon
  <2> QED
    BY <2>1, Zenon DEF Popped, In
<1> HIDE DEF e
<1>2. \A k \in Lists \ {l} : ~In(k, e)
  BY <1>0, <1>1, Zenon DEF Listed
<1>3. Line(l)' = Tail(s) /\ (\A k \in Lists \ {l} : Line(k)' = Line(k)) /\ Listed'
  <2>1. \A x \in Waiters : Inside(Tail(s), x) => In(l, x) \/ x = e
    BY <1>1, Zenon
  <2>2. \A x \in Waiters : (In(l, x) \/ x = e) /\ ~Inside(Tail(s), x) =>
          mem'.next[x] = Null /\ mem'.prev[x] = Null
    BY <1>1, Zenon
  <2>3. \A x \in Waiters : ~In(l, x) /\ x # e =>
          mem'.next[x] = mem.next[x] /\ mem'.prev[x] = mem.prev[x]
    BY <1>1, Zenon
  <2> QED
    BY <1>0, <1>1, <1>2, <2>1, <2>2, <2>3, Relisted, Zenon
<1>4. \A k \in Lists, x \in Waiters : In(k, x)' <=> In(k, x) /\ x # e
  <2>1. \A x \in Waiters : In(l, x)' <=> In(l, x) /\ x # e
    BY <1>1, <1>3, Zenon DEF In
  <2>2. \A k \in Lists \ {l}, x \in Waiters : In(k, x)' <=> In(k, x)
    BY <1>3, Zenon DEF In
  <2> QED
    BY <1>2, <2>1, <2>2, Zenon
<1> QED
  BY <1>1, <1>3, <1>4, Zenon DEF e

(* cancel_wait_ of a handle that is in no local list: it is removed if it  *)
(* is in wait_awaiters_, and left alone otherwise.                         *)
LEMMA Unlists ==
  ASSUME Given, Inv, NEW w \in Waiters, \A n \in Notifiers : ~In(n, w), CancelWait(w)
  PROVE  /\ mem' \in Memory /\ ~violated' /\ Listed'
         /\ Linked(mem, Awaiters, w) <=> In(Awaiters, w)
         /\ \A n \in Notifiers : mem'.head[n] = mem.head[n]
         /\ \A k \in Lists, x \in Waiters : In(k, x)' <=> In(k, x) /\ x # w
         /\ ~In(Awaiters, w) => mem' = mem
         /\ In(Awaiters, w) => \E i \in 1..Len(Line(Awaiters)) :
              Line(Awaiters)[i] = w /\ Line(Awaiters)' = Without(Line(Awaiters), i)
<1>0. /\ Null \notin Waiters /\ mem \in Memory /\ Listed /\ Awaiters \in Lists
      /\ Holds(mem, Awaiters, Line(Awaiters)) /\ ~violated /\ Awaiters \notin Notifiers
  BY FutexAssumption, Zenon DEF Inv, Types, Listed, Lists
<1>1. /\ mem' = Remove(mem, Awaiters, w)
      /\ violated' = (violated \/ ~RemoveAssert(mem, Awaiters, w))
  BY Zenon DEF CancelWait
<1> DEFINE s == Line(Awaiters)
<1>2. CASE ~In(Awaiters, w)
  <2>1. \A l \in Lists : ~In(l, w)
    BY <1>2, Zenon DEF Lists
  <2>2. mem.next[w] = Null /\ mem.prev[w] = Null
    BY <1>0, <2>1, Zenon DEF Listed
  <2>3. mem.head[Awaiters] # w
    <3>1. s \in Seq(Waiters) /\ mem.head[Awaiters] = IF Len(s) = 0 THEN Null ELSE s[1]
      BY <1>0, Zenon DEF Holds
    <3>2. Len(s) # 0 => 1 \in 1..Len(s)
      <4> HIDE DEF s
      <4> QED
        BY <3>1
    <3>3. \A i \in 1..Len(s) : s[i] # w
      BY <1>2, Zenon DEF In, Inside
    <3> QED
      BY <1>0, <3>1, <3>2, <3>3, Zenon
  <2>4. ~Linked(mem, Awaiters, w)
    BY <2>2, <2>3, Zenon DEF Linked
  <2>5. mem' = mem /\ ~violated'
    BY <1>0, <1>1, <2>4, Zenon DEF Remove, RemoveAssert
  <2>6. Listed' /\ \A k \in Lists, x \in Waiters : In(k, x)' <=> In(k, x) /\ x # w
    BY <1>0, <2>1, <2>5, SameLists, Zenon
  <2> QED
    BY <1>0, <1>2, <2>4, <2>5, <2>6, Zenon
<1>3. CASE In(Awaiters, w)
  <2>1. PICK i \in 1..Len(s) : s[i] = w
    BY <1>3, Zenon DEF In, Inside
  <2>2. Removed(mem, Awaiters, s, i, Remove(mem, Awaiters, s[i]))
    BY <1>0, RemoveHolds, Zenon
  <2>3. /\ Linked(mem, Awaiters, w) /\ RemoveAssert(mem, Awaiters, w)
        /\ mem' \in Memory
        /\ Holds(mem', Awaiters, Without(s, i))
        /\ \A x : Inside(Without(s, i), x) <=> In(Awaiters, x) /\ x # w
        /\ mem'.next[w] = Null
        /\ mem'.prev[w] = Null
        /\ \A k \in Lists \ {Awaiters} : mem'.head[k] = mem.head[k] /\ mem'.tail[k] = mem.tail[k]
        /\ \A x \in Waiters : ~In(Awaiters, x) =>
             mem'.next[x] = mem.next[x] /\ mem'.prev[x] = mem.prev[x]
    <3>1. Removed(mem, Awaiters, s, i, mem')
      BY <1>1, <2>1, <2>2, Zenon
    <3> QED
      BY <2>1, <3>1, Zenon DEF Removed, In
  <2>4. \A k \in Lists \ {Awaiters} : ~In(k, w)
    BY Zenon DEF Lists
  <2>5. /\ Line(Awaiters)' = Without(s, i)
        /\ \A k \in Lists \ {Awaiters} : Line(k)' = Line(k)
        /\ Listed'
    <3>1. \A x \in Waiters : Inside(Without(s, i), x) => In(Awaiters, x) \/ x = w
      BY <2>3, Zenon
    <3>2. \A x \in Waiters : (In(Awaiters, x) \/ x = w) /\ ~Inside(Without(s, i), x) =>
            mem'.next[x] = Null /\ mem'.prev[x] = Null
      BY <2>3, Zenon
    <3>3. \A x \in Waiters : ~In(Awaiters, x) /\ x # w =>
            mem'.next[x] = mem.next[x] /\ mem'.prev[x] = mem.prev[x]
      BY <2>3, Zenon
    <3> QED
      BY <1>0, <2>3, <2>4, <3>1, <3>2, <3>3, Relisted, Zenon
  <2>6. \A k \in Lists, x \in Waiters : In(k, x)' <=> In(k, x) /\ x # w
    <3>1. \A x \in Waiters : In(Awaiters, x)' <=> In(Awaiters, x) /\ x # w
      BY <2>3, <2>5, Zenon DEF In
    <3>2. \A k \in Lists \ {Awaiters}, x \in Waiters : In(k, x)' <=> In(k, x)
      BY <2>5, Zenon DEF In
    <3> QED
      BY <2>4, <3>1, <3>2, Zenon
  <2>7. ~violated'
    BY <1>0, <1>1, <2>3, Zenon
  <2>8. \A n \in Notifiers : n \in Lists \ {Awaiters}
    BY <1>0, Zenon DEF Lists
  <2> QED
    BY <1>3, <2>1, <2>3, <2>5, <2>6, <2>7, <2>8, Zenon
<1> QED
  BY <1>2, <1>3, Zenon

(* wait_awaiters_ is moved to the empty list of a notifier. *)
LEMMA Moves ==
  ASSUME Given, Inv, NEW n \in Notifiers, mem.head[n] = Null, mem' = Move(mem, Awaiters, n)
  PROVE  /\ mem' \in Memory /\ Listed'
         /\ Line(Awaiters)' = <<>> /\ Line(n)' = Line(Awaiters)
         /\ \A k \in Notifiers \ {n} : mem'.head[k] = mem.head[k]
         /\ \A k \in Lists : \A x : In(k, x)' <=>
              IF k = n THEN In(Awaiters, x) ELSE k # Awaiters /\ In(k, x)
<1>0. /\ Null \notin Waiters /\ mem \in Memory /\ Listed /\ Awaiters \in Lists
      /\ Holds(mem, Awaiters, Line(Awaiters)) /\ Awaiters # n /\ n \in Lists
      /\ Laws /\ Awaiters \notin Notifiers
  BY FutexAssumption, Zenon DEF Inv, Types, Listed, Lists, Given
<1>1. /\ mem' \in Memory
      /\ mem'.next = mem.next /\ mem'.prev = mem.prev
      /\ mem'.head[Awaiters] = Null /\ mem'.tail[Awaiters] = Null
      /\ mem'.head[n] = mem.head[Awaiters] /\ mem'.tail[n] = mem.tail[Awaiters]
      /\ \A k \in Lists \ {Awaiters, n} : mem'.head[k] = mem.head[k] /\ mem'.tail[k] = mem.tail[k]
  BY <1>0, Zenon DEF Move, Memory, Node
<1>2. Holds(mem', Awaiters, <<>>)
  BY <1>1, HoldsNone, Zenon
<1>3. Holds(mem', n, Line(Awaiters))
  BY <1>0, <1>1 DEF Holds
<1>4. ASSUME NEW k \in Lists \ {Awaiters, n} PROVE Holds(mem', k, Line(k))
  <2>1. Holds(mem, k, Line(k))
    BY <1>0, Zenon DEF Listed
  <2> QED
    BY <1>1, <2>1 DEF Holds
<1>5. /\ Line(Awaiters)' = <<>> /\ Line(n)' = Line(Awaiters)
      /\ \A k \in Lists \ {Awaiters, n} : Line(k)' = Line(k)
  BY <1>0, <1>2, <1>3, <1>4, WalkHolds, Zenon DEF Line
<1>6. ASSUME NEW x PROVE ~In(Awaiters, x)' /\ ~In(n, x)
  <2>1. 1..Len(<<>>) = {}
    BY SMT, Zenon
  <2>2. ~Inside(<<>>, x)
    BY <2>1, Zenon DEF Inside
  <2>3. Line(n) = <<>>
    <3>1. Holds(mem, n, Line(n)) /\ Null \notin Waiters
      BY <1>0, Zenon DEF Listed
    <3> QED
      BY <3>1, LooksEmpty
  <2> QED
    BY <1>5, <2>2, <2>3, Zenon DEF In
<1>7. \A k \in Lists : \A x : In(k, x)' <=>
        IF k = n THEN In(Awaiters, x) ELSE k # Awaiters /\ In(k, x)
  <2>1. ASSUME NEW k \in Lists, NEW x
        PROVE  In(k, x)' <=> IF k = n THEN In(Awaiters, x) ELSE k # Awaiters /\ In(k, x)
    <3>1. CASE k = n
      BY <1>5, <3>1, Zenon DEF In
    <3>2. CASE k = Awaiters
      BY <1>0, <1>6, <3>2, Zenon
    <3>3. CASE k # n /\ k # Awaiters
      BY <1>5, <3>3, Zenon DEF In
    <3> QED
      BY <3>1, <3>2, <3>3, Zenon
  <2> QED
    BY <2>1, Zenon
<1>8. Listed'
  <2>1. \A k \in Lists : Holds(mem', k, Line(k)')
    BY <1>2, <1>3, <1>4, <1>5, Zenon
  <2>2. \A j, k \in Lists, x \in Waiters : In(j, x)' /\ In(k, x)' => j = k
    BY <1>0, <1>6, <1>7, Zenon DEF Listed
  <2>3. ASSUME NEW x \in Waiters, \A k \in Lists : ~In(k, x)'
        PROVE  mem'.next[x] = Null /\ mem'.prev[x] = Null
    <3>1. \A k \in Lists : ~In(k, x)
      BY <1>0, <1>6, <1>7, <2>3, Zenon
    <3> QED
      BY <1>0, <1>1, <3>1, Zenon DEF Listed
  <2> QED
    BY <2>1, <2>2, <2>3, Zenon DEF Listed
<1>9. \A k \in Notifiers \ {n} : k \in Lists \ {Awaiters, n}
  BY <1>0, Zenon DEF Lists
<1> QED
  BY <1>1, <1>5, <1>7, <1>8, <1>9, Zenon
-----------------------------------------------------------------------------
(* A waiter that is as much in a list, in a hand, and awaited as before is *)
(* in one place as before.                                                 *)
LEMMA KeepsPlace ==
  ASSUME NEW x \in Waiters, Where(x),
         pc'[x] = "idle" <=> pc[x] = "idle", stop'[x] = "removed" <=> stop[x] = "removed",
         scheduled'[x] = scheduled[x],
         (\E l \in Lists : In(l, x)') <=> \E l \in Lists : In(l, x),
         \A n \in Notifiers : hand'[n] = x <=> hand[n] = x
  PROVE  Where(x)'
<1>1. Away(x)' <=> Away(x)
  BY Zenon DEF Away
<1>2. \A l \in Lists : In(l, x)' => Away(x)' /\ \A n \in Notifiers : hand'[n] # x
  BY <1>1, Zenon DEF Where
<1>3. \A n \in Notifiers : hand'[n] = x => Away(x)'
  BY <1>1, Zenon DEF Where
<1>4. \A n, k \in Notifiers : hand'[n] = x /\ hand'[k] = x => n = k
  BY Zenon DEF Where
<1>5. /\ stop'[x] = "removed" => scheduled'[x] = 0
      /\ scheduled'[x] \in {0, 1}
      /\ scheduled'[x] = 1 => pc'[x] # "idle"
  BY Zenon DEF Where
<1>6. pc'[x] # "idle" => \/ \E l \in Lists : In(l, x)'
                         \/ \E n \in Notifiers : hand'[n] = x
                         \/ stop'[x] = "removed"
                         \/ scheduled'[x] = 1
  BY Zenon DEF Where
<1> QED
  BY <1>2, <1>3, <1>4, <1>5, <1>6, Zenon DEF Where

(* A waiter that a step does not concern stays where it is. *)
LEMMA Stays ==
  ASSUME NEW x \in Waiters, Where(x), Stage(x),
         pc'[x] = pc[x], stop'[x] = stop[x], scheduled'[x] = scheduled[x],
         pending'[x] = pending[x], result'[x] = result[x],
         (\E l \in Lists : In(l, x)') <=> \E l \in Lists : In(l, x),
         \A n \in Notifiers : hand'[n] = x <=> hand[n] = x
  PROVE  Where(x)' /\ Stage(x)'
<1>1. Where(x)'
  BY KeepsPlace, Zenon
<1>2. Stage(x)'
  BY Zenon DEF Stage
<1> QED
  BY <1>1, <1>2, Zenon

(* The handle of a waiter whose stop callback is on its way is in no local *)
(* list of notify_all_.                                                    *)
LEMMA NotLocal ==
  ASSUME Inv, NEW w \in Waiters, stop[w] \notin {"no", "over"}
  PROVE  \A n \in Notifiers : ~In(n, w) /\ (at[n] = "idle" \/ ~(all \/ ~alive))
<1> SUFFICES ASSUME NEW n \in Notifiers
             PROVE  ~In(n, w) /\ (at[n] = "idle" \/ ~(all \/ ~alive))
  OBVIOUS
<1>1. at[n] = "idle" \/ ~(all \/ ~alive)
  BY Zenon DEF Inv, Calls
<1>2. mem.head[n] = Null
  <2>1. "loop" # "idle"
    OBVIOUS
  <2> QED
    BY <1>1, <2>1, Zenon DEF Inv, Calls
<1>3. Holds(mem, n, Line(n)) /\ Null \notin Waiters
  BY FutexAssumption, Zenon DEF Inv, Listed, Lists
<1>4. Line(n) = <<>> /\ Len(Line(n)) = 0
  BY <1>2, <1>3, LooksEmpty, Zenon
<1>5. ~Inside(Line(n), w)
  BY <1>4 DEF Inside
<1> QED
  BY <1>1, <1>5, Zenon DEF In

(* wait() of a coroutine that is not waiting: it is in nobody's hands. *)
LEMMA IdleIsNowhere ==
  ASSUME Inv, NEW w \in Waiters, pc[w] = "idle"
  PROVE  /\ \A l \in Lists : ~In(l, w)
         /\ \A n \in Notifiers : hand[n] # w
         /\ scheduled[w] = 0 /\ stop[w] = "no" /\ pending[w] = 0
<1>0. Where(w) /\ Stage(w)
  BY Zenon DEF Inv, Placed, Stages
<1>1. /\ \A l \in Lists : ~In(l, w)
      /\ \A n \in Notifiers : hand[n] # w
  BY <1>0, Zenon DEF Where, Away
<1>2. scheduled[w] = 0
  BY <1>0, Zenon DEF Where
<1>3. stop[w] = "no" /\ pending[w] = 0
  BY <1>0, Zenon DEF Stage
<1> QED
  BY <1>1, <1>2, <1>3, Zenon

(* start(): the value has changed, or the handle is enlisted. *)
LEMMA WaitStep ==
  ASSUME Given, Inv, NEW w \in Waiters, NEW v \in Values, Wait(w, v), all' = all
  PROVE  Inv'
<1>0. Types /\ ~violated /\ Placed /\ Stages /\ Calls /\ Awaiters \in Lists
  BY Zenon DEF Inv, Lists
<1>1. /\ pc[w] = "idle" /\ old' = [old EXCEPT ![w] = v] /\ value' = value /\ alive' = alive
      /\ scheduled' = scheduled /\ pending' = pending /\ stop' = stop /\ at' = at /\ code' = code
      /\ hand' = hand
  BY Zenon DEF Wait, notifier
<1>2. /\ \A l \in Lists : ~In(l, w)
      /\ \A n \in Notifiers : hand[n] # w
      /\ scheduled[w] = 0 /\ stop[w] = "no" /\ pending[w] = 0
  BY <1>1, IdleIsNowhere, Zenon
<1>3. CASE value # v
  <2>1. /\ result' = [result EXCEPT ![w] = "ok"] /\ mem' = mem /\ violated' = violated /\ pc' = pc
    BY <1>3, Zenon DEF Wait
  <2>2. Types'
    BY <1>0, <1>1, <2>1, Zenon DEF Types
  <2>3. Listed' /\ \A l, x : In(l, x)' <=> In(l, x)
    BY <2>1, SameLists, Zenon DEF Inv
  <2>4. \A x \in Waiters : result'[x] = IF x = w THEN "ok" ELSE result[x]
    BY <1>0, <2>1, Zenon DEF Types
  <2>5. ASSUME NEW x \in Waiters, x # w PROVE Where(x)' /\ Stage(x)'
    BY <1>0, <1>1, <2>1, <2>3, <2>4, <2>5, Stays, Zenon DEF Placed, Stages
  <2>6. Where(w)'
    <3>1. Where(w)
      BY <1>0, Zenon DEF Placed
    <3> QED
      BY <1>1, <2>1, <2>3, <3>1, KeepsPlace, Zenon
  <2>7. Stage(w)'
    <3>1. result'[w] = "ok"
      BY <2>4, Zenon
    <3> QED
      BY <1>1, <1>2, <2>1, <3>1, Zenon DEF Stage
  <2>8. Calls'
    BY <1>0, <1>1, <2>1, Zenon DEF Calls
  <2> QED
    BY <1>0, <2>1, <2>2, <2>3, <2>5, <2>6, <2>7, <2>8, Zenon DEF Inv, Placed, Stages
<1>4. CASE value = v
  <2>1. /\ mem' = PushBack(mem, Awaiters, w)
        /\ violated' = (violated \/ ~PushBackAssert(mem, w))
        /\ pc' = [pc EXCEPT ![w] = "started"]
        /\ result' = [result EXCEPT ![w] = "unset"]
    BY <1>4, Zenon DEF Wait
  <2>2. /\ mem' \in Memory /\ PushBackAssert(mem, w) /\ Listed'
        /\ \A n \in Notifiers : mem'.head[n] = mem.head[n]
        /\ \A l \in Lists : \A x : In(l, x)' <=> In(l, x) \/ (l = Awaiters /\ x = w)
    BY <1>1, <2>1, Enlists, Zenon
  <2>3. Types' /\ ~violated'
    BY <1>0, <1>1, <2>1, <2>2, Zenon DEF Types
  <2>4. /\ \A x \in Waiters : pc'[x] = IF x = w THEN "started" ELSE pc[x]
        /\ \A x \in Waiters : result'[x] = IF x = w THEN "unset" ELSE result[x]
    BY <1>0, <2>1, Zenon DEF Types
  <2>5. ASSUME NEW x \in Waiters, x # w PROVE Where(x)' /\ Stage(x)'
    <3>1. \A l \in Lists : In(l, x)' <=> In(l, x)
      BY <2>2, <2>5, Zenon
    <3>2. pc'[x] = pc[x] /\ result'[x] = result[x]
      BY <2>4, <2>5, Zenon
    <3> QED
      BY <1>0, <1>1, <3>1, <3>2, Stays, Zenon DEF Placed, Stages
  <2>6. pc'[w] = "started" /\ result'[w] = "unset"
    BY <2>4, Zenon
  <2>7. Where(w)'
    <3>1. Away(w)' /\ In(Awaiters, w)'
      BY <1>0, <1>1, <1>2, <2>2, <2>6, Zenon DEF Away
    <3>2. \A n \in Notifiers : hand'[n] # w
      BY <1>1, <1>2, Zenon
    <3> QED
      BY <1>0, <1>1, <1>2, <3>1, <3>2, Zenon DEF Where, Away
  <2>8. Stage(w)'
    BY <1>1, <1>2, <2>6 DEF Stage
  <2>9. Calls'
    BY <1>0, <1>1, <2>2, Zenon DEF Calls
  <2> QED
    BY <2>2, <2>3, <2>5, <2>7, <2>8, <2>9, Zenon DEF Inv, Placed, Stages
<1> QED
  BY <1>3, <1>4, Zenon

(* The rest of start(), with the stop callback if a stop was requested. *)
LEMMA RegisterStep ==
  ASSUME Given, Inv, NEW w \in Waiters, Register(w), all' = all
  PROVE  Inv'
<1>0. Types /\ ~violated /\ Placed /\ Stages /\ Calls /\ Awaiters \in Lists
  BY Zenon DEF Inv, Lists
<1>1. /\ pc[w] = "started" /\ pc' = [pc EXCEPT ![w] = "suspended"]
      /\ pending' = [pending EXCEPT ![w] = @ + 1]
      /\ stop' = [stop EXCEPT ![w] = IF @ = "requested" THEN "over" ELSE @]
      /\ value' = value /\ alive' = alive /\ old' = old /\ at' = at /\ code' = code /\ hand' = hand
  BY Zenon DEF Register, notifier
<1>2. Where(w) /\ Stage(w)
  BY <1>0, Zenon DEF Placed, Stages
<1>3. /\ \A x \in Waiters \ {w} : pc'[x] = pc[x] /\ pending'[x] = pending[x] /\ stop'[x] = stop[x]
      /\ pc'[w] = "suspended" /\ pending'[w] = pending[w] + 1
      /\ stop'[w] = IF stop[w] = "requested" THEN "over" ELSE stop[w]
  BY <1>0, <1>1, Zenon DEF Types
<1>4. CASE stop[w] # "requested"
  <2>1. mem' = mem /\ violated' = violated /\ result' = result /\ scheduled' = scheduled
    BY <1>4, Zenon DEF Register
  <2>2. Types'
    BY <1>0, <1>1, <2>1 DEF Types
  <2>3. Listed' /\ \A l, x : In(l, x)' <=> In(l, x)
    BY <2>1, SameLists, Zenon DEF Inv
  <2>4. ASSUME NEW x \in Waiters \ {w} PROVE Where(x)' /\ Stage(x)'
    BY <1>0, <1>1, <1>3, <2>1, <2>3, Stays, Zenon DEF Placed, Stages
  <2>5. Where(w)'
    <3>1. (pc'[w] = "idle" <=> pc[w] = "idle") /\ stop'[w] = stop[w]
      BY <1>1, <1>3, <1>4, Zenon
    <3> QED
      BY <1>1, <1>2, <2>1, <2>3, <3>1, KeepsPlace, Zenon
  <2>6. Stage(w)'
    BY <1>1, <1>2, <1>3, <1>4, <2>1 DEF Stage
  <2>7. \A x \in Waiters : stop'[x] = stop[x]
    BY <1>3, <1>4, Zenon
  <2>8. Calls'
    BY <1>0, <1>1, <2>1, <2>7, Zenon DEF Calls
  <2> QED
    BY <1>0, <2>1, <2>2, <2>3, <2>4, <2>5, <2>6, <2>8, Zenon DEF Inv, Placed, Stages
<1>5. CASE stop[w] = "requested"
  <2>1. CancelWait(w)
    BY <1>5, Zenon DEF Register
  <2>2. stop[w] \notin {"no", "over"}
    BY <1>5, Zenon
  <2>3. \A n \in Notifiers : ~In(n, w) /\ (at[n] = "idle" \/ ~(all \/ ~alive))
    BY <2>2, NotLocal, Zenon
  <2>4. /\ mem' \in Memory /\ ~violated' /\ Listed'
        /\ Linked(mem, Awaiters, w) <=> In(Awaiters, w)
        /\ \A n \in Notifiers : mem'.head[n] = mem.head[n]
        /\ \A k \in Lists, x \in Waiters : In(k, x)' <=> In(k, x) /\ x # w
    BY <2>1, <2>3, Unlists, Zenon
  <2>5. ASSUME NEW x \in Waiters \ {w}, result'[x] = result[x], scheduled'[x] = scheduled[x]
        PROVE  Where(x)' /\ Stage(x)'
    <3>1. \A l \in Lists : In(l, x)' <=> In(l, x)
      BY <2>4, Zenon
    <3> QED
      BY <1>0, <1>1, <1>3, <2>5, <3>1, Stays, Zenon DEF Placed, Stages
  <2>6. Calls'
    BY <1>0, <1>1, <2>3, <2>4, Zenon DEF Calls
  <2>7. \A l \in Lists : ~In(l, w)'
    BY <2>4, Zenon
  <2>8. stop'[w] = "over"
    BY <1>3, <1>5, Zenon
  <2>9. CASE In(Awaiters, w)
    <3>1. result' = [result EXCEPT ![w] = "ECANCELED"] /\ scheduled' = [scheduled EXCEPT ![w] = @ + 1]
      BY <1>5, <2>4, <2>9, Zenon DEF Register, Schedule
    <3>2. Types'
      BY <1>0, <1>1, <2>4, <3>1 DEF Types
    <3>3. scheduled[w] = 0 /\ \A n \in Notifiers : hand[n] # w
      BY <1>0, <1>2, <2>9, Zenon DEF Where, Away
    <3>4. /\ \A x \in Waiters \ {w} : result'[x] = result[x] /\ scheduled'[x] = scheduled[x]
          /\ result'[w] = "ECANCELED" /\ scheduled'[w] = 1
      BY <1>0, <3>1, <3>3 DEF Types
    <3>5. stop'[w] # "removed" /\ pc'[w] # "idle"
      BY <1>3, <2>8, Zenon
    <3>6. Where(w)'
      BY <1>1, <2>7, <3>3, <3>4, <3>5, Zenon DEF Where
    <3>7. Stage(w)'
      BY <1>1, <1>2, <1>3, <2>8, <3>4 DEF Stage
    <3> QED
      BY <2>4, <2>5, <2>6, <3>2, <3>4, <3>6, <3>7, Zenon DEF Inv, Placed, Stages
  <2>10. CASE ~In(Awaiters, w)
    <3>1. result' = result /\ scheduled' = scheduled
      BY <1>5, <2>4, <2>10, Zenon DEF Register
    <3>2. Types'
      BY <1>0, <1>1, <2>4, <3>1 DEF Types
    <3>3. \A l \in Lists : ~In(l, w)
      BY <2>3, <2>10, Zenon DEF Lists
    <3>4. (pc'[w] = "idle" <=> pc[w] = "idle") /\ (stop'[w] = "removed" <=> stop[w] = "removed")
      BY <1>1, <1>3, <1>5, <2>8, Zenon
    <3>5. Where(w)'
      BY <1>1, <1>2, <2>7, <3>1, <3>3, <3>4, KeepsPlace, Zenon
    <3>6. Stage(w)'
      BY <1>1, <1>2, <1>3, <2>8, <3>1 DEF Stage
    <3> QED
      BY <2>4, <2>5, <2>6, <3>1, <3>2, <3>5, <3>6, Zenon DEF Inv, Placed, Stages
  <2> QED
    BY <2>9, <2>10, Zenon
<1> QED
  BY <1>4, <1>5, Zenon

(* Another thread requests a stop. *)
LEMMA RequestStopStep ==
  ASSUME Given, Inv, NEW w \in Waiters, RequestStop(w), all' = all
  PROVE  Inv'
<1>0. Types /\ ~violated /\ Placed /\ Stages /\ Calls
  BY Zenon DEF Inv
<1>1. /\ pc[w] # "idle" /\ stop[w] = "no" /\ alive
      /\ stop' = [stop EXCEPT ![w] = IF pc[w] = "suspended" THEN "callback" ELSE "requested"]
      /\ value' = value /\ mem' = mem /\ violated' = violated /\ alive' = alive /\ result' = result
      /\ scheduled' = scheduled /\ hand' = hand /\ pc' = pc /\ old' = old /\ pending' = pending
      /\ at' = at /\ code' = code
  BY Zenon DEF RequestStop, waiter, notifier
<1>2. ~all \/ \A n \in Notifiers : at[n] = "idle"
  BY Zenon DEF RequestStop, Given
<1>3. /\ \A x \in Waiters \ {w} : stop'[x] = stop[x]
      /\ stop'[w] = IF pc[w] = "suspended" THEN "callback" ELSE "requested"
  BY <1>0, <1>1, Zenon DEF Types
<1>4. Types'
  BY <1>0, <1>1, Zenon DEF Types
<1>5. Listed' /\ \A l, x : In(l, x)' <=> In(l, x)
  BY <1>1, SameLists, Zenon DEF Inv
<1>6. ASSUME NEW x \in Waiters \ {w} PROVE Where(x)' /\ Stage(x)'
  BY <1>0, <1>1, <1>3, <1>5, Stays, Zenon DEF Placed, Stages
<1>7. Where(w) /\ Stage(w)
  BY <1>0, Zenon DEF Placed, Stages
<1>8. Where(w)'
  <2>1. stop'[w] = "removed" <=> stop[w] = "removed"
    BY <1>1, <1>3
  <2> QED
    BY <1>1, <1>5, <1>7, <2>1, KeepsPlace, Zenon
<1>9. Stage(w)'
  <2>1. pc[w] \in {"idle", "started", "suspended"}
    BY <1>0, Zenon DEF Types
  <2> QED
    BY <1>1, <1>3, <1>7, <2>1 DEF Stage
<1>10. Calls'
  BY <1>0, <1>1, <1>2, Zenon DEF Calls
<1> QED
  BY <1>0, <1>1, <1>4, <1>5, <1>6, <1>8, <1>9, <1>10, Zenon DEF Inv, Placed, Stages

(* cancel_ on the thread of the stop request: the critical section, *)
LEMMA CancelLockStep ==
  ASSUME Given, Inv, NEW w \in Waiters, CancelLock(w), all' = all
  PROVE  Inv'
<1>0. Types /\ ~violated /\ Placed /\ Stages /\ Calls
  BY Zenon DEF Inv
<1>1. /\ stop[w] = "callback" /\ CancelWait(w)
      /\ stop' = [stop EXCEPT ![w] = IF Linked(mem, Awaiters, w) THEN "removed" ELSE "over"]
      /\ value' = value /\ alive' = alive /\ result' = result /\ scheduled' = scheduled
      /\ hand' = hand /\ pc' = pc /\ old' = old /\ pending' = pending /\ at' = at /\ code' = code
  BY Zenon DEF CancelLock, waiter, notifier
<1>2. stop[w] \notin {"no", "over"}
  BY <1>1, Zenon
<1>3. \A n \in Notifiers : ~In(n, w) /\ (at[n] = "idle" \/ ~(all \/ ~alive))
  BY <1>2, NotLocal, Zenon
<1>4. /\ mem' \in Memory /\ ~violated' /\ Listed'
      /\ Linked(mem, Awaiters, w) <=> In(Awaiters, w)
      /\ \A n \in Notifiers : mem'.head[n] = mem.head[n]
      /\ \A k \in Lists, x \in Waiters : In(k, x)' <=> In(k, x) /\ x # w
  BY <1>1, <1>3, Unlists, Zenon
<1>5. /\ \A x \in Waiters \ {w} : stop'[x] = stop[x]
      /\ stop'[w] = IF In(Awaiters, w) THEN "removed" ELSE "over"
  <2>1. stop'[w] = IF Linked(mem, Awaiters, w) THEN "removed" ELSE "over"
    BY <1>0, <1>1, Zenon DEF Types
  <2> QED
    BY <1>0, <1>1, <1>4, <2>1, Zenon DEF Types
<1>6. Types'
  BY <1>0, <1>1, <1>4, Zenon DEF Types
<1>7. ASSUME NEW x \in Waiters \ {w} PROVE Where(x)' /\ Stage(x)'
  <2>1. \A l \in Lists : In(l, x)' <=> In(l, x)
    BY <1>4, Zenon
  <2> QED
    BY <1>0, <1>1, <1>5, <2>1, Stays, Zenon DEF Placed, Stages
<1>8. Where(w) /\ Stage(w)
  BY <1>0, Zenon DEF Placed, Stages
<1>9. Where(w)'
  <2>1. \A l \in Lists : ~In(l, w)'
    BY <1>4, Zenon
  <2>2. CASE In(Awaiters, w)
    <3>1. scheduled[w] = 0 /\ (\A n \in Notifiers : hand[n] # w) /\ pc[w] # "idle"
      <4>1. Awaiters \in Lists
        BY Zenon DEF Lists
      <4> QED
        BY <1>8, <2>2, <4>1, Zenon DEF Where, Away
    <3>2. stop'[w] = "removed"
      BY <1>5, <2>2, Zenon
    <3> QED
      BY <1>1, <2>1, <3>1, <3>2, Zenon DEF Where
  <2>3. CASE ~In(Awaiters, w)
    <3>1. \A l \in Lists : ~In(l, w)
      BY <1>3, <2>3, Zenon DEF Lists
    <3>2. stop'[w] = "removed" <=> stop[w] = "removed"
      BY <1>1, <1>5, <2>3
    <3> QED
      BY <1>1, <1>8, <2>1, <3>1, <3>2, KeepsPlace, Zenon
  <2> QED
    BY <2>2, <2>3, Zenon
<1>10. Stage(w)'
  <2>1. stop'[w] \in {"removed", "over"}
    BY <1>5, Zenon
  <2> QED
    BY <1>1, <1>8, <2>1, Zenon DEF Stage
<1>11. Calls'
  BY <1>0, <1>1, <1>3, <1>4, Zenon DEF Calls
<1> QED
  BY <1>4, <1>6, <1>7, <1>9, <1>10, <1>11, Zenon DEF Inv, Placed, Stages

(* and the scheduling of the handle it has removed. *)
LEMMA CancelScheduleStep ==
  ASSUME Given, Inv, NEW w \in Waiters, CancelSchedule(w), all' = all
  PROVE  Inv'
<1>0. Types /\ ~violated /\ Placed /\ Stages /\ Calls
  BY Zenon DEF Inv
<1>1. /\ stop[w] = "removed" /\ stop' = [stop EXCEPT ![w] = "over"]
      /\ result' = [result EXCEPT ![w] = "ECANCELED"] /\ scheduled' = [scheduled EXCEPT ![w] = @ + 1]
      /\ value' = value /\ mem' = mem /\ violated' = violated /\ alive' = alive
      /\ hand' = hand /\ pc' = pc /\ old' = old /\ pending' = pending /\ at' = at /\ code' = code
  BY Zenon DEF CancelSchedule, Schedule, waiter, notifier
<1>2. Where(w) /\ Stage(w)
  BY <1>0, Zenon DEF Placed, Stages
<1>3. scheduled[w] = 0 /\ (\A n \in Notifiers : hand[n] # w) /\ \A l \in Lists : ~In(l, w)
  BY <1>1, <1>2, Zenon DEF Where, Away
<1>4. /\ \A x \in Waiters \ {w} : /\ stop'[x] = stop[x] /\ scheduled'[x] = scheduled[x]
                                  /\ result'[x] = result[x]
      /\ stop'[w] = "over" /\ scheduled'[w] = 1 /\ result'[w] = "ECANCELED"
  BY <1>0, <1>1, <1>3 DEF Types
<1>5. Types'
  BY <1>0, <1>1 DEF Types
<1>6. Listed' /\ \A l, x : In(l, x)' <=> In(l, x)
  BY <1>1, SameLists, Zenon DEF Inv
<1>7. ASSUME NEW x \in Waiters \ {w} PROVE Where(x)' /\ Stage(x)'
  BY <1>0, <1>1, <1>4, <1>6, Stays, Zenon DEF Placed, Stages
<1>8. Stage(w)'
  BY <1>1, <1>2, <1>4, Zenon DEF Stage
<1>9. Where(w)'
  <2>1. pc[w] # "idle" /\ stop'[w] # "removed"
    BY <1>1, <1>2, <1>4, Zenon DEF Stage
  <2> QED
    BY <1>1, <1>3, <1>4, <1>6, <2>1, Zenon DEF Where
<1>10. Calls'
  BY <1>0, <1>1, <1>4, Zenon DEF Calls
<1> QED
  BY <1>0, <1>1, <1>5, <1>6, <1>7, <1>8, <1>9, <1>10, Zenon DEF Inv, Placed, Stages

(* The runtime resumes a waiter. *)
LEMMA InvokeStep ==
  ASSUME Given, Inv, NEW w \in Waiters, Invoke(w), all' = all
  PROVE  Inv'
<1>0. Types /\ ~violated /\ Placed /\ Stages /\ Calls
  BY Zenon DEF Inv
<1>1. /\ pc[w] = "suspended" /\ scheduled[w] > 0 /\ stop[w] \notin {"callback", "removed"}
      /\ pc' = [pc EXCEPT ![w] = "idle"] /\ scheduled' = [scheduled EXCEPT ![w] = @ - 1]
      /\ pending' = [pending EXCEPT ![w] = @ - 1] /\ stop' = [stop EXCEPT ![w] = "no"]
      /\ value' = value /\ mem' = mem /\ violated' = violated /\ alive' = alive /\ old' = old
      /\ result' = result /\ hand' = hand /\ at' = at /\ code' = code
  BY Zenon DEF Invoke, notifier
<1>2. Where(w) /\ Stage(w)
  BY <1>0, Zenon DEF Placed, Stages
<1>3. scheduled[w] = 1 /\ pending[w] = 1
  <2>1. scheduled[w] \in {0, 1}
    BY <1>2, Zenon DEF Where
  <2> QED
    BY <1>1, <1>2, <2>1 DEF Stage
<1>4. (\A n \in Notifiers : hand[n] # w) /\ \A l \in Lists : ~In(l, w)
  <2>1. scheduled[w] # 0
    BY <1>3
  <2> QED
    BY <1>2, <2>1, Zenon DEF Where, Away
<1>5. /\ \A x \in Waiters \ {w} : /\ stop'[x] = stop[x] /\ scheduled'[x] = scheduled[x]
                                  /\ pending'[x] = pending[x] /\ pc'[x] = pc[x]
      /\ stop'[w] = "no" /\ scheduled'[w] = 0 /\ pending'[w] = 0 /\ pc'[w] = "idle"
  BY <1>0, <1>1, <1>3 DEF Types
<1>6. Types'
  BY <1>0, <1>1, <1>3 DEF Types
<1>7. Listed' /\ \A l, x : In(l, x)' <=> In(l, x)
  BY <1>1, SameLists, Zenon DEF Inv
<1>8. ASSUME NEW x \in Waiters \ {w} PROVE Where(x)' /\ Stage(x)'
  BY <1>0, <1>1, <1>5, <1>7, Stays, Zenon DEF Placed, Stages
<1>9. Stage(w)'
  BY <1>1, <1>2, <1>3, <1>5, Zenon DEF Stage
<1>10. Where(w)'
  <2>1. scheduled'[w] # 1
    BY <1>5
  <2> QED
    BY <1>1, <1>4, <1>5, <1>7, <2>1, Zenon DEF Where
<1>11. Calls'
  BY <1>0, <1>1, <1>5, Zenon DEF Calls
<1> QED
  BY <1>0, <1>1, <1>6, <1>7, <1>8, <1>9, <1>10, <1>11, Zenon DEF Inv, Placed, Stages
-----------------------------------------------------------------------------
(* A step that leaves waiters, lists and hands alone keeps the places. *)
LEMMA NotifierOnly ==
  ASSUME Inv, UNCHANGED <<mem, violated, pc, pending, result, scheduled, stop, hand>>, Types', Calls'
  PROVE  Inv'
<1>1. Listed' /\ \A l, x : In(l, x)' <=> In(l, x)
  BY SameLists, Zenon DEF Inv
<1>2. ASSUME NEW x \in Waiters PROVE Where(x)' /\ Stage(x)'
  BY <1>1, Stays, Zenon DEF Inv, Placed, Stages
<1> QED
  BY <1>1, <1>2, Zenon DEF Inv, Placed, Stages

(* A thread stores a value and calls notify_one or notify_all. *)
LEMMA StoreStep ==
  ASSUME Given, Inv, NEW n \in Notifiers, NEW v \in Values, Store(n, v), all' = all
  PROVE  Inv'
<1>0. Types /\ Calls
  BY Zenon DEF Inv
<1>1. /\ alive /\ at[n] = "idle" /\ value' = v /\ at' = [at EXCEPT ![n] = IF all THEN "all" ELSE "one"]
      /\ (~all \/ \A w \in Waiters : stop[w] \in {"no", "over"})
      /\ mem' = mem /\ violated' = violated /\ alive' = alive /\ pc' = pc /\ old' = old
      /\ pending' = pending /\ result' = result /\ scheduled' = scheduled /\ stop' = stop
      /\ hand' = hand /\ code' = code
  BY Zenon DEF Store, waiter, Given
<1>2. /\ \A k \in Notifiers \ {n} : at'[k] = at[k]
      /\ at'[n] = IF all THEN "all" ELSE "one"
  BY <1>0, <1>1, Zenon DEF Types
<1>3. Types'
  BY <1>0, <1>1, Zenon DEF Types
<1>4. Calls'
  BY <1>0, <1>1, <1>2 DEF Calls
<1> QED
  BY <1>1, <1>3, <1>4, NotifierOnly, Zenon

(* A notifier is done. *)
LEMMA NotifyReturnStep ==
  ASSUME Given, Inv, NEW n \in Notifiers, NotifyReturn(n), all' = all
  PROVE  Inv'
<1>0. Types /\ Calls
  BY Zenon DEF Inv
<1>1. /\ hand[n] = Null /\ mem.head[n] = Null /\ at' = [at EXCEPT ![n] = "idle"]
      /\ mem' = mem /\ violated' = violated /\ alive' = alive /\ pc' = pc /\ old' = old
      /\ pending' = pending /\ result' = result /\ scheduled' = scheduled /\ stop' = stop
      /\ hand' = hand /\ code' = code /\ value' = value
  BY Zenon DEF NotifyReturn, waiter, IsEmpty
<1>2. /\ \A k \in Notifiers \ {n} : at'[k] = at[k]
      /\ at'[n] = "idle"
  BY <1>0, <1>1, Zenon DEF Types
<1>3. Types'
  BY <1>0, <1>1, Zenon DEF Types
<1>4. Calls'
  BY <1>0, <1>1, <1>2, Zenon DEF Calls
<1> QED
  BY <1>1, <1>3, <1>4, NotifierOnly, Zenon

(* The destructor begins. *)
LEMMA DestructStep ==
  ASSUME Given, Inv, NEW n \in Notifiers, Destruct(n), all' = all
  PROVE  Inv'
<1>0. Types /\ Calls
  BY Zenon DEF Inv
<1>1. /\ \A k \in Notifiers : at[k] = "idle"
      /\ \A w \in Waiters : stop[w] \in {"no", "over"}
      /\ alive' = FALSE /\ code' = [code EXCEPT ![n] = "EIDRM"] /\ at' = [at EXCEPT ![n] = "all"]
      /\ mem' = mem /\ violated' = violated /\ pc' = pc /\ old' = old
      /\ pending' = pending /\ result' = result /\ scheduled' = scheduled /\ stop' = stop
      /\ hand' = hand /\ value' = value
  BY Zenon DEF Destruct, waiter
<1>2. /\ \A k \in Notifiers \ {n} : at'[k] = at[k]
      /\ at'[n] = "all"
  BY <1>0, <1>1, Zenon DEF Types
<1>3. Types'
  BY <1>0, <1>1, Zenon DEF Types
<1>4. Calls'
  BY <1>0, <1>1, <1>2, Zenon DEF Calls
<1> QED
  BY <1>1, <1>3, <1>4, NotifierOnly, Zenon

(* A notifier takes the first handle of a list into its hands. *)
LEMMA Grasps ==
  ASSUME Given, Inv, NEW n \in Notifiers, NEW l \in Lists, hand[n] = Null, mem.head[l] # Null,
         mem' = PopFront(mem, l), hand' = [hand EXCEPT ![n] = mem.head[l]],
         UNCHANGED <<pc, pending, result, scheduled, stop>>
  PROVE  /\ mem' \in Memory /\ hand' \in [Notifiers -> Node] /\ Listed' /\ Placed' /\ Stages'
         /\ \A k \in Lists \ {l} : mem'.head[k] = mem.head[k]
<1>0. Types /\ Placed /\ Stages /\ Null \notin Waiters
  BY FutexAssumption, Zenon DEF Inv
<1>1. PICK e \in Waiters : e = mem.head[l]
  BY Takes, Zenon
<1>2. /\ mem' \in Memory /\ Listed' /\ In(l, e)
      /\ \A k \in Lists \ {l} : mem'.head[k] = mem.head[k]
      /\ \A k \in Lists, x \in Waiters : In(k, x)' <=> In(k, x) /\ x # e
  BY <1>1, Takes, Zenon
<1>3. /\ \A k \in Notifiers \ {n} : hand'[k] = hand[k]
      /\ hand'[n] = e /\ hand' \in [Notifiers -> Node]
  BY <1>0, <1>1, Zenon DEF Types, Node
<1>4. ASSUME NEW x \in Waiters \ {e} PROVE Where(x)' /\ Stage(x)'
  <2>1. \A k \in Lists : In(k, x)' <=> In(k, x)
    BY <1>2, Zenon
  <2>2. \A k \in Notifiers : hand'[k] = x <=> hand[k] = x
    BY <1>0, <1>3, Zenon
  <2> QED
    BY <1>0, <2>1, <2>2, Stays, Zenon DEF Placed, Stages
<1>5. Where(e) /\ Stage(e)
  BY <1>0, Zenon DEF Placed, Stages
<1>6. Away(e) /\ \A k \in Notifiers : hand[k] # e
  BY <1>2, <1>5, Zenon DEF Where
<1>7. Where(e)'
  <2>1. \A k \in Lists : ~In(k, e)'
    BY <1>2, Zenon
  <2>2. Away(e)'
    BY <1>6, Zenon DEF Away
  <2>3. \A k \in Notifiers : hand'[k] = e => k = n
    BY <1>3, <1>6, Zenon
  <2>4. \A k, j \in Notifiers : hand'[k] = e /\ hand'[j] = e => k = j
    BY <2>3, Zenon
  <2> QED
    BY <1>3, <1>5, <2>1, <2>2, <2>4, Zenon DEF Where
<1>8. Stage(e)'
  BY <1>5, Zenon DEF Stage
<1> QED
  BY <1>2, <1>3, <1>4, <1>7, <1>8, Zenon DEF Placed, Stages

(* notify_one: the critical section. *)
LEMMA NotifyOneStep ==
  ASSUME Given, Inv, NEW n \in Notifiers, NotifyOne(n), all' = all
  PROVE  Inv'
<1>0. Types /\ ~violated /\ Calls /\ Awaiters \in Lists /\ Awaiters \notin Notifiers
  BY FutexAssumption, Zenon DEF Inv, Lists
<1>1. /\ at[n] = "one" /\ hand' = [hand EXCEPT ![n] = mem.head[Awaiters]]
      /\ mem' = PopFront(mem, Awaiters) /\ at' = [at EXCEPT ![n] = "loop"]
      /\ violated' = violated /\ alive' = alive /\ pc' = pc /\ old' = old
      /\ pending' = pending /\ result' = result /\ scheduled' = scheduled /\ stop' = stop
      /\ value' = value /\ code' = code
  BY Zenon DEF NotifyOne, waiter, Front
<1>2. ~all /\ alive
  BY <1>0, <1>1, Zenon DEF Calls
<1>3. hand[n] = Null /\ mem.head[n] = Null
  <2>1. at[n] # "loop"
    BY <1>1, Zenon
  <2> QED
    BY <1>0, <2>1, Zenon DEF Calls
<1>4. /\ \A k \in Notifiers \ {n} : at'[k] = at[k] /\ hand'[k] = hand[k]
      /\ at'[n] = "loop"
  BY <1>0, <1>1, Zenon DEF Types
<1>5. CASE mem.head[Awaiters] = Null
  <2>1. mem' = mem
    BY <1>1, <1>5, Zenon DEF PopFront
  <2>2. hand' = hand
    BY <1>0, <1>1, <1>3, <1>5 DEF Types
  <2>3. Types'
    BY <1>0, <1>1, <2>1, <2>2, Zenon DEF Types
  <2>4. Calls'
    BY <1>0, <1>1, <1>2, <1>3, <1>4, <2>1, <2>2 DEF Calls
  <2> QED
    BY <1>1, <2>1, <2>2, <2>3, <2>4, NotifierOnly, Zenon
<1>6. CASE mem.head[Awaiters] # Null
  <2>1. /\ mem' \in Memory /\ hand' \in [Notifiers -> Node] /\ Listed' /\ Placed' /\ Stages'
        /\ \A k \in Lists \ {Awaiters} : mem'.head[k] = mem.head[k]
    BY <1>0, <1>1, <1>3, <1>6, Grasps, Zenon
  <2>2. \A k \in Notifiers : mem'.head[k] = mem.head[k]
    BY <1>0, <2>1, Zenon DEF Lists
  <2>3. Types'
    BY <1>0, <1>1, <2>1, Zenon DEF Types
  <2>4. Calls'
    BY <1>0, <1>1, <1>2, <1>3, <1>4, <2>2 DEF Calls
  <2> QED
    BY <1>0, <1>1, <2>1, <2>3, <2>4, Zenon DEF Inv
<1> QED
  BY <1>5, <1>6, Zenon

(* notify_all_: the critical section, *)
LEMMA NotifyAllStep ==
  ASSUME Given, Inv, NEW n \in Notifiers, NotifyAll(n), all' = all
  PROVE  Inv'
<1>0. /\ Types /\ ~violated /\ Placed /\ Stages /\ Calls /\ Awaiters \in Lists /\ n \in Lists
      /\ Awaiters # n
  BY FutexAssumption, Zenon DEF Inv, Lists
<1>1. /\ at[n] = "all" /\ mem' = Move(mem, Awaiters, n) /\ at' = [at EXCEPT ![n] = "loop"]
      /\ violated' = violated /\ alive' = alive /\ pc' = pc /\ old' = old
      /\ pending' = pending /\ result' = result /\ scheduled' = scheduled /\ stop' = stop
      /\ value' = value /\ code' = code /\ hand' = hand
  BY Zenon DEF NotifyAll, waiter
<1>2. mem.head[n] = Null
  <2>1. at[n] # "loop"
    BY <1>1, Zenon
  <2> QED
    BY <1>0, <2>1, Zenon DEF Calls
<1>3. /\ mem' \in Memory /\ Listed'
      /\ \A k \in Notifiers \ {n} : mem'.head[k] = mem.head[k]
      /\ \A k \in Lists : \A x : In(k, x)' <=>
           IF k = n THEN In(Awaiters, x) ELSE k # Awaiters /\ In(k, x)
  BY <1>1, <1>2, Moves, Zenon
<1>4. \A x : ~In(n, x)
  <2>1. Holds(mem, n, Line(n)) /\ Null \notin Waiters
    BY <1>0, FutexAssumption, Zenon DEF Inv, Listed
  <2>2. Len(Line(n)) = 0
    BY <1>2, <2>1, LooksEmpty, Zenon
  <2>3. \A x : ~Inside(Line(n), x)
    BY <2>2 DEF Inside
  <2> QED
    BY <2>3, Zenon DEF In
<1>5. ASSUME NEW x \in Waiters PROVE Where(x)' /\ Stage(x)'
  <2>1. (\E k \in Lists : In(k, x)') <=> \E k \in Lists : In(k, x)
    BY <1>0, <1>3, <1>4, Zenon
  <2> QED
    BY <1>0, <1>1, <2>1, Stays, Zenon DEF Placed, Stages
<1>6. Types'
  BY <1>0, <1>1, <1>3, Zenon DEF Types
<1>7. /\ \A k \in Notifiers \ {n} : at'[k] = at[k]
      /\ at'[n] = "loop"
  BY <1>0, <1>1, Zenon DEF Types
<1>8. Calls'
  BY <1>0, <1>1, <1>3, <1>7, Zenon DEF Calls
<1> QED
  BY <1>0, <1>1, <1>3, <1>5, <1>6, <1>8, Zenon DEF Inv, Placed, Stages

(* its loop, which takes the handles one by one *)
LEMMA TakeNextStep ==
  ASSUME Given, Inv, NEW n \in Notifiers, TakeNext(n), all' = all
  PROVE  Inv'
<1>0. Types /\ ~violated /\ Calls /\ n \in Lists
  BY Zenon DEF Inv, Lists
<1>1. /\ at[n] = "loop" /\ hand[n] = Null /\ mem.head[n] # Null
      /\ hand' = [hand EXCEPT ![n] = mem.head[n]] /\ mem' = PopFront(mem, n)
      /\ violated' = violated /\ alive' = alive /\ pc' = pc /\ old' = old
      /\ pending' = pending /\ result' = result /\ scheduled' = scheduled /\ stop' = stop
      /\ value' = value /\ code' = code /\ at' = at
  BY Zenon DEF TakeNext, waiter, notifier, Front, IsEmpty
<1>2. /\ mem' \in Memory /\ hand' \in [Notifiers -> Node] /\ Listed' /\ Placed' /\ Stages'
      /\ \A k \in Lists \ {n} : mem'.head[k] = mem.head[k]
  BY <1>0, <1>1, Grasps, Zenon
<1>3. \A k \in Notifiers \ {n} : mem'.head[k] = mem.head[k] /\ hand'[k] = hand[k]
  BY <1>0, <1>1, <1>2, Zenon DEF Lists, Types
<1>4. Types'
  BY <1>0, <1>1, <1>2, Zenon DEF Types
<1>5. Calls'
  BY <1>0, <1>1, <1>3, Zenon DEF Calls
<1> QED
  BY <1>0, <1>1, <1>2, <1>4, <1>5, Zenon DEF Inv

(* and schedules each, as notify_one does with its one. *)
LEMMA ScheduleHandStep ==
  ASSUME Given, Inv, NEW n \in Notifiers, ScheduleHand(n), all' = all
  PROVE  Inv'
<1>0. Types /\ ~violated /\ Placed /\ Stages /\ Calls /\ Null \notin Waiters
  BY FutexAssumption, Zenon DEF Inv
<1>1. PICK w \in Waiters : w = hand[n]
  BY <1>0, Zenon DEF ScheduleHand, Types, Node
<1>2. /\ at[n] = "loop" /\ hand' = [hand EXCEPT ![n] = Null]
      /\ result' = [result EXCEPT ![w] = code[n]] /\ scheduled' = [scheduled EXCEPT ![w] = @ + 1]
      /\ value' = value /\ mem' = mem /\ violated' = violated /\ alive' = alive
      /\ pc' = pc /\ old' = old /\ pending' = pending /\ stop' = stop /\ at' = at /\ code' = code
  BY <1>1, Zenon DEF ScheduleHand, Schedule, waiter, notifier
<1>3. Where(w) /\ Stage(w)
  BY <1>0, Zenon DEF Placed, Stages
<1>4. /\ Away(w) /\ (\A k \in Notifiers : hand[k] = w => k = n) /\ \A l \in Lists : ~In(l, w)
  BY <1>1, <1>3, Zenon DEF Where
<1>5. scheduled[w] = 0 /\ stop[w] # "removed" /\ pc[w] # "idle"
  BY <1>4, Zenon DEF Away
<1>6. /\ \A x \in Waiters \ {w} : result'[x] = result[x] /\ scheduled'[x] = scheduled[x]
      /\ result'[w] = code[n] /\ scheduled'[w] = 1
      /\ \A k \in Notifiers \ {n} : hand'[k] = hand[k]
      /\ hand'[n] = Null
  BY <1>0, <1>2, <1>5 DEF Types
<1>7. Types'
  BY <1>0, <1>2 DEF Types, Node
<1>8. Listed' /\ \A l, x : In(l, x)' <=> In(l, x)
  BY <1>2, SameLists, Zenon DEF Inv
<1>9. ASSUME NEW x \in Waiters \ {w} PROVE Where(x)' /\ Stage(x)'
  <2>1. \A k \in Notifiers : hand'[k] = x <=> hand[k] = x
    BY <1>0, <1>1, <1>6, Zenon
  <2> QED
    BY <1>0, <1>2, <1>6, <1>8, <2>1, Stays, Zenon DEF Placed, Stages
<1>10. Where(w)'
  <2>1. \A k \in Notifiers : hand'[k] # w
    BY <1>0, <1>4, <1>6, Zenon
  <2> QED
    BY <1>2, <1>4, <1>5, <1>6, <1>8, <2>1, Zenon DEF Where
<1>11. Stage(w)'
  <2>1. code[n] # "unset"
    BY <1>0, Zenon DEF Types
  <2> QED
    BY <1>2, <1>3, <1>5, <1>6, <2>1, Zenon DEF Stage
<1>12. Calls'
  BY <1>0, <1>2, <1>6, Zenon DEF Calls
<1> QED
  BY <1>0, <1>2, <1>7, <1>8, <1>9, <1>10, <1>11, <1>12, Zenon DEF Inv, Placed, Stages
-----------------------------------------------------------------------------
(* Nobody waits at first. *)
LEMMA InitInv == ASSUME Laws, Init PROVE Inv
<1>0. Null \notin Waiters
  BY FutexAssumption, Zenon
<1>1. /\ mem \in Memory
      /\ \A l \in Lists : mem.head[l] = Null /\ mem.tail[l] = Null
      /\ \A w \in Waiters : mem.next[w] = Null /\ mem.prev[w] = Null
  BY Zenon DEF Init, Memory, Node, Lists
<1>2. Types
  BY <1>1, Zenon DEF Init, Types, Node
<1>3. \A l \in Lists : Holds(mem, l, Line(l)) /\ Len(Line(l)) = 0
  <2> SUFFICES ASSUME NEW l \in Lists PROVE Holds(mem, l, Line(l)) /\ Len(Line(l)) = 0
    OBVIOUS
  <2>1. Holds(mem, l, <<>>)
    BY <1>1, HoldsNone, Zenon
  <2>2. Line(l) = <<>>
    BY <1>0, <2>1, WalkHolds, Zenon DEF Line
  <2> QED
    BY <2>1, <2>2, Zenon
<1>4. \A l \in Lists : \A x : ~In(l, x)
  BY <1>3 DEF In, Inside
<1>5. Listed
  BY <1>1, <1>3, <1>4, Zenon DEF Listed
<1>6. ASSUME NEW w \in Waiters PROVE Where(w) /\ Stage(w)
  <2>1. /\ pc[w] = "idle" /\ stop[w] = "no" /\ pending[w] = 0 /\ scheduled[w] = 0 /\ result[w] = "ok"
        /\ \A n \in Notifiers : hand[n] # w
    BY <1>0, Zenon DEF Init
  <2>2. stop[w] # "removed" /\ scheduled[w] # 1
    BY <2>1
  <2>3. Where(w)
    BY <1>4, <2>1, <2>2, Zenon DEF Where
  <2>4. Stage(w)
    BY <2>1, Zenon DEF Stage
  <2> QED
    BY <2>3, <2>4, Zenon
<1>7. Calls
  <2>1. \A n \in Notifiers : mem.head[n] = Null /\ at[n] = "idle" /\ hand[n] = Null
    BY <1>1, Zenon DEF Init, Lists
  <2> QED
    BY <2>1, Zenon DEF Calls
<1> QED
  BY <1>2, <1>5, <1>6, <1>7, Zenon DEF Inv, Placed, Stages, Init

(* Every step keeps the invariant. *)
LEMMA Inductive ==
  ASSUME Given, Inv, [Next]_vars
  PROVE  Inv'
<1>1. CASE Next
  <2>1. all' = all
    BY <1>1, Zenon DEF Next
  <2>2. ASSUME NEW w \in Waiters, WaiterStep(w) PROVE Inv'
    BY <2>1, <2>2, RegisterStep, CancelLockStep, CancelScheduleStep, InvokeStep, Zenon DEF WaiterStep
  <2>3. ASSUME NEW n \in Notifiers, NotifierStep(n) PROVE Inv'
    BY <2>1, <2>3, NotifyOneStep, NotifyAllStep, TakeNextStep, ScheduleHandStep, NotifyReturnStep,
       Zenon DEF NotifierStep
  <2> QED
    BY <1>1, <2>1, <2>2, <2>3, WaitStep, RequestStopStep, StoreStep, DestructStep, Zenon DEF Next
<1>2. CASE UNCHANGED vars
  <2>1. /\ UNCHANGED <<mem, violated, pc, pending, result, scheduled, stop, hand>>
        /\ UNCHANGED <<all, value, alive, old, at, code>>
    BY <1>2, Zenon DEF vars, waiter, notifier
  <2>2. Types'
    BY <2>1, Zenon DEF Inv, Types
  <2>3. Calls'
    BY <2>1, Zenon DEF Inv, Calls
  <2> QED
    BY <2>1, <2>2, <2>3, NotifierOnly, Zenon
<1> QED
  BY <1>1, <1>2, Zenon

(* Walking a list meets the handles that are in it. *)
LEMMA WalkMeets ==
  ASSUME Inv, NEW l \in Lists
  PROVE  /\ Line(l) \in Seq(Waiters) /\ DOMAIN Line(l) = 1..Len(Line(l))
         /\ \A x : x \in Walk(l) <=> In(l, x)
         /\ \A x : In(l, x) => x \in Waiters
<1>1. Line(l) \in Seq(Waiters)
  BY Zenon DEF Inv, Listed, Holds
<1>2. DOMAIN Line(l) = 1..Len(Line(l))
  BY <1>1
<1>3. \A x : x \in Walk(l) <=> In(l, x)
  BY <1>2, Zenon DEF Walk, In, Inside
<1>4. \A i \in 1..Len(Line(l)) : Line(l)[i] \in Waiters
  BY <1>1
<1> QED
  BY <1>1, <1>2, <1>3, <1>4, Zenon DEF In, Inside

(* The sets of places of a waiter are empty or have one element. *)
LEMMA AtMostOne ==
  ASSUME Laws, NEW S, \A a, b \in S : a = b
  PROVE  Cardinality(S) = IF S = {} THEN 0 ELSE 1
<1>1. CASE S = {}
  BY <1>1, Zenon DEF Laws
<1>2. CASE S # {}
  <2>1. PICK a \in S : TRUE
    BY <1>2, Zenon
  <2>2. S = {a}
    BY <2>1, Zenon
  <2>3. Cardinality({a}) = 1
    BY Zenon DEF Laws
  <2> QED
    BY <1>2, <2>2, <2>3, Zenon
<1> QED
  BY <1>1, <1>2, Zenon

(* The flag of the asserts is a Boolean. *)
LEMMA Flag ==
  ASSUME violated \in BOOLEAN, [Next]_vars
  PROVE  violated' \in BOOLEAN
<1>1. ASSUME NEW w \in Waiters, NEW v \in Values, Wait(w, v) PROVE violated' \in BOOLEAN
  BY <1>1, Zenon DEF Wait
<1>2. ASSUME NEW w \in Waiters, Register(w) \/ CancelLock(w) PROVE violated' \in BOOLEAN
  BY <1>2, Zenon DEF Register, CancelLock, CancelWait
<1>3. ASSUME NEW w \in Waiters, CancelSchedule(w) \/ Invoke(w) \/ RequestStop(w)
      PROVE  violated' = violated
  BY <1>3, Zenon DEF CancelSchedule, Invoke, RequestStop
<1>4. ASSUME NEW n \in Notifiers, NotifierStep(n) \/ Destruct(n) PROVE violated' = violated
  BY <1>4, Zenon DEF NotifierStep, NotifyOne, NotifyAll, TakeNext, ScheduleHand, NotifyReturn, Destruct
<1>5. ASSUME NEW n \in Notifiers, NEW v \in Values, Store(n, v) PROVE violated' = violated
  BY <1>5, Zenon DEF Store
<1>6. UNCHANGED vars => violated' = violated
  BY Zenon DEF vars
<1> QED
  BY <1>1, <1>2, <1>3, <1>4, <1>5, <1>6, Zenon DEF Next, WaiterStep

(* The invariant is what WaiterInOnePlace counts. *)
LEMMA OnePlace ==
  ASSUME Laws, Inv, violated \in BOOLEAN
  PROVE  WaiterInOnePlace
<1>1. Types /\ ~violated /\ Listed
  BY Zenon DEF Inv
<1>2. TypeOK
  BY <1>1, Zenon DEF Types, TypeOK, Memory, Node, Lists
<1>3. ASSUME NEW w \in Waiters
      PROVE  /\ scheduled[w] + Cardinality({l \in {Awaiters} \cup Notifiers : w \in Walk(l)})
                + Cardinality({n \in Notifiers : hand[n] = w})
                + (IF stop[w] = "removed" THEN 1 ELSE 0)
                  = IF pc[w] = "idle" THEN 0 ELSE 1
             /\ pc[w] = "idle" \/ scheduled[w] > 0 => result[w] # "unset"
  <2> DEFINE L == {l \in {Awaiters} \cup Notifiers : w \in Walk(l)}
             H == {n \in Notifiers : hand[n] = w}
  <2>1. Where(w) /\ Stage(w)
    BY Zenon DEF Inv, Placed, Stages
  <2>2. \A l : l \in L <=> l \in Lists /\ In(l, w)
    BY WalkMeets, Zenon DEF Lists
  <2>3. \A n : n \in H <=> n \in Notifiers /\ hand[n] = w
    OBVIOUS
  <2> HIDE DEF L, H
  <2>4. Cardinality(L) = IF L = {} THEN 0 ELSE 1
    <3>1. \A a, b \in L : a = b
      BY <1>1, <2>2, Zenon DEF Listed
    <3> QED
      BY <3>1, AtMostOne, Zenon
  <2>5. Cardinality(H) = IF H = {} THEN 0 ELSE 1
    <3>1. \A a, b \in H : a = b
      BY <2>1, <2>3, Zenon DEF Where
    <3> QED
      BY <3>1, AtMostOne, Zenon
  <2>6. /\ L # {} => H = {} /\ Away(w)
        /\ H # {} => Away(w)
        /\ pc[w] # "idle" => L # {} \/ H # {} \/ stop[w] = "removed" \/ scheduled[w] = 1
    BY <2>1, <2>2, <2>3, Zenon DEF Where
  <2>7. /\ stop[w] = "removed" => scheduled[w] = 0
        /\ scheduled[w] \in {0, 1}
        /\ scheduled[w] = 1 => pc[w] # "idle"
    BY <2>1, Zenon DEF Where
  <2>8. stop[w] = "removed" => pc[w] # "idle"
    BY <2>1, Zenon DEF Stage
  <2>9. scheduled[w] + Cardinality(L) + Cardinality(H) + (IF stop[w] = "removed" THEN 1 ELSE 0)
          = IF pc[w] = "idle" THEN 0 ELSE 1
    BY <2>4, <2>5, <2>6, <2>7, <2>8 DEF Away
  <2>10. pc[w] = "idle" \/ scheduled[w] > 0 => result[w] # "unset"
    BY <2>1, <2>7 DEF Stage
  <2> QED
    BY <2>9, <2>10, Zenon DEF L, H
<1> QED
  BY <1>1, <1>2, <1>3, Zenon DEF WaiterInOnePlace, ListAsserts
-----------------------------------------------------------------------------
(* The futex that a caller sees: those woken are the ones that wait and    *)
(* are no longer in wait_awaiters_.                                        *)
Woken == {w \in Waiters : pc[w] # "idle"} \ Walk(Awaiters)

Seen(v, q, k) == [value |-> v, queue |-> q, woken |-> k]

Now == Seen(value, Line(Awaiters), Woken)

Changed(f, q, k) == [f EXCEPT !.queue = q, !.woken = k]

(* What the abstract operations do to such a state: the record's fields, *)
LEMMA Fields ==
  ASSUME NEW v, NEW q, NEW k
  PROVE  Seen(v, q, k).value = v /\ Seen(v, q, k).queue = q /\ Seen(v, q, k).woken = k
BY Zenon DEF Seen

(* two of which notifying and cancelling change, *)
LEMMA Rewritten ==
  ASSUME NEW v, NEW q, NEW k, NEW r, NEW t
  PROVE  Changed(Seen(v, q, k), r, t) = Seen(v, r, t)
<1> DEFINE S == {v, q, k, r, t}
<1>1. v \in S /\ q \in S /\ r \in S /\ k \in S /\ t \in S
  OBVIOUS
<1> HIDE DEF S
<1>2. [Seen(v, q, k) EXCEPT !.queue = r] = Seen(v, r, k)
  BY <1>1 DEF Seen
<1>3. [Seen(v, r, k) EXCEPT !.woken = t] = Seen(v, r, t)
  BY <1>1 DEF Seen
<1>4. Changed(Seen(v, q, k), r, t) = [[Seen(v, q, k) EXCEPT !.queue = r] EXCEPT !.woken = t]
  BY Zenon DEF Changed
<1> QED
  BY <1>2, <1>3, <1>4, Zenon

(* wait, *)
LEMMA WaitedIs ==
  ASSUME NEW v, NEW q, NEW k, NEW u, NEW w
  PROVE  Abstract!Waited(Seen(v, q, k), w, u) = Seen(v, IF v = u THEN Append(q, w) ELSE q, k)
<1>1. CASE v # u
  BY <1>1, Fields DEF Abstract!Waited
<1>2. CASE v = u
  BY <1>2, Zenon DEF Seen, Abstract!Waited
<1> QED
  BY <1>1, <1>2, Zenon

(* notify_one, *)
LEMMA NotifiedOneIs ==
  ASSUME NEW v, NEW q, NEW k
  PROVE  /\ q = <<>> => Abstract!NotifiedOne(Seen(v, q, k)) = Seen(v, q, k)
         /\ q # <<>> =>
              Abstract!NotifiedOne(Seen(v, q, k)) = Seen(v, Tail(q), k \cup {Head(q)})
<1>1. q = <<>> => Abstract!NotifiedOne(Seen(v, q, k)) = Seen(v, q, k)
  BY Fields DEF Abstract!NotifiedOne
<1>2. ASSUME q # <<>>, NEW r, NEW t, r = Tail(q), t = k \cup {Head(q)}
      PROVE  Abstract!NotifiedOne(Seen(v, q, k)) = Seen(v, r, t)
  <2> DEFINE f == Seen(v, q, k)
  <2>1. f.queue # <<>> /\ f.woken \cup {Head(f.queue)} = t /\ Tail(f.queue) = r
    BY <1>2, Zenon DEF Seen
  <2>2. Abstract!NotifiedOne(f) = Changed(f, Tail(f.queue), f.woken \cup {Head(f.queue)})
    BY <2>1, Zenon DEF Abstract!NotifiedOne, Changed
  <2>3. Changed(f, r, t) = Seen(v, r, t)
    BY Rewritten
  <2>4. Abstract!NotifiedOne(f) = Changed(f, r, t)
    BY <2>1, <2>2, Zenon
  <2> QED
    BY <2>3, <2>4, Zenon
<1> QED
  BY <1>1, <1>2, Zenon

(* notify_all, *)
LEMMA NotifiedAllIs ==
  ASSUME NEW v, NEW q, NEW k, NEW t, t = k \cup {q[j] : j \in DOMAIN q}
  PROVE  Abstract!NotifiedAll(Seen(v, q, k)) = Seen(v, <<>>, t)
<1> DEFINE f == Seen(v, q, k)
<1>1. f.woken \cup Abstract!Range(f.queue) = t
  BY Zenon DEF Seen, Abstract!Range
<1>2. Abstract!NotifiedAll(f) = Changed(f, <<>>, f.woken \cup Abstract!Range(f.queue))
  BY Zenon DEF Abstract!NotifiedAll, Changed
<1>3. Changed(f, <<>>, t) = Seen(v, <<>>, t)
  BY Rewritten
<1>4. Abstract!NotifiedAll(f) = Changed(f, <<>>, t)
  BY <1>1, <1>2, Zenon
<1> QED
  BY <1>3, <1>4, Zenon

(* a cancelled wait, *)
LEMMA CancelledIs ==
  ASSUME NEW v, NEW q, NEW k, NEW i, NEW t, t = k \cup {q[i]}, NEW r, r = Without(q, i)
  PROVE  Abstract!Cancelled(Seen(v, q, k), i) = Seen(v, r, t)
<1> DEFINE f == Seen(v, q, k)
<1>1. f.woken \cup {f.queue[i]} = t /\ Without(f.queue, i) = r
  BY Zenon DEF Seen
<1>2. Abstract!Cancelled(f, i) = Changed(f, Without(f.queue, i), f.woken \cup {f.queue[i]})
  BY Zenon DEF Abstract!Cancelled, Without, Changed
<1>3. Changed(f, r, t) = Seen(v, r, t)
  BY Rewritten
<1>4. Abstract!Cancelled(f, i) = Changed(f, r, t)
  BY <1>1, <1>2, Zenon
<1> QED
  BY <1>3, <1>4, Zenon

(* a coroutine that runs again, *)
LEMMA ResumedIs ==
  ASSUME NEW v, NEW q, NEW k, NEW w
  PROVE  Abstract!Resumed(Seen(v, q, k), w) = Seen(v, q, k \ {w})
BY DEF Seen, Abstract!Resumed

(* a store, *)
LEMMA StoredIs ==
  ASSUME NEW v, NEW q, NEW k, NEW u
  PROVE  Abstract!Stored(Seen(v, q, k), u) = Seen(u, q, k)
BY DEF Seen, Abstract!Stored

(* and those who sleep. *)
LEMMA SleepingIs ==
  ASSUME NEW v, NEW q, NEW k
  PROVE  Abstract!Sleeping(Seen(v, q, k)) = {q[j] : j \in DOMAIN q} \cup k
BY Zenon DEF Seen, Abstract!Sleeping, Abstract!Range

(* Who has been woken. *)
LEMMA WokenIs ==
  ASSUME Inv
  PROVE  \A x : x \in Woken <=> x \in Waiters /\ pc[x] # "idle" /\ ~In(Awaiters, x)
<1>1. Awaiters \in Lists
  BY Zenon DEF Lists
<1> QED
  BY <1>1, WalkMeets, Zenon DEF Woken

(* The same in the next state. *)
LEMMA WokenThen ==
  Inv' => \A x : x \in Woken' <=> x \in Waiters /\ pc'[x] # "idle" /\ ~In(Awaiters, x)'
<1>1. Inv => \A x : x \in Woken <=> x \in Waiters /\ pc[x] # "idle" /\ ~In(Awaiters, x)
  BY WokenIs, Zenon
<1>2. (Inv => \A x : x \in Woken <=> x \in Waiters /\ pc[x] # "idle" /\ ~In(Awaiters, x))'
  BY <1>1, PTL
<1> QED
  BY <1>2, Zenon
-----------------------------------------------------------------------------
(* A step that leaves the value, wait_awaiters_ and those who wait as they *)
(* are is not seen.                                                        *)
LEMMA Unseen ==
  ASSUME Inv, Inv', value' = value, Line(Awaiters)' = Line(Awaiters),
         \A x \in Waiters : pc'[x] = "idle" <=> pc[x] = "idle"
  PROVE  Now' = Now
<1>1. \A x : In(Awaiters, x)' <=> In(Awaiters, x)
  BY Zenon DEF In
<1>2. \A x : x \in Woken' <=> x \in Woken
  BY <1>1, WokenIs, WokenThen, Zenon
<1>3. Woken' = Woken
  BY <1>2, Zenon
<1> QED
  BY <1>3, Zenon DEF Now

(* wait() compares and enlists at one moment. *)
LEMMA WaitSeen ==
  ASSUME Given, Inv, Inv', NEW w \in Waiters, NEW v \in Values, Wait(w, v)
  PROVE  /\ w \notin Abstract!Sleeping(Now) /\ Now' = Abstract!Waited(Now, w, v)
         /\ old' = [old EXCEPT ![w] = v]
<1>0. Types /\ Awaiters \in Lists
  BY Zenon DEF Inv, Lists
<1>1. pc[w] = "idle" /\ old' = [old EXCEPT ![w] = v] /\ value' = value
  BY Zenon DEF Wait
<1>2. w \notin Abstract!Sleeping(Now)
  <2>1. Abstract!Sleeping(Now) = Walk(Awaiters) \cup Woken
    BY SleepingIs DEF Now, Walk
  <2>2. ~In(Awaiters, w)
    BY <1>0, <1>1, IdleIsNowhere, Zenon
  <2> QED
    BY <1>0, <1>1, <2>1, <2>2, WalkMeets, WokenIs, Zenon
<1>3. CASE value # v
  <2>1. mem' = mem /\ pc' = pc
    BY <1>3, Zenon DEF Wait
  <2>2. Now' = Now
    BY <1>1, <2>1, SameLists, Unseen, Zenon
  <2>3. Abstract!Waited(Now, w, v) = Now
    BY <1>3, WaitedIs DEF Now
  <2> QED
    BY <1>1, <1>2, <2>2, <2>3, Zenon
<1>4. CASE value = v
  <2>1. mem' = PushBack(mem, Awaiters, w) /\ pc' = [pc EXCEPT ![w] = "started"]
    BY <1>4, Zenon DEF Wait
  <2>2. /\ Line(Awaiters)' = Append(Line(Awaiters), w)
        /\ \A x : In(Awaiters, x)' <=> In(Awaiters, x) \/ x = w
    BY <1>0, <1>1, <2>1, Enlists, Zenon
  <2>3. \A x \in Waiters \ {w} : pc'[x] = pc[x]
    BY <1>0, <2>1, Zenon DEF Types
  <2>4. \A x : x \in Woken' <=> x \in Woken
    BY <1>1, <2>2, <2>3, WokenIs, WokenThen, Zenon
  <2>5. Woken' = Woken
    BY <2>4, Zenon
  <2>6. Now' = Seen(value, Append(Line(Awaiters), w), Woken)
    BY <1>1, <2>2, <2>5, Zenon DEF Now
  <2>7. Abstract!Waited(Now, w, v) = Seen(value, Append(Line(Awaiters), w), Woken)
    BY <1>4, WaitedIs DEF Now
  <2> QED
    BY <1>1, <1>2, <2>6, <2>7, Zenon
<1> QED
  BY <1>3, <1>4, Zenon

(* A stop callback cancels one wait, or comes too late. *)
LEMMA CancelSeen ==
  ASSUME Given, Inv, Inv', NEW w \in Waiters, stop[w] \notin {"no", "over"}, CancelWait(w),
         value' = value, \A x \in Waiters : pc'[x] = "idle" <=> pc[x] = "idle"
  PROVE  \/ Now' = Now
         \/ \E i \in DOMAIN Now.queue : Now' = Abstract!Cancelled(Now, i)
<1>0. Awaiters \in Lists
  BY Zenon DEF Lists
<1>1. \A n \in Notifiers : ~In(n, w)
  BY NotLocal, Zenon
<1>2. /\ \A k \in Lists, x \in Waiters : In(k, x)' <=> In(k, x) /\ x # w
      /\ ~In(Awaiters, w) => mem' = mem
      /\ In(Awaiters, w) => \E i \in 1..Len(Line(Awaiters)) :
           Line(Awaiters)[i] = w /\ Line(Awaiters)' = Without(Line(Awaiters), i)
  BY <1>1, Unlists, Zenon
<1>3. CASE ~In(Awaiters, w)
  BY <1>2, <1>3, SameLists, Unseen, Zenon
<1>4. CASE In(Awaiters, w)
  <2>1. PICK i \in 1..Len(Line(Awaiters)) :
          Line(Awaiters)[i] = w /\ Line(Awaiters)' = Without(Line(Awaiters), i)
    BY <1>2, <1>4, Zenon
  <2>2. pc[w] # "idle"
    BY <1>0, <1>4, IdleIsNowhere, Zenon
  <2>3. \A x : x \in Woken' <=> x \in Woken \cup {w}
    <3>1. \A x \in Waiters : In(Awaiters, x)' <=> In(Awaiters, x) /\ x # w
      BY <1>0, <1>2, Zenon
    <3> QED
      BY <2>2, <3>1, WokenIs, WokenThen, Zenon
  <2>4. Woken' = Woken \cup {w}
    BY <2>3, Zenon
  <2>5. Now' = Seen(value, Without(Line(Awaiters), i), Woken \cup {Line(Awaiters)[i]})
    BY <2>1, <2>4, Zenon DEF Now
  <2>6. Now' = Abstract!Cancelled(Now, i)
    BY <2>5, CancelledIs DEF Now
  <2>7. Now.queue = Line(Awaiters)
    BY Zenon DEF Now, Seen
  <2>8. i \in DOMAIN Now.queue
    BY <1>0, <2>7, WalkMeets, Zenon
  <2> QED
    BY <2>6, <2>8, Zenon
<1> QED
  BY <1>3, <1>4, Zenon

(* A coroutine resumes only after it was woken. *)
LEMMA InvokeSeen ==
  ASSUME Given, Inv, Inv', NEW w \in Waiters, Invoke(w)
  PROVE  w \in Now.woken /\ Now' = Abstract!Resumed(Now, w) /\ old' = old
<1>0. Types /\ Awaiters \in Lists
  BY Zenon DEF Inv, Lists
<1>1. /\ pc[w] = "suspended" /\ scheduled[w] > 0 /\ pc' = [pc EXCEPT ![w] = "idle"]
      /\ mem' = mem /\ value' = value /\ old' = old
  BY Zenon DEF Invoke
<1>2. pc[w] # "idle" /\ scheduled[w] # 0 /\ pc'[w] = "idle" /\ \A x \in Waiters \ {w} : pc'[x] = pc[x]
  BY <1>0, <1>1 DEF Types
<1>3. ~In(Awaiters, w)
  BY <1>0, <1>2, Zenon DEF Inv, Placed, Where, Away
<1>4. Line(Awaiters)' = Line(Awaiters) /\ \A x : In(Awaiters, x)' <=> In(Awaiters, x)
  BY <1>1, SameLists, Zenon
<1>5. \A x : x \in Woken' <=> x \in Woken \ {w}
  BY <1>2, <1>4, WokenIs, WokenThen, Zenon
<1>6. Woken' = Woken \ {w}
  BY <1>5, Zenon
<1>7. w \in Woken
  BY <1>2, <1>3, WokenIs, Zenon
<1>8. Now.woken = Woken
  BY Zenon DEF Now, Seen
<1>9. Now' = Abstract!Resumed(Now, w)
  BY <1>1, <1>4, <1>6, ResumedIs DEF Now
<1> QED
  BY <1>1, <1>7, <1>8, <1>9, Zenon

(* notify_one wakes the first. *)
LEMMA NotifyOneSeen ==
  ASSUME Given, Inv, Inv', NEW n \in Notifiers, NotifyOne(n)
  PROVE  Now' = Abstract!NotifiedOne(Now) /\ old' = old
<1>0. Awaiters \in Lists /\ Null \notin Waiters /\ Listed
  BY FutexAssumption, Zenon DEF Lists, Inv
<1>1. mem' = PopFront(mem, Awaiters) /\ value' = value /\ pc' = pc /\ old' = old
  BY Zenon DEF NotifyOne, waiter
<1>2. CASE mem.head[Awaiters] = Null
  <2>1. mem' = mem
    BY <1>1, <1>2, Zenon DEF PopFront
  <2>2. Now' = Now
    BY <1>1, <2>1, SameLists, Unseen, Zenon
  <2>3. Line(Awaiters) = <<>>
    <3>1. Holds(mem, Awaiters, Line(Awaiters))
      BY <1>0, Zenon DEF Listed
    <3> QED
      BY <1>0, <1>2, <3>1, LooksEmpty
  <2>4. Abstract!NotifiedOne(Now) = Now
    BY <2>3, NotifiedOneIs, Zenon DEF Now
  <2> QED
    BY <1>1, <2>2, <2>4, Zenon
<1>3. CASE mem.head[Awaiters] # Null
  <2>1. PICK e \in Waiters : e = mem.head[Awaiters]
    BY <1>0, <1>1, <1>3, Takes, Zenon
  <2>2. /\ In(Awaiters, e) /\ Line(Awaiters) # <<>> /\ Head(Line(Awaiters)) = e
        /\ Line(Awaiters)' = Tail(Line(Awaiters))
        /\ \A x \in Waiters : In(Awaiters, x)' <=> In(Awaiters, x) /\ x # e
    BY <1>0, <1>1, <1>3, <2>1, Takes, Zenon
  <2>3. pc[e] # "idle"
    BY <1>0, <2>2, IdleIsNowhere, Zenon
  <2>4. \A x : x \in Woken' <=> x \in Woken \cup {e}
    BY <1>1, <2>2, <2>3, WokenIs, WokenThen, Zenon
  <2>5. Woken' = Woken \cup {e}
    BY <2>4, Zenon
  <2>6. Now' = Seen(value, Tail(Line(Awaiters)), Woken \cup {Head(Line(Awaiters))})
    BY <1>1, <2>2, <2>5, Zenon DEF Now
  <2>7. Now' = Abstract!NotifiedOne(Now)
    BY <2>2, <2>6, NotifiedOneIs DEF Now
  <2> QED
    BY <1>1, <2>7, Zenon
<1> QED
  BY <1>2, <1>3, Zenon

(* notify_all wakes them all at once. *)
LEMMA NotifyAllSeen ==
  ASSUME Given, Inv, Inv', NEW n \in Notifiers, NotifyAll(n)
  PROVE  Now' = Abstract!NotifiedAll(Now) /\ old' = old
<1>0. Awaiters \in Lists /\ Awaiters # n
  BY FutexAssumption, Zenon DEF Lists
<1>1. at[n] = "all" /\ mem' = Move(mem, Awaiters, n) /\ value' = value /\ pc' = pc /\ old' = old
  BY Zenon DEF NotifyAll, waiter
<1>2. mem.head[n] = Null
  <2>1. at[n] # "loop"
    BY <1>1, Zenon
  <2> QED
    BY <2>1, Zenon DEF Inv, Calls
<1>3. Line(Awaiters)' = <<>> /\ \A x : ~In(Awaiters, x)'
  BY <1>0, <1>1, <1>2, Moves, Zenon
<1>4. \A x : x \in Woken' <=> x \in Woken \cup Walk(Awaiters)
  <2>1. \A x : In(Awaiters, x) => x \in Waiters /\ pc[x] # "idle"
    BY <1>0, WalkMeets, IdleIsNowhere, Zenon
  <2>2. \A x : x \in Walk(Awaiters) <=> In(Awaiters, x)
    BY <1>0, WalkMeets, Zenon
  <2> QED
    BY <1>1, <1>3, <2>1, <2>2, WokenIs, WokenThen, Zenon
<1>5. Woken' = Woken \cup Walk(Awaiters)
  BY <1>4, Zenon
<1>6. Now' = Abstract!NotifiedAll(Now)
  BY <1>1, <1>3, <1>5, NotifiedAllIs DEF Now, Walk
<1> QED
  BY <1>1, <1>6, Zenon
-----------------------------------------------------------------------------
(* Every step of the futex is an operation of FutexSpec, or is not seen. *)
LEMMA StepSeen ==
  ASSUME Given, Inv, Inv', Next
  PROVE  \/ \E w \in Waiters, v \in Values :
              /\ w \notin Abstract!Sleeping(Now) /\ Now' = Abstract!Waited(Now, w, v)
              /\ old' = [old EXCEPT ![w] = v]
         \/ /\ old' = old
            /\ \/ Now' = Now
               \/ \E v \in Values : Now' = Abstract!Stored(Now, v)
               \/ Now' = Abstract!NotifiedOne(Now)
               \/ Now' = Abstract!NotifiedAll(Now)
               \/ \E i \in DOMAIN Now.queue : Now' = Abstract!Cancelled(Now, i)
               \/ \E w \in Now.woken : Now' = Abstract!Resumed(Now, w)
<1> DEFINE Cancels == \E i \in DOMAIN Now.queue : Now' = Abstract!Cancelled(Now, i)
<1>1. ASSUME NEW w \in Waiters, Register(w)
      PROVE  old' = old /\ (Now' = Now \/ Cancels)
  <2>1. /\ pc[w] = "started" /\ pc' = [pc EXCEPT ![w] = "suspended"] /\ value' = value /\ old' = old
        /\ stop[w] = "requested" => CancelWait(w)
        /\ stop[w] # "requested" => mem' = mem
    BY <1>1, Zenon DEF Register
  <2>2. \A x \in Waiters : pc'[x] = "idle" <=> pc[x] = "idle"
    BY <2>1 DEF Inv, Types
  <2>3. CASE stop[w] = "requested"
    <3>1. stop[w] \notin {"no", "over"}
      BY <2>3, Zenon
    <3> QED
      BY <2>1, <2>2, <2>3, <3>1, CancelSeen, Zenon
  <2>4. CASE stop[w] # "requested"
    BY <2>1, <2>2, <2>4, SameLists, Unseen, Zenon
  <2> QED
    BY <2>3, <2>4, Zenon
<1>2. ASSUME NEW w \in Waiters, CancelLock(w)
      PROVE  old' = old /\ (Now' = Now \/ Cancels)
  <2>1. stop[w] = "callback" /\ CancelWait(w) /\ value' = value /\ old' = old /\ pc' = pc
    BY <1>2, Zenon DEF CancelLock, waiter
  <2>2. stop[w] \notin {"no", "over"}
    BY <2>1, Zenon
  <2> QED
    BY <2>1, <2>2, CancelSeen, Zenon
<1>3. ASSUME mem' = mem, value' = value, pc' = pc
      PROVE  Now' = Now
  BY <1>3, SameLists, Unseen, Zenon
<1>4. ASSUME NEW w \in Waiters, CancelSchedule(w) \/ RequestStop(w)
      PROVE  old' = old /\ Now' = Now
  BY <1>3, <1>4, Zenon DEF CancelSchedule, RequestStop, waiter
<1>5. ASSUME NEW n \in Notifiers, ScheduleHand(n) \/ NotifyReturn(n) \/ Destruct(n)
      PROVE  old' = old /\ Now' = Now
  BY <1>3, <1>5, Zenon DEF ScheduleHand, NotifyReturn, Destruct, waiter
<1>6. ASSUME NEW n \in Notifiers, TakeNext(n)
      PROVE  old' = old /\ Now' = Now
  <2>0. n \in Lists /\ Awaiters \in Lists \ {n}
    BY FutexAssumption, Zenon DEF Lists
  <2>1. mem.head[n] # Null /\ mem' = PopFront(mem, n) /\ value' = value /\ pc' = pc /\ old' = old
    BY <1>6, Zenon DEF TakeNext, waiter, IsEmpty
  <2>2. Line(Awaiters)' = Line(Awaiters)
    BY <2>0, <2>1, Takes, Zenon
  <2> QED
    BY <2>1, <2>2, Unseen, Zenon
<1>7. ASSUME NEW n \in Notifiers, NEW v \in Values, Store(n, v)
      PROVE  old' = old /\ Now' = Abstract!Stored(Now, v)
  <2>1. mem' = mem /\ value' = v /\ pc' = pc /\ old' = old
    BY <1>7, Zenon DEF Store, waiter
  <2>2. Line(Awaiters)' = Line(Awaiters) /\ \A x : In(Awaiters, x)' <=> In(Awaiters, x)
    BY <2>1, SameLists, Zenon
  <2>3. \A x : x \in Woken' <=> x \in Woken
    BY <2>1, <2>2, WokenIs, WokenThen, Zenon
  <2>4. Woken' = Woken
    BY <2>3, Zenon
  <2> QED
    BY <2>1, <2>2, <2>4, StoredIs DEF Now
<1> HIDE DEF Cancels
<1>8. ASSUME NEW w \in Waiters, WaiterStep(w)
      PROVE  /\ old' = old
             /\ Now' = Now \/ Cancels \/ \E x \in Now.woken : Now' = Abstract!Resumed(Now, x)
  BY <1>1, <1>2, <1>4, <1>8, InvokeSeen, Zenon DEF WaiterStep
<1>9. ASSUME NEW n \in Notifiers, NotifierStep(n)
      PROVE  /\ old' = old
             /\ \/ Now' = Now
                \/ Now' = Abstract!NotifiedOne(Now) \/ Now' = Abstract!NotifiedAll(Now)
  BY <1>5, <1>6, <1>9, NotifyOneSeen, NotifyAllSeen, Zenon DEF NotifierStep
<1>10. CASE \E w \in Waiters : WaiterStep(w) \/ RequestStop(w)
  BY <1>4, <1>8, <1>10, Zenon DEF Cancels
<1>11. CASE \E w \in Waiters, v \in Values : Wait(w, v)
  BY <1>11, WaitSeen, Zenon
<1>12. CASE \E n \in Notifiers : NotifierStep(n) \/ Destruct(n)
  BY <1>5, <1>9, <1>12, Zenon
<1>13. CASE \E n \in Notifiers, v \in Values : Store(n, v)
  BY <1>7, <1>13, Zenon
<1> QED
  BY <1>10, <1>11, <1>12, <1>13, Zenon DEF Next

(* The state that FutexSpec sees is Now. *)
LEMMA NowIsFutex ==
  /\ Abstract!Init <=> /\ \E v \in Values : Now = Abstract!FutexOf(v)
                       /\ old = [w \in Waiters |-> Now.value]
  /\ Abstract!vars = <<Now, old>>
BY Zenon DEF Abstract!Init, Abstract!vars, Now, Seen, Woken

(* A step is one of FutexSpec or leaves its variables alone. *)
LEMMA StepRefines ==
  ASSUME Given, Inv, Inv', [Next]_vars
  PROVE  [Abstract!Next]_(Abstract!vars)
<1>1. CASE Next
  <2>1. CASE \E w \in Waiters, v \in Values :
               /\ w \notin Abstract!Sleeping(Now) /\ Now' = Abstract!Waited(Now, w, v)
               /\ old' = [old EXCEPT ![w] = v]
    BY <2>1, Zenon DEF Abstract!Next, Abstract!Wait, Now, Seen, Woken
  <2>2. CASE old' = old /\ Now' = Now
    BY <2>2, Zenon DEF Abstract!vars, Now, Seen, Woken
  <2>3. CASE old' = old /\ (\/ \E v \in Values : Now' = Abstract!Stored(Now, v)
                            \/ Now' = Abstract!NotifiedOne(Now)
                            \/ Now' = Abstract!NotifiedAll(Now)
                            \/ \E i \in DOMAIN Now.queue : Now' = Abstract!Cancelled(Now, i)
                            \/ \E w \in Now.woken : Now' = Abstract!Resumed(Now, w))
    BY <2>3, Zenon DEF Abstract!Next, Now, Seen, Woken
  <2> QED
    BY <1>1, <2>1, <2>2, <2>3, StepSeen, Zenon
<1>2. CASE UNCHANGED vars
  <2>1. mem' = mem /\ value' = value /\ pc' = pc /\ old' = old
    BY <1>2, Zenon DEF vars, waiter
  <2>2. Now' = Now
    BY <2>1, SameLists, Unseen, Zenon
  <2> QED
    BY <2>1, <2>2, Zenon DEF Abstract!vars, Now, Seen, Woken
<1> QED
  BY <1>1, <1>2, Zenon

(* A new futex is one of FutexSpec. *)
LEMMA InitRefines ==
  ASSUME Laws, Init
  PROVE  Abstract!Init
<1>1. Inv /\ Awaiters \in Lists
  BY InitInv, Zenon DEF Lists
<1>2. value \in Values /\ mem.head[Awaiters] = Null /\ (\A w \in Waiters : pc[w] = "idle")
      /\ old = [w \in Waiters |-> value]
  BY Zenon DEF Init
<1>3. Line(Awaiters) = <<>>
  <2>1. Holds(mem, Awaiters, Line(Awaiters)) /\ Null \notin Waiters
    BY <1>1, FutexAssumption, Zenon DEF Inv, Listed
  <2> QED
    BY <1>2, <2>1, LooksEmpty
<1>4. \A x : x \notin Woken
  BY <1>1, <1>2, WokenIs, Zenon
<1>5. Woken = {}
  BY <1>4, Zenon
<1>6. Now = Abstract!FutexOf(value)
  BY <1>3, <1>5, Zenon DEF Now, Seen, Abstract!FutexOf
<1>7. Now.value = value
  BY Zenon DEF Now, Seen
<1> QED
  BY <1>2, <1>6, <1>7, NowIsFutex, Zenon
-----------------------------------------------------------------------------
INSTANCE FiniteSetTheorems

(* Among natural numbers there is a least one: the induction over the      *)
(* positions of a list.                                                    *)
LEMMA Least ==
  ASSUME NEW T \in SUBSET Nat, T # {}
  PROVE  \E x \in T : \A y \in T : ~(y < x)
<1>1. \E x \in T : \A y \in T : ~(<<y, x>> \in OpToRel(<, Nat))
  BY NatLessThanWellFounded, WFMin, Zenon
<1>2. ASSUME NEW y \in Nat, NEW x \in Nat PROVE <<y, x>> \in OpToRel(<, Nat) <=> y < x
  BY Zenon DEF OpToRel
<1> QED
  BY <1>1, <1>2, Zenon

(* The facts of the library. *)
LEMMA LawsHold == Laws
<1>1. Cardinality({}) = 0 /\ \A x : Cardinality({x}) = 1
  BY FS_EmptySet, FS_Singleton, Zenon
<1>2. ASSUME NEW n \in Nat PROVE Cardinality(1..n) = n
  <2>1. Cardinality(1..n) = IF 1 > n THEN 0 ELSE n - 1 + 1
    BY FS_Interval
  <2> QED
    BY <2>1
<1>3. Cardinality(Waiters) \in Nat
  BY FutexAssumption, FS_CardinalityType, Zenon
<1>4. ASSUME NEW s \in Seq(Waiters), \A i, j \in 1..Len(s) : s[i] = s[j] => i = j
      PROVE  Len(s) <= Cardinality(Waiters)
  <2>1. Len(s) \in Nat /\ s \in [1..Len(s) -> Waiters] /\ DOMAIN s = 1..Len(s)
    OBVIOUS
  <2>2. s \in Injection(1..Len(s), Waiters)
    BY <1>4, <2>1, Zenon DEF Injection, IsInjective
  <2>3. Cardinality(1..Len(s)) <= Cardinality(Waiters)
    BY <2>2, FutexAssumption, FS_Injection, Zenon
  <2> QED
    BY <1>2, <2>1, <2>3, Zenon
<1>5. ASSUME NEW T \in SUBSET Nat, T # {} PROVE \E x \in T : \A y \in T : ~(y < x)
  BY <1>5, Least, Zenon
<1> QED
  BY <1>1, <1>2, <1>3, <1>4, <1>5, Zenon DEF Laws

(* A program that requests no stop while notify_all runs: a suspended      *)
(* waiter is in exactly one of wait_awaiters_, a local list, the hands of  *)
(* a notifier or canceller and its runtime's queue, with a result when it  *)
(* resumes, and the list never trips over its asserts.                     *)
THEOREM WaitersInOnePlace ==
  ASSUME Overlap = FALSE
  PROVE  Spec => []WaiterInOnePlace
<1>1. Given
  BY LawsHold, Zenon DEF Given
<1> DEFINE J == Inv /\ violated \in BOOLEAN
<1>2. Init => J
  BY <1>1, InitInv, Zenon DEF Init, Given
<1>3. J /\ [Next]_vars => J'
  BY <1>1, Inductive, Flag, Zenon
<1>4. J => WaiterInOnePlace
  BY <1>1, OnePlace, Zenon DEF Given
<1> HIDE DEF J
<1> QED
  BY <1>2, <1>3, <1>4, PTL DEF Spec

(* Under the same assumption condy::Futex is the futex of FutexSpec: each  *)
(* call takes effect at one moment, in the order of the waiting list.      *)
THEOREM FutexRefines ==
  ASSUME Overlap = FALSE
  PROVE  Spec => IsFutex
<1>1. Given
  BY LawsHold, Zenon DEF Given
<1>2. Init => Inv /\ Abstract!Init
  BY <1>1, InitInv, InitRefines, Zenon DEF Given
<1>3. Inv /\ [Next]_vars => Inv'
  BY <1>1, Inductive, Zenon
<1>4. Inv /\ Inv' /\ [Next]_vars => [Abstract!Next]_(Abstract!vars)
  BY <1>1, StepRefines, Zenon
<1> QED
  BY <1>2, <1>3, <1>4, PTL DEF Spec, IsFutex, Abstract!Spec
=============================================================================
