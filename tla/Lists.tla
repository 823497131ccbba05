-------------------------------- MODULE Lists --------------------------------
(***************************************************************************)
(* The operations of IntrusiveList next to what they mean: a state is two  *)
(* intrusive lists of each kind and, for each, the sequence of entries it  *)
(* stands for.  The operations are used as condy uses them: an entry is    *)
(* pushed only while it is in no list, and remove is called on a list that *)
(* holds the entry or when no list holds it.                               *)
(***************************************************************************)
EXTENDS IntrusiveList, Integers, Sequences

Seqs == INSTANCE SequencesExt

CONSTANTS
  Entries,  \* entries, Null not among them
  Names     \* lists of each kind

VARIABLES
  double, doubleSeq,  \* DoubleLinkListImpl, and the sequences they stand for
  single, singleSeq   \* SingleLinkListImpl

vars == <<double, doubleSeq, single, singleSeq>>

NoLinks == [e \in Entries |-> Null]
NoLists == [l \in Names |-> Null]

Init ==
  /\ double = [next |-> NoLinks, prev |-> NoLinks, head |-> NoLists,
               tail |-> NoLists]
  /\ single = [next |-> NoLinks, head |-> NoLists, tail |-> NoLists]
  /\ doubleSeq = [l \in Names |-> <<>>]
  /\ singleSeq = [l \in Names |-> <<>>]

InNone(seqs, e) == \A l \in Names : ~Seqs!Contains(seqs[l], e)

DoublePush(l, e) ==
  /\ InNone(doubleSeq, e)
  /\ double' = PushBack(double, l, e)
  /\ doubleSeq' = [doubleSeq EXCEPT ![l] = Append(@, e)]
  /\ UNCHANGED <<single, singleSeq>>

DoublePop(l) ==
  /\ double' = PopFront(double, l)
  /\ doubleSeq' = [doubleSeq EXCEPT ![l] = IF @ = <<>> THEN @ ELSE Tail(@)]
  /\ UNCHANGED <<single, singleSeq>>

DoubleRemove(l, e) ==
  /\ Seqs!Contains(doubleSeq[l], e) \/ InNone(doubleSeq, e)
  /\ double' = Remove(double, l, e)
  /\ doubleSeq' = [doubleSeq EXCEPT ![l] = SelectSeq(@, LAMBDA x : x # e)]
  /\ UNCHANGED <<single, singleSeq>>

DoubleMove(from, to) ==
  /\ doubleSeq[to] = <<>>
  /\ double' = Move(double, from, to)
  /\ doubleSeq' = [doubleSeq EXCEPT ![from] = <<>>, ![to] = doubleSeq[from]]
  /\ UNCHANGED <<single, singleSeq>>

SinglePush(l, e) ==
  /\ InNone(singleSeq, e)
  /\ single' = SinglePushBack(single, l, e)
  /\ singleSeq' = [singleSeq EXCEPT ![l] = Append(@, e)]
  /\ UNCHANGED <<double, doubleSeq>>

SinglePop(l) ==
  /\ single' = SinglePopFront(single, l)
  /\ singleSeq' = [singleSeq EXCEPT ![l] = IF @ = <<>> THEN @ ELSE Tail(@)]
  /\ UNCHANGED <<double, doubleSeq>>

SingleMove(from, to) ==
  /\ singleSeq[to] = <<>>
  /\ single' = Move(single, from, to)
  /\ singleSeq' = [singleSeq EXCEPT ![from] = <<>>, ![to] = singleSeq[from]]
  /\ UNCHANGED <<double, doubleSeq>>

SingleSplice(l, other) ==
  /\ l # other
  /\ single' = Splice(single, l, other)
  /\ singleSeq' = [singleSeq EXCEPT ![l] = @ \o singleSeq[other],
                                    ![other] = <<>>]
  /\ UNCHANGED <<double, doubleSeq>>

Next ==
  \/ \E l \in Names : DoublePop(l) \/ SinglePop(l)
  \/ \E l \in Names, e \in Entries :
       DoublePush(l, e) \/ DoubleRemove(l, e) \/ SinglePush(l, e)
  \/ \E l, k \in Names :
       DoubleMove(l, k) \/ SingleMove(l, k) \/ SingleSplice(l, k)

Spec == Init /\ [][Next]_vars
-----------------------------------------------------------------------------
(* The element of s after position i, Null at the end. *)
After(s, i) == IF i < Len(s) THEN s[i + 1] ELSE Null
First(s) == IF s = <<>> THEN Null ELSE s[1]
Final(s) == IF s = <<>> THEN Null ELSE s[Len(s)]

(* Walking m.next from head_ visits the elements of s and ends at tail_. *)
Forwards(m, l, s) ==
  /\ m.head[l] = First(s)
  /\ m.tail[l] = Final(s)
  /\ \A i \in DOMAIN s : m.next[s[i]] = After(s, i)

(* Double lists stand for their sequences: both directions of links agree, *)
(* entries outside have null links, so that push_back's assert holds and   *)
(* remove knows by the links alone whether the entry is there, without     *)
(* tripping over its asserts.                                              *)
DoubleIsSequence ==
  /\ \A l \in Names :
       /\ Forwards(double, l, doubleSeq[l])
       /\ \A i \in DOMAIN doubleSeq[l] :
            double.prev[doubleSeq[l][i]] =
              IF i = 1 THEN Null ELSE doubleSeq[l][i - 1]
  /\ \A e \in Entries :
       InNone(doubleSeq, e) => PushBackAssert(double, e)
  /\ \A l \in Names, e \in Entries :
       Seqs!Contains(doubleSeq[l], e) \/ InNone(doubleSeq, e) =>
         /\ Linked(double, l, e) <=> Seqs!Contains(doubleSeq[l], e)
         /\ RemoveAssert(double, l, e)

(* Single lists stand for their sequences, and an entry in no list has a   *)
(* null link, as push_back asserts: the global queue can be spliced onto   *)
(* the local one and every work popped from it pushed again.               *)
SingleIsSequence ==
  /\ \A l \in Names : Forwards(single, l, singleSeq[l])
  /\ \A e \in Entries : InNone(singleSeq, e) => single.next[e] = Null
=============================================================================
