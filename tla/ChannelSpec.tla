----------------------------- MODULE ChannelSpec -----------------------------
(***************************************************************************)
(* What a Channel promises: one line of items in the order they were       *)
(* offered.  The first Cap places are the channel's own; an offer further  *)
(* back is a push that has to wait for its place.  Pops take from the      *)
(* front, in the order they came, and wait only while the line is empty.   *)
(* Every operation gets one answer.                                        *)
(***************************************************************************)
EXTENDS Naturals, Sequences

CONSTANTS Pushers, Poppers, Nobody

VARIABLES
  Cap,      \* how many places the channel has, chosen when it is made
  line,     \* offered items; `by` is the push that waits for its place
  takers,   \* pops that wait for an item
  closed,   \* no more offers
  outcome   \* the answer to the last operation of each client

vars == <<Cap, line, takers, closed, outcome>>

Answer(code, item) == [code |-> code, item |-> item]
Waiting == Answer("unset", Nobody)
Offered(p, by) == [item |-> p, by |-> by]

(* A client without an operation can begin one. *)
Free(h) == outcome[h] # Waiting

Init ==
  /\ Cap \in Nat
  /\ line = <<>>
  /\ takers = <<>>
  /\ closed = FALSE
  /\ outcome = [h \in Pushers \cup Poppers |-> Answer("none", Nobody)]

(* The item goes straight to the first waiting pop. *)
Give(p) ==
  /\ Free(p) /\ ~closed /\ takers # <<>>
  /\ outcome' = [outcome EXCEPT ![p] = Answer("ok", Nobody),
                                ![Head(takers)] = Answer("ok", p)]
  /\ takers' = Tail(takers)
  /\ UNCHANGED <<line, closed>>

(* The item takes its place in the line, beyond the capacity only if it is *)
(* forced.                                                                 *)
Put(p, forced) ==
  /\ Free(p) /\ ~closed /\ takers = <<>>
  /\ Len(line) < Cap \/ forced
  /\ line' = Append(line, Offered(p, Nobody))
  /\ outcome' = [outcome EXCEPT ![p] = Answer("ok", Nobody)]
  /\ UNCHANGED <<takers, closed>>

WaitPush(p) ==
  /\ Free(p) /\ ~closed /\ takers = <<>> /\ Len(line) >= Cap
  /\ line' = Append(line, Offered(p, p))
  /\ outcome' = [outcome EXCEPT ![p] = Waiting]
  /\ UNCHANGED <<takers, closed>>

RefusePush(p) ==
  /\ Free(p)
  /\ \/ closed /\ outcome' = [outcome EXCEPT ![p] = Answer("EPIPE", Nobody)]
     \/ /\ ~closed /\ takers = <<>> /\ Len(line) >= Cap
        /\ outcome' = [outcome EXCEPT ![p] = Answer("EAGAIN", Nobody)]
  /\ UNCHANGED <<line, takers, closed>>

(* The front item leaves, and the first push behind the capacity has its   *)
(* place.                                                                  *)
Take(c) ==
  LET n == Cap + 1
      placed == n <= Len(line) /\ line[n].by # Nobody
  IN
  /\ Free(c) /\ line # <<>>
  /\ outcome' = [h \in DOMAIN outcome |->
       IF h = c THEN Answer("ok", Head(line).item)
       ELSE IF placed /\ h = line[n].by THEN Answer("ok", Nobody)
       ELSE outcome[h]]
  /\ line' = Tail(IF placed THEN [line EXCEPT ![n].by = Nobody] ELSE line)
  /\ UNCHANGED <<takers, closed>>

WaitPop(c) ==
  /\ Free(c) /\ ~closed /\ line = <<>>
  /\ takers' = Append(takers, c)
  /\ outcome' = [outcome EXCEPT ![c] = Waiting]
  /\ UNCHANGED <<line, closed>>

RefusePop(c) ==
  /\ Free(c) /\ line = <<>>
  /\ outcome' = [outcome EXCEPT ![c] =
       Answer(IF closed THEN "EPIPE" ELSE "EAGAIN", Nobody)]
  /\ UNCHANGED <<line, takers, closed>>

(* s without its i-th element. *)
Without(s, i) == [k \in 1..Len(s) - 1 |-> s[IF k < i THEN k ELSE k + 1]]

(* A waiting operation is cancelled and leaves no trace. *)
Withdraw(h) ==
  /\ ~Free(h)
  /\ \/ /\ \E i \in DOMAIN line : line[i].by = h /\ line' = Without(line, i)
        /\ UNCHANGED takers
     \/ /\ \E i \in DOMAIN takers : takers[i] = h /\ takers' = Without(takers, i)
        /\ UNCHANGED line
  /\ outcome' = [outcome EXCEPT ![h] = Answer("ECANCELED", Nobody)]
  /\ UNCHANGED closed

(* Waiting operations fail; what has its place stays for later pops, or is *)
(* dropped with the channel itself.                                        *)
Close(keep) ==
  /\ closed' = TRUE
  /\ line' = IF keep /\ ~closed
               THEN SubSeq(line, 1, IF Len(line) < Cap THEN Len(line) ELSE Cap)
             ELSE IF keep THEN line ELSE <<>>
  /\ takers' = <<>>
  /\ outcome' = [h \in DOMAIN outcome |->
       IF Free(h) THEN outcome[h] ELSE Answer("EPIPE", Nobody)]

Next ==
  /\ \/ \E p \in Pushers :
          Give(p) \/ WaitPush(p) \/ RefusePush(p)
          \/ \E forced \in BOOLEAN : Put(p, forced)
     \/ \E c \in Poppers : Take(c) \/ WaitPop(c) \/ RefusePop(c)
     \/ \E h \in Pushers \cup Poppers : Withdraw(h)
     \/ \E keep \in BOOLEAN : Close(keep)
  /\ UNCHANGED Cap

Spec == Init /\ [][Next]_vars
=============================================================================
