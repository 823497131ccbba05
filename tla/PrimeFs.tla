------------------------------- MODULE PrimeFs --------------------------------
(***************************************************************************)
(* examples/fuse-prime-fs.cpp: a file system over io_uring.  Each queue    *)
(* has some coroutines (io_loop), which take a request from the kernel,    *)
(* answer it (FuseServer::handle) and commit the answer with the next      *)
(* fetch.                                                                  *)
(*                                                                         *)
(* The kernel and its users are external: a user reads a directory or a    *)
(* file piece by piece, each piece from where the last one ended and of    *)
(* any size, until it gets nothing or an error; any loop may be given the  *)
(* request.                                                                *)
(***************************************************************************)
EXTENDS Naturals, Sequences, FiniteSets

CONSTANTS
  Number,       \* number_
  MaxPayload,   \* MAX_PAYLOAD_SZ
  Sizes,        \* per opcode: sizes of the reads; an entry fits in each
  Users,
  Targets,      \* <<opcode, node>> a user may read
  Queues,       \* one per CPU
  Loops,        \* of each queue
  MultiThread,  \* multi_thread: a runtime per queue, or one for all
  NoReq

VARIABLES
  main,     \* where main is; "exit" after exit(1)
  mounted,  \* the kernel has a connection
  memory,   \* headers and payloads are mapped
  table,    \* runtimes whose fd table is registered
  queue,    \* where an io_queue is
  loop,     \* where an io_loop is
  hdr,      \* the header of a loop: its request, and then its reply
  target,   \* what a user reads
  user,     \* where it is: ready, waiting, end, error
  got       \* what it has read

vars == <<main, mounted, memory, table, queue, loop, hdr, target, user, got>>
AllLoops == Queues \X Loops

Init ==
  /\ main = "mount"
  /\ mounted = FALSE
  /\ memory = FALSE
  /\ table = {}
  /\ queue = [q \in Queues |-> "begin"]
  /\ loop = [l \in AllLoops |-> "none"]
  /\ hdr = [l \in AllLoops |-> NoReq]
  /\ target \in [Users -> Targets]
  /\ user = [u \in Users |-> "ready"]
  /\ got = [u \in Users |-> <<>>]
-----------------------------------------------------------------------------
(* FuseServer.                                                             *)
Root == 1

(* Mutant: a square has no divisor below its root. *)
IsPrimeOpen(n) == n >= 2 /\ \A i \in 2..n : i * i < n => n % i # 0

IsPrime(n) == n >= 2 /\ \A i \in 2..n : i * i <= n => n % i # 0

NumOf(node) == IF node = Root THEN Number ELSE node

IsDir(node) == node = Root \/ ~IsPrime(NumOf(node))

(* std::to_string(n).size(), for the numbers of the model *)
Digits(n) == IF n < 10 THEN 1 ELSE 2

(* reply_err and reply_ok *)
Error(e) == [error |-> e, data |-> <<>>]
Reply(data) == [error |-> "0", data |-> data]

(* The type and size of fill_attr_. *)
Attr(node) ==
  [ino |-> node, dir |-> IsDir(node),
   size |-> IF IsDir(node) THEN 4096 ELSE Digits(NumOf(node)) + 1]

(* do_lookup_ of a name that is a number *)
DoLookup(parent, num) ==
  IF ~IsDir(parent) THEN Error("ENOTDIR")
  ELSE IF num <= 1 \/ num >= NumOf(parent) THEN Error("ENOENT")
  ELSE Reply(<<Attr(num)>>)

DoGetattr(node) == Reply(<<Attr(node)>>)

Smaller(a, b) == IF a < b THEN a ELSE b

(* do_read_: the bytes, by their position, of the number and a newline *)
DoRead(node, offset, size) ==
  IF IsDir(node) THEN Error("EISDIR")
  ELSE LET length == Digits(NumOf(node)) + 1
           off    == Smaller(offset, length)
           n      == Smaller(size, length - off)
       IN  Reply([i \in 1..n |-> off + i])

(* FUSE_REC_ALIGN(FUSE_NAME_OFFSET + namelen) *)
RecLen(n) == ((24 + Digits(n) + 7) \div 8) * 8

(* The length of the first k entries from offset on. *)
Used(offset, k) ==
  LET sum[j \in 0..k] == IF j = 0 THEN 0 ELSE sum[j - 1] + RecLen(offset + j + 1)
  IN  sum[k]

(* do_readdir_: entries [2, num) from offset on, as many as emit finds     *)
(* room for; an entry has its number, its type and the offset of the next. *)
DoReaddir(node, offset, size) ==
  LET max    == Smaller(size, MaxPayload)
      all    == {n \in 2..NumOf(node) : n < NumOf(node) /\ n >= offset + 2}
      counts == {k \in 0..Cardinality(all) : Used(offset, k) <= max}
      count  == CHOOSE k \in counts : \A j \in counts : j <= k
  IN  IF ~IsDir(node) THEN Error("ENOTDIR")
      ELSE Reply([k \in 1..count |-> [ino |-> offset + k + 1, off |-> offset + k,
                                      dir |-> IsDir(offset + k + 1)]])

(* handle.  open and statfs answer with a structure that says nothing of   *)
(* the node.                                                               *)
Handle(r) ==
  CASE r.op = "lookup" -> DoLookup(r.node, r.num)
    [] r.op = "getattr" -> DoGetattr(r.node)
    [] r.op = "read" -> DoRead(r.node, r.offset, r.size)
    [] r.op = "readdir" -> DoReaddir(r.node, r.offset, r.size)
    [] r.op \in {"open", "statfs"} -> Reply(<<r.op>>)
    [] r.op \in {"release", "flush", "fsync", "access", "destroy"} -> Error("0")
    [] OTHER -> Error("ENOSYS")
-----------------------------------------------------------------------------
(* main.                                                                   *)
Exit ==
  /\ main' = "exit"
  /\ UNCHANGED <<mounted, memory, table, queue, loop, hdr, target, user, got>>

(* open /dev/fuse, mount_fuse: the calls up to move_mount. *)
Mount ==
  /\ main = "mount"
  /\ \/ Exit
     \/ /\ main' = "init"
        /\ mounted' = TRUE
        /\ UNCHANGED <<memory, table, queue, loop, hdr, target, user, got>>

(* init_fuse: the kernel's request is accepted and answered, or refused by *)
(* check_init_request; then the two mmaps and the runtimes.                *)
InitFuse ==
  /\ main = "init"
  /\ \/ Exit
     \/ /\ main' = "run"
        /\ memory' = TRUE
        /\ UNCHANGED <<mounted, table, queue, loop, hdr, target, user, got>>

(* on_signal, or a user: umount. *)
Unmount ==
  /\ main = "run"
  /\ mounted
  /\ mounted' = FALSE
  /\ UNCHANGED <<main, memory, table, queue, loop, hdr, target, user, got>>

(* run() returns when the queues have, then wait(), munmap and close. *)
Finish ==
  /\ main = "run"
  /\ \A q \in Queues : queue[q] = "end"
  /\ main' = "end"
  /\ memory' = FALSE
  /\ UNCHANGED <<mounted, table, queue, loop, hdr, target, user, got>>
-----------------------------------------------------------------------------
RuntimeOf(q) == IF MultiThread THEN q ELSE 0

(* io_queue: fd_table.init, which fails on a table that is in use, and the *)
(* loops, each of which submits REGISTER.                                  *)
IoQueue(q) ==
  /\ main = "run"
  /\ queue[q] = "begin"
  /\ \/ Exit
     \/ /\ RuntimeOf(q) \notin table
        /\ table' = table \cup {RuntimeOf(q)}
        /\ queue' = [queue EXCEPT ![q] = "await"]
        /\ loop' = [l \in AllLoops |-> IF l[1] = q THEN "fetch" ELSE loop[l]]
        /\ UNCHANGED <<main, mounted, memory, hdr, target, user, got>>

(* All loops have returned: fd_table.destroy. *)
IoQueueEnd(q) ==
  /\ queue[q] = "await"
  /\ \A l \in AllLoops : l[1] = q => loop[l] = "end"
  /\ queue' = [queue EXCEPT ![q] = "end"]
  /\ table' = table \ {RuntimeOf(q)}
  /\ UNCHANGED <<main, mounted, memory, loop, hdr, target, user, got>>

(* The offset a user goes on from: d->off of the last entry, or the number *)
(* of bytes it has.                                                        *)
Position(u) ==
  IF got[u] = <<>> THEN 0
  ELSE IF target[u][1] = "readdir" THEN got[u][Len(got[u])].off ELSE Len(got[u])

(* The kernel hands a user's request to a loop. *)
Fetch(l, u, size) ==
  /\ mounted
  /\ loop[l] = "fetch"
  /\ user[u] = "ready"
  /\ hdr' = [hdr EXCEPT ![l] = [user |-> u, op |-> target[u][1],
       node |-> target[u][2], offset |-> Position(u), size |-> size]]
  /\ loop' = [loop EXCEPT ![l] = "handle"]
  /\ user' = [user EXCEPT ![u] = "waiting"]
  /\ UNCHANGED <<main, mounted, memory, table, queue, target, got>>

(* commit_id is kept, the request handled in place and COMMIT_AND_FETCH    *)
(* submitted; the kernel takes the reply for the user unless the           *)
(* connection is gone.                                                     *)
Commit(l) ==
  LET u == hdr[l].user
      r == Handle(hdr[l])
  IN
  /\ loop[l] = "handle"
  /\ hdr' = [hdr EXCEPT ![l] = NoReq]
  /\ loop' = [loop EXCEPT ![l] = "fetch"]
  /\ got' = [got EXCEPT ![u] = IF mounted THEN @ \o r.data ELSE @]
  /\ user' = [user EXCEPT ![u] =
       CASE ~mounted \/ r.error # "0" -> "error"
         [] r.error = "0" /\ r.data = <<>> -> "end"
         [] OTHER -> "ready"]
  /\ UNCHANGED <<main, mounted, memory, table, queue, target>>

(* -ENOTCONN: io_loop returns. *)
Disconnect(l) ==
  /\ loop[l] = "fetch"
  /\ ~mounted
  /\ loop' = [loop EXCEPT ![l] = "end"]
  /\ UNCHANGED <<main, mounted, memory, table, queue, hdr, target, user, got>>

(* A command fails otherwise: exit(1). *)
LoopFails(l) == loop[l] = "fetch" /\ Exit
-----------------------------------------------------------------------------
LoopStep(l) == Commit(l) \/ Disconnect(l)

Next ==
  /\ main # "exit"
  /\ \/ Mount \/ InitFuse \/ Unmount \/ Finish
     \/ \E q \in Queues : IoQueue(q) \/ IoQueueEnd(q)
     \/ \E l \in AllLoops :
          LoopStep(l) \/ LoopFails(l)
          \/ \E u \in Users : \E s \in Sizes[target[u][1]] : Fetch(l, u, s)

Spec == Init /\ [][Next]_vars
-----------------------------------------------------------------------------
(* "prime numbers are regular files holding their own value, and composite *)
(* numbers are directories recursively containing all smaller numbers"     *)
(* (docs/examples.md): reading a directory page by page gives each number  *)
(* from 2 on below it once, with the type that lookup gives it, and        *)
(* reading a file gives as many bytes as getattr says, whatever the sizes  *)
(* of the reads and whichever loops serve them.                            *)
ReadsAreComplete ==
  \A u \in Users :
    LET node == target[u][2] IN
    user[u] = "end" =>
      IF target[u][1] = "readdir"
      THEN /\ Len(got[u]) = NumOf(node) - 2
           /\ \A i \in 1..Len(got[u]) :
                LET e == got[u][i] IN
                /\ e.ino = i + 1
                /\ DoLookup(node, e.ino).data = DoGetattr(e.ino).data
                /\ e.dir <=> \E a, b \in 2..e.ino : a * b = e.ino
      ELSE /\ got[u] = [i \in 1..Len(got[u]) |-> i]
           /\ Len(got[u]) = DoGetattr(node).data[1].size

(* Headers and payloads stay mapped, and the device in the fd table, while *)
(* a loop has them at the kernel.                                          *)
ServingIsMapped ==
  main # "exit" => \A l \in AllLoops :
    loop[l] \in {"fetch", "handle"} => memory /\ RuntimeOf(l[1]) \in table

(* After umount the program ends. *)
Ending == main = "run" /\ ~mounted
Over == main \in {"end", "exit"}
=============================================================================
