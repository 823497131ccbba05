------------------------------- MODULE FileCopy -------------------------------
(***************************************************************************)
(* examples/link-cp.cpp: tasks of one runtime share the offset of a copy   *)
(* by reference, and each copies its next chunk with a read linked to a    *)
(* write (aw1 >> aw2, module Link) through its own registered buffer.      *)
(*                                                                         *)
(* An action is what a coroutine does between two suspensions, or what     *)
(* io_uring does.  A read that fails or is short cancels the write that is *)
(* linked to it.                                                           *)
(***************************************************************************)
EXTENDS Integers

CONSTANTS
  Tasks,        \* task_num tasks
  FileSize,     \* stx_size
  ChunkSize,    \* chunk_size
  ShortWrites   \* the kernel may write less than it is asked to

VARIABLES
  main,     \* where co_main and do_file_copy are; "exit" after exit(1)
  buffer,   \* raw_buffer is allocated
  files,    \* descriptors open
  offset,   \* the shared offset
  task,     \* where a task is
  cur,      \* its current_offset
  copied    \* bytes of the output file that have the input's contents

vars == <<main, buffer, files, offset, task, cur, copied>>

Init ==
  /\ main = "open"
  /\ buffer = FALSE
  /\ files = {}
  /\ offset = 0
  /\ task = [t \in Tasks |-> "none"]
  /\ cur = [t \in Tasks |-> 0]
  /\ copied = {}

(* to_copy at offset o, *)
ToCopy(o) == IF ChunkSize < FileSize - o THEN ChunkSize ELSE FileSize - o

(* and the bytes of the chunk there. *)
Chunk(o) == o..o + ToCopy(o) - 1

(* exit(1): the kernel finishes nothing more for the process. *)
Exit ==
  /\ main' = "exit"
  /\ buffer' = FALSE
  /\ files' = {}
  /\ UNCHANGED <<offset, task, cur, copied>>
-----------------------------------------------------------------------------
(* The two opens complete together; either may fail. *)
Open ==
  /\ main = "open"
  /\ \/ Exit
     \/ /\ main' = "stat"
        /\ files' = {"in", "out"}
        /\ UNCHANGED <<buffer, offset, task, cur, copied>>

(* statx, the test of the size for O_DIRECT, posix_memalign, the two       *)
(* tables and the call of fadvise.                                         *)
Stat ==
  /\ main = "stat"
  /\ \/ Exit
     \/ /\ main' = "advise"
        /\ buffer' = TRUE
        /\ UNCHANGED <<files, offset, task, cur, copied>>

(* fadvise completes and the tasks are spawned. *)
Spawn ==
  /\ main = "advise"
  /\ \/ Exit
     \/ /\ main' = "await"
        /\ offset' = 0
        /\ task' = [t \in Tasks |-> "loop"]
        /\ UNCHANGED <<buffer, files, cur, copied>>

(* All tasks have been awaited: free, and the closes are submitted. *)
Join ==
  /\ main = "await"
  /\ \A t \in Tasks : task[t] = "ended"
  /\ main' = "close"
  /\ buffer' = FALSE
  /\ UNCHANGED <<files, offset, task, cur, copied>>

Close ==
  /\ main = "close"
  /\ main' = "done"
  /\ files' = {}
  /\ UNCHANGED <<buffer, offset, task, cur, copied>>
-----------------------------------------------------------------------------
(* Mutant: offset is not advanced before the copy is awaited. *)
NextChunkLate(t) ==
  /\ task[t] = "loop"
  /\ IF offset < FileSize
       THEN /\ cur' = [cur EXCEPT ![t] = offset]
            /\ task' = [task EXCEPT ![t] = "read"]
       ELSE /\ task' = [task EXCEPT ![t] = "ended"]
            /\ UNCHANGED cur
  /\ UNCHANGED <<main, buffer, files, offset, copied>>

(* The loop of copy_file_task: take the next chunk and await the link, or  *)
(* return.                                                                 *)
NextChunk(t) ==
  /\ task[t] = "loop"
  /\ IF offset < FileSize
       THEN /\ cur' = [cur EXCEPT ![t] = offset]
            /\ offset' = offset + ChunkSize
            /\ task' = [task EXCEPT ![t] = "read"]
       ELSE /\ task' = [task EXCEPT ![t] = "ended"]
            /\ UNCHANGED <<cur, offset>>
  /\ UNCHANGED <<main, buffer, files, copied>>

(* The read fills the buffer and the write begins, *)
Read(t) ==
  /\ task[t] = "read"
  /\ task' = [task EXCEPT ![t] = "write"]
  /\ UNCHANGED <<main, buffer, files, offset, cur, copied>>

(* and writes it, r1 and r2 are not negative; *)
Write(t) ==
  /\ task[t] = "write"
  /\ \E n \in 1..ToCopy(cur[t]) :
       /\ ShortWrites \/ n = ToCopy(cur[t])
       /\ copied' = copied \cup cur[t]..cur[t] + n - 1
  /\ task' = [task EXCEPT ![t] = "loop"]
  /\ UNCHANGED <<main, buffer, files, offset, cur>>

(* or one of the two fails, or the read is short: exit(1). *)
Fail(t) == task[t] \in {"read", "write"} /\ Exit
-----------------------------------------------------------------------------
Next ==
  /\ main # "exit"
  /\ \/ Open \/ Stat \/ Spawn \/ Join \/ Close
     \/ \E t \in Tasks : NextChunk(t) \/ Read(t) \/ Write(t) \/ Fail(t)

Spec == Init /\ [][Next]_vars
-----------------------------------------------------------------------------
InFlight == {t \in Tasks : main # "exit" /\ task[t] \in {"read", "write"}}

(* A program that ends without exit(1) has copied every byte.  The chunks  *)
(* in flight never overlap, and their buffer and files outlive them,       *)
(* although offset is advanced before the chunk is copied and each task    *)
(* goes on to whichever chunk is next.                                     *)
CopyIsExact ==
  /\ main = "done" => copied = 0..FileSize - 1
  /\ \A t \in InFlight : buffer /\ files = {"in", "out"}
  /\ \A t, u \in InFlight : t # u => Chunk(cur[t]) \cap Chunk(cur[u]) = {}
=============================================================================
