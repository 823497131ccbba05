----------------------------- MODULE MCPrograms ------------------------------
(***************************************************************************)
(* Programs side by side: the two queues of examples/, which share a       *)
(* futex, the three programs whose coroutines share a device, a buffer or  *)
(* an offset, and the links of operations they are built on.  A behaviour  *)
(* is one of one of them; the others stay at their initial states.         *)
(***************************************************************************)
EXTENDS FutexQueue, TLC

CONSTANTS a, b, c, d, p1, p2, c1, Nobody, NoReq

VARIABLES
  which,
  s_sem, s_queue, s_stage, s_pc, s_seen, s_done, s_out,
  c_main, c_buffer, c_files, c_offset, c_task, c_cur, c_copied,
  b_main, b_dev, b_files, b_bufs, b_descs, b_tables, b_queue, b_loop, b_req, b_res,
  f_main, f_mounted, f_memory, f_table, f_queue, f_loop, f_hdr, f_target, f_user, f_got,
  l_cur, l_at, l_next, l_sq, l_count, l_kernel, l_result

(* A thread with four items, two coroutines, a queue of one. *)
Sem == INSTANCE SemaphoreQueue WITH
  Producers <- {1}, Consumers <- {2, 3}, Capacity <- 1, Produce <- 4, Consume <- 2,
  sem <- s_sem, queue <- s_queue, stage <- s_stage, pc <- s_pc, seen <- s_seen,
  done <- s_done, out <- s_out

(* Three tasks and a file of three chunks and a half. *)
Copy == INSTANCE FileCopy WITH
  Tasks <- {1, 2, 3}, FileSize <- 7, ChunkSize <- 2, ShortWrites <- FALSE,
  main <- c_main, buffer <- c_buffer, files <- c_files, offset <- c_offset,
  task <- c_task, cur <- c_cur, copied <- c_copied

(* Two queues of two tags. *)
Block == INSTANCE BlockDevice WITH
  Queues <- {1, 2}, Tags <- {1, 2}, main <- b_main, dev <- b_dev, files <- b_files,
  bufs <- b_bufs, descs <- b_descs, tables <- b_tables, queue <- b_queue,
  loop <- b_loop, req <- b_req, res <- b_res

(* Two queues of one loop, two users; the smallest read of a directory     *)
(* holds two entries, and the numbers go past the square of a prime.       *)
Fuse == INSTANCE PrimeFs WITH
  Number <- 12, MaxPayload <- 4096,
  Sizes <- [readdir |-> {70, 136}, read |-> {2, 4096}],
  Users <- {1, 2}, Targets <- {<<"readdir", 1>>, <<"readdir", 6>>, <<"read", 11>>},
  Queues <- {1, 2}, Loops <- {1}, MultiThread <- TRUE,
  main <- f_main, mounted <- f_mounted, memory <- f_memory, table <- f_table,
  queue <- f_queue, loop <- f_loop, hdr <- f_hdr, target <- f_target,
  user <- f_user, got <- f_got

(* A link of three, a hard link of two and two operations by themselves on *)
(* a submission queue of three entries.                                    *)
Linked == INSTANCE Link WITH
  Coros <- {a, b, c, d}, Length <- (a :> 3) @@ (b :> 2) @@ (c :> 1) @@ (d :> 1),
  Hard <- {b}, Rejectable <- {<<a, 1>>, <<c, 1>>}, Entries <- 3, SubmitBatch <- 100,
  cur <- l_cur, at <- l_at, next <- l_next, sq <- l_sq, count <- l_count,
  kernel <- l_kernel, result <- l_result

fq == <<mutex, notEmpty, notFull, queue, pc, gen, done, out>>
sq == <<s_sem, s_queue, s_stage, s_pc, s_seen, s_done, s_out>>
cp == <<c_main, c_buffer, c_files, c_offset, c_task, c_cur, c_copied>>
bd == <<b_main, b_dev, b_files, b_bufs, b_descs, b_tables, b_queue, b_loop, b_req, b_res>>
fs == <<f_main, f_mounted, f_memory, f_table, f_queue, f_loop, f_hdr, f_target, f_user, f_got>>
ln == <<l_cur, l_at, l_next, l_sq, l_count, l_kernel, l_result>>
all == <<which, fq, sq, cp, bd, fs, ln>>

(* One target for all users unless it is the file system that runs. *)
MCInit ==
  /\ which \in {"futexes", "semaphores", "copy", "block", "fuse", "link"}
  /\ Init /\ Sem!Init /\ Copy!Init /\ Block!Init /\ Fuse!Init /\ Linked!Init
  /\ which # "fuse" => f_target = [u \in {1, 2} |-> <<"read", 11>>]

OfFutexes(A) == which = "futexes" /\ A /\ UNCHANGED <<which, sq, cp, bd, fs, ln>>
OfSemaphores(A) == which = "semaphores" /\ A /\ UNCHANGED <<which, fq, cp, bd, fs, ln>>
OfCopy(A) == which = "copy" /\ A /\ UNCHANGED <<which, fq, sq, bd, fs, ln>>
OfBlock(A) == which = "block" /\ A /\ UNCHANGED <<which, fq, sq, cp, fs, ln>>
OfFuse(A) == which = "fuse" /\ A /\ UNCHANGED <<which, fq, sq, cp, bd, ln>>
OfLink(A) == which = "link" /\ A /\ UNCHANGED <<which, fq, sq, cp, bd, fs>>

MCNext ==
  \/ OfFutexes(Next)
  \/ OfSemaphores(Sem!Next)
  \/ OfCopy(Copy!Next)
  \/ OfBlock(Block!Next)
  \/ OfFuse(Fuse!Next)
  \/ OfLink(Linked!Next)

(* A process that has not called exit(1) goes on: every coroutine that a   *)
(* runtime has scheduled and every thread runs, and the kernel completes   *)
(* what it has.  Nobody need send a signal, a request or an umount, and    *)
(* nothing need fail.                                                      *)
Alive(main) == main # "exit"

MCSpec ==
  /\ MCInit /\ [][MCNext]_all
  /\ \A p \in Procs : WF_all(OfFutexes(Step(p)))
  /\ \A p \in 1..3 : WF_all(OfSemaphores(Sem!Step(p)))
  /\ WF_all(OfBlock(Alive(b_main) /\ Block!Main))
  /\ \A q \in 1..2 : WF_all(OfBlock(Alive(b_main) /\ (Block!IoQueue(q) \/ Block!IoQueueEnd(q))))
  /\ \A l \in {1, 2} \X {1, 2} : WF_all(OfBlock(Alive(b_main) /\ Block!LoopStep(l)))
  /\ WF_all(OfFuse(Alive(f_main) /\ Fuse!Finish))
  /\ \A q \in 1..2 : WF_all(OfFuse(Alive(f_main) /\ (Fuse!IoQueue(q) \/ Fuse!IoQueueEnd(q))))
  /\ \A l \in {1, 2} \X {1} : WF_all(OfFuse(Alive(f_main) /\ Fuse!LoopStep(l)))
  /\ WF_all(OfLink(Linked!Thread))
  /\ WF_all(OfLink(Linked!Kernel))
-----------------------------------------------------------------------------
(* queue-kernel-futex.cpp: the semaphores keep the queue a bounded         *)
(* first-in first-out queue.                                               *)
SemaphoresBound == Sem!SemaphoresBound

(* No wakeup of a mutex, a condition variable or a semaphore is lost in    *)
(* either queue: all producers and consumers make all their turns.         *)
QueuesReturn ==
  <>(/\ which = "futexes" => Returned
     /\ which = "semaphores" => Sem!Returned)

(* link-cp.cpp: the copy is complete and no two chunks overlap. *)
CopyIsExact == Copy!CopyIsExact

(* ublk-loop.cpp and fuse-prime-fs.cpp: what the kernel uses for a request *)
(* is mapped and registered until every coroutine is through with it.      *)
InUseIsMapped == Block!InUseIsMapped /\ Fuse!ServingIsMapped

(* fuse-prime-fs.cpp: reads piece by piece give the whole directory or     *)
(* file.                                                                   *)
ReadsAreComplete == Fuse!ReadsAreComplete

(* ublk-loop.cpp ends after a signal and fuse-prime-fs.cpp after umount:   *)
(* every loop meets the abort or the lost connection, every queue returns, *)
(* and the main coroutine has awaited them all.                            *)
ProgramsEnd ==
  Block!Stopping \/ Fuse!Ending
    ~> IF which = "block" THEN Block!Over ELSE Fuse!Over

(* Linked operations: executed in order, one after the other. *)
LinkedOrder == Linked!LinkedOrder

(* Linked operations: a failure cancels operations of its own link only. *)
CancelsOwnLink == Linked!CancelsOwnLink

(* Linked operations: every operation of a link completes. *)
LinkCompletes == Linked!LinkCompletes
=============================================================================
