----------------------------- MODULE BlockDevice ------------------------------
(***************************************************************************)
(* examples/ublk-loop.cpp: co_main sets a ublk device up, runs its queues, *)
(* each on a runtime of its own, and takes it down after a signal.  A      *)
(* queue has a coroutine (io_loop) per tag, which fetches a request, does  *)
(* the I/O and commits the result with the next fetch.                     *)
(*                                                                         *)
(* The kernel is external: it holds a fetch until there is a request or    *)
(* the device is stopped, it starts a device when all tags have fetched,   *)
(* and any command may fail.  What an exit(1) leaves is the kernel's to    *)
(* release.                                                                *)
(***************************************************************************)
EXTENDS Naturals

CONSTANTS Queues, Tags, NoReq

Loops == Queues \X Tags

VARIABLES
  main,     \* where co_main is; "exit" after exit(1)
  dev,      \* the device in the kernel
  files,    \* of ctrl_fd and ublkc_fd, those that are open
  bufs,     \* bufs_base is mapped
  descs,    \* queues whose io_desc_base is mapped
  tables,   \* queues whose runtime has ublkc_fd in its fd table
  queue,    \* where io_queue is
  loop,     \* where an io_loop is
  req,      \* the request in its descriptor
  res       \* its r

memory == <<bufs, descs, tables>>
loops == <<loop, req, res>>
vars == <<main, dev, files, memory, queue, loops>>

Init ==
  /\ main = "open_ctrl"
  /\ dev = "none"
  /\ files = {}
  /\ bufs = FALSE
  /\ descs = {}
  /\ tables = {}
  /\ queue = [q \in Queues |-> "none"]
  /\ loop = [l \in Loops |-> "none"]
  /\ req = [l \in Loops |-> NoReq]
  /\ res = [l \in Loops |-> "ok"]

Exit == main' = "exit" /\ UNCHANGED <<dev, files, memory, queue, loops>>

(* An awaited command of co_main completes: go on, or exit(1). *)
Go(from, to) == main = from /\ main' = to
-----------------------------------------------------------------------------
(* setup_device: open the control file, ADD_DEV, open the device,          *)
(* SET_PARAMS.                                                             *)
SetupDevice ==
  \/ /\ main \in {"open_ctrl", "add_dev", "open_dev", "set_params"}
     /\ Exit
  \/ /\ \/ Go("open_ctrl", "add_dev") /\ files' = {"ctrl"} /\ UNCHANGED dev
        \/ Go("add_dev", "open_dev") /\ dev' = "added" /\ UNCHANGED files
        \/ Go("open_dev", "set_params") /\ files' = {"ctrl", "dev"} /\ UNCHANGED dev
        \/ Go("set_params", "spawn") /\ dev' = "configured" /\ UNCHANGED files
     /\ UNCHANGED <<memory, queue, loops>>

(* mmap of the buffers; spawn the queues and submit START_DEV. *)
SpawnQueues ==
  /\ main = "spawn"
  /\ \/ Exit
     \/ /\ main' = "start_dev"
        /\ bufs' = TRUE
        /\ queue' = [q \in Queues |-> "begin"]
        /\ UNCHANGED <<dev, files, descs, tables, loops>>

(* START_DEV completes once every tag has been fetched. *)
StartDev ==
  \/ main = "start_dev" /\ Exit
  \/ /\ \A l \in Loops : loop[l] = "fetch"
     /\ Go("start_dev", "signal")
     /\ dev' = "live"
     /\ UNCHANGED <<files, memory, queue, loops>>

(* The read of signal_fd completes, whatever its result. *)
Signal == Go("signal", "stop_dev") /\ UNCHANGED <<dev, files, memory, queue, loops>>

(* STOP_DEV *)
StopDev ==
  \/ main = "stop_dev" /\ Exit
  \/ /\ Go("stop_dev", "await")
     /\ dev' = "stopped"
     /\ UNCHANGED <<files, memory, queue, loops>>

(* Mutant: the buffers are unmapped once the device has stopped. *)
UnmapEarly ==
  /\ Go("await", "close_dev")
  /\ bufs' = FALSE
  /\ UNCHANGED <<dev, files, descs, tables, queue, loops>>

(* The queues have been awaited: munmap, and close of the device. *)
Unmap ==
  /\ \A q \in Queues : queue[q] = "ended"
  /\ Go("await", "close_dev")
  /\ bufs' = FALSE
  /\ UNCHANGED <<dev, files, descs, tables, queue, loops>>

CloseDev ==
  /\ Go("close_dev", "del_dev")
  /\ files' = {"ctrl"}
  /\ UNCHANGED <<dev, memory, queue, loops>>

(* DEL_DEV, whose failure is only reported. *)
DelDev ==
  /\ Go("del_dev", "close_ctrl")
  /\ dev' \in {"deleted", dev}
  /\ UNCHANGED <<files, memory, queue, loops>>

(* The end of co_main, allow_exit and join of the queue runtimes. *)
Finish ==
  /\ Go("close_ctrl", "end")
  /\ files' = {}
  /\ UNCHANGED <<dev, memory, queue, loops>>
-----------------------------------------------------------------------------
(* io_queue: mmap of the descriptors, fd_table.init, and the loops, each   *)
(* of which submits FETCH_REQ.                                             *)
IoQueue(q) ==
  /\ queue[q] = "begin"
  /\ \/ Exit
     \/ /\ queue' = [queue EXCEPT ![q] = "await"]
        /\ descs' = descs \cup {q}
        /\ tables' = tables \cup {q}
        /\ loop' = [l \in Loops |-> IF l[1] = q THEN "fetch" ELSE loop[l]]
        /\ UNCHANGED <<main, dev, files, bufs, req, res>>

(* All loops have been awaited: fd_table.destroy and munmap. *)
IoQueueEnd(q) ==
  /\ queue[q] = "await"
  /\ \A t \in Tags : loop[<<q, t>>] = "ended"
  /\ queue' = [queue EXCEPT ![q] = "ended"]
  /\ descs' = descs \ {q}
  /\ tables' = tables \ {q}
  /\ UNCHANGED <<main, dev, files, bufs, loops>>

(* The kernel answers FETCH_REQ or COMMIT_AND_FETCH_REQ with a request;    *)
(* io_loop looks at the operation and submits the I/O, or rejects it and   *)
(* commits at once.                                                        *)
Request(l, op) ==
  /\ loop[l] = "fetch"
  /\ dev = "live"
  /\ req' = [req EXCEPT ![l] = op]
  /\ loop' = [loop EXCEPT ![l] = IF op = "unknown" THEN "commit" ELSE "io"]
  /\ res' = [res EXCEPT ![l] = IF op = "unknown" THEN "EINVAL" ELSE "ok"]
  /\ UNCHANGED <<main, dev, files, memory, queue>>

(* The read, write or fsync of the backing file completes, with an error   *)
(* or not, and the result is committed.                                    *)
Io(l) ==
  /\ loop[l] = "io"
  /\ \E r \in {"ok", "error"} : res' = [res EXCEPT ![l] = r]
  /\ loop' = [loop EXCEPT ![l] = "commit"]
  /\ UNCHANGED <<main, dev, files, memory, queue, req>>

(* The kernel takes the result of COMMIT_AND_FETCH_REQ, which is then a    *)
(* fetch.                                                                  *)
Commit(l) ==
  /\ loop[l] = "commit"
  /\ loop' = [loop EXCEPT ![l] = "fetch"]
  /\ req' = [req EXCEPT ![l] = NoReq]
  /\ res' = [res EXCEPT ![l] = "ok"]
  /\ UNCHANGED <<main, dev, files, memory, queue>>

(* Mutant: io_loop fetches again after an abort. *)
AbortRetried(l) ==
  /\ loop[l] = "fetch"
  /\ dev = "stopped"
  /\ loop' = [loop EXCEPT ![l] = "commit"]
  /\ UNCHANGED <<main, dev, files, memory, queue, req, res>>

(* UBLK_IO_RES_ABORT: io_loop returns. *)
Abort(l) ==
  /\ loop[l] = "fetch"
  /\ dev = "stopped"
  /\ loop' = [loop EXCEPT ![l] = "ended"]
  /\ UNCHANGED <<main, dev, files, memory, queue, req, res>>

(* A command of io_loop fails otherwise: exit(1). *)
LoopFails(l) == loop[l] \in {"fetch", "commit"} /\ Exit
-----------------------------------------------------------------------------
Main ==
  SetupDevice \/ SpawnQueues \/ StartDev \/ StopDev \/ Unmap \/ CloseDev
  \/ DelDev \/ Finish

LoopStep(l) == Io(l) \/ Commit(l) \/ Abort(l)

Next ==
  /\ main # "exit"
  /\ \/ Main \/ Signal
     \/ \E q \in Queues : IoQueue(q) \/ IoQueueEnd(q)
     \/ \E l \in Loops :
          LoopStep(l) \/ LoopFails(l)
          \/ \E op \in {"io", "unknown"} : Request(l, op)

Spec == Init /\ [][Next]_vars
-----------------------------------------------------------------------------
(* While a loop has a command at the kernel or I/O under way, its buffer   *)
(* and descriptors are mapped, the device is open and in the fd table of   *)
(* its queue; no request is dropped: a loop without one at work has        *)
(* committed it, and a program that ends normally has released all.        *)
InUseIsMapped ==
  main # "exit" =>
    /\ \A l \in Loops :
         loop[l] \notin {"none", "ended"} =>
           bufs /\ l[1] \in descs \cap tables /\ "dev" \in files
    /\ \A l \in Loops : req[l] = NoReq \/ loop[l] \in {"io", "commit"}
    /\ main = "end" => ~bufs /\ descs \cup tables \cup files = {}

(* After the signal the program comes to its end: every loop meets the     *)
(* abort, every queue returns, and co_main awaits them in turn.            *)
Stopping == main = "stop_dev"
Over == main \in {"end", "exit"}
=============================================================================
