--------------------------- MODULE RuntimeOptions ----------------------------
(***************************************************************************)
(* RuntimeOptions (runtime_options.hpp), the setters of which refuse what  *)
(* does not go together, and Runtime::create_ring_ (runtime.hpp), which    *)
(* turns the options into the flags of io_uring_setup and a submit batch.  *)
(* The setters are called in any order and any number of times; one that   *)
(* throws changes nothing.                                                 *)
(***************************************************************************)
EXTENDS Naturals, FiniteSets

CONSTANTS
  Sizes,       \* arguments of sq_size
  CqSizes,     \* arguments of cq_size, 0 among them: the default
  Batches,     \* arguments of submit_batch, 0 among them: the default
  MaxBatch     \* numeric_limits<size_t>::max()

VARIABLES
  enabled,       \* the options that are on
  sq_size,       \* sq_size_
  cq_size,       \* cq_size_
  submit_batch   \* submit_batch_

vars == <<enabled, sq_size, cq_size, submit_batch>>

(* sq_size_ is 128 in the code; any of Sizes will do. *)
Init ==
  /\ enabled = {}
  /\ sq_size \in Sizes
  /\ cq_size = 0
  /\ submit_batch = 0

(* The options an option is refused with, *)
Excludes == [
  sqpoll        |-> {"defer_taskrun", "coop_taskrun", "sq_rewind"},
  sq_aff        |-> {"defer_taskrun", "coop_taskrun", "sq_rewind"},
  defer_taskrun |-> {"sqpoll", "coop_taskrun"},
  coop_taskrun  |-> {"sqpoll", "defer_taskrun"},
  sqe128        |-> {"sqe_mixed"},
  sqe_mixed     |-> {"sqe128"},
  cqe32         |-> {"cqe_mixed"},
  cqe_mixed     |-> {"cqe32"},
  sq_rewind     |-> {"sqpoll"},
  iopoll        |-> {},
  hybrid_iopoll |-> {},
  attach_wq     |-> {},
  no_mmap       |-> {}]

(* and the ones it needs. *)
Needs(x) == IF x = "hybrid_iopoll" THEN {"iopoll"} ELSE {}

(* enable_sqpoll(t) and enable_sqpoll(t, cpu) both set the cpu. *)
Enabled(x) ==
  IF x = "sqpoll" THEN (enabled \ {"sq_aff"}) \cup {"sqpoll"}
  ELSE IF x = "sq_aff" THEN enabled \cup {"sqpoll", "sq_aff"}
  ELSE enabled \cup {x}

(* Mutant: the check of sq_rewind is only in enable_sqpoll. *)
EnableUnchecked(x) ==
  /\ x # "sq_rewind" => Excludes[x] \cap enabled = {}
  /\ Needs(x) \subseteq enabled
  /\ enabled' = Enabled(x)
  /\ UNCHANGED <<sq_size, cq_size, submit_batch>>

(* enable_...() *)
Enable(x) ==
  /\ Excludes[x] \cap enabled = {}
  /\ Needs(x) \subseteq enabled
  /\ enabled' = Enabled(x)
  /\ UNCHANGED <<sq_size, cq_size, submit_batch>>

(* The setters of the sizes check nothing. *)
SetSize(n) == sq_size' = n /\ UNCHANGED <<enabled, cq_size, submit_batch>>
SetCqSize(n) == cq_size' = n /\ UNCHANGED <<enabled, sq_size, submit_batch>>
SetBatch(n) == submit_batch' = n /\ UNCHANGED <<enabled, sq_size, cq_size>>

Next ==
  \/ \E x \in DOMAIN Excludes : Enable(x)
  \/ \E n \in Sizes : SetSize(n)
  \/ \E n \in CqSizes : SetCqSize(n)
  \/ \E n \in Batches : SetBatch(n)

Spec == Init /\ [][Next]_vars
-----------------------------------------------------------------------------
(* create_ring_: params.flags *)
Flags ==
  {"clamp", "single_issuer", "submit_all", "r_disabled"}
  \cup (enabled \ (IF "iopoll" \in enabled THEN {} ELSE {"hybrid_iopoll"}))
  \cup (IF cq_size # 0 THEN {"cqsize"} ELSE {})
  \cup (IF enabled \cap {"defer_taskrun", "coop_taskrun"} # {} THEN {"taskrun_flag"} ELSE {})

(* and the submit batch of the ring. *)
SubmitBatch ==
  IF submit_batch > 0 THEN submit_batch
  ELSE IF "sqpoll" \in enabled THEN IF sq_size < 32 THEN sq_size ELSE 32
  ELSE MaxBatch

(* The flags io_uring_setup takes: nothing it answers EINVAL to. *)
KernelTakes(flags) ==
  /\ "sqpoll" \in flags =>
       flags \cap {"coop_taskrun", "taskrun_flag", "defer_taskrun", "sq_rewind"} = {}
  /\ "sq_aff" \in flags => "sqpoll" \in flags
  /\ "taskrun_flag" \in flags => flags \cap {"coop_taskrun", "defer_taskrun"} # {}
  /\ "defer_taskrun" \in flags => "single_issuer" \in flags
  /\ "hybrid_iopoll" \in flags => "iopoll" \in flags
  /\ ~({"cqe32", "cqe_mixed"} \subseteq flags)
  /\ ~({"sqe128", "sqe_mixed"} \subseteq flags)

(* The sizes it takes: they are clamped and rounded up to powers of two,   *)
(* and the completion queue may not end up the smaller one.                *)
Clamp(n, most) == IF n < most THEN n ELSE most
PowersOfTwo == {2^k : k \in 0..16}

KernelTakesSizes(flags, sq, cq) ==
  /\ sq > 0
  /\ "cqsize" \in flags =>
       \A p \in PowersOfTwo : Clamp(cq, 65536) <= p => Clamp(sq, 32768) <= p

(* Whatever calls of the setters went through, in whatever order, the      *)
(* flags create_ring_ makes of the options are ones the kernel takes.      *)
(* The sizes are the caller's to choose: no setter looks at them.  With    *)
(* sq_size(0) the kernel refuses the ring, and with enable_sqpoll() and    *)
(* the default submit batch the assert(submit_batch > 0) of create_ring_   *)
(* fails before that; a completion queue smaller than the submission queue *)
(* may be refused too.  Other sizes are taken, and the assert holds.       *)
OptionsAreAccepted ==
  /\ KernelTakes(Flags)
  /\ SubmitBatch = 0 => sq_size = 0 /\ "sqpoll" \in enabled /\ submit_batch = 0
  /\ sq_size > 0 /\ (cq_size = 0 \/ cq_size >= sq_size)
       => KernelTakesSizes(Flags, sq_size, cq_size)
=============================================================================
