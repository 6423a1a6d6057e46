----------------------------- MODULE TensorLeases -----------------------------
(***************************************************************************)
(* The tensor buffers of a session's ToTensor node under its batch         *)
(* executor: who holds them between preprocess and the end of a batch.     *)
(*                                                                         *)
(* One thread preprocesses a frame after the other and pushes it into the  *)
(* preprocess queue; another takes the frames out, collects a batch and    *)
(* infers it, when the batch's tensors are given back.  Unlike the queues  *)
(* the pool does not wait: a frame that finds it empty fails.              *)
(***************************************************************************)
EXTENDS Naturals, Sequences, FiniteSets

CONSTANTS StageQueue,  \* capacity of the preprocess queue
          MaxBatch,    \* members of a batch
          FrameCount   \* frames that were accepted

VARIABLE leases

Flags(flag) == IF flag THEN 1 ELSE 0

(* What the assembler and the presets give the node. *)
PoolSize == StageQueue + 2

(* `hand` is the frame in the hand of the preprocess thread; a frame in    *)
(* hand or queue is TRUE when it has a tensor, FALSE when it failed.       *)
LeasesInit == leases = [left |-> FrameCount, hand |-> << >>, queue |-> << >>,
                        members |-> 0, inferring |-> FALSE, exhausted |-> 0]

Held(frames) == Cardinality({i \in DOMAIN frames : frames[i]})

InUse == leases.members + Held(leases.hand) + Held(leases.queue)

Preprocess ==
    /\ leases.left > 0 /\ leases.hand = << >>
    /\ \/ /\ InUse < PoolSize
          /\ leases' = [leases EXCEPT !.left = @ - 1, !.hand = <<TRUE>>]
       \/ /\ InUse >= PoolSize
          /\ leases' = [leases EXCEPT !.left = @ - 1, !.hand = <<FALSE>>, !.exhausted = @ + 1]

(* A full queue blocks the preprocess thread. *)
Push ==
    /\ leases.hand # << >> /\ Len(leases.queue) < StageQueue
    /\ leases' = [leases EXCEPT !.hand = << >>, !.queue = @ \o leases.hand]

(* A frame that failed goes straight on to its completion. *)
Collect ==
    /\ ~leases.inferring /\ leases.members < MaxBatch /\ leases.queue # << >>
    /\ leases' = [leases EXCEPT !.queue = Tail(@), !.members = @ + Flags(Head(leases.queue))]

(* The batch is full, or the flush timeout has passed. *)
Flush ==
    /\ ~leases.inferring /\ leases.members > 0
    /\ leases' = [leases EXCEPT !.inferring = TRUE]

BatchInferred ==
    /\ leases.inferring
    /\ leases' = [leases EXCEPT !.inferring = FALSE, !.members = 0]

LeasesNext == Preprocess \/ Push \/ Collect \/ Flush \/ BatchInferred

LeasesSpec == LeasesInit /\ [][LeasesNext]_leases

(* Accepted tasks are not lost to a slow inference: full queues hold the   *)
(* preprocess thread back (architecture.md:235-236), so no frame fails for *)
(* want of a tensor.  It holds for batches of one, which is the parallel   *)
(* executor; larger batches hold more tensors than the pool was made for.  *)
NoFrameFailsUnderLoad == leases.exhausted = 0

=============================================================================
