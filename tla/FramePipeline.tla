---------------------------- MODULE FramePipeline ----------------------------
(***************************************************************************)
(* benchmark::TimedPipeline around a pipeline::Pipeline: packets go through*)
(* preprocess, inference and postprocess under one of the executors, and   *)
(* each one's execution is timed and counted.                              *)
(*                                                                         *)
(* A packet owns the camera frame, a lease of the buffer pool (a business  *)
(* frame lives no longer); each stage may fail or throw, which Pipeline    *)
(* turns into a failure.  The executors differ in who calls               *)
(* finishExecution: TimedPipeline itself in its run() (serial), besides    *)
(* the preprocess that failed; the parallel executor for every task; the   *)
(* batch one only behind its postprocess queue.                            *)
(***************************************************************************)
EXTENDS BufferPool

VARIABLES packet, timing

pipelineVars == <<pool, taker, packet, timing>>

(* `camera` is where the camera frame is given up, `running` the timings_ *)
(* and `begun` all that were ever put there; `calls` counts the calls of   *)
(* finishExecution that are still to come.                                 *)
PipelineInit ==
    /\ PoolInit
    /\ packet = [t \in Takers |-> [stage |-> "new", failed |-> FALSE, calls |-> 0]]
    /\ \E mode \in {"run", "parallel", "batch"}, camera \in {"AfterImagePreparation", "AfterPostprocess"} :
          timing = [mode |-> mode, camera |-> camera, begun |-> {}, running |-> {},
                    completed |-> 0, failed |-> 0, reported |-> FALSE]

Take(t) == Acquire(t) /\ UNCHANGED <<packet, timing>>
Wake == (Notify \/ RequestStop) /\ UNCHANGED <<packet, timing>>

At(t, stage) == taker[t].place = "leased" /\ packet[t].stage = stage

(* The packet is gone with its frames, and `calls` of finishExecution follow. *)
Over(t, calls, failed) ==
    /\ Release(t)
    /\ packet' = [packet EXCEPT ![t] = [stage |-> "finish", failed |-> failed, calls |-> calls]]

-----------------------------------------------------------------------------
(* preprocess() *)

Begin(t) ==
    /\ At(t, "new")
    /\ timing' = [timing EXCEPT !.begun = @ \cup {t}, !.running = @ \cup {t}]
    /\ packet' = [packet EXCEPT ![t].stage = "preprocess"]
    /\ UNCHANGED <<pool, taker>>

(* completeImagePreparation() gives up the frame if it is not needed later. *)
Prepare(t) ==
    /\ At(t, "preprocess")
    /\ packet' = [packet EXCEPT ![t].stage = "prepared"]
    /\ IF timing.camera = "AfterImagePreparation" THEN Release(t) ELSE UNCHANGED <<pool, taker>>
    /\ UNCHANGED timing

PrepareFails(t) ==
    /\ At(t, "preprocess")
    /\ Over(t, IF timing.mode = "batch" THEN 1 ELSE 2, TRUE)
    /\ UNCHANGED timing

-----------------------------------------------------------------------------
(* infer(), inferBatch() and postprocess() *)

Infer(t) ==
    /\ timing.mode # "batch" /\ At(t, "prepared")
    /\ \/ packet' = [packet EXCEPT ![t].stage = "inferred"] /\ UNCHANGED <<pool, taker>>
       \/ Over(t, 1, TRUE)
    /\ UNCHANGED timing

InferBatch(members) ==
    /\ timing.mode = "batch" /\ \A t \in members : At(t, "prepared")
    /\ packet' = [t \in Takers |-> IF t \in members THEN [packet[t] EXCEPT !.stage = "inferred"] ELSE packet[t]]
    /\ UNCHANGED <<pool, taker, timing>>

(* The members' packets die with the batch, in a row. *)
InferBatchFails(members) ==
    /\ timing.mode = "batch" /\ \A t \in members : At(t, "prepared")
    /\ packet' = [t \in Takers |-> IF t \in members
                                   THEN [stage |-> "finish", failed |-> TRUE, calls |-> 1]
                                   ELSE packet[t]]
    /\ taker' = [t \in Takers |-> IF t \in members THEN [taker[t] EXCEPT !.buffer = {}] ELSE taker[t]]
    /\ LET back == UNION {taker[t].buffer : t \in members}
       IN  pool' = [pool EXCEPT !.available = @ \o SetToSeq(back), !.owed = @ + Cardinality(back)]
    /\ UNCHANGED timing

Postprocess(t) ==
    /\ At(t, "inferred")
    /\ \E failed \in BOOLEAN : Over(t, 1, failed)
    /\ UNCHANGED timing

(* A cancelled task: never run by the serial executor, passed on without a *)
(* packet by the parallel one, and forgotten by the batch one.             *)
Cancel(t) ==
    /\ taker[t].place = "leased"
    /\ packet[t].stage \in CASE timing.mode = "run" -> {"new"}
                             [] timing.mode = "parallel" -> {"new", "prepared", "inferred"}
                             [] timing.mode = "batch" -> {"new", "prepared"}
    /\ IF timing.mode = "parallel" THEN Over(t, 1, TRUE)
       ELSE Release(t) /\ packet' = [packet EXCEPT ![t].stage = "cancelled"]
    /\ UNCHANGED timing

-----------------------------------------------------------------------------
(* finishExecution() and finishBatch() *)

Called(t, stage) == IF packet[t].calls = 1 THEN "done" ELSE stage

FinishUnknown(t) ==
    /\ At(t, "finish") /\ t \notin timing.running
    /\ packet' = [packet EXCEPT ![t].calls = @ - 1, ![t].stage = Called(t, "finish")]
    /\ UNCHANGED <<pool, taker, timing>>

FinishErase_Mutant(t) ==
    /\ At(t, "finish")
    /\ timing' = [timing EXCEPT !.running = @ \ {t}]
    /\ packet' = [packet EXCEPT ![t].stage = "count"]
    /\ UNCHANGED <<pool, taker>>

FinishErase(t) ==
    /\ At(t, "finish") /\ t \in timing.running
    /\ timing' = [timing EXCEPT !.running = @ \ {t}]
    /\ packet' = [packet EXCEPT ![t].stage = "count"]
    /\ UNCHANGED <<pool, taker>>

FinishCount(t) ==
    /\ At(t, "count")
    /\ timing' = [timing EXCEPT !.completed = @ + 1, !.failed = @ + (IF packet[t].failed THEN 1 ELSE 0)]
    /\ packet' = [packet EXCEPT ![t].calls = @ - 1, ![t].stage = Called(t, "finish")]
    /\ UNCHANGED <<pool, taker>>

Finished(t) == packet[t].stage \in {"done", "cancelled"} \/ taker[t].place \in {"exhausted", "cancelled"}

(* wait() calls it when the threads of the executor are joined, and again. *)
FinishBatch ==
    /\ \A t \in Takers : Finished(t)
    /\ timing.begun # {} /\ ~timing.reported
    /\ timing' = [timing EXCEPT !.reported = TRUE]
    /\ UNCHANGED <<pool, taker, packet>>

-----------------------------------------------------------------------------

PipelineNext ==
    \/ Wake \/ FinishBatch
    \/ \E t \in Takers : Take(t) \/ Begin(t) \/ Prepare(t) \/ PrepareFails(t) \/ Infer(t) \/ Postprocess(t)
                         \/ Cancel(t) \/ FinishUnknown(t) \/ FinishErase(t) \/ FinishCount(t)
    \/ \E members \in (SUBSET Takers) \ {{}} : InferBatch(members) \/ InferBatchFails(members)

PipelineSpec == PipelineInit /\ [][PipelineNext]_pipelineVars

-----------------------------------------------------------------------------

(* The pool is conserved and loses no wake-up, and a packet whose stages   *)
(* are over, whichever of them failed, threw or was skipped, has given its *)
(* camera frame back; one that was not kept beyond preparation has too.    *)
PoolConservation ==
    /\ Conserved
    /\ \A t \in Takers :
          (\/ packet[t].stage \in {"finish", "count", "done", "cancelled"}
           \/ packet[t].stage \in {"prepared", "inferred"} /\ timing.camera = "AfterImagePreparation")
          => taker[t].buffer = {}

(* Every execution that was begun is counted exactly once, however many    *)
(* paths call finishExecution for it, and before the batch is reported.    *)
(* What the report misses are tasks of the batch executor that were        *)
(* cancelled behind their preprocessing: their timings stay behind.        *)
CountedOnce ==
    LET counting == {t \in Takers : packet[t].stage = "count"}
    IN  /\ timing.completed + Cardinality(timing.running \cup counting) = Cardinality(timing.begun)
        /\ timing.failed <= timing.completed
        /\ timing.reported =>
              /\ counting = {}
              /\ timing.running # {} => timing.mode = "batch"
              /\ \A t \in timing.running : packet[t].stage = "cancelled"

=============================================================================
