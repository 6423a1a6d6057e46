------------------------ MODULE BatchPipelineExecutor ------------------------
(***************************************************************************)
(* executor::BatchPipelineExecutor: a preprocess thread, a batch inference *)
(* thread that collects up to MaxBatchSize tasks, or what has come by a    *)
(* deadline, into one inference call, and a postprocess thread that        *)
(* finishes them.  A cancelled or failed task takes a short cut: the batch *)
(* inference thread completes it itself.  So two threads push into the     *)
(* completion queue, which is made for one producer; once their pushes     *)
(* overlap (`raced`) its contents are undefined and the model stops.       *)
(***************************************************************************)
EXTENDS ExecutorFront

CONSTANTS
    StageQueueCapacity,   \* options.stageQueueCapacity
    MaxBatchSize          \* maxBatchSize_

ASSUME StageQueueCapacityAssumption == StageQueueCapacity \in Nat \ {0}
ASSUME MaxBatchSizeAssumption == MaxBatchSize \in Nat \ {0}

VARIABLES
    pc,                \* where each thread is
    preprocessing,     \* the task in the preprocess thread, with its result
    preprocessQueue,
    preprocessClosed,  \* preprocessQueue_.isClosed()
    looked,            \* the task the inference thread has just popped
    members,           \* the batch: the tasks that are still to be flushed
    lastBatch,         \* collectBatch returned false
    postprocessQueue,
    postprocessing,    \* the task in the postprocess thread, with its result
    immediate,         \* immediateStopRequested_
    started,           \* history: the tasks that preprocess was called for
    raced              \* two threads were inside completionQueue's push()

preVars == <<preprocessing, preprocessQueue, preprocessClosed, started>>
batchVars == <<looked, members, lastBatch>>
postVars == <<postprocessQueue, postprocessing>>
stageVars == <<pc, preVars, batchVars, postVars, immediate, raced>>
vars == <<frontVars, stageVars>>

Threads == {"preprocess", "inference", "postprocess"}

Init ==
    /\ FrontInit
    /\ pc = [h \in Threads |-> "idle"]
    /\ preprocessing = Nothing /\ preprocessQueue = <<>> /\ preprocessClosed = FALSE
    /\ looked = Nothing /\ members = <<>> /\ lastBatch = FALSE
    /\ postprocessQueue = <<>> /\ postprocessing = Nothing
    /\ immediate = FALSE /\ started = {} /\ raced = FALSE

TypeOK ==
    /\ FrontTypeOK
    /\ pc["preprocess"] \in {"idle", "notify", "call", "called", "push", "exited"}
    /\ pc["inference"] \in {"idle", "look", "refuse", "collect", "sawEmpty", "gaveUp",
                            "flush", "post", "fail", "failing", "exited"}
    /\ pc["postprocess"] \in {"idle", "finish", "push", "exited"}
    /\ {preprocessing, looked, postprocessing} \subseteq Completions \cup {Nothing}
    /\ preprocessQueue \in Seq(Completions) /\ postprocessQueue \in Seq(Completions)
    /\ Len(members) <= MaxBatchSize /\ members \in Seq(TaskIds)
    /\ started \in SUBSET TaskIds
    /\ {preprocessClosed, lastBatch, immediate, raced} \subseteq BOOLEAN
-----------------------------------------------------------------------------
(* Callers.                                                                *)

Alive == ~raced

Submit == Alive /\ FrontSubmit /\ UNCHANGED stageVars

Tasks(completions) == {c.task : c \in completions} \ {NoTask}

\* The tasks preprocess, and those the inference thread, has yet to look at.
Unstarted ==
    ToSet(entryQueue) \cup
    (IF pc["preprocess"] \in {"notify", "call"} THEN {preprocessing.task} ELSE {})
Undecided ==
    Unstarted \cup Tasks({preprocessing} \cup ToSet(preprocessQueue) \cup
                         (IF pc["inference"] = "look" THEN {looked} ELSE {}))

Cancel(t) == Alive /\ CancelTask(t, Unstarted, Undecided) /\ UNCHANGED stageVars

GracefulStop ==
    /\ Alive
    /\ accepting
    /\ CloseEntry
    /\ UNCHANGED <<taskVars, dispatchVars, waiter, stageVars>>

ImmediateStop ==
    /\ Alive
    /\ CloseEntry
    /\ immediate' = TRUE
    /\ cancelRequested' = cancelRequested \cup ToSet(entryQueue)
    /\ Doom(Accepted, Unstarted, Undecided)
    /\ UNCHANGED <<state, dispatchVars, waiter, pc, preVars, batchVars, postVars, raced>>

Cancelled(t) == immediate \/ t \in cancelRequested

Goes(h, from, to) == Alive /\ pc[h] = from /\ pc' = [pc EXCEPT ![h] = to]
-----------------------------------------------------------------------------
(* runPreprocess                                                           *)

PreprocessSleep ==
    /\ Goes("preprocess", "idle", "idle")
    /\ TakerSleep
    /\ UNCHANGED stageVars

PreprocessTake ==
    /\ Goes("preprocess", "idle", "notify")
    /\ TakeFirst
    /\ preprocessing' = [task |-> Head(entryQueue), outcome |-> "Completed"]
    /\ UNCHANGED <<preprocessQueue, preprocessClosed, started, batchVars, postVars,
                   immediate, raced>>

PreprocessNotifySpace ==
    /\ Goes("preprocess", "notify", "call")
    /\ NotifySpace
    /\ UNCHANGED <<preVars, batchVars, postVars, immediate, raced>>

\* markRunning, the first look at the cancellation, and the call.
PreprocessCall ==
    /\ Goes("preprocess", "call", "called")
    /\ state' = [state EXCEPT ![preprocessing.task] = "Running"]
    /\ \/ /\ Cancelled(preprocessing.task)
          /\ preprocessing' = [preprocessing EXCEPT !.outcome = "Cancelled"]
          /\ started' = started
       \/ /\ ~Cancelled(preprocessing.task)
          /\ \E o \in {"Completed", "Failed"} :
                preprocessing' = [preprocessing EXCEPT !.outcome = o]
          /\ started' = started \cup {preprocessing.task}
    /\ UNCHANGED <<entryVars, cancelRequested, doomed, dispatchVars, waiter,
                   preprocessQueue, preprocessClosed, batchVars, postVars, immediate, raced>>

PreprocessRecheck ==
    /\ Goes("preprocess", "called", "push")
    /\ preprocessing' = [preprocessing EXCEPT !.outcome =
                            IF Cancelled(preprocessing.task) THEN "Cancelled" ELSE @]
    /\ UNCHANGED <<frontVars, preprocessQueue, preprocessClosed, started,
                   batchVars, postVars, immediate, raced>>

\* Mutant: a push that gives up when the queue is full.
PreprocessPush_NoWait ==
    /\ Goes("preprocess", "push", "idle")
    /\ preprocessQueue' = IF Len(preprocessQueue) < StageQueueCapacity
                          THEN Append(preprocessQueue, preprocessing)
                          ELSE preprocessQueue
    /\ preprocessing' = Nothing
    /\ UNCHANGED <<frontVars, preprocessClosed, started, batchVars, postVars,
                   immediate, raced>>

PreprocessPush ==
    /\ Goes("preprocess", "push", "idle")
    /\ Len(preprocessQueue) < StageQueueCapacity
    /\ preprocessQueue' = Append(preprocessQueue, preprocessing)
    /\ preprocessing' = Nothing
    /\ UNCHANGED <<frontVars, preprocessClosed, started, batchVars, postVars,
                   immediate, raced>>

\* Mutant: the preprocess queue is never closed.
PreprocessExit_NoClose ==
    /\ Goes("preprocess", "idle", "exited")
    /\ NothingLeft
    /\ UNCHANGED <<frontVars, preVars, batchVars, postVars, immediate, raced>>

PreprocessExit ==
    /\ Goes("preprocess", "idle", "exited")
    /\ NothingLeft
    /\ preprocessClosed' = TRUE
    /\ UNCHANGED <<frontVars, preprocessing, preprocessQueue, started, batchVars,
                   postVars, immediate, raced>>

Preprocess ==
    \/ PreprocessSleep \/ PreprocessTake \/ PreprocessNotifySpace
    \/ PreprocessCall \/ PreprocessRecheck \/ PreprocessPush \/ PreprocessExit
-----------------------------------------------------------------------------
(* Pushing into the completion queue.  A thread enters push() and later    *)
(* leaves it, having waited for space.                                     *)

Pushing(h) == pc[h] \in {"refuse", "failing", "push"} /\ h # "preprocess"

\* Thread h enters queueCompletion's push().
EnterPush(h) == raced' = \E other \in Threads \ {h} : Pushing(other)
-----------------------------------------------------------------------------
(* runBatchInference, with collectBatch, popFor and flushBatch.            *)

PopPreprocessed ==
    /\ preprocessQueue # <<>>
    /\ looked' = Head(preprocessQueue)
    /\ preprocessQueue' = Tail(preprocessQueue)
    /\ UNCHANGED <<frontVars, preprocessing, preprocessClosed, started, members,
                   lastBatch, postVars, immediate, raced>>

InferencePop == Goes("inference", "idle", "look") /\ PopPreprocessed

InferenceExit ==
    /\ Goes("inference", "idle", "exited")
    /\ preprocessClosed
    /\ preprocessQueue = <<>>
    /\ UNCHANGED <<frontVars, preVars, batchVars, postVars, immediate, raced>>

\* Mutant: a cancelled task becomes a batch member.
InferenceAdmit_Unchecked ==
    /\ Goes("inference", "look", "collect")
    /\ looked.outcome = "Completed"
    /\ members' = Append(members, looked.task)
    /\ looked' = Nothing
    /\ UNCHANGED <<frontVars, preVars, lastBatch, postVars, immediate, raced>>

\* A task that is neither cancelled nor failed becomes a batch member.
InferenceAdmit ==
    /\ Goes("inference", "look", "collect")
    /\ ~Cancelled(looked.task)
    /\ looked.outcome = "Completed"
    /\ members' = Append(members, looked.task)
    /\ looked' = Nothing
    /\ UNCHANGED <<frontVars, preVars, lastBatch, postVars, immediate, raced>>

InferenceRefuse ==
    /\ Goes("inference", "look", "refuse")
    /\ Cancelled(looked.task) \/ looked.outcome # "Completed"
    /\ looked' = [looked EXCEPT !.outcome = IF Cancelled(looked.task) THEN "Cancelled" ELSE @]
    /\ EnterPush("inference")
    /\ UNCHANGED <<frontVars, preVars, members, lastBatch, postVars, immediate>>

\* `continue`: the outer loop if there is no batch yet, else collectBatch's.
InferenceRefused ==
    /\ Goes("inference", "refuse", IF members = <<>> THEN "idle" ELSE "collect")
    /\ QueueCompletion(looked.task, looked.outcome, StageQueueCapacity)
    /\ looked' = Nothing
    /\ UNCHANGED <<entryVars, taskVars, waiter, preVars, members, lastBatch, postVars,
                   immediate, raced>>

\* The batch is full, or the deadline has passed.
CollectDone ==
    /\ Goes("inference", "collect", "flush")
    /\ lastBatch' = FALSE
    /\ UNCHANGED <<frontVars, preVars, looked, members, postVars, immediate, raced>>

\* Mutant: one member too many.
CollectPop_OffByOne ==
    /\ Len(members) <= MaxBatchSize
    /\ Goes("inference", "collect", "look")
    /\ PopPreprocessed

CollectPop ==
    /\ Len(members) < MaxBatchSize
    /\ Goes("inference", "collect", "look")
    /\ PopPreprocessed

\* popFor's tryPop finds nothing.
CollectSawEmpty ==
    /\ Len(members) < MaxBatchSize
    /\ Goes("inference", "collect", "sawEmpty")
    /\ preprocessQueue = <<>>
    /\ UNCHANGED <<frontVars, preVars, batchVars, postVars, immediate, raced>>

\* popFor polls again; only a poll that finds something makes a difference.
CollectPollAgain ==
    /\ Goes("inference", "sawEmpty", "collect")
    /\ preprocessQueue # <<>>
    /\ UNCHANGED <<frontVars, preVars, batchVars, postVars, immediate, raced>>

\* popFor returns nothing: closed and drained, or the deadline has passed.
CollectGiveUp ==
    /\ Goes("inference", "sawEmpty", "gaveUp")
    /\ UNCHANGED <<frontVars, preVars, batchVars, postVars, immediate, raced>>

\* collectBatch returns !isClosed().
CollectTestClosed ==
    /\ Goes("inference", "gaveUp", "flush")
    /\ lastBatch' = preprocessClosed
    /\ UNCHANGED <<frontVars, preVars, looked, members, postVars, immediate, raced>>

\* callInferBatch succeeds for all members or for none.
FlushInfer ==
    /\ \/ Goes("inference", "flush", "post")
       \/ Goes("inference", "flush", "fail")
    /\ UNCHANGED <<frontVars, preVars, batchVars, postVars, immediate, raced>>

\* The loop over the members ends: the next batch, or the end of the thread.
AfterMember(more) ==
    IF Len(members) > 1 THEN more ELSE IF lastBatch THEN "exited" ELSE "idle"

\* Mutant: the members are finished last first.
FlushMember_Backwards ==
    /\ Goes("inference", "post", AfterMember("post"))
    /\ Len(postprocessQueue) < StageQueueCapacity
    /\ \E o \in {"Completed", "Failed"} :
         postprocessQueue' = Append(postprocessQueue, [task |-> Last(members), outcome |-> o])
    /\ members' = Front(members)
    /\ UNCHANGED <<frontVars, preVars, looked, lastBatch, postprocessing, immediate, raced>>

\* callPostprocess for the next member, and its push.
FlushMember ==
    /\ Goes("inference", "post", AfterMember("post"))
    /\ Len(postprocessQueue) < StageQueueCapacity
    /\ \E o \in {"Completed", "Failed"} :
         postprocessQueue' = Append(postprocessQueue, [task |-> Head(members), outcome |-> o])
    /\ members' = Tail(members)
    /\ UNCHANGED <<frontVars, preVars, looked, lastBatch, postprocessing, immediate, raced>>

FlushFailEnter ==
    /\ Goes("inference", "fail", "failing")
    /\ EnterPush("inference")
    /\ UNCHANGED <<frontVars, preVars, batchVars, postVars, immediate>>

FlushFail ==
    /\ Goes("inference", "failing", AfterMember("fail"))
    /\ QueueCompletion(Head(members), "Failed", StageQueueCapacity)
    /\ members' = Tail(members)
    /\ UNCHANGED <<entryVars, taskVars, waiter, preVars, looked, lastBatch, postVars,
                   immediate, raced>>

Inference ==
    \/ InferencePop \/ InferenceExit \/ InferenceAdmit \/ InferenceRefuse
    \/ InferenceRefused \/ CollectDone \/ CollectPop \/ CollectSawEmpty
    \/ CollectPollAgain \/ CollectGiveUp \/ CollectTestClosed \/ FlushInfer
    \/ FlushMember \/ FlushFailEnter \/ FlushFail
-----------------------------------------------------------------------------
(* runPostprocess                                                          *)

PostprocessPop ==
    /\ Goes("postprocess", "idle", "finish")
    /\ postprocessQueue # <<>>
    /\ postprocessing' = Head(postprocessQueue)
    /\ postprocessQueue' = Tail(postprocessQueue)
    /\ UNCHANGED <<frontVars, preVars, batchVars, immediate, raced>>

\* finishExecution, then queueCompletion.
PostprocessFinish ==
    /\ Goes("postprocess", "finish", "push")
    /\ EnterPush("postprocess")
    /\ UNCHANGED <<frontVars, preVars, batchVars, postVars, immediate>>

PostprocessPush ==
    /\ Goes("postprocess", "push", "idle")
    /\ QueueCompletion(postprocessing.task, postprocessing.outcome, StageQueueCapacity)
    /\ postprocessing' = Nothing
    /\ UNCHANGED <<entryVars, taskVars, waiter, preVars, batchVars, postprocessQueue,
                   immediate, raced>>

\* Mutant: the thread leaves with the inference thread.
PostprocessExit_NotDrained ==
    /\ Goes("postprocess", "idle", "exited")
    /\ pc["inference"] = "exited"
    /\ UNCHANGED <<frontVars, preVars, batchVars, postVars, immediate, raced>>

PostprocessExit ==
    /\ Goes("postprocess", "idle", "exited")
    /\ pc["inference"] = "exited"
    /\ postprocessQueue = <<>>
    /\ UNCHANGED <<frontVars, preVars, batchVars, postVars, immediate, raced>>

Postprocess == PostprocessPop \/ PostprocessFinish \/ PostprocessPush \/ PostprocessExit
-----------------------------------------------------------------------------
Deliver == Alive /\ Dispatcher /\ UNCHANGED stageVars
Notify == Alive /\ StopNotify /\ UNCHANGED stageVars
WaitCall == Alive /\ WaitBegin /\ UNCHANGED stageVars
WaitJoins ==
    /\ Alive
    /\ WaitCloseInput(\A h \in Threads : pc[h] = "exited") \/ WaitReturn
    /\ UNCHANGED stageVars

\* Nothing more is said once the completion queue is undefined or wait() has
\* returned.
Stopped == (raced \/ waiter = "returned") /\ UNCHANGED vars

Next ==
    \/ Submit \/ (\E t \in TaskIds : Cancel(t))
    \/ GracefulStop \/ ImmediateStop \/ Notify
    \/ Preprocess \/ Inference \/ Postprocess \/ Deliver
    \/ WaitCall \/ WaitJoins \/ Stopped

\* Every started thread keeps running, time passes, the pipeline and the
\* callbacks return; nobody has to submit, cancel or stop.
Fairness ==
    /\ WF_vars(Preprocess) /\ WF_vars(Inference) /\ WF_vars(Postprocess)
    /\ WF_vars(Deliver) /\ WF_vars(Notify) /\ WF_vars(WaitJoins)
    /\ WF_vars(Alive /\ WokenSubmit /\ UNCHANGED stageVars)

Spec == Init /\ [][Next]_vars /\ Fairness
-----------------------------------------------------------------------------
\* Every place a task can be in, as one sequence.
TaskIn(c) == IF c = Nothing THEN <<>> ELSE <<c.task>>
TasksIn(completions) == [i \in DOMAIN completions |-> completions[i].task]
Places ==
    entryQueue \o members
    \o TasksIn(preprocessQueue) \o TasksIn(postprocessQueue)
    \o TasksIn(completionQueue) \o TasksIn(delivered)
    \o TaskIn(preprocessing) \o TaskIn(looked) \o TaskIn(postprocessing) \o TaskIn(delivering)

\* As long as the completion queue is intact, every accepted task is in exactly
\* one place: no thread drops one, and none is completed twice.
EveryTaskInOnePlace ==
    /\ ToSet(Places) = Accepted
    /\ Len(Places) = nextTaskId - 1

\* What wait() leaves undelivered was left behind in the preprocess queue, and
\* nowhere else.
OnlyPreprocessedAreStranded ==
    waiter = "returned" => Accepted \subseteq Tasks(ToSet(delivered) \cup ToSet(preprocessQueue))

\* Short cuts aside, results come in the order of submission: a task that
\* succeeded never overtakes one that succeeded.
SuccessesInOrder ==
    \A i, j \in DOMAIN delivered :
        (i < j /\ delivered[i].outcome = "Completed" /\ delivered[j].outcome = "Completed")
            => delivered[i].task < delivered[j].task

\* A cancellation that came before the inference thread's look decides, and
\* nothing else is reported as cancelled.
CancellationDecides ==
    /\ CancellationHonoured
    /\ \A i \in DOMAIN delivered :
         delivered[i].outcome = "Cancelled" => Cancelled(delivered[i].task)

\* wait() returns: no thread of the executor hangs, whatever it lost.
WaitReturns == (waiter = "joining") ~> (waiter = "returned" \/ raced)

\* wait() returns only when every accepted task has been delivered.
StopDrainsAccepted == waiter = "returned" => Len(delivered) = nextTaskId - 1

\* Only one thread at a time is inside the completion queue's push().
SingleProducer == ~raced
=============================================================================
