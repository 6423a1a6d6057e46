---------------------- MODULE ParallelPipelineExecutor ----------------------
(***************************************************************************)
(* executor::ParallelPipelineExecutor: a preprocess, an inference and a    *)
(* postprocess thread, joined by bounded queues, so that several tasks are *)
(* under way at once.  Every stage looks at the task's cancellation before *)
(* and after its call and passes a cancelled or failed task on, so that    *)
(* all tasks go down the same path in the same order.                      *)
(***************************************************************************)
EXTENDS ExecutorFront

CONSTANT StageQueueCapacity   \* options.stageQueueCapacity

ASSUME StageQueueCapacityAssumption == StageQueueCapacity \in Nat \ {0}

VARIABLES
    pc,         \* where each stage thread is
    holds,      \* the task each stage thread works on, with its result so far
    input,      \* preprocessQueue_ (inference reads it) and inferenceQueue_
    immediate,  \* immediateStopRequested_
    started     \* history: the tasks that preprocess was called for

stageVars == <<pc, holds, input, immediate, started>>
vars == <<frontVars, stageVars>>

Stages == {"preprocess", "inference", "postprocess"}
After(s) == IF s = "preprocess" THEN "inference" ELSE "postprocess"
Before(s) == IF s = "postprocess" THEN "inference" ELSE "preprocess"

Init ==
    /\ FrontInit
    /\ pc = [s \in Stages |-> "idle"]
    /\ holds = [s \in Stages |-> Nothing]
    /\ input = [s \in Stages \ {"preprocess"} |-> <<>>]
    /\ immediate = FALSE
    /\ started = {}

TypeOK ==
    /\ FrontTypeOK
    /\ pc \in [Stages -> {"idle", "notify", "call", "called", "push", "exited"}]
    /\ holds \in [Stages -> Completions \cup {Nothing}]
    /\ input \in [Stages \ {"preprocess"} -> Seq(Completions)]
    /\ immediate \in BOOLEAN
    /\ started \in SUBSET TaskIds
-----------------------------------------------------------------------------
(* Callers.                                                                *)

Submit == FrontSubmit /\ UNCHANGED stageVars

\* The tasks that preprocess has yet to look at, and those for which some
\* stage's look is still to come: all but what postprocess has let go of.
Unstarted ==
    ToSet(entryQueue) \cup
    (IF pc["preprocess"] \in {"notify", "call"} THEN {holds["preprocess"].task} ELSE {})
LetGo ==
    {c.task : c \in ToSet(delivered) \cup ToSet(completionQueue) \cup {delivering}}
    \cup (IF pc["postprocess"] = "push" THEN {holds["postprocess"].task} ELSE {})
Undecided == Accepted \ LetGo

Cancel(t) == CancelTask(t, Unstarted, Undecided) /\ UNCHANGED stageVars

GracefulStop ==
    /\ accepting
    /\ CloseEntry
    /\ UNCHANGED <<taskVars, dispatchVars, waiter, stageVars>>

\* Mutant: the tasks that are already in the stages are forgotten.
ImmediateStop_QueueOnly ==
    /\ CloseEntry
    /\ immediate' = immediate
    /\ cancelRequested' = cancelRequested \cup ToSet(entryQueue)
    /\ Doom(Accepted, Unstarted, Undecided)
    /\ UNCHANGED <<state, dispatchVars, waiter, pc, holds, input, started>>

ImmediateStop ==
    /\ CloseEntry
    /\ immediate' = TRUE
    /\ cancelRequested' = cancelRequested \cup ToSet(entryQueue)
    /\ Doom(Accepted, Unstarted, Undecided)
    /\ UNCHANGED <<state, dispatchVars, waiter, pc, holds, input, started>>
-----------------------------------------------------------------------------
(* The stage threads.                                                      *)

Goes(s, from, to) == pc[s] = from /\ pc' = [pc EXCEPT ![s] = to]

Cancelled(t) == immediate \/ t \in cancelRequested

PreprocessSleep ==
    /\ pc["preprocess"] = "idle"
    /\ TakerSleep
    /\ UNCHANGED stageVars

PreprocessTake ==
    /\ Goes("preprocess", "idle", "notify")
    /\ TakeFirst
    /\ holds' = [holds EXCEPT !["preprocess"] =
                    [task |-> Head(entryQueue), outcome |-> "Completed"]]
    /\ UNCHANGED <<input, immediate, started>>

PreprocessNotifySpace ==
    /\ Goes("preprocess", "notify", "call")
    /\ NotifySpace
    /\ UNCHANGED <<holds, input, immediate, started>>

\* runInference and runPostprocess take their next task.
StagePop(s) ==
    /\ s # "preprocess"
    /\ Goes(s, "idle", "call")
    /\ input[s] # <<>>
    /\ holds' = [holds EXCEPT ![s] = Head(input[s])]
    /\ input' = [input EXCEPT ![s] = Tail(input[s])]
    /\ UNCHANGED <<frontVars, immediate, started>>

\* The first look at the cancellation; what arrives as a failure stays one.
StageSkip(s) ==
    /\ Goes(s, "call", "called")
    /\ \/ Cancelled(holds[s].task) /\ holds' = [holds EXCEPT ![s].outcome = "Cancelled"]
       \/ ~Cancelled(holds[s].task) /\ holds[s].outcome # "Completed" /\ holds' = holds
    /\ state' = IF s = "preprocess"
                THEN [state EXCEPT ![holds[s].task] = "Running"] ELSE state
    /\ UNCHANGED <<entryVars, cancelRequested, doomed, dispatchVars, waiter,
                   input, immediate, started>>

\* Mutant: a stage runs whether or not its task was cancelled.
StageCall_Unchecked(s) ==
    /\ Goes(s, "call", "called")
    /\ holds[s].outcome = "Completed"
    /\ \E o \in {"Completed", "Failed"} : holds' = [holds EXCEPT ![s].outcome = o]
    /\ IF s = "preprocess"
       THEN /\ state' = [state EXCEPT ![holds[s].task] = "Running"]
            /\ started' = started \cup {holds[s].task}
       ELSE UNCHANGED <<state, started>>
    /\ UNCHANGED <<entryVars, cancelRequested, doomed, dispatchVars, waiter,
                   input, immediate>>

\* The pipeline's own stage succeeds, fails or throws.
StageCall(s) ==
    /\ Goes(s, "call", "called")
    /\ ~Cancelled(holds[s].task)
    /\ holds[s].outcome = "Completed"
    /\ \E o \in {"Completed", "Failed"} : holds' = [holds EXCEPT ![s].outcome = o]
    /\ IF s = "preprocess"
       THEN /\ state' = [state EXCEPT ![holds[s].task] = "Running"]
            /\ started' = started \cup {holds[s].task}
       ELSE UNCHANGED <<state, started>>
    /\ UNCHANGED <<entryVars, cancelRequested, doomed, dispatchVars, waiter,
                   input, immediate>>

StageRecheck(s) ==
    /\ Goes(s, "called", "push")
    /\ holds' = [holds EXCEPT ![s].outcome =
                    IF Cancelled(holds[s].task) THEN "Cancelled" ELSE @]
    /\ UNCHANGED <<frontVars, input, immediate, started>>

StagePush(s) ==
    /\ s # "postprocess"
    /\ Goes(s, "push", "idle")
    /\ Len(input[After(s)]) < StageQueueCapacity
    /\ input' = [input EXCEPT ![After(s)] = Append(@, holds[s])]
    /\ holds' = [holds EXCEPT ![s] = Nothing]
    /\ UNCHANGED <<frontVars, immediate, started>>

\* finishExecution and queueCompletion.
PostprocessPush ==
    /\ Goes("postprocess", "push", "idle")
    /\ QueueCompletion(holds["postprocess"].task, holds["postprocess"].outcome,
                       StageQueueCapacity)
    /\ holds' = [holds EXCEPT !["postprocess"] = Nothing]
    /\ UNCHANGED <<entryVars, taskVars, waiter, input, immediate, started>>

PreprocessExit ==
    /\ Goes("preprocess", "idle", "exited")
    /\ NothingLeft
    /\ UNCHANGED <<frontVars, holds, input, immediate, started>>

\* Mutant: a stage leaves as soon as its input is closed, drained or not.
StageExit_NotDrained(s) ==
    /\ s # "preprocess"
    /\ Goes(s, "idle", "exited")
    /\ pc[Before(s)] = "exited"
    /\ UNCHANGED <<frontVars, holds, input, immediate, started>>

\* The stage before has closed the queue between them, and it is drained.
StageExit(s) ==
    /\ s # "preprocess"
    /\ Goes(s, "idle", "exited")
    /\ pc[Before(s)] = "exited"
    /\ input[s] = <<>>
    /\ UNCHANGED <<frontVars, holds, input, immediate, started>>

Stage(s) ==
    \/ StagePop(s) \/ StageSkip(s) \/ StageCall(s) \/ StageRecheck(s)
    \/ StagePush(s) \/ StageExit(s)
    \/ s = "preprocess" /\ ( \/ PreprocessSleep \/ PreprocessTake
                             \/ PreprocessNotifySpace \/ PreprocessExit)
    \/ s = "postprocess" /\ PostprocessPush
-----------------------------------------------------------------------------
Deliver == Dispatcher /\ UNCHANGED stageVars
Notify == StopNotify /\ UNCHANGED stageVars
WaitCall == WaitBegin /\ UNCHANGED stageVars
WaitJoins ==
    /\ WaitCloseInput(\A s \in Stages : pc[s] = "exited") \/ WaitReturn
    /\ UNCHANGED stageVars

Stopped == waiter = "returned" /\ UNCHANGED vars

Next ==
    \/ Submit \/ (\E t \in TaskIds : Cancel(t))
    \/ GracefulStop \/ ImmediateStop \/ Notify
    \/ (\E s \in Stages : Stage(s)) \/ Deliver
    \/ WaitCall \/ WaitJoins \/ Stopped

Fairness ==
    /\ \A s \in Stages : WF_vars(Stage(s))
    /\ WF_vars(Deliver) /\ WF_vars(Notify) /\ WF_vars(WaitJoins)
    /\ WF_vars(WokenSubmit /\ UNCHANGED stageVars)

Spec == Init /\ [][Next]_vars /\ Fairness
-----------------------------------------------------------------------------
Delivery == INSTANCE TaskDelivery
            WITH accepted <- nextTaskId - 1, open <- accepting,
                 returned <- waiter = "returned"

\* However the stages overlap, accepted tasks are delivered exactly once and
\* in the order of submission, each of them eventually, and wait() returns
\* only after the last delivery.
ImplementsTaskDelivery == Delivery!DeliverySpec

\* A cancellation or an immediate stop that came before postprocess's last
\* look decides the outcome, and nothing else is reported as cancelled.
CancellationDecides ==
    /\ CancellationHonoured
    /\ \A i \in DOMAIN delivered :
         delivered[i].outcome = "Cancelled" => Cancelled(delivered[i].task)

\* A task that was cancelled while it was queued is never preprocessed.
CancelledInQueueNeverRuns == \A t \in started : doomed[t] # "unstarted"

\* wait() returns, whatever is under way in the stages.
WaitReturns == (waiter = "joining") ~> (waiter = "returned")
=============================================================================
