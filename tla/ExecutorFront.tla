---------------------------- MODULE ExecutorFront ----------------------------
(***************************************************************************)
(* The two ends that the three pipeline executors have in common: the      *)
(* bounded entry queue with its lock and two condition variables           *)
(* (submit, requestStop, the thread that takes tasks from it), the task    *)
(* handles, the completion dispatcher, and wait().  What an executor does  *)
(* between the entry queue and the completion queue is in its own module,  *)
(* which extends this one.                                                 *)
(*                                                                         *)
(* Threads that call submit() are interchangeable, so they are counted and *)
(* not named.  A refused submit() changes nothing and is not an action.    *)
(* The completion queue is the atomic bounded FIFO that                    *)
(* BoundedBlockingQueue implements.                                        *)
(***************************************************************************)
EXTENDS Integers, Sequences, SequencesExt

CONSTANTS
    Submitters,       \* the number of threads that call submit()
    QueueCapacity,    \* options.queueCapacity
    QueueFullPolicy,  \* options.queueFullPolicy
    MaxTasks,         \* bound: the number of tasks that are ever accepted
    Cancellable       \* bound: the tasks that somebody may cancel()

ASSUME SubmittersAssumption == Submitters \in Nat \ {0}
ASSUME QueueCapacityAssumption == QueueCapacity \in Nat \ {0}
ASSUME QueueFullPolicyAssumption == QueueFullPolicy \in {"Drop", "Block"}
ASSUME MaxTasksAssumption == MaxTasks \in Nat
ASSUME CancellableAssumption == Cancellable \subseteq 1 .. MaxTasks

VARIABLES
    entryQueue,       \* taskQueue_ / entryQueue_: task ids, oldest first
    accepting,        \* accepting_
    stopRequested,    \* stopRequested_
    stopNotifying,    \* a requestStop() has yet to notify the waiters
    nextTaskId,       \* nextTaskId_
    blocked, woken,   \* submitters asleep for space; those that were notified
    takerAsleep,      \* the taking thread sleeps on queueReady_ / entryReady_
    state,            \* TaskSharedState::state
    cancelRequested,  \* the tasks whose TaskSharedState::cancelRequested is set
    completionQueue,  \* CompletionDispatcher::queue_: records [task, outcome]
    completionClosed,
    delivering,       \* the completion that the dispatcher holds
    delivered,        \* history: the completions delivered so far
    waiter,           \* the control thread that calls wait()
    doomed            \* history: how far a task was when it was cancelled

entryVars == <<entryQueue, accepting, stopRequested, stopNotifying, nextTaskId,
               blocked, woken, takerAsleep>>
taskVars == <<state, cancelRequested, doomed>>
dispatchVars == <<completionQueue, completionClosed, delivering, delivered>>
frontVars == <<entryVars, taskVars, dispatchVars, waiter>>

TaskIds == 1 .. MaxTasks
NoTask == 0
Accepted == 1 .. nextTaskId - 1
Outcomes == {"Completed", "Failed", "Cancelled"}
Completions == [task : TaskIds, outcome : Outcomes]
Nothing == [task |-> NoTask, outcome |-> "Cancelled"]
TaskStates == {"None", "Queued", "Running"} \cup Outcomes

\* When was a task cancelled: never, before the pipeline got it, or before the
\* last look its executor takes at the request.
Dooms == {"no", "unstarted", "undecided"}

FrontInit ==
    /\ entryQueue = <<>>
    /\ accepting = TRUE /\ stopRequested = FALSE /\ stopNotifying = FALSE
    /\ nextTaskId = 1
    /\ blocked = 0 /\ woken = 0
    /\ takerAsleep = FALSE
    /\ state = [t \in TaskIds |-> "None"]
    /\ cancelRequested = {}
    /\ completionQueue = <<>> /\ completionClosed = FALSE
    /\ delivering = Nothing /\ delivered = <<>>
    /\ waiter = "idle"
    /\ doomed = [t \in TaskIds |-> "no"]

FrontTypeOK ==
    /\ entryQueue \in Seq(TaskIds)
    /\ accepting \in BOOLEAN /\ stopRequested \in BOOLEAN
    /\ stopNotifying \in BOOLEAN
    /\ nextTaskId \in 1 .. MaxTasks + 1
    /\ blocked \in 0 .. Submitters /\ woken \in 0 .. Submitters
    /\ takerAsleep \in BOOLEAN
    /\ state \in [TaskIds -> TaskStates]
    /\ cancelRequested \in SUBSET TaskIds
    /\ completionQueue \in Seq(Completions) /\ completionClosed \in BOOLEAN
    /\ delivering \in Completions \cup {Nothing}
    /\ delivered \in Seq(Completions)
    /\ waiter \in {"idle", "joining", "joinDispatcher", "returned"}
    /\ doomed \in [TaskIds -> Dooms]
-----------------------------------------------------------------------------
(* submit().  A call either enqueues at once, or, under the Block policy,  *)
(* sleeps until it is notified and looks again.                            *)

Full == Len(entryQueue) >= QueueCapacity

MayCall ==
    /\ blocked + woken < Submitters
    /\ nextTaskId + blocked + woken <= MaxTasks

\* Mutant: a submitter that slept does not look at accepting_ again.
Enqueue_AfterStop ==
    /\ ~Full
    /\ entryQueue' = Append(entryQueue, nextTaskId)
    /\ nextTaskId' = nextTaskId + 1
    /\ state' = [state EXCEPT ![nextTaskId] = "Queued"]
    /\ takerAsleep' = FALSE
    /\ UNCHANGED <<accepting, stopRequested, stopNotifying, blocked,
                   cancelRequested, doomed, dispatchVars, waiter>>

\* The end of submit(): the task gets its id and the taking thread is notified.
Enqueue ==
    /\ accepting
    /\ ~Full
    /\ entryQueue' = Append(entryQueue, nextTaskId)
    /\ nextTaskId' = nextTaskId + 1
    /\ state' = [state EXCEPT ![nextTaskId] = "Queued"]
    /\ takerAsleep' = FALSE
    /\ UNCHANGED <<accepting, stopRequested, stopNotifying, blocked,
                   cancelRequested, doomed, dispatchVars, waiter>>

SubmitAtOnce == MayCall /\ Enqueue /\ UNCHANGED woken

SubmitSleep ==
    /\ MayCall
    /\ QueueFullPolicy = "Block"
    /\ accepting
    /\ Full
    /\ blocked' = blocked + 1
    /\ UNCHANGED <<entryQueue, accepting, stopRequested, stopNotifying,
                   nextTaskId, woken, takerAsleep, taskVars, dispatchVars, waiter>>

SubmitAfterSleep == woken > 0 /\ Enqueue /\ woken' = woken - 1

SubmitSleepAgain ==
    /\ woken > 0
    /\ accepting
    /\ Full
    /\ woken' = woken - 1
    /\ blocked' = blocked + 1
    /\ UNCHANGED <<entryQueue, accepting, stopRequested, stopNotifying,
                   nextTaskId, takerAsleep, taskVars, dispatchVars, waiter>>

SubmitRefusedAfterSleep ==
    /\ woken > 0
    /\ ~accepting
    /\ woken' = woken - 1
    /\ UNCHANGED <<entryQueue, accepting, stopRequested, stopNotifying,
                   nextTaskId, blocked, takerAsleep, taskVars, dispatchVars, waiter>>

WokenSubmit == SubmitAfterSleep \/ SubmitSleepAgain \/ SubmitRefusedAfterSleep
FrontSubmit == SubmitAtOnce \/ SubmitSleep \/ WokenSubmit
-----------------------------------------------------------------------------
(* Cancellation.  unstarted and undecided are the tasks that have yet to   *)
(* reach the first and the last look at the request; the executor says     *)
(* which they are.                                                         *)

Doom(tasks, unstarted, undecided) ==
    doomed' = [t \in TaskIds |->
                 IF t \notin tasks \/ doomed[t] # "no" THEN doomed[t]
                 ELSE IF t \in unstarted THEN "unstarted"
                 ELSE IF t \in undecided THEN "undecided"
                 ELSE "no"]

\* TaskHandle::cancel(), a call that returns true.
CancelTask(t, unstarted, undecided) ==
    /\ t \in Accepted \cap Cancellable
    /\ state[t] \in {"Queued", "Running"}
    /\ t \notin cancelRequested
    /\ cancelRequested' = cancelRequested \cup {t}
    /\ Doom({t}, unstarted, undecided)
    /\ UNCHANGED <<state, entryVars, dispatchVars, waiter>>

\* The locked part of requestStop(), short of what Immediate cancels.
CloseEntry ==
    /\ accepting' = FALSE
    /\ stopRequested' = TRUE
    /\ stopNotifying' = TRUE
    /\ UNCHANGED <<entryQueue, nextTaskId, blocked, woken, takerAsleep>>

\* Mutant: the taking thread is not notified.
StopNotify_SpaceOnly ==
    /\ stopNotifying
    /\ stopNotifying' = FALSE
    /\ woken' = woken + blocked
    /\ blocked' = 0
    /\ UNCHANGED <<entryQueue, accepting, stopRequested, nextTaskId, takerAsleep,
                   taskVars, dispatchVars, waiter>>

\* Mutant: the submitters that sleep for space are not notified.
StopNotify_TakerOnly ==
    /\ stopNotifying
    /\ stopNotifying' = FALSE
    /\ takerAsleep' = FALSE
    /\ UNCHANGED <<entryQueue, accepting, stopRequested, nextTaskId, blocked, woken,
                   taskVars, dispatchVars, waiter>>

\* The two notify_all() at the end of requestStop().
StopNotify ==
    /\ stopNotifying
    /\ stopNotifying' = FALSE
    /\ takerAsleep' = FALSE
    /\ woken' = woken + blocked
    /\ blocked' = 0
    /\ UNCHANGED <<entryQueue, accepting, stopRequested, nextTaskId, taskVars,
                   dispatchVars, waiter>>
-----------------------------------------------------------------------------
(* The thread that takes tasks from the entry queue.                       *)

TakerSleep ==
    /\ ~takerAsleep
    /\ entryQueue = <<>>
    /\ ~stopRequested
    /\ takerAsleep' = TRUE
    /\ UNCHANGED <<entryQueue, accepting, stopRequested, stopNotifying,
                   nextTaskId, blocked, woken, taskVars, dispatchVars, waiter>>

TakeFirst ==
    /\ ~takerAsleep
    /\ entryQueue # <<>>
    /\ entryQueue' = Tail(entryQueue)
    /\ UNCHANGED <<accepting, stopRequested, stopNotifying, nextTaskId, blocked,
                   woken, takerAsleep, taskVars, dispatchVars, waiter>>

\* Mutant: a stop ends the loop whatever is queued.
NothingLeft_NotDrained == ~takerAsleep /\ stopRequested

NothingLeft ==
    /\ ~takerAsleep
    /\ entryQueue = <<>>
    /\ stopRequested

\* Mutant: a notification is counted though nobody sleeps.
NotifySpace_Unguarded ==
    /\ blocked' = blocked - 1
    /\ woken' = woken + 1
    /\ UNCHANGED <<entryQueue, accepting, stopRequested, stopNotifying,
                   nextTaskId, takerAsleep, taskVars, dispatchVars, waiter>>

\* queueSpaceAvailable_.notify_one()
NotifySpace ==
    /\ blocked' = IF blocked > 0 THEN blocked - 1 ELSE 0
    /\ woken' = IF blocked > 0 THEN woken + 1 ELSE woken
    /\ UNCHANGED <<entryQueue, accepting, stopRequested, stopNotifying,
                   nextTaskId, takerAsleep, taskVars, dispatchVars, waiter>>
-----------------------------------------------------------------------------
(* The completion queue, the dispatcher thread and wait().                 *)

QueueCompletion(t, o, capacity) ==
    /\ Len(completionQueue) < capacity
    /\ completionQueue' = Append(completionQueue, [task |-> t, outcome |-> o])
    /\ UNCHANGED <<completionClosed, delivering, delivered>>

DispatcherPop ==
    /\ delivering = Nothing
    /\ completionQueue # <<>>
    /\ delivering' = Head(completionQueue)
    /\ completionQueue' = Tail(completionQueue)
    /\ UNCHANGED <<completionClosed, delivered, entryVars, taskVars, waiter>>

\* ExecutorTask::complete(): the state, the future, the callback.
DispatcherDeliver ==
    /\ delivering # Nothing
    /\ state' = [state EXCEPT ![delivering.task] = delivering.outcome]
    /\ delivered' = Append(delivered, delivering)
    /\ delivering' = Nothing
    /\ UNCHANGED <<completionQueue, completionClosed, cancelRequested, doomed,
                   entryVars, waiter>>

Dispatcher == DispatcherPop \/ DispatcherDeliver

\* wait() begins with a graceful requestStop().
WaitBegin ==
    /\ waiter = "idle"
    /\ waiter' = "joining"
    /\ CloseEntry
    /\ UNCHANGED <<taskVars, dispatchVars>>

\* The executor's threads have been joined; closeInput() follows.
WaitCloseInput(threadsExited) ==
    /\ waiter = "joining"
    /\ threadsExited
    /\ waiter' = "joinDispatcher"
    /\ completionClosed' = TRUE
    /\ UNCHANGED <<completionQueue, delivering, delivered, entryVars, taskVars>>

\* run() leaves its loop when the queue is closed and drained; wait() joins it.
WaitReturn ==
    /\ waiter = "joinDispatcher"
    /\ completionClosed
    /\ completionQueue = <<>>
    /\ delivering = Nothing
    /\ waiter' = "returned"
    /\ UNCHANGED <<entryVars, taskVars, dispatchVars>>
-----------------------------------------------------------------------------
(* Properties every executor states of its own specification.              *)

\* A thread sleeps on a condition variable only while it has nothing to do or
\* somebody is about to notify it.  spaceComing is 1 between a pop from the
\* entry queue and the notify_one() that follows it.
SleepersHaveAReason(spaceComing) ==
    /\ takerAsleep => entryQueue = <<>> /\ (stopRequested => stopNotifying)
    /\ blocked > 0 =>
         \/ stopNotifying
         \/ accepting /\ Len(entryQueue) + woken + spaceComing >= QueueCapacity

\* A cancelled task is reported as cancelled if the request came before the
\* last look at it, and no other task is.
CancellationHonoured ==
    \A i \in DOMAIN delivered :
        LET t == delivered[i].task
            o == delivered[i].outcome
        IN  doomed[t] # "no" => o = "Cancelled"
=============================================================================
