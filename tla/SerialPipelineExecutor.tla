----------------------- MODULE SerialPipelineExecutor -----------------------
(***************************************************************************)
(* executor::SerialPipelineExecutor: one runner thread takes a task from   *)
(* the entry queue, runs the whole pipeline on it and hands the result to  *)
(* the completion dispatcher.                                              *)
(*                                                                         *)
(* runningTask_ points at the runner's task from the moment it is taken    *)
(* until the runner takes the lock again, but queueCompletion has moved    *)
(* the task out by then.  An immediate stop in between follows the pointer *)
(* into a moved-from task while the runner may still be writing it: it     *)
(* dereferences null (`crashed`) or reads the value from before the move.  *)
(***************************************************************************)
EXTENDS ExecutorFront

VARIABLES
    runnerPc,      \* where the runner is
    runningTask,   \* runningTask_
    result,        \* the runner's local `result`
    executed,      \* history: the tasks that the pipeline was given
    crashed        \* the process dereferenced null

runnerVars == <<runnerPc, runningTask, result, executed, crashed>>
vars == <<frontVars, runnerVars>>

RunnerPcs == {"idle", "notify", "check", "running", "ran", "push", "clear", "exited"}

Init ==
    /\ FrontInit
    /\ runnerPc = "idle"
    /\ runningTask = NoTask
    /\ result = "Cancelled"
    /\ executed = {}
    /\ crashed = FALSE

TypeOK ==
    /\ FrontTypeOK
    /\ runnerPc \in RunnerPcs
    /\ runningTask \in TaskIds \cup {NoTask}
    /\ result \in Outcomes
    /\ executed \in SUBSET TaskIds
    /\ crashed \in BOOLEAN
-----------------------------------------------------------------------------
(* Callers.                                                                *)

Alive == ~crashed

Submit == Alive /\ FrontSubmit /\ UNCHANGED runnerVars

Unstarted == ToSet(entryQueue) \cup
             (IF runnerPc \in {"notify", "check"} THEN {runningTask} ELSE {})
Undecided == Unstarted \cup
             (IF runnerPc \in {"running", "ran"} THEN {runningTask} ELSE {})

Cancel(t) == Alive /\ CancelTask(t, Unstarted, Undecided) /\ UNCHANGED runnerVars

GracefulStop ==
    /\ Alive
    /\ accepting
    /\ CloseEntry
    /\ UNCHANGED <<taskVars, dispatchVars, waiter, runnerVars>>

StopCancels(tasks) ==
    /\ Alive
    /\ CloseEntry
    /\ cancelRequested' = cancelRequested \cup tasks
    /\ Doom(tasks, Unstarted, Undecided)
    /\ UNCHANGED <<state, dispatchVars, waiter>>

TaskMovedOut == runnerPc \in {"push", "clear"}

ImmediateStop ==
    \/ /\ StopCancels(ToSet(entryQueue) \cup ({runningTask} \ {NoTask}))
       /\ UNCHANGED runnerVars
    \/ /\ Alive
       /\ TaskMovedOut
       /\ crashed' = TRUE
       /\ UNCHANGED <<frontVars, runnerPc, runningTask, result, executed>>
-----------------------------------------------------------------------------
(* runTasks                                                                *)

RunnerGoes(from, to) == Alive /\ runnerPc = from /\ runnerPc' = to

RunnerSleep ==
    /\ RunnerGoes("idle", "idle")
    /\ TakerSleep
    /\ UNCHANGED runnerVars

RunnerTake ==
    /\ RunnerGoes("idle", "notify")
    /\ TakeFirst
    /\ runningTask' = Head(entryQueue)
    /\ UNCHANGED <<result, executed, crashed>>

RunnerExit ==
    /\ RunnerGoes("idle", "exited")
    /\ NothingLeft
    /\ UNCHANGED <<frontVars, runningTask, result, executed, crashed>>

\* Mutant: nobody is told that there is space.
RunnerNotifySpace_Forgotten ==
    /\ RunnerGoes("notify", "check")
    /\ UNCHANGED <<frontVars, runningTask, result, executed, crashed>>

RunnerNotifySpace ==
    /\ RunnerGoes("notify", "check")
    /\ NotifySpace
    /\ UNCHANGED <<runningTask, result, executed, crashed>>

RunnerSkip ==
    /\ RunnerGoes("check", "push")
    /\ runningTask \in cancelRequested
    /\ result' = "Cancelled"
    /\ UNCHANGED <<frontVars, runningTask, executed, crashed>>

\* Mutant: the pipeline runs whether or not the task was cancelled.
RunnerStart_Unchecked ==
    /\ RunnerGoes("check", "running")
    /\ state' = [state EXCEPT ![runningTask] = "Running"]
    /\ executed' = executed \cup {runningTask}
    /\ UNCHANGED <<cancelRequested, doomed, entryVars, dispatchVars, waiter,
                   runningTask, result, crashed>>

RunnerStart ==
    /\ RunnerGoes("check", "running")
    /\ runningTask \notin cancelRequested
    /\ state' = [state EXCEPT ![runningTask] = "Running"]
    /\ executed' = executed \cup {runningTask}
    /\ UNCHANGED <<cancelRequested, doomed, entryVars, dispatchVars, waiter,
                   runningTask, result, crashed>>

\* execute(): the pipeline succeeds, fails or throws.
RunnerExecute ==
    /\ RunnerGoes("running", "ran")
    /\ result' \in {"Completed", "Failed"}
    /\ UNCHANGED <<frontVars, runningTask, executed, crashed>>

\* Mutant: no second look at the cancellation.
RunnerRecheck_Skipped ==
    /\ RunnerGoes("ran", "push")
    /\ UNCHANGED <<frontVars, runningTask, result, executed, crashed>>

RunnerRecheck ==
    /\ RunnerGoes("ran", "push")
    /\ result' = IF runningTask \in cancelRequested THEN "Cancelled" ELSE result
    /\ UNCHANGED <<frontVars, runningTask, executed, crashed>>

RunnerPush ==
    /\ RunnerGoes("push", "clear")
    /\ QueueCompletion(runningTask, result, QueueCapacity)
    /\ UNCHANGED <<entryVars, taskVars, waiter, runningTask, result, executed, crashed>>

RunnerClear ==
    /\ RunnerGoes("clear", "idle")
    /\ runningTask' = NoTask
    /\ UNCHANGED <<frontVars, result, executed, crashed>>

Runner ==
    \/ RunnerSleep \/ RunnerTake \/ RunnerExit \/ RunnerNotifySpace \/ RunnerSkip
    \/ RunnerStart \/ RunnerExecute \/ RunnerRecheck \/ RunnerPush \/ RunnerClear
-----------------------------------------------------------------------------
Deliver == Alive /\ Dispatcher /\ UNCHANGED runnerVars
Notify == Alive /\ StopNotify /\ UNCHANGED runnerVars
WaitCall == Alive /\ WaitBegin /\ UNCHANGED runnerVars
WaitJoins ==
    /\ Alive
    /\ WaitCloseInput(runnerPc = "exited") \/ WaitReturn
    /\ UNCHANGED runnerVars

\* Nothing more happens once the process is gone or wait() has returned.
Stopped == (crashed \/ waiter = "returned") /\ UNCHANGED vars

Next ==
    \/ Submit \/ (\E t \in TaskIds : Cancel(t))
    \/ GracefulStop \/ ImmediateStop \/ Notify
    \/ Runner \/ Deliver \/ WaitCall \/ WaitJoins \/ Stopped

\* Every started thread keeps running, the pipeline and the callbacks return;
\* a notified submitter gets the lock.  Nobody has to submit, cancel or stop.
Fairness ==
    /\ WF_vars(Runner) /\ WF_vars(Deliver) /\ WF_vars(Notify) /\ WF_vars(WaitJoins)
    /\ WF_vars(Alive /\ WokenSubmit /\ UNCHANGED runnerVars)

Spec == Init /\ [][Next]_vars /\ Fairness
-----------------------------------------------------------------------------
Delivery == INSTANCE TaskDelivery
            WITH accepted <- nextTaskId - 1, open <- accepting,
                 returned <- waiter = "returned"

\* submit() accepts tasks in order, each accepted task is delivered exactly
\* once and in that order, and wait() returns after the last delivery.
ImplementsTaskDelivery == Delivery!DeliverySafety

\* Neither the runner nor a submitter sleeps through its notification.
NoLostWakeup == SleepersHaveAReason(IF runnerPc = "notify" THEN 1 ELSE 0)

\* A cancellation that came before the runner's last look at it decides the
\* outcome, and no task that nobody cancelled is reported as cancelled.
CancellationDecides ==
    /\ CancellationHonoured
    /\ \A i \in DOMAIN delivered :
         delivered[i].outcome = "Cancelled" => delivered[i].task \in cancelRequested

\* A task that was cancelled while it was queued never reaches the pipeline.
CancelledInQueueNeverRuns == \A t \in executed : doomed[t] # "unstarted"

\* Every accepted task is delivered, whether or not anybody stops or waits.
EveryTaskDelivered ==
    \A t \in TaskIds : (nextTaskId > t) ~> (Len(delivered) >= t \/ crashed)

\* wait() returns.
WaitReturns == (waiter = "joining") ~> (waiter = "returned" \/ crashed)

\* A stop releases every submitter that sleeps for space.
StopReleasesSubmitters == ~accepting ~> (blocked + woken = 0 \/ crashed)

\* An immediate stop does not follow runningTask_ into a moved-from task.
NoMovedFromAccess == ~crashed
=============================================================================
