-------------------- MODULE SerialPipelineExecutor_proofs --------------------
(***************************************************************************)
(* Proofs about SerialPipelineExecutor, for every number of submitters and *)
(* tasks, every capacity, both policies and every set of tasks that may be *)
(* cancelled.                                                              *)
(***************************************************************************)
EXTENDS SerialPipelineExecutor, ExecutorFront_proofs

RunnerTypes ==
    /\ runnerPc \in RunnerPcs
    /\ runningTask \in TaskIds \cup {NoTask}
    /\ result \in Outcomes
    /\ executed \in SUBSET TaskIds
    /\ crashed \in BOOLEAN

\* The runner has a task of its own from the entry queue to the completion
\* queue.  It is the one after all that have been answered, and the entry queue
\* goes on behind it.
InHand == runnerPc \in {"notify", "check", "running", "ran", "push"}
Taken == Answered + (IF InHand THEN 1 ELSE 0)
OrderInv ==
    /\ ExitOrder
    /\ EntryOrder(Taken)
    /\ InHand => runningTask = Answered + 1
    /\ runnerPc = "clear" => runningTask \in TaskIds

\* An answer takes a cancellation into account that came in time, and invents
\* none.
Honoured(c) ==
    /\ doomed[c.task] # "no" => c.outcome = "Cancelled"
    /\ c.outcome = "Cancelled" => c.task \in cancelRequested
HonourInv ==
    /\ \A c \in Answers : Honoured(c)
    /\ runnerPc = "push" => Honoured([task |-> runningTask, outcome |-> result])
    /\ runnerPc = "ran" => result # "Cancelled"

\* The pipeline was given only tasks that the runner has looked at, and none of
\* them had been cancelled by then.
Started == Answered + (IF runnerPc \in {"running", "ran", "push"} THEN 1 ELSE 0)
StartInv == \A t \in executed : t <= Started /\ doomed[t] # "unstarted"

\* The runner leaves only when it has been stopped and has nothing left, and
\* wait() goes on only when it has left.
ExitInv ==
    /\ runnerPc = "exited" => entryQueue = <<>> /\ stopRequested
    /\ waiter \in {"joinDispatcher", "returned"} => runnerPc = "exited"

Coming == IF runnerPc = "notify" THEN 1 ELSE 0

IInv ==
    /\ FrontInv /\ RunnerTypes /\ OrderInv /\ SpaceInv(Coming)
    /\ DoomInv /\ HonourInv /\ StartInv /\ ExitInv
-----------------------------------------------------------------------------
(* Types, and the flags of the front.                                      *)

\* The runner starts idle.
LEMMA TypesInit == Init => FrontInv /\ RunnerTypes
  BY FrontInvInit DEF Init, RunnerTypes, RunnerPcs, Outcomes

\* Every action of the executor keeps the front's invariant and its types.
LEMMA TypesStep ==
  ASSUME FrontInv, RunnerTypes, OrderInv, [Next]_vars
  PROVE  FrontInv' /\ RunnerTypes'
<1> USE DEF RunnerTypes, RunnerPcs, Outcomes, RunnerGoes, runnerVars
<1>0. FrontTypeOK /\ cancelRequested \in SUBSET TaskIds /\ doomed \in [TaskIds -> Dooms]
  BY DEF FrontInv, FrontTypes, FrontTypeOK
<1>1. CASE Submit
  BY <1>1, FrontInvSubmit DEF Submit
<1>2. ASSUME NEW t \in TaskIds, Cancel(t) PROVE FrontInv' /\ RunnerTypes'
  BY <1>2, FrontInvCancel DEF Cancel
<1>3. CASE GracefulStop
  BY <1>0, <1>3, FrontInvClose DEF GracefulStop, taskVars
<1>4. CASE ImmediateStop
  <2>1. CASE StopCancels(ToSet(entryQueue) \cup ({runningTask} \ {NoTask})) /\ UNCHANGED runnerVars
    <3>1. ToSet(entryQueue) \subseteq TaskIds
      BY <1>0, ElementOfSeq, LenProperties DEF ToSet, FrontTypeOK
    <3>2. cancelRequested' \in SUBSET TaskIds /\ doomed' \in [TaskIds -> Dooms]
      BY <1>0, <2>1, <3>1, DoomTypes DEF StopCancels
    <3> QED
      BY <2>1, <3>2, FrontInvClose DEF StopCancels
  <2>2. CASE UNCHANGED <<frontVars, runnerPc, runningTask, result, executed>> /\ crashed' = TRUE
    BY <2>2 DEF frontVars, entryVars, taskVars, dispatchVars, FrontInv, FrontTypes, FrontTypeOK,
       StopInv, TakerInv
  <2> QED
    BY <1>4, <2>1, <2>2 DEF ImmediateStop
<1>5. CASE Notify
  BY <1>5, FrontInvNotify DEF Notify
<1>6. CASE RunnerSleep
  BY <1>6, FrontInvSleep DEF RunnerSleep
<1>7. CASE RunnerTake
  BY <1>7, FrontInvTake DEF RunnerTake
<1>8. CASE RunnerNotifySpace
  BY <1>8, FrontInvNotifySpace DEF RunnerNotifySpace
<1>9. CASE RunnerStart
  <2>1. runningTask \in TaskIds
    BY <1>9, CountTypes DEF RunnerStart, OrderInv, InHand, FrontInv, FrontTypes, NoTask
  <2> QED
    BY <1>9, <2>1, FrontInvMark DEF RunnerStart
<1>10. CASE RunnerPush
  <2>1. runningTask \in TaskIds
    BY <1>10, CountTypes DEF RunnerPush, OrderInv, InHand, FrontInv, FrontTypes, NoTask
  <2> QED
    BY <1>10, <2>1, FrontInvComplete DEF RunnerPush
<1>11. CASE RunnerExit \/ RunnerSkip \/ RunnerExecute \/ RunnerRecheck \/ RunnerClear
  BY <1>11 DEF RunnerExit, RunnerSkip, RunnerExecute, RunnerRecheck, RunnerClear,
     frontVars, entryVars, taskVars, dispatchVars, FrontInv, FrontTypes, FrontTypeOK,
     StopInv, TakerInv
<1>12. CASE Deliver
  BY <1>12, FrontInvDeliver DEF Deliver
<1>13. CASE WaitCall \/ WaitJoins
  BY <1>13, FrontInvWait DEF WaitCall, WaitJoins
<1>14. CASE UNCHANGED vars
  BY <1>14 DEF vars, frontVars, entryVars, taskVars, dispatchVars, FrontInv, FrontTypes,
     FrontTypeOK, StopInv, TakerInv
<1> QED
  BY <1>1, <1>2, <1>3, <1>4, <1>5, <1>6, <1>7, <1>8, <1>9, <1>10, <1>11, <1>12, <1>13, <1>14
     DEF Next, Runner, Stopped
-----------------------------------------------------------------------------
(* Order.                                                                  *)

\* At the start no task is on its way.
LEMMA OrderInvInit == Init => OrderInv
  BY OrderInit DEF Init, OrderInv, Taken, InHand

\* Every action keeps the tasks in one line from submit() to delivery.
LEMMA OrderInvStep ==
  ASSUME FrontInv, RunnerTypes, OrderInv, [Next]_vars
  PROVE  OrderInv'
<1> USE DEF OrderInv, Taken, InHand, RunnerGoes, runnerVars
<1>0. Answered \in Nat /\ Taken \in Nat /\ Len(entryQueue) \in Nat
  BY CountTypes DEF FrontInv, FrontTypes
<1>1. CASE Submit
  <2>1. Answered' = Answered /\ ExitOrder' /\ UNCHANGED runnerVars
    BY <1>1, SubmitFrame, ExitFrame DEF Submit
  <2>2. EntryOrder(Taken)'
    BY <1>0, <1>1, <2>1, EntryOrderSubmit DEF Submit, EntryOrder
  <2> QED
    BY <2>1, <2>2 DEF EntryOrder
\* Steps that leave both ends and the runner's hand as they are.
<1>2. ASSUME UNCHANGED <<entryQueue, nextTaskId, dispatchVars, runningTask>>, InHand' = InHand,
             runnerPc' = "clear" => runnerPc = "clear"
      PROVE  OrderInv'
  BY <1>2, ExitFrame DEF EntryOrder
<1>3. ASSUME NEW t \in TaskIds, Cancel(t) PROVE OrderInv'
  BY <1>2, <1>3 DEF Cancel, CancelTask, entryVars
<1>4. CASE GracefulStop \/ ImmediateStop \/ Notify \/ WaitCall
  BY <1>2, <1>4 DEF GracefulStop, ImmediateStop, StopCancels, CloseEntry, Notify, StopNotify,
     WaitCall, WaitBegin, frontVars, entryVars
<1>5. CASE RunnerSleep \/ RunnerExit \/ RunnerNotifySpace \/ RunnerSkip \/ RunnerStart
           \/ RunnerExecute \/ RunnerRecheck
  BY <1>2, <1>5 DEF RunnerSleep, TakerSleep, RunnerExit, RunnerNotifySpace, NotifySpace,
     RunnerSkip, RunnerStart, RunnerExecute, RunnerRecheck, frontVars, entryVars
<1>6. CASE RunnerTake
  <2>1. /\ runningTask' = Head(entryQueue) /\ runnerPc = "idle" /\ runnerPc' = "notify"
        /\ UNCHANGED dispatchVars /\ TakeFirst
    BY <1>6 DEF RunnerTake, TakeFirst
  <2>2. Answered' = Answered /\ ExitOrder' /\ Taken = Answered
    BY <2>1, <1>0, ExitFrame
  <2>3. Head(entryQueue) = Answered + 1 /\ EntryOrder(Answered + 1)'
    BY <1>0, <2>1, <2>2, EntryOrderTake DEF EntryOrder
  <2> QED
    BY <2>1, <2>2, <2>3 DEF EntryOrder
<1>7. CASE RunnerPush
  <2>1. /\ runnerPc = "push" /\ runnerPc' = "clear" /\ UNCHANGED <<entryVars, runningTask>>
        /\ QueueCompletion(runningTask, result, QueueCapacity)
    BY <1>7 DEF RunnerPush
  <2>2. runningTask = Answered + 1 /\ runningTask \in TaskIds /\ result \in Outcomes
    BY <1>0, <2>1 DEF RunnerTypes, NoTask
  <2>3. ExitOrder' /\ Answered' = Answered + 1
    BY <2>1, <2>2, ExitOrderComplete
  <2> QED
    BY <1>0, <2>1, <2>2, <2>3 DEF EntryOrder, entryVars
<1>8. CASE RunnerClear
  BY <1>8, ExitFrame DEF RunnerClear, frontVars, entryVars, EntryOrder
<1>9. CASE Deliver
  <2>1. ExitOrder' /\ Answered' = Answered /\ UNCHANGED <<entryVars, runnerVars>>
    BY <1>9, ExitOrderDeliver, DeliverFrame DEF Deliver
  <2> QED
    BY <2>1 DEF EntryOrder, entryVars
<1>10. CASE WaitJoins
  <2>1. /\ UNCHANGED <<entryVars, runnerVars, completionQueue, delivering, delivered>>
    BY <1>10 DEF WaitJoins, WaitCloseInput, WaitReturn, dispatchVars
  <2>2. Answered' = Answered /\ ExitOrder'
    BY <2>1 DEF Answered, Popped, ExitOrder
  <2> QED
    BY <2>1, <2>2 DEF EntryOrder, entryVars
<1>11. CASE UNCHANGED vars
  BY <1>2, <1>11 DEF vars, frontVars, entryVars
<1> QED
  BY <1>1, <1>3, <1>4, <1>5, <1>6, <1>7, <1>8, <1>9, <1>10, <1>11 DEF Next, Runner, Stopped
-----------------------------------------------------------------------------
(* Wake-ups.                                                               *)

\* No step leaves a producer asleep without somebody who will wake it.
LEMMA SpaceInvStep ==
  ASSUME FrontInv, RunnerTypes, SpaceInv(Coming), [Next]_vars
  PROVE  SpaceInv(Coming)'
<1> USE DEF Coming, RunnerGoes, runnerVars
<1>1. CASE Submit
  BY <1>1, SpaceInvSubmit DEF Submit, SpaceInv
<1>2. CASE GracefulStop \/ ImmediateStop \/ WaitCall \/ Notify
  BY <1>2 DEF GracefulStop, ImmediateStop, StopCancels, CloseEntry, WaitCall, WaitBegin,
     Notify, StopNotify, SpaceInv, frontVars, entryVars
<1>3. CASE RunnerTake
  BY <1>3, SpaceInvTake DEF RunnerTake, SpaceInv
<1>4. CASE RunnerNotifySpace
  BY <1>4, SpaceInvNotifySpace DEF RunnerNotifySpace, SpaceInv
<1>5. ASSUME NEW t \in TaskIds, Cancel(t) PROVE SpaceInv(Coming)'
  BY <1>5 DEF Cancel, CancelTask, SpaceInv, entryVars
<1>6. CASE RunnerSleep \/ RunnerExit \/ RunnerSkip \/ RunnerStart \/ RunnerExecute
           \/ RunnerRecheck \/ RunnerPush \/ RunnerClear \/ Deliver \/ WaitJoins
  BY <1>6, DeliverFrame DEF RunnerSleep, TakerSleep, RunnerExit, RunnerSkip, RunnerStart,
     RunnerExecute, RunnerRecheck, RunnerPush, RunnerClear, Deliver, WaitJoins, WaitCloseInput,
     WaitReturn, SpaceInv, frontVars, entryVars
<1>7. CASE UNCHANGED vars
  BY <1>7 DEF vars, frontVars, entryVars, SpaceInv
<1> QED
  BY <1>1, <1>2, <1>3, <1>4, <1>5, <1>6, <1>7 DEF Next, Runner, Stopped
-----------------------------------------------------------------------------
(* Cancellation.                                                           *)

\* The tasks that a cancellation may still decide are those that have not been
\* answered and that the runner has not looked at for the last time.
LEMMA UndecidedRange ==
  ASSUME FrontInv, RunnerTypes, OrderInv
  PROVE  /\ \A t \in Unstarted : t > Started
         /\ \A t \in Undecided : t > Answered /\ (runnerPc = "push" => t # runningTask)
<1>1. entryQueue \in Seq(TaskIds) /\ Answered \in Nat /\ Taken \in Nat
  BY CountTypes DEF FrontInv, FrontTypes, FrontTypeOK, Taken
<1>2. \A t \in ToSet(entryQueue) : t > Taken /\ t \in Nat
  <2> TAKE t \in ToSet(entryQueue)
  <2>1. Taken < t
    BY <1>1, IdsMembers DEF OrderInv, EntryOrder
  <2>2. t \in TaskIds
    BY <1>1, ElementOfSeq, LenProperties DEF ToSet
  <2> QED
    BY <1>1, <2>1, <2>2 DEF TaskIds
<1> QED
  BY <1>1, <1>2 DEF Unstarted, Undecided, Started, Taken, InHand, OrderInv

\* Only a request marks a task as cancelled.
LEMMA DoomInvStep ==
  ASSUME FrontInv, DoomInv, [Next]_vars
  PROVE  DoomInv'
<1>0. FrontTypeOK
  BY DEF FrontInv, FrontTypes
<1>1. CASE UNCHANGED <<doomed, cancelRequested>>
  BY <1>1 DEF DoomInv
<1>2. ASSUME NEW tasks, cancelRequested' = cancelRequested \cup tasks,
             Doom(tasks, Unstarted, Undecided)
      PROVE  DoomInv'
  BY <1>0, <1>2, DoomTypes DEF DoomInv
<1>3. ASSUME NEW t \in TaskIds, Cancel(t) PROVE DoomInv'
  BY <1>2, <1>3 DEF Cancel, CancelTask
<1>4. CASE ImmediateStop
  BY <1>1, <1>2, <1>4 DEF ImmediateStop, StopCancels, frontVars, taskVars
<1>5. CASE Submit \/ Deliver
  BY <1>1, <1>5, SubmitFrame, DeliverFrame DEF Submit, Deliver
<1>6. CASE GracefulStop \/ Notify \/ WaitCall \/ WaitJoins \/ UNCHANGED vars
  BY <1>1, <1>6 DEF GracefulStop, Notify, StopNotify, WaitCall, WaitBegin, WaitJoins,
     WaitCloseInput, WaitReturn, vars, frontVars, taskVars
<1>7. CASE Runner
  BY <1>1, <1>7 DEF Runner, RunnerSleep, TakerSleep, RunnerTake, TakeFirst, RunnerExit,
     RunnerNotifySpace, NotifySpace, RunnerSkip, RunnerStart, RunnerExecute, RunnerRecheck,
     RunnerPush, RunnerClear, frontVars, taskVars
<1> QED
  BY <1>3, <1>4, <1>5, <1>6, <1>7 DEF Next, Stopped

\* A cancellation that dooms only what is undecided leaves every answer honoured.
LEMMA HonourInvCancel ==
  ASSUME FrontInv, RunnerTypes, OrderInv, HonourInv, NEW tasks,
         cancelRequested' = cancelRequested \cup tasks, Doom(tasks, Unstarted, Undecided),
         UNCHANGED <<dispatchVars, runnerVars>>
  PROVE  HonourInv'
<1>1. Answers' = Answers /\ Answered \in Nat
  BY ExitFrame, CountTypes DEF FrontInv, FrontTypes
<1>2. \A t \in TaskIds : t \notin Undecided => doomed'[t] = doomed[t]
  BY DoomTypes DEF FrontInv, FrontTypes, Undecided
<1>3. \A c \in Answers : doomed'[c.task] = doomed[c.task]
  <2> TAKE c \in Answers
  <2>1. c.task \in TaskIds /\ c.task <= Answered
    BY AnswersRange DEF OrderInv, Completions
  <2>2. c.task \notin Undecided
    BY <1>1, <2>1, UndecidedRange DEF TaskIds
  <2> QED
    BY <1>2, <2>1, <2>2
<1>4. runnerPc = "push" => doomed'[runningTask] = doomed[runningTask]
  <2> SUFFICES ASSUME runnerPc = "push" PROVE doomed'[runningTask] = doomed[runningTask]
    OBVIOUS
  <2>1. runningTask \in TaskIds /\ runningTask \notin Undecided
    BY <1>1, UndecidedRange DEF OrderInv, InHand, RunnerTypes, NoTask
  <2> QED
    BY <1>2, <2>1
<1> QED
  BY <1>1, <1>3, <1>4 DEF HonourInv, Honoured, runnerVars

\* The look at the cancellation that precedes a result binds the result.
LEMMA HonourInvStep ==
  ASSUME FrontInv, RunnerTypes, OrderInv, DoomInv, HonourInv, [Next]_vars
  PROVE  HonourInv'
<1> USE DEF RunnerGoes, runnerVars
<1>1. ASSUME UNCHANGED <<cancelRequested, doomed>>, Answers' = Answers,
             UNCHANGED <<runningTask, result>> \/ runnerPc' \notin {"push", "ran"},
             runnerPc' = runnerPc \/ runnerPc' \notin {"push", "ran"}
      PROVE  HonourInv'
  BY <1>1 DEF HonourInv, Honoured
<1>2. ASSUME NEW t \in TaskIds, Cancel(t) PROVE HonourInv'
  BY <1>2, HonourInvCancel DEF Cancel, CancelTask
<1>3. CASE ImmediateStop
  <2>1. CASE StopCancels(ToSet(entryQueue) \cup ({runningTask} \ {NoTask})) /\ UNCHANGED runnerVars
    BY <2>1, HonourInvCancel DEF StopCancels
  <2>2. CASE UNCHANGED <<frontVars, runnerPc, runningTask, result>>
    BY <1>1, <2>2, ExitFrame DEF frontVars, taskVars
  <2> QED
    BY <1>3, <2>1, <2>2 DEF ImmediateStop
<1>4. CASE Submit
  BY <1>1, <1>4, SubmitFrame, ExitFrame DEF Submit
<1>5. CASE Deliver
  BY <1>1, <1>5, DeliverFrame, ExitOrderDeliver DEF Deliver, OrderInv
<1>6. CASE WaitJoins
  <2>1. /\ UNCHANGED <<taskVars, runnerVars, completionQueue, delivering, delivered>>
    BY <1>6 DEF WaitJoins, WaitCloseInput, WaitReturn, dispatchVars
  <2> QED
    BY <1>1, <2>1 DEF Answers, taskVars
<1>7. CASE GracefulStop \/ Notify \/ WaitCall \/ UNCHANGED vars
  BY <1>1, <1>7, ExitFrame DEF GracefulStop, Notify, StopNotify, WaitCall, WaitBegin, vars,
     frontVars, taskVars
<1>8. CASE RunnerSleep \/ RunnerTake \/ RunnerExit \/ RunnerNotifySpace \/ RunnerStart
           \/ RunnerClear
  BY <1>1, <1>8, ExitFrame DEF RunnerSleep, TakerSleep, RunnerTake, TakeFirst, RunnerExit,
     RunnerNotifySpace, NotifySpace, RunnerStart, RunnerClear, frontVars, taskVars
<1>9. CASE RunnerSkip
  BY <1>9, ExitFrame DEF RunnerSkip, HonourInv, Honoured, frontVars, taskVars
<1>10. CASE RunnerExecute
  BY <1>10, ExitFrame DEF RunnerExecute, HonourInv, Honoured, frontVars, taskVars
<1>11. CASE RunnerRecheck
  <2>1. runningTask \in TaskIds
    BY <1>11, CountTypes DEF RunnerRecheck, OrderInv, InHand, RunnerTypes, NoTask, FrontInv, FrontTypes
  <2>2. doomed[runningTask] # "no" => runningTask \in cancelRequested
    BY <2>1 DEF DoomInv
  <2> QED
    BY <1>11, <2>2, ExitFrame DEF RunnerRecheck, HonourInv, Honoured, frontVars, taskVars
<1>12. CASE RunnerPush
  <2>1. runningTask \in TaskIds /\ result \in Outcomes /\ runningTask = Answered + 1
    BY <1>12, CountTypes DEF RunnerPush, OrderInv, InHand, RunnerTypes, NoTask, FrontInv, FrontTypes
  <2>2. Answers' = Answers \cup {[task |-> runningTask, outcome |-> result]}
    BY <1>12, <2>1, ExitOrderComplete DEF RunnerPush, OrderInv
  <2> QED
    BY <1>12, <2>2 DEF RunnerPush, HonourInv, Honoured, taskVars
<1> QED
  BY <1>2, <1>3, <1>4, <1>5, <1>6, <1>7, <1>8, <1>9, <1>10, <1>11, <1>12
     DEF Next, Runner, Stopped

\* A cancellation dooms as unstarted only what the pipeline has not been given.
LEMMA StartInvCancel ==
  ASSUME FrontInv, RunnerTypes, OrderInv, StartInv, NEW tasks,
         Doom(tasks, Unstarted, Undecided), UNCHANGED <<dispatchVars, runnerVars>>
  PROVE  StartInv'
<1>1. Answered' = Answered /\ Answered \in Nat
  BY ExitFrame, CountTypes DEF FrontInv, FrontTypes
<1>2. Started' = Started /\ Started \in Nat
  BY <1>1 DEF Started, runnerVars
<1>3. \A t \in executed : t \in TaskIds /\ t \notin Unstarted
  BY <1>2, UndecidedRange DEF StartInv, RunnerTypes, TaskIds
<1>4. \A t \in executed : doomed'[t] # "unstarted"
  BY <1>3, DoomTypes DEF FrontInv, FrontTypes, StartInv
<1> QED
  BY <1>2, <1>4 DEF StartInv, runnerVars

\* A task that was cancelled before it was taken is never started.
LEMMA StartInvStep ==
  ASSUME FrontInv, RunnerTypes, OrderInv, DoomInv, StartInv, [Next]_vars
  PROVE  StartInv'
<1> USE DEF RunnerGoes, runnerVars
<1>0. Answered \in Nat /\ \A t \in executed : t \in Nat
  BY CountTypes DEF FrontInv, FrontTypes, RunnerTypes, TaskIds
<1>1. ASSUME UNCHANGED <<doomed, executed>>, Answered' = Answered,
             runnerPc \in {"running", "ran", "push"} => runnerPc' \in {"running", "ran", "push"}
      PROVE  StartInv'
  BY <1>0, <1>1 DEF StartInv, Started
<1>2. ASSUME NEW t \in TaskIds, Cancel(t) PROVE StartInv'
  BY <1>2, StartInvCancel DEF Cancel, CancelTask
<1>3. CASE ImmediateStop
  <2>1. CASE StopCancels(ToSet(entryQueue) \cup ({runningTask} \ {NoTask})) /\ UNCHANGED runnerVars
    BY <2>1, StartInvCancel DEF StopCancels
  <2>2. CASE UNCHANGED <<frontVars, runnerPc, executed>>
    BY <1>1, <2>2, ExitFrame DEF frontVars, taskVars
  <2> QED
    BY <1>3, <2>1, <2>2 DEF ImmediateStop
<1>4. CASE Submit
  BY <1>1, <1>4, SubmitFrame, ExitFrame DEF Submit
<1>5. CASE Deliver
  BY <1>1, <1>5, DeliverFrame, ExitOrderDeliver DEF Deliver, OrderInv
<1>6. CASE WaitJoins
  <2>1. UNCHANGED <<taskVars, runnerVars, completionQueue, delivering, delivered>>
    BY <1>6 DEF WaitJoins, WaitCloseInput, WaitReturn, dispatchVars
  <2> QED
    BY <1>1, <2>1 DEF Answered, Popped, taskVars
<1>7. CASE GracefulStop \/ Notify \/ WaitCall \/ UNCHANGED vars
  BY <1>1, <1>7, ExitFrame DEF GracefulStop, Notify, StopNotify, WaitCall, WaitBegin, vars,
     frontVars, taskVars
<1>8. CASE RunnerSleep \/ RunnerTake \/ RunnerExit \/ RunnerNotifySpace \/ RunnerSkip
           \/ RunnerExecute \/ RunnerRecheck \/ RunnerClear
  BY <1>1, <1>8, ExitFrame DEF RunnerSleep, TakerSleep, RunnerTake, TakeFirst, RunnerExit,
     RunnerNotifySpace, NotifySpace, RunnerSkip, RunnerExecute, RunnerRecheck, RunnerClear,
     frontVars, taskVars
<1>9. CASE RunnerStart
  <2>1. runningTask \in TaskIds /\ runningTask = Answered + 1
    BY <1>0, <1>9 DEF RunnerStart, OrderInv, InHand, RunnerTypes, NoTask
  <2>2. doomed[runningTask] = "no"
    BY <1>9, <2>1 DEF RunnerStart, DoomInv
  <2>3. Answered' = Answered
    BY <1>9, ExitFrame DEF RunnerStart
  <2> QED
    BY <1>0, <1>9, <2>1, <2>2, <2>3 DEF RunnerStart, StartInv, Started
<1>10. CASE RunnerPush
  <2>1. runningTask \in TaskIds /\ result \in Outcomes /\ runningTask = Answered + 1
    BY <1>0, <1>10 DEF RunnerPush, OrderInv, InHand, RunnerTypes, NoTask
  <2>2. Answered' = Answered + 1
    BY <1>10, <2>1, ExitOrderComplete DEF RunnerPush, OrderInv
  <2> QED
    BY <1>0, <1>10, <2>2 DEF RunnerPush, StartInv, Started, taskVars
<1> QED
  BY <1>2, <1>3, <1>4, <1>5, <1>6, <1>7, <1>8, <1>9, <1>10 DEF Next, Runner, Stopped
-----------------------------------------------------------------------------
(* The end of the run.                                                     *)

\* A thread only exits behind those before it, and nothing enters its queue afterwards.
LEMMA ExitInvStep ==
  ASSUME FrontInv, ExitInv, [Next]_vars
  PROVE  ExitInv'
<1> USE DEF ExitInv, RunnerGoes, runnerVars
<1>1. CASE Submit
  <2>1. UNCHANGED entryQueue \/ ~stopRequested
    BY <1>1, SubmitFrame DEF Submit, FrontInv, StopInv
  <2> QED
    BY <1>1, <2>1, SubmitFrame DEF Submit
<1>2. ASSUME NEW t \in TaskIds, Cancel(t) PROVE ExitInv'
  BY <1>2 DEF Cancel, CancelTask, entryVars
<1>3. CASE GracefulStop \/ ImmediateStop \/ Notify \/ WaitCall \/ WaitJoins
  BY <1>3 DEF GracefulStop, ImmediateStop, StopCancels, CloseEntry, Notify, StopNotify,
     WaitCall, WaitBegin, WaitJoins, WaitCloseInput, WaitReturn, frontVars, entryVars
<1>4. CASE Runner
  BY <1>4 DEF Runner, RunnerSleep, TakerSleep, RunnerTake, TakeFirst, RunnerExit, NothingLeft,
     RunnerNotifySpace, NotifySpace, RunnerSkip, RunnerStart, RunnerExecute, RunnerRecheck,
     RunnerPush, RunnerClear, frontVars, entryVars
<1>5. CASE Deliver
  BY <1>5, DeliverFrame DEF Deliver, entryVars
<1>6. CASE UNCHANGED vars
  BY <1>6 DEF vars, frontVars, entryVars
<1> QED
  BY <1>1, <1>2, <1>3, <1>4, <1>5, <1>6 DEF Next, Stopped
-----------------------------------------------------------------------------
\* The parts hold at the start,
LEMMA IInvInit == Init => IInv
<1> SUFFICES ASSUME Init PROVE IInv
  OBVIOUS
<1>1. FrontInv /\ RunnerTypes /\ OrderInv /\ Answers = {}
  BY TypesInit, OrderInvInit, OrderInit DEF Init
<1> QED
  BY <1>1 DEF IInv, Init, FrontInit, SpaceInv, DoomInv, HonourInv, StartInv, ExitInv

\* and every step preserves their conjunction.
LEMMA IInvStep == IInv /\ [Next]_vars => IInv'
  BY TypesStep, OrderInvStep, SpaceInvStep, DoomInvStep, HonourInvStep, StartInvStep,
     ExitInvStep DEF IInv

\* The inductive invariant of the serial executor.
THEOREM InductiveInvariant == Spec => []IInv
  BY IInvInit, IInvStep, PTL DEF Spec

\* No notification is lost between the runner and the submitters, however many
\* submit and whatever the queue holds.
THEOREM NoLostWakeupHolds == Spec => []NoLostWakeup
<1>1. IInv => NoLostWakeup
  BY SleepersReason DEF IInv, FrontInv, NoLostWakeup, Coming
<1> QED
  BY <1>1, InductiveInvariant, PTL

\* A cancellation in time decides the outcome, and no other task is reported as
\* cancelled.
THEOREM CancellationDecidesHolds == Spec => []CancellationDecides
<1>1. IInv => CancellationDecides
  <2> SUFFICES ASSUME IInv, NEW i \in DOMAIN delivered
               PROVE  Honoured(delivered[i])
    BY DEF CancellationDecides, CancellationHonoured, Honoured
  <2>1. delivered[i] \in Answers
    BY DEF Answers, ToSet
  <2> QED
    BY <2>1 DEF IInv, HonourInv
<1> QED
  BY <1>1, InductiveInvariant, PTL

\* The pipeline never gets a task that was cancelled while it was queued.
THEOREM CancelledInQueueNeverRunsHolds == Spec => []CancelledInQueueNeverRuns
<1>1. IInv => CancelledInQueueNeverRuns
  BY DEF IInv, StartInv, CancelledInQueueNeverRuns
<1> QED
  BY <1>1, InductiveInvariant, PTL
-----------------------------------------------------------------------------
(* Refinement of TaskDelivery.                                             *)

\* Nothing has been accepted or delivered at the start.
LEMMA DeliveryInitially == Init => Delivery!DeliveryInit
  BY DEF Init, FrontInit, Delivery!DeliveryInit

\* A submit() that enqueues is an Accept, the first stop is the Stop, the
\* dispatcher's delivery is a Deliver, and the end of wait() the Return.
LEMMA DeliveryStep == IInv /\ [Next]_vars => [Delivery!DeliveryNext]_(Delivery!deliveryVars)
<1> SUFFICES ASSUME IInv, [Next]_vars
             PROVE  [Delivery!DeliveryNext]_(Delivery!deliveryVars)
  OBVIOUS
<1> USE DEF Delivery!deliveryVars
<1>0. /\ FrontInv /\ OrderInv /\ ExitInv /\ RunnerTypes
      /\ Len(delivered) \in Nat /\ Len(completionQueue) \in Nat /\ Len(entryQueue) \in Nat
      /\ nextTaskId \in Nat
  BY CountTypes, MaxTasksAssumption DEF IInv, FrontInv, FrontTypes, FrontTypeOK
<1>1. ASSUME UNCHANGED <<nextTaskId, accepting, delivered, waiter>>
      PROVE  UNCHANGED Delivery!deliveryVars
  BY <1>1
<1>2. CASE Submit
  <2>1. CASE Enqueue
    <3>1. accepting /\ nextTaskId' - 1 = (nextTaskId - 1) + 1
      BY <1>0, <2>1 DEF Enqueue
    <3> QED
      BY <1>2, <2>1, <3>1 DEF Enqueue, dispatchVars, Delivery!DeliveryNext, Delivery!Accept
  <2>2. CASE UNCHANGED <<nextTaskId, accepting, delivered, waiter>>
    BY <1>1, <2>2
  <2> QED
    BY <1>2, <2>1, <2>2 DEF Submit, FrontSubmit, WokenSubmit, SubmitAtOnce, SubmitSleep,
       SubmitAfterSleep, SubmitSleepAgain, SubmitRefusedAfterSleep, dispatchVars
<1>3. ASSUME CloseEntry, UNCHANGED delivered, waiter' = waiter \/ (waiter = "idle" /\ waiter' = "joining")
      PROVE  [Delivery!DeliveryNext]_(Delivery!deliveryVars)
  <2>1. accepting' = FALSE /\ nextTaskId' = nextTaskId /\ (waiter' = "returned" <=> waiter = "returned")
    BY <1>3 DEF CloseEntry
  <2> QED
    BY <1>0, <1>3, <2>1 DEF Delivery!DeliveryNext, Delivery!Stop, FrontInv, FrontTypes, FrontTypeOK
<1>4. CASE GracefulStop \/ ImmediateStop \/ WaitCall
  BY <1>1, <1>3, <1>4 DEF GracefulStop, ImmediateStop, StopCancels, WaitCall, WaitBegin,
     dispatchVars, frontVars, entryVars
<1>5. CASE Deliver
  <2>1. CASE DispatcherPop
    BY <1>1, <2>1 DEF DispatcherPop, entryVars
  <2>2. CASE DispatcherDeliver
    <3>1. /\ delivering \in Completions /\ delivering.task = Len(delivered) + 1
          /\ delivering # Nothing
      BY <1>0, <2>2 DEF DispatcherDeliver, FrontInv, FrontTypes, FrontTypeOK, OrderInv, ExitOrder
    <3>2. /\ delivering.outcome \in Outcomes
          /\ delivering = [task |-> Len(delivered) + 1, outcome |-> delivering.outcome]
      BY <3>1 DEF Completions
    <3>3. Len(delivered) < nextTaskId - 1
      BY <1>0, <3>1 DEF OrderInv, EntryOrder, Taken, Answered, Popped
    <3>4. Delivery!Deliver(delivering.outcome)
      BY <2>2, <3>2, <3>3 DEF DispatcherDeliver, entryVars, Delivery!Deliver
    <3> QED
      BY <3>2, <3>4 DEF Delivery!DeliveryNext
  <2> QED
    BY <1>5, <2>1, <2>2 DEF Deliver, Dispatcher
<1>6. CASE WaitJoins
  <2>1. CASE WaitCloseInput(runnerPc = "exited")
    BY <2>1 DEF WaitCloseInput, entryVars
  <2>2. CASE WaitReturn
    <3>1. runnerPc = "exited" /\ entryQueue = <<>> /\ ~accepting
      BY <1>0, <2>2 DEF WaitReturn, ExitInv, FrontInv, StopInv
    <3>2. Len(entryQueue) = 0 /\ Len(completionQueue) = 0 /\ delivering = Nothing
      BY <2>2, <3>1 DEF WaitReturn
    <3>3. Len(delivered) = nextTaskId - 1
      BY <1>0, <3>1, <3>2 DEF OrderInv, EntryOrder, Taken, InHand, Answered, Popped
    <3> QED
      BY <2>2, <3>1, <3>3 DEF WaitReturn, entryVars, dispatchVars, Delivery!DeliveryNext, Delivery!Return
  <2> QED
    BY <1>6, <2>1, <2>2 DEF WaitJoins
<1>7. ASSUME NEW t \in TaskIds, Cancel(t) PROVE UNCHANGED Delivery!deliveryVars
  BY <1>1, <1>7 DEF Cancel, CancelTask, entryVars, dispatchVars
<1>8. CASE Notify \/ UNCHANGED vars
  BY <1>1, <1>8 DEF Notify, StopNotify, vars, frontVars, entryVars, dispatchVars
<1>9. CASE Runner
  BY <1>1, <1>9 DEF Runner, RunnerSleep, TakerSleep, RunnerTake, TakeFirst, RunnerExit,
     RunnerNotifySpace, NotifySpace, RunnerSkip, RunnerStart, RunnerExecute, RunnerRecheck,
     RunnerPush, QueueCompletion, RunnerClear, frontVars, entryVars, dispatchVars
<1> QED
  BY <1>2, <1>4, <1>5, <1>6, <1>7, <1>8, <1>9 DEF Next, Stopped

\* The serial executor keeps the promise of TaskDelivery: it delivers exactly
\* the accepted tasks, once and in order, and wait() returns after the last one.
THEOREM ImplementsDelivery == Spec => ImplementsTaskDelivery
  BY InductiveInvariant, DeliveryInitially, DeliveryStep, IInvInit, PTL
     DEF Spec, ImplementsTaskDelivery, Delivery!DeliverySafety
=============================================================================
