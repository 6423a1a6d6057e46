------------------------ MODULE ExecutorFront_proofs ------------------------
(***************************************************************************)
(* Lemmas that the proofs of the three executors share: runs of            *)
(* consecutive task ids in a queue, and what the actions of ExecutorFront  *)
(* preserve whatever the executor does between its two ends.               *)
(***************************************************************************)
EXTENDS ExecutorFront, SequenceTheorems, TLAPS

\* A queue holds the tasks n + 1, n + 2, ... in this order: as ids, or as
\* completions.
IdsAfter(ids, n) == \A i \in 1 .. Len(ids) : ids[i] = n + i
TasksAfter(cs, n) == \A i \in 1 .. Len(cs) : cs[i].task = n + i

\* Types, sharpened by what bounds them: every sleeping submitter is a thread
\* of its own with a task of its own to come.
FrontTypes ==
    /\ FrontTypeOK
    /\ blocked + woken <= Submitters
    /\ nextTaskId + blocked + woken <= MaxTasks + 1

\* The two stop flags go together, and wait() stops before it joins.
StopInv ==
    /\ stopRequested <=> ~accepting
    /\ waiter # "idle" => stopRequested

\* A thread that sleeps on the entry queue has a reason to.
TakerInv == takerAsleep => entryQueue = <<>> /\ (stopRequested => stopNotifying)
SpaceInv(coming) ==
    blocked > 0 =>
        \/ stopNotifying
        \/ accepting /\ Len(entryQueue) + woken + coming >= QueueCapacity

FrontInv == FrontTypes /\ StopInv /\ TakerInv

\* Whoever was cancelled in time has his request on record.
DoomInv == \A t \in TaskIds : doomed[t] # "no" => t \in cancelRequested

\* The tasks that the dispatcher has popped, and those whose completion the
\* executor has queued.
Popped == Len(delivered) + (IF delivering = Nothing THEN 0 ELSE 1)
Answered == Popped + Len(completionQueue)
Answers == ToSet(delivered) \cup ToSet(completionQueue) \cup ({delivering} \ {Nothing})

\* Completions leave the executor in the order of the task ids, and tasks enter
\* it in that order: `taken` of them have left the entry queue.
ExitOrder ==
    /\ TasksAfter(delivered, 0)
    /\ delivering # Nothing => delivering.task = Len(delivered) + 1
    /\ TasksAfter(completionQueue, Popped)
EntryOrder(taken) ==
    /\ IdsAfter(entryQueue, taken)
    /\ nextTaskId = taken + Len(entryQueue) + 1
-----------------------------------------------------------------------------
(* Queues of consecutive tasks.                                            *)

\* A queue of consecutive ids stays one when the next id is appended,
LEMMA IdsAppend ==
  ASSUME NEW S, NEW ids \in Seq(S), NEW n \in Nat, IdsAfter(ids, n),
         NEW t \in S, t = n + Len(ids) + 1
  PROVE  IdsAfter(Append(ids, t), n)
<1> DEFINE more == Append(ids, t)
<1>1. /\ Len(more) = Len(ids) + 1 /\ Len(ids) \in Nat
      /\ \A i \in 1 .. Len(ids) : more[i] = ids[i]
      /\ more[Len(ids) + 1] = t
  BY AppendProperties, LenProperties
<1>2. \A i \in 1 .. Len(ids) : ids[i] = n + i
  BY DEF IdsAfter
<1> HIDE DEF more
<1>3. \A i \in 1 .. Len(more) : more[i] = n + i
  BY <1>1, <1>2
<1> QED
  BY <1>3 DEF IdsAfter, more

\* when its head, the first id after n, is taken,
LEMMA IdsTail ==
  ASSUME NEW S, NEW ids \in Seq(S), NEW n \in Nat, IdsAfter(ids, n), ids # <<>>
  PROVE  /\ Head(ids) = n + 1
         /\ IdsAfter(Tail(ids), n + 1)
         /\ Len(Tail(ids)) = Len(ids) - 1
         /\ Len(ids) >= 1
<1>1. /\ Len(ids) \in Nat /\ Len(ids) # 0
      /\ Len(Tail(ids)) = Len(ids) - 1
      /\ \A i \in 1 .. Len(Tail(ids)) : Tail(ids)[i] = ids[i + 1]
      /\ Head(ids) = ids[1]
  BY HeadTailProperties, EmptySeq, LenProperties
<1> QED
  BY <1>1 DEF IdsAfter

\* and holds no id outside its run.
LEMMA IdsMembers ==
  ASSUME NEW S, NEW ids \in Seq(S), NEW n \in Nat, IdsAfter(ids, n), NEW t \in ToSet(ids)
  PROVE  n < t /\ t <= n + Len(ids)
<1>1. Len(ids) \in Nat /\ DOMAIN ids = 1 .. Len(ids)
  BY LenProperties
<1>2. PICK i \in 1 .. Len(ids) : t = ids[i]
  BY <1>1 DEF ToSet
<1> QED
  BY <1>1, <1>2 DEF IdsAfter

\* The same for completions: the next one is appended,
LEMMA TasksAppend ==
  ASSUME NEW S, NEW cs \in Seq(S), NEW n \in Nat, TasksAfter(cs, n),
         NEW c \in S, c.task = n + Len(cs) + 1
  PROVE  TasksAfter(Append(cs, c), n)
<1> DEFINE more == Append(cs, c)
<1>1. /\ Len(more) = Len(cs) + 1 /\ Len(cs) \in Nat
      /\ \A i \in 1 .. Len(cs) : more[i] = cs[i]
      /\ more[Len(cs) + 1] = c
  BY AppendProperties, LenProperties
<1>2. \A i \in 1 .. Len(cs) : cs[i].task = n + i
  BY DEF TasksAfter
<1> HIDE DEF more
<1>3. \A i \in 1 .. Len(cs) : more[i].task = n + i
  BY <1>1, <1>2
<1>4. more[Len(cs) + 1].task = n + (Len(cs) + 1)
  BY <1>1
<1>5. \A i \in 1 .. Len(more) : i \in 1 .. Len(cs) \/ i = Len(cs) + 1
  BY <1>1
<1> QED
  BY <1>3, <1>4, <1>5 DEF TasksAfter, more

\* or the first one is taken.
LEMMA TasksTail ==
  ASSUME NEW S, NEW cs \in Seq(S), NEW n \in Nat, TasksAfter(cs, n), cs # <<>>
  PROVE  /\ Head(cs).task = n + 1
         /\ TasksAfter(Tail(cs), n + 1)
         /\ Len(Tail(cs)) = Len(cs) - 1
         /\ Len(cs) >= 1
<1>1. /\ Len(cs) \in Nat /\ Len(cs) # 0
      /\ Len(Tail(cs)) = Len(cs) - 1
      /\ \A i \in 1 .. Len(Tail(cs)) : Tail(cs)[i] = cs[i + 1]
      /\ Head(cs) = cs[1]
  BY HeadTailProperties, EmptySeq, LenProperties
<1> QED
  BY <1>1 DEF TasksAfter

\* A queue gains exactly the element appended to it,
LEMMA ToSetAppend ==
  ASSUME NEW S, NEW s \in Seq(S), NEW e \in S
  PROVE  ToSet(Append(s, e)) = ToSet(s) \cup {e}
<1>1. /\ Append(s, e) \in Seq(S)
      /\ Len(Append(s, e)) = Len(s) + 1 /\ Len(s) \in Nat
      /\ \A i \in 1 .. Len(s) : Append(s, e)[i] = s[i]
      /\ Append(s, e)[Len(s) + 1] = e
      /\ DOMAIN s = 1 .. Len(s)
  BY AppendProperties, LenProperties
<1>2. DOMAIN Append(s, e) = 1 .. Len(s) + 1
  BY <1>1, LenProperties
<1> QED
  BY <1>1, <1>2 DEF ToSet

\* and loses at most its head to a pop.
LEMMA ToSetTail ==
  ASSUME NEW S, NEW s \in Seq(S), s # <<>>
  PROVE  ToSet(s) = ToSet(Tail(s)) \cup {Head(s)}
<1>1. /\ Len(s) \in Nat /\ Len(s) # 0
      /\ Tail(s) \in Seq(S)
      /\ Len(Tail(s)) = Len(s) - 1
      /\ \A i \in 1 .. Len(Tail(s)) : Tail(s)[i] = s[i + 1]
      /\ Head(s) = s[1]
      /\ DOMAIN s = 1 .. Len(s)
  BY HeadTailProperties, EmptySeq, LenProperties
<1>2. DOMAIN Tail(s) = 1 .. Len(s) - 1
  BY <1>1, LenProperties
<1>3. \A i \in 1 .. Len(s) : i = 1 \/ (i - 1 \in 1 .. Len(s) - 1 /\ s[i] = Tail(s)[i - 1])
  BY <1>1
<1>4. \A i \in 1 .. Len(s) - 1 : i + 1 \in 1 .. Len(s) /\ Tail(s)[i] = s[i + 1]
  BY <1>1
<1>5. ToSet(s) \subseteq ToSet(Tail(s)) \cup {Head(s)}
  <2> SUFFICES ASSUME NEW i \in 1 .. Len(s) PROVE s[i] \in ToSet(Tail(s)) \cup {Head(s)}
    BY <1>1 DEF ToSet
  <2> QED
    BY <1>1, <1>2, <1>3 DEF ToSet
<1>6. ToSet(Tail(s)) \cup {Head(s)} \subseteq ToSet(s)
  BY <1>1, <1>2, <1>4 DEF ToSet
<1> QED
  BY <1>5, <1>6
-----------------------------------------------------------------------------
(* What the front's actions preserve.                                      *)

\* A mark that says how a task was cancelled is set once and only where the
\* cancellation found the task.
LEMMA DoomTypes ==
  ASSUME FrontTypeOK, NEW tasks, NEW unstarted, NEW undecided,
         Doom(tasks, unstarted, undecided)
  PROVE  /\ doomed' \in [TaskIds -> Dooms]
         /\ \A t \in TaskIds :
              /\ doomed[t] # "no" => doomed'[t] = doomed[t]
              /\ t \notin tasks => doomed'[t] = doomed[t]
              /\ t \notin unstarted => doomed'[t] # "unstarted" \/ doomed'[t] = doomed[t]
              /\ t \notin unstarted \cup undecided => doomed'[t] = doomed[t]
  BY DEF Doom, FrontTypeOK, Dooms

\* The front starts with empty queues and no stop.
LEMMA FrontInvInit == FrontInit => FrontInv
<1> SUFFICES ASSUME FrontInit PROVE FrontInv
  OBVIOUS
<1>1. /\ entryQueue \in Seq(TaskIds) /\ completionQueue \in Seq(Completions)
      /\ delivered \in Seq(Completions)
  BY DEF FrontInit
<1>2. /\ state \in [TaskIds -> TaskStates] /\ doomed \in [TaskIds -> Dooms]
      /\ cancelRequested \in SUBSET TaskIds
  BY DEF FrontInit, TaskStates, Dooms
<1>3. /\ nextTaskId \in 1 .. MaxTasks + 1 /\ blocked \in 0 .. Submitters
      /\ woken \in 0 .. Submitters /\ blocked + woken <= Submitters
      /\ nextTaskId + blocked + woken <= MaxTasks + 1
  BY MaxTasksAssumption, SubmittersAssumption DEF FrontInit
<1> QED
  BY <1>1, <1>2, <1>3 DEF FrontInit, FrontInv, FrontTypes, FrontTypeOK, StopInv, TakerInv

\* submit(), whether it enqueues, sleeps or is refused after a sleep.
LEMMA FrontInvSubmit == ASSUME FrontInv, FrontSubmit PROVE FrontInv'
<1> USE MaxTasksAssumption, SubmittersAssumption, QueueCapacityAssumption
<1> USE DEF FrontInv, FrontTypes, FrontTypeOK, StopInv, TakerInv, taskVars, dispatchVars
<1>1. ASSUME Enqueue, nextTaskId <= MaxTasks PROVE
        /\ entryQueue' \in Seq(TaskIds) /\ nextTaskId' \in 1 .. MaxTasks + 1
        /\ state' \in [TaskIds -> TaskStates]
  <2>1. nextTaskId \in TaskIds
    BY <1>1 DEF TaskIds
  <2>2. entryQueue' \in Seq(TaskIds)
    BY <1>1, <2>1, AppendProperties DEF Enqueue
  <2>3. state' \in [TaskIds -> TaskStates]
    BY <1>1, <2>1 DEF Enqueue, TaskStates
  <2> QED
    BY <1>1, <2>2, <2>3 DEF Enqueue
<1>2. CASE SubmitAtOnce
  <2>1. nextTaskId <= MaxTasks
    BY <1>2 DEF SubmitAtOnce, MayCall
  <2>2. /\ entryQueue' \in Seq(TaskIds) /\ nextTaskId' \in 1 .. MaxTasks + 1
        /\ state' \in [TaskIds -> TaskStates]
    BY <1>1, <1>2, <2>1 DEF SubmitAtOnce
  <2>3. /\ blocked' = blocked /\ woken' = woken /\ nextTaskId' = nextTaskId + 1
        /\ blocked' \in 0 .. Submitters /\ woken' \in 0 .. Submitters
        /\ blocked' + woken' <= Submitters
        /\ nextTaskId' + blocked' + woken' <= MaxTasks + 1
    BY <1>2 DEF SubmitAtOnce, MayCall, Enqueue
  <2> QED
    BY <1>2, <2>2, <2>3 DEF SubmitAtOnce, Enqueue
<1>3. CASE SubmitSleep
  BY <1>3 DEF SubmitSleep, MayCall, Full
<1>4. CASE SubmitAfterSleep
  <2>1. nextTaskId <= MaxTasks
    BY <1>4 DEF SubmitAfterSleep
  <2>2. /\ entryQueue' \in Seq(TaskIds) /\ nextTaskId' \in 1 .. MaxTasks + 1
        /\ state' \in [TaskIds -> TaskStates]
    BY <1>1, <1>4, <2>1 DEF SubmitAfterSleep
  <2>3. /\ blocked' \in 0 .. Submitters /\ woken' \in 0 .. Submitters
        /\ blocked' + woken' <= Submitters
        /\ nextTaskId' + blocked' + woken' <= MaxTasks + 1
    BY <1>4 DEF SubmitAfterSleep, Enqueue
  <2> QED
    BY <1>4, <2>2, <2>3 DEF SubmitAfterSleep, Enqueue
<1>5. CASE SubmitSleepAgain
  BY <1>5 DEF SubmitSleepAgain
<1>6. CASE SubmitRefusedAfterSleep
  BY <1>6 DEF SubmitRefusedAfterSleep
<1> QED
  BY <1>2, <1>3, <1>4, <1>5, <1>6 DEF FrontSubmit, WokenSubmit

\* cancel() of a handle.
LEMMA FrontInvCancel ==
  ASSUME FrontInv, NEW t, NEW unstarted, NEW undecided, CancelTask(t, unstarted, undecided)
  PROVE  FrontInv'
<1>1. cancelRequested' \in SUBSET TaskIds
  BY CancellableAssumption
     DEF CancelTask, FrontInv, FrontTypes, FrontTypeOK, TaskIds
<1>2. doomed' \in [TaskIds -> Dooms]
  BY DoomTypes DEF CancelTask, FrontInv, FrontTypes
<1> QED
  BY <1>1, <1>2 DEF CancelTask, FrontInv, FrontTypes, FrontTypeOK, StopInv, TakerInv,
     entryVars, dispatchVars

\* requestStop() up to its unlock: what it cancels is the executor's business.
LEMMA FrontInvClose ==
  ASSUME FrontInv, CloseEntry, cancelRequested' \in SUBSET TaskIds,
         doomed' \in [TaskIds -> Dooms], UNCHANGED <<state, dispatchVars>>,
         waiter' = waiter \/ waiter' = "joining"
  PROVE  FrontInv'
  BY DEF CloseEntry, FrontInv, FrontTypes, FrontTypeOK, StopInv, TakerInv, dispatchVars

\* The notifications that requestStop() gives after its unlock.
LEMMA FrontInvNotify == ASSUME FrontInv, StopNotify PROVE FrontInv'
<1>1. /\ blocked' \in 0 .. Submitters /\ woken' \in 0 .. Submitters
      /\ blocked' + woken' <= Submitters
      /\ nextTaskId' + blocked' + woken' <= MaxTasks + 1
  BY SubmittersAssumption, MaxTasksAssumption
     DEF StopNotify, FrontInv, FrontTypes, FrontTypeOK
<1>2. FrontTypeOK'
  BY <1>1 DEF StopNotify, FrontInv, FrontTypes, FrontTypeOK, taskVars, dispatchVars
<1> QED
  BY <1>1, <1>2 DEF StopNotify, FrontInv, FrontTypes, StopInv, TakerInv

\* The taker goes to sleep on an empty queue.
LEMMA FrontInvSleep == ASSUME FrontInv, TakerSleep PROVE FrontInv'
  BY DEF TakerSleep, FrontInv, FrontTypes, FrontTypeOK, StopInv, TakerInv, taskVars, dispatchVars

\* The taker pops the first id.
LEMMA FrontInvTake ==
  ASSUME FrontInv, TakeFirst
  PROVE  FrontInv' /\ Head(entryQueue) \in TaskIds
<1>1. Tail(entryQueue) \in Seq(TaskIds) /\ Head(entryQueue) \in TaskIds
  BY HeadTailProperties DEF TakeFirst, FrontInv, FrontTypes, FrontTypeOK
<1> QED
  BY <1>1 DEF TakeFirst, FrontInv, FrontTypes, FrontTypeOK, StopInv, TakerInv, taskVars, dispatchVars

\* The notification for the slot that was freed wakes at most one submitter.
LEMMA FrontInvNotifySpace == ASSUME FrontInv, NotifySpace PROVE FrontInv'
<1>1. /\ blocked' \in 0 .. Submitters /\ woken' \in 0 .. Submitters
      /\ blocked' + woken' = blocked + woken
  BY SubmittersAssumption DEF NotifySpace, FrontInv, FrontTypes, FrontTypeOK
<1>2. /\ blocked' + woken' <= Submitters
      /\ nextTaskId' + blocked' + woken' <= MaxTasks + 1
  BY <1>1, SubmittersAssumption, MaxTasksAssumption
     DEF NotifySpace, FrontInv, FrontTypes, FrontTypeOK
<1>3. UNCHANGED <<entryQueue, accepting, stopRequested, stopNotifying, nextTaskId,
                  takerAsleep, taskVars, dispatchVars, waiter>>
  BY DEF NotifySpace
<1>4. FrontTypeOK'
  BY <1>1, <1>3 DEF FrontInv, FrontTypes, FrontTypeOK, taskVars, dispatchVars
<1> QED
  BY <1>2, <1>3, <1>4 DEF FrontInv, FrontTypes, StopInv, TakerInv

\* markRunning().
LEMMA FrontInvMark ==
  ASSUME FrontInv, NEW t, state' = [state EXCEPT ![t] = "Running"],
         UNCHANGED <<cancelRequested, doomed, entryVars, dispatchVars, waiter>>
  PROVE  FrontInv'
<1>1. state' \in [TaskIds -> TaskStates]
  BY DEF FrontInv, FrontTypes, FrontTypeOK, TaskStates
<1> QED
  BY <1>1 DEF FrontInv, FrontTypes, FrontTypeOK, StopInv, TakerInv, entryVars, dispatchVars

\* A completion is pushed on the completion queue.
LEMMA FrontInvComplete ==
  ASSUME FrontInv, NEW t \in TaskIds, NEW o \in Outcomes, NEW capacity,
         QueueCompletion(t, o, capacity), UNCHANGED <<entryVars, taskVars, waiter>>
  PROVE  FrontInv'
<1>1. [task |-> t, outcome |-> o] \in Completions
  BY DEF Completions
<1>2. completionQueue' \in Seq(Completions)
  BY <1>1, AppendProperties DEF QueueCompletion, FrontInv, FrontTypes, FrontTypeOK
<1> QED
  BY <1>2 DEF QueueCompletion, FrontInv, FrontTypes, FrontTypeOK, StopInv, TakerInv,
     entryVars, taskVars

\* The dispatcher pops a completion or delivers it.
LEMMA FrontInvDeliver == ASSUME FrontInv, Dispatcher PROVE FrontInv'
<1> USE DEF FrontInv, FrontTypes, FrontTypeOK, StopInv, TakerInv, entryVars, taskVars
<1>1. CASE DispatcherPop
  <2>1. Head(completionQueue) \in Completions /\ Tail(completionQueue) \in Seq(Completions)
    BY <1>1, HeadTailProperties DEF DispatcherPop
  <2> QED
    BY <1>1, <2>1 DEF DispatcherPop
<1>2. CASE DispatcherDeliver
  <2>1. delivering \in Completions /\ delivering.outcome \in Outcomes
    BY <1>2 DEF DispatcherDeliver, Completions
  <2>2. delivered' \in Seq(Completions)
    BY <1>2, <2>1, AppendProperties DEF DispatcherDeliver
  <2>3. state' \in [TaskIds -> TaskStates]
    BY <1>2, <2>1 DEF DispatcherDeliver, TaskStates
  <2> QED
    BY <1>2, <2>2, <2>3 DEF DispatcherDeliver
<1> QED
  BY <1>1, <1>2 DEF Dispatcher

\* wait(), from its stop to its return.
LEMMA FrontInvWait ==
  ASSUME FrontInv, NEW exited, WaitBegin \/ WaitCloseInput(exited) \/ WaitReturn
  PROVE  FrontInv'
<1>1. CASE WaitBegin
  BY <1>1, FrontInvClose DEF WaitBegin, FrontInv, FrontTypes, FrontTypeOK, taskVars
<1>2. CASE WaitCloseInput(exited)
  BY <1>2 DEF WaitCloseInput, FrontInv, FrontTypes, FrontTypeOK, StopInv, TakerInv,
     entryVars, taskVars
<1>3. CASE WaitReturn
  BY <1>3 DEF WaitReturn, FrontInv, FrontTypes, FrontTypeOK, StopInv, TakerInv,
     entryVars, taskVars, dispatchVars
<1> QED
  BY <1>1, <1>2, <1>3
-----------------------------------------------------------------------------
(* SpaceInv.  `coming` is 1 while the notification for a slot that was     *)
(* freed is still to come.                                                 *)

\* Submitters come and go while a notification may still be owed.
LEMMA SpaceInvSubmit ==
  ASSUME FrontInv, NEW coming \in 0 .. 1, SpaceInv(coming), FrontSubmit
  PROVE  SpaceInv(coming)'
<1> USE QueueCapacityAssumption DEF FrontInv, FrontTypes, FrontTypeOK, StopInv, SpaceInv
<1>0. Len(entryQueue) \in Nat
  BY LenProperties
<1>1. CASE Enqueue /\ woken' \in {woken, woken - 1}
  <2>1. Len(entryQueue') = Len(entryQueue) + 1
    BY <1>1, AppendProperties DEF Enqueue
  <2> QED
    BY <1>0, <1>1, <2>1 DEF Enqueue
<1>2. CASE SubmitSleep
  BY <1>0, <1>2 DEF SubmitSleep, Full
<1>3. CASE SubmitSleepAgain
  BY <1>0, <1>3 DEF SubmitSleepAgain, Full
<1>4. CASE SubmitRefusedAfterSleep
  BY <1>0, <1>4 DEF SubmitRefusedAfterSleep
<1> QED
  BY <1>1, <1>2, <1>3, <1>4 DEF FrontSubmit, WokenSubmit, SubmitAtOnce, SubmitAfterSleep

\* A slot is freed, and its notification is owed,
LEMMA SpaceInvTake ==
  ASSUME FrontInv, SpaceInv(0), TakeFirst
  PROVE  SpaceInv(1)'
<1>1. Len(Tail(entryQueue)) = Len(entryQueue) - 1 /\ Len(entryQueue) \in Nat
  BY HeadTailProperties, LenProperties DEF TakeFirst, FrontInv, FrontTypes, FrontTypeOK
<1> QED
  BY <1>1, QueueCapacityAssumption DEF TakeFirst, SpaceInv, FrontInv, FrontTypes, FrontTypeOK

\* until it is given.
LEMMA SpaceInvNotifySpace ==
  ASSUME FrontInv, SpaceInv(1), NotifySpace
  PROVE  SpaceInv(0)'
<1>1. Len(entryQueue) \in Nat
  BY LenProperties DEF FrontInv, FrontTypes, FrontTypeOK
<1> QED
  BY <1>1, QueueCapacityAssumption DEF NotifySpace, SpaceInv, FrontInv, FrontTypes, FrontTypeOK

\* SpaceInv and TakerInv are what the executors call NoLostWakeup.
LEMMA SleepersReason ==
  ASSUME NEW coming, TakerInv, SpaceInv(coming)
  PROVE  SleepersHaveAReason(coming)
  BY DEF SleepersHaveAReason, TakerInv, SpaceInv
-----------------------------------------------------------------------------
(* Order at the two ends.                                                  *)

\* Nothing has entered and nothing has left at the start.
LEMMA OrderInit == FrontInit => ExitOrder /\ Answered = 0 /\ EntryOrder(0) /\ Answers = {}
<1> SUFFICES ASSUME FrontInit PROVE ExitOrder /\ Answered = 0 /\ EntryOrder(0) /\ Answers = {}
  OBVIOUS
<1>1. /\ Len(entryQueue) = 0 /\ Len(delivered) = 0 /\ Len(completionQueue) = 0
      /\ delivering = Nothing /\ nextTaskId = 1
  BY DEF FrontInit
<1>2. ToSet(delivered) = {} /\ ToSet(completionQueue) = {}
  BY DEF FrontInit, ToSet
<1> QED
  BY <1>1, <1>2 DEF ExitOrder, Answered, Popped, EntryOrder, Answers, TasksAfter, IdsAfter

\* The counts of the queues are natural numbers.
LEMMA CountTypes ==
  ASSUME FrontTypeOK
  PROVE  /\ Len(delivered) \in Nat /\ Len(completionQueue) \in Nat /\ Len(entryQueue) \in Nat
         /\ Popped \in Nat /\ Answered \in Nat
<1>1. Len(delivered) \in Nat /\ Len(completionQueue) \in Nat /\ Len(entryQueue) \in Nat
  BY LenProperties DEF FrontTypeOK
<1> QED
  BY <1>1 DEF Popped, Answered

\* The next task goes to the end of the entry queue.
LEMMA EntryOrderSubmit ==
  ASSUME FrontInv, NEW k \in Nat, EntryOrder(k), FrontSubmit
  PROVE  EntryOrder(k)'
<1>1. CASE Enqueue
  <2>1. entryQueue \in Seq(Nat) /\ nextTaskId \in Nat
    BY MaxTasksAssumption, SeqMonotonic DEF FrontInv, FrontTypes, FrontTypeOK, TaskIds
  <2>2. IdsAfter(Append(entryQueue, nextTaskId), k)
    BY <2>1, IdsAppend DEF EntryOrder
  <2>3. Len(Append(entryQueue, nextTaskId)) = Len(entryQueue) + 1 /\ Len(entryQueue) \in Nat
    BY <2>1, AppendProperties, LenProperties
  <2> QED
    BY <1>1, <2>1, <2>2, <2>3 DEF Enqueue, EntryOrder
<1>2. CASE UNCHANGED <<entryQueue, nextTaskId>>
  BY <1>2 DEF EntryOrder
<1> QED
  BY <1>1, <1>2 DEF FrontSubmit, WokenSubmit, SubmitAtOnce, SubmitSleep, SubmitAfterSleep,
     SubmitSleepAgain, SubmitRefusedAfterSleep

\* The taker gets the task that follows those taken before.
LEMMA EntryOrderTake ==
  ASSUME FrontInv, NEW k \in Nat, EntryOrder(k), TakeFirst
  PROVE  Head(entryQueue) = k + 1 /\ EntryOrder(k + 1)'
<1>1. entryQueue \in Seq(TaskIds) /\ entryQueue # <<>>
  BY DEF FrontInv, FrontTypes, FrontTypeOK, TakeFirst
<1>2. /\ Head(entryQueue) = k + 1
      /\ IdsAfter(Tail(entryQueue), k + 1)
      /\ Len(Tail(entryQueue)) = Len(entryQueue) - 1
  BY <1>1, IdsTail DEF EntryOrder
<1>3. Len(entryQueue) \in Nat
  BY <1>1, LenProperties
<1> QED
  BY <1>2, <1>3 DEF EntryOrder, TakeFirst

\* The executor queues the completion that is next.
LEMMA ExitOrderComplete ==
  ASSUME FrontInv, ExitOrder, NEW t \in TaskIds, NEW o \in Outcomes, NEW capacity,
         t = Answered + 1, QueueCompletion(t, o, capacity)
  PROVE  /\ ExitOrder' /\ Answered' = Answered + 1
         /\ Answers' = Answers \cup {[task |-> t, outcome |-> o]}
<1> DEFINE c == [task |-> t, outcome |-> o]
<1>1. c \in Completions /\ c.task = t
  BY DEF Completions
<1>2. completionQueue \in Seq(Completions) /\ Popped \in Nat /\ Len(completionQueue) \in Nat
  BY CountTypes DEF FrontInv, FrontTypes, FrontTypeOK
<1>3. /\ completionQueue' = Append(completionQueue, c)
      /\ UNCHANGED <<delivering, delivered>>
  BY DEF QueueCompletion
<1> HIDE DEF c
<1>4. TasksAfter(Append(completionQueue, c), Popped)
  BY <1>1, <1>2, TasksAppend DEF ExitOrder, Answered
<1>5. /\ Len(Append(completionQueue, c)) = Len(completionQueue) + 1
      /\ ToSet(Append(completionQueue, c)) = ToSet(completionQueue) \cup {c}
  BY <1>1, <1>2, AppendProperties, ToSetAppend
<1>6. Popped' = Popped
  BY <1>3 DEF Popped
<1>7. ExitOrder'
  BY <1>3, <1>4, <1>6 DEF ExitOrder
<1>8. Answered' = Answered + 1
  BY <1>2, <1>3, <1>5, <1>6 DEF Answered
<1>9. Answers' = Answers \cup {c}
  BY <1>3, <1>5 DEF Answers
<1> QED
  BY <1>7, <1>8, <1>9 DEF c

\* The dispatcher moves completions on: it neither adds nor loses one.
LEMMA ExitOrderDeliver ==
  ASSUME FrontInv, ExitOrder, Dispatcher
  PROVE  ExitOrder' /\ Answered' = Answered /\ Answers' = Answers
<1>0. /\ completionQueue \in Seq(Completions) /\ delivered \in Seq(Completions)
      /\ Len(delivered) \in Nat /\ Len(completionQueue) \in Nat /\ Popped \in Nat
  BY CountTypes DEF FrontInv, FrontTypes, FrontTypeOK
<1>1. CASE DispatcherPop
  <2>1. /\ Popped = Len(delivered) /\ completionQueue # <<>>
        /\ delivering' = Head(completionQueue) /\ completionQueue' = Tail(completionQueue)
        /\ delivered' = delivered /\ delivering = Nothing
    BY <1>0, <1>1 DEF DispatcherPop, Popped
  <2>2. /\ Head(completionQueue).task = Len(delivered) + 1
        /\ TasksAfter(Tail(completionQueue), Len(delivered) + 1)
        /\ Len(Tail(completionQueue)) = Len(completionQueue) - 1
        /\ ToSet(completionQueue) = ToSet(Tail(completionQueue)) \cup {Head(completionQueue)}
    BY <1>0, <2>1, TasksTail, ToSetTail DEF ExitOrder
  <2>3. delivering' # Nothing
    BY <1>0, <2>1, <2>2 DEF Nothing, NoTask
  <2>4. Popped' = Len(delivered) + 1
    BY <2>1, <2>3 DEF Popped
  <2> QED
    BY <1>0, <2>1, <2>2, <2>3, <2>4 DEF ExitOrder, Answered, Answers
<1>2. CASE DispatcherDeliver
  <2>1. /\ Popped = Len(delivered) + 1 /\ delivering # Nothing
        /\ delivered' = Append(delivered, delivering) /\ delivering' = Nothing
        /\ completionQueue' = completionQueue
    BY <1>2 DEF DispatcherDeliver, Popped
  <2>2. delivering \in Completions /\ delivering.task = 0 + Len(delivered) + 1
    BY <1>0, <2>1 DEF FrontInv, FrontTypes, FrontTypeOK, ExitOrder
  <2>3. /\ TasksAfter(Append(delivered, delivering), 0)
        /\ Len(Append(delivered, delivering)) = Len(delivered) + 1
        /\ ToSet(Append(delivered, delivering)) = ToSet(delivered) \cup {delivering}
    BY <1>0, <2>2, TasksAppend, AppendProperties, ToSetAppend DEF ExitOrder
  <2>4. Popped' = Popped
    BY <1>0, <2>1, <2>3 DEF Popped
  <2> QED
    BY <1>0, <2>1, <2>3, <2>4 DEF ExitOrder, Answered, Answers
<1> QED
  BY <1>1, <1>2 DEF Dispatcher

\* Only tasks that have been answered have an answer.
LEMMA AnswersRange ==
  ASSUME FrontInv, ExitOrder, NEW c \in Answers
  PROVE  c \in Completions /\ c.task <= Answered
<1>0. /\ completionQueue \in Seq(Completions) /\ delivered \in Seq(Completions)
      /\ Len(delivered) \in Nat /\ Len(completionQueue) \in Nat /\ Popped \in Nat
      /\ Popped >= Len(delivered) /\ (delivering # Nothing => Popped = Len(delivered) + 1)
      /\ delivering \in Completions \cup {Nothing}
  BY CountTypes DEF FrontInv, FrontTypes, FrontTypeOK, Popped
<1>1. CASE c \in ToSet(delivered)
  <2>1. PICK i \in 1 .. Len(delivered) : c = delivered[i]
    BY <1>0, <1>1, LenProperties DEF ToSet
  <2> QED
    BY <1>0, <2>1, ElementOfSeq DEF ExitOrder, TasksAfter, Answered
<1>2. CASE c \in ToSet(completionQueue)
  <2>1. PICK i \in 1 .. Len(completionQueue) : c = completionQueue[i]
    BY <1>0, <1>2, LenProperties DEF ToSet
  <2> QED
    BY <1>0, <2>1, ElementOfSeq DEF ExitOrder, TasksAfter, Answered
<1>3. CASE c = delivering /\ delivering # Nothing
  BY <1>0, <1>3 DEF ExitOrder, Answered
<1> QED
  BY <1>1, <1>2, <1>3 DEF Answers
-----------------------------------------------------------------------------
(* What the front's actions leave alone.                                   *)

\* submit() leaves the stop flags, the tasks' requests and the exit alone.
LEMMA SubmitFrame ==
  ASSUME FrontSubmit
  PROVE  /\ UNCHANGED <<accepting, stopRequested, stopNotifying, cancelRequested, doomed,
                        dispatchVars, waiter>>
         /\ UNCHANGED <<entryQueue, nextTaskId>> \/ accepting
  BY DEF FrontSubmit, WokenSubmit, SubmitAtOnce, SubmitSleep, SubmitAfterSleep,
     SubmitSleepAgain, SubmitRefusedAfterSleep, Enqueue, taskVars

\* The dispatcher leaves the entry queue and the requests alone.
LEMMA DeliverFrame ==
  ASSUME Dispatcher
  PROVE  UNCHANGED <<entryVars, cancelRequested, doomed, waiter>>
  BY DEF Dispatcher, DispatcherPop, DispatcherDeliver, taskVars

\* The order at the exit depends on the dispatch variables only.
LEMMA ExitFrame ==
  ASSUME UNCHANGED dispatchVars
  PROVE  /\ Answered' = Answered /\ Answers' = Answers
         /\ ExitOrder => ExitOrder'
  BY DEF dispatchVars, Answered, Popped, Answers, ExitOrder
=============================================================================
