------------------- MODULE ParallelPipelineExecutor_proofs -------------------
(***************************************************************************)
(* Proofs about ParallelPipelineExecutor, for every number of submitters   *)
(* and tasks, every capacity of the queues, both policies and every set of *)
(* tasks that may be cancelled.                                            *)
(***************************************************************************)
EXTENDS ParallelPipelineExecutor, ExecutorFront_proofs

\* A stage holds a task exactly while it is busy with one.
StageTypes ==
    /\ pc \in [Stages -> {"idle", "notify", "call", "called", "push", "exited"}]
    /\ holds \in [Stages -> Completions \cup {Nothing}]
    /\ input \in [Stages \ {"preprocess"} -> Seq(Completions)]
    /\ immediate \in BOOLEAN
    /\ started \in SUBSET TaskIds
    /\ \A s \in Stages : pc[s] \in {"idle", "exited"} <=> holds[s] = Nothing

\* How many tasks each stage has taken, and how many it has passed on.
Held(s) == IF holds[s] = Nothing THEN 0 ELSE 1
PostTaken == Answered + Held("postprocess")
InferDone == PostTaken + Len(input["postprocess"])
InferTaken == InferDone + Held("inference")
PreDone == InferTaken + Len(input["inference"])
PreTaken == PreDone + Held("preprocess")

\* From the last delivery back to the entry queue the tasks stand in line, with
\* no gap between a stage, its input and the stage before.
OrderInv ==
    /\ ExitOrder
    /\ holds["postprocess"] # Nothing => holds["postprocess"].task = Answered + 1
    /\ TasksAfter(input["postprocess"], PostTaken)
    /\ holds["inference"] # Nothing => holds["inference"].task = InferDone + 1
    /\ TasksAfter(input["inference"], InferTaken)
    /\ holds["preprocess"] # Nothing => holds["preprocess"].task = PreDone + 1
    /\ EntryOrder(PreTaken)

\* Whoever was cancelled in time has a request, or an immediate stop, on record.
DoomedInv == \A t \in TaskIds : doomed[t] # "no" => Cancelled(t)

\* The results that are on their way through the stages.
Moving == {holds[s] : s \in Stages} \cup ToSet(input["inference"]) \cup ToSet(input["postprocess"])

\* No result says "Cancelled" without a reason, and past the last look no result
\* ignores a cancellation that came in time.
ReasonInv == \A c \in (Moving \cup Answers) \ {Nothing} : c.outcome = "Cancelled" => Cancelled(c.task)
Decided(c) == doomed[c.task] # "no" => c.outcome = "Cancelled"
DecidedInv ==
    /\ \A c \in Answers : Decided(c)
    /\ pc["postprocess"] = "push" => Decided(holds["postprocess"])

\* The pipeline was given only tasks that preprocess has looked at, and none of
\* them had been cancelled by then.
Started == PreDone + (IF pc["preprocess"] \in {"called", "push"} THEN 1 ELSE 0)
StartInv == \A t \in started : t <= Started /\ doomed[t] # "unstarted"

\* The stages leave one after the other, each with its input drained, and
\* wait() goes on only when all have left.
ExitInv ==
    /\ pc["preprocess"] = "exited" => entryQueue = <<>> /\ stopRequested
    /\ pc["inference"] = "exited" => pc["preprocess"] = "exited" /\ input["inference"] = <<>>
    /\ pc["postprocess"] = "exited" => pc["inference"] = "exited" /\ input["postprocess"] = <<>>
    /\ waiter \in {"joinDispatcher", "returned"} => pc["postprocess"] = "exited"

\* The notification for a slot that preprocess freed is still to come.
Coming == IF pc["preprocess"] = "notify" THEN 1 ELSE 0

IInv ==
    /\ FrontInv /\ StageTypes /\ OrderInv /\ SpaceInv(Coming)
    /\ DoomedInv /\ ReasonInv /\ DecidedInv /\ StartInv /\ ExitInv
-----------------------------------------------------------------------------
(* Types.                                                                  *)

\* A result is never mistaken for the absence of one.
LEMMA ResultIsSomething == \A c \in Completions : c # Nothing /\ c.task \in TaskIds /\ c.task \in Nat
  BY DEF Completions, Nothing, NoTask, TaskIds

\* What the callers, the dispatcher and wait() leave to the stages.
LEMMA StagesFrame ==
  ASSUME NEW t, \/ Submit \/ Cancel(t) \/ GracefulStop \/ ImmediateStop \/ Notify \/ Deliver
                \/ WaitCall \/ WaitJoins \/ UNCHANGED vars
  PROVE  UNCHANGED <<pc, holds, input, started>> /\ (immediate' = immediate \/ immediate' = TRUE)
  BY DEF Submit, Cancel, GracefulStop, ImmediateStop, Notify, Deliver, WaitCall, WaitJoins, vars,
     stageVars

\* A look at the cancellation or a call changes no more than the outcome of the
\* task at hand.
LEMMA StageWorks ==
  ASSUME StageTypes, NEW s \in Stages, StageSkip(s) \/ StageCall(s) \/ StageRecheck(s)
  PROVE  /\ pc[s] \in {"call", "called"} /\ pc' = [pc EXCEPT ![s] = pc'[s]]
         /\ pc[s] = "call" => pc'[s] = "called"
         /\ pc[s] = "called" => pc'[s] = "push"
         /\ holds' = [holds EXCEPT ![s] = holds'[s]]
         /\ holds[s] \in Completions /\ holds'[s] \in Completions
         /\ holds'[s].task = holds[s].task
         /\ holds'[s].outcome = "Cancelled" => holds[s].outcome = "Cancelled" \/ Cancelled(holds[s].task)
         /\ UNCHANGED <<entryVars, dispatchVars, waiter, cancelRequested, doomed, input, immediate>>
         /\ state' = state \/ (s = "preprocess" /\ state' = [state EXCEPT ![holds[s].task] = "Running"])
         /\ started' = started \/ (StageCall(s) /\ s = "preprocess" /\ started' = started \cup {holds[s].task})
<1>1. /\ pc[s] \in {"call", "called"} /\ pc' = [pc EXCEPT ![s] = pc'[s]]
      /\ pc[s] = "call" => pc'[s] = "called"
      /\ pc[s] = "called" => pc'[s] = "push"
  BY DEF StageSkip, StageCall, StageRecheck, Goes, StageTypes
<1>2. holds[s] \in Completions
  BY <1>1 DEF StageTypes
<1>3. /\ UNCHANGED <<entryVars, dispatchVars, waiter, cancelRequested, doomed, input, immediate>>
      /\ state' = state \/ (s = "preprocess" /\ state' = [state EXCEPT ![holds[s].task] = "Running"])
      /\ started' = started \/ (StageCall(s) /\ s = "preprocess" /\ started' = started \cup {holds[s].task})
  BY DEF StageSkip, StageCall, StageRecheck, frontVars, taskVars
<1>4. \E o \in Outcomes : /\ holds' = [holds EXCEPT ![s].outcome = o]
                          /\ o = "Cancelled" => holds[s].outcome = "Cancelled" \/ Cancelled(holds[s].task)
  <2>1. holds[s].outcome \in Outcomes /\ holds = [holds EXCEPT ![s].outcome = holds[s].outcome]
    BY <1>2 DEF Completions, StageTypes
  <2>2. CASE StageSkip(s)
    BY <2>1, <2>2 DEF StageSkip, Outcomes
  <2>3. CASE StageCall(s)
    BY <2>1, <2>3 DEF StageCall, Outcomes
  <2>4. CASE StageRecheck(s)
    BY <2>1, <2>4 DEF StageRecheck, Outcomes
  <2> QED
    BY <2>2, <2>3, <2>4
<1>5. PICK o \in Outcomes : /\ holds' = [holds EXCEPT ![s].outcome = o]
                            /\ o = "Cancelled" => holds[s].outcome = "Cancelled" \/ Cancelled(holds[s].task)
  BY <1>4
<1>6. holds'[s] = [holds[s] EXCEPT !.outcome = o] /\ holds' = [holds EXCEPT ![s] = holds'[s]]
  BY <1>5 DEF StageTypes
<1>7. holds'[s] \in Completions /\ holds'[s].task = holds[s].task /\ holds'[s].outcome = o
  BY <1>2, <1>6 DEF Completions
<1> QED
  BY <1>1, <1>2, <1>3, <1>5, <1>6, <1>7

\* The stages start idle, with empty hands and empty inputs.
LEMMA TypesInit == Init => FrontInv /\ StageTypes
<1> SUFFICES ASSUME Init PROVE FrontInv /\ StageTypes
  OBVIOUS
<1>1. input \in [Stages \ {"preprocess"} -> Seq(Completions)]
  BY DEF Init
<1>2. \A s \in Stages : pc[s] = "idle" /\ holds[s] = Nothing
  BY DEF Init
<1>3. pc \in [Stages -> {"idle", "notify", "call", "called", "push", "exited"}]
  BY DEF Init
<1>4. holds \in [Stages -> Completions \cup {Nothing}]
  BY DEF Init
<1> QED
  BY <1>1, <1>2, <1>3, <1>4, FrontInvInit DEF Init, StageTypes

\* Every action keeps the stages' types.
LEMMA StageTypesStep ==
  ASSUME FrontInv, StageTypes, [Next]_vars
  PROVE  StageTypes'
<1>0. entryQueue \in Seq(TaskIds)
  BY DEF FrontInv, FrontTypes, FrontTypeOK
<1>1. ASSUME NEW t, \/ Submit \/ Cancel(t) \/ GracefulStop \/ ImmediateStop \/ Notify \/ Deliver
                    \/ WaitCall \/ WaitJoins \/ UNCHANGED vars
      PROVE  StageTypes'
  BY <1>1, StagesFrame DEF StageTypes
<1>2. ASSUME NEW s \in Stages, StageSkip(s) \/ StageCall(s) \/ StageRecheck(s)
      PROVE  StageTypes'
  <2>1. started' \in SUBSET TaskIds
    BY <1>2, StageWorks, ResultIsSomething DEF StageTypes
  <2>2. /\ pc[s] \in {"call", "called"} /\ pc' = [pc EXCEPT ![s] = pc'[s]]
        /\ pc'[s] \in {"called", "push"}
        /\ holds' = [holds EXCEPT ![s] = holds'[s]] /\ holds'[s] \in Completions
        /\ UNCHANGED <<input, immediate>>
    BY <1>2, StageWorks
  <2>3. pc' \in [Stages -> {"idle", "notify", "call", "called", "push", "exited"}]
    BY <2>2 DEF StageTypes
  <2>4. holds' \in [Stages -> Completions \cup {Nothing}]
    BY <2>2 DEF StageTypes
  <2>5. \A h \in Stages : pc'[h] \in {"idle", "exited"} <=> holds'[h] = Nothing
    BY <2>2, <2>3, <2>4, ResultIsSomething DEF StageTypes
  <2> QED
    BY <2>1, <2>2, <2>3, <2>4, <2>5 DEF StageTypes
<1>3. ASSUME NEW s \in Stages, StagePop(s)
      PROVE  StageTypes'
  <2>1. input[s] \in Seq(Completions) /\ input[s] # <<>>
    BY <1>3 DEF StagePop, StageTypes
  <2>2. Head(input[s]) \in Completions /\ Tail(input[s]) \in Seq(Completions)
    BY <2>1, HeadTailProperties
  <2> QED
    BY <1>3, <2>2, ResultIsSomething DEF StagePop, Goes, StageTypes
<1>4. ASSUME NEW s \in Stages, StagePush(s)
      PROVE  StageTypes'
  <2>1. holds[s] \in Completions /\ After(s) \in Stages \ {"preprocess"}
    BY <1>4 DEF StagePush, Goes, StageTypes, After, Stages
  <2>2. Append(input[After(s)], holds[s]) \in Seq(Completions)
    BY <2>1, AppendProperties DEF StageTypes
  <2> QED
    BY <1>4, <2>1, <2>2 DEF StagePush, Goes, StageTypes
<1>5. CASE PreprocessTake
  <2>1. [task |-> Head(entryQueue), outcome |-> "Completed"] \in Completions
    BY <1>5, FrontInvTake DEF PreprocessTake, Completions, Outcomes
  <2> QED
    BY <1>5, <2>1, ResultIsSomething DEF PreprocessTake, Goes, StageTypes, Stages
<1>6. CASE PreprocessSleep \/ PreprocessNotifySpace \/ PreprocessExit \/ PostprocessPush
  BY <1>6 DEF PreprocessSleep, PreprocessNotifySpace, PreprocessExit, PostprocessPush, Goes,
     stageVars, StageTypes, Stages
<1>7. ASSUME NEW s \in Stages, StageExit(s)
      PROVE  StageTypes'
  BY <1>7 DEF StageExit, Goes, StageTypes
<1> QED
  BY <1>1, <1>2, <1>3, <1>4, <1>5, <1>6, <1>7 DEF Next, Stage, Stopped

\* Every action keeps the front's invariant.
LEMMA FrontStep ==
  ASSUME FrontInv, StageTypes, [Next]_vars
  PROVE  FrontInv'
<1>0. FrontTypeOK /\ cancelRequested \in SUBSET TaskIds /\ doomed \in [TaskIds -> Dooms]
  BY DEF FrontInv, FrontTypes, FrontTypeOK
<1>1. CASE Submit
  BY <1>1, FrontInvSubmit DEF Submit
<1>2. ASSUME NEW t \in TaskIds, Cancel(t) PROVE FrontInv'
  BY <1>2, FrontInvCancel DEF Cancel
<1>3. CASE GracefulStop
  BY <1>0, <1>3, FrontInvClose DEF GracefulStop, taskVars
<1>4. CASE ImmediateStop
  <2>1. ToSet(entryQueue) \subseteq TaskIds
    BY <1>0, ElementOfSeq, LenProperties DEF ToSet, FrontTypeOK
  <2>2. cancelRequested' \in SUBSET TaskIds /\ doomed' \in [TaskIds -> Dooms]
    BY <1>0, <1>4, <2>1, DoomTypes DEF ImmediateStop
  <2> QED
    BY <1>4, <2>2, FrontInvClose DEF ImmediateStop
<1>5. CASE Notify \/ Deliver
  BY <1>5, FrontInvNotify, FrontInvDeliver DEF Notify, Deliver
<1>6. CASE WaitCall \/ WaitJoins
  BY <1>6, FrontInvWait DEF WaitCall, WaitJoins
<1>7. ASSUME UNCHANGED frontVars PROVE FrontInv'
  BY <1>7 DEF frontVars, entryVars, taskVars, dispatchVars, FrontInv, FrontTypes, FrontTypeOK,
     StopInv, TakerInv
<1>8. ASSUME NEW s \in Stages, StageSkip(s) \/ StageCall(s) \/ StageRecheck(s)
      PROVE  FrontInv'
  BY <1>7, <1>8, StageWorks, FrontInvMark DEF frontVars, taskVars
<1>9. CASE PreprocessSleep \/ PreprocessTake \/ PreprocessNotifySpace
  BY <1>9, FrontInvSleep, FrontInvTake, FrontInvNotifySpace
     DEF PreprocessSleep, PreprocessTake, PreprocessNotifySpace
<1>10. CASE PostprocessPush
  <2>1. holds["postprocess"] \in Completions
    BY <1>10 DEF PostprocessPush, Goes, StageTypes, Stages
  <2>2. holds["postprocess"].task \in TaskIds /\ holds["postprocess"].outcome \in Outcomes
    BY <2>1 DEF Completions
  <2> QED
    BY <1>10, <2>2, FrontInvComplete DEF PostprocessPush
<1>11. ASSUME NEW s \in Stages, StagePop(s) \/ StagePush(s) \/ StageExit(s) \/ PreprocessExit
      PROVE  FrontInv'
  BY <1>7, <1>11 DEF StagePop, StagePush, StageExit, PreprocessExit
<1>12. CASE UNCHANGED vars
  BY <1>7, <1>12 DEF vars
<1> QED
  BY <1>1, <1>2, <1>3, <1>4, <1>5, <1>6, <1>8, <1>9, <1>10, <1>11, <1>12 DEF Next, Stage, Stopped
-----------------------------------------------------------------------------
(* Order.                                                                  *)

\* The queues hold completions, and the counts along the line are numbers.
LEMMA LineTypes ==
  ASSUME FrontInv, StageTypes
  PROVE  /\ \A s \in Stages : Held(s) \in {0, 1}
         /\ {"preprocess", "inference", "postprocess"} = Stages
         /\ input["inference"] \in Seq(Completions) /\ input["postprocess"] \in Seq(Completions)
         /\ Len(input["inference"]) \in Nat /\ Len(input["postprocess"]) \in Nat
         /\ Answered \in Nat /\ PostTaken \in Nat /\ InferDone \in Nat /\ InferTaken \in Nat
         /\ PreDone \in Nat /\ PreTaken \in Nat
<1>1. input["inference"] \in Seq(Completions) /\ input["postprocess"] \in Seq(Completions)
  BY DEF StageTypes, Stages
<1>2. Len(input["inference"]) \in Nat /\ Len(input["postprocess"]) \in Nat /\ Answered \in Nat
  BY <1>1, LenProperties, CountTypes DEF FrontInv, FrontTypes
<1>3. Held("postprocess") \in Nat /\ Held("inference") \in Nat /\ Held("preprocess") \in Nat
  BY DEF Held
<1>4. PostTaken \in Nat /\ InferDone \in Nat
  BY <1>2, <1>3 DEF PostTaken, InferDone
<1>5. InferTaken \in Nat /\ PreDone \in Nat
  BY <1>2, <1>3, <1>4 DEF InferTaken, PreDone
<1>6. PreTaken \in Nat
  BY <1>3, <1>5 DEF PreTaken
<1>7. \A s \in Stages : Held(s) \in {0, 1}
  BY DEF Held
<1> QED
  BY <1>1, <1>2, <1>4, <1>5, <1>6, <1>7 DEF Stages

\* The line from submit() to delivery is empty at the start.
LEMMA OrderInvInit == Init => OrderInv
<1> SUFFICES ASSUME Init PROVE OrderInv
  OBVIOUS
<1>1. /\ ExitOrder /\ Answered = 0 /\ EntryOrder(0)
      /\ \A s \in Stages : holds[s] = Nothing
      /\ input["inference"] = <<>> /\ input["postprocess"] = <<>>
  BY OrderInit DEF Init, Stages
<1>2. /\ Held("preprocess") = 0 /\ Held("inference") = 0 /\ Held("postprocess") = 0
      /\ Len(input["inference"]) = 0 /\ Len(input["postprocess"]) = 0
  BY <1>1 DEF Held, Stages
<1> QED
  BY <1>1, <1>2 DEF OrderInv, TasksAfter, PostTaken, InferDone, InferTaken, PreDone, PreTaken, Stages

\* The counts grow from the exit to the entry.
LEMMA CountsGrow ==
  ASSUME FrontInv, StageTypes, OrderInv
  PROVE  /\ Answered <= PostTaken /\ PostTaken <= PreDone
         /\ Answered <= PreTaken /\ PreTaken <= nextTaskId - 1
<1>0. /\ Held("preprocess") \in {0, 1} /\ Held("inference") \in {0, 1} /\ Held("postprocess") \in {0, 1}
      /\ Len(input["inference"]) \in Nat /\ Len(input["postprocess"]) \in Nat
      /\ Answered \in Nat /\ PostTaken \in Nat /\ InferDone \in Nat /\ InferTaken \in Nat
      /\ PreDone \in Nat /\ PreTaken \in Nat /\ Len(entryQueue) \in Nat
  BY LineTypes, CountTypes DEF FrontInv, FrontTypes
<1>1. Answered <= PostTaken /\ PostTaken <= InferDone
  BY <1>0 DEF PostTaken, InferDone
<1>2. InferDone <= InferTaken /\ InferTaken <= PreDone
  BY <1>0 DEF InferTaken, PreDone
<1>3. PreDone <= PreTaken /\ PreTaken <= nextTaskId - 1
  BY <1>0 DEF PreTaken, OrderInv, EntryOrder
<1>4. nextTaskId - 1 \in Int
  BY MaxTasksAssumption DEF FrontInv, FrontTypes, FrontTypeOK
<1> QED
  BY <1>0, <1>1, <1>2, <1>3, <1>4

\* A stage takes the task that is next in its input.
LEMMA OrderInvPop ==
  ASSUME FrontInv, StageTypes, OrderInv, NEW s \in Stages, StagePop(s)
  PROVE  OrderInv' /\ PreDone' = PreDone
<1>0. /\ \A h \in Stages : Held(h) \in {0, 1}
      /\ s \in {"inference", "postprocess"} /\ input[s] \in Seq(Completions)
      /\ Len(input["inference"]) \in Nat /\ Len(input["postprocess"]) \in Nat
      /\ Answered \in Nat /\ PostTaken \in Nat /\ InferDone \in Nat /\ InferTaken \in Nat
  BY LineTypes DEF StagePop, Stages
<1>1. /\ holds[s] = Nothing /\ input[s] # <<>>
      /\ holds' = [holds EXCEPT ![s] = Head(input[s])]
      /\ input' = [input EXCEPT ![s] = Tail(input[s])]
      /\ UNCHANGED <<entryQueue, nextTaskId, dispatchVars>>
  BY DEF StagePop, Goes, StageTypes, frontVars, entryVars
<1>2. ExitOrder' /\ Answered' = Answered
  BY <1>1, ExitFrame DEF OrderInv
<1>3. Head(input[s]) # Nothing
  BY <1>0, <1>1, HeadTailProperties, ResultIsSomething
<1>4. /\ holds'[s] = Head(input[s]) /\ input'[s] = Tail(input[s])
      /\ \A h \in Stages : h # s => holds'[h] = holds[h]
      /\ \A h \in {"inference", "postprocess"} : h # s => input'[h] = input[h]
  BY <1>0, <1>1 DEF StageTypes, Stages
<1>5. /\ Held(s) = 0 /\ Held(s)' = 1
      /\ \A h \in Stages : h # s => Held(h)' = Held(h)
  BY <1>1, <1>3, <1>4 DEF Held
<1>6. ASSUME NEW n \in Nat, TasksAfter(input[s], n)
      PROVE  /\ holds'[s].task = n + 1 /\ TasksAfter(input'[s], n + 1)
             /\ Len(input'[s]) = Len(input[s]) - 1
  BY <1>0, <1>1, <1>4, <1>6, TasksTail
<1>7. CASE s = "postprocess"
  <2>1. PostTaken = Answered /\ TasksAfter(input[s], Answered)
    BY <1>0, <1>5, <1>7 DEF PostTaken, OrderInv
  <2>2. /\ holds'[s].task = Answered + 1 /\ TasksAfter(input'[s], Answered + 1)
        /\ Len(input'[s]) = Len(input[s]) - 1
    BY <1>0, <1>6, <2>1
  <2>3. /\ holds'["inference"] = holds["inference"] /\ holds'["preprocess"] = holds["preprocess"]
        /\ Held("inference")' = Held("inference") /\ Held("preprocess")' = Held("preprocess")
        /\ input'["inference"] = input["inference"]
    BY <1>4, <1>5, <1>7 DEF Stages
  <2>4. PostTaken' = Answered + 1 /\ InferDone' = InferDone
    BY <1>0, <1>2, <1>5, <1>7, <2>1, <2>2 DEF PostTaken, InferDone
  <2>5. InferTaken' = InferTaken /\ PreDone' = PreDone /\ PreTaken' = PreTaken
    BY <2>3, <2>4 DEF InferTaken, PreDone, PreTaken
  <2> QED
    BY <1>1, <1>2, <1>7, <2>2, <2>3, <2>4, <2>5 DEF OrderInv, EntryOrder
<1>8. CASE s = "inference"
  <2>1. InferTaken = InferDone /\ TasksAfter(input[s], InferDone)
    BY <1>0, <1>5, <1>8 DEF InferTaken, OrderInv
  <2>2. /\ holds'[s].task = InferDone + 1 /\ TasksAfter(input'[s], InferDone + 1)
        /\ Len(input'[s]) = Len(input[s]) - 1
    BY <1>0, <1>6, <2>1
  <2>3. /\ holds'["postprocess"] = holds["postprocess"] /\ holds'["preprocess"] = holds["preprocess"]
        /\ Held("postprocess")' = Held("postprocess") /\ Held("preprocess")' = Held("preprocess")
        /\ input'["postprocess"] = input["postprocess"]
    BY <1>4, <1>5, <1>8 DEF Stages
  <2>4. PostTaken' = PostTaken /\ InferDone' = InferDone
    BY <1>2, <2>3 DEF PostTaken, InferDone
  <2>5. InferTaken' = InferDone + 1
    BY <1>0, <1>5, <1>8, <2>4 DEF InferTaken
  <2>6. PreDone' = PreDone
    <3>1. Len(input'["inference"]) = Len(input["inference"]) - 1
      BY <1>8, <2>2
    <3>2. \A l \in Nat : InferTaken' + (l - 1) = InferTaken + l
      BY <1>0, <2>1, <2>5
    <3> QED
      BY <1>0, <3>1, <3>2 DEF PreDone
  <2>7. PreTaken' = PreTaken
    BY <2>3, <2>6 DEF PreTaken
  <2> QED
    BY <1>1, <1>2, <1>8, <2>2, <2>3, <2>4, <2>5, <2>6, <2>7 DEF OrderInv, EntryOrder
<1> QED
  BY <1>0, <1>7, <1>8

\* A stage passes its task on, to the end of the next stage's input.
LEMMA OrderInvPush ==
  ASSUME FrontInv, StageTypes, OrderInv, NEW s \in Stages, StagePush(s)
  PROVE  OrderInv' /\ PreDone' = IF s = "preprocess" THEN PreDone + 1 ELSE PreDone
<1>0. /\ s \in {"preprocess", "inference"}
      /\ Len(input["inference"]) \in Nat /\ Len(input["postprocess"]) \in Nat
      /\ Answered \in Nat /\ PostTaken \in Nat /\ InferDone \in Nat /\ InferTaken \in Nat
      /\ PreDone \in Nat
  BY LineTypes DEF StagePush, Stages
<1>1. /\ holds[s] \in Completions /\ holds[s] # Nothing
      /\ holds' = [holds EXCEPT ![s] = Nothing]
      /\ input' = [input EXCEPT ![After(s)] = Append(input[After(s)], holds[s])]
      /\ UNCHANGED <<entryQueue, nextTaskId, dispatchVars>>
      /\ input[After(s)] \in Seq(Completions)
  BY <1>0, ResultIsSomething DEF StagePush, Goes, StageTypes, frontVars, entryVars, After, Stages
<1>2. ExitOrder' /\ Answered' = Answered
  BY <1>1, ExitFrame DEF OrderInv
<1>3. /\ Held(s) = 1 /\ Held(s)' = 0 /\ holds'[s] = Nothing
      /\ \A h \in Stages : h # s => holds'[h] = holds[h] /\ Held(h)' = Held(h)
  BY <1>1 DEF Held, StageTypes
<1>4. /\ input'[After(s)] = Append(input[After(s)], holds[s])
      /\ Len(input'[After(s)]) = Len(input[After(s)]) + 1
      /\ \A h \in {"inference", "postprocess"} : h # After(s) => input'[h] = input[h]
  BY <1>0, <1>1, AppendProperties DEF StageTypes, Stages, After
<1>5. ASSUME NEW n \in Nat, TasksAfter(input[After(s)], n),
             holds[s].task = n + Len(input[After(s)]) + 1
      PROVE  TasksAfter(input'[After(s)], n)
  BY <1>1, <1>4, <1>5, TasksAppend
<1>6. CASE s = "inference"
  <2>1. After(s) = "postprocess"
    BY <1>6 DEF After
  <2>2. TasksAfter(input'["postprocess"], PostTaken)
    BY <1>0, <1>1, <1>5, <1>6, <2>1 DEF OrderInv, InferDone
  <2>3. /\ UNCHANGED <<holds["postprocess"], holds["preprocess"], input["inference"]>>
        /\ Held("postprocess")' = Held("postprocess") /\ Held("preprocess")' = Held("preprocess")
    BY <1>3, <1>4, <1>6, <2>1 DEF Stages
  <2>4. PostTaken' = PostTaken
    BY <1>2, <2>3 DEF PostTaken
  <2>5. InferDone' = InferDone + 1
    BY <1>0, <1>4, <2>1, <2>4 DEF InferDone
  <2>6. InferTaken' = InferTaken
    BY <1>0, <1>3, <1>6, <2>5 DEF InferTaken
  <2>7. PreDone' = PreDone /\ PreTaken' = PreTaken
    BY <2>3, <2>6 DEF PreDone, PreTaken
  <2> QED
    BY <1>1, <1>2, <1>3, <1>6, <2>2, <2>3, <2>4, <2>5, <2>6, <2>7 DEF OrderInv, EntryOrder
<1>7. CASE s = "preprocess"
  <2>1. After(s) = "inference"
    BY <1>7 DEF After
  <2>2. TasksAfter(input'["inference"], InferTaken)
    BY <1>0, <1>1, <1>5, <1>7, <2>1 DEF OrderInv, PreDone
  <2>3. /\ UNCHANGED <<holds["postprocess"], holds["inference"], input["postprocess"]>>
        /\ Held("postprocess")' = Held("postprocess") /\ Held("inference")' = Held("inference")
    BY <1>3, <1>4, <1>7, <2>1 DEF Stages
  <2>4. PostTaken' = PostTaken
    BY <1>2, <2>3 DEF PostTaken
  <2>5. InferDone' = InferDone
    BY <2>3, <2>4 DEF InferDone
  <2>6. InferTaken' = InferTaken
    BY <2>3, <2>5 DEF InferTaken
  <2>7. PreDone' = PreDone + 1
    BY <1>0, <1>4, <2>1, <2>6 DEF PreDone
  <2>8. PreTaken' = PreTaken
    BY <1>0, <1>3, <1>7, <2>7 DEF PreTaken
  <2> QED
    BY <1>1, <1>2, <1>3, <1>7, <2>2, <2>3, <2>4, <2>5, <2>6, <2>7, <2>8 DEF OrderInv, EntryOrder
<1> QED
  BY <1>0, <1>6, <1>7

\* Preprocess takes the oldest task of the entry queue.
LEMMA OrderInvTake ==
  ASSUME FrontInv, StageTypes, OrderInv, PreprocessTake
  PROVE  OrderInv' /\ PreDone' = PreDone
<1>0. PreDone \in Nat
  BY LineTypes
<1>1. /\ holds["preprocess"] = Nothing /\ TakeFirst
      /\ holds' = [holds EXCEPT !["preprocess"] = [task |-> Head(entryQueue), outcome |-> "Completed"]]
      /\ UNCHANGED <<input, dispatchVars>>
  BY DEF PreprocessTake, TakeFirst, Goes, StageTypes, Stages
<1>2. ExitOrder' /\ Answered' = Answered
  BY <1>1, ExitFrame DEF OrderInv
<1>3. Held("preprocess") = 0 /\ PreTaken = PreDone
  BY <1>0, <1>1 DEF Held, PreTaken
<1>4. Head(entryQueue) = PreDone + 1
  BY <1>0, <1>1, <1>3, EntryOrderTake DEF OrderInv, EntryOrder
<1>5. /\ holds'["preprocess"].task = PreDone + 1 /\ holds'["preprocess"] # Nothing
      /\ UNCHANGED <<holds["postprocess"], holds["inference"]>>
  BY <1>0, <1>1, <1>4 DEF StageTypes, Stages, Nothing, NoTask
<1>6. /\ Held("preprocess")' = 1 /\ Held("inference")' = Held("inference")
      /\ Held("postprocess")' = Held("postprocess")
  BY <1>5 DEF Held
<1>7. PostTaken' = PostTaken /\ InferDone' = InferDone /\ InferTaken' = InferTaken /\ PreDone' = PreDone
  BY <1>1, <1>2, <1>6 DEF PostTaken, InferDone, InferTaken, PreDone
<1>8. PreTaken' = PreDone + 1
  BY <1>6, <1>7 DEF PreTaken
<1>9. EntryOrder(PreTaken)'
  BY <1>0, <1>1, <1>3, <1>8, EntryOrderTake DEF OrderInv, EntryOrder
<1> QED
  BY <1>1, <1>2, <1>5, <1>7, <1>9 DEF OrderInv

\* Postprocess queues the completion that is next.
LEMMA OrderInvComplete ==
  ASSUME FrontInv, StageTypes, OrderInv, PostprocessPush
  PROVE  /\ OrderInv'
         /\ holds["postprocess"] \in Completions
         /\ Answers' = Answers \cup {holds["postprocess"]}
         /\ Answered' = Answered + 1 /\ PreDone' = PreDone
<1> DEFINE c == holds["postprocess"]
<1>0. Answered \in Nat
  BY LineTypes
<1>1. /\ c \in Completions /\ c # Nothing
      /\ holds' = [holds EXCEPT !["postprocess"] = Nothing]
      /\ UNCHANGED <<input, entryVars>>
      /\ QueueCompletion(c.task, c.outcome, StageQueueCapacity)
  BY ResultIsSomething DEF PostprocessPush, Goes, StageTypes, Stages
<1>2. c.task \in TaskIds /\ c.outcome \in Outcomes /\ c = [task |-> c.task, outcome |-> c.outcome]
  BY <1>1 DEF Completions
<1>3. c.task = Answered + 1
  BY <1>1 DEF OrderInv
<1>4. ExitOrder' /\ Answered' = Answered + 1 /\ Answers' = Answers \cup {c}
  BY <1>1, <1>2, <1>3, ExitOrderComplete DEF OrderInv
<1>5. /\ holds'["postprocess"] = Nothing
      /\ UNCHANGED <<holds["preprocess"], holds["inference"]>>
  BY <1>1 DEF StageTypes, Stages
<1>6. /\ Held("postprocess") = 1 /\ Held("postprocess")' = 0
      /\ Held("inference")' = Held("inference") /\ Held("preprocess")' = Held("preprocess")
  BY <1>1, <1>5 DEF Held
<1>7. PostTaken' = PostTaken
  BY <1>0, <1>4, <1>6 DEF PostTaken
<1>8. InferDone' = InferDone /\ InferTaken' = InferTaken /\ PreDone' = PreDone /\ PreTaken' = PreTaken
  BY <1>1, <1>6, <1>7 DEF InferDone, InferTaken, PreDone, PreTaken
<1>9. OrderInv'
  BY <1>1, <1>4, <1>5, <1>7, <1>8 DEF OrderInv, EntryOrder, entryVars
<1> QED
  BY <1>1, <1>4, <1>8, <1>9

\* A stage at work keeps its place in the line.
LEMMA OrderInvWork ==
  ASSUME FrontInv, StageTypes, OrderInv, NEW s \in Stages,
         StageSkip(s) \/ StageCall(s) \/ StageRecheck(s)
  PROVE  OrderInv' /\ Answers' = Answers /\ Answered' = Answered /\ PreDone' = PreDone
<1>1. /\ holds' = [holds EXCEPT ![s] = holds'[s]]
      /\ holds[s] \in Completions /\ holds'[s] \in Completions
      /\ holds'[s].task = holds[s].task
      /\ UNCHANGED <<entryVars, dispatchVars, input>>
  BY StageWorks
<1>2. ExitOrder' /\ Answered' = Answered /\ Answers' = Answers
  BY <1>1, ExitFrame DEF OrderInv
<1>3. \A h \in Stages : /\ holds'[h] = Nothing <=> holds[h] = Nothing
                        /\ holds'[h].task = holds[h].task
  BY <1>1, ResultIsSomething DEF StageTypes
<1>4. /\ Held("postprocess")' = Held("postprocess") /\ Held("inference")' = Held("inference")
      /\ Held("preprocess")' = Held("preprocess")
  BY <1>3 DEF Held, Stages
<1>5. PostTaken' = PostTaken
  BY <1>2, <1>4 DEF PostTaken
<1>6. InferDone' = InferDone /\ InferTaken' = InferTaken /\ PreDone' = PreDone /\ PreTaken' = PreTaken
  BY <1>1, <1>4, <1>5 DEF InferDone, InferTaken, PreDone, PreTaken
<1>7. OrderInv'
  BY <1>1, <1>2, <1>3, <1>5, <1>6 DEF OrderInv, EntryOrder, entryVars, Stages
<1> QED
  BY <1>2, <1>6, <1>7

\* Everything else happens outside the stages.
LEMMA OrderInvOutside ==
  ASSUME FrontInv, StageTypes, OrderInv, UNCHANGED <<holds, input>>,
         ExitOrder', Answered' = Answered, FrontSubmit \/ UNCHANGED <<entryQueue, nextTaskId>>
  PROVE  OrderInv' /\ PreDone' = PreDone
<1>1. UNCHANGED <<Held("postprocess"), Held("inference"), Held("preprocess")>>
  BY DEF Held
<1>2. PostTaken' = PostTaken
  BY <1>1 DEF PostTaken
<1>3. InferDone' = InferDone /\ InferTaken' = InferTaken /\ PreDone' = PreDone /\ PreTaken' = PreTaken
  BY <1>1, <1>2 DEF InferDone, InferTaken, PreDone, PreTaken
<1>4. EntryOrder(PreTaken)'
  <2>1. PreTaken \in Nat
    BY LineTypes
  <2>2. CASE FrontSubmit
    BY <1>3, <2>1, <2>2, EntryOrderSubmit DEF OrderInv, EntryOrder
  <2>3. CASE UNCHANGED <<entryQueue, nextTaskId>>
    BY <1>3, <2>3 DEF OrderInv, EntryOrder
  <2> QED
    BY <2>2, <2>3
<1>5. OrderInv'
  BY <1>2, <1>3, <1>4 DEF OrderInv
<1> QED
  BY <1>3, <1>5

OutsideStep ==
    \/ Submit \/ (\E t \in TaskIds : Cancel(t)) \/ GracefulStop \/ ImmediateStop \/ Notify
    \/ Deliver \/ WaitCall \/ WaitJoins \/ UNCHANGED vars
    \/ PreprocessSleep \/ PreprocessNotifySpace \/ PreprocessExit
    \/ (\E s \in Stages : StageExit(s))

\* The steps of OrderInvOutside, and that they add no answer.
LEMMA Outside ==
  ASSUME FrontInv, OrderInv, OutsideStep
  PROVE  /\ UNCHANGED <<holds, input, started>> /\ ExitOrder' /\ Answered' = Answered
         /\ Answers' = Answers
         /\ FrontSubmit \/ UNCHANGED <<entryQueue, nextTaskId>>
<1>1. UNCHANGED <<holds, input, started>>
  BY DEF OutsideStep, Submit, Cancel, GracefulStop, ImmediateStop, Notify, Deliver, WaitCall,
     WaitJoins, vars, stageVars, PreprocessSleep, PreprocessNotifySpace, PreprocessExit, StageExit
<1>2. CASE Deliver
  BY <1>1, <1>2, ExitOrderDeliver, DeliverFrame DEF Deliver, OrderInv, entryVars
<1>3. CASE WaitJoins
  BY <1>1, <1>3 DEF WaitJoins, WaitCloseInput, WaitReturn, OrderInv, ExitOrder, Answered, Popped,
     Answers, entryVars, dispatchVars
<1>4. CASE Submit
  BY <1>1, <1>4, SubmitFrame, ExitFrame DEF Submit, OrderInv
<1>5. ASSUME UNCHANGED <<entryQueue, nextTaskId, dispatchVars>>
      PROVE  ExitOrder' /\ Answered' = Answered /\ Answers' = Answers
  BY <1>5, ExitFrame DEF OrderInv
<1>6. CASE \/ (\E t \in TaskIds : Cancel(t)) \/ GracefulStop \/ ImmediateStop \/ Notify
           \/ WaitCall \/ UNCHANGED vars \/ PreprocessSleep \/ PreprocessNotifySpace
           \/ PreprocessExit \/ (\E s \in Stages : StageExit(s))
  <2>1. UNCHANGED <<entryQueue, nextTaskId, dispatchVars>>
    BY <1>6 DEF Cancel, CancelTask, GracefulStop, ImmediateStop, CloseEntry, Notify, StopNotify,
       WaitCall, WaitBegin, vars, frontVars, entryVars, PreprocessSleep, TakerSleep,
       PreprocessNotifySpace, NotifySpace, PreprocessExit, StageExit
  <2> QED
    BY <1>1, <1>5, <2>1
<1> QED
  BY <1>2, <1>3, <1>4, <1>6 DEF OutsideStep

\* Every action keeps the tasks in one line through the three stages.
LEMMA OrderInvStep ==
  ASSUME FrontInv, StageTypes, OrderInv, [Next]_vars
  PROVE  OrderInv'
  BY OrderInvPop, OrderInvPush, OrderInvTake, OrderInvComplete, OrderInvWork, OrderInvOutside,
     Outside DEF Next, Stage, Stopped, OutsideStep
-----------------------------------------------------------------------------
(* Wake-ups.                                                               *)

\* No step leaves a producer asleep without somebody who will wake it.
LEMMA SpaceInvStep ==
  ASSUME FrontInv, StageTypes, SpaceInv(Coming), [Next]_vars
  PROVE  SpaceInv(Coming)'
<1> USE DEF Coming
<1>1. ASSUME UNCHANGED entryVars, pc["preprocess"] = "notify" => pc'["preprocess"] = "notify"
      PROVE  SpaceInv(Coming)'
  <2>1. Len(entryQueue) \in Nat /\ woken \in Nat
    BY CountTypes DEF FrontInv, FrontTypes, FrontTypeOK
  <2> QED
    BY <1>1, <2>1, QueueCapacityAssumption DEF SpaceInv, entryVars
<1>2. CASE Submit
  BY <1>2, SpaceInvSubmit DEF Submit, stageVars, SpaceInv
<1>3. CASE GracefulStop \/ ImmediateStop \/ WaitCall \/ Notify
  BY <1>3 DEF GracefulStop, ImmediateStop, CloseEntry, WaitCall, WaitBegin, Notify, StopNotify,
     SpaceInv, stageVars
<1>4. CASE PreprocessTake
  <2>1. pc["preprocess"] = "idle" /\ pc'["preprocess"] = "notify" /\ TakeFirst
    BY <1>4 DEF PreprocessTake, Goes, StageTypes, Stages
  <2> QED
    BY <2>1, SpaceInvTake DEF SpaceInv
<1>5. CASE PreprocessNotifySpace
  <2>1. pc["preprocess"] = "notify" /\ pc'["preprocess"] = "call" /\ NotifySpace
    BY <1>5 DEF PreprocessNotifySpace, Goes, StageTypes, Stages
  <2> QED
    BY <2>1, SpaceInvNotifySpace DEF SpaceInv
<1>6. CASE PreprocessSleep
  BY <1>6 DEF PreprocessSleep, TakerSleep, stageVars, SpaceInv
<1>7. ASSUME NEW t, Cancel(t) \/ Deliver \/ WaitJoins \/ UNCHANGED vars
      PROVE  SpaceInv(Coming)'
  BY <1>1, <1>7, DeliverFrame DEF Cancel, CancelTask, Deliver, WaitJoins, WaitCloseInput, WaitReturn,
     vars, frontVars, stageVars
<1>8. ASSUME NEW s \in Stages, StageSkip(s) \/ StageCall(s) \/ StageRecheck(s)
      PROVE  SpaceInv(Coming)'
  <2>1. /\ UNCHANGED entryVars /\ pc[s] \in {"call", "called"}
        /\ pc' = [pc EXCEPT ![s] = pc'[s]] /\ pc'[s] # "notify"
    BY <1>8, StageWorks
  <2> QED
    BY <1>1, <2>1 DEF StageTypes, Stages
<1>9. ASSUME NEW s \in Stages,
             StagePop(s) \/ StagePush(s) \/ StageExit(s) \/ PreprocessExit \/ PostprocessPush
      PROVE  SpaceInv(Coming)'
  <2>1. UNCHANGED entryVars /\ \E h \in Stages : \E p \in {"call", "idle", "exited"} :
             /\ pc' = [pc EXCEPT ![h] = p] /\ pc[h] # "notify"
    BY <1>9 DEF StagePop, StagePush, StageExit, PreprocessExit, PostprocessPush, Goes, frontVars, Stages
  <2>2. pc["preprocess"] = "notify" => pc'["preprocess"] = "notify"
    BY <2>1 DEF StageTypes, Stages
  <2> QED
    BY <1>1, <2>1, <2>2
<1> QED
  BY <1>2, <1>3, <1>4, <1>5, <1>6, <1>7, <1>8, <1>9 DEF Next, Stage, Stopped
-----------------------------------------------------------------------------
(* Cancellation.                                                           *)

\* What the stages do to the record of cancellations: nothing.
LEMMA StageKeepsRecord ==
  ASSUME StageTypes, NEW s \in Stages, Stage(s)
  PROVE  UNCHANGED <<cancelRequested, doomed, immediate, accepting, stopRequested, nextTaskId, waiter>>
<1>1. CASE StageSkip(s) \/ StageCall(s) \/ StageRecheck(s)
  BY <1>1, StageWorks DEF entryVars
<1>2. CASE \/ StagePop(s) \/ StagePush(s) \/ StageExit(s) \/ PreprocessSleep \/ PreprocessTake
           \/ PreprocessNotifySpace \/ PreprocessExit \/ PostprocessPush
  BY <1>2 DEF StagePop, StagePush, StageExit, PreprocessSleep, TakerSleep, PreprocessTake, TakeFirst,
     PreprocessNotifySpace, NotifySpace, PreprocessExit, PostprocessPush, frontVars, stageVars,
     entryVars, taskVars
<1> QED
  BY <1>1, <1>2 DEF Stage

\* A cancellation is never taken back.
LEMMA CancelledStays ==
  ASSUME StageTypes, [Next]_vars, NEW t, Cancelled(t)
  PROVE  Cancelled(t)'
<1>1. CASE UNCHANGED <<cancelRequested, immediate>>
  BY <1>1 DEF Cancelled
<1>2. ASSUME NEW u, Cancel(u) \/ ImmediateStop
      PROVE  Cancelled(t)'
  BY <1>2 DEF Cancel, CancelTask, ImmediateStop, Cancelled, stageVars
<1>3. CASE Submit \/ Deliver
  BY <1>1, <1>3, SubmitFrame, DeliverFrame DEF Submit, Deliver, stageVars
<1>4. CASE GracefulStop \/ Notify \/ WaitCall \/ WaitJoins \/ UNCHANGED vars
  BY <1>1, <1>4 DEF GracefulStop, Notify, StopNotify, WaitCall, WaitBegin, WaitJoins,
     WaitCloseInput, WaitReturn, vars, frontVars, taskVars, stageVars
<1> QED
  BY <1>1, <1>2, <1>3, <1>4, StageKeepsRecord DEF Next, Stopped

\* Only a request or an immediate stop marks a task as cancelled.
LEMMA DoomedInvStep ==
  ASSUME FrontInv, StageTypes, DoomedInv, [Next]_vars
  PROVE  DoomedInv'
<1>0. FrontTypeOK
  BY DEF FrontInv, FrontTypes
<1>1. CASE UNCHANGED doomed
  BY <1>1, CancelledStays DEF DoomedInv
<1>2. ASSUME NEW t \in TaskIds, Cancel(t) PROVE DoomedInv'
  <2>1. \A u \in TaskIds : Cancelled(u) \/ u = t => Cancelled(u)'
    BY <1>2, CancelledStays DEF Cancel, CancelTask, Cancelled, stageVars
  <2> QED
    BY <1>0, <1>2, <2>1, DoomTypes DEF DoomedInv, Cancel, CancelTask
<1>3. CASE ImmediateStop
  BY <1>3 DEF ImmediateStop, DoomedInv, Cancelled
<1>4. CASE Submit \/ Deliver
  BY <1>1, <1>4, SubmitFrame, DeliverFrame DEF Submit, Deliver
<1>5. CASE GracefulStop \/ Notify \/ WaitCall \/ WaitJoins \/ UNCHANGED vars
  BY <1>1, <1>5 DEF GracefulStop, Notify, StopNotify, WaitCall, WaitBegin, WaitJoins,
     WaitCloseInput, WaitReturn, vars, frontVars, taskVars
<1> QED
  BY <1>1, <1>2, <1>3, <1>4, <1>5, StageKeepsRecord DEF Next, Stopped

\* A result that says Cancelled was asked for.
LEMMA ReasonInvStep ==
  ASSUME FrontInv, StageTypes, OrderInv, ReasonInv, [Next]_vars
  PROVE  ReasonInv'
\* It is enough that every new result has a reason to say what it says.
<1>1. ASSUME NEW c, c.outcome = "Cancelled" => Cancelled(c.task),
             (Moving \cup Answers)' \subseteq Moving \cup Answers \cup {Nothing, c}
      PROVE  ReasonInv'
  BY <1>1, CancelledStays DEF ReasonInv
<1>2. CASE (Moving \cup Answers)' \subseteq Moving \cup Answers \cup {Nothing}
  BY <1>2, CancelledStays DEF ReasonInv
<1>3. CASE OutsideStep
  <2>1. UNCHANGED <<holds, input>> /\ Answers' = Answers
    BY <1>3, Outside
  <2>2. Moving' = Moving
    BY <2>1 DEF Moving
  <2> QED
    BY <1>2, <2>1, <2>2
<1>4. ASSUME NEW s \in Stages, StageSkip(s) \/ StageCall(s) \/ StageRecheck(s)
      PROVE  ReasonInv'
  <2>1. /\ holds' = [holds EXCEPT ![s] = holds'[s]] /\ UNCHANGED <<input, immediate, cancelRequested>>
        /\ holds[s] \in Completions /\ holds'[s] \in Completions /\ holds'[s].task = holds[s].task
        /\ holds'[s].outcome = "Cancelled" => holds[s].outcome = "Cancelled" \/ Cancelled(holds[s].task)
        /\ Answers' = Answers
    BY <1>4, StageWorks, OrderInvWork
  <2>2. holds[s].outcome = "Cancelled" => Cancelled(holds[s].task)
    BY <2>1, ResultIsSomething DEF ReasonInv, Moving
  <2>3. Moving' \subseteq Moving \cup {holds'[s]}
    BY <2>1 DEF Moving, StageTypes
  <2>4. PICK c : c = holds'[s]
    OBVIOUS
  <2>5. c.outcome = "Cancelled" => Cancelled(c.task)
    BY <2>1, <2>2, <2>4
  <2> QED
    BY <1>1, <2>1, <2>3, <2>4, <2>5
<1>5. ASSUME NEW s \in Stages, StagePop(s)
      PROVE  ReasonInv'
  <2>1. /\ s \in {"inference", "postprocess"}
        /\ holds' = [holds EXCEPT ![s] = Head(input[s])]
        /\ input' = [input EXCEPT ![s] = Tail(input[s])]
        /\ UNCHANGED dispatchVars
        /\ input[s] \in Seq(Completions) /\ input[s] # <<>>
    BY <1>5, LineTypes DEF StagePop, frontVars, Stages
  <2>2. ToSet(input[s]) = ToSet(Tail(input[s])) \cup {Head(input[s])}
    BY <2>1, ToSetTail
  <2>3. Moving' \subseteq Moving
    BY <2>1, <2>2 DEF Moving, StageTypes, Stages
  <2> QED
    BY <1>2, <2>1, <2>3, ExitFrame
<1>6. ASSUME NEW s \in Stages, StagePush(s)
      PROVE  ReasonInv'
  <2>1. /\ s \in {"preprocess", "inference"} /\ After(s) \in {"inference", "postprocess"}
        /\ holds' = [holds EXCEPT ![s] = Nothing]
        /\ input' = [input EXCEPT ![After(s)] = Append(input[After(s)], holds[s])]
        /\ UNCHANGED dispatchVars
        /\ holds[s] \in Completions /\ input[After(s)] \in Seq(Completions)
    BY <1>6, LineTypes DEF StagePush, Goes, StageTypes, After, frontVars, Stages
  <2>2. ToSet(Append(input[After(s)], holds[s])) = ToSet(input[After(s)]) \cup {holds[s]}
    BY <2>1, ToSetAppend
  <2>3. Moving' \subseteq Moving \cup {Nothing}
    BY <2>1, <2>2 DEF Moving, StageTypes, Stages
  <2> QED
    BY <1>2, <2>1, <2>3, ExitFrame
<1>7. CASE PreprocessTake
  <2> DEFINE c == [task |-> Head(entryQueue), outcome |-> "Completed"]
  <2>1. /\ holds' = [holds EXCEPT !["preprocess"] = c] /\ UNCHANGED <<input, dispatchVars>>
        /\ c.outcome # "Cancelled"
    BY <1>7 DEF PreprocessTake, TakeFirst
  <2>2. Moving' \subseteq Moving \cup {c}
    BY <2>1 DEF Moving, StageTypes
  <2> HIDE DEF c
  <2> QED
    BY <1>1, <2>1, <2>2, ExitFrame
<1>8. CASE PostprocessPush
  <2>1. Answers' = Answers \cup {holds["postprocess"]}
    BY <1>8, OrderInvComplete
  <2>2. Moving' \subseteq Moving \cup {Nothing} /\ holds["postprocess"] \in Moving
    BY <1>8 DEF PostprocessPush, Moving, StageTypes, Stages
  <2> QED
    BY <1>2, <2>1, <2>2
<1> QED
  BY <1>3, <1>4, <1>5, <1>6, <1>7, <1>8 DEF Next, Stage, Stopped, OutsideStep

\* Where a task is says what a cancellation may still decide about it.
LEMMA UndecidedRange ==
  ASSUME FrontInv, StageTypes, OrderInv
  PROVE  /\ \A t \in Unstarted : t > Started /\ t > Answered
         /\ \A c \in Answers : c.task \in TaskIds /\ c.task \notin Unstarted \cup Undecided
         /\ pc["postprocess"] = "push" =>
              /\ holds["postprocess"].task \in TaskIds
              /\ holds["postprocess"].task \notin Unstarted \cup Undecided
<1>0. /\ entryQueue \in Seq(TaskIds) /\ Held("preprocess") \in {0, 1}
      /\ Answered \in Nat /\ PostTaken \in Nat /\ PreDone \in Nat /\ PreTaken \in Nat
  BY LineTypes DEF FrontInv, FrontTypes, FrontTypeOK, Stages
<1>1. Answered <= PostTaken /\ PostTaken <= PreDone
  BY CountsGrow
<1>3. \A t \in ToSet(entryQueue) : t > PreTaken
  BY <1>0, IdsMembers DEF OrderInv, EntryOrder
<1>4. \A t \in Unstarted : t > Started /\ t > PreDone
  <2>1. PreTaken = PreDone + Held("preprocess") /\ PreTaken >= Started /\ PreTaken >= PreDone
    BY <1>0 DEF PreTaken, Started, Held, StageTypes, Stages
  <2>2. pc["preprocess"] \in {"notify", "call"} =>
          Started = PreDone /\ holds["preprocess"].task = PreDone + 1
    BY <1>0 DEF Started, OrderInv, StageTypes, Stages
  <2>3. ToSet(entryQueue) \subseteq TaskIds /\ Started \in Nat
    BY <1>0, ElementOfSeq, LenProperties DEF ToSet, Started
  <2>4. \A t \in ToSet(entryQueue) : t > Started /\ t > PreDone
    BY <1>0, <1>3, <2>1, <2>3 DEF TaskIds
  <2> QED
    BY <1>0, <2>2, <2>4 DEF Unstarted
<1>5. \A t \in Unstarted : t \in Nat /\ t > Answered /\ t > PostTaken
  <2>1. Unstarted \subseteq TaskIds
    BY <1>0, ElementOfSeq, LenProperties, ResultIsSomething DEF Unstarted, ToSet, StageTypes, Stages
  <2> QED
    BY <1>0, <1>1, <1>4, <2>1 DEF TaskIds
<1>6. \A c \in Answers : c.task \in TaskIds /\ c.task \notin Unstarted \cup Undecided
  <2> TAKE c \in Answers
  <2>1. c \in Completions /\ c.task <= Answered
    BY AnswersRange DEF OrderInv
  <2>2. c.task \in LetGo
    BY DEF Answers, LetGo
  <2> QED
    BY <1>0, <1>5, <2>1, <2>2, ResultIsSomething DEF Undecided
<1>7. ASSUME pc["postprocess"] = "push"
      PROVE  /\ holds["postprocess"].task \in TaskIds
             /\ holds["postprocess"].task \notin Unstarted \cup Undecided
  <2>1. holds["postprocess"] \in Completions /\ Held("postprocess") = 1
    BY <1>7, ResultIsSomething DEF StageTypes, Stages, Held
  <2>2. holds["postprocess"].task = PostTaken
    BY <1>0, <2>1, ResultIsSomething DEF OrderInv, PostTaken
  <2>3. holds["postprocess"].task \in LetGo
    BY <1>7 DEF LetGo
  <2> QED
    BY <1>0, <1>5, <2>1, <2>2, <2>3, ResultIsSomething DEF Undecided
<1> QED
  BY <1>4, <1>5, <1>6, <1>7

\* A cancellation dooms only what is undecided, and as unstarted only what the
\* pipeline has not been given.
LEMMA CancellationSpares ==
  ASSUME FrontInv, StageTypes, OrderInv, NEW tasks, Doom(tasks, Unstarted, Undecided)
  PROVE  /\ \A c \in Answers : doomed'[c.task] = doomed[c.task]
         /\ pc["postprocess"] = "push" =>
              doomed'[holds["postprocess"].task] = doomed[holds["postprocess"].task]
         /\ \A t \in TaskIds : t <= Started /\ doomed[t] # "unstarted" => doomed'[t] # "unstarted"
<1>1. FrontTypeOK /\ Started \in Nat
  BY LineTypes DEF FrontInv, FrontTypes, Started
<1>2. \A t \in TaskIds : t \notin Unstarted \cup Undecided => doomed'[t] = doomed[t]
  BY <1>1, DoomTypes
<1>3. \A t \in TaskIds : t <= Started => t \notin Unstarted
  BY <1>1, UndecidedRange DEF TaskIds
<1>4. \A t \in TaskIds : t \notin Unstarted => doomed'[t] # "unstarted" \/ doomed'[t] = doomed[t]
  BY <1>1, DoomTypes
<1> QED
  BY <1>2, <1>3, <1>4, UndecidedRange

\* A task cancelled before the last look at it is answered as cancelled.
LEMMA DecidedInvStep ==
  ASSUME FrontInv, StageTypes, OrderInv, DoomedInv, DecidedInv, [Next]_vars
  PROVE  DecidedInv'
<1>1. ASSUME Answers' = Answers, UNCHANGED doomed,
             pc'["postprocess"] = "push" =>
                pc["postprocess"] = "push" /\ UNCHANGED holds["postprocess"]
      PROVE  DecidedInv'
  BY <1>1 DEF DecidedInv, Decided
<1>2. ASSUME NEW tasks, Doom(tasks, Unstarted, Undecided), UNCHANGED <<pc, holds, dispatchVars>>
      PROVE  DecidedInv'
  BY <1>2, CancellationSpares, ExitFrame DEF DecidedInv, Decided
<1>3. ASSUME NEW t \in TaskIds, Cancel(t) PROVE DecidedInv'
  BY <1>2, <1>3 DEF Cancel, CancelTask, stageVars
<1>4. CASE ImmediateStop
  BY <1>2, <1>4 DEF ImmediateStop
<1>5. CASE \/ Submit \/ GracefulStop \/ Notify \/ Deliver \/ WaitCall \/ WaitJoins
           \/ UNCHANGED vars
  <2>1. Answers' = Answers
    BY <1>5, Outside DEF OutsideStep
  <2>2. UNCHANGED <<doomed, pc, holds>>
    BY <1>5, SubmitFrame, DeliverFrame DEF Submit, GracefulStop, Notify, StopNotify, Deliver,
       WaitCall, WaitBegin, WaitJoins, WaitCloseInput, WaitReturn, vars, frontVars, taskVars, stageVars
  <2> QED
    BY <1>1, <2>1, <2>2
<1>6. ASSUME NEW s \in Stages, StageSkip(s) \/ StageCall(s) PROVE DecidedInv'
  <2>1. /\ pc' = [pc EXCEPT ![s] = "called"] /\ holds' = [holds EXCEPT ![s] = holds'[s]]
        /\ Answers' = Answers /\ UNCHANGED doomed
    BY <1>6, StageWorks, OrderInvWork DEF StageSkip, StageCall, Goes
  <2> QED
    BY <1>1, <2>1 DEF StageTypes, Stages
<1>7. ASSUME NEW s \in Stages, StageRecheck(s) PROVE DecidedInv'
  <2>1. /\ pc' = [pc EXCEPT ![s] = "push"] /\ Answers' = Answers /\ UNCHANGED doomed
        /\ holds' = [holds EXCEPT ![s].outcome = IF Cancelled(holds[s].task) THEN "Cancelled" ELSE @]
        /\ holds[s] \in Completions /\ holds'[s].task = holds[s].task
    BY <1>7, StageWorks, OrderInvWork DEF StageRecheck, Goes
  <2>2. CASE s = "postprocess"
    <3>1. holds'[s].outcome = IF Cancelled(holds[s].task) THEN "Cancelled" ELSE holds[s].outcome
      BY <2>1 DEF StageTypes, Completions
    <3>2. doomed[holds[s].task] # "no" => Cancelled(holds[s].task)
      BY <2>1, ResultIsSomething DEF DoomedInv
    <3> QED
      BY <2>1, <2>2, <3>1, <3>2 DEF DecidedInv, Decided
  <2>3. CASE s # "postprocess"
    BY <1>1, <2>1, <2>3 DEF StageTypes, Stages
  <2> QED
    BY <2>2, <2>3
<1>8. CASE PostprocessPush
  <2>1. Answers' = Answers \cup {holds["postprocess"]} /\ UNCHANGED doomed
    BY <1>8, OrderInvComplete DEF PostprocessPush, taskVars
  <2>2. pc["postprocess"] = "push" /\ pc'["postprocess"] = "idle"
    BY <1>8 DEF PostprocessPush, Goes, StageTypes, Stages
  <2> QED
    BY <2>1, <2>2 DEF DecidedInv, Decided
<1>9. ASSUME NEW s \in Stages, StagePop(s) \/ StagePush(s) \/ StageExit(s)
      PROVE  DecidedInv'
  <2>1. UNCHANGED <<dispatchVars, doomed>> /\ \E p \in {"call", "idle", "exited"} :
             pc' = [pc EXCEPT ![s] = p] /\ \A h \in Stages : h # s => holds'[h] = holds[h]
    BY <1>9 DEF StagePop, StagePush, StageExit, Goes, frontVars, taskVars, StageTypes
  <2> QED
    BY <1>1, <2>1, ExitFrame DEF StageTypes, Stages
<1>10. CASE PreprocessSleep \/ PreprocessTake \/ PreprocessNotifySpace \/ PreprocessExit
  <2>1. UNCHANGED <<dispatchVars, doomed, pc["postprocess"], holds["postprocess"]>>
    BY <1>10 DEF PreprocessSleep, TakerSleep, PreprocessTake, TakeFirst, PreprocessNotifySpace,
       NotifySpace, PreprocessExit, Goes, frontVars, taskVars, stageVars, StageTypes, Stages
  <2> QED
    BY <1>1, <2>1, ExitFrame
<1> QED
  BY <1>3, <1>4, <1>5, <1>6, <1>7, <1>8, <1>9, <1>10 DEF Next, Stage, Stopped

\* A task that was cancelled before it was taken is never started.
LEMMA StartInvStep ==
  ASSUME FrontInv, StageTypes, OrderInv, DoomedInv, StartInv, [Next]_vars
  PROVE  StartInv'
<1>0. PreDone \in Nat /\ Started \in Nat /\ \A t \in started : t \in Nat /\ t \in TaskIds
  BY LineTypes DEF Started, StageTypes, TaskIds
<1>1. ASSUME UNCHANGED <<doomed, started>>, PreDone' = PreDone,
             pc["preprocess"] \in {"called", "push"} => pc'["preprocess"] \in {"called", "push"}
      PROVE  StartInv'
  BY <1>0, <1>1 DEF StartInv, Started
<1>2. ASSUME NEW tasks, Doom(tasks, Unstarted, Undecided), UNCHANGED <<pc, started>>,
             PreDone' = PreDone
      PROVE  StartInv'
  <2>1. Started' = Started
    BY <1>2 DEF Started
  <2> QED
    BY <1>0, <1>2, <2>1, CancellationSpares DEF StartInv
<1>3. ASSUME OutsideStep
      PROVE  PreDone' = PreDone /\ UNCHANGED started
  BY <1>3, Outside, OrderInvOutside
<1>4. ASSUME NEW t \in TaskIds, Cancel(t) PROVE StartInv'
  BY <1>2, <1>3, <1>4 DEF OutsideStep, Cancel, CancelTask, stageVars
<1>5. CASE ImmediateStop
  BY <1>2, <1>3, <1>5 DEF OutsideStep, ImmediateStop
<1>6. CASE \/ Submit \/ GracefulStop \/ Notify \/ Deliver \/ WaitCall \/ WaitJoins
           \/ UNCHANGED vars
  <2>1. PreDone' = PreDone /\ UNCHANGED started
    BY <1>3, <1>6 DEF OutsideStep
  <2>2. UNCHANGED <<doomed, pc>>
    BY <1>6, SubmitFrame, DeliverFrame DEF Submit, GracefulStop, Notify, StopNotify, Deliver,
       WaitCall, WaitBegin, WaitJoins, WaitCloseInput, WaitReturn, vars, frontVars, taskVars, stageVars
  <2> QED
    BY <1>1, <2>1, <2>2
<1>7. ASSUME NEW s \in Stages, StageSkip(s) \/ StageCall(s) \/ StageRecheck(s)
      PROVE  StartInv'
  <2>1. /\ PreDone' = PreDone /\ UNCHANGED doomed
        /\ pc' = [pc EXCEPT ![s] = pc'[s]] /\ pc'[s] \in {"called", "push"}
    BY <1>7, StageWorks, OrderInvWork
  <2>2. CASE UNCHANGED started
    BY <1>1, <2>1, <2>2 DEF StageTypes, Stages
  <2>3. CASE StageCall(s) /\ s = "preprocess" /\ started' = started \cup {holds[s].task}
    <3>1. /\ pc["preprocess"] = "call" /\ pc'["preprocess"] = "called" /\ ~Cancelled(holds[s].task)
          /\ holds[s] \in Completions
      BY <2>3, StageWorks DEF StageCall, Goes, StageTypes, Stages
    <3>2. holds[s].task = PreDone + 1 /\ doomed[holds[s].task] = "no"
      BY <2>3, <3>1, ResultIsSomething DEF OrderInv, DoomedInv
    <3>3. Started' = Started + 1 /\ Started = PreDone
      BY <1>0, <2>1, <3>1 DEF Started
    <3> QED
      BY <1>0, <2>1, <2>3, <3>2, <3>3 DEF StartInv
  <2> QED
    BY <1>7, <2>2, <2>3, StageWorks
<1>8. ASSUME NEW s \in Stages, StagePop(s)
      PROVE  StartInv'
  <2>1. PreDone' = PreDone
    BY <1>8, OrderInvPop
  <2> QED
    BY <1>1, <1>8, <2>1 DEF StagePop, Goes, frontVars, taskVars, StageTypes, Stages
<1>9. ASSUME NEW s \in Stages, StagePush(s)
      PROVE  StartInv'
  <2>1. UNCHANGED <<doomed, started>> /\ s \in {"preprocess", "inference"} /\ pc[s] = "push"
    BY <1>9 DEF StagePush, Goes, frontVars, taskVars, Stages
  <2>2. CASE s = "preprocess"
    <3>1. pc["preprocess"] = "push" /\ pc'["preprocess"] = "idle" /\ PreDone' = PreDone + 1
      BY <1>9, <2>2, OrderInvPush DEF StagePush, Goes, StageTypes
    <3>2. Started' = Started
      BY <1>0, <3>1 DEF Started
    <3> QED
      BY <2>1, <3>2 DEF StartInv
  <2>3. CASE s = "inference"
    <3>1. PreDone' = PreDone /\ pc'["preprocess"] = pc["preprocess"]
      BY <1>9, <2>3, OrderInvPush DEF StagePush, Goes, StageTypes, Stages
    <3> QED
      BY <1>1, <2>1, <3>1
  <2> QED
    BY <2>1, <2>2, <2>3
<1>10. CASE PreprocessTake \/ PreprocessNotifySpace \/ PreprocessExit \/ PreprocessSleep
  <2>1. PreDone' = PreDone
    BY <1>3, <1>10, OrderInvTake DEF OutsideStep
  <2>2. UNCHANGED <<doomed, started>> /\ pc["preprocess"] \notin {"called", "push"}
    BY <1>10 DEF PreprocessTake, TakeFirst, PreprocessNotifySpace, NotifySpace, PreprocessExit,
       PreprocessSleep, TakerSleep, Goes, frontVars, taskVars, stageVars
  <2> QED
    BY <1>1, <2>1, <2>2
<1>11. ASSUME NEW s \in Stages, StageExit(s) PROVE StartInv'
  <2>1. PreDone' = PreDone /\ UNCHANGED started
    BY <1>3, <1>11 DEF OutsideStep
  <2> QED
    BY <1>1, <1>11, <2>1 DEF StageExit, Goes, frontVars, taskVars, StageTypes, Stages
<1>12. CASE PostprocessPush
  <2>1. PreDone' = PreDone
    BY <1>12, OrderInvComplete
  <2> QED
    BY <1>1, <1>12, <2>1 DEF PostprocessPush, Goes, taskVars, StageTypes, Stages
<1> QED
  BY <1>4, <1>5, <1>6, <1>7, <1>8, <1>9, <1>10, <1>11, <1>12 DEF Next, Stage, Stopped
-----------------------------------------------------------------------------
(* The end of the run.                                                     *)

\* A thread only exits behind those before it, and nothing enters its queue afterwards.
LEMMA ExitInvStep ==
  ASSUME FrontInv, StageTypes, ExitInv, [Next]_vars
  PROVE  ExitInv'
<1> USE DEF ExitInv
<1>1. CASE Submit
  <2>1. UNCHANGED entryQueue \/ ~stopRequested
    BY <1>1, SubmitFrame DEF Submit, FrontInv, StopInv
  <2> QED
    BY <1>1, <2>1, SubmitFrame DEF Submit, stageVars
<1>2. ASSUME NEW t \in TaskIds, Cancel(t) PROVE ExitInv'
  BY <1>2 DEF Cancel, CancelTask, entryVars, stageVars
<1>3. CASE GracefulStop \/ ImmediateStop \/ Notify \/ WaitCall \/ WaitJoins
  BY <1>3 DEF GracefulStop, ImmediateStop, CloseEntry, Notify, StopNotify, WaitCall, WaitBegin,
     WaitJoins, WaitCloseInput, WaitReturn, entryVars, stageVars, Stages
<1>4. CASE Deliver \/ UNCHANGED vars
  BY <1>4, DeliverFrame DEF Deliver, vars, frontVars, entryVars, stageVars
<1>5. ASSUME NEW s \in Stages, StageSkip(s) \/ StageCall(s) \/ StageRecheck(s) PROVE ExitInv'
  <2>1. /\ pc[s] \notin {"idle", "exited"} /\ pc' = [pc EXCEPT ![s] = pc'[s]] /\ pc'[s] # "exited"
        /\ UNCHANGED <<entryVars, waiter, input>>
    BY <1>5, StageWorks
  <2> QED
    BY <2>1 DEF entryVars, StageTypes, Stages
<1>6. ASSUME NEW s \in Stages, StagePop(s) \/ StagePush(s) \/ StageExit(s) PROVE ExitInv'
  BY <1>6 DEF StagePop, StagePush, StageExit, Goes, After, Before, frontVars, entryVars, StageTypes, Stages
<1>7. CASE PreprocessSleep \/ PreprocessTake \/ PreprocessNotifySpace \/ PreprocessExit
  BY <1>7 DEF PreprocessSleep, TakerSleep, PreprocessTake, TakeFirst, PreprocessNotifySpace,
     NotifySpace, PreprocessExit, NothingLeft, Goes, frontVars, entryVars, stageVars, StageTypes, Stages
<1>8. CASE PostprocessPush
  BY <1>8 DEF PostprocessPush, Goes, entryVars, StageTypes, Stages
<1> QED
  BY <1>1, <1>2, <1>3, <1>4, <1>5, <1>6, <1>7, <1>8 DEF Next, Stage, Stopped
-----------------------------------------------------------------------------
(* The theorems.                                                           *)

\* The parts hold at the start.
LEMMA IInvInit == Init => IInv
<1> SUFFICES ASSUME Init PROVE IInv
  OBVIOUS
<1>1. FrontInv /\ StageTypes /\ OrderInv /\ Answers = {}
  BY TypesInit, OrderInvInit, OrderInit DEF Init
<1>2. \A c \in Moving : c = Nothing
  BY DEF Init, Moving, ToSet, Stages
<1>3. \A s \in Stages : pc[s] = "idle"
  BY DEF Init
<1>4. SpaceInv(Coming) /\ DoomedInv
  BY DEF Init, FrontInit, SpaceInv, DoomedInv
<1>5. ReasonInv /\ DecidedInv /\ StartInv /\ ExitInv
  BY <1>1, <1>2, <1>3 DEF Init, FrontInit, ReasonInv, DecidedInv, StartInv, ExitInv, Stages
<1> QED
  BY <1>1, <1>4, <1>5 DEF IInv

\* Every step preserves the conjunction of the parts.
LEMMA IInvStep == IInv /\ [Next]_vars => IInv'
  BY FrontStep, StageTypesStep, OrderInvStep, SpaceInvStep, DoomedInvStep, ReasonInvStep,
     DecidedInvStep, StartInvStep, ExitInvStep DEF IInv

\* The inductive invariant of the parallel executor.
THEOREM InductiveInvariant == Spec => []IInv
  BY IInvInit, IInvStep, PTL DEF Spec

\* No notification is lost between the preprocess thread and the submitters,
\* however many submit and whatever the queue holds.
THEOREM SleepersHaveAReasonHolds == Spec => []SleepersHaveAReason(Coming)
<1>1. IInv => SleepersHaveAReason(Coming)
  BY DEF IInv, FrontInv, TakerInv, SpaceInv, SleepersHaveAReason
<1> QED
  BY <1>1, InductiveInvariant, PTL

\* However many tasks are in the stages, a cancellation or an immediate stop in
\* time decides the outcome, and no other task is reported as cancelled.
THEOREM CancellationDecidesHolds == Spec => []CancellationDecides
<1>1. IInv => CancellationDecides
  <2> SUFFICES ASSUME IInv, NEW i \in DOMAIN delivered
               PROVE  /\ Decided(delivered[i])
                      /\ delivered[i].outcome = "Cancelled" => Cancelled(delivered[i].task)
    BY DEF CancellationDecides, CancellationHonoured, Decided
  <2>1. delivered[i] \in Answers
    BY DEF Answers, ToSet
  <2>2. delivered[i] # Nothing
    BY <2>1, AnswersRange, ResultIsSomething DEF IInv, OrderInv
  <2> QED
    BY <2>1, <2>2 DEF IInv, DecidedInv, ReasonInv
<1> QED
  BY <1>1, InductiveInvariant, PTL

\* Preprocess is never called for a task that was cancelled while it was queued.
THEOREM CancelledInQueueNeverRunsHolds == Spec => []CancelledInQueueNeverRuns
<1>1. IInv => CancelledInQueueNeverRuns
  BY DEF IInv, StartInv, CancelledInQueueNeverRuns
<1> QED
  BY <1>1, InductiveInvariant, PTL
-----------------------------------------------------------------------------
(* Refinement of TaskDelivery.                                             *)

\* Nothing has been accepted or delivered at the start.
LEMMA DeliveryInitially == Init => Delivery!DeliveryInit
  BY DEF Init, FrontInit, Delivery!DeliveryInit

\* A submit() that enqueues is an Accept, the first stop is the Stop, the
\* dispatcher's delivery is a Deliver, and the end of wait() the Return.
LEMMA DeliveryStep == IInv /\ [Next]_vars => [Delivery!DeliveryNext]_(Delivery!deliveryVars)
<1> SUFFICES ASSUME IInv, [Next]_vars
             PROVE  [Delivery!DeliveryNext]_(Delivery!deliveryVars)
  OBVIOUS
<1> USE DEF Delivery!deliveryVars
<1>0. /\ FrontInv /\ OrderInv /\ ExitInv /\ StageTypes
      /\ Len(delivered) \in Nat /\ Len(completionQueue) \in Nat /\ Len(entryQueue) \in Nat
      /\ nextTaskId \in Nat
  BY CountTypes, MaxTasksAssumption DEF IInv, FrontInv, FrontTypes, FrontTypeOK
<1>1. ASSUME UNCHANGED <<nextTaskId, accepting, delivered, waiter>>
      PROVE  UNCHANGED Delivery!deliveryVars
  BY <1>1
<1>2. CASE Submit
  <2>1. CASE Enqueue
    <3>1. accepting /\ nextTaskId' - 1 = (nextTaskId - 1) + 1
      BY <1>0, <2>1 DEF Enqueue
    <3> QED
      BY <1>2, <2>1, <3>1 DEF Enqueue, dispatchVars, Delivery!DeliveryNext, Delivery!Accept
  <2>2. CASE UNCHANGED <<nextTaskId, accepting, delivered, waiter>>
    BY <1>1, <2>2
  <2> QED
    BY <1>2, <2>1, <2>2 DEF Submit, FrontSubmit, WokenSubmit, SubmitAtOnce, SubmitSleep,
       SubmitAfterSleep, SubmitSleepAgain, SubmitRefusedAfterSleep, dispatchVars
<1>3. ASSUME CloseEntry, UNCHANGED delivered, waiter' = waiter \/ (waiter = "idle" /\ waiter' = "joining")
      PROVE  [Delivery!DeliveryNext]_(Delivery!deliveryVars)
  <2>1. accepting' = FALSE /\ nextTaskId' = nextTaskId /\ (waiter' = "returned" <=> waiter = "returned")
    BY <1>3 DEF CloseEntry
  <2> QED
    BY <1>0, <1>3, <2>1 DEF Delivery!DeliveryNext, Delivery!Stop, FrontInv, FrontTypes, FrontTypeOK
<1>4. CASE GracefulStop \/ ImmediateStop \/ WaitCall
  BY <1>3, <1>4 DEF GracefulStop, ImmediateStop, WaitCall, WaitBegin, dispatchVars
<1>5. CASE Deliver
  <2>1. CASE DispatcherPop
    BY <1>1, <2>1 DEF DispatcherPop, entryVars
  <2>2. CASE DispatcherDeliver
    <3>1. /\ delivering \in Completions /\ delivering.task = Len(delivered) + 1
          /\ delivering # Nothing
      BY <1>0, <2>2 DEF DispatcherDeliver, FrontInv, FrontTypes, FrontTypeOK, OrderInv, ExitOrder
    <3>2. /\ delivering.outcome \in Outcomes
          /\ delivering = [task |-> Len(delivered) + 1, outcome |-> delivering.outcome]
      BY <3>1 DEF Completions
    <3>3. Len(delivered) < nextTaskId - 1
      <4>1. Len(delivered) + 1 <= Answered
        BY <1>0, <3>1 DEF Answered, Popped
      <4>2. Answered <= PreTaken /\ PreTaken <= nextTaskId - 1
        BY <1>0, CountsGrow
      <4> QED
        BY <1>0, <4>1, <4>2, LineTypes
    <3>4. Delivery!Deliver(delivering.outcome)
      BY <2>2, <3>2, <3>3 DEF DispatcherDeliver, entryVars, Delivery!Deliver
    <3> QED
      BY <3>2, <3>4 DEF Delivery!DeliveryNext
  <2> QED
    BY <1>5, <2>1, <2>2 DEF Deliver, Dispatcher
<1>6. CASE WaitJoins
  <2>1. CASE WaitCloseInput(\A s \in Stages : pc[s] = "exited")
    BY <2>1 DEF WaitCloseInput, entryVars
  <2>2. CASE WaitReturn
    <3>1. /\ pc["preprocess"] = "exited" /\ pc["inference"] = "exited" /\ pc["postprocess"] = "exited"
          /\ entryQueue = <<>> /\ input["inference"] = <<>> /\ input["postprocess"] = <<>>
          /\ ~accepting
      BY <1>0, <2>2 DEF WaitReturn, ExitInv, FrontInv, StopInv
    <3>2. /\ Held("preprocess") = 0 /\ Held("inference") = 0 /\ Held("postprocess") = 0
          /\ Len(input["inference"]) = 0 /\ Len(input["postprocess"]) = 0 /\ Len(entryQueue) = 0
          /\ Len(completionQueue) = 0 /\ delivering = Nothing
      BY <1>0, <2>2, <3>1 DEF WaitReturn, Held, StageTypes, Stages
    <3>3. PreTaken = Answered /\ Answered = Len(delivered)
      BY <1>0, <3>2 DEF PreTaken, PreDone, InferTaken, InferDone, PostTaken, Answered, Popped
    <3>4. Len(delivered) = nextTaskId - 1
      BY <1>0, <3>2, <3>3 DEF OrderInv, EntryOrder
    <3> QED
      BY <2>2, <3>1, <3>4 DEF WaitReturn, entryVars, dispatchVars, Delivery!DeliveryNext, Delivery!Return
  <2> QED
    BY <1>6, <2>1, <2>2 DEF WaitJoins
<1>7. ASSUME NEW t \in TaskIds, Cancel(t) PROVE UNCHANGED Delivery!deliveryVars
  BY <1>1, <1>7 DEF Cancel, CancelTask, entryVars, dispatchVars
<1>8. CASE Notify \/ UNCHANGED vars
  BY <1>1, <1>8 DEF Notify, StopNotify, vars, frontVars, entryVars, dispatchVars
<1>9. ASSUME NEW s \in Stages, Stage(s) PROVE UNCHANGED Delivery!deliveryVars
  <2>1. CASE StageSkip(s) \/ StageCall(s) \/ StageRecheck(s)
    BY <1>0, <1>1, <2>1, StageWorks DEF entryVars, dispatchVars
  <2>2. CASE \/ StagePop(s) \/ StagePush(s) \/ StageExit(s) \/ PreprocessSleep \/ PreprocessTake
             \/ PreprocessNotifySpace \/ PreprocessExit \/ PostprocessPush
    BY <1>1, <2>2 DEF StagePop, StagePush, StageExit, PreprocessSleep, TakerSleep, PreprocessTake,
       TakeFirst, PreprocessNotifySpace, NotifySpace, PreprocessExit, PostprocessPush,
       QueueCompletion, frontVars, entryVars, dispatchVars
  <2> QED
    BY <1>9, <2>1, <2>2 DEF Stage
<1> QED
  BY <1>2, <1>4, <1>5, <1>6, <1>7, <1>8, <1>9 DEF Next, Stopped

\* However the stages overlap, the parallel executor delivers exactly the
\* accepted tasks, once and in order, and wait() returns after the last one:
\* the safety part of what ImplementsTaskDelivery says.
THEOREM ImplementsDeliverySafety == Spec => Delivery!DeliverySafety
  BY InductiveInvariant, DeliveryInitially, DeliveryStep, IInvInit, PTL
     DEF Spec, Delivery!DeliverySafety
=============================================================================
