--------------------- MODULE BatchPipelineExecutor_proofs ---------------------
(***************************************************************************)
(* Proofs about BatchPipelineExecutor, for every number of submitters and  *)
(* tasks, every capacity and batch size, both policies and every set of    *)
(* tasks that may be cancelled.  They speak of the executor as long as     *)
(* the completion queue is intact: the model stops when it is not.         *)
(***************************************************************************)
EXTENDS BatchPipelineExecutor, ExecutorFront_proofs

\* pc gives every thread, and nothing else, a place in its loop.
PcShape == pc = [h \in Threads |-> pc[h]]

\* A thread holds a task exactly while it is busy with one, and the inference
\* thread has a batch exactly while it has begun to collect one.
StageTypes ==
    /\ PcShape
    /\ pc["preprocess"] \in {"idle", "notify", "call", "called", "push", "exited"}
    /\ pc["inference"] \in {"idle", "look", "refuse", "collect", "sawEmpty", "gaveUp",
                            "flush", "post", "fail", "failing", "exited"}
    /\ pc["postprocess"] \in {"idle", "finish", "push", "exited"}
    /\ preprocessing \in Completions \cup {Nothing}
    /\ looked \in Completions \cup {Nothing}
    /\ postprocessing \in Completions \cup {Nothing}
    /\ preprocessQueue \in Seq(Completions) /\ postprocessQueue \in Seq(Completions)
    /\ members \in Seq(TaskIds) /\ Len(members) <= MaxBatchSize
    /\ started \in SUBSET TaskIds
    /\ preprocessClosed \in BOOLEAN /\ lastBatch \in BOOLEAN
    /\ immediate \in BOOLEAN /\ raced \in BOOLEAN
    /\ preprocessing = Nothing <=> pc["preprocess"] \in {"idle", "exited"}
    /\ looked = Nothing <=> pc["inference"] \notin {"look", "refuse"}
    /\ postprocessing = Nothing <=> pc["postprocess"] \in {"idle", "exited"}
    /\ pc["inference"] \in {"idle", "exited"} => members = <<>>
    /\ pc["inference"] \notin {"idle", "exited", "look", "refuse"} => members # <<>>
    /\ pc["inference"] = "look" => Len(members) < MaxBatchSize

\* The tasks in all places, and their number with repetitions.
Here(c) == IF c = Nothing THEN {} ELSE {c.task}
One(c) == IF c = Nothing THEN 0 ELSE 1
In(cs) == {cs[i].task : i \in 1 .. Len(cs)}
Everywhere ==
    ToSet(entryQueue) \cup ToSet(members) \cup In(preprocessQueue) \cup In(postprocessQueue)
    \cup In(completionQueue) \cup In(delivered)
    \cup Here(preprocessing) \cup Here(looked) \cup Here(postprocessing) \cup Here(delivering)
Count ==
    Len(entryQueue) + Len(members) + Len(preprocessQueue) + Len(postprocessQueue)
    + Len(completionQueue) + Len(delivered)
    + One(preprocessing) + One(looked) + One(postprocessing) + One(delivering)
PlaceInv == Everywhere = Accepted /\ Count = nextTaskId - 1

\* Up to the inference thread's look the tasks stand in line.  Taken of them
\* have left the entry queue, ..., and Admitted have been looked at.
Taken == nextTaskId - 1 - Len(entryQueue)
Preprocessed == Taken - One(preprocessing)
PoppedOff == Preprocessed - Len(preprocessQueue)
Looking == pc["inference"] = "look"
Refusing == pc["inference"] = "refuse"
LookedAt == PoppedOff - (IF Looking THEN 1 ELSE 0)
LineInv ==
    /\ LookedAt \in Nat
    /\ IdsAfter(entryQueue, Taken)
    /\ preprocessing # Nothing => preprocessing.task = Preprocessed + 1
    /\ TasksAfter(preprocessQueue, PoppedOff)
    /\ Looking => looked.task = LookedAt + 1

\* The other places hold only tasks that have been looked at.
Beyond ==
    ToSet(members) \cup In(postprocessQueue) \cup In(completionQueue) \cup In(delivered)
    \cup Here(postprocessing) \cup Here(delivering)
BeyondInv ==
    /\ \A t \in Beyond : t <= LookedAt
    /\ Refusing => looked.task <= LookedAt

\* Whoever was cancelled in time has a request, or an immediate stop, on record.
DoomedInv == \A t \in TaskIds : doomed[t] # "no" => Cancelled(t)

\* No result says "Cancelled" without a reason, and past the look no result
\* ignores a cancellation that came in time; a batch has no cancelled member.
Results ==
    ToSet(preprocessQueue) \cup ToSet(postprocessQueue) \cup Answers
    \cup {preprocessing, looked, postprocessing}
ReasonInv == \A c \in Results \ {Nothing} : c.outcome = "Cancelled" => Cancelled(c.task)
Decided(c) == doomed[c.task] # "no" => c.outcome = "Cancelled"
InHand == ToSet(members) \cup In(postprocessQueue) \cup Here(postprocessing)
DecidedInv ==
    /\ \A c \in Answers : Decided(c)
    /\ Refusing => Decided(looked)
    /\ \A t \in InHand : doomed[t] = "no"

\* Successes stand in the order of submission, from the oldest delivery to the
\* youngest batch member.
Win(c) == IF c.outcome = "Completed" THEN {c.task} ELSE {}
Wins(cs) == UNION {Win(cs[i]) : i \in 1 .. Len(cs)}
Increasing(cs) ==
    \A i, j \in 1 .. Len(cs) :
        i < j /\ cs[i].outcome = "Completed" /\ cs[j].outcome = "Completed" => cs[i].task < cs[j].task
Rising(ids) == \A i, j \in 1 .. Len(ids) : i < j => ids[i] < ids[j]
Below(A, B) == \A a \in A, b \in B : a < b
SuccessInv ==
    /\ Increasing(delivered) /\ Increasing(completionQueue) /\ Increasing(postprocessQueue)
    /\ Rising(members)
    /\ Below(Wins(delivered), Win(delivering) \cup Wins(completionQueue) \cup Win(postprocessing)
                              \cup Wins(postprocessQueue) \cup ToSet(members))
    /\ Below(Win(delivering), Wins(completionQueue) \cup Win(postprocessing)
                              \cup Wins(postprocessQueue) \cup ToSet(members))
    /\ Below(Wins(completionQueue), Win(postprocessing) \cup Wins(postprocessQueue) \cup ToSet(members))
    /\ Below(Win(postprocessing), Wins(postprocessQueue) \cup ToSet(members))
    /\ Below(Wins(postprocessQueue), ToSet(members))
    /\ Refusing => looked.outcome # "Completed"

\* The threads leave when their input is closed, and wait() when they have left.
ExitInv ==
    /\ pc["preprocess"] = "exited" => entryQueue = <<>> /\ stopRequested
    /\ pc["postprocess"] = "exited" => pc["inference"] = "exited" /\ postprocessQueue = <<>>
    /\ waiter \in {"joinDispatcher", "returned"} =>
         pc["preprocess"] = "exited" /\ pc["postprocess"] = "exited"
    /\ waiter = "returned" => completionQueue = <<>> /\ delivering = Nothing

\* The notification for a slot that preprocess freed is still to come.
Coming == IF pc["preprocess"] = "notify" THEN 1 ELSE 0

IInv ==
    /\ FrontInv /\ StageTypes /\ PlaceInv /\ LineInv /\ BeyondInv /\ SpaceInv(Coming)
    /\ DoomedInv /\ ReasonInv /\ DecidedInv /\ SuccessInv /\ ExitInv
-----------------------------------------------------------------------------
(* Types.                                                                  *)

\* A result is never mistaken for the absence of one.
LEMMA ResultIsSomething ==
  /\ \A c \in Completions : c # Nothing /\ c.task \in TaskIds /\ c.task \in Nat /\ c.outcome \in Outcomes
  /\ \A t \in TaskIds, o \in Outcomes : [task |-> t, outcome |-> o] \in Completions
  BY DEF Completions, Nothing, NoTask, TaskIds

\* A thread goes on, and only that one.
LEMMA OneThreadGoes ==
  ASSUME StageTypes, NEW h \in Threads, NEW from, NEW to, Goes(h, from, to)
  PROVE  /\ PcShape'
         /\ pc[h] = from /\ pc'[h] = to
         /\ \A x \in Threads : x # h => pc'[x] = pc[x]
  BY DEF Goes, StageTypes, PcShape

\* Members that are to be finished: one goes, and the others stay.
LEMMA OneMemberGoes ==
  ASSUME StageTypes, members # <<>>, NEW more \in {"post", "fail"}
  PROVE  /\ Head(members) \in TaskIds /\ Tail(members) \in Seq(TaskIds)
         /\ Len(members) \in Nat /\ Len(Tail(members)) = Len(members) - 1
         /\ AfterMember(more) \in {more, "exited", "idle"}
         /\ AfterMember(more) = more <=> Tail(members) # <<>>
<1>1. /\ Head(members) \in TaskIds /\ Tail(members) \in Seq(TaskIds)
      /\ Len(members) \in Nat /\ Len(Tail(members)) = Len(members) - 1 /\ Len(members) # 0
  BY HeadTailProperties, LenProperties, EmptySeq DEF StageTypes
<1>2. Tail(members) # <<>> <=> Len(members) > 1
  BY <1>1, EmptySeq
<1> QED
  BY <1>1, <1>2 DEF AfterMember

\* The threads start idle, with empty queues and an empty batch.
LEMMA TypesInit == Init => FrontInv /\ StageTypes
<1> SUFFICES ASSUME Init PROVE FrontInv /\ StageTypes
  OBVIOUS
<1>1. \A h \in Threads : pc[h] = "idle"
  BY DEF Init
<1>2. PcShape
  BY DEF Init, PcShape
<1>3. Len(members) = 0 /\ members = <<>> /\ members \in Seq(TaskIds)
  BY DEF Init
<1>4. preprocessQueue \in Seq(Completions) /\ postprocessQueue \in Seq(Completions)
  BY DEF Init
<1>5. Len(members) <= MaxBatchSize
  BY <1>3, MaxBatchSizeAssumption
<1>6. FrontInv
  BY FrontInvInit DEF Init
<1>7. StageTypes
  BY <1>1, <1>2, <1>3, <1>4, <1>5 DEF Init, StageTypes, Threads
<1> QED
  BY <1>6, <1>7

\* The preprocess thread keeps the types.
LEMMA StageTypesPreprocess == ASSUME FrontInv, StageTypes, Preprocess PROVE StageTypes'
<1> USE DEF Threads
<1>1. CASE PreprocessSleep
  BY <1>1 DEF PreprocessSleep, stageVars, preVars, batchVars, postVars, StageTypes, PcShape
<1>2. CASE PreprocessTake
  <2>1. [task |-> Head(entryQueue), outcome |-> "Completed"] \in Completions
    BY <1>2, FrontInvTake, ResultIsSomething DEF PreprocessTake, Outcomes
  <2> QED
    BY <1>2, <2>1, OneThreadGoes, ResultIsSomething
       DEF PreprocessTake, batchVars, postVars, StageTypes
<1>3. CASE PreprocessNotifySpace
  BY <1>3, OneThreadGoes DEF PreprocessNotifySpace, preVars, batchVars, postVars, StageTypes
<1>4. CASE PreprocessCall
  <2>1. preprocessing \in Completions
    BY <1>4, OneThreadGoes DEF PreprocessCall, StageTypes
  <2>2. preprocessing' \in Completions
    BY <1>4, <2>1 DEF PreprocessCall, Completions, Outcomes
  <2>3. started' \in SUBSET TaskIds
    BY <1>4, <2>1, ResultIsSomething DEF PreprocessCall, StageTypes
  <2> QED
    BY <1>4, <2>2, <2>3, OneThreadGoes, ResultIsSomething
       DEF PreprocessCall, batchVars, postVars, StageTypes
<1>5. CASE PreprocessRecheck
  <2>1. preprocessing \in Completions
    BY <1>5, OneThreadGoes DEF PreprocessRecheck, StageTypes
  <2>2. preprocessing' \in Completions
    BY <1>5, <2>1 DEF PreprocessRecheck, Completions, Outcomes
  <2>3. /\ PcShape' /\ pc["preprocess"] = "called" /\ pc'["preprocess"] = "push"
        /\ pc'["inference"] = pc["inference"] /\ pc'["postprocess"] = pc["postprocess"]
    BY <1>5, OneThreadGoes DEF PreprocessRecheck
  <2>4. UNCHANGED <<preprocessQueue, preprocessClosed, started, looked, members, lastBatch,
                    postprocessQueue, postprocessing, immediate, raced>>
    BY <1>5 DEF PreprocessRecheck, batchVars, postVars
  <2> QED
    BY <2>2, <2>3, <2>4, ResultIsSomething DEF StageTypes
<1>6. CASE PreprocessPush
  <2>1. preprocessing \in Completions
    BY <1>6, OneThreadGoes DEF PreprocessPush, StageTypes
  <2>2. preprocessQueue' \in Seq(Completions)
    BY <1>6, <2>1, AppendProperties DEF PreprocessPush, StageTypes
  <2>3. /\ PcShape' /\ pc'["preprocess"] = "idle"
        /\ pc'["inference"] = pc["inference"] /\ pc'["postprocess"] = pc["postprocess"]
    BY <1>6, OneThreadGoes DEF PreprocessPush
  <2>4. /\ preprocessing' = Nothing
        /\ UNCHANGED <<preprocessClosed, started, looked, members, lastBatch, postprocessQueue,
                       postprocessing, immediate, raced>>
    BY <1>6 DEF PreprocessPush, batchVars, postVars
  <2> QED
    BY <2>2, <2>3, <2>4 DEF StageTypes
<1>7. CASE PreprocessExit
  BY <1>7, OneThreadGoes DEF PreprocessExit, batchVars, postVars, StageTypes
<1> QED
  BY <1>1, <1>2, <1>3, <1>4, <1>5, <1>6, <1>7 DEF Preprocess

\* The inference thread keeps the types: no batch grows beyond MaxBatchSize.
LEMMA StageTypesInference == ASSUME FrontInv, StageTypes, Inference PROVE StageTypes'
<1> USE DEF Threads
<1>0. MaxBatchSize \in Nat \ {0} /\ Len(members) \in Nat
  BY MaxBatchSizeAssumption, LenProperties DEF StageTypes
<1>1. CASE InferencePop \/ CollectPop
  <2>1. looked' \in Completions /\ preprocessQueue' \in Seq(Completions)
    <3>1. preprocessQueue \in Seq(Completions) /\ PopPreprocessed
      BY <1>1 DEF InferencePop, CollectPop, StageTypes
    <3> QED
      BY <3>1, HeadTailProperties DEF PopPreprocessed
  <2>2. CASE InferencePop
    <3>1. Len(members) < MaxBatchSize
      BY <1>0, <2>2, OneThreadGoes DEF InferencePop, StageTypes
    <3> QED
      BY <2>1, <2>2, <3>1, OneThreadGoes, ResultIsSomething
         DEF InferencePop, PopPreprocessed, postVars, StageTypes
  <2>3. CASE CollectPop
    BY <2>1, <2>3, OneThreadGoes, ResultIsSomething
       DEF CollectPop, PopPreprocessed, postVars, StageTypes
  <2> QED
    BY <1>1, <2>2, <2>3
<1>2. CASE InferenceAdmit
  <2>1. looked \in Completions /\ looked.task \in TaskIds
    BY <1>2, OneThreadGoes, ResultIsSomething DEF InferenceAdmit, StageTypes
  <2>2. /\ members' \in Seq(TaskIds) /\ Len(members') = Len(members) + 1
    BY <1>2, <2>1, AppendProperties DEF InferenceAdmit, StageTypes
  <2>3. members' # <<>> /\ Len(members') <= MaxBatchSize
    BY <1>0, <1>2, <2>2, OneThreadGoes, EmptySeq DEF InferenceAdmit, StageTypes
  <2> QED
    BY <1>2, <2>2, <2>3, OneThreadGoes DEF InferenceAdmit, preVars, postVars, StageTypes
<1>3. CASE InferenceRefuse
  <2>1. looked \in Completions
    BY <1>3, OneThreadGoes DEF InferenceRefuse, StageTypes
  <2>2. looked' \in Completions
    BY <1>3, <2>1 DEF InferenceRefuse, Completions, Outcomes
  <2>3. raced' \in BOOLEAN
    BY <1>3 DEF InferenceRefuse, EnterPush
  <2>4. looked' # Nothing
    BY <2>2, ResultIsSomething
  <2>5. /\ PcShape' /\ pc["inference"] = "look" /\ pc'["inference"] = "refuse"
        /\ pc'["preprocess"] = pc["preprocess"] /\ pc'["postprocess"] = pc["postprocess"]
    BY <1>3, OneThreadGoes DEF InferenceRefuse
  <2> QED
    BY <1>3, <2>2, <2>3, <2>4, <2>5 DEF InferenceRefuse, preVars, postVars, StageTypes
<1>4. CASE InferenceRefused
  BY <1>4, OneThreadGoes DEF InferenceRefused, preVars, postVars, StageTypes
<1>5. CASE FlushMember
  <2>1. members # <<>>
    BY <1>5, OneThreadGoes DEF FlushMember, StageTypes
  <2>2. PICK o \in {"Completed", "Failed"} :
          postprocessQueue' = Append(postprocessQueue, [task |-> Head(members), outcome |-> o])
    BY <1>5 DEF FlushMember
  <2>3. [task |-> Head(members), outcome |-> o] \in Completions
    BY <2>1, OneMemberGoes, ResultIsSomething DEF Outcomes
  <2>4. postprocessQueue' \in Seq(Completions)
    BY <2>2, <2>3, AppendProperties DEF StageTypes
  <2>5. /\ PcShape' /\ pc'["inference"] = AfterMember("post")
        /\ pc'["preprocess"] = pc["preprocess"] /\ pc'["postprocess"] = pc["postprocess"]
        /\ pc["inference"] = "post"
    BY <1>5, OneThreadGoes DEF FlushMember
  <2>6. /\ members' \in Seq(TaskIds) /\ Len(members') <= MaxBatchSize
        /\ AfterMember("post") \in {"post", "exited", "idle"}
        /\ AfterMember("post") = "post" <=> members' # <<>>
    BY <1>0, <1>5, <2>1, OneMemberGoes DEF FlushMember, StageTypes
  <2> QED
    BY <1>5, <2>4, <2>5, <2>6 DEF FlushMember, preVars, StageTypes
<1>6. CASE FlushFail
  <2>1. members # <<>>
    BY <1>6, OneThreadGoes DEF FlushFail, StageTypes
  <2> QED
    BY <1>0, <1>6, <2>1, OneMemberGoes, OneThreadGoes DEF FlushFail, preVars, postVars, StageTypes
<1>7. CASE InferenceExit \/ CollectDone \/ CollectSawEmpty \/ CollectPollAgain \/ CollectGiveUp
           \/ CollectTestClosed \/ FlushInfer
  <2>1. UNCHANGED <<preprocessing, preprocessQueue, preprocessClosed, started, looked, members,
                    postprocessQueue, postprocessing, immediate, raced>>
    BY <1>7 DEF InferenceExit, CollectDone, CollectSawEmpty, CollectPollAgain,
       CollectGiveUp, CollectTestClosed, FlushInfer, preVars, batchVars, postVars
  <2>3. lastBatch' \in BOOLEAN
    BY <1>7 DEF InferenceExit, CollectDone, CollectSawEmpty, CollectPollAgain,
       CollectGiveUp, CollectTestClosed, FlushInfer, batchVars, StageTypes
  <2>2. /\ PcShape'
        /\ pc'["preprocess"] = pc["preprocess"] /\ pc'["postprocess"] = pc["postprocess"]
        /\ \/ pc["inference"] = "idle" /\ pc'["inference"] = "exited"
           \/ /\ pc["inference"] \in {"collect", "sawEmpty", "gaveUp", "flush"}
              /\ pc'["inference"] \in {"collect", "sawEmpty", "gaveUp", "flush", "post", "fail"}
    BY <1>7, OneThreadGoes DEF InferenceExit, CollectDone, CollectSawEmpty, CollectPollAgain,
       CollectGiveUp, CollectTestClosed, FlushInfer
  <2> QED
    BY <2>1, <2>2, <2>3 DEF StageTypes
<1>8. CASE FlushFailEnter
  <2>1. raced' \in BOOLEAN
    BY <1>8 DEF FlushFailEnter, EnterPush
  <2> QED
    BY <1>8, <2>1, OneThreadGoes DEF FlushFailEnter, preVars, batchVars, postVars, StageTypes
<1> QED
  BY <1>1, <1>2, <1>3, <1>4, <1>5, <1>6, <1>7, <1>8 DEF Inference

\* So does the postprocess thread.
LEMMA StageTypesPostprocess == ASSUME StageTypes, Postprocess PROVE StageTypes'
<1> USE DEF Threads
<1>1. CASE PostprocessPop
  <2>1. postprocessing' \in Completions /\ postprocessQueue' \in Seq(Completions)
    BY <1>1, HeadTailProperties DEF PostprocessPop, StageTypes
  <2> QED
    BY <1>1, <2>1, OneThreadGoes, ResultIsSomething DEF PostprocessPop, preVars, batchVars, StageTypes
<1>2. CASE PostprocessFinish
  <2>1. raced' \in BOOLEAN
    BY <1>2 DEF PostprocessFinish, EnterPush
  <2> QED
    BY <1>2, <2>1, OneThreadGoes DEF PostprocessFinish, preVars, batchVars, postVars, StageTypes
<1>3. CASE PostprocessPush \/ PostprocessExit
  BY <1>3, OneThreadGoes DEF PostprocessPush, PostprocessExit, preVars, batchVars, postVars, StageTypes
<1> QED
  BY <1>1, <1>2, <1>3 DEF Postprocess

\* Every action keeps the types of the stages.
LEMMA StageTypesStep == ASSUME FrontInv, StageTypes, [Next]_vars PROVE StageTypes'
<1>1. ASSUME UNCHANGED stageVars PROVE StageTypes'
  BY <1>1 DEF stageVars, preVars, batchVars, postVars, StageTypes, PcShape
<1>2. CASE ImmediateStop
  BY <1>2 DEF ImmediateStop, preVars, batchVars, postVars, StageTypes, PcShape
<1>3. CASE \/ Submit \/ (\E t \in TaskIds : Cancel(t)) \/ GracefulStop \/ Notify \/ Deliver
           \/ WaitCall \/ WaitJoins \/ UNCHANGED vars
  BY <1>1, <1>3 DEF Submit, Cancel, GracefulStop, Notify, Deliver, WaitCall, WaitJoins, vars
<1> QED
  BY <1>2, <1>3, StageTypesPreprocess, StageTypesInference, StageTypesPostprocess DEF Next, Stopped

\* Every action keeps the front's invariant.
LEMMA FrontStep == ASSUME FrontInv, StageTypes, [Next]_vars PROVE FrontInv'
<1> USE DEF Threads
<1>0. FrontTypeOK /\ cancelRequested \in SUBSET TaskIds /\ doomed \in [TaskIds -> Dooms]
  BY DEF FrontInv, FrontTypes, FrontTypeOK
<1>1. CASE Submit
  BY <1>1, FrontInvSubmit DEF Submit
<1>2. ASSUME NEW t \in TaskIds, Cancel(t) PROVE FrontInv'
  BY <1>2, FrontInvCancel DEF Cancel
<1>3. CASE GracefulStop
  BY <1>0, <1>3, FrontInvClose DEF GracefulStop, taskVars
<1>4. CASE ImmediateStop
  <2>1. ToSet(entryQueue) \subseteq TaskIds
    BY <1>0, ElementOfSeq, LenProperties DEF ToSet, FrontTypeOK
  <2>2. cancelRequested' \in SUBSET TaskIds /\ doomed' \in [TaskIds -> Dooms]
    BY <1>0, <1>4, <2>1, DoomTypes DEF ImmediateStop
  <2> QED
    BY <1>4, <2>2, FrontInvClose DEF ImmediateStop
<1>5. CASE Notify \/ Deliver
  BY <1>5, FrontInvNotify, FrontInvDeliver DEF Notify, Deliver
<1>6. CASE WaitCall \/ WaitJoins
  BY <1>6, FrontInvWait DEF WaitCall, WaitJoins
<1>7. ASSUME UNCHANGED frontVars PROVE FrontInv'
  BY <1>7 DEF frontVars, entryVars, taskVars, dispatchVars, FrontInv, FrontTypes, FrontTypeOK,
     StopInv, TakerInv
<1>8. CASE PreprocessSleep \/ PreprocessTake \/ PreprocessNotifySpace
  BY <1>8, FrontInvSleep, FrontInvTake, FrontInvNotifySpace
     DEF PreprocessSleep, PreprocessTake, PreprocessNotifySpace
<1>9. CASE PreprocessCall
  BY <1>9, FrontInvMark DEF PreprocessCall
<1>10. ASSUME NEW c \in Completions, QueueCompletion(c.task, c.outcome, StageQueueCapacity),
              UNCHANGED <<entryVars, taskVars, waiter>>
       PROVE  FrontInv'
  BY <1>10, ResultIsSomething, FrontInvComplete
<1>11. CASE InferenceRefused
  BY <1>10, <1>11, OneThreadGoes DEF InferenceRefused, StageTypes
<1>12. CASE FlushFail
  <2>1. members # <<>>
    BY <1>12, OneThreadGoes DEF FlushFail, StageTypes
  <2>2. Head(members) \in TaskIds /\ "Failed" \in Outcomes
    BY <2>1, OneMemberGoes DEF Outcomes
  <2> QED
    BY <1>12, <2>2, FrontInvComplete DEF FlushFail
<1>13. CASE PostprocessPush
  BY <1>10, <1>13, OneThreadGoes DEF PostprocessPush, StageTypes
<1>14. CASE \/ PreprocessRecheck \/ PreprocessPush \/ PreprocessExit
            \/ InferencePop \/ InferenceExit \/ InferenceAdmit \/ InferenceRefuse \/ CollectDone
            \/ CollectPop \/ CollectSawEmpty \/ CollectPollAgain \/ CollectGiveUp
            \/ CollectTestClosed \/ FlushInfer \/ FlushMember \/ FlushFailEnter
            \/ PostprocessPop \/ PostprocessFinish \/ PostprocessExit \/ UNCHANGED vars
  BY <1>7, <1>14 DEF PreprocessRecheck, PreprocessPush, PreprocessExit, InferencePop,
     PopPreprocessed, InferenceExit, InferenceAdmit, InferenceRefuse, CollectDone, CollectPop,
     CollectSawEmpty, CollectPollAgain, CollectGiveUp, CollectTestClosed, FlushInfer, FlushMember,
     FlushFailEnter, PostprocessPop, PostprocessFinish, PostprocessExit, vars
<1> QED
  BY <1>1, <1>2, <1>3, <1>4, <1>5, <1>6, <1>8, <1>9, <1>11, <1>12, <1>13, <1>14
     DEF Next, Preprocess, Inference, Postprocess, Stopped
-----------------------------------------------------------------------------
(* What the steps do to the places of the tasks.                           *)

\* A result at the end of a queue.
LEMMA QueueAppend ==
  ASSUME NEW cs \in Seq(Completions), NEW c \in Completions
  PROVE  /\ Append(cs, c) \in Seq(Completions) /\ Len(cs) \in Nat
         /\ Len(Append(cs, c)) = Len(cs) + 1
         /\ In(Append(cs, c)) = In(cs) \cup {c.task}
         /\ Wins(Append(cs, c)) = Wins(cs) \cup Win(c)
         /\ ToSet(Append(cs, c)) = ToSet(cs) \cup {c}
<1> DEFINE more == Append(cs, c)
<1>1. /\ more \in Seq(Completions) /\ Len(more) = Len(cs) + 1 /\ Len(cs) \in Nat
      /\ \A i \in 1 .. Len(cs) : more[i] = cs[i]
      /\ more[Len(cs) + 1] = c
  BY AppendProperties, LenProperties
<1>2. ToSet(more) = ToSet(cs) \cup {c}
  BY ToSetAppend
<1> HIDE DEF more
<1>3. 1 .. Len(more) = (1 .. Len(cs)) \cup {Len(cs) + 1}
  BY <1>1
<1>4. In(more) = In(cs) \cup {c.task}
  BY <1>1, <1>3 DEF In
<1>5. Wins(more) = Wins(cs) \cup Win(c)
  BY <1>1, <1>3 DEF Wins
<1> QED
  BY <1>1, <1>2, <1>4, <1>5 DEF more

\* A result at the head of a queue.
LEMMA QueueTail ==
  ASSUME NEW cs \in Seq(Completions), cs # <<>>
  PROVE  /\ Head(cs) \in Completions /\ Tail(cs) \in Seq(Completions) /\ Len(cs) \in Nat
         /\ Len(Tail(cs)) = Len(cs) - 1
         /\ In(cs) = In(Tail(cs)) \cup {Head(cs).task}
         /\ Wins(cs) = Wins(Tail(cs)) \cup Win(Head(cs))
         /\ ToSet(cs) = ToSet(Tail(cs)) \cup {Head(cs)}
<1> DEFINE rest == Tail(cs)
<1>1. /\ Len(cs) \in Nat /\ Len(cs) # 0 /\ Head(cs) \in Completions
      /\ rest \in Seq(Completions) /\ Len(rest) = Len(cs) - 1
      /\ \A i \in 1 .. Len(rest) : rest[i] = cs[i + 1]
      /\ Head(cs) = cs[1]
  BY HeadTailProperties, LenProperties, EmptySeq
<1>2. ToSet(cs) = ToSet(rest) \cup {Head(cs)}
  BY ToSetTail
<1> HIDE DEF rest
<1>3. /\ \A i \in 1 .. Len(cs) : i = 1 \/ (i - 1 \in 1 .. Len(rest) /\ cs[i] = rest[i - 1])
      /\ \A i \in 1 .. Len(rest) : i + 1 \in 1 .. Len(cs) /\ rest[i] = cs[i + 1]
      /\ 1 \in 1 .. Len(cs) /\ Head(cs) = cs[1]
  BY <1>1
<1>4. In(cs) = In(rest) \cup {Head(cs).task}
  <2>1. In(cs) \subseteq In(rest) \cup {Head(cs).task}
    BY <1>3 DEF In
  <2>2. In(rest) \cup {Head(cs).task} \subseteq In(cs)
    BY <1>3 DEF In
  <2> QED
    BY <2>1, <2>2
<1>5. Wins(cs) = Wins(rest) \cup Win(Head(cs))
  <2>1. Wins(cs) \subseteq Wins(rest) \cup Win(Head(cs))
    BY <1>3 DEF Wins
  <2>2. Wins(rest) \cup Win(Head(cs)) \subseteq Wins(cs)
    BY <1>3 DEF Wins
  <2> QED
    BY <2>1, <2>2
<1> QED
  BY <1>1, <1>2, <1>4, <1>5 DEF rest

places == <<entryQueue, nextTaskId, members, preprocessQueue, postprocessQueue, completionQueue,
            delivered, delivering, preprocessing, looked, postprocessing>>

\* The steps that move no task and change no result, ...
QuietStep ==
    \/ (\E t \in TaskIds : Cancel(t)) \/ GracefulStop \/ ImmediateStop \/ Notify
    \/ WaitCall \/ WaitJoins \/ UNCHANGED vars
    \/ PreprocessSleep \/ PreprocessNotifySpace \/ PreprocessExit
    \/ InferenceExit \/ CollectDone \/ CollectSawEmpty \/ CollectPollAgain \/ CollectGiveUp
    \/ CollectTestClosed \/ FlushInfer \/ FlushFailEnter
    \/ PostprocessFinish \/ PostprocessExit

\* A quiet step moves no task and no result.
LEMMA QuietFrame ==
  ASSUME StageTypes, QuietStep
  PROVE  UNCHANGED <<places, Looking, Refusing>>
<1>1. UNCHANGED places
  BY DEF QuietStep, Cancel, CancelTask, GracefulStop, ImmediateStop, CloseEntry, Notify, StopNotify,
     WaitCall, WaitBegin, WaitJoins, WaitCloseInput, WaitReturn, vars, PreprocessSleep, TakerSleep,
     PreprocessNotifySpace, NotifySpace, PreprocessExit, InferenceExit, CollectDone, CollectSawEmpty,
     CollectPollAgain, CollectGiveUp, CollectTestClosed, FlushInfer, FlushFailEnter,
     PostprocessFinish, PostprocessExit, frontVars, entryVars, dispatchVars, stageVars, preVars,
     batchVars, postVars, places
<1> USE DEF Looking, Refusing
<1>2. CASE UNCHANGED pc
  BY <1>1, <1>2
<1>3. CASE PreprocessSleep \/ PreprocessNotifySpace \/ PreprocessExit \/ PostprocessFinish
           \/ PostprocessExit
  BY <1>1, <1>3, OneThreadGoes DEF PreprocessSleep, PreprocessNotifySpace, PreprocessExit,
     PostprocessFinish, PostprocessExit, Threads
<1>4. CASE \/ InferenceExit \/ CollectDone \/ CollectSawEmpty \/ CollectPollAgain \/ CollectGiveUp
           \/ CollectTestClosed \/ FlushInfer \/ FlushFailEnter
  <2>1. pc["inference"] \notin {"look", "refuse"} /\ pc'["inference"] \notin {"look", "refuse"}
    BY <1>4, OneThreadGoes DEF InferenceExit, CollectDone, CollectSawEmpty, CollectPollAgain,
       CollectGiveUp, CollectTestClosed, FlushInfer, FlushFailEnter, Threads
  <2> QED
    BY <1>1, <2>1
<1> QED
  BY <1>2, <1>3, <1>4 DEF QuietStep, Cancel, GracefulStop, ImmediateStop, Notify, WaitCall,
     WaitJoins, vars, stageVars

\* ... and the others.
BusyStep ==
    \/ Submit \/ PreprocessTake \/ PreprocessCall \/ PreprocessRecheck \/ PreprocessPush
    \/ InferencePop \/ CollectPop \/ InferenceAdmit \/ InferenceRefuse \/ InferenceRefused
    \/ FlushMember \/ FlushFail \/ PostprocessPop \/ PostprocessPush \/ Deliver

\* Every step is quiet or moves a task.
LEMMA StepsAreQuietOrBusy == ASSUME [Next]_vars PROVE QuietStep \/ BusyStep
  BY DEF Next, Preprocess, Inference, Postprocess, Stopped, QuietStep, BusyStep

\* What the busy steps do, one move for each way a task or its result goes.
entryPart == <<entryQueue, nextTaskId>>
prePart == <<preprocessing, preprocessQueue>>
inferPart == <<looked, Looking, Refusing, members>>
postPart == <<postprocessQueue, postprocessing>>
exitPart == <<completionQueue, delivering, delivered>>

Entering ==
    /\ UNCHANGED entryPart \/ Enqueue
    /\ UNCHANGED <<prePart, inferPart, postPart, exitPart>>
Taking ==
    /\ TakeFirst
    /\ preprocessing = Nothing
    /\ preprocessing' = [task |-> Head(entryQueue), outcome |-> "Completed"]
    /\ UNCHANGED <<nextTaskId, preprocessQueue, inferPart, postPart, exitPart>>
Judging ==
    /\ preprocessing \in Completions /\ preprocessing' \in Completions
    /\ preprocessing'.task = preprocessing.task
    /\ preprocessing'.outcome = "Cancelled" =>
         preprocessing.outcome = "Cancelled" \/ Cancelled(preprocessing.task)
    /\ UNCHANGED <<entryPart, preprocessQueue, inferPart, postPart, exitPart>>
Passing ==
    /\ preprocessing \in Completions /\ preprocessing' = Nothing
    /\ preprocessQueue' = Append(preprocessQueue, preprocessing)
    /\ UNCHANGED <<entryPart, inferPart, postPart, exitPart>>
Popping ==
    /\ preprocessQueue # <<>> /\ preprocessQueue' = Tail(preprocessQueue)
    /\ looked = Nothing /\ looked' = Head(preprocessQueue)
    /\ ~Looking /\ ~Refusing /\ Looking' /\ ~Refusing'
    /\ UNCHANGED <<entryPart, preprocessing, members, postPart, exitPart>>
Admitting ==
    /\ Looking /\ ~Refusing /\ ~Looking' /\ ~Refusing'
    /\ looked \in Completions /\ looked' = Nothing
    /\ ~Cancelled(looked.task) /\ looked.outcome = "Completed"
    /\ members' = Append(members, looked.task)
    /\ UNCHANGED <<entryPart, prePart, postPart, exitPart>>
Refusal ==
    /\ Looking /\ ~Refusing /\ ~Looking' /\ Refusing'
    /\ looked \in Completions /\ looked' \in Completions /\ looked'.task = looked.task
    /\ looked'.outcome = (IF Cancelled(looked.task) THEN "Cancelled" ELSE looked.outcome)
    /\ looked'.outcome # "Completed"
    /\ UNCHANGED <<entryPart, prePart, members, postPart, exitPart>>
Refused ==
    /\ ~Looking /\ Refusing /\ ~Looking' /\ ~Refusing'
    /\ looked \in Completions /\ looked' = Nothing
    /\ completionQueue' = Append(completionQueue, looked)
    /\ UNCHANGED <<entryPart, prePart, members, postPart, delivering, delivered>>
Flushing(c) ==
    /\ c \in Completions /\ c.outcome # "Cancelled"
    /\ members # <<>> /\ c.task = Head(members) /\ members' = Tail(members)
    /\ \/ /\ postprocessQueue' = Append(postprocessQueue, c)
          /\ UNCHANGED completionQueue
       \/ /\ completionQueue' = Append(completionQueue, c) /\ c.outcome # "Completed"
          /\ UNCHANGED postprocessQueue
    /\ UNCHANGED <<entryPart, prePart, looked, Looking, Refusing, postprocessing, delivering, delivered>>
Finishing ==
    /\ postprocessQueue # <<>> /\ postprocessQueue' = Tail(postprocessQueue)
    /\ postprocessing = Nothing /\ postprocessing' = Head(postprocessQueue)
    /\ UNCHANGED <<entryPart, prePart, inferPart, exitPart>>
Completing ==
    /\ postprocessing \in Completions /\ postprocessing' = Nothing
    /\ completionQueue' = Append(completionQueue, postprocessing)
    /\ UNCHANGED <<entryPart, prePart, inferPart, postprocessQueue, delivering, delivered>>
Dispatching ==
    /\ completionQueue # <<>> /\ completionQueue' = Tail(completionQueue)
    /\ delivering = Nothing /\ delivering' = Head(completionQueue)
    /\ UNCHANGED <<entryPart, prePart, inferPart, postPart, delivered>>
Delivering ==
    /\ delivering \in Completions /\ delivering' = Nothing
    /\ delivered' = Append(delivered, delivering)
    /\ UNCHANGED <<entryPart, prePart, inferPart, postPart, completionQueue>>

Moves ==
    \/ Entering \/ Taking \/ Judging \/ Passing \/ Popping \/ Admitting \/ Refusal \/ Refused
    \/ (\E c \in Completions : Flushing(c)) \/ Finishing \/ Completing \/ Dispatching \/ Delivering

\* A busy step is one of the moves above.
LEMMA BusyStepsMove ==
  ASSUME FrontInv, StageTypes, BusyStep
  PROVE  Moves
<1> USE DEF Looking, Refusing, Threads, entryPart, prePart, inferPart, postPart, exitPart
<1>1. CASE Submit
  <2>1. UNCHANGED <<dispatchVars, stageVars>>
    BY <1>1, SubmitFrame DEF Submit
  <2>2. UNCHANGED entryPart \/ Enqueue
    BY <1>1 DEF Submit, FrontSubmit, WokenSubmit, SubmitAtOnce, SubmitSleep, SubmitAfterSleep,
       SubmitSleepAgain, SubmitRefusedAfterSleep
  <2> QED
    BY <2>1, <2>2 DEF dispatchVars, stageVars, preVars, batchVars, postVars, Entering, Moves
<1>2. CASE PreprocessTake
  <2>1. pc'["inference"] = pc["inference"] /\ preprocessing = Nothing
    BY <1>2, OneThreadGoes DEF PreprocessTake, StageTypes
  <2>2. Taking
    BY <1>2, <2>1 DEF PreprocessTake, TakeFirst, dispatchVars, batchVars, postVars, Taking
  <2> QED
    BY <2>2 DEF Moves
<1>3. CASE PreprocessCall \/ PreprocessRecheck
  <2>1. /\ pc'["inference"] = pc["inference"] /\ preprocessing \in Completions
        /\ UNCHANGED <<entryQueue, nextTaskId, preprocessQueue, looked, members, postprocessQueue,
                       postprocessing, completionQueue, delivering, delivered>>
    BY <1>3, OneThreadGoes DEF PreprocessCall, PreprocessRecheck, StageTypes, frontVars, entryVars,
       dispatchVars, batchVars, postVars
  <2>2. PICK o \in Outcomes : /\ preprocessing' = [preprocessing EXCEPT !.outcome = o]
                              /\ o = "Cancelled" => \/ preprocessing.outcome = "Cancelled"
                                                   \/ Cancelled(preprocessing.task)
    BY <1>3, <2>1 DEF PreprocessCall, PreprocessRecheck, Outcomes, Completions
  <2>3. /\ preprocessing' \in Completions /\ preprocessing'.task = preprocessing.task
        /\ preprocessing'.outcome = o
    BY <2>1, <2>2 DEF Completions
  <2>4. Judging
    BY <2>1, <2>2, <2>3 DEF Judging
  <2> QED
    BY <2>4 DEF Moves
<1>4. CASE PreprocessPush
  <2>1. pc'["inference"] = pc["inference"] /\ preprocessing \in Completions
    BY <1>4, OneThreadGoes DEF PreprocessPush, StageTypes
  <2>2. Passing
    BY <1>4, <2>1 DEF PreprocessPush, frontVars, entryVars, dispatchVars, batchVars, postVars, Passing
  <2> QED
    BY <2>2 DEF Moves
<1>5. CASE InferencePop \/ CollectPop
  <2>1. pc["inference"] \notin {"look", "refuse"} /\ pc'["inference"] = "look" /\ PopPreprocessed
    BY <1>5, OneThreadGoes DEF InferencePop, CollectPop
  <2>2. looked = Nothing
    BY <2>1 DEF StageTypes
  <2>3. Popping
    BY <2>1, <2>2 DEF PopPreprocessed, frontVars, entryVars, dispatchVars, postVars, Popping
  <2> QED
    BY <2>3 DEF Moves
<1>6. CASE InferenceAdmit
  <2>1. pc["inference"] = "look" /\ pc'["inference"] = "collect" /\ looked \in Completions
    BY <1>6, OneThreadGoes DEF InferenceAdmit, StageTypes
  <2>2. Admitting
    BY <1>6, <2>1 DEF InferenceAdmit, frontVars, entryVars, dispatchVars, preVars, postVars, Admitting
  <2> QED
    BY <2>2 DEF Moves
<1>7. CASE InferenceRefuse
  <2>1. pc["inference"] = "look" /\ pc'["inference"] = "refuse" /\ looked \in Completions
    BY <1>7, OneThreadGoes DEF InferenceRefuse, StageTypes
  <2>2. /\ looked' \in Completions /\ looked'.task = looked.task
        /\ looked'.outcome = (IF Cancelled(looked.task) THEN "Cancelled" ELSE looked.outcome)
    BY <1>7, <2>1 DEF InferenceRefuse, Completions, Outcomes
  <2>3. looked'.outcome # "Completed"
    BY <1>7, <2>2 DEF InferenceRefuse
  <2>4. UNCHANGED <<entryPart, prePart, members, postPart, exitPart>>
    BY <1>7 DEF InferenceRefuse, frontVars, entryVars, dispatchVars, preVars, postVars
  <2>5. Refusal
    BY <2>1, <2>2, <2>3, <2>4 DEF Refusal
  <2> QED
    BY <2>5 DEF Moves
<1>8. ASSUME NEW c \in Completions, QueueCompletion(c.task, c.outcome, StageQueueCapacity)
      PROVE  completionQueue' = Append(completionQueue, c) /\ UNCHANGED <<delivering, delivered>>
  <2>1. c = [task |-> c.task, outcome |-> c.outcome]
    BY DEF Completions
  <2> QED
    BY <1>8, <2>1 DEF QueueCompletion
<1>9. CASE InferenceRefused
  <2>1. pc["inference"] = "refuse" /\ pc'["inference"] \in {"idle", "collect"} /\ looked \in Completions
    BY <1>9, OneThreadGoes DEF InferenceRefused, StageTypes
  <2>2. completionQueue' = Append(completionQueue, looked) /\ UNCHANGED <<delivering, delivered>>
    BY <1>8, <1>9, <2>1 DEF InferenceRefused
  <2>3. Refused
    BY <1>9, <2>1, <2>2 DEF InferenceRefused, entryVars, preVars, postVars, Refused
  <2> QED
    BY <2>3 DEF Moves
<1>10. CASE FlushMember \/ FlushFail
  <2>1. /\ pc["inference"] \in {"post", "failing"} /\ members # <<>>
        /\ pc'["inference"] \in {AfterMember("post"), AfterMember("fail")}
    BY <1>10, OneThreadGoes DEF FlushMember, FlushFail, StageTypes
  <2>2. ~Looking /\ ~Refusing /\ ~Looking' /\ ~Refusing'
    BY <2>1, OneMemberGoes
  <2>3. PICK o \in {"Completed", "Failed"} :
          \/ /\ postprocessQueue' = Append(postprocessQueue, [task |-> Head(members), outcome |-> o])
             /\ UNCHANGED <<completionQueue, delivering, delivered>>
          \/ /\ completionQueue' = Append(completionQueue, [task |-> Head(members), outcome |-> o])
             /\ UNCHANGED <<postprocessQueue, delivering, delivered>> /\ o # "Completed"
    BY <1>10 DEF FlushMember, FlushFail, QueueCompletion, frontVars, dispatchVars, postVars
  <2> DEFINE c == [task |-> Head(members), outcome |-> o]
  <2>4. c \in Completions /\ c.task = Head(members) /\ c.outcome = o /\ o # "Cancelled"
    BY <2>1, OneMemberGoes, ResultIsSomething DEF Outcomes
  <2>5. /\ members' = Tail(members)
        /\ UNCHANGED <<entryQueue, nextTaskId, preprocessing, preprocessQueue, looked, postprocessing>>
    BY <1>10 DEF FlushMember, FlushFail, frontVars, entryVars, preVars, postVars
  <2> HIDE DEF c
  <2>6. Flushing(c)
    BY <2>1, <2>2, <2>3, <2>4, <2>5 DEF Flushing, c
  <2> QED
    BY <2>4, <2>6 DEF Moves
<1>11. CASE PostprocessPop
  <2>1. pc'["inference"] = pc["inference"] /\ postprocessing = Nothing
    BY <1>11, OneThreadGoes DEF PostprocessPop, StageTypes
  <2>2. Finishing
    BY <1>11, <2>1 DEF PostprocessPop, frontVars, entryVars, dispatchVars, preVars, batchVars, Finishing
  <2> QED
    BY <2>2 DEF Moves
<1>12. CASE PostprocessPush
  <2>1. pc'["inference"] = pc["inference"] /\ postprocessing \in Completions
    BY <1>12, OneThreadGoes DEF PostprocessPush, StageTypes
  <2>2. completionQueue' = Append(completionQueue, postprocessing) /\ UNCHANGED <<delivering, delivered>>
    BY <1>8, <1>12, <2>1 DEF PostprocessPush
  <2>3. Completing
    BY <1>12, <2>1, <2>2 DEF PostprocessPush, entryVars, preVars, batchVars, Completing
  <2> QED
    BY <2>3 DEF Moves
<1>13. CASE Deliver
  <2>1. UNCHANGED <<entryPart, prePart, inferPart, postPart>>
    BY <1>13, DeliverFrame DEF Deliver, entryVars, stageVars, preVars, batchVars, postVars
  <2>2. CASE DispatcherPop
    BY <2>1, <2>2 DEF DispatcherPop, Dispatching, Moves
  <2>3. CASE DispatcherDeliver
    BY <2>1, <2>3 DEF DispatcherDeliver, FrontInv, FrontTypes, FrontTypeOK, Delivering, Moves
  <2> QED
    BY <1>13, <2>2, <2>3 DEF Deliver, Dispatcher
<1> QED
  BY <1>1, <1>2, <1>3, <1>4, <1>5, <1>6, <1>7, <1>9, <1>10, <1>11, <1>12, <1>13 DEF BusyStep
-----------------------------------------------------------------------------
(* No task is lost, and none is in two places.                             *)

\* What is known of the places: sequences of tasks and of results, and holders
\* that have a result or none.
LEMMA PlaceTypes ==
  ASSUME FrontInv, StageTypes
  PROVE  /\ entryQueue \in Seq(Nat) /\ members \in Seq(Nat)
         /\ {preprocessQueue, postprocessQueue, completionQueue, delivered} \subseteq Seq(Completions)
         /\ {preprocessing, looked, postprocessing, delivering} \subseteq Completions \cup {Nothing}
         /\ Len(entryQueue) \in Nat /\ Len(members) \in Nat
         /\ Len(preprocessQueue) \in Nat /\ Len(postprocessQueue) \in Nat
         /\ Len(completionQueue) \in Nat /\ Len(delivered) \in Nat
         /\ nextTaskId \in Nat \ {0}
         /\ \A c : One(c) \in {0, 1}
<1>1. TaskIds \subseteq Nat
  BY MaxTasksAssumption DEF TaskIds
<1>2. entryQueue \in Seq(Nat) /\ members \in Seq(Nat)
  BY <1>1, SeqMonotonic DEF FrontInv, FrontTypes, FrontTypeOK, StageTypes
<1>3. nextTaskId \in Nat \ {0}
  BY MaxTasksAssumption DEF FrontInv, FrontTypes, FrontTypeOK
<1>4. {preprocessQueue, postprocessQueue, completionQueue, delivered} \subseteq Seq(Completions)
  BY DEF FrontInv, FrontTypes, FrontTypeOK, StageTypes
<1>5. {preprocessing, looked, postprocessing, delivering} \subseteq Completions \cup {Nothing}
  BY DEF FrontInv, FrontTypes, FrontTypeOK, StageTypes
<1> QED
  BY <1>2, <1>3, <1>4, <1>5, LenProperties DEF One

\* The holder of a result, and of none.
LEMMA HolderCounts ==
  /\ Here(Nothing) = {} /\ One(Nothing) = 0 /\ Win(Nothing) = {}
  /\ \A c \in Completions : Here(c) = {c.task} /\ One(c) = 1
  BY ResultIsSomething DEF Here, One, Win, Nothing

\* A step moves a task from one place to the next: it never drops one, and
\* never leaves a second copy behind.
LEMMA PlaceInvStep ==
  ASSUME FrontInv, StageTypes, PlaceInv, Moves
  PROVE  PlaceInv'
<1>0. /\ Len(entryQueue) \in Nat /\ Len(members) \in Nat
      /\ Len(preprocessQueue) \in Nat /\ Len(postprocessQueue) \in Nat
      /\ Len(completionQueue) \in Nat /\ Len(delivered) \in Nat
      /\ nextTaskId \in Nat \ {0}
      /\ One(preprocessing) \in {0, 1} /\ One(looked) \in {0, 1}
      /\ One(postprocessing) \in {0, 1} /\ One(delivering) \in {0, 1}
  BY PlaceTypes
<1>1. ASSUME Everywhere' = Everywhere, Count' = Count, UNCHANGED nextTaskId
      PROVE  PlaceInv'
  BY <1>1 DEF PlaceInv, Accepted
<1> USE DEF entryPart, prePart, inferPart, postPart, exitPart
<1>2. CASE Entering
  <2>1. CASE UNCHANGED entryPart
    <3>1. Everywhere' = Everywhere /\ Count' = Count
      BY <1>2, <2>1 DEF Entering, Everywhere, Count
    <3> QED
      BY <1>1, <2>1, <3>1
  <2>2. CASE Enqueue
    <3>1. entryQueue' = Append(entryQueue, nextTaskId) /\ nextTaskId' = nextTaskId + 1
      BY <2>2 DEF Enqueue
    <3> entryQueue \in Seq(Nat) /\ nextTaskId \in Nat
      BY PlaceTypes
    <3>2. /\ ToSet(entryQueue') = ToSet(entryQueue) \cup {nextTaskId}
          /\ Len(entryQueue') = Len(entryQueue) + 1
      BY <3>1, ToSetAppend, AppendProperties
    <3>3. Accepted' = Accepted \cup {nextTaskId}
      BY <1>0, <3>1 DEF Accepted
    <3>4. Everywhere' = Everywhere \cup {nextTaskId}
      BY <1>2, <3>2 DEF Entering, Everywhere
    <3>5. Count' = Count + 1
      BY <1>0, <1>2, <3>2 DEF Entering, Count
    <3> QED
      BY <1>0, <3>1, <3>3, <3>4, <3>5 DEF PlaceInv
  <2> QED
    BY <1>2, <2>1, <2>2 DEF Entering
<1>3. CASE Taking
  <2>1. entryQueue # <<>> /\ entryQueue' = Tail(entryQueue) /\ Head(entryQueue) \in TaskIds
    BY <1>3, FrontInvTake DEF Taking, TakeFirst
  <2>2. /\ ToSet(entryQueue) = ToSet(entryQueue') \cup {Head(entryQueue)}
        /\ Len(entryQueue') = Len(entryQueue) - 1
    BY <2>1, PlaceTypes, ToSetTail, HeadTailProperties
  <2>3. /\ Here(preprocessing) = {} /\ One(preprocessing) = 0
        /\ Here(preprocessing') = {Head(entryQueue)} /\ One(preprocessing') = 1
    BY <1>3, <2>1, HolderCounts, ResultIsSomething DEF Taking, Outcomes
  <2>4. Everywhere' = Everywhere
    BY <1>3, <2>2, <2>3 DEF Taking, Everywhere
  <2>5. Count' = Count
    BY <1>0, <1>3, <2>2, <2>3 DEF Taking, Count
  <2> QED
    BY <1>1, <1>3, <2>4, <2>5 DEF Taking
<1>4. CASE Judging
  <2>1. Here(preprocessing') = Here(preprocessing) /\ One(preprocessing') = One(preprocessing)
    BY <1>4, HolderCounts DEF Judging
  <2>2. Everywhere' = Everywhere
    BY <1>4, <2>1 DEF Judging, Everywhere
  <2>3. Count' = Count
    BY <1>0, <1>4, <2>1 DEF Judging, Count
  <2> QED
    BY <1>1, <1>4, <2>2, <2>3 DEF Judging
<1>5. CASE Passing
  <2>1. /\ In(preprocessQueue') = In(preprocessQueue) \cup Here(preprocessing) /\ Here(preprocessing') = {}
        /\ Len(preprocessQueue') = Len(preprocessQueue) + One(preprocessing) /\ One(preprocessing') = 0
    BY <1>5, PlaceTypes, HolderCounts, QueueAppend DEF Passing
  <2>2. Everywhere' = Everywhere
    BY <1>5, <2>1 DEF Passing, Everywhere
  <2>3. Count' = Count
    BY <1>0, <1>5, <2>1 DEF Passing, Count
  <2> QED
    BY <1>1, <1>5, <2>2, <2>3 DEF Passing
<1>6. CASE Popping
  <2>1. /\ In(preprocessQueue) = In(preprocessQueue') \cup Here(looked') /\ Here(looked) = {}
        /\ Len(preprocessQueue') = Len(preprocessQueue) - One(looked') /\ One(looked) = 0 /\ One(looked') = 1
    BY <1>6, PlaceTypes, HolderCounts, QueueTail DEF Popping
  <2>2. Everywhere' = Everywhere
    BY <1>6, <2>1 DEF Popping, Everywhere
  <2>3. Count' = Count
    BY <1>0, <1>6, <2>1 DEF Popping, Count
  <2> QED
    BY <1>1, <1>6, <2>2, <2>3 DEF Popping
<1>7. CASE Admitting
  <2> members \in Seq(Nat) /\ looked.task \in Nat
    BY <1>7, PlaceTypes, ResultIsSomething DEF Admitting
  <2>1. /\ ToSet(members') = ToSet(members) \cup Here(looked) /\ Here(looked') = {}
        /\ Len(members') = Len(members) + One(looked) /\ One(looked') = 0
    BY <1>7, HolderCounts, ToSetAppend, AppendProperties DEF Admitting
  <2>2. Everywhere' = Everywhere
    BY <1>7, <2>1 DEF Admitting, Everywhere
  <2>3. Count' = Count
    BY <1>0, <1>7, <2>1 DEF Admitting, Count
  <2> QED
    BY <1>1, <1>7, <2>2, <2>3 DEF Admitting
<1>8. CASE Refusal
  <2>1. Here(looked') = Here(looked) /\ One(looked') = One(looked)
    BY <1>8, HolderCounts DEF Refusal
  <2>2. Everywhere' = Everywhere
    BY <1>8, <2>1 DEF Refusal, Everywhere
  <2>3. Count' = Count
    BY <1>0, <1>8, <2>1 DEF Refusal, Count
  <2> QED
    BY <1>1, <1>8, <2>2, <2>3 DEF Refusal
<1>9. CASE Refused
  <2>1. /\ In(completionQueue') = In(completionQueue) \cup Here(looked) /\ Here(looked') = {}
        /\ Len(completionQueue') = Len(completionQueue) + One(looked) /\ One(looked') = 0
    BY <1>9, PlaceTypes, HolderCounts, QueueAppend DEF Refused
  <2>2. Everywhere' = Everywhere
    BY <1>9, <2>1 DEF Refused, Everywhere
  <2>3. Count' = Count
    BY <1>0, <1>9, <2>1 DEF Refused, Count
  <2> QED
    BY <1>1, <1>9, <2>2, <2>3 DEF Refused
<1>10. ASSUME NEW c \in Completions, Flushing(c) PROVE PlaceInv'
  <2>1. /\ ToSet(members) = ToSet(members') \cup {c.task}
        /\ Len(members') = Len(members) - 1
    BY <1>10, PlaceTypes, ToSetTail, HeadTailProperties DEF Flushing
  <2>2. /\ In(Append(postprocessQueue, c)) = In(postprocessQueue) \cup {c.task}
        /\ Len(Append(postprocessQueue, c)) = Len(postprocessQueue) + 1
        /\ In(Append(completionQueue, c)) = In(completionQueue) \cup {c.task}
        /\ Len(Append(completionQueue, c)) = Len(completionQueue) + 1
    BY <1>10, PlaceTypes, QueueAppend
  <2>3. CASE UNCHANGED completionQueue /\ postprocessQueue' = Append(postprocessQueue, c)
    <3>1. Everywhere' = Everywhere
      BY <1>10, <2>1, <2>2, <2>3 DEF Flushing, Everywhere
    <3>2. Count' = Count
      BY <1>0, <1>10, <2>1, <2>2, <2>3 DEF Flushing, Count
    <3> QED
      BY <1>1, <1>10, <3>1, <3>2 DEF Flushing
  <2>4. CASE UNCHANGED postprocessQueue /\ completionQueue' = Append(completionQueue, c)
    <3>1. Everywhere' = Everywhere
      BY <1>10, <2>1, <2>2, <2>4 DEF Flushing, Everywhere
    <3>2. Count' = Count
      BY <1>0, <1>10, <2>1, <2>2, <2>4 DEF Flushing, Count
    <3> QED
      BY <1>1, <1>10, <3>1, <3>2 DEF Flushing
  <2> QED
    BY <1>10, <2>3, <2>4 DEF Flushing
<1>11. CASE Finishing
  <2>1. /\ In(postprocessQueue) = In(postprocessQueue') \cup Here(postprocessing') /\ Here(postprocessing) = {}
        /\ Len(postprocessQueue') = Len(postprocessQueue) - One(postprocessing') /\ One(postprocessing) = 0 /\ One(postprocessing') = 1
    BY <1>11, PlaceTypes, HolderCounts, QueueTail DEF Finishing
  <2>2. Everywhere' = Everywhere
    BY <1>11, <2>1 DEF Finishing, Everywhere
  <2>3. Count' = Count
    BY <1>0, <1>11, <2>1 DEF Finishing, Count
  <2> QED
    BY <1>1, <1>11, <2>2, <2>3 DEF Finishing
<1>12. CASE Completing
  <2>1. /\ In(completionQueue') = In(completionQueue) \cup Here(postprocessing) /\ Here(postprocessing') = {}
        /\ Len(completionQueue') = Len(completionQueue) + One(postprocessing) /\ One(postprocessing') = 0
    BY <1>12, PlaceTypes, HolderCounts, QueueAppend DEF Completing
  <2>2. Everywhere' = Everywhere
    BY <1>12, <2>1 DEF Completing, Everywhere
  <2>3. Count' = Count
    BY <1>0, <1>12, <2>1 DEF Completing, Count
  <2> QED
    BY <1>1, <1>12, <2>2, <2>3 DEF Completing
<1>13. CASE Dispatching
  <2>1. /\ In(completionQueue) = In(completionQueue') \cup Here(delivering') /\ Here(delivering) = {}
        /\ Len(completionQueue') = Len(completionQueue) - One(delivering') /\ One(delivering) = 0 /\ One(delivering') = 1
    BY <1>13, PlaceTypes, HolderCounts, QueueTail DEF Dispatching
  <2>2. Everywhere' = Everywhere
    BY <1>13, <2>1 DEF Dispatching, Everywhere
  <2>3. Count' = Count
    BY <1>0, <1>13, <2>1 DEF Dispatching, Count
  <2> QED
    BY <1>1, <1>13, <2>2, <2>3 DEF Dispatching
<1>14. CASE Delivering
  <2>1. /\ In(delivered') = In(delivered) \cup Here(delivering) /\ Here(delivering') = {}
        /\ Len(delivered') = Len(delivered) + One(delivering) /\ One(delivering') = 0
    BY <1>14, PlaceTypes, HolderCounts, QueueAppend DEF Delivering
  <2>2. Everywhere' = Everywhere
    BY <1>14, <2>1 DEF Delivering, Everywhere
  <2>3. Count' = Count
    BY <1>0, <1>14, <2>1 DEF Delivering, Count
  <2> QED
    BY <1>1, <1>14, <2>2, <2>3 DEF Delivering
<1> QED
  BY <1>2, <1>3, <1>4, <1>5, <1>6, <1>7, <1>8, <1>9, <1>10, <1>11, <1>12, <1>13, <1>14 DEF Moves
-----------------------------------------------------------------------------
(* The line up to the inference thread's look, and what is beyond it.      *)

\* How the counts along the line add up.
LEMMA LineCounts ==
  ASSUME FrontInv, StageTypes, LineInv
  PROVE  /\ LookedAt \in Nat /\ PoppedOff \in Nat /\ Preprocessed \in Nat /\ Taken \in Nat
         /\ PoppedOff = LookedAt + (IF Looking THEN 1 ELSE 0)
         /\ Preprocessed = PoppedOff + Len(preprocessQueue)
         /\ Taken = Preprocessed + One(preprocessing)
         /\ nextTaskId = Taken + Len(entryQueue) + 1
<1>1. /\ Len(entryQueue) \in Nat /\ Len(preprocessQueue) \in Nat /\ nextTaskId \in Nat
      /\ One(preprocessing) \in {0, 1}
  BY PlaceTypes
<1>2. LookedAt \in Nat /\ nextTaskId - 1 - Len(entryQueue) \in Int
  BY <1>1 DEF LineInv
<1>3. /\ Taken \in Int /\ Preprocessed \in Int /\ PoppedOff \in Int
      /\ PoppedOff = LookedAt + (IF Looking THEN 1 ELSE 0)
      /\ Preprocessed = PoppedOff + Len(preprocessQueue)
      /\ Taken = Preprocessed + One(preprocessing)
      /\ nextTaskId = Taken + Len(entryQueue) + 1
  BY <1>1, <1>2 DEF LookedAt, PoppedOff, Preprocessed, Taken
<1>4. PoppedOff \in Nat
  BY <1>2, <1>3
<1>5. Preprocessed \in Nat
  BY <1>1, <1>3, <1>4
<1>6. Taken \in Nat
  BY <1>1, <1>3, <1>5
<1> QED
  BY <1>2, <1>3, <1>4, <1>5, <1>6

\* Tasks pass through the line one behind the other, and whoever has been
\* looked at stays looked at.
LEMMA LineInvStep ==
  ASSUME FrontInv, StageTypes, LineInv, Moves
  PROVE  LineInv' /\ LookedAt' >= LookedAt
<1>0. /\ LookedAt \in Nat /\ PoppedOff \in Nat /\ Preprocessed \in Nat /\ Taken \in Nat
      /\ PoppedOff = LookedAt + (IF Looking THEN 1 ELSE 0)
      /\ Preprocessed = PoppedOff + Len(preprocessQueue)
      /\ Taken = Preprocessed + One(preprocessing)
      /\ nextTaskId = Taken + Len(entryQueue) + 1
      /\ Len(entryQueue) \in Nat /\ Len(preprocessQueue) \in Nat /\ nextTaskId \in Nat
  BY LineCounts, PlaceTypes
<1> USE DEF entryPart, prePart, inferPart, postPart, exitPart
<1>1. ASSUME UNCHANGED <<Taken, Preprocessed, PoppedOff, LookedAt, preprocessQueue, Looking>>,
             IdsAfter(entryQueue', Taken),
             preprocessing' # Nothing => preprocessing'.task = Preprocessed + 1,
             Looking => UNCHANGED looked
      PROVE  LineInv' /\ LookedAt' >= LookedAt
  BY <1>0, <1>1 DEF LineInv
<1>2. CASE Entering
  <2>1. UNCHANGED <<preprocessing, preprocessQueue, looked, Looking>>
    BY <1>2 DEF Entering
  <2>2. ASSUME Enqueue PROVE UNCHANGED Taken /\ IdsAfter(entryQueue', Taken)
    <3>1. /\ entryQueue' = Append(entryQueue, nextTaskId) /\ nextTaskId' = nextTaskId + 1
          /\ entryQueue \in Seq(Nat) /\ IdsAfter(entryQueue, Taken)
      BY <2>2, PlaceTypes DEF Enqueue, LineInv
    <3>2. Len(entryQueue') = Len(entryQueue) + 1 /\ IdsAfter(entryQueue', Taken)
      BY <1>0, <3>1, IdsAppend, AppendProperties
    <3> QED
      BY <1>0, <3>1, <3>2 DEF Taken
  <2>3. ASSUME UNCHANGED entryPart PROVE UNCHANGED Taken /\ IdsAfter(entryQueue', Taken)
    BY <2>3 DEF Taken, LineInv
  <2>4. UNCHANGED Taken /\ IdsAfter(entryQueue', Taken)
    BY <1>2, <2>2, <2>3 DEF Entering
  <2>5. UNCHANGED <<Preprocessed, PoppedOff, LookedAt>>
    BY <2>1, <2>4 DEF Preprocessed, PoppedOff, LookedAt
  <2> QED
    BY <1>1, <2>1, <2>4, <2>5 DEF LineInv
<1>3. CASE Taking
  <2>1. /\ entryQueue \in Seq(Nat) /\ entryQueue # <<>> /\ entryQueue' = Tail(entryQueue)
        /\ UNCHANGED <<nextTaskId, preprocessQueue, looked, Looking>>
        /\ preprocessing = Nothing /\ preprocessing'.task = Head(entryQueue)
        /\ preprocessing' \in Completions
    BY <1>3, PlaceTypes, FrontInvTake, ResultIsSomething DEF Taking, TakeFirst, Outcomes
  <2>2. /\ Head(entryQueue) = Taken + 1 /\ IdsAfter(entryQueue', Taken + 1)
        /\ Len(entryQueue') = Len(entryQueue) - 1
    BY <1>0, <2>1, IdsTail DEF LineInv
  <2>3. One(preprocessing) = 0 /\ One(preprocessing') = 1
    BY <2>1, HolderCounts
  <2>4. Taken' = Taken + 1
    BY <1>0, <2>1, <2>2 DEF Taken
  <2>5. Preprocessed' = Preprocessed /\ Taken = Preprocessed
    BY <1>0, <2>3, <2>4 DEF Preprocessed
  <2>6. UNCHANGED <<PoppedOff, LookedAt>>
    BY <2>1, <2>5 DEF PoppedOff, LookedAt
  <2> QED
    BY <1>0, <2>1, <2>2, <2>4, <2>5, <2>6 DEF LineInv
<1>4. CASE Judging
  <2>1. One(preprocessing') = One(preprocessing)
    BY <1>4, HolderCounts DEF Judging
  <2>2. UNCHANGED <<Taken, Preprocessed, PoppedOff, LookedAt>>
    BY <1>4, <2>1 DEF Judging, Taken, Preprocessed, PoppedOff, LookedAt
  <2> QED
    BY <1>1, <1>4, <2>2, ResultIsSomething DEF Judging, LineInv
<1>5. CASE Passing
  <2>1. /\ preprocessQueue \in Seq(Completions) /\ preprocessing \in Completions
        /\ preprocessing # Nothing /\ preprocessing' = Nothing
        /\ preprocessQueue' = Append(preprocessQueue, preprocessing)
        /\ UNCHANGED <<entryQueue, nextTaskId, looked, Looking>>
    BY <1>5, PlaceTypes, ResultIsSomething DEF Passing
  <2>2. One(preprocessing) = 1 /\ One(preprocessing') = 0
    BY <2>1, HolderCounts
  <2>3. Taken' = Taken /\ Preprocessed' = Preprocessed + 1
    BY <1>0, <2>1, <2>2 DEF Taken, Preprocessed
  <2>4. preprocessing.task = PoppedOff + Len(preprocessQueue) + 1
    BY <1>0, <2>1 DEF LineInv
  <2>5. /\ TasksAfter(preprocessQueue', PoppedOff)
        /\ Len(preprocessQueue') = Len(preprocessQueue) + 1
    BY <1>0, <2>1, <2>4, TasksAppend, AppendProperties DEF LineInv
  <2>6. PoppedOff' = PoppedOff
    BY <1>0, <2>3, <2>5 DEF PoppedOff
  <2>7. LookedAt' = LookedAt
    BY <2>1, <2>6 DEF LookedAt
  <2> QED
    BY <1>0, <2>1, <2>3, <2>5, <2>6, <2>7 DEF LineInv
<1>6. CASE Popping
  <2>1. /\ preprocessQueue \in Seq(Completions) /\ preprocessQueue # <<>>
        /\ preprocessQueue' = Tail(preprocessQueue) /\ looked' = Head(preprocessQueue)
        /\ ~Looking /\ Looking' /\ UNCHANGED <<entryQueue, nextTaskId, preprocessing>>
    BY <1>6, PlaceTypes DEF Popping
  <2>2. /\ looked'.task = PoppedOff + 1 /\ TasksAfter(preprocessQueue', PoppedOff + 1)
        /\ Len(preprocessQueue') = Len(preprocessQueue) - 1
    BY <1>0, <2>1, TasksTail DEF LineInv
  <2>3. Taken' = Taken /\ Preprocessed' = Preprocessed
    BY <2>1 DEF Taken, Preprocessed
  <2>4. PoppedOff' = PoppedOff + 1
    BY <1>0, <2>2, <2>3 DEF PoppedOff
  <2>5. LookedAt' = LookedAt /\ LookedAt = PoppedOff
    BY <1>0, <2>1, <2>4 DEF LookedAt
  <2> QED
    BY <1>0, <2>1, <2>2, <2>3, <2>4, <2>5 DEF LineInv
<1>7. CASE Admitting \/ Refusal
  <2>1. Looking /\ ~Looking' /\ UNCHANGED <<entryQueue, nextTaskId, preprocessing, preprocessQueue>>
    BY <1>7 DEF Admitting, Refusal
  <2>2. Taken' = Taken /\ Preprocessed' = Preprocessed /\ PoppedOff' = PoppedOff
    BY <2>1 DEF Taken, Preprocessed, PoppedOff
  <2>3. LookedAt' = LookedAt + 1
    BY <1>0, <2>1, <2>2 DEF LookedAt
  <2> QED
    BY <1>0, <2>1, <2>2, <2>3 DEF LineInv
<1>8. CASE \/ Refused \/ (\E c \in Completions : Flushing(c)) \/ Finishing \/ Completing
           \/ Dispatching \/ Delivering
  <2>1. /\ UNCHANGED <<entryQueue, nextTaskId, preprocessing, preprocessQueue, Looking>>
        /\ Looking => UNCHANGED looked
    BY <1>8 DEF Refused, Flushing, Finishing, Completing, Dispatching, Delivering, Looking
  <2>2. UNCHANGED <<Taken, Preprocessed, PoppedOff, LookedAt>>
    BY <2>1 DEF Taken, Preprocessed, PoppedOff, LookedAt
  <2> QED
    BY <1>1, <2>1, <2>2 DEF LineInv
<1> QED
  BY <1>2, <1>3, <1>4, <1>5, <1>6, <1>7, <1>8 DEF Moves

\* What is beyond the look is a task.
LEMMA BeyondTypes ==
  ASSUME FrontInv, StageTypes
  PROVE  Beyond \subseteq TaskIds /\ Beyond \subseteq Nat
<1>1. \A cs \in Seq(Completions) : In(cs) \subseteq TaskIds
  <2> SUFFICES ASSUME NEW cs \in Seq(Completions), NEW i \in 1 .. Len(cs)
               PROVE  cs[i].task \in TaskIds
    BY DEF In
  <2> QED
    BY ElementOfSeq, ResultIsSomething
<1>2. ToSet(members) \subseteq TaskIds
  BY ElementOfSeq, LenProperties DEF ToSet, StageTypes
<1>3. \A c \in Completions \cup {Nothing} : Here(c) \subseteq TaskIds
  BY HolderCounts, ResultIsSomething
<1>4. Beyond \subseteq TaskIds
  BY <1>1, <1>2, <1>3, PlaceTypes DEF Beyond
<1> QED
  BY <1>4 DEF TaskIds

\* What the moves do to the places beyond the look.
LEMMA BeyondMoves ==
  ASSUME FrontInv, StageTypes, Moves
  PROVE  \/ Beyond' = Beyond
         \/ /\ Admitting \/ Refused
            /\ Beyond' = Beyond \cup {looked.task}
<1> USE DEF entryPart, prePart, inferPart, postPart, exitPart
<1>1. CASE Entering \/ Taking \/ Judging \/ Passing \/ Popping \/ Refusal
  BY <1>1 DEF Entering, Taking, Judging, Passing, Popping, Refusal, Beyond
<1>2. CASE Admitting
  <2> members \in Seq(Nat) /\ looked.task \in Nat
    BY <1>2, PlaceTypes, ResultIsSomething DEF Admitting
  <2>1. ToSet(members') = ToSet(members) \cup {looked.task}
    BY <1>2, ToSetAppend DEF Admitting
  <2> QED
    BY <1>2, <2>1 DEF Admitting, Beyond
<1>3. CASE Refused
  <2>1. In(completionQueue') = In(completionQueue) \cup {looked.task}
    BY <1>3, PlaceTypes, QueueAppend DEF Refused
  <2> QED
    BY <1>3, <2>1 DEF Refused, Beyond
<1>4. ASSUME NEW c \in Completions, Flushing(c) PROVE Beyond' = Beyond
  <2>1. ToSet(members) = ToSet(members') \cup {c.task}
    BY <1>4, PlaceTypes, ToSetTail DEF Flushing
  <2>2. /\ In(Append(postprocessQueue, c)) = In(postprocessQueue) \cup {c.task}
        /\ In(Append(completionQueue, c)) = In(completionQueue) \cup {c.task}
    BY <1>4, PlaceTypes, QueueAppend
  <2>3. CASE UNCHANGED completionQueue /\ postprocessQueue' = Append(postprocessQueue, c)
    BY <1>4, <2>1, <2>2, <2>3 DEF Flushing, Beyond
  <2>4. CASE UNCHANGED postprocessQueue /\ completionQueue' = Append(completionQueue, c)
    BY <1>4, <2>1, <2>2, <2>4 DEF Flushing, Beyond
  <2> QED
    BY <1>4, <2>3, <2>4 DEF Flushing
<1>5. CASE Finishing
  <2>1. /\ In(postprocessQueue) = In(postprocessQueue') \cup Here(postprocessing')
        /\ Here(postprocessing) = {}
    BY <1>5, PlaceTypes, HolderCounts, QueueTail DEF Finishing
  <2> QED
    BY <1>5, <2>1 DEF Finishing, Beyond
<1>6. CASE Completing
  <2>1. /\ In(completionQueue') = In(completionQueue) \cup Here(postprocessing)
        /\ Here(postprocessing') = {}
    BY <1>6, PlaceTypes, HolderCounts, QueueAppend DEF Completing
  <2> QED
    BY <1>6, <2>1 DEF Completing, Beyond
<1>7. CASE Dispatching
  <2>1. /\ In(completionQueue) = In(completionQueue') \cup Here(delivering')
        /\ Here(delivering) = {}
    BY <1>7, PlaceTypes, HolderCounts, QueueTail DEF Dispatching
  <2> QED
    BY <1>7, <2>1 DEF Dispatching, Beyond
<1>8. CASE Delivering
  <2>1. In(delivered') = In(delivered) \cup Here(delivering) /\ Here(delivering') = {}
    BY <1>8, PlaceTypes, HolderCounts, QueueAppend DEF Delivering
  <2> QED
    BY <1>8, <2>1 DEF Delivering, Beyond
<1> QED
  BY <1>1, <1>2, <1>3, <1>4, <1>5, <1>6, <1>7, <1>8 DEF Moves

\* No task gets beyond the look without having been looked at.
LEMMA BeyondInvStep ==
  ASSUME FrontInv, StageTypes, LineInv, BeyondInv, Moves
  PROVE  BeyondInv'
<1>0. /\ LineInv' /\ LookedAt' >= LookedAt /\ LookedAt \in Nat /\ LookedAt' \in Nat
      /\ Beyond \subseteq Nat
  BY LineInvStep, LineCounts, BeyondTypes DEF LineInv
<1> USE DEF entryPart, prePart, inferPart, postPart, exitPart
<1>1. \A t \in Beyond : t <= LookedAt'
  BY <1>0 DEF BeyondInv
<1>2. \/ UNCHANGED <<looked, Refusing>>
      \/ ~Refusing'
      \/ Refusal
  BY DEF Moves, Entering, Taking, Judging, Passing, Popping, Admitting, Refused, Flushing,
     Finishing, Completing, Dispatching, Delivering
<1>3. CASE Admitting \/ Refusal
  <2>1. looked.task = LookedAt + 1 /\ Looking /\ ~Looking'
    BY <1>3 DEF Admitting, Refusal, LineInv
  <2>2. UNCHANGED PoppedOff
    BY <1>3 DEF Admitting, Refusal, PoppedOff, Preprocessed, Taken
  <2>3. LookedAt' = LookedAt + 1
    BY <2>1, <2>2, LineCounts DEF LookedAt
  <2>4. Beyond' \subseteq Beyond \cup {looked.task}
    BY BeyondMoves
  <2> QED
    BY <1>0, <1>1, <1>3, <2>1, <2>3, <2>4 DEF BeyondInv, Admitting, Refusal
<1>4. CASE Refused
  <2>1. looked.task \in Nat /\ looked.task <= LookedAt /\ ~Refusing'
    BY <1>4, ResultIsSomething DEF Refused, BeyondInv
  <2>2. Beyond' \subseteq Beyond \cup {looked.task}
    BY BeyondMoves
  <2> QED
    BY <1>0, <1>1, <2>1, <2>2 DEF BeyondInv
<1>5. CASE ~(Admitting \/ Refusal \/ Refused)
  <2>1. Beyond' = Beyond
    BY <1>5, BeyondMoves
  <2>2. Refusing /\ looked' = looked => looked'.task \in Nat /\ looked'.task <= LookedAt
    BY PlaceTypes, ResultIsSomething DEF BeyondInv, Refusing, StageTypes
  <2> QED
    BY <1>0, <1>1, <1>2, <1>5, <2>1, <2>2 DEF BeyondInv
<1> QED
  BY <1>3, <1>4, <1>5
-----------------------------------------------------------------------------
(* SpaceInv.                                                               *)

\* No step loses the notification that a sleeping submitter waits for.
LEMMA SpaceInvStep ==
  ASSUME FrontInv, StageTypes, SpaceInv(Coming), [Next]_vars
  PROVE  SpaceInv(Coming)'
<1> USE DEF Coming
<1>1. ASSUME UNCHANGED entryVars, pc["preprocess"] = "notify" => pc'["preprocess"] = "notify"
      PROVE  SpaceInv(Coming)'
  <2>1. Len(entryQueue) \in Nat /\ woken \in Nat
    BY CountTypes DEF FrontInv, FrontTypes, FrontTypeOK
  <2> QED
    BY <1>1, <2>1, QueueCapacityAssumption DEF SpaceInv, entryVars
<1>2. CASE Submit
  BY <1>2, SpaceInvSubmit DEF Submit, stageVars, SpaceInv
<1>3. CASE GracefulStop \/ ImmediateStop \/ WaitCall \/ Notify
  BY <1>3 DEF GracefulStop, ImmediateStop, CloseEntry, WaitCall, WaitBegin, Notify, StopNotify,
     SpaceInv, stageVars
<1>4. CASE PreprocessTake
  <2>1. pc["preprocess"] = "idle" /\ pc'["preprocess"] = "notify" /\ TakeFirst
    BY <1>4, OneThreadGoes DEF PreprocessTake, Threads
  <2> QED
    BY <2>1, SpaceInvTake DEF SpaceInv
<1>5. CASE PreprocessNotifySpace
  <2>1. pc["preprocess"] = "notify" /\ pc'["preprocess"] = "call" /\ NotifySpace
    BY <1>5, OneThreadGoes DEF PreprocessNotifySpace, Threads
  <2> QED
    BY <2>1, SpaceInvNotifySpace DEF SpaceInv
<1>6. CASE PreprocessSleep
  BY <1>6 DEF PreprocessSleep, TakerSleep, stageVars, SpaceInv
<1>7. ASSUME NEW t, Cancel(t) \/ Deliver \/ WaitJoins \/ UNCHANGED vars
      PROVE  SpaceInv(Coming)'
  BY <1>1, <1>7, DeliverFrame DEF Cancel, CancelTask, Deliver, WaitJoins, WaitCloseInput, WaitReturn,
     vars, frontVars, stageVars
<1>8. CASE PreprocessCall \/ PreprocessRecheck \/ PreprocessPush \/ PreprocessExit
  <2>1. UNCHANGED entryVars /\ pc["preprocess"] # "notify"
    BY <1>8, OneThreadGoes DEF PreprocessCall, PreprocessRecheck, PreprocessPush, PreprocessExit,
       frontVars, Threads
  <2> QED
    BY <1>1, <2>1
<1>9. CASE Inference \/ Postprocess
  <2>1. UNCHANGED entryVars
    BY <1>9 DEF Inference, Postprocess, InferencePop, CollectPop, PopPreprocessed, InferenceExit,
       InferenceAdmit, InferenceRefuse, InferenceRefused, CollectDone, CollectSawEmpty,
       CollectPollAgain, CollectGiveUp, CollectTestClosed, FlushInfer, FlushMember, FlushFailEnter,
       FlushFail, PostprocessPop, PostprocessFinish, PostprocessPush, PostprocessExit, frontVars
  <2>2. \E h \in {"inference", "postprocess"} : \E from, to : Goes(h, from, to)
    BY <1>9 DEF Inference, Postprocess, InferencePop, CollectPop, InferenceExit,
       InferenceAdmit, InferenceRefuse, InferenceRefused, CollectDone, CollectSawEmpty,
       CollectPollAgain, CollectGiveUp, CollectTestClosed, FlushInfer, FlushMember, FlushFailEnter,
       FlushFail, PostprocessPop, PostprocessFinish, PostprocessPush, PostprocessExit
  <2>3. pc'["preprocess"] = pc["preprocess"]
    BY <2>2, OneThreadGoes DEF Threads
  <2> QED
    BY <1>1, <2>1, <2>3
<1> QED
  BY <1>2, <1>3, <1>4, <1>5, <1>6, <1>7, <1>8, <1>9 DEF Next, Preprocess, Stopped
-----------------------------------------------------------------------------
(* Cancellation.                                                           *)

\* What moves a task leaves the record of cancellations alone.
LEMMA BusyKeepsRecord ==
  ASSUME BusyStep
  PROVE  UNCHANGED <<cancelRequested, doomed, immediate, stopRequested, waiter>>
<1>1. CASE Submit \/ Deliver
  BY <1>1, SubmitFrame, DeliverFrame DEF Submit, Deliver, entryVars, stageVars
<1>2. CASE PreprocessTake \/ PreprocessCall \/ PreprocessRecheck \/ PreprocessPush
  BY <1>2 DEF PreprocessTake, TakeFirst, PreprocessCall, PreprocessRecheck, PreprocessPush,
     frontVars, entryVars, taskVars
<1>3. CASE \/ InferencePop \/ CollectPop \/ InferenceAdmit \/ InferenceRefuse \/ InferenceRefused
           \/ FlushMember \/ FlushFail \/ PostprocessPop \/ PostprocessPush
  BY <1>3 DEF InferencePop, CollectPop, PopPreprocessed, InferenceAdmit, InferenceRefuse,
     InferenceRefused, FlushMember, FlushFail, PostprocessPop, PostprocessPush, frontVars,
     entryVars, taskVars
<1> QED
  BY <1>1, <1>2, <1>3 DEF BusyStep

\* Only cancel() and an immediate stop write to the record.
LEMMA RecordChanges ==
  ASSUME [Next]_vars
  PROVE  \/ UNCHANGED <<cancelRequested, doomed, immediate>>
         \/ (\E t \in TaskIds : Cancel(t)) \/ ImmediateStop
<1>1. CASE \/ GracefulStop \/ Notify \/ WaitCall \/ WaitJoins \/ UNCHANGED vars \/ PreprocessSleep
           \/ PreprocessNotifySpace \/ PreprocessExit \/ InferenceExit \/ CollectDone
           \/ CollectSawEmpty \/ CollectPollAgain \/ CollectGiveUp \/ CollectTestClosed \/ FlushInfer
           \/ FlushFailEnter \/ PostprocessFinish \/ PostprocessExit
  BY <1>1 DEF GracefulStop, Notify, StopNotify, WaitCall, WaitBegin, WaitJoins, WaitCloseInput,
     WaitReturn, vars, PreprocessSleep, TakerSleep, PreprocessNotifySpace, NotifySpace,
     PreprocessExit, InferenceExit, CollectDone, CollectSawEmpty, CollectPollAgain, CollectGiveUp,
     CollectTestClosed, FlushInfer, FlushFailEnter, PostprocessFinish, PostprocessExit, frontVars,
     taskVars, stageVars
<1> QED
  BY <1>1, StepsAreQuietOrBusy, BusyKeepsRecord DEF QuietStep

\* A cancellation is never taken back.
LEMMA CancelledStays ==
  ASSUME [Next]_vars, NEW t, Cancelled(t)
  PROVE  Cancelled(t)'
  BY RecordChanges DEF Cancel, CancelTask, ImmediateStop, Cancelled, stageVars

\* Whoever is cancelled has his request on record from then on.
LEMMA DoomedInvStep ==
  ASSUME FrontInv, DoomedInv, [Next]_vars
  PROVE  DoomedInv'
<1>0. FrontTypeOK
  BY DEF FrontInv, FrontTypes
<1>1. CASE UNCHANGED doomed
  BY <1>1, CancelledStays DEF DoomedInv
<1>2. ASSUME NEW t \in TaskIds, Cancel(t) PROVE DoomedInv'
  <2>1. \A u \in TaskIds : Cancelled(u) \/ u = t => Cancelled(u)'
    BY <1>2, CancelledStays DEF Cancel, CancelTask, Cancelled, stageVars
  <2> QED
    BY <1>0, <1>2, <2>1, DoomTypes DEF DoomedInv, Cancel, CancelTask
<1>3. CASE ImmediateStop
  BY <1>3 DEF ImmediateStop, DoomedInv, Cancelled
<1> QED
  BY <1>1, <1>2, <1>3, RecordChanges

\* A move leads to at most one new result.
LEMMA ResultsOfMoves ==
  ASSUME FrontInv, StageTypes, Moves
  PROVE  \/ Results' \subseteq Results \cup {Nothing}
         \/ Taking /\ Results' \subseteq Results \cup {preprocessing'}
         \/ Judging /\ Results' \subseteq Results \cup {preprocessing'}
         \/ Refusal /\ Results' \subseteq Results \cup {looked'}
         \/ \E c \in Completions : Flushing(c) /\ Results' \subseteq Results \cup {c}
<1> USE DEF Results, Answers, entryPart, prePart, inferPart, postPart, exitPart
<1>1. CASE Entering
  BY <1>1 DEF Entering
<1>2. CASE Taking
  BY <1>2 DEF Taking
<1>3. CASE Judging
  BY <1>3 DEF Judging
<1>4. CASE Passing
  <2>1. ToSet(preprocessQueue') = ToSet(preprocessQueue) \cup {preprocessing}
    BY <1>4, PlaceTypes, QueueAppend DEF Passing
  <2> QED
    BY <1>4, <2>1 DEF Passing
<1>5. CASE Popping
  <2>1. ToSet(preprocessQueue) = ToSet(preprocessQueue') \cup {looked'}
    BY <1>5, PlaceTypes, QueueTail DEF Popping
  <2> QED
    BY <1>5, <2>1 DEF Popping
<1>6. CASE Admitting
  BY <1>6 DEF Admitting
<1>7. CASE Refusal
  BY <1>7 DEF Refusal
<1>8. CASE Refused
  <2>1. ToSet(completionQueue') = ToSet(completionQueue) \cup {looked}
    BY <1>8, PlaceTypes, QueueAppend DEF Refused
  <2> QED
    BY <1>8, <2>1 DEF Refused
<1>9. ASSUME NEW c \in Completions, Flushing(c) PROVE Results' \subseteq Results \cup {c}
  <2>1. /\ ToSet(Append(postprocessQueue, c)) = ToSet(postprocessQueue) \cup {c}
        /\ ToSet(Append(completionQueue, c)) = ToSet(completionQueue) \cup {c}
    BY <1>9, PlaceTypes, QueueAppend
  <2> QED
    BY <1>9, <2>1 DEF Flushing
<1>10. CASE Finishing
  <2>1. ToSet(postprocessQueue) = ToSet(postprocessQueue') \cup {postprocessing'}
    BY <1>10, PlaceTypes, QueueTail DEF Finishing
  <2> QED
    BY <1>10, <2>1 DEF Finishing
<1>11. CASE Completing
  <2>1. ToSet(completionQueue') = ToSet(completionQueue) \cup {postprocessing}
    BY <1>11, PlaceTypes, QueueAppend DEF Completing
  <2> QED
    BY <1>11, <2>1 DEF Completing
<1>12. CASE Dispatching
  <2>1. ToSet(completionQueue) = ToSet(completionQueue') \cup {delivering'}
    BY <1>12, PlaceTypes, QueueTail DEF Dispatching
  <2> QED
    BY <1>12, <2>1 DEF Dispatching
<1>13. CASE Delivering
  <2>1. ToSet(delivered') = ToSet(delivered) \cup {delivering}
    BY <1>13, PlaceTypes, QueueAppend DEF Delivering
  <2> QED
    BY <1>13, <2>1 DEF Delivering
<1> QED
  BY <1>1, <1>2, <1>3, <1>4, <1>5, <1>6, <1>7, <1>8, <1>9, <1>10, <1>11, <1>12, <1>13 DEF Moves

\* Only a task that was cancelled is ever called cancelled.
LEMMA ReasonInvStep ==
  ASSUME FrontInv, StageTypes, ReasonInv, [Next]_vars, QuietStep \/ Moves
  PROVE  ReasonInv'
<1>1. ASSUME NEW c, c.outcome = "Cancelled" => Cancelled(c.task)',
             Results' \subseteq Results \cup {c}
      PROVE  ReasonInv'
  BY <1>1, CancelledStays DEF ReasonInv
<1>2. CASE Results' \subseteq Results \cup {Nothing}
  BY <1>2, CancelledStays DEF ReasonInv
<1>3. CASE QuietStep
  BY <1>2, <1>3, QuietFrame DEF places, Results, Answers
<1>4. CASE Taking /\ Results' \subseteq Results \cup {preprocessing'}
  <2>1. PICK c : c = preprocessing'
    OBVIOUS
  <2> QED
    BY <1>1, <1>4, <2>1 DEF Taking
<1>5. CASE Judging /\ Results' \subseteq Results \cup {preprocessing'}
  <2>1. PICK c : c = preprocessing'
    OBVIOUS
  <2>2. preprocessing.outcome = "Cancelled" => Cancelled(preprocessing.task)
    BY <1>5, ResultIsSomething DEF Judging, ReasonInv, Results
  <2>3. PICK t : t = preprocessing.task
    OBVIOUS
  <2>4. c.task = t /\ (c.outcome = "Cancelled" => Cancelled(t))
    BY <1>5, <2>1, <2>2, <2>3 DEF Judging
  <2>5. c.outcome = "Cancelled" => Cancelled(c.task)'
    BY <2>4, CancelledStays
  <2> QED
    BY <1>1, <1>5, <2>1, <2>5
<1>6. CASE Refusal /\ Results' \subseteq Results \cup {looked'}
  <2>1. PICK c : c = looked'
    OBVIOUS
  <2>2. looked.outcome = "Cancelled" => Cancelled(looked.task)
    BY <1>6, ResultIsSomething DEF Refusal, ReasonInv, Results
  <2>3. PICK t : t = looked.task
    OBVIOUS
  <2>4. c.task = t /\ (c.outcome = "Cancelled" => Cancelled(t))
    BY <1>6, <2>1, <2>2, <2>3 DEF Refusal
  <2>5. c.outcome = "Cancelled" => Cancelled(c.task)'
    BY <2>4, CancelledStays
  <2> QED
    BY <1>1, <1>6, <2>1, <2>5
<1>7. ASSUME NEW c \in Completions, Flushing(c), Results' \subseteq Results \cup {c}
      PROVE  ReasonInv'
  BY <1>1, <1>7 DEF Flushing
<1> QED
  BY <1>2, <1>3, <1>4, <1>5, <1>6, <1>7, ResultsOfMoves

\* What a cancellation may still decide has yet to be looked at.
LEMMA UndecidedRange ==
  ASSUME FrontInv, StageTypes, LineInv
  PROVE  \A t \in Unstarted \cup Undecided : t \in Nat /\ t > LookedAt
<1>0. /\ LookedAt \in Nat /\ PoppedOff \in Nat /\ Preprocessed \in Nat /\ Taken \in Nat
      /\ LookedAt <= PoppedOff /\ PoppedOff <= Preprocessed /\ Preprocessed <= Taken
  <2>1. Len(preprocessQueue) \in Nat /\ One(preprocessing) \in {0, 1}
    BY PlaceTypes
  <2> QED
    BY <2>1, LineCounts
<1>1. \A t \in ToSet(entryQueue) : t \in Nat /\ t > LookedAt
  <2> TAKE t \in ToSet(entryQueue)
  <2>1. entryQueue \in Seq(Nat) /\ IdsAfter(entryQueue, Taken)
    BY PlaceTypes DEF LineInv
  <2>2. t > Taken
    BY <1>0, <2>1, IdsMembers
  <2>3. t \in Nat
    BY <2>1, ElementOfSeq, LenProperties DEF ToSet
  <2> QED
    BY <1>0, <2>2, <2>3
<1>2. preprocessing # Nothing => preprocessing.task \in Nat /\ preprocessing.task > LookedAt
  BY <1>0 DEF LineInv
<1>3. \A c \in ToSet(preprocessQueue) : c.task \in Nat /\ c.task > LookedAt
  <2> TAKE c \in ToSet(preprocessQueue)
  <2>1. preprocessQueue \in Seq(Completions) /\ Len(preprocessQueue) \in Nat
    BY PlaceTypes
  <2>2. PICK i \in 1 .. Len(preprocessQueue) : c = preprocessQueue[i]
    BY <2>1, LenProperties DEF ToSet
  <2> QED
    BY <1>0, <2>1, <2>2 DEF LineInv, TasksAfter
<1>4. Looking => looked.task \in Nat /\ looked.task > LookedAt
  BY <1>0 DEF LineInv
<1>5. \A t \in Unstarted : t \in Nat /\ t > LookedAt
  BY <1>1, <1>2 DEF Unstarted, StageTypes
<1>6. preprocessing = Nothing => preprocessing.task = NoTask
  BY DEF Nothing
<1>7. \A t \in Tasks({preprocessing} \cup ToSet(preprocessQueue) \cup
                     (IF pc["inference"] = "look" THEN {looked} ELSE {})) : t \in Nat /\ t > LookedAt
  BY <1>2, <1>3, <1>4, <1>6 DEF Tasks, Looking
<1> QED
  BY <1>5, <1>7 DEF Undecided

\* The tasks of the answers are beyond the look.
LEMMA AnswersAreBeyond ==
  ASSUME FrontInv, StageTypes
  PROVE  \A c \in Answers : c \in Completions /\ c.task \in Beyond
<1>1. \A cs \in Seq(Completions) : \A c \in ToSet(cs) : c \in Completions /\ c.task \in In(cs)
  <2> SUFFICES ASSUME NEW cs \in Seq(Completions), NEW c \in ToSet(cs)
               PROVE  c \in Completions /\ c.task \in In(cs)
    OBVIOUS
  <2>1. PICK i \in 1 .. Len(cs) : c = cs[i]
    BY LenProperties DEF ToSet
  <2> QED
    BY <2>1, ElementOfSeq DEF In
<1>2. delivering # Nothing => delivering \in Completions /\ delivering.task \in Here(delivering)
  BY PlaceTypes DEF Here
<1>3. \A c \in ToSet(delivered) \cup ToSet(completionQueue) :
         c \in Completions /\ c.task \in In(delivered) \cup In(completionQueue)
  BY <1>1, PlaceTypes
<1> QED
  BY <1>2, <1>3 DEF Answers, Beyond

\* A cancellation decides nothing that has been decided: it dooms no task that
\* has been looked at.
LEMMA CancellationSpares ==
  ASSUME FrontInv, StageTypes, LineInv, BeyondInv, DecidedInv, QuietStep,
         NEW tasks, Doom(tasks, Unstarted, Undecided)
  PROVE  DecidedInv'
<1>1. \A t \in TaskIds : t <= LookedAt => doomed'[t] = doomed[t]
  <2> SUFFICES ASSUME NEW t \in TaskIds, t <= LookedAt PROVE t \notin Unstarted \cup Undecided
    BY DoomTypes DEF FrontInv, FrontTypes
  <2> QED
    BY UndecidedRange, LineCounts
<1>2. \A t \in Beyond : doomed'[t] = doomed[t]
  BY <1>1, BeyondTypes DEF BeyondInv
<1>3. UNCHANGED <<Answers, Refusing, looked, InHand, Beyond>>
  BY QuietFrame DEF places, Answers, InHand, Beyond
<1>4. \A c \in Answers : doomed'[c.task] = doomed[c.task]
  BY <1>2, AnswersAreBeyond
<1>5. Refusing => doomed'[looked.task] = doomed[looked.task]
  <2>1. Refusing => looked.task \in TaskIds
    BY PlaceTypes, ResultIsSomething DEF Refusing, StageTypes
  <2> QED
    BY <1>1, <2>1 DEF BeyondInv
<1>6. \A t \in InHand : doomed'[t] = doomed[t]
  BY <1>2 DEF InHand, Beyond
<1> QED
  BY <1>3, <1>4, <1>5, <1>6 DEF DecidedInv, Decided

\* A move decides by the record, as it stands.
LEMMA DecidedInvMoves ==
  ASSUME FrontInv, StageTypes, DoomedInv, DecidedInv, UNCHANGED doomed, Moves
  PROVE  DecidedInv'
<1> USE DEF entryPart, prePart, inferPart, postPart, exitPart
<1>1. ASSUME UNCHANGED <<Answers, InHand>>, Refusing' => Refusing /\ UNCHANGED looked
      PROVE  DecidedInv'
  BY <1>1 DEF DecidedInv, Decided
<1>2. CASE Entering \/ Taking \/ Judging \/ Passing \/ Popping
  <2>1. UNCHANGED <<Answers, InHand>>
    BY <1>2 DEF Entering, Taking, Judging, Passing, Popping, Answers, InHand
  <2>2. Refusing' => Refusing /\ UNCHANGED looked
    BY <1>2 DEF Entering, Taking, Judging, Passing, Popping
  <2> QED
    BY <1>1, <2>1, <2>2
<1>3. CASE Admitting
  <2>1. doomed[looked.task] = "no"
    BY <1>3, ResultIsSomething DEF Admitting, DoomedInv
  <2> members \in Seq(Nat) /\ looked.task \in Nat
    BY <1>3, PlaceTypes, ResultIsSomething DEF Admitting
  <2>2. ToSet(members') = ToSet(members) \cup {looked.task}
    BY <1>3, ToSetAppend DEF Admitting
  <2>3. InHand' = InHand \cup {looked.task} /\ Answers' = Answers /\ ~Refusing'
    BY <1>3, <2>2 DEF Admitting, InHand, Answers
  <2> QED
    BY <2>1, <2>3 DEF DecidedInv, Decided
<1>4. CASE Refusal
  <2>1. UNCHANGED <<Answers, InHand>>
    BY <1>4 DEF Refusal, Answers, InHand
  <2>2. doomed[looked.task] # "no" => looked'.outcome = "Cancelled"
    BY <1>4, ResultIsSomething DEF Refusal, DoomedInv
  <2> QED
    BY <1>4, <2>1, <2>2 DEF DecidedInv, Decided, Refusal
<1>5. CASE Refused
  <2>1. ToSet(completionQueue') = ToSet(completionQueue) \cup {looked}
    BY <1>5, PlaceTypes, QueueAppend DEF Refused
  <2>2. Answers' = Answers \cup {looked} /\ InHand' = InHand
    BY <1>5, <2>1, ResultIsSomething DEF Refused, Answers, InHand
  <2> QED
    BY <1>5, <2>2 DEF DecidedInv, Decided, Refused
<1>6. ASSUME NEW c \in Completions, Flushing(c) PROVE DecidedInv'
  <2>1. ToSet(members) = ToSet(members') \cup {c.task}
    BY <1>6, PlaceTypes, ToSetTail DEF Flushing
  <2>2. /\ In(Append(postprocessQueue, c)) = In(postprocessQueue) \cup {c.task}
        /\ ToSet(Append(completionQueue, c)) = ToSet(completionQueue) \cup {c}
    BY <1>6, PlaceTypes, QueueAppend
  <2>3. InHand' \subseteq InHand /\ doomed[c.task] = "no"
    BY <1>6, <2>1, <2>2 DEF Flushing, InHand, DecidedInv
  <2>4. Answers' \subseteq Answers \cup {c}
    BY <1>6, <2>2 DEF Flushing, Answers
  <2> QED
    BY <1>6, <2>3, <2>4 DEF DecidedInv, Decided, Flushing
<1>7. CASE Finishing
  <2>1. /\ In(postprocessQueue) = In(postprocessQueue') \cup Here(postprocessing')
        /\ Here(postprocessing) = {}
    BY <1>7, PlaceTypes, HolderCounts, QueueTail DEF Finishing
  <2>2. UNCHANGED <<Answers, InHand>> /\ (Refusing' => Refusing /\ UNCHANGED looked)
    BY <1>7, <2>1 DEF Finishing, Answers, InHand
  <2> QED
    BY <1>1, <2>2
<1>8. CASE Completing
  <2>1. /\ ToSet(completionQueue') = ToSet(completionQueue) \cup {postprocessing}
        /\ Here(postprocessing) = {postprocessing.task} /\ Here(postprocessing') = {}
    BY <1>8, PlaceTypes, HolderCounts, QueueAppend DEF Completing
  <2>2. /\ Answers' = Answers \cup {postprocessing} /\ InHand' \subseteq InHand
        /\ postprocessing.task \in InHand
    BY <1>8, <2>1, ResultIsSomething DEF Completing, Answers, InHand
  <2> QED
    BY <1>8, <2>2 DEF DecidedInv, Decided, Completing
<1>9. CASE Dispatching
  <2>1. /\ ToSet(completionQueue) = ToSet(completionQueue') \cup {delivering'}
        /\ delivering' # Nothing
    BY <1>9, PlaceTypes, QueueTail, ResultIsSomething DEF Dispatching
  <2>2. UNCHANGED <<Answers, InHand>> /\ (Refusing' => Refusing /\ UNCHANGED looked)
    BY <1>9, <2>1 DEF Dispatching, Answers, InHand
  <2> QED
    BY <1>1, <2>2
<1>10. CASE Delivering
  <2>1. /\ ToSet(delivered') = ToSet(delivered) \cup {delivering} /\ delivering # Nothing
    BY <1>10, PlaceTypes, QueueAppend, ResultIsSomething DEF Delivering
  <2>2. UNCHANGED <<Answers, InHand>> /\ (Refusing' => Refusing /\ UNCHANGED looked)
    BY <1>10, <2>1 DEF Delivering, Answers, InHand
  <2> QED
    BY <1>1, <2>2
<1> QED
  BY <1>2, <1>3, <1>4, <1>5, <1>6, <1>7, <1>8, <1>9, <1>10 DEF Moves

\* A cancellation that came before the look decides, whatever comes later.
LEMMA DecidedInvStep ==
  ASSUME FrontInv, StageTypes, LineInv, BeyondInv, DoomedInv, DecidedInv, [Next]_vars
  PROVE  DecidedInv'
<1>1. CASE BusyStep
  BY <1>1, BusyKeepsRecord, BusyStepsMove, DecidedInvMoves
<1>2. CASE QuietStep /\ UNCHANGED doomed
  <2>1. UNCHANGED <<Answers, Refusing, looked, InHand>>
    BY <1>2, QuietFrame DEF places, Answers, InHand
  <2> QED
    BY <1>2, <2>1 DEF DecidedInv, Decided
<1>3. ASSUME NEW t \in TaskIds, Cancel(t) PROVE DecidedInv'
  BY <1>3, CancellationSpares DEF Cancel, CancelTask, QuietStep
<1>4. CASE ImmediateStop
  BY <1>4, CancellationSpares DEF ImmediateStop, QuietStep
<1> QED
  BY <1>1, <1>2, <1>3, <1>4, StepsAreQuietOrBusy, RecordChanges
-----------------------------------------------------------------------------
(* Successes stay in the order of submission.                              *)

\* A queue of results gets a new last element, ...
LEMMA IncreasingAppend ==
  ASSUME NEW cs \in Seq(Completions), NEW c \in Completions, Increasing(cs), Below(Wins(cs), Win(c))
  PROVE  Increasing(Append(cs, c))
<1> DEFINE more == Append(cs, c)
<1>1. /\ Len(more) = Len(cs) + 1 /\ Len(cs) \in Nat
      /\ \A i \in 1 .. Len(cs) : more[i] = cs[i]
      /\ more[Len(cs) + 1] = c
  BY AppendProperties, LenProperties
<1>2. \A i \in 1 .. Len(cs) : cs[i].outcome = "Completed" /\ c.outcome = "Completed"
                                => cs[i].task < c.task
  BY DEF Below, Wins, Win
<1> HIDE DEF more
<1>3. \A i \in 1 .. Len(more) : i \in 1 .. Len(cs) \/ i = Len(cs) + 1
  BY <1>1
<1>4. \A i, j \in 1 .. Len(more) : i < j => i \in 1 .. Len(cs)
  BY <1>1
<1> SUFFICES ASSUME NEW i \in 1 .. Len(more), NEW j \in 1 .. Len(more), i < j,
                    more[i].outcome = "Completed", more[j].outcome = "Completed"
             PROVE  more[i].task < more[j].task
  BY DEF Increasing, more
<1>5. i \in 1 .. Len(cs) /\ more[i] = cs[i]
  BY <1>1, <1>4
<1>6. CASE j \in 1 .. Len(cs)
  BY <1>1, <1>5, <1>6 DEF Increasing
<1>7. CASE j = Len(cs) + 1
  BY <1>1, <1>2, <1>5, <1>7
<1> QED
  BY <1>3, <1>6, <1>7

\* ... and so does a batch.
LEMMA RisingAppend ==
  ASSUME NEW ids \in Seq(Nat), NEW t \in Nat, Rising(ids), \A a \in ToSet(ids) : a < t
  PROVE  Rising(Append(ids, t))
<1> DEFINE more == Append(ids, t)
<1>1. /\ Len(more) = Len(ids) + 1 /\ Len(ids) \in Nat
      /\ \A i \in 1 .. Len(ids) : more[i] = ids[i]
      /\ more[Len(ids) + 1] = t
  BY AppendProperties, LenProperties
<1>2. \A i \in 1 .. Len(ids) : ids[i] < t
  BY LenProperties DEF ToSet
<1> HIDE DEF more
<1>3. \A i, j \in 1 .. Len(more) : i < j =>
         i \in 1 .. Len(ids) /\ (j \in 1 .. Len(ids) \/ j = Len(ids) + 1)
  BY <1>1
<1> SUFFICES ASSUME NEW i \in 1 .. Len(more), NEW j \in 1 .. Len(more), i < j
             PROVE  more[i] < more[j]
  BY DEF Rising, more
<1>4. CASE j \in 1 .. Len(ids)
  BY <1>1, <1>3, <1>4 DEF Rising
<1>5. CASE j = Len(ids) + 1
  BY <1>1, <1>2, <1>3, <1>5
<1> QED
  BY <1>3, <1>4, <1>5

\* A queue of results loses its first element, which came before the others, ...
LEMMA IncreasingTail ==
  ASSUME NEW cs \in Seq(Completions), cs # <<>>, Increasing(cs)
  PROVE  Increasing(Tail(cs)) /\ Below(Win(Head(cs)), Wins(Tail(cs)))
<1> DEFINE rest == Tail(cs)
<1>1. /\ Len(cs) \in Nat /\ Len(cs) # 0 /\ Len(rest) = Len(cs) - 1
      /\ \A i \in 1 .. Len(rest) : rest[i] = cs[i + 1]
      /\ Head(cs) = cs[1]
  BY HeadTailProperties, LenProperties, EmptySeq
<1> HIDE DEF rest
<1>2. \A i \in 1 .. Len(rest) : i + 1 \in 1 .. Len(cs) /\ 1 \in 1 .. Len(cs) /\ 1 < i + 1
  BY <1>1
<1>3. \A i, j \in 1 .. Len(rest) : i < j => i + 1 < j + 1
  BY <1>1
<1>4. Increasing(rest)
  BY <1>1, <1>2, <1>3 DEF Increasing
<1>5. \A i \in 1 .. Len(rest) : Head(cs).outcome = "Completed" /\ rest[i].outcome = "Completed"
                                  => Head(cs).task < rest[i].task
  BY <1>1, <1>2 DEF Increasing
<1>6. Below(Win(Head(cs)), Wins(rest))
  BY <1>5 DEF Below, Wins, Win
<1> QED
  BY <1>4, <1>6 DEF rest

\* ... and so does a batch.
LEMMA RisingTail ==
  ASSUME NEW ids \in Seq(Nat), ids # <<>>, Rising(ids)
  PROVE  Rising(Tail(ids)) /\ \A b \in ToSet(Tail(ids)) : Head(ids) < b
<1> DEFINE rest == Tail(ids)
<1>1. /\ Len(ids) \in Nat /\ Len(ids) # 0 /\ Len(rest) = Len(ids) - 1
      /\ \A i \in 1 .. Len(rest) : rest[i] = ids[i + 1]
      /\ Head(ids) = ids[1] /\ DOMAIN rest = 1 .. Len(rest)
  BY HeadTailProperties, LenProperties, EmptySeq
<1> HIDE DEF rest
<1>2. \A i \in 1 .. Len(rest) : i + 1 \in 1 .. Len(ids) /\ 1 \in 1 .. Len(ids) /\ 1 < i + 1
  BY <1>1
<1>3. \A i, j \in 1 .. Len(rest) : i < j => i + 1 < j + 1
  BY <1>1
<1>4. Rising(rest)
  BY <1>1, <1>2, <1>3 DEF Rising
<1>5. \A b \in ToSet(rest) : Head(ids) < b
  BY <1>1, <1>2 DEF Rising, ToSet
<1> QED
  BY <1>4, <1>5 DEF rest

\* Successes beyond the look are tasks beyond the look.
LEMMA WinsAreBeyond ==
  ASSUME FrontInv, StageTypes
  PROVE  Wins(delivered) \cup Win(delivering) \cup Wins(completionQueue) \cup Win(postprocessing)
         \cup Wins(postprocessQueue) \cup ToSet(members) \subseteq Beyond
<1>1. \A cs : Wins(cs) \subseteq In(cs)
  BY DEF Wins, Win, In
<1>2. \A c \in Completions \cup {Nothing} : Win(c) \subseteq Here(c)
  BY HolderCounts DEF Win
<1> QED
  BY <1>1, <1>2, PlaceTypes DEF Beyond

\* No move lets a task that succeeds overtake another one.
LEMMA SuccessInvStep ==
  ASSUME FrontInv, StageTypes, LineInv, BeyondInv, SuccessInv, Moves
  PROVE  SuccessInv'
<1> USE DEF SuccessInv, entryPart, prePart, inferPart, postPart, exitPart
<1>1. CASE Entering \/ Taking \/ Judging \/ Passing \/ Popping
  <2>1. /\ UNCHANGED <<members, postPart, exitPart>>
        /\ Refusing' => Refusing /\ UNCHANGED looked
    BY <1>1 DEF Entering, Taking, Judging, Passing, Popping
  <2> QED
    BY <2>1
<1>2. CASE Admitting
  <2>1. \A t \in Beyond : t < looked.task
    <3>1. looked.task = LookedAt + 1 /\ LookedAt \in Nat
      BY <1>2, LineCounts DEF Admitting, LineInv
    <3> QED
      BY <3>1, BeyondTypes DEF BeyondInv
  <2> members \in Seq(Nat) /\ looked.task \in Nat
    BY <1>2, PlaceTypes, ResultIsSomething DEF Admitting
  <2>2. ToSet(members') = ToSet(members) \cup {looked.task}
    BY <1>2, ToSetAppend DEF Admitting
  <2>3. Rising(members')
    BY <1>2, <2>1, WinsAreBeyond, RisingAppend DEF Admitting
  <2>4. Below(Wins(delivered) \cup Win(delivering) \cup Wins(completionQueue) \cup Win(postprocessing)
              \cup Wins(postprocessQueue), {looked.task})
    BY <2>1, WinsAreBeyond DEF Below
  <2> QED
    BY <1>2, <2>2, <2>3, <2>4 DEF Admitting, Below
<1>3. CASE Refusal
  BY <1>3 DEF Refusal
<1>4. ASSUME NEW c \in Completions, c.outcome # "Completed",
             completionQueue' = Append(completionQueue, c)
      PROVE  Increasing(completionQueue') /\ Wins(completionQueue') = Wins(completionQueue)
  <2>1. Win(c) = {} /\ Below(Wins(completionQueue), Win(c))
    BY <1>4 DEF Win, Below
  <2>2. completionQueue \in Seq(Completions) /\ Increasing(completionQueue)
    BY PlaceTypes
  <2>3. Increasing(Append(completionQueue, c))
    BY <1>4, <2>1, <2>2, IncreasingAppend
  <2>4. Wins(Append(completionQueue, c)) = Wins(completionQueue) \cup Win(c)
    BY <1>4, <2>2, QueueAppend
  <2> QED
    BY <1>4, <2>1, <2>3, <2>4
<1>5. CASE Refused
  <2>1. looked.outcome # "Completed"
    BY <1>5 DEF Refused
  <2> QED
    BY <1>4, <1>5, <2>1 DEF Refused
<1>6. ASSUME NEW c \in Completions, Flushing(c) PROVE SuccessInv'
  <2>1. /\ ToSet(members) = ToSet(members') \cup {c.task} /\ Rising(members')
        /\ \A b \in ToSet(members') : c.task < b
    BY <1>6, PlaceTypes, ToSetTail, RisingTail DEF Flushing
  <2>2. Win(c) \subseteq {c.task}
    BY DEF Win
  <2>3. CASE UNCHANGED completionQueue /\ postprocessQueue' = Append(postprocessQueue, c)
    <3>1. Below(Wins(postprocessQueue), Win(c))
      BY <2>1, <2>2 DEF Below
    <3>2. Increasing(postprocessQueue') /\ Wins(postprocessQueue') = Wins(postprocessQueue) \cup Win(c)
      BY <2>3, <3>1, PlaceTypes, QueueAppend, IncreasingAppend
    <3> QED
      BY <1>6, <2>1, <2>2, <2>3, <3>2 DEF Flushing, Below
  <2>4. CASE UNCHANGED postprocessQueue /\ completionQueue' = Append(completionQueue, c)
             /\ c.outcome # "Completed"
    <3>1. Increasing(completionQueue') /\ Wins(completionQueue') = Wins(completionQueue)
      BY <1>4, <2>4
    <3> QED
      BY <1>6, <2>1, <2>4, <3>1 DEF Flushing, Below
  <2> QED
    BY <1>6, <2>3, <2>4 DEF Flushing
<1>7. CASE Finishing
  <2>1. /\ Wins(postprocessQueue) = Wins(postprocessQueue') \cup Win(postprocessing')
        /\ Increasing(postprocessQueue') /\ Below(Win(postprocessing'), Wins(postprocessQueue'))
        /\ Win(postprocessing) = {}
    BY <1>7, PlaceTypes, HolderCounts, QueueTail, IncreasingTail DEF Finishing
  <2> QED
    BY <1>7, <2>1 DEF Finishing, Below
<1>8. CASE Completing
  <2>1. Below(Wins(completionQueue), Win(postprocessing))
    BY DEF Below
  <2>2. /\ Wins(completionQueue') = Wins(completionQueue) \cup Win(postprocessing)
        /\ Increasing(completionQueue') /\ Win(postprocessing') = {}
    BY <1>8, <2>1, PlaceTypes, HolderCounts, QueueAppend, IncreasingAppend DEF Completing
  <2> QED
    BY <1>8, <2>2 DEF Completing, Below
<1>9. CASE Dispatching
  <2>1. /\ Wins(completionQueue) = Wins(completionQueue') \cup Win(delivering')
        /\ Increasing(completionQueue') /\ Below(Win(delivering'), Wins(completionQueue'))
        /\ Win(delivering) = {}
    BY <1>9, PlaceTypes, HolderCounts, QueueTail, IncreasingTail DEF Dispatching
  <2> QED
    BY <1>9, <2>1 DEF Dispatching, Below
<1>10. CASE Delivering
  <2>1. Below(Wins(delivered), Win(delivering))
    BY DEF Below
  <2>2. /\ Wins(delivered') = Wins(delivered) \cup Win(delivering)
        /\ Increasing(delivered') /\ Win(delivering') = {}
    BY <1>10, <2>1, PlaceTypes, HolderCounts, QueueAppend, IncreasingAppend DEF Delivering
  <2> QED
    BY <1>10, <2>2 DEF Delivering, Below
<1> QED
  BY <1>1, <1>2, <1>3, <1>5, <1>6, <1>7, <1>8, <1>9, <1>10 DEF Moves
-----------------------------------------------------------------------------
(* The end of the run.                                                     *)

\* What a thread does while it is not leaving disturbs no thread that has left.
LEMMA ExitInvStep ==
  ASSUME FrontInv, StageTypes, ExitInv, [Next]_vars
  PROVE  ExitInv'
<1> USE DEF ExitInv, Threads
<1>1. CASE Submit
  <2>1. UNCHANGED entryQueue \/ ~stopRequested
    BY <1>1, SubmitFrame DEF Submit, FrontInv, StopInv
  <2> QED
    BY <1>1, <2>1, SubmitFrame DEF Submit, dispatchVars, stageVars, postVars
<1>2. ASSUME NEW t \in TaskIds, Cancel(t) PROVE ExitInv'
  BY <1>2 DEF Cancel, CancelTask, entryVars, dispatchVars, stageVars, postVars
<1>3. CASE GracefulStop \/ ImmediateStop \/ Notify \/ WaitCall
  BY <1>3 DEF GracefulStop, ImmediateStop, CloseEntry, Notify, StopNotify, WaitCall, WaitBegin,
     dispatchVars, stageVars, postVars
<1>4. CASE WaitJoins
  BY <1>4 DEF WaitJoins, WaitCloseInput, WaitReturn, entryVars, dispatchVars, stageVars, postVars
<1>5. CASE Deliver
  <2>1. /\ UNCHANGED <<entryQueue, stopRequested, waiter, pc, postprocessQueue>>
        /\ completionQueue # <<>> \/ delivering # Nothing
    BY <1>5, DeliverFrame DEF Deliver, Dispatcher, DispatcherPop, DispatcherDeliver, entryVars,
       stageVars, postVars
  <2> QED
    BY <2>1
<1>6. CASE UNCHANGED vars
  BY <1>6 DEF vars, frontVars, entryVars, dispatchVars, stageVars, postVars
<1>7. CASE Preprocess
  <2>1. CASE PreprocessSleep
    BY <2>1 DEF PreprocessSleep, TakerSleep, dispatchVars, stageVars, postVars
  <2>2. CASE PreprocessTake
    BY <2>2, OneThreadGoes DEF PreprocessTake, TakeFirst, dispatchVars, postVars
  <2>3. CASE PreprocessNotifySpace \/ PreprocessCall \/ PreprocessRecheck \/ PreprocessPush
    <3>1. /\ UNCHANGED <<postprocessQueue, waiter, completionQueue, delivering>>
          /\ pc["preprocess"] # "exited" /\ pc'["preprocess"] # "exited"
          /\ pc'["inference"] = pc["inference"] /\ pc'["postprocess"] = pc["postprocess"]
      BY <2>3, OneThreadGoes DEF PreprocessNotifySpace, NotifySpace, PreprocessCall,
         PreprocessRecheck, PreprocessPush, frontVars, entryVars, dispatchVars, postVars
    <3> QED
      BY <3>1
  <2>4. CASE PreprocessExit
    BY <2>4, OneThreadGoes DEF PreprocessExit, NothingLeft, frontVars, entryVars, dispatchVars, postVars
  <2> QED
    BY <1>7, <2>1, <2>2, <2>3, <2>4 DEF Preprocess
<1>8. CASE Inference
  <2>1. /\ UNCHANGED <<entryQueue, stopRequested, waiter>>
        /\ \E to : Goes("inference", pc["inference"], to) /\ pc["inference"] # "exited"
    BY <1>8 DEF Inference, InferencePop, CollectPop, PopPreprocessed, InferenceExit,
       InferenceAdmit, InferenceRefuse, InferenceRefused, CollectDone, CollectSawEmpty,
       CollectPollAgain, CollectGiveUp, CollectTestClosed, FlushInfer, FlushMember, FlushFailEnter,
       FlushFail, Goes, frontVars, entryVars
  <2>2. /\ pc'["preprocess"] = pc["preprocess"] /\ pc'["postprocess"] = pc["postprocess"]
        /\ pc["inference"] # "exited"
    BY <2>1, OneThreadGoes
  <2> QED
    BY <2>1, <2>2
<1>9. CASE Postprocess
  <2>1. CASE PostprocessPop \/ PostprocessFinish \/ PostprocessPush
    <3>1. /\ UNCHANGED <<entryQueue, stopRequested, waiter>>
          /\ \E from, to : Goes("postprocess", from, to) /\ from # "exited" /\ to # "exited"
      BY <2>1 DEF PostprocessPop, PostprocessFinish, PostprocessPush, frontVars, entryVars
    <3>2. /\ pc'["preprocess"] = pc["preprocess"] /\ pc'["inference"] = pc["inference"]
          /\ pc["postprocess"] # "exited" /\ pc'["postprocess"] # "exited"
      BY <3>1, OneThreadGoes
    <3> QED
      BY <3>1, <3>2
  <2>2. CASE PostprocessExit
    BY <2>2, OneThreadGoes DEF PostprocessExit, frontVars, entryVars, dispatchVars, postVars
  <2> QED
    BY <1>9, <2>1, <2>2 DEF Postprocess
<1> QED
  BY <1>1, <1>2, <1>3, <1>4, <1>5, <1>6, <1>7, <1>8, <1>9 DEF Next, Stopped
-----------------------------------------------------------------------------
(* The theorems.                                                           *)

\* At the start all places are empty.
LEMMA IInvInit == Init => IInv
<1> SUFFICES ASSUME Init PROVE IInv
  OBVIOUS
<1>1. FrontInv /\ StageTypes
  BY TypesInit
<1>2. /\ entryQueue = <<>> /\ members = <<>> /\ preprocessQueue = <<>> /\ postprocessQueue = <<>>
      /\ completionQueue = <<>> /\ delivered = <<>> /\ nextTaskId = 1 /\ blocked = 0
      /\ preprocessing = Nothing /\ looked = Nothing /\ postprocessing = Nothing
      /\ delivering = Nothing /\ waiter = "idle" /\ \A t \in TaskIds : doomed[t] = "no"
      /\ \A h \in Threads : pc[h] = "idle"
  BY DEF Init, FrontInit
<1>3. /\ Len(entryQueue) = 0 /\ Len(members) = 0 /\ Len(preprocessQueue) = 0
      /\ Len(postprocessQueue) = 0 /\ Len(completionQueue) = 0 /\ Len(delivered) = 0
      /\ ToSet(entryQueue) = {} /\ ToSet(members) = {} /\ ToSet(preprocessQueue) = {}
      /\ ToSet(postprocessQueue) = {} /\ ToSet(completionQueue) = {} /\ ToSet(delivered) = {}
      /\ In(preprocessQueue) = {} /\ In(postprocessQueue) = {} /\ In(completionQueue) = {}
      /\ In(delivered) = {} /\ Wins(postprocessQueue) = {} /\ Wins(completionQueue) = {}
      /\ Wins(delivered) = {}
  BY <1>2 DEF ToSet, In, Wins
<1>4. /\ Here(preprocessing) = {} /\ Here(looked) = {} /\ Here(postprocessing) = {}
      /\ Here(delivering) = {} /\ One(preprocessing) = 0 /\ One(looked) = 0
      /\ One(postprocessing) = 0 /\ One(delivering) = 0
      /\ Win(delivering) = {} /\ Win(postprocessing) = {}
  BY <1>2, HolderCounts
<1>5. ~Looking /\ ~Refusing /\ Beyond = {} /\ InHand = {} /\ Answers = {}
  BY <1>2, <1>3, <1>4 DEF Looking, Refusing, Threads, Beyond, InHand, Answers
<1>6. PlaceInv
  BY <1>2, <1>3, <1>4 DEF PlaceInv, Everywhere, Count, Accepted
<1>7. Taken = 0 /\ Preprocessed = 0 /\ PoppedOff = 0 /\ LookedAt = 0
  <2>1. Taken = 0
    <3>1. nextTaskId = 1 /\ Len(entryQueue) = 0
      BY <1>2, <1>3
    <3> QED
      BY <3>1 DEF Taken
  <2>2. Preprocessed = 0
    BY <2>1, <1>4 DEF Preprocessed
  <2>3. PoppedOff = 0
    BY <2>2, <1>3 DEF PoppedOff
  <2>4. LookedAt = 0
    <3>1. (IF Looking THEN 1 ELSE 0) = 0
      BY <1>2 DEF Looking, Threads
    <3>2. \A n \in Nat : n - 0 = n
      OBVIOUS
    <3> QED
      BY <2>3, <3>1, <3>2 DEF LookedAt
  <2> QED
    BY <2>1, <2>2, <2>3, <2>4
<1>8. LineInv /\ BeyondInv
  BY <1>2, <1>3, <1>5, <1>7 DEF LineInv, BeyondInv, IdsAfter, TasksAfter
<1>9. SpaceInv(Coming) /\ DoomedInv /\ DecidedInv
  BY <1>2, <1>5 DEF SpaceInv, DoomedInv, DecidedInv
<1>10. ReasonInv
  BY <1>2, <1>3, <1>5 DEF ReasonInv, Results
<1>11. SuccessInv
  BY <1>3, <1>4, <1>5 DEF SuccessInv, Increasing, Rising, Below
<1>12. ExitInv
  BY <1>2 DEF ExitInv, Threads
<1> QED
  BY <1>1, <1>6, <1>8, <1>9, <1>10, <1>11, <1>12 DEF IInv

\* Every step keeps all of it.
LEMMA IInvStep == IInv /\ [Next]_vars => IInv'
<1> SUFFICES ASSUME IInv, [Next]_vars PROVE IInv'
  OBVIOUS
<1> USE DEF IInv
<1>1. FrontInv' /\ StageTypes' /\ SpaceInv(Coming)' /\ DoomedInv' /\ ExitInv' /\ DecidedInv'
  BY FrontStep, StageTypesStep, SpaceInvStep, DoomedInvStep, ExitInvStep, DecidedInvStep
<1>2. CASE BusyStep
  <2>1. Moves
    BY <1>2, BusyStepsMove
  <2> QED
    BY <1>1, <2>1, PlaceInvStep, LineInvStep, BeyondInvStep, ReasonInvStep, SuccessInvStep
<1>3. CASE QuietStep
  <2>1. UNCHANGED <<places, Looking, Refusing>>
    BY <1>3, QuietFrame
  <2>2. PlaceInv'
    BY <2>1 DEF places, PlaceInv, Everywhere, Count, Accepted
  <2>3. UNCHANGED <<Taken, Preprocessed, PoppedOff, LookedAt, Beyond>>
    BY <2>1 DEF places, Taken, Preprocessed, PoppedOff, LookedAt, Beyond
  <2>4. LineInv' /\ BeyondInv'
    BY <2>1, <2>3 DEF places, LineInv, BeyondInv
  <2>5. SuccessInv'
    BY <2>1 DEF places, SuccessInv
  <2> QED
    BY <1>1, <1>3, <2>2, <2>4, <2>5, ReasonInvStep
<1> QED
  BY <1>2, <1>3, StepsAreQuietOrBusy

\* The inductive invariant of the batch executor.
THEOREM InductiveInvariant == Spec => []IInv
  BY IInvInit, IInvStep, PTL DEF Spec

\* Two sequences of tasks, one after the other.
LEMMA TasksTogether ==
  ASSUME NEW s \in Seq(Nat), NEW t \in Seq(Nat)
  PROVE  /\ s \o t \in Seq(Nat) /\ Len(s \o t) = Len(s) + Len(t)
         /\ Len(s) \in Nat /\ Len(t) \in Nat
         /\ ToSet(s \o t) = ToSet(s) \cup ToSet(t)
<1>1. s \o t \in Seq(Nat) /\ Len(s \o t) = Len(s) + Len(t) /\ Len(s) \in Nat /\ Len(t) \in Nat
  BY ConcatProperties, LenProperties
<1>2. Range(s \o t) = Range(s) \cup Range(t)
  BY RangeConcatenation
<1> QED
  BY <1>1, <1>2 DEF ToSet, Range

\* A queue of results, and a holder, as sequences of tasks.
LEMMA TasksOfResults ==
  /\ \A cs \in Seq(Completions) :
       /\ TasksIn(cs) \in Seq(Nat) /\ Len(TasksIn(cs)) = Len(cs) /\ ToSet(TasksIn(cs)) = In(cs)
  /\ \A c \in Completions \cup {Nothing} :
       /\ TaskIn(c) \in Seq(Nat) /\ Len(TaskIn(c)) = One(c) /\ ToSet(TaskIn(c)) = Here(c)
<1>1. ASSUME NEW cs \in Seq(Completions)
      PROVE  TasksIn(cs) \in Seq(Nat) /\ Len(TasksIn(cs)) = Len(cs) /\ ToSet(TasksIn(cs)) = In(cs)
  <2>1. Len(cs) \in Nat /\ DOMAIN cs = 1 .. Len(cs) /\ \A i \in 1 .. Len(cs) : cs[i].task \in Nat
    BY LenProperties, ElementOfSeq, ResultIsSomething
  <2>2. TasksIn(cs) = [i \in 1 .. Len(cs) |-> cs[i].task]
    BY <2>1 DEF TasksIn
  <2>3. TasksIn(cs) \in Seq(Nat) /\ Len(TasksIn(cs)) = Len(cs)
    BY <2>1, <2>2
  <2>4. ToSet(TasksIn(cs)) = In(cs)
    BY <2>1, <2>2 DEF ToSet, In
  <2> QED
    BY <2>3, <2>4
<1>2. ASSUME NEW c \in Completions \cup {Nothing}
      PROVE  TaskIn(c) \in Seq(Nat) /\ Len(TaskIn(c)) = One(c) /\ ToSet(TaskIn(c)) = Here(c)
  BY ResultIsSomething DEF TaskIn, One, Here, ToSet
<1> QED
  BY <1>1, <1>2

\* Every accepted task is in exactly one place, whatever the capacities, the
\* batch size and the cancellations, until the completion queue is undefined.
THEOREM EveryTaskInOnePlaceHolds == Spec => []EveryTaskInOnePlace
<1>1. IInv => EveryTaskInOnePlace
  <2> SUFFICES ASSUME IInv PROVE EveryTaskInOnePlace
    OBVIOUS
  <2> DEFINE a == entryQueue
             b == members
             c == TasksIn(preprocessQueue)
             d == TasksIn(postprocessQueue)
             e == TasksIn(completionQueue)
             f == TasksIn(delivered)
             g == TaskIn(preprocessing)
             h == TaskIn(looked)
             k == TaskIn(postprocessing)
             l == TaskIn(delivering)
  <2>1. /\ a \in Seq(Nat) /\ b \in Seq(Nat) /\ c \in Seq(Nat) /\ d \in Seq(Nat) /\ e \in Seq(Nat)
        /\ f \in Seq(Nat) /\ g \in Seq(Nat) /\ h \in Seq(Nat) /\ k \in Seq(Nat) /\ l \in Seq(Nat)
    BY PlaceTypes, TasksOfResults DEF IInv
  <2>2. /\ Everywhere = ToSet(a) \cup ToSet(b) \cup ToSet(c) \cup ToSet(d) \cup ToSet(e)
                        \cup ToSet(f) \cup ToSet(g) \cup ToSet(h) \cup ToSet(k) \cup ToSet(l)
        /\ Count = Len(a) + Len(b) + Len(c) + Len(d) + Len(e) + Len(f) + Len(g) + Len(h)
                   + Len(k) + Len(l)
    BY PlaceTypes, TasksOfResults DEF IInv, Everywhere, Count
  <2>3. Places = a \o b \o c \o d \o e \o f \o g \o h \o k \o l
    BY DEF Places
  <2> HIDE DEF a, b, c, d, e, f, g, h, k, l
  <2>4. ASSUME NEW s \in Seq(Nat), NEW t \in Seq(Nat), NEW u \in Seq(Nat)
        PROVE  /\ s \o t \o u \in Seq(Nat) /\ Len(s \o t \o u) = Len(s) + Len(t) + Len(u)
               /\ ToSet(s \o t \o u) = ToSet(s) \cup ToSet(t) \cup ToSet(u)
    <3>1. s \o t \in Seq(Nat) /\ Len(s \o t) = Len(s) + Len(t) /\ ToSet(s \o t) = ToSet(s) \cup ToSet(t)
      BY TasksTogether
    <3> QED
      BY <3>1, TasksTogether
  <2>5. PICK abc : abc = a \o b \o c
    OBVIOUS
  <2>6. /\ abc \in Seq(Nat) /\ Len(abc) = Len(a) + Len(b) + Len(c)
        /\ ToSet(abc) = ToSet(a) \cup ToSet(b) \cup ToSet(c)
    BY <2>1, <2>4, <2>5
  <2>7. PICK toE : toE = abc \o d \o e
    OBVIOUS
  <2>8. /\ toE \in Seq(Nat) /\ Len(toE) = Len(abc) + Len(d) + Len(e)
        /\ ToSet(toE) = ToSet(abc) \cup ToSet(d) \cup ToSet(e)
    <3>1. abc \in Seq(Nat) /\ d \in Seq(Nat) /\ e \in Seq(Nat)
      BY <2>1, <2>6
    <3>2. /\ abc \o d \o e \in Seq(Nat) /\ Len(abc \o d \o e) = Len(abc) + Len(d) + Len(e)
          /\ ToSet(abc \o d \o e) = ToSet(abc) \cup ToSet(d) \cup ToSet(e)
      BY <3>1, <2>4
    <3> QED
      BY <3>2, <2>7
  <2>9. PICK toG : toG = toE \o f \o g
    OBVIOUS
  <2>10. /\ toG \in Seq(Nat) /\ Len(toG) = Len(toE) + Len(f) + Len(g)
        /\ ToSet(toG) = ToSet(toE) \cup ToSet(f) \cup ToSet(g)
    <3>1. toE \in Seq(Nat) /\ f \in Seq(Nat) /\ g \in Seq(Nat)
      BY <2>1, <2>8
    <3>2. /\ toE \o f \o g \in Seq(Nat) /\ Len(toE \o f \o g) = Len(toE) + Len(f) + Len(g)
          /\ ToSet(toE \o f \o g) = ToSet(toE) \cup ToSet(f) \cup ToSet(g)
      BY <3>1, <2>4
    <3> QED
      BY <3>2, <2>9
  <2>11. PICK toK : toK = toG \o h \o k
    OBVIOUS
  <2>12. /\ toK \in Seq(Nat) /\ Len(toK) = Len(toG) + Len(h) + Len(k)
        /\ ToSet(toK) = ToSet(toG) \cup ToSet(h) \cup ToSet(k)
    <3>1. toG \in Seq(Nat) /\ h \in Seq(Nat) /\ k \in Seq(Nat)
      BY <2>1, <2>10
    <3>2. /\ toG \o h \o k \in Seq(Nat) /\ Len(toG \o h \o k) = Len(toG) + Len(h) + Len(k)
          /\ ToSet(toG \o h \o k) = ToSet(toG) \cup ToSet(h) \cup ToSet(k)
      BY <3>1, <2>4
    <3> QED
      BY <3>2, <2>11
  <2>13. Places = toK \o l
    BY <2>3, <2>5, <2>7, <2>9, <2>11
  <2>14. ToSet(Places) = ToSet(toK) \cup ToSet(l) /\ Len(Places) = Len(toK) + Len(l)
    BY <2>1, <2>12, <2>13, TasksTogether
  <2>15. ToSet(Places) = Everywhere
    BY <2>2, <2>6, <2>8, <2>10, <2>12, <2>14
  <2>16. Len(Places) = Count
    BY <2>2, <2>6, <2>8, <2>10, <2>12, <2>14
  <2> QED
    BY <2>15, <2>16 DEF IInv, PlaceInv, EveryTaskInOnePlace
<1> QED
  BY <1>1, InductiveInvariant, PTL

\* Whatever wait() leaves undelivered is in the preprocess queue, and nowhere
\* else, however many tasks were in the executor.
THEOREM OnlyPreprocessedAreStrandedHolds == Spec => []OnlyPreprocessedAreStranded
<1>1. IInv => OnlyPreprocessedAreStranded
  <2> SUFFICES ASSUME IInv, waiter = "returned"
               PROVE  Accepted \subseteq Tasks(ToSet(delivered) \cup ToSet(preprocessQueue))
    BY DEF OnlyPreprocessedAreStranded
  <2>1. /\ pc["preprocess"] = "exited" /\ pc["inference"] = "exited" /\ pc["postprocess"] = "exited"
        /\ entryQueue = <<>> /\ postprocessQueue = <<>> /\ completionQueue = <<>>
        /\ delivering = Nothing
    BY DEF IInv, ExitInv
  <2>2. members = <<>> /\ preprocessing = Nothing /\ looked = Nothing /\ postprocessing = Nothing
    BY <2>1 DEF IInv, StageTypes
  <2>3. Everywhere = In(preprocessQueue) \cup In(delivered)
    BY <2>1, <2>2, HolderCounts DEF Everywhere, ToSet, In
  <2>4. \A cs \in Seq(Completions) : In(cs) \subseteq Tasks(ToSet(cs))
    <3> SUFFICES ASSUME NEW cs \in Seq(Completions), NEW i \in 1 .. Len(cs)
                 PROVE  cs[i].task \in Tasks(ToSet(cs))
      BY DEF In
    <3>1. cs[i] \in ToSet(cs) /\ cs[i].task \in TaskIds
      BY LenProperties, ElementOfSeq, ResultIsSomething DEF ToSet
    <3> QED
      BY <3>1, MaxTasksAssumption DEF Tasks, NoTask, TaskIds
  <2> QED
    BY <2>3, <2>4, PlaceTypes DEF IInv, PlaceInv, Tasks
<1> QED
  BY <1>1, InductiveInvariant, PTL

\* However batches form, a task that succeeded never overtakes one that did.
THEOREM SuccessesInOrderHolds == Spec => []SuccessesInOrder
<1>1. IInv => SuccessesInOrder
  <2> SUFFICES ASSUME IInv PROVE SuccessesInOrder
    OBVIOUS
  <2>1. DOMAIN delivered = 1 .. Len(delivered) /\ Increasing(delivered)
    BY PlaceTypes, LenProperties DEF IInv, SuccessInv
  <2> QED
    BY <2>1 DEF Increasing, SuccessesInOrder
<1> QED
  BY <1>1, InductiveInvariant, PTL

\* A cancellation or an immediate stop that came before the inference thread's
\* look decides the outcome, and no other task is reported as cancelled.
THEOREM CancellationDecidesHolds == Spec => []CancellationDecides
<1>1. IInv => CancellationDecides
  <2> SUFFICES ASSUME IInv, NEW i \in DOMAIN delivered
               PROVE  /\ Decided(delivered[i])
                      /\ delivered[i].outcome = "Cancelled" => Cancelled(delivered[i].task)
    BY DEF CancellationDecides, CancellationHonoured, Decided
  <2>1. delivered[i] \in Answers
    BY DEF Answers, ToSet
  <2>2. delivered[i] \in Results /\ delivered[i] # Nothing
    BY <2>1, AnswersAreBeyond, ResultIsSomething DEF IInv, Results
  <2> QED
    BY <2>1, <2>2 DEF IInv, DecidedInv, ReasonInv
<1> QED
  BY <1>1, InductiveInvariant, PTL

\* No notification is lost between the preprocess thread and the submitters.
THEOREM SleepersHaveAReasonHolds == Spec => []SleepersHaveAReason(Coming)
<1>1. IInv => SleepersHaveAReason(Coming)
  BY SleepersReason DEF IInv, FrontInv
<1> QED
  BY <1>1, InductiveInvariant, PTL

\* Types, and with them the limit on the size of a batch.
THEOREM TypeOKHolds == Spec => []TypeOK
<1>1. IInv => TypeOK
  BY DEF IInv, FrontInv, FrontTypes, StageTypes, TypeOK
<1> QED
  BY <1>1, InductiveInvariant, PTL
=============================================================================
