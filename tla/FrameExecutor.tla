----------------------------- MODULE FrameExecutor -----------------------------
(***************************************************************************)
(* executor::FrameExecutor over a FileSource and an executor that keeps    *)
(* the promise of IPipelineExecutor; RuntimeSession forwards to it.        *)
(*                                                                         *)
(* Four threads: main (start, then wait), a caller that may request a stop *)
(* at any time, the duration timer and the source's thread, which runs     *)
(* onFrame.  requestStop is four steps (flag, timer, source, executor) of  *)
(* whichever thread runs it.  `run` holds the object's fields, `doing`     *)
(* where each thread is.                                                   *)
(***************************************************************************)
EXTENDS FileSource

CONSTANTS Capacity,    \* of the executor's queue
          MaxFrames,   \* bound: frames a looping source delivers
          RunOptions,  \* the combinations of options to choose from
          Directory    \* the directory that is read

\* frameCount is unsigned, and a directory has finitely many files.
ASSUME OptionsAssumption == \A o \in RunOptions : o.count \subseteq Nat
ASSUME DirectoryAssumption == IsFiniteSet(Directory.files)

VARIABLES run, doing

frameVars == <<source, run, doing>>

Threads == {"main", "caller", "timer", "worker"}

Zero == [received |-> 0, submitted |-> 0, completed |-> 0, failed |-> 0,
         dropped |-> 0, sourceFailures |-> 0, refused |-> 0]

(* `refused` counts what no field of the summary counts. *)
FrameInit ==
    \E o \in RunOptions :
        /\ \E images \in Create(o.files, Directory).orders : SourceInit(images, o.files.loop)
        /\ run = [options |-> o, sum |-> Zero, started |-> FALSE, stop |-> FALSE,
                  finished |-> FALSE, cancelled |-> FALSE, open |-> TRUE, pending |-> 0]
        /\ doing = [main |-> "new", caller |-> "idle", timer |-> "none", worker |-> "none",
                    reached |-> FALSE, failure |-> FALSE, mode |-> [t \in Threads |-> "Graceful"]]

Tally(field) == run' = [run EXCEPT !.sum[field] = @ + 1]

MoveTo(t, place) == doing' = [doing EXCEPT ![t] = place]

BeginStop(t, mode) == doing' = [doing EXCEPT ![t] = "flag", !.mode[t] = mode]

-----------------------------------------------------------------------------
(* start() *)

InvalidOptions(o) ==
    0 \in o.count \/ (\E d \in o.duration : d <= 0) \/ o.interval < 0

StartBegins ==
    /\ doing.main = "new" /\ ~run.started /\ ~InvalidOptions(run.options)
    /\ run' = [run EXCEPT !.started = TRUE]
    /\ doing' = [doing EXCEPT !.main = "source",
                              !.timer = IF run.options.duration # {} THEN "armed" ELSE "none"]
    /\ UNCHANGED source

StartInvalid ==
    /\ doing.main = "new" /\ InvalidOptions(run.options)
    /\ MoveTo("main", "refused")
    /\ UNCHANGED <<source, run>>

StartSource ==
    /\ doing.main = "source" /\ ~run.options.broken
    /\ SourceStart
    /\ MoveTo("main", "wait")
    /\ UNCHANGED run

(* A source that does not start is stopped at once and waited for. *)
StartFails ==
    /\ doing.main = "source" /\ run.options.broken
    /\ BeginStop("main", "Immediate")
    /\ UNCHANGED <<source, run>>

-----------------------------------------------------------------------------
(* requestStop() *)

(* What follows it: in main a failed start still waits, wait() goes on. *)
AfterStop(t) == CASE t = "main" /\ doing.mode[t] = "Immediate" -> "wait"
                  [] t = "main" -> "executor wait"
                  [] t = "worker" -> "return"
                  [] OTHER -> "ended"

StopFlag(t) ==
    /\ doing[t] = "flag"
    /\ MoveTo(t, IF run.finished THEN AfterStop(t) ELSE "cancel timer")
    /\ run' = [run EXCEPT !.stop = @ \/ ~run.finished]
    /\ UNCHANGED source

StopTimer(t) ==
    /\ doing[t] = "cancel timer"
    /\ run' = [run EXCEPT !.cancelled = TRUE]
    /\ MoveTo(t, "stop source")
    /\ UNCHANGED source

StopSource_Mutant(t) ==
    /\ doing[t] = "stop source"
    /\ MoveTo(t, "stop executor")
    /\ UNCHANGED <<source, run>>

StopSource(t) ==
    /\ doing[t] = "stop source"
    /\ SourceRequestStop
    /\ MoveTo(t, "stop executor")
    /\ UNCHANGED run

StopExecutor(t) ==
    /\ doing[t] = "stop executor"
    /\ run' = [run EXCEPT !.open = FALSE]
    /\ MoveTo(t, AfterStop(t))
    /\ UNCHANGED source

Stop(t) == StopFlag(t) \/ StopTimer(t) \/ StopSource(t) \/ StopExecutor(t)

CallerStops ==
    /\ doing.caller = "idle"
    /\ BeginStop("caller", "Immediate")
    /\ UNCHANGED <<source, run>>

TimerFires ==
    /\ doing.timer = "armed" /\ ~run.cancelled
    /\ BeginStop("timer", "Graceful")
    /\ UNCHANGED <<source, run>>

TimerCancelled ==
    /\ doing.timer = "armed" /\ run.cancelled
    /\ MoveTo("timer", "ended")
    /\ UNCHANGED <<source, run>>

-----------------------------------------------------------------------------
(* onFrame(), on the source's thread *)

ReadFrame ==
    /\ SourceLeave \/ (SourceDeliver /\ run.sum.received < MaxFrames)
    /\ UNCHANGED <<run, doing>>

Receive ==
    /\ source.thread = "callback" /\ doing.worker = "none"
    /\ Tally("received")
    /\ doing' = [doing EXCEPT !.worker = IF DecodeFrame(source.images[source.next]) = "Ok"
                                         THEN "submit" ELSE "source failure",
                              !.reached = \E n \in run.options.count : run'.sum.received >= n,
                              !.failure = FALSE]
    /\ UNCHANGED source

SourceFailure ==
    /\ doing.worker = "source failure"
    /\ Tally("sourceFailures")
    /\ doing' = [doing EXCEPT !.worker = "decide", !.failure = run.options.policy = "Stop"]
    /\ UNCHANGED source

(* The executor's answer; with Block, submit waits for space or a stop. *)
Submit ==
    /\ doing.worker = "submit"
    /\ \/ /\ ~run.open
          /\ MoveTo("worker", "refused") /\ UNCHANGED run
       \/ /\ run.open /\ run.pending < Capacity
          /\ run' = [run EXCEPT !.pending = @ + 1]
          /\ MoveTo("worker", "submitted")
       \/ /\ run.open /\ run.pending = Capacity /\ run.options.drop
          /\ MoveTo("worker", "dropped") /\ UNCHANGED run
    /\ UNCHANGED source

CountAnswer ==
    /\ doing.worker \in {"submitted", "dropped", "refused"}
    /\ Tally(doing.worker)
    /\ doing' = [doing EXCEPT !.worker = "decide", !.failure = doing.worker = "refused" /\ ~run.stop]
    /\ UNCHANGED source

Decide ==
    /\ doing.worker = "decide"
    /\ IF doing.reached \/ doing.failure
       THEN BeginStop("worker", IF doing.failure THEN "Immediate" ELSE "Graceful")
       ELSE MoveTo("worker", "return")
    /\ UNCHANGED <<source, run>>

ReturnFrame ==
    /\ doing.worker = "return"
    /\ SourceAdvance
    /\ MoveTo("worker", "none")
    /\ UNCHANGED run

(* The executor delivers a result, on a thread of its own. *)
Complete ==
    /\ run.pending > 0
    /\ \E failed \in {0, 1} :
        run' = [run EXCEPT !.pending = @ - 1, !.sum.completed = @ + 1, !.sum.failed = @ + failed]
    /\ UNCHANGED <<source, doing>>

-----------------------------------------------------------------------------
(* wait() *)

WaitSource_Mutant ==
    /\ doing.main = "wait"
    /\ SourceWaitTake
    /\ BeginStop("main", "Graceful")
    /\ UNCHANGED run

WaitSource ==
    /\ doing.main = "wait"
    /\ SourceWaitTake
    /\ IF source.joinable THEN MoveTo("main", "join source") ELSE BeginStop("main", "Graceful")
    /\ UNCHANGED run

WaitJoined ==
    /\ doing.main = "join source"
    /\ SourceJoined
    /\ BeginStop("main", "Graceful")
    /\ UNCHANGED run

WaitExecutor ==
    /\ doing.main = "executor wait" /\ run.pending = 0
    /\ run' = [run EXCEPT !.open = FALSE]
    /\ MoveTo("main", "join timer")
    /\ UNCHANGED source

WaitTimer ==
    /\ doing.main = "join timer" /\ doing.timer \in {"none", "ended"}
    /\ run' = [run EXCEPT !.finished = TRUE]
    /\ MoveTo("main", "done")
    /\ UNCHANGED source

-----------------------------------------------------------------------------

Main == \/ StartBegins \/ StartInvalid \/ StartSource \/ StartFails
        \/ WaitSource \/ WaitJoined \/ WaitExecutor \/ WaitTimer \/ Stop("main")
Worker == \/ ReadFrame \/ Receive \/ SourceFailure \/ Submit \/ CountAnswer \/ Decide
          \/ ReturnFrame \/ Stop("worker")
Timer == TimerFires \/ TimerCancelled \/ Stop("timer")

FrameNext == Main \/ Worker \/ Timer \/ Complete \/ CallerStops \/ Stop("caller")

FrameFairness == /\ WF_frameVars(Main) /\ WF_frameVars(Worker) /\ WF_frameVars(Timer)
                 /\ WF_frameVars(Complete) /\ WF_frameVars(Stop("caller"))

FrameSpec == FrameInit /\ [][FrameNext]_frameVars /\ FrameFairness

-----------------------------------------------------------------------------

(* The summary that wait() returns is final and adds up: no frame is being *)
(* handed over, no result is outstanding, and every frame was submitted,   *)
(* dropped, a source failure, or refused by an executor that was stopping. *)
(* Until then a result may be counted before its submission, but only that *)
(* of the frame in hand.  No more frames are received than frameCount, or  *)
(* than a finite source has announced.                                     *)
SummaryComplete ==
    LET s == run.sum
        uncounted == IF doing.worker = "submitted" THEN 1 ELSE 0
    IN  /\ s.completed + run.pending = s.submitted + uncounted
        /\ s.failed <= s.completed
        /\ s.refused > 0 => run.stop
        /\ \A n \in run.options.count \cup Info.expected : n > 0 => s.received <= n
        /\ doing.main = "done" =>
              /\ source.thread \in {"none", "ended"}
              /\ run.pending = 0 /\ ~run.open
              /\ s.received = s.submitted + s.dropped + s.sourceFailures + s.refused

(* A run that is bounded, or that was stopped after its source started,    *)
(* ends: wait() returns.  A stop that comes before the source starts is    *)
(* forgotten by the source, and bounds nothing.                            *)
Bounded == ~source.loop \/ run.options.count # {} \/ source.stop
FrameRunEnds == (source.started /\ Bounded) ~> (doing.main = "done")

=============================================================================
