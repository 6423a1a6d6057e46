--------------------------- MODULE MultiCameraSession ---------------------------
(***************************************************************************)
(* runtime::MultiCameraSession: several frame sources feed one executor.   *)
(*                                                                         *)
(* A source is a ContinuousCameraSource, which delivers until it is told   *)
(* to stop, or a finite one.  Threads: main (start, then wait), a caller   *)
(* that may request a stop at any time, the duration timer, and one thread *)
(* per source, which runs onFrame.  A thread's place is <<where, i>>, i    *)
(* the source it works on.  Sources are numbered in the order of start().  *)
(***************************************************************************)
EXTENDS Naturals, FiniteSets, Functions

CONSTANTS Count,       \* of sources
          Limit,       \* of the executor's queue
          Frames,      \* a finite source has; bound of what a camera delivers
          RunOptions   \* the combinations of options to choose from

VARIABLES session, feeds, at

sessionVars == <<session, feeds, at>>

Sources == 1 .. Count

\* start() refuses an empty list of sources.
ASSUME CountAssumption == Count \in Nat \ {0}
ASSUME BrokenAssumption == \A o \in RunOptions : o.broken \subseteq Sources

Control == {"main", "caller", "timer"}

SourceInit == [thread |-> "none", stop |-> FALSE, delivered |-> 0]

(* An option record has `cameras`, the continuous sources, and `broken`,   *)
(* those that will not start.                                              *)
SessionInit ==
    /\ \E o \in RunOptions :
          session = [options |-> o, started |-> FALSE, stop |-> FALSE, finished |-> FALSE,
                     cancelled |-> FALSE, open |-> TRUE, pending |-> 0, submitted |-> 0,
                     completed |-> 0, failed |-> 0, sourceFailures |-> 0, refused |-> 0,
                     received |-> [i \in Sources |-> 0], dropped |-> [i \in Sources |-> 0]]
    /\ feeds = [i \in Sources |-> SourceInit]
    /\ at = [t \in Control |-> <<CASE t = "main" -> "new" [] t = "caller" -> "idle"
                                   [] t = "timer" -> "none", 0>>]

Goto(t, place, i) == at' = [at EXCEPT ![t] = <<place, i>>]

At(t, place) == at[t][1] = place

-----------------------------------------------------------------------------
(* ContinuousCameraSource forwards to its device; a start forgets a stop   *)
(* that was requested before it.                                           *)

SourceStart(i) ==
    /\ i \notin session.options.broken
    /\ feeds' = [feeds EXCEPT ![i].thread = "test", ![i].stop = FALSE]

SourceRequestStop(i) == feeds' = [feeds EXCEPT ![i].stop = TRUE]

SourceWait(i) == feeds[i].thread \in {"none", "ended"}

SourceLeave(i) ==
    /\ feeds[i].thread = "test"
    /\ feeds[i].stop \/ (i \notin session.options.cameras /\ feeds[i].delivered = Frames)
    /\ feeds' = [feeds EXCEPT ![i].thread = "ended"]
    /\ UNCHANGED <<session, at>>

-----------------------------------------------------------------------------
(* start() *)

Start ==
    /\ At("main", "new") /\ ~session.started
    /\ session' = [session EXCEPT !.started = TRUE]
    /\ at' = [at EXCEPT !["main"] = <<"start", 1>>,
                        !["timer"] = <<IF session.options.duration THEN "armed" ELSE "none", 0>>]
    /\ UNCHANGED feeds

StartSource ==
    LET i == at["main"][2]
    IN  /\ At("main", "start")
        /\ SourceStart(i)
        /\ IF i = Count THEN Goto("main", "wait", 1) ELSE Goto("main", "start", i + 1)
        /\ UNCHANGED session

StartFails ==
    /\ At("main", "start") /\ at["main"][2] \in session.options.broken
    /\ Goto("main", "rollback", 1)
    /\ UNCHANGED <<session, feeds>>

(* The sources before the one that failed are stopped and joined in turn. *)
Failed == CHOOSE i \in session.options.broken : \A j \in session.options.broken : i <= j

RollbackStop_Mutant ==
    LET i == at["main"][2]
    IN  /\ At("main", "rollback") /\ i < Failed
        /\ SourceRequestStop(i)
        /\ Goto("main", "rollback", i + 1)
        /\ UNCHANGED session

RollbackStop ==
    LET i == at["main"][2]
    IN  /\ At("main", "rollback") /\ i < Failed
        /\ SourceRequestStop(i)
        /\ Goto("main", "rollback wait", i)
        /\ UNCHANGED session

RollbackWait ==
    LET i == at["main"][2]
    IN  /\ At("main", "rollback wait") /\ SourceWait(i)
        /\ Goto("main", "rollback", i + 1)
        /\ UNCHANGED <<session, feeds>>

RollbackTimer ==
    /\ At("main", "rollback") /\ at["main"][2] = Failed
    /\ session' = [session EXCEPT !.cancelled = TRUE]
    /\ Goto("main", "rollback join", 0)
    /\ UNCHANGED feeds

TimerOver == At("timer", "none") \/ At("timer", "ended")

RollbackEnds ==
    /\ At("main", "rollback join") /\ TimerOver
    /\ Goto("main", "refused", 0)
    /\ UNCHANGED <<session, feeds>>

-----------------------------------------------------------------------------
(* requestStop(): the flag, the timer, each source, the executor. *)

StopFlag(t) ==
    /\ At(t, "flag")
    /\ IF session.finished THEN Goto(t, "ended", 0) ELSE Goto(t, "cancel", 0)
    /\ session' = [session EXCEPT !.stop = @ \/ ~session.finished]
    /\ UNCHANGED feeds

StopTimer(t) ==
    /\ At(t, "cancel")
    /\ session' = [session EXCEPT !.cancelled = TRUE]
    /\ Goto(t, "stop source", 1)
    /\ UNCHANGED feeds

StopSource_Mutant(t) ==
    LET i == at[t][2]
    IN  /\ At(t, "stop source") /\ i <= Count
        /\ Goto(t, "stop source", i + 1)
        /\ IF i < Count THEN SourceRequestStop(i) ELSE UNCHANGED feeds
        /\ UNCHANGED session

StopSource(t) ==
    LET i == at[t][2]
    IN  /\ At(t, "stop source") /\ i <= Count
        /\ Goto(t, "stop source", i + 1)
        /\ SourceRequestStop(i)
        /\ UNCHANGED session

StopExecutor(t) ==
    /\ At(t, "stop source") /\ at[t][2] > Count
    /\ session' = [session EXCEPT !.open = FALSE]
    /\ Goto(t, IF t = "main" THEN "executor wait" ELSE "ended", 0)
    /\ UNCHANGED feeds

Stop(t) == StopFlag(t) \/ StopTimer(t) \/ StopSource(t) \/ StopExecutor(t)

CallerStops ==
    /\ At("caller", "idle")
    /\ Goto("caller", "flag", 0)
    /\ UNCHANGED <<session, feeds>>

TimerFires ==
    /\ At("timer", "armed") /\ ~session.cancelled
    /\ Goto("timer", "flag", 0)
    /\ UNCHANGED <<session, feeds>>

TimerCancelled ==
    /\ At("timer", "armed") /\ session.cancelled
    /\ Goto("timer", "ended", 0)
    /\ UNCHANGED <<session, feeds>>

-----------------------------------------------------------------------------
(* onFrame(), on the thread of source i *)

Hand(i, place) == feeds' = [feeds EXCEPT ![i].thread = place]

Receive(i) ==
    /\ feeds[i].thread = "test" /\ ~feeds[i].stop /\ feeds[i].delivered < Frames
    /\ \E place \in {"submit", "unreadable"} :
          feeds' = [feeds EXCEPT ![i].thread = place, ![i].delivered = @ + 1]
    /\ session' = [session EXCEPT !.received[i] = @ + 1]
    /\ UNCHANGED at

Submit(i) ==
    /\ feeds[i].thread = "submit"
    /\ \/ ~session.open /\ Hand(i, "refused") /\ UNCHANGED session
       \/ /\ session.open /\ session.pending < Limit
          /\ session' = [session EXCEPT !.pending = @ + 1]
          /\ Hand(i, "submitted")
       \/ /\ session.open /\ session.pending = Limit /\ session.options.drop
          /\ Hand(i, "dropped") /\ UNCHANGED session
    /\ UNCHANGED at

(* A refusal is counted by no field; the code stops the session when none  *)
(* was requested, but an executor only refuses once the session stopped it.*)
CountAnswer(i) ==
    /\ feeds[i].thread \in {"submitted", "dropped", "refused", "unreadable"}
    /\ session' = CASE feeds[i].thread = "submitted" -> [session EXCEPT !.submitted = @ + 1]
                    [] feeds[i].thread = "dropped" -> [session EXCEPT !.dropped[i] = @ + 1]
                    [] feeds[i].thread = "refused" -> [session EXCEPT !.refused = @ + 1]
                    [] OTHER -> [session EXCEPT !.sourceFailures = @ + 1]
    /\ Hand(i, "test")
    /\ UNCHANGED at

Complete ==
    /\ session.pending > 0
    /\ \E failed \in {0, 1} :
          session' = [session EXCEPT !.pending = @ - 1, !.completed = @ + 1, !.failed = @ + failed]
    /\ UNCHANGED <<feeds, at>>

-----------------------------------------------------------------------------
(* wait() *)

WaitSource ==
    LET i == at["main"][2]
    IN  /\ At("main", "wait") /\ SourceWait(i)
        /\ IF i = Count THEN Goto("main", "flag", 0) ELSE Goto("main", "wait", i + 1)
        /\ UNCHANGED <<session, feeds>>

WaitExecutor ==
    /\ At("main", "executor wait") /\ session.pending = 0
    /\ Goto("main", "join timer", 0)
    /\ UNCHANGED <<session, feeds>>

WaitTimer ==
    /\ At("main", "join timer") /\ TimerOver
    /\ session' = [session EXCEPT !.finished = TRUE]
    /\ Goto("main", "done", 0)
    /\ UNCHANGED feeds

-----------------------------------------------------------------------------

Main == \/ Start \/ StartSource \/ StartFails \/ RollbackStop \/ RollbackWait
        \/ RollbackTimer \/ RollbackEnds \/ WaitSource \/ WaitExecutor \/ WaitTimer
        \/ Stop("main")
Timer == TimerFires \/ TimerCancelled \/ Stop("timer")
Feed(i) == SourceLeave(i) \/ Receive(i) \/ Submit(i) \/ CountAnswer(i)

SessionNext == \/ Main \/ Timer \/ Complete \/ CallerStops \/ Stop("caller")
               \/ \E i \in Sources : Feed(i)

SessionFairness ==
    /\ WF_sessionVars(Main) /\ WF_sessionVars(Timer) /\ WF_sessionVars(Complete)
    /\ WF_sessionVars(Stop("caller"))
    /\ \A i \in Sources : WF_sessionVars(Feed(i))

SessionSpec == SessionInit /\ [][SessionNext]_sessionVars /\ SessionFairness

-----------------------------------------------------------------------------

Total(f) == FoldFunction(+, 0, f)

Quiet == TimerOver /\ \A i \in Sources : SourceWait(i)

(* start() that fails returns with nothing of the session running: the     *)
(* sources it had started are joined and so is the timer.  wait() returns  *)
(* likewise, and then every frame of every source is accounted for.        *)
NothingRunsOn ==
    /\ At("main", "refused") => Quiet
    /\ At("main", "done") =>
          /\ Quiet /\ ~session.open /\ session.pending = 0
          /\ session.completed = session.submitted
          /\ Total(session.received) = session.submitted + Total(session.dropped)
                                         + session.sourceFailures + session.refused

(* A session whose sources have all started ends once a stop is requested, *)
(* or when all its sources are finite: wait() returns, whatever the queue  *)
(* holds and whoever else is stopping it.  (A stop requested while start() *)
(* is still at it is forgotten by the sources that start after it.)        *)
Ending == session.options.cameras = {} \/ At("caller", "flag") \/ At("timer", "flag")
SessionEnds == (At("main", "wait") /\ Ending) ~> At("main", "done")

=============================================================================
