--------------------------- MODULE SessionController ---------------------------
(***************************************************************************)
(* session::SessionController: runs a session on a control thread and      *)
(* watches for its sources to finish.                                      *)
(*                                                                         *)
(* Three threads: the client (configure, start, requestStop), the control  *)
(* thread and the completion watch.  The session is a MultiCameraSession   *)
(* reduced to its sources, which start one after the other and have ended  *)
(* when wait() returns; those in Cameras deliver until they are stopped,   *)
(* the others Frames frames.  Each mutex-protected block is one step.      *)
(***************************************************************************)
EXTENDS Naturals, FiniteSets, Functions

CONSTANTS Count,     \* of sources
          Cameras,   \* those that do not end by themselves
          Frames,    \* a finite source delivers
          Runs,      \* bound: configure and start are called so often
          Stops,     \* the modes in which the client may request a stop
          StartMay   \* the outcomes of a source's start: {"ok"} or {"ok", "fail"}

VARIABLES ctl, ses, at

Sources == 1 .. Count

Idle(outcome) == [source |-> [i \in Sources |-> "idle"], stop |-> FALSE, next |-> 1,
                  left |-> [i \in Sources |-> Frames], outcome |-> outcome]

ControllerInit ==
    /\ ctl = [state |-> "Idle", session |-> FALSE, running |-> FALSE, mode |-> "Graceful",
              final |-> {}, error |-> FALSE, control |-> FALSE, watch |-> FALSE,
              configured |-> 0, starts |-> 0, asked |-> FALSE]
    /\ ses = Idle("ok")
    /\ at = [client |-> "idle", control |-> "none", watch |-> "none", scan |-> 1]

(* `control` and `watch` say whether the thread member is joinable; `starts` *)
(* counts those since the last configure, `asked` whether the client stopped *)
(* the run, and `final` holds the frames the last run received.            *)

Goto(t, place) == at' = [at EXCEPT ![t] = place]

Active == ctl.state \in {"Running", "Stopping"}

-----------------------------------------------------------------------------
(* configure() and waitForIdle() *)

Configure ==
    /\ at.client = "idle" /\ ctl.configured < Runs
    /\ Goto("client", "join watch")
    /\ UNCHANGED <<ctl, ses>>

JoinWatch ==
    /\ at.client = "join watch"
    /\ ctl.watch => at.watch = "ended"
    /\ ctl' = [ctl EXCEPT !.watch = FALSE]
    /\ Goto("client", "join control")
    /\ UNCHANGED ses

JoinControl ==
    /\ at.client = "join control"
    /\ ctl.control => at.control = "ended"
    /\ ctl' = [ctl EXCEPT !.control = FALSE]
    /\ Goto("client", "adopt")
    /\ UNCHANGED ses

Adopt ==
    /\ at.client = "adopt"
    /\ ctl' = [ctl EXCEPT !.session = TRUE, !.final = {}, !.state = "Idle", !.starts = 0,
                          !.configured = @ + 1]
    /\ \E outcome \in StartMay : ses' = Idle(outcome)
    /\ Goto("client", "idle")

-----------------------------------------------------------------------------
(* start() and requestStop() *)

StartRefused == Active \/ ~ctl.session

Start ==
    /\ at.client = "idle" /\ ctl.starts <= Runs
    /\ ~StartRefused
    /\ ctl' = [ctl EXCEPT !.state = "Running", !.running = TRUE, !.final = {},
                          !.mode = "Graceful", !.starts = @ + 1, !.asked = FALSE]
    /\ Goto("client", "spawn control")
    /\ UNCHANGED ses

(* Assigning to a joinable std::thread ends the process. *)
SpawnControl ==
    /\ at.client = "spawn control"
    /\ IF ctl.control
       THEN Goto("client", "terminated") /\ UNCHANGED ctl
       ELSE /\ at' = [at EXCEPT !.client = "spawn watch", !.control = "take"]
            /\ ctl' = [ctl EXCEPT !.control = TRUE]
    /\ UNCHANGED ses

SpawnWatch ==
    /\ at.client = "spawn watch"
    /\ at' = [at EXCEPT !.client = "started", !.watch = "check"]
    /\ ctl' = [ctl EXCEPT !.watch = TRUE]
    /\ UNCHANGED ses

StartReturns ==
    /\ at.client = "started"
    /\ Goto("client", "idle")
    /\ UNCHANGED <<ctl, ses>>

StopRequested(mode) ==
    IF Active THEN [ctl EXCEPT !.state = "Stopping", !.mode = mode] ELSE ctl

ClientStops ==
    /\ at.client = "idle" /\ Active
    /\ \E mode \in Stops : ctl' = [StopRequested(mode) EXCEPT !.asked = TRUE]
    /\ UNCHANGED <<ses, at>>

-----------------------------------------------------------------------------
(* completionWatchMain() *)

WatchCheck ==
    /\ at.watch = "check"
    /\ IF ctl.state = "Running" /\ ctl.running
       THEN at' = [at EXCEPT !.watch = "poll", !.scan = 1]
       ELSE Goto("watch", "ended")
    /\ UNCHANGED <<ctl, ses>>

(* isRunning() of one source after the other; the first that runs sends    *)
(* the thread to sleep.                                                    *)
WatchPoll ==
    /\ at.watch = "poll"
    /\ at' = CASE ses.source[at.scan] = "running" -> [at EXCEPT !.watch = "check"]
               [] at.scan < Count -> [at EXCEPT !.scan = @ + 1]
               [] OTHER -> [at EXCEPT !.watch = "stop"]
    /\ UNCHANGED <<ctl, ses>>

WatchStop ==
    /\ at.watch = "stop"
    /\ ctl' = StopRequested("Graceful")
    /\ Goto("watch", "ended")
    /\ UNCHANGED ses

Watch == WatchCheck \/ WatchPoll \/ WatchStop

-----------------------------------------------------------------------------
(* controlThreadMain() *)

ControlTake ==
    /\ at.control = "take"
    /\ ctl' = [ctl EXCEPT !.session = FALSE]
    /\ Goto("control", "start")
    /\ UNCHANGED ses

ControlStartSource ==
    /\ at.control = "start" /\ ses.next <= Count /\ (ses.outcome = "ok" \/ ses.next < Count)
    /\ ses' = [ses EXCEPT !.source[ses.next] = "running", !.next = @ + 1]
    /\ UNCHANGED <<ctl, at>>

(* The session has stopped and joined the sources it started. *)
ControlStartFails ==
    /\ at.control = "start" /\ ses.next = Count /\ ses.outcome = "fail"
    /\ ses' = [ses EXCEPT !.source = [i \in Sources |-> "ended"]]
    /\ ctl' = [ctl EXCEPT !.error = TRUE]
    /\ Goto("control", "failed")

ControlGivesUp ==
    /\ at.control = "failed"
    /\ ctl' = [ctl EXCEPT !.session = TRUE, !.running = FALSE, !.state = "Idle"]
    /\ Goto("control", "ended")
    /\ UNCHANGED ses

ControlStarted ==
    /\ at.control = "start" /\ ses.next > Count
    /\ Goto("control", "loop")
    /\ UNCHANGED <<ctl, ses>>

ControlStop ==
    /\ at.control = "loop" /\ ctl.state = "Stopping"
    /\ ses' = [ses EXCEPT !.stop = TRUE]
    /\ Goto("control", "wait")
    /\ UNCHANGED ctl

ControlWait ==
    /\ at.control = "wait"
    /\ \A i \in Sources : ses.source[i] = "ended"
    /\ Goto("control", "collect")
    /\ UNCHANGED <<ctl, ses>>

Received == FoldFunction(LAMBDA left, n : n + Frames - left, 0, ses.left)

ControlCollect ==
    /\ at.control = "collect"
    /\ ctl' = [ctl EXCEPT !.final = {Received}, !.session = TRUE, !.running = FALSE, !.state = "Idle"]
    /\ Goto("control", "callback")
    /\ UNCHANGED ses

ControlReturns ==
    /\ at.control = "callback"
    /\ Goto("control", "ended")
    /\ UNCHANGED <<ctl, ses>>

Control ==
    \/ ControlTake \/ ControlStartSource \/ ControlStartFails \/ ControlGivesUp
    \/ ControlStarted \/ ControlStop \/ ControlWait \/ ControlCollect

(* A source delivers a frame, or ends: stopped, or out of frames. *)
SourceDelivers(i) ==
    /\ ses.source[i] = "running" /\ ses.left[i] > 0 /\ ~ses.stop
    /\ ses' = [ses EXCEPT !.left[i] = @ - 1]
    /\ UNCHANGED <<ctl, at>>

SourceEnds(i) ==
    /\ ses.source[i] = "running"
    /\ ses.stop \/ (i \notin Cameras /\ ses.left[i] = 0)
    /\ ses' = [ses EXCEPT !.source[i] = "ended"]
    /\ UNCHANGED <<ctl, at>>

Feed(i) == SourceDelivers(i) \/ SourceEnds(i)

-----------------------------------------------------------------------------

ClientGoesOn == JoinWatch \/ JoinControl \/ Adopt \/ SpawnControl \/ SpawnWatch

Running == at.client # "terminated"

ControllerNext ==
    /\ Running
    /\ \/ Configure \/ Start \/ ClientStops \/ ClientGoesOn \/ StartReturns
       \/ Watch \/ Control \/ ControlReturns
       \/ \E i \in Sources : Feed(i)

controllerVars == <<ctl, ses, at>>

ControllerFairness ==
    /\ WF_controllerVars(Running /\ (ClientGoesOn \/ StartReturns)) /\ WF_controllerVars(Running /\ Watch)
    /\ WF_controllerVars(Running /\ Control) /\ WF_controllerVars(Running /\ ControlReturns)
    /\ \A i \in Sources : WF_controllerVars(Running /\ Feed(i))

ControllerSpec == ControllerInit /\ [][ControllerNext]_controllerVars /\ ControllerFairness

-----------------------------------------------------------------------------

(* A run of finite sources that nobody stops and that starts collects all  *)
(* their frames: sessionControllerTest.cpp expects 6 of 2 sources with 3.  *)
FiniteRunCollectsAll ==
    ~ctl.asked /\ Cameras = {} => ctl.final \subseteq {Count * Frames}

=============================================================================
