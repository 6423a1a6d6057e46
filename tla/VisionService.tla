----------------------------- MODULE VisionService -----------------------------
(***************************************************************************)
(* VisionService around a SessionController: its commands, its completion  *)
(* callback, and the metrics thread that publishes live values of a run.   *)
(*                                                                         *)
(* One client loads profiles and invokes session.start and session.stop.   *)
(* The metrics thread is replaced or joined under metricsThreadMutex_ by   *)
(* the client and by the control thread's callback; whoever does so holds  *)
(* the mutex until the thread has ended.  Publishing itself is the         *)
(* EndpointRegistry's; here only the payload that is published matters.    *)
(***************************************************************************)
EXTENDS SessionController

VARIABLES met, live

ServiceVars == <<ctl, ses, at, met, live>>

(* `commands`: session.start and session.stop are registered; `pipeline`:  *)
(* timedPipeline_ is set; `summary` and `performance`: the live payload is *)
(* served; `reported`: the batch observer has reported the run; `may`: the *)
(* client may still invoke session.stop, which it does at most once after  *)
(* each start and each load; `loads` is bounded by Runs.  `live` is the    *)
(* metrics thread, `seen` the session whose pointer it took.               *)
ServiceInit ==
    /\ ControllerInit
    /\ met = [commands |-> FALSE, pipeline |-> FALSE, holder |-> {}, summary |-> FALSE,
              performance |-> FALSE, reported |-> FALSE, may |-> TRUE, loads |-> 0]
    /\ live = [thread |-> "none", stop |-> FALSE, seen |-> 0]

LiveOver == live.thread \in {"none", "ended"}

(* metricsThread_ = {}, in two steps: interrupt it, and see it joined. *)
Interrupt(who, then) ==
    /\ met.holder = {}
    /\ met' = [met EXCEPT !.holder = {who}]
    /\ live' = [live EXCEPT !.stop = TRUE]
    /\ Goto(who, then)
    /\ UNCHANGED <<ctl, ses>>

Joined(who) == LiveOver /\ who \in met.holder

-----------------------------------------------------------------------------
(* loadProfile() and shutdown() *)

Load_Mutant ==
    /\ at.client = "idle" /\ met.loads < Runs
    /\ met' = [met EXCEPT !.holder = {"client"}]
    /\ live' = [live EXCEPT !.thread = IF @ = "test" THEN "ended" ELSE @]
    /\ Goto("client", "load stop")
    /\ UNCHANGED <<ctl, ses>>

Load ==
    /\ at.client = "idle" /\ met.loads < Runs
    /\ Interrupt("client", "load join")

LoadJoined ==
    /\ at.client = "load join" /\ Joined("client")
    /\ Goto("client", "load stop")
    /\ UNCHANGED <<ctl, ses, met, live>>

LoadStops_Mutant ==
    /\ at.client = "load stop"
    /\ ctl' = [StopRequested("Immediate") EXCEPT !.asked = TRUE]
    /\ met' = [met EXCEPT !.commands = FALSE, !.pipeline = FALSE, !.loads = @ + 1]
    /\ Goto("client", "load profile")
    /\ UNCHANGED <<ses, live>>

LoadStops ==
    /\ at.client = "load stop"
    /\ ctl' = [StopRequested("Immediate") EXCEPT !.asked = TRUE]
    /\ met' = [met EXCEPT !.holder = {}, !.commands = FALSE, !.pipeline = FALSE, !.loads = @ + 1]
    /\ Goto("client", "load profile")
    /\ UNCHANGED <<ses, live>>

(* A profile may be refused, or the session not be assembled; then the     *)
(* commands are registered all the same, and the last session is kept.     *)
LoadProfile ==
    /\ at.client = "load profile"
    /\ \/ Goto("client", "idle") /\ UNCHANGED met
       \/ /\ met' = [met EXCEPT !.commands = TRUE]
          /\ Goto("client", "idle") \/ Goto("client", "join watch")
    /\ UNCHANGED <<ctl, ses, live>>

LoadAdopts ==
    /\ Adopt
    /\ met' = [met EXCEPT !.pipeline = TRUE, !.reported = FALSE, !.may = TRUE]
    /\ UNCHANGED live

LoadConfigures == (JoinWatch \/ JoinControl) /\ UNCHANGED <<met, live>>

-----------------------------------------------------------------------------
(* session.start and session.stop *)

InvokeStart == met.commands /\ Start /\ met' = [met EXCEPT !.may = TRUE] /\ UNCHANGED live

StartSpawns == (SpawnControl \/ SpawnWatch) /\ UNCHANGED <<met, live>>

StartInterrupts == at.client = "started" /\ Interrupt("client", "start metrics")

StartMetrics ==
    /\ at.client = "start metrics" /\ Joined("client")
    /\ live' = [live EXCEPT !.thread = "test", !.stop = FALSE]
    /\ met' = [met EXCEPT !.holder = {}]
    /\ Goto("client", "idle")
    /\ UNCHANGED <<ctl, ses>>

InvokeStop ==
    /\ at.client = "idle" /\ met.commands /\ met.may
    /\ Interrupt("client", "stop join")

StopRequests ==
    /\ at.client = "stop join" /\ Joined("client")
    /\ ctl' = [StopRequested("Graceful") EXCEPT !.asked = TRUE]
    /\ met' = [met EXCEPT !.holder = {}, !.may = FALSE]
    /\ Goto("client", "idle")
    /\ UNCHANGED <<ses, live>>

-----------------------------------------------------------------------------
(* The control thread: the batch observer reports when the executor has    *)
(* finished a batch that was begun; then the completion callback.          *)

ControlStep ==
    /\ Control
    /\ met' = IF at.control = "wait" /\ Received > 0
              THEN [met EXCEPT !.reported = TRUE, !.performance = FALSE] ELSE met
    /\ UNCHANGED live

CallbackInterrupts_Mutant ==
    /\ at.control = "callback"
    /\ Goto("control", "publish")
    /\ UNCHANGED <<ctl, ses, met, live>>

CallbackInterrupts == at.control = "callback" /\ Interrupt("control", "callback join")

CallbackJoined ==
    /\ at.control = "callback join" /\ Joined("control")
    /\ met' = [met EXCEPT !.holder = {}]
    /\ Goto("control", "publish")
    /\ UNCHANGED <<ctl, ses, live>>

CallbackPublishes ==
    /\ at.control = "publish"
    /\ met' = [met EXCEPT !.summary = FALSE]
    /\ Goto("control", "ended")
    /\ UNCHANGED <<ctl, ses, live>>

Callback == CallbackInterrupts \/ CallbackJoined \/ CallbackPublishes

-----------------------------------------------------------------------------
(* MetricsAggregator::publishLive() on the metrics thread *)

LiveGoto(place) == live' = [live EXCEPT !.thread = place]

LiveTest ==
    /\ live.thread = "test"
    /\ LiveGoto(IF live.stop THEN "ended" ELSE "counters")
    /\ UNCHANGED met

LiveCounters ==
    /\ live.thread = "counters"
    /\ live' = IF Active /\ ctl.running
               THEN [live EXCEPT !.thread = "read", !.seen = ctl.configured]
               ELSE [live EXCEPT !.thread = "performance"]
    /\ UNCHANGED met

LiveRead ==
    /\ live.thread = "read"
    /\ LiveGoto("store")
    /\ UNCHANGED met

LiveStore ==
    /\ live.thread = "store"
    /\ met' = [met EXCEPT !.summary = TRUE]
    /\ LiveGoto("performance")

LivePerformance ==
    /\ live.thread = "performance"
    /\ LiveGoto(IF met.pipeline /\ Received > 0 THEN "store performance" ELSE "test")
    /\ UNCHANGED met

LiveStorePerformance ==
    /\ live.thread = "store performance"
    /\ met' = [met EXCEPT !.performance = TRUE]
    /\ LiveGoto("test")

Live ==
    /\ LiveTest \/ LiveCounters \/ LiveRead \/ LiveStore \/ LivePerformance \/ LiveStorePerformance
    /\ UNCHANGED <<ctl, ses, at>>

-----------------------------------------------------------------------------

Client == LoadJoined \/ LoadStops \/ LoadProfile \/ LoadAdopts \/ LoadConfigures
          \/ StartSpawns \/ StartInterrupts \/ StartMetrics \/ StopRequests

Others == (Watch \/ \E i \in Sources : Feed(i)) /\ UNCHANGED <<met, live>>

ServiceNext == Running /\ (Load \/ InvokeStart \/ InvokeStop \/ Client \/ ControlStep \/ Callback
                    \/ Live \/ Others)

ServiceFairness ==
    /\ WF_ServiceVars(Running /\ Client) /\ WF_ServiceVars(Running /\ ControlStep)
    /\ WF_ServiceVars(Running /\ Callback) /\ WF_ServiceVars(Running /\ Live)
    /\ WF_ServiceVars(Running /\ Watch /\ UNCHANGED <<met, live>>)
    /\ \A i \in Sources : WF_ServiceVars(Running /\ Feed(i) /\ UNCHANGED <<met, live>>)

ServiceSpec == ServiceInit /\ [][ServiceNext]_ServiceVars /\ ServiceFairness

-----------------------------------------------------------------------------

(* configure() leaves nothing of the run before it: the session whose      *)
(* pointer liveCounters() took and reads outside the lock is still the     *)
(* controller's, and start() finds no thread of an earlier run to assign   *)
(* to, which would end the process, unless the client starts again what it *)
(* has not configured anew.                                                *)
NothingOutlivesConfigure ==
    /\ live.thread = "read" => live.seen = ctl.configured
    /\ at.client = "terminated" \/ (at.client = "spawn control" /\ ctl.watch) => ctl.starts > 1

Reported == at.control = "ended" /\ ctl.state = "Idle" /\ ctl.final # {}

(* Once a run has been reported its final summary is what is served; no    *)
(* live tick comes after it, not even of a metrics thread that             *)
(* session.start creates when the run is over already.                     *)
FinalSummaryWins == Reported => ~met.summary

(* A run that is stopped, or whose sources are finite, comes to its end,   *)
(* and its completion callback returns, whoever joins the metrics thread   *)
(* at the time.                                                            *)
RunIsReported ==
    (ctl.state = "Stopping" \/ (ctl.state = "Running" /\ at.control # "ended" /\ Cameras = {}))
        ~> (at.control = "ended" \/ ~Running)

=============================================================================
