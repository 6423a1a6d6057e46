----------------------------- MODULE SourceParts -----------------------------
(***************************************************************************)
(* Model checking of where frames come from: a timed trigger source on its *)
(* device, or several sources that feed one executor.  `part` names the    *)
(* component that runs in a behaviour; the other one stays as it begins.   *)
(***************************************************************************)
EXTENDS TimedTriggerSource, MultiCameraSession

VARIABLE part

partsVars == <<part, vars, sessionVars>>

(* Two sources, with and without a time limit: a finite one and a camera,  *)
(* a camera before a source that will not start, two finite ones, and two  *)
(* finite ones of which the second will not start.                         *)
CameraOption(drop, broken, cameras) ==
    [duration |-> ~drop, drop |-> drop, broken |-> broken, cameras |-> cameras]

CameraOptions ==
    {CameraOption(FALSE, {}, {2}), CameraOption(FALSE, {2}, {1}),
     CameraOption(TRUE, {}, {}), CameraOption(TRUE, {2}, {})}

(* The session of a behaviour that only runs the trigger never starts. *)
Unused == session.options = CameraOption(TRUE, {}, {})

PartsInit == Init /\ SessionInit /\ part \in {"trigger", "cameras"} /\ (part = "trigger" => Unused)

TriggerStep(A) == part = "trigger" /\ A /\ UNCHANGED <<part, sessionVars>>
CamerasStep(A) == part = "cameras" /\ A /\ UNCHANGED <<part, vars>>

(* A session may rest once start() was refused or wait() returned, and as  *)
(* long as a camera that nobody stops has nothing to deliver.              *)
SessionRests ==
    /\ \/ At("main", "done") \/ At("main", "refused")
       \/ \E i \in session.options.cameras : feeds[i].thread = "test"
    /\ UNCHANGED sessionVars

PartsNext == TriggerStep(Next) \/ CamerasStep(SessionNext \/ SessionRests)

(* Nothing of the trigger that is fair can run before its start().  *)
PartsFairness ==
    /\ Fairness
    /\ WF_sessionVars(CamerasStep(Main)) /\ WF_sessionVars(CamerasStep(Timer))
    /\ WF_sessionVars(CamerasStep(Complete)) /\ WF_sessionVars(CamerasStep(Stop("caller")))
    /\ \A i \in Sources : WF_sessionVars(CamerasStep(Feed(i)))

PartsSpec == PartsInit /\ [][PartsNext]_partsVars /\ PartsFairness

=============================================================================
