----------------------- MODULE HikrobotMvsCameraDevice -----------------------
(***************************************************************************)
(* camera::HikrobotMvsCameraDevice: acquisition by a grabbing thread that  *)
(* fetches images from the MVS SDK and hands each one, or an error, to the *)
(* callback it was started with.  The frame source that owns the device    *)
(* extends this module and supplies what the callback does.                *)
(*                                                                         *)
(* External: the camera and the SDK.  A fetch times out, fails, or returns *)
(* an image.  Software trigger mode gives no image before the first        *)
(* trigger; after it images may come late or unasked.  The camera numbers  *)
(* them modulo Wrap (2^32 in the SDK) and may skip fewer than Wrap.        *)
(***************************************************************************)
EXTENDS Integers

CONSTANTS
    Wrap,        \* the camera's frame number counts modulo this
    MaxFrames    \* bound: the number of images that the camera takes

ASSUME WrapAssumption == Wrap \in Nat \ {0, 1}
ASSUME MaxFramesAssumption == MaxFrames \in Nat

VARIABLES
    acquisitionStarted,  \* started_
    acquiring,           \* running_
    stopToken,           \* stopSource_ has been asked to stop
    grabber,             \* where the grabbing thread is
    grabbed,             \* what it is about to hand to the callback
    cameraTriggered,     \* a trigger has reached the camera since it was started
    cameraFrames,        \* the images the camera has taken since it was started
    sequenceNumber,      \* the local sequenceNumber of the grabbing thread
    previousFrame        \* its previousFrame; NoFrame is !hasPreviousFrame

countVars == <<cameraFrames, sequenceNumber, previousFrame>>
deviceVars == <<acquisitionStarted, acquiring, stopToken, grabber, grabbed,
                cameraTriggered, countVars>>

NoFrame == -1

DeviceInit ==
    /\ acquisitionStarted = FALSE /\ acquiring = FALSE /\ stopToken = FALSE
    /\ grabber = "none" /\ grabbed = "frame" /\ cameraTriggered = FALSE
    /\ cameraFrames = 0 /\ sequenceNumber = 0 /\ previousFrame = NoFrame

DeviceTypeOK ==
    /\ {acquisitionStarted, acquiring, stopToken, cameraTriggered} \subseteq BOOLEAN
    /\ grabber \in {"none", "head", "fetch", "deliver", "callback", "complete", "exited"}
    /\ grabbed \in {"frame", "badFrame", "failure"}
    /\ cameraFrames \in 0 .. MaxFrames /\ sequenceNumber \in Nat
    /\ previousFrame \in 0 .. Wrap - 1 \cup {NoFrame}

\* A successful startAcquisition(); it makes a stop source of its own.
StartAcquisition ==
    /\ ~acquisitionStarted
    /\ acquisitionStarted' = TRUE
    /\ acquiring' = TRUE
    /\ stopToken' = FALSE
    /\ grabber' = "head"
    /\ UNCHANGED <<grabbed, cameraTriggered, countVars>>

RequestDeviceStop ==
    /\ stopToken' = TRUE
    /\ UNCHANGED <<acquisitionStarted, acquiring, grabber, grabbed, cameraTriggered,
                   countVars>>

GrabTestStop ==
    /\ grabber = "head"
    /\ grabber' = IF stopToken THEN "exited" ELSE "fetch"
    /\ acquiring' = ~stopToken
    /\ UNCHANGED <<acquisitionStarted, stopToken, grabbed, cameraTriggered, countVars>>

GrabTimeout ==
    /\ grabber = "fetch"
    /\ grabber' = "head"
    /\ UNCHANGED <<acquisitionStarted, acquiring, stopToken, grabbed, cameraTriggered, countVars>>

\* The SDK fails (the thread will leave), or the image's format is unusable.
GrabError ==
    /\ grabber = "fetch"
    /\ grabber' = "deliver"
    /\ grabbed' \in {"failure", "badFrame"}
    /\ UNCHANGED <<acquisitionStarted, acquiring, stopToken, cameraTriggered, countVars>>

\* Mutant: the frame numbers are subtracted without their width.
CountFrame_NoWrap(raw) ==
    /\ sequenceNumber' = IF previousFrame = NoFrame THEN raw
                         ELSE sequenceNumber + raw - previousFrame
    /\ previousFrame' = raw

CountFrame(raw) ==
    /\ sequenceNumber' = IF previousFrame = NoFrame THEN raw
                         ELSE sequenceNumber + ((raw - previousFrame) % Wrap)
    /\ previousFrame' = raw

\* An image arrives; Frame::create may still refuse it.
GrabFrame ==
    /\ grabber = "fetch"
    /\ cameraTriggered
    /\ grabber' = "deliver"
    /\ grabbed' \in {"frame", "badFrame"}
    /\ \E gap \in 1 .. Wrap - 1 :
         /\ cameraFrames + gap <= MaxFrames
         /\ cameraFrames' = cameraFrames + gap
         /\ CountFrame((cameraFrames + gap) % Wrap)
    /\ UNCHANGED <<acquisitionStarted, acquiring, stopToken, cameraTriggered>>

\* The callback has returned; after an SDK failure the thread leaves its loop.
Delivered ==
    /\ grabber' = IF grabbed = "failure" THEN "exited" ELSE "head"
    /\ acquiring' = (grabbed # "failure")
    /\ UNCHANGED <<acquisitionStarted, stopToken, grabbed, cameraTriggered, countVars>>

\* softwareTrigger(); the command may reach the camera and be reported as failed.
SoftwareTrigger(succeeds) ==
    /\ succeeds => acquisitionStarted /\ acquiring
    /\ cameraTriggered' \in {succeeds \/ cameraTriggered, cameraTriggered \/ acquiring}
    /\ UNCHANGED <<acquisitionStarted, acquiring, stopToken, grabber, grabbed, countVars>>

\* The 64-bit sequence numbers count the camera's images across the wrap of the
\* camera's own numbers, whatever images were skipped.
SequenceCountsImages == previousFrame # NoFrame => sequenceNumber = cameraFrames
=============================================================================
