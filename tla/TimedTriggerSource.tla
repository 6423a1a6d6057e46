------------------------- MODULE TimedTriggerSource -------------------------
(***************************************************************************)
(* camera::TimedTriggerSource on a Hikrobot device.  A scheduling thread   *)
(* triggers the camera, waits for the response and for the callback to     *)
(* return, waits for the trigger interval and starts over.  The device's   *)
(* grabbing thread runs onDeviceFrame, which delivers at most one frame a  *)
(* round, or an error that ends the run; the scheduling thread itself      *)
(* reports a trigger that failed and a response that did not come.         *)
(*                                                                         *)
(* A wait on stateReady_ is the step that the thread takes once the wait's *)
(* predicate holds (every change of it is notified) or its time is up.     *)
(***************************************************************************)
EXTENDS HikrobotMvsCameraDevice

VARIABLES
    starter,            \* the thread in start()
    activated, stopRequested, responseArrived, callbackCompleted, terminal,
    scheduler,          \* where the scheduling thread is
    stopper,            \* a requestStop() has yet to stop the device
    waiter,             \* the control thread in wait()
    errors,             \* history: the errors delivered so far
    lateStop, earlyStop \* history: requestStop() came after, before the device started

stateVars == <<activated, stopRequested, responseArrived, callbackCompleted, terminal>>
historyVars == <<errors, lateStop, earlyStop>>
vars == <<deviceVars, starter, stateVars, scheduler, stopper, waiter, historyVars>>

Init ==
    /\ DeviceInit
    /\ starter = "idle" /\ scheduler = "none" /\ stopper = "idle" /\ waiter = "idle"
    /\ activated = FALSE /\ stopRequested = FALSE /\ responseArrived = FALSE
    /\ callbackCompleted = FALSE /\ terminal = FALSE
    /\ errors = 0 /\ lateStop = FALSE /\ earlyStop = FALSE

TypeOK ==
    /\ DeviceTypeOK
    /\ starter \in {"idle", "acquire", "activate", "started", "abandon"}
    /\ {activated, stopRequested, responseArrived, callbackCompleted, terminal,
        lateStop, earlyStop} \subseteq BOOLEAN
    /\ scheduler \in {"none", "await", "loop", "trigger", "triggered", "failed", "response",
                      "completed", "interval", "report", "reporting", "leave", "exited"}
    /\ stopper \in {"idle", "device"}
    /\ waiter \in {"idle", "joinScheduler", "joinDevice", "returned"}
    /\ errors \in 0 .. 2
-----------------------------------------------------------------------------
(* start(), requestStop() and wait(); running_, which only answers          *)
(* isRunning(), is left out.                                              *)

\* A stop that was requested before start() is forgotten here.
StartReset ==
    /\ starter = "idle"
    /\ starter' = "acquire"
    /\ activated' = FALSE /\ stopRequested' = FALSE /\ responseArrived' = FALSE
    /\ callbackCompleted' = FALSE /\ terminal' = FALSE
    /\ scheduler' = "await"
    /\ earlyStop' = FALSE
    /\ UNCHANGED <<deviceVars, stopper, waiter, errors, lateStop>>

StartAcquire ==
    /\ starter = "acquire"
    /\ \/ StartAcquisition /\ starter' = "activate" /\ UNCHANGED stopRequested
       \/ starter' = "abandon" /\ stopRequested' = TRUE /\ UNCHANGED deviceVars
    /\ UNCHANGED <<activated, responseArrived, callbackCompleted, terminal, scheduler,
                   stopper, waiter, historyVars>>

\* The device did not start: join the scheduling thread; start() may be retried.
StartAbandon ==
    /\ starter = "abandon"
    /\ scheduler = "exited"
    /\ starter' = "idle"
    /\ scheduler' = "none"
    /\ UNCHANGED <<deviceVars, stateVars, stopper, waiter, historyVars>>

StartActivate ==
    /\ starter = "activate"
    /\ starter' = "started"
    /\ activated' = TRUE
    /\ UNCHANGED <<deviceVars, stopRequested, responseArrived, callbackCompleted, terminal,
                   scheduler, stopper, waiter, historyVars>>

Starter == StartAcquire \/ StartAbandon \/ StartActivate

RequestStop ==
    /\ stopper = "idle"
    /\ stopper' = "device"
    /\ stopRequested' = TRUE
    /\ lateStop' = (lateStop \/ starter \in {"activate", "started"})
    /\ earlyStop' = (earlyStop \/ starter = "acquire")
    /\ UNCHANGED <<deviceVars, starter, activated, responseArrived, callbackCompleted,
                   terminal, scheduler, waiter, errors>>

StopDevice ==
    /\ stopper = "device"
    /\ stopper' = "idle"
    /\ RequestDeviceStop
    /\ UNCHANGED <<starter, stateVars, scheduler, waiter, historyVars>>

WaitBegin ==
    /\ starter = "started"
    /\ waiter = "idle"
    /\ waiter' = "joinScheduler"
    /\ UNCHANGED <<deviceVars, starter, stateVars, scheduler, stopper, historyVars>>

WaitScheduler ==
    /\ waiter = "joinScheduler"
    /\ scheduler = "exited"
    /\ waiter' = "joinDevice"
    /\ UNCHANGED <<deviceVars, starter, stateVars, scheduler, stopper, historyVars>>

WaitDevice ==
    /\ waiter = "joinDevice"
    /\ grabber = "exited"
    /\ waiter' = "returned"
    /\ UNCHANGED <<deviceVars, starter, stateVars, scheduler, stopper, historyVars>>
-----------------------------------------------------------------------------
(* run(), the scheduling thread.                                           *)

SchedulerGoes(from, to) == scheduler = from /\ scheduler' = to
SchedulerOnly == UNCHANGED <<deviceVars, starter, stateVars, stopper, waiter, historyVars>>

AwaitActivation ==
    /\ SchedulerGoes("await", "loop")
    /\ activated \/ stopRequested
    /\ SchedulerOnly

BeginRound ==
    /\ SchedulerGoes("loop", "trigger")
    /\ ~stopRequested /\ ~terminal
    /\ responseArrived' = FALSE
    /\ callbackCompleted' = FALSE
    /\ UNCHANGED <<deviceVars, starter, activated, stopRequested, terminal, stopper,
                   waiter, historyVars>>

EndLoop ==
    /\ SchedulerGoes("loop", "leave")
    /\ stopRequested \/ terminal
    /\ SchedulerOnly

\* softwareTrigger(), outside the lock.
Trigger ==
    /\ \/ SoftwareTrigger(TRUE) /\ SchedulerGoes("trigger", "triggered")
       \/ SoftwareTrigger(FALSE) /\ SchedulerGoes("trigger", "failed")
    /\ UNCHANGED <<starter, stateVars, stopper, waiter, historyVars>>

\* Back under the lock: a failed trigger is an error unless a frame came anyway.
TriggerFailed ==
    /\ SchedulerGoes("failed", "report")
    /\ ~responseArrived
    /\ terminal' = TRUE
    /\ UNCHANGED <<deviceVars, starter, activated, stopRequested, responseArrived,
                   callbackCompleted, stopper, waiter, historyVars>>

TriggerSent ==
    /\ SchedulerGoes("triggered", "response") \/ SchedulerGoes("failed", "response")
    /\ scheduler = "failed" => responseArrived
    /\ SchedulerOnly

ResponseCame ==
    /\ SchedulerGoes("response", IF stopRequested THEN "leave" ELSE "completed")
    /\ responseArrived \/ stopRequested \/ terminal
    /\ SchedulerOnly

ResponseTimedOut ==
    /\ SchedulerGoes("response", "report")
    /\ ~responseArrived /\ ~stopRequested /\ ~terminal
    /\ terminal' = TRUE
    /\ UNCHANGED <<deviceVars, starter, activated, stopRequested, responseArrived,
                   callbackCompleted, stopper, waiter, historyVars>>

\* Mutant: the next round does not wait for the callback.
CallbackReturned_NoWait ==
    /\ SchedulerGoes("completed", IF stopRequested \/ terminal THEN "leave" ELSE "interval")
    /\ SchedulerOnly

CallbackReturned ==
    /\ SchedulerGoes("completed", IF stopRequested \/ terminal THEN "leave" ELSE "interval")
    /\ callbackCompleted \/ stopRequested
    /\ SchedulerOnly

\* The trigger interval is over, or cut short.
IntervalOver == SchedulerGoes("interval", "loop") /\ SchedulerOnly

\* deliverError
Report ==
    /\ SchedulerGoes("report", "reporting")
    /\ errors' = errors + 1
    /\ UNCHANGED <<deviceVars, starter, stateVars, stopper, waiter, lateStop, earlyStop>>

Reported == SchedulerGoes("reporting", "leave") /\ SchedulerOnly

\* Mutant: the device is left running.
Leave_DeviceRunning == SchedulerGoes("leave", "exited") /\ SchedulerOnly

Leave ==
    /\ SchedulerGoes("leave", "exited")
    /\ RequestDeviceStop
    /\ UNCHANGED <<starter, stateVars, stopper, waiter, historyVars>>

Scheduler ==
    \/ AwaitActivation \/ BeginRound \/ EndLoop \/ Trigger \/ TriggerFailed \/ TriggerSent
    \/ ResponseCame \/ ResponseTimedOut \/ CallbackReturned \/ IntervalOver
    \/ Report \/ Reported \/ Leave
-----------------------------------------------------------------------------
(* The grabbing thread, with onDeviceFrame as its callback.                *)

GrabberOnly == UNCHANGED <<starter, stateVars, scheduler, stopper, waiter, historyVars>>

Grab == (GrabTestStop \/ GrabTimeout \/ GrabError \/ GrabFrame) /\ GrabberOnly

IgnoreFrame ==
    /\ grabber = "deliver"
    /\ stopRequested \/ terminal \/ (grabbed = "frame" /\ responseArrived)
    /\ Delivered
    /\ GrabberOnly

\* Mutant: a frame is taken though the run has ended.
AcceptFrame_Terminal ==
    /\ grabber = "deliver"
    /\ ~stopRequested
    /\ ~(grabbed = "frame" /\ responseArrived)
    /\ grabber' = "callback"
    /\ responseArrived' = (responseArrived \/ grabbed = "frame")
    /\ terminal' = (terminal \/ grabbed # "frame")
    /\ errors' = IF grabbed = "frame" THEN errors ELSE errors + 1
    /\ UNCHANGED <<acquisitionStarted, acquiring, stopToken, grabbed, cameraTriggered,
                   countVars, starter, activated, stopRequested, callbackCompleted,
                   scheduler, stopper, waiter, lateStop, earlyStop>>

\* The frame, or an error that ends the run, goes to the source's callback.
AcceptFrame ==
    /\ grabber = "deliver"
    /\ ~stopRequested /\ ~terminal
    /\ ~(grabbed = "frame" /\ responseArrived)
    /\ grabber' = "callback"
    /\ responseArrived' = (responseArrived \/ grabbed = "frame")
    /\ terminal' = (grabbed # "frame")
    /\ errors' = IF grabbed = "frame" THEN errors ELSE errors + 1
    /\ UNCHANGED <<acquisitionStarted, acquiring, stopToken, grabbed, cameraTriggered,
                   countVars, starter, activated, stopRequested, callbackCompleted,
                   scheduler, stopper, waiter, lateStop, earlyStop>>

CallbackEnds ==
    /\ grabber = "callback"
    /\ grabber' = "complete"
    /\ UNCHANGED <<acquisitionStarted, acquiring, stopToken, grabbed, cameraTriggered, countVars>>
    /\ GrabberOnly

CallbackComplete ==
    /\ grabber = "complete"
    /\ callbackCompleted' = TRUE
    /\ Delivered
    /\ UNCHANGED <<starter, activated, stopRequested, responseArrived, terminal,
                   scheduler, stopper, waiter, historyVars>>

Grabber == Grab \/ IgnoreFrame \/ AcceptFrame \/ CallbackEnds \/ CallbackComplete
-----------------------------------------------------------------------------
Stopped == waiter = "returned" /\ UNCHANGED vars

Waiter == WaitScheduler \/ WaitDevice

Next ==
    \/ StartReset \/ Starter \/ RequestStop \/ StopDevice
    \/ Scheduler \/ Grabber \/ WaitBegin \/ Waiter \/ Stopped

\* Threads run, fetches return and time passes; nobody has to start or stop.
Fairness ==
    /\ WF_vars(Starter) /\ WF_vars(StopDevice) /\ WF_vars(Scheduler)
    /\ WF_vars(Grabber) /\ WF_vars(Waiter)

Spec == Init /\ [][Next]_vars /\ Fairness
-----------------------------------------------------------------------------
\* No frame is delivered once an error that ends the run has been.
ErrorIsLast ==
    [][grabber' = "callback" /\ grabber # "callback" /\ grabbed = "frame" => errors = 0]_vars

\* A new round never begins while the callback of a frame is still running.
RoundWaitsForCallback ==
    [][scheduler = "loop" /\ scheduler' = "trigger" => grabber \notin {"callback", "complete"}]_vars

\* A stop once the device has started, or an error, ends the run: wait() returns.
\* An earlier stop does not, since the device makes its stop source afterwards.
RunEnds ==
    (waiter = "joinScheduler" /\ (lateStop \/ (terminal /\ ~earlyStop))) ~> waiter = "returned"

\* Timeouts, failed triggers and device errors deliver one error.
OneTerminalError == errors <= 1
=============================================================================
