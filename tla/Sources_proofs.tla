--------------------------- MODULE Sources_proofs ---------------------------
(***************************************************************************)
(* Safety of TimedTriggerSource for every wrap of the camera's frame       *)
(* numbers and every number of images, and of MultiCameraSession for every *)
(* number of sources and frames and every limit of the executor's queue.   *)
(***************************************************************************)
EXTENDS TimedTriggerSource, MultiCameraSession, FiniteSetTheorems,
        WellFoundedInduction, TLAPS

-----------------------------------------------------------------------------
(* TimedTriggerSource *)

InCallback == grabber \in {"callback", "complete"}

\* The grabbing thread's counter agrees with the camera's.
CountInv ==
    /\ previousFrame = NoFrame => cameraFrames = 0 /\ sequenceNumber = 0
    /\ previousFrame # NoFrame =>
           /\ sequenceNumber = cameraFrames
           /\ previousFrame = cameraFrames % Wrap

\* Until start() succeeds nothing happens but the scheduling thread waiting.
StartInv ==
    /\ starter \in {"activate", "started"} <=> acquisitionStarted
    /\ ~acquisitionStarted => grabber = "none" /\ ~acquiring
    /\ activated => starter = "started"
    /\ scheduler = "loop" /\ ~stopRequested => activated
    /\ scheduler \notin {"none", "await", "loop", "leave", "exited"} => activated
    /\ starter = "idle" => scheduler = "none"

\* There is no image before the first trigger, and no trigger before the first round.
TriggerInv ==
    /\ ~acquisitionStarted => ~cameraTriggered
    /\ scheduler \in {"none", "await"} => ~cameraTriggered
    /\ ~cameraTriggered => ~(grabbed = "frame" /\ (grabber = "deliver" \/ InCallback))

\* Errors end the run: at most one from the grabbing thread, then at most one
\* from the scheduling thread, which then leaves.
ErrorInv ==
    /\ errors # 0 => terminal /\ acquisitionStarted
    /\ errors > 1 => scheduler \in {"reporting", "leave", "exited"}
    /\ scheduler \in {"report", "reporting"} => terminal

\* While the run goes on, a callback holds the frame of this round; between two
\* rounds it has returned, and this round's response keeps further frames out.
RoundInv ==
    /\ InCallback /\ ~terminal => responseArrived /\ grabbed = "frame"
    /\ callbackCompleted /\ ~terminal => responseArrived /\ ~InCallback
    /\ scheduler \in {"interval", "loop"} /\ ~stopRequested /\ ~terminal =>
           ~InCallback /\ (responseArrived \/ ~cameraTriggered)

IInv == TypeOK /\ CountInv /\ StartInv /\ TriggerInv /\ ErrorInv /\ RoundInv
-----------------------------------------------------------------------------
(* The camera's frame numbers are remainders by the wrap.                  *)

\* Division with remainder, for a divisor that is a capacity.
LEMMA DivMod ==
  ASSUME NEW C \in Nat \ {0}, NEW i \in Nat
  PROVE  i = C * (i \div C) + (i % C) /\ i \div C \in Nat /\ i % C \in 0 .. C - 1
  OBVIOUS

\* The same for a dividend that may be negative.
LEMMA DivModInt ==
  ASSUME NEW C \in Nat \ {0}, NEW i \in Int
  PROVE  i = C * (i \div C) + (i % C) /\ i \div C \in Int /\ i % C \in 0 .. C - 1
  OBVIOUS

\* The only multiple of the capacity strictly between -Capacity and Capacity is 0.
LEMMA SmallMultiple ==
  ASSUME NEW C \in Nat \ {0}, NEW k \in Int, C * k < C, -C < C * k
  PROVE  k = 0
<1>1. ASSUME k >= 1 PROVE FALSE
  <2>1. PICK m \in Nat : k = 1 + m BY <1>1
  <2>2. C * k = C + C * m BY <2>1
  <2>3. C * m >= 0 BY <2>1
  <2> QED BY <2>2, <2>3
<1>2. ASSUME k <= -1 PROVE FALSE
  <2>1. PICK m \in Nat : k = -1 - m BY <1>2
  <2>2. C * k = -C - C * m BY <2>1
  <2>3. C * m >= 0 BY <2>1
  <2> QED BY <2>2, <2>3
<1> QED BY <1>1, <1>2

\* A number below the modulus is its own remainder.
LEMMA ModSmall ==
  ASSUME NEW C \in Nat \ {0}, NEW i \in 0 .. C - 1
  PROVE  i % C = i
<1>. DEFINE p == i \div C
            r == i % C
<1>1. i = C * p + r /\ p \in Nat /\ r \in 0 .. C - 1
  <2>1. i \in Nat OBVIOUS
  <2> QED BY <2>1, DivMod
<1>0. r = i % C OBVIOUS
<1> HIDE DEF p, r
<1>2. p = 0
  <2>1. C * p = i - r BY <1>1
  <2>2. C * p < C /\ -C < C * p BY <2>1, <1>1
  <2> QED BY <2>2, <1>1, SmallMultiple
<1> QED BY <1>0, <1>1, <1>2

\* Adding less than the modulus can be read off the remainders, although the
\* larger number may have the smaller one.
LEMMA ModDifference ==
  ASSUME NEW C \in Nat \ {0}, NEW i \in Nat, NEW g \in 0 .. C - 1
  PROVE  (((i + g) % C) - (i % C)) % C = g
<1>. DEFINE p == i \div C
            r == i % C
            q == (i + g) \div C
            s == (i + g) % C
            m == (s - r) \div C
            t == (s - r) % C
<1>1. i = C * p + r /\ p \in Nat /\ r \in 0 .. C - 1 BY DivMod
<1>2. i + g = C * q + s /\ q \in Nat /\ s \in 0 .. C - 1
  <2>1. i + g \in Nat OBVIOUS
  <2> QED BY <2>1, DivMod
<1>3. s - r = C * m + t /\ m \in Int /\ t \in 0 .. C - 1
  <2>1. s - r \in Int BY <1>1, <1>2
  <2> HIDE DEF s, r
  <2> QED BY <2>1, DivModInt
<1>0. t = (((i + g) % C) - (i % C)) % C OBVIOUS
<1> HIDE DEF p, q, r, s, m, t
<1>4. C * (m + q - p) = g - t BY <1>1, <1>2, <1>3
<1>5. m + q - p = 0
  <2>1. C * (m + q - p) < C /\ -C < C * (m + q - p) BY <1>4, <1>3
  <2>2. m + q - p \in Int BY <1>1, <1>2, <1>3
  <2> QED BY <2>1, <2>2, SmallMultiple
<1>6. g - t = 0 BY <1>4, <1>5
<1> QED BY <1>0, <1>6, <1>3

-----------------------------------------------------------------------------
\* An image keeps the two counters together: the difference of two remainders,
\* taken modulo Wrap, is the number of images since the last one.
LEMMA FrameCounted ==
  ASSUME TypeOK, CountInv, GrabFrame
  PROVE  /\ CountInv'
         /\ sequenceNumber' \in Nat
         /\ cameraFrames' \in 0 .. MaxFrames
         /\ previousFrame' \in 0 .. Wrap - 1
<1>1. PICK gap \in 1 .. Wrap - 1 :
        /\ cameraFrames + gap <= MaxFrames
        /\ cameraFrames' = cameraFrames + gap
        /\ CountFrame((cameraFrames + gap) % Wrap)
  BY DEF GrabFrame
<1>2. cameraFrames \in Nat /\ cameraFrames + gap \in Nat /\ gap \in 0 .. Wrap - 1
  BY <1>1, WrapAssumption, MaxFramesAssumption DEF TypeOK, DeviceTypeOK
<1>3. (cameraFrames + gap) % Wrap \in 0 .. Wrap - 1
  BY <1>2, WrapAssumption, DivMod
<1>4. previousFrame' = (cameraFrames + gap) % Wrap /\ previousFrame' # NoFrame
  BY <1>1, <1>3, WrapAssumption DEF CountFrame, NoFrame
<1>5. sequenceNumber' = cameraFrames + gap
  <2>1. CASE previousFrame = NoFrame
    <3>1. cameraFrames + gap = gap BY <1>2, <2>1 DEF CountInv
    <3>2. gap % Wrap = gap BY <1>2, WrapAssumption, ModSmall
    <3> QED BY <1>1, <2>1, <3>1, <3>2 DEF CountFrame
  <2>2. CASE previousFrame # NoFrame
    <3>1. sequenceNumber = cameraFrames /\ previousFrame = cameraFrames % Wrap
      BY <2>2 DEF CountInv
    <3>2. (((cameraFrames + gap) % Wrap) - (cameraFrames % Wrap)) % Wrap = gap
      BY <1>2, WrapAssumption, ModDifference
    <3> QED BY <1>1, <2>2, <3>1, <3>2 DEF CountFrame
  <2> QED BY <2>1, <2>2
<1> QED
  BY <1>1, <1>2, <1>3, <1>4, <1>5, MaxFramesAssumption DEF CountInv

\* Every step keeps the types; ErrorInv bounds the errors.
LEMMA TypeOKStep == TypeOK /\ CountInv /\ ErrorInv /\ [Next]_vars => TypeOK'
<1> SUFFICES ASSUME TypeOK, CountInv, ErrorInv, [Next]_vars PROVE TypeOK'
  OBVIOUS
<1> USE DEF deviceVars, countVars, stateVars, historyVars,
        TypeOK, DeviceTypeOK, ErrorInv
<1>1. CASE StartReset
  BY <1>1 DEF StartReset
<1>2. CASE StartAcquire
  BY <1>2 DEF StartAcquire, StartAcquisition
<1>3. CASE StartAbandon
  BY <1>3 DEF StartAbandon
<1>4. CASE StartActivate
  BY <1>4 DEF StartActivate
<1>5. CASE RequestStop
  BY <1>5 DEF RequestStop
<1>6. CASE StopDevice
  BY <1>6 DEF StopDevice, RequestDeviceStop
<1>7. CASE AwaitActivation
  BY <1>7 DEF AwaitActivation, SchedulerGoes, SchedulerOnly
<1>8. CASE BeginRound
  BY <1>8 DEF BeginRound, SchedulerGoes
<1>9. CASE EndLoop
  BY <1>9 DEF EndLoop, SchedulerGoes, SchedulerOnly
<1>10. CASE Trigger
  BY <1>10 DEF Trigger, SchedulerGoes, SoftwareTrigger
<1>11. CASE TriggerFailed
  BY <1>11 DEF TriggerFailed, SchedulerGoes
<1>12. CASE TriggerSent
  BY <1>12 DEF TriggerSent, SchedulerGoes, SchedulerOnly
<1>13. CASE ResponseCame
  BY <1>13 DEF ResponseCame, SchedulerGoes, SchedulerOnly
<1>14. CASE ResponseTimedOut
  BY <1>14 DEF ResponseTimedOut, SchedulerGoes
<1>15. CASE CallbackReturned
  BY <1>15 DEF CallbackReturned, SchedulerGoes, SchedulerOnly
<1>16. CASE IntervalOver
  BY <1>16 DEF IntervalOver, SchedulerGoes, SchedulerOnly
<1>17. CASE Report
  BY <1>17 DEF Report, SchedulerGoes
<1>18. CASE Reported
  BY <1>18 DEF Reported, SchedulerGoes, SchedulerOnly
<1>19. CASE Leave
  BY <1>19 DEF Leave, SchedulerGoes, RequestDeviceStop
<1>20. CASE Grab
  <2>1. CASE GrabTestStop
    BY <1>20, <2>1 DEF Grab, GrabberOnly, GrabTestStop
  <2>2. CASE GrabTimeout
    BY <1>20, <2>2 DEF Grab, GrabberOnly, GrabTimeout
  <2>3. CASE GrabError
    BY <1>20, <2>3 DEF Grab, GrabberOnly, GrabError
  <2>4. CASE GrabFrame
    BY <1>20, <2>4, FrameCounted DEF Grab, GrabberOnly, GrabFrame
  <2> QED BY <1>20, <2>1, <2>2, <2>3, <2>4 DEF Grab
<1>21. CASE IgnoreFrame
  BY <1>21 DEF IgnoreFrame, Delivered, GrabberOnly
<1>22. CASE AcceptFrame
  BY <1>22 DEF AcceptFrame
<1>23. CASE CallbackEnds
  BY <1>23 DEF CallbackEnds, GrabberOnly
<1>24. CASE CallbackComplete
  BY <1>24 DEF CallbackComplete, Delivered
<1>25. CASE WaitBegin
  BY <1>25 DEF WaitBegin
<1>26. CASE WaitScheduler
  BY <1>26 DEF WaitScheduler
<1>27. CASE WaitDevice
  BY <1>27 DEF WaitDevice
<1>28. CASE UNCHANGED vars
  BY <1>28 DEF vars
<1> QED
  BY <1>1, <1>2, <1>3, <1>4, <1>5, <1>6, <1>7, <1>8, <1>9, <1>10, <1>11, <1>12,
     <1>13, <1>14, <1>15, <1>16, <1>17, <1>18, <1>19, <1>20, <1>21, <1>22, <1>23, <1>24,
     <1>25, <1>26, <1>27, <1>28
  DEF Next, Starter, Scheduler, Grabber, Waiter, Stopped

\* Only a frame touches the counters, and FrameCounted says how.
LEMMA CountInvStep == TypeOK /\ CountInv /\ StartInv /\ [Next]_vars => CountInv'
<1> SUFFICES ASSUME TypeOK, CountInv, StartInv, [Next]_vars PROVE CountInv'
  OBVIOUS
<1> USE DEF deviceVars, countVars, stateVars, historyVars,
        TypeOK, DeviceTypeOK, CountInv
<1>1. CASE StartReset
  BY <1>1 DEF StartReset
<1>2. CASE StartAcquire
  BY <1>2 DEF StartAcquire, StartAcquisition
<1>3. CASE StartAbandon
  BY <1>3 DEF StartAbandon
<1>4. CASE StartActivate
  BY <1>4 DEF StartActivate
<1>5. CASE RequestStop
  BY <1>5 DEF RequestStop
<1>6. CASE StopDevice
  BY <1>6 DEF StopDevice, RequestDeviceStop
<1>7. CASE AwaitActivation
  BY <1>7 DEF AwaitActivation, SchedulerGoes, SchedulerOnly
<1>8. CASE BeginRound
  BY <1>8 DEF BeginRound, SchedulerGoes
<1>9. CASE EndLoop
  BY <1>9 DEF EndLoop, SchedulerGoes, SchedulerOnly
<1>10. CASE Trigger
  BY <1>10 DEF Trigger, SchedulerGoes, SoftwareTrigger
<1>11. CASE TriggerFailed
  BY <1>11 DEF TriggerFailed, SchedulerGoes
<1>12. CASE TriggerSent
  BY <1>12 DEF TriggerSent, SchedulerGoes, SchedulerOnly
<1>13. CASE ResponseCame
  BY <1>13 DEF ResponseCame, SchedulerGoes, SchedulerOnly
<1>14. CASE ResponseTimedOut
  BY <1>14 DEF ResponseTimedOut, SchedulerGoes
<1>15. CASE CallbackReturned
  BY <1>15 DEF CallbackReturned, SchedulerGoes, SchedulerOnly
<1>16. CASE IntervalOver
  BY <1>16 DEF IntervalOver, SchedulerGoes, SchedulerOnly
<1>17. CASE Report
  BY <1>17 DEF Report, SchedulerGoes
<1>18. CASE Reported
  BY <1>18 DEF Reported, SchedulerGoes, SchedulerOnly
<1>19. CASE Leave
  BY <1>19 DEF Leave, SchedulerGoes, RequestDeviceStop
<1>20. CASE Grab
  <2>1. CASE GrabTestStop
    BY <1>20, <2>1 DEF Grab, GrabberOnly, GrabTestStop
  <2>2. CASE GrabTimeout
    BY <1>20, <2>2 DEF Grab, GrabberOnly, GrabTimeout
  <2>3. CASE GrabError
    BY <1>20, <2>3 DEF Grab, GrabberOnly, GrabError
  <2>4. CASE GrabFrame
    BY <1>20, <2>4, FrameCounted DEF Grab, GrabberOnly, GrabFrame
  <2> QED BY <1>20, <2>1, <2>2, <2>3, <2>4 DEF Grab
<1>21. CASE IgnoreFrame
  BY <1>21 DEF IgnoreFrame, Delivered, GrabberOnly
<1>22. CASE AcceptFrame
  BY <1>22 DEF AcceptFrame
<1>23. CASE CallbackEnds
  BY <1>23 DEF CallbackEnds, GrabberOnly
<1>24. CASE CallbackComplete
  BY <1>24 DEF CallbackComplete, Delivered
<1>25. CASE WaitBegin
  BY <1>25 DEF WaitBegin
<1>26. CASE WaitScheduler
  BY <1>26 DEF WaitScheduler
<1>27. CASE WaitDevice
  BY <1>27 DEF WaitDevice
<1>28. CASE UNCHANGED vars
  BY <1>28 DEF vars
<1> QED
  BY <1>1, <1>2, <1>3, <1>4, <1>5, <1>6, <1>7, <1>8, <1>9, <1>10, <1>11, <1>12,
     <1>13, <1>14, <1>15, <1>16, <1>17, <1>18, <1>19, <1>20, <1>21, <1>22, <1>23, <1>24,
     <1>25, <1>26, <1>27, <1>28
  DEF Next, Starter, Scheduler, Grabber, Waiter, Stopped

\* start() activates the source last, and a round begins only after that.
LEMMA StartInvStep == TypeOK /\ StartInv /\ [Next]_vars => StartInv'
<1> SUFFICES ASSUME TypeOK, StartInv, [Next]_vars PROVE StartInv'
  OBVIOUS
<1> USE DEF deviceVars, countVars, stateVars, historyVars,
        TypeOK, DeviceTypeOK, StartInv
<1>1. CASE StartReset
  BY <1>1 DEF StartReset
<1>2. CASE StartAcquire
  BY <1>2 DEF StartAcquire, StartAcquisition
<1>3. CASE StartAbandon
  BY <1>3 DEF StartAbandon
<1>4. CASE StartActivate
  BY <1>4 DEF StartActivate
<1>5. CASE RequestStop
  BY <1>5 DEF RequestStop
<1>6. CASE StopDevice
  BY <1>6 DEF StopDevice, RequestDeviceStop
<1>7. CASE AwaitActivation
  BY <1>7 DEF AwaitActivation, SchedulerGoes, SchedulerOnly
<1>8. CASE BeginRound
  BY <1>8 DEF BeginRound, SchedulerGoes
<1>9. CASE EndLoop
  BY <1>9 DEF EndLoop, SchedulerGoes, SchedulerOnly
<1>10. CASE Trigger
  BY <1>10 DEF Trigger, SchedulerGoes, SoftwareTrigger
<1>11. CASE TriggerFailed
  BY <1>11 DEF TriggerFailed, SchedulerGoes
<1>12. CASE TriggerSent
  BY <1>12 DEF TriggerSent, SchedulerGoes, SchedulerOnly
<1>13. CASE ResponseCame
  BY <1>13 DEF ResponseCame, SchedulerGoes, SchedulerOnly
<1>14. CASE ResponseTimedOut
  BY <1>14 DEF ResponseTimedOut, SchedulerGoes
<1>15. CASE CallbackReturned
  BY <1>15 DEF CallbackReturned, SchedulerGoes, SchedulerOnly
<1>16. CASE IntervalOver
  BY <1>16 DEF IntervalOver, SchedulerGoes, SchedulerOnly
<1>17. CASE Report
  BY <1>17 DEF Report, SchedulerGoes
<1>18. CASE Reported
  BY <1>18 DEF Reported, SchedulerGoes, SchedulerOnly
<1>19. CASE Leave
  BY <1>19 DEF Leave, SchedulerGoes, RequestDeviceStop
<1>20. CASE Grab
  <2>1. CASE GrabTestStop
    BY <1>20, <2>1 DEF Grab, GrabberOnly, GrabTestStop
  <2>2. CASE GrabTimeout
    BY <1>20, <2>2 DEF Grab, GrabberOnly, GrabTimeout
  <2>3. CASE GrabError
    BY <1>20, <2>3 DEF Grab, GrabberOnly, GrabError
  <2>4. CASE GrabFrame
    BY <1>20, <2>4 DEF Grab, GrabberOnly, GrabFrame, CountFrame
  <2> QED BY <1>20, <2>1, <2>2, <2>3, <2>4 DEF Grab
<1>21. CASE IgnoreFrame
  BY <1>21 DEF IgnoreFrame, Delivered, GrabberOnly
<1>22. CASE AcceptFrame
  BY <1>22 DEF AcceptFrame
<1>23. CASE CallbackEnds
  BY <1>23 DEF CallbackEnds, GrabberOnly
<1>24. CASE CallbackComplete
  BY <1>24 DEF CallbackComplete, Delivered
<1>25. CASE WaitBegin
  BY <1>25 DEF WaitBegin
<1>26. CASE WaitScheduler
  BY <1>26 DEF WaitScheduler
<1>27. CASE WaitDevice
  BY <1>27 DEF WaitDevice
<1>28. CASE UNCHANGED vars
  BY <1>28 DEF vars
<1> QED
  BY <1>1, <1>2, <1>3, <1>4, <1>5, <1>6, <1>7, <1>8, <1>9, <1>10, <1>11, <1>12,
     <1>13, <1>14, <1>15, <1>16, <1>17, <1>18, <1>19, <1>20, <1>21, <1>22, <1>23, <1>24,
     <1>25, <1>26, <1>27, <1>28
  DEF Next, Starter, Scheduler, Grabber, Waiter, Stopped

\* Images come after the first trigger, which comes after the first round began.
LEMMA TriggerInvStep == TypeOK /\ StartInv /\ TriggerInv /\ [Next]_vars => TriggerInv'
<1> SUFFICES ASSUME TypeOK, StartInv, TriggerInv, [Next]_vars PROVE TriggerInv'
  OBVIOUS
<1> USE DEF deviceVars, countVars, stateVars, historyVars,
        TypeOK, DeviceTypeOK, StartInv, TriggerInv, InCallback
<1>1. CASE StartReset
  BY <1>1 DEF StartReset
<1>2. CASE StartAcquire
  BY <1>2 DEF StartAcquire, StartAcquisition
<1>3. CASE StartAbandon
  BY <1>3 DEF StartAbandon
<1>4. CASE StartActivate
  BY <1>4 DEF StartActivate
<1>5. CASE RequestStop
  BY <1>5 DEF RequestStop
<1>6. CASE StopDevice
  BY <1>6 DEF StopDevice, RequestDeviceStop
<1>7. CASE AwaitActivation
  BY <1>7 DEF AwaitActivation, SchedulerGoes, SchedulerOnly
<1>8. CASE BeginRound
  BY <1>8 DEF BeginRound, SchedulerGoes
<1>9. CASE EndLoop
  BY <1>9 DEF EndLoop, SchedulerGoes, SchedulerOnly
<1>10. CASE Trigger
  BY <1>10 DEF Trigger, SchedulerGoes, SoftwareTrigger
<1>11. CASE TriggerFailed
  BY <1>11 DEF TriggerFailed, SchedulerGoes
<1>12. CASE TriggerSent
  BY <1>12 DEF TriggerSent, SchedulerGoes, SchedulerOnly
<1>13. CASE ResponseCame
  BY <1>13 DEF ResponseCame, SchedulerGoes, SchedulerOnly
<1>14. CASE ResponseTimedOut
  BY <1>14 DEF ResponseTimedOut, SchedulerGoes
<1>15. CASE CallbackReturned
  BY <1>15 DEF CallbackReturned, SchedulerGoes, SchedulerOnly
<1>16. CASE IntervalOver
  BY <1>16 DEF IntervalOver, SchedulerGoes, SchedulerOnly
<1>17. CASE Report
  BY <1>17 DEF Report, SchedulerGoes
<1>18. CASE Reported
  BY <1>18 DEF Reported, SchedulerGoes, SchedulerOnly
<1>19. CASE Leave
  BY <1>19 DEF Leave, SchedulerGoes, RequestDeviceStop
<1>20. CASE Grab
  <2>1. CASE GrabTestStop
    BY <1>20, <2>1 DEF Grab, GrabberOnly, GrabTestStop
  <2>2. CASE GrabTimeout
    BY <1>20, <2>2 DEF Grab, GrabberOnly, GrabTimeout
  <2>3. CASE GrabError
    BY <1>20, <2>3 DEF Grab, GrabberOnly, GrabError
  <2>4. CASE GrabFrame
    BY <1>20, <2>4 DEF Grab, GrabberOnly, GrabFrame, CountFrame
  <2> QED BY <1>20, <2>1, <2>2, <2>3, <2>4 DEF Grab
<1>21. CASE IgnoreFrame
  BY <1>21 DEF IgnoreFrame, Delivered, GrabberOnly
<1>22. CASE AcceptFrame
  BY <1>22 DEF AcceptFrame
<1>23. CASE CallbackEnds
  BY <1>23 DEF CallbackEnds, GrabberOnly
<1>24. CASE CallbackComplete
  BY <1>24 DEF CallbackComplete, Delivered
<1>25. CASE WaitBegin
  BY <1>25 DEF WaitBegin
<1>26. CASE WaitScheduler
  BY <1>26 DEF WaitScheduler
<1>27. CASE WaitDevice
  BY <1>27 DEF WaitDevice
<1>28. CASE UNCHANGED vars
  BY <1>28 DEF vars
<1> QED
  BY <1>1, <1>2, <1>3, <1>4, <1>5, <1>6, <1>7, <1>8, <1>9, <1>10, <1>11, <1>12,
     <1>13, <1>14, <1>15, <1>16, <1>17, <1>18, <1>19, <1>20, <1>21, <1>22, <1>23, <1>24,
     <1>25, <1>26, <1>27, <1>28
  DEF Next, Starter, Scheduler, Grabber, Waiter, Stopped

\* Each thread ends the run before it delivers its error, and checks first or leaves.
LEMMA ErrorInvStep == TypeOK /\ StartInv /\ ErrorInv /\ [Next]_vars => ErrorInv'
<1> SUFFICES ASSUME TypeOK, StartInv, ErrorInv, [Next]_vars PROVE ErrorInv'
  OBVIOUS
<1> USE DEF deviceVars, countVars, stateVars, historyVars,
        TypeOK, DeviceTypeOK, StartInv, ErrorInv
<1>1. CASE StartReset
  BY <1>1 DEF StartReset
<1>2. CASE StartAcquire
  BY <1>2 DEF StartAcquire, StartAcquisition
<1>3. CASE StartAbandon
  BY <1>3 DEF StartAbandon
<1>4. CASE StartActivate
  BY <1>4 DEF StartActivate
<1>5. CASE RequestStop
  BY <1>5 DEF RequestStop
<1>6. CASE StopDevice
  BY <1>6 DEF StopDevice, RequestDeviceStop
<1>7. CASE AwaitActivation
  BY <1>7 DEF AwaitActivation, SchedulerGoes, SchedulerOnly
<1>8. CASE BeginRound
  BY <1>8 DEF BeginRound, SchedulerGoes
<1>9. CASE EndLoop
  BY <1>9 DEF EndLoop, SchedulerGoes, SchedulerOnly
<1>10. CASE Trigger
  BY <1>10 DEF Trigger, SchedulerGoes, SoftwareTrigger
<1>11. CASE TriggerFailed
  BY <1>11 DEF TriggerFailed, SchedulerGoes
<1>12. CASE TriggerSent
  BY <1>12 DEF TriggerSent, SchedulerGoes, SchedulerOnly
<1>13. CASE ResponseCame
  BY <1>13 DEF ResponseCame, SchedulerGoes, SchedulerOnly
<1>14. CASE ResponseTimedOut
  BY <1>14 DEF ResponseTimedOut, SchedulerGoes
<1>15. CASE CallbackReturned
  BY <1>15 DEF CallbackReturned, SchedulerGoes, SchedulerOnly
<1>16. CASE IntervalOver
  BY <1>16 DEF IntervalOver, SchedulerGoes, SchedulerOnly
<1>17. CASE Report
  BY <1>17 DEF Report, SchedulerGoes
<1>18. CASE Reported
  BY <1>18 DEF Reported, SchedulerGoes, SchedulerOnly
<1>19. CASE Leave
  BY <1>19 DEF Leave, SchedulerGoes, RequestDeviceStop
<1>20. CASE Grab
  <2>1. CASE GrabTestStop
    BY <1>20, <2>1 DEF Grab, GrabberOnly, GrabTestStop
  <2>2. CASE GrabTimeout
    BY <1>20, <2>2 DEF Grab, GrabberOnly, GrabTimeout
  <2>3. CASE GrabError
    BY <1>20, <2>3 DEF Grab, GrabberOnly, GrabError
  <2>4. CASE GrabFrame
    BY <1>20, <2>4 DEF Grab, GrabberOnly, GrabFrame, CountFrame
  <2> QED BY <1>20, <2>1, <2>2, <2>3, <2>4 DEF Grab
<1>21. CASE IgnoreFrame
  BY <1>21 DEF IgnoreFrame, Delivered, GrabberOnly
<1>22. CASE AcceptFrame
  BY <1>22 DEF AcceptFrame
<1>23. CASE CallbackEnds
  BY <1>23 DEF CallbackEnds, GrabberOnly
<1>24. CASE CallbackComplete
  BY <1>24 DEF CallbackComplete, Delivered
<1>25. CASE WaitBegin
  BY <1>25 DEF WaitBegin
<1>26. CASE WaitScheduler
  BY <1>26 DEF WaitScheduler
<1>27. CASE WaitDevice
  BY <1>27 DEF WaitDevice
<1>28. CASE UNCHANGED vars
  BY <1>28 DEF vars
<1> QED
  BY <1>1, <1>2, <1>3, <1>4, <1>5, <1>6, <1>7, <1>8, <1>9, <1>10, <1>11, <1>12,
     <1>13, <1>14, <1>15, <1>16, <1>17, <1>18, <1>19, <1>20, <1>21, <1>22, <1>23, <1>24,
     <1>25, <1>26, <1>27, <1>28
  DEF Next, Starter, Scheduler, Grabber, Waiter, Stopped

\* A round is closed by callbackCompleted, which only the round's own callback sets.
LEMMA RoundInvStep == TypeOK /\ StartInv /\ TriggerInv /\ RoundInv /\ [Next]_vars => RoundInv'
<1> SUFFICES ASSUME TypeOK, StartInv, TriggerInv, RoundInv, [Next]_vars PROVE RoundInv'
  OBVIOUS
<1> USE DEF deviceVars, countVars, stateVars, historyVars,
        TypeOK, DeviceTypeOK, StartInv, TriggerInv, RoundInv, InCallback
<1>1. CASE StartReset
  BY <1>1 DEF StartReset
<1>2. CASE StartAcquire
  BY <1>2 DEF StartAcquire, StartAcquisition
<1>3. CASE StartAbandon
  BY <1>3 DEF StartAbandon
<1>4. CASE StartActivate
  BY <1>4 DEF StartActivate
<1>5. CASE RequestStop
  BY <1>5 DEF RequestStop
<1>6. CASE StopDevice
  BY <1>6 DEF StopDevice, RequestDeviceStop
<1>7. CASE AwaitActivation
  BY <1>7 DEF AwaitActivation, SchedulerGoes, SchedulerOnly
<1>8. CASE BeginRound
  BY <1>8 DEF BeginRound, SchedulerGoes
<1>9. CASE EndLoop
  BY <1>9 DEF EndLoop, SchedulerGoes, SchedulerOnly
<1>10. CASE Trigger
  BY <1>10 DEF Trigger, SchedulerGoes, SoftwareTrigger
<1>11. CASE TriggerFailed
  BY <1>11 DEF TriggerFailed, SchedulerGoes
<1>12. CASE TriggerSent
  BY <1>12 DEF TriggerSent, SchedulerGoes, SchedulerOnly
<1>13. CASE ResponseCame
  BY <1>13 DEF ResponseCame, SchedulerGoes, SchedulerOnly
<1>14. CASE ResponseTimedOut
  BY <1>14 DEF ResponseTimedOut, SchedulerGoes
<1>15. CASE CallbackReturned
  BY <1>15 DEF CallbackReturned, SchedulerGoes, SchedulerOnly
<1>16. CASE IntervalOver
  BY <1>16 DEF IntervalOver, SchedulerGoes, SchedulerOnly
<1>17. CASE Report
  BY <1>17 DEF Report, SchedulerGoes
<1>18. CASE Reported
  BY <1>18 DEF Reported, SchedulerGoes, SchedulerOnly
<1>19. CASE Leave
  BY <1>19 DEF Leave, SchedulerGoes, RequestDeviceStop
<1>20. CASE Grab
  <2>1. CASE GrabTestStop
    BY <1>20, <2>1 DEF Grab, GrabberOnly, GrabTestStop
  <2>2. CASE GrabTimeout
    BY <1>20, <2>2 DEF Grab, GrabberOnly, GrabTimeout
  <2>3. CASE GrabError
    BY <1>20, <2>3 DEF Grab, GrabberOnly, GrabError
  <2>4. CASE GrabFrame
    BY <1>20, <2>4 DEF Grab, GrabberOnly, GrabFrame, CountFrame
  <2> QED BY <1>20, <2>1, <2>2, <2>3, <2>4 DEF Grab
<1>21. CASE IgnoreFrame
  BY <1>21 DEF IgnoreFrame, Delivered, GrabberOnly
<1>22. CASE AcceptFrame
  BY <1>22 DEF AcceptFrame
<1>23. CASE CallbackEnds
  BY <1>23 DEF CallbackEnds, GrabberOnly
<1>24. CASE CallbackComplete
  BY <1>24 DEF CallbackComplete, Delivered
<1>25. CASE WaitBegin
  BY <1>25 DEF WaitBegin
<1>26. CASE WaitScheduler
  BY <1>26 DEF WaitScheduler
<1>27. CASE WaitDevice
  BY <1>27 DEF WaitDevice
<1>28. CASE UNCHANGED vars
  BY <1>28 DEF vars
<1> QED
  BY <1>1, <1>2, <1>3, <1>4, <1>5, <1>6, <1>7, <1>8, <1>9, <1>10, <1>11, <1>12,
     <1>13, <1>14, <1>15, <1>16, <1>17, <1>18, <1>19, <1>20, <1>21, <1>22, <1>23, <1>24,
     <1>25, <1>26, <1>27, <1>28
  DEF Next, Starter, Scheduler, Grabber, Waiter, Stopped

\* The initial state satisfies the invariant.
LEMMA IInvInit == Init => IInv
<1> SUFFICES ASSUME Init PROVE IInv
  OBVIOUS
<1> USE DEF Init, DeviceInit
<1>1. TypeOK
  <2>1. cameraFrames \in 0 .. MaxFrames /\ sequenceNumber \in Nat /\ errors \in 0 .. 2
    BY MaxFramesAssumption
  <2>2. /\ {acquisitionStarted, acquiring, stopToken, cameraTriggered} \subseteq BOOLEAN
        /\ {activated, stopRequested, responseArrived, callbackCompleted, terminal,
            lateStop, earlyStop} \subseteq BOOLEAN
    BY Zenon
  <2> QED BY <2>1, <2>2 DEF TypeOK, DeviceTypeOK
<1>2. CountInv /\ StartInv /\ TriggerInv
  BY DEF CountInv, StartInv, TriggerInv, InCallback
<1>3. ErrorInv /\ RoundInv
  BY DEF ErrorInv, RoundInv, InCallback
<1> QED
  BY <1>1, <1>2, <1>3 DEF IInv

\* IInv is inductive, and holds in every reachable state.
THEOREM InductiveInvariant == Spec => []IInv
<1>1. Init => IInv
  BY IInvInit
<1>2. IInv /\ [Next]_vars => IInv'
  BY TypeOKStep, CountInvStep, StartInvStep, TriggerInvStep, ErrorInvStep,
     RoundInvStep
  DEF IInv
<1> QED
  BY <1>1, <1>2, PTL DEF Spec

\* Every variable keeps its type; in particular there are at most two errors in a run.
THEOREM TypeCorrect == Spec => []TypeOK
<1>1. IInv => TypeOK
  BY DEF IInv
<1> QED
  BY <1>1, InductiveInvariant, PTL

\* Sequence numbers count the images, for every wrap of the camera's own numbers.
THEOREM SequenceCountsImagesHolds == Spec => []SequenceCountsImages
<1>1. IInv => SequenceCountsImages
  BY DEF IInv, CountInv, SequenceCountsImages
<1> QED
  BY <1>1, InductiveInvariant, PTL

\* No frame is delivered after an error has been: an error sets terminal_ first, and
\* onDeviceFrame lets nothing pass once it is set.
THEOREM ErrorIsLastHolds == Spec => ErrorIsLast
<1> DEFINE FrameWithoutErrors ==
      grabber' = "callback" /\ grabber # "callback" /\ grabbed = "frame" => errors = 0
<1>1. IInv /\ [Next]_vars => [FrameWithoutErrors]_vars
  <2> SUFFICES ASSUME IInv, Next,
                      grabber' = "callback", grabber # "callback", grabbed = "frame"
               PROVE  errors = 0
    OBVIOUS
  <2>1. AcceptFrame => errors = 0
    BY DEF IInv, TypeOK, ErrorInv, AcceptFrame
  <2>2. ~AcceptFrame => FALSE
    BY DEF Next, Starter, Scheduler, Grabber, Waiter, Stopped, vars, deviceVars, historyVars,
       stateVars, StartReset, StartAcquire, StartAcquisition, StartAbandon, StartActivate,
       RequestStop, StopDevice, RequestDeviceStop, AwaitActivation, BeginRound, EndLoop,
       Trigger, SoftwareTrigger, TriggerFailed, TriggerSent, ResponseCame, ResponseTimedOut,
       CallbackReturned, IntervalOver, Report, Reported, Leave, SchedulerOnly, Grab,
       GrabTestStop, GrabTimeout, GrabError, GrabFrame, IgnoreFrame, Delivered, CallbackEnds,
       CallbackComplete, WaitBegin, WaitScheduler, WaitDevice
  <2> QED BY <2>1, <2>2
<1> QED
  BY <1>1, InductiveInvariant, PTL DEF Spec, ErrorIsLast

\* A round begins only when no callback of the last one is running.
THEOREM RoundWaitsForCallbackHolds == Spec => RoundWaitsForCallback
<1> DEFINE NoCallbackAtTrigger ==
      scheduler = "loop" /\ scheduler' = "trigger" => grabber \notin {"callback", "complete"}
<1>1. IInv /\ [Next]_vars => [NoCallbackAtTrigger]_vars
  <2> SUFFICES ASSUME IInv, Next, scheduler = "loop", scheduler' = "trigger"
               PROVE  grabber \notin {"callback", "complete"}
    OBVIOUS
  <2>1. BeginRound => grabber \notin {"callback", "complete"}
    BY DEF IInv, RoundInv, InCallback, BeginRound
  <2>2. ~BeginRound => FALSE
    BY DEF Next, Starter, Scheduler, Grabber, Waiter, Stopped, vars, deviceVars, historyVars,
       stateVars, StartReset, StartAcquire, StartAbandon, StartActivate, RequestStop,
       StopDevice, AwaitActivation, EndLoop, Trigger, TriggerFailed, TriggerSent,
       ResponseCame, ResponseTimedOut, CallbackReturned, IntervalOver, Report, Reported,
       Leave, SchedulerGoes, SchedulerOnly, Grab, GrabberOnly, IgnoreFrame, AcceptFrame,
       CallbackEnds, CallbackComplete, WaitBegin, WaitScheduler, WaitDevice
  <2> QED BY <2>1, <2>2
<1> QED
  BY <1>1, InductiveInvariant, PTL DEF Spec, RoundWaitsForCallback

-----------------------------------------------------------------------------
(* Sums over the sources, by induction on how many there are. *)

\* g is the function the fold makes of f: the sum over every set of indices,
\* taken in the order of CHOOSE.
Sums(g, f) ==
    g = [s \in SUBSET DOMAIN f |-> IF s = {} THEN 0 ELSE LET x == CHOOSE x \in s : TRUE IN f[x] + g[s \ {x}]]

\* A set of naturals that follows its predecessors is all of them.
LEMMA Naturally ==
  ASSUME NEW T \in SUBSET Nat, \A n \in Nat : (\A m \in 0 .. n - 1 : m \in T) => n \in T
  PROVE  T = Nat
<1> DEFINE Less == {p \in Nat \X Nat : p[1] < p[2]}
<1>1. IsWellFoundedOn(Less, Nat)
  BY NatLessThanWellFounded DEF OpToRel
<1>2. SUFFICES ASSUME Nat \ T # {} PROVE FALSE
  OBVIOUS
<1>3. PICK n \in Nat \ T : \A m \in Nat \ T : ~(<<m, n>> \in Less)
  <2>1. Nat \ T \subseteq Nat
    OBVIOUS
  <2> HIDE DEF Less
  <2> QED
    BY <1>1, <1>2, <2>1, WFMin
<1>4. ASSUME NEW m \in 0 .. n - 1 PROVE m \in T
  <2>1. m \in Nat /\ n \in Nat /\ m < n
    BY <1>3
  <2>2. <<m, n>> \in Less
    BY <2>1
  <2> QED
    BY <1>3, <2>1, <2>2
<1> QED
  BY <1>3, <1>4

\* What holds of the empty set, and of a set once it holds of the set without
\* its chosen element, holds of every subset of a finite set.
LEMMA ByRemoval ==
  ASSUME NEW S, IsFiniteSet(S), NEW T \in SUBSET SUBSET S, {} \in T,
         \A s \in SUBSET S : s # {} /\ s \ {CHOOSE x \in s : TRUE} \in T => s \in T
  PROVE  T = SUBSET S
<1> DEFINE N == {n \in Nat : \A s \in SUBSET S : Cardinality(s) = n => s \in T}
<1>1. ASSUME NEW n \in Nat, \A m \in 0 .. n - 1 : m \in N PROVE n \in N
  <2>1. SUFFICES ASSUME NEW s \in SUBSET S, Cardinality(s) = n PROVE s \in T
    OBVIOUS
  <2>2. IsFiniteSet(s)
    BY FS_Subset
  <2>3. CASE s = {}
    BY <2>3
  <2>4. CASE s # {}
    <3> DEFINE x == CHOOSE x \in s : TRUE
               r == s \ {x}
    <3>1. x \in s
      BY <2>4
    <3>2. Cardinality(r) = n - 1 /\ r \in SUBSET S
      <4> HIDE DEF x
      <4> QED
        BY <2>1, <2>2, <3>1, FS_RemoveElement
    <3>3. n - 1 \in 0 .. n - 1
      <4>1. Cardinality(r) \in Nat
        <5>1. IsFiniteSet(r)
          BY <3>2, FS_Subset
        <5> QED
          BY <5>1, FS_CardinalityType
      <4> QED
        BY <3>2, <4>1
    <3>4. r \in T
      BY <1>1, <3>2, <3>3
    <3> QED
      BY <2>4, <3>4
  <2> QED
    BY <2>3, <2>4
<1>2. N = Nat
  <2> HIDE DEF N
  <2>1. N \in SUBSET Nat
    BY DEF N
  <2> QED
    BY <1>1, <2>1, Naturally
<1>3. ASSUME NEW s \in SUBSET S PROVE s \in T
  <2>1. Cardinality(s) \in Nat
    BY FS_Subset, FS_CardinalityType
  <2> QED
    BY <1>2, <2>1
<1> QED
  BY <1>3

\* The fold's function exists.
LEMMA SumsExist ==
  ASSUME NEW S, IsFiniteSet(S), NEW f \in [S -> Nat] PROVE \E g : Sums(g, f)
<1> DEFINE Upto(n) == {s \in SUBSET S : Cardinality(s) <= n}
           Rest(s) == s \ {CHOOSE x \in s : TRUE}
           Sum(h, s) == IF s = {} THEN 0 ELSE f[CHOOSE x \in s : TRUE] + h[Rest(s)]
           N == {n \in Nat : \E h \in [Upto(n) -> Nat] : \A s \in Upto(n) : h[s] = Sum(h, s)}
<1>1. \A s \in SUBSET S : IsFiniteSet(s) /\ Cardinality(s) \in Nat
  BY FS_Subset, FS_CardinalityType
<1>2. \A s \in SUBSET S : s # {} => /\ (CHOOSE x \in s : TRUE) \in S
                                    /\ Rest(s) \in SUBSET S /\ Cardinality(Rest(s)) = Cardinality(s) - 1
  <2> TAKE s \in SUBSET S
  <2> HAVE s # {}
  <2> DEFINE x == CHOOSE x \in s : TRUE
  <2>1. x \in s
    OBVIOUS
  <2> HIDE DEF x
  <2>2. Cardinality(s \ {x}) = Cardinality(s) - 1
    BY <1>1, <2>1, FS_RemoveElement
  <2> QED
    BY <2>1, <2>2 DEF x
<1>3. ASSUME NEW n \in Nat, \A m \in 0 .. n - 1 : m \in N PROVE n \in N
  <2>1. CASE n = 0
    <3>1. \A s \in Upto(0) : s = {}
      BY <1>1, FS_EmptySet
    <3> DEFINE h == [s \in Upto(0) |-> 0]
    <3>2. h \in [Upto(0) -> Nat] /\ \A s \in Upto(0) : h[s] = Sum(h, s)
      BY <3>1
    <3> HIDE DEF h, Upto, Sum
    <3> QED
      BY <2>1, <3>2
  <2>2. CASE n # 0
    <3>1. n - 1 \in N
      <4>1. n - 1 \in 0 .. n - 1
        BY <2>2
      <4> HIDE DEF N
      <4> QED
        BY <1>3, <4>1
    <3>2. PICK h \in [Upto(n - 1) -> Nat] : \A s \in Upto(n - 1) : h[s] = Sum(h, s)
      BY <3>1
    <3> DEFINE k == [s \in Upto(n) |-> IF Cardinality(s) <= n - 1 THEN h[s] ELSE Sum(h, s)]
    <3>3. ASSUME NEW s \in Upto(n), s # {} PROVE Rest(s) \in Upto(n - 1) /\ Sum(h, s) \in Nat
      <4>1. Rest(s) \in Upto(n - 1)
        BY <1>1, <1>2, <3>3
      <4>2. h[Rest(s)] \in Nat /\ f[CHOOSE x \in s : TRUE] \in Nat
        BY <1>2, <3>3, <4>1
      <4> QED
        BY <3>3, <4>1, <4>2
    <3>4. k \in [Upto(n) -> Nat]
      <4>1. ASSUME NEW s \in Upto(n) PROVE k[s] \in Nat
        <5>1. CASE Cardinality(s) <= n - 1
          <6>1. s \in Upto(n - 1)
            BY <5>1
          <6> QED
            BY <5>1, <6>1
        <5>2. CASE ~(Cardinality(s) <= n - 1)
          <6>1. Cardinality(s) # 0
            BY <5>2, <2>2
          <6>2. s # {}
            BY <6>1, FS_EmptySet
          <6> QED
            BY <3>3, <5>2, <6>2
        <5> QED
          BY <5>1, <5>2
      <4> QED
        BY <4>1
    <3>5. ASSUME NEW s \in Upto(n) PROVE k[s] = Sum(k, s)
      <4>1. ASSUME s # {} PROVE k[Rest(s)] = h[Rest(s)]
        <5>1. Rest(s) \in Upto(n - 1)
          BY <3>3, <4>1
        <5>2. Rest(s) \in Upto(n) /\ Cardinality(Rest(s)) <= n - 1
          BY <1>1, <5>1
        <5> QED
          BY <5>2
      <4>2. Sum(k, s) = Sum(h, s)
        BY <4>1
      <4>3. ASSUME Cardinality(s) <= n - 1 PROVE h[s] = Sum(h, s)
        BY <3>2, <4>3
      <4> QED
        BY <4>2, <4>3
    <3> HIDE DEF k, Upto, Sum
    <3> QED
      BY <3>4, <3>5
  <2> QED
    BY <2>1, <2>2
<1>4. N = Nat
  <2> HIDE DEF N
  <2>1. N \in SUBSET Nat
    BY DEF N
  <2> QED
    BY <1>3, <2>1, Naturally
<1>5. PICK h \in [Upto(Cardinality(S)) -> Nat] : \A s \in Upto(Cardinality(S)) : h[s] = Sum(h, s)
  <2>1. Cardinality(S) \in N
    BY <1>1, <1>4
  <2> HIDE DEF Upto, Sum
  <2> QED
    BY <2>1
<1>6. Upto(Cardinality(S)) = SUBSET DOMAIN f
  BY FS_Subset
<1>7. h = [s \in SUBSET DOMAIN f |-> Sum(h, s)]
  <2> HIDE DEF Upto, Sum
  <2> QED
    BY <1>5, <1>6
<1>8. Sums(h, f)
  BY <1>7 DEF Sums
<1> QED
  BY <1>8

\* The total is that function's value for all indices.
LEMMA TotalIsSum ==
  ASSUME NEW S, IsFiniteSet(S), NEW f \in [S -> Nat] PROVE \E g : Sums(g, f) /\ Total(f) = g[S]
<1> DEFINE g == CHOOSE g : Sums(g, f)
<1>1. Sums(g, f)
  BY SumsExist
<1>2. Total(f) = g[DOMAIN f]
  BY DEF Total, FoldFunction, FoldFunctionOnSet, MapThenFoldSet, Sums
<1> HIDE DEF g
<1> QED
  BY <1>1, <1>2

\* Nothing adds up to nothing.
LEMMA TotalZero ==
  ASSUME NEW S, IsFiniteSet(S) PROVE Total([i \in S |-> 0]) = 0
<1> DEFINE f == [i \in S |-> 0]
<1>1. f \in [S -> Nat]
  OBVIOUS
<1>2. PICK g : Sums(g, f) /\ Total(f) = g[S]
  BY <1>1, TotalIsSum
<1> DEFINE T == {s \in SUBSET S : g[s] = 0}
<1>3. {} \in T
  BY <1>2 DEF Sums
<1>4. ASSUME NEW s \in SUBSET S, s # {}, s \ {CHOOSE x \in s : TRUE} \in T PROVE s \in T
  <2>1. g[s] = f[CHOOSE x \in s : TRUE] + g[s \ {CHOOSE x \in s : TRUE}]
    BY <1>2, <1>4 DEF Sums
  <2>2. f[CHOOSE x \in s : TRUE] = 0
    BY <1>4
  <2> QED
    BY <1>4, <2>1, <2>2
<1>5. T = SUBSET S
  <2> HIDE DEF T
  <2>1. T \in SUBSET SUBSET S
    BY DEF T
  <2> QED
    BY <1>3, <1>4, <2>1, ByRemoval
<1> QED
  BY <1>2, <1>5

\* One more of one is one more in total.
LEMMA TotalOneMore ==
  ASSUME NEW S, IsFiniteSet(S), NEW f \in [S -> Nat], NEW i \in S
  PROVE  Total(f) \in Nat /\ Total([f EXCEPT ![i] = @ + 1]) = Total(f) + 1
<1> DEFINE e == [f EXCEPT ![i] = @ + 1]
<1>1. e \in [S -> Nat] /\ \A x \in S : e[x] = f[x] + (IF x = i THEN 1 ELSE 0)
  OBVIOUS
<1> HIDE DEF e
<1>2. PICK g : Sums(g, f) /\ Total(f) = g[S]
  BY TotalIsSum
<1>3. PICK h : Sums(h, e) /\ Total(e) = h[S]
  BY <1>1, TotalIsSum
<1> DEFINE T == {s \in SUBSET S : g[s] \in Nat /\ h[s] = g[s] + (IF i \in s THEN 1 ELSE 0)}
<1>4. {} \in T
  BY <1>1, <1>2, <1>3 DEF Sums
<1>5. ASSUME NEW s \in SUBSET S, s # {}, s \ {CHOOSE x \in s : TRUE} \in T PROVE s \in T
  <2> DEFINE x == CHOOSE x \in s : TRUE
             r == s \ {x}
  <2>1. x \in s
    BY <1>5
  <2>2. g[s] = f[x] + g[r] /\ h[s] = e[x] + h[r]
    BY <1>1, <1>2, <1>3, <1>5 DEF Sums
  <2> HIDE DEF x
  <2>3. g[r] \in Nat /\ h[r] = g[r] + (IF i \in r THEN 1 ELSE 0)
    BY <1>5 DEF x
  <2>4. f[x] \in Nat /\ e[x] = f[x] + (IF x = i THEN 1 ELSE 0)
    BY <1>1, <2>1
  <2> HIDE DEF r
  <2>5. CASE x = i
    <3>1. i \in s /\ i \notin r
      BY <2>1, <2>5 DEF r
    <3> QED
      BY <2>2, <2>3, <2>4, <2>5, <3>1
  <2>6. CASE x # i
    <3>1. i \in s <=> i \in r
      BY <2>1, <2>6 DEF r
    <3> QED
      BY <2>2, <2>3, <2>4, <2>6, <3>1
  <2> QED
    BY <2>5, <2>6
<1>6. T = SUBSET S
  <2> HIDE DEF T
  <2>1. T \in SUBSET SUBSET S
    BY DEF T
  <2> QED
    BY <1>4, <1>5, <2>1, ByRemoval
<1> QED
  BY <1>2, <1>3, <1>6 DEF e

-----------------------------------------------------------------------------
(* MultiCameraSession *)

Places == {"new", "start", "rollback", "rollback wait", "rollback join", "refused", "wait", "flag", "cancel",
           "stop source", "executor wait", "join timer", "done", "idle", "armed", "none", "ended"}

FeedPlaces == {"none", "test", "ended", "submit", "unreadable", "submitted", "dropped", "refused"}

Feeds == [thread : FeedPlaces, stop : BOOLEAN, delivered : Nat]

\* The fields and their types.
SessionTypes ==
    /\ DOMAIN session = {"options", "started", "stop", "finished", "cancelled", "open", "pending", "submitted",
                         "completed", "failed", "sourceFailures", "refused", "received", "dropped"}
    /\ session.received \in [Sources -> Nat] /\ session.dropped \in [Sources -> Nat]
    /\ session.pending \in Nat /\ session.submitted \in Nat /\ session.completed \in Nat
    /\ session.sourceFailures \in Nat /\ session.refused \in Nat
    /\ session.open \in BOOLEAN /\ session.finished \in BOOLEAN
    /\ session.options.broken \subseteq Sources
    /\ feeds \in [Sources -> Feeds]
    /\ at \in [Control -> Places \X Nat]

Over(S) == \A i \in S : SourceWait(i)

Unstarted(S) == \A i \in S : feeds[i].thread = "none"

\* Where main is says which sources it has started, and which it has joined.
MainInv ==
    LET place == at["main"][1]
        i == at["main"][2]
    IN  /\ place = "new" => Unstarted(Sources)
        /\ place = "start" => /\ i \in Sources /\ Unstarted(i .. Count)
                              /\ \A j \in 1 .. i - 1 : j \notin session.options.broken
        /\ place \in {"rollback", "rollback wait"} =>
              /\ Failed \in Sources /\ Unstarted(Failed .. Count)
              /\ i \in 1 .. Failed /\ Over(1 .. i - 1)
        /\ place = "rollback wait" => i < Failed
        /\ place = "wait" => i \in Sources /\ Over(1 .. i - 1)
        /\ place \in {"rollback join", "refused", "flag", "cancel", "stop source", "executor wait",
                      "join timer", "done"} => Over(Sources)
        /\ place \in {"executor wait", "join timer", "done"} => ~session.open
        /\ place \in {"join timer", "done"} => session.pending = 0
        /\ place \in {"new", "refused", "done"} => TimerOver
        /\ session.finished => place = "done"

Submitted == {i \in Sources : feeds[i].thread = "submitted"}

Handing == {i \in Sources : feeds[i].thread \in {"submit", "unreadable", "submitted", "dropped", "refused"}}

\* Every frame is counted, or one that a source is handing over; so is every
\* result, or its submission is about to be.
SessionBalance ==
    /\ Total(session.received) = session.submitted + Total(session.dropped)
                                   + session.sourceFailures + session.refused + Cardinality(Handing)
    /\ session.completed + session.pending = session.submitted + Cardinality(Submitted)

SessionInv == SessionTypes /\ MainInv /\ SessionBalance

-----------------------------------------------------------------------------
(* Steps that hand no frame over and count nothing.                        *)

\* The sources are a finite set of numbers.
LEMMA SourcesFinite == IsFiniteSet(Sources) /\ Sources \subseteq Nat /\ 1 \in Sources /\ Count \in Sources
  BY CountAssumption, FS_Interval DEF Sources

\* The number of dropped frames is one.
LEMMA DroppedIsNat == SessionTypes => Total(session.dropped) \in Nat
<1> DEFINE f == session.dropped
<1> SUFFICES ASSUME SessionTypes PROVE Total(f) \in Nat
  OBVIOUS
<1>1. f \in [Sources -> Nat] /\ 1 \in Sources
  BY CountAssumption DEF SessionTypes, Sources
<1> HIDE DEF f
<1> QED
  BY <1>1, SourcesFinite, TotalOneMore

\* Where a thread goes.
LEMMA GotoPlace ==
  ASSUME SessionTypes, NEW t \in Control, NEW place \in Places, NEW i \in Nat, Goto(t, place, i)
  PROVE  /\ at' \in [Control -> Places \X Nat]
         /\ at'[t][1] = place /\ at'[t][2] = i
         /\ \A u \in Control \ {t} : at'[u] = at[u]
  BY DEF SessionTypes, Goto

\* One source's record changes.
LEMMA FeedChanges ==
  ASSUME SessionTypes, NEW i \in Sources, NEW feed \in Feeds, feeds' = [feeds EXCEPT ![i] = feed]
  PROVE  feeds' \in [Sources -> Feeds] /\ feeds'[i] = feed /\ \A j \in Sources \ {i} : feeds'[j] = feeds[j]
  BY DEF SessionTypes

\* The sources keep their threads, and what is counted stays.
LEMMA BalanceKept ==
  ASSUME SessionBalance, \A i \in Sources : feeds'[i].thread = feeds[i].thread,
         session'.received = session.received, session'.dropped = session.dropped,
         session'.submitted = session.submitted, session'.completed = session.completed,
         session'.pending = session.pending, session'.refused = session.refused,
         session'.sourceFailures = session.sourceFailures
  PROVE  SessionBalance'
<1>1. Handing' = Handing /\ Submitted' = Submitted
  BY DEF Handing, Submitted
<1> QED
  BY <1>1 DEF SessionBalance

\* start() begins with the timer.
LEMMA StartStep == ASSUME SessionInv, Start PROVE SessionInv'
<1>1. SessionTypes /\ feeds' = feeds /\ at["main"][1] = "new" /\ Unstarted(Sources)
  BY DEF SessionInv, MainInv, Start, At
<1>2. /\ DOMAIN session' = DOMAIN session /\ session'.options = session.options
      /\ session'.received = session.received /\ session'.dropped = session.dropped
      /\ session'.pending = session.pending /\ session'.submitted = session.submitted
      /\ session'.completed = session.completed /\ session'.sourceFailures = session.sourceFailures
      /\ session'.refused = session.refused /\ session'.open = session.open
      /\ session'.finished = session.finished
  BY <1>1 DEF Start, SessionTypes
<1>3. at' \in [Control -> Places \X Nat] /\ at'["main"] = <<"start", 1>>
  <2> DEFINE timer == IF session.options.duration THEN "armed" ELSE "none"
  <2>1. at' = [at EXCEPT !["main"] = <<"start", 1>>, !["timer"] = <<timer, 0>>]
    BY DEF Start
  <2>2. <<"start", 1>> \in Places \X Nat /\ <<timer, 0>> \in Places \X Nat
    BY DEF Places
  <2> HIDE DEF timer
  <2> QED
    BY <1>1, <2>1, <2>2 DEF SessionTypes, Control
<1>4. SessionTypes'
  BY <1>1, <1>2, <1>3 DEF SessionTypes
<1>5. MainInv'
  <2>1. at'["main"][1] = "start" /\ at'["main"][2] = 1
    BY <1>3
  <2>2. ~session'.finished
    BY <1>1, <1>2 DEF SessionInv, MainInv
  <2>3. Unstarted(1 .. Count)'
    BY <1>1 DEF Unstarted, Sources
  <2>4. \A j \in 1 .. 1 - 1 : j \notin session'.options.broken
    OBVIOUS
  <2> QED
    BY <2>1, <2>2, <2>3, <2>4, SourcesFinite DEF MainInv
<1>6. SessionBalance'
  BY <1>1, <1>2, BalanceKept DEF SessionInv
<1> QED
  BY <1>4, <1>5, <1>6 DEF SessionInv

\* The next source starts, or it was the last and wait() begins.
LEMMA StartSourceStep == ASSUME SessionInv, StartSource PROVE SessionInv'
<1> DEFINE i == at["main"][2]
<1>1. /\ SessionTypes /\ session' = session /\ at["main"][1] = "start" /\ i \in Sources
      /\ Unstarted(i .. Count) /\ \A j \in 1 .. i - 1 : j \notin session.options.broken
      /\ i \notin session.options.broken
      /\ feeds' = [feeds EXCEPT ![i].thread = "test", ![i].stop = FALSE]
  BY DEF SessionInv, MainInv, StartSource, SourceStart, At
<1>2. /\ feeds' \in [Sources -> Feeds]
      /\ feeds'[i].thread = "test" /\ \A j \in Sources \ {i} : feeds'[j] = feeds[j]
  <2> DEFINE feed == [feeds[i] EXCEPT !.thread = "test", !.stop = FALSE]
  <2>1. feeds[i] \in Feeds
    BY <1>1 DEF SessionTypes
  <2>2. feed \in Feeds /\ feed.thread = "test"
    BY <2>1 DEF Feeds, FeedPlaces
  <2>3. feeds' = [feeds EXCEPT ![i] = feed]
    BY <1>1 DEF SessionTypes
  <2> HIDE DEF feed, i
  <2> QED
    BY <1>1, <2>2, <2>3, FeedChanges
<1>3. /\ at' \in [Control -> Places \X Nat]
      /\ at'["main"][1] = (IF i = Count THEN "wait" ELSE "start")
      /\ at'["main"][2] = (IF i = Count THEN 1 ELSE i + 1)
  <2>0. "main" \in Control /\ "wait" \in Places /\ "start" \in Places /\ 1 \in Nat /\ i + 1 \in Nat
    BY <1>1, SourcesFinite DEF Control, Places
  <2>1. CASE i = Count
    <3>1. Goto("main", "wait", 1)
      BY <2>1 DEF StartSource
    <3> QED
      BY <1>1, <2>0, <2>1, <3>1, GotoPlace
  <2>2. CASE i # Count
    <3>1. Goto("main", "start", i + 1)
      BY <2>2 DEF StartSource
    <3> QED
      BY <1>1, <2>0, <2>2, <3>1, GotoPlace
  <2> QED
    BY <2>1, <2>2
<1>4. SessionTypes'
  BY <1>1, <1>2, <1>3 DEF SessionTypes
<1>5. MainInv'
  <2>1. ~session'.finished
    BY <1>1 DEF SessionInv, MainInv
  <2>2. CASE i = Count
    <3>1. Over(1 .. 1 - 1)'
      BY DEF Over
    <3> QED
      BY <1>3, <2>1, <2>2, <3>1, SourcesFinite DEF MainInv
  <2>3. CASE i # Count
    <3>1. i + 1 \in Sources /\ i \in Nat
      BY <1>1, <2>3, CountAssumption DEF Sources
    <3>2. ASSUME NEW j \in i + 1 .. Count PROVE feeds'[j].thread = "none"
      <4>1. j \in Sources \ {i} /\ j \in i .. Count
        BY <3>1, CountAssumption DEF Sources
      <4> QED
        BY <1>1, <1>2, <4>1 DEF Unstarted
    <3>3. ASSUME NEW j \in 1 .. (i + 1) - 1 PROVE j \notin session'.options.broken
      <4>1. j \in 1 .. i - 1 \/ j = i
        BY <3>1
      <4> QED
        BY <1>1, <4>1
    <3>4. at'["main"][1] = "start" /\ at'["main"][2] = i + 1
      BY <1>3, <2>3
    <3>5. Unstarted(at["main"][2] .. Count)'
      BY <3>2, <3>4 DEF Unstarted
    <3> HIDE DEF i
    <3> QED
      BY <2>1, <3>1, <3>3, <3>4, <3>5 DEF MainInv
  <2> QED
    BY <2>2, <2>3
<1>6. SessionBalance'
  <2>1. feeds[i].thread = "none"
    BY <1>1, CountAssumption DEF Unstarted, Sources
  <2>2. Handing' = Handing /\ Submitted' = Submitted
    BY <1>2, <2>1 DEF Handing, Submitted
  <2> QED
    BY <1>1, <2>2 DEF SessionInv, SessionBalance
<1> QED
  BY <1>4, <1>5, <1>6 DEF SessionInv

\* A source does not start: it is the first of the broken ones.
LEMMA StartFailsStep == ASSUME SessionInv, StartFails PROVE SessionInv'
<1> DEFINE i == at["main"][2]
           broken == session.options.broken
<1>1. /\ SessionTypes /\ session' = session /\ feeds' = feeds /\ at["main"][1] = "start" /\ i \in Sources
      /\ Unstarted(i .. Count) /\ \A j \in 1 .. i - 1 : j \notin broken
      /\ i \in broken /\ broken \subseteq Sources
  BY DEF SessionInv, SessionTypes, MainInv, StartFails, At
<1>2. Failed = i
  <2>1. ASSUME NEW j \in broken PROVE i <= j
    <3>1. j \in Sources /\ ~(j \in 1 .. i - 1)
      BY <1>1
    <3> QED
      BY <1>1, <3>1, CountAssumption DEF Sources
  <2>2. ASSUME NEW k \in broken, \A j \in broken : k <= j PROVE k = i
    <3>1. k <= i /\ i <= k /\ k \in Nat /\ i \in Nat
      BY <1>1, <2>1, <2>2, SourcesFinite
    <3> QED
      BY <3>1
  <2> HIDE DEF i
  <2> QED
    BY <1>1, <2>1, <2>2 DEF Failed
<1>3. Failed' = Failed
  BY <1>1 DEF Failed
<1>4. at' \in [Control -> Places \X Nat] /\ at'["main"][1] = "rollback" /\ at'["main"][2] = 1
  <2>1. Goto("main", "rollback", 1) /\ "main" \in Control /\ "rollback" \in Places
    BY DEF StartFails, Control, Places
  <2> QED
    BY <1>1, <2>1, GotoPlace
<1>5. SessionTypes'
  BY <1>1, <1>4 DEF SessionTypes
<1>6. MainInv'
  <2>1. ~session'.finished
    BY <1>1 DEF SessionInv, MainInv
  <2>2. Over(1 .. 1 - 1)'
    BY DEF Over
  <2>3. Unstarted(Failed .. Count)'
    BY <1>1, <1>2, <1>3 DEF Unstarted
  <2>4. 1 \in 1 .. Failed' /\ Failed' \in Sources
    BY <1>1, <1>2, <1>3 DEF Sources
  <2> QED
    BY <1>4, <2>1, <2>2, <2>3, <2>4 DEF MainInv
<1>7. SessionBalance'
  BY <1>1, BalanceKept DEF SessionInv
<1> QED
  BY <1>5, <1>6, <1>7 DEF SessionInv

\* What a step of the control threads leaves alone.
ControlStep ==
    /\ DOMAIN session' = DOMAIN session /\ session'.options = session.options
    /\ session'.received = session.received /\ session'.dropped = session.dropped
    /\ session'.submitted = session.submitted /\ session'.completed = session.completed
    /\ session'.pending = session.pending /\ session'.refused = session.refused
    /\ session'.sourceFailures = session.sourceFailures
    /\ session'.open \in BOOLEAN /\ session'.finished \in BOOLEAN
    /\ feeds' \in [Sources -> Feeds] /\ \A i \in Sources : feeds'[i].thread = feeds[i].thread
    /\ at' \in [Control -> Places \X Nat]

\* It keeps the types and the balance.
LEMMA ControlKeeps ==
  ASSUME SessionInv, ControlStep PROVE SessionTypes' /\ SessionBalance'
<1>1. SessionTypes'
  BY DEF SessionInv, SessionTypes, ControlStep
<1>2. SessionBalance'
  BY BalanceKept DEF SessionInv, ControlStep
<1> QED
  BY <1>1, <1>2

\* It keeps what sources are over or not started.
LEMMA ControlSources ==
  ASSUME ControlStep, NEW S \in SUBSET Sources
  PROVE  /\ (\A i \in S : feeds'[i].thread \in {"none", "ended"}) <=> Over(S)
         /\ (\A i \in S : feeds'[i].thread = "none") <=> Unstarted(S)
  BY DEF ControlStep, Over, Unstarted, SourceWait

\* A step of another thread while main stays where it is.
LEMMA MainStays ==
  ASSUME SessionInv, ControlStep, at'["main"] = at["main"], session'.finished = session.finished,
         session'.open => session.open, TimerOver => TimerOver'
  PROVE  MainInv'
<1> DEFINE place == at["main"][1]
           i == at["main"][2]
<1>1. Failed' = Failed /\ i \in Nat
  BY DEF Failed, ControlStep, SessionInv, SessionTypes, Control
<1>2. ASSUME NEW S \in SUBSET Sources PROVE /\ Over(S) => \A j \in S : feeds'[j].thread \in {"none", "ended"}
                                            /\ Unstarted(S) => \A j \in S : feeds'[j].thread = "none"
  BY ControlSources
<1>3. /\ place = "new" => Unstarted(Sources)'
      /\ place \in {"rollback join", "refused", "flag", "cancel", "stop source", "executor wait",
                    "join timer", "done"} => Over(Sources)'
  BY <1>2 DEF SessionInv, MainInv, Over, Unstarted, SourceWait
<1>4. place = "start" => \A j \in i .. Count : feeds'[j].thread = "none"
  <2>1. place = "start" => i .. Count \subseteq Sources
    BY SourcesFinite, CountAssumption DEF SessionInv, MainInv, Sources
  <2> QED
    BY <1>2, <2>1 DEF SessionInv, MainInv
<1>5. place \in {"rollback", "rollback wait"} =>
         /\ \A j \in Failed .. Count : feeds'[j].thread = "none"
         /\ \A j \in 1 .. i - 1 : feeds'[j].thread \in {"none", "ended"}
  <2>1. SUFFICES ASSUME place \in {"rollback", "rollback wait"}
                 PROVE  /\ \A j \in Failed .. Count : feeds'[j].thread = "none"
                        /\ \A j \in 1 .. i - 1 : feeds'[j].thread \in {"none", "ended"}
    OBVIOUS
  <2>2. Failed \in Sources /\ i \in 1 .. Failed /\ Unstarted(Failed .. Count) /\ Over(1 .. i - 1)
    BY <2>1 DEF SessionInv, MainInv
  <2>3. Failed .. Count \subseteq Sources /\ 1 .. i - 1 \subseteq Sources
    BY <2>2, CountAssumption DEF Sources
  <2> QED
    BY <1>2, <2>2, <2>3
<1>6. place = "wait" => \A j \in 1 .. i - 1 : feeds'[j].thread \in {"none", "ended"}
  <2>1. place = "wait" => i \in Sources /\ Over(1 .. i - 1)
    BY DEF SessionInv, MainInv
  <2>2. place = "wait" => 1 .. i - 1 \subseteq Sources
    BY <2>1, CountAssumption DEF Sources
  <2> QED
    BY <1>2, <2>1, <2>2
<1>7. /\ place = "start" => i \in Sources /\ \A j \in 1 .. i - 1 : j \notin session'.options.broken
      /\ place \in {"rollback", "rollback wait"} => Failed \in Sources /\ i \in 1 .. Failed
      /\ place = "rollback wait" => i < Failed
      /\ place = "wait" => i \in Sources
  BY DEF SessionInv, MainInv, ControlStep
<1>8. /\ place \in {"executor wait", "join timer", "done"} => ~session'.open
      /\ place \in {"join timer", "done"} => session'.pending = 0
      /\ place \in {"new", "refused", "done"} => TimerOver'
      /\ session'.finished => place = "done"
  BY DEF SessionInv, MainInv, ControlStep
<1>9. at'["main"][1] = place /\ at'["main"][2] = i
  OBVIOUS
<1> HIDE DEF place, i
<1> QED
  BY <1>1, <1>3, <1>4, <1>5, <1>6, <1>7, <1>8, <1>9 DEF MainInv, Over, Unstarted, SourceWait

\* main goes on behind the sources.
LEMMA MainGoesOn ==
  ASSUME ControlStep, Over(Sources), ~session'.finished,
         at'["main"][1] \in {"rollback join", "flag", "cancel", "stop source", "executor wait", "join timer"},
         at'["main"][1] \in {"executor wait", "join timer"} => ~session'.open,
         at'["main"][1] = "join timer" => session'.pending = 0
  PROVE  MainInv'
<1>1. Over(Sources)'
  BY DEF ControlStep, Over, SourceWait
<1> QED
  BY <1>1 DEF MainInv

\* A source is told to stop.
LEMMA SourceStops ==
  ASSUME SessionTypes, NEW i \in Sources, SourceRequestStop(i)
  PROVE  feeds' \in [Sources -> Feeds] /\ \A j \in Sources : feeds'[j].thread = feeds[j].thread
<1> DEFINE feed == [feeds[i] EXCEPT !.stop = TRUE]
<1>1. feeds[i] \in Feeds
  BY DEF SessionTypes
<1>2. feed \in Feeds /\ feed.thread = feeds[i].thread
  BY <1>1 DEF Feeds
<1>3. feeds' = [feeds EXCEPT ![i] = feed]
  BY DEF SourceRequestStop, SessionTypes
<1> HIDE DEF feed
<1> QED
  BY <1>2, <1>3, FeedChanges

\* A thread that is somewhere else than where the timer's is over.
LEMMA TimerStaysOver ==
  ASSUME SessionTypes, NEW t \in Control, NEW place \in Places, NEW i \in Nat, Goto(t, place, i),
         at[t][1] \notin {"none", "ended"}
  PROVE  TimerOver => TimerOver'
  BY GotoPlace DEF TimerOver, At, Control

-----------------------------------------------------------------------------
(* requestStop(), by whichever thread.                                     *)

\* The flag.
LEMMA StopFlagStep == ASSUME SessionInv, NEW t \in Control, StopFlag(t) PROVE SessionInv'
<1>1. SessionTypes /\ feeds' = feeds /\ at[t][1] = "flag"
  BY DEF SessionInv, StopFlag, At
<1>2. /\ DOMAIN session' = DOMAIN session /\ session'.options = session.options
      /\ session'.received = session.received /\ session'.dropped = session.dropped
      /\ session'.pending = session.pending /\ session'.submitted = session.submitted
      /\ session'.completed = session.completed /\ session'.sourceFailures = session.sourceFailures
      /\ session'.refused = session.refused /\ session'.open = session.open
      /\ session'.finished = session.finished
  BY <1>1 DEF StopFlag, SessionTypes
<1>3. PICK place \in {"ended", "cancel"} : Goto(t, place, 0) /\ (place = "ended" => session.finished)
  BY DEF StopFlag
<1>4. /\ at' \in [Control -> Places \X Nat] /\ at'[t][1] = place /\ \A u \in Control \ {t} : at'[u] = at[u]
      /\ TimerOver => TimerOver'
  <2>1. place \in Places /\ 0 \in Nat
    BY DEF Places
  <2> QED
    BY <1>1, <1>3, <2>1, GotoPlace, TimerStaysOver
<1>5. ControlStep
  BY <1>1, <1>2, <1>4 DEF ControlStep, SessionTypes
<1>6. CASE t = "main"
  <2>1. Over(Sources) /\ ~session.finished
    BY <1>1, <1>6 DEF SessionInv, MainInv
  <2>2. MainInv'
    BY <1>2, <1>3, <1>4, <1>5, <1>6, <2>1, MainGoesOn
  <2> QED
    BY <1>5, <2>2, ControlKeeps DEF SessionInv
<1>7. CASE t # "main"
  <2>1. MainInv'
    BY <1>2, <1>4, <1>5, <1>7, MainStays DEF Control
  <2> QED
    BY <1>5, <2>1, ControlKeeps DEF SessionInv
<1> QED
  BY <1>6, <1>7

\* The timer.
LEMMA StopTimerStep == ASSUME SessionInv, NEW t \in Control, StopTimer(t) PROVE SessionInv'
<1>1. SessionTypes /\ feeds' = feeds /\ at[t][1] = "cancel" /\ Goto(t, "stop source", 1)
  BY DEF SessionInv, StopTimer, At
<1>2. /\ DOMAIN session' = DOMAIN session /\ session'.options = session.options
      /\ session'.received = session.received /\ session'.dropped = session.dropped
      /\ session'.pending = session.pending /\ session'.submitted = session.submitted
      /\ session'.completed = session.completed /\ session'.sourceFailures = session.sourceFailures
      /\ session'.refused = session.refused /\ session'.open = session.open
      /\ session'.finished = session.finished
  BY <1>1 DEF StopTimer, SessionTypes
<1>4. /\ at' \in [Control -> Places \X Nat] /\ at'[t][1] = "stop source"
      /\ \A u \in Control \ {t} : at'[u] = at[u]
      /\ TimerOver => TimerOver'
  <2>1. "stop source" \in Places /\ 1 \in Nat
    BY DEF Places
  <2> QED
    BY <1>1, <2>1, GotoPlace, TimerStaysOver
<1>5. ControlStep
  BY <1>1, <1>2, <1>4 DEF ControlStep, SessionTypes
<1>6. CASE t = "main"
  <2>1. Over(Sources) /\ ~session.finished
    BY <1>1, <1>6 DEF SessionInv, MainInv
  <2>2. MainInv'
    BY <1>2, <1>4, <1>5, <1>6, <2>1, MainGoesOn
  <2> QED
    BY <1>5, <2>2, ControlKeeps DEF SessionInv
<1>7. CASE t # "main"
  <2>1. MainInv'
    BY <1>2, <1>4, <1>5, <1>7, MainStays DEF Control
  <2> QED
    BY <1>5, <2>1, ControlKeeps DEF SessionInv
<1> QED
  BY <1>6, <1>7

\* One source after the other.
LEMMA StopSourceStep == ASSUME SessionInv, NEW t \in Control, StopSource(t) PROVE SessionInv'
<1> DEFINE i == at[t][2]
<1>0. i \in Nat
  BY DEF SessionInv, SessionTypes
<1>1. /\ SessionTypes /\ session' = session /\ at[t][1] = "stop source" /\ i <= Count
      /\ Goto(t, "stop source", i + 1) /\ SourceRequestStop(i)
  BY DEF SessionInv, SessionTypes, StopSource, At
<1>2. feeds' \in [Sources -> Feeds] /\ \A j \in Sources : feeds'[j].thread = feeds[j].thread
  <2>1. CASE i \in Sources
    BY <1>1, <2>1, SourceStops
  <2>2. CASE i \notin Sources
    BY <1>1, <2>2 DEF SourceRequestStop, SessionTypes
  <2> QED
    BY <2>1, <2>2
<1>4. /\ at' \in [Control -> Places \X Nat] /\ at'[t][1] = "stop source"
      /\ \A u \in Control \ {t} : at'[u] = at[u]
      /\ TimerOver => TimerOver'
  <2> HIDE DEF i
  <2>1. "stop source" \in Places /\ i + 1 \in Nat
    BY <1>0 DEF Places
  <2>2. /\ at' \in [Control -> Places \X Nat] /\ at'[t][1] = "stop source"
        /\ \A u \in Control \ {t} : at'[u] = at[u]
    BY <1>1, <2>1, GotoPlace
  <2>3. TimerOver => TimerOver'
    BY <1>1, <2>1, TimerStaysOver
  <2> QED
    BY <2>2, <2>3
<1>5. ControlStep
  BY <1>1, <1>2, <1>4 DEF ControlStep, SessionTypes
<1>6. CASE t = "main"
  <2>1. Over(Sources) /\ ~session.finished
    BY <1>1, <1>6 DEF SessionInv, MainInv
  <2>2. MainInv'
    BY <1>1, <1>4, <1>5, <1>6, <2>1, MainGoesOn
  <2> QED
    BY <1>5, <2>2, ControlKeeps DEF SessionInv
<1>7. CASE t # "main"
  <2>1. MainInv'
    BY <1>1, <1>4, <1>5, <1>7, MainStays DEF Control
  <2> QED
    BY <1>5, <2>1, ControlKeeps DEF SessionInv
<1> QED
  BY <1>6, <1>7

\* The executor, which refuses from then on.
LEMMA StopExecutorStep == ASSUME SessionInv, NEW t \in Control, StopExecutor(t) PROVE SessionInv'
<1>1. SessionTypes /\ feeds' = feeds /\ at[t][1] = "stop source"
  BY DEF SessionInv, StopExecutor, At
<1>2. /\ DOMAIN session' = DOMAIN session /\ session'.options = session.options
      /\ session'.received = session.received /\ session'.dropped = session.dropped
      /\ session'.pending = session.pending /\ session'.submitted = session.submitted
      /\ session'.completed = session.completed /\ session'.sourceFailures = session.sourceFailures
      /\ session'.refused = session.refused /\ session'.open = FALSE
      /\ session'.finished = session.finished
  BY <1>1 DEF StopExecutor, SessionTypes
<1>3. PICK place \in {"ended", "executor wait"} : Goto(t, place, 0) /\ (t = "main" => place = "executor wait")
  BY DEF StopExecutor
<1>4. /\ at' \in [Control -> Places \X Nat] /\ at'[t][1] = place /\ \A u \in Control \ {t} : at'[u] = at[u]
      /\ TimerOver => TimerOver'
  <2>1. place \in Places /\ 0 \in Nat
    BY DEF Places
  <2> QED
    BY <1>1, <1>3, <2>1, GotoPlace, TimerStaysOver
<1>5. ControlStep
  BY <1>1, <1>2, <1>4 DEF ControlStep, SessionTypes
<1>6. CASE t = "main"
  <2>1. Over(Sources) /\ ~session.finished
    BY <1>1, <1>6 DEF SessionInv, MainInv
  <2>2. MainInv'
    BY <1>2, <1>3, <1>4, <1>5, <1>6, <2>1, MainGoesOn
  <2> QED
    BY <1>5, <2>2, ControlKeeps DEF SessionInv
<1>7. CASE t # "main"
  <2>1. MainInv'
    BY <1>2, <1>4, <1>5, <1>7, MainStays DEF Control
  <2> QED
    BY <1>5, <2>1, ControlKeeps DEF SessionInv
<1> QED
  BY <1>6, <1>7

\* The caller asks for it, or the duration is over.
LEMMA BeginsStopStep ==
  ASSUME SessionInv, CallerStops \/ TimerFires \/ TimerCancelled PROVE SessionInv'
<1>1. SessionTypes /\ feeds' = feeds /\ session' = session
  BY DEF SessionInv, CallerStops, TimerFires, TimerCancelled
<1>2. PICK t \in {"caller", "timer"}, place \in {"flag", "ended"} :
         Goto(t, place, 0) /\ at[t][1] \notin {"none", "ended"}
  BY DEF CallerStops, TimerFires, TimerCancelled, At
<1>3. /\ at' \in [Control -> Places \X Nat] /\ at'["main"] = at["main"]
      /\ TimerOver => TimerOver'
  <2>1. place \in Places /\ t \in Control \ {"main"} /\ 0 \in Nat /\ "main" \in Control
    BY DEF Places, Control
  <2> QED
    BY <1>1, <1>2, <2>1, GotoPlace, TimerStaysOver
<1>4. ControlStep
  BY <1>1, <1>3 DEF ControlStep, SessionTypes
<1>5. MainInv'
  BY <1>1, <1>3, <1>4, MainStays
<1> QED
  BY <1>4, <1>5, ControlKeeps DEF SessionInv

-----------------------------------------------------------------------------
(* start() that fails.                                                     *)

\* The sources that had started are told to stop,
LEMMA RollbackStopStep == ASSUME SessionInv, RollbackStop PROVE SessionInv'
<1> DEFINE i == at["main"][2]
<1>1. /\ SessionTypes /\ session' = session /\ i < Failed /\ SourceRequestStop(i)
      /\ Failed \in Sources /\ Unstarted(Failed .. Count) /\ i \in 1 .. Failed /\ Over(1 .. i - 1)
      /\ Goto("main", "rollback wait", i) /\ ~session.finished
  BY DEF SessionInv, MainInv, RollbackStop, At
<1>2. i \in Sources /\ i \in Nat
  <2>1. Failed \in 1 .. Count /\ i \in 1 .. Failed
    BY <1>1 DEF Sources
  <2> HIDE DEF i
  <2> QED
    BY <2>1, CountAssumption DEF Sources
<1>3. feeds' \in [Sources -> Feeds] /\ \A j \in Sources : feeds'[j].thread = feeds[j].thread
  BY <1>1, <1>2, SourceStops
<1>4. at' \in [Control -> Places \X Nat] /\ at'["main"][1] = "rollback wait" /\ at'["main"][2] = i
  <2>1. "main" \in Control /\ "rollback wait" \in Places
    BY DEF Control, Places
  <2> HIDE DEF i
  <2> QED
    BY <1>1, <1>2, <2>1, GotoPlace
<1>5. ControlStep
  BY <1>1, <1>3, <1>4 DEF ControlStep, SessionTypes
<1>6. Failed' = Failed
  BY <1>1 DEF Failed
<1>7. /\ \A j \in Failed .. Count : feeds'[j].thread = "none"
      /\ \A j \in 1 .. i - 1 : feeds'[j].thread \in {"none", "ended"}
  <2>0. Failed \in 1 .. Count /\ i \in 1 .. Count
    BY <1>1, <1>2 DEF Sources
  <2> HIDE DEF i
  <2>1. Failed .. Count \subseteq Sources /\ 1 .. i - 1 \subseteq Sources
    BY <2>0, CountAssumption DEF Sources
  <2> QED
    BY <1>1, <1>5, <2>1, ControlSources
<1>8. MainInv'
  <2> HIDE DEF i
  <2> QED
    BY <1>1, <1>4, <1>6, <1>7 DEF MainInv, Over, Unstarted, SourceWait
<1> QED
  BY <1>5, <1>8, ControlKeeps DEF SessionInv

\* and joined in turn.
LEMMA RollbackWaitStep == ASSUME SessionInv, RollbackWait PROVE SessionInv'
<1> DEFINE i == at["main"][2]
<1>1. /\ SessionTypes /\ session' = session /\ feeds' = feeds /\ i < Failed /\ SourceWait(i)
      /\ Failed \in Sources /\ Unstarted(Failed .. Count) /\ i \in 1 .. Failed /\ Over(1 .. i - 1)
      /\ Goto("main", "rollback", i + 1) /\ ~session.finished
  BY DEF SessionInv, MainInv, RollbackWait, At
<1>2. i \in Sources /\ i \in Nat /\ i + 1 \in 1 .. Failed
  BY <1>1, CountAssumption DEF Sources
<1>4. at' \in [Control -> Places \X Nat] /\ at'["main"][1] = "rollback" /\ at'["main"][2] = i + 1
  <2>1. "main" \in Control /\ "rollback" \in Places /\ i + 1 \in Nat
    BY <1>2 DEF Control, Places
  <2> HIDE DEF i
  <2> QED
    BY <1>1, <2>1, GotoPlace
<1>5. ControlStep
  BY <1>1, <1>4 DEF ControlStep, SessionTypes
<1>6. Failed' = Failed
  BY <1>1 DEF Failed
<1>7. /\ \A j \in Failed .. Count : feeds'[j].thread = "none"
      /\ \A j \in 1 .. (i + 1) - 1 : feeds'[j].thread \in {"none", "ended"}
  <2>1. ASSUME NEW j \in 1 .. (i + 1) - 1 PROVE j \in 1 .. i - 1 \/ j = i
    BY <1>2
  <2> HIDE DEF i
  <2> QED
    BY <1>1, <2>1 DEF Unstarted, Over, SourceWait
<1>8. MainInv'
  <2> HIDE DEF i
  <2> QED
    BY <1>1, <1>2, <1>4, <1>6, <1>7 DEF MainInv, Over, Unstarted, SourceWait
<1> QED
  BY <1>5, <1>8, ControlKeeps DEF SessionInv

\* Then none of the sources runs, and the timer is joined.
LEMMA RollbackTimerStep == ASSUME SessionInv, RollbackTimer PROVE SessionInv'
<1>1. /\ SessionTypes /\ feeds' = feeds /\ at["main"][2] = Failed
      /\ Failed \in Sources /\ Unstarted(Failed .. Count) /\ Over(1 .. Failed - 1)
      /\ Goto("main", "rollback join", 0) /\ ~session.finished
  BY DEF SessionInv, MainInv, RollbackTimer, At
<1>2. /\ DOMAIN session' = DOMAIN session /\ session'.options = session.options
      /\ session'.received = session.received /\ session'.dropped = session.dropped
      /\ session'.pending = session.pending /\ session'.submitted = session.submitted
      /\ session'.completed = session.completed /\ session'.sourceFailures = session.sourceFailures
      /\ session'.refused = session.refused /\ session'.open = session.open
      /\ session'.finished = session.finished
  BY <1>1 DEF RollbackTimer, SessionTypes
<1>3. at' \in [Control -> Places \X Nat] /\ at'["main"][1] = "rollback join"
  <2>1. "main" \in Control /\ "rollback join" \in Places /\ 0 \in Nat
    BY DEF Control, Places
  <2> QED
    BY <1>1, <2>1, GotoPlace
<1>4. ControlStep
  BY <1>1, <1>2, <1>3 DEF ControlStep, SessionTypes
<1>5. Over(Sources)
  <2>0. Failed \in 1 .. Count
    BY <1>1 DEF Sources
  <2>1. ASSUME NEW j \in Sources PROVE j \in 1 .. Failed - 1 \/ j \in Failed .. Count
    BY <2>0, CountAssumption DEF Sources
  <2> QED
    BY <1>1, <2>1 DEF Over, Unstarted, SourceWait
<1>6. MainInv'
  BY <1>1, <1>2, <1>3, <1>4, <1>5, MainGoesOn
<1> QED
  BY <1>4, <1>6, ControlKeeps DEF SessionInv

\* start() returns.
LEMMA RollbackEndsStep == ASSUME SessionInv, RollbackEnds PROVE SessionInv'
<1>1. /\ SessionTypes /\ session' = session /\ feeds' = feeds /\ TimerOver /\ Over(Sources)
      /\ Goto("main", "refused", 0) /\ ~session.finished
  BY DEF SessionInv, MainInv, RollbackEnds, At
<1>2. /\ at' \in [Control -> Places \X Nat] /\ at'["main"][1] = "refused" /\ at'["timer"] = at["timer"]
  <2>1. "main" \in Control /\ "timer" \in Control \ {"main"} /\ "refused" \in Places /\ 0 \in Nat
    BY DEF Control, Places
  <2> QED
    BY <1>1, <2>1, GotoPlace
<1>3. ControlStep
  BY <1>1, <1>2 DEF ControlStep, SessionTypes
<1>4. MainInv'
  BY <1>1, <1>2 DEF MainInv, Over, SourceWait, TimerOver, At
<1> QED
  BY <1>3, <1>4, ControlKeeps DEF SessionInv

-----------------------------------------------------------------------------
(* wait()                                                                  *)

\* joins one source after the other,
LEMMA WaitSourceStep == ASSUME SessionInv, WaitSource PROVE SessionInv'
<1> DEFINE i == at["main"][2]
<1>1. /\ SessionTypes /\ session' = session /\ feeds' = feeds /\ SourceWait(i)
      /\ i \in Sources /\ Over(1 .. i - 1) /\ ~session.finished
      /\ IF i = Count THEN Goto("main", "flag", 0) ELSE Goto("main", "wait", i + 1)
  BY DEF SessionInv, MainInv, WaitSource, At
<1>2. i \in Nat /\ \A j \in 1 .. i : SourceWait(j)
  <2>1. i \in Nat
    BY <1>1, SourcesFinite
  <2>2. ASSUME NEW j \in 1 .. i PROVE j \in 1 .. i - 1 \/ j = i
    BY <2>1
  <2> HIDE DEF i
  <2> QED
    BY <1>1, <2>1, <2>2 DEF Over
<1>3. CASE i = Count
  <2>1. at' \in [Control -> Places \X Nat] /\ at'["main"][1] = "flag"
    <3>1. "main" \in Control /\ "flag" \in Places /\ 0 \in Nat /\ Goto("main", "flag", 0)
      BY <1>1, <1>3 DEF Control, Places
    <3> QED
      BY <1>1, <3>1, GotoPlace
  <2>2. ControlStep
    BY <1>1, <2>1 DEF ControlStep, SessionTypes
  <2>3. Over(Sources)
    BY <1>2, <1>3 DEF Over, Sources
  <2>4. MainInv'
    BY <1>1, <2>1, <2>2, <2>3, MainGoesOn
  <2> QED
    BY <2>2, <2>4, ControlKeeps DEF SessionInv
<1>4. CASE i # Count
  <2>1. at' \in [Control -> Places \X Nat] /\ at'["main"][1] = "wait" /\ at'["main"][2] = i + 1
    <3>1. "main" \in Control /\ "wait" \in Places /\ i + 1 \in Nat /\ Goto("main", "wait", i + 1)
      BY <1>1, <1>2, <1>4 DEF Control, Places
    <3> HIDE DEF i
    <3> QED
      BY <1>1, <3>1, GotoPlace
  <2>2. ControlStep
    BY <1>1, <2>1 DEF ControlStep, SessionTypes
  <2>3. i + 1 \in Sources /\ 1 .. (i + 1) - 1 = 1 .. i
    BY <1>1, <1>2, <1>4, CountAssumption DEF Sources
  <2>4. \A j \in 1 .. (i + 1) - 1 : feeds'[j].thread \in {"none", "ended"}
    BY <1>1, <1>2, <2>3 DEF SourceWait
  <2>5. MainInv'
    <3> HIDE DEF i
    <3> QED
      BY <1>1, <2>1, <2>3, <2>4 DEF MainInv, Over, SourceWait
  <2> QED
    BY <2>2, <2>5, ControlKeeps DEF SessionInv
<1> QED
  BY <1>3, <1>4

\* then waits for the results,
LEMMA WaitExecutorStep == ASSUME SessionInv, WaitExecutor PROVE SessionInv'
<1>1. /\ SessionTypes /\ session' = session /\ feeds' = feeds /\ session.pending = 0 /\ Over(Sources)
      /\ Goto("main", "join timer", 0) /\ ~session.finished /\ ~session.open
  BY DEF SessionInv, MainInv, WaitExecutor, At
<1>2. /\ at' \in [Control -> Places \X Nat] /\ at'["main"][1] = "join timer"
  <2>1. "main" \in Control /\ "join timer" \in Places /\ 0 \in Nat
    BY DEF Control, Places
  <2> QED
    BY <1>1, <2>1, GotoPlace
<1>3. ControlStep
  BY <1>1, <1>2 DEF ControlStep, SessionTypes
<1>4. MainInv'
  BY <1>1, <1>2, <1>3, MainGoesOn
<1> QED
  BY <1>3, <1>4, ControlKeeps DEF SessionInv

\* and last for the timer.
LEMMA WaitTimerStep == ASSUME SessionInv, WaitTimer PROVE SessionInv'
<1>1. /\ SessionTypes /\ feeds' = feeds /\ session.pending = 0 /\ Over(Sources) /\ TimerOver
      /\ Goto("main", "done", 0) /\ ~session.open
  BY DEF SessionInv, MainInv, WaitTimer, At
<1>2. /\ DOMAIN session' = DOMAIN session /\ session'.options = session.options
      /\ session'.received = session.received /\ session'.dropped = session.dropped
      /\ session'.pending = session.pending /\ session'.submitted = session.submitted
      /\ session'.completed = session.completed /\ session'.sourceFailures = session.sourceFailures
      /\ session'.refused = session.refused /\ session'.open = session.open
      /\ session'.finished = TRUE
  BY <1>1 DEF WaitTimer, SessionTypes
<1>3. /\ at' \in [Control -> Places \X Nat] /\ at'["main"][1] = "done" /\ at'["timer"] = at["timer"]
  <2>1. "main" \in Control /\ "timer" \in Control \ {"main"} /\ "done" \in Places /\ 0 \in Nat
    BY DEF Control, Places
  <2> QED
    BY <1>1, <2>1, GotoPlace
<1>4. ControlStep
  BY <1>1, <1>2, <1>3 DEF ControlStep, SessionTypes
<1>5. MainInv'
  BY <1>1, <1>2, <1>3 DEF MainInv, Over, SourceWait, TimerOver, At
<1> QED
  BY <1>4, <1>5, ControlKeeps DEF SessionInv

-----------------------------------------------------------------------------
(* onFrame(), on the sources' threads.                                     *)

HandPlaces == {"submit", "unreadable", "submitted", "dropped", "refused"}

\* One source moves: how many hand a frame over, and have one to count.
LEMMA HandingCount ==
  ASSUME NEW i \in Sources, \A j \in Sources \ {i} : feeds'[j] = feeds[j]
  PROVE  /\ Cardinality(Handing) \in Nat /\ Cardinality(Submitted) \in Nat
         /\ LET was == feeds[i].thread \in HandPlaces
                is == feeds'[i].thread \in HandPlaces
            IN  /\ (was <=> is) => Cardinality(Handing)' = Cardinality(Handing)
                /\ is /\ ~was => Cardinality(Handing)' = Cardinality(Handing) + 1
                /\ was /\ ~is => Cardinality(Handing)' = Cardinality(Handing) - 1
         /\ LET was == feeds[i].thread = "submitted"
                is == feeds'[i].thread = "submitted"
            IN  /\ (was <=> is) => Cardinality(Submitted)' = Cardinality(Submitted)
                /\ is /\ ~was => Cardinality(Submitted)' = Cardinality(Submitted) + 1
                /\ was /\ ~is => Cardinality(Submitted)' = Cardinality(Submitted) - 1
<1>1. IsFiniteSet(Handing) /\ IsFiniteSet(Submitted)
  <2>1. Handing \subseteq Sources /\ Submitted \subseteq Sources
    BY DEF Handing, Submitted
  <2> QED
    BY <2>1, SourcesFinite, FS_Subset
<1>2. Cardinality(Handing) \in Nat /\ Cardinality(Submitted) \in Nat
  BY <1>1, FS_CardinalityType
<1>3. /\ Cardinality(Handing \cup {i}) = IF i \in Handing THEN Cardinality(Handing) ELSE Cardinality(Handing) + 1
      /\ Cardinality(Handing \ {i}) = IF i \in Handing THEN Cardinality(Handing) - 1 ELSE Cardinality(Handing)
      /\ Cardinality(Submitted \cup {i}) = IF i \in Submitted THEN Cardinality(Submitted) ELSE Cardinality(Submitted) + 1
      /\ Cardinality(Submitted \ {i}) = IF i \in Submitted THEN Cardinality(Submitted) - 1 ELSE Cardinality(Submitted)
  BY <1>1, FS_AddElement, FS_RemoveElement
<1>4. /\ i \in Handing <=> feeds[i].thread \in HandPlaces
      /\ i \in Submitted <=> feeds[i].thread = "submitted"
  BY DEF Handing, Submitted, HandPlaces
<1>5. Handing' = IF feeds'[i].thread \in HandPlaces THEN Handing \cup {i} ELSE Handing \ {i}
  BY DEF Handing, HandPlaces
<1>6. Submitted' = IF feeds'[i].thread = "submitted" THEN Submitted \cup {i} ELSE Submitted \ {i}
  BY DEF Submitted
<1> HIDE DEF Handing, Submitted
<1>7. Cardinality(Handing)' = Cardinality(Handing') /\ Cardinality(Submitted)' = Cardinality(Submitted')
  OBVIOUS
<1> QED
  BY <1>2, <1>3, <1>4, <1>5, <1>6, <1>7

\* A source that runs moves: main waits for it, or has not come to it.
LEMMA FeedMain ==
  ASSUME SessionInv, at' = at, NEW i \in Sources, feeds[i].thread \notin {"none", "ended"},
         \A j \in Sources \ {i} : feeds'[j] = feeds[j],
         session'.options = session.options, session'.finished = session.finished
  PROVE  MainInv'
<1> DEFINE place == at["main"][1]
           k == at["main"][2]
<1>1. ~Over(Sources) /\ ~Unstarted(Sources)
  BY DEF Over, Unstarted, SourceWait
<1>2. place \notin {"new", "rollback join", "refused", "flag", "cancel", "stop source", "executor wait",
                    "join timer", "done"}
      /\ ~session.finished
  BY <1>1 DEF SessionInv, MainInv
<1>3. Failed' = Failed
  BY DEF Failed
<1>4. ASSUME NEW S \in SUBSET Sources
      PROVE  /\ Over(S) => \A j \in S : feeds'[j].thread \in {"none", "ended"}
             /\ Unstarted(S) => \A j \in S : feeds'[j].thread = "none"
  <2>1. Over(S) \/ Unstarted(S) => i \notin S
    BY DEF Over, Unstarted, SourceWait
  <2>2. ASSUME i \notin S, NEW j \in S PROVE feeds'[j] = feeds[j]
    BY <2>2
  <2> QED
    BY <2>1, <2>2 DEF Over, Unstarted, SourceWait
<1>5. place = "start" => \A j \in k .. Count : feeds'[j].thread = "none"
  <2>1. place = "start" => k .. Count \subseteq Sources /\ Unstarted(k .. Count)
    BY CountAssumption DEF SessionInv, MainInv, Sources
  <2> QED
    BY <1>4, <2>1
<1>6. place \in {"rollback", "rollback wait"} =>
         /\ \A j \in Failed .. Count : feeds'[j].thread = "none"
         /\ \A j \in 1 .. k - 1 : feeds'[j].thread \in {"none", "ended"}
  <2>1. SUFFICES ASSUME place \in {"rollback", "rollback wait"}
                 PROVE  /\ \A j \in Failed .. Count : feeds'[j].thread = "none"
                        /\ \A j \in 1 .. k - 1 : feeds'[j].thread \in {"none", "ended"}
    OBVIOUS
  <2>2. Failed \in Sources /\ k \in 1 .. Failed /\ Unstarted(Failed .. Count) /\ Over(1 .. k - 1)
    BY <2>1 DEF SessionInv, MainInv
  <2>3. Failed .. Count \subseteq Sources /\ 1 .. k - 1 \subseteq Sources
    BY <2>2, CountAssumption DEF Sources
  <2> QED
    BY <1>4, <2>2, <2>3
<1>7. place = "wait" => \A j \in 1 .. k - 1 : feeds'[j].thread \in {"none", "ended"}
  <2>1. place = "wait" => k \in Sources /\ Over(1 .. k - 1)
    BY DEF SessionInv, MainInv
  <2>2. place = "wait" => 1 .. k - 1 \subseteq Sources
    BY <2>1, CountAssumption DEF Sources
  <2> QED
    BY <1>4, <2>1, <2>2
<1>8. /\ place = "start" => k \in Sources /\ \A j \in 1 .. k - 1 : j \notin session'.options.broken
      /\ place \in {"rollback", "rollback wait"} => Failed \in Sources /\ k \in 1 .. Failed
      /\ place = "rollback wait" => k < Failed
      /\ place = "wait" => k \in Sources
  BY DEF SessionInv, MainInv
<1>9. at'["main"][1] = place /\ at'["main"][2] = k
  OBVIOUS
<1> HIDE DEF place, k
<1> QED
  BY <1>2, <1>3, <1>5, <1>6, <1>7, <1>8, <1>9 DEF MainInv, Over, Unstarted, SourceWait

\* The source's thread ends.
LEMMA SourceLeaveStep == ASSUME SessionInv, NEW i \in Sources, SourceLeave(i) PROVE SessionInv'
<1> DEFINE feed == [feeds[i] EXCEPT !.thread = "ended"]
<1>1. SessionTypes /\ session' = session /\ at' = at /\ feeds[i].thread = "test" /\ feeds[i] \in Feeds
  BY DEF SessionInv, SessionTypes, SourceLeave
<1>2. feed \in Feeds /\ feed.thread = "ended" /\ feeds' = [feeds EXCEPT ![i] = feed]
  BY <1>1 DEF SourceLeave, SessionTypes, Feeds, FeedPlaces
<1> HIDE DEF feed
<1>3. feeds' \in [Sources -> Feeds] /\ feeds'[i] = feed /\ \A j \in Sources \ {i} : feeds'[j] = feeds[j]
  BY <1>1, <1>2, FeedChanges
<1>4. SessionTypes'
  BY <1>1, <1>3 DEF SessionTypes
<1>5. MainInv'
  BY <1>1, <1>3, FeedMain
<1>6. SessionBalance'
  <2>1. Cardinality(Handing)' = Cardinality(Handing) /\ Cardinality(Submitted)' = Cardinality(Submitted)
    BY <1>1, <1>2, <1>3, HandingCount DEF HandPlaces
  <2> QED
    BY <1>1, <2>1 DEF SessionInv, SessionBalance
<1> QED
  BY <1>4, <1>5, <1>6 DEF SessionInv

\* A frame arrives, or what could not be read.
LEMMA ReceiveStep == ASSUME SessionInv, NEW i \in Sources, Receive(i) PROVE SessionInv'
<1>1. SessionTypes /\ at' = at /\ feeds[i].thread = "test" /\ feeds[i] \in Feeds
  BY DEF SessionInv, SessionTypes, Receive
<1>2. PICK place \in {"submit", "unreadable"} :
         feeds' = [feeds EXCEPT ![i].thread = place, ![i].delivered = @ + 1]
  BY DEF Receive
<1> DEFINE feed == [feeds[i] EXCEPT !.thread = place, !.delivered = @ + 1]
<1>3. feed \in Feeds /\ feed.thread = place /\ feeds' = [feeds EXCEPT ![i] = feed]
  BY <1>1, <1>2 DEF SessionTypes, Feeds, FeedPlaces
<1> HIDE DEF feed
<1>4. feeds' \in [Sources -> Feeds] /\ feeds'[i] = feed /\ \A j \in Sources \ {i} : feeds'[j] = feeds[j]
  BY <1>1, <1>3, FeedChanges
<1>5. /\ DOMAIN session' = DOMAIN session /\ session'.options = session.options
      /\ session'.received = [session.received EXCEPT ![i] = @ + 1] /\ session'.dropped = session.dropped
      /\ session'.pending = session.pending /\ session'.submitted = session.submitted
      /\ session'.completed = session.completed /\ session'.sourceFailures = session.sourceFailures
      /\ session'.refused = session.refused /\ session'.open = session.open
      /\ session'.finished = session.finished
  BY <1>1 DEF Receive, SessionTypes
<1>6. session.received \in [Sources -> Nat] /\ session'.received \in [Sources -> Nat]
  BY <1>1, <1>5 DEF SessionTypes
<1>7. SessionTypes'
  BY <1>1, <1>4, <1>5, <1>6 DEF SessionTypes
<1>8. MainInv'
  BY <1>1, <1>4, <1>5, FeedMain
<1>9. SessionBalance'
  <2>1. /\ Cardinality(Handing) \in Nat /\ Cardinality(Handing)' = Cardinality(Handing) + 1
        /\ Cardinality(Submitted)' = Cardinality(Submitted)
    BY <1>1, <1>3, <1>4, HandingCount DEF HandPlaces
  <2>2. Total(session.received) \in Nat /\ Total(session'.received) = Total(session.received) + 1
    <3> DEFINE f == session.received
    <3>1. f \in [Sources -> Nat] /\ session'.received = [f EXCEPT ![i] = @ + 1]
      BY <1>5, <1>6
    <3> HIDE DEF f
    <3>2. Total(f) \in Nat /\ Total([f EXCEPT ![i] = @ + 1]) = Total(f) + 1
      BY <3>1, SourcesFinite, TotalOneMore
    <3> QED
      BY <3>1, <3>2 DEF f
  <2>3. /\ session.submitted + Total(session.dropped) + session.sourceFailures + session.refused
             + Cardinality(Handing) = Total(session.received)
        /\ session.completed + session.pending = session.submitted + Cardinality(Submitted)
    BY DEF SessionInv, SessionBalance
  <2>4. /\ session.submitted \in Nat /\ session.sourceFailures \in Nat /\ session.refused \in Nat
        /\ Total(session.dropped) \in Nat
    BY <1>1, DroppedIsNat DEF SessionTypes
  <2>5. Total(session'.received) = session'.submitted + Total(session'.dropped) + session'.sourceFailures
                                     + session'.refused + Cardinality(Handing)'
    BY <1>5, <2>1, <2>2, <2>3, <2>4
  <2> QED
    BY <1>5, <2>1, <2>3, <2>5 DEF SessionBalance
<1> QED
  BY <1>7, <1>8, <1>9 DEF SessionInv

\* The executor answers: with the frame in its queue, or not.
LEMMA SubmitStep == ASSUME SessionInv, NEW i \in Sources, Submit(i) PROVE SessionInv'
<1>1. SessionTypes /\ at' = at /\ feeds[i].thread = "submit" /\ feeds[i] \in Feeds
  BY DEF SessionInv, SessionTypes, Submit
<1>2. PICK place \in {"refused", "submitted", "dropped"} :
         /\ Hand(i, place)
         /\ IF place = "submitted" THEN session' = [session EXCEPT !.pending = @ + 1] ELSE session' = session
  BY DEF Submit
<1> DEFINE feed == [feeds[i] EXCEPT !.thread = place]
<1>3. feed \in Feeds /\ feed.thread = place /\ feeds' = [feeds EXCEPT ![i] = feed]
  BY <1>1, <1>2 DEF SessionTypes, Feeds, FeedPlaces, Hand
<1> HIDE DEF feed
<1>4. feeds' \in [Sources -> Feeds] /\ feeds'[i] = feed /\ \A j \in Sources \ {i} : feeds'[j] = feeds[j]
  BY <1>1, <1>3, FeedChanges
<1>5. /\ DOMAIN session' = DOMAIN session /\ session'.options = session.options
      /\ session'.received = session.received /\ session'.dropped = session.dropped
      /\ session'.submitted = session.submitted
      /\ session'.completed = session.completed /\ session'.sourceFailures = session.sourceFailures
      /\ session'.refused = session.refused /\ session'.open = session.open
      /\ session'.finished = session.finished
      /\ session'.pending = IF place = "submitted" THEN session.pending + 1 ELSE session.pending
  BY <1>1, <1>2 DEF SessionTypes
<1>6. session'.pending \in Nat
  BY <1>1, <1>5 DEF SessionTypes
<1>7. SessionTypes'
  BY <1>1, <1>4, <1>5, <1>6 DEF SessionTypes
<1>8. MainInv'
  BY <1>1, <1>4, <1>5, FeedMain
<1>9. SessionBalance'
  <2>1. Cardinality(Handing)' = Cardinality(Handing)
    BY <1>1, <1>3, <1>4, HandingCount DEF HandPlaces
  <2>2. /\ Cardinality(Submitted) \in Nat
        /\ Cardinality(Submitted)' = IF place = "submitted" THEN Cardinality(Submitted) + 1 ELSE Cardinality(Submitted)
    BY <1>1, <1>3, <1>4, HandingCount
  <2>3. session.completed \in Nat /\ session.pending \in Nat /\ session.submitted \in Nat
    BY <1>1 DEF SessionTypes
  <2>4. /\ Total(session.received) = session.submitted + Total(session.dropped) + session.sourceFailures
                                       + session.refused + Cardinality(Handing)
        /\ session.completed + session.pending = session.submitted + Cardinality(Submitted)
    BY DEF SessionInv, SessionBalance
  <2>5. session'.completed + session'.pending = session'.submitted + Cardinality(Submitted)'
    BY <1>5, <2>2, <2>3, <2>4
  <2> QED
    BY <1>5, <2>1, <2>4, <2>5 DEF SessionBalance
<1> QED
  BY <1>7, <1>8, <1>9 DEF SessionInv

\* The answer is counted.
LEMMA CountAnswerStep == ASSUME SessionInv, NEW i \in Sources, CountAnswer(i) PROVE SessionInv'
<1> DEFINE was == feeds[i].thread
           feed == [feeds[i] EXCEPT !.thread = "test"]
<1>1. /\ SessionTypes /\ at' = at /\ feeds[i] \in Feeds
      /\ was \in {"submitted", "dropped", "refused", "unreadable"}
  BY DEF SessionInv, SessionTypes, CountAnswer
<1>2. feed \in Feeds /\ feed.thread = "test" /\ feeds' = [feeds EXCEPT ![i] = feed]
  BY <1>1 DEF CountAnswer, SessionTypes, Feeds, FeedPlaces, Hand
<1> HIDE DEF feed
<1>3. feeds' \in [Sources -> Feeds] /\ feeds'[i] = feed /\ \A j \in Sources \ {i} : feeds'[j] = feeds[j]
  BY <1>1, <1>2, FeedChanges
<1>4. /\ DOMAIN session' = DOMAIN session /\ session'.options = session.options
      /\ session'.received = session.received /\ session'.pending = session.pending
      /\ session'.completed = session.completed /\ session'.open = session.open
      /\ session'.finished = session.finished
  BY <1>1 DEF CountAnswer, SessionTypes
<1>5. /\ session'.submitted = IF was = "submitted" THEN session.submitted + 1 ELSE session.submitted
      /\ session'.refused = IF was = "refused" THEN session.refused + 1 ELSE session.refused
      /\ session'.sourceFailures = IF was = "unreadable" THEN session.sourceFailures + 1 ELSE session.sourceFailures
      /\ session'.dropped = IF was = "dropped" THEN [session.dropped EXCEPT ![i] = @ + 1] ELSE session.dropped
  BY <1>1 DEF CountAnswer, SessionTypes
<1>6. /\ session.submitted \in Nat /\ session.refused \in Nat /\ session.sourceFailures \in Nat
      /\ session.dropped \in [Sources -> Nat]
  BY <1>1 DEF SessionTypes
<1>7. SessionTypes'
  <2>1. /\ session'.submitted \in Nat /\ session'.refused \in Nat /\ session'.sourceFailures \in Nat
        /\ session'.dropped \in [Sources -> Nat]
    BY <1>5, <1>6
  <2> QED
    BY <1>1, <1>3, <1>4, <2>1 DEF SessionTypes
<1>8. MainInv'
  BY <1>1, <1>3, <1>4, FeedMain
<1>9. SessionBalance'
  <2>1. Cardinality(Handing) \in Nat /\ Cardinality(Handing)' = Cardinality(Handing) - 1
    BY <1>1, <1>2, <1>3, HandingCount DEF HandPlaces
  <2>2. /\ Cardinality(Submitted) \in Nat
        /\ Cardinality(Submitted)' = IF was = "submitted" THEN Cardinality(Submitted) - 1 ELSE Cardinality(Submitted)
    BY <1>1, <1>2, <1>3, HandingCount
  <2>3. /\ Total(session.received) = session.submitted + Total(session.dropped) + session.sourceFailures
                                       + session.refused + Cardinality(Handing)
        /\ session.completed + session.pending = session.submitted + Cardinality(Submitted)
    BY DEF SessionInv, SessionBalance
  <2>4. /\ Total(session.dropped) \in Nat
        /\ Total(session'.dropped) = IF was = "dropped" THEN Total(session.dropped) + 1 ELSE Total(session.dropped)
    <3>1. /\ Total(session.dropped) \in Nat
          /\ Total([session.dropped EXCEPT ![i] = @ + 1]) = Total(session.dropped) + 1
      BY <1>6, SourcesFinite, TotalOneMore
    <3> HIDE DEF was
    <3>2. session'.dropped = IF was = "dropped" THEN [session.dropped EXCEPT ![i] = @ + 1] ELSE session.dropped
      BY <1>5
    <3>3. CASE was = "dropped"
      BY <3>1, <3>2, <3>3
    <3>4. CASE was # "dropped"
      BY <3>1, <3>2, <3>4
    <3> QED
      BY <3>1, <3>3, <3>4
  <2> HIDE DEF was
  <2>5. session'.submitted + Total(session'.dropped) + session'.sourceFailures + session'.refused
          = session.submitted + Total(session.dropped) + session.sourceFailures + session.refused + 1
    BY <1>1, <1>5, <1>6, <2>4
  <2>6. Total(session'.received) = session'.submitted + Total(session'.dropped) + session'.sourceFailures
                                     + session'.refused + Cardinality(Handing)'
    BY <1>4, <1>6, <2>1, <2>3, <2>4, <2>5
  <2>7. session'.completed + session'.pending = session'.submitted + Cardinality(Submitted)'
    BY <1>4, <1>5, <1>6, <2>2, <2>3
  <2> QED
    BY <2>6, <2>7 DEF SessionBalance
<1> QED
  BY <1>7, <1>8, <1>9 DEF SessionInv

\* A result is delivered, failed or not.
LEMMA CompleteStep == ASSUME SessionInv, Complete PROVE SessionInv'
<1>1. /\ SessionTypes /\ at' = at /\ feeds' = feeds /\ session.pending # 0
      /\ session.pending \in Nat /\ session.completed \in Nat
  BY DEF SessionInv, SessionTypes, Complete
<1>2. /\ DOMAIN session' = DOMAIN session /\ session'.options = session.options
      /\ session'.received = session.received /\ session'.dropped = session.dropped
      /\ session'.submitted = session.submitted /\ session'.sourceFailures = session.sourceFailures
      /\ session'.refused = session.refused /\ session'.open = session.open
      /\ session'.finished = session.finished
      /\ session'.pending = session.pending - 1 /\ session'.completed = session.completed + 1
  BY <1>1 DEF Complete, SessionTypes
<1>3. session'.pending \in Nat /\ session'.completed \in Nat
         /\ session'.completed + session'.pending = session.completed + session.pending
  BY <1>1, <1>2
<1>4. SessionTypes'
  BY <1>1, <1>2, <1>3 DEF SessionTypes
<1>5. MainInv'
  <2>1. at["main"][1] \notin {"join timer", "done"} /\ Failed' = Failed
    BY <1>1, <1>2 DEF SessionInv, MainInv, Failed
  <2> QED
    BY <1>1, <1>2, <2>1 DEF SessionInv, MainInv, Over, Unstarted, SourceWait, TimerOver, At
<1>6. SessionBalance'
  <2>1. Cardinality(Handing)' = Cardinality(Handing) /\ Cardinality(Submitted)' = Cardinality(Submitted)
    BY <1>1 DEF Handing, Submitted
  <2> QED
    BY <1>2, <1>3, <2>1 DEF SessionInv, SessionBalance
<1> QED
  BY <1>4, <1>5, <1>6 DEF SessionInv

-----------------------------------------------------------------------------
(* The theorem.                                                            *)

\* A session begins with nothing received.
LEMMA SessionInvInit == ASSUME SessionInit PROVE SessionInv
<1>1. PICK o \in RunOptions :
          session = [options |-> o, started |-> FALSE, stop |-> FALSE, finished |-> FALSE,
                     cancelled |-> FALSE, open |-> TRUE, pending |-> 0, submitted |-> 0,
                     completed |-> 0, failed |-> 0, sourceFailures |-> 0, refused |-> 0,
                     received |-> [i \in Sources |-> 0], dropped |-> [i \in Sources |-> 0]]
  BY DEF SessionInit
<1>2. feeds \in [Sources -> Feeds] /\ \A i \in Sources : feeds[i].thread = "none"
  BY DEF SessionInit, SourceInit, Feeds, FeedPlaces
<1>3. /\ at \in [Control -> Places \X Nat] /\ at["main"][1] = "new" /\ at["timer"][1] = "none"
  <2> DEFINE place(t) == CASE t = "main" -> "new" [] t = "caller" -> "idle" [] t = "timer" -> "none"
  <2>1. at = [t \in Control |-> <<place(t), 0>>]
    BY DEF SessionInit
  <2>2. place("main") = "new" /\ place("caller") = "idle" /\ place("timer") = "none"
    OBVIOUS
  <2> HIDE DEF place
  <2>3. \A t \in Control : <<place(t), 0>> \in Places \X Nat
    BY <2>2 DEF Control, Places
  <2> QED
    BY <2>1, <2>2, <2>3 DEF Control
<1>4. session.options.broken \subseteq Sources
  BY <1>1, BrokenAssumption
<1>5. SessionTypes
  BY <1>1, <1>2, <1>3, <1>4 DEF SessionTypes
<1>6. MainInv
  BY <1>1, <1>2, <1>3 DEF MainInv, Unstarted, TimerOver, At
<1>7. SessionBalance
  <2>1. Handing = {} /\ Submitted = {}
    BY <1>2 DEF Handing, Submitted
  <2>2. Total(session.received) = 0 /\ Total(session.dropped) = 0
    BY <1>1, SourcesFinite, TotalZero
  <2>3. Cardinality(Handing) = 0 /\ Cardinality(Submitted) = 0
    BY <2>1, FS_EmptySet
  <2> QED
    BY <1>1, <2>2, <2>3 DEF SessionBalance
<1> QED
  BY <1>5, <1>6, <1>7 DEF SessionInv

\* Every step keeps the invariant.
LEMMA SessionInvStep == ASSUME SessionInv, [SessionNext]_sessionVars PROVE SessionInv'
<1>1. CASE UNCHANGED sessionVars
  <2>1. session' = session /\ feeds' = feeds /\ at' = at
    BY <1>1 DEF sessionVars
  <2>2. ControlStep
    BY <2>1 DEF ControlStep, SessionInv, SessionTypes
  <2>3. MainInv'
    BY <2>1, <2>2, MainStays DEF TimerOver, At
  <2> QED
    BY <2>2, <2>3, ControlKeeps DEF SessionInv
<1>2. ASSUME NEW t \in Control, Stop(t) PROVE SessionInv'
  BY <1>2, StopFlagStep, StopTimerStep, StopSourceStep, StopExecutorStep DEF Stop
<1>3. CASE Main
  BY <1>2, <1>3, StartStep, StartSourceStep, StartFailsStep, RollbackStopStep, RollbackWaitStep,
     RollbackTimerStep, RollbackEndsStep, WaitSourceStep, WaitExecutorStep, WaitTimerStep
     DEF Main, Control
<1>4. CASE Timer \/ CallerStops \/ Stop("caller")
  BY <1>2, <1>4, BeginsStopStep DEF Timer, Control
<1>5. CASE \E i \in Sources : Feed(i)
  BY <1>5, SourceLeaveStep, ReceiveStep, SubmitStep, CountAnswerStep DEF Feed
<1>6. CASE Complete
  BY <1>6, CompleteStep
<1> QED
  BY <1>1, <1>3, <1>4, <1>5, <1>6 DEF SessionNext

\* The invariant holds in every state of a session.
THEOREM SessionInvHolds == SessionSpec => []SessionInv
<1> QED
  BY SessionInvInit, SessionInvStep, PTL DEF SessionSpec

\* A start() that fails, and a wait() that returns, leave nothing running, and
\* then every frame of every source is accounted for, however many sources
\* there are, which of them fail and whoever stops the session in between.
THEOREM NothingRunsOnHolds == SessionSpec => []NothingRunsOn
<1>1. ASSUME SessionInv PROVE NothingRunsOn
  <2>1. ASSUME At("main", "refused") \/ At("main", "done") PROVE Quiet /\ Over(Sources)
    BY <1>1, <2>1 DEF SessionInv, MainInv, Quiet, Over, At
  <2>2. ASSUME At("main", "done")
        PROVE  /\ ~session.open /\ session.pending = 0
               /\ session.completed = session.submitted
               /\ Total(session.received) = session.submitted + Total(session.dropped)
                                              + session.sourceFailures + session.refused
    <3>1. ~session.open /\ session.pending = 0
      BY <1>1, <2>2 DEF SessionInv, MainInv, At
    <3>2. Handing = {} /\ Submitted = {}
      BY <2>1, <2>2 DEF Handing, Submitted, Over, SourceWait
    <3>3. Cardinality(Handing) = 0 /\ Cardinality(Submitted) = 0
      BY <3>2, FS_EmptySet
    <3>4. /\ session.submitted \in Nat /\ session.sourceFailures \in Nat /\ session.refused \in Nat
          /\ session.completed \in Nat /\ Total(session.dropped) \in Nat
      BY <1>1, DroppedIsNat DEF SessionInv, SessionTypes
    <3>5. session.completed = session.submitted
      BY <1>1, <3>1, <3>3, <3>4 DEF SessionInv, SessionBalance
    <3>6. Total(session.received) = session.submitted + Total(session.dropped)
                                      + session.sourceFailures + session.refused
      BY <1>1, <3>3, <3>4 DEF SessionInv, SessionBalance
    <3> QED
      BY <3>1, <3>5, <3>6
  <2> QED
    BY <2>1, <2>2 DEF NothingRunsOn
<1> QED
  BY <1>1, SessionInvHolds, PTL

=============================================================================
