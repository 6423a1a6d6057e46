---------------------------- MODULE Service_proofs ----------------------------
(***************************************************************************)
(* What runs around the executors, from the inside out: the frames of a    *)
(* session (FrameExecutor), the service that loads and runs sessions       *)
(* (VisionService), and the endpoints it publishes to (EndpointRegistry).  *)
(*                                                                         *)
(* The summary of a run is final and adds up, for any directory, options   *)
(* and capacity; no session, control thread or publication outlives what   *)
(* it belongs to, for any sources and number of loads, starts and stops;   *)
(* and a stream that waits for a dispatch gets one, for any names, clients *)
(* and publishers.                                                         *)
(***************************************************************************)
EXTENDS FrameExecutor, VisionService, EndpointRegistry,
        FiniteSetTheorems, SequenceTheorems, TLAPS

-----------------------------------------------------------------------------
(* FrameExecutor: what the summary of a run adds up to.                    *)

Summary == [received : Nat, submitted : Nat, completed : Nat, failed : Nat,
            dropped : Nat, sourceFailures : Nat, refused : Nat]

\* The fields of the three records, and the types of those that count.
FrameTypes ==
    /\ DOMAIN source = {"images", "loop", "next", "thread", "started", "running", "stop", "joinable"}
    /\ DOMAIN run = {"options", "sum", "started", "stop", "finished", "cancelled", "open", "pending"}
    /\ DOMAIN doing = {"main", "caller", "timer", "worker", "reached", "failure", "mode"}
    /\ doing.mode \in [Threads -> {"Graceful", "Immediate"}]
    /\ run.sum \in Summary /\ run.pending \in Nat
    /\ run.options.count \subseteq Nat
    /\ source.next \in Nat /\ Len(source.images) \in Nat
    /\ run.stop \in BOOLEAN /\ run.open \in BOOLEAN /\ run.finished \in BOOLEAN
    /\ source.stop \in BOOLEAN /\ source.joinable \in BOOLEAN
    /\ source.thread \in {"none", "test", "callback", "ended"}

SourceOver == source.thread \in {"none", "ended"}

StopPlaces == {"flag", "cancel timer", "stop source", "stop executor"}

\* Behind the flag the run is stopping, and only then does the executor
\* refuse; the object is finished when wait() is done.
StopInv ==
    /\ \A t \in Threads : doing[t] \in StopPlaces \ {"flag"} => run.stop
    /\ ~run.open => run.stop
    /\ doing.worker = "refused" \/ run.sum.refused > 0 => run.stop
    /\ doing.main \in {"executor wait", "join timer", "done"} => run.stop
    /\ run.finished => doing.main = "done"

\* Where main is says what it has waited for: the source's thread, unless it
\* was never started, and then the results.
MainInv ==
    /\ doing.main \in {"new", "refused", "source"} => source.thread = "none" /\ ~source.joinable
    /\ doing.main = "wait" => source.joinable \/ source.thread = "none"
    /\ doing.main \in StopPlaces =>
          /\ SourceOver
          /\ doing.mode["main"] = "Immediate" => source.thread = "none" /\ ~source.joinable
    /\ doing.main \in {"executor wait", "join timer", "done"} => SourceOver
    /\ doing.main \in {"join timer", "done"} => run.pending = 0 /\ ~run.open

\* A frame is in hand only during the source's callback.
WorkerInv ==
    /\ doing.worker # "none" => source.thread = "callback"
    /\ source.thread = "none" => run.sum.received = 0

InHand == IF doing.worker \in {"submit", "source failure", "submitted", "dropped", "refused"} THEN 1 ELSE 0

\* Every frame received is counted once, or in hand; so is every result.
BalanceInv ==
    LET s == run.sum
    IN  /\ s.received = s.submitted + s.dropped + s.sourceFailures + s.refused + InHand
        /\ s.completed + run.pending = s.submitted + (IF doing.worker = "submitted" THEN 1 ELSE 0)
        /\ s.failed <= s.completed

\* The frame that makes the count full stops the source before its callback
\* returns.
Full == \E n \in run.options.count : n > 0 /\ n <= run.sum.received

CountInv ==
    /\ \A n \in run.options.count : n > 0 => run.sum.received <= n
    /\ Full => \/ /\ doing.worker \in {"submit", "source failure", "submitted", "dropped", "refused", "decide"}
                  /\ doing.reached
               \/ doing.worker \in {"flag", "cancel timer", "stop source"}
               \/ doing.worker \in {"stop executor", "return"} /\ source.stop
               \/ doing.worker = "none" /\ source.stop /\ source.thread \in {"test", "ended"}

\* A finite source has handed over the images up to the next one.
ImagesInv ==
    ~source.loop /\ Len(source.images) > 0 =>
        /\ source.next \in 1 .. Len(source.images)
        /\ source.thread = "none" => source.next = 1
        /\ source.thread = "test" => run.sum.received = source.next - 1
        /\ source.thread = "callback" =>
              run.sum.received = IF doing.worker = "none" THEN source.next - 1 ELSE source.next
        /\ source.thread = "ended" => run.sum.received <= Len(source.images)

FrameInv == FrameTypes /\ StopInv /\ MainInv /\ WorkerInv /\ BalanceInv /\ CountInv /\ ImagesInv

-----------------------------------------------------------------------------
(* What main, the caller and the timer do aside from the frames.           *)

\* A step that touches no frame, no result and not the source's thread.
Aside ==
    /\ run'.sum = run.sum /\ run'.pending = run.pending /\ run'.options = run.options
    /\ doing'.worker = doing.worker /\ doing'.reached = doing.reached
    /\ source'.thread = source.thread /\ source'.next = source.next
    /\ source'.images = source.images /\ source'.loop = source.loop
    /\ source.stop => source'.stop

\* Such a step keeps what is said of the frames and the results.
LEMMA AsideKeeps ==
  ASSUME FrameInv, Aside PROVE WorkerInv' /\ BalanceInv' /\ CountInv' /\ ImagesInv'
<1>1. WorkerInv' /\ BalanceInv'
  BY DEF FrameInv, Aside, WorkerInv, BalanceInv, InHand
<1>2. CountInv'
  BY DEF FrameInv, Aside, CountInv, Full
<1>3. ImagesInv'
  BY DEF FrameInv, Aside, ImagesInv
<1> QED
  BY <1>1, <1>2, <1>3

\* start() begins with the timer.
LEMMA StartBeginsStep == ASSUME FrameInv, StartBegins PROVE FrameInv'
<1>1. FrameTypes'
  BY DEF FrameInv, FrameTypes, Summary, Threads, StartBegins
<1>2. StopInv'
  BY DEF FrameInv, FrameTypes, StopInv, MainInv, WorkerInv, Threads, StopPlaces, SourceOver,
         Summary, StartBegins
<1>3. MainInv'
  BY DEF FrameInv, FrameTypes, MainInv, StopInv, WorkerInv, SourceOver, StopPlaces, Threads,
         StartBegins
<1>4. Aside
  BY DEF FrameInv, FrameTypes, Aside, Threads, StartBegins
<1> QED
  BY <1>1, <1>2, <1>3, <1>4, AsideKeeps DEF FrameInv

\* Options may be refused.
LEMMA StartInvalidStep == ASSUME FrameInv, StartInvalid PROVE FrameInv'
<1>1. FrameTypes'
  BY DEF FrameInv, FrameTypes, Summary, Threads, StartInvalid, MoveTo
<1>2. StopInv'
  BY DEF FrameInv, FrameTypes, StopInv, MainInv, WorkerInv, Threads, StopPlaces, SourceOver,
         Summary, StartInvalid, MoveTo
<1>3. MainInv'
  BY DEF FrameInv, FrameTypes, MainInv, StopInv, WorkerInv, SourceOver, StopPlaces, Threads,
         StartInvalid, MoveTo
<1>4. Aside
  BY DEF FrameInv, FrameTypes, Aside, Threads, StartInvalid, MoveTo
<1> QED
  BY <1>1, <1>2, <1>3, <1>4, AsideKeeps DEF FrameInv

\* A source that does not start is stopped before it ever ran.
LEMMA StartFailsStep == ASSUME FrameInv, StartFails PROVE FrameInv'
<1>1. FrameTypes'
  BY DEF FrameInv, FrameTypes, Summary, Threads, StartFails, BeginStop
<1>2. StopInv'
  BY DEF FrameInv, FrameTypes, StopInv, MainInv, WorkerInv, Threads, StopPlaces, SourceOver,
         Summary, StartFails, BeginStop
<1>3. MainInv'
  BY DEF FrameInv, FrameTypes, MainInv, StopInv, WorkerInv, SourceOver, StopPlaces, Threads,
         StartFails, BeginStop
<1>4. Aside
  BY DEF FrameInv, FrameTypes, Aside, Threads, StartFails, BeginStop
<1> QED
  BY <1>1, <1>2, <1>3, <1>4, AsideKeeps DEF FrameInv

\* The source's thread begins before its first image.
LEMMA StartSourceStep == ASSUME FrameInv, StartSource PROVE FrameInv'
<1>1. FrameTypes'
  BY DEF FrameInv, FrameTypes, Summary, Threads, StartSource, SourceStart, MoveTo
<1>2. StopInv'
  BY DEF FrameInv, FrameTypes, StopInv, MainInv, WorkerInv, Threads, StopPlaces, SourceOver,
         Summary, StartSource, SourceStart, MoveTo
<1>3. MainInv'
  BY DEF FrameInv, FrameTypes, MainInv, StopInv, WorkerInv, SourceOver, StopPlaces, Threads,
         StartSource, SourceStart, MoveTo
<1>4. WorkerInv'
  BY DEF FrameInv, FrameTypes, WorkerInv, MainInv, StopInv, SourceOver, StopPlaces, Threads,
         Summary, StartSource, SourceStart, MoveTo
<1>5. BalanceInv'
  BY DEF FrameInv, FrameTypes, BalanceInv, WorkerInv, MainInv, InHand, Summary, StartSource,
         SourceStart, MoveTo
<1>6. CountInv'
  BY DEF FrameInv, FrameTypes, CountInv, WorkerInv, MainInv, StopInv, Full, Summary, Threads,
         SourceOver, StartSource, SourceStart, MoveTo
<1>7. ImagesInv'
  BY DEF FrameInv, FrameTypes, ImagesInv, WorkerInv, MainInv, Summary, SourceOver, Threads,
         StartSource, SourceStart, MoveTo
<1> QED
  BY <1>1, <1>2, <1>3, <1>4, <1>5, <1>6, <1>7 DEF FrameInv

\* The caller requests a stop.
LEMMA CallerStopsStep == ASSUME FrameInv, CallerStops PROVE FrameInv'
<1>1. FrameTypes'
  BY DEF FrameInv, FrameTypes, Summary, Threads, CallerStops, BeginStop
<1>2. StopInv'
  BY DEF FrameInv, FrameTypes, StopInv, MainInv, WorkerInv, Threads, StopPlaces, SourceOver,
         Summary, CallerStops, BeginStop
<1>3. MainInv'
  BY DEF FrameInv, FrameTypes, MainInv, StopInv, WorkerInv, SourceOver, StopPlaces, Threads,
         CallerStops, BeginStop
<1>4. Aside
  BY DEF FrameInv, FrameTypes, Aside, Threads, CallerStops, BeginStop
<1> QED
  BY <1>1, <1>2, <1>3, <1>4, AsideKeeps DEF FrameInv

\* The timer does, when the duration is over.
LEMMA TimerFiresStep == ASSUME FrameInv, TimerFires PROVE FrameInv'
<1>1. FrameTypes'
  BY DEF FrameInv, FrameTypes, Summary, Threads, TimerFires, BeginStop
<1>2. StopInv'
  BY DEF FrameInv, FrameTypes, StopInv, MainInv, WorkerInv, Threads, StopPlaces, SourceOver,
         Summary, TimerFires, BeginStop
<1>3. MainInv'
  BY DEF FrameInv, FrameTypes, MainInv, StopInv, WorkerInv, SourceOver, StopPlaces, Threads,
         TimerFires, BeginStop
<1>4. Aside
  BY DEF FrameInv, FrameTypes, Aside, Threads, TimerFires, BeginStop
<1> QED
  BY <1>1, <1>2, <1>3, <1>4, AsideKeeps DEF FrameInv

\* It ends when it is cancelled.
LEMMA TimerCancelledStep == ASSUME FrameInv, TimerCancelled PROVE FrameInv'
<1>1. FrameTypes'
  BY DEF FrameInv, FrameTypes, Summary, Threads, TimerCancelled, MoveTo
<1>2. StopInv'
  BY DEF FrameInv, FrameTypes, StopInv, MainInv, WorkerInv, Threads, StopPlaces, SourceOver,
         Summary, TimerCancelled, MoveTo
<1>3. MainInv'
  BY DEF FrameInv, FrameTypes, MainInv, StopInv, WorkerInv, SourceOver, StopPlaces, Threads,
         TimerCancelled, MoveTo
<1>4. Aside
  BY DEF FrameInv, FrameTypes, Aside, Threads, TimerCancelled, MoveTo
<1> QED
  BY <1>1, <1>2, <1>3, <1>4, AsideKeeps DEF FrameInv

\* requestStop() sets the flag unless the object is finished, when no frame is in hand.
LEMMA StopFlagStep == ASSUME FrameInv, NEW t \in Threads, StopFlag(t) PROVE FrameInv'
<1>1. FrameTypes'
  BY DEF FrameInv, FrameTypes, Summary, Threads, StopFlag, MoveTo, AfterStop
<1>2. StopInv'
  BY DEF FrameInv, FrameTypes, StopInv, MainInv, WorkerInv, Threads, StopPlaces, SourceOver,
         Summary, StopFlag, MoveTo, AfterStop
<1>3. MainInv'
  BY DEF FrameInv, FrameTypes, MainInv, StopInv, WorkerInv, SourceOver, StopPlaces, Threads,
         StopFlag, MoveTo, AfterStop
<1>4. WorkerInv'
  BY DEF FrameInv, FrameTypes, WorkerInv, MainInv, StopInv, SourceOver, StopPlaces, Threads,
         Summary, StopFlag, MoveTo, AfterStop
<1>5. BalanceInv'
  BY DEF FrameInv, FrameTypes, BalanceInv, WorkerInv, MainInv, InHand, Summary, StopFlag,
         MoveTo, AfterStop
<1>6. CountInv'
  BY DEF FrameInv, FrameTypes, CountInv, WorkerInv, MainInv, StopInv, Full, Summary, Threads,
         SourceOver, StopFlag, MoveTo, AfterStop
<1>7. ImagesInv'
  BY DEF FrameInv, FrameTypes, ImagesInv, WorkerInv, MainInv, Summary, SourceOver, Threads,
         StopFlag, MoveTo, AfterStop
<1> QED
  BY <1>1, <1>2, <1>3, <1>4, <1>5, <1>6, <1>7 DEF FrameInv

\* It cancels the timer.
LEMMA StopTimerStep == ASSUME FrameInv, NEW t \in Threads, StopTimer(t) PROVE FrameInv'
<1>1. FrameTypes'
  BY DEF FrameInv, FrameTypes, Summary, Threads, StopTimer, MoveTo
<1>2. StopInv'
  BY DEF FrameInv, FrameTypes, StopInv, MainInv, WorkerInv, Threads, StopPlaces, SourceOver,
         Summary, StopTimer, MoveTo
<1>3. MainInv'
  BY DEF FrameInv, FrameTypes, MainInv, StopInv, WorkerInv, SourceOver, StopPlaces, Threads,
         StopTimer, MoveTo
<1>4. WorkerInv'
  BY DEF FrameInv, FrameTypes, WorkerInv, MainInv, StopInv, SourceOver, StopPlaces, Threads,
         Summary, StopTimer, MoveTo
<1>5. BalanceInv'
  BY DEF FrameInv, FrameTypes, BalanceInv, WorkerInv, MainInv, InHand, Summary, StopTimer,
         MoveTo
<1>6. CountInv'
  BY DEF FrameInv, FrameTypes, CountInv, WorkerInv, MainInv, StopInv, Full, Summary, Threads,
         SourceOver, StopTimer, MoveTo
<1>7. ImagesInv'
  BY DEF FrameInv, FrameTypes, ImagesInv, WorkerInv, MainInv, Summary, SourceOver, Threads,
         StopTimer, MoveTo
<1> QED
  BY <1>1, <1>2, <1>3, <1>4, <1>5, <1>6, <1>7 DEF FrameInv

\* It stops the source.
LEMMA StopSourceStep == ASSUME FrameInv, NEW t \in Threads, StopSource(t) PROVE FrameInv'
<1>1. FrameTypes'
  BY DEF FrameInv, FrameTypes, Summary, Threads, StopSource, MoveTo, SourceRequestStop
<1>2. StopInv'
  BY DEF FrameInv, FrameTypes, StopInv, MainInv, WorkerInv, Threads, StopPlaces, SourceOver,
         Summary, StopSource, MoveTo, SourceRequestStop
<1>3. MainInv'
  BY DEF FrameInv, FrameTypes, MainInv, StopInv, WorkerInv, SourceOver, StopPlaces, Threads,
         StopSource, MoveTo, SourceRequestStop
<1>4. WorkerInv'
  BY DEF FrameInv, FrameTypes, WorkerInv, MainInv, StopInv, SourceOver, StopPlaces, Threads,
         Summary, StopSource, MoveTo, SourceRequestStop
<1>5. BalanceInv'
  BY DEF FrameInv, FrameTypes, BalanceInv, WorkerInv, MainInv, InHand, Summary, StopSource,
         MoveTo, SourceRequestStop
<1>6. CountInv'
  BY DEF FrameInv, FrameTypes, CountInv, WorkerInv, MainInv, StopInv, Full, Summary, Threads,
         SourceOver, StopSource, MoveTo, SourceRequestStop
<1>7. ImagesInv'
  BY DEF FrameInv, FrameTypes, ImagesInv, WorkerInv, MainInv, Summary, SourceOver, Threads,
         StopSource, MoveTo, SourceRequestStop
<1> QED
  BY <1>1, <1>2, <1>3, <1>4, <1>5, <1>6, <1>7 DEF FrameInv

\* It stops the executor, and main goes on to wait for the results.
LEMMA StopExecutorStep == ASSUME FrameInv, NEW t \in Threads, StopExecutor(t) PROVE FrameInv'
<1>1. FrameTypes'
  BY DEF FrameInv, FrameTypes, Summary, Threads, StopExecutor, MoveTo, AfterStop
<1>2. StopInv'
  BY DEF FrameInv, FrameTypes, StopInv, MainInv, WorkerInv, Threads, StopPlaces, SourceOver,
         Summary, StopExecutor, MoveTo, AfterStop
<1>3. MainInv'
  BY DEF FrameInv, FrameTypes, MainInv, StopInv, WorkerInv, SourceOver, StopPlaces, Threads,
         StopExecutor, MoveTo, AfterStop
<1>4. WorkerInv'
  BY DEF FrameInv, FrameTypes, WorkerInv, MainInv, StopInv, SourceOver, StopPlaces, Threads,
         Summary, StopExecutor, MoveTo, AfterStop
<1>5. BalanceInv'
  BY DEF FrameInv, FrameTypes, BalanceInv, WorkerInv, MainInv, InHand, Summary, StopExecutor,
         MoveTo, AfterStop
<1>6. CountInv'
  BY DEF FrameInv, FrameTypes, CountInv, WorkerInv, MainInv, StopInv, Full, Summary, Threads,
         SourceOver, StopExecutor, MoveTo, AfterStop
<1>7. ImagesInv'
  BY DEF FrameInv, FrameTypes, ImagesInv, WorkerInv, MainInv, Summary, SourceOver, Threads,
         StopExecutor, MoveTo, AfterStop
<1> QED
  BY <1>1, <1>2, <1>3, <1>4, <1>5, <1>6, <1>7 DEF FrameInv

\* wait() joins the source's thread, if there is one to join.
LEMMA WaitSourceStep == ASSUME FrameInv, WaitSource PROVE FrameInv'
<1>1. CASE source.joinable
  <2>1. /\ doing.main = "wait" /\ run' = run /\ source' = [source EXCEPT !.joinable = FALSE]
        /\ doing' = [doing EXCEPT !.main = "join source"]
    BY <1>1 DEF WaitSource, SourceWaitTake, MoveTo
  <2>2. FrameTypes'
    BY <2>1 DEF FrameInv, FrameTypes, Summary, Threads
  <2>3. StopInv'
    BY <2>1 DEF FrameInv, FrameTypes, StopInv, MainInv, WorkerInv, Threads, StopPlaces,
           SourceOver, Summary
  <2>4. MainInv'
    BY <2>1 DEF FrameInv, FrameTypes, MainInv, StopInv, WorkerInv, SourceOver, StopPlaces,
           Threads
  <2>5. Aside
    BY <2>1 DEF FrameInv, FrameTypes, Aside, Threads
  <2> QED
    BY <2>2, <2>3, <2>4, <2>5, AsideKeeps DEF FrameInv
<1>2. CASE ~source.joinable
  <2>1. /\ doing.main = "wait" /\ run' = run /\ source' = [source EXCEPT !.running = FALSE]
        /\ doing' = [doing EXCEPT !.main = "flag", !.mode["main"] = "Graceful"]
    BY <1>2 DEF WaitSource, SourceWaitTake, BeginStop
  <2>2. FrameTypes'
    BY <1>2, <2>1 DEF FrameInv, FrameTypes, Summary, Threads
  <2>3. StopInv'
    BY <1>2, <2>1 DEF FrameInv, FrameTypes, StopInv, MainInv, WorkerInv, Threads, StopPlaces,
           SourceOver, Summary
  <2>4. MainInv'
    BY <1>2, <2>1 DEF FrameInv, FrameTypes, MainInv, StopInv, WorkerInv, SourceOver, StopPlaces,
           Threads
  <2>5. Aside
    BY <1>2, <2>1 DEF FrameInv, FrameTypes, Aside, Threads
  <2> QED
    BY <2>2, <2>3, <2>4, <2>5, AsideKeeps DEF FrameInv
<1> QED
  BY <1>1, <1>2

\* Behind the join the source's thread is over.
LEMMA WaitJoinedStep == ASSUME FrameInv, WaitJoined PROVE FrameInv'
<1>1. FrameTypes'
  BY DEF FrameInv, FrameTypes, Summary, Threads, WaitJoined, SourceJoined, BeginStop
<1>2. StopInv'
  BY DEF FrameInv, FrameTypes, StopInv, MainInv, WorkerInv, Threads, StopPlaces, SourceOver,
         Summary, WaitJoined, SourceJoined, BeginStop
<1>3. MainInv'
  BY DEF FrameInv, FrameTypes, MainInv, StopInv, WorkerInv, SourceOver, StopPlaces, Threads,
         WaitJoined, SourceJoined, BeginStop
<1>4. Aside
  BY DEF FrameInv, FrameTypes, Aside, Threads, WaitJoined, SourceJoined, BeginStop
<1> QED
  BY <1>1, <1>2, <1>3, <1>4, AsideKeeps DEF FrameInv

\* Then the results are waited for.
LEMMA WaitExecutorStep == ASSUME FrameInv, WaitExecutor PROVE FrameInv'
<1>1. FrameTypes'
  BY DEF FrameInv, FrameTypes, Summary, Threads, WaitExecutor, MoveTo
<1>2. StopInv'
  BY DEF FrameInv, FrameTypes, StopInv, MainInv, WorkerInv, Threads, StopPlaces, SourceOver,
         Summary, WaitExecutor, MoveTo
<1>3. MainInv'
  BY DEF FrameInv, FrameTypes, MainInv, StopInv, WorkerInv, SourceOver, StopPlaces, Threads,
         WaitExecutor, MoveTo
<1>4. Aside
  BY DEF FrameInv, FrameTypes, Aside, Threads, WaitExecutor, MoveTo
<1> QED
  BY <1>1, <1>2, <1>3, <1>4, AsideKeeps DEF FrameInv

\* The object is finished when the timer has ended too.
LEMMA WaitTimerStep == ASSUME FrameInv, WaitTimer PROVE FrameInv'
<1>1. FrameTypes'
  BY DEF FrameInv, FrameTypes, Summary, Threads, WaitTimer, MoveTo
<1>2. StopInv'
  BY DEF FrameInv, FrameTypes, StopInv, MainInv, WorkerInv, Threads, StopPlaces, SourceOver,
         Summary, WaitTimer, MoveTo
<1>3. MainInv'
  BY DEF FrameInv, FrameTypes, MainInv, StopInv, WorkerInv, SourceOver, StopPlaces, Threads,
         WaitTimer, MoveTo
<1>4. Aside
  BY DEF FrameInv, FrameTypes, Aside, Threads, WaitTimer, MoveTo
<1> QED
  BY <1>1, <1>2, <1>3, <1>4, AsideKeeps DEF FrameInv
-----------------------------------------------------------------------------
(* The source's thread: a frame is read, received, handed over, counted.   *)

\* One field of the summary goes up by one.
LEMMA TallyOne ==
  ASSUME FrameInv, NEW field \in DOMAIN Zero, Tally(field)
  PROVE  /\ run'.sum = [run.sum EXCEPT ![field] = @ + 1] /\ run'.sum \in Summary
         /\ DOMAIN run' = DOMAIN run
         /\ run'.stop = run.stop /\ run'.open = run.open /\ run'.finished = run.finished
         /\ run'.pending = run.pending /\ run'.options = run.options
         /\ \A f \in DOMAIN Zero : run.sum[f] \in Nat /\ run'.sum[f] = IF f = field THEN run.sum[f] + 1 ELSE run.sum[f]
<1>1. run.sum \in Summary /\ "sum" \in DOMAIN run /\ {"stop", "open", "finished", "pending", "options"} \subseteq DOMAIN run
  BY DEF FrameInv, FrameTypes
<1>2. run'.sum = [run.sum EXCEPT ![field] = @ + 1]
  BY <1>1 DEF Tally
<1>3. run'.sum \in Summary
  BY <1>1, <1>2 DEF Summary, Zero
<1>4. \A f \in DOMAIN Zero : run.sum[f] \in Nat /\ run'.sum[f] = IF f = field THEN run.sum[f] + 1 ELSE run.sum[f]
  BY <1>1, <1>2 DEF Summary, Zero
<1> QED
  BY <1>1, <1>2, <1>3, <1>4 DEF Tally

\* The thread leaves when it is stopped, or hands the next image over.
LEMMA ReadFrameStep == ASSUME FrameInv, ReadFrame PROVE FrameInv'
<1>1. FrameTypes'
  BY DEF FrameInv, FrameTypes, Summary, Threads, ReadFrame, SourceLeave, SourceDeliver
<1>2. StopInv'
  BY DEF FrameInv, FrameTypes, StopInv, MainInv, WorkerInv, Threads, StopPlaces, SourceOver,
         Summary, ReadFrame, SourceLeave, SourceDeliver
<1>3. MainInv'
  BY DEF FrameInv, FrameTypes, MainInv, StopInv, WorkerInv, SourceOver, StopPlaces, Threads,
         ReadFrame, SourceLeave, SourceDeliver
<1>4. WorkerInv'
  BY DEF FrameInv, FrameTypes, WorkerInv, MainInv, StopInv, SourceOver, StopPlaces, Threads,
         Summary, ReadFrame, SourceLeave, SourceDeliver
<1>5. BalanceInv'
  BY DEF FrameInv, FrameTypes, BalanceInv, WorkerInv, MainInv, InHand, Summary, ReadFrame,
         SourceLeave, SourceDeliver
<1>6. CountInv'
  BY DEF FrameInv, FrameTypes, CountInv, WorkerInv, MainInv, StopInv, Full, Summary, Threads,
         SourceOver, ReadFrame, SourceLeave, SourceDeliver
<1>7. ImagesInv'
  <2>1. /\ run' = run /\ doing' = doing /\ source.thread = "test" /\ doing.worker = "none"
        /\ \E place \in {"ended", "callback"} :
              source'.thread = place /\ source'.next = source.next /\ source'.images = source.images
              /\ source'.loop = source.loop
    BY DEF ReadFrame, SourceLeave, SourceDeliver, FrameInv, FrameTypes, WorkerInv
  <2> QED
    BY <2>1 DEF FrameInv, FrameTypes, ImagesInv, Summary
<1> QED
  BY <1>1, <1>2, <1>3, <1>4, <1>5, <1>6, <1>7 DEF FrameInv

\* A frame is received: it is the one that fills the count, or none is.
LEMMA ReceiveStep == ASSUME FrameInv, Receive PROVE FrameInv'
<1>1. /\ run'.sum = [run.sum EXCEPT !.received = @ + 1] /\ run'.sum \in Summary
      /\ DOMAIN run' = DOMAIN run
      /\ run'.stop = run.stop /\ run'.open = run.open /\ run'.finished = run.finished
      /\ run'.pending = run.pending /\ run'.options = run.options
  BY TallyOne DEF Receive, Zero
<1>2. /\ source' = source /\ source.thread = "callback" /\ doing.worker = "none"
      /\ DOMAIN doing' = DOMAIN doing /\ doing'.worker \in {"submit", "source failure"}
      /\ doing'.main = doing.main /\ doing'.caller = doing.caller /\ doing'.timer = doing.timer
      /\ doing'.mode = doing.mode
  BY DEF Receive, FrameInv, FrameTypes
<1>3. doing'.reached = \E n \in run.options.count : run'.sum.received >= n
  BY DEF Receive, FrameInv, FrameTypes
<1>4. /\ run.sum.received \in Nat /\ run'.sum.received = run.sum.received + 1
      /\ \A f \in DOMAIN Zero \ {"received"} : run.sum[f] \in Nat /\ run'.sum[f] = run.sum[f]
  BY TallyOne DEF Receive, Zero
<1>5. FrameTypes'
  BY <1>1, <1>2 DEF FrameInv, FrameTypes
<1>6. StopInv'
  BY <1>1, <1>2 DEF FrameInv, FrameTypes, StopInv, Threads, StopPlaces, Summary
<1>7. MainInv'
  BY <1>1, <1>2 DEF FrameInv, MainInv, SourceOver
<1>8. WorkerInv'
  BY <1>1, <1>2 DEF WorkerInv
<1>9. BalanceInv'
  <2>1. /\ run'.sum.received = run.sum.received + 1
        /\ run'.sum.submitted = run.sum.submitted
        /\ run'.sum.completed = run.sum.completed
        /\ run'.sum.failed = run.sum.failed
        /\ run'.sum.dropped = run.sum.dropped
        /\ run'.sum.sourceFailures = run.sum.sourceFailures
        /\ run'.sum.refused = run.sum.refused
    BY <1>4 DEF Zero
  <2>2. /\ run.sum.received \in Nat
        /\ run.sum.submitted \in Nat
        /\ run.sum.completed \in Nat
        /\ run.sum.failed \in Nat
        /\ run.sum.dropped \in Nat
        /\ run.sum.sourceFailures \in Nat
        /\ run.sum.refused \in Nat
        /\ run.pending \in Nat /\ run'.pending = run.pending
    BY <1>4, <1>1 DEF Zero, FrameInv, FrameTypes
  <2>3. /\ InHand = 0 /\ InHand' = 1
        /\ (IF doing.worker = "submitted" THEN 1 ELSE 0) = 0
        /\ (IF doing'.worker = "submitted" THEN 1 ELSE 0) = 0
    BY <1>2 DEF InHand
  <2>4. /\ run.sum.received = run.sum.submitted + run.sum.dropped + run.sum.sourceFailures + run.sum.refused + 0
        /\ run.sum.completed + run.pending = run.sum.submitted + 0
        /\ run.sum.failed <= run.sum.completed
    BY <2>3 DEF FrameInv, BalanceInv
  <2>5. /\ run'.sum.received = run'.sum.submitted + run'.sum.dropped + run'.sum.sourceFailures + run'.sum.refused + 1
        /\ run'.sum.completed + run'.pending = run'.sum.submitted + 0
        /\ run'.sum.failed <= run'.sum.completed
    BY <2>1, <2>2, <2>4
  <2> QED
    BY <2>3, <2>5 DEF BalanceInv
<1>10. CountInv'
  <2>1. ~Full
    BY <1>2 DEF FrameInv, CountInv
  <2>2. \A n \in run.options.count : n > 0 => run.sum.received + 1 <= n
    BY <2>1, <1>4 DEF Full, FrameInv, FrameTypes
  <2>3. Full' => doing'.reached
    BY <1>1, <1>3 DEF Full, FrameInv, FrameTypes, Summary
  <2>4. \A n \in run'.options.count : n > 0 => run'.sum.received <= n
    BY <1>1, <1>4, <2>2
  <2>5. doing'.worker \in {"submit", "source failure", "submitted", "dropped", "refused", "decide"}
    BY <1>2
  <2> QED
    BY <2>3, <2>4, <2>5, Zenon DEF CountInv
<1>11. ImagesInv'
  <2>1. SUFFICES ASSUME ~source.loop, Len(source.images) > 0
                 PROVE  run'.sum.received = source.next /\ source.next \in 1 .. Len(source.images)
    BY <1>2 DEF ImagesInv
  <2>2. run.sum.received = source.next - 1 /\ source.next \in 1 .. Len(source.images)
    BY <2>1, <1>2 DEF FrameInv, ImagesInv
  <2>3. source.next \in Nat
    BY DEF FrameInv, FrameTypes
  <2> QED
    BY <2>2, <2>3, <1>4
<1> QED
  BY <1>5, <1>6, <1>7, <1>8, <1>9, <1>10, <1>11 DEF FrameInv

\* An image that could not be read is a source failure.
LEMMA SourceFailureStep == ASSUME FrameInv, SourceFailure PROVE FrameInv'
<1>1. /\ run'.sum = [run.sum EXCEPT !.sourceFailures = @ + 1] /\ run'.sum \in Summary
      /\ DOMAIN run' = DOMAIN run
      /\ run'.stop = run.stop /\ run'.open = run.open /\ run'.finished = run.finished
      /\ run'.pending = run.pending /\ run'.options = run.options
  BY TallyOne DEF SourceFailure, Zero
<1>2. /\ source' = source /\ doing.worker = "source failure"
      /\ DOMAIN doing' = DOMAIN doing /\ doing'.worker = "decide" /\ doing'.reached = doing.reached
      /\ doing'.main = doing.main /\ doing'.caller = doing.caller /\ doing'.timer = doing.timer
      /\ doing'.mode = doing.mode
  BY DEF SourceFailure, FrameInv, FrameTypes
<1>3. /\ run.sum.sourceFailures \in Nat /\ run'.sum.sourceFailures = run.sum.sourceFailures + 1
      /\ \A f \in DOMAIN Zero \ {"sourceFailures"} : run.sum[f] \in Nat /\ run'.sum[f] = run.sum[f]
  BY TallyOne DEF SourceFailure, Zero
<1>4. FrameTypes'
  BY <1>1, <1>2 DEF FrameInv, FrameTypes
<1>5. StopInv'
  BY <1>1, <1>2 DEF FrameInv, FrameTypes, StopInv, Threads, StopPlaces, Summary
<1>6. MainInv'
  BY <1>1, <1>2 DEF FrameInv, MainInv, SourceOver
<1>7. WorkerInv'
  BY <1>2, <1>3 DEF FrameInv, WorkerInv, Zero
<1>8. BalanceInv'
  <2>1. /\ run'.sum.received = run.sum.received
        /\ run'.sum.submitted = run.sum.submitted
        /\ run'.sum.completed = run.sum.completed
        /\ run'.sum.failed = run.sum.failed
        /\ run'.sum.dropped = run.sum.dropped
        /\ run'.sum.sourceFailures = run.sum.sourceFailures + 1
        /\ run'.sum.refused = run.sum.refused
    BY <1>3 DEF Zero
  <2>2. /\ run.sum.received \in Nat
        /\ run.sum.submitted \in Nat
        /\ run.sum.completed \in Nat
        /\ run.sum.failed \in Nat
        /\ run.sum.dropped \in Nat
        /\ run.sum.sourceFailures \in Nat
        /\ run.sum.refused \in Nat
        /\ run.pending \in Nat /\ run'.pending = run.pending
    BY <1>3, <1>1 DEF Zero, FrameInv, FrameTypes
  <2>3. /\ InHand = 1 /\ InHand' = 0
        /\ (IF doing.worker = "submitted" THEN 1 ELSE 0) = 0
        /\ (IF doing'.worker = "submitted" THEN 1 ELSE 0) = 0
    BY <1>2 DEF InHand
  <2>4. /\ run.sum.received = run.sum.submitted + run.sum.dropped + run.sum.sourceFailures + run.sum.refused + 1
        /\ run.sum.completed + run.pending = run.sum.submitted + 0
        /\ run.sum.failed <= run.sum.completed
    BY <2>3 DEF FrameInv, BalanceInv
  <2>5. /\ run'.sum.received = run'.sum.submitted + run'.sum.dropped + run'.sum.sourceFailures + run'.sum.refused + 0
        /\ run'.sum.completed + run'.pending = run'.sum.submitted + 0
        /\ run'.sum.failed <= run'.sum.completed
    BY <2>1, <2>2, <2>4
  <2> QED
    BY <2>3, <2>5 DEF BalanceInv
<1>9. CountInv'
  BY <1>1, <1>2, <1>3 DEF FrameInv, CountInv, Full, Zero
<1>10. ImagesInv'
  BY <1>2, <1>3 DEF FrameInv, ImagesInv, Zero
<1> QED
  BY <1>4, <1>5, <1>6, <1>7, <1>8, <1>9, <1>10 DEF FrameInv
\* The executor refuses only when the run is stopping, takes the frame, or
\* drops it.
LEMMA SubmitStep == ASSUME FrameInv, Submit PROVE FrameInv'
<1>1. PICK place \in {"refused", "submitted", "dropped"} :
         /\ doing' = [doing EXCEPT !.worker = place]
         /\ run' = IF place = "submitted" THEN [run EXCEPT !.pending = @ + 1] ELSE run
         /\ place = "refused" => ~run.open
         /\ place = "submitted" => run.open
  BY DEF Submit, MoveTo
<1>2. /\ source' = source /\ doing.worker = "submit"
      /\ run'.sum = run.sum /\ run'.options = run.options /\ DOMAIN run' = DOMAIN run
      /\ run'.stop = run.stop /\ run'.open = run.open /\ run'.finished = run.finished
      /\ run'.pending = run.pending + (IF place = "submitted" THEN 1 ELSE 0)
      /\ run.pending \in Nat
  BY <1>1 DEF Submit, FrameInv, FrameTypes
<1>3. /\ DOMAIN doing' = DOMAIN doing /\ doing'.worker = place /\ doing'.reached = doing.reached
      /\ doing'.main = doing.main /\ doing'.caller = doing.caller /\ doing'.timer = doing.timer
      /\ doing'.mode = doing.mode
  BY <1>1 DEF FrameInv, FrameTypes
<1>4. FrameTypes'
  BY <1>2, <1>3 DEF FrameInv, FrameTypes
<1>5. StopInv'
  BY <1>1, <1>2, <1>3 DEF FrameInv, FrameTypes, StopInv, Threads, StopPlaces
<1>6. MainInv'
  <2>1. source.thread = "callback"
    BY <1>2 DEF FrameInv, WorkerInv
  <2>2. doing.main \notin {"join timer", "done"}
    BY <2>1 DEF FrameInv, MainInv, SourceOver
  <2> QED
    BY <1>2, <1>3, <2>2 DEF FrameInv, MainInv, SourceOver
<1>7. WorkerInv'
  BY <1>2, <1>3 DEF FrameInv, WorkerInv
<1>8. BalanceInv'
  <2>1. InHand = 1 /\ InHand' = 1
    BY <1>2, <1>3 DEF InHand
  <2>2. run.sum.submitted \in Nat /\ run.sum.completed \in Nat
    BY DEF FrameInv, FrameTypes, Summary
  <2>3. run.sum.completed + run.pending = run.sum.submitted
    BY <1>2, <2>2 DEF FrameInv, BalanceInv
  <2>4. run'.sum.completed + run'.pending = run'.sum.submitted + (IF doing'.worker = "submitted" THEN 1 ELSE 0)
    BY <1>2, <1>3, <2>2, <2>3
  <2> QED
    BY <1>2, <2>1, <2>4 DEF FrameInv, BalanceInv
<1>9. CountInv'
  <2>1. Full => doing.reached
    BY <1>2 DEF FrameInv, CountInv
  <2> QED
    BY <1>1, <1>2, <1>3, <2>1 DEF FrameInv, CountInv, Full
<1>10. ImagesInv'
  BY <1>2, <1>3 DEF FrameInv, ImagesInv
<1> QED
  BY <1>4, <1>5, <1>6, <1>7, <1>8, <1>9, <1>10 DEF FrameInv

\* The answer is counted.
LEMMA CountAnswerStep == ASSUME FrameInv, CountAnswer PROVE FrameInv'
<1> DEFINE field == doing.worker
<1>0. field \in {"submitted", "dropped", "refused"} /\ field \in DOMAIN Zero
  BY DEF CountAnswer, Zero
<1>1. /\ run'.sum = [run.sum EXCEPT ![field] = @ + 1] /\ run'.sum \in Summary
      /\ DOMAIN run' = DOMAIN run
      /\ run'.stop = run.stop /\ run'.open = run.open /\ run'.finished = run.finished
      /\ run'.pending = run.pending /\ run'.options = run.options
  BY <1>0, TallyOne DEF CountAnswer
<1>2. /\ source' = source
      /\ DOMAIN doing' = DOMAIN doing /\ doing'.worker = "decide" /\ doing'.reached = doing.reached
      /\ doing'.main = doing.main /\ doing'.caller = doing.caller /\ doing'.timer = doing.timer
      /\ doing'.mode = doing.mode
  BY DEF CountAnswer, FrameInv, FrameTypes
<1>3. \A f \in DOMAIN Zero : run.sum[f] \in Nat /\ run'.sum[f] = IF f = field THEN run.sum[f] + 1 ELSE run.sum[f]
  BY <1>0, TallyOne DEF CountAnswer
<1>4. run'.sum.received = run.sum.received
  BY <1>0, <1>3 DEF Zero
<1>5. FrameTypes'
  BY <1>1, <1>2 DEF FrameInv, FrameTypes
<1>6. StopInv'
  <2>1. doing.worker = "refused" => run.stop
    BY DEF FrameInv, StopInv
  <2>2. run'.sum.refused > 0 => run.sum.refused > 0 \/ field = "refused"
    BY <1>3 DEF Zero
  <2> QED
    BY <1>1, <1>2, <2>1, <2>2 DEF FrameInv, FrameTypes, StopInv, Threads, StopPlaces
<1>7. MainInv'
  BY <1>1, <1>2 DEF FrameInv, MainInv, SourceOver
<1>8. WorkerInv'
  BY <1>0, <1>2, <1>4 DEF FrameInv, WorkerInv
<1>9. BalanceInv'
  <2>1. CASE field = "submitted"
    <3>1. /\ run'.sum.received = run.sum.received
          /\ run'.sum.submitted = run.sum.submitted + 1
          /\ run'.sum.completed = run.sum.completed
          /\ run'.sum.failed = run.sum.failed
          /\ run'.sum.dropped = run.sum.dropped
          /\ run'.sum.sourceFailures = run.sum.sourceFailures
          /\ run'.sum.refused = run.sum.refused
      BY <1>3, <2>1 DEF Zero
    <3>2. /\ run.sum.received \in Nat
          /\ run.sum.submitted \in Nat
          /\ run.sum.completed \in Nat
          /\ run.sum.failed \in Nat
          /\ run.sum.dropped \in Nat
          /\ run.sum.sourceFailures \in Nat
          /\ run.sum.refused \in Nat
          /\ run.pending \in Nat /\ run'.pending = run.pending
      BY <1>3, <2>1, <1>1 DEF Zero, FrameInv, FrameTypes
    <3>3. /\ InHand = 1 /\ InHand' = 0
          /\ (IF doing.worker = "submitted" THEN 1 ELSE 0) = 1
          /\ (IF doing'.worker = "submitted" THEN 1 ELSE 0) = 0
      BY <1>2, <2>1 DEF InHand
    <3>4. /\ run.sum.received = run.sum.submitted + run.sum.dropped + run.sum.sourceFailures + run.sum.refused + 1
          /\ run.sum.completed + run.pending = run.sum.submitted + 1
          /\ run.sum.failed <= run.sum.completed
      BY <3>3 DEF FrameInv, BalanceInv
    <3>5. /\ run'.sum.received = run'.sum.submitted + run'.sum.dropped + run'.sum.sourceFailures + run'.sum.refused + 0
          /\ run'.sum.completed + run'.pending = run'.sum.submitted + 0
          /\ run'.sum.failed <= run'.sum.completed
      BY <3>1, <3>2, <3>4
    <3> QED
      BY <3>3, <3>5 DEF BalanceInv
  <2>2. CASE field = "dropped"
    <3>1. /\ run'.sum.received = run.sum.received
          /\ run'.sum.submitted = run.sum.submitted
          /\ run'.sum.completed = run.sum.completed
          /\ run'.sum.failed = run.sum.failed
          /\ run'.sum.dropped = run.sum.dropped + 1
          /\ run'.sum.sourceFailures = run.sum.sourceFailures
          /\ run'.sum.refused = run.sum.refused
      BY <1>3, <2>2 DEF Zero
    <3>2. /\ run.sum.received \in Nat
          /\ run.sum.submitted \in Nat
          /\ run.sum.completed \in Nat
          /\ run.sum.failed \in Nat
          /\ run.sum.dropped \in Nat
          /\ run.sum.sourceFailures \in Nat
          /\ run.sum.refused \in Nat
          /\ run.pending \in Nat /\ run'.pending = run.pending
      BY <1>3, <2>2, <1>1 DEF Zero, FrameInv, FrameTypes
    <3>3. /\ InHand = 1 /\ InHand' = 0
          /\ (IF doing.worker = "submitted" THEN 1 ELSE 0) = 0
          /\ (IF doing'.worker = "submitted" THEN 1 ELSE 0) = 0
      BY <1>2, <2>2 DEF InHand
    <3>4. /\ run.sum.received = run.sum.submitted + run.sum.dropped + run.sum.sourceFailures + run.sum.refused + 1
          /\ run.sum.completed + run.pending = run.sum.submitted + 0
          /\ run.sum.failed <= run.sum.completed
      BY <3>3 DEF FrameInv, BalanceInv
    <3>5. /\ run'.sum.received = run'.sum.submitted + run'.sum.dropped + run'.sum.sourceFailures + run'.sum.refused + 0
          /\ run'.sum.completed + run'.pending = run'.sum.submitted + 0
          /\ run'.sum.failed <= run'.sum.completed
      BY <3>1, <3>2, <3>4
    <3> QED
      BY <3>3, <3>5 DEF BalanceInv
  <2>3. CASE field = "refused"
    <3>1. /\ run'.sum.received = run.sum.received
          /\ run'.sum.submitted = run.sum.submitted
          /\ run'.sum.completed = run.sum.completed
          /\ run'.sum.failed = run.sum.failed
          /\ run'.sum.dropped = run.sum.dropped
          /\ run'.sum.sourceFailures = run.sum.sourceFailures
          /\ run'.sum.refused = run.sum.refused + 1
      BY <1>3, <2>3 DEF Zero
    <3>2. /\ run.sum.received \in Nat
          /\ run.sum.submitted \in Nat
          /\ run.sum.completed \in Nat
          /\ run.sum.failed \in Nat
          /\ run.sum.dropped \in Nat
          /\ run.sum.sourceFailures \in Nat
          /\ run.sum.refused \in Nat
          /\ run.pending \in Nat /\ run'.pending = run.pending
      BY <1>3, <2>3, <1>1 DEF Zero, FrameInv, FrameTypes
    <3>3. /\ InHand = 1 /\ InHand' = 0
          /\ (IF doing.worker = "submitted" THEN 1 ELSE 0) = 0
          /\ (IF doing'.worker = "submitted" THEN 1 ELSE 0) = 0
      BY <1>2, <2>3 DEF InHand
    <3>4. /\ run.sum.received = run.sum.submitted + run.sum.dropped + run.sum.sourceFailures + run.sum.refused + 1
          /\ run.sum.completed + run.pending = run.sum.submitted + 0
          /\ run.sum.failed <= run.sum.completed
      BY <3>3 DEF FrameInv, BalanceInv
    <3>5. /\ run'.sum.received = run'.sum.submitted + run'.sum.dropped + run'.sum.sourceFailures + run'.sum.refused + 0
          /\ run'.sum.completed + run'.pending = run'.sum.submitted + 0
          /\ run'.sum.failed <= run'.sum.completed
      BY <3>1, <3>2, <3>4
    <3> QED
      BY <3>3, <3>5 DEF BalanceInv
  <2> QED
    BY <1>0, <2>1, <2>2, <2>3
<1>10. CountInv'
  BY <1>0, <1>1, <1>2, <1>4 DEF FrameInv, CountInv, Full
<1>11. ImagesInv'
  BY <1>0, <1>2, <1>4 DEF FrameInv, ImagesInv
<1> QED
  BY <1>5, <1>6, <1>7, <1>8, <1>9, <1>10, <1>11 DEF FrameInv
\* What onFrame() decides: it stops the run when the frame failed or made the
\* count full.
LEMMA DecideStep == ASSUME FrameInv, Decide PROVE FrameInv'
<1>1. doing.worker = "decide" /\ source' = source /\ run' = run
  BY DEF Decide
<1>2. CASE doing.reached \/ doing.failure
  <2>1. PICK mode \in {"Graceful", "Immediate"} : doing' = [doing EXCEPT !.worker = "flag", !.mode["worker"] = mode]
    BY <1>2 DEF Decide, BeginStop
  <2>2. /\ DOMAIN doing' = DOMAIN doing /\ doing'.worker = "flag" /\ doing'.main = doing.main
        /\ doing'.caller = doing.caller /\ doing'.timer = doing.timer
        /\ doing'.mode \in [Threads -> {"Graceful", "Immediate"}] /\ doing'.mode["main"] = doing.mode["main"]
    BY <2>1 DEF FrameInv, FrameTypes, Threads
  <2>3. FrameTypes'
    BY <1>1, <2>2 DEF FrameInv, FrameTypes
  <2>4. StopInv'
    BY <1>1, <2>2 DEF FrameInv, StopInv, Threads, StopPlaces
  <2>5. MainInv'
    BY <1>1, <2>2 DEF FrameInv, MainInv, SourceOver
  <2>6. WorkerInv'
    BY <1>1, <2>2 DEF FrameInv, WorkerInv
  <2>7. BalanceInv'
    BY <1>1, <2>2 DEF FrameInv, BalanceInv, InHand
  <2>8. CountInv'
    BY <1>1, <2>2 DEF FrameInv, CountInv, Full
  <2>9. ImagesInv'
    BY <1>1, <2>2 DEF FrameInv, ImagesInv
  <2> QED
    BY <2>3, <2>4, <2>5, <2>6, <2>7, <2>8, <2>9 DEF FrameInv
<1>3. CASE ~(doing.reached \/ doing.failure)
  <2>1. doing' = [doing EXCEPT !.worker = "return"]
    BY <1>3 DEF Decide, MoveTo
  <2>2. /\ DOMAIN doing' = DOMAIN doing /\ doing'.worker = "return" /\ doing'.main = doing.main
        /\ doing'.caller = doing.caller /\ doing'.timer = doing.timer /\ doing'.mode = doing.mode
    BY <2>1 DEF FrameInv, FrameTypes
  <2>3. FrameTypes'
    BY <1>1, <2>2 DEF FrameInv, FrameTypes
  <2>4. StopInv'
    BY <1>1, <2>2 DEF FrameInv, StopInv, Threads, StopPlaces
  <2>5. MainInv'
    BY <1>1, <2>2 DEF FrameInv, MainInv, SourceOver
  <2>6. WorkerInv'
    BY <1>1, <2>2 DEF FrameInv, WorkerInv
  <2>7. BalanceInv'
    BY <1>1, <2>2 DEF FrameInv, BalanceInv, InHand
  <2>8. CountInv'
    BY <1>1, <1>3, <2>2 DEF FrameInv, CountInv, Full
  <2>9. ImagesInv'
    BY <1>1, <2>2 DEF FrameInv, ImagesInv
  <2> QED
    BY <2>3, <2>4, <2>5, <2>6, <2>7, <2>8, <2>9 DEF FrameInv
<1> QED
  BY <1>2, <1>3

\* The callback returns; the thread ends behind the last image, or goes on.
LEMMA ReturnFrameStep == ASSUME FrameInv, ReturnFrame PROVE FrameInv'
<1>1. doing.worker = "return" /\ run' = run /\ doing' = [doing EXCEPT !.worker = "none"]
      /\ source.thread = "callback"
  BY DEF ReturnFrame, MoveTo, FrameInv, WorkerInv
<1>2. /\ DOMAIN doing' = DOMAIN doing /\ doing'.worker = "none" /\ doing'.main = doing.main
      /\ doing'.caller = doing.caller /\ doing'.timer = doing.timer /\ doing'.mode = doing.mode
  BY <1>1 DEF FrameInv, FrameTypes
<1>3. /\ DOMAIN source' = DOMAIN source /\ source'.images = source.images /\ source'.loop = source.loop
      /\ source'.stop = source.stop /\ source'.joinable = source.joinable
      /\ source'.next \in Nat /\ source'.thread \in {"test", "ended"}
  BY DEF ReturnFrame, SourceAdvance, FrameInv, FrameTypes
<1>4. FrameTypes'
  BY <1>1, <1>2, <1>3 DEF FrameInv, FrameTypes
<1>5. StopInv'
  BY <1>1, <1>2, <1>3 DEF FrameInv, StopInv, Threads, StopPlaces
<1>6. MainInv'
  BY <1>1, <1>2, <1>3 DEF FrameInv, MainInv, SourceOver
<1>7. WorkerInv'
  BY <1>1, <1>2, <1>3 DEF FrameInv, WorkerInv
<1>8. BalanceInv'
  BY <1>1, <1>2, <1>3 DEF FrameInv, BalanceInv, InHand
<1>9. CountInv'
  BY <1>1, <1>2, <1>3 DEF FrameInv, CountInv, Full
<1>10. ImagesInv'
  <2>1. SUFFICES ASSUME ~source.loop, Len(source.images) > 0 PROVE ImagesInv'
    BY <1>3 DEF ImagesInv
  <2>2. run.sum.received = source.next /\ source.next \in 1 .. Len(source.images)
    BY <1>1, <2>1 DEF FrameInv, ImagesInv
  <2>3. Len(source.images) \in Nat
    BY DEF FrameInv, FrameTypes
  <2>4. CASE source.next = Len(source.images)
    <3>1. source'.thread = "ended" /\ source'.next = source.next
      BY <2>1, <2>4 DEF ReturnFrame, SourceAdvance, FrameInv, FrameTypes
    <3> QED
      BY <1>1, <1>3, <2>2, <2>3, <3>1 DEF ImagesInv
  <2>5. CASE source.next # Len(source.images)
    <3>1. source'.thread = "test" /\ source'.next = source.next + 1
      BY <2>5 DEF ReturnFrame, SourceAdvance, FrameInv, FrameTypes
    <3>2. source.next + 1 \in 1 .. Len(source.images) /\ run.sum.received = source.next + 1 - 1
      BY <2>2, <2>3, <2>5
    <3>3. source'.next \in 1 .. Len(source'.images)
      BY <1>3, <3>1, <3>2
    <3>4. run'.sum.received = source'.next - 1
      BY <1>1, <2>2, <2>3, <3>1, <3>2
    <3>5. source'.thread # "none" /\ source'.thread # "callback" /\ source'.thread # "ended"
      BY <3>1
    <3> QED
      BY <3>3, <3>4, <3>5 DEF ImagesInv
  <2> QED
    BY <2>4, <2>5
<1> QED
  BY <1>4, <1>5, <1>6, <1>7, <1>8, <1>9, <1>10 DEF FrameInv

\* A result is delivered, failed or not.
LEMMA CompleteStep == ASSUME FrameInv, Complete PROVE FrameInv'
<1>1. /\ source' = source /\ doing' = doing /\ run.pending > 0 /\ run.pending \in Nat /\ run.sum \in Summary
  BY DEF Complete, FrameInv, FrameTypes
<1>2. PICK failed \in {0, 1} :
         run' = [run EXCEPT !.pending = @ - 1, !.sum.completed = @ + 1, !.sum.failed = @ + failed]
  BY DEF Complete
<1>3. /\ DOMAIN run' = DOMAIN run /\ run'.options = run.options /\ run'.stop = run.stop
      /\ run'.open = run.open /\ run'.finished = run.finished
      /\ run'.pending = run.pending - 1 /\ run'.pending \in Nat
  BY <1>1, <1>2 DEF FrameInv, FrameTypes
<1>4. run'.sum = [run.sum EXCEPT !.completed = @ + 1, !.failed = @ + failed]
  BY <1>2 DEF FrameInv, FrameTypes
<1>5. /\ run'.sum \in Summary /\ run'.sum.received = run.sum.received /\ run'.sum.submitted = run.sum.submitted
      /\ run'.sum.dropped = run.sum.dropped /\ run'.sum.sourceFailures = run.sum.sourceFailures
      /\ run'.sum.refused = run.sum.refused
      /\ run'.sum.completed = run.sum.completed + 1 /\ run'.sum.failed = run.sum.failed + failed
  <2>1. /\ run.sum \in Summary /\ failed \in Nat
        /\ run.sum.completed + 1 \in Nat /\ run.sum.failed + failed \in Nat
    BY <1>1 DEF Summary
  <2>2. /\ run'.sum.received = run.sum.received /\ run'.sum.submitted = run.sum.submitted
        /\ run'.sum.dropped = run.sum.dropped /\ run'.sum.sourceFailures = run.sum.sourceFailures
        /\ run'.sum.refused = run.sum.refused
        /\ run'.sum.completed = run.sum.completed + 1 /\ run'.sum.failed = run.sum.failed + failed
    BY <1>4, <2>1 DEF Summary
  <2>3. run'.sum \in Summary
    <3>1. [run.sum EXCEPT !.completed = @ + 1] \in Summary
      BY <2>1 DEF Summary
    <3>2. run'.sum = [[run.sum EXCEPT !.completed = @ + 1] EXCEPT !.failed = run.sum.failed + failed]
      BY <1>4, <2>1 DEF Summary
    <3> HIDE DEF Summary
    <3> QED
      BY <2>1, <3>1, <3>2 DEF Summary
  <2> QED
    BY <2>2, <2>3
<1>6. FrameTypes'
  BY <1>1, <1>3, <1>5 DEF FrameInv, FrameTypes
<1>7. StopInv' /\ WorkerInv'
  BY <1>1, <1>3, <1>5 DEF FrameInv, StopInv, WorkerInv
<1>8. MainInv'
  <2>1. run.pending # 0
    BY <1>1
  <2>2. doing.main \notin {"join timer", "done"}
    BY <2>1 DEF FrameInv, MainInv
  <2> QED
    BY <1>1, <1>3, <2>2 DEF FrameInv, MainInv, SourceOver
<1>9. BalanceInv'
  <2>1. run.sum.completed \in Nat /\ run.sum.failed \in Nat /\ run.sum.submitted \in Nat
    BY <1>1 DEF Summary
  <2>2. /\ run'.sum.completed + run'.pending = run.sum.completed + run.pending
        /\ run.sum.failed <= run.sum.completed => run'.sum.failed <= run'.sum.completed
    BY <1>1, <1>3, <1>5, <2>1
  <2> QED
    BY <1>1, <1>5, <2>2 DEF FrameInv, BalanceInv, InHand
<1>10. CountInv' /\ ImagesInv'
  BY <1>1, <1>3, <1>5 DEF FrameInv, CountInv, ImagesInv, Full
<1> QED
  BY <1>6, <1>7, <1>8, <1>9, <1>10 DEF FrameInv

\* What create() lists is a sequence: the directory has finitely many files.
LEMMA ListingHasALength ==
  ASSUME NEW o, NEW images \in Create(o, Directory).orders PROVE Len(images) \in Nat
<1> DEFINE files == Listed(o, Directory)
<1>1. Cardinality(files) \in Nat
  <2>1. files \subseteq Directory.files
    BY DEF Listed
  <2> QED
    BY <2>1, FS_Subset, FS_CardinalityType, DirectoryAssumption
<1>2. images \in ReadingOrders(o, files)
  BY DEF Create
<1>3. images \in [1 .. Cardinality(files) -> files]
  BY <1>2 DEF ReadingOrders
<1> QED
  BY <1>1, <1>3

\* A run begins with nothing counted and no frame in hand.
LEMMA FrameInvInit == ASSUME FrameInit PROVE FrameInv
<1>1. PICK o \in RunOptions :
         /\ \E images \in Create(o.files, Directory).orders : SourceInit(images, o.files.loop)
         /\ run = [options |-> o, sum |-> Zero, started |-> FALSE, stop |-> FALSE,
                   finished |-> FALSE, cancelled |-> FALSE, open |-> TRUE, pending |-> 0]
  BY DEF FrameInit
<1> PICK images \in Create(o.files, Directory).orders : SourceInit(images, o.files.loop)
  BY <1>1
<1>2. doing = [main |-> "new", caller |-> "idle", timer |-> "none", worker |-> "none",
               reached |-> FALSE, failure |-> FALSE, mode |-> [t \in Threads |-> "Graceful"]]
  BY DEF FrameInit
<1>3. Len(source.images) \in Nat /\ source.next = 1 /\ source.thread = "none"
  BY ListingHasALength DEF SourceInit
<1>4. run.sum \in Summary /\ run.sum = Zero /\ run.options.count \subseteq Nat
  BY <1>1, OptionsAssumption DEF Zero, Summary
<1>5. FrameTypes
  BY <1>1, <1>2, <1>3, <1>4 DEF FrameTypes, SourceInit, Threads
<1>6. StopInv
  BY <1>1, <1>2 DEF StopInv, StopPlaces, Threads, Zero
<1>7. MainInv /\ WorkerInv
  BY <1>1, <1>2 DEF MainInv, WorkerInv, StopPlaces, SourceOver, SourceInit, Zero
<1>8. BalanceInv /\ CountInv
  BY <1>1, <1>2, <1>4 DEF BalanceInv, CountInv, InHand, Full, Zero
<1>9. ImagesInv
  BY <1>1, <1>2, <1>3 DEF ImagesInv, Zero
<1> QED
  BY <1>5, <1>6, <1>7, <1>8, <1>9 DEF FrameInv

\* Every step keeps the invariant.
LEMMA FrameInvStep == ASSUME FrameInv, [FrameNext]_frameVars PROVE FrameInv'
<1>1. CASE UNCHANGED frameVars
  <2>1. source' = source /\ run' = run /\ doing' = doing
    BY <1>1 DEF frameVars
  <2>2. FrameTypes' /\ StopInv' /\ MainInv'
    BY <2>1 DEF FrameInv, FrameTypes, StopInv, MainInv, SourceOver
  <2>3. WorkerInv' /\ BalanceInv' /\ CountInv' /\ ImagesInv'
    BY <2>1, AsideKeeps DEF Aside
  <2> QED
    BY <2>2, <2>3 DEF FrameInv
<1>2. CASE Main
  BY <1>2, StartBeginsStep, StartInvalidStep, StartSourceStep, StartFailsStep, WaitSourceStep,
     WaitJoinedStep, WaitExecutorStep, WaitTimerStep, StopFlagStep, StopTimerStep,
     StopSourceStep, StopExecutorStep DEF Stop, Main, Threads
<1>3. CASE Worker
  BY <1>3, ReadFrameStep, ReceiveStep, SourceFailureStep, SubmitStep, CountAnswerStep, DecideStep,
     ReturnFrameStep, StopFlagStep, StopTimerStep,
     StopSourceStep, StopExecutorStep DEF Stop, Worker, Threads
<1>4. CASE Timer
  BY <1>4, TimerFiresStep, TimerCancelledStep, StopFlagStep, StopTimerStep,
     StopSourceStep, StopExecutorStep DEF Stop, Timer, Threads
<1>5. CASE Complete
  BY <1>5, CompleteStep
<1>6. CASE CallerStops \/ Stop("caller")
  BY <1>6, CallerStopsStep, StopFlagStep, StopTimerStep,
     StopSourceStep, StopExecutorStep DEF Stop, Threads
<1> QED
  BY <1>1, <1>2, <1>3, <1>4, <1>5, <1>6 DEF FrameNext

\* The invariant holds in every state of a run.
THEOREM FrameInvHolds == FrameSpec => []FrameInv
<1> QED
  BY FrameInvInit, FrameInvStep, PTL DEF FrameSpec

\* What wait() returns is final and adds up, and no run receives more frames
\* than it asked for or its source announced.
THEOREM SummaryCompleteHolds == FrameSpec => []SummaryComplete
<1>1. ASSUME FrameInv PROVE SummaryComplete
  <2>1. /\ run.sum.completed + run.pending = run.sum.submitted + (IF doing.worker = "submitted" THEN 1 ELSE 0)
        /\ run.sum.failed <= run.sum.completed
        /\ run.sum.refused > 0 => run.stop
    BY <1>1 DEF FrameInv, BalanceInv, StopInv
  <2>2. ASSUME NEW n \in run.options.count \cup Info.expected, n > 0 PROVE run.sum.received <= n
    <3>1. CASE n \in run.options.count
      BY <1>1, <2>2, <3>1 DEF FrameInv, CountInv
    <3>2. CASE n \in Info.expected
      <4>1. ~source.loop /\ n = Len(source.images) /\ n > 0 /\ n \in Nat
        BY <1>1, <2>2, <3>2 DEF Info, FrameInv, FrameTypes
      <4>2. CASE source.thread = "none"
        BY <1>1, <4>1, <4>2 DEF FrameInv, WorkerInv
      <4>3. CASE source.thread # "none"
        <5>1. source.thread \in {"test", "callback", "ended"}
          BY <1>1, <4>3 DEF FrameInv, FrameTypes
        <5> QED
          BY <1>1, <4>1, <5>1 DEF FrameInv, ImagesInv, FrameTypes, Summary
      <4> QED
        BY <4>2, <4>3
    <3> QED
      BY <2>2, <3>1, <3>2
  <2>3. ASSUME doing.main = "done"
        PROVE  /\ source.thread \in {"none", "ended"} /\ run.pending = 0 /\ ~run.open
               /\ run.sum.received = run.sum.submitted + run.sum.dropped + run.sum.sourceFailures
                                     + run.sum.refused
    <3>1. SourceOver /\ run.pending = 0 /\ ~run.open
      BY <1>1, <2>3 DEF FrameInv, MainInv
    <3>2. doing.worker = "none"
      BY <1>1, <3>1 DEF FrameInv, WorkerInv, SourceOver
    <3> QED
      BY <1>1, <3>1, <3>2 DEF FrameInv, BalanceInv, InHand, SourceOver, FrameTypes, Summary
  <2> QED
    BY <2>1, <2>2, <2>3 DEF SummaryComplete
<1> QED
  BY <1>1, FrameInvHolds, PTL

-----------------------------------------------------------------------------
(* VisionService: who may still run when.                                  *)

\* The fields of the four records, and the types of those that are compared.
ServiceShape ==
    /\ DOMAIN ctl = {"state", "session", "running", "mode", "final", "error", "control", "watch",
                     "configured", "starts", "asked"}
    /\ DOMAIN at = {"client", "control", "watch", "scan"}
    /\ DOMAIN met = {"commands", "pipeline", "holder", "summary", "performance", "reported", "may", "loads"}
    /\ DOMAIN live = {"thread", "stop", "seen"}
    /\ ctl.starts \in Nat /\ ctl.control \in BOOLEAN /\ ctl.watch \in BOOLEAN

\* The places of the control thread between its start and its result.
Busy == at.control \in {"take", "start", "failed", "loop", "wait", "collect"}

\* Past the join of the metrics thread a load finds it over, and a tick
\* that has taken the session still holds the one that is configured.
LiveInv ==
    /\ at.client \in {"load stop", "load profile", "join watch", "join control", "adopt"} => LiveOver
    /\ live.thread = "read" => live.seen = ctl.configured

\* A thread member is joinable only after a start, and the control thread
\* works only while its member is; configure() joins both.
JoinableInv ==
    /\ ctl.starts = 0 => /\ ~ctl.control /\ ~ctl.watch
                         /\ at.client \notin {"spawn control", "spawn watch", "terminated"}
    /\ at.client = "spawn control" /\ (ctl.control \/ ctl.watch) => ctl.starts > 1
    /\ at.client = "terminated" => ctl.starts > 1
    /\ at.client \in {"join control", "adopt"} => ~ctl.watch
    /\ at.client = "adopt" => ~ctl.control
    /\ Busy => ctl.control

\* The control thread works on an active run, a start finds it done, and
\* what it leaves is an idle controller.
RunInv ==
    /\ Busy => Active
    /\ at.client = "spawn control" => Active /\ ~Busy /\ ctl.final = {}
    /\ ctl.final # {} => /\ ctl.state = "Idle"
                         /\ at.control \in {"callback", "callback join", "publish", "ended"}

\* When the callback has joined the metrics thread no tick is under way
\* that could store a live summary behind the final one.
SummaryInv ==
    ctl.final # {} =>
        /\ at.control \in {"publish", "ended"} => live.thread \notin {"read", "store"}
        /\ at.control = "ended" => ~met.summary

ServiceInv == ServiceShape /\ LiveInv /\ JoinableInv /\ RunInv /\ SummaryInv

-----------------------------------------------------------------------------
(* The client: loadProfile(), configure(), session.start and session.stop. *)

\* At first nothing runs and nothing is joinable.
LEMMA ServiceInvInit == ServiceInit => ServiceInv
  BY DEF ServiceInit, ControllerInit, ServiceInv, ServiceShape, LiveInv, LiveOver, JoinableInv, RunInv,
         SummaryInv, Busy, Active

\* A load interrupts the metrics thread.
LEMMA LoadStep == ASSUME ServiceInv, Load PROVE ServiceInv'
  BY DEF ServiceInv, ServiceShape, LiveInv, LiveOver, JoinableInv, RunInv,
         SummaryInv, Busy, Active, Goto, Load, Interrupt

\* It goes on when the thread is over, and no other is created until it is done.
LEMMA LoadJoinedStep == ASSUME ServiceInv, LoadJoined PROVE ServiceInv'
  BY DEF ServiceInv, ServiceShape, LiveInv, LiveOver, JoinableInv, RunInv,
         SummaryInv, Busy, Active, Goto, LoadJoined, Joined

\* A stop leaves an idle controller idle.
LEMMA LoadStopsStep == ASSUME ServiceInv, LoadStops PROVE ServiceInv'
  BY DEF ServiceInv, ServiceShape, LiveInv, LiveOver, JoinableInv, RunInv,
         SummaryInv, Busy, Active, Goto, LoadStops, StopRequested

\* A refused profile goes back, an accepted one to configure().
LEMMA LoadProfileStep == ASSUME ServiceInv, LoadProfile PROVE ServiceInv'
  BY DEF ServiceInv, ServiceShape, LiveInv, LiveOver, JoinableInv, RunInv,
         SummaryInv, Busy, Active, Goto, LoadProfile

\* configure() joins the watch.
LEMMA JoinWatchStep == ASSUME ServiceInv, JoinWatch, UNCHANGED <<met, live>> PROVE ServiceInv'
  BY DEF ServiceInv, ServiceShape, LiveInv, LiveOver, JoinableInv, RunInv,
         SummaryInv, Busy, Active, Goto, JoinWatch

\* It joins the control thread, which is then done.
LEMMA JoinControlStep == ASSUME ServiceInv, JoinControl, UNCHANGED <<met, live>> PROVE ServiceInv'
  BY DEF ServiceInv, ServiceShape, LiveInv, LiveOver, JoinableInv, RunInv,
         SummaryInv, Busy, Active, Goto, JoinControl

\* The new session is adopted when no tick holds the old one.
LEMMA LoadAdoptsStep == ASSUME ServiceInv, LoadAdopts PROVE ServiceInv'
  BY DEF ServiceInv, ServiceShape, LiveInv, LiveOver, JoinableInv, RunInv,
         SummaryInv, Busy, Active, Goto, LoadAdopts, Adopt, Idle

\* A start that is not refused finds the control thread done; it is the first
\* since configure() unless there are threads to join.
LEMMA InvokeStartStep == ASSUME ServiceInv, InvokeStart PROVE ServiceInv'
<1>1. /\ DOMAIN ctl' = DOMAIN ctl /\ DOMAIN at' = DOMAIN at /\ DOMAIN met' = DOMAIN met /\ live' = live
      /\ ctl'.final = {} /\ ctl'.configured = ctl.configured /\ ctl'.state = "Running"
      /\ at'.client = "spawn control" /\ at'.control = at.control
  BY DEF InvokeStart, Start, Goto, ServiceInv, ServiceShape
<1>2. ctl'.control = ctl.control /\ ctl'.watch = ctl.watch
  BY DEF ServiceInv, ServiceShape, InvokeStart, Start
<1>3. ctl.starts \in Nat /\ ctl'.starts = ctl.starts + 1
  BY DEF ServiceInv, ServiceShape, InvokeStart, Start
<1>4. ~Busy' /\ (ctl.starts = 0 => ~ctl.control /\ ~ctl.watch)
  BY <1>1 DEF ServiceInv, JoinableInv, RunInv, Busy, Start, StartRefused, InvokeStart
<1>5. ctl'.starts \in Nat /\ ctl'.starts # 0 /\ (ctl.starts # 0 => ctl'.starts > 1)
  BY <1>3
<1>6. ctl'.control \in BOOLEAN /\ ctl'.watch \in BOOLEAN
  BY <1>2, Zenon DEF ServiceInv, ServiceShape
<1>7. ServiceShape'
  BY <1>1, <1>5, <1>6 DEF ServiceInv, ServiceShape
<1>8. LiveInv'
  BY <1>1 DEF ServiceInv, LiveInv, LiveOver
<1>9. JoinableInv'
  BY <1>1, <1>2, <1>4, <1>5, Zenon DEF JoinableInv
<1>10. RunInv' /\ SummaryInv'
  BY <1>1, <1>4 DEF Active, RunInv, SummaryInv
<1> QED
  BY <1>7, <1>8, <1>9, <1>10 DEF ServiceInv

\* The control thread is created, unless the one before was never joined.
LEMMA SpawnControlStep == ASSUME ServiceInv, SpawnControl, UNCHANGED <<met, live>> PROVE ServiceInv'
<1>1. at.client = "spawn control" /\ ctl.starts # 0 /\ ctl.final = {}
  BY DEF SpawnControl, ServiceInv, JoinableInv, RunInv
<1>2. CASE ctl.control
  <2>1. ctl' = ctl /\ at' = [at EXCEPT !.client = "terminated"]
    BY <1>2 DEF SpawnControl, Goto
  <2> QED
    BY <1>1, <1>2, <2>1 DEF ServiceInv, ServiceShape, LiveInv, LiveOver, JoinableInv, RunInv, SummaryInv, Busy, Active
<1>3. CASE ~ctl.control
  <2>1. /\ ctl' = [ctl EXCEPT !.control = TRUE]
        /\ at' = [at EXCEPT !.client = "spawn watch", !.control = "take"]
    BY <1>3 DEF SpawnControl
  <2>2. /\ ctl'.control = TRUE /\ ctl'.watch = ctl.watch /\ ctl'.starts = ctl.starts
        /\ at'.client = "spawn watch" /\ ctl'.final = {} /\ ctl'.state = ctl.state
        /\ ctl'.configured = ctl.configured
    BY <1>1, <2>1 DEF ServiceInv, ServiceShape
  <2>3. ServiceShape'
    BY <2>1 DEF ServiceInv, ServiceShape
  <2>4. LiveInv' /\ SummaryInv'
    BY <2>2 DEF ServiceInv, LiveInv, LiveOver, SummaryInv
  <2>5. JoinableInv'
    BY <1>1, <2>2 DEF JoinableInv
  <2>6. Active
    BY DEF SpawnControl, ServiceInv, RunInv
  <2>7. RunInv'
    BY <2>2, <2>6 DEF RunInv, Active
  <2> QED
    BY <2>3, <2>4, <2>5, <2>7 DEF ServiceInv
<1> QED
  BY <1>2, <1>3

\* The watch is created behind the control thread.
LEMMA SpawnWatchStep == ASSUME ServiceInv, SpawnWatch, UNCHANGED <<met, live>> PROVE ServiceInv'
  BY DEF ServiceInv, ServiceShape, LiveInv, LiveOver, JoinableInv, RunInv,
         SummaryInv, Busy, Active, Goto, SpawnWatch

\* session.start replaces the metrics thread.
LEMMA StartInterruptsStep == ASSUME ServiceInv, StartInterrupts PROVE ServiceInv'
  BY DEF ServiceInv, ServiceShape, LiveInv, LiveOver, JoinableInv, RunInv,
         SummaryInv, Busy, Active, Goto, StartInterrupts, Interrupt

\* The new one is at its first test.
LEMMA StartMetricsStep == ASSUME ServiceInv, StartMetrics PROVE ServiceInv'
  BY DEF ServiceInv, ServiceShape, LiveInv, LiveOver, JoinableInv, RunInv,
         SummaryInv, Busy, Active, Goto, StartMetrics, Joined

\* session.stop interrupts it.
LEMMA InvokeStopStep == ASSUME ServiceInv, InvokeStop PROVE ServiceInv'
  BY DEF ServiceInv, ServiceShape, LiveInv, LiveOver, JoinableInv, RunInv,
         SummaryInv, Busy, Active, Goto, InvokeStop, Interrupt

\* It requests the stop when the thread is over.
LEMMA StopRequestsStep == ASSUME ServiceInv, StopRequests PROVE ServiceInv'
  BY DEF ServiceInv, ServiceShape, LiveInv, LiveOver, JoinableInv, RunInv,
         SummaryInv, Busy, Active, Goto, StopRequests, StopRequested, Joined
-----------------------------------------------------------------------------
(* The control thread and its callback, the watch and the metrics thread.  *)

\* What a step of the control thread does to the metrics: it may report.
ReportMay == /\ live' = live
             /\ DOMAIN met' = DOMAIN met /\ met'.summary = met.summary

\* The control thread tells the metrics of its run's end, and nothing else.
LEMMA ReportOnly == ASSUME ServiceInv, ControlStep PROVE ReportMay
  BY DEF ControlStep, ReportMay, ServiceInv, ServiceShape

\* It takes the session from an active controller.
LEMMA ControlTakeStep == ASSUME ServiceInv, ControlTake, ReportMay PROVE ServiceInv'
  BY DEF ServiceInv, ServiceShape, LiveInv, LiveOver, JoinableInv, RunInv,
         SummaryInv, Busy, Active, Goto, ReportMay, ControlTake

\* Starting the sources, waiting for them and telling them to stop concerns
\* nobody else.
LEMMA ControlSourcesStep ==
  ASSUME ServiceInv, ReportMay, ControlStartSource \/ ControlStarted \/ ControlStop \/ ControlWait
  PROVE  ServiceInv'
<1>1. /\ ctl' = ctl /\ live' = live /\ met'.summary = met.summary /\ DOMAIN met' = DOMAIN met
      /\ at' = at \/ \E place \in {"loop", "wait", "collect"} : at' = [at EXCEPT !.control = place]
      /\ Busy
  BY DEF ReportMay, ControlStartSource, ControlStarted, ControlStop, ControlWait, Goto, Busy
<1> QED
  BY <1>1 DEF ServiceInv, ServiceShape, LiveInv, LiveOver, JoinableInv, RunInv, SummaryInv, Busy, Active

\* A session that does not start leaves no summary.
LEMMA ControlFailsStep ==
  ASSUME ServiceInv, ReportMay, ControlStartFails \/ ControlGivesUp
  PROVE  ServiceInv'
<1>1. CASE ControlStartFails
  BY <1>1 DEF ServiceInv, ServiceShape, LiveInv, LiveOver, JoinableInv, RunInv,
         SummaryInv, Busy, Active, Goto, ReportMay, ControlStartFails
<1>2. CASE ControlGivesUp
  BY <1>2 DEF ServiceInv, ServiceShape, LiveInv, LiveOver, JoinableInv, RunInv,
         SummaryInv, Busy, Active, Goto, ReportMay, ControlGivesUp
<1> QED
  BY <1>1, <1>2

\* The result is collected before the callback has begun.
LEMMA ControlCollectStep == ASSUME ServiceInv, ControlCollect, ReportMay PROVE ServiceInv'
<1> DEFINE frames == {Received}
<1>1. ctl' = [ctl EXCEPT !.final = frames, !.session = TRUE, !.running = FALSE, !.state = "Idle"]
  BY DEF ControlCollect
<1>2. at.control = "collect" /\ at' = [at EXCEPT !.control = "callback"]
  BY DEF ControlCollect, Goto
<1> HIDE DEF frames
<1>3. ServiceShape'
  BY <1>1, <1>2 DEF ServiceInv, ServiceShape, LiveInv, LiveOver, JoinableInv, RunInv, SummaryInv, Busy, Active, ReportMay
<1>4. LiveInv'
  BY <1>1, <1>2 DEF ServiceInv, ServiceShape, LiveInv, LiveOver, JoinableInv, RunInv, SummaryInv, Busy, Active, ReportMay
<1>5. JoinableInv'
  BY <1>1, <1>2 DEF ServiceInv, ServiceShape, LiveInv, LiveOver, JoinableInv, RunInv, SummaryInv, Busy, Active, ReportMay
<1>6. RunInv'
  BY <1>1, <1>2 DEF ServiceInv, ServiceShape, LiveInv, LiveOver, JoinableInv, RunInv, SummaryInv, Busy, Active, ReportMay
<1>7. SummaryInv'
  BY <1>1, <1>2 DEF ServiceInv, ServiceShape, LiveInv, LiveOver, JoinableInv, RunInv, SummaryInv, Busy, Active, ReportMay
<1> QED
  BY <1>3, <1>4, <1>5, <1>6, <1>7 DEF ServiceInv

\* The control thread's steps together.
LEMMA ControlInvStep == ASSUME ServiceInv, ControlStep PROVE ServiceInv'
<1>1. Control /\ ReportMay
  BY ReportOnly DEF ControlStep
<1> QED
  BY <1>1, ControlTakeStep, ControlSourcesStep, ControlFailsStep, ControlCollectStep DEF Control

\* The callback interrupts the metrics thread.
LEMMA CallbackInterruptsStep == ASSUME ServiceInv, CallbackInterrupts PROVE ServiceInv'
  BY DEF ServiceInv, ServiceShape, LiveInv, LiveOver, JoinableInv, RunInv,
         SummaryInv, Busy, Active, Goto, CallbackInterrupts, Interrupt

\* When it is joined no tick is under way, and only an active run starts one.
LEMMA CallbackJoinedStep == ASSUME ServiceInv, CallbackJoined PROVE ServiceInv'
  BY DEF ServiceInv, ServiceShape, LiveInv, LiveOver, JoinableInv, RunInv,
         SummaryInv, Busy, Active, Goto, CallbackJoined, Joined

\* The final summary replaces the live one.
LEMMA CallbackPublishesStep == ASSUME ServiceInv, CallbackPublishes PROVE ServiceInv'
  BY DEF ServiceInv, ServiceShape, LiveInv, LiveOver, JoinableInv, RunInv,
         SummaryInv, Busy, Active, Goto, CallbackPublishes

\* A tick begins only while a run is active.
LEMMA LiveStep == ASSUME ServiceInv, Live PROVE ServiceInv'
<1>1. UNCHANGED <<ctl, ses, at>>
  BY DEF Live
<1>2. CASE LiveTest \/ LiveRead \/ LivePerformance
  <2>1. met' = met /\ live.thread \notin {"none", "ended"}
    BY <1>2 DEF LiveTest, LiveRead, LivePerformance
  <2>2. \E place \in {"counters", "ended", "store", "store performance", "test"} :
           live' = [live EXCEPT !.thread = place] /\ (place = "store" => live.thread = "read")
    BY <1>2 DEF LiveTest, LiveRead, LivePerformance, LiveGoto
  <2> QED
    BY <1>1, <2>1, <2>2 DEF ServiceInv, ServiceShape, LiveInv, LiveOver, JoinableInv, RunInv, SummaryInv, Busy, Active
<1>3. CASE LiveCounters
  BY <1>1, <1>3 DEF LiveCounters, ServiceInv, ServiceShape, LiveInv, LiveOver, JoinableInv, RunInv, SummaryInv,
                    Busy, Active
<1>4. CASE LiveStore \/ LiveStorePerformance
  BY <1>1, <1>4 DEF LiveStore, LiveStorePerformance, LiveGoto, ServiceInv, ServiceShape, LiveInv, LiveOver,
                    JoinableInv, RunInv, SummaryInv, Busy, Active
<1> QED
  BY <1>2, <1>3, <1>4 DEF Live

\* The watch looks at the state and at the sources.
LEMMA WatchTestStep == ASSUME ServiceInv, WatchCheck \/ WatchPoll, UNCHANGED <<met, live>> PROVE ServiceInv'
<1>1. /\ UNCHANGED <<ctl, met, live>> /\ DOMAIN at' = DOMAIN at
      /\ at'.client = at.client /\ at'.control = at.control
  BY DEF WatchCheck, WatchPoll, Goto, ServiceInv, ServiceShape
<1> QED
  BY <1>1 DEF ServiceInv, ServiceShape, LiveInv, LiveOver, JoinableInv, RunInv, SummaryInv, Busy, Active

\* It stops an active run only.
LEMMA WatchStopStep == ASSUME ServiceInv, WatchStop, UNCHANGED <<met, live>> PROVE ServiceInv'
  BY DEF ServiceInv, ServiceShape, LiveInv, LiveOver, JoinableInv, RunInv,
         SummaryInv, Busy, Active, Goto, WatchStop, StopRequested

\* A source's frames and its end concern the session alone.
LEMMA FeedStep == ASSUME ServiceInv, NEW i \in Sources, Feed(i), UNCHANGED <<met, live>> PROVE ServiceInv'
  BY DEF ServiceInv, ServiceShape, LiveInv, LiveOver, JoinableInv, RunInv,
         SummaryInv, Busy, Active, Goto, Feed, SourceDelivers, SourceEnds

-----------------------------------------------------------------------------

\* Every step of the service keeps the invariant.
LEMMA ServiceInvStep == ASSUME ServiceInv, [ServiceNext]_ServiceVars PROVE ServiceInv'
<1>1. CASE UNCHANGED ServiceVars
  BY <1>1 DEF ServiceVars, ServiceInv, ServiceShape, LiveInv, LiveOver, JoinableInv, RunInv, SummaryInv, Busy, Active
<1>2. CASE Load \/ InvokeStart \/ InvokeStop
  BY <1>2, LoadStep, InvokeStartStep, InvokeStopStep
<1>3. CASE LoadJoined \/ LoadStops \/ LoadProfile \/ LoadAdopts \/ LoadConfigures
  BY <1>3, LoadJoinedStep, LoadStopsStep, LoadProfileStep, LoadAdoptsStep, JoinWatchStep, JoinControlStep
     DEF LoadConfigures
<1>4. CASE StartSpawns \/ StartInterrupts \/ StartMetrics \/ StopRequests
  BY <1>4, SpawnControlStep, SpawnWatchStep, StartInterruptsStep, StartMetricsStep, StopRequestsStep
     DEF StartSpawns
<1>5. CASE ControlStep \/ Callback \/ Live
  BY <1>5, ControlInvStep, CallbackInterruptsStep, CallbackJoinedStep, CallbackPublishesStep, LiveStep
     DEF Callback
<1>6. CASE Others
  BY <1>6, WatchTestStep, WatchStopStep, FeedStep DEF Others, Watch
<1> QED
  BY <1>1, <1>2, <1>3, <1>4, <1>5, <1>6 DEF ServiceNext, Client

\* The invariant holds in every state of the service.
THEOREM ServiceInvHolds == ServiceSpec => []ServiceInv
<1>1. ServiceInit => ServiceInv
  BY ServiceInvInit
<1>2. ServiceInv /\ [ServiceNext]_ServiceVars => ServiceInv'
  BY ServiceInvStep
<1> QED
  BY <1>1, <1>2, PTL DEF ServiceSpec

\* configure() leaves nothing of the run before it: what liveCounters() reads
\* outside the lock is the session that is configured, and only a start that
\* was not preceded by configure() meets a thread to be joined.  For any
\* sources, frames, loads and starts.
THEOREM NothingOutlivesConfigureHolds == ServiceSpec => []NothingOutlivesConfigure
<1>1. ServiceInv => NothingOutlivesConfigure
  BY DEF ServiceInv, LiveInv, JoinableInv, NothingOutlivesConfigure
<1> QED
  BY <1>1, ServiceInvHolds, PTL

\* Once a run has been reported no live summary is served in place of its
\* final one, whenever the metrics thread was created, interrupted or joined.
THEOREM FinalSummaryWinsHolds == ServiceSpec => []FinalSummaryWins
<1>1. ServiceInv => FinalSummaryWins
  BY DEF ServiceInv, SummaryInv, FinalSummaryWins, Reported
<1> QED
  BY <1>1, ServiceInvHolds, PTL

-----------------------------------------------------------------------------
(* EndpointRegistry: which streams have a dispatch due.                    *)

\* A slot keeps one frame at most, the newest.
Kept == {{}} \cup {{f} : f \in Nat}

Slot == [kind : Kinds, level : Levels \cup {"Operator"}, version : Nat, payload : Nat,
         subscribers : SUBSET Nat, pending : Kept, scheduled : BOOLEAN, dropped : Nat]

FrameTask == [kind : {"Stream"}, name : Names \cup {""}, generation : Nat]
StateTask == [kind : {"State"}, to : SUBSET Nat, version : Nat]
Task == FrameTask \cup StateTask

SlotMaps == UNION {[names -> Slot] : names \in SUBSET Names}

RegTypeOK ==
    reg \in [slots : SlotMaps, generation : Nat, token : Nat, value : Nat, offered : Nat, calls : Nat]

DispatcherTypeOK ==
    dispatcher \in [tasks : Seq(Task), stopping : BOOLEAN, ended : BOOLEAN, calling : SUBSET Nat]

Publication == [place : {"idle", "ask", "store", "post"}, name : Names \cup {""},
                payload : Nat, version : Nat, to : SUBSET Nat]
PublishingTypeOK ==
    publishing \in [source : [place : {"idle", "post"}, name : Names \cup {""}, generation : Nat],
                    state : [Publishers -> Publication]]

RegistryTypeOK == RegTypeOK /\ DispatcherTypeOK /\ PublishingTypeOK

\* The property is inductive once the types are known.
RegistryInv == RegistryTypeOK /\ NoStrandedFrame
-----------------------------------------------------------------------------
(* Types.                                                                  *)

\* A new endpoint's slot.
LEMMA FreshSlot == ASSUME NEW n \in Names PROVE Fresh(n) \in Slot
  BY KindAssumption DEF Fresh, Slot, Kept

\* What a map of slots is.
LEMMA SlotMap ==
  ASSUME NEW slots
  PROVE  slots \in SlotMaps <=> DOMAIN slots \subseteq Names /\ slots \in [DOMAIN slots -> Slot]
  BY DEF SlotMaps

\* One slot of the registry is changed.
LEMMA ChangeSlot ==
  ASSUME NEW slots \in SlotMaps, NEW n \in DOMAIN slots, NEW slot \in Slot
  PROVE  [slots EXCEPT ![n] = slot] \in SlotMaps
<1>1. slots \in [DOMAIN slots -> Slot]
  BY SlotMap
<1>2. [slots EXCEPT ![n] = slot] \in [DOMAIN slots -> Slot]
  BY <1>1
<1> QED
  BY <1>2, SlotMap

\* Everything is idle at the start.
LEMMA RegistryTypeInit == ASSUME RegistryInit PROVE RegistryTypeOK
<1>1. [n \in Registered |-> Fresh(n)] \in SlotMaps
  <2>1. [n \in Registered |-> Fresh(n)] \in [Registered -> Slot]
    BY FreshSlot, RegisteredAssumption
  <2> QED
    BY <2>1, RegisteredAssumption DEF SlotMaps
<1>2. RegTypeOK
  BY <1>1 DEF RegistryInit, RegTypeOK
<1>3. DispatcherTypeOK
  <2>1. << >> \in Seq(Task)
    OBVIOUS
  <2> QED
    BY <2>1 DEF RegistryInit, DispatcherTypeOK
<1>4. PublishingTypeOK
  BY DEF RegistryInit, PublishingTypeOK, Publication
<1> QED
  BY <1>2, <1>3, <1>4 DEF RegistryTypeOK
-----------------------------------------------------------------------------
(* What a step may do to the streams.                                      *)

\* A stream is new, or as idle as a new one.
AtRest(slot) == slot.pending = {} /\ ~slot.scheduled

\* A step that leaves the streams' queues alone, or empties them, strands no
\* frame unless it loses the dispatch that is due.
LEMMA StreamsStay ==
  ASSUME NoStrandedFrame,
         \A n \in OfKind("Stream")' :
            \/ AtRest(reg.slots[n])'
            \/ /\ n \in OfKind("Stream")
               /\ reg'.slots[n].pending \in {reg.slots[n].pending, {}}
               /\ reg'.slots[n].scheduled = reg.slots[n].scheduled
               /\ Due(n) => Due(n)' \/ dispatcher'.stopping,
         dispatcher.stopping => dispatcher'.stopping
  PROVE  NoStrandedFrame'
  BY DEF NoStrandedFrame, AtRest

\* A dispatch that is due stays so while nothing is taken from the queue.
LEMMA DueStays ==
  ASSUME NEW n, UNCHANGED <<dispatcher.tasks, publishing.source>>, reg'.generation = reg.generation, Due(n)
  PROVE  Due(n)'
  BY DEF Due

\* The types of a slot and of the registry's fields.
LEMMA SlotTypes ==
  ASSUME RegTypeOK
  PROVE  /\ DOMAIN reg.slots \subseteq Names
         /\ reg.slots \in [DOMAIN reg.slots -> Slot]
         /\ \A n \in DOMAIN reg.slots : reg.slots[n] \in Slot
         /\ {reg.generation, reg.token, reg.value, reg.offered, reg.calls} \subseteq Nat
<1>1. reg.slots \in SlotMaps
  BY DEF RegTypeOK
<1> QED
  BY <1>1, SlotMap DEF RegTypeOK
-----------------------------------------------------------------------------
(* Client calls.                                                           *)

\* A call that replaces the slots.
LEMMA CallReplaces ==
  ASSUME RegistryTypeOK, NEW slots \in SlotMaps, Call(slots)
  PROVE  /\ RegistryTypeOK'
         /\ reg'.slots = slots /\ reg'.generation = reg.generation
         /\ UNCHANGED <<dispatcher, publishing>>
<1>1. reg' = [reg EXCEPT !.slots = slots, !.calls = @ + 1] /\ UNCHANGED <<dispatcher, publishing>>
  BY DEF Call
<1>2. RegTypeOK'
  <2>1. reg.calls + 1 \in Nat
    BY DEF RegistryTypeOK, RegTypeOK
  <2> QED
    BY <1>1, <2>1 DEF RegistryTypeOK, RegTypeOK
<1>3. reg'.slots = slots /\ reg'.generation = reg.generation
  BY <1>1 DEF RegistryTypeOK, RegTypeOK
<1> QED
  BY <1>1, <1>2, <1>3 DEF RegistryTypeOK, DispatcherTypeOK, PublishingTypeOK

\* A call whose streams are new or keep their frames.
LEMMA CallKeeps ==
  ASSUME RegistryInv, NEW slots \in SlotMaps, Call(slots),
         \A n \in DOMAIN slots :
            \/ AtRest(slots[n])
            \/ /\ n \in DOMAIN reg.slots /\ slots[n].kind = reg.slots[n].kind
               /\ slots[n].pending = reg.slots[n].pending
               /\ slots[n].scheduled = reg.slots[n].scheduled
  PROVE  RegistryInv'
<1>1. /\ RegistryTypeOK' /\ reg'.slots = slots /\ reg'.generation = reg.generation
      /\ UNCHANGED <<dispatcher, publishing>>
  BY CallReplaces DEF RegistryInv
<1>2. \A n : Due(n) => Due(n)'
  BY <1>1, DueStays
<1>3. NoStrandedFrame'
  BY <1>1, <1>2, StreamsStay DEF RegistryInv, OfKind, AtRest
<1> QED
  BY <1>1, <1>3 DEF RegistryInv

\* register...()
LEMMA RegisterStep == ASSUME RegistryInv, NEW n \in Names, Register(n) PROVE RegistryInv'
<1> DEFINE slots == [m \in DOMAIN reg.slots \cup {n} |-> IF m = n THEN Fresh(n) ELSE reg.slots[m]]
<1>1. reg.slots \in [DOMAIN reg.slots -> Slot] /\ DOMAIN reg.slots \subseteq Names
  BY SlotTypes DEF RegistryInv, RegistryTypeOK
<1>2. slots \in [DOMAIN reg.slots \cup {n} -> Slot]
  BY <1>1, FreshSlot
<1>3. slots \in SlotMaps
  BY <1>1, <1>2, SlotMap
<1>4. AtRest(Fresh(n))
  BY DEF AtRest, Fresh
<1>5. Call(slots)
  BY DEF Register
<1>6. \A m \in DOMAIN slots : AtRest(slots[m]) \/ (m \in DOMAIN reg.slots /\ slots[m] = reg.slots[m])
  BY <1>4
<1> HIDE DEF slots
<1> QED
  BY <1>3, <1>5, <1>6, CallKeeps

\* remove()
LEMMA RemoveStep == ASSUME RegistryInv, NEW n, RemoveEndpoint(n) PROVE RegistryInv'
<1> DEFINE slots == Restrict(reg.slots, DOMAIN reg.slots \ {n})
<1>1. reg.slots \in [DOMAIN reg.slots -> Slot] /\ DOMAIN reg.slots \subseteq Names
  BY SlotTypes DEF RegistryInv, RegistryTypeOK
<1>2. slots \in [DOMAIN reg.slots \ {n} -> Slot]
  BY <1>1 DEF Restrict
<1>3. slots \in SlotMaps
  BY <1>1, <1>2, SlotMap
<1>4. \A m \in DOMAIN slots : m \in DOMAIN reg.slots /\ slots[m] = reg.slots[m]
  BY DEF Restrict
<1>5. Call(slots)
  BY DEF RemoveEndpoint
<1> HIDE DEF slots
<1> QED
  BY <1>3, <1>4, <1>5, CallKeeps

\* setAccessLevel()
LEMMA LevelStep == ASSUME RegistryInv, NEW n, NEW level \in Levels, SetAccessLevel(n, level) PROVE RegistryInv'
<1> DEFINE slots == [reg.slots EXCEPT ![n].level = level]
<1>1. reg.slots \in [DOMAIN reg.slots -> Slot] /\ DOMAIN reg.slots \subseteq Names
      /\ n \in DOMAIN reg.slots /\ reg.slots[n] \in Slot
  BY SlotTypes DEF RegistryInv, RegistryTypeOK, SetAccessLevel, ContainsEndpoint
<1>2. [reg.slots[n] EXCEPT !.level = level] \in Slot
  BY <1>1 DEF Slot
<1>3. slots \in [DOMAIN reg.slots -> Slot]
  BY <1>1, <1>2
<1>4. slots \in SlotMaps
  BY <1>1, <1>3, SlotMap
<1>5. /\ DOMAIN slots = DOMAIN reg.slots
      /\ \A m \in DOMAIN slots : /\ slots[m].kind = reg.slots[m].kind
                                 /\ slots[m].pending = reg.slots[m].pending
                                 /\ slots[m].scheduled = reg.slots[m].scheduled
  <2>1. \A m \in DOMAIN reg.slots : slots[m] = IF m = n THEN [reg.slots[n] EXCEPT !.level = level] ELSE reg.slots[m]
    BY <1>1
  <2> QED
    BY <1>1, <2>1 DEF Slot
<1>6. Call(slots)
  BY DEF SetAccessLevel
<1> HIDE DEF slots
<1> QED
  BY <1>4, <1>5, <1>6, CallKeeps

\* unsubscribe()
LEMMA UnsubscribeStep == ASSUME RegistryInv, NEW token, Unsubscribe(token) PROVE RegistryInv'
<1> DEFINE slots == [n \in DOMAIN reg.slots |-> [reg.slots[n] EXCEPT !.subscribers = @ \ {token}]]
<1>1. /\ reg.slots \in [DOMAIN reg.slots -> Slot] /\ DOMAIN reg.slots \subseteq Names
      /\ \A n \in DOMAIN reg.slots : reg.slots[n] \in Slot
  BY SlotTypes DEF RegistryInv, RegistryTypeOK
<1>2. ASSUME NEW n \in DOMAIN reg.slots
      PROVE  /\ slots[n] \in Slot
             /\ slots[n].kind = reg.slots[n].kind
             /\ slots[n].pending = reg.slots[n].pending
             /\ slots[n].scheduled = reg.slots[n].scheduled
  <2>1. reg.slots[n] \in Slot /\ reg.slots[n].subscribers \ {token} \in SUBSET Nat
    BY <1>1 DEF Slot
  <2>2. slots[n] = [reg.slots[n] EXCEPT !.subscribers = reg.slots[n].subscribers \ {token}]
    OBVIOUS
  <2> HIDE DEF slots
  <2> QED
    BY <2>1, <2>2 DEF Slot
<1>3. DOMAIN slots = DOMAIN reg.slots /\ slots \in [DOMAIN reg.slots -> Slot]
  BY <1>2
<1>4. Call(slots)
  BY DEF Unsubscribe
<1> HIDE DEF slots
<1>5. slots \in SlotMaps
  BY <1>1, <1>3, SlotMap
<1> QED
  BY <1>2, <1>3, <1>4, <1>5, CallKeeps

\* A step that changes one slot, and numbers.
LEMMA OneSlot ==
  ASSUME RegTypeOK, NEW n \in DOMAIN reg.slots, NEW slot \in Slot, slot.kind = reg.slots[n].kind,
         reg' \in [slots : {[reg.slots EXCEPT ![n] = slot]}, generation : {reg.generation},
                   token : Nat, value : Nat, offered : Nat, calls : Nat]
  PROVE  /\ RegTypeOK' /\ reg'.generation = reg.generation
         /\ DOMAIN reg'.slots = DOMAIN reg.slots
         /\ reg'.slots[n] = slot
         /\ \A m \in DOMAIN reg.slots : m # n => reg'.slots[m] = reg.slots[m]
         /\ \A kind : OfKind(kind)' = OfKind(kind)
<1>1. reg.slots \in SlotMaps /\ reg.generation \in Nat
  BY DEF RegTypeOK
<1>2. [reg.slots EXCEPT ![n] = slot] \in SlotMaps
  BY <1>1, ChangeSlot
<1>3. reg'.slots = [reg.slots EXCEPT ![n] = slot] /\ reg'.generation = reg.generation
  OBVIOUS
<1>4. RegTypeOK'
  BY <1>1, <1>2 DEF RegTypeOK
<1>5. /\ DOMAIN reg'.slots = DOMAIN reg.slots
      /\ reg'.slots[n] = slot
      /\ \A m \in DOMAIN reg.slots : m # n => reg'.slots[m] = reg.slots[m]
  BY <1>3
<1>6. \A kind : OfKind(kind)' = OfKind(kind)
  BY <1>5 DEF OfKind
<1> QED
  BY <1>3, <1>4, <1>5, <1>6

\* A step that changes a slot, but not what its stream waits for.
LEMMA OneSlotKeeps ==
  ASSUME RegistryInv, NEW n \in DOMAIN reg.slots, NEW slot \in Slot, slot.kind = reg.slots[n].kind,
         slot.pending \in {reg.slots[n].pending, {}}, slot.scheduled = reg.slots[n].scheduled,
         reg' \in [slots : {[reg.slots EXCEPT ![n] = slot]}, generation : {reg.generation},
                   token : Nat, value : Nat, offered : Nat, calls : Nat],
         UNCHANGED <<dispatcher, publishing.source>>, PublishingTypeOK'
  PROVE  RegistryInv'
<1>1. /\ RegTypeOK' /\ reg'.generation = reg.generation
      /\ DOMAIN reg'.slots = DOMAIN reg.slots
      /\ reg'.slots[n] = slot
      /\ \A m \in DOMAIN reg.slots : m # n => reg'.slots[m] = reg.slots[m]
      /\ \A kind : OfKind(kind)' = OfKind(kind)
  BY OneSlot DEF RegistryInv, RegistryTypeOK
<1>2. \A m : Due(m) => Due(m)'
  BY <1>1, DueStays
<1>3. \A m \in OfKind("Stream")' :
         /\ m \in OfKind("Stream")
         /\ reg'.slots[m].pending \in {reg.slots[m].pending, {}}
         /\ reg'.slots[m].scheduled = reg.slots[m].scheduled
  BY <1>1 DEF OfKind
<1>4. NoStrandedFrame'
  BY <1>2, <1>3, StreamsStay DEF RegistryInv
<1> QED
  BY <1>1, <1>4 DEF RegistryInv, RegistryTypeOK, DispatcherTypeOK

\* subscribe...()
LEMMA SubscribeStep == ASSUME RegistryInv, NEW n, Subscribe(n) PROVE RegistryInv'
<1> DEFINE slot == [reg.slots[n] EXCEPT !.subscribers = @ \cup {reg.token}]
<1>1. /\ n \in DOMAIN reg.slots /\ reg.slots[n] \in Slot
      /\ reg.token + 1 \in Nat /\ reg.calls + 1 \in Nat /\ reg.token \in Nat
  <2>1. n \in DOMAIN reg.slots
    BY DEF Subscribe, OfKind
  <2>2. reg.token \in Nat /\ reg.calls \in Nat /\ reg.slots[n] \in Slot
    BY <2>1, SlotTypes DEF RegistryInv, RegistryTypeOK
  <2> QED
    BY <2>1, <2>2
<1>2. /\ slot \in Slot /\ slot.kind = reg.slots[n].kind /\ slot.pending = reg.slots[n].pending
      /\ slot.scheduled = reg.slots[n].scheduled
  BY <1>1 DEF Slot
<1>3. reg' = [reg EXCEPT !.slots = [reg.slots EXCEPT ![n] = slot], !.token = reg.token + 1, !.calls = reg.calls + 1]
  BY DEF Subscribe
<1> HIDE DEF slot
<1>4. reg' \in [slots : {[reg.slots EXCEPT ![n] = slot]}, generation : {reg.generation},
                token : Nat, value : Nat, offered : Nat, calls : Nat]
  BY <1>1, <1>3 DEF RegistryInv, RegistryTypeOK, RegTypeOK
<1>5. UNCHANGED <<dispatcher, publishing>>
  BY DEF Subscribe
<1> QED
  BY <1>1, <1>2, <1>4, <1>5, OneSlotKeeps DEF RegistryInv, RegistryTypeOK, PublishingTypeOK

\* clear()
LEMMA ClearStep == ASSUME RegistryInv, Clear PROVE RegistryInv'
<1>1. reg.generation + 1 \in Nat /\ reg.calls + 1 \in Nat
  BY DEF RegistryInv, RegistryTypeOK, RegTypeOK
<1>2. << >> \in SlotMaps /\ DOMAIN << >> = {}
  <2>1. DOMAIN << >> = {} /\ << >> \in [{} -> Slot]
    OBVIOUS
  <2> QED
    BY <2>1, SlotMap
<1>3. RegTypeOK' /\ reg'.slots = << >>
  BY <1>1, <1>2 DEF Clear, RegistryInv, RegistryTypeOK, RegTypeOK
<1>4. OfKind("Stream")' = {}
  BY <1>2, <1>3 DEF OfKind
<1> QED
  BY <1>3, <1>4 DEF Clear, RegistryInv, RegistryTypeOK, DispatcherTypeOK, PublishingTypeOK, NoStrandedFrame

\* shutdown()
LEMMA ShutdownStep == ASSUME RegistryInv, Shutdown PROVE RegistryInv'
<1>1. DispatcherTypeOK' /\ dispatcher'.stopping
  BY DEF Shutdown, RegistryInv, RegistryTypeOK, DispatcherTypeOK
<1>2. UNCHANGED <<reg, publishing>>
  BY DEF Shutdown
<1>3. RegTypeOK' /\ PublishingTypeOK'
  BY <1>2 DEF RegistryInv, RegistryTypeOK, RegTypeOK, PublishingTypeOK
<1> QED
  BY <1>1, <1>2, <1>3 DEF RegistryInv, RegistryTypeOK, NoStrandedFrame, OfKind
-----------------------------------------------------------------------------
(* The dispatcher.                                                         *)

\* What the first task of the queue is, and what is behind it.
LEMMA FirstTask ==
  ASSUME DispatcherTypeOK, dispatcher.tasks # << >>
  PROVE  /\ Head(dispatcher.tasks) \in Task /\ Tail(dispatcher.tasks) \in Seq(Task)
         /\ \A i \in DOMAIN dispatcher.tasks :
               \/ dispatcher.tasks[i] = Head(dispatcher.tasks)
               \/ /\ i - 1 \in DOMAIN Tail(dispatcher.tasks)
                  /\ Tail(dispatcher.tasks)[i - 1] = dispatcher.tasks[i]
<1> DEFINE tasks == dispatcher.tasks
<1>1. tasks \in Seq(Task) /\ tasks # << >>
  BY DEF DispatcherTypeOK
<1> HIDE DEF tasks
<1>2. /\ Len(tasks) \in Nat /\ Len(tasks) # 0 /\ DOMAIN tasks = 1 .. Len(tasks)
      /\ Head(tasks) = tasks[1] /\ Tail(tasks) \in Seq(Task)
      /\ Len(Tail(tasks)) = Len(tasks) - 1
      /\ \A i \in 1 .. Len(Tail(tasks)) : Tail(tasks)[i] = tasks[i + 1]
  BY <1>1, HeadTailProperties, LenProperties, EmptySeq
<1>3. DOMAIN Tail(tasks) = 1 .. Len(tasks) - 1
  BY <1>2, LenProperties
<1>4. Head(tasks) \in Task
  BY <1>1, <1>2, ElementOfSeq
<1>5. ASSUME NEW i \in DOMAIN tasks, i # 1
      PROVE  i - 1 \in DOMAIN Tail(tasks) /\ Tail(tasks)[i - 1] = tasks[i]
  BY <1>2, <1>3, <1>5
<1> QED
  BY <1>2, <1>4, <1>5 DEF tasks

\* Taking a task that no stream waits for leaves the others their dispatch.
LEMMA TakeOther ==
  ASSUME DispatcherTypeOK, dispatcher.tasks # << >>, dispatcher'.tasks = Tail(dispatcher.tasks),
         reg'.generation = reg.generation, UNCHANGED publishing.source, NEW n,
         LET task == Head(dispatcher.tasks)
         IN  task.kind # "Stream" \/ task.name # n \/ task.generation # reg.generation,
         Due(n)
  PROVE  Due(n)'
<1>1. CASE publishing.source.place = "post" /\ publishing.source.name = n /\ publishing.source.generation = reg.generation
  BY <1>1 DEF Due
<1>2. ASSUME NEW i \in DOMAIN dispatcher.tasks, dispatcher.tasks[i].kind = "Stream",
             dispatcher.tasks[i].name = n, dispatcher.tasks[i].generation = reg.generation
      PROVE  Due(n)'
  <2>1. i - 1 \in DOMAIN Tail(dispatcher.tasks) /\ Tail(dispatcher.tasks)[i - 1] = dispatcher.tasks[i]
    BY <1>2, FirstTask
  <2> QED
    BY <1>2, <2>1 DEF Due
<1> QED
  BY <1>1, <1>2 DEF Due

\* The callbacks, and the end of the thread.
LEMMA CallbackStep == ASSUME RegistryInv, CallbackReturns \/ DispatcherEnds PROVE RegistryInv'
<1>1. UNCHANGED <<reg, publishing>>
  BY DEF CallbackReturns, DispatcherEnds
<1>2. DispatcherTypeOK' /\ dispatcher'.tasks = dispatcher.tasks /\ dispatcher'.stopping = dispatcher.stopping
  <2>1. CASE CallbackReturns
    <3>1. PICK t : dispatcher' = [dispatcher EXCEPT !.calling = @ \ {t}]
      BY <2>1 DEF CallbackReturns
    <3> QED
      BY <3>1 DEF RegistryInv, RegistryTypeOK, DispatcherTypeOK
  <2>2. CASE DispatcherEnds
    BY <2>2 DEF DispatcherEnds, RegistryInv, RegistryTypeOK, DispatcherTypeOK
  <2> QED
    BY <2>1, <2>2
<1>3. RegTypeOK' /\ PublishingTypeOK'
  BY <1>1 DEF RegistryInv, RegistryTypeOK, RegTypeOK, PublishingTypeOK
<1>4. NoStrandedFrame'
  BY <1>1, <1>2 DEF RegistryInv, NoStrandedFrame, OfKind, Due
<1> QED
  BY <1>2, <1>3, <1>4 DEF RegistryInv, RegistryTypeOK

\* The dispatcher takes the publication of a state.
LEMMA StateTaskStep == ASSUME RegistryInv, RunStateTask PROVE RegistryInv'
<1>0. DispatcherTypeOK /\ dispatcher.tasks # << >> /\ Head(dispatcher.tasks).kind = "State"
  BY DEF RunStateTask, HeadIs, RegistryInv, RegistryTypeOK
<1>1. /\ UNCHANGED <<reg, publishing>> /\ dispatcher'.tasks = Tail(dispatcher.tasks)
      /\ dispatcher'.stopping = dispatcher.stopping
  BY <1>0 DEF RunStateTask, DispatcherTypeOK
<1>2. Head(dispatcher.tasks) \in StateTask /\ Tail(dispatcher.tasks) \in Seq(Task)
  BY <1>0, FirstTask DEF Task, FrameTask
<1>3. DispatcherTypeOK'
  <2>1. Head(dispatcher.tasks).to \in SUBSET Nat
    BY <1>2 DEF StateTask
  <2> QED
    BY <1>0, <1>2, <2>1 DEF RunStateTask, DispatcherTypeOK
<1>4. RegTypeOK' /\ PublishingTypeOK'
  BY <1>1 DEF RegistryInv, RegistryTypeOK, RegTypeOK, PublishingTypeOK
<1>5. \A n : Due(n) => Due(n)'
  BY <1>0, <1>1, TakeOther
<1>6. NoStrandedFrame'
  BY <1>1, <1>5 DEF RegistryInv, NoStrandedFrame, OfKind
<1> QED
  BY <1>3, <1>4, <1>6 DEF RegistryInv, RegistryTypeOK

\* The dispatcher takes a frame task.  One from before a clear(), or whose
\* stream is gone, is nobody's; any other serves its stream.
LEMMA FrameTaskStep == ASSUME RegistryInv, RunFrameTask PROVE RegistryInv'
<1> DEFINE task == Head(dispatcher.tasks)
           slot == reg.slots[task.name]
           served == [slot EXCEPT !.scheduled = FALSE, !.pending = {}]
<1>0. DispatcherTypeOK /\ dispatcher.tasks # << >> /\ task.kind = "Stream"
  BY DEF RunFrameTask, HeadIs, RegistryInv, RegistryTypeOK
<1>1. /\ publishing' = publishing /\ dispatcher'.tasks = Tail(dispatcher.tasks)
      /\ dispatcher'.stopping = dispatcher.stopping
  BY <1>0 DEF RunFrameTask, DispatcherTypeOK
<1>2. PublishingTypeOK'
  BY <1>1 DEF RegistryInv, RegistryTypeOK, PublishingTypeOK
<1>3. Tail(dispatcher.tasks) \in Seq(Task)
  BY <1>0, FirstTask
<1>4. CASE Obsolete(task)
  <2>1. reg' = reg /\ dispatcher' = [dispatcher EXCEPT !.tasks = Tail(@), !.calling = {}]
    BY <1>4 DEF RunFrameTask
  <2>2. DispatcherTypeOK'
    BY <1>0, <1>3, <2>1 DEF DispatcherTypeOK
  <2>3. \A n \in OfKind("Stream") : task.name # n \/ task.generation # reg.generation
    BY <1>4 DEF Obsolete
  <2> HIDE DEF task
  <2>4. \A n \in OfKind("Stream") : Due(n) => Due(n)'
    BY <1>0, <1>1, <2>1, <2>3, TakeOther DEF task
  <2>5. NoStrandedFrame'
    BY <1>1, <2>1, <2>4 DEF RegistryInv, NoStrandedFrame, OfKind
  <2> QED
    BY <1>2, <2>1, <2>2, <2>5 DEF RegistryInv, RegistryTypeOK, RegTypeOK
<1>5. CASE ~Obsolete(task)
  <2>1. /\ task.name \in OfKind("Stream") /\ task.name \in DOMAIN reg.slots /\ slot \in Slot
        /\ slot.kind = "Stream"
    BY <1>5, SlotTypes DEF Obsolete, OfKind, RegistryInv, RegistryTypeOK
  <2>2. reg' = [reg EXCEPT !.slots = [reg.slots EXCEPT ![task.name] = served]]
    BY <1>5 DEF RunFrameTask
  <2>3. /\ served \in Slot /\ served.kind = slot.kind /\ served.pending = {} /\ ~served.scheduled
    BY <2>1 DEF Slot, Kept
  <2>4. slot.subscribers \in SUBSET Nat
    BY <2>1 DEF Slot
  <2>5. DispatcherTypeOK'
    <3> DEFINE to == IF Obsolete(task) \/ slot.pending = {} THEN {} ELSE slot.subscribers
    <3>1. to \in SUBSET Nat
      BY <2>4
    <3>2. dispatcher' = [dispatcher EXCEPT !.tasks = Tail(dispatcher.tasks), !.calling = to]
      BY DEF RunFrameTask
    <3> HIDE DEF to, task
    <3> QED
      BY <1>0, <1>3, <3>1, <3>2 DEF DispatcherTypeOK
  <2> HIDE DEF served, slot
  <2>6. reg' \in [slots : {[reg.slots EXCEPT ![task.name] = served]}, generation : {reg.generation},
                  token : Nat, value : Nat, offered : Nat, calls : Nat]
    BY <2>2 DEF RegistryInv, RegistryTypeOK, RegTypeOK
  <2>7. /\ RegTypeOK' /\ reg'.generation = reg.generation
        /\ reg'.slots[task.name] = served
        /\ \A m \in DOMAIN reg.slots : m # task.name => reg'.slots[m] = reg.slots[m]
        /\ OfKind("Stream")' = OfKind("Stream")
    BY <2>1, <2>3, <2>6, OneSlot DEF slot, RegistryInv, RegistryTypeOK
  <2> HIDE DEF task
  <2>8. \A n : n # task.name /\ Due(n) => Due(n)'
    BY <1>0, <1>1, <2>7, TakeOther DEF task
  <2>9. NoStrandedFrame'
    <3>1. AtRest(reg'.slots[task.name])
      BY <2>3, <2>7 DEF AtRest
    <3> QED
      BY <1>1, <2>7, <2>8, <3>1, StreamsStay DEF RegistryInv, OfKind, AtRest
  <2> QED
    BY <1>2, <2>5, <2>7, <2>9 DEF RegistryInv, RegistryTypeOK
<1> QED
  BY <1>4, <1>5
-----------------------------------------------------------------------------
(* Publications.                                                           *)

\* post() puts a task behind the others, or drops it after shutdown().
LEMMA PostTask ==
  ASSUME DispatcherTypeOK, NEW task \in Task, dispatcher' = Posted(task)
  PROVE  /\ DispatcherTypeOK' /\ dispatcher'.stopping = dispatcher.stopping
         /\ \A i \in DOMAIN dispatcher.tasks :
               i \in DOMAIN dispatcher'.tasks /\ dispatcher'.tasks[i] = dispatcher.tasks[i]
         /\ dispatcher.stopping
               \/ \E i \in DOMAIN dispatcher'.tasks : dispatcher'.tasks[i] = task
<1>1. CASE dispatcher.stopping
  BY <1>1 DEF Posted, DispatcherTypeOK
<1>2. CASE ~dispatcher.stopping
  <2> DEFINE more == Append(dispatcher.tasks, task)
  <2>1. dispatcher.tasks \in Seq(Task)
    BY DEF DispatcherTypeOK
  <2>2. /\ more \in Seq(Task) /\ DOMAIN more = 1 .. Len(dispatcher.tasks) + 1
        /\ DOMAIN dispatcher.tasks = 1 .. Len(dispatcher.tasks) /\ Len(dispatcher.tasks) \in Nat
        /\ \A i \in 1 .. Len(dispatcher.tasks) : more[i] = dispatcher.tasks[i]
        /\ more[Len(dispatcher.tasks) + 1] = task
    BY <2>1, AppendProperties, LenProperties
  <2> HIDE DEF more
  <2>3. dispatcher' = [dispatcher EXCEPT !.tasks = more]
    BY <1>2 DEF Posted, more
  <2>4. DispatcherTypeOK' /\ dispatcher'.tasks = more /\ dispatcher'.stopping = dispatcher.stopping
    BY <2>2, <2>3 DEF DispatcherTypeOK
  <2>5. Len(dispatcher.tasks) + 1 \in DOMAIN more
    BY <2>2
  <2> QED
    BY <2>2, <2>4, <2>5
<1> QED
  BY <1>1, <1>2

\* One publisher moves on.
LEMMA PublisherTypes ==
  ASSUME NEW state \in [Publishers -> Publication], NEW p \in Publishers
  PROVE  /\ \A v \in {"idle", "ask", "store", "post"} :
               [state EXCEPT ![p].place = v] \in [Publishers -> Publication]
         /\ \A v \in Names : [state EXCEPT ![p].name = v] \in [Publishers -> Publication]
         /\ \A v \in Nat : [state EXCEPT ![p].payload = v] \in [Publishers -> Publication]
         /\ \A v \in Nat : [state EXCEPT ![p].version = v] \in [Publishers -> Publication]
         /\ \A v \in SUBSET Nat : [state EXCEPT ![p].to = v] \in [Publishers -> Publication]
<1>0. state[p] \in Publication
  OBVIOUS
<1>1. ASSUME NEW pub \in Publication PROVE [state EXCEPT ![p] = pub] \in [Publishers -> Publication]
  OBVIOUS
<1>2. \A v \in {"idle", "ask", "store", "post"} : [state[p] EXCEPT !.place = v] \in Publication
  BY <1>0 DEF Publication
<1>3. \A v \in Names : [state[p] EXCEPT !.name = v] \in Publication
  BY <1>0 DEF Publication
<1>4. \A v \in Nat : [state[p] EXCEPT !.payload = v] \in Publication
  BY <1>0 DEF Publication
<1>5. \A v \in Nat : [state[p] EXCEPT !.version = v] \in Publication
  BY <1>0 DEF Publication
<1>6. \A v \in SUBSET Nat : [state[p] EXCEPT !.to = v] \in Publication
  BY <1>0 DEF Publication
<1> QED
  BY <1>1, <1>2, <1>3, <1>4, <1>5, <1>6

\* What a publisher does leaves the source of frames alone.
LEMMA PublisherFrame ==
  ASSUME PublishingTypeOK, NEW state \in [Publishers -> Publication], publishing' = [publishing EXCEPT !.state = state]
  PROVE  PublishingTypeOK' /\ publishing'.source = publishing.source
  BY DEF PublishingTypeOK

\* publishState() up to the answer of the provider.
LEMMA AskStep ==
  ASSUME RegistryInv, NEW p \in Publishers, (\E n \in Names : PublishState(p, n)) \/ AskState(p)
  PROVE  RegistryInv'
<1>1. UNCHANGED <<reg, dispatcher>>
  BY DEF PublishState, AskState
<1>2. PublishingTypeOK' /\ publishing'.source = publishing.source
  <2>1. reg.value \in Nat
    BY DEF RegistryInv, RegistryTypeOK, RegTypeOK
  <2>0. publishing.state \in [Publishers -> Publication] /\ PublishingTypeOK
    BY DEF RegistryInv, RegistryTypeOK, PublishingTypeOK
  <2>2. ASSUME NEW n \in Names, PublishState(p, n) PROVE PublishingTypeOK' /\ publishing'.source = publishing.source
    <3> DEFINE asking == [publishing.state EXCEPT ![p].place = "ask"]
               named == [asking EXCEPT ![p].name = n]
    <3>1. asking \in [Publishers -> Publication]
      BY <2>0, PublisherTypes
    <3>2. named \in [Publishers -> Publication]
      BY <3>1, PublisherTypes
    <3>3. publishing' = [publishing EXCEPT !.state = named]
      BY <2>0, <2>2 DEF PublishState, PublishingTypeOK
    <3> QED
      BY <2>0, <3>2, <3>3, PublisherFrame
  <2>3. CASE AskState(p)
    <3> DEFINE asked == [publishing.state EXCEPT ![p].place = "store"]
               answered == [asked EXCEPT ![p].payload = reg.value]
    <3>1. asked \in [Publishers -> Publication]
      BY <2>0, PublisherTypes
    <3>2. answered \in [Publishers -> Publication]
      BY <2>1, <3>1, PublisherTypes
    <3>3. publishing' = [publishing EXCEPT !.state = answered]
      BY <2>0, <2>3 DEF AskState, PublishingTypeOK
    <3> QED
      BY <2>0, <3>2, <3>3, PublisherFrame
  <2> QED
    BY <2>2, <2>3
<1>3. NoStrandedFrame'
  BY <1>1, <1>2 DEF RegistryInv, NoStrandedFrame, OfKind, Due
<1> QED
  BY <1>1, <1>2, <1>3 DEF RegistryInv, RegistryTypeOK, RegTypeOK, DispatcherTypeOK

\* publishState() stores the answer in a state that is still there.
LEMMA StoreStep == ASSUME RegistryInv, NEW p \in Publishers, StoreState(p) PROVE RegistryInv'
<1> DEFINE n == publishing.state[p].name
           counted == [reg.slots[n] EXCEPT !.version = @ + 1]
           slot == [counted EXCEPT !.payload = publishing.state[p].payload]
<1>0. publishing.state[p] \in Publication
  BY DEF RegistryInv, RegistryTypeOK, PublishingTypeOK
<1>1. CASE n \in OfKind("State")
  <2>1. n \in DOMAIN reg.slots /\ reg.slots[n] \in Slot
    BY <1>1, SlotTypes DEF OfKind, RegistryInv, RegistryTypeOK
  <2>2. /\ reg.slots[n].version + 1 \in Nat /\ reg.slots[n].subscribers \in SUBSET Nat
        /\ publishing.state[p].payload \in Nat
    <3>1. publishing.state[p].payload \in Nat
      BY <1>0 DEF Publication
    <3> HIDE DEF n
    <3>2. reg.slots[n].version \in Nat /\ reg.slots[n].subscribers \in SUBSET Nat
      BY <2>1 DEF Slot
    <3> QED
      BY <3>1, <3>2
  <2>3. /\ counted \in Slot /\ counted.kind = reg.slots[n].kind
        /\ counted.pending = reg.slots[n].pending
        /\ counted.scheduled = reg.slots[n].scheduled
    BY <2>1, <2>2 DEF Slot
  <2>4. /\ slot \in Slot /\ slot.kind = counted.kind /\ slot.pending = counted.pending
        /\ slot.scheduled = counted.scheduled
    <3> HIDE DEF counted
    <3> QED
      BY <2>2, <2>3 DEF Slot
  <2>5. reg' = [reg EXCEPT !.slots = [reg.slots EXCEPT ![n] = slot]] /\ UNCHANGED dispatcher
    <3>1. reg' = [[reg EXCEPT !.slots = [reg.slots EXCEPT ![n] = counted]]
                     EXCEPT !.slots = [[reg.slots EXCEPT ![n] = counted] EXCEPT ![n] = slot]]
          /\ UNCHANGED dispatcher
      <4>1. reg' = [reg EXCEPT !.slots[n].version = @ + 1, !.slots[n].payload = publishing.state[p].payload]
            /\ UNCHANGED dispatcher
        BY <1>1 DEF StoreState
      <4> QED
        BY <2>1, <4>1 DEF RegistryInv, RegistryTypeOK, RegTypeOK
    <3>2. reg.slots \in [DOMAIN reg.slots -> Slot]
      BY SlotTypes DEF RegistryInv, RegistryTypeOK
    <3> HIDE DEF slot, counted, n
    <3>3. [[reg.slots EXCEPT ![n] = counted] EXCEPT ![n] = slot] = [reg.slots EXCEPT ![n] = slot]
      BY <2>1, <3>2
    <3> QED
      BY <3>1, <3>3 DEF RegistryInv, RegistryTypeOK, RegTypeOK
  <2>6. PublishingTypeOK' /\ publishing'.source = publishing.source
    <3> DEFINE placed == [publishing.state EXCEPT ![p].place = "post"]
               numbered == [placed EXCEPT ![p].version = reg.slots[n].version + 1]
               addressed == [numbered EXCEPT ![p].to = reg.slots[n].subscribers]
    <3>0. publishing.state \in [Publishers -> Publication] /\ PublishingTypeOK
      BY DEF RegistryInv, RegistryTypeOK, PublishingTypeOK
    <3>1. placed \in [Publishers -> Publication]
      BY <3>0, PublisherTypes
    <3>2. numbered \in [Publishers -> Publication]
      BY <2>2, <3>1, PublisherTypes
    <3>3. addressed \in [Publishers -> Publication]
      BY <2>2, <3>2, PublisherTypes
    <3>4. publishing' = [publishing EXCEPT !.state = addressed]
      BY <1>1, <3>0 DEF StoreState, PublishingTypeOK
    <3> QED
      BY <3>0, <3>3, <3>4, PublisherFrame
  <2> HIDE DEF slot, counted, n
  <2>7. reg' \in [slots : {[reg.slots EXCEPT ![n] = slot]}, generation : {reg.generation},
                  token : Nat, value : Nat, offered : Nat, calls : Nat]
    BY <2>5 DEF RegistryInv, RegistryTypeOK, RegTypeOK
  <2> QED
    BY <2>1, <2>3, <2>4, <2>5, <2>6, <2>7, OneSlotKeeps
<1>2. CASE n \notin OfKind("State")
  <2>1. reg' = reg /\ dispatcher' = dispatcher /\ publishing' = [publishing EXCEPT !.state[p].place = "idle"]
    BY <1>2 DEF StoreState
  <2>2. PublishingTypeOK' /\ publishing'.source = publishing.source
    <3>1. publishing.state \in [Publishers -> Publication] /\ PublishingTypeOK
      BY DEF RegistryInv, RegistryTypeOK, PublishingTypeOK
    <3>2. publishing' = [publishing EXCEPT !.state = [publishing.state EXCEPT ![p].place = "idle"]]
      BY <2>1
    <3> QED
      BY <3>1, <3>2, PublisherTypes, PublisherFrame
  <2>3. NoStrandedFrame'
    BY <2>1, <2>2 DEF RegistryInv, NoStrandedFrame, OfKind, Due
  <2> QED
    BY <2>1, <2>2, <2>3 DEF RegistryInv, RegistryTypeOK, RegTypeOK, DispatcherTypeOK
<1> QED
  BY <1>1, <1>2

\* publishState() posts the callbacks.
LEMMA PostStateStep == ASSUME RegistryInv, NEW p \in Publishers, PostState(p) PROVE RegistryInv'
<1> DEFINE task == [kind |-> "State", to |-> publishing.state[p].to, version |-> publishing.state[p].version]
<1>1. task \in Task
  BY DEF Task, StateTask, RegistryInv, RegistryTypeOK, PublishingTypeOK, Publication
<1>2. reg' = reg /\ PublishingTypeOK' /\ publishing'.source = publishing.source
  BY DEF PostState, RegistryInv, RegistryTypeOK, PublishingTypeOK, Publication
<1>3. dispatcher' = dispatcher \/ dispatcher' = Posted(task)
  BY DEF PostState
<1> HIDE DEF task
<1>4. /\ DispatcherTypeOK' /\ dispatcher'.stopping = dispatcher.stopping
      /\ \A i \in DOMAIN dispatcher.tasks :
            i \in DOMAIN dispatcher'.tasks /\ dispatcher'.tasks[i] = dispatcher.tasks[i]
  BY <1>1, <1>3, PostTask DEF RegistryInv, RegistryTypeOK, DispatcherTypeOK
<1>5. \A n : Due(n) => Due(n)'
  BY <1>2, <1>4 DEF Due
<1>6. NoStrandedFrame'
  BY <1>2, <1>4, <1>5 DEF RegistryInv, NoStrandedFrame, OfKind
<1> QED
  BY <1>2, <1>4, <1>6 DEF RegistryInv, RegistryTypeOK, RegTypeOK

\* publishFrame() keeps the frame; it will post a task unless one is due.
LEMMA OfferStep == ASSUME RegistryInv, NEW n \in Names, OfferFrame(n) PROVE RegistryInv'
<1> DEFINE slot == reg.slots[n]
           frame == reg.offered + 1
           offered == [slot EXCEPT !.pending = {frame}, !.scheduled = TRUE,
                                   !.dropped = @ + Cardinality(slot.pending)]
           emptied == [slot EXCEPT !.pending = {}]
<1>1. /\ n \in OfKind("Stream") /\ n \in DOMAIN reg.slots /\ slot \in Slot
      /\ publishing.source.place = "idle" /\ dispatcher' = dispatcher
      /\ frame \in Nat /\ reg.generation \in Nat
  <2>1. n \in OfKind("Stream")
    BY DEF OfferFrame
  <2>2. n \in DOMAIN reg.slots
    BY <2>1 DEF OfKind
  <2>3. slot \in Slot /\ reg.offered \in Nat /\ reg.generation \in Nat
    BY <2>2, SlotTypes DEF RegistryInv, RegistryTypeOK
  <2> QED
    BY <2>1, <2>2, <2>3 DEF OfferFrame
<1>2. CASE slot.subscribers = {}
  <2>1. reg' = [reg EXCEPT !.offered = frame, !.slots = [reg.slots EXCEPT ![n] = emptied]] /\ publishing' = publishing
    BY <1>2 DEF OfferFrame
  <2>2. /\ emptied \in Slot /\ emptied.kind = slot.kind /\ emptied.pending = {}
        /\ emptied.scheduled = slot.scheduled
    BY <1>1 DEF Slot, Kept
  <2> HIDE DEF emptied, frame
  <2>3. reg' \in [slots : {[reg.slots EXCEPT ![n] = emptied]}, generation : {reg.generation},
                  token : Nat, value : Nat, offered : Nat, calls : Nat]
    BY <1>1, <2>1 DEF RegistryInv, RegistryTypeOK, RegTypeOK
  <2> QED
    BY <1>1, <2>1, <2>2, <2>3, OneSlotKeeps DEF RegistryInv, RegistryTypeOK, PublishingTypeOK
<1>3. CASE slot.subscribers # {}
  <2>1. reg' = [reg EXCEPT !.offered = frame, !.slots = [reg.slots EXCEPT ![n] = offered]]
    <3>1. reg' = [reg EXCEPT !.offered = frame, !.slots[n] = offered]
      BY <1>3 DEF OfferFrame
    <3>2. DOMAIN reg = {"slots", "generation", "token", "value", "offered", "calls"}
      BY DEF RegistryInv, RegistryTypeOK, RegTypeOK
    <3> HIDE DEF frame, offered
    <3>3. [reg EXCEPT !.offered = frame].slots = reg.slots
      BY <3>2
    <3> QED
      BY <3>1, <3>3
  <2>2. publishing' = IF slot.scheduled THEN publishing
                      ELSE [publishing EXCEPT !.source = [place |-> "post", name |-> n, generation |-> reg.generation]]
    BY <1>3 DEF OfferFrame
  <2>3. slot.dropped + Cardinality(slot.pending) \in Nat
    <3>1. slot.pending \in Kept /\ slot.dropped \in Nat
      BY <1>1 DEF Slot
    <3>2. Cardinality(slot.pending) \in {0, 1}
      BY <3>1, FS_EmptySet, FS_Singleton DEF Kept
    <3> QED
      BY <3>1, <3>2
  <2>4. {frame} \in Kept
    BY <1>1 DEF Kept
  <2>5. /\ offered \in Slot /\ offered.kind = slot.kind /\ offered.scheduled
    BY <1>1, <2>3, <2>4 DEF Slot
  <2> HIDE DEF offered, frame, slot
  <2>6. reg' \in [slots : {[reg.slots EXCEPT ![n] = offered]}, generation : {reg.generation},
                  token : Nat, value : Nat, offered : Nat, calls : Nat]
    BY <1>1, <2>1 DEF RegistryInv, RegistryTypeOK, RegTypeOK
  <2>7. /\ RegTypeOK' /\ reg'.generation = reg.generation
        /\ reg'.slots[n] = offered
        /\ \A m \in DOMAIN reg.slots : m # n => reg'.slots[m] = reg.slots[m]
        /\ OfKind("Stream")' = OfKind("Stream")
    BY <1>1, <2>5, <2>6, OneSlot DEF slot, RegistryInv, RegistryTypeOK
  <2>8. PublishingTypeOK'
    BY <1>1, <2>2 DEF RegistryInv, RegistryTypeOK, PublishingTypeOK
  <2>9. \A m : Due(m) => Due(m)'
    BY <1>1, <2>2, <2>7 DEF Due
  <2>10. Due(n)' \/ dispatcher'.stopping
    <3>1. CASE slot.scheduled
      BY <1>1, <2>9, <3>1 DEF slot, RegistryInv, NoStrandedFrame
    <3>2. CASE ~slot.scheduled
      <4>1. publishing'.source = [place |-> "post", name |-> n, generation |-> reg.generation]
        BY <2>2, <3>2 DEF RegistryInv, RegistryTypeOK, PublishingTypeOK
      <4> QED
        BY <2>7, <4>1 DEF Due
    <3> QED
      BY <3>1, <3>2
  <2>11. NoStrandedFrame'
    <3> SUFFICES ASSUME NEW m \in OfKind("Stream")'
                 PROVE  /\ reg'.slots[m].pending # {} => reg'.slots[m].scheduled
                        /\ reg'.slots[m].scheduled => Due(m)' \/ dispatcher'.stopping
      BY DEF NoStrandedFrame
    <3>1. CASE m = n
      BY <2>5, <2>7, <2>10, <3>1
    <3>2. CASE m # n
      <4>1. m \in OfKind("Stream") /\ reg'.slots[m] = reg.slots[m]
        BY <2>7, <3>2 DEF OfKind
      <4> QED
        BY <1>1, <2>9, <4>1 DEF RegistryInv, NoStrandedFrame
    <3> QED
      BY <3>1, <3>2
  <2> QED
    BY <1>1, <2>7, <2>8, <2>11 DEF RegistryInv, RegistryTypeOK, DispatcherTypeOK
<1> QED
  BY <1>2, <1>3

\* publishFrame() posts the task: what was about to be posted is queued now.
LEMMA PostFrameStep == ASSUME RegistryInv, PostFrame PROVE RegistryInv'
<1> DEFINE task == [kind |-> "Stream", name |-> publishing.source.name, generation |-> publishing.source.generation]
<1>1. task \in Task /\ task.kind = "Stream" /\ task.name = publishing.source.name
      /\ task.generation = publishing.source.generation
  BY DEF Task, FrameTask, RegistryInv, RegistryTypeOK, PublishingTypeOK
<1>2. reg' = reg /\ PublishingTypeOK' /\ dispatcher' = Posted(task)
  BY DEF PostFrame, RegistryInv, RegistryTypeOK, PublishingTypeOK
<1> HIDE DEF task
<1>3. /\ DispatcherTypeOK' /\ dispatcher'.stopping = dispatcher.stopping
      /\ \A i \in DOMAIN dispatcher.tasks :
            i \in DOMAIN dispatcher'.tasks /\ dispatcher'.tasks[i] = dispatcher.tasks[i]
      /\ dispatcher.stopping \/ \E i \in DOMAIN dispatcher'.tasks : dispatcher'.tasks[i] = task
  BY <1>1, <1>2, PostTask DEF RegistryInv, RegistryTypeOK
<1>4. \A n : Due(n) => Due(n)' \/ dispatcher'.stopping
  BY <1>1, <1>2, <1>3 DEF Due
<1>5. NoStrandedFrame'
  BY <1>2, <1>3, <1>4 DEF RegistryInv, NoStrandedFrame, OfKind
<1> QED
  BY <1>2, <1>3, <1>5 DEF RegistryInv, RegistryTypeOK, RegTypeOK

\* The provider's value changes.
LEMMA ValueStep == ASSUME RegistryInv, StateChanges PROVE RegistryInv'
<1>1. reg.value + 1 \in Nat
  BY DEF RegistryInv, RegistryTypeOK, RegTypeOK
<1>2. reg' = [reg EXCEPT !.value = reg.value + 1] /\ UNCHANGED <<dispatcher, publishing>>
  BY DEF StateChanges
<1>3. RegTypeOK' /\ reg'.slots = reg.slots /\ reg'.generation = reg.generation
  BY <1>1, <1>2 DEF RegistryInv, RegistryTypeOK, RegTypeOK
<1>4. NoStrandedFrame'
  BY <1>2, <1>3 DEF RegistryInv, NoStrandedFrame, OfKind, Due
<1> QED
  BY <1>2, <1>3, <1>4 DEF RegistryInv, RegistryTypeOK, DispatcherTypeOK, PublishingTypeOK
-----------------------------------------------------------------------------
(* The theorems.                                                           *)

\* No stream is scheduled, or keeps a frame, at the start.
LEMMA RegistryInvInit == RegistryInit => RegistryInv
<1> SUFFICES ASSUME RegistryInit PROVE RegistryInv
  OBVIOUS
<1>1. \A n \in OfKind("Stream") : AtRest(reg.slots[n])
  BY DEF RegistryInit, OfKind, AtRest, Fresh
<1> QED
  BY <1>1, RegistryTypeInit DEF RegistryInv, NoStrandedFrame, AtRest

\* Every step of a client, the dispatcher or a publisher preserves the invariant.
LEMMA RegistryInvStep == ASSUME RegistryInv, [RegistryNext]_registryVars PROVE RegistryInv'
<1>1. CASE ClientCalls
  BY <1>1, RegisterStep, RemoveStep, SubscribeStep, LevelStep, UnsubscribeStep, ClearStep, ShutdownStep
     DEF ClientCalls
<1>2. CASE Dispatch
  BY <1>2, CallbackStep, StateTaskStep, FrameTaskStep DEF Dispatch
<1>3. CASE Publish
  <2>1. CASE \E p \in Publishers : AskState(p) \/ StoreState(p) \/ PostState(p)
    BY <2>1, AskStep, StoreStep, PostStateStep
  <2>2. CASE \E p \in Publishers, n \in Names : PublishState(p, n)
    BY <2>2, AskStep
  <2>3. CASE (\E n \in Names : OfferFrame(n)) \/ PostFrame \/ StateChanges
    BY <2>3, OfferStep, PostFrameStep, ValueStep
  <2> QED
    BY <1>3, <2>1, <2>2, <2>3 DEF Publish
<1>4. CASE UNCHANGED registryVars
  <2>1. reg' = reg /\ dispatcher' = dispatcher /\ publishing' = publishing
    BY <1>4 DEF registryVars
  <2>2. RegistryTypeOK'
    BY <2>1 DEF RegistryInv, RegistryTypeOK, RegTypeOK, DispatcherTypeOK, PublishingTypeOK
  <2>3. NoStrandedFrame'
    BY <2>1 DEF RegistryInv, NoStrandedFrame, OfKind, Due
  <2> QED
    BY <2>2, <2>3 DEF RegistryInv
<1> QED
  BY <1>1, <1>2, <1>3, <1>4 DEF RegistryNext

\* Every variable keeps its type; in particular a slot keeps one frame at most.
THEOREM RegistryTypeCorrect ==
  RegistrySpec => []RegistryTypeOK
<1>1. RegistryInit => RegistryInv
  BY RegistryInvInit
<1>2. RegistryInv /\ [RegistryNext]_registryVars => RegistryInv'
  BY RegistryInvStep
<1>3. RegistryInv => RegistryTypeOK
  BY DEF RegistryInv
<1> QED
  BY <1>1, <1>2, <1>3, PTL DEF RegistrySpec

\* A stream that waits for a dispatch gets one, whoever clears the registry,
\* removes the stream, registers its name again, subscribes or publishes in
\* between, and whatever the dispatcher has yet to run.
THEOREM NoStrandedFrameHolds ==
  RegistrySpec => []NoStrandedFrame
<1>1. RegistryInit => RegistryInv
  BY RegistryInvInit
<1>2. RegistryInv /\ [RegistryNext]_registryVars => RegistryInv'
  BY RegistryInvStep
<1>3. RegistryInv => NoStrandedFrame
  BY DEF RegistryInv
<1> QED
  BY <1>1, <1>2, <1>3, PTL DEF RegistrySpec
=============================================================================
