------------------------------ MODULE FileSource ------------------------------
(***************************************************************************)
(* camera::FileSource: a directory of images read by one thread.           *)
(*                                                                         *)
(* The first half is what create() makes of a directory; an extension is a *)
(* record [name, dot, upper] and an image file carries the OpenCV type     *)
(* that decoding gives, or "unreadable".  The second half is the reading   *)
(* thread against start, requestStop and wait.                             *)
(***************************************************************************)
EXTENDS Integers, Sequences, FiniteSets

VARIABLE source

NoExtension == [name |-> "", dot |-> FALSE, upper |-> FALSE]

NormalizedExtension(e) ==
    IF e = NoExtension THEN e ELSE [e EXCEPT !.dot = TRUE, !.upper = FALSE]

HasAcceptedExtension(file, extensions) ==
    [file.extension EXCEPT !.upper = FALSE] \in extensions

Listed(options, directory) ==
    LET extensions == {NormalizedExtension(e) : e \in options.extensions} \ {NoExtension}
    IN  {f \in directory.files :
            /\ f.regular
            /\ options.recursive \/ ~f.nested
            /\ HasAcceptedExtension(f, extensions)}

(* The orders the sort may leave: it is not stable, so files written at    *)
(* the same time come in any order.                                        *)
ReadingOrders(options, files) ==
    LET Before(f, g) == IF options.order = "LastWriteTime"
                        THEN f.written < g.written ELSE f.path < g.path
    IN  {images \in [1 .. Cardinality(files) -> files] :
            \A i, j \in DOMAIN images :
                i < j => images[i] # images[j] /\ ~Before(images[j], images[i])}

(* What create() answers: a status, and the possible orders of reading.    *)
Create(options, directory) ==
    LET files == Listed(options, directory)
        Refuse(code) == [status |-> code, orders |-> {}]
    IN  CASE ~options.directory -> Refuse("InvalidArgument")
          [] options.interval < 0 -> Refuse("InvalidArgument")
          [] ~directory.exists -> Refuse("NotFound")
          [] options.extensions \subseteq {NoExtension} -> Refuse("InvalidArgument")
          [] ~directory.readable -> Refuse("Unavailable")
          [] files = {} -> Refuse("NotFound")
          [] OTHER -> [status |-> "Ok", orders |-> ReadingOrders(options, files)]

Pixels == [CV_8UC1 |-> "Gray8", CV_16UC1 |-> "Gray16", CV_32FC1 |-> "Float32Gray",
           CV_8UC3 |-> "Bgr8", CV_8UC4 |-> "Bgra8"]

(* The status of a decoded image. *)
DecodeFrame(file) ==
    CASE file.type = "unreadable" -> "DataLoss"
      [] file.type \notin DOMAIN Pixels -> "Unsupported"
      [] OTHER -> "Ok"

-----------------------------------------------------------------------------

SourceInit(images, loop) ==
    source = [images |-> images, loop |-> loop, next |-> 1, thread |-> "none",
              started |-> FALSE, running |-> FALSE, stop |-> FALSE, joinable |-> FALSE]

(* The stop source is new, so a stop requested before is forgotten. *)
SourceStart ==
    /\ ~source.started
    /\ source' = [source EXCEPT !.started = TRUE, !.running = TRUE, !.stop = FALSE,
                                !.thread = "test", !.joinable = TRUE]

SourceRequestStop == source' = [source EXCEPT !.stop = TRUE]

(* The test at the head of the loop: leave, or hand the next image over. *)
SourceLeave ==
    /\ source.thread = "test"
    /\ source.stop
    /\ source' = [source EXCEPT !.thread = "ended", !.running = FALSE]

SourceDeliver ==
    /\ source.thread = "test"
    /\ ~source.stop
    /\ source' = [source EXCEPT !.thread = "callback"]

(* The callback has returned; after the last image a loop begins again. *)
SourceAdvance ==
    LET last == source.next = Len(source.images)
    IN  source' = IF last /\ (~source.loop \/ source.stop)
                  THEN [source EXCEPT !.thread = "ended", !.running = FALSE]
                  ELSE [source EXCEPT !.thread = "test", !.next = IF last THEN 1 ELSE @ + 1]

(* wait() takes the thread out under the mutex, so only one waiter joins it. *)
SourceWaitTake ==
    source' = IF source.joinable THEN [source EXCEPT !.joinable = FALSE]
                                 ELSE [source EXCEPT !.running = FALSE]

SourceJoined ==
    /\ source.thread = "ended"
    /\ source' = [source EXCEPT !.running = FALSE]

Info == [finite |-> ~source.loop,
         expected |-> IF source.loop THEN {} ELSE {Len(source.images)}]

=============================================================================
