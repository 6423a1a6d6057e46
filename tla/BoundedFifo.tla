----------------------------- MODULE BoundedFifo -----------------------------
(***************************************************************************)
(* What a closable bounded queue promises one producer and one consumer:   *)
(* items leave in the order in which they entered, none is lost or         *)
(* duplicated, and the consumer is told that the stream has ended only     *)
(* once the queue is closed and empty.  A put that overlaps the close may  *)
(* still go through, but only one: every later put is refused.             *)
(***************************************************************************)
EXTENDS Naturals, Sequences

CONSTANTS Capacity, Items

VARIABLES
    contents,   \* the items in the queue, oldest first
    delivered,  \* the last item handed to the consumer
    closed,     \* the queue no longer takes items
    straggled,  \* the one put that overlapped the close went through
    ended       \* the consumer was told that the stream has ended

fifoVars == <<contents, delivered, closed, straggled, ended>>

FifoInit ==
    /\ contents = <<>>
    /\ delivered = 0
    /\ closed = FALSE
    /\ straggled = FALSE
    /\ ended = FALSE

Put(v) ==
    /\ ~closed \/ ~straggled
    /\ Len(contents) < Capacity
    /\ contents' = Append(contents, v)
    /\ straggled' = closed
    /\ UNCHANGED <<delivered, closed, ended>>

Get ==
    /\ ~ended
    /\ contents # <<>>
    /\ delivered' = Head(contents)
    /\ contents' = Tail(contents)
    /\ UNCHANGED <<closed, straggled, ended>>

Close ==
    /\ ~closed
    /\ closed' = TRUE
    /\ UNCHANGED <<contents, delivered, straggled, ended>>

EndOfStream ==
    /\ closed
    /\ contents = <<>>
    /\ ~ended
    /\ ended' = TRUE
    /\ UNCHANGED <<contents, delivered, closed, straggled>>

FifoNext == (\E v \in Items : Put(v)) \/ Get \/ Close \/ EndOfStream

FifoSafety == FifoInit /\ [][FifoNext]_fifoVars

\* The consumer keeps consuming: what is in the queue is handed over, and the
\* end of a closed queue is reported.
FifoSpec == FifoSafety /\ WF_fifoVars(Get) /\ WF_fifoVars(EndOfStream)
=============================================================================
