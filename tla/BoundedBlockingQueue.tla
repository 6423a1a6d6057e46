------------------------ MODULE BoundedBlockingQueue ------------------------
(***************************************************************************)
(* common::BoundedBlockingQueue: a ring of Capacity slots between one      *)
(* producer and one consumer thread, with a close() that a third thread    *)
(* may call at any time.  Every atomic load, store and read-modify-write   *)
(* of the class is one step.  head and tail count pops and pushes; a slot  *)
(* is named by its index modulo the capacity.  A thread that finds no      *)
(* space (no data) reads an epoch counter, looks again, and then sleeps in *)
(* atomic::wait until the epoch differs from the value it read.            *)
(*                                                                         *)
(* The k-th item the producer pushes is the number k: once a push has been *)
(* refused every later one is, so k is also the index the item is stored   *)
(* under plus one.                                                         *)
(***************************************************************************)
EXTENDS Integers, Sequences

CONSTANTS
    Capacity,   \* slots_.size()
    MaxItems    \* bound: the number of pushes the producer makes

ASSUME CapacityAssumption == Capacity \in Nat \ {0}
ASSUME MaxItemsAssumption == MaxItems \in Nat

VARIABLES
    slots,          \* slots_: 0 is an empty optional
    head, tail,     \* head_, tail_
    closed,         \* closed_
    dataEpoch, spaceEpoch,
    ppc, pepoch,    \* the producer: where it is, and the epoch it read
    cpc, cepoch,    \* the consumer likewise
    value,          \* the consumer's local `value` in tryPop
    kpc,            \* the thread that calls close()
    tailAtClose     \* history: tail when closed_ was set

vars == <<slots, head, tail, closed, dataEpoch, spaceEpoch, ppc, pepoch,
          cpc, cepoch, value, kpc, tailAtClose>>
ringVars == <<slots, head, tail, closed, dataEpoch, spaceEpoch>>
producerVars == <<ppc, pepoch>>
consumerVars == <<cpc, cepoch, value>>
closerVars == <<kpc, tailAtClose>>

Empty == 0
SlotOf(index) == index % Capacity

Init ==
    /\ slots = [i \in 0 .. Capacity - 1 |-> Empty]
    /\ head = 0 /\ tail = 0
    /\ closed = FALSE
    /\ dataEpoch = 0 /\ spaceEpoch = 0
    /\ ppc = "idle" /\ pepoch = 0
    /\ cpc = "idle" /\ cepoch = 0 /\ value = Empty
    /\ kpc = "idle" /\ tailAtClose = 0
-----------------------------------------------------------------------------
(* push(), with tryPush() and full() inlined; only the producer runs it.   *)

ProducerGoes(from, to) == ppc = from /\ ppc' = to

PushBegin ==
    /\ tail < MaxItems
    /\ ProducerGoes("idle", "tryPush")
    /\ UNCHANGED <<ringVars, pepoch, consumerVars, closerVars>>

\* Mutant: tryPush does not look at closed_.
TryPushClosed_Ignored ==
    /\ ProducerGoes("tryPush", "loadHead")
    /\ UNCHANGED <<ringVars, pepoch, consumerVars, closerVars>>

\* tryPush reads closed_; after its refusal push() reads closed_ again, which
\* never goes back to false, and returns false.
TryPushClosed ==
    /\ ProducerGoes("tryPush", IF closed THEN "refused" ELSE "loadHead")
    /\ UNCHANGED <<ringVars, pepoch, consumerVars, closerVars>>

\* Mutant: the ring takes one item too many.
TryPushFull_OffByOne ==
    /\ ProducerGoes("loadHead",
                    IF tail - head > Capacity THEN "testClosed" ELSE "emplace")
    /\ UNCHANGED <<ringVars, pepoch, consumerVars, closerVars>>

TryPushFull ==
    /\ ProducerGoes("loadHead",
                    IF tail - head >= Capacity THEN "testClosed" ELSE "emplace")
    /\ UNCHANGED <<ringVars, pepoch, consumerVars, closerVars>>

TryPushEmplace ==
    /\ ProducerGoes("emplace", "storeTail")
    /\ slots' = [slots EXCEPT ![SlotOf(tail)] = tail + 1]
    /\ UNCHANGED <<head, tail, closed, dataEpoch, spaceEpoch, pepoch,
                   consumerVars, closerVars>>

TryPushStoreTail ==
    /\ ProducerGoes("storeTail", "bumpData")
    /\ tail' = tail + 1
    /\ UNCHANGED <<slots, head, closed, dataEpoch, spaceEpoch, pepoch,
                   consumerVars, closerVars>>

TryPushBump ==
    /\ ProducerGoes("bumpData", "notifyData")
    /\ dataEpoch' = dataEpoch + 1
    /\ UNCHANGED <<slots, head, tail, closed, spaceEpoch, pepoch,
                   consumerVars, closerVars>>

\* notify wakes a sleeping waiter, which compares its epoch again.
WakeConsumer == cpc' = IF cpc = "asleep" THEN "wait" ELSE cpc
WakeProducer == ppc' = IF ppc = "asleep" THEN "wait" ELSE ppc

TryPushNotify ==
    /\ ProducerGoes("notifyData", "idle")
    /\ WakeConsumer
    /\ UNCHANGED <<ringVars, pepoch, cepoch, value, closerVars>>

PushTestClosed ==
    /\ ProducerGoes("testClosed", IF closed THEN "refused" ELSE "loadEpoch")
    /\ UNCHANGED <<ringVars, pepoch, consumerVars, closerVars>>

\* Mutant: push() remembers the epoch before the current one.
PushLoadEpoch_Previous ==
    /\ ProducerGoes("loadEpoch", "retestClosed")
    /\ pepoch' = spaceEpoch - 1
    /\ UNCHANGED <<ringVars, consumerVars, closerVars>>

PushLoadEpoch ==
    /\ ProducerGoes("loadEpoch", "retestClosed")
    /\ pepoch' = spaceEpoch
    /\ UNCHANGED <<ringVars, consumerVars, closerVars>>

PushRetestClosed ==
    /\ ProducerGoes("retestClosed", IF closed THEN "tryPush" ELSE "retestFull")
    /\ UNCHANGED <<ringVars, pepoch, consumerVars, closerVars>>

PushRetestFull ==
    /\ ProducerGoes("retestFull",
                    IF tail - head >= Capacity THEN "wait" ELSE "tryPush")
    /\ UNCHANGED <<ringVars, pepoch, consumerVars, closerVars>>

PushWait ==
    /\ ProducerGoes("wait", IF spaceEpoch = pepoch THEN "asleep" ELSE "tryPush")
    /\ UNCHANGED <<ringVars, pepoch, consumerVars, closerVars>>

Push ==
    \/ TryPushClosed \/ TryPushFull \/ TryPushEmplace \/ TryPushStoreTail
    \/ TryPushBump \/ TryPushNotify
    \/ PushTestClosed \/ PushLoadEpoch \/ PushRetestClosed \/ PushRetestFull
    \/ PushWait
-----------------------------------------------------------------------------
(* pop() and popFor(), with tryPop() and empty() inlined; only the         *)
(* consumer runs them.  cpc names the operation where the two differ.      *)

ConsumerGoes(from, to) == cpc = from /\ cpc' = to
ConsumerOnly == UNCHANGED <<ringVars, producerVars, cepoch, value, closerVars>>

\* The stages of pop() and the corresponding ones of popFor().
PopStages == {"tryPop", "testClosed", "testEmpty"}
PopForStages == {"tryPopFor", "testClosedFor", "testEmptyFor"}

PopBegin == ConsumerGoes("idle", "tryPop") /\ ConsumerOnly
PopForBegin == ConsumerGoes("idle", "tryPopFor") /\ ConsumerOnly

TryPopTest ==
    /\ \/ ConsumerGoes("tryPop", IF head = tail THEN "testClosed" ELSE "take")
       \/ ConsumerGoes("tryPopFor", IF head = tail THEN "testClosedFor" ELSE "take")
    /\ ConsumerOnly

\* Mutant: tryPop takes the newest item instead of the oldest.
TryPopTake_Newest ==
    /\ ConsumerGoes("take", "storeHead")
    /\ value' = slots[SlotOf(tail - 1)]
    /\ slots' = [slots EXCEPT ![SlotOf(tail - 1)] = Empty]
    /\ UNCHANGED <<head, tail, closed, dataEpoch, spaceEpoch, producerVars,
                   cepoch, closerVars>>

\* The item is moved out and the optional reset; both touch only this slot.
TryPopTake ==
    /\ ConsumerGoes("take", "storeHead")
    /\ value' = slots[SlotOf(head)]
    /\ slots' = [slots EXCEPT ![SlotOf(head)] = Empty]
    /\ UNCHANGED <<head, tail, closed, dataEpoch, spaceEpoch, producerVars,
                   cepoch, closerVars>>

TryPopStoreHead ==
    /\ ConsumerGoes("storeHead", "bumpSpace")
    /\ head' = head + 1
    /\ UNCHANGED <<slots, tail, closed, dataEpoch, spaceEpoch, producerVars,
                   cepoch, value, closerVars>>

TryPopBump ==
    /\ ConsumerGoes("bumpSpace", "notifySpace")
    /\ spaceEpoch' = spaceEpoch + 1
    /\ UNCHANGED <<slots, head, tail, closed, dataEpoch, producerVars,
                   cepoch, value, closerVars>>

TryPopNotify ==
    /\ ConsumerGoes("notifySpace", "idle")
    /\ WakeProducer
    /\ UNCHANGED <<ringVars, pepoch, cepoch, value, closerVars>>

\* Mutant: a closed queue ends the stream whether or not it is empty.
PopTestClosed_NoDrain ==
    /\ \/ ConsumerGoes("testClosed", IF closed THEN "ended" ELSE "loadEpoch")
       \/ ConsumerGoes("testClosedFor", IF closed THEN "ended" ELSE "deadline")
    /\ ConsumerOnly

\* closed_ && empty(): closed_ is read first, then head_ and tail_.
PopTestClosed ==
    /\ \/ ConsumerGoes("testClosed", IF closed THEN "testEmpty" ELSE "loadEpoch")
       \/ ConsumerGoes("testClosedFor", IF closed THEN "testEmptyFor" ELSE "deadline")
    /\ ConsumerOnly

PopTestEmpty ==
    /\ \/ ConsumerGoes("testEmpty", IF head = tail THEN "ended" ELSE "loadEpoch")
       \/ ConsumerGoes("testEmptyFor", IF head = tail THEN "ended" ELSE "deadline")
    /\ ConsumerOnly

PopLoadEpoch ==
    /\ ConsumerGoes("loadEpoch", "retestClosed")
    /\ cepoch' = dataEpoch
    /\ UNCHANGED <<ringVars, producerVars, value, closerVars>>

\* If closed_ is seen here pop() does not wait: an empty queue makes the first
\* conjunct false, and a queue that is not empty stays so for its consumer.
PopRetestClosed ==
    /\ ConsumerGoes("retestClosed", IF closed THEN "tryPop" ELSE "retestEmpty")
    /\ ConsumerOnly

PopRetestEmpty ==
    /\ ConsumerGoes("retestEmpty", IF head = tail THEN "wait" ELSE "tryPop")
    /\ ConsumerOnly

\* Mutant: the consumer sleeps without comparing the epoch it read.
PopWait_NoCompare ==
    /\ ConsumerGoes("wait", "asleep")
    /\ ConsumerOnly

PopWait ==
    /\ ConsumerGoes("wait", IF dataEpoch = cepoch THEN "asleep" ELSE "tryPop")
    /\ ConsumerOnly

\* popFor polls every millisecond until its deadline, and then returns nullopt
\* to a caller that calls again.
PopForDeadline ==
    /\ \/ ConsumerGoes("deadline", "tryPopFor")
       \/ ConsumerGoes("deadline", "idle")
    /\ ConsumerOnly

Pop ==
    \/ PopBegin \/ PopForBegin \/ TryPopTest \/ TryPopTake \/ TryPopStoreHead
    \/ TryPopBump \/ TryPopNotify \/ PopTestClosed \/ PopTestEmpty
    \/ PopLoadEpoch \/ PopRetestClosed \/ PopRetestEmpty \/ PopWait
    \/ PopForDeadline
-----------------------------------------------------------------------------
(* close().                                                                *)

CloserGoes(from, to) == kpc = from /\ kpc' = to

CloseStore ==
    /\ CloserGoes("idle", "bumpData")
    /\ closed' = TRUE
    /\ tailAtClose' = tail
    /\ UNCHANGED <<slots, head, tail, dataEpoch, spaceEpoch, producerVars, consumerVars>>

CloseBumpData ==
    /\ CloserGoes("bumpData", "bumpSpace")
    /\ dataEpoch' = dataEpoch + 1
    /\ UNCHANGED <<slots, head, tail, closed, spaceEpoch, producerVars,
                   consumerVars, tailAtClose>>

CloseBumpSpace ==
    /\ CloserGoes("bumpSpace", "notifyData")
    /\ spaceEpoch' = spaceEpoch + 1
    /\ UNCHANGED <<slots, head, tail, closed, dataEpoch, producerVars,
                   consumerVars, tailAtClose>>

\* Mutant: close() does not wake the consumer.
CloseNotifyData_Forgotten ==
    /\ CloserGoes("notifyData", "notifySpace")
    /\ UNCHANGED <<ringVars, producerVars, consumerVars, tailAtClose>>

CloseNotifyData ==
    /\ CloserGoes("notifyData", "notifySpace")
    /\ WakeConsumer
    /\ UNCHANGED <<ringVars, producerVars, cepoch, value, tailAtClose>>

CloseNotifySpace ==
    /\ CloserGoes("notifySpace", "done")
    /\ WakeProducer
    /\ UNCHANGED <<ringVars, pepoch, consumerVars, tailAtClose>>

CloseRest == CloseBumpData \/ CloseBumpSpace \/ CloseNotifyData \/ CloseNotifySpace
-----------------------------------------------------------------------------
\* Every thread has returned for good.
Terminated ==
    /\ ppc = "refused" \/ (ppc = "idle" /\ tail = MaxItems)
    /\ cpc = "ended"
    /\ kpc = "done"
    /\ UNCHANGED vars

Next == PushBegin \/ Push \/ Pop \/ CloseStore \/ CloseRest \/ Terminated

\* A started operation is scheduled until it returns or sleeps.  Nothing obliges
\* the producer to push or the closer to close.
Fairness == WF_vars(Push) /\ WF_vars(Pop) /\ WF_vars(CloseRest)

Spec == Init /\ [][Next]_vars /\ Fairness
-----------------------------------------------------------------------------
ProducerStages == {"idle", "tryPush", "refused", "loadHead", "testClosed", "emplace",
    "storeTail", "bumpData", "notifyData", "loadEpoch", "retestClosed", "retestFull",
    "wait", "asleep"}
ConsumerStages == PopStages \cup PopForStages \cup {"idle", "take", "storeHead",
    "bumpSpace", "notifySpace", "ended", "loadEpoch", "retestClosed", "retestEmpty",
    "wait", "asleep", "deadline"}
CloserStages == {"idle", "bumpData", "bumpSpace", "notifyData", "notifySpace", "done"}

\* The queue's fields and the threads' locals have their types.
TypeOK ==
    /\ slots \in [0 .. Capacity - 1 -> Nat]
    /\ head \in Nat /\ tail \in Nat /\ tailAtClose \in Nat
    /\ closed \in BOOLEAN
    /\ dataEpoch \in Nat /\ spaceEpoch \in Nat
    /\ ppc \in ProducerStages /\ pepoch \in Nat
    /\ cpc \in ConsumerStages /\ cepoch \in Nat /\ value \in Nat
    /\ kpc \in CloserStages

\* The indices of the items in the ring: from the first one not yet taken to
\* the last one written, published by tail_ or not.
FirstStored == IF cpc = "storeHead" THEN head + 1 ELSE head
LastStored == IF ppc = "storeTail" THEN tail ELSE tail - 1
Stored == FirstStored .. LastStored

\* tryPush and tryPop never work on the same slot at once: the producer writes
\* only an empty slot, the consumer takes only a full one, and every slot
\* between the indices holds the item that was pushed under its index.
SlotExclusion ==
    /\ ppc = "emplace" => slots[SlotOf(tail)] = Empty
    /\ cpc = "take" => slots[SlotOf(head)] = head + 1
    /\ ppc = "emplace" /\ cpc = "take" => SlotOf(head) # SlotOf(tail)
    /\ head <= tail /\ tail - head <= Capacity

\* pop() hands over the items in push order, each once: what is in the
\* consumer's hands is the item whose index head_ stands for.
FifoDelivery ==
    /\ cpc = "storeHead" => value = head + 1
    /\ cpc # "storeHead" => value = head

\* close() cuts the stream at a definite place: pop() reports the end only after
\* everything published before closed_ was set has been handed over, and at most
\* one push that overlapped close() still goes in.
DrainedOnClose ==
    /\ cpc = "ended" => closed /\ head >= tailAtClose
    /\ closed => tail <= tailAtClose + 1

\* A thread is left asleep only while nothing it waits for has happened, or
\* while the thread that made it happen is still on its way to notify: no
\* wake-up is lost between the epoch that was read and atomic::wait.
NoLostWakeup ==
    /\ cpc = "asleep" /\ (head # tail \/ closed) =>
           \/ ppc \in {"bumpData", "notifyData"}
           \/ kpc \in {"bumpData", "bumpSpace", "notifyData"}
    /\ ppc = "asleep" /\ (tail - head < Capacity \/ closed) =>
           \/ cpc \in {"bumpSpace", "notifySpace"}
           \/ kpc \in {"bumpData", "bumpSpace", "notifyData", "notifySpace"}

\* A push that waits for space leaves push() once it is woken by a pop or a
\* close: no thread is stuck in the queue after close() has returned.
CloseReleasesAll == kpc = "done" ~> (cpc = "ended" /\ ppc \in {"idle", "refused"})

\* The queue implements the closable bounded FIFO.  An item leaves the FIFO when
\* tryPop moves it out of its slot, before head_ says so.
contents == [i \in 1 .. tail - FirstStored |-> slots[SlotOf(FirstStored + i - 1)]]
Fifo == INSTANCE BoundedFifo WITH
    Items <- 1 .. MaxItems,
    delivered <- value,
    straggled <- closed /\ tail > tailAtClose,
    ended <- cpc = "ended"
ImplementsFifo == Fifo!FifoSpec
=============================================================================
