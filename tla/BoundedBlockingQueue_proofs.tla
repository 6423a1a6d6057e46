--------------------- MODULE BoundedBlockingQueue_proofs ---------------------
(***************************************************************************)
(* Proofs about BoundedBlockingQueue, for every capacity and every number  *)
(* of items.  The inductive invariant has four parts: the types, the ring, *)
(* where close() cuts the stream, and the two eventcounts.                 *)
(***************************************************************************)
EXTENDS BoundedBlockingQueue, SequenceTheorems, TLAPS

\* The window of Capacity consecutive indices that starts at the first stored
\* item is split into stored items and empty slots.
RingInv ==
    /\ head <= tail
    /\ tail - head <= Capacity
    /\ cpc \in {"take", "storeHead"} => head < tail
    /\ ppc \in {"emplace", "storeTail"} => tail - head < Capacity
    /\ \A j \in Stored : slots[SlotOf(j)] = j + 1
    /\ \A j \in LastStored + 1 .. FirstStored + Capacity - 1 : slots[SlotOf(j)] = Empty
    /\ FifoDelivery

\* Once closed_ is set, only a push that had already read it as false can still
\* add an item.
CloseInv ==
    /\ kpc = "idle" <=> ~closed
    /\ closed => tailAtClose <= tail /\ tail <= tailAtClose + 1
    /\ closed /\ ppc \in {"loadHead", "emplace", "storeTail"} => tail = tailAtClose
    /\ cpc \in {"testEmpty", "testEmptyFor", "ended"} => closed
    /\ cpc = "ended" => head >= tailAtClose

\* While the epoch a thread read is still current, whoever made its condition
\* true has yet to increment the epoch; once it is not, a notify is still due.
ConsumerWakeInv ==
    /\ cpc \in {"retestClosed", "retestEmpty", "wait", "asleep"} => cepoch <= dataEpoch
    /\ cpc \in {"wait", "asleep"} /\ cepoch = dataEpoch /\ head # tail =>
           ppc = "bumpData"
    /\ cpc \in {"retestEmpty", "wait", "asleep"} /\ cepoch = dataEpoch /\ closed =>
           kpc = "bumpData"
    /\ cpc = "asleep" /\ cepoch # dataEpoch =>
           ppc = "notifyData" \/ kpc \in {"bumpSpace", "notifyData"}

ProducerWakeInv ==
    /\ ppc \in {"retestClosed", "retestFull", "wait", "asleep"} => pepoch <= spaceEpoch
    /\ ppc \in {"wait", "asleep"} /\ pepoch = spaceEpoch /\ tail - head < Capacity =>
           cpc = "bumpSpace"
    /\ ppc \in {"retestFull", "wait", "asleep"} /\ pepoch = spaceEpoch /\ closed =>
           kpc \in {"bumpData", "bumpSpace"}
    /\ ppc = "asleep" /\ pepoch # spaceEpoch =>
           cpc = "notifySpace" \/ kpc \in {"notifyData", "notifySpace"}

\* A push in progress has an item of its own, so tail_ stays within the bound.
BoundInv ==
    /\ tail <= MaxItems
    /\ ppc \notin {"idle", "refused", "bumpData", "notifyData"} => tail < MaxItems

IInv ==
    TypeOK /\ RingInv /\ CloseInv /\ ConsumerWakeInv /\ ProducerWakeInv /\ BoundInv
-----------------------------------------------------------------------------
(* The slots of the ring are remainders by its capacity.                   *)

\* Division with remainder, for a divisor that is a capacity.
LEMMA DivMod ==
  ASSUME NEW C \in Nat \ {0}, NEW i \in Nat
  PROVE  i = C * (i \div C) + (i % C) /\ i \div C \in Nat /\ i % C \in 0 .. C - 1
  OBVIOUS

\* The only multiple of the capacity strictly between -Capacity and Capacity is 0.
LEMMA SmallMultiple ==
  ASSUME NEW C \in Nat \ {0}, NEW k \in Int, C * k < C, -C < C * k
  PROVE  k = 0
<1>1. ASSUME k >= 1 PROVE FALSE
  <2>1. PICK m \in Nat : k = 1 + m BY <1>1
  <2>2. C * k = C + C * m BY <2>1
  <2>3. C * m >= 0 BY <2>1
  <2> QED BY <2>2, <2>3
<1>2. ASSUME k <= -1 PROVE FALSE
  <2>1. PICK m \in Nat : k = -1 - m BY <1>2
  <2>2. C * k = -C - C * m BY <2>1
  <2>3. C * m >= 0 BY <2>1
  <2> QED BY <2>2, <2>3
<1> QED BY <1>1, <1>2

\* Two indices in the same slot that are less than a capacity apart are equal.
LEMMA ModEqual ==
  ASSUME NEW C \in Nat \ {0}, NEW i \in Nat, NEW j \in Nat, i < j, j - i < C
  PROVE  i % C # j % C
<1> SUFFICES ASSUME i % C = j % C PROVE FALSE OBVIOUS
<1>. DEFINE p == i \div C
            q == j \div C
            r == i % C
<1>1. i = C * p + r /\ p \in Nat /\ r \in 0 .. C - 1 BY DivMod
<1>2. j = C * q + r /\ q \in Nat BY DivMod
<1> HIDE DEF p, q, r
<1>3. j - i = C * (q - p) BY <1>1, <1>2
<1>4. q - p = 0 BY <1>3, <1>1, <1>2, SmallMultiple
<1> QED BY <1>3, <1>4

\* An index and the one a capacity later share a slot.
LEMMA ModWraps ==
  ASSUME NEW C \in Nat \ {0}, NEW i \in Nat
  PROVE  (i + C) % C = i % C
<1>. DEFINE p == i \div C
            r == i % C
            q == (i + C) \div C
            s == (i + C) % C
<1>1. i = C * p + r /\ p \in Nat /\ r \in 0 .. C - 1 BY DivMod
<1>2. i + C = C * q + s /\ q \in Nat /\ s \in 0 .. C - 1
  <2>1. i + C \in Nat OBVIOUS
  <2> QED BY <2>1, DivMod
<1>0. r = i % C /\ s = (i + C) % C OBVIOUS
<1> HIDE DEF p, q, r, s
<1>3. C * (q - p - 1) = r - s BY <1>1, <1>2
<1>4. q - p - 1 = 0
  <2>1. C * (q - p - 1) < C /\ -C < C * (q - p - 1) BY <1>3, <1>1, <1>2
  <2>2. q - p - 1 \in Int BY <1>1, <1>2
  <2> QED BY <2>1, <2>2, SmallMultiple
<1>5. r - s = 0 BY <1>3, <1>4
<1> QED BY <1>0, <1>5, <1>1, <1>2

-----------------------------------------------------------------------------
\* Every index has a slot in the ring.
LEMMA SlotOfType == ASSUME NEW i \in Nat PROVE SlotOf(i) \in 0 .. Capacity - 1
  BY CapacityAssumption, DivMod DEF SlotOf

\* ModWraps, said of SlotOf.
LEMMA SlotOfWraps == ASSUME NEW i \in Nat PROVE SlotOf(i + Capacity) = SlotOf(i)
  BY CapacityAssumption, ModWraps DEF SlotOf

\* Indices less than a capacity apart have different slots.
LEMMA SlotOfInjective ==
  ASSUME NEW i \in Nat, NEW j \in Nat, i < j, j - i < Capacity
  PROVE  SlotOf(i) # SlotOf(j)
  BY CapacityAssumption, ModEqual DEF SlotOf
-----------------------------------------------------------------------------
\* The initial state is well typed.
LEMMA TypeOKInit == Init => TypeOK
<1> SUFFICES ASSUME Init PROVE TypeOK
  OBVIOUS
<1>1. slots \in [0 .. Capacity - 1 -> Nat]
  BY DEF Init, Empty
<1> QED
  BY <1>1 DEF Init, TypeOK, Empty, ProducerStages, ConsumerStages, CloserStages,
     PopStages, PopForStages

\* Every step keeps the types.
LEMMA TypeOKStep == TypeOK /\ [Next]_vars => TypeOK'
<1> SUFFICES ASSUME TypeOK, [Next]_vars PROVE TypeOK'
  OBVIOUS
<1> USE DEF ProducerGoes, ConsumerGoes, ConsumerOnly, CloserGoes, WakeConsumer,
    WakeProducer, ringVars, producerVars, consumerVars, closerVars
<1> USE DEF TypeOK, ProducerStages, ConsumerStages, CloserStages, PopStages, PopForStages
<1>1. CASE PushBegin BY <1>1 DEF PushBegin
<1>2. CASE TryPushClosed BY <1>2 DEF TryPushClosed
<1>3. CASE TryPushFull BY <1>3 DEF TryPushFull
<1>4. CASE TryPushEmplace
  <2>1. SlotOf(tail) \in 0 .. Capacity - 1
    BY SlotOfType
  <2>2. slots' \in [0 .. Capacity - 1 -> Nat]
    BY <1>4, <2>1 DEF TryPushEmplace
  <2> QED
    BY <1>4, <2>2 DEF TryPushEmplace
<1>5. CASE TryPushStoreTail BY <1>5 DEF TryPushStoreTail
<1>6. CASE TryPushBump BY <1>6 DEF TryPushBump
<1>7. CASE TryPushNotify BY <1>7 DEF TryPushNotify
<1>8. CASE PushTestClosed BY <1>8 DEF PushTestClosed
<1>9. CASE PushLoadEpoch BY <1>9 DEF PushLoadEpoch
<1>10. CASE PushRetestClosed BY <1>10 DEF PushRetestClosed
<1>11. CASE PushRetestFull BY <1>11 DEF PushRetestFull
<1>12. CASE PushWait BY <1>12 DEF PushWait
<1>13. CASE PopBegin BY <1>13 DEF PopBegin
<1>14. CASE PopForBegin BY <1>14 DEF PopForBegin
<1>15. CASE TryPopTest BY <1>15 DEF TryPopTest
<1>16. CASE TryPopTake
  <2>1. SlotOf(head) \in 0 .. Capacity - 1
    BY SlotOfType
  <2>2. slots' \in [0 .. Capacity - 1 -> Nat] /\ value' \in Nat
    BY <1>16, <2>1 DEF TryPopTake, Empty
  <2> QED
    BY <1>16, <2>2 DEF TryPopTake
<1>17. CASE TryPopStoreHead BY <1>17 DEF TryPopStoreHead
<1>18. CASE TryPopBump BY <1>18 DEF TryPopBump
<1>19. CASE TryPopNotify BY <1>19 DEF TryPopNotify
<1>20. CASE PopTestClosed BY <1>20 DEF PopTestClosed
<1>21. CASE PopTestEmpty BY <1>21 DEF PopTestEmpty
<1>22. CASE PopLoadEpoch BY <1>22 DEF PopLoadEpoch
<1>23. CASE PopRetestClosed BY <1>23 DEF PopRetestClosed
<1>24. CASE PopRetestEmpty BY <1>24 DEF PopRetestEmpty
<1>25. CASE PopWait BY <1>25 DEF PopWait
<1>26. CASE PopForDeadline BY <1>26 DEF PopForDeadline
<1>27. CASE CloseStore BY <1>27 DEF CloseStore
<1>28. CASE CloseBumpData BY <1>28 DEF CloseBumpData
<1>29. CASE CloseBumpSpace BY <1>29 DEF CloseBumpSpace
<1>30. CASE CloseNotifyData BY <1>30 DEF CloseNotifyData
<1>31. CASE CloseNotifySpace BY <1>31 DEF CloseNotifySpace
<1>32. CASE UNCHANGED vars
  BY <1>32 DEF vars
<1> QED
  BY <1>1, <1>2, <1>3, <1>4, <1>5, <1>6, <1>7, <1>8, <1>9, <1>10, <1>11, <1>12, <1>13,
      <1>14, <1>15, <1>16, <1>17, <1>18, <1>19, <1>20, <1>21, <1>22, <1>23, <1>24,
      <1>25, <1>26, <1>27, <1>28, <1>29, <1>30, <1>31, <1>32 DEF Next, Push, Pop,
      CloseRest, Terminated

\* The fields and locals of the queue keep their types, whatever the capacity.
THEOREM TypeCorrect == Spec => []TypeOK
  BY TypeOKInit, TypeOKStep, PTL DEF Spec
-----------------------------------------------------------------------------
(* The ring.                                                               *)

\* The empty ring satisfies the ring invariant.
LEMMA RingInvInit == Init => RingInv
<1> SUFFICES ASSUME Init PROVE RingInv
  OBVIOUS
<1>1. \A j \in 0 .. Capacity - 1 : slots[SlotOf(j)] = Empty
  BY SlotOfType, CapacityAssumption DEF Init
<1> QED
  BY <1>1, CapacityAssumption
     DEF Init, RingInv, Stored, FirstStored, LastStored, FifoDelivery, Empty

\* Most steps neither move an index nor touch a slot: for them it is enough that
\* the thread that moved knows what its new stage needs.
LEMMA RingInvFrame ==
  ASSUME TypeOK, RingInv, UNCHANGED <<slots, head, tail, value>>,
         cpc' = "storeHead" <=> cpc = "storeHead",
         ppc' = "storeTail" <=> ppc = "storeTail",
         cpc' = "take" => head < tail,
         ppc' = "emplace" => tail - head < Capacity
  PROVE  RingInv'
<1>1. FirstStored' = FirstStored /\ LastStored' = LastStored
  BY DEF FirstStored, LastStored
<1>2. (\A j \in Stored : slots[SlotOf(j)] = j + 1)'
  BY <1>1 DEF Stored, SlotOf, RingInv
<1>3. (\A j \in LastStored + 1 .. FirstStored + Capacity - 1 : slots[SlotOf(j)] = Empty)'
  BY <1>1 DEF SlotOf, RingInv
<1> QED
  BY <1>2, <1>3 DEF RingInv, FifoDelivery, TypeOK

\* Every step of push, pop and close keeps the ring invariant.
LEMMA RingInvStep == TypeOK /\ RingInv /\ [Next]_vars => RingInv'
<1> SUFFICES ASSUME TypeOK, RingInv, [Next]_vars PROVE RingInv'
  OBVIOUS
<1> USE DEF ProducerGoes, ConsumerGoes, ConsumerOnly, CloserGoes, WakeConsumer,
    WakeProducer, ringVars, producerVars, consumerVars, closerVars
<1>0. /\ head \in Nat /\ tail \in Nat /\ Capacity \in Nat /\ head <= tail
      /\ cpc = "take" => head < tail
      /\ ppc = "emplace" => tail - head < Capacity
  BY CapacityAssumption DEF TypeOK, RingInv
<1>1. CASE PushBegin BY <1>1, <1>0, RingInvFrame DEF PushBegin
<1>2. CASE TryPushClosed BY <1>2, <1>0, RingInvFrame DEF TryPushClosed
<1>3. CASE TryPushFull BY <1>3, <1>0, RingInvFrame DEF TryPushFull
<1>4. CASE TryPushEmplace
  <2> USE <1>0, CapacityAssumption
  <2>1. /\ FirstStored \in Nat /\ FirstStored <= tail /\ LastStored = tail - 1
        /\ FirstStored' = FirstStored /\ LastStored' = tail
        /\ tail - FirstStored < Capacity
    BY <1>4 DEF TryPushEmplace, FirstStored, LastStored, RingInv
  <2>2. slots'[SlotOf(tail)] = tail + 1
    BY <1>4, SlotOfType DEF TryPushEmplace, TypeOK
  <2>3. \A j \in Nat : j # tail /\ j - tail < Capacity /\ tail - j < Capacity
            => slots'[SlotOf(j)] = slots[SlotOf(j)]
    BY <1>4, SlotOfType, SlotOfInjective DEF TryPushEmplace, TypeOK
  <2>4. (\A j \in Stored : slots[SlotOf(j)] = j + 1)'
    <3>1. \A j \in FirstStored .. tail - 1 : slots[SlotOf(j)] = j + 1
      BY <2>1 DEF Stored, RingInv
    <3>2. \A j \in FirstStored .. tail : slots'[SlotOf(j)] = j + 1
      BY <2>1, <2>2, <2>3, <3>1
    <3> QED
      BY <2>1, <3>2 DEF Stored, SlotOf
  <2>5. (\A j \in LastStored + 1 .. FirstStored + Capacity - 1 : slots[SlotOf(j)] = Empty)'
    <3>1. \A j \in tail .. FirstStored + Capacity - 1 : slots[SlotOf(j)] = Empty
      BY <2>1 DEF RingInv
    <3>2. \A j \in tail + 1 .. FirstStored + Capacity - 1 : slots'[SlotOf(j)] = Empty
      BY <2>1, <2>3, <3>1
    <3> QED
      BY <2>1, <3>2 DEF SlotOf
  <2> QED
    BY <1>4, <2>4, <2>5 DEF TryPushEmplace, RingInv, FifoDelivery
<1>5. CASE TryPushStoreTail
  <2> USE <1>0, CapacityAssumption
  <2>1. FirstStored' = FirstStored /\ LastStored' = LastStored
    BY <1>5 DEF TryPushStoreTail, FirstStored, LastStored
  <2>2. (\A j \in Stored : slots[SlotOf(j)] = j + 1)'
    BY <1>5, <2>1 DEF TryPushStoreTail, Stored, SlotOf, RingInv
  <2>3. (\A j \in LastStored + 1 .. FirstStored + Capacity - 1 : slots[SlotOf(j)] = Empty)'
    BY <1>5, <2>1 DEF TryPushStoreTail, SlotOf, RingInv
  <2> QED
    BY <1>5, <2>2, <2>3 DEF TryPushStoreTail, RingInv, FifoDelivery
<1>6. CASE TryPushBump BY <1>6, <1>0, RingInvFrame DEF TryPushBump
<1>7. CASE TryPushNotify BY <1>7, <1>0, RingInvFrame DEF TryPushNotify
<1>8. CASE PushTestClosed BY <1>8, <1>0, RingInvFrame DEF PushTestClosed
<1>9. CASE PushLoadEpoch BY <1>9, <1>0, RingInvFrame DEF PushLoadEpoch
<1>10. CASE PushRetestClosed BY <1>10, <1>0, RingInvFrame DEF PushRetestClosed
<1>11. CASE PushRetestFull BY <1>11, <1>0, RingInvFrame DEF PushRetestFull
<1>12. CASE PushWait BY <1>12, <1>0, RingInvFrame DEF PushWait
<1>13. CASE PopBegin BY <1>13, <1>0, RingInvFrame DEF PopBegin
<1>14. CASE PopForBegin BY <1>14, <1>0, RingInvFrame DEF PopForBegin
<1>15. CASE TryPopTest BY <1>15, <1>0, RingInvFrame DEF TryPopTest
<1>16. CASE TryPopTake
  <2> USE <1>0, CapacityAssumption
  <2>1. /\ head < tail /\ FirstStored = head /\ FirstStored' = head + 1
        /\ LastStored \in Nat /\ LastStored >= head /\ LastStored' = LastStored
        /\ LastStored - head < Capacity
    BY <1>16 DEF TryPopTake, FirstStored, LastStored, RingInv
  <2>2. slots[SlotOf(head)] = head + 1
    BY <2>1 DEF Stored, RingInv
  <2>3. slots'[SlotOf(head)] = Empty /\ slots'[SlotOf(head + Capacity)] = Empty
    BY <1>16, SlotOfType, SlotOfWraps DEF TryPopTake, TypeOK
  <2>4. \A j \in Nat : head < j /\ j < head + Capacity => slots'[SlotOf(j)] = slots[SlotOf(j)]
    BY <1>16, SlotOfType, SlotOfInjective DEF TryPopTake, TypeOK
  <2>5. (\A j \in Stored : slots[SlotOf(j)] = j + 1)'
    <3>1. \A j \in head .. LastStored : slots[SlotOf(j)] = j + 1
      BY <2>1 DEF Stored, RingInv
    <3>2. \A j \in head + 1 .. LastStored : slots'[SlotOf(j)] = j + 1
      BY <2>1, <2>4, <3>1
    <3> QED
      BY <2>1, <3>2 DEF Stored, SlotOf
  <2>6. (\A j \in LastStored + 1 .. FirstStored + Capacity - 1 : slots[SlotOf(j)] = Empty)'
    <3>1. \A j \in LastStored + 1 .. head + Capacity - 1 : slots[SlotOf(j)] = Empty
      BY <2>1 DEF RingInv
    <3>2. \A j \in LastStored + 1 .. head + Capacity : slots'[SlotOf(j)] = Empty
      BY <2>1, <2>3, <2>4, <3>1
    <3> QED
      BY <2>1, <3>2 DEF SlotOf
  <2> QED
    BY <1>16, <2>1, <2>2, <2>5, <2>6
       DEF TryPopTake, RingInv, FifoDelivery
<1>17. CASE TryPopStoreHead
  <2> USE <1>0, CapacityAssumption
  <2>1. FirstStored' = FirstStored /\ LastStored' = LastStored
    BY <1>17 DEF TryPopStoreHead, FirstStored, LastStored
  <2>2. (\A j \in Stored : slots[SlotOf(j)] = j + 1)'
    BY <1>17, <2>1 DEF TryPopStoreHead, Stored, SlotOf, RingInv
  <2>3. (\A j \in LastStored + 1 .. FirstStored + Capacity - 1 : slots[SlotOf(j)] = Empty)'
    BY <1>17, <2>1 DEF TryPopStoreHead, SlotOf, RingInv
  <2> QED
    BY <1>17, <2>2, <2>3 DEF TryPopStoreHead, RingInv, FifoDelivery
<1>18. CASE TryPopBump BY <1>18, <1>0, RingInvFrame DEF TryPopBump
<1>19. CASE TryPopNotify BY <1>19, <1>0, RingInvFrame DEF TryPopNotify
<1>20. CASE PopTestClosed BY <1>20, <1>0, RingInvFrame DEF PopTestClosed
<1>21. CASE PopTestEmpty BY <1>21, <1>0, RingInvFrame DEF PopTestEmpty
<1>22. CASE PopLoadEpoch BY <1>22, <1>0, RingInvFrame DEF PopLoadEpoch
<1>23. CASE PopRetestClosed BY <1>23, <1>0, RingInvFrame DEF PopRetestClosed
<1>24. CASE PopRetestEmpty BY <1>24, <1>0, RingInvFrame DEF PopRetestEmpty
<1>25. CASE PopWait BY <1>25, <1>0, RingInvFrame DEF PopWait
<1>26. CASE PopForDeadline BY <1>26, <1>0, RingInvFrame DEF PopForDeadline
<1>27. CASE CloseStore BY <1>27, <1>0, RingInvFrame DEF CloseStore
<1>28. CASE CloseBumpData BY <1>28, <1>0, RingInvFrame DEF CloseBumpData
<1>29. CASE CloseBumpSpace BY <1>29, <1>0, RingInvFrame DEF CloseBumpSpace
<1>30. CASE CloseNotifyData BY <1>30, <1>0, RingInvFrame DEF CloseNotifyData
<1>31. CASE CloseNotifySpace BY <1>31, <1>0, RingInvFrame DEF CloseNotifySpace
<1>32. CASE UNCHANGED vars
  BY <1>32, RingInvFrame, CapacityAssumption DEF RingInv, vars
<1> QED
  BY <1>1, <1>2, <1>3, <1>4, <1>5, <1>6, <1>7, <1>8, <1>9, <1>10, <1>11, <1>12, <1>13,
      <1>14, <1>15, <1>16, <1>17, <1>18, <1>19, <1>20, <1>21, <1>22, <1>23, <1>24,
      <1>25, <1>26, <1>27, <1>28, <1>29, <1>30, <1>31, <1>32 DEF Next, Push, Pop,
      CloseRest, Terminated
-----------------------------------------------------------------------------
(* Where close() cuts the stream.                                          *)

\* Every step keeps the facts about where close() cuts the stream.
LEMMA CloseInvStep == TypeOK /\ RingInv /\ CloseInv /\ [Next]_vars => CloseInv'
<1> SUFFICES ASSUME TypeOK, RingInv, CloseInv, [Next]_vars PROVE CloseInv'
  OBVIOUS
<1> USE DEF ProducerGoes, ConsumerGoes, ConsumerOnly, CloserGoes, WakeConsumer,
    WakeProducer, ringVars, producerVars, consumerVars, closerVars
<1>0. head \in Nat /\ tail \in Nat /\ tailAtClose \in Nat /\ closed \in BOOLEAN
      /\ head <= tail
  BY DEF TypeOK, RingInv
<1> USE <1>0 DEF CloseInv
<1>1. CASE PushBegin BY <1>1 DEF PushBegin
<1>2. CASE TryPushClosed BY <1>2 DEF TryPushClosed
<1>3. CASE TryPushFull BY <1>3 DEF TryPushFull
<1>4. CASE TryPushEmplace BY <1>4 DEF TryPushEmplace
<1>5. CASE TryPushStoreTail BY <1>5 DEF TryPushStoreTail
<1>6. CASE TryPushBump BY <1>6 DEF TryPushBump
<1>7. CASE TryPushNotify BY <1>7 DEF TryPushNotify
<1>8. CASE PushTestClosed BY <1>8 DEF PushTestClosed
<1>9. CASE PushLoadEpoch BY <1>9 DEF PushLoadEpoch
<1>10. CASE PushRetestClosed BY <1>10 DEF PushRetestClosed
<1>11. CASE PushRetestFull BY <1>11 DEF PushRetestFull
<1>12. CASE PushWait BY <1>12 DEF PushWait
<1>13. CASE PopBegin BY <1>13 DEF PopBegin
<1>14. CASE PopForBegin BY <1>14 DEF PopForBegin
<1>15. CASE TryPopTest BY <1>15 DEF TryPopTest
<1>16. CASE TryPopTake BY <1>16 DEF TryPopTake
<1>17. CASE TryPopStoreHead BY <1>17 DEF TryPopStoreHead
<1>18. CASE TryPopBump BY <1>18 DEF TryPopBump
<1>19. CASE TryPopNotify BY <1>19 DEF TryPopNotify
<1>20. CASE PopTestClosed BY <1>20 DEF PopTestClosed
<1>21. CASE PopTestEmpty BY <1>21 DEF PopTestEmpty
<1>22. CASE PopLoadEpoch BY <1>22 DEF PopLoadEpoch
<1>23. CASE PopRetestClosed BY <1>23 DEF PopRetestClosed
<1>24. CASE PopRetestEmpty BY <1>24 DEF PopRetestEmpty
<1>25. CASE PopWait BY <1>25 DEF PopWait
<1>26. CASE PopForDeadline BY <1>26 DEF PopForDeadline
<1>27. CASE CloseStore BY <1>27 DEF CloseStore
<1>28. CASE CloseBumpData BY <1>28 DEF CloseBumpData
<1>29. CASE CloseBumpSpace BY <1>29 DEF CloseBumpSpace
<1>30. CASE CloseNotifyData BY <1>30 DEF CloseNotifyData
<1>31. CASE CloseNotifySpace BY <1>31 DEF CloseNotifySpace
<1>32. CASE UNCHANGED vars
  BY <1>32 DEF vars
<1> QED
  BY <1>1, <1>2, <1>3, <1>4, <1>5, <1>6, <1>7, <1>8, <1>9, <1>10, <1>11, <1>12, <1>13,
      <1>14, <1>15, <1>16, <1>17, <1>18, <1>19, <1>20, <1>21, <1>22, <1>23, <1>24,
      <1>25, <1>26, <1>27, <1>28, <1>29, <1>30, <1>31, <1>32 DEF Next, Push, Pop,
      CloseRest, Terminated
-----------------------------------------------------------------------------
(* The two eventcounts.                                                    *)

\* Every step keeps the reason why a sleeping consumer sleeps.
LEMMA ConsumerWakeStep ==
  TypeOK /\ CloseInv /\ ConsumerWakeInv /\ [Next]_vars => ConsumerWakeInv'
<1> SUFFICES ASSUME TypeOK, CloseInv, ConsumerWakeInv, [Next]_vars PROVE ConsumerWakeInv'
  OBVIOUS
<1> USE DEF ProducerGoes, ConsumerGoes, ConsumerOnly, CloserGoes, WakeConsumer,
    WakeProducer, ringVars, producerVars, consumerVars, closerVars
<1>0. /\ head \in Nat /\ tail \in Nat /\ dataEpoch \in Nat /\ cepoch \in Nat
      /\ closed \in BOOLEAN /\ (kpc = "idle" <=> ~closed)
  BY DEF TypeOK, CloseInv
<1> USE <1>0 DEF ConsumerWakeInv
<1>1. CASE PushBegin BY <1>1 DEF PushBegin
<1>2. CASE TryPushClosed BY <1>2 DEF TryPushClosed
<1>3. CASE TryPushFull BY <1>3 DEF TryPushFull
<1>4. CASE TryPushEmplace BY <1>4 DEF TryPushEmplace
<1>5. CASE TryPushStoreTail BY <1>5 DEF TryPushStoreTail
<1>6. CASE TryPushBump BY <1>6 DEF TryPushBump
<1>7. CASE TryPushNotify BY <1>7 DEF TryPushNotify
<1>8. CASE PushTestClosed BY <1>8 DEF PushTestClosed
<1>9. CASE PushLoadEpoch BY <1>9 DEF PushLoadEpoch
<1>10. CASE PushRetestClosed BY <1>10 DEF PushRetestClosed
<1>11. CASE PushRetestFull BY <1>11 DEF PushRetestFull
<1>12. CASE PushWait BY <1>12 DEF PushWait
<1>13. CASE PopBegin BY <1>13 DEF PopBegin
<1>14. CASE PopForBegin BY <1>14 DEF PopForBegin
<1>15. CASE TryPopTest BY <1>15 DEF TryPopTest
<1>16. CASE TryPopTake BY <1>16 DEF TryPopTake
<1>17. CASE TryPopStoreHead BY <1>17 DEF TryPopStoreHead
<1>18. CASE TryPopBump BY <1>18 DEF TryPopBump
<1>19. CASE TryPopNotify BY <1>19 DEF TryPopNotify
<1>20. CASE PopTestClosed BY <1>20 DEF PopTestClosed
<1>21. CASE PopTestEmpty BY <1>21 DEF PopTestEmpty
<1>22. CASE PopLoadEpoch BY <1>22 DEF PopLoadEpoch
<1>23. CASE PopRetestClosed BY <1>23 DEF PopRetestClosed
<1>24. CASE PopRetestEmpty BY <1>24 DEF PopRetestEmpty
<1>25. CASE PopWait BY <1>25 DEF PopWait
<1>26. CASE PopForDeadline BY <1>26 DEF PopForDeadline
<1>27. CASE CloseStore BY <1>27 DEF CloseStore
<1>28. CASE CloseBumpData BY <1>28 DEF CloseBumpData
<1>29. CASE CloseBumpSpace BY <1>29 DEF CloseBumpSpace
<1>30. CASE CloseNotifyData BY <1>30 DEF CloseNotifyData
<1>31. CASE CloseNotifySpace BY <1>31 DEF CloseNotifySpace
<1>32. CASE UNCHANGED vars
  BY <1>32 DEF vars
<1> QED
  BY <1>1, <1>2, <1>3, <1>4, <1>5, <1>6, <1>7, <1>8, <1>9, <1>10, <1>11, <1>12, <1>13,
      <1>14, <1>15, <1>16, <1>17, <1>18, <1>19, <1>20, <1>21, <1>22, <1>23, <1>24,
      <1>25, <1>26, <1>27, <1>28, <1>29, <1>30, <1>31, <1>32 DEF Next, Push, Pop,
      CloseRest, Terminated

\* Every step keeps the reason why a sleeping producer sleeps.
LEMMA ProducerWakeStep ==
  TypeOK /\ CloseInv /\ ProducerWakeInv /\ [Next]_vars => ProducerWakeInv'
<1> SUFFICES ASSUME TypeOK, CloseInv, ProducerWakeInv, [Next]_vars PROVE ProducerWakeInv'
  OBVIOUS
<1> USE DEF ProducerGoes, ConsumerGoes, ConsumerOnly, CloserGoes, WakeConsumer,
    WakeProducer, ringVars, producerVars, consumerVars, closerVars
<1>0. /\ head \in Nat /\ tail \in Nat /\ spaceEpoch \in Nat /\ pepoch \in Nat
      /\ closed \in BOOLEAN /\ (kpc = "idle" <=> ~closed)
  BY DEF TypeOK, CloseInv
<1> USE CapacityAssumption, <1>0 DEF ProducerWakeInv
<1>1. CASE PushBegin BY <1>1 DEF PushBegin
<1>2. CASE TryPushClosed BY <1>2 DEF TryPushClosed
<1>3. CASE TryPushFull BY <1>3 DEF TryPushFull
<1>4. CASE TryPushEmplace BY <1>4 DEF TryPushEmplace
<1>5. CASE TryPushStoreTail BY <1>5 DEF TryPushStoreTail
<1>6. CASE TryPushBump BY <1>6 DEF TryPushBump
<1>7. CASE TryPushNotify BY <1>7 DEF TryPushNotify
<1>8. CASE PushTestClosed BY <1>8 DEF PushTestClosed
<1>9. CASE PushLoadEpoch BY <1>9 DEF PushLoadEpoch
<1>10. CASE PushRetestClosed BY <1>10 DEF PushRetestClosed
<1>11. CASE PushRetestFull BY <1>11 DEF PushRetestFull
<1>12. CASE PushWait BY <1>12 DEF PushWait
<1>13. CASE PopBegin BY <1>13 DEF PopBegin
<1>14. CASE PopForBegin BY <1>14 DEF PopForBegin
<1>15. CASE TryPopTest BY <1>15 DEF TryPopTest
<1>16. CASE TryPopTake BY <1>16 DEF TryPopTake
<1>17. CASE TryPopStoreHead BY <1>17 DEF TryPopStoreHead
<1>18. CASE TryPopBump BY <1>18 DEF TryPopBump
<1>19. CASE TryPopNotify BY <1>19 DEF TryPopNotify
<1>20. CASE PopTestClosed BY <1>20 DEF PopTestClosed
<1>21. CASE PopTestEmpty BY <1>21 DEF PopTestEmpty
<1>22. CASE PopLoadEpoch BY <1>22 DEF PopLoadEpoch
<1>23. CASE PopRetestClosed BY <1>23 DEF PopRetestClosed
<1>24. CASE PopRetestEmpty BY <1>24 DEF PopRetestEmpty
<1>25. CASE PopWait BY <1>25 DEF PopWait
<1>26. CASE PopForDeadline BY <1>26 DEF PopForDeadline
<1>27. CASE CloseStore BY <1>27 DEF CloseStore
<1>28. CASE CloseBumpData BY <1>28 DEF CloseBumpData
<1>29. CASE CloseBumpSpace BY <1>29 DEF CloseBumpSpace
<1>30. CASE CloseNotifyData BY <1>30 DEF CloseNotifyData
<1>31. CASE CloseNotifySpace BY <1>31 DEF CloseNotifySpace
<1>32. CASE UNCHANGED vars
  BY <1>32 DEF vars
<1> QED
  BY <1>1, <1>2, <1>3, <1>4, <1>5, <1>6, <1>7, <1>8, <1>9, <1>10, <1>11, <1>12, <1>13,
      <1>14, <1>15, <1>16, <1>17, <1>18, <1>19, <1>20, <1>21, <1>22, <1>23, <1>24,
      <1>25, <1>26, <1>27, <1>28, <1>29, <1>30, <1>31, <1>32 DEF Next, Push, Pop,
      CloseRest, Terminated

\* The bound on the number of pushes is kept.
LEMMA BoundInvStep == TypeOK /\ BoundInv /\ [Next]_vars => BoundInv'
<1> SUFFICES ASSUME TypeOK, BoundInv, [Next]_vars PROVE BoundInv'
  OBVIOUS
<1> USE DEF ProducerGoes, ConsumerGoes, ConsumerOnly, CloserGoes, WakeConsumer,
    WakeProducer, ringVars, producerVars, consumerVars, closerVars
<1>0. tail \in Nat
  BY DEF TypeOK
<1> USE MaxItemsAssumption, <1>0 DEF BoundInv
<1>1. CASE PushBegin BY <1>1 DEF PushBegin
<1>2. CASE TryPushClosed BY <1>2 DEF TryPushClosed
<1>3. CASE TryPushFull BY <1>3 DEF TryPushFull
<1>4. CASE TryPushEmplace BY <1>4 DEF TryPushEmplace
<1>5. CASE TryPushStoreTail BY <1>5 DEF TryPushStoreTail
<1>6. CASE TryPushBump BY <1>6 DEF TryPushBump
<1>7. CASE TryPushNotify BY <1>7 DEF TryPushNotify
<1>8. CASE PushTestClosed BY <1>8 DEF PushTestClosed
<1>9. CASE PushLoadEpoch BY <1>9 DEF PushLoadEpoch
<1>10. CASE PushRetestClosed BY <1>10 DEF PushRetestClosed
<1>11. CASE PushRetestFull BY <1>11 DEF PushRetestFull
<1>12. CASE PushWait BY <1>12 DEF PushWait
<1>13. CASE PopBegin BY <1>13 DEF PopBegin
<1>14. CASE PopForBegin BY <1>14 DEF PopForBegin
<1>15. CASE TryPopTest BY <1>15 DEF TryPopTest
<1>16. CASE TryPopTake BY <1>16 DEF TryPopTake
<1>17. CASE TryPopStoreHead BY <1>17 DEF TryPopStoreHead
<1>18. CASE TryPopBump BY <1>18 DEF TryPopBump
<1>19. CASE TryPopNotify BY <1>19 DEF TryPopNotify
<1>20. CASE PopTestClosed BY <1>20 DEF PopTestClosed
<1>21. CASE PopTestEmpty BY <1>21 DEF PopTestEmpty
<1>22. CASE PopLoadEpoch BY <1>22 DEF PopLoadEpoch
<1>23. CASE PopRetestClosed BY <1>23 DEF PopRetestClosed
<1>24. CASE PopRetestEmpty BY <1>24 DEF PopRetestEmpty
<1>25. CASE PopWait BY <1>25 DEF PopWait
<1>26. CASE PopForDeadline BY <1>26 DEF PopForDeadline
<1>27. CASE CloseStore BY <1>27 DEF CloseStore
<1>28. CASE CloseBumpData BY <1>28 DEF CloseBumpData
<1>29. CASE CloseBumpSpace BY <1>29 DEF CloseBumpSpace
<1>30. CASE CloseNotifyData BY <1>30 DEF CloseNotifyData
<1>31. CASE CloseNotifySpace BY <1>31 DEF CloseNotifySpace
<1>32. CASE UNCHANGED vars
  BY <1>32 DEF vars
<1> QED
  BY <1>1, <1>2, <1>3, <1>4, <1>5, <1>6, <1>7, <1>8, <1>9, <1>10, <1>11, <1>12, <1>13,
      <1>14, <1>15, <1>16, <1>17, <1>18, <1>19, <1>20, <1>21, <1>22, <1>23, <1>24,
      <1>25, <1>26, <1>27, <1>28, <1>29, <1>30, <1>31, <1>32 DEF Next, Push, Pop,
      CloseRest, Terminated
-----------------------------------------------------------------------------
\* The inductive invariant is kept by every step.
LEMMA IInvInductive == IInv /\ [Next]_vars => IInv'
  BY TypeOKStep, RingInvStep, CloseInvStep, ConsumerWakeStep, ProducerWakeStep,
     BoundInvStep DEF IInv

\* The inductive invariant holds initially.
LEMMA IInvInit == Init => IInv
  BY TypeOKInit, RingInvInit, MaxItemsAssumption
     DEF IInv, BoundInv, Init, CloseInv, ConsumerWakeInv, ProducerWakeInv

\* The inductive invariant, from which the safety theorems follow, always holds.
THEOREM InductiveInvariant == Spec => []IInv
  BY IInvInit, IInvInductive, PTL DEF Spec

\* tryPush and tryPop never touch one slot at the same time and tail_ - head_
\* stays within the capacity, for every capacity.
THEOREM SlotExclusionHolds == Spec => []SlotExclusion
<1>1. IInv => SlotExclusion
  <2> SUFFICES ASSUME IInv PROVE SlotExclusion
    OBVIOUS
  <2>1. head \in Nat /\ tail \in Nat /\ RingInv
    BY DEF IInv, TypeOK
  <2>2. ASSUME ppc = "emplace" PROVE slots[SlotOf(tail)] = Empty
    BY <2>1, <2>2, CapacityAssumption DEF RingInv, FirstStored, LastStored
  <2>3. ASSUME cpc = "take" PROVE slots[SlotOf(head)] = head + 1
    BY <2>1, <2>3, CapacityAssumption DEF RingInv, Stored, FirstStored, LastStored
  <2>4. ASSUME ppc = "emplace", cpc = "take" PROVE SlotOf(head) # SlotOf(tail)
    BY <2>1, <2>4, SlotOfInjective DEF RingInv
  <2> QED
    BY <2>1, <2>2, <2>3, <2>4 DEF SlotExclusion, RingInv
<1> QED
  BY <1>1, InductiveInvariant, PTL

\* pop() hands over the items in push order, each exactly once.
THEOREM FifoDeliveryHolds == Spec => []FifoDelivery
<1>1. IInv => FifoDelivery
  BY DEF IInv, RingInv
<1> QED
  BY <1>1, InductiveInvariant, PTL

\* The end of the stream is reported only after everything pushed before close().
THEOREM DrainedOnCloseHolds == Spec => []DrainedOnClose
<1>1. IInv => DrainedOnClose
  BY DEF IInv, CloseInv, DrainedOnClose
<1> QED
  BY <1>1, InductiveInvariant, PTL

\* No wake-up of a producer or a consumer in atomic::wait is lost.
THEOREM NoLostWakeupHolds == Spec => []NoLostWakeup
<1>1. IInv => NoLostWakeup
  BY DEF IInv, CloseInv, ConsumerWakeInv, ProducerWakeInv, NoLostWakeup
<1> QED
  BY <1>1, InductiveInvariant, PTL
-----------------------------------------------------------------------------
(* The refinement of BoundedFifo.  The ring holds the items FirstStored + 1 *)
(* to tail, so the abstract queue is known from the indices alone.          *)

ContentsFrom(first, last) == [i \in 1 .. last - first |-> first + i]

\* What the abstract queue holds at position i is the item of the i-th stored index.
LEMMA ContentsValue ==
  IInv => /\ contents = ContentsFrom(FirstStored, tail)
          /\ FirstStored \in Nat /\ FirstStored <= tail /\ head <= FirstStored
<1> SUFFICES ASSUME IInv
             PROVE  /\ contents = ContentsFrom(FirstStored, tail)
                    /\ FirstStored \in Nat /\ FirstStored <= tail /\ head <= FirstStored
  OBVIOUS
<1>1. /\ head \in Nat /\ tail \in Nat /\ FirstStored \in Nat /\ FirstStored <= tail
      /\ head <= FirstStored /\ LastStored \in Int /\ LastStored >= tail - 1
  BY CapacityAssumption DEF IInv, TypeOK, RingInv, FirstStored, LastStored
<1>2. \A j \in FirstStored .. tail - 1 : slots[SlotOf(j)] = j + 1
  BY <1>1 DEF IInv, RingInv, Stored
<1>3. \A i \in 1 .. tail - FirstStored : slots[SlotOf(FirstStored + i - 1)] = FirstStored + i
  BY <1>1, <1>2
<1> QED
  BY <1>1, <1>3 DEF contents, ContentsFrom

\* Publishing an item appends it to the abstract contents.
LEMMA ContentsAppend ==
  ASSUME NEW first \in Nat, NEW last \in Nat, first <= last
  PROVE  /\ ContentsFrom(first, last) \in Seq(Nat)
         /\ Len(ContentsFrom(first, last)) = last - first
         /\ ContentsFrom(first, last + 1) = Append(ContentsFrom(first, last), last + 1)
  BY DEF ContentsFrom

\* Taking an item removes the head of the abstract contents.
LEMMA ContentsTail ==
  ASSUME NEW first \in Nat, NEW last \in Nat, first < last
  PROVE  /\ Head(ContentsFrom(first, last)) = first + 1
         /\ ContentsFrom(first + 1, last) = Tail(ContentsFrom(first, last))
         /\ ContentsFrom(first, last) # <<>>
<1>. DEFINE c == ContentsFrom(first, last)
<1>1. c \in Seq(Nat) /\ Len(c) = last - first /\ c # <<>>
  BY DEF ContentsFrom
<1>2. \A i \in 1 .. last - first : c[i] = first + i
  BY DEF ContentsFrom
<1>3. Head(c) = first + 1
  BY <1>1, <1>2
<1>4. /\ Tail(c) \in Seq(Nat) /\ Len(Tail(c)) = last - first - 1
      /\ \A i \in 1 .. last - first - 1 : Tail(c)[i] = c[i + 1]
  BY <1>1, HeadTailProperties
<1>. DEFINE d == ContentsFrom(first + 1, last)
<1>5. /\ d \in Seq(Nat) /\ Len(d) = last - first - 1
      /\ \A i \in 1 .. last - first - 1 : d[i] = first + 1 + i
  BY DEF ContentsFrom
<1>6. \A i \in 1 .. last - first - 1 : Tail(c)[i] = d[i]
  BY <1>2, <1>4, <1>5
<1> HIDE DEF c, d
<1>7. Tail(c) = d
  BY <1>4, <1>5, <1>6, SeqEqual
<1> QED
  BY <1>1, <1>3, <1>7 DEF c, d

\* A ring without stored items is the empty sequence.
LEMMA ContentsEmpty == ASSUME NEW first \in Nat PROVE ContentsFrom(first, first) = <<>>
  BY DEF ContentsFrom

\* Every step of the queue is a step of the FIFO or changes nothing it shows.
LEMMA RefinementStep ==
  IInv /\ IInv' /\ [Next]_vars => [Fifo!FifoNext]_Fifo!fifoVars
<1> SUFFICES ASSUME IInv, IInv', [Next]_vars PROVE [Fifo!FifoNext]_Fifo!fifoVars
  OBVIOUS
<1> USE DEF ProducerGoes, ConsumerGoes, ConsumerOnly, CloserGoes, WakeConsumer,
    WakeProducer, ringVars, producerVars, consumerVars, closerVars
<1>0. /\ head \in Nat /\ tail \in Nat /\ closed \in BOOLEAN /\ tailAtClose \in Nat
      /\ FirstStored \in Nat /\ FirstStored <= tail /\ head <= FirstStored
      /\ contents = ContentsFrom(FirstStored, tail)
      /\ contents' = ContentsFrom(FirstStored', tail')
  <2>1. (contents = ContentsFrom(FirstStored, tail))'
    BY ContentsValue, PTL
  <2>2. contents' = ContentsFrom(FirstStored', tail')
    BY <2>1 DEF ContentsFrom
  <2> QED
    BY <2>2, ContentsValue DEF IInv, TypeOK
<1>1. ASSUME FirstStored' = FirstStored,
             UNCHANGED <<tail, value, closed, tailAtClose>>,
             cpc' = "ended" <=> cpc = "ended"
      PROVE  UNCHANGED Fifo!fifoVars
  BY <1>0, <1>1 DEF Fifo!fifoVars
<1>2. CASE TryPushStoreTail
  <2>1. /\ ppc = "storeTail" /\ tail' = tail + 1 /\ FirstStored' = FirstStored
        /\ UNCHANGED <<closed, value, tailAtClose, cpc>>
    BY <1>2 DEF TryPushStoreTail, FirstStored
  <2>2. tail + 1 \in 1 .. MaxItems
    BY <2>1, <1>0, MaxItemsAssumption DEF IInv, BoundInv
  <2>3. Len(contents) < Capacity
    <3>1. tail - head < Capacity
      BY <2>1 DEF IInv, RingInv
    <3>2. Len(contents) = tail - FirstStored
      BY <1>0, ContentsAppend
    <3> QED
      BY <3>1, <3>2, <1>0, CapacityAssumption
  <2>4. contents' = Append(contents, tail + 1)
    BY <2>1, <1>0, ContentsAppend
  <2>5. closed => tail = tailAtClose
    BY <2>1 DEF IInv, CloseInv
  <2>6. Fifo!Put(tail + 1)
    BY <2>1, <2>3, <2>4, <2>5, <1>0 DEF Fifo!Put
  <2> QED
    BY <2>2, <2>6 DEF Fifo!FifoNext
<1>3. CASE TryPopTake
  <2>1. /\ cpc = "take" /\ cpc' = "storeHead" /\ FirstStored = head
        /\ FirstStored' = FirstStored + 1
        /\ UNCHANGED <<tail, closed, tailAtClose>> /\ head' = head
    BY <1>3 DEF TryPopTake, FirstStored
  <2>2. head < tail /\ value' = head + 1
    BY <2>1 DEF IInv, RingInv, FifoDelivery
  <2>3. value' = Head(contents) /\ contents' = Tail(contents) /\ contents # <<>>
    BY <2>1, <2>2, <1>0, ContentsTail
  <2>4. Fifo!Get
    BY <2>1, <2>3 DEF Fifo!Get
  <2> QED
    BY <2>4 DEF Fifo!FifoNext
<1>4. CASE CloseStore
  <2>1. /\ ~closed /\ closed' = TRUE /\ tailAtClose' = tail
        /\ FirstStored' = FirstStored /\ UNCHANGED <<tail, value, cpc>>
    BY <1>4 DEF CloseStore, FirstStored, IInv, CloseInv
  <2>2. Fifo!Close
    BY <2>1, <1>0 DEF Fifo!Close
  <2> QED
    BY <2>2 DEF Fifo!FifoNext
<1>5. CASE PopTestEmpty
  <2>1. /\ closed /\ FirstStored = head /\ FirstStored' = FirstStored /\ cpc # "ended"
        /\ UNCHANGED <<tail, value, closed, tailAtClose>>
    BY <1>5 DEF PopTestEmpty, FirstStored, IInv, CloseInv
  <2>2. CASE cpc' = "ended"
    <3>1. head = tail
      BY <1>5, <2>2 DEF PopTestEmpty
    <3>2. contents = <<>> /\ contents' = contents
      BY <3>1, <2>1, <1>0, ContentsEmpty
    <3>3. Fifo!EndOfStream
      BY <2>1, <2>2, <3>2 DEF Fifo!EndOfStream
    <3> QED
      BY <3>3 DEF Fifo!FifoNext
  <2>3. CASE cpc' # "ended"
    BY <2>1, <2>3, <1>1
  <2> QED
    BY <2>2, <2>3
<1>6. CASE TryPopStoreHead BY <1>6, <1>1, <1>0 DEF TryPopStoreHead, FirstStored
<1>7. CASE PushBegin BY <1>7, <1>1 DEF PushBegin, FirstStored
<1>8. CASE TryPushClosed BY <1>8, <1>1 DEF TryPushClosed, FirstStored
<1>9. CASE TryPushFull BY <1>9, <1>1 DEF TryPushFull, FirstStored
<1>10. CASE TryPushEmplace BY <1>10, <1>1 DEF TryPushEmplace, FirstStored
<1>11. CASE TryPushBump BY <1>11, <1>1 DEF TryPushBump, FirstStored
<1>12. CASE TryPushNotify BY <1>12, <1>1 DEF TryPushNotify, FirstStored
<1>13. CASE PushTestClosed BY <1>13, <1>1 DEF PushTestClosed, FirstStored
<1>14. CASE PushLoadEpoch BY <1>14, <1>1 DEF PushLoadEpoch, FirstStored
<1>15. CASE PushRetestClosed BY <1>15, <1>1 DEF PushRetestClosed, FirstStored
<1>16. CASE PushRetestFull BY <1>16, <1>1 DEF PushRetestFull, FirstStored
<1>17. CASE PushWait BY <1>17, <1>1 DEF PushWait, FirstStored
<1>18. CASE PopBegin BY <1>18, <1>1 DEF PopBegin, FirstStored
<1>19. CASE PopForBegin BY <1>19, <1>1 DEF PopForBegin, FirstStored
<1>20. CASE TryPopTest BY <1>20, <1>1 DEF TryPopTest, FirstStored
<1>21. CASE TryPopBump BY <1>21, <1>1 DEF TryPopBump, FirstStored
<1>22. CASE TryPopNotify BY <1>22, <1>1 DEF TryPopNotify, FirstStored
<1>23. CASE PopTestClosed BY <1>23, <1>1 DEF PopTestClosed, FirstStored
<1>24. CASE PopLoadEpoch BY <1>24, <1>1 DEF PopLoadEpoch, FirstStored
<1>25. CASE PopRetestClosed BY <1>25, <1>1 DEF PopRetestClosed, FirstStored
<1>26. CASE PopRetestEmpty BY <1>26, <1>1 DEF PopRetestEmpty, FirstStored
<1>27. CASE PopWait BY <1>27, <1>1 DEF PopWait, FirstStored
<1>28. CASE PopForDeadline BY <1>28, <1>1 DEF PopForDeadline, FirstStored
<1>29. CASE CloseBumpData BY <1>29, <1>1 DEF CloseBumpData, FirstStored
<1>30. CASE CloseBumpSpace BY <1>30, <1>1 DEF CloseBumpSpace, FirstStored
<1>31. CASE CloseNotifyData BY <1>31, <1>1 DEF CloseNotifyData, FirstStored
<1>32. CASE CloseNotifySpace BY <1>32, <1>1 DEF CloseNotifySpace, FirstStored
<1>33. CASE UNCHANGED vars
  BY <1>33, <1>1 DEF vars, FirstStored
<1> QED
  BY <1>2, <1>3, <1>4, <1>5, <1>6, <1>7, <1>8, <1>9, <1>10, <1>11, <1>12, <1>13,
      <1>14, <1>15, <1>16, <1>17, <1>18, <1>19, <1>20, <1>21, <1>22, <1>23, <1>24,
      <1>25, <1>26, <1>27, <1>28, <1>29, <1>30, <1>31, <1>32, <1>33 DEF Next, Push,
      Pop, CloseRest, Terminated

\* The empty ring is the empty abstract queue.
LEMMA RefinementInit == Init /\ IInv => Fifo!FifoInit
<1> SUFFICES ASSUME Init, IInv PROVE Fifo!FifoInit
  OBVIOUS
<1>1. contents = <<>>
  BY ContentsValue, ContentsEmpty DEF Init, FirstStored
<1> QED
  BY <1>1 DEF Init, Fifo!FifoInit, Empty

\* The ring, its eventcounts and close() together implement the closable bounded
\* FIFO (its safety part; the fairness of the FIFO is checked by TLC).
THEOREM ImplementsFifoSafety == Spec => Fifo!FifoSafety
  BY InductiveInvariant, RefinementInit, RefinementStep, IInvInit, PTL
     DEF Spec, Fifo!FifoSafety
=============================================================================
